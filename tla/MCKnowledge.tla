----------------------------- MODULE MCKnowledge -----------------------------
(* Two versions of a small company with one family of products.             *)
EXTENDS Knowledge

Company == "company"

Fact(pos, id, subject, category, len, terms) ==
    [pos |-> pos, id |-> id, subject |-> subject, category |-> category, len |-> len,
     terms |-> terms, near |-> {}, label |-> terms, visible |-> TRUE,
     quote |-> FALSE, intake |-> FALSE]
Product(id, name, overview) ==
    [id |-> id, active |-> TRUE, name |-> name, label |-> name \cup {"product"}, overview |-> overview]

Greeting == Fact(1, "hello", Company, "social", 2, {"hello"})
Groups   == Fact(2, "groups", Company, "capability", 4, {"product"})
Types    == [Fact(3, "types", "family", "specification", 4, {"material"}) EXCEPT !.near = {"weight"}]
Details  == Fact(4, "details", "leaf", "specification", 4, {"weight"})
InStock  == Fact(5, "in_stock", "leaf", "availability", 3, {"stock"})
Prices   == Fact(6, "prices", Company, "commercial_rule", 3, {"price"})
Quote    == [Fact(7, "quote_question", Company, "commercial_rule", 3, {"price"})
               EXCEPT !.quote = TRUE, !.intake = TRUE]
People   == Fact(8, "people", Company, "support", 3, {})
Drawing  == [Fact(10, "quote_drawing_question", Company, "commercial_rule", 3, {"price"})
               EXCEPT !.intake = TRUE]
Secret   == [Fact(9, "secret", "leaf", "specification", 3, {"weight"}) EXCEPT !.visible = FALSE]

Published ==
    [facts |-> {Greeting, Groups, Types, Details, InStock, Prices, Quote, People, Secret},
     offerings |-> {Product("family", {"wheel"}, "types"), Product("leaf", {"nylon"}, "details")},
     isa |-> {<<"leaf", "family">>},
     smallTalk |-> {"hello"}, semantic |-> TRUE, unknown |-> "handoff", max |-> 22,
     menu |-> "groups", handoff |-> "people", nextStep |-> None,
     nextByTopic |-> [price |-> "quote_question"], fallbackLen |-> 5,
     boundary |-> [other |-> 3, clarify |-> 3, price |-> 4, remaining |-> 3],
     linked |-> {"family"}, quoteForm |-> "flow", contactLink |-> FALSE,
     carousels |-> {"groups", "types"}, media |-> {"leaf"}, completions |-> {"people"},
     starters |-> {"groups", "prices"}, starterTriggers |-> {"hello"}, siteFacts |-> {"people"}]

(* The version before it: no dialogue policy, no menu fact, no small talk   *)
(* to fall back on, and a product of which nothing is said.                 *)
Older ==
    [Published EXCEPT
       !.facts = {Greeting, Types, Details, InStock, Prices, Quote, Drawing},
       !.offerings = @ \cup {Product("spare", {"steel"}, None)},
       !.smallTalk = {}, !.isa = {}, !.handoff = None, !.siteFacts = {}, !.semantic = FALSE, !.menu = None, !.unknown = "ask_clarification",
       !.completions = {}, !.carousels = {}, !.starters = {"in_stock", "prices"}]

MCCatalogues == {Published, Older}
MCTexts == {{"hello"}, {"price"}, {"stock", "nylon"}, {"material", "wheel"}, {"weight", "detail"},
            {"price", "drawing"}, {"steel"}}
MCIntent == [w \in UNION MCTexts \cup {"product", "material"} |->
               IF w \in {"price", "stock"} THEN w ELSE "none"]
==============================================================================
