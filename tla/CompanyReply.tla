----------------------------- MODULE CompanyReply -----------------------------
(***************************************************************************)
(* What the customer bot says: CompanyAgentRuntime.reply and the semantic   *)
(* dialogue.  A turn is a menu button (answered by the server alone), a     *)
(* keyword decision of the model, or a plan of requests with evidence for   *)
(* each.  The model chooses; the server renders approved facts.             *)
(*                                                                         *)
(* A catalogue is one approved company configuration.  Texts are their      *)
(* lengths and words are tokens; what a word matches is data of the         *)
(* catalogue.  Catalogues, Texts and Topics are what an instance explores.  *)
(***************************************************************************)
EXTENDS Integers, FiniteSets, Sequences, SequencesExt

CONSTANTS Catalogues,    \* approved configurations, live one after another
          Texts,         \* token sets a customer may type
          Topics,        \* topics the planner may name
          Intent,        \* token -> the protected intent it shows, or "none"
          CueWords,      \* tokens that ask for business information
          SmallSpace,    \* catalogues of so few facts are shown whole (6 in the code)
          MaxRequests    \* requests the planner makes of one message, at most

None == "none"
Company == "company"
Protected == {"price", "stock", "delivery", "suitability", "warranty", "certification"}

CatalogueAssumption ==
    /\ MaxRequests \in Nat \ {0} /\ SmallSpace \in Nat
    /\ \A c \in Catalogues :
         /\ IsFiniteSet(c.facts) /\ IsFiniteSet(c.isa)
         /\ c.unknown \in {"handoff", "ask_clarification", "decline"}
         /\ \A f, g \in c.facts : f.id = g.id \/ f.pos = g.pos => f = g
         /\ \A f \in c.facts : f.id # None /\ f.pos \in Nat /\ f.len \in Nat \ {0}
         /\ Cardinality(c.facts) <= 24     \* so _FACT_CONTEXT_LIMIT cuts nothing
         \* publishability_errors: what the policy names is visible text
         /\ \A x \in ({c.menu, c.handoff, c.nextStep} \ {None}) :
              \E f \in c.facts : f.id = x /\ f.visible
         \* the graph of an approved configuration is closed
         /\ \A o \in c.offerings : o.overview # None =>
              \E f \in c.facts : f.id = o.overview /\ f.visible /\ f.subject = o.id
         /\ \A f \in c.facts : f.id \in c.smallTalk => f.category = "social"

VARIABLES live,      \* the published catalogue
          about,     \* the products of the last bot reply's facts
          stage,     \* idle | received | planned | answered | raised
          msg,       \* the message of this turn
          plan,      \* the requests the planner read in it
          turn       \* the reply

vars == <<live, about, stage, msg, plan, turn>>

-----------------------------------------------------------------------------
(* The catalogue                                                            *)

Visible(c) == {f \in c.facts : f.visible}
Ids(S) == {f.id : f \in S}
Named(c, id) == {f \in Visible(c) : f.id = id}
Offering(c, id) == {o \in c.offerings : o.id = id}
TextLen(c, ids) == MapThenSumSet(LAMBDA f : f.len, {f \in Visible(c) : f.id \in ids})

Parents(c, S) == {r[2] : r \in {x \in c.isa : x[1] \in S}}
(* _applicable_fact_subject_ids: the products and the families above them.  *)
Lineage(c, S) ==
    LET up[n \in 0 .. Cardinality(c.isa)] ==
          IF n = 0 THEN S ELSE up[n - 1] \cup Parents(c, up[n - 1])
    IN up[Cardinality(c.isa)]
(* _child_offering_ids *)
Children(c, id) == {r[1] : r \in {x \in c.isa : x[2] = id /\ \E o \in Offering(c, x[1]) : o.active}}

(* _fact_relevance_score: three for a word of the fact, one for a near one. *)
Score(f, words) == 3 * Cardinality(words \cap f.terms)
                     + Cardinality((words \ f.terms) \cap f.near)

(* The first n of S: by key, then in the order of the configuration.        *)
Cut(S, n, key) ==
    {f \in S : Cardinality({g \in S : key[g] > key[f] \/ (key[g] = key[f] /\ g.pos < f.pos)}) < n}
Scores(c, words) == [f \in c.facts |-> Score(f, words)]

ProtectedWords(words) == {w \in words : Intent[w] # "none"}
HasCue(words) == words \cap CueWords # {}

-----------------------------------------------------------------------------
(* The message: typed words, or the id behind a menu button.                *)

(* An alias is a phrase such as "merhaba" that stands for a fact, a form    *)
(* message the marker of a completed WhatsApp form.                         *)
Message(kind, id, words) == [kind |-> kind, id |-> id, words |-> words]
NoMessage == Message("text", None, {})
MenuKinds == {"fact", "product"}

(* _explicit_fact_action_id *)
ExplicitFact(c, m) == IF m.kind \in {"fact", "alias"} THEN Named(c, m.id) ELSE {}
(* _preferred_quote_fact_id *)
DrawingFact(c, m) == IF "drawing" \in m.words THEN Named(c, "quote_drawing_question") ELSE {}
(* _explicit_product_overview_fact_id *)
ProductOverview(c, m) ==
    IF m.kind # "product" THEN {}
    ELSE UNION {Named(c, o.overview) : o \in {x \in Offering(c, m.id) : x.active}}

(* _matched_offering_subject_ids; empty where the code returns None.        *)
MatchedProducts(c, m) ==
    IF m.kind = "product" /\ \E o \in Offering(c, m.id) : o.active
    THEN {m.id}
    ELSE LET hits(o) == Cardinality(m.words \cap o.name)
             named == {o \in c.offerings : hits(o) > 0}
         IN {o.id : o \in {x \in named : \A y \in named : hits(y) <= hits(x)}}

(* _context_subject_ids *)
ContextSubjects(c, ctx) ==
    {f.subject : f \in {x \in Visible(c) : /\ x.id \in ctx
                                           /\ x.category # "social"
                                           /\ x.subject # Company}}

(* _disambiguate_matched_subject_ids *)
Disambiguated(c, matched, recent) ==
    LET kin == {s \in matched : Lineage(c, {s}) \cap recent # {}}
    IN IF Cardinality(matched) <= 1 \/ recent = {} \/ kin = {} THEN matched ELSE kin

(* _protected_fact_is_eligible: an intent is answered by its own category.  *)
EligibleByWords(f, words) == Score(f, ProtectedWords(words)) > 0
Eligible(f, words) ==
    LET intents == {Intent[w] : w \in ProtectedWords(words)}
    IN /\ Score(f, ProtectedWords(words)) > 0
       /\ f.category # "social"
       /\ IF "quote" \in intents THEN f.intake
          ELSE IF "price" \in intents THEN f.category = "commercial_rule" /\ ~f.intake
          ELSE IF "stock" \in intents THEN f.category = "availability"
          ELSE IF "delivery" \in intents THEN f.category = "delivery"
          ELSE IF "suitability" \in intents THEN f.category = "eligibility"
          ELSE ~f.intake

(* _visible_facts, one part per idea: facts about the products the message  *)
(* names, else the best matches of its words ...                            *)
CompanyFacts(c, words) ==
    {f \in Visible(c) : f.subject = Company /\ f.category # "social" /\ Score(f, words) > 0}

ProductFacts(c, m, matched) ==
    LET facts(S) == {f \in Visible(c) : f.subject \in S}
        names == UNION {o.name : o \in {x \in c.offerings : x.id \in matched}}
        inherited == {f \in facts(Lineage(c, matched) \ matched) : Score(f, m.words \ names) > 0}
        company == CompanyFacts(c, m.words)
        rank == [f \in c.facts |-> IF f.subject \in matched THEN 2 ELSE IF f \in inherited THEN 1 ELSE 0]
        nearest == [f \in c.facts |-> IF f.subject = Company THEN 0 ELSE 1]
    IN IF facts(matched) # {}
       THEN Cut(facts(matched) \cup inherited \cup company, 12, rank)
       ELSE Cut(facts(Parents(c, matched)) \cup company, 12, nearest)

BestMatches(c, words) ==
    LET score == Scores(c, words)
        best == {f \in Visible(c) : \A g \in Visible(c) : score[g] <= score[f] + 1}
    IN Cut({f \in best : score[f] > 0}, 12, score)

(* ... a follow-up stays with the products of the last reply ...            *)
FollowUp(c, words, recent, found) ==
    LET score == Scores(c, words)
        scope == {f \in Visible(c) : /\ f.category # "social"
                                     /\ f.subject \in recent \cup Parents(c, recent)}
        product == {f \in scope : score[f] > 0}
        company == Cut(CompanyFacts(c, words), 6, score)
    IN CASE scope = {} -> found
         [] scope # {} /\ product # {} /\ company # {} -> Cut(company, 3, score) \cup Cut(product, 3, score)
         [] scope # {} /\ product = {} /\ company = {} ->
              {f \in found : f.category = "social"} \cup scope
         [] OTHER -> IF company # {} THEN company ELSE Cut(product, 6, score)

(* ... a protected intent admits only its own evidence, and any other       *)
(* message may also be small talk.                                          *)
Guarded(c, words, found) ==
    {f \in found \cup {g \in Visible(c) : /\ g.subject = Company /\ g.category # "social"
                                          /\ Score(g, ProtectedWords(words)) > 0} :
        Eligible(f, words)}

WithSmallTalk(c, words, found) ==
    IF HasCue(words) /\ \E f \in found : f.category # "social"
    THEN found
    ELSE found \cup {f \in Visible(c) : f.id \in c.smallTalk}

Retrieved(c, m, recent) ==
    LET matched == Disambiguated(c, MatchedProducts(c, m), recent)
        found == IF matched # {} THEN ProductFacts(c, m, matched)
                 ELSE FollowUp(c, m.words, recent, BestMatches(c, m.words))
    IN IF ProtectedWords(m.words) # {} THEN Guarded(c, m.words, found)
       ELSE WithSmallTalk(c, m.words, found)

(* ... and the model reads all of a small catalogue when nothing is found.  *)
ShownWhole(c, m, recent) ==
    /\ Retrieved(c, m, recent) = {} /\ ProtectedWords(m.words) = {}
    /\ Cardinality(Visible(c)) <= SmallSpace

Candidates(c, m, recent) ==
    IF ExplicitFact(c, m) # {} THEN ExplicitFact(c, m)
    ELSE IF DrawingFact(c, m) # {} THEN DrawingFact(c, m)
    ELSE IF ShownWhole(c, m, recent) THEN Visible(c) ELSE Retrieved(c, m, recent)

-----------------------------------------------------------------------------
(* What goes with a reply: _suggest_interaction, in its order of precedence. *)

NoInteraction == [kind |-> None, options |-> {}]
ProductButton(o) == Message("product", o.id, o.label)
FactButton(f) == Message("fact", f.id, f.label)

(* Every button a reply under c may have left in the chat.                  *)
MenuButtons(c) ==
    {ProductButton(o) : o \in {x \in c.offerings : \E y \in c.offerings : x.id \in Children(c, y.id)}}
      \cup {FactButton(f) : f \in {x \in Visible(c) : x.id \in c.starters}}

HasLink(c, subject) == Lineage(c, {subject}) \cap c.linked # {}
Starters(c, ids) ==
    IF c.starters # {}
    THEN IF ids \cap c.starterTriggers # {} THEN c.starters ELSE {}
    ELSE IF "welcome" \in ids
         THEN {"all_product_groups", "company_overview", "quote_product_question"} ELSE {}

Interaction(c, action, len, facts, m) ==
    LET ids == ToSet(facts)
        quote == \E f \in c.facts : f.id \in ids /\ f.quote
        subjects == SelectSeq([i \in DOMAIN facts |-> (CHOOSE f \in c.facts : f.id = facts[i]).subject],
                           LAMBDA s : s # Company)
        product == IF Cardinality(MatchedProducts(c, m)) = 1
                   THEN CHOOSE s \in MatchedProducts(c, m) : TRUE
                   ELSE IF subjects # <<>> THEN Head(subjects) ELSE None
        menu == {ProductButton(o) : o \in {x \in c.offerings : x.id \in Children(c, product)}}
        starters == {FactButton(f) : f \in {x \in Visible(c) : x.id \in Starters(c, ids)}}
    IN CASE action # "reply" \/ len > 1024 -> NoInteraction
         [] action = "reply" /\ len <= 1024 ->
            IF quote /\ c.quoteForm # None THEN [kind |-> c.quoteForm, options |-> {}]
            ELSE IF ~quote /\ "contact_information" \in ids /\ c.contactLink
            THEN [kind |-> "link", options |-> {}]
            ELSE IF ids \cap c.carousels # {} THEN [kind |-> "carousel", options |-> {}]
            ELSE IF menu # {} THEN [kind |-> "menu", options |-> menu]
            ELSE IF product # None /\ HasLink(c, product) THEN [kind |-> "link", options |-> {}]
            ELSE IF starters # {} THEN [kind |-> "menu", options |-> starters]
            ELSE IF ids \cap c.siteFacts # {} THEN [kind |-> "link", options |-> {}]
            ELSE NoInteraction

-----------------------------------------------------------------------------
(* The server's own answers                                                 *)

Turn(action, facts, len, source) ==
    [action |-> action, facts |-> facts, len |-> len, source |-> source,
     said |-> {}, trace |-> <<>>, interaction |-> NoInteraction]
NoTurn == Turn(None, <<>>, 0, None)

Reply(t, m) ==
    /\ stage' = "answered"
    /\ turn' = [t EXCEPT !.interaction =
                   Interaction(live, t.action, t.len, t.facts, m)]

(* safe_unknown_fact_turn: raises when even its text is over the limit.     *)
Unknown(source) ==
    IF live.fallbackLen > live.max
    THEN stage' = "raised" /\ turn' = NoTurn
    ELSE /\ stage' = "answered"
         /\ turn' = Turn(live.unknown,
                         IF live.unknown = "handoff" /\ live.handoff # None
                         THEN <<live.handoff>> ELSE <<>>, live.fallbackLen, source)

(* parse_customer_reply: a decision the server accepts.                     *)
Accepts(c, cited, action, facts) ==
    LET chosen == {f \in cited : f.id \in ToSet(facts)}
    IN /\ Len(facts) <= 2 /\ ToSet(facts) \subseteq Ids(cited) /\ IsInjective(facts)
       /\ (\E f \in chosen : f.category = "social") => Len(facts) = 1
       /\ IF action = "reply"
          THEN facts # <<>> /\ TextLen(c, ToSet(facts)) + Len(facts) - 1 <= c.max
          ELSE facts = <<>> /\ action = c.unknown /\ c.fallbackLen <= c.max

-----------------------------------------------------------------------------
(* The semantic dialogue: evidence for each request of a plan               *)

Request == [subject : {o.id : o \in {x \in live.offerings : x.active}} \cup {Company, "unknown"},
            topic : Topics]

(* _PROTECTED_CATEGORIES and the topic filters of request_candidates.       *)
Categories(topic) ==
    CASE topic = "price"         -> {"commercial_rule"}
      [] topic = "stock"         -> {"availability"}
      [] topic = "delivery"      -> {"delivery"}
      [] topic = "suitability"   -> {"eligibility"}
      [] topic = "warranty"      -> {"support"}
      [] topic = "certification" -> {"capability", "support"}
      [] topic = "quote"         -> {"commercial_rule", "eligibility"}
      [] topic = "contact"       -> {"support"}
      [] topic = "details"       -> {"specification", "capability"}
      [] OTHER                   -> {f.category : f \in live.facts} \ {"social"}

(* Inside the lineage of the subject; the model never sees other products'. *)
InScope(c, r) == {f \in Visible(c) : f.subject \in Lineage(c, {r.subject}) \cup {Company}}

RequestCandidates(c, r) ==
    LET usable == {f \in Visible(c) : f.id \notin c.completions}
        own == [f \in c.facts |-> IF f.subject = r.subject THEN 1 ELSE 0]
    IN CASE r.subject = "unknown" -> {}
         [] r.subject # "unknown" /\ r.topic = "social" -> {f \in usable : f.category = "social"}
         [] r.subject # "unknown" /\ r.topic = "visuals" ->
              {f \in usable : \E o \in Offering(c, r.subject) :
                 o.overview = f.id /\ (o.id \in c.media \/ f.id \in c.carousels)}
         [] OTHER -> Cut({f \in usable \cap InScope(c, r) :
                            /\ f.category \in Categories(r.topic)
                            /\ r.topic = "price" => ~f.quote}, 8, own)

(* decide_evidence: what the model may say of request r, and what the       *)
(* server makes of it.                                                      *)
Supported(c, r, d) ==
    /\ ToSet(d.facts) \subseteq Ids(RequestCandidates(c, r)) /\ IsInjective(d.facts)
    /\ (d.status = "answered") <=> (d.facts # <<>>)
    /\ r.topic = "social" => Len(d.facts) <= 1

Settled(c, r, d) ==
    IF r.subject = "unknown" THEN [status |-> "clarify", facts |-> <<>>]
    ELSE IF r.topic = "visuals" /\ RequestCandidates(c, r) # {}
    THEN [status |-> "answered",
          facts |-> <<(CHOOSE f \in RequestCandidates(c, r) : TRUE).id>>]
    ELSE d

(* compose_reply: every request is answered, refused in the company's words *)
(* or put off in the company's words, within the channel's limit.           *)
Boundary(c, r, d) ==
    IF d.status = "clarify" THEN "clarify"
    ELSE IF r.topic \in DOMAIN c.boundary THEN r.topic ELSE "other"
Remaining(c) == IF "remaining" \in DOMAIN c.boundary THEN "remaining" ELSE "other"
Joined(n, len) == len + 2 * (n - 1)

(* What the reply says beyond its facts; a part put off is announced.       *)
SaidOfMissing(c, said, trace) == said
Said(c, said, trace) ==
    said \cup (IF \E i \in DOMAIN trace : trace[i].status = "deferred" THEN {Remaining(c)} ELSE {})

Missing(ds) == {i \in DOMAIN ds : ds[i].status # "answered"}
ActionOf(c, ds) ==
    IF Missing(ds) # DOMAIN ds THEN "reply"
    ELSE IF \A i \in DOMAIN ds : ds[i].status = "clarify" THEN "ask_clarification" ELSE c.unknown

NextStep(c, p, ds) ==
    LET refused == {i \in DOMAIN ds : ds[i].status = "unavailable"}
        byTopic == {i \in refused : p[i].topic \in DOMAIN c.nextByTopic}
    IN IF ActionOf(c, ds) = "handoff" THEN c.handoff
       ELSE IF byTopic # {} THEN c.nextByTopic[p[Min(byTopic)].topic]
       ELSE IF refused # {} THEN c.nextStep ELSE None

(* What follows the facts: its parts and their length.                      *)
Suffix(c, said, next) ==
    [n |-> Cardinality(said) + (IF next = None THEN 0 ELSE 1),
     len |-> MapThenSumSet(LAMBDA t : c.boundary[t], said)
               + (IF next = None THEN 0 ELSE TextLen(c, {next}))]
Budget(c) == IF c.max < 1024 THEN c.max ELSE 1024

(* The ids of a part that are not rendered yet, in its order.               *)
Unseen(ids, rendered) ==
    LET rest[n \in 0 .. Len(ids)] ==
          IF n = 0 THEN <<>>
          ELSE IF ids[n] \in rendered THEN rest[n - 1] ELSE Append(rest[n - 1], ids[n])
    IN rest[Len(ids)]

(* One request after the other: a part is rendered, or put off when it does *)
(* not fit with what has to follow.                                         *)
NoParts == [facts |-> <<>>, n |-> 0, len |-> 0, trace |-> <<>>]
Fits(c, suffix, acc, new) ==
    Joined(acc.n + Cardinality(new) + suffix.n + 1,
           acc.len + TextLen(c, new) + suffix.len + c.boundary[Remaining(c)]) <= Budget(c)
AddPart(c, suffix, acc, d) ==
    LET new == ToSet(d.facts) \ ToSet(acc.facts)
    IN IF new # {} /\ ~Fits(c, suffix, acc, new)
       THEN [acc EXCEPT !.trace = Append(@, [status |-> "deferred", facts |-> <<>>])]
       ELSE [facts |-> acc.facts \o Unseen(d.facts, ToSet(acc.facts)),
             n |-> acc.n + Cardinality(new), len |-> acc.len + TextLen(c, new),
             trace |-> Append(acc.trace, d)]
Parts(c, suffix, ds, n) ==
    LET upTo[k \in 0 .. n] == IF k = 0 THEN NoParts ELSE AddPart(c, suffix, upTo[k - 1], ds[k])
    IN upTo[n]

Compose(c, p, ds) ==
    LET said == {Boundary(c, p[i], ds[i]) : i \in Missing(ds)}
        next == NextStep(c, p, ds)
        suffix == Suffix(c, said, next)
        body == Parts(c, suffix, ds, Len(p))
        late == IF \E i \in DOMAIN ds : body.trace[i].status = "deferred" THEN 1 ELSE 0
    IN [Turn(ActionOf(c, ds),
             IF next = None \/ next \in ToSet(body.facts) THEN body.facts
             ELSE Append(body.facts, next),
             Joined(body.n + suffix.n + late,
                    body.len + suffix.len + late * c.boundary[Remaining(c)]),
             "model")
        EXCEPT !.said = Said(c, said, body.trace), !.trace = body.trace]

-----------------------------------------------------------------------------
(* One turn                                                                 *)

Init ==
    /\ live \in Catalogues
    /\ about = {} /\ stage = "idle"
    /\ msg = NoMessage /\ plan = <<>> /\ turn = NoTurn

(* The customer types, sends a form or presses a button that any version    *)
(* has left in the chat.                                                    *)
Receive ==
    /\ stage = "idle"
    /\ msg' \in {Message("text", None, w) : w \in Texts}
                \cup {Message("alias", f.id, {}) : f \in Visible(live)}
                \cup {Message("form", None, {})}
                \cup UNION {MenuButtons(c) : c \in Catalogues}
    /\ stage' = "received"
    /\ UNCHANGED <<live, about, plan, turn>>

(* The acknowledgement of a form, when the configuration has just one.      *)
FormDone(c, m) == IF m.kind = "form" /\ Cardinality(c.completions) = 1
                  THEN {f \in Visible(c) : f.id \in c.completions} ELSE {}

Acknowledge ==
    /\ stage = "received" /\ FormDone(live, msg) # {}
    /\ \E f \in FormDone(live, msg) :
         turn' = Turn("reply", <<f.id>>, f.len, "guided")
    /\ stage' = "answered"
    /\ UNCHANGED <<live, about, msg, plan>>

(* The fact a button or an alias leads to; a stale button leads to the menu *)
(* of the live version.                                                     *)
Guided(c, m) ==
    IF ExplicitFact(c, m) # {} THEN ExplicitFact(c, m)
    ELSE IF ProductOverview(c, m) # {} THEN ProductOverview(c, m)
    ELSE IF m.kind \in MenuKinds THEN Named(c, c.menu) ELSE {}

(* The guided fact goes through the same gate as a decision of the model,   *)
(* and this call is not inside the try that catches a refusal.              *)
Navigate ==
    /\ stage = "received" /\ FormDone(live, msg) = {}
    /\ Guided(live, msg) # {} \/ msg.kind \in MenuKinds
    /\ IF Guided(live, msg) = {} THEN Unknown("guided")
       ELSE \E f \in Guided(live, msg) :
              IF Accepts(live, Candidates(live, msg, about), "reply", <<f.id>>)
              THEN Reply(Turn("reply", <<f.id>>, f.len, "guided"), msg)
              ELSE stage' = "raised" /\ turn' = NoTurn
    /\ UNCHANGED <<live, about, msg, plan>>

ToModel == /\ FormDone(live, msg) = {} /\ Guided(live, msg) = {}
           /\ msg.kind \notin MenuKinds

(* A configuration without a dialogue policy: one decision of the model,    *)
(* or any error, which ends in the server's own answer.                     *)
Decide ==
    /\ stage = "received" /\ ToModel /\ ~live.semantic
    /\ \/ Unknown("fallback")
       \/ \E action \in {"reply", "handoff", "ask_clarification", "decline"},
             facts \in BoundedSeq(Ids(live.facts), 2) :
            IF Accepts(live, Candidates(live, msg, about), action, facts)
            THEN IF action = "reply"
                 THEN Reply(Turn(action, facts, TextLen(live, ToSet(facts)) + Len(facts) - 1,
                                 "model"), msg)
                 ELSE Unknown("model")
            ELSE Unknown("fallback")
    /\ UNCHANGED <<live, about, msg, plan>>

(* interpret_requests *)
Plan ==
    /\ stage = "received" /\ ToModel /\ live.semantic
    /\ \/ Unknown("fallback") /\ UNCHANGED plan
       \/ /\ plan' \in BoundedSeq(Request, MaxRequests) \ {<<>>}
          /\ stage' = "planned" /\ UNCHANGED turn
    /\ msg' = NoMessage      \* the plan stands for it from here on
    /\ UNCHANGED <<live, about>>

(* decide_evidence and compose_reply.  The model cites facts it was shown.  *)
Answer ==
    LET shown == UNION {Ids(RequestCandidates(live, plan[i])) : i \in DOMAIN plan}
        Decision == [status : {"answered", "unavailable", "clarify"},
                     facts : BoundedSeq(shown, 2)]
    IN /\ stage = "planned"
       /\ \/ Unknown("fallback")
          \/ \E ds \in [DOMAIN plan -> Decision] :
               LET final == [i \in DOMAIN plan |-> Settled(live, plan[i], ds[i])]
                   t == Compose(live, plan, final)
                   visual == {i \in DOMAIN plan : plan[i].topic = "visuals"
                                                  /\ final[i].status = "answered"}
               IN IF \/ \E i \in DOMAIN plan : ~Supported(live, plan[i], ds[i])
                     \/ t.len > Budget(live)
                  THEN Unknown("fallback")
                  ELSE /\ stage' = "answered"
                       /\ turn' = [t EXCEPT !.interaction =
                            Interaction(live, t.action, t.len,
                                        IF visual = {} THEN t.facts ELSE final[Min(visual)].facts,
                                        NoMessage)]
       /\ UNCHANGED <<live, about, msg, plan>>

(* The worker sends the reply, or fails the job of a turn that raised; what *)
(* the reply's facts are about is the context of the next turn.             *)
Close ==
    /\ stage \in {"answered", "raised"}
    /\ about' = IF stage = "raised" THEN about ELSE ContextSubjects(live, ToSet(turn.facts))
    /\ stage' = "idle" /\ plan' = <<>> /\ turn' = NoTurn
    /\ msg' = NoMessage
    /\ UNCHANGED live

(* A version is published: the context of the old one is not carried over. *)
Publish ==
    /\ stage = "idle"
    /\ live' \in Catalogues \ {live} /\ about' = {}
    /\ UNCHANGED <<stage, msg, plan, turn>>

Next == Receive \/ Acknowledge \/ Navigate \/ Decide \/ Plan \/ Answer \/ Close \/ Publish

Spec == Init /\ [][Next]_vars

-----------------------------------------------------------------------------
TypeOK ==
    /\ live \in Catalogues
    /\ stage \in {"idle", "received", "planned", "answered", "raised"}
    /\ about \subseteq {f.subject : f \in Visible(live)} \ {Company}
    /\ Len(plan) <= MaxRequests
    /\ turn.action \in {None, "reply", "handoff", "ask_clarification", "decline"}

(* Each part of an answered request rests on visible facts about the        *)
(* product asked for, the families above it or the company, and a protected *)
(* topic only on its own category: nothing is transferred between products. *)
(* Small talk answers small talk, or pictures of what it introduces.        *)
EvidenceInScope ==
    \A i \in DOMAIN turn.trace : turn.trace[i].status = "answered" =>
      \A id \in ToSet(turn.trace[i].facts) :
        \E f \in InScope(live, plan[i]) \cup {g \in Visible(live) : g.category = "social"} :
          /\ f.id = id
          /\ f.category = "social" => plan[i].topic \in {"social", "visuals"}
          /\ plan[i].topic \in Protected => f.category \in Categories(plan[i].topic)
          /\ plan[i].topic = "price" => ~f.quote

(* A request is never dropped in silence: it is rendered, or the reply      *)
(* says in the company's words that it cannot be answered, or not yet.      *)
NoNeedDropped ==
    stage = "answered" => \A i \in DOMAIN turn.trace :
      CASE turn.trace[i].status = "answered" ->
             ToSet(turn.trace[i].facts) \subseteq ToSet(turn.facts)
        [] turn.trace[i].status = "deferred" -> Remaining(live) \in turn.said
        [] OTHER -> Boundary(live, plan[i], turn.trace[i]) \in turn.said

(* A reply the model chose by itself, without a plan.  A message about a    *)
(* drawing is answered by the drawing question, whatever else it asks.      *)
Chosen ==
    /\ stage = "answered" /\ turn.source = "model" /\ turn.trace = <<>> /\ turn.action = "reply"
    /\ DrawingFact(live, msg) = {}

(* Without a plan, a message that asks for a price, a stock, a delivery or  *)
(* a suitability is never answered with a fact of another category or with  *)
(* small talk.                                                              *)
ProtectedByCategory ==
    Chosen => \A f \in Visible(live) : f.id \in ToSet(turn.facts) =>
      /\ ProtectedWords(msg.words) # {} => f.category # "social"
      /\ {Intent[w] : w \in ProtectedWords(msg.words)} = {"price"}
           => f.category = "commercial_rule" /\ ~f.intake
      /\ {Intent[w] : w \in ProtectedWords(msg.words)} = {"stock"}
           => f.category = "availability"

(* Without a plan, a reply to a message that names a product is about that  *)
(* product, a family above it or the company; one that names none stays     *)
(* with the products of the reply before it, if there were any.  Only small *)
(* talk, and a small catalogue in which nothing is found, are not so bound. *)
FollowUpKeepsSubject ==
    Chosen /\ ~ShownWhole(live, msg, about) =>
      LET matched == MatchedProducts(live, msg)
          allowed == IF matched # {} THEN Lineage(live, matched)
                     ELSE about \cup Parents(live, about)
      IN allowed = {} \/ \A f \in Visible(live) :
           f.id \in ToSet(turn.facts) /\ f.category # "social" => f.subject \in allowed \cup {Company}
==============================================================================
