----------------------------- MODULE MCConsole -----------------------------
(***************************************************************************)
(* A small console: interchangeable people and calls; the messages that    *)
(* the planner tells apart; goals and what they find stored.               *)
(***************************************************************************)
EXTENDS Console, TLC

MCPayloads == {[role |-> "viewer", active |-> "keep"], [role |-> "keep", active |-> "false"],
               [role |-> "tenant_owner", active |-> "true"]}

Symmetry == Permutations(Emails) \cup Permutations(Calls)

\* A question, orders to send, save and cancel, one that brings a number, one
\* not to send, a bare approval, and the buttons that send and apply.
Text(words) == [words |-> words, negated |-> FALSE, phone |-> FALSE, bare |-> FALSE, guided |-> FALSE]
MCTexts ==
    {Text("none"), Text("send"), Text("save"), Text("cancel"),
     [Text("send") EXCEPT !.phone = TRUE], [Text("send") EXCEPT !.negated = TRUE],
     [Text("approve") EXCEPT !.bare = TRUE], [Text("send") EXCEPT !.guided = TRUE],
     [Text("approve") EXCEPT !.guided = TRUE]}

MCGoalLists == {<<"conversation", "delivery">>, <<"workflow", "records">>,
                <<"workflow", "workflow">>, <<"request", "unsupported">>, <<"analytics">>}

\* Two conversations that answer to a name, or none; a history of two pages or one.
World(inbox, requests, talk, selected, long, opened) ==
    [inbox |-> inbox, requests |-> requests, talk |-> talk, selected |-> selected,
     long |-> long, card |-> opened]
MCWorlds == {World(2, 1, 1, FALSE, FALSE, "open"), World(1, 0, 2, TRUE, FALSE, "none"),
             World(0, 1, 2, FALSE, FALSE, "running"), World(1, 1, 1, TRUE, TRUE, "open")}
=============================================================================
