------------------------------ MODULE TaskRunner ------------------------------
(***************************************************************************)
(* The task executor of the operator assistant (admin_chat/task_runner.py, *)
(* task_tools.py): one turn in which a model is asked again and again for  *)
(* the next tool call, until it answers every goal of the operator from    *)
(* what the calls returned.  Which step the model asks for is a choice of  *)
(* the environment; what the server accepts is the code's.                 *)
(*                                                                         *)
(* A list is named by the tool that reads it and by what it is a list of;  *)
(* the pages of the inbox hold one conversation each.  A turn is one       *)
(* transaction: a failure of it leaves the cards as they were.             *)
(***************************************************************************)
EXTENDS Naturals, Sequences, FiniteSetsExt, Functions

CONSTANTS
    GoalLists,   \* the lists of goals that the planner may quote
    Worlds,      \* what may be stored: records, pages, a card already open
    MaxSteps,    \* MAX_STEPS of the loop
    MaxErrors,   \* bound: calls that end in an expected error
    MaxPages,    \* bound: pages of a list
    Room         \* bound: observations that fit the context of the model uncut

BoundsAreNatural == {MaxSteps, MaxErrors, MaxPages, Room} \subseteq Nat

VARIABLES
    goals,      \* the goals of the turn: the sequence of their kinds
    world,      \* what the tools read: pages of each list, long messages
    steps,      \* answers of the model so far
    obs,        \* the observations, in order
    refused,    \* fingerprints of calls that ended in a ValueError
    cut,        \* truncated: the model saw only a part of the evidence
    phase,      \* "loop", "broken", "accepted", "done" or "failed"
    outcomes,   \* per goal: status and evidence
    cards       \* the operator's workflow cards: kind, goal, tool, status

vars == <<goals, world, steps, obs, refused, cut, phase, outcomes, cards>>

Kinds == {"records", "conversation", "request", "delivery", "analytics", "workflow", "unsupported"}
Goals == 1 .. Len(goals)

\* What may be asked and stored: goals of these kinds; lists, and their pages.
TasksAreStored ==
    /\ GoalLists \subseteq Seq(Kinds)
    /\ Worlds \subseteq [inbox : Nat, requests : Nat, talk : Nat \ {0}, selected : BOOLEAN,
                         long : BOOLEAN, card : {"none", "open", "paused", "running"}]

Of(category, n) == [category |-> category, n |-> n]
Nothing == Of("none", 0)
Inbox == Of("inbox", 0)
Drafted == Of("requests", 0)

\* What a conversation or a request holds, and how many records a search finds.
Found(list) == IF list = Inbox THEN world.inbox ELSE world.requests
PagesOf(tool, list) ==
    CASE tool = "search" -> Max({1, Found(list)})
      [] tool \in {"conversation", "request"} -> world.talk
      [] OTHER -> 1

\* The references: the conversation of an open card, and what searches returned.
References ==
    (IF world.selected THEN {Of("inbox", 1)} ELSE {})
    \cup {Of(o.of.category, o.page) :
            o \in {p \in Range(obs) : p.tool = "search" /\ ~p.error /\ p.page <= Found(p.of)}}

Fingerprint(tool, goal, list, page) == [tool |-> tool, goal |-> goal, of |-> list, page |-> page]
FingerprintOf(o) == Fingerprint(o.tool, o.goal, o.of, o.page)
Seen == {FingerprintOf(o) : o \in Range(obs)} \cup refused

Observation(call, error) ==
    [tool |-> call.tool, goal |-> call.goal, of |-> call.of, page |-> call.page,
     more |-> ~error /\ call.page < PagesOf(call.tool, call.of),
     total |-> IF call.tool = "search" /\ ~error THEN Found(call.of) ELSE 0,
     error |-> error]

\* bounded_context and compact: long texts and long histories reach the model cut.
Truncates(seen) ==
    \/ Len(seen) > Room
    \/ world.long /\ \E o \in Range(seen) : o.tool = "conversation" /\ ~o.error

Blank == [status |-> "none", evidence |-> {}]

-----------------------------------------------------------------------------
(* The cards (workflows.start, pause_others).                              *)

Card(kind, goal, tool, status) == [kind |-> kind, goal |-> goal, tool |-> tool, status |-> status]
Busy == \E c \in cards : c.status = "running"
Paused(set) == {IF c.status = "open" THEN [c EXCEPT !.status = "paused"] ELSE c : c \in set}

Init ==
    /\ goals \in GoalLists
    /\ world \in Worlds
    /\ steps = 0 /\ obs = << >> /\ refused = {} /\ cut = FALSE
    /\ phase = "loop"
    /\ outcomes = [g \in Goals |-> Blank]
    /\ cards = IF world.card = "none" THEN {} ELSE {Card("old", 0, "none", world.card)}

-----------------------------------------------------------------------------
(* One turn of the loop.                                                   *)

Step ==
    /\ phase = "loop" /\ steps < MaxSteps
    /\ steps' = steps + 1
    /\ UNCHANGED <<goals, world>>

\* A ValueError before the call, or a verifier that is not satisfied: feedback.
Repair ==
    /\ Step
    /\ UNCHANGED <<obs, refused, cut, phase, outcomes, cards>>

\* A time limit or a model that does not answer ends the loop without an answer.
Stop ==
    /\ phase = "loop"
    /\ phase' = "broken"
    /\ UNCHANGED <<goals, world, steps, obs, refused, cut, outcomes, cards>>

\* An error that is not one of the expected ones fails the turn: rolled back.
Fail ==
    /\ phase' = "failed"
    /\ cards' = {c \in cards : c.kind = "old"}
    /\ UNCHANGED <<obs, refused, cut, outcomes>>

Observe(call, error) ==
    /\ error => Cardinality({o \in Range(obs) : o.error}) < MaxErrors
    /\ obs' = Append(obs, Observation(call, error))
    /\ cut' = (cut \/ Truncates(obs'))
    /\ UNCHANGED <<refused, phase, outcomes>>

Lists(tool) ==
    CASE tool = "search" -> {Inbox, Drafted}
      [] tool \in {"conversation", "delivery"} ->
            {Of("inbox", n) : n \in 1 .. MaxPages}
      [] tool = "request" -> {Of("requests", 1)}
      [] OTHER -> {Nothing}
Paged == {"search", "conversation", "request"}

\* The calls that may serve a goal of this turn: its own tool, or a search, for a
\* page that is there.
Useful(g) == {"search", goals[g]} \cap (Paged \cup {"delivery", "analytics"})
Readable ==
    UNION {UNION {UNION {{Fingerprint(t, g, l, p) : p \in 1 .. PagesOf(t, l)} : l \in Lists(t)} :
                  t \in Useful(g)} : g \in Goals}

\* task_tools.read.
Read(call) ==
    /\ Step
    /\ call \notin Seen
    /\ call.tool \in {"conversation", "request", "delivery"} => call.of \in References
    /\ \E error \in BOOLEAN : Observe(call, error)
    /\ UNCHANGED cards

\* A reference that no tool returned; the call counts as made.
ReadUnknown(call) ==
    /\ Step
    /\ call \notin Seen
    /\ call.tool \in {"conversation", "request", "delivery"} /\ call.of \notin References
    /\ refused' = refused \cup {call}
    /\ UNCHANGED <<obs, cut, phase, outcomes, cards>>

\* task_tools.prepare: a second planner reads the words of the goal alone.
Preparing(g) == Fingerprint("prepare", g, Nothing, 1)

Prepare(g) ==
    /\ Step
    /\ goals[g] = "workflow" /\ Preparing(g) \notin Seen
    /\ ~Busy
    /\ Observe(Preparing(g), FALSE)
    /\ cards' = Paused(cards) \cup {Card("review", g, "prepare", "open")}

\* It did not ask for a new review of a change.
PrepareRefused(g) ==
    /\ Step
    /\ Preparing(g) \notin Seen
    /\ refused' = refused \cup {Preparing(g)}
    /\ UNCHANGED <<obs, cut, phase, outcomes, cards>>

\* An operator without the right, or a field that the card refuses: by then the
\* other cards have been paused (workflows.start).
PrepareFails(g) ==
    /\ Step
    /\ goals[g] = "workflow" /\ Preparing(g) \notin Seen
    /\ Observe(Preparing(g), TRUE)
    /\ cards' \in {cards} \cup (IF Busy THEN {} ELSE {Paused(cards)})

\* A running card refuses to be paused (409), which is not an expected error.
PrepareConflicts(g) ==
    /\ Step
    /\ goals[g] = "workflow" /\ Preparing(g) \notin Seen
    /\ Busy
    /\ Fail

-----------------------------------------------------------------------------
(* The answer (completion).                                                *)

Tool(kind) ==
    CASE kind = "records" -> "search" [] kind = "workflow" -> "prepare" [] OTHER -> kind
Where(kind) == IF kind \in {"conversation", "delivery"} THEN Inbox ELSE Drafted

Cited(evidence) == {obs[i] : i \in evidence}

\* Faulty: only the end of the list is looked for.
EndIsMissing(reads) ==
    \E o \in reads : o.more /\ \A r \in reads : r.of = o.of => r.page <= o.page

\* incomplete_pages: the last page read has a next one, or a page before it is missing.
IsIncomplete(reads) ==
    \E o \in reads :
        LET pages == {r.page : r \in {r \in reads : r.of = o.of}}
        IN o.page = Max(pages) /\ (o.more \/ pages # 1 .. o.page)

\* "A prepared change belongs to its original write goal".
Borrowed(g, evidence) ==
    goals[g] = "workflow" /\ \E o \in Cited(evidence) : o.tool = "prepare" /\ o.goal # g

State(g, evidence) ==
    LET performed == {o \in Cited(evidence) : o.tool = Tool(goals[g]) /\ ~o.error}
        searches == {o \in Cited(evidence) :
                        o.tool = "search" /\ o.of = Where(goals[g]) /\ ~o.error}
    IN IF goals[g] = "unsupported" THEN "unsupported"
       ELSE IF evidence = {} \/ Borrowed(g, evidence) THEN "refused"
       ELSE IF performed # {} THEN
            IF goals[g] = "workflow" THEN "awaiting_review"
            ELSE IF IsIncomplete(performed) THEN "partial" ELSE "completed"
       ELSE IF searches # {} /\ \A o \in searches : o.total = 0 THEN "not_found"
       ELSE IF \E o \in searches : o.total > 1 THEN "needs_selection"
       ELSE IF \E o \in Cited(evidence) : o.error THEN "blocked"
       ELSE "refused"

Answers == [Goals -> SUBSET DOMAIN obs]
Accepted(answers) == \A g \in Goals : State(g, answers[g]) # "refused"

\* The text of a write goal is the server's: it looks for the prepare cited.
Announced(answers) ==
    \A g \in Goals : goals[g] = "workflow" =>
        \E o \in Cited(answers[g]) : o.tool = "prepare"

Limited(state) == IF cut /\ state = "completed" THEN "partial" ELSE state

\* finish, with the verifier content.
Finish(answers) ==
    /\ Step
    /\ Accepted(answers) /\ Announced(answers)
    /\ phase' = "accepted"
    /\ outcomes' = [g \in Goals |-> [status |-> Limited(State(g, answers[g])),
                                     evidence |-> answers[g]]]
    /\ UNCHANGED <<obs, refused, cut, cards>>

\* next() finds no prepare among the evidence of a write goal: StopIteration.
FinishUnannounced(answers) ==
    /\ Step
    /\ Accepted(answers) /\ ~Announced(answers)
    /\ Fail

-----------------------------------------------------------------------------
(* present: what was read last becomes a card, unless there is a review.   *)

HasPrepared == \E o \in Range(obs) : o.tool = "prepare" /\ ~o.error

First(g, tool) == Min({i \in DOMAIN obs : obs[i].goal = g /\ obs[i].tool = tool /\ ~obs[i].error})
Views ==
    LET read == {<<o.goal, o.tool>> : o \in {o \in Range(obs) : o.tool \in Paged /\ ~o.error}}
    IN {v \in read : v[2] = "search" => ~\E w \in read : w[1] = v[1] /\ w[2] # "search"}

Presented ==
    IF HasPrepared \/ Views = {} THEN cards
    ELSE Paused(cards) \cup
         {Card("view", v[1], v[2],
               IF \A w \in Views : First(w[1], w[2]) <= First(v[1], v[2]) THEN "open" ELSE "paused") :
          v \in Views}

Present ==
    /\ \/ phase \in {"broken", "accepted"}
       \/ phase = "loop" /\ steps = MaxSteps
    /\ IF Busy /\ Presented # cards
       THEN Fail
       ELSE /\ phase' = "done"
            /\ cards' = Presented
            /\ UNCHANGED <<obs, refused, cut, outcomes>>
    /\ UNCHANGED <<goals, world, steps>>

Next ==
    \/ Repair \/ Stop \/ Present
    \/ \E call \in Readable : Read(call) \/ ReadUnknown(call)
    \/ \E g \in Goals : Prepare(g) \/ PrepareRefused(g) \/ PrepareFails(g) \/ PrepareConflicts(g)
    \/ \E answers \in Answers : Finish(answers) \/ FinishUnannounced(answers)

Spec == Init /\ [][Next]_vars

-----------------------------------------------------------------------------
(* Properties.                                                             *)

Completed == phase = "done" /\ \A g \in Goals : outcomes[g].status = "completed"

\* The goals keep their kinds and every goal has an outcome (TaskGoal, labels).
TypeOK ==
    /\ goals \in Seq(Kinds) /\ steps \in 0 .. MaxSteps /\ cut \in BOOLEAN
    /\ phase \in {"loop", "broken", "accepted", "done", "failed"}
    /\ \A g \in Goals : outcomes[g].evidence \subseteq DOMAIN obs
    /\ \A c \in cards : c.status \in {"open", "paused", "running"}

\* "never report incomplete work as success": a task that reports completed has
\* read, for every goal, every page of the lists it cites, has seen all of it,
\* and none of its goals was a change that still waits for a review.
CompletedIsWhole ==
    Completed =>
        /\ ~(world.long /\ \E o \in Range(obs) : o.tool = "conversation" /\ ~o.error)
        /\ \A g \in Goals :
            /\ goals[g] \notin {"workflow", "unsupported"}
            /\ LET read == {o \in Cited(outcomes[g].evidence) : o.tool = Tool(goals[g]) /\ ~o.error}
               IN /\ read # {}
                  /\ \A o \in read : {r.page : r \in {r \in read : r.of = o.of}}
                                        = 1 .. PagesOf(o.tool, o.of)

\* "A prepared change belongs to its original write goal": what is reported as
\* waiting for a review waits on a card of that very goal.
ReviewIsThere ==
    \A g \in Goals : outcomes[g].status = "awaiting_review" /\ phase # "failed" =>
        \E c \in cards : c.kind = "review" /\ c.goal = g

\* A read never covers a review: as long as no preparation failed, the card in
\* front of the operator after a task with a review is a review (present).
ReviewIsInFront ==
    phase = "done" /\ (\E c \in cards : c.kind = "review")
                   /\ ~(\E o \in Range(obs) : o.tool = "prepare" /\ o.error) =>
        \E c \in cards : c.kind = "review" /\ c.status = "open"

=============================================================================
