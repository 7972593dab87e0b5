----------------------------- MODULE OperatorChat -----------------------------
(***************************************************************************)
(* One chat of the operator assistant: the tab that sends what the         *)
(* operator writes (ops-chat.tsx) and the turn that answers it             *)
(* (admin_chat/router.py, planner.py, workflow_intents.py).                *)
(*                                                                         *)
(* The tab waits for one call at a time; a call whose answer it lost may   *)
(* still be served.  A turn holds the lock of the chat from its first read *)
(* to its commit, so a served turn is one step.  What the model makes of a *)
(* message is a choice; a message is told by the words the planner checks. *)
(***************************************************************************)
EXTENDS Naturals, Sequences, FiniteSets

CONSTANTS
    Texts,        \* what the operator may write
    MaxMessages,  \* bound: messages written
    MaxCalls,     \* bound: calls of the tab
    MaxFaults     \* bound: answers lost, and calls denied

BoundsAreNatural == {MaxMessages, MaxCalls, MaxFaults} \subseteq Nat

\* words: what the message asks for; negated: it says not to, or asks how;
\* phone: it brings a number; bare: "approve it" and nothing else; guided: a
\* button of the page wrote it, and a button neither negates nor just approves.
TextsAreMessages ==
    /\ Texts \subseteq [words : {"none", "send", "save", "approve", "cancel"},
                        negated : BOOLEAN, phone : BOOLEAN, bare : BOOLEAN, guided : BOOLEAN]
    /\ \A text \in Texts : text.guided => ~text.negated /\ ~text.bare

VARIABLES
    written,   \* the messages the operator wrote, in order
    attempts,  \* client_message_ids: the message each one carries
    tab,       \* composer and pending attempt, and the call it waits for
    calls,     \* POSTs that the server has not served: attempt and call number
    answers,   \* answers on their way to the tab: call number and code
    turns,     \* the turns of the chat: attempt, what it did, open targets
    card,      \* the card in front: its kind and status
    preview,   \* a workspace preview of an older version is stored
    faults, denied

vars == <<written, attempts, tab, calls, answers, turns, card, preview, faults, denied>>

NoCard == [kind |-> "none", status |-> "none"]
Quiet == [at |-> "idle", call |-> 0, pending |-> 0, composer |-> 0]
Effects == {"nothing", "opened", "completed", "cancelled", "confirmed", "discarded"}
Kinds == {"outreach", "contact", "records", "request_update"}

TypeOK ==
    /\ written \in Seq(Texts) /\ Len(written) <= MaxMessages
    /\ attempts \in Seq(1 .. MaxMessages)
    /\ tab \in [at : {"idle", "turn", "messages", "workflows"}, call : 0 .. MaxCalls,
                pending : 0 .. MaxCalls, composer : 0 .. MaxMessages]
    /\ calls \subseteq [attempt : 1 .. MaxCalls, call : 1 .. MaxCalls]
    /\ answers \subseteq [call : 1 .. MaxCalls, code : {200, 401, 409, 503}]
    /\ turns \in Seq([attempt : 1 .. MaxCalls, targets : 0 .. 2, did : Effects])
    /\ card \in {NoCard} \cup [kind : Kinds, status : {"awaiting_input", "ready"}]
    /\ preview \in BOOLEAN
    /\ faults \in 0 .. MaxFaults
    /\ denied \in 0 .. faults

Init ==
    /\ written = <<>>
    /\ attempts = <<>>
    /\ tab = Quiet
    /\ calls = {}
    /\ answers = {}
    /\ turns = <<>>
    /\ card = NoCard
    /\ preview \in BOOLEAN
    /\ faults = 0
    /\ denied = 0

(***************************************************************************)
(* The planner: what the model may answer, and what is left of it.         *)
(***************************************************************************)
Intent(tool, kind, action) == [tool |-> tool, kind |-> kind, action |-> action]
Clarify == Intent("clarify", "none", "none")
Intents ==
    {Clarify, Intent("analytics", "none", "none"), Intent("search", "none", "none"),
     Intent("send_outreach", "none", "none"), Intent("cancel_outreach", "none", "none"),
     Intent("status", "none", "none"), Intent("summary", "none", "none"),
     Intent("workspace", "none", "confirm"), Intent("workspace", "none", "cancel")}
    \cup [tool : {"workflow"}, kind : {"outreach", "contact", "none"},
          action : {"start", "complete", "cancel", "inspect"}]

\* fast_intent: the buttons say which tool; other texts go to the model.
Guided(text) ==
    CASE text.words = "send" -> Intent("send_outreach", "none", "none")
      [] text.words = "cancel" -> Intent("cancel_outreach", "none", "none")
      [] text.words = "approve" -> Intent("workspace", "none", "confirm")
      [] OTHER -> Intent("search", "none", "none")

IsSend(intent) ==
    \/ intent.tool = "send_outreach"
    \/ intent.tool = "workflow" /\ intent.action = "complete" /\ intent.kind = "outreach"
Says(text, words) == text.words \in words /\ ~text.negated

\* A completion on the model's word alone, where the vocabulary is the old one.
SaysForWorkflow(text, intent) ==
    intent.tool = "workflow" /\ intent.action = "complete" => Says(text, {"send", "save", "approve"})

\* plan: a write needs the operator's own words for it.
IsSaid(text, intent) ==
    /\ IsSend(intent) => ~text.phone
    /\ intent.tool = "workflow" /\ intent.action = "complete" =>
          Says(text, IF intent.kind = "outreach" THEN {"send", "approve"} ELSE {"save", "approve"})
    /\ intent.tool = "send_outreach" => Says(text, {"send"})
    /\ intent.tool = "cancel_outreach" => Says(text, {"cancel"})
    /\ intent.tool = "workspace" =>
          Says(text, IF intent.action = "confirm" THEN {"approve", "save"} ELSE {"cancel"})
    /\ intent.tool = "status" => Says(text, {"save", "cancel"})

Planned(text, intent) == IF IsSaid(text, intent) THEN intent ELSE Clarify
Plans(text) ==
    IF text.guided THEN {Guided(text)} ELSE {Planned(text, intent) : intent \in Intents}

\* normalize: the older tools in the vocabulary of the cards.
Normalized(intent) ==
    CASE intent.tool = "send_outreach" -> Intent("workflow", "outreach", "complete")
      [] intent.tool = "cancel_outreach" -> Intent("workflow", "outreach", "cancel")
      [] intent.tool = "search" -> Intent("workflow", "records", "start")
      [] OTHER -> intent

\* route_intent: a change of a customer's request opens a card to review when
\* the message tells which one, and a list to choose from otherwise.
Routed(intent, found) ==
    IF intent.tool \notin {"status", "summary"} THEN intent
    ELSE Intent("workflow", IF intent.tool = "status" /\ found THEN "request_update" ELSE "records",
                "start")

IsOpen == card # NoCard
Targets == (IF preview THEN 1 ELSE 0) + (IF IsOpen THEN 1 ELSE 0)

\* ambiguous_approval: it may mean the stored preview or the card.
IsAmbiguous(text, intent) ==
    /\ preview /\ IsOpen
    /\ text.bare /\ ~text.guided
    /\ \/ intent.tool = "workflow" /\ intent.action = "complete"
       \/ intent.tool = "workspace" /\ intent.action = "confirm"

(***************************************************************************)
(* A turn.                                                                 *)
(***************************************************************************)
\* execute_intent picks the card by kind, or the one in front.
Meets(intent) == IsOpen /\ intent.kind \in {"none", card.kind}

Stays(did) == did = "nothing" /\ UNCHANGED <<card, preview>>

\* What a planned intent does; a refusal (409) is not in it.
Does(text, intent, did) ==
    IF IsAmbiguous(text, intent) THEN Stays(did)
    ELSE CASE intent.tool = "workflow" /\ intent.action = "start" ->
                /\ did = "opened"
                /\ \E status \in {"awaiting_input", "ready"} :
                      card' = [kind |-> IF intent.kind = "none" THEN "contact" ELSE intent.kind,
                               status |-> status]
                /\ UNCHANGED preview
           [] intent.tool = "workflow" /\ intent.action = "complete" /\ Meets(intent) ->
                did = "completed" /\ card.status = "ready" /\ card' = NoCard /\ UNCHANGED preview
           [] intent.tool = "workflow" /\ intent.action = "cancel" /\ Meets(intent) ->
                did = "cancelled" /\ card' = NoCard /\ UNCHANGED preview
           [] intent.tool = "workspace" /\ preview ->
                /\ did = (IF intent.action = "confirm" THEN "confirmed" ELSE "discarded")
                /\ preview' = FALSE
                /\ UNCHANGED card
           [] OTHER -> Stays(did)

\* Each attempt is a turn of its own.
NeverSeen(attempt) == FALSE

\* The chat already has a turn with this client_message_id.
IsKnown(attempt) == \E t \in DOMAIN turns : turns[t].attempt = attempt

\* Calls reach the chat's lock in the order they were sent, or never.
Reply(c, code) ==
    /\ \A d \in calls : c.call <= d.call
    /\ calls' = calls \ {c}
    /\ answers' = IF tab.call = c.call THEN answers \cup {[call |-> c.call, code |-> code]} ELSE answers

TurnAgain(c) ==
    /\ IsKnown(c.attempt)
    /\ Reply(c, 200)
    /\ UNCHANGED <<written, attempts, tab, turns, card, preview, faults, denied>>

\* The tab takes a button's mark ("action:") off when it puts the text back.
Carried(attempt) ==
    LET text == written[attempts[attempt]] IN
    IF \E earlier \in 1 .. attempt - 1 : attempts[earlier] = attempts[attempt]
    THEN [text EXCEPT !.guided = FALSE] ELSE text

Turn(c) ==
    /\ ~IsKnown(c.attempt)
    /\ LET text == Carried(c.attempt) IN
       \E planned \in Plans(text), found \in BOOLEAN, did \in Effects :
          /\ Does(text, Routed(Normalized(planned), found), did)
          /\ turns' = Append(turns, [attempt |-> c.attempt, targets |-> Targets, did |-> did])
    /\ Reply(c, 200)
    /\ UNCHANGED <<written, attempts, tab, faults, denied>>

\* The model is away or its answer is invalid (503, 502), or a card refuses
\* the change (409): the transaction leaves nothing.
TurnFails(c) ==
    /\ ~IsKnown(c.attempt)
    /\ \E code \in {409, 503} : Reply(c, code)
    /\ UNCHANGED <<written, attempts, tab, turns, card, preview, faults, denied>>

(***************************************************************************)
(* The tab.                                                                *)
(***************************************************************************)
CanCall == tab.call < MaxCalls

\* What the operator wrote, as a new attempt: typed now, or put back earlier.
Post(attempt) ==
    /\ calls' = calls \cup {[attempt |-> attempt, call |-> tab.call + 1]}
    /\ tab' = [at |-> "turn", call |-> tab.call + 1, pending |-> attempt, composer |-> 0]

Send(text) ==
    /\ tab.at = "idle" /\ tab.pending = 0 /\ tab.composer = 0
    /\ CanCall /\ Len(written) < MaxMessages
    /\ written' = Append(written, text)
    /\ attempts' = Append(attempts, Len(written) + 1)
    /\ Post(Len(attempts) + 1)
    /\ UNCHANGED <<answers, turns, card, preview, faults, denied>>

SendAgain ==
    /\ tab.at = "idle" /\ tab.pending = 0 /\ tab.composer # 0
    /\ CanCall
    /\ attempts' = Append(attempts, tab.composer)
    /\ Post(Len(attempts) + 1)
    /\ UNCHANGED <<written, answers, turns, card, preview, faults, denied>>

\* "Retry the same request safely": the attempt that is pending.
Retry ==
    /\ tab.at = "idle" /\ tab.pending # 0
    /\ CanCall
    /\ Post(tab.pending)
    /\ UNCHANGED <<written, attempts, answers, turns, card, preview, faults, denied>>

\* A 4xx clears the attempt and puts its text back in the composer.
Rejected(id) == [tab EXCEPT !.at = "idle", !.pending = 0, !.composer = attempts[id]]
Failed == [tab EXCEPT !.at = "idle"]

Answered(a) ==
    /\ a.call = tab.call /\ tab.at = "turn"
    /\ answers' = answers \ {a}
    /\ tab' = IF a.code = 200 THEN [tab EXCEPT !.at = "messages"]
              ELSE IF a.code = 503 THEN Failed ELSE Rejected(tab.pending)
    /\ UNCHANGED <<written, attempts, calls, turns, card, preview, faults, denied>>

\* The two reads that follow a turn; only after both is the attempt over.
Loaded ==
    /\ tab' = IF tab.at = "messages" THEN [tab EXCEPT !.at = "workflows"]
              ELSE [tab EXCEPT !.at = "idle", !.pending = 0]
    /\ tab.at \in {"messages", "workflows"}
    /\ UNCHANGED <<written, attempts, calls, answers, turns, card, preview, faults, denied>>

\* A connection breaks or times out at any of the three calls.
Lost ==
    /\ tab.at # "idle"
    /\ faults < MaxFaults
    /\ faults' = faults + 1
    /\ tab' = Failed
    /\ answers' = {}
    /\ calls' \in {calls, {c \in calls : c.call # tab.call}}
    /\ UNCHANGED <<written, attempts, turns, card, preview, denied>>

\* The page is signed out (401) before the server sees the call.
Denied ==
    /\ tab.at # "idle"
    /\ tab.at = "turn" => [attempt |-> tab.pending, call |-> tab.call] \in calls
    /\ faults < MaxFaults
    /\ faults' = faults + 1
    /\ denied' = denied + 1
    /\ tab' = Rejected(tab.pending)
    /\ calls' = {c \in calls : c.call # tab.call}
    /\ UNCHANGED <<written, attempts, answers, turns, card, preview>>

Next ==
    \/ \E text \in Texts : Send(text)
    \/ SendAgain \/ Retry \/ Loaded \/ Lost \/ Denied
    \/ \E a \in answers : Answered(a)
    \/ \E c \in calls : Turn(c) \/ TurnAgain(c) \/ TurnFails(c)

Spec == Init /\ [][Next]_vars

(***************************************************************************)
(* Properties.                                                             *)
(***************************************************************************)
MessageOf(t) == attempts[turns[t].attempt]

\* A message is one turn and takes effect once, however often its call is lost
\* and retried: unless the page was signed out in between, no two turns carry
\* the same message.
MessageOnce ==
    denied = 0 => \A s, t \in DOMAIN turns : MessageOf(s) = MessageOf(t) => s = t

\* What the operator wrote is kept until the chat holds it: as the attempt that
\* is pending, or back in the composer.
KeptUntilRecorded ==
    \A n \in DOMAIN written :
        \/ \E t \in DOMAIN turns : MessageOf(t) = n
        \/ tab.composer = n
        \/ tab.pending # 0 /\ attempts[tab.pending] = n

\* "Model classification is not itself authorization" (planner.py): a card is
\* completed or a preview applied only where the message itself says so, and a
\* message that says not to, or asks how, applies nothing.
AppliedInWords ==
    \A t \in DOMAIN turns :
        turns[t].did \in {"completed", "confirmed"} =>
            LET text == written[MessageOf(t)] IN
            text.words \in {"send", "save", "approve"} /\ ~text.negated

\* A bare approval never chooses between a stored preview and an open card.
ApprovalIsClear ==
    \A t \in DOMAIN turns :
        turns[t].did \in {"completed", "confirmed"} /\ written[MessageOf(t)].bare =>
            turns[t].targets = 1
=============================================================================
