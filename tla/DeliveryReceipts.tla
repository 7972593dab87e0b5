-------------------------- MODULE DeliveryReceipts --------------------------
(***************************************************************************)
(* What Meta's callbacks leave on the row that owns one sent message: an   *)
(* AgentRuntimeJob, with an audit, or an OutreachJob of the retired queue, *)
(* with a status and three times.                                          *)
(*                                                                         *)
(* A webhook transaction locks the Message before it reads the row, and    *)
(* gives both back at its commit; the row itself nobody locks.  So two     *)
(* callbacks meet only when one looked for the Message before it was       *)
(* there, and an operator who resumes the bot meets all of them: he reads  *)
(* the audit and writes it back whole, under the lock of the phone.        *)
(***************************************************************************)
EXTENDS DeliveryStatus, FiniteSets, Sequences, Functions

CONSTANTS
  Hooks,        \* webhook transactions
  Times,        \* timestamps of callbacks
  HistoryLimit, \* events an audit keeps, 100 in the code
  MaxReceipts,  \* distinct callbacks taken (bound)
  NoHook        \* nobody has the Message

Assumptions ==
  /\ Times \subseteq Nat \ {0}
  /\ HistoryLimit \in Nat \ {0} /\ MaxReceipts \in Nat
  /\ NoHook \notin Hooks

(* Meta sends statuses the code does not know, such as "deleted".          *)
Callbacks == [status : DELIVERY_STATUSES \cup {"other"}, time : Times]

VARIABLES
  owner,   \* the table that has the message's id
  turn,    \* AgentRuntimeJob.status, "none" when an outreach job owns it
  message, \* the Message of that id is committed
  stored,  \* the owner as committed
  lock,    \* the webhook that has the Message FOR UPDATE
  hook,    \* session of each webhook
  resume,  \* what a request to resume has read of the audit
  got,     \* history: callbacks whose transaction committed
  raced    \* history: two sessions had the row, one of them outside the lock
vars == <<owner, turn, message, stored, lock, hook, resume, got, raced>>
sent == <<owner, turn, message>>

-----------------------------------------------------------------------------
NoTime == 0     \* a column that is NULL

JobRow   == [status : DELIVERY_STATUSES \cup {"none"},
             at     : [Succeeded -> Times \cup {NoTime}]]
AuditRow == [status  : DELIVERY_STATUSES \cup {"none"},
             at      : Times \cup {NoTime},
             history : Seq(Callbacks),
             review  : {"none", "required", "resolved"}]
Rows     == IF owner = "outreach" THEN JobRow ELSE AuditRow

NewJob   == [status |-> "none", at |-> [s \in Succeeded |-> NoTime]]
NewAudit == [status |-> "none", at |-> NoTime, history |-> <<>>, review |-> "none"]

Idle   == [at |-> "idle", has |-> FALSE, bare |-> FALSE,
           row |-> NewAudit, read |-> NewAudit, took |-> {}]
Absent == [open |-> FALSE, read |-> NewAudit]

EarliestTimestamp(current, incoming) ==
  IF current = NoTime \/ incoming < current THEN incoming ELSE current

(* history[-_RUNTIME_DELIVERY_HISTORY_LIMIT:]                              *)
LastEvents(events) ==
  IF Len(events) <= HistoryLimit THEN events
  ELSE SubSeq(events, Len(events) - HistoryLimit + 1, Len(events))

Recorded(events, c) ==
  IF c \in Range(events) THEN events ELSE LastEvents(Append(events, c))

(* _handle_statuses on an outreach job.                                    *)
OnJob(r, c) ==
  [status |-> NextDeliveryStatus(r.status, c.status),
   at     |-> [s \in Succeeded |->
                 IF s = c.status THEN EarliestTimestamp(r.at[s], c.time)
                                 ELSE r.at[s]]]

(* _append_runtime_delivery_audit.                                         *)
OnAudit(r, c) ==
  LET effective == NextDeliveryStatus(r.status, c.status)
  IN  [status  |-> effective,
       at      |-> CASE effective # r.status -> c.time
                     [] effective = r.status /\ effective = c.status ->
                          EarliestTimestamp(r.at, c.time)
                     [] OTHER -> r.at,
       history |-> Recorded(r.history, c),
       review  |-> r.review]

OnRow(r, c) == IF owner = "outreach" THEN OnJob(r, c) ELSE OnAudit(r, c)

(* What a session read and changed, written over the row as it is now: a   *)
(* column that did not change is left alone, and an audit is one column.   *)
Merged(s) ==
  IF owner = "outreach"
  THEN [status |-> IF s.row.status # s.read.status THEN s.row.status ELSE stored.status,
        at     |-> [t \in Succeeded |->
                      IF s.row.at[t] # s.read.at[t] THEN s.row.at[t] ELSE stored.at[t]]]
  ELSE IF s.row # s.read THEN s.row ELSE stored

-----------------------------------------------------------------------------
(* The worker commits the bot's message, its id on the job and the outcome *)
(* of the turn together; one handed over waits for a person.               *)
Send(outcome) ==
  /\ owner = "runtime" /\ turn = "sending"
  /\ turn' = outcome /\ message' = TRUE
  /\ stored' = IF outcome = "handoff" THEN [stored EXCEPT !.review = "required"] ELSE stored
  /\ UNCHANGED <<owner, lock, hook, resume, got, raced>>

Known == owner = "outreach" \/ turn # "sending"

(* Faulty: the Message is looked up without FOR UPDATE.                    *)
LookUnlocked(h) ==
  /\ hook[h].at \in {"idle", "between"}
  /\ hook' = [hook EXCEPT ![h].at = IF message THEN "found" ELSE "missed"]
  /\ UNCHANGED <<sent, stored, lock, resume, got, raced>>

(* A callback looks for its Message, and waits for whoever has it.         *)
Look(h) ==
  /\ hook[h].at \in {"idle", "between"}
  /\ \/ /\ message /\ lock \in {NoHook, h}
        /\ lock' = h
        /\ hook' = [hook EXCEPT ![h].at = "found"]
     \/ /\ ~message
        /\ hook' = [hook EXCEPT ![h].at = "missed"]
        /\ UNCHANGED lock
  /\ UNCHANGED <<sent, stored, resume, got, raced>>

(* The row is in two sessions' hands, and no lock kept them apart.         *)
Races(h) ==
  \/ resume.open
  \/ \E g \in Hooks \ {h} : hook[g].has /\ (hook[g].bare \/ hook[h].at = "missed")

(* It reads the row unless the session has it already (the identity map    *)
(* keeps what was read first) and takes the callback in memory; one whose  *)
(* row is not there yet is dropped.                                        *)
Took == UNION {hook[g].took : g \in Hooks}
Take(h, c) ==
  LET s     == hook[h]
      first == ~s.has
      held  == IF first THEN stored ELSE s.row
  IN  /\ s.at \in {"found", "missed"}
      /\ Cardinality(got \cup Took \cup {c}) <= MaxReceipts
      /\ IF Known
         THEN /\ hook' = [hook EXCEPT ![h] =
                   [at |-> "between", has |-> TRUE,
                    bare |-> IF first THEN s.at = "missed" ELSE s.bare,
                    row |-> OnRow(held, c), read |-> IF first THEN stored ELSE s.read,
                    took |-> s.took \cup {c}]]
              /\ raced' = (raced \/ (first /\ Races(h)))
         ELSE hook' = [hook EXCEPT ![h].at = "between"] /\ UNCHANGED raced
      /\ UNCHANGED <<sent, stored, lock, resume, got>>

Released(h) ==
  /\ hook' = [hook EXCEPT ![h] = Idle]
  /\ lock' = IF lock = h THEN NoHook ELSE lock

Write(h) ==
  /\ hook[h].at = "between"
  /\ stored' = IF hook[h].has THEN Merged(hook[h]) ELSE stored
  /\ got' = got \cup hook[h].took
  /\ Released(h)
  /\ UNCHANGED <<sent, resume, raced>>

(* The transaction fails as a whole: another change of the payload is not  *)
(* this sender's, or the database ends a deadlock.                         *)
Abort(h) ==
  /\ hook[h].at # "idle"
  /\ Released(h)
  /\ UNCHANGED <<sent, stored, resume, got, raced>>

-----------------------------------------------------------------------------
(* Resuming the bot: bot_state reads the jobs of the chat ...              *)
ResumeReads ==
  /\ turn = "handoff" /\ ~resume.open
  /\ resume' = [open |-> TRUE, read |-> stored]
  /\ raced' = (raced \/ \E h \in Hooks : hook[h].has)
  /\ UNCHANGED <<sent, stored, lock, hook, got>>

(* ... a customer who opted out or an unsettled reply refuses it ...       *)
ResumeRefused ==
  /\ resume.open
  /\ resume' = Absent
  /\ UNCHANGED <<sent, stored, lock, hook, got, raced>>

(* ... and otherwise the audit read is written back with the decision.     *)
ResumeWrites ==
  /\ resume.open
  /\ turn' = "resolved"
  /\ stored' = [resume.read EXCEPT !.review = "resolved"]
  /\ resume' = Absent
  /\ UNCHANGED <<owner, message, lock, hook, got, raced>>

-----------------------------------------------------------------------------
(* A row of the retired queue is there from the start, its Message or not. *)
Init ==
  /\ \/ owner = "runtime" /\ turn = "sending" /\ stored = NewAudit /\ message = FALSE
     \/ owner = "outreach" /\ turn = "none" /\ stored = NewJob /\ message \in BOOLEAN
  /\ lock = NoHook
  /\ hook = [h \in Hooks |-> Idle]
  /\ resume = Absent
  /\ got = {}
  /\ raced = FALSE

Next ==
  \/ \E outcome \in {"sent", "handoff"} : Send(outcome)
  \/ \E h \in Hooks :
       \/ Look(h) \/ Write(h) \/ Abort(h)
       \/ \E c \in Callbacks : Take(h, c)
  \/ ResumeReads \/ ResumeRefused \/ ResumeWrites

Spec == Init /\ [][Next]_vars

-----------------------------------------------------------------------------
StatusesOf(cs)  == {c.status : c \in cs} \ {"other"}
Earliest(cs, s) == LET times == {c.time : c \in {d \in cs : d.status = s}}
                   IN  IF times = {} THEN NoTime
                       ELSE CHOOSE t \in times : \A u \in times : t <= u

TypeOK ==
  /\ stored \in Rows /\ got \subseteq Callbacks
  /\ lock \in Hooks \cup {NoHook}
  /\ \A h \in Hooks : hook[h].has => hook[h].row \in Rows

(* In whatever order callbacks arrive and however often, a row shows the   *)
(* best proof there is: read before delivered, either before the others,   *)
(* and one of sent and failed when there is nothing better.                *)
Evidence(status, cs) ==
  LET statuses == StatusesOf(cs)
  IN  CASE "read" \in statuses      -> status = "read"
        [] "read" \notin statuses /\ "delivered" \in statuses -> status = "delivered"
        [] statuses = {}            -> status = "none"
        [] OTHER                    -> status \in statuses

StatusIsEvidence == Evidence(stored.status, got)

(* Times are those of the first event, not of the first delivery of its    *)
(* callback: the audit's is the earliest among callbacks for its status.   *)
EarliestKept ==
  IF owner = "outreach" THEN \A s \in Succeeded : stored.at[s] = Earliest(got, s)
  ELSE stored.at = Earliest(got, stored.status)

(* An audit's history has each event once, and all of them until there are *)
(* more than it keeps.                                                     *)
HistoryComplete == owner = "runtime" =>
  /\ Range(stored.history) \subseteq got
  /\ IsInjective(stored.history)
  /\ Len(stored.history) <= HistoryLimit
  /\ Len(stored.history) < HistoryLimit => Range(stored.history) = got

(* A turn that a person took over stays so in its audit.                   *)
ResolutionKept == turn = "resolved" => stored.review = "resolved"

(* As long as no two sessions had the row outside the Message's lock.      *)
LockedEvidence ==
  ~raced => StatusIsEvidence /\ EarliestKept /\ HistoryComplete /\ ResolutionKept

(* _next_delivery_status "never retracts proof that Meta already accepted, *)
(* delivered, or exposed the message as read".                             *)
ProofNeverRetracted ==
  [][DeliveryRank(stored.status') >= DeliveryRank(stored.status)]_vars
=============================================================================
