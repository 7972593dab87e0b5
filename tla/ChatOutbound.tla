---------------------------- MODULE ChatOutbound ----------------------------
(***************************************************************************)
(* The outbox of operator batches: an operator prepares, queues and        *)
(* cancels a batch of template messages, Celery workers drain the queued   *)
(* recipients through send_one, Meta's receipts arrive by webhook, and     *)
(* customers write STOP.  One tenant, one sender profile.                  *)
(*                                                                         *)
(* Everybody takes the row lock of the batch, then the sender's, then the  *)
(* advisory lock of the phone, so the model takes the three in one step.   *)
(* A recipient is named by the unique pair (batch, phone).                 *)
(***************************************************************************)
EXTENDS Integers, FiniteSets

CONSTANTS
  Batches, Phones,
  Workers,       \* Celery worker processes that run dispatch
  Operators,     \* requests of operators that queue a batch
  Hooks,         \* webhook transactions that carry a receipt
  Cap,           \* SenderProfile.daily_cap
  MaxCrashes,    \* failed worker tasks explored (bound)
  NoOne          \* no recipient, no batch

ASSUME Assumptions ==
  /\ IsFiniteSet(Batches) /\ IsFiniteSet(Phones)
  /\ Cap \in Nat
  /\ MaxCrashes \in Nat
  /\ NoOne \notin Batches
  /\ NoOne \notin Batches \X Phones

Recipients == Batches \X Phones

VARIABLES
  batch,     \* OutboundBatch.status, "none" before the row exists
  status,    \* OutboundRecipient.status, "none" before the row exists
  fresh,     \* recipients with attempted_at within the last 24 hours
  known,     \* recipients whose wa_message_id is stored
  stopped,   \* phones whose customer wrote STOP
  pc,        \* step each worker is at
  cur,       \* recipient each worker handles
  seen,      \* status the worker's session last read
  queueing,  \* batch each operator request is queueing
  room,      \* capacity that request has read
  receipt,   \* receipt each webhook has matched and not yet committed
  meta,      \* recipients whose message Meta has accepted
  posts,     \* history: POSTs made for each recipient
  failed,    \* history: recipients a receipt reported as failed
  crashes    \* history: failed worker tasks

rowVars    == <<batch, status, fresh, known>>
workerVars == <<pc, cur, seen>>
queueVars  == <<queueing, room>>
worldVars  == <<stopped, meta, posts, failed, crashes>>
vars == <<rowVars, workerVars, queueVars, receipt, worldVars>>

-----------------------------------------------------------------------------
ReceiptStatus == {"sent", "delivered", "read", "failed"}
Unsent        == {"draft", "queued", "blocked", "cancelled"}
RowStatus     == Unsent \cup ReceiptStatus \cup {"sending", "ambiguous", "accepted"}
ACTIVE        == {"queued", "sending", "ambiguous", "accepted", "sent", "delivered", "read"}

Rank(s) == CASE s = "sent" -> 1 [] s = "delivered" -> 2 [] s = "read" -> 3 [] OTHER -> 0

Guarded == {"check", "post", "error", "answer", "record"}
Busy(r) == \E w \in Workers : pc[w] # "idle" /\ cur[w] = r

(* A worker between its guard's locks and the end of send_one, or a        *)
(* request inside queue_batch, holds the sender, its batch and its phones. *)
Guarding(w) == pc[w] \in Guarded
SenderFree ==
  /\ \A w \in Workers : ~Guarding(w)
  /\ \A o \in Operators : queueing[o] = NoOne
BatchFree(b) ==
  /\ \A w \in Workers : Guarding(w) => cur[w][1] # b
  /\ \A o \in Operators : queueing[o] # b
PhoneFree(p) ==
  /\ \A w \in Workers : Guarding(w) => cur[w][2] # p
  /\ \A o \in Operators : queueing[o] # NoOne => status[<<queueing[o], p>>] = "none"

(* Recipients that take up capacity and stand in the way of another send.  *)
Reserved == {r \in Recipients :
               \/ status[r] \in {"queued", "sending", "ambiguous"}
               \/ status[r] \in ACTIVE /\ r \in fresh}

(* Faulty: only sends whose outcome is open stand in the way of another.   *)
RecentPending(r) ==
  \E q \in Recipients : /\ q # r /\ q[2] = r[2]
                        /\ status[q] \in {"queued", "sending", "ambiguous"}

Recent(r) == \E q \in Reserved : q # r /\ q[2] = r[2]
Eligible(r) == r[2] \notin stopped /\ ~Recent(r)

-----------------------------------------------------------------------------
(* The operator's chat or form creates a batch for the phones P.           *)
Prepare(b, P) ==
  /\ batch[b] = "none"
  /\ P # {}
  /\ batch' = [batch EXCEPT ![b] = "draft"]
  /\ status' = [r \in Recipients |->
                  IF r[1] = b /\ r[2] \in P THEN "draft" ELSE status[r]]
  /\ UNCHANGED <<fresh, known, workerVars, queueVars, receipt, worldVars>>

(* queue_batch up to the capacity.  Faulty on its own: it must wait for    *)
(* the locks of the batch, the sender and the phones.                      *)
ReadCapacity(o, b) ==
  /\ queueing[o] = NoOne
  /\ batch[b] = "draft"
  /\ queueing' = [queueing EXCEPT ![o] = b]
  /\ room' = [room EXCEPT ![o] = LET left == Cap - Cardinality(Reserved)
                                 IN  IF left > 0 THEN left ELSE 0]
  /\ UNCHANGED <<rowVars, workerVars, receipt, worldVars>>

Reserve(o, b) ==
  /\ BatchFree(b)
  /\ SenderFree
  /\ \A p \in Phones : status[<<b, p>>] # "none" => PhoneFree(p)
  /\ ReadCapacity(o, b)

Leave(o) ==
  /\ queueing' = [queueing EXCEPT ![o] = NoOne]
  /\ room' = [room EXCEPT ![o] = 0]

(* queue_batch from the phone locks on: every recipient is decided and the *)
(* batch queued, all or nothing.  refused are the phones eligibility turns *)
(* down for the state of the contact: consent, validity, blacklist, an     *)
(* earlier outreach job.                                                   *)
Queue(o, refused) ==
  LET b     == queueing[o]
      rows  == {r \in Recipients : r[1] = b /\ status[r] # "none"}
      takes == {r \in rows : Eligible(r) /\ r[2] \notin refused}
  IN  /\ b # NoOne
      /\ takes # {}
      /\ Cardinality(takes) <= room[o]
      /\ status' = [r \in Recipients |->
                      CASE r \in takes        -> "queued"
                        [] r \in rows \ takes -> "blocked"
                        [] OTHER              -> status[r]]
      /\ batch' = [batch EXCEPT ![b] = "queued"]
      /\ Leave(o)
      /\ UNCHANGED <<fresh, known, workerVars, receipt, worldVars>>

(* Any of its HTTP errors: nobody eligible, too little capacity, a changed *)
(* channel or template, Meta out of reach.  The transaction rolls back.    *)
QueueFails(o) ==
  /\ queueing[o] # NoOne
  /\ Leave(o)
  /\ UNCHANGED <<rowVars, workerVars, receipt, worldVars>>

(* The cancel button and the cancelled operation, under the batch's lock.  *)
Cancelled(b) == [r \in Recipients |->
                   IF r[1] = b /\ status[r] \in {"draft", "queued"}
                   THEN "cancelled" ELSE status[r]]

(* Faulty on their own: cancelling must wait for the lock of the batch,    *)
(* the STOP webhook for the lock of the phone.                             *)
Withdraw(b) ==
  /\ batch[b] \in {"draft", "queued"}
  /\ batch' = [batch EXCEPT ![b] = "cancelled"]
  /\ status' = Cancelled(b)
  /\ UNCHANGED <<fresh, known, workerVars, queueVars, receipt, worldVars>>

OptOut(p) ==
  /\ p \notin stopped
  /\ stopped' = stopped \cup {p}
  /\ UNCHANGED <<rowVars, workerVars, queueVars, receipt, meta, posts,
                 failed, crashes>>

Cancel(b) == BatchFree(b) /\ Withdraw(b)
Stop(p)   == PhoneFree(p) /\ OptOut(p)

-----------------------------------------------------------------------------
GoTo(w, step) == pc' = [pc EXCEPT ![w] = step] /\ UNCHANGED <<cur, seen>>

EndSend(w) ==
  /\ pc' = [pc EXCEPT ![w] = "idle"]
  /\ cur' = [cur EXCEPT ![w] = NoOne]
  /\ seen' = [seen EXCEPT ![w] = "none"]

(* dispatch read the recipient as queued, and so does send_one.            *)
Pick(w, r) ==
  /\ pc[w] = "idle"
  /\ status[r] = "queued"
  /\ pc' = [pc EXCEPT ![w] = "wait"]
  /\ cur' = [cur EXCEPT ![w] = r]
  /\ seen' = [seen EXCEPT ![w] = "queued"]
  /\ UNCHANGED <<rowVars, queueVars, receipt, worldVars>>

(* The guard's three locks, and the refresh of the row under them.         *)
LocksFree(w) == SenderFree /\ BatchFree(cur[w][1]) /\ PhoneFree(cur[w][2])

(* Faulty: the row is not read again after the wait.                       *)
LockUnrefreshed(w) ==
  /\ pc[w] = "wait"
  /\ LocksFree(w)
  /\ GoTo(w, "check")
  /\ UNCHANGED <<rowVars, queueVars, receipt, worldVars>>

Lock(w) ==
  /\ pc[w] = "wait"
  /\ LocksFree(w)
  /\ IF status[cur[w]] = "queued" THEN GoTo(w, "check") ELSE EndSend(w)
  /\ UNCHANGED <<rowVars, queueVars, receipt, worldVars>>

(* All the checks pass: SENDING is committed ahead of the POST.            *)
CommitSending(w) ==
  LET r == cur[w]
  IN  /\ pc[w] = "check"
      /\ batch[r[1]] = "queued"
      /\ Eligible(r)
      /\ status' = [status EXCEPT ![r] = "sending"]
      /\ fresh' = fresh \cup {r}
      /\ GoTo(w, "post")
      /\ UNCHANGED <<batch, known, queueVars, receipt, worldVars>>

(* A check fails, be it one on the channel, the operator's account, the    *)
(* template or the contact, which may have changed since the batch was     *)
(* queued, or one that could not be made.                                  *)
Block(w) ==
  /\ pc[w] = "check"
  /\ status' = [status EXCEPT ![cur[w]] = "blocked"]
  /\ EndSend(w)
  /\ UNCHANGED <<batch, fresh, known, queueVars, receipt, worldVars>>

(* The single POST: answered with a message id, or not, in which case Meta *)
(* may or may not have accepted it.                                        *)
Post(w) ==
  LET r == cur[w]
  IN  /\ pc[w] = "post"
      /\ posts' = [posts EXCEPT ![r] = @ + 1]
      /\ \/ GoTo(w, "answer") /\ meta' = meta \cup {r}
         \/ GoTo(w, "error") /\ meta' \in {meta, meta \cup {r}}
      /\ UNCHANGED <<rowVars, queueVars, receipt, stopped, failed, crashes>>

(* The except branch writes without reading the row again.                 *)
Ambiguous(w) ==
  /\ pc[w] = "error"
  /\ status' = [status EXCEPT ![cur[w]] = "ambiguous"]
  /\ EndSend(w)
  /\ UNCHANGED <<batch, fresh, known, queueVars, receipt, worldVars>>

(* The row is refreshed, without a lock, and then recorded as accepted     *)
(* unless the refresh saw a receipt.                                       *)
Refresh(w) ==
  /\ pc[w] = "answer"
  /\ pc' = [pc EXCEPT ![w] = "record"]
  /\ seen' = [seen EXCEPT ![w] = status[cur[w]]]
  /\ UNCHANGED <<cur, rowVars, queueVars, receipt, worldVars>>

Record(w) ==
  LET r == cur[w]
  IN  /\ pc[w] = "record"
      /\ status' = IF seen[w] = "sending"
                   THEN [status EXCEPT ![r] = "accepted"] ELSE status
      /\ known' = known \cup {r}
      /\ EndSend(w)
      /\ UNCHANGED <<batch, fresh, queueVars, receipt, worldVars>>

(* The task dies or raises: its transactions roll back, its locks go.      *)
Crash(w) ==
  /\ pc[w] # "idle"
  /\ crashes < MaxCrashes
  /\ crashes' = crashes + 1
  /\ EndSend(w)
  /\ UNCHANGED <<rowVars, queueVars, receipt, stopped, meta, posts, failed>>

(* Faulty: only attempts of another day count as interrupted.              *)
InterruptedYesterday(r) == status[r] = "sending" /\ ~Busy(r) /\ r \notin fresh

(* dispatch's first statement.  A client gives up its POST after 20        *)
(* seconds, so five minutes on no task is still at the row.                *)
Interrupted(r) == status[r] = "sending" /\ ~Busy(r)

SweepSending(r) ==
  /\ Interrupted(r)
  /\ status' = [status EXCEPT ![r] = "ambiguous"]
  /\ UNCHANGED <<batch, fresh, known, workerVars, queueVars, receipt, worldVars>>

-----------------------------------------------------------------------------
(* Receipts come in any order, late and repeatedly.  The webhook matches   *)
(* one by message id, or by its callback data while the outcome is open,   *)
(* compares ranks with the row it read, and commits later.                 *)
NoReceipt == [of |-> NoOne, says |-> "none", seen |-> "none"]

Matches(r) == r \in known \/ status[r] \in {"sending", "ambiguous"}

Receive(h, r, s) ==
  /\ receipt[h] = NoReceipt
  /\ r \in meta
  /\ Matches(r)
  /\ Rank(s) >= Rank(status[r])
  /\ receipt' = [receipt EXCEPT ![h] = [of |-> r, says |-> s, seen |-> status[r]]]
  /\ UNCHANGED <<rowVars, workerVars, queueVars, worldVars>>

(* The session writes what differs from what it has read.  Faulty on its   *)
(* own: a receipt that matched no recipient has nothing to write.          *)
WriteReceipt(h) ==
  LET c == receipt[h]
  IN  /\ status' = IF c.says # c.seen
                   THEN [status EXCEPT ![c.of] = c.says] ELSE status
      /\ known' = known \cup {c.of}
      /\ failed' = IF c.says = "failed" THEN failed \cup {c.of} ELSE failed
      /\ receipt' = [receipt EXCEPT ![h] = NoReceipt]
      /\ UNCHANGED <<batch, fresh, workerVars, queueVars, stopped, meta,
                     posts, crashes>>

CommitReceipt(h) == receipt[h] # NoReceipt /\ WriteReceipt(h)

(* Twenty-four hours pass.                                                 *)
Age(r) ==
  /\ r \in fresh
  /\ ~Busy(r)
  /\ fresh' = fresh \ {r}
  /\ UNCHANGED <<batch, status, known, workerVars, queueVars, receipt, worldVars>>

-----------------------------------------------------------------------------
Init ==
  /\ batch = [b \in Batches |-> "none"]
  /\ status = [r \in Recipients |-> "none"]
  /\ fresh = {} /\ known = {} /\ stopped = {} /\ meta = {} /\ failed = {}
  /\ pc = [w \in Workers |-> "idle"]
  /\ cur = [w \in Workers |-> NoOne]
  /\ seen = [w \in Workers |-> "none"]
  /\ queueing = [o \in Operators |-> NoOne]
  /\ room = [o \in Operators |-> 0]
  /\ receipt = [h \in Hooks |-> NoReceipt]
  /\ posts = [r \in Recipients |-> 0]
  /\ crashes = 0

Operate ==
  \/ \E b \in Batches, P \in SUBSET Phones : Prepare(b, P)
  \/ \E o \in Operators, b \in Batches : Reserve(o, b)
  \/ \E o \in Operators, refused \in SUBSET Phones : Queue(o, refused)
  \/ \E o \in Operators : QueueFails(o)
  \/ \E b \in Batches : Cancel(b)

Send(w) ==
  \/ \E r \in Recipients : Pick(w, r)
  \/ Lock(w)
  \/ CommitSending(w)
  \/ Block(w)
  \/ Post(w)
  \/ Ambiguous(w)
  \/ Refresh(w)
  \/ Record(w)

World ==
  \/ \E p \in Phones : Stop(p)
  \/ \E w \in Workers : Crash(w)
  \/ \E r \in Recipients : SweepSending(r)
  \/ \E h \in Hooks, r \in Recipients, s \in ReceiptStatus : Receive(h, r, s)
  \/ \E h \in Hooks : CommitReceipt(h)
  \/ \E r \in Recipients : Age(r)

Next == Operate \/ (\E w \in Workers : Send(w)) \/ World

(* The beat publishes dispatch every 15 seconds and requests end; waiting  *)
(* for a row lock is a queue in PostgreSQL, so nobody waits for ever.      *)
Fairness ==
  /\ \A w \in Workers : WF_vars(Send(w)) /\ SF_vars(Lock(w))
  /\ \A o \in Operators : WF_vars(QueueFails(o))
  /\ \A r \in Recipients : WF_vars(SweepSending(r))

Spec     == Init /\ [][Next]_vars
FairSpec == Spec /\ Fairness

-----------------------------------------------------------------------------
(* Every variable keeps its type: only rows of the table are matched,      *)
(* handled and written, and a worker that is not idle has one.             *)
TypeOK ==
  /\ batch \in [Batches -> {"none", "draft", "queued", "cancelled"}]
  /\ status \in [Recipients -> RowStatus \cup {"none"}]
  /\ fresh \subseteq Recipients /\ known \subseteq Recipients
  /\ stopped \subseteq Phones
  /\ pc \in [Workers -> Guarded \cup {"idle", "wait"}]
  /\ cur \in [Workers -> Recipients \cup {NoOne}]
  /\ \A w \in Workers : pc[w] # "idle" => cur[w] \in Recipients
  /\ seen \in [Workers -> RowStatus \cup {"none"}]
  /\ queueing \in [Operators -> Batches \cup {NoOne}]
  /\ room \in [Operators -> Nat]
  /\ receipt \in [Hooks -> [of   : Recipients \cup {NoOne},
                            says : ReceiptStatus \cup {"none"},
                            seen : RowStatus \cup {"none"}]]
  /\ meta \subseteq Recipients /\ failed \subseteq Recipients
  /\ posts \in [Recipients -> Nat]
  /\ crashes \in 0 .. MaxCrashes

(* "Only queued recipients can cross the Meta boundary once"               *)
(* (outbound_models.py): two drains racing for a row, a crash after the    *)
(* POST and a lost answer included, a recipient is posted at most once.    *)
AtMostOnePost == \A r \in Recipients : posts[r] <= 1

(* "Never return sending to queued" (chat_outbound.py): a row that was     *)
(* posted never again looks like one that was not sent, whatever sessions  *)
(* write it without having read it.                                        *)
PostedStaysPosted ==
  \A r \in Recipients : posts[r] > 0 => status[r] \notin Unsent

(* "Avoid new batches being used to replay unknown or recently completed   *)
(* sends" (outbound.py): within 24 hours a phone is sent one template over *)
(* all batches, unless Meta reported the other as failed.                  *)
OneSendPerPhone ==
  \A q, r \in Recipients :
     q # r /\ q[2] = r[2] /\ {q, r} \subseteq fresh /\ posts[q] > 0 /\ posts[r] > 0
       => failed \cap {q, r} # {}

(* Concurrent batches do not overbook the sender's daily cap.  A recipient *)
(* reported failed gives its place up, and a late receipt may still count  *)
(* it again.                                                               *)
CapHolds == Cardinality(Reserved \ failed) <= Cap

(* No template is posted to a phone after its STOP has committed.          *)
NoPostAfterStop ==
  [][\A r \in Recipients : posts'[r] # posts[r] => r[2] \notin stopped]_vars

(* Nothing of a batch is posted after its cancellation has committed:      *)
(* "Lock batch before recipient, same order as the worker" (outbound.py).  *)
NoPostAfterCancel ==
  [][\A r \in Recipients : posts'[r] # posts[r] => batch[r[1]] = "queued"]_vars

(* Every queued recipient is decided in the end, and none is left sending  *)
(* by a worker that died.                                                  *)
EverySendSettles ==
  \A r \in Recipients :
     (status[r] \in {"queued", "sending"}) ~> (status[r] \notin {"queued", "sending"})
=============================================================================
