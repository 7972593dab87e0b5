------------------------- MODULE ChatOutboundProofs -------------------------
(***************************************************************************)
(* What ChatOutbound guarantees for any number of batches, phones,         *)
(* workers, operators, webhooks and crashes.                               *)
(*   TypesKept          every variable keeps its type.                     *)
(*   NothingSentAfterStop, NothingSentAfterCancel                          *)
(*                      the phone's and the batch's lock order STOP and    *)
(*                      cancellation with the POST.                        *)
(*   PostedAtMostOnce, PostedNeverUnsent                                   *)
(*                      a recipient crosses the Meta boundary once, and    *)
(*                      its row never looks unsent again.                  *)
(*   OneTemplatePerDay  one template per phone and day, over all batches.  *)
(*   CapKept            what is reserved and not reported failed never     *)
(*                      exceeds the cap.                                   *)
(***************************************************************************)
EXTENDS ChatOutbound, FiniteSetTheorems, TLAPS

(* A webhook that has matched a receipt holds a recipient and a status.    *)
ReceiptMatched ==
  \A h \in Hooks : receipt[h] # NoReceipt =>
     receipt[h].of \in Recipients /\ receipt[h].says \in ReceiptStatus

TypeInv == TypeOK /\ ReceiptMatched

(* A worker about to post serves a phone that has not written STOP and a   *)
(* batch that is still queued.                                             *)
StillWelcome == \A w \in Workers : pc[w] = "post" => cur[w][2] \notin stopped
StillQueued  == \A w \in Workers : pc[w] = "post" => batch[cur[w][1]] = "queued"

WelcomeInv == TypeInv /\ StillWelcome /\ StillQueued

(* The sender's row lock has one holder, a worker or an operator's request. *)
OneGuard == \A v, w \in Workers : Guarding(v) /\ Guarding(w) => v = w
OneQueue ==
  \A o, p \in Operators : queueing[o] # NoOne /\ queueing[p] # NoOne => o = p
GuardOrQueue ==
  \A w \in Workers, o \in Operators : Guarding(w) => queueing[o] = NoOne

(* A batch is queued from a draft, none of whose recipients was sent.      *)
QueueingDraft ==
  \A o \in Operators : queueing[o] # NoOne => batch[queueing[o]] = "draft"
DraftIsUnsent ==
  \A r \in Recipients :
    /\ batch[r[1]] = "none"  => status[r] = "none"
    /\ batch[r[1]] = "draft" => status[r] \in {"none", "draft"}

(* What the row looks like at each step of its worker.                     *)
StepMatchesRow ==
  \A w \in Workers :
    /\ pc[w] = "check" => status[cur[w]] = "queued"
    /\ pc[w] = "post"  => status[cur[w]] = "sending" /\ posts[cur[w]] = 0
    /\ pc[w] \in {"error", "answer", "record"} => posts[cur[w]] > 0

(* What looks unsent was not posted; receipts are for what was.            *)
UnsentIsUnposted ==
  \A r \in Recipients : /\ status[r] \in Unsent \cup {"none"} => posts[r] = 0
                        /\ posts[r] \in {0, 1}
ReceiptIsPosted ==
  /\ \A r \in meta : posts[r] > 0
  /\ \A h \in Hooks : receipt[h] # NoReceipt => posts[receipt[h].of] > 0

OnceInv ==
  /\ TypeInv
  /\ OneGuard /\ OneQueue /\ GuardOrQueue
  /\ QueueingDraft /\ DraftIsUnsent
  /\ StepMatchesRow /\ UnsentIsUnposted /\ ReceiptIsPosted

(* A row that shows a failure was reported failed; the other recipients of *)
(* a phone about to be posted to were posted long ago or failed.           *)
FailedIsReported == \A r \in Recipients : status[r] = "failed" => r \in failed
PostIsAlone ==
  \A w \in Workers : pc[w] = "post" =>
    \A q \in Recipients :
       q # cur[w] /\ q[2] = cur[w][2] /\ q \in fresh /\ posts[q] > 0 => q \in failed

AloneInv == OnceInv /\ FailedIsReported /\ PostIsAlone /\ OneSendPerPhone
-----------------------------------------------------------------------------
LEMMA RecipientParts ==
  ASSUME NEW r \in Recipients PROVE r[1] \in Batches /\ r[2] \in Phones
BY DEF Recipients

LEMMA CapacityIsNat == Cardinality(Reserved) \in Nat
<1>1. IsFiniteSet(Recipients)
  BY FS_Product, Assumptions DEF Recipients
<1>2. Reserved \subseteq Recipients
  BY DEF Reserved
<1> QED BY <1>1, <1>2, FS_Subset, FS_CardinalityType

LEMMA InitTypeInv == Init => TypeInv
<1> SUFFICES ASSUME Init PROVE TypeInv
  OBVIOUS
<1>1. TypeOK
  BY Assumptions DEF Init, TypeOK, NoReceipt, RowStatus
<1>2. ReceiptMatched
  BY DEF Init, ReceiptMatched
<1> QED BY <1>1, <1>2 DEF TypeInv

LEMMA NextTypeInv == TypeInv /\ [Next]_vars => TypeInv'
<1> SUFFICES ASSUME TypeInv, [Next]_vars PROVE TypeInv'
  OBVIOUS
<1> USE DEF TypeInv, TypeOK, ReceiptMatched, rowVars, workerVars, queueVars, worldVars
<1>1. CASE Operate
  <2>1. ASSUME NEW b \in Batches, NEW P \in SUBSET Phones, Prepare(b, P) PROVE TypeInv'
    BY <2>1 DEF Prepare, RowStatus, Unsent
  <2>2. ASSUME NEW o \in Operators, NEW b \in Batches, Reserve(o, b) PROVE TypeInv'
    BY <2>2, CapacityIsNat, Assumptions DEF Reserve, ReadCapacity
  <2>3. ASSUME NEW o \in Operators, NEW refused \in SUBSET Phones, Queue(o, refused)
        PROVE  TypeInv'
    BY <2>3 DEF Queue, Leave, RowStatus, Unsent
  <2>4. ASSUME NEW o \in Operators, QueueFails(o) PROVE TypeInv'
    BY <2>4 DEF QueueFails, Leave
  <2>5. ASSUME NEW b \in Batches, Cancel(b) PROVE TypeInv'
    BY <2>5 DEF Cancel, Withdraw, Cancelled, RowStatus, Unsent
  <2> QED BY <1>1, <2>1, <2>2, <2>3, <2>4, <2>5 DEF Operate
<1>2. ASSUME NEW w \in Workers, Send(w) PROVE TypeInv'
  <2> USE DEF GoTo, EndSend, Guarded
  <2>1. ASSUME NEW r \in Recipients, Pick(w, r) PROVE TypeInv'
    BY <2>1 DEF Pick, RowStatus, Unsent
  <2>2. CASE Lock(w)
    BY <2>2 DEF Lock, RowStatus
  <2>3. CASE CommitSending(w)
    BY <2>3 DEF CommitSending, RowStatus
  <2>4. CASE Block(w)
    BY <2>4 DEF Block, RowStatus, Unsent
  <2>5. CASE Post(w)
    BY <2>5 DEF Post
  <2>6. CASE Ambiguous(w)
    BY <2>6 DEF Ambiguous, RowStatus
  <2>7. CASE Refresh(w)
    BY <2>7 DEF Refresh
  <2>8. CASE Record(w)
    BY <2>8 DEF Record, RowStatus
  <2> QED BY <1>2, <2>1, <2>2, <2>3, <2>4, <2>5, <2>6, <2>7, <2>8 DEF Send
<1>3. CASE World
  <2>1. ASSUME NEW p \in Phones, Stop(p) PROVE TypeInv'
    BY <2>1 DEF Stop, OptOut
  <2>2. ASSUME NEW w \in Workers, Crash(w) PROVE TypeInv'
    BY <2>2, Assumptions DEF Crash, EndSend, RowStatus
  <2>3. ASSUME NEW r \in Recipients, SweepSending(r) PROVE TypeInv'
    BY <2>3 DEF SweepSending, RowStatus
  <2>4. ASSUME NEW h \in Hooks, NEW r \in Recipients, NEW s \in ReceiptStatus,
               Receive(h, r, s)
        PROVE  TypeInv'
    BY <2>4 DEF Receive, NoReceipt
  <2>5. ASSUME NEW h \in Hooks, CommitReceipt(h) PROVE TypeInv'
    BY <2>5 DEF CommitReceipt, WriteReceipt, NoReceipt, RowStatus
  <2>6. ASSUME NEW r \in Recipients, Age(r) PROVE TypeInv'
    BY <2>6 DEF Age
  <2> QED BY <1>3, <2>1, <2>2, <2>3, <2>4, <2>5, <2>6 DEF World
<1>4. CASE UNCHANGED vars
  BY <1>4 DEF vars
<1> QED BY <1>1, <1>2, <1>3, <1>4 DEF Next

(* Every variable keeps its type, for any number of batches and workers:   *)
(* a session only writes rows it has matched or handles.                   *)
THEOREM TypesKept == Spec => []TypeOK
<1>1. TypeInv => TypeOK
  BY DEF TypeInv
<1> QED BY <1>1, InitTypeInv, NextTypeInv, PTL DEF Spec
-----------------------------------------------------------------------------
LEMMA InitWelcomeInv == Init => WelcomeInv
BY InitTypeInv DEF Init, WelcomeInv, StillWelcome, StillQueued

LEMMA NextWelcomeInv == WelcomeInv /\ [Next]_vars => WelcomeInv'
<1> DEFINE Still == StillWelcome /\ StillQueued
<1> SUFFICES ASSUME WelcomeInv, [Next]_vars PROVE Still'
  BY NextTypeInv DEF WelcomeInv
<1>a. TypeOK
  BY DEF WelcomeInv, TypeInv
<1>b. \A w \in Workers : pc[w] = "post" => cur[w][1] \in Batches /\ cur[w][2] \in Phones
  BY <1>a, RecipientParts DEF TypeOK
<1> USE <1>a, <1>b DEF WelcomeInv, TypeOK, StillWelcome, StillQueued, rowVars, workerVars,
                       queueVars, worldVars
<1>1. CASE Operate
  <2>1. ASSUME NEW b \in Batches, NEW P \in SUBSET Phones, Prepare(b, P) PROVE Still'
    BY <2>1 DEF Prepare
  <2>2. ASSUME NEW o \in Operators, NEW b \in Batches, Reserve(o, b) PROVE Still'
    BY <2>2 DEF Reserve, ReadCapacity
  <2>3. ASSUME NEW o \in Operators, NEW refused \in SUBSET Phones, Queue(o, refused)
        PROVE  Still'
    BY <2>3 DEF Queue
  <2>4. ASSUME NEW o \in Operators, QueueFails(o) PROVE Still'
    BY <2>4 DEF QueueFails
  <2>5. ASSUME NEW b \in Batches, Cancel(b) PROVE Still'  \* waits for the batch
    BY <2>5 DEF Cancel, Withdraw, BatchFree, Guarding, Guarded
  <2> QED BY <1>1, <2>1, <2>2, <2>3, <2>4, <2>5 DEF Operate
<1>2. ASSUME NEW w \in Workers, Send(w) PROVE Still'
  <2> USE DEF GoTo, EndSend
  <2>1. ASSUME NEW r \in Recipients, Pick(w, r) PROVE Still'
    BY <2>1 DEF Pick
  <2>2. CASE Lock(w)
    BY <2>2 DEF Lock
  <2>3. CASE CommitSending(w)
    BY <2>3 DEF CommitSending, Eligible
  <2>4. CASE Block(w)
    BY <2>4 DEF Block
  <2>5. CASE Post(w)
    BY <2>5 DEF Post
  <2>6. CASE Ambiguous(w)
    BY <2>6 DEF Ambiguous
  <2>7. CASE Refresh(w)
    BY <2>7 DEF Refresh
  <2>8. CASE Record(w)
    BY <2>8 DEF Record
  <2> QED BY <1>2, <2>1, <2>2, <2>3, <2>4, <2>5, <2>6, <2>7, <2>8 DEF Send
<1>3. CASE World
  <2>1. ASSUME NEW p \in Phones, Stop(p) PROVE Still'  \* waits for the phone
    BY <2>1 DEF Stop, OptOut, PhoneFree, Guarding, Guarded
  <2>2. ASSUME NEW w \in Workers, Crash(w) PROVE Still'
    BY <2>2 DEF Crash, EndSend
  <2>3. ASSUME NEW r \in Recipients, SweepSending(r) PROVE Still'
    BY <2>3 DEF SweepSending
  <2>4. ASSUME NEW h \in Hooks, NEW r \in Recipients, NEW s \in ReceiptStatus,
               Receive(h, r, s)
        PROVE  Still'
    BY <2>4 DEF Receive
  <2>5. ASSUME NEW h \in Hooks, CommitReceipt(h) PROVE Still'
    BY <2>5 DEF CommitReceipt, WriteReceipt
  <2>6. ASSUME NEW r \in Recipients, Age(r) PROVE Still'
    BY <2>6 DEF Age
  <2> QED BY <1>3, <2>1, <2>2, <2>3, <2>4, <2>5, <2>6 DEF World
<1>4. CASE UNCHANGED vars
  BY <1>4 DEF vars
<1> QED BY <1>1, <1>2, <1>3, <1>4 DEF Next

(* Only Post changes posts, and only for the recipient of its worker.      *)
LEMMA PostsChangeByPost ==
  ASSUME TypeInv, [Next]_vars, NEW r \in Recipients, posts'[r] # posts[r]
  PROVE  \E w \in Workers : Post(w) /\ cur[w] = r
<1>1. posts' # posts
  OBVIOUS
<1>2. CASE \E w \in Workers : Post(w)
  BY <1>2 DEF Post, TypeInv, TypeOK
<1>3. CASE ~\E w \in Workers : Post(w)
  <2> USE DEF rowVars, workerVars, queueVars, worldVars
  <2>1. ~Operate
    BY <1>1 DEF Operate, Prepare, Reserve, ReadCapacity, Queue, QueueFails, Cancel, Withdraw
  <2>2. ASSUME NEW w \in Workers PROVE ~Send(w)
    BY <1>1, <1>3 DEF Send, Pick, Lock, CommitSending, Block, Ambiguous, Refresh, Record
  <2>3. ~World
    BY <1>1 DEF World, Stop, OptOut, Crash, SweepSending, Receive, CommitReceipt,
                WriteReceipt, Age
  <2> QED BY <1>1, <2>1, <2>2, <2>3 DEF Next, vars
<1> QED BY <1>2, <1>3

(* After a customer's STOP has committed no template is posted to the      *)
(* phone: STOP waits for the phone lock, which the worker holds from its   *)
(* last check to the end of its POST.                                      *)
THEOREM NothingSentAfterStop == Spec => NoPostAfterStop
<1>1. WelcomeInv /\ [Next]_vars
        => [\A r \in Recipients : posts'[r] # posts[r] => r[2] \notin stopped]_vars
  <2> SUFFICES ASSUME WelcomeInv, [Next]_vars, NEW r \in Recipients, posts'[r] # posts[r]
               PROVE  r[2] \notin stopped
    OBVIOUS
  <2>1. PICK w \in Workers : Post(w) /\ cur[w] = r
    BY PostsChangeByPost DEF WelcomeInv
  <2> QED BY <2>1 DEF WelcomeInv, StillWelcome, Post
<1> QED BY <1>1, InitWelcomeInv, NextWelcomeInv, PTL DEF Spec, NoPostAfterStop

(* After a cancellation has committed nothing of the batch is posted:      *)
(* cancelling waits for the batch's row lock, which the worker holds.      *)
THEOREM NothingSentAfterCancel == Spec => NoPostAfterCancel
<1>1. WelcomeInv /\ [Next]_vars
        => [\A r \in Recipients : posts'[r] # posts[r] => batch[r[1]] = "queued"]_vars
  <2> SUFFICES ASSUME WelcomeInv, [Next]_vars, NEW r \in Recipients, posts'[r] # posts[r]
               PROVE  batch[r[1]] = "queued"
    OBVIOUS
  <2>1. PICK w \in Workers : Post(w) /\ cur[w] = r
    BY PostsChangeByPost DEF WelcomeInv
  <2> QED BY <2>1 DEF WelcomeInv, StillQueued, Post
<1> QED BY <1>1, InitWelcomeInv, NextWelcomeInv, PTL DEF Spec, NoPostAfterCancel
-----------------------------------------------------------------------------
LEMMA InitOnceInv == Init => OnceInv
<1> SUFFICES ASSUME Init PROVE OnceInv
  OBVIOUS
<1>1. TypeInv
  BY InitTypeInv
<1>2. OneGuard /\ OneQueue /\ GuardOrQueue
  BY DEF Init, OneGuard, OneQueue, GuardOrQueue, Guarding, Guarded
<1>3. QueueingDraft /\ DraftIsUnsent
  BY RecipientParts DEF Init, QueueingDraft, DraftIsUnsent
<1>4. StepMatchesRow /\ UnsentIsUnposted /\ ReceiptIsPosted
  BY DEF Init, StepMatchesRow, UnsentIsUnposted, ReceiptIsPosted
<1> QED BY <1>1, <1>2, <1>3, <1>4 DEF OnceInv

(* The lock of the sender, whichever transaction ends or begins.           *)
LEMMA NextSenderHeldOnce ==
  OnceInv /\ [Next]_vars => OneGuard' /\ OneQueue' /\ GuardOrQueue'
<1> DEFINE HeldOnce == OneGuard /\ OneQueue /\ GuardOrQueue
<1> SUFFICES ASSUME OnceInv, [Next]_vars PROVE HeldOnce'
  OBVIOUS
<1>a. TypeOK /\ HeldOnce
  BY DEF OnceInv, TypeInv
<1> USE <1>a DEF TypeOK, OneGuard, OneQueue, GuardOrQueue, Guarding, Guarded, rowVars, workerVars,
                 queueVars, worldVars
<1>1. CASE Operate
  <2>1. ASSUME NEW b \in Batches, NEW P \in SUBSET Phones, Prepare(b, P) PROVE HeldOnce'
    BY <2>1 DEF Prepare
  <2>2. ASSUME NEW o \in Operators, NEW b \in Batches, Reserve(o, b) PROVE HeldOnce'
    BY <2>2 DEF Reserve, ReadCapacity, SenderFree
  <2>3. ASSUME NEW o \in Operators, NEW refused \in SUBSET Phones, Queue(o, refused)
        PROVE  HeldOnce'
    BY <2>3 DEF Queue, Leave
  <2>4. ASSUME NEW o \in Operators, QueueFails(o) PROVE HeldOnce'
    BY <2>4 DEF QueueFails, Leave
  <2>5. ASSUME NEW b \in Batches, Cancel(b) PROVE HeldOnce'
    BY <2>5 DEF Cancel, Withdraw
  <2> QED BY <1>1, <2>1, <2>2, <2>3, <2>4, <2>5 DEF Operate
<1>2. ASSUME NEW w \in Workers, Send(w) PROVE HeldOnce'
  <2> USE DEF GoTo, EndSend
  <2>1. ASSUME NEW r \in Recipients, Pick(w, r) PROVE HeldOnce'
    BY <2>1 DEF Pick
  <2>2. CASE Lock(w)
    BY <2>2 DEF Lock, LocksFree, SenderFree
  <2>3. CASE CommitSending(w) \/ Block(w) \/ Ambiguous(w) \/ Record(w)
    BY <2>3 DEF CommitSending, Block, Ambiguous, Record
  <2>4. CASE Post(w)
    BY <2>4 DEF Post
  <2>5. CASE Refresh(w)
    BY <2>5 DEF Refresh
  <2> QED BY <1>2, <2>1, <2>2, <2>3, <2>4, <2>5 DEF Send
<1>3. CASE World
  <2>1. ASSUME NEW w \in Workers, Crash(w) PROVE HeldOnce'
    BY <2>1 DEF Crash, EndSend
  <2>2. CASE ~\E w \in Workers : Crash(w)
    BY <1>3, <2>2 DEF World, Stop, OptOut, SweepSending, Receive, CommitReceipt, WriteReceipt, Age
  <2> QED BY <2>1, <2>2
<1>4. CASE UNCHANGED vars
  BY <1>4 DEF vars
<1> QED BY <1>1, <1>2, <1>3, <1>4 DEF Next

(* The rows, under the lock.                                               *)
LEMMA NextRows ==
  OnceInv /\ [Next]_vars
    => /\ QueueingDraft' /\ DraftIsUnsent'
       /\ StepMatchesRow' /\ UnsentIsUnposted' /\ ReceiptIsPosted'
<1> DEFINE RowInv == /\ QueueingDraft /\ DraftIsUnsent
                     /\ StepMatchesRow /\ UnsentIsUnposted /\ ReceiptIsPosted
<1> SUFFICES ASSUME OnceInv, [Next]_vars PROVE RowInv'
  OBVIOUS
<1>a. TypeOK /\ ReceiptMatched /\ OneGuard /\ OneQueue /\ GuardOrQueue /\ RowInv
  BY DEF OnceInv, TypeInv
<1> USE <1>a, RecipientParts
    DEF TypeOK, ReceiptMatched, QueueingDraft, DraftIsUnsent, StepMatchesRow, UnsentIsUnposted,
        ReceiptIsPosted, rowVars, workerVars, queueVars, worldVars
<1>1. CASE Operate
  <2>1. ASSUME NEW b \in Batches, NEW P \in SUBSET Phones, Prepare(b, P) PROVE RowInv'
    BY <2>1, Assumptions DEF Prepare, Unsent
  <2>2. ASSUME NEW o \in Operators, NEW b \in Batches, Reserve(o, b) PROVE RowInv'
    BY <2>2, Assumptions DEF Reserve, ReadCapacity
  <2>3. ASSUME NEW o \in Operators, NEW refused \in SUBSET Phones, Queue(o, refused)
        PROVE  RowInv'
    BY <2>3 DEF Queue, Leave, Unsent, OneQueue, GuardOrQueue, Guarding, Guarded
  <2>4. ASSUME NEW o \in Operators, QueueFails(o) PROVE RowInv'
    BY <2>4 DEF QueueFails, Leave
  <2>5. ASSUME NEW b \in Batches, Cancel(b) PROVE RowInv'
    BY <2>5 DEF Cancel, Withdraw, Cancelled, BatchFree, Guarding, Guarded, Unsent
  <2> QED BY <1>1, <2>1, <2>2, <2>3, <2>4, <2>5 DEF Operate
<1>2. ASSUME NEW w \in Workers, Send(w) PROVE RowInv'
  <2> USE DEF GoTo, EndSend, OneGuard, Guarding, Guarded, Unsent
  <2>1. ASSUME NEW r \in Recipients, Pick(w, r) PROVE RowInv'
    BY <2>1 DEF Pick
  <2>2. CASE Lock(w)
    BY <2>2 DEF Lock
  <2>3. CASE CommitSending(w)
    BY <2>3 DEF CommitSending
  <2>4. CASE Block(w)
    BY <2>4 DEF Block
  <2>5. CASE Post(w)
    BY <2>5 DEF Post
  <2>6. CASE Ambiguous(w)
    BY <2>6 DEF Ambiguous
  <2>7. CASE Refresh(w)
    BY <2>7 DEF Refresh
  <2>8. CASE Record(w)
    BY <2>8 DEF Record
  <2> QED BY <1>2, <2>1, <2>2, <2>3, <2>4, <2>5, <2>6, <2>7, <2>8 DEF Send
<1>3. CASE World
  <2>1. ASSUME NEW p \in Phones, Stop(p) PROVE RowInv'
    BY <2>1 DEF Stop, OptOut
  <2>2. ASSUME NEW w \in Workers, Crash(w) PROVE RowInv'
    BY <2>2 DEF Crash, EndSend
  <2>3. ASSUME NEW r \in Recipients, SweepSending(r) PROVE RowInv'
    BY <2>3 DEF SweepSending, Interrupted, Busy, Unsent
  <2>4. ASSUME NEW h \in Hooks, NEW r \in Recipients, NEW s \in ReceiptStatus,
               Receive(h, r, s)
        PROVE  RowInv'
    BY <2>4 DEF Receive, NoReceipt
  <2>5. ASSUME NEW h \in Hooks, CommitReceipt(h) PROVE RowInv'
    BY <2>5 DEF CommitReceipt, WriteReceipt, NoReceipt, ReceiptStatus, Unsent
  <2>6. ASSUME NEW r \in Recipients, Age(r) PROVE RowInv'
    BY <2>6 DEF Age
  <2> QED BY <1>3, <2>1, <2>2, <2>3, <2>4, <2>5, <2>6 DEF World
<1>4. CASE UNCHANGED vars
  BY <1>4 DEF vars
<1> QED BY <1>1, <1>2, <1>3, <1>4 DEF Next

LEMMA NextOnceInv == OnceInv /\ [Next]_vars => OnceInv'
BY NextTypeInv, NextSenderHeldOnce, NextRows DEF OnceInv

(* A recipient is posted at most once, whichever drains race for it, die   *)
(* or are swept up.                                                        *)
THEOREM PostedAtMostOnce == Spec => []AtMostOnePost
<1>1. OnceInv => AtMostOnePost
  BY DEF OnceInv, UnsentIsUnposted, AtMostOnePost
<1> QED BY <1>1, InitOnceInv, NextOnceInv, PTL DEF Spec

(* The row of a recipient that was posted never again looks unsent, though *)
(* worker, sweep and webhooks write it from what they have read earlier.   *)
THEOREM PostedNeverUnsent == Spec => []PostedStaysPosted
<1>1. OnceInv => PostedStaysPosted
  BY DEF OnceInv, UnsentIsUnposted, PostedStaysPosted
<1> QED BY <1>1, InitOnceInv, NextOnceInv, PTL DEF Spec
-----------------------------------------------------------------------------
LEMMA InitAloneInv == Init => AloneInv
BY InitOnceInv DEF Init, AloneInv, FailedIsReported, PostIsAlone, OneSendPerPhone

(* The check of eligibility, under the locks: what stands for the phone    *)
(* within 24 hours and was posted has failed.                              *)
LEMMA EligibleIsAlone ==
  ASSUME AloneInv, NEW r \in Recipients, Eligible(r), NEW q \in Recipients,
         q # r, q[2] = r[2], q \in fresh, posts[q] > 0
  PROVE  q \in failed
<1>1. status[q] \in RowStatus \ Unsent
  BY DEF AloneInv, OnceInv, TypeInv, TypeOK, UnsentIsUnposted
<1>2. status[q] \notin ACTIVE
  BY DEF Eligible, Recent, Reserved
<1>3. status[q] = "failed"
  BY <1>1, <1>2 DEF RowStatus, Unsent, ReceiptStatus, ACTIVE
<1> QED BY <1>3 DEF AloneInv, FailedIsReported

LEMMA NextAloneInv == AloneInv /\ [Next]_vars => AloneInv'
<1> DEFINE Alone == FailedIsReported /\ PostIsAlone /\ OneSendPerPhone
<1> SUFFICES ASSUME AloneInv, [Next]_vars PROVE Alone'
  BY NextOnceInv DEF AloneInv
<1>a. TypeOK /\ ReceiptMatched /\ OneGuard /\ StepMatchesRow /\ Alone
  BY DEF AloneInv, OnceInv, TypeInv
<1> USE <1>a DEF TypeOK, FailedIsReported, PostIsAlone, OneSendPerPhone, rowVars, workerVars,
                 queueVars, worldVars
<1>1. CASE Operate
  <2>1. ASSUME NEW b \in Batches, NEW P \in SUBSET Phones, Prepare(b, P) PROVE Alone'
    BY <2>1 DEF Prepare
  <2>2. ASSUME NEW o \in Operators, NEW b \in Batches, Reserve(o, b) PROVE Alone'
    BY <2>2 DEF Reserve, ReadCapacity
  <2>3. ASSUME NEW o \in Operators, NEW refused \in SUBSET Phones, Queue(o, refused)
        PROVE  Alone'
    BY <2>3 DEF Queue
  <2>4. ASSUME NEW o \in Operators, QueueFails(o) PROVE Alone'
    BY <2>4 DEF QueueFails
  <2>5. ASSUME NEW b \in Batches, Cancel(b) PROVE Alone'
    BY <2>5 DEF Cancel, Withdraw, Cancelled
  <2> QED BY <1>1, <2>1, <2>2, <2>3, <2>4, <2>5 DEF Operate
<1>2. ASSUME NEW w \in Workers, Send(w) PROVE Alone'
  <2> USE DEF GoTo, EndSend
  <2>1. ASSUME NEW r \in Recipients, Pick(w, r) PROVE Alone'
    BY <2>1 DEF Pick
  <2>2. CASE Lock(w)
    BY <2>2 DEF Lock
  <2>3. CASE CommitSending(w)
    <3>1. cur[w] \in Recipients /\ posts[cur[w]] = 0
      BY <2>3 DEF CommitSending, StepMatchesRow, AloneInv, OnceInv, UnsentIsUnposted, Unsent
    <3>2. FailedIsReported' /\ OneSendPerPhone'
      BY <2>3, <3>1 DEF CommitSending
    <3>3. PostIsAlone'
      BY <2>3, <3>1, EligibleIsAlone DEF CommitSending, OneGuard, Guarding, Guarded
    <3> QED BY <3>2, <3>3
  <2>4. CASE Block(w)
    BY <2>4 DEF Block
  <2>5. CASE Post(w)
    BY <2>5 DEF Post, OneGuard, Guarding, Guarded
  <2>6. CASE Ambiguous(w)
    BY <2>6 DEF Ambiguous
  <2>7. CASE Refresh(w)
    BY <2>7 DEF Refresh
  <2>8. CASE Record(w)
    BY <2>8 DEF Record
  <2> QED BY <1>2, <2>1, <2>2, <2>3, <2>4, <2>5, <2>6, <2>7, <2>8 DEF Send
<1>3. CASE World
  <2>1. ASSUME NEW p \in Phones, Stop(p) PROVE Alone'
    BY <2>1 DEF Stop, OptOut
  <2>2. ASSUME NEW w \in Workers, Crash(w) PROVE Alone'
    BY <2>2 DEF Crash, EndSend
  <2>3. ASSUME NEW r \in Recipients, SweepSending(r) PROVE Alone'
    BY <2>3 DEF SweepSending
  <2>4. ASSUME NEW h \in Hooks, NEW r \in Recipients, NEW s \in ReceiptStatus,
               Receive(h, r, s)
        PROVE  Alone'
    BY <2>4 DEF Receive
  <2>5. ASSUME NEW h \in Hooks, CommitReceipt(h) PROVE Alone'
    BY <2>5 DEF CommitReceipt, WriteReceipt, ReceiptMatched
  <2>6. ASSUME NEW r \in Recipients, Age(r) PROVE Alone'
    BY <2>6 DEF Age
  <2> QED BY <1>3, <2>1, <2>2, <2>3, <2>4, <2>5, <2>6 DEF World
<1>4. CASE UNCHANGED vars
  BY <1>4 DEF vars
<1> QED BY <1>1, <1>2, <1>3, <1>4 DEF Next

(* Over all batches a phone is sent one template within 24 hours, unless   *)
(* Meta has reported one of the two as failed.                             *)
THEOREM OneTemplatePerDay == Spec => []OneSendPerPhone
<1>1. AloneInv => OneSendPerPhone
  BY DEF AloneInv
<1> QED BY <1>1, InitAloneInv, NextAloneInv, PTL DEF Spec
-----------------------------------------------------------------------------
(***************************************************************************)
(* The daily cap of a sender.  Only Queue takes capacity, and it takes what *)
(* its operator has read under the lock of the sender; every other step    *)
(* takes nothing.                                                          *)
(***************************************************************************)

Taken == Reserved \ failed

(* A row a worker sends stays within its 24 hours until the worker is done. *)
SendingIsFresh ==
  \A w \in Workers : pc[w] \in {"post", "error", "answer", "record"} => cur[w] \in fresh

(* What an operator's request has read is still free when it queues.       *)
RoomLeft ==
  \A o \in Operators :
    queueing[o] # NoOne /\ room[o] > 0 => Cardinality(Taken) + room[o] <= Cap

CapInv == AloneInv /\ SendingIsFresh /\ RoomLeft /\ CapHolds
-----------------------------------------------------------------------------
LEMMA RecipientsFinite ==
  /\ IsFiniteSet(Recipients)
  /\ \A S : S \subseteq Recipients => IsFiniteSet(S) /\ Cardinality(S) \in Nat
<1>1. IsFiniteSet(Recipients)
  BY FS_Product, Assumptions DEF Recipients
<1> QED BY <1>1, FS_Subset, FS_CardinalityType

LEMMA TakenFinite == Taken \subseteq Recipients /\ Reserved \subseteq Recipients
BY DEF Taken, Reserved

LEMMA InitCapInv == Init => CapInv
<1> SUFFICES ASSUME Init PROVE CapInv
  OBVIOUS
<1>1. Taken = {}
  BY DEF Init, Taken, Reserved
<1>2. CapHolds
  BY <1>1, FS_EmptySet, Assumptions DEF CapHolds, Taken
<1>3. SendingIsFresh /\ RoomLeft
  BY DEF Init, SendingIsFresh, RoomLeft
<1> QED BY <1>2, <1>3, InitAloneInv DEF CapInv

LEMMA NextSendingIsFresh ==
  ASSUME TypeInv, SendingIsFresh, [Next]_vars PROVE SendingIsFresh'
<1> USE DEF TypeInv, TypeOK, SendingIsFresh, rowVars, workerVars, queueVars, worldVars
<1>1. CASE Operate
  BY <1>1 DEF Operate, Prepare, Reserve, ReadCapacity, Queue, QueueFails, Cancel, Withdraw
<1>2. ASSUME NEW w \in Workers, Send(w) PROVE SendingIsFresh'
  <2> USE DEF GoTo, EndSend
  <2>1. ASSUME NEW r \in Recipients, Pick(w, r) PROVE SendingIsFresh'
    BY <2>1 DEF Pick
  <2>2. CASE Lock(w)
    BY <2>2 DEF Lock
  <2>3. CASE CommitSending(w)
    BY <2>3 DEF CommitSending
  <2>4. CASE Block(w) \/ Ambiguous(w) \/ Record(w)
    BY <2>4 DEF Block, Ambiguous, Record
  <2>5. CASE Post(w) \/ Refresh(w)
    BY <2>5 DEF Post, Refresh
  <2> QED BY <1>2, <2>1, <2>2, <2>3, <2>4, <2>5 DEF Send
<1>3. CASE World
  <2>1. ASSUME NEW r \in Recipients, Age(r) PROVE SendingIsFresh'
    BY <2>1 DEF Age, Busy
  <2>2. ASSUME NEW w \in Workers, Crash(w) PROVE SendingIsFresh'
    BY <2>2 DEF Crash, EndSend
  <2> QED BY <1>3, <2>1, <2>2 DEF World, Stop, OptOut, SweepSending, Receive, CommitReceipt, WriteReceipt
<1>4. CASE UNCHANGED vars
  BY <1>4 DEF vars
<1> QED BY <1>1, <1>2, <1>3, <1>4 DEF Next

(* A posted row that was not reported failed takes capacity while fresh.   *)
LEMMA PostedTakes ==
  ASSUME AloneInv, NEW r \in Recipients, posts[r] > 0, r \in fresh, r \notin failed
  PROVE  r \in Taken
<1>1. status[r] \notin Unsent \cup {"none", "failed"}
  BY DEF AloneInv, OnceInv, UnsentIsUnposted, FailedIsReported
<1>2. status[r] \in ACTIVE
  BY <1>1 DEF AloneInv, OnceInv, TypeInv, TypeOK, RowStatus, ReceiptStatus, Unsent, ACTIVE
<1> QED BY <1>2 DEF Taken, Reserved

(* Every step but Queue takes nothing.                                     *)
LEMMA TakenShrinks ==
  ASSUME AloneInv, SendingIsFresh, [Next]_vars,
         ~ \E o \in Operators, refused \in SUBSET Phones : Queue(o, refused)
  PROVE  Taken' \subseteq Taken
<1>a. TypeInv /\ StepMatchesRow /\ DraftIsUnsent /\ ReceiptIsPosted
  BY DEF AloneInv, OnceInv
<1> USE <1>a DEF TypeInv, TypeOK, rowVars, workerVars, queueVars, worldVars
<1>s. ASSUME UNCHANGED <<status, fresh, failed>> PROVE Taken' \subseteq Taken
  BY <1>s DEF Taken, Reserved
<1>1. CASE Operate
  <2>1. ASSUME NEW b \in Batches, NEW P \in SUBSET Phones, Prepare(b, P) PROVE Taken' \subseteq Taken
    BY <2>1 DEF Prepare, Taken, Reserved, ACTIVE
  <2>2. ASSUME NEW b \in Batches, Cancel(b) PROVE Taken' \subseteq Taken
    BY <2>2 DEF Cancel, Withdraw, Cancelled, Taken, Reserved, ACTIVE
  <2> QED BY <1>1, <1>s, <2>1, <2>2 DEF Operate, Reserve, ReadCapacity, QueueFails
<1>2. ASSUME NEW w \in Workers, Send(w) PROVE Taken' \subseteq Taken
  <2> USE DEF GoTo, EndSend
  <2>1. CASE CommitSending(w)
    <3>1. cur[w] \in Recipients /\ status[cur[w]] = "queued"
      BY <2>1 DEF CommitSending, StepMatchesRow
    <3> QED BY <2>1, <3>1 DEF CommitSending, Taken, Reserved, ACTIVE
  <2>2. CASE Block(w)
    BY <2>2 DEF Block, Taken, Reserved, ACTIVE
  <2>3. CASE Ambiguous(w) \/ Record(w)
    <3>1. cur[w] \in Recipients /\ posts[cur[w]] > 0 /\ cur[w] \in fresh
      BY <2>3 DEF Ambiguous, Record, StepMatchesRow, SendingIsFresh
    <3>2. /\ UNCHANGED <<fresh, failed>>
          /\ \A r \in Recipients : r # cur[w] => status'[r] = status[r]
      BY <2>3 DEF Ambiguous, Record
    <3>3. cur[w] \in failed \/ cur[w] \in Taken
      BY <3>1, PostedTakes
    <3> QED BY <3>2, <3>3 DEF Taken, Reserved
  <2> QED BY <1>2, <1>s, <2>1, <2>2, <2>3 DEF Send, Pick, Lock, Post, Refresh
<1>3. CASE World
  <2>1. ASSUME NEW r \in Recipients, SweepSending(r) PROVE Taken' \subseteq Taken
    BY <2>1 DEF SweepSending, Interrupted, Taken, Reserved, ACTIVE
  <2>2. ASSUME NEW h \in Hooks, CommitReceipt(h) PROVE Taken' \subseteq Taken
    <3> DEFINE r == receipt[h].of
               says == receipt[h].says
    <3>1. r \in Recipients /\ says \in ReceiptStatus /\ posts[r] > 0
      BY <2>2 DEF CommitReceipt, ReceiptMatched, ReceiptIsPosted
    <3>2. /\ fresh' = fresh /\ failed \subseteq failed' /\ (says = "failed" => r \in failed')
          /\ \A q \in Recipients : q # r => status'[q] = status[q]
          /\ status'[r] \in {status[r], says}
      BY <2>2, <3>1 DEF CommitReceipt, WriteReceipt
    <3>3. r \notin fresh => r \notin Reserved' \/ status'[r] = status[r]
      BY <3>1, <3>2 DEF Reserved, ReceiptStatus
    <3>4. r \in fresh => r \in failed \/ r \in Taken
      BY <3>1, PostedTakes
    <3>5. r \in Taken' => r \in Taken
      BY <3>2, <3>3, <3>4 DEF Taken, Reserved
    <3> QED BY <3>2, <3>5 DEF Taken, Reserved
  <2>3. ASSUME NEW r \in Recipients, Age(r) PROVE Taken' \subseteq Taken
    BY <2>3 DEF Age, Taken, Reserved
  <2> QED BY <1>3, <1>s, <2>1, <2>2, <2>3 DEF World, Stop, OptOut, Crash, Receive
<1>4. CASE UNCHANGED vars
  BY <1>4, <1>s DEF vars
<1> QED BY <1>1, <1>2, <1>3, <1>4 DEF Next

LEMMA NextCapInv == CapInv /\ [Next]_vars => CapInv'
<1> SUFFICES ASSUME CapInv, [Next]_vars PROVE RoomLeft' /\ CapHolds'
  BY NextAloneInv, NextSendingIsFresh DEF CapInv, AloneInv, OnceInv
<1>t. TypeInv /\ OneQueue
  BY DEF CapInv, AloneInv, OnceInv
<1>n. /\ Cardinality(Taken) \in Nat /\ Cardinality(Taken') \in Nat /\ Cap \in Nat
      /\ IsFiniteSet(Taken) /\ IsFiniteSet(Taken')
  <2>1. Taken' \subseteq Recipients
    BY DEF Taken, Reserved
  <2> QED BY <2>1, TakenFinite, RecipientsFinite, Assumptions
<1>c. CapHolds <=> Cardinality(Taken) <= Cap
  BY DEF CapHolds, Taken
<1>d. CapHolds' <=> Cardinality(Taken') <= Cap
  BY DEF CapHolds, Taken
<1>1. ASSUME NEW o \in Operators, NEW refused \in SUBSET Phones, Queue(o, refused)
      PROVE  RoomLeft' /\ CapHolds'
  <2> DEFINE b     == queueing[o]
             rows  == {r \in Recipients : r[1] = b /\ status[r] # "none"}
             takes == {r \in rows : Eligible(r) /\ r[2] \notin refused}
  <2>1. /\ b # NoOne /\ takes # {} /\ Cardinality(takes) <= room[o]
        /\ status' = [r \in Recipients |-> CASE r \in takes        -> "queued"
                                             [] r \in rows \ takes -> "blocked"
                                             [] OTHER              -> status[r]]
        /\ Leave(o) /\ UNCHANGED <<fresh, failed>>
    BY <1>1 DEF Queue, worldVars
  <2>2. IsFiniteSet(takes) /\ Cardinality(takes) \in Nat /\ takes \subseteq Recipients
    BY RecipientsFinite
  <2>3. Cardinality(takes) # 0
    BY <2>1, <2>2, FS_EmptySet
  <2>4. room[o] \in Nat
    BY <1>t DEF TypeInv, TypeOK
  <2>5. Cardinality(Taken) + room[o] <= Cap
    <3> HIDE DEF takes
    <3>1. room[o] > 0
      BY <2>1, <2>2, <2>3, <2>4
    <3> QED BY <2>1, <3>1 DEF CapInv, RoomLeft
  <2>6. Taken' \subseteq Taken \cup takes
    <3> SUFFICES ASSUME NEW r \in Taken', r \notin takes PROVE r \in Taken
      OBVIOUS
    <3>1. r \in Recipients /\ r \notin failed
      BY <2>1 DEF Taken, Reserved
    <3>2. status'[r] \in {"blocked", status[r]}
      BY <2>1, <3>1
    <3> QED BY <2>1, <3>1, <3>2 DEF Taken, Reserved, ACTIVE
  <2>7. /\ IsFiniteSet(Taken \cup takes)
        /\ Cardinality(Taken \cup takes) <= Cardinality(Taken) + Cardinality(takes)
    <3>s. Cardinality(takes) \in Nat /\ IsFiniteSet(takes)
      BY <2>2
    <3> HIDE DEF takes
    <3>0. Taken \cap takes \in SUBSET Taken
      OBVIOUS
    <3>1. IsFiniteSet(Taken \cap takes)
      BY <1>n, <3>0, FS_Subset
    <3>2. Cardinality(Taken \cap takes) \in Nat
      BY <3>1, FS_CardinalityType
    <3>4. /\ IsFiniteSet(Taken \cup takes)
          /\ Cardinality(Taken \cup takes)
               = Cardinality(Taken) + Cardinality(takes) - Cardinality(Taken \cap takes)
      BY <1>n, <3>s, FS_Union
    <3> QED BY <1>n, <3>s, <3>2, <3>4
  <2>8. Cardinality(Taken') <= Cardinality(Taken \cup takes) /\ Cardinality(Taken \cup takes) \in Nat
    BY <2>6, <2>7, FS_Subset, FS_CardinalityType
  <2>9. CapHolds'
    <3> HIDE DEF takes
    <3> QED BY <1>n, <1>d, <2>1, <2>2, <2>4, <2>5, <2>7, <2>8
  <2>10. \A p \in Operators : queueing'[p] = NoOne
    BY <1>t, <2>1 DEF Leave, OneQueue, TypeInv, TypeOK
  <2> QED BY <2>9, <2>10 DEF RoomLeft
<1>2. CASE ~ \E o \in Operators, refused \in SUBSET Phones : Queue(o, refused)
  <2>1. Taken' \subseteq Taken
    BY <1>2, TakenShrinks DEF CapInv
  <2>2. Cardinality(Taken') <= Cardinality(Taken)
    BY <1>n, <2>1, FS_Subset
  <2>3. CapHolds'
    BY <1>n, <1>c, <1>d, <2>2 DEF CapInv
  <2>4. RoomLeft'
    <3> SUFFICES ASSUME NEW o \in Operators, queueing'[o] # NoOne, room'[o] > 0
                 PROVE  Cardinality(Taken') + room'[o] <= Cap
      BY DEF RoomLeft
    <3>1. CASE queueing'[o] = queueing[o] /\ room'[o] = room[o]
      <4>1. Cardinality(Taken) + room[o] <= Cap /\ room[o] \in Nat
        BY <1>t, <3>1 DEF CapInv, RoomLeft, TypeInv, TypeOK
      <4> QED BY <1>n, <2>2, <3>1, <4>1
    <3>2. CASE \E b \in Batches : Reserve(o, b)
      <4> DEFINE left == Cap - Cardinality(Reserved)
      <4>0. room'[o] = IF left > 0 THEN left ELSE 0
        <5> HIDE DEF left
        <5>1. room' = [room EXCEPT ![o] = IF left > 0 THEN left ELSE 0]
          BY <3>2 DEF Reserve, ReadCapacity, left
        <5> QED BY <1>t, <5>1 DEF TypeInv, TypeOK
      <4>1. room'[o] = Cap - Cardinality(Reserved)
        BY <4>0
      <4>2. Cardinality(Taken) <= Cardinality(Reserved) /\ Cardinality(Reserved) \in Nat
        BY TakenFinite, RecipientsFinite, FS_Subset DEF Taken
      <4> QED BY <1>n, <2>2, <4>1, <4>2
    <3> DEFINE Kept == (queueing'[o] = queueing[o] /\ room'[o] = room[o]) \/ \E b \in Batches : Reserve(o, b)
    <3>3. Kept
      <4>1. CASE UNCHANGED queueVars
        BY <4>1 DEF queueVars
      <4>2. ASSUME NEW p \in Operators, NEW b \in Batches, Reserve(p, b) PROVE Kept
        BY <1>t, <4>2 DEF Reserve, ReadCapacity, TypeInv, TypeOK
      <4>3. ASSUME NEW p \in Operators, QueueFails(p) PROVE Kept
        BY <1>t, <4>3 DEF QueueFails, Leave, TypeInv, TypeOK
      <4> QED BY <1>2, <4>1, <4>2, <4>3 DEF Next, Operate, Prepare, Cancel, Withdraw, Send, Pick, Lock,
                 CommitSending, Block, Post, Ambiguous, Refresh, Record, World, Stop, OptOut, Crash,
                 SweepSending, Receive, CommitReceipt, WriteReceipt, Age, vars
    <3> QED BY <3>1, <3>2, <3>3
  <2> QED BY <2>3, <2>4
<1> QED BY <1>1, <1>2

(* Batches that operators queue at the same time do not overbook the       *)
(* sender's daily cap.                                                     *)
THEOREM CapKept == Spec => []CapHolds
<1>1. CapInv => CapHolds
  BY DEF CapInv
<1> QED BY <1>1, InitCapInv, NextCapInv, PTL DEF Spec
=============================================================================
