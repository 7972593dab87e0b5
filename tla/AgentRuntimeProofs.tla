------------------------- MODULE AgentRuntimeProofs -------------------------
(***************************************************************************)
(* What AgentRuntime guarantees for any number of turns, workers, crashes  *)
(* and attempts.                                                           *)
(*   TypeCorrect         every variable keeps its type.                    *)
(*   NothingSentAfterStop  the phone lock orders STOP and the POST; this   *)
(*                       holds with and without Celery's time limit.       *)
(*   PostedAtMostOnce    with the time limit, a turn crosses the Meta      *)
(*                       boundary at most once and never looks retryable   *)
(*                       once it may have.                                 *)
(*   BlockedReviewed     a turn that stops the bot was handed to a human.  *)
(*   OneAtATime          one turn is being answered at a time.             *)
(*   PostedInOrder       replies leave in the order of the messages.       *)
(*   SilentWhilePaused   none leaves while a turn waits for a human.       *)
(*   DeliveryImplemented the whole is a TurnDelivery channel.              *)
(* The last four are under TimeLimit.                                      *)
(***************************************************************************)
EXTENDS AgentRuntime, TLAPS

(* A worker that is not idle has a turn.                                   *)
HasTurn == \A w \in Workers : pc[w] # "idle" => job[w] \in Jobs

TypeInv == TypeOK /\ HasTurn

(* Steps of a worker inside the guard session, and those after the last    *)
(* look at the opt-out.                                                    *)
Guarded == {"boundary", "claim", "post", "posted"}
Cleared == {"claim", "post", "posted"}

(* A worker at the send boundary holds the phone lock, and past the opt-out *)
(* check the customer has not sent STOP.                                   *)
LockHeld     == \A w \in Workers : pc[w] \in Guarded => phoneLock = w
StillWelcome == \A w \in Workers : pc[w] \in Cleared => ~consent

StopInv == TypeInv /\ LockHeld /\ StillWelcome

(* A turn has at most one worker, and none while its row is waiting.       *)
OneWorkerPerTurn ==
  \A v, w \in Workers : pc[v] # "idle" /\ pc[w] # "idle" /\ job[v] = job[w] => v = w

WaitingIsFree ==
  \A w \in Workers : pc[w] # "idle" => status[job[w]] \notin {"absent", "pending"}

(* What the row looks like at each step of its worker.                     *)
StepMatchesRow ==
  \A w \in Workers :
    /\ pc[w] \in Answering   => status[job[w]] \in {"processing", "skipped"}
    /\ pc[w] = "claim"       => status[job[w]] = "processing"
    /\ pc[w] \in Posting     => status[job[w]] = "sending"
    /\ pc[w] = "post"        => posts[job[w]] = 0
    /\ pc[w] = "handler"     => status[job[w]] \in {"processing", "skipped", "sending"}

(* A stale row the sweep has read belongs to no task, and only STOP can    *)
(* have touched it since.                                                  *)
StaleIsFree ==
  sweep = "read" =>
    \A j \in Jobs :
      /\ rows[j] \in {"processing", "sending"} =>
           \A w \in Workers : pc[w] # "idle" => job[w] # j
      /\ rows[j] = "processing" => status[j] \in {"processing", "skipped"}
      /\ rows[j] = "sending"    => status[j] = "sending"

(* A turn that may have been posted is past SENDING.                       *)
PostedIsPast ==
  \A j \in Jobs :
    /\ status[j] \in {"absent", "pending", "processing", "skipped"} => posts[j] = 0
    /\ posts[j] \in {0, 1}

OnceInv ==
  /\ StopInv
  /\ OneWorkerPerTurn
  /\ WaitingIsFree
  /\ StepMatchesRow
  /\ StaleIsFree
  /\ PostedIsPast
-----------------------------------------------------------------------------
LEMMA NoReplyTyped == NoReply \in Answer
BY DEF NoReply, Answer

LEMMA InitTypeInv == Init => TypeInv
<1> SUFFICES ASSUME Init PROVE TypeInv
  OBVIOUS
<1>1. /\ status \in [Jobs -> JobStatus \cup {"absent"}]
      /\ attempts \in [Jobs -> Nat]
      /\ rows \in [Jobs -> {"none", "pending", "processing", "sending"}]
      /\ posts \in [Jobs -> Nat]
  BY DEF Init, NoRows
<1>2. /\ pc \in [Workers -> Steps]
      /\ job \in [Workers -> Jobs \cup {0}]
      /\ answer \in [Workers -> Answer]
  BY NoReplyTyped DEF Init, Steps
<1>3. /\ cancelled \subseteq Jobs
      /\ review \subseteq Jobs
      /\ broker \subseteq Jobs
      /\ consent \in BOOLEAN
      /\ optOut \in BOOLEAN
      /\ draft \in {"none", "draft", "cancelled", "waiting_review"}
      /\ draftHolder \in Workers \cup {Form, NoOne}
      /\ phoneLock \in Workers \cup {NoOne}
      /\ sweep \in {"idle", "read", "publish"}
      /\ crashes \in Nat
  BY DEF Init
<1>4. HasTurn
  BY DEF Init, HasTurn
<1> QED BY <1>1, <1>2, <1>3, <1>4 DEF TypeInv, TypeOK

LEMMA NextTypeInv == TypeInv /\ [Next]_vars => TypeInv'
<1> SUFFICES ASSUME TypeInv, [Next]_vars PROVE TypeInv'
  OBVIOUS
<1> USE NoReplyTyped DEF TypeInv, TypeOK, HasTurn, jobVars, stopVars, draftVars, sweepVars, workerVars
<1>1. CASE Customer
  <2>1. ASSUME NEW j \in Jobs, Inbound(j) PROVE TypeInv'
    BY <2>1 DEF Inbound, SetStatus, JobStatus
  <2>2. ASSUME NEW j \in Jobs, Redeliver(j) PROVE TypeInv'
    BY <2>2 DEF Redeliver
  <2>3. CASE Stop
    BY <2>3 DEF Stop, CancelledByStop, JobStatus
  <2>4. CASE FormLock \/ FormSave
    BY <2>4 DEF FormLock, FormSave
  <2> QED BY <1>1, <2>1, <2>2, <2>3, <2>4 DEF Customer
<1>2. CASE Operator
  <2>1. ASSUME NEW b \in BOOLEAN, AdminOptOut(b) PROVE TypeInv'
    BY <2>1 DEF AdminOptOut
  <2>2. CASE Resume
    BY <2>2 DEF Resume, JobStatus
  <2> QED BY <1>2, <2>1, <2>2 DEF Operator
<1>3. ASSUME NEW w \in Workers, Worker(w) PROVE TypeInv'
  <2> USE DEF Steps, Answering, Posting, GoTo, EndTask, Release, SetStatus
  <2>1. ASSUME NEW j \in Jobs, Claim(w, j) PROVE TypeInv'
    BY <2>1 DEF Claim, JobStatus
  <2>2. ASSUME NEW j \in Jobs, Defer(w, j) PROVE TypeInv'
    BY <2>2 DEF Defer
  <2>3. CASE Prepare(w)
    <3>1. CASE Skip(w) /\ UNCHANGED <<cancelled, draft>>
      BY <2>3, <3>1 DEF Prepare, Skip, JobStatus
    <3>2. ASSUME NEW selecting \in BOOLEAN, NEW step \in {"select", "model"},
                 GoTo(w, step), answer' = [answer EXCEPT ![w].selecting = selecting],
                 UNCHANGED <<jobVars, stopVars, draftVars, phoneLock, broker, sweepVars,
                             posts, crashes>>
          PROVE TypeInv'
      <4>1. [answer[w] EXCEPT !.selecting = selecting] \in Answer
        BY DEF Answer
      <4> QED BY <2>3, <3>2, <4>1 DEF Prepare
    <3> QED BY <2>3, <3>1, <3>2, Assumptions DEF Prepare
  <2>4. CASE Select(w)
    <3>1. ASSUME NEW plan \in {"none", "new", "draft", "confirmed", "closed"}
          PROVE  [answer[w] EXCEPT !.plan = plan] \in Answer
      BY DEF Answer
    <3>2. answer' \in [Workers -> Answer]
      BY <2>4, <3>1 DEF Select, Plan
    <3>3. /\ draftHolder' \in Workers \cup {Form, NoOne}
          /\ pc' \in [Workers -> Steps]
          /\ HasTurn'
      BY <2>4 DEF Select, Plan
    <3> QED BY <2>4, <3>2, <3>3 DEF Select, Plan
  <2>5. CASE Model(w)
    <3>1. ASSUME NEW action \in {"reply", "handoff", "side"}
          PROVE  [answer[w] EXCEPT !.action = action] \in Answer
      BY DEF Answer
    <3> QED BY <2>5, <3>1 DEF Model
  <2>6. CASE CheckNewer(w)
    BY <2>6 DEF CheckNewer, Skip, JobStatus
  <2>7. CASE Guard(w)
    BY <2>7 DEF Guard
  <2>8. CASE Boundary(w)
    <3>1. CASE Abandon(w)
      BY <2>8, <3>1 DEF Boundary, Abandon
    <3>2. CASE Reject(w)
      <4>1. draft' \in {"none", "draft", "cancelled", "waiting_review"}
        BY <3>2 DEF Reject, CommitDraft, Answer
      <4>2. cancelled' \subseteq Jobs
        BY <2>8, <3>2 DEF Boundary, Reject
      <4> QED BY <2>8, <3>2, <4>1, <4>2 DEF Boundary, Reject, Skip, JobStatus
    <3>3. CASE Accept(w)
      BY <2>8, <3>3 DEF Boundary, Accept
    <3> QED BY <2>8, <3>1, <3>2, <3>3 DEF Boundary
  <2>9. CASE CommitSending(w)
    BY <2>9 DEF CommitSending, CommitDraft, Answer, JobStatus
  <2>10. CASE Post(w)
    BY <2>10 DEF Post
  <2>11. CASE Finish(w)
    BY <2>11 DEF Finish, JobStatus
  <2>12. CASE Handler(w)
    BY <2>12 DEF Handler, JobStatus
  <2>13. CASE Raise(w)
    BY <2>13 DEF Raise
  <2>14. CASE Crash(w)
    BY <2>14 DEF Crash
  <2> QED BY <1>3, <2>1, <2>2, <2>3, <2>4, <2>5, <2>6, <2>7, <2>8, <2>9, <2>10, <2>11, <2>12, <2>13, <2>14 DEF Worker, Work
<1>4. CASE Sweep
  <2>1. ASSUME NEW stale \in SUBSET Staleable, SweepRead(stale) PROVE TypeInv'
    BY <2>1 DEF SweepRead, Staleable
  <2>2. CASE SweepCommit
    BY <2>2 DEF SweepCommit, JobStatus
  <2>3. ASSUME NEW published \in SUBSET Ready, SweepPublish(published) PROVE TypeInv'
    BY <2>3 DEF SweepPublish, Ready, NoRows
  <2>4. CASE SweepCrash
    BY <2>4 DEF SweepCrash, NoRows
  <2> QED BY <1>4, <2>1, <2>2, <2>3, <2>4 DEF Sweep
<1>5. CASE UNCHANGED vars
  BY <1>5 DEF vars
<1> QED BY <1>1, <1>2, <1>3, <1>4, <1>5 DEF Next

(* Every variable keeps its type, for any number of turns and workers:     *)
(* in particular no step writes an undeclared status.                      *)
THEOREM TypeCorrect == Spec => []TypeOK
<1>1. Init => TypeInv
  BY InitTypeInv
<1>2. TypeInv /\ [Next]_vars => TypeInv'
  BY NextTypeInv
<1>3. TypeInv => TypeOK
  BY DEF TypeInv
<1> QED BY <1>1, <1>2, <1>3, PTL DEF Spec
-----------------------------------------------------------------------------
LEMMA InitStopInv == Init => StopInv
<1> SUFFICES ASSUME Init PROVE StopInv
  OBVIOUS
<1>1. TypeInv
  BY InitTypeInv
<1>2. LockHeld /\ StillWelcome
  BY DEF Init, LockHeld, StillWelcome, Guarded, Cleared
<1> QED BY <1>1, <1>2 DEF StopInv

LEMMA NextStopInv == StopInv /\ [Next]_vars => StopInv'
<1> DEFINE LockAndWelcome == LockHeld /\ StillWelcome
<1> SUFFICES ASSUME StopInv, [Next]_vars PROVE LockAndWelcome'
  BY NextTypeInv DEF StopInv
<1>a. TypeOK
  BY DEF StopInv, TypeInv
<1> USE <1>a DEF TypeOK, StopInv, LockHeld, StillWelcome, Guarded, Cleared, jobVars, stopVars,
                 draftVars, sweepVars, workerVars
<1>1. CASE Customer
  <2>1. ASSUME NEW j \in Jobs, Inbound(j) PROVE LockAndWelcome'
    BY <2>1 DEF Inbound
  <2>2. ASSUME NEW j \in Jobs, Redeliver(j) PROVE LockAndWelcome'
    BY <2>2 DEF Redeliver
  <2>3. CASE Stop  \* waits for the lock, so nobody is past the check
    BY <2>3, Assumptions DEF Stop
  <2>4. CASE FormLock \/ FormSave
    BY <2>4 DEF FormLock, FormSave
  <2> QED BY <1>1, <2>1, <2>2, <2>3, <2>4 DEF Customer
<1>2. CASE Operator
  BY <1>2 DEF Operator, AdminOptOut, Resume
<1>3. ASSUME NEW w \in Workers, Worker(w) PROVE LockAndWelcome'
  <2> USE Assumptions DEF GoTo, EndTask, Release
  <2>1. ASSUME NEW j \in Jobs, Claim(w, j) PROVE LockAndWelcome'
    BY <2>1 DEF Claim
  <2>2. ASSUME NEW j \in Jobs, Defer(w, j) PROVE LockAndWelcome'
    BY <2>2 DEF Defer
  <2>3. CASE Prepare(w)
    BY <2>3 DEF Prepare, Skip
  <2>4. CASE Select(w)
    BY <2>4 DEF Select, Plan
  <2>5. CASE Model(w)
    BY <2>5 DEF Model
  <2>6. CASE CheckNewer(w)
    BY <2>6 DEF CheckNewer, Skip
  <2>7. CASE Guard(w)
    BY <2>7 DEF Guard
  <2>8. CASE Boundary(w)
    BY <2>8 DEF Boundary, Abandon, Reject, Accept, Skip, OptedOut
  <2>9. CASE CommitSending(w)
    BY <2>9 DEF CommitSending
  <2>10. CASE Post(w)
    BY <2>10 DEF Post
  <2>11. CASE Finish(w)
    BY <2>11 DEF Finish
  <2>12. CASE Handler(w)
    BY <2>12 DEF Handler
  <2>13. CASE Raise(w)
    BY <2>13 DEF Raise
  <2>14. CASE Crash(w)
    BY <2>14 DEF Crash
  <2> QED BY <1>3, <2>1, <2>2, <2>3, <2>4, <2>5, <2>6, <2>7, <2>8, <2>9, <2>10, <2>11, <2>12, <2>13, <2>14 DEF Worker, Work
<1>4. CASE Sweep
  BY <1>4 DEF Sweep, SweepRead, SweepCommit, SweepPublish, SweepCrash
<1>5. CASE UNCHANGED vars
  BY <1>5 DEF vars
<1> QED BY <1>1, <1>2, <1>3, <1>4, <1>5 DEF Next

(* Only the POST action changes posts, and only for the worker's own turn. *)
LEMMA PostsChangeByPost ==
  ASSUME TypeInv, [Next]_vars, NEW j \in Jobs, Posts(j)
  PROVE  \E w \in Workers : Post(w) /\ job[w] = j
<1> USE DEF Posts
<1>1. posts' # posts
  OBVIOUS
<1>2. CASE \E w \in Workers : Post(w)
  BY <1>2 DEF Post, TypeInv, TypeOK
<1>3. CASE ~\E w \in Workers : Post(w)
  <2>1. ~Customer /\ ~Operator /\ ~Sweep
    BY <1>1 DEF Customer, Operator, Sweep, Inbound, Redeliver, Stop, FormLock, FormSave,
                AdminOptOut, Resume, SweepRead, SweepCommit, SweepPublish, SweepCrash
  <2>2. ASSUME NEW w \in Workers PROVE ~Worker(w)
    BY <1>1, <1>3 DEF Worker, Work, Claim, Defer, Prepare, Select, Model, CheckNewer, Guard,
                 Boundary, Abandon, Reject, Accept, Skip, CommitSending, Finish, Handler,
                 Raise, Crash
  <2> QED BY <1>1, <2>1, <2>2 DEF Next, vars
<1> QED BY <1>2, <1>3

(* After a STOP webhook has committed no reply leaves, whatever the        *)
(* workers, the sweep, crashes, retries and time limits do: the advisory   *)
(* lock makes the last opt-out check and the POST one step as far as STOP  *)
(* can see.                                                                *)
THEOREM NothingSentAfterStop == Spec => NoPostAfterStop
<1>1. Init => StopInv
  BY InitStopInv
<1>2. StopInv /\ [Next]_vars => StopInv'
  BY NextStopInv
<1>3. StopInv /\ [Next]_vars => [\A j \in Jobs : Posts(j) => ~consent]_vars
  <2> SUFFICES ASSUME StopInv, [Next]_vars, NEW j \in Jobs, Posts(j) PROVE ~consent
    OBVIOUS
  <2>1. PICK w \in Workers : Post(w) /\ job[w] = j
    BY PostsChangeByPost DEF StopInv
  <2> QED BY <2>1 DEF StopInv, StillWelcome, Cleared, Post
<1> QED BY <1>1, <1>2, <1>3, PTL DEF Spec, NoPostAfterStop
-----------------------------------------------------------------------------
LEMMA InitOnceInv == Init => OnceInv
<1> SUFFICES ASSUME Init PROVE OnceInv
  OBVIOUS
<1>1. StopInv
  BY InitStopInv
<1>2. \A w \in Workers : pc[w] = "idle"
  BY DEF Init
<1>3. OneWorkerPerTurn /\ WaitingIsFree /\ StepMatchesRow
  BY <1>2 DEF OneWorkerPerTurn, WaitingIsFree, StepMatchesRow, Answering, Posting
<1>4. StaleIsFree /\ PostedIsPast
  BY DEF Init, StaleIsFree, PostedIsPast
<1> QED BY <1>1, <1>3, <1>4 DEF OnceInv

LEMMA NextOnceInv == ASSUME TimeLimit PROVE OnceInv /\ [Next]_vars => OnceInv'
<1> DEFINE Body == /\ OneWorkerPerTurn
                   /\ WaitingIsFree
                   /\ StepMatchesRow
                   /\ StaleIsFree
                   /\ PostedIsPast
<1> SUFFICES ASSUME OnceInv, [Next]_vars PROVE Body'
  BY NextStopInv DEF OnceInv
<1>a. TypeOK /\ HasTurn
  BY DEF OnceInv, StopInv, TypeInv
<1>b. Body /\ LockHeld
  BY DEF OnceInv, StopInv
<1> USE <1>a, <1>b DEF TypeOK, HasTurn, OneWorkerPerTurn, WaitingIsFree, StepMatchesRow, StaleIsFree,
                 PostedIsPast, LockHeld, Guarded, Answering, Posting, Steps, jobVars, stopVars,
                 draftVars, sweepVars, workerVars
<1>1. CASE Customer
  <2>1. ASSUME NEW j \in Jobs, Inbound(j) PROVE Body'
    BY <2>1 DEF Inbound, SetStatus
  <2>2. ASSUME NEW j \in Jobs, Redeliver(j) PROVE Body'
    BY <2>2 DEF Redeliver
  <2>3. CASE Stop
    BY <2>3, Assumptions DEF Stop, CancelledByStop
  <2>4. CASE FormLock \/ FormSave
    BY <2>4 DEF FormLock, FormSave
  <2> QED BY <1>1, <2>1, <2>2, <2>3, <2>4 DEF Customer
<1>2. CASE Operator
  <2>1. ASSUME NEW b \in BOOLEAN, AdminOptOut(b) PROVE Body'
    BY <2>1 DEF AdminOptOut
  <2>2. CASE Resume
    BY <2>2 DEF Resume, Blocking
  <2> QED BY <1>2, <2>1, <2>2 DEF Operator
<1>3. ASSUME NEW w \in Workers, Worker(w) PROVE Body'
  <2> USE DEF GoTo, EndTask, SetStatus
  <2>1. ASSUME NEW j \in Jobs, Claim(w, j) PROVE Body'
    BY <2>1 DEF Claim
  <2>2. ASSUME NEW j \in Jobs, Defer(w, j) PROVE Body'
    BY <2>2 DEF Defer
  <2>3. CASE Prepare(w)
    BY <2>3 DEF Prepare, Skip
  <2>4. CASE Select(w)
    BY <2>4 DEF Select, Plan
  <2>5. CASE Model(w)
    BY <2>5 DEF Model
  <2>6. CASE CheckNewer(w)
    BY <2>6 DEF CheckNewer, Skip
  <2>7. CASE Guard(w)
    BY <2>7 DEF Guard
  <2>8. CASE Boundary(w)
    BY <2>8 DEF Boundary, Abandon, Reject, Accept, Skip
  <2>9. CASE CommitSending(w)
    BY <2>9 DEF CommitSending
  <2>10. CASE Post(w)
    BY <2>10 DEF Post
  <2>11. CASE Finish(w)
    BY <2>11 DEF Finish
  <2>12. CASE Handler(w)
    BY <2>12 DEF Handler
  <2>13. CASE Raise(w)
    BY <2>13 DEF Raise
  <2>14. CASE Crash(w)
    BY <2>14 DEF Crash
  <2> QED BY <1>3, <2>1, <2>2, <2>3, <2>4, <2>5, <2>6, <2>7, <2>8, <2>9, <2>10, <2>11, <2>12, <2>13, <2>14 DEF Worker, Work
<1>4. CASE Sweep
  <2>1. ASSUME NEW stale \in SUBSET Staleable, SweepRead(stale) PROVE Body'
    BY <2>1, TimeLimit DEF SweepRead, Staleable, Busy
  <2>2. CASE SweepCommit
    BY <2>2 DEF SweepCommit
  <2>3. ASSUME NEW published \in SUBSET Ready, SweepPublish(published) PROVE Body'
    BY <2>3 DEF SweepPublish
  <2>4. CASE SweepCrash
    BY <2>4 DEF SweepCrash
  <2> QED BY <1>4, <2>1, <2>2, <2>3, <2>4 DEF Sweep
<1>5. CASE UNCHANGED vars
  BY <1>5 DEF vars
<1> QED BY <1>1, <1>2, <1>3, <1>4, <1>5 DEF Next

(* With Celery's task limit enforced, a turn crosses the Meta boundary at  *)
(* most once, however often it is published, delivered, retried, crashed   *)
(* or recovered.                                                           *)
THEOREM PostedAtMostOnce == ASSUME TimeLimit PROVE Spec => []AtMostOnePost
<1>1. Init => OnceInv
  BY InitOnceInv
<1>2. OnceInv /\ [Next]_vars => OnceInv'
  BY NextOnceInv
<1>3. OnceInv => AtMostOnePost
  BY DEF OnceInv, StopInv, TypeInv, TypeOK, PostedIsPast, AtMostOnePost
<1> QED BY <1>1, <1>2, <1>3, PTL DEF Spec

(* With the task limit, a row whose POST may have happened is never put    *)
(* back to pending or processing by the handler or the recovery sweep.     *)
THEOREM PostedNeverRetried == ASSUME TimeLimit PROVE Spec => []NeverReplayed
<1>1. Init => OnceInv
  BY InitOnceInv
<1>2. OnceInv /\ [Next]_vars => OnceInv'
  BY NextOnceInv
<1>3. OnceInv => NeverReplayed
  BY DEF OnceInv, StopInv, TypeInv, TypeOK, PostedIsPast, NeverReplayed
<1> QED BY <1>1, <1>2, <1>3, PTL DEF Spec
-----------------------------------------------------------------------------
(***************************************************************************)
(* How the turns of a conversation relate to each other.                   *)
(***************************************************************************)

InFlight == {"processing", "sending"}

(* A turn is engaged while its row says so, a worker has it, or the sweep  *)
(* is about to write a status for it; it is active if it waits as well.    *)
Held(j)    == \E w \in Workers : pc[w] # "idle" /\ job[w] = j
Lost(j)    == sweep = "read" /\ rows[j] \in InFlight
Engaged(j) == status[j] \in InFlight \/ Held(j) \/ Lost(j)
Active(j)  == status[j] = "pending" \/ Engaged(j)

(* Before STOP the row of an engaged turn shows it, and turns are engaged  *)
(* in order.  STOP hides the engaged turn's row from the queries that keep *)
(* the order, but leaves no other turn that could be claimed.              *)
OneEngaged   == \A j, k \in Jobs : Engaged(j) /\ Engaged(k) => j = k
OneLeft      == consent => \A j, k \in Jobs : Active(j) /\ Active(k) => j = k
RowShows     == \A j \in Jobs : Engaged(j) => status[j] \in InFlight \/ consent
EarlierDone  ==
  \A j, k \in Jobs : j < k /\ Engaged(k) => status[j] \notin Live \cup {"absent"}
AbsentLast   ==
  \A j, k \in Jobs : j < k /\ status[j] = "absent" => status[k] = "absent"
PostedLast   ==
  \A j, k \in Jobs : j < k /\ posts[k] > 0 => ~Active(j) /\ status[j] # "absent"

(* A worker past its first decision is in a conversation that is not       *)
(* paused: only an engaged turn can pause it.                              *)
Decided      == (Answering \ {"prepare"}) \cup {"post"}
StillServed  == \A w \in Workers : pc[w] \in Decided => ~Paused(job[w])

EngagedInv ==
  /\ OneEngaged /\ OneLeft /\ RowShows /\ EarlierDone
  /\ AbsentLast /\ PostedLast

OrderInv == OnceInv /\ EngagedInv /\ StillServed

(* A step that engages no turn and moves only the rows of engaged turns,   *)
(* or rows that need no answer any more.                                   *)
Calm ==
  /\ \A j \in Jobs : Engaged(j)' => Engaged(j)
  /\ \A j \in Jobs : Engaged(j)' => status'[j] \in InFlight \/ consent
  /\ \A j \in Jobs :
       \/ status'[j] = status[j]
       \/ /\ status[j] # "absent" /\ status'[j] # "absent"
          /\ Engaged(j) \/ status'[j] \notin Live
  /\ UNCHANGED <<consent, posts>>

(* What a worker does but for claims, the SENDING commit and the POST: it  *)
(* goes on, leaves the row as it is, or writes an end or a retry.          *)
Elsewhere  == UNCHANGED <<consent, posts, sweep, rows>>
Moves(w)   == Elsewhere /\ UNCHANGED status /\ \E step \in Steps : GoTo(w, step)
Leaves(w)  == Elsewhere /\ UNCHANGED status /\ EndTask(w)
Settles(w) ==
  Elsewhere /\ EndTask(w) /\ \E s \in JobStatus \ InFlight : SetStatus(job[w], s)
-----------------------------------------------------------------------------
LEMMA WorkerKinds ==
  ASSUME NEW w \in Workers, Work(w) \/ Raise(w) \/ Crash(w)
  PROVE  /\ pc[w] # "idle"
         /\ CommitSending(w) \/ Post(w) \/ Moves(w) \/ Leaves(w) \/ Settles(w)
<1> USE DEF jobVars, stopVars, draftVars, sweepVars, workerVars, Elsewhere,
            Steps, Answering, Posting, JobStatus, InFlight
<1>1. ASSUME Skip(w), pc[w] # "idle", UNCHANGED <<posts, sweep, rows>> PROVE Settles(w)
  BY <1>1 DEF Skip, Settles
<1>2. CASE Prepare(w)
  BY <1>2, <1>1 DEF Prepare, Skip, Moves
<1>3. CASE Select(w) \/ Model(w) \/ Guard(w)
  BY <1>3 DEF Select, Plan, Model, Guard, Moves
<1>4. CASE CheckNewer(w)
  BY <1>4, <1>1 DEF CheckNewer, Skip, Moves
<1>5. CASE Boundary(w)
  <2>1. CASE Abandon(w)
    BY <1>5, <2>1 DEF Boundary, Abandon, Leaves
  <2>2. CASE Reject(w)
    BY <1>5, <2>2, <1>1 DEF Boundary, Reject, Skip
  <2>3. CASE Accept(w)
    BY <1>5, <2>3 DEF Boundary, Accept, Moves
  <2> QED BY <1>5, <2>1, <2>2, <2>3 DEF Boundary
<1>6. CASE Finish(w) \/ Handler(w)
  BY <1>6 DEF Finish, Handler, Settles
<1>7. CASE Raise(w)
  BY <1>7 DEF Raise, Moves
<1>8. CASE Crash(w)
  BY <1>8 DEF Crash, Leaves
<1>9. CASE CommitSending(w) \/ Post(w)
  BY <1>9 DEF CommitSending, Post
<1> QED BY <1>2, <1>3, <1>4, <1>5, <1>6, <1>7, <1>8, <1>9 DEF Work

LEMMA CalmKeepsEngaged == ASSUME EngagedInv, Calm PROVE EngagedInv'
<1> USE DEF EngagedInv, Calm, Live, Jobs
<1>1. OneEngaged'
  BY DEF OneEngaged
<1>2. \A j \in Jobs : Active(j)' => Active(j)
  BY DEF Active
<1>3. OneLeft'
  BY <1>2 DEF OneLeft
<1>4. RowShows'
  BY DEF RowShows
<1>5. EarlierDone'
  BY DEF EarlierDone, OneEngaged
<1>6. AbsentLast'
  BY DEF AbsentLast
<1>7. PostedLast'
  BY <1>2 DEF PostedLast
<1> QED BY <1>1, <1>3, <1>4, <1>5, <1>6, <1>7

LEMMA HeldIsEngaged ==
  ASSUME NEW w \in Workers, pc[w] # "idle" PROVE Engaged(job[w])
BY DEF Engaged, Held

LEMMA InitOrderInv == Init => OrderInv
<1> SUFFICES ASSUME Init PROVE OrderInv
  OBVIOUS
<1>1. OnceInv
  BY InitOnceInv
<1>2. \A j \in Jobs : ~Engaged(j) /\ ~Active(j) /\ posts[j] = 0 /\ status[j] = "absent"
  BY DEF Init, Engaged, Active, Held, Lost, InFlight
<1>3. EngagedInv
  BY <1>2, SMT DEF EngagedInv, OneEngaged, OneLeft, RowShows, EarlierDone, AbsentLast, PostedLast, Jobs
<1>4. StillServed
  BY DEF Init, StillServed, Decided, Answering
<1> QED BY <1>1, <1>3, <1>4 DEF OrderInv

LEMMA NextEngagedInv == ASSUME TimeLimit PROVE OrderInv /\ [Next]_vars => EngagedInv'
<1> SUFFICES ASSUME OrderInv, [Next]_vars PROVE EngagedInv'
  OBVIOUS
<1>t. TypeOK /\ HasTurn
  BY DEF OrderInv, OnceInv, StopInv, TypeInv
<1>a. OneWorkerPerTurn /\ WaitingIsFree /\ StepMatchesRow /\ StaleIsFree
  BY DEF OrderInv, OnceInv, StopInv, TypeInv
<1>b. EngagedInv
  BY DEF OrderInv
<1>c. Calm => EngagedInv'
  BY <1>b, CalmKeepsEngaged
<1> USE <1>t DEF TypeOK, HasTurn, jobVars, stopVars, draftVars, sweepVars, workerVars
<1>1. CASE Customer
  <2>1. ASSUME NEW j \in Jobs, Inbound(j) PROVE EngagedInv'
    <3>1. /\ status' = [status EXCEPT ![j] = "pending"]
          /\ status[j] = "absent"
          /\ ~consent /\ ~consent'
          /\ UNCHANGED <<posts, pc, job, sweep, rows>>
      BY <2>1 DEF Inbound, SetStatus
    <3>2. \A k \in Jobs : k < j => status[k] # "absent"
      BY <2>1 DEF Inbound
    <3>3. \A k \in Jobs : Engaged(k)' <=> Engaged(k)
      BY <3>1, <1>a, <1>b DEF Engaged, Held, Lost, InFlight
    <3>4. \A k \in Jobs : Engaged(k) => k # j
      BY <3>1, <1>b DEF EngagedInv, RowShows, InFlight
    <3>5. (OneEngaged /\ OneLeft /\ RowShows)'
      BY <3>1, <3>3, <3>4, <1>b DEF EngagedInv, OneEngaged, OneLeft, RowShows
    <3>6. \A k \in Jobs : j < k => status[k] = "absent"
      BY <3>1, <1>b DEF EngagedInv, AbsentLast
    <3>7. \A k \in Jobs : j < k => ~Engaged(k)
      BY <3>1, <1>b DEF EngagedInv, EarlierDone
    <3>8. EarlierDone'
      BY <3>1, <3>3, <3>7, <1>b DEF EngagedInv, EarlierDone
    <3>9. AbsentLast'
      BY <3>1, <3>2, <1>b DEF EngagedInv, AbsentLast
    <3>10. PostedLast'
      BY <3>1, <3>3, <1>b DEF EngagedInv, PostedLast, Active
    <3> QED BY <3>5, <3>8, <3>9, <3>10 DEF EngagedInv
  <2>2. ASSUME NEW j \in Jobs, Redeliver(j) PROVE EngagedInv'
    <3>1. Calm
      BY <2>2, <1>b DEF Redeliver, Calm, Engaged, Held, Lost, EngagedInv, RowShows
    <3> QED BY <3>1, <1>c
  <2>3. CASE Stop
    <3>1. /\ status' = [j \in Jobs |-> IF status[j] \in {"pending", "processing"}
                                       THEN "skipped" ELSE status[j]]
          /\ consent'
          /\ UNCHANGED <<posts, pc, job, sweep, rows>>
      BY <2>3 DEF Stop, CancelledByStop
    <3>2. \A k \in Jobs : Engaged(k)' => Engaged(k)
      BY <3>1 DEF Engaged, Held, Lost, InFlight
    <3>3. \A k \in Jobs : Active(k)' => Engaged(k)
      BY <3>1, <3>2 DEF Active
    <3>4. (OneEngaged /\ OneLeft /\ RowShows)'
      BY <3>1, <3>2, <3>3, <1>b DEF EngagedInv, OneEngaged, OneLeft, RowShows
    <3>5. EarlierDone' /\ AbsentLast'
      BY <3>1, <3>2, <1>b DEF EngagedInv, EarlierDone, AbsentLast, Live
    <3>6. PostedLast'
      BY <3>1, <3>3, <1>b DEF EngagedInv, PostedLast, Active
    <3> QED BY <3>4, <3>5, <3>6 DEF EngagedInv
  <2>4. CASE FormLock \/ FormSave
    <3>1. Calm
      BY <2>4, <1>b DEF FormLock, FormSave, Calm, Engaged, Held, Lost, EngagedInv, RowShows
    <3> QED BY <3>1, <1>c
  <2> QED BY <1>1, <2>1, <2>2, <2>3, <2>4 DEF Customer
<1>2. CASE Operator
  <2>1. ASSUME NEW b \in BOOLEAN, AdminOptOut(b) PROVE Calm
    BY <2>1, <1>b DEF AdminOptOut, Calm, Engaged, Held, Lost, EngagedInv, RowShows
  <2>2. ASSUME Resume PROVE Calm
    <3>1. /\ status' = [j \in Jobs |-> IF status[j] \in Blocking THEN "resolved" ELSE status[j]]
          /\ UNCHANGED <<consent, posts, pc, job, sweep, rows>>
      BY <2>2 DEF Resume
    <3>2. \A k \in Jobs : Engaged(k)' => Engaged(k) /\ status'[k] = status[k]
      <4>1. \A k \in Jobs : (Held(k)' <=> Held(k)) /\ (Lost(k)' <=> Lost(k))
        BY <3>1 DEF Held, Lost
      <4>2. \A k \in Jobs : status[k] \in Blocking => ~Held(k) /\ ~Lost(k)
        BY <1>a DEF Held, Lost, StepMatchesRow, StaleIsFree, InFlight, Blocking, Steps,
                    Answering, Posting
      <4>3. \A k \in Jobs : status'[k] \in InFlight => status'[k] = status[k]
        BY <3>1 DEF InFlight
      <4>4. \A k \in Jobs : status[k] \notin Blocking => status'[k] = status[k]
        BY <3>1
      <4> QED BY <4>1, <4>2, <4>3, <4>4 DEF Engaged
    <3> QED BY <3>1, <3>2, <1>b DEF Calm, EngagedInv, RowShows, Blocking, Live
  <2> QED BY <1>2, <2>1, <2>2, <1>c DEF Operator
<1>3. ASSUME NEW w \in Workers, Worker(w) PROVE EngagedInv'
  <2> USE DEF GoTo, EndTask, SetStatus
  <2>1. ASSUME NEW j \in Jobs, Claim(w, j) PROVE EngagedInv'
    <3>1. /\ status' = [status EXCEPT ![j] = "processing"]
          /\ status[j] = "pending"
          /\ UNCHANGED <<consent, posts, sweep, rows>>
          /\ pc[w] = "idle"
          /\ pc' = [pc EXCEPT ![w] = "prepare"]
          /\ job' = [job EXCEPT ![w] = j]
      BY <2>1 DEF Claim
    <3>2. \A k \in Jobs : k < j => status[k] \notin Live
      BY <2>1 DEF Claim, Earlier
    <3>3. \A k \in Jobs : Engaged(k)' <=> (Engaged(k) \/ k = j)
      <4>1. \A k \in Jobs : Held(k)' <=> (Held(k) \/ k = j)
        BY <3>1 DEF Held
      <4>2. \A k \in Jobs : status'[k] \in InFlight <=> (status[k] \in InFlight \/ k = j)
        BY <3>1 DEF InFlight
      <4>3. \A k \in Jobs : Lost(k)' <=> Lost(k)
        BY <3>1 DEF Lost
      <4> QED BY <4>1, <4>2, <4>3 DEF Engaged
    <3>4. \A k \in Jobs : ~Engaged(k) \/ k = j
      <4> SUFFICES ASSUME NEW k \in Jobs, Engaged(k), k # j PROVE FALSE
        OBVIOUS
      <4>1. CASE j < k
        BY <4>1, <3>1, <1>b DEF EngagedInv, EarlierDone, Live
      <4>2. CASE k < j
        <5>1. status[k] \notin InFlight
          BY <4>2, <3>2 DEF InFlight, Live
        <5>2. consent
          BY <5>1, <1>b DEF EngagedInv, RowShows
        <5> QED BY <5>2, <3>1, <1>b DEF EngagedInv, OneLeft, Active
      <4> QED BY <4>1, <4>2 DEF Jobs
    <3>5. \A k \in Jobs : Active(k)' => Active(k)
      BY <3>1, <3>3 DEF Active
    <3>6. (OneEngaged /\ OneLeft /\ RowShows)'
      BY <3>1, <3>3, <3>4, <3>5, <1>b DEF EngagedInv, OneEngaged, OneLeft, RowShows, InFlight
    <3>7. EarlierDone'
      BY <3>1, <3>2, <3>3, <3>4, <1>b DEF EngagedInv, EarlierDone, AbsentLast, Live, Jobs
    <3>8. AbsentLast'
      BY <3>1, <1>b DEF EngagedInv, AbsentLast
    <3>9. PostedLast'
      BY <3>1, <3>5, <1>b DEF EngagedInv, PostedLast
    <3> QED BY <3>6, <3>7, <3>8, <3>9 DEF EngagedInv
  <2>2. CASE Post(w)
    <3>1. /\ pc[w] = "post" /\ job[w] \in Jobs
          /\ posts' = [posts EXCEPT ![job[w]] = @ + 1]
          /\ pc' = [pc EXCEPT ![w] = "posted"]
          /\ UNCHANGED <<status, consent, job, sweep, rows>>
      BY <2>2, <1>a DEF Post
    <3>2. \A k \in Jobs : Engaged(k)' <=> Engaged(k)
      BY <3>1, <1>a DEF Engaged, Held, Lost
    <3>3. Engaged(job[w])
      BY <3>1, HeldIsEngaged
    <3>4. \A j \in Jobs : j < job[w] => ~Active(j) /\ status[j] # "absent"
      BY <3>1, <3>3, <1>b DEF EngagedInv, OneEngaged, EarlierDone, Active, Live, Jobs
    <3>5. PostedLast'
      BY <3>1, <3>2, <3>4, <1>b, <1>a DEF EngagedInv, PostedLast, Active
    <3> QED BY <3>1, <3>2, <3>5, <1>b DEF EngagedInv, OneEngaged, OneLeft, RowShows, EarlierDone,
                                          AbsentLast, Active
  <2>3. ASSUME NEW j \in Jobs, Defer(w, j) PROVE Calm
    BY <2>3, <1>b DEF Defer, Calm, Engaged, Held, Lost, EngagedInv, RowShows
  <2>4. ASSUME pc[w] # "idle", Moves(w) \/ Leaves(w) PROVE Calm
    <3>1. \A k \in Jobs : Engaged(k)' => Engaged(k)
      BY <2>4 DEF Moves, Leaves, Elsewhere, Engaged, Held, Lost
    <3> QED BY <2>4, <3>1, <1>b DEF Moves, Leaves, Elsewhere, Calm, EngagedInv, RowShows
  <2>5. ASSUME pc[w] # "idle", Settles(w) PROVE Calm
    <3>1. PICK s \in JobStatus \ InFlight : status' = [status EXCEPT ![job[w]] = s]
      BY <2>5 DEF Settles
    <3>2. PICK j \in Jobs : j = job[w]
      BY <2>5
    <3>3. Engaged(j) /\ status[j] # "absent"
      BY <2>5, <3>2, <1>a, HeldIsEngaged DEF WaitingIsFree
    <3>4. /\ \A k \in Jobs : Held(k)' <=> Held(k) /\ k # j
          /\ \A k \in Jobs : Lost(k)' => Lost(k) /\ k # j
      BY <2>5, <3>2, <1>a DEF Settles, Elsewhere, Held, Lost, OneWorkerPerTurn, StaleIsFree, InFlight
    <3>5. \A k \in Jobs : Engaged(k)' => Engaged(k) /\ k # j
      BY <3>1, <3>2, <3>4 DEF Engaged
    <3> QED BY <2>5, <3>1, <3>2, <3>3, <3>5, <1>b DEF Settles, Elsewhere, Calm, EngagedInv, RowShows, JobStatus
  <2>6. ASSUME CommitSending(w) PROVE Calm
    <3>1. PICK j \in Jobs : j = job[w]
      BY <2>6 DEF CommitSending
    <3>2. Engaged(j) /\ status[j] = "processing" /\ status' = [status EXCEPT ![j] = "sending"]
      BY <2>6, <3>1, <1>a, HeldIsEngaged DEF CommitSending, StepMatchesRow
    <3>3. \A k \in Jobs : Engaged(k)' => Engaged(k)
      BY <2>6, <3>1, <3>2 DEF CommitSending, Engaged, Held, Lost, InFlight
    <3>4. UNCHANGED <<consent, posts>>
      BY <2>6 DEF CommitSending
    <3>5. RowShows
      BY <1>b DEF EngagedInv
    <3> QED BY <3>2, <3>3, <3>4, <3>5 DEF Calm, RowShows, InFlight
  <2> QED BY <1>3, <2>1, <2>2, <2>3, <2>4, <2>5, <2>6, <1>c, WorkerKinds DEF Worker
<1>4. CASE Sweep
  <2>1. ASSUME NEW stale \in SUBSET Staleable, SweepRead(stale) PROVE Calm
    <3>1. \A k \in Jobs : Engaged(k)' => Engaged(k)
      BY <2>1 DEF SweepRead, Engaged, Held, Lost, InFlight
    <3> QED BY <2>1, <3>1, <1>b DEF SweepRead, Calm, EngagedInv, RowShows
  <2>2. ASSUME SweepCommit PROVE Calm
    <3>1. \A k \in Jobs : rows[k] \in InFlight =>
             /\ Engaged(k) /\ ~Held(k)
             /\ status[k] # "absent"
             /\ status'[k] \in {"failed", "pending"}
      BY <2>2, <1>a DEF SweepCommit, Engaged, Held, Lost, StaleIsFree, InFlight
    <3>2. \A k \in Jobs : rows[k] \notin InFlight => status'[k] = status[k]
      BY <2>2 DEF SweepCommit, InFlight
    <3>3. \A k \in Jobs : ~Lost(k)' /\ (Held(k)' <=> Held(k))
      BY <2>2 DEF SweepCommit, Lost, Held
    <3>4. \A k \in Jobs : Engaged(k)' => Engaged(k) /\ status'[k] = status[k]
      BY <3>1, <3>2, <3>3 DEF Engaged, InFlight
    <3>5. UNCHANGED <<consent, posts>>
      BY <2>2 DEF SweepCommit
    <3>6. RowShows
      BY <1>b DEF EngagedInv
    <3> QED BY <3>1, <3>2, <3>4, <3>5, <3>6 DEF Calm, RowShows, InFlight
  <2>3. ASSUME NEW published \in SUBSET Ready, SweepPublish(published) PROVE Calm
    BY <2>3, <1>b DEF SweepPublish, Calm, Engaged, Held, Lost, EngagedInv, RowShows
  <2>4. ASSUME SweepCrash PROVE Calm
    <3>1. \A k \in Jobs : Engaged(k)' => Engaged(k)
      BY <2>4 DEF SweepCrash, Engaged, Held, Lost
    <3>2. RowShows /\ UNCHANGED <<status, consent, posts>>
      BY <2>4, <1>b DEF SweepCrash, EngagedInv
    <3> QED BY <3>1, <3>2 DEF Calm, RowShows
  <2> QED BY <1>4, <2>1, <2>2, <2>3, <2>4, <1>c DEF Sweep
<1>5. CASE UNCHANGED vars
  <2>1. Calm
    BY <1>5, <1>b DEF vars, Calm, Engaged, Held, Lost, EngagedInv, RowShows
  <2> QED BY <2>1, <1>c
<1> QED BY <1>1, <1>2, <1>3, <1>4, <1>5 DEF Next
-----------------------------------------------------------------------------
(* Only an engaged turn can come to pause the conversation.                *)
LEMMA PausedByEngaged ==
  ASSUME OrderInv, [Next]_vars, NEW k \in Jobs, status'[k] \in Blocking
  PROVE  status[k] \in Blocking \/ Engaged(k)
<1>t. TypeOK /\ HasTurn
  BY DEF OrderInv, OnceInv, StopInv, TypeInv
<1> USE <1>t DEF TypeOK, HasTurn, Blocking, jobVars, stopVars, draftVars, sweepVars, workerVars
<1>1. CASE Customer
  BY <1>1 DEF Customer, Inbound, Redeliver, Stop, FormLock, FormSave, SetStatus
<1>2. CASE Operator
  BY <1>2 DEF Operator, AdminOptOut, Resume
<1>3. ASSUME NEW w \in Workers, Worker(w) PROVE status[k] \in Blocking \/ Engaged(k)
  <2>1. CASE \E j \in Jobs : Claim(w, j) \/ Defer(w, j)
    BY <2>1 DEF Claim, Defer, SetStatus
  <2>2. CASE Work(w) \/ Raise(w) \/ Crash(w)
    <3>1. status' = status \/ \E s \in JobStatus : status' = [status EXCEPT ![job[w]] = s]
      BY <2>2, WorkerKinds DEF CommitSending, Post, Moves, Leaves, Settles, SetStatus, JobStatus
    <3>2. Engaged(job[w])
      BY <2>2, WorkerKinds, HeldIsEngaged
    <3> QED BY <3>1, <3>2
  <2> QED BY <1>3, <2>1, <2>2 DEF Worker
<1>4. CASE Sweep
  BY <1>4 DEF Sweep, SweepRead, SweepCommit, SweepPublish, SweepCrash, Engaged, Lost, InFlight
<1>5. CASE UNCHANGED vars
  BY <1>5 DEF vars
<1> QED BY <1>1, <1>2, <1>3, <1>4, <1>5 DEF Next

(* A worker gets past its first decision only by deciding.                 *)
LEMMA DecidedByPrepare ==
  ASSUME TypeInv, [Next]_vars, NEW w \in Workers, pc'[w] \in Decided
  PROVE  /\ job'[w] = job[w]
         /\ \/ pc[w] \in Decided
            \/ pc[w] = "prepare" /\ ~Paused(job[w]) /\ UNCHANGED status
<1> USE DEF TypeInv, TypeOK, Decided, Answering, jobVars, stopVars, draftVars, sweepVars, workerVars
<1>1. CASE Customer \/ Operator
  BY <1>1 DEF Customer, Operator, Inbound, Redeliver, Stop, FormLock, FormSave, AdminOptOut, Resume
<1>2. ASSUME NEW v \in Workers, Worker(v), v # w PROVE UNCHANGED <<pc[w], job[w]>>
  BY <1>2 DEF Worker, Work, Claim, Defer, Prepare, Select, Plan, Model, CheckNewer, Guard,
              Boundary, Abandon, Reject, Accept, Skip, CommitSending, Post, Finish, Handler,
              Raise, Crash, GoTo, EndTask
<1>3. CASE Worker(w)
  <2>1. CASE \E j \in Jobs : Claim(w, j) \/ Defer(w, j)
    BY <2>1 DEF Claim, Defer
  <2>2. CASE Prepare(w)
    BY <2>2 DEF Prepare, Skip, GoTo, EndTask
  <2>3. CASE Select(w) \/ Model(w) \/ CheckNewer(w) \/ Guard(w)
    BY <2>3 DEF Select, Plan, Model, CheckNewer, Guard, Skip, GoTo, EndTask
  <2>4. CASE Boundary(w) \/ CommitSending(w) \/ Post(w)
    BY <2>4 DEF Boundary, Abandon, Reject, Accept, Skip, CommitSending, Post, GoTo, EndTask
  <2>5. CASE Finish(w) \/ Handler(w) \/ Raise(w) \/ Crash(w)
    BY <2>5 DEF Finish, Handler, Raise, Crash, GoTo, EndTask
  <2> QED BY <1>3, <2>1, <2>2, <2>3, <2>4, <2>5 DEF Worker, Work
<1>4. CASE Sweep
  BY <1>4 DEF Sweep, SweepRead, SweepCommit, SweepPublish, SweepCrash
<1>5. CASE UNCHANGED vars
  BY <1>5 DEF vars
<1> QED BY <1>1, <1>2, <1>3, <1>4, <1>5 DEF Next

LEMMA NextStillServed == OrderInv /\ [Next]_vars => StillServed'
<1> SUFFICES ASSUME OrderInv, [Next]_vars, NEW w \in Workers, pc'[w] \in Decided,
                    NEW k \in Jobs, k # job'[w], status'[k] \in Blocking
             PROVE  FALSE
  BY DEF StillServed, Paused
<1>1. TypeInv /\ OneEngaged /\ StillServed
  BY DEF OrderInv, EngagedInv, OnceInv, StopInv
<1>2. /\ job'[w] = job[w]
      /\ \/ pc[w] \in Decided
         \/ pc[w] = "prepare" /\ ~Paused(job[w]) /\ UNCHANGED status
  BY <1>1, DecidedByPrepare
<1>3. pc[w] # "idle" /\ job[w] \in Jobs
  BY <1>1, <1>2 DEF TypeInv, HasTurn, Decided, Answering
<1>4. ~Engaged(k)
  BY <1>1, <1>2, <1>3, HeldIsEngaged DEF OneEngaged
<1>5. status[k] \in Blocking
  BY <1>4, PausedByEngaged
<1> QED BY <1>1, <1>2, <1>5 DEF StillServed, Paused

LEMMA NextOrderInv == ASSUME TimeLimit PROVE OrderInv /\ [Next]_vars => OrderInv'
BY NextOnceInv, NextEngagedInv, NextStillServed DEF OrderInv

(* The bot answers one turn of a conversation at a time, whatever is in    *)
(* the queue, dies, is swept up or is stopped.                             *)
THEOREM OneAtATime == ASSUME TimeLimit PROVE Spec => []OneTurnInFlight
<1>1. OrderInv => OneTurnInFlight
  BY DEF OrderInv, EngagedInv, OneEngaged, Engaged, InFlight, OneTurnInFlight
<1> QED BY <1>1, InitOrderInv, NextOrderInv, PTL DEF Spec

(* Replies leave in the order the customer's messages arrived: the turn of *)
(* a later message is not posted before an earlier one is settled for good.*)
THEOREM PostedInOrder == ASSUME TimeLimit PROVE Spec => PostsInOrder
<1>1. OrderInv /\ [Next]_vars => [\A j \in Jobs : Posts(j) => \A k \in Jobs : k > j => posts[k] = 0]_vars
  <2> SUFFICES ASSUME OrderInv, [Next]_vars, NEW j \in Jobs, Posts(j), NEW k \in Jobs, k > j
               PROVE  posts[k] = 0
    OBVIOUS
  <2>1. PICK w \in Workers : Post(w) /\ job[w] = j
    BY PostsChangeByPost DEF OrderInv, OnceInv, StopInv
  <2>2. Active(j)
    BY <2>1, HeldIsEngaged DEF Post, Active
  <2>3. posts[k] \in Nat
    BY DEF OrderInv, OnceInv, StopInv, TypeInv, TypeOK
  <2> QED BY <2>2, <2>3 DEF OrderInv, EngagedInv, PostedLast, Jobs
<1> QED BY <1>1, InitOrderInv, NextOrderInv, PTL DEF Spec, PostsInOrder

(* The bot posts nothing in a conversation that waits for a human, although *)
(* it looks for the pause only once, before the model call.                *)
THEOREM SilentWhilePaused == ASSUME TimeLimit PROVE Spec => PausedIsSilent
<1>1. OrderInv /\ [Next]_vars => [\A j \in Jobs : Posts(j) => ~Paused(j)]_vars
  <2> SUFFICES ASSUME OrderInv, [Next]_vars, NEW j \in Jobs, Posts(j) PROVE ~Paused(j)
    OBVIOUS
  <2>1. PICK w \in Workers : Post(w) /\ job[w] = j
    BY PostsChangeByPost DEF OrderInv, OnceInv, StopInv
  <2> QED BY <2>1 DEF Post, OrderInv, StillServed, Decided
<1> QED BY <1>1, InitOrderInv, NextOrderInv, PTL DEF Spec, PausedIsSilent
-----------------------------------------------------------------------------
LEMMA NextReviewed == TypeInv /\ BlockedIsReviewed /\ [Next]_vars => BlockedIsReviewed'
<1> SUFFICES ASSUME TypeInv, BlockedIsReviewed, [Next]_vars PROVE BlockedIsReviewed'
  OBVIOUS
<1> USE DEF TypeInv, TypeOK, HasTurn, BlockedIsReviewed, Blocking, jobVars, stopVars, draftVars,
            sweepVars, workerVars
<1>1. CASE Customer
  BY <1>1 DEF Customer, Inbound, Redeliver, Stop, FormLock, FormSave, SetStatus
<1>2. CASE Operator
  BY <1>2 DEF Operator, AdminOptOut, Resume
<1>3. ASSUME NEW w \in Workers, Worker(w) PROVE BlockedIsReviewed'
  <2> USE DEF SetStatus, Skip
  <2>1. CASE \E j \in Jobs : Claim(w, j) \/ Defer(w, j)
    BY <2>1 DEF Claim, Defer
  <2>2. CASE Prepare(w) \/ Select(w) \/ Model(w) \/ CheckNewer(w) \/ Guard(w)
    BY <2>2 DEF Prepare, Select, Model, CheckNewer, Guard
  <2>3. CASE Boundary(w)
    BY <2>3 DEF Boundary, Abandon, Reject, Accept
  <2>4. CASE CommitSending(w)
    BY <2>4 DEF CommitSending
  <2>5. CASE Post(w) \/ Raise(w) \/ Crash(w)
    BY <2>5 DEF Post, Raise, Crash
  <2>6. CASE Finish(w)
    BY <2>6 DEF Finish
  <2>7. CASE Handler(w)
    BY <2>7 DEF Handler
  <2> QED BY <1>3, <2>1, <2>2, <2>3, <2>4, <2>5, <2>6, <2>7 DEF Worker, Work
<1>4. CASE Sweep
  BY <1>4 DEF Sweep, SweepRead, SweepCommit, SweepPublish, SweepCrash
<1>5. CASE UNCHANGED vars
  BY <1>5 DEF vars
<1> QED BY <1>1, <1>2, <1>3, <1>4, <1>5 DEF Next

(* A turn that pauses the conversation is in the list of manual reviews,   *)
(* whichever of worker, handler and sweep has ended it.                    *)
THEOREM BlockedReviewed == Spec => []BlockedIsReviewed
<1>1. Init => BlockedIsReviewed
  BY DEF Init, BlockedIsReviewed, Blocking
<1> QED BY <1>1, InitTypeInv, NextTypeInv, NextReviewed, PTL DEF Spec
-----------------------------------------------------------------------------
(* The phases of the abstract channel.                                     *)
Phases == [j \in Jobs |-> Phase(j)]

(* A step that changes no status and posts nothing is a stutter.           *)
LEMMA PhasesFollowRows == UNCHANGED <<status, posts>> => Phases' = Phases
BY DEF Phases, Phase

LEMMA InitDelivery == Init => Delivery!Init
<1> SUFFICES ASSUME Init PROVE Delivery!Init
  OBVIOUS
<1>1. \A j \in Jobs : Phase(j) = "open"
  BY DEF Init, Phase
<1> QED BY <1>1 DEF Init, Delivery!Init

LEMMA StepDelivery ==
  OrderInv /\ [Next]_vars => [Delivery!Next]_(Delivery!vars)
<1> SUFFICES ASSUME OrderInv, [Next]_vars
             PROVE  Delivery!Next \/ UNCHANGED <<Phases, consent>>
  BY DEF Delivery!vars, Phases
<1>t. TypeOK /\ HasTurn
  BY DEF OrderInv, OnceInv, StopInv, TypeInv
<1>a. StepMatchesRow /\ StaleIsFree /\ PostedIsPast /\ StillWelcome
  BY DEF OrderInv, OnceInv, StopInv
<1>b. OneEngaged /\ PostedLast
  BY DEF OrderInv, EngagedInv
<1> USE <1>t DEF TypeOK, HasTurn, jobVars, stopVars, draftVars, sweepVars, workerVars
<1>c. ASSUME UNCHANGED <<posts, consent>>,
             \A j \in Jobs : status'[j] # status[j] => posts[j] > 0 \/ (Phase(j) = Phase(j)')
      PROVE  UNCHANGED <<Phases, consent>>
  BY <1>c DEF Phases, Phase
<1>1. CASE Customer
  <2>1. ASSUME NEW j \in Jobs, Inbound(j) PROVE UNCHANGED <<Phases, consent>>
    BY <2>1, <1>c DEF Inbound, SetStatus, Phase
  <2>2. ASSUME NEW j \in Jobs, Redeliver(j) PROVE UNCHANGED <<Phases, consent>>
    BY <2>2, PhasesFollowRows DEF Redeliver
  <2>3. CASE Stop
    <3>1. Phases' = Phases
      BY <2>3 DEF Stop, CancelledByStop, Phases, Phase
    <3> QED BY <2>3, <3>1 DEF Stop, Delivery!Next, Delivery!Stop, Phases
  <2>4. CASE FormLock \/ FormSave
    BY <2>4, PhasesFollowRows DEF FormLock, FormSave
  <2> QED BY <1>1, <2>1, <2>2, <2>3, <2>4 DEF Customer
<1>2. CASE Operator
  <2>1. ASSUME NEW b \in BOOLEAN, AdminOptOut(b) PROVE UNCHANGED <<Phases, consent>>
    BY <2>1, PhasesFollowRows DEF AdminOptOut
  <2>2. CASE Resume
    BY <2>2 DEF Resume, Blocking, Phases, Phase
  <2> QED BY <1>2, <2>1, <2>2 DEF Operator
<1>3. ASSUME NEW w \in Workers, Worker(w)
      PROVE  Delivery!Next \/ UNCHANGED <<Phases, consent>>
  <2>1. ASSUME NEW j \in Jobs, Claim(w, j) PROVE UNCHANGED <<Phases, consent>>
    BY <2>1 DEF Claim, SetStatus, Phases, Phase
  <2>2. ASSUME NEW j \in Jobs, Defer(w, j) PROVE UNCHANGED <<Phases, consent>>
    BY <2>2, PhasesFollowRows DEF Defer
  <2>3. CASE CommitSending(w)
    <3>1. PICK j \in Jobs : j = job[w]
      BY <2>3 DEF CommitSending
    <3>2. /\ status[j] = "processing" /\ posts[j] = 0
          /\ status' = [status EXCEPT ![j] = "sending"]
          /\ ~consent /\ Engaged(j)
          /\ UNCHANGED <<posts, consent>>
      BY <2>3, <3>1, <1>a, HeldIsEngaged DEF CommitSending, SetStatus, StepMatchesRow, PostedIsPast,
                                     StillWelcome, Cleared
    <3>3. Phase(j) = "open"
      BY <3>2 DEF Phase
    <3>4. \A k \in Jobs : Phase(k) # "claimed"
      BY <3>2, <1>b DEF Phase, OneEngaged, Engaged, InFlight
    <3>5. \A k \in Jobs : k > j => Phase(k) # "posted"
      BY <3>2, <1>b DEF Phase, PostedLast, Active
    <3>6. \A k \in Jobs : Phase(k)' = IF k = j THEN "claimed" ELSE Phase(k)
      BY <3>2 DEF Phase
    <3>7. Phases' = [Phases EXCEPT ![j] = "claimed"]
      BY <3>6 DEF Phases
    <3> QED BY <3>2, <3>3, <3>4, <3>5, <3>7 DEF Delivery!Next, Delivery!Claim, Phases
  <2>4. CASE Post(w)
    <3>1. PICK j \in Jobs : j = job[w]
      BY <2>4 DEF Post
    <3>2. status[j] = "sending" /\ posts[j] = 0 /\ ~consent
      BY <2>4, <3>1, <1>a DEF Post, StepMatchesRow, Posting, StillWelcome, Cleared
    <3>3. posts' = [posts EXCEPT ![j] = @ + 1] /\ UNCHANGED <<status, consent>>
      BY <2>4, <3>1 DEF Post
    <3>4. Phase(j) = "claimed"
      BY <3>2 DEF Phase
    <3>5. \A k \in Jobs : Phase(k)' = IF k = j THEN "posted" ELSE Phase(k)
      BY <3>2, <3>3 DEF Phase
    <3>6. Phases' = [Phases EXCEPT ![j] = "posted"]
      BY <3>5 DEF Phases
    <3> QED BY <3>2, <3>3, <3>4, <3>6 DEF Delivery!Next, Delivery!Post, Phases
  <2>5. CASE Finish(w) \/ Handler(w)
    <3>1. PICK j \in Jobs : j = job[w]
      BY <2>5 DEF Finish, Handler
    <3>2. PICK s \in {"sent", "handoff", "failed", "pending"} :
             /\ status' = [status EXCEPT ![j] = s]
             /\ s = "pending" => status[j] \in {"processing", "skipped"}
             /\ status[j] \in {"processing", "skipped", "sending"}
             /\ UNCHANGED <<posts, consent>>
      BY <2>5, <3>1, <1>a DEF Finish, Handler, SetStatus, StepMatchesRow, Posting
    <3>3. CASE s = "pending" \/ posts[j] > 0
      BY <3>2, <3>3, <1>a DEF Phases, Phase, PostedIsPast
    <3>4. CASE s # "pending" /\ posts[j] = 0
      <4>1. Phase(j) \in {"open", "claimed"}
        BY <3>2, <3>4 DEF Phase
      <4>2. \A k \in Jobs : Phase(k)' = IF k = j THEN "closed" ELSE Phase(k)
        BY <3>2, <3>4 DEF Phase
      <4>3. Phases' = [Phases EXCEPT ![j] = "closed"]
        BY <4>2 DEF Phases
      <4> QED BY <3>2, <4>1, <4>3 DEF Delivery!Next, Delivery!Close, Phases
    <3> QED BY <3>3, <3>4, <1>a DEF PostedIsPast
  <2>6. CASE Prepare(w) \/ CheckNewer(w) \/ Boundary(w)
    <3>1. /\ UNCHANGED <<posts, consent>>
          /\ \/ UNCHANGED status
             \/ status' = [status EXCEPT ![job[w]] = "skipped"]
      BY <2>6 DEF Prepare, CheckNewer, Boundary, Abandon, Reject, Accept, Skip, SetStatus
    <3>2. status[job[w]] \in {"processing", "skipped"} /\ job[w] \in Jobs
      BY <2>6, <1>a DEF Prepare, CheckNewer, Boundary, StepMatchesRow, Answering
    <3> QED BY <3>1, <3>2 DEF Phases, Phase
  <2>7. CASE Select(w) \/ Model(w) \/ Guard(w) \/ Raise(w) \/ Crash(w)
    BY <2>7, PhasesFollowRows DEF Select, Model, Guard, Raise, Crash
  <2> QED BY <1>3, <2>1, <2>2, <2>3, <2>4, <2>5, <2>6, <2>7 DEF Worker, Work
<1>4. CASE Sweep
  <2>1. CASE SweepCommit
    <3> DEFINE lost == {j \in Jobs : rows[j] = "sending" /\ posts[j] = 0}
    <3>1. /\ UNCHANGED <<posts, consent>>
          /\ status' = [j \in Jobs |-> CASE rows[j] = "sending"    -> "failed"
                                         [] rows[j] = "processing" -> "pending"
                                         [] OTHER                  -> status[j]]
      BY <2>1 DEF SweepCommit
    <3>2. \A j \in Jobs :
             /\ rows[j] = "sending" => status[j] = "sending"
             /\ rows[j] = "processing" => status[j] \in {"processing", "skipped"}
      BY <2>1, <1>a DEF SweepCommit, StaleIsFree
    <3>3. \A j \in lost : Phase(j) = "claimed"
      BY <3>2 DEF Phase
    <3>4. ASSUME NEW j \in Jobs PROVE Phase(j)' = IF j \in lost THEN "closed" ELSE Phase(j)
      <4>1. CASE rows[j] = "sending"
        BY <4>1, <3>1, <3>2, <1>a DEF Phase, PostedIsPast
      <4>2. CASE rows[j] = "processing"
        BY <4>2, <3>1, <3>2 DEF Phase
      <4>3. CASE rows[j] \notin {"sending", "processing"}
        BY <4>3, <3>1 DEF Phase
      <4> QED BY <4>1, <4>2, <4>3
    <3>5. Phases' = [j \in Jobs |-> IF j \in lost THEN "closed" ELSE Phases[j]]
      BY <3>4 DEF Phases
    <3>6. lost \in SUBSET Jobs
      OBVIOUS
    <3> QED BY <3>1, <3>3, <3>5, <3>6 DEF Delivery!Next, Delivery!CloseAll, Phases
  <2>2. CASE ~SweepCommit
    BY <1>4, <2>2, PhasesFollowRows DEF Sweep, SweepRead, SweepPublish, SweepCrash
  <2> QED BY <2>1, <2>2
<1>5. CASE UNCHANGED vars
  BY <1>5, PhasesFollowRows DEF vars
<1> QED BY <1>1, <1>2, <1>3, <1>4, <1>5 DEF Next

(* Webhook, workers, queue, sweep and locks together are a channel that    *)
(* claims, posts and closes one turn after the other and falls silent on   *)
(* STOP.                                                                   *)
THEOREM DeliveryImplemented == ASSUME TimeLimit PROVE Spec => ImplementsDelivery
<1> QED BY InitDelivery, StepDelivery, InitOrderInv, NextOrderInv, PTL
        DEF Spec, ImplementsDelivery, Delivery!Spec
=============================================================================
