---------------------------- MODULE AgentRuntime ----------------------------
(***************************************************************************)
(* The durable WhatsApp bot turns of one conversation: the webhook that    *)
(* stores an inbound message and its AgentRuntimeJob, the STOP handler,    *)
(* the Celery workers that answer a job, the recovery sweep, the exception *)
(* handler and the manual resume, as they interleave on the rows of        *)
(* agent_runtime_jobs and on the tenant/phone advisory lock.               *)
(*                                                                         *)
(* One conversation suffices: every query filters by conversation_id, a    *)
(* conversation belongs to one contact and the lock is keyed by its phone. *)
(* Each action is one committed transaction, or the part of one between    *)
(* two points where another process can run.                               *)
(***************************************************************************)
EXTENDS Integers, FiniteSets

CONSTANTS
  MaxJobs,      \* inbound turns the model creates (bound)
  MaxAttempts,  \* claims after which an exception is final (5 in the code)
  MaxCrashes,   \* worker and sweep crashes explored (bound)
  Workers,      \* Celery worker processes
  TimeLimit,    \* can no task outlive its row's staleness? (see Staleable)
  SelectionFlow, \* does the company configuration have a selection_flow?
  Form,         \* the customer form's transaction, as a holder of the draft
  NoOne         \* a lock nobody holds

ASSUME Assumptions ==
  /\ MaxJobs \in Nat
  /\ MaxAttempts \in Nat \ {0}
  /\ MaxCrashes \in Nat
  /\ TimeLimit \in BOOLEAN
  /\ SelectionFlow \in BOOLEAN
  /\ NoOne \notin Workers
  /\ Form \notin Workers
  /\ Form # NoOne

Jobs == 1 .. MaxJobs     \* in the order (created_at, id)

VARIABLES
  status,       \* AgentRuntimeJob.status, "absent" before the row exists
  attempts,     \* AgentRuntimeJob.attempts
  cancelled,    \* jobs whose audit says cancelled_by_opt_out
  review,       \* jobs whose audit says manual_review_required
  consent,      \* is LeadContact.consent_status OPT_OUT?
  optOut,       \* is there an OptOut row for the phone?
  draft,        \* committed SelectionRequest of the conversation
  draftHolder,  \* transaction that holds the draft's row lock
  phoneLock,    \* holder of pg_advisory_xact_lock(tenant:phone)
  broker,       \* jobs with a process_runtime_job message in the queue
  sweep,        \* step of the recovery sweep
  rows,         \* statuses the sweep read and has yet to act upon
  pc,           \* step each worker is at
  job,          \* job of each worker, 0 for none
  answer,       \* what the worker's session holds in memory
  posts,        \* history: Meta POSTs made for each job
  crashes       \* history: crashes so far

jobVars    == <<status, attempts, cancelled, review>>
stopVars   == <<consent, optOut>>
draftVars  == <<draft, draftHolder>>
sweepVars  == <<sweep, rows>>
workerVars == <<pc, job, answer>>
vars == <<jobVars, stopVars, draftVars, phoneLock, broker, sweepVars,
          workerVars, posts, crashes>>

-----------------------------------------------------------------------------
JobStatus == {"pending", "processing", "sending", "sent", "handoff",
              "resolved", "skipped", "failed"}
Live      == {"pending", "processing", "sending"}
Blocking  == {"handoff", "failed"}
Settled   == JobStatus \ Live

(* The steps of _process_runtime_job and _execute_runtime_job between two  *)
(* points where the task waits for the database, the model or Meta.        *)
Answering == {"prepare", "select", "model", "check", "guard", "boundary", "claim"}
Posting   == {"post", "posted"}
Steps     == {"idle", "handler"} \cup Answering \cup Posting

(* selecting: selection_active.  plan: the status selection_request will   *)
(* have at the next commit, "new" for a row this session inserted.         *)
Answer  == [selecting : BOOLEAN,
            plan      : {"none", "new", "draft", "confirmed", "closed"},
            action    : {"reply", "handoff", "side"}]
NoReply == [selecting |-> FALSE, plan |-> "none", action |-> "reply"]

(* Faulty orders: one forgets the turns at work, the other those waiting.  *)
EarlierWaiting(j) == \E k \in Jobs : k < j /\ status[k] = "pending"
EarlierWorking(j) == \E k \in Jobs : k < j /\ status[k] \in {"processing", "sending"}

Earlier(j)  == \E k \in Jobs : k < j /\ status[k] \in Live
Newer(j)    == \E k \in Jobs : k > j /\ status[k] \in Live
Paused(j)   == \E k \in Jobs : k # j /\ status[k] \in Blocking
OptedOut    == consent \/ optOut
Busy(j)     == \E w \in Workers : pc[w] # "idle" /\ job[w] = j

(* session_scope ends: the worker's transactions roll back or are over,    *)
(* the advisory lock and the draft's row lock go with them.                *)
Release(w) ==
  /\ phoneLock'   = IF phoneLock = w THEN NoOne ELSE phoneLock
  /\ draftHolder' = IF draftHolder = w THEN NoOne ELSE draftHolder

GoTo(w, step) ==
  /\ pc' = [pc EXCEPT ![w] = step]
  /\ UNCHANGED job

EndTask(w) ==
  /\ pc'     = [pc EXCEPT ![w] = "idle"]
  /\ job'    = [job EXCEPT ![w] = 0]
  /\ answer' = [answer EXCEPT ![w] = NoReply]

SetStatus(j, s) == status' = [status EXCEPT ![j] = s]

-----------------------------------------------------------------------------
(* Webhook: a customer message with a body.  The job row is committed and  *)
(* then published; the publication may fail.  The contact is not opted out *)
(* and no turn of the conversation waits for a human.                      *)
Inbound(j) ==
  /\ phoneLock = NoOne
  /\ status[j] = "absent"
  /\ \A k \in Jobs : k < j => status[k] # "absent"
  /\ ~consent
  /\ \A k \in Jobs : status[k] \notin Blocking
  /\ SetStatus(j, "pending")
  /\ broker' \in {broker, broker \cup {j}}
  /\ UNCHANGED <<attempts, cancelled, review, stopVars, draftVars, phoneLock,
                 sweepVars, workerVars, posts, crashes>>

(* Meta delivers the same message again: only its live job is published.   *)
Redeliver(j) ==
  /\ phoneLock = NoOne
  /\ status[j] \in {"pending", "processing"}
  /\ broker' = broker \cup {j}
  /\ UNCHANGED <<jobVars, stopVars, draftVars, phoneLock, sweepVars,
                 workerVars, posts, crashes>>

(* Webhook: STOP.  The draft is cancelled unless its row is locked (SKIP   *)
(* LOCKED), every pending or processing turn becomes skipped.              *)
CancelledByStop == {j \in Jobs : status[j] \in {"pending", "processing"}}

Stop ==
  /\ phoneLock = NoOne
  /\ consent' = TRUE
  /\ optOut' = TRUE
  /\ draft' = IF draft = "draft" /\ draftHolder = NoOne THEN "cancelled" ELSE draft
  /\ status' = [j \in Jobs |-> IF j \in CancelledByStop THEN "skipped" ELSE status[j]]
  /\ cancelled' = cancelled \cup CancelledByStop
  /\ UNCHANGED <<attempts, review, draftHolder, phoneLock, broker, sweepVars,
                 workerVars, posts, crashes>>

(* The compliance API adds or deletes an OptOut row without the phone lock *)
(* and leaves consent_status alone.                                        *)
AdminOptOut(b) ==
  /\ optOut # b
  /\ optOut' = b
  /\ UNCHANGED <<jobVars, consent, draftVars, phoneLock, broker, sweepVars,
                 workerVars, posts, crashes>>

(* An operator resumes the bot: refused for an opted-out phone and while a *)
(* send is in flight.                                                      *)
Resume ==
  LET blocked == {j \in Jobs : status[j] \in Blocking}
  IN  /\ phoneLock = NoOne
      /\ ~optOut
      /\ \A j \in Jobs : status[j] # "sending"
      /\ blocked # {}
      /\ status' = [j \in Jobs |-> IF j \in blocked THEN "resolved" ELSE status[j]]
      /\ review' = review \ blocked
      /\ UNCHANGED <<attempts, cancelled, stopVars, draftVars, phoneLock, broker,
                     sweepVars, workerVars, posts, crashes>>

(* The hosted customer form locks the draft for its transaction, then      *)
(* saves it, confirms it or gives up.  It does not take the phone lock.    *)
FormLock ==
  /\ draft = "draft"
  /\ draftHolder = NoOne
  /\ draftHolder' = Form
  /\ UNCHANGED <<jobVars, stopVars, draft, phoneLock, broker, sweepVars,
                 workerVars, posts, crashes>>

FormSave ==
  /\ draftHolder = Form
  /\ draft' \in {"draft", "waiting_review"}
  /\ draftHolder' = NoOne
  /\ UNCHANGED <<jobVars, stopVars, phoneLock, broker, sweepVars, workerVars,
                 posts, crashes>>

-----------------------------------------------------------------------------
(* Faulty claim: earlier turns are not looked at.                          *)
ClaimUnordered(w, j) ==
  /\ pc[w] = "idle"
  /\ j \in broker
  /\ status[j] = "pending"
  /\ broker' = broker \ {j}
  /\ SetStatus(j, "processing")
  /\ attempts' = [attempts EXCEPT ![j] = @ + 1]
  /\ pc' = [pc EXCEPT ![w] = "prepare"]
  /\ job' = [job EXCEPT ![w] = j]
  /\ UNCHANGED <<cancelled, review, stopVars, draftVars, phoneLock, sweepVars,
                 answer, posts, crashes>>

(* A worker takes a message off the queue.  Only a pending row whose       *)
(* earlier turns are settled starts work; anything else is a no-op.        *)
Claim(w, j) ==
  /\ pc[w] = "idle"
  /\ j \in broker
  /\ status[j] = "pending"
  /\ ~Earlier(j)
  /\ broker' = broker \ {j}
  /\ SetStatus(j, "processing")
  /\ attempts' = [attempts EXCEPT ![j] = @ + 1]
  /\ pc' = [pc EXCEPT ![w] = "prepare"]
  /\ job' = [job EXCEPT ![w] = j]
  /\ UNCHANGED <<cancelled, review, stopVars, draftVars, phoneLock, sweepVars,
                 answer, posts, crashes>>

Defer(w, j) ==
  /\ pc[w] = "idle"
  /\ j \in broker
  /\ status[j] # "pending" \/ Earlier(j)
  /\ broker' = broker \ {j}
  /\ UNCHANGED <<jobVars, stopVars, draftVars, phoneLock, sweepVars, workerVars,
                 posts, crashes>>

(* The worker drops the turn: a blind UPDATE to skipped, then the end of   *)
(* its sessions.                                                           *)
Skip(w) ==
  /\ SetStatus(job[w], "skipped")
  /\ EndTask(w)
  /\ Release(w)
  /\ UNCHANGED <<attempts, review, stopVars, broker, sweepVars, posts, crashes>>

(* The worker's main session commits: the plan for the draft with it.      *)
CommitDraft(w) ==
  draft' = CASE answer[w].plan = "none"             -> draft
             [] answer[w].plan \in {"new", "draft"} -> "draft"
             [] answer[w].plan = "confirmed"        -> "waiting_review"
             [] answer[w].plan = "closed"           -> "cancelled"

(* Faulty decision: a turn that waits for a human is not looked for.       *)
PrepareUnpaused(w) ==
  /\ pc[w] = "prepare"
  /\ \E selecting \in {FALSE, SelectionFlow} :
       LET dropped == (Newer(job[w]) /\ ~selecting) \/ OptedOut
       IN  \/ dropped /\ Skip(w) /\ UNCHANGED <<cancelled, draft>>
           \/ /\ ~dropped
              /\ GoTo(w, IF selecting THEN "select" ELSE "model")
              /\ answer' = [answer EXCEPT ![w].selecting = selecting]
              /\ UNCHANGED <<jobVars, stopVars, draftVars, phoneLock, broker,
                             sweepVars, posts, crashes>>

(* Decision before the model call: a paused conversation, a newer turn to  *)
(* coalesce into, or an opt-out ends the turn.                             *)
Prepare(w) ==
  /\ pc[w] = "prepare"
  /\ \E selecting \in {FALSE, SelectionFlow} :
       LET dropped == Paused(job[w]) \/ (Newer(job[w]) /\ ~selecting) \/ OptedOut
       IN  \/ dropped /\ Skip(w) /\ UNCHANGED <<cancelled, draft>>
           \/ /\ ~dropped
              /\ GoTo(w, IF selecting THEN "select" ELSE "model")
              /\ answer' = [answer EXCEPT ![w].selecting = selecting]
              /\ UNCHANGED <<jobVars, stopVars, draftVars, phoneLock, broker,
                             sweepVars, posts, crashes>>

(* selection_service.handle: locks the open draft, waiting for its holder, *)
(* and plans its next status, or inserts a new one; the plan is committed  *)
(* with SENDING.  A side question goes on to the model with the draft held. *)
Plan(w, plan, step) ==
  /\ answer' = [answer EXCEPT ![w].plan = plan]
  /\ GoTo(w, step)

Select(w) ==
  /\ pc[w] = "select"
  /\ \/ /\ draftHolder = NoOne
        /\ draftHolder' = w
        /\ IF draft = "draft"
           THEN \/ \E plan \in {"new", "draft", "confirmed", "closed"} : Plan(w, plan, "check")
                \/ Plan(w, "draft", "model")
           ELSE Plan(w, "new", "check")
     \/ /\ draft # "draft"
        /\ \E step \in {"model", "check"} : Plan(w, "none", step)
        /\ UNCHANGED draftHolder
  /\ UNCHANGED <<jobVars, stopVars, draft, phoneLock, broker, sweepVars, posts, crashes>>

(* CompanyAgentRuntime.reply.  A handoff asked for in a side question of a *)
(* selection is sent as a reply and queued for review.                     *)
Model(w) ==
  /\ pc[w] = "model"
  /\ \E handoff \in BOOLEAN :
       answer' = [answer EXCEPT ![w].action =
                    IF ~handoff THEN "reply"
                    ELSE IF answer[w].plan = "none" THEN "handoff" ELSE "side"]
  /\ GoTo(w, "check")
  /\ UNCHANGED <<jobVars, stopVars, draftVars, phoneLock, broker, sweepVars, posts, crashes>>

(* A newer message may have arrived during the model call.  The audit is   *)
(* rewritten from the row loaded before the call, so the mark of a STOP    *)
(* that came in between is lost.                                           *)
CheckNewer(w) ==
  /\ pc[w] = "check"
  /\ IF Newer(job[w]) /\ ~answer[w].selecting
     THEN /\ Skip(w)
          /\ cancelled' = cancelled \ {job[w]}
          /\ UNCHANGED draft
     ELSE /\ GoTo(w, "guard")
          /\ UNCHANGED <<jobVars, stopVars, draftVars, phoneLock, broker,
                         sweepVars, answer, posts, crashes>>

(* Faulty guard: the lock is not taken.                                    *)
GuardUnlocked(w) ==
  /\ pc[w] = "guard"
  /\ GoTo(w, "boundary")
  /\ UNCHANGED <<jobVars, stopVars, draftVars, phoneLock, broker, sweepVars,
                 answer, posts, crashes>>

(* The guard session takes the tenant/phone lock; it is held until the     *)
(* task leaves the block, across the SENDING commit and the POST.          *)
Guard(w) ==
  /\ pc[w] = "guard"
  /\ phoneLock = NoOne
  /\ phoneLock' = w
  /\ GoTo(w, "boundary")
  /\ UNCHANGED <<jobVars, stopVars, draftVars, broker, sweepVars, answer, posts, crashes>>

(* Under the lock the row is refreshed.  A job that is no longer           *)
(* processing is left as it is; the draft STOP had to skip is cancelled    *)
(* here if this session had it.                                            *)
Abandon(w) ==
  /\ status[job[w]] # "processing"
  /\ draft' = IF /\ job[w] \in cancelled
                 /\ answer[w].plan \in {"draft", "confirmed", "closed"}
                 /\ draft = "draft"
              THEN "cancelled" ELSE draft
  /\ EndTask(w)
  /\ Release(w)
  /\ UNCHANGED <<jobVars, stopVars, broker, sweepVars, posts, crashes>>

(* The tenant or sender binding may have changed (the environment's        *)
(* choice), and an opt-out may have been committed since.  The commit that *)
(* skips the job commits the planned draft too.                            *)
Reject(w) ==
  /\ status[job[w]] = "processing"
  /\ \/ UNCHANGED cancelled
     \/ OptedOut /\ cancelled' = cancelled \cup {job[w]}
  /\ Skip(w)
  /\ CommitDraft(w)

Accept(w) ==
  /\ status[job[w]] = "processing"
  /\ ~OptedOut
  /\ GoTo(w, "claim")
  /\ UNCHANGED <<jobVars, stopVars, draftVars, phoneLock, broker, sweepVars,
                 answer, posts, crashes>>

Boundary(w) ==
  /\ pc[w] = "boundary"
  /\ Abandon(w) \/ Reject(w) \/ Accept(w)

(* SENDING is durable before the POST.  The commit also writes the planned *)
(* draft, frees its row and queues the reviews a selection asks for.       *)
CommitSending(w) ==
  /\ pc[w] = "claim"
  /\ SetStatus(job[w], "sending")
  /\ cancelled' = cancelled \ {job[w]}
  /\ review' = IF answer[w].action = "side" \/ answer[w].plan = "confirmed"
               THEN review \cup {job[w]} ELSE review \ {job[w]}
  /\ CommitDraft(w)
  /\ draftHolder' = IF draftHolder = w THEN NoOne ELSE draftHolder
  /\ GoTo(w, "post")
  /\ UNCHANGED <<attempts, stopVars, phoneLock, broker, sweepVars, answer, posts, crashes>>

(* The one POST to Meta.                                                   *)
Post(w) ==
  /\ pc[w] = "post"
  /\ posts' = [posts EXCEPT ![job[w]] = @ + 1]
  /\ GoTo(w, "posted")
  /\ UNCHANGED <<jobVars, stopVars, draftVars, phoneLock, broker, sweepVars, answer, crashes>>

(* Faulty end: a handoff is not queued for review.                         *)
FinishUnreviewed(w) ==
  /\ pc[w] = "posted"
  /\ SetStatus(job[w], IF answer[w].action = "handoff" THEN "handoff" ELSE "sent")
  /\ EndTask(w)
  /\ Release(w)
  /\ UNCHANGED <<attempts, cancelled, review, stopVars, draft, broker, sweepVars,
                 posts, crashes>>

(* Meta's answer carried a message id: the outbound message and the final  *)
(* status are committed, blindly, and the guard ends.                      *)
Finish(w) ==
  /\ pc[w] = "posted"
  /\ IF answer[w].action = "handoff"
     THEN SetStatus(job[w], "handoff") /\ review' = review \cup {job[w]}
     ELSE SetStatus(job[w], "sent") /\ UNCHANGED review
  /\ EndTask(w)
  /\ Release(w)
  /\ UNCHANGED <<attempts, cancelled, stopVars, draft, broker, sweepVars, posts, crashes>>

(* Any step may raise: no live version, a database or model error, a soft  *)
(* time limit, an ambiguous or id-less answer of Meta.                     *)
Raise(w) ==
  /\ pc[w] \in Answering \cup Posting
  /\ GoTo(w, "handler")
  /\ answer' = [answer EXCEPT ![w] = NoReply]
  /\ Release(w)
  /\ UNCHANGED <<jobVars, stopVars, draft, broker, sweepVars, posts, crashes>>

(* Faulty handler: a send of unknown outcome is tried again.               *)
HandlerRetriesSend(w) ==
  LET j == job[w]
  IN  /\ pc[w] = "handler"
      /\ IF attempts[j] >= MaxAttempts
         THEN SetStatus(j, "failed") /\ review' = review \cup {j}
         ELSE SetStatus(j, "pending") /\ UNCHANGED review
      /\ EndTask(w)
      /\ UNCHANGED <<attempts, cancelled, stopVars, draftVars, phoneLock, broker,
                     sweepVars, posts, crashes>>

(* The exception handler of _process_runtime_job.  It looks only at        *)
(* SENDING and at the attempts.                                            *)
Handler(w) ==
  LET j == job[w]
  IN  /\ pc[w] = "handler"
      /\ IF status[j] = "sending" \/ attempts[j] >= MaxAttempts
         THEN SetStatus(j, "failed") /\ review' = review \cup {j}
         ELSE SetStatus(j, "pending") /\ UNCHANGED review
      /\ EndTask(w)
      /\ UNCHANGED <<attempts, cancelled, stopVars, draftVars, phoneLock, broker,
                     sweepVars, posts, crashes>>

(* The worker process dies, or the hard time limit kills it.               *)
Crash(w) ==
  /\ crashes < MaxCrashes
  /\ pc[w] # "idle"
  /\ crashes' = crashes + 1
  /\ EndTask(w)
  /\ Release(w)
  /\ UNCHANGED <<jobVars, stopVars, draft, broker, sweepVars, posts>>

-----------------------------------------------------------------------------
(* Faulty query: only sends can be stale.                                  *)
StaleSends == {j \in Jobs : status[j] = "sending" /\ (TimeLimit => ~Busy(j))}

(* The recovery sweep.  A processing or sending row is stale five minutes  *)
(* after its last update.  No task can still be working on a stale row     *)
(* where the 180 s task limit is enforced, or where one solo worker runs   *)
(* the turns and the sweep in turn; several solo workers have neither.     *)
Staleable == {j \in Jobs : /\ status[j] \in {"processing", "sending"}
                           /\ TimeLimit => ~Busy(j)}

NoRows == [j \in Jobs |-> "none"]

(* It reads pending and stale rows, without locking them.                  *)
SweepRead(stale) ==
  /\ sweep = "idle"
  /\ sweep' = "read"
  /\ rows' = [j \in Jobs |-> IF status[j] = "pending" \/ j \in stale
                             THEN status[j] ELSE "none"]
  /\ UNCHANGED <<jobVars, stopVars, draftVars, phoneLock, broker, workerVars,
                 posts, crashes>>

(* Stale sends fail for good and go to a human; stale processing rows go   *)
(* back to pending.                                                        *)
SweepCommit ==
  LET lost == {j \in Jobs : rows[j] = "sending"}
  IN  /\ sweep = "read"
      /\ sweep' = "publish"
      /\ status' = [j \in Jobs |-> CASE rows[j] = "sending"    -> "failed"
                                     [] rows[j] = "processing" -> "pending"
                                     [] OTHER                  -> status[j]]
      /\ review' = review \cup lost
      /\ UNCHANGED <<attempts, cancelled, stopVars, draftVars, phoneLock, broker,
                     rows, workerVars, posts, crashes>>

Ready == {j \in Jobs : rows[j] \in {"pending", "processing"}}

(* Publication follows the commit; each message may fail to be published.  *)
SweepPublish(published) ==
  /\ sweep = "publish"
  /\ sweep' = "idle"
  /\ rows' = NoRows
  /\ broker' = broker \cup published
  /\ UNCHANGED <<jobVars, stopVars, draftVars, phoneLock, workerVars, posts, crashes>>

SweepCrash ==
  /\ crashes < MaxCrashes
  /\ sweep # "idle"
  /\ crashes' = crashes + 1
  /\ sweep' = "idle"
  /\ rows' = NoRows
  /\ UNCHANGED <<jobVars, stopVars, draftVars, phoneLock, broker, workerVars, posts>>

-----------------------------------------------------------------------------
Init ==
  /\ status = [j \in Jobs |-> "absent"]
  /\ attempts = [j \in Jobs |-> 0]
  /\ cancelled = {}
  /\ review = {}
  /\ consent = FALSE
  /\ optOut = FALSE
  /\ draft = "none"
  /\ draftHolder = NoOne
  /\ phoneLock = NoOne
  /\ broker = {}
  /\ sweep = "idle"
  /\ rows = NoRows
  /\ pc = [w \in Workers |-> "idle"]
  /\ job = [w \in Workers |-> 0]
  /\ answer = [w \in Workers |-> NoReply]
  /\ posts = [j \in Jobs |-> 0]
  /\ crashes = 0

Work(w) ==
  \/ Prepare(w)
  \/ Select(w)
  \/ Model(w)
  \/ CheckNewer(w)
  \/ Guard(w)
  \/ Boundary(w)
  \/ CommitSending(w)
  \/ Post(w)
  \/ Finish(w)
  \/ Handler(w)

Customer ==
  \/ \E j \in Jobs : Inbound(j)
  \/ \E j \in Jobs : Redeliver(j)
  \/ Stop
  \/ FormLock
  \/ FormSave

Operator ==
  \/ \E b \in BOOLEAN : AdminOptOut(b)
  \/ Resume

Worker(w) ==
  \/ \E j \in Jobs : Claim(w, j)
  \/ \E j \in Jobs : Defer(w, j)
  \/ Work(w)
  \/ Raise(w)
  \/ Crash(w)

Sweep ==
  \/ \E stale \in SUBSET Staleable : SweepRead(stale)
  \/ SweepCommit
  \/ \E published \in SUBSET Ready : SweepPublish(published)
  \/ SweepCrash

Next ==
  \/ Customer
  \/ Operator
  \/ \E w \in Workers : Worker(w)
  \/ Sweep

(* Fairness.  Beat starts the sweep every 15 s for as long as the system   *)
(* runs, so it keeps finding every row old enough to be stale, and every   *)
(* publication that is retried for ever succeeds in the end.  A task that  *)
(* started goes on; PostgreSQL queues the waiters of a lock, hence strong  *)
(* fairness.  Nothing forces a customer, an operator or a crash.           *)
Fairness ==
  /\ SF_vars(SweepRead(Staleable))
  /\ WF_vars(SweepCommit)
  /\ SF_vars(SweepPublish(Ready))
  /\ WF_vars(FormSave)
  /\ \A w \in Workers : SF_vars(Work(w))
  /\ \A j \in Jobs : SF_vars(\E w \in Workers : Claim(w, j))

Spec     == Init /\ [][Next]_vars
FairSpec == Spec /\ Fairness

-----------------------------------------------------------------------------
TypeOK ==
  /\ status \in [Jobs -> JobStatus \cup {"absent"}]
  /\ attempts \in [Jobs -> Nat]
  /\ cancelled \subseteq Jobs
  /\ review \subseteq Jobs
  /\ consent \in BOOLEAN
  /\ optOut \in BOOLEAN
  /\ draft \in {"none", "draft", "cancelled", "waiting_review"}
  /\ draftHolder \in Workers \cup {Form, NoOne}
  /\ phoneLock \in Workers \cup {NoOne}
  /\ broker \subseteq Jobs
  /\ sweep \in {"idle", "read", "publish"}
  /\ rows \in [Jobs -> {"none", "pending", "processing", "sending"}]
  /\ pc \in [Workers -> Steps]
  /\ job \in [Workers -> Jobs \cup {0}]
  /\ answer \in [Workers -> Answer]
  /\ posts \in [Jobs -> Nat]
  /\ crashes \in Nat

(* At most once: however often a turn is published, delivered, retried or  *)
(* recovered, it crosses the Meta boundary at most one time.               *)
AtMostOnePost == \A j \in Jobs : posts[j] <= 1

(* Once the POST may have happened the row can never look retryable again. *)
NeverReplayed ==
  \A j \in Jobs : posts[j] > 0 => status[j] \notin {"absent", "pending", "processing"}

(* At most one turn of a conversation is being answered at a time.         *)
OneTurnInFlight ==
  \A j, k \in Jobs :
    status[j] \in {"processing", "sending"} /\ status[k] \in {"processing", "sending"}
      => j = k

(* A turn that stops the bot has always been handed to a human.            *)
BlockedIsReviewed == \A j \in Jobs : status[j] \in Blocking => j \in review

Posts(j) == posts'[j] # posts[j]

(* No reply leaves after a STOP webhook has committed.                     *)
NoPostAfterStop == [][\A j \in Jobs : Posts(j) => ~consent]_vars

(* Replies leave in the order the messages arrived.                        *)
PostsInOrder ==
  [][\A j \in Jobs : Posts(j) => \A k \in Jobs : k > j => posts[k] = 0]_vars

(* The bot is silent in a conversation that waits for a human.             *)
PausedIsSilent == [][\A j \in Jobs : Posts(j) => ~Paused(j)]_vars

(* A turn STOP cancelled stays skipped.                                    *)
StopIsTerminal ==
  [][\A j \in Jobs : j \in cancelled /\ status[j] = "skipped" => status'[j] = "skipped"]_vars

(* Every turn is settled in the end: answered, dropped, or in the hands of *)
(* a human.                                                                *)
EveryTurnSettles == \A j \in Jobs : status[j] \in Live ~> status[j] \in Settled

-----------------------------------------------------------------------------
(* The abstract channel each conversation implements.                      *)
Phase(j) ==
  IF posts[j] > 0 THEN "posted"
  ELSE CASE status[j] = "sending" -> "claimed"
         [] status[j] \in {"sent", "handoff", "resolved", "failed"} -> "closed"
         [] OTHER -> "open"

Delivery == INSTANCE TurnDelivery
              WITH Turns <- Jobs, phase <- [j \in Jobs |-> Phase(j)], stopped <- consent

(* The workers, the sweep and the webhooks implement that channel.         *)
ImplementsDelivery == Delivery!Spec
=============================================================================
