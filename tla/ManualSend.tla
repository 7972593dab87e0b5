----------------------------- MODULE ManualSend -----------------------------
(***************************************************************************)
(* A person answers one conversation by hand: reply operations of the      *)
(* operator assistant (workflow_inbox.send), with their stored receipts    *)
(* and retries, and the plain inbox route, both over                       *)
(* ConversationService.send_free_form.  Requests run concurrently with     *)
(* each other, with Meta's callbacks, with polling and with STOP.          *)
(***************************************************************************)
EXTENDS DeliveryStatus, FiniteSets

CONSTANTS
  Requests,     \* HTTP requests
  Replies,      \* reply operations (Workflow rows), each in its own chat
  Keys,         \* client_operation_id values
  MaxCrashes,   \* requests that die (bound)
  NoOne

Assumptions ==
  /\ MaxCrashes \in Nat
  /\ NoOne \notin Requests \cup Replies \cup Keys

VARIABLES
  row,        \* status of each reply operation
  sentBy,     \* the message a reply operation has in its state
  receipt,    \* client_operation_id values stored for each reply's chat
  state,      \* manual_send_state of the message each request creates
  delivery,   \* its delivery_status
  waId,       \* messages whose wa_message_id is stored
  optOut,     \* is there an OptOut row for the phone?
  phoneLock,  \* holder of the tenant/phone advisory lock
  chatLock,   \* holder of the row lock of each operation's chat
  pc, doing, key,   \* per request: step, operation, client_operation_id
  meta,       \* messages Meta has accepted
  posts,      \* history: POSTs made by each request
  crashes     \* history: requests that died

rowVars     == <<row, sentBy, receipt>>
messageVars == <<state, delivery, waId>>
requestVars == <<pc, doing, key>>
vars == <<rowVars, messageVars, optOut, phoneLock, chatLock, requestVars,
          meta, posts, crashes>>

-----------------------------------------------------------------------------
Unsettled(q) == state[q] \in {"sending", "ambiguous"}
InFlight     == {"post", "error", "answer"}
Confirmed(q) == q \in waId /\ delivery[q] \in Succeeded

GoTo(q, step) == pc' = [pc EXCEPT ![q] = step]

(* The chat's row lock ends with the transaction that took it.             *)
FreeChat(q)  == chatLock' = [r \in Replies |-> IF chatLock[r] = q THEN NoOne ELSE chatLock[r]]
FreePhone(q) == phoneLock' = IF phoneLock = q THEN NoOne ELSE phoneLock

(* A command "complete" for a reply, under the lock of its chat: a retry   *)
(* gets the stored response, an operation that is not ready a 409.         *)
Complete(q, r, k) ==
  /\ pc[q] = "new"
  /\ chatLock[r] = NoOne
  /\ doing' = [doing EXCEPT ![q] = r]
  /\ key' = [key EXCEPT ![q] = k]
  /\ IF k \notin receipt[r] /\ row[r] = "ready"
     THEN GoTo(q, "guard") /\ chatLock' = [chatLock EXCEPT ![r] = q]
     ELSE GoTo(q, "done") /\ UNCHANGED chatLock
  /\ UNCHANGED <<rowVars, messageVars, optOut, phoneLock, meta, posts, crashes>>

(* POST /conversations/{id}/messages: no operation and no receipt.         *)
SendMessage(q) ==
  /\ pc[q] = "new"
  /\ GoTo(q, "guard")
  /\ UNCHANGED <<rowVars, messageVars, optOut, phoneLock, chatLock, doing, key,
                 meta, posts, crashes>>

(* send_free_form.  Faulty on its own: the phone lock is not taken.        *)
Enter(q) ==
  /\ pc[q] = "guard"
  /\ GoTo(q, "check")
  /\ phoneLock' = q
  /\ UNCHANGED <<rowVars, messageVars, optOut, chatLock, doing, key, meta,
                 posts, crashes>>

Guard(q) == phoneLock = NoOne /\ Enter(q)

(* The customer opted out, an earlier manual message is unsettled, the     *)
(* channel is gone or the 24-hour window has closed: nothing is stored.    *)
Refuse(q) ==
  /\ pc[q] = "check"
  /\ GoTo(q, "done")
  /\ FreePhone(q)
  /\ FreeChat(q)
  /\ UNCHANGED <<rowVars, messageVars, optOut, doing, key, meta, posts, crashes>>

Allowed == ~optOut /\ \A p \in Requests : ~Unsettled(p)

(* Faulty: the operation and its receipt are not stored with the message.  *)
CommitMessageOnly(q) ==
  /\ pc[q] = "check"
  /\ Allowed
  /\ state' = [state EXCEPT ![q] = "sending"]
  /\ GoTo(q, "post")
  /\ FreeChat(q)
  /\ UNCHANGED <<rowVars, delivery, waId, optOut, phoneLock, doing, key,
                 meta, posts, crashes>>

(* One commit stores the message as SENDING, the operation as running and  *)
(* its receipt, and ends the transaction that holds the chat.              *)
CommitSending(q) ==
  /\ pc[q] = "check"
  /\ Allowed
  /\ state' = [state EXCEPT ![q] = "sending"]
  /\ IF doing[q] = NoOne THEN UNCHANGED rowVars
     ELSE /\ row' = [row EXCEPT ![doing[q]] = "running"]
          /\ sentBy' = [sentBy EXCEPT ![doing[q]] = q]
          /\ receipt' = [receipt EXCEPT ![doing[q]] = @ \cup {key[q]}]
  /\ GoTo(q, "post")
  /\ FreeChat(q)
  /\ UNCHANGED <<delivery, waId, optOut, phoneLock, doing, key, meta, posts,
                 crashes>>

(* The single POST: an id comes back, or nothing that tells.               *)
Post(q) ==
  /\ pc[q] = "post"
  /\ posts' = [posts EXCEPT ![q] = @ + 1]
  /\ \/ GoTo(q, "answer") /\ meta' = meta \cup {q}
     \/ GoTo(q, "error") /\ meta' \in {meta, meta \cup {q}}
  /\ UNCHANGED <<rowVars, messageVars, optOut, phoneLock, chatLock, doing, key,
                 crashes>>

(* A reply still has its operation to bring up to date.                    *)
AfterSend(q) == IF doing[q] = NoOne THEN "done" ELSE "finish"

(* The message is read again with its lock: callbacks that have arrived    *)
(* are kept, and a lost answer is confirmed by them.                       *)
Settle(q) ==
  /\ pc[q] \in {"error", "answer"}
  /\ state' = [state EXCEPT ![q] =
                 IF pc[q] = "answer" \/ Confirmed(q) THEN "sent" ELSE "ambiguous"]
  /\ waId' = IF pc[q] = "answer" THEN waId \cup {q} ELSE waId
  /\ GoTo(q, AfterSend(q))
  /\ FreePhone(q)
  /\ UNCHANGED <<rowVars, delivery, optOut, chatLock, doing, key, meta, posts,
                 crashes>>

(* sync: what is shown of a reply is what is known of its message, and the *)
(* operation is over once that is more than "sending".                     *)
Outcome(q) == IF delivery[q] # "none" THEN delivery[q] ELSE state[q]

(* Faulty: an operation whose message exists is over; only a callback ends *)
(* an operation; the outcome is taken for the status.                      *)
SyncedEarly(r)     == IF sentBy[r] # NoOne THEN "completed" ELSE row[r]
SyncedByCallback(r) == IF sentBy[r] # NoOne /\ delivery[sentBy[r]] # "none"
                       THEN "completed" ELSE row[r]

Synced(r) == IF sentBy[r] # NoOne /\ Outcome(sentBy[r]) # "sending"
             THEN "completed" ELSE row[r]

Finish(q) ==
  /\ pc[q] = "finish"
  /\ chatLock[doing[q]] = NoOne
  /\ row' = [row EXCEPT ![doing[q]] = Synced(doing[q])]
  /\ GoTo(q, "done")
  /\ UNCHANGED <<sentBy, receipt, messageVars, optOut, phoneLock, chatLock,
                 doing, key, meta, posts, crashes>>

(* The process of the request dies: locks and open transactions go.        *)
Crash(q) ==
  /\ pc[q] \notin {"new", "done"}
  /\ crashes < MaxCrashes
  /\ crashes' = crashes + 1
  /\ GoTo(q, "done")
  /\ FreePhone(q)
  /\ FreeChat(q)
  /\ UNCHANGED <<rowVars, messageVars, optOut, doing, key, meta, posts>>

-----------------------------------------------------------------------------
(* list_views, when the chat is loaded or polled.                          *)
Poll(r) ==
  /\ chatLock[r] = NoOne
  /\ Synced(r) # row[r]
  /\ row' = [row EXCEPT ![r] = Synced(r)]
  /\ UNCHANGED <<sentBy, receipt, messageVars, optOut, phoneLock, chatLock,
                 requestVars, meta, posts, crashes>>

(* The operator withdraws a reply that has not been sent.                  *)
Withdraw(r) ==
  /\ chatLock[r] = NoOne
  /\ row[r] = "ready"
  /\ row' = [row EXCEPT ![r] = "cancelled"]
  /\ UNCHANGED <<sentBy, receipt, messageVars, optOut, phoneLock, chatLock,
                 requestVars, meta, posts, crashes>>

(* A callback finds the message of a reply by its callback data, another   *)
(* one by the stored message id, and updates it under its row lock.        *)
Callback(q, s) ==
  LET effective == NextDeliveryStatus(delivery[q], s)
  IN  /\ q \in meta
      /\ doing[q] # NoOne \/ q \in waId
      /\ delivery' = [delivery EXCEPT ![q] = effective]
      /\ waId' = waId \cup {q}
      /\ state' = [state EXCEPT ![q] = IF effective \in Succeeded THEN "sent" ELSE @]
      /\ UNCHANGED <<rowVars, optOut, phoneLock, chatLock, requestVars, meta,
                     posts, crashes>>

Stop ==
  /\ phoneLock = NoOne
  /\ optOut' = TRUE
  /\ UNCHANGED <<rowVars, messageVars, phoneLock, chatLock, requestVars, meta,
                 posts, crashes>>

-----------------------------------------------------------------------------
Init ==
  /\ row = [r \in Replies |-> "ready"]
  /\ sentBy = [r \in Replies |-> NoOne]
  /\ receipt = [r \in Replies |-> {}]
  /\ state = [q \in Requests |-> "none"]
  /\ delivery = [q \in Requests |-> "none"]
  /\ waId = {} /\ meta = {}
  /\ optOut = FALSE
  /\ phoneLock = NoOne
  /\ chatLock = [r \in Replies |-> NoOne]
  /\ pc = [q \in Requests |-> "new"]
  /\ doing = [q \in Requests |-> NoOne]
  /\ key = [q \in Requests |-> NoOne]
  /\ posts = [q \in Requests |-> 0]
  /\ crashes = 0

Work(q) == Guard(q) \/ Refuse(q) \/ CommitSending(q) \/ Post(q) \/ Settle(q) \/ Finish(q)

Next ==
  \/ \E q \in Requests, r \in Replies, k \in Keys : Complete(q, r, k)
  \/ \E q \in Requests : SendMessage(q) \/ Work(q) \/ Crash(q)
  \/ \E r \in Replies : Poll(r) \/ Withdraw(r)
  \/ \E q \in Requests, s \in DELIVERY_STATUSES : Callback(q, s)
  \/ Stop

(* A request that is served goes on, the database serves waiting           *)
(* transactions in turn, and an open chat polls.                           *)
Fairness ==
  /\ \A q \in Requests : WF_vars(Work(q)) /\ SF_vars(Guard(q)) /\ SF_vars(Finish(q))
  /\ \A r \in Replies : WF_vars(Poll(r))

Spec     == Init /\ [][Next]_vars
FairSpec == Spec /\ Fairness

-----------------------------------------------------------------------------
TypeOK ==
  /\ row \in [Replies -> {"ready", "running", "completed", "cancelled"}]
  /\ sentBy \in [Replies -> Requests \cup {NoOne}]
  /\ receipt \in [Replies -> SUBSET Keys]
  /\ state \in [Requests -> {"none", "sending", "sent", "ambiguous"}]
  /\ delivery \in [Requests -> DELIVERY_STATUSES \cup {"none"}]
  /\ waId \subseteq Requests /\ meta \subseteq Requests
  /\ optOut \in BOOLEAN
  /\ phoneLock \in Requests \cup {NoOne}
  /\ chatLock \in [Replies -> Requests \cup {NoOne}]
  /\ pc \in [Requests -> {"new", "guard", "check", "finish", "done"} \cup InFlight]
  /\ doing \in [Requests -> Replies \cup {NoOne}]
  /\ key \in [Requests -> Keys \cup {NoOne}]
  /\ posts \in [Requests -> Nat]
  /\ crashes \in 0 .. MaxCrashes

(* "Retrying the same operation does not send a second message"            *)
(* (workflow_inbox.py:245): the requests for one reply, retries after a    *)
(* crash and double clicks included, make at most one POST between them.   *)
OnePostPerReply ==
  \A p, q \in Requests :
     doing[p] = doing[q] /\ doing[p] # NoOne /\ posts[p] > 0 /\ posts[q] > 0 => p = q

(* Nothing is posted while another manual message of the conversation may  *)
(* or may not have been delivered, nor after STOP has committed.           *)
PostedAlone ==
  [][\A q \in Requests : posts'[q] # posts[q] =>
        ~optOut /\ \A p \in Requests \ {q} : ~Unsettled(p)]_vars

(* "An early webhook's JSON is preserved" and a send with proof of         *)
(* delivery is not ambiguous, whoever writes the message last.             *)
ConfirmedIsSent ==
  \A q \in Requests : delivery[q] \in Succeeded => state[q] = "sent" /\ q \in waId

(* A reply is shown as over only when more is known of its message than    *)
(* that it is on its way.                                                  *)
OverIsKnown ==
  \A r \in Replies : row[r] = "completed" =>
     sentBy[r] # NoOne /\ Outcome(sentBy[r]) # "sending"

(* "The result of the running operation is awaited" (workflows.py:345): a  *)
(* running reply is over in the end, unless the process serving it died,   *)
(* which nothing in the code recovers from.                                *)
ReplyEnds ==
  \A r \in Replies : (row[r] = "running") ~> (row[r] = "completed" \/ crashes > 0)
=============================================================================
