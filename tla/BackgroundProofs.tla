--------------------------- MODULE BackgroundProofs ---------------------------
(***************************************************************************)
(* What the replies by hand guarantee for any number of requests, replies, *)
(* operation ids and processes that die.                                   *)
(*   RepliesAreHonest   a reply is posted once, is sent when there is      *)
(*                      proof of it, and is over when its outcome is known.*)
(*   PostedWithNoneOpen nothing is posted beside a message whose outcome   *)
(*                      is open, nor after STOP.                           *)
(***************************************************************************)
EXTENDS Background, TLAPS

Before == {"new", "guard", "check"}
Inside == {"check", "post", "error", "answer"}

(* A request past the guard holds the phone, so that from its look at STOP *)
(* and at the other messages until its POST nothing else moves.            *)
PhoneHeld == \A q \in Requests : at[q] \in Inside => phoneLock = q
PostClear ==
  \A q \in Requests : at[q] = "post" =>
     ~optOut /\ \A p \in Requests \ {q} : ~Manual!Unsettled(p)

(* Up to its commit a request for a reply holds the chat of it, which is   *)
(* still ready.                                                            *)
ChatHeld ==
  \A q \in Requests : doing[q] # NoOne /\ at[q] \in {"guard", "check"} =>
     chatLock[doing[q]] = q /\ row[doing[q]] = "ready" /\ key[q] \in Keys

(* Nothing is known anywhere of a message that was not committed.          *)
NothingBefore ==
  \A q \in Requests :
     /\ at[q] = "new" => doing[q] = NoOne
     /\ at[q] \in Before => manualPosts[q] = 0 /\ \A r \in Replies : sentBy[r] # q
     /\ at[q] \in Before \/ q \notin manualMeta => delivery[q] = "none"
     /\ at[q] \in Before => q \notin manualMeta

(* A reply that is ready has no message, and a message that was posted for *)
(* a reply is the one the reply has.                                       *)
ReadyIsUnsent == \A r \in Replies : row[r] = "ready" => sentBy[r] = NoOne
MessageIsTheReplys ==
  \A q \in Requests :
     /\ doing[q] # NoOne /\ (at[q] = "post" \/ manualPosts[q] > 0) => sentBy[doing[q]] = q
     /\ at[q] = "finish" => doing[q] # NoOne

ReplyInv ==
  /\ Manual!TypeOK /\ PhoneHeld /\ PostClear /\ ChatHeld /\ NothingBefore
  /\ ReadyIsUnsent /\ MessageIsTheReplys /\ Manual!ConfirmedIsSent /\ Manual!OverIsKnown
-----------------------------------------------------------------------------
LEMMA NextStatus ==
  ASSUME NEW old \in Manual!DELIVERY_STATUSES \cup {"none"}, NEW s \in Manual!DELIVERY_STATUSES
  PROVE  Manual!NextDeliveryStatus(old, s) \in Manual!DELIVERY_STATUSES
BY DEF Manual!NextDeliveryStatus, Manual!DeliveryRank, Manual!DELIVERY_STATUSES, Manual!Succeeded

LEMMA NobodyHolds == NoOne \notin Requests /\ NoOne \notin Replies
BY BackgroundAssumptions DEF Manual!Assumptions

(***************************************************************************)
(* One lemma for each action.                                              *)
(***************************************************************************)
USE NobodyHolds
USE DEF ReplyInv, Manual!TypeOK, PhoneHeld, PostClear, ChatHeld, NothingBefore, ReadyIsUnsent,
        MessageIsTheReplys, Manual!ConfirmedIsSent, Manual!OverIsKnown,
        Before, Inside, Manual!InFlight, Manual!Unsettled, Manual!Outcome,
        Manual!DELIVERY_STATUSES, Manual!Succeeded,
        Manual!GoTo, Manual!FreeChat, Manual!FreePhone,
        Manual!rowVars, Manual!messageVars, Manual!requestVars

LEMMA CompleteKeeps ==
  ASSUME ReplyInv, NEW q \in Requests, NEW r \in Replies, NEW k \in Keys, Manual!Complete(q, r, k)
  PROVE  ReplyInv'
BY DEF Manual!Complete

LEMMA SendMessageKeeps ==
  ASSUME ReplyInv, NEW q \in Requests, Manual!SendMessage(q)
  PROVE  ReplyInv'
BY DEF Manual!SendMessage

LEMMA GuardKeeps ==
  ASSUME ReplyInv, NEW q \in Requests, Manual!Guard(q)
  PROVE  ReplyInv'
BY DEF Manual!Guard, Manual!Enter

LEMMA RefuseKeeps ==
  ASSUME ReplyInv, NEW q \in Requests, Manual!Refuse(q)
  PROVE  ReplyInv'
BY DEF Manual!Refuse

LEMMA PostKeeps ==
  ASSUME ReplyInv, NEW q \in Requests, Manual!Post(q)
  PROVE  ReplyInv'
BY DEF Manual!Post

LEMMA FinishKeeps ==
  ASSUME ReplyInv, NEW q \in Requests, Manual!Finish(q)
  PROVE  ReplyInv'
<1>1. doing[q] \in Replies
  BY DEF Manual!Finish
<1> QED BY <1>1 DEF Manual!Finish, Manual!Synced

LEMMA CrashKeeps ==
  ASSUME ReplyInv, NEW q \in Requests, Manual!Crash(q)
  PROVE  ReplyInv'
BY BackgroundAssumptions DEF Manual!Assumptions, Manual!Crash

LEMMA PollKeeps ==
  ASSUME ReplyInv, NEW r \in Replies, Manual!Poll(r)
  PROVE  ReplyInv'
BY DEF Manual!Poll, Manual!Synced

LEMMA WithdrawKeeps ==
  ASSUME ReplyInv, NEW r \in Replies, Manual!Withdraw(r)
  PROVE  ReplyInv'
BY DEF Manual!Withdraw

LEMMA StopKeeps ==
  ASSUME ReplyInv, Manual!Stop
  PROVE  ReplyInv'
BY DEF Manual!Stop

(* The commit finds the reply ready, so that no other request has sent it, *)
(* and nothing known of its own message that could be overwritten.         *)
LEMMA CommitSendingKeeps ==
  ASSUME ReplyInv, NEW q \in Requests, Manual!CommitSending(q)
  PROVE  ReplyInv'
<1> USE DEF Manual!CommitSending
<1>1. phoneLock = q /\ ~optOut /\ \A p \in Requests : ~Manual!Unsettled(p)
  BY DEF Manual!Allowed
<1>2. doing[q] # NoOne =>
        doing[q] \in Replies /\ row[doing[q]] = "ready" /\ sentBy[doing[q]] = NoOne /\ key[q] \in Keys
  OBVIOUS
<1>3. q \notin manualMeta /\ delivery[q] = "none" /\ \A r \in Replies : sentBy[r] # q
  OBVIOUS
<1>4. Manual!TypeOK'
  BY SMTT(20), <1>2
<1>5. PhoneHeld' /\ PostClear'
  BY <1>1, <1>4
<1>6. ChatHeld'
  BY <1>2
<1>7. NothingBefore' /\ ReadyIsUnsent' /\ MessageIsTheReplys'
  BY <1>2, <1>3
<1>8. Manual!ConfirmedIsSent'
  BY <1>3
<1>9. Manual!OverIsKnown'
  <2> SUFFICES ASSUME NEW r \in Replies, row'[r] = "completed"
               PROVE  (sentBy[r] # NoOne /\ Manual!Outcome(sentBy[r]) # "sending")'
    BY DEF Manual!OverIsKnown
  <2>1. row[r] = "completed" /\ sentBy'[r] = sentBy[r] /\ sentBy[r] # NoOne
    OBVIOUS
  <2>2. sentBy[r] # q /\ sentBy[r] \in Requests
    BY <1>3, <2>1
  <2> QED BY <2>1, <2>2
<1> QED BY <1>4, <1>5, <1>6, <1>7, <1>8, <1>9

(* A message with proof of delivery has its id, so that a lost answer to   *)
(* its POST is settled as sent.                                            *)
LEMMA SettleKeeps ==
  ASSUME ReplyInv, NEW q \in Requests, Manual!Settle(q)
  PROVE  ReplyInv'
<1> USE DEF Manual!Settle, Manual!AfterSend, Manual!Confirmed
<1>1. phoneLock = q /\ state'[q] \in {"sent", "ambiguous"} /\ \A p \in Requests \ {q} : state'[p] = state[p]
  OBVIOUS
<1>2. Manual!TypeOK'
  OBVIOUS
<1>3. PhoneHeld' /\ PostClear'
  BY <1>1, <1>2
<1>4. ChatHeld' /\ NothingBefore' /\ ReadyIsUnsent' /\ MessageIsTheReplys'
  OBVIOUS
<1>5. Manual!ConfirmedIsSent'
  OBVIOUS
<1>6. Manual!OverIsKnown'
  BY <1>1
<1> QED BY <1>2, <1>3, <1>4, <1>5, <1>6

(* A callback leaves the message with a status, and settles it if that is  *)
(* proof; it never makes a message unsettled.                              *)
LEMMA CallbackKeeps ==
  ASSUME ReplyInv, NEW q \in Requests, NEW s \in Manual!DELIVERY_STATUSES, Manual!Callback(q, s)
  PROVE  ReplyInv'
<1> DEFINE new == Manual!NextDeliveryStatus(delivery[q], s)
<1>1. new \in Manual!DELIVERY_STATUSES
  BY NextStatus
<1>2. /\ q \in manualMeta
      /\ delivery' = [delivery EXCEPT ![q] = new]
      /\ waId' = waId \cup {q}
      /\ state' = [state EXCEPT ![q] = IF new \in Manual!Succeeded THEN "sent" ELSE @]
      /\ UNCHANGED <<row, sentBy, receipts, optOut, phoneLock, chatLock, at, doing, key,
                     manualMeta, manualPosts, deaths>>
  BY DEF Manual!Callback
<1> HIDE DEF new
<1> QED BY <1>1, <1>2

HIDE NobodyHolds
HIDE DEF ReplyInv, Manual!TypeOK, PhoneHeld, PostClear, ChatHeld, NothingBefore, ReadyIsUnsent,
         MessageIsTheReplys, Manual!ConfirmedIsSent, Manual!OverIsKnown,
         Before, Inside, Manual!InFlight, Manual!Unsettled, Manual!Outcome,
         Manual!DELIVERY_STATUSES, Manual!Succeeded,
         Manual!GoTo, Manual!FreeChat, Manual!FreePhone,
         Manual!rowVars, Manual!messageVars, Manual!requestVars
-----------------------------------------------------------------------------
LEMMA RepliesInit == Manual!Init => ReplyInv
<1> SUFFICES ASSUME Manual!Init PROVE ReplyInv
  OBVIOUS
<1> USE DEF Manual!Init
<1>1. Manual!TypeOK
  <2>1. 0 \in 0 .. MaxDeaths
    BY BackgroundAssumptions DEF Manual!Assumptions
  <2>2. receipts \in [Replies -> SUBSET Keys] /\ optOut \in BOOLEAN
    OBVIOUS
  <2> QED BY <2>1, <2>2 DEF Manual!TypeOK, Manual!InFlight
<1>2. PhoneHeld /\ PostClear /\ ChatHeld /\ NothingBefore
  BY NobodyHolds DEF PhoneHeld, PostClear, ChatHeld, NothingBefore, Before, Inside
<1>3. ReadyIsUnsent /\ MessageIsTheReplys /\ Manual!ConfirmedIsSent /\ Manual!OverIsKnown
  BY DEF ReadyIsUnsent, MessageIsTheReplys, Manual!ConfirmedIsSent, Manual!OverIsKnown,
         Manual!Succeeded
<1> QED BY <1>1, <1>2, <1>3 DEF ReplyInv

LEMMA RepliesNext == ReplyInv /\ Manual!Next => ReplyInv'
<1> SUFFICES ASSUME ReplyInv, Manual!Next PROVE ReplyInv'
  OBVIOUS
<1> QED BY CompleteKeeps, SendMessageKeeps, GuardKeeps, RefuseKeeps, CommitSendingKeeps, PostKeeps,
           SettleKeeps, FinishKeeps, CrashKeeps, PollKeeps, WithdrawKeeps, CallbackKeeps, StopKeeps
        DEF Manual!Next, Manual!Work

LEMMA RepliesStay == ReplyInv /\ UNCHANGED manualVars => ReplyInv'
BY DEF manualVars, ReplyInv, Manual!TypeOK, PhoneHeld, PostClear, ChatHeld, NothingBefore,
       ReadyIsUnsent, MessageIsTheReplys, Manual!ConfirmedIsSent, Manual!OverIsKnown,
       Manual!Unsettled, Manual!Outcome, Manual!InFlight

LEMMA RepliesAlways == BackgroundSpec => []ReplyInv
<1>1. BackgroundInit => ReplyInv
  BY RepliesInit DEF BackgroundInit
<1>2. ReplyInv /\ [BackgroundNext]_<<work, vars, manualVars, cardVars, leadVars>> => ReplyInv'
  BY RepliesNext, RepliesStay DEF BackgroundNext
<1> QED BY <1>1, <1>2, PTL DEF BackgroundSpec

(* workflow_inbox.py and send_free_form: "retrying the same operation does *)
(* not send a second message", a message with proof of delivery is sent,   *)
(* and a reply is over when more is known than that it is on its way.      *)
THEOREM RepliesAreHonest == BackgroundSpec => []HonestReplies
<1>1. ReplyInv => HonestReplies
  <2> SUFFICES ASSUME ReplyInv PROVE Manual!OnePostPerReply
    BY DEF ReplyInv, HonestReplies
  <2>1. \A q \in Requests : manualPosts[q] > 0 /\ doing[q] # NoOne => sentBy[doing[q]] = q
    BY DEF ReplyInv, MessageIsTheReplys
  <2> QED BY <2>1 DEF Manual!OnePostPerReply
<1> QED BY <1>1, RepliesAlways, PTL

(* send_free_form posts under the phone lock, after it has looked at STOP  *)
(* and at the earlier messages of the conversation.                        *)
THEOREM PostedWithNoneOpen == BackgroundSpec => PostedAlone
<1> DEFINE Step == \A q \in Requests : manualPosts'[q] # manualPosts[q] =>
                     ~optOut /\ \A p \in Requests \ {q} : ~Manual!Unsettled(p)
<1>1. ReplyInv /\ Manual!Next => Step
  <2> SUFFICES ASSUME ReplyInv, Manual!Next, NEW q \in Requests, manualPosts'[q] # manualPosts[q]
               PROVE  ~optOut /\ \A p \in Requests \ {q} : ~Manual!Unsettled(p)
    OBVIOUS
  <2>1. at[q] = "post"
    BY DEF Manual!Next, Manual!Work, Manual!Complete, Manual!SendMessage, Manual!Guard,
           Manual!Enter, Manual!Refuse, Manual!CommitSending, Manual!Post, Manual!Settle,
           Manual!Finish, Manual!Crash, Manual!Poll, Manual!Withdraw, Manual!Callback, Manual!Stop,
           ReplyInv, Manual!TypeOK
  <2> QED BY <2>1 DEF ReplyInv, PostClear
<1>2. ReplyInv /\ [BackgroundNext]_<<work, vars, manualVars, cardVars, leadVars>> => [Step]_Manual!vars
  <2>1. UNCHANGED manualVars => UNCHANGED Manual!vars
    BY DEF manualVars, Manual!vars, Manual!rowVars, Manual!messageVars, Manual!requestVars
  <2> QED BY <1>1, <2>1 DEF BackgroundNext
<1>3. PostedAlone <=> [][Step]_Manual!vars
  BY DEF PostedAlone, Manual!PostedAlone
<1> QED BY <1>2, <1>3, RepliesAlways, PTL DEF BackgroundSpec
=============================================================================
