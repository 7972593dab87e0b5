----------------------------- MODULE Background -----------------------------
(***************************************************************************)
(* The work that must come to an end by itself: recipients of a batch at   *)
(* the daily cap, replies that an operator sends by hand, cards of the     *)
(* assistant that wait for a delivery or for Meta, and scans for leads.    *)
(*                                                                         *)
(* A behaviour is about one of them (work) and the others stay at their    *)
(* beginning; what a card knows of its batch is part of Workflow.          *)
(***************************************************************************)
EXTENDS ChatOutbound

CONSTANTS
    Requests, Replies, Keys, MaxDeaths,   \* ManualSend
    Cards, StartKinds, Texts, MaxCommands, MaxRecord, MaxBatches, MaxRevision,  \* Workflow
    Raws, Tasks, MaxKills, Bar            \* LeadScan

VARIABLES
    work,   \* the work that moves
    row, sentBy, receipts, state, delivery, waId, optOut, phoneLock, chatLock,
    at, doing, key, manualMeta, manualPosts, deaths,
    cards, batches, posting, metaTemplate, templatePosts, record, spent, screen, done,
    campaign, leads, contacts, tasks, kills

manualVars == <<row, sentBy, receipts, state, delivery, waId, optOut, phoneLock, chatLock,
                at, doing, key, manualMeta, manualPosts, deaths>>
cardVars == <<cards, batches, posting, metaTemplate, templatePosts, record, spent, screen, done>>
leadVars == <<campaign, leads, contacts, tasks, kills>>

Manual == INSTANCE ManualSend WITH
    MaxCrashes <- MaxDeaths, receipt <- receipts, pc <- at, meta <- manualMeta,
    posts <- manualPosts, crashes <- deaths
Assistant == INSTANCE Workflow WITH meta <- metaTemplate, posts <- templatePosts
Scan == INSTANCE LeadScan WITH MaxCrashes <- MaxKills, crashes <- kills, phones <- contacts

ASSUME BackgroundAssumptions == Manual!Assumptions /\ Scan!BarIsAScore

BackgroundInit ==
    /\ work \in {"outbox", "replies", "cards", "scans"}
    /\ Init /\ Manual!Init /\ Assistant!Init /\ Scan!Init

BackgroundNext ==
    /\ UNCHANGED work
    /\ \/ work = "outbox" /\ Next /\ UNCHANGED <<manualVars, cardVars, leadVars>>
       \/ work = "replies" /\ Manual!Next /\ UNCHANGED <<vars, cardVars, leadVars>>
       \/ work = "cards" /\ Assistant!Next /\ UNCHANGED <<vars, manualVars, leadVars>>
       \/ work = "scans" /\ Scan!Next /\ UNCHANGED <<vars, manualVars, cardVars>>

BackgroundSpec ==
    /\ BackgroundInit /\ [][BackgroundNext]_<<work, vars, manualVars, cardVars, leadVars>>
    /\ Fairness
    /\ Manual!Fairness
    /\ Assistant!Fairness
    /\ Scan!Fairness

(***************************************************************************)
(* The properties of the instances, by name.                               *)
(***************************************************************************)
\* ManualSend: a reply is posted once, whoever asks for it and however often,
\* is sent when there is proof of it, and over when its outcome is known.
HonestReplies ==
    Manual!TypeOK /\ Manual!OnePostPerReply /\ Manual!ConfirmedIsSent /\ Manual!OverIsKnown
\* ManualSend: nothing is posted beside a message whose outcome is open.
PostedAlone == Manual!PostedAlone
\* ManualSend: a reply that was taken up ends, unless a request died over it.
\* LeadScan: a campaign in discovery becomes ready, unless the task of a scan fails.
RequestsEnd == Manual!ReplyEnds /\ Scan!ScanEnds
\* Workflow: a card that waits for a delivery or a decision ends, paused or not.
BackgroundSettles == Assistant!BackgroundSettles
=============================================================================
