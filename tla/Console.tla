------------------------------- MODULE Console -------------------------------
(***************************************************************************)
(* What the people of a company do in the web console: their accounts, the *)
(* session of one page, the chat with the assistant, and the turn that the *)
(* task runner makes of one message.                                       *)
(*                                                                         *)
(* The four share no row that one writes and another reads, so a behaviour *)
(* is about one of them (area) and the others stay at their beginning.     *)
(***************************************************************************)
EXTENDS Accounts

CONSTANTS
    Requests, MaxTokens, MaxFetches, MaxTimeouts,     \* SignIn
    Texts, MaxMessages, MaxPosts, MaxFaults,          \* OperatorChat
    GoalLists, Worlds, MaxSteps, MaxErrors, MaxPages, Room  \* TaskRunner

VARIABLES
    area,   \* the part of the console that moves
    active, tokens, expired, jar, reqs, fetches, cache, logout, ended, timeouts,
    written, attempts, tab, posts, answers, turns, front, preview, faults, denied,
    goals, world, steps, obs, refused, cut, phase, outcomes, cards

sessionVars == <<active, tokens, expired, jar, reqs, fetches, cache, logout, ended, timeouts>>
chatVars == <<written, attempts, tab, posts, answers, turns, front, preview, faults, denied>>
taskVars == <<goals, world, steps, obs, refused, cut, phase, outcomes, cards>>

Session == INSTANCE SignIn WITH MaxFaults <- MaxTimeouts, faults <- timeouts
Chat == INSTANCE OperatorChat WITH MaxCalls <- MaxPosts, calls <- posts, card <- front
Task == INSTANCE TaskRunner

ASSUME ConsoleAssumptions ==
    /\ Session!BoundsAreNatural
    /\ Chat!BoundsAreNatural /\ Chat!TextsAreMessages
    /\ Task!BoundsAreNatural /\ Task!TasksAreStored

ConsoleInit ==
    /\ area \in {"accounts", "session", "chat", "task"}
    /\ Init /\ Session!Init /\ Chat!Init /\ Task!Init
    /\ area # "chat" => ~preview
    /\ area # "task" => <<goals, world>> = CHOOSE t \in GoalLists \X Worlds : TRUE

ConsoleNext ==
    /\ UNCHANGED area
    /\ \/ /\ area = "accounts" /\ Next
          /\ UNCHANGED <<sessionVars, chatVars, taskVars>>
       \/ /\ area = "session" /\ Session!Next
          /\ UNCHANGED <<vars, chatVars, taskVars>>
       \/ /\ area = "chat" /\ Chat!Next
          /\ UNCHANGED <<vars, sessionVars, taskVars>>
       \/ /\ area = "task" /\ Task!Next
          /\ UNCHANGED <<vars, sessionVars, chatVars>>

ConsoleSpec ==
    ConsoleInit /\ [][ConsoleNext]_<<area, vars, sessionVars, chatVars, taskVars>>

(***************************************************************************)
(* The properties of the instances, by name.                               *)
(***************************************************************************)
\* SignIn: the API exchanges a refresh token once.
ExchangedOnce == Session!TypeOK /\ Session!ExchangedOnce
\* SignIn: no request of the page is signed out while its session is good.
PageStaysSignedIn == Session!PageStaysSignedIn
\* OperatorChat: a message is one turn of the chat, and kept until it is.
MessageOnce == Chat!MessageOnce /\ Chat!KeptUntilRecorded
\* OperatorChat: what a turn carries out was asked for in its words, and a bare
\* approval speaks of one thing only.
WordsDecide == Chat!TypeOK /\ Chat!AppliedInWords /\ Chat!ApprovalIsClear
\* TaskRunner: a task reported complete has all of its evidence, one reported
\* ready for review has its card, and the card is in front of the operator.
HonestTask ==
    Task!TypeOK /\ Task!CompletedIsWhole /\ Task!ReviewIsThere /\ Task!ReviewIsInFront
=============================================================================
