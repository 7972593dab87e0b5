------------------------------ MODULE Knowledge ------------------------------
(***************************************************************************)
(* How a company's agent comes to say what it says: its versions, the      *)
(* guided session in which a configuration is built, and the reply that is *)
(* made from the published one.                                            *)
(*                                                                         *)
(* A version carries whole configurations, the session and the reply the   *)
(* inside of one, so a behaviour is about one of them (part) and the       *)
(* others stay at their beginning.                                         *)
(***************************************************************************)
EXTENDS ConfigurationSession

CONSTANTS
    Catalogues, Texts, Topics, Intent, CueWords, SmallSpace, MaxRequests,  \* CompanyReply
    Operators, MaxVersions, MaxContents                           \* AgentVersions

VARIABLES
    part,   \* the part of the agent's knowledge that moves
    live, about, stageOfReply, msg, plan, turn,
    versions, written, complete, proposals, desk, test

replyVars == <<live, about, stageOfReply, msg, plan, turn>>
versionVars == <<versions, written, complete, proposals, desk, test>>

Reply == INSTANCE CompanyReply WITH stage <- stageOfReply
History == INSTANCE AgentVersions

ASSUME KnowledgeAssumptions == Reply!CatalogueAssumption /\ History!BoundsAreNatural

KnowledgeInit ==
    /\ part \in {"versions", "session", "reply"}
    /\ Init /\ Reply!Init /\ History!Init
    /\ part # "reply" => live = CHOOSE c \in Catalogues : TRUE

KnowledgeNext ==
    /\ UNCHANGED part
    /\ \/ part = "session" /\ Next /\ UNCHANGED <<replyVars, versionVars>>
       \/ part = "reply" /\ Reply!Next /\ UNCHANGED <<vars, versionVars>>
       \/ part = "versions" /\ History!Next /\ UNCHANGED <<vars, replyVars>>

KnowledgeSpec == KnowledgeInit /\ [][KnowledgeNext]_<<part, vars, replyVars, versionVars>>

(***************************************************************************)
(* The properties of the instances, by name.                               *)
(***************************************************************************)
\* ConfigurationSession: what was closed stays as it is, and a decision applies
\* at the step of its preview.
ReviewedSession == ClosedIsFrozen /\ AppliedWherePreviewed
\* CompanyReply: a reply is made of visible facts in the scope of the question,
\* prices and stock of their own category, and a question that names no product
\* is about the last ones.
GroundedReply ==
    Reply!TypeOK /\ Reply!EvidenceInScope /\ Reply!ProtectedByCategory /\ Reply!FollowUpKeepsSubject
\* CompanyReply: every need of a message is answered or said to be open.
NoNeedDropped == Reply!NoNeedDropped
\* AgentVersions: one version is live at most and one a draft, what is live is
\* whole, and a test speaks for one configuration.
OneVoice ==
    History!TypeOK /\ History!OneLiveOneDraft /\ History!LiveIsComplete /\ History!TestSpeaksForOne
\* AgentVersions: what is published is what was reviewed, what is accepted was
\* proposed for the draft as it is, and what was live is never rewritten.
ReviewedVersions ==
    History!PublishedAsReviewed /\ History!AcceptedOnTop /\ History!HistoryKept
=============================================================================
