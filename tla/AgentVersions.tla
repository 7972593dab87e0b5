---------------------------- MODULE AgentVersions ----------------------------
(***************************************************************************)
(* The versions of one company assistant (modules/agents): a draft that is *)
(* edited through proposals, the version that customers talk to, and the   *)
(* history.  Every mutation locks the agent row and is one step; what an   *)
(* operator, an import, the builder model or a card read before, it read   *)
(* without the lock.                                                       *)
(*                                                                         *)
(* A configuration is a number, in the order of writing: 0 is the empty    *)
(* one.                                                                    *)
(***************************************************************************)
EXTENDS Naturals, Sequences, FiniteSets

CONSTANTS
    Operators,     \* tabs, cards and builder turns of the tenant's managers
    MaxVersions,   \* bound: versions of the agent
    MaxContents    \* bound: configurations written

BoundsAreNatural == MaxVersions \in Nat \ {0} /\ MaxContents \in Nat

VARIABLES
    versions,    \* agent_versions, by number: status, revision, configuration
    written,     \* configurations there are
    complete,    \* configurations that pass publishability_errors
    proposals,   \* agent_config_proposals
    desk,        \* what each operator read and is still working from
    test         \* a test session: the version, its revision, what answered

vars == <<versions, written, complete, proposals, desk, test>>

Statuses == {"draft", "testing", "live", "archived"}
Numbers == 1 .. Len(versions)
Of(status) == {v \in Numbers : versions[v].status = status}
HasDraft == Of("draft") # {}
Draft == CHOOSE v \in Of("draft") : TRUE
Lives == Of("live")
Contents == 0 .. written

EmptyDesk == [kind |-> "none"]
NoTest == [version |-> 0, rev |-> 0, started |-> 0, answers |-> {}]

\* A configuration is written.
Written == written + 1
Write(ok) ==
    /\ written < MaxContents
    /\ written' = Written
    /\ complete' = IF ok THEN complete \cup {Written} ELSE complete

Put(o, d) == desk' = [desk EXCEPT ![o] = d]

-----------------------------------------------------------------------------
\* create_agent gives every agent an empty draft.
Init ==
    /\ versions = <<[status |-> "draft", rev |-> 0, content |-> 0]>>
    /\ written = 0
    /\ complete = {}
    /\ proposals = {}
    /\ desk = [o \in Operators |-> EmptyDesk]
    /\ test = NoTest

\* create_draft: clones what is live, or else the latest version.
CreateDraft ==
    /\ ~HasDraft
    /\ Len(versions) < MaxVersions
    /\ LET base == IF Lives # {} THEN CHOOSE v \in Lives : TRUE ELSE Len(versions)
       IN versions' = Append(versions, [status |-> "draft", rev |-> 0,
                                        content |-> versions[base].content])
    /\ UNCHANGED <<written, complete, proposals, desk, test>>

\* The assistant panel loads the versions of the agent.
LoadDraft(o) ==
    /\ HasDraft /\ desk[o] = EmptyDesk
    /\ Put(o, [kind |-> "editor", rev |-> versions[Draft].rev])
    /\ UNCHANGED <<versions, written, complete, proposals, test>>

Close(o) ==
    /\ desk[o] # EmptyDesk
    /\ Put(o, EmptyDesk)
    /\ UNCHANGED <<versions, written, complete, proposals, test>>

\* update_draft: a client that sends the revision it loaded is held to it, and
\* one that sends none is not.
PatchDraft(o, ok) ==
    /\ desk[o].kind = "editor"
    /\ HasDraft
    /\ Write(ok)
    /\ versions' = [versions EXCEPT ![Draft].rev = @ + 1, ![Draft].content = Written]
    /\ Put(o, EmptyDesk)
    /\ UNCHANGED <<proposals, test>>

\* stage: a proposal for the draft there is, at the revision its author read.
Stage(rev, ok) ==
    /\ HasDraft /\ versions[Draft].rev = rev
    /\ Write(ok)
    /\ proposals' = proposals \cup
         {[version |-> Draft, base |-> rev, content |-> Written, status |-> "pending"]}

\* propose: the panel's form, from the draft it loaded.
Propose(o, ok) ==
    /\ desk[o].kind = "editor"
    /\ Stage(desk[o].rev, ok)
    /\ Put(o, EmptyDesk)
    /\ UNCHANGED <<versions, test>>

\* preview_import reads the draft that its rows are merged into, and stages the
\* result at the revision the panel had loaded.
ReadForImport(o) ==
    /\ desk[o].kind = "editor" /\ HasDraft
    /\ Put(o, [desk[o] EXCEPT !.kind = "import"])
    /\ UNCHANGED <<versions, written, complete, proposals, test>>

StageImport(o, ok) ==
    /\ desk[o].kind = "import"
    /\ Stage(desk[o].rev, ok)
    /\ Put(o, EmptyDesk)
    /\ UNCHANGED <<versions, test>>

\* A builder session belongs to the draft it was opened for (start_session), and
\* a turn of it reads that draft before it asks the model ...
AskBuilder(o) ==
    /\ HasDraft /\ desk[o] = EmptyDesk
    /\ Put(o, [kind |-> "builder", rev |-> versions[Draft].rev])
    /\ UNCHANGED <<versions, written, complete, proposals, test>>

\* ... and stages the patch of the answer at the revision it read.
BuilderAnswers(o, ok) ==
    /\ desk[o].kind = "builder"
    /\ Stage(desk[o].rev, ok)
    /\ Put(o, EmptyDesk)
    /\ UNCHANGED <<versions, test>>

Resolve(p, status) == proposals' = (proposals \ {p}) \cup {[p EXCEPT !.status = status]}

\* The draft is the one the proposal was staged for, unchanged.
OnTop(p) == HasDraft /\ p.version = Draft /\ versions[Draft].rev = p.base

\* decide; accepting saves the proposal as the draft (update_draft).
Accept(p) ==
    /\ p \in proposals /\ p.status = "pending"
    /\ OnTop(p)
    /\ Resolve(p, "accepted")
    /\ versions' = [versions EXCEPT ![Draft].rev = @ + 1, ![Draft].content = p.content]
    /\ UNCHANGED <<written, complete, desk, test>>

Reject(p) ==
    /\ p \in proposals /\ p.status = "pending"
    /\ Resolve(p, "rejected")
    /\ UNCHANGED <<versions, written, complete, desk, test>>

-----------------------------------------------------------------------------
(* Publication.                                                            *)

PromoteToTesting(v) ==
    /\ v \in Of("draft")
    /\ versions' = [versions EXCEPT ![v].status = "testing"]
    /\ UNCHANGED <<written, complete, proposals, desk, test>>

\* Faulty: the previous version stays live.
PublishedBeside(v) == [versions EXCEPT ![v].status = "live"]

\* What promote_to_live does to the rows: the previous live version is archived.
Published(v) ==
    [w \in Numbers |->
        IF w = v THEN [versions[w] EXCEPT !.status = "live"]
        ELSE IF w \in Lives THEN [versions[w] EXCEPT !.status = "archived"]
        ELSE versions[w]]

\* What rollback_to does: a new live row with the content of the target.
Restored(v) ==
    Append([w \in Numbers |-> IF w \in Lives THEN [versions[w] EXCEPT !.status = "archived"]
                              ELSE versions[w]],
           [status |-> "live", rev |-> 0, content |-> versions[v].content])

Publishable(v) == v \in Of("draft") \cup Of("testing") /\ versions[v].content \in complete

Restorable(v) == v \in Numbers /\ versions[v].content \in complete /\ Len(versions) < MaxVersions

PromoteToLive(v) ==
    /\ Publishable(v)
    /\ versions' = Published(v)
    /\ UNCHANGED <<written, complete, proposals, desk, test>>

RollbackTo(v) ==
    /\ Restorable(v)
    /\ versions' = Restored(v)
    /\ UNCHANGED <<written, complete, proposals, desk, test>>

\* The publish and rollback cards of the assistant (workflow_agents.prepare)
\* remember the version under review and the live one it would replace.
LiveNow == IF Lives = {} THEN 0 ELSE CHOOSE v \in Lives : TRUE
LiveContent == IF Lives = {} THEN 0 ELSE versions[LiveNow].content

Review(o, kind, v) ==
    /\ desk[o] = EmptyDesk
    /\ Put(o, [kind |-> kind, version |-> v, rev |-> versions[v].rev,
               content |-> versions[v].content, live |-> LiveNow, shown |-> LiveContent])
    /\ UNCHANGED <<versions, written, complete, proposals, test>>

ReviewPublish(o) == HasDraft /\ Review(o, "publish", Draft)
ReviewRollback(o, v) == v \in Lives \cup Of("archived") /\ Review(o, "rollback", v)

\* Faulty: what would be replaced is not compared.
VersionStillReviewed(d) == versions[d.version].rev = d.rev

\* complete: both are still what was reviewed.
StillReviewed(d) == versions[d.version].rev = d.rev /\ LiveNow = d.live

CompletePublish(o) ==
    /\ desk[o].kind = "publish"
    /\ StillReviewed(desk[o]) /\ Publishable(desk[o].version)
    /\ versions' = Published(desk[o].version)
    /\ Put(o, EmptyDesk)
    /\ UNCHANGED <<written, complete, proposals, test>>

CompleteRollback(o) ==
    /\ desk[o].kind = "rollback"
    /\ StillReviewed(desk[o]) /\ Restorable(desk[o].version)
    /\ versions' = Restored(desk[o].version)
    /\ Put(o, EmptyDesk)
    /\ UNCHANGED <<written, complete, proposals, test>>

-----------------------------------------------------------------------------
(* The customer test of a version.                                         *)

StartTest(v) ==
    /\ v \in Numbers /\ test = NoTest
    /\ test' = [version |-> v, rev |-> versions[v].rev, started |-> versions[v].content,
                answers |-> {}]
    /\ UNCHANGED <<versions, written, complete, proposals, desk>>

TestTurn ==
    /\ test # NoTest
    /\ versions[test.version].rev = test.rev
    /\ test' = [test EXCEPT !.answers = @ \cup {versions[test.version].content}]
    /\ UNCHANGED <<versions, written, complete, proposals, desk>>

-----------------------------------------------------------------------------
Work(o) ==
    \/ LoadDraft(o) \/ ReadForImport(o) \/ AskBuilder(o) \/ Close(o)
    \/ \E ok \in BOOLEAN : PatchDraft(o, ok) \/ Propose(o, ok) \/ StageImport(o, ok)
                           \/ BuilderAnswers(o, ok)
    \/ ReviewPublish(o) \/ CompletePublish(o) \/ CompleteRollback(o)
    \/ \E v \in Numbers : ReviewRollback(o, v)

Next ==
    \/ CreateDraft
    \/ \E o \in Operators : Work(o)
    \/ \E p \in proposals : Accept(p) \/ Reject(p)
    \/ \E v \in Numbers : PromoteToTesting(v) \/ PromoteToLive(v) \/ RollbackTo(v) \/ StartTest(v)
    \/ TestTurn

Spec == Init /\ [][Next]_vars

-----------------------------------------------------------------------------
(* Properties.                                                             *)

Row == [status : Statuses, rev : Nat, content : Nat]
Proposal == [version : Nat, base : Nat, content : Nat, status : {"pending", "accepted", "rejected"}]
Desk ==
    [kind : {"none"}] \cup [kind : {"editor", "import", "builder"}, rev : Nat]
    \cup [kind : {"publish", "rollback"}, version : Nat \ {0}, rev : Nat, content : Nat,
          live : Nat, shown : Nat]

\* Versions, configurations and proposals keep their shapes (agents/models.py),
\* and every row and review names a configuration and a version there is.
TypeOK ==
    /\ versions \in Seq(Row) /\ Len(versions) \in 1 .. MaxVersions
    /\ written \in 0 .. MaxContents /\ complete \subseteq 1 .. written
    /\ \A v \in Numbers : versions[v].content \in Contents
    /\ proposals \subseteq Proposal
    /\ desk \in [Operators -> Desk]
    /\ \A o \in Operators : desk[o].kind \in {"publish", "rollback"} =>
            desk[o].version \in Numbers
    /\ test \in [version : Nat, rev : Nat, started : Nat, answers : SUBSET Nat]
    /\ test.version \in 0 .. Len(versions)

\* An agent speaks with one voice and is edited in one place: whatever is
\* published, restored, opened or accepted at once, it has at most one live
\* version and one draft (get_live and get_draft raise when there are two).
OneLiveOneDraft ==
    \A v, w \in Numbers : versions[v].status = versions[w].status
                          /\ versions[v].status \in {"live", "draft"} => v = w

\* Customers never meet a partial configuration: by publication, restoration of
\* any version of the list or edits around them, what is live passed the check
\* (_require_publishable_company_config).
LiveIsComplete == \A v \in Lives : versions[v].content \in complete

\* "Never rewrites or resurrects the old row, so the full history is still there
\* afterward" (rollback_to): a row that was live keeps its content, and one that
\* was replaced never serves again.
HistoryKept ==
    [][\A v \in Numbers :
          /\ v \in DOMAIN versions'
          /\ versions[v].status \in {"live", "archived"} => versions'[v].content = versions[v].content
          /\ versions[v].status = "archived" => versions'[v].status = "archived"]_vars

\* A press of the card's button puts live what its preview showed, in place of
\* what its comparison showed, though others publish, restore and edit between.
PublishedAsReviewed ==
    [][\A o \in Operators :
          desk[o].kind \in {"publish", "rollback"} /\ desk'[o] # desk[o] /\ versions' # versions =>
              /\ LiveContent' = desk[o].content
              /\ LiveContent = desk[o].shown]_vars

\* What is accepted was proposed for the draft as it is at that moment: between
\* the staging of a proposal and its acceptance nothing else was saved there.
AcceptedOnTop ==
    [][\A p \in proposals : p.status = "pending" /\ p \notin proposals'
          /\ [p EXCEPT !.status = "accepted"] \in proposals' =>
             /\ p.version = Draft /\ versions[Draft].rev = p.base
             /\ versions'[Draft].content = p.content]_vars

\* The answers of a test session all come from the configuration it was started
\* with: an edit of the draft ends the session instead of changing its answers.
TestSpeaksForOne == test.answers \subseteq {test.started}

=============================================================================
