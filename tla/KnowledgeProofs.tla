--------------------------- MODULE KnowledgeProofs ---------------------------
(***************************************************************************)
(* What the agent's knowledge guarantees for any number of versions,       *)
(* configurations, operators, products, facts and modules.                 *)
(*                                                                         *)
(* The history of an agent (AgentVersions):                                *)
(*   AgentSpeaksOnce     one version is live and one is a draft at most,   *)
(*                       what is live is complete, and a test's answers    *)
(*                       are those of the version it was started on.       *)
(*   VersionsAsReviewed  a card publishes or restores what it showed, a    *)
(*                       proposal is accepted on the draft it was staged   *)
(*                       for, and what was live is never rewritten.        *)
(* The session that configures it (ConfigurationSession):                  *)
(*   FlowIsWellFormed    the compiled flow has every step once, a module   *)
(*                       after the registry that adds it, the review last. *)
(*   CompleteCanBeBuilt  a session that is complete has what is needed.    *)
(*   SessionAsReviewed   a scope that was closed stays as it is, and a     *)
(*                       decision applies at the step of its preview.      *)
(* What it says (CompanyReply):                                            *)
(*   RepliesAreGrounded  a reply is made of visible facts in the scope of  *)
(*                       the request and of the category of its intent.    *)
(*   NothingIsDropped    every request of a message is answered or said to *)
(*                       be open.                                          *)
(***************************************************************************)
EXTENDS Knowledge, FiniteSetTheorems, WellFoundedInduction, TLAPS

(* A review card remembers a version, which edits can only bring forward,  *)
(* and what was live, which nobody rewrites.                               *)
ReviewHolds(d) ==
  d.kind \in {"publish", "rollback"} =>
    /\ d.version \in History!Numbers /\ d.rev <= versions[d.version].rev
    /\ versions[d.version].rev = d.rev => versions[d.version].content = d.content
    /\ d.live \in 0 .. Len(versions)
    /\ d.live = 0 => d.shown = 0
    /\ d.live # 0 => versions[d.live].status \in {"live", "archived"} /\ versions[d.live].content = d.shown
ReviewsHold == \A o \in Operators : ReviewHolds(desk[o])

(* So does a test.                                                         *)
TestHolds ==
  /\ test.version = 0 => test = History!NoTest
  /\ test.version # 0 => /\ test.rev <= versions[test.version].rev
                         /\ versions[test.version].rev = test.rev => versions[test.version].content = test.started
  /\ test.answers \subseteq {test.started}

(* Each proposal wrote a configuration of its own.                         *)
ProposalsNamed ==
  /\ \A p \in proposals : p.content \in 1 .. written
  /\ \A p, q \in proposals : p.content = q.content => p = q

HistoryInv ==
  /\ History!TypeOK /\ History!OneLiveOneDraft /\ History!LiveIsComplete
  /\ ReviewsHold /\ TestHolds /\ ProposalsNamed
-----------------------------------------------------------------------------
LEMMA HistoryParts ==
  ASSUME History!TypeOK
  PROVE  /\ versions \in Seq(History!Row) /\ Len(versions) \in Nat /\ Len(versions) \in 1 .. MaxVersions
         /\ MaxVersions \in Nat /\ MaxContents \in Nat
         /\ DOMAIN versions = 1 .. Len(versions) /\ History!Numbers = 1 .. Len(versions)
         /\ \A v \in History!Numbers : versions[v] \in History!Row
         /\ \A v \in History!Numbers : versions[v].status \in History!Statuses /\ versions[v].rev \in Nat
                                       /\ versions[v].content \in 0 .. written
         /\ written \in Nat /\ written <= MaxContents
<1>1. MaxVersions \in Nat /\ MaxContents \in Nat
  BY KnowledgeAssumptions DEF History!BoundsAreNatural
<1>2. versions \in Seq(History!Row) /\ written \in 0 .. MaxContents
  BY DEF History!TypeOK
<1>3. Len(versions) \in Nat /\ DOMAIN versions = 1 .. Len(versions) /\ Len(versions) \in 1 .. MaxVersions
  BY <1>2 DEF History!TypeOK
<1>4. \A v \in 1 .. Len(versions) : versions[v] \in History!Row
  BY <1>2
<1>5. \A v \in 1 .. Len(versions) : versions[v].status \in History!Statuses /\ versions[v].rev \in Nat
  BY <1>4 DEF History!Row
<1> QED BY <1>1, <1>2, <1>3, <1>4, <1>5 DEF History!TypeOK, History!Numbers, History!Contents

LEMMA RowAt ==
  ASSUME NEW S, NEW s \in Seq(S), NEW i \in 1 .. Len(s), NEW x \in S
  PROVE  /\ [s EXCEPT ![i] = x] \in Seq(S) /\ Len([s EXCEPT ![i] = x]) = Len(s)
         /\ \A j \in 1 .. Len(s) : [s EXCEPT ![i] = x][j] = IF j = i THEN x ELSE s[j]
OBVIOUS

LEMMA DraftIs == History!HasDraft => History!Draft \in History!Numbers /\ versions[History!Draft].status = "draft"
<1>1. History!HasDraft => History!Draft \in History!Of("draft")
  BY DEF History!HasDraft, History!Draft
<1> QED BY <1>1 DEF History!Of

LEMMA LiveIs ==
  /\ History!Lives = {} => History!LiveNow = 0 /\ History!LiveContent = 0
  /\ History!Lives # {} => /\ History!LiveNow \in History!Numbers /\ versions[History!LiveNow].status = "live"
                           /\ History!LiveContent = versions[History!LiveNow].content
<1>1. History!Lives # {} => (CHOOSE v \in History!Lives : TRUE) \in History!Lives
  OBVIOUS
<1> QED BY <1>1 DEF History!LiveNow, History!LiveContent, History!Lives, History!Of

(* A row moves forward: its revision counts the edits, and once it was     *)
(* live nobody edits it.                                                   *)
Forward(v) ==
  /\ versions[v].rev <= versions'[v].rev
  /\ versions'[v].rev = versions[v].rev => versions'[v].content = versions[v].content
  /\ versions[v].status \in {"live", "archived"} =>
       versions'[v].content = versions[v].content /\ versions'[v].status \in {"live", "archived"}
  /\ versions[v].status = "archived" => versions'[v].status = "archived"
Grows ==
  /\ versions' \in Seq(History!Row) /\ Len(versions') \in Len(versions) .. MaxVersions
  /\ \A v \in 1 .. Len(versions') : versions'[v].content \in 0 .. written'
  /\ \A v \in History!Numbers : Forward(v)

LEMMA RowsStay ==
  ASSUME History!TypeOK, UNCHANGED versions, written' \in Nat, written <= written'
  PROVE  Grows
BY HistoryParts DEF Grows, Forward, History!Statuses

(* An edit of the draft.                                                   *)
LEMMA EditGrows ==
  ASSUME HistoryInv, History!HasDraft, NEW c \in 0 .. written', written' \in Nat, written <= written',
         complete \subseteq complete',
         versions' = [versions EXCEPT ![History!Draft].rev = @ + 1, ![History!Draft].content = c]
  PROVE  Grows /\ History!OneLiveOneDraft' /\ History!LiveIsComplete' /\ versions'[History!Draft].content = c
<1> DEFINE d == History!Draft
           first == [versions[d] EXCEPT !.rev = @ + 1]
           once == [versions EXCEPT ![d] = first]
           new == [first EXCEPT !.content = c]
<1>1. d \in History!Numbers /\ versions[d].status = "draft" /\ versions[d] \in History!Row /\ versions[d].rev \in Nat
  BY DraftIs, HistoryParts DEF HistoryInv
<1>2. new \in History!Row /\ new.status = "draft" /\ new.rev = versions[d].rev + 1 /\ new.content = c
  <2>1. first \in History!Row /\ first.status = "draft" /\ first.rev = versions[d].rev + 1
    BY <1>1 DEF History!Row
  <2>2. c \in Nat
    OBVIOUS
  <2> HIDE DEF first
  <2> QED BY <2>1, <2>2 DEF History!Row
<1>3. versions' = [once EXCEPT ![d] = [once[d] EXCEPT !.content = c]]
  OBVIOUS
<1> HIDE DEF d, first
<1>4. once[d] = first
  BY <1>1, HistoryParts DEF HistoryInv
<1>5. versions' = [once EXCEPT ![d] = new]
  BY <1>3, <1>4
<1> HIDE DEF new
<1>6. versions' = [versions EXCEPT ![d] = new]
  BY <1>5
<1> HIDE DEF once
<1>7. /\ versions' \in Seq(History!Row) /\ Len(versions') = Len(versions)
      /\ \A v \in History!Numbers : versions'[v] = IF v = d THEN new ELSE versions[v]
  <2>1. versions \in Seq(History!Row) /\ d \in 1 .. Len(versions) /\ History!Numbers = 1 .. Len(versions)
    BY <1>1, HistoryParts DEF HistoryInv
  <2>2. new \in History!Row
    BY <1>2
  <2> DEFINE after == [versions EXCEPT ![d] = new]
  <2>3. /\ after \in Seq(History!Row) /\ Len(after) = Len(versions)
        /\ \A v \in 1 .. Len(versions) : after[v] = IF v = d THEN new ELSE versions[v]
    BY <2>1, <2>2, RowAt
  <2>4. versions' = after
    BY <1>6
  <2> HIDE DEF after
  <2> QED BY <2>1, <2>3, <2>4
<1>8. Grows
  <2>1. \A v \in History!Numbers : versions'[v].content \in 0 .. written'
    BY <1>2, <1>7, HistoryParts DEF HistoryInv
  <2>2. \A v \in History!Numbers : Forward(v)
    BY SMTT(20), <1>1, <1>2, <1>7, HistoryParts DEF HistoryInv, Forward
  <2> QED BY <1>7, <2>1, <2>2, HistoryParts DEF HistoryInv, Grows
<1>9. History!OneLiveOneDraft'
  BY <1>1, <1>2, <1>7, HistoryParts DEF HistoryInv, History!OneLiveOneDraft, History!Numbers
<1>10. History!LiveIsComplete'
  BY <1>1, <1>2, <1>7, HistoryParts DEF HistoryInv, History!LiveIsComplete, History!Lives, History!Of, History!Numbers
<1> QED BY <1>1, <1>2, <1>7, <1>8, <1>9, <1>10 DEF d

(* A new row.                                                              *)
LEMMA AppendGrows ==
  ASSUME HistoryInv, Len(versions) < MaxVersions, UNCHANGED <<written, complete>>,
         NEW rows \in Seq(History!Row), Len(rows) = Len(versions),
         \A v \in History!Numbers :
           /\ rows[v].rev = versions[v].rev /\ rows[v].content = versions[v].content
           /\ \/ rows[v].status = versions[v].status
              \/ versions[v].status = "live" /\ rows[v].status = "archived",
         NEW row \in History!Row, row.content \in 0 .. written, versions' = Append(rows, row)
  PROVE  /\ Grows /\ Len(versions') = Len(versions) + 1 /\ versions'[Len(versions) + 1] = row
         /\ \A v \in History!Numbers : versions'[v] = rows[v]
<1>1. /\ versions' \in Seq(History!Row) /\ Len(versions') = Len(versions) + 1
      /\ versions'[Len(versions) + 1] = row /\ \A v \in History!Numbers : versions'[v] = rows[v]
  BY HistoryParts DEF HistoryInv
<1>2. \A v \in History!Numbers : Forward(v)
  BY <1>1, HistoryParts DEF HistoryInv, Forward
<1>3. \A v \in 1 .. Len(versions') : versions'[v].content \in 0 .. written'
  BY <1>1, HistoryParts DEF HistoryInv
<1> QED BY <1>1, <1>2, <1>3, HistoryParts DEF HistoryInv, Grows

LEMMA GrowsParts ==
  ASSUME HistoryInv, Grows
  PROVE  \A v \in History!Numbers : versions[v].rev \in Nat /\ versions'[v].rev \in Nat
<1> SUFFICES ASSUME NEW v \in History!Numbers PROVE versions[v].rev \in Nat /\ versions'[v].rev \in Nat
  OBVIOUS
<1>1. v \in 1 .. Len(versions') /\ versions' \in Seq(History!Row)
  BY HistoryParts DEF HistoryInv, Grows
<1>2. versions'[v] \in History!Row /\ versions[v] \in History!Row
  BY <1>1, HistoryParts DEF HistoryInv
<1> QED BY <1>2 DEF History!Row

(* What every step keeps when the rows only move forward.                  *)
LEMMA TestStays ==
  ASSUME HistoryInv, Grows, UNCHANGED test
  PROVE  TestHolds'
<1>1. test.version # 0 => test.version \in History!Numbers /\ test.rev \in Nat
  BY HistoryParts DEF HistoryInv, History!TypeOK
<1>2. test.version # 0 => versions[test.version].rev \in Nat /\ versions'[test.version].rev \in Nat
  BY <1>1, GrowsParts
<1>3. test.version # 0 => Forward(test.version)
  BY <1>1 DEF Grows
<1> QED BY <1>1, <1>2, <1>3 DEF HistoryInv, TestHolds, Forward, History!NoTest

LEMMA ReviewStays ==
  ASSUME HistoryInv, Grows, NEW o \in Operators, desk'[o] = desk[o]
  PROVE  ReviewHolds(desk[o])'
<1> DEFINE d == desk[o]
<1> SUFFICES ASSUME d.kind \in {"publish", "rollback"} PROVE ReviewHolds(desk[o])'
  BY DEF ReviewHolds
<1>1. d \in History!Desk /\ ReviewHolds(d)
  BY DEF HistoryInv, History!TypeOK, ReviewsHold
<1>2. d.rev \in Nat /\ d.version \in History!Numbers /\ d.live \in 0 .. Len(versions)
  BY <1>1 DEF History!Desk, ReviewHolds
<1>3. Forward(d.version) /\ (d.live # 0 => Forward(d.live))
  BY <1>2, HistoryParts DEF Grows, HistoryInv
<1>4. versions[d.version].rev \in Nat /\ versions'[d.version].rev \in Nat
  BY <1>2, GrowsParts
<1>5. Len(versions) \in Nat /\ Len(versions') \in Nat /\ Len(versions) <= Len(versions')
  BY HistoryParts DEF HistoryInv, Grows
<1> HIDE DEF d
<1>6. /\ d.version \in History!Numbers' /\ d.rev <= versions'[d.version].rev
      /\ versions'[d.version].rev = d.rev => versions'[d.version].content = d.content
  BY <1>1, <1>2, <1>3, <1>4, <1>5 DEF ReviewHolds, Forward, History!Numbers, d
<1>7. /\ d.live \in 0 .. Len(versions')
      /\ d.live = 0 => d.shown = 0
      /\ d.live # 0 => versions'[d.live].status \in {"live", "archived"} /\ versions'[d.live].content = d.shown
  BY <1>1, <1>2, <1>3, <1>5 DEF ReviewHolds, Forward, d
<1> QED BY <1>6, <1>7 DEF ReviewHolds, d

LEMMA HistoryStays ==
  ASSUME HistoryInv, Grows, History!OneLiveOneDraft', History!LiveIsComplete',
         written' \in 0 .. MaxContents, written <= written', complete' \subseteq 1 .. written',
         UNCHANGED test, proposals' \subseteq History!Proposal, ProposalsNamed',
         desk' \in [Operators -> History!Desk],
         \A o \in Operators : desk'[o] = desk[o] \/ (ReviewHolds(desk[o])' /\ desk'[o].kind \in {"publish", "rollback"})
                                \/ desk'[o].kind \notin {"publish", "rollback"}
  PROVE  HistoryInv'
<1>1. ReviewsHold'
  BY ReviewStays DEF ReviewsHold, ReviewHolds
<1>2. Len(versions) \in Nat /\ Len(versions) \in 1 .. MaxVersions
  BY HistoryParts DEF HistoryInv
<1>3. History!TypeOK'
  <2>1. /\ versions' \in Seq(History!Row) /\ Len(versions') \in 1 .. MaxVersions /\ Len(versions') \in Nat
        /\ \A v \in 1 .. Len(versions') : versions'[v].content \in 0 .. written'
    BY <1>2 DEF Grows
  <2>2. test' \in [version : Nat, rev : Nat, started : Nat, answers : SUBSET Nat] /\ test'.version \in 0 .. Len(versions')
    BY <1>2 DEF HistoryInv, History!TypeOK, Grows
  <2>3. \A o \in Operators : desk'[o].kind \in {"publish", "rollback"} => desk'[o].version \in History!Numbers'
    BY <1>1 DEF ReviewsHold, ReviewHolds
  <2> QED BY <2>1, <2>2, <2>3 DEF History!TypeOK, History!Numbers, History!Contents
<1> QED BY <1>1, <1>3, TestStays DEF HistoryInv

LEMMA DeskTakes ==
  ASSUME HistoryInv, NEW o \in Operators, NEW d \in History!Desk, History!Put(o, d)
  PROVE  /\ desk' \in [Operators -> History!Desk] /\ desk'[o] = d
         /\ \A p \in Operators : p # o => desk'[p] = desk[p]
BY DEF HistoryInv, History!TypeOK, History!Put

LEMMA EmptyIsDesk == History!EmptyDesk \in History!Desk /\ History!EmptyDesk.kind = "none"
BY DEF History!EmptyDesk, History!Desk

(* A configuration is written.                                             *)
LEMMA WriteGrows ==
  ASSUME HistoryInv, NEW ok \in BOOLEAN, History!Write(ok)
  PROVE  /\ written' = written + 1 /\ written' \in 0 .. MaxContents /\ written' \in Nat /\ written <= written'
         /\ complete \subseteq complete' /\ complete' \subseteq 1 .. written' /\ written' \in 0 .. written'
<1>1. written \in Nat /\ written < MaxContents /\ MaxContents \in Nat /\ complete \subseteq 1 .. written
  BY HistoryParts DEF HistoryInv, History!Write, History!TypeOK
<1>2. written' = written + 1 /\ complete' \in {complete, complete \cup {written + 1}}
  BY DEF History!Write, History!Written
<1> QED BY <1>1, <1>2

(* A proposal is staged.                                                   *)
LEMMA StageHolds ==
  ASSUME HistoryInv, NEW ok \in BOOLEAN, NEW rev \in Nat, NEW o \in Operators,
         History!Stage(rev, ok), History!Put(o, History!EmptyDesk), UNCHANGED <<versions, test>>
  PROVE  HistoryInv'
<1> DEFINE new == [version |-> History!Draft, base |-> rev, content |-> History!Written, status |-> "pending"]
<1>1. History!Write(ok) /\ History!HasDraft /\ proposals' = proposals \cup {new}
  BY DEF History!Stage
<1>2. History!Draft \in Nat
  BY <1>1, DraftIs, HistoryParts DEF HistoryInv
<1>3. new \in History!Proposal /\ new.content = written + 1
  BY <1>2, HistoryParts DEF HistoryInv, History!Proposal, History!Written
<1> HIDE DEF new
<1>4. proposals' \subseteq History!Proposal
  BY <1>1, <1>3 DEF HistoryInv, History!TypeOK
<1>5. ProposalsNamed'
  BY <1>1, <1>3, WriteGrows, HistoryParts DEF HistoryInv, ProposalsNamed
<1>6. Grows
  BY <1>1, WriteGrows, RowsStay DEF HistoryInv
<1>7. History!OneLiveOneDraft' /\ History!LiveIsComplete'
  BY <1>1, WriteGrows DEF HistoryInv, History!OneLiveOneDraft, History!LiveIsComplete, History!Lives, History!Of, History!Numbers
<1> QED BY <1>1, <1>4, <1>5, <1>6, <1>7, WriteGrows, DeskTakes, EmptyIsDesk, HistoryStays

(* Only a desk changes.                                                    *)
LEMMA DeskHolds ==
  ASSUME HistoryInv, NEW o \in Operators, NEW d \in History!Desk, History!Put(o, d),
         UNCHANGED <<versions, written, complete, proposals, test>>,
         d.kind \in {"publish", "rollback"} => ReviewHolds(d)
  PROVE  HistoryInv'
<1>1. Grows
  BY HistoryParts, RowsStay DEF HistoryInv
<1>2. /\ History!OneLiveOneDraft' /\ History!LiveIsComplete' /\ ProposalsNamed'
      /\ proposals' \subseteq History!Proposal /\ complete' \subseteq 1 .. written'
      /\ written' \in 0 .. MaxContents /\ written <= written'
  BY HistoryParts DEF HistoryInv, History!OneLiveOneDraft, History!LiveIsComplete, History!Lives, History!Of, History!Numbers,
                      ProposalsNamed, History!TypeOK
<1>3. ReviewHolds(d) => ReviewHolds(desk[o])'
  BY DeskTakes DEF ReviewHolds, History!Numbers
<1> QED BY <1>1, <1>2, <1>3, DeskTakes, HistoryStays

(* What a publication and a restoration do to the rows.                    *)
LEMMA LiveThen ==
  ASSUME HistoryInv, Grows, NEW v \in 1 .. Len(versions'),
         versions'[v].status = "live", \A w \in 1 .. Len(versions') : w # v => versions'[w].status # "live"
  PROVE  History!LiveContent' = versions'[v].content
<1>1. History!Lives' = {v}
  BY DEF History!Lives, History!Of, History!Numbers
<1>2. \A w \in {v} : w = v
  OBVIOUS
<1> QED BY <1>1, <1>2 DEF History!LiveContent, History!LiveNow

LEMMA PublishGrows ==
  ASSUME HistoryInv, NEW v, History!Publishable(v), versions' = History!Published(v), UNCHANGED <<written, complete>>
  PROVE  /\ Grows /\ History!OneLiveOneDraft' /\ History!LiveIsComplete'
         /\ History!LiveContent' = versions[v].content
<1> DEFINE risen == [versions[v] EXCEPT !.status = "live"]
           gone(w) == [versions[w] EXCEPT !.status = "archived"]
<1>1. v \in History!Numbers /\ versions[v].status \in {"draft", "testing"} /\ versions[v].content \in complete
  BY DEF History!Publishable, History!Of
<1>2. /\ risen \in History!Row /\ risen.status = "live" /\ risen.rev = versions[v].rev /\ risen.content = versions[v].content
      /\ \A w \in History!Numbers : /\ gone(w) \in History!Row /\ gone(w).status = "archived"
                                    /\ gone(w).rev = versions[w].rev /\ gone(w).content = versions[w].content
  <2>1. \A r \in History!Row : /\ [r EXCEPT !.status = "live"] \in History!Row
                               /\ [r EXCEPT !.status = "live"].status = "live"
                               /\ [r EXCEPT !.status = "live"].rev = r.rev /\ [r EXCEPT !.status = "live"].content = r.content
    BY DEF History!Row, History!Statuses
  <2>2. \A r \in History!Row : /\ [r EXCEPT !.status = "archived"] \in History!Row
                               /\ [r EXCEPT !.status = "archived"].status = "archived"
                               /\ [r EXCEPT !.status = "archived"].rev = r.rev /\ [r EXCEPT !.status = "archived"].content = r.content
    BY DEF History!Row, History!Statuses
  <2> QED BY <1>1, <2>1, <2>2, HistoryParts DEF HistoryInv
<1>3. versions' = [w \in History!Numbers |-> IF w = v THEN risen ELSE IF w \in History!Lives THEN gone(w) ELSE versions[w]]
  BY DEF History!Published
<1> HIDE DEF risen, gone
<1>4. History!Numbers = 1 .. Len(versions) /\ Len(versions) \in Nat /\ Len(versions) \in 1 .. MaxVersions
      /\ \A w \in History!Numbers : versions[w] \in History!Row
  BY HistoryParts DEF HistoryInv
<1>5. versions' \in Seq(History!Row) /\ Len(versions') = Len(versions)
  BY <1>2, <1>3, <1>4
<1>6. \A w \in History!Numbers : versions'[w] = IF w = v THEN risen ELSE IF versions[w].status = "live" THEN gone(w) ELSE versions[w]
  BY <1>3 DEF History!Lives, History!Of
<1>7. \A w \in History!Numbers : /\ versions'[w].content = versions[w].content /\ versions'[w].rev = versions[w].rev
                                 /\ versions'[w].status = IF w = v THEN "live"
                                                          ELSE IF versions[w].status = "live" THEN "archived"
                                                          ELSE versions[w].status
  BY <1>2, <1>6
<1> HIDE DEF History!Published
<1>8. Grows
  <2>1. \A w \in History!Numbers : Forward(w)
    BY <1>1, <1>7, HistoryParts DEF HistoryInv, Forward
  <2>2. \A w \in 1 .. Len(versions') : versions'[w].content \in 0 .. written'
    BY <1>4, <1>5, <1>7, HistoryParts DEF HistoryInv
  <2> QED BY <1>4, <1>5, <2>1, <2>2 DEF Grows
<1>9. History!OneLiveOneDraft'
  BY <1>4, <1>5, <1>7 DEF HistoryInv, History!OneLiveOneDraft, History!Numbers
<1>10. History!LiveIsComplete'
  BY <1>1, <1>4, <1>5, <1>7 DEF History!LiveIsComplete, History!Lives, History!Of, History!Numbers
<1>11. History!LiveContent' = versions[v].content
  BY <1>1, <1>4, <1>5, <1>7, <1>8, LiveThen
<1> QED BY <1>8, <1>9, <1>10, <1>11

LEMMA RestoreGrows ==
  ASSUME HistoryInv, NEW v, History!Restorable(v), versions' = History!Restored(v), UNCHANGED <<written, complete>>
  PROVE  /\ Grows /\ History!OneLiveOneDraft' /\ History!LiveIsComplete'
         /\ History!LiveContent' = versions[v].content
<1> DEFINE gone(w) == [versions[w] EXCEPT !.status = "archived"]
           rows == [w \in History!Numbers |-> IF w \in History!Lives THEN gone(w) ELSE versions[w]]
           row == [status |-> "live", rev |-> 0, content |-> versions[v].content]
           N == Len(versions)
<1>1. v \in History!Numbers /\ versions[v].content \in complete /\ N < MaxVersions
  BY DEF History!Restorable
<1>2. \A w \in History!Numbers : /\ gone(w) \in History!Row /\ gone(w).status = "archived"
                                 /\ gone(w).rev = versions[w].rev /\ gone(w).content = versions[w].content
  <2>1. \A r \in History!Row : /\ [r EXCEPT !.status = "archived"] \in History!Row
                               /\ [r EXCEPT !.status = "archived"].status = "archived"
                               /\ [r EXCEPT !.status = "archived"].rev = r.rev /\ [r EXCEPT !.status = "archived"].content = r.content
    BY DEF History!Row, History!Statuses
  <2> QED BY <2>1, HistoryParts DEF HistoryInv
<1>3. versions' = Append(rows, row)
  BY DEF History!Restored
<1>4. History!Numbers = 1 .. N /\ N \in Nat /\ \A w \in History!Numbers : versions[w] \in History!Row
  BY HistoryParts DEF HistoryInv
<1>5. /\ row \in History!Row /\ row.content \in 0 .. written /\ row.status = "live" /\ row.content = versions[v].content
  BY <1>1, HistoryParts DEF HistoryInv, History!Row, History!Statuses
<1> HIDE DEF row, gone, N
<1>6. rows \in Seq(History!Row) /\ Len(rows) = N
  BY <1>2, <1>4
<1>7. \A w \in History!Numbers : rows[w] = IF versions[w].status = "live" THEN gone(w) ELSE versions[w]
  BY DEF History!Lives, History!Of
<1>8. \A w \in History!Numbers : /\ rows[w].content = versions[w].content /\ rows[w].rev = versions[w].rev
                                 /\ rows[w].status = IF versions[w].status = "live" THEN "archived" ELSE versions[w].status
  BY <1>2, <1>7
<1> HIDE DEF rows
<1>9. /\ Grows /\ Len(versions') = N + 1 /\ versions'[N + 1] = row
      /\ \A w \in History!Numbers : versions'[w] = rows[w]
  <2>1. \A w \in History!Numbers : \/ rows[w].status = versions[w].status
                                   \/ versions[w].status = "live" /\ rows[w].status = "archived"
    BY <1>8
  <2> QED BY <1>1, <1>3, <1>5, <1>6, <1>8, <2>1, AppendGrows DEF N
<1>10. \A w \in 1 .. N + 1 : w # N + 1 => w \in History!Numbers /\ versions'[w].status = rows[w].status
  BY <1>4, <1>9
<1>11. History!OneLiveOneDraft'
  BY <1>4, <1>5, <1>8, <1>9, <1>10 DEF HistoryInv, History!OneLiveOneDraft, History!Numbers
<1>12. History!LiveIsComplete'
  BY <1>1, <1>4, <1>5, <1>8, <1>9, <1>10 DEF History!LiveIsComplete, History!Lives, History!Of, History!Numbers
<1>13. History!LiveContent' = versions[v].content
  <2>1. N + 1 \in 1 .. Len(versions') /\ versions'[N + 1].status = "live" /\ versions'[N + 1].content = versions[v].content
    BY <1>4, <1>5, <1>9
  <2>2. \A w \in 1 .. Len(versions') : w # N + 1 => versions'[w].status # "live"
    BY <1>8, <1>9, <1>10
  <2> QED BY <1>9, <2>1, <2>2, LiveThen
<1> QED BY <1>9, <1>11, <1>12, <1>13

(* Only the rows change.                                                   *)
LEMMA RowsHold ==
  ASSUME HistoryInv, Grows, History!OneLiveOneDraft', History!LiveIsComplete',
         UNCHANGED <<written, complete, proposals, test>>,
         desk' = desk \/ \E o \in Operators : History!Put(o, History!EmptyDesk)
  PROVE  HistoryInv'
<1>1. /\ ProposalsNamed' /\ proposals' \subseteq History!Proposal /\ complete' \subseteq 1 .. written'
      /\ written' \in 0 .. MaxContents /\ written <= written'
  BY HistoryParts DEF HistoryInv, ProposalsNamed, History!TypeOK
<1>2. desk' \in [Operators -> History!Desk]
  BY DeskTakes, EmptyIsDesk DEF HistoryInv, History!TypeOK
<1>3. \A o \in Operators : desk'[o] = desk[o] \/ desk'[o].kind \notin {"publish", "rollback"}
  BY DeskTakes, EmptyIsDesk
<1> QED BY <1>1, <1>2, <1>3, HistoryStays

LEMMA CreateDraftHolds ==
  ASSUME HistoryInv, History!CreateDraft
  PROVE  HistoryInv' /\ Grows
<1> DEFINE base == IF History!Lives # {} THEN CHOOSE v \in History!Lives : TRUE ELSE Len(versions)
           row == [status |-> "draft", rev |-> 0, content |-> versions[base].content]
<1>1. /\ ~History!HasDraft /\ Len(versions) < MaxVersions /\ versions' = Append(versions, row)
      /\ UNCHANGED <<written, complete, proposals, desk, test>>
  BY DEF History!CreateDraft
<1>2. base \in History!Numbers
  <2>1. History!Lives # {} => (CHOOSE v \in History!Lives : TRUE) \in History!Lives
    OBVIOUS
  <2> QED BY <2>1, HistoryParts DEF HistoryInv, History!Lives, History!Of
<1> HIDE DEF base
<1>3. row \in History!Row /\ row.content \in 0 .. written /\ row.status = "draft"
  BY <1>2, HistoryParts DEF HistoryInv, History!Row, History!Statuses
<1> HIDE DEF row
<1>4. /\ Grows /\ Len(versions') = Len(versions) + 1 /\ versions'[Len(versions) + 1] = row
      /\ \A v \in History!Numbers : versions'[v] = versions[v]
  BY <1>1, <1>3, HistoryParts, AppendGrows DEF HistoryInv
<1>5. \A v \in History!Numbers : versions[v].status # "draft"
  BY <1>1 DEF History!HasDraft, History!Of
<1>6. History!OneLiveOneDraft' /\ History!LiveIsComplete'
  BY <1>1, <1>3, <1>4, <1>5, HistoryParts
     DEF HistoryInv, History!OneLiveOneDraft, History!LiveIsComplete, History!Lives, History!Of, History!Numbers
<1> QED BY <1>1, <1>4, <1>6, RowsHold

LEMMA PatchHolds ==
  ASSUME HistoryInv, NEW o \in Operators, NEW ok \in BOOLEAN, History!PatchDraft(o, ok)
  PROVE  HistoryInv' /\ Grows
<1>1. /\ History!HasDraft /\ History!Write(ok) /\ History!Put(o, History!EmptyDesk) /\ UNCHANGED <<proposals, test>>
      /\ versions' = [versions EXCEPT ![History!Draft].rev = @ + 1, ![History!Draft].content = written']
  BY WriteGrows DEF History!PatchDraft, History!Written
<1>2. Grows /\ History!OneLiveOneDraft' /\ History!LiveIsComplete'
  BY <1>1, WriteGrows, EditGrows
<1>3. ProposalsNamed' /\ proposals' \subseteq History!Proposal
  BY SMTT(20), <1>1, WriteGrows, HistoryParts DEF HistoryInv, ProposalsNamed, History!TypeOK
<1> QED BY <1>1, <1>2, <1>3, WriteGrows, DeskTakes, EmptyIsDesk, HistoryStays

(* A proposal is decided.                                                  *)
LEMMA ResolveNames ==
  ASSUME HistoryInv, NEW p \in proposals, NEW status \in {"accepted", "rejected"}, History!Resolve(p, status),
         UNCHANGED written
  PROVE  ProposalsNamed' /\ proposals' \subseteq History!Proposal
<1> DEFINE q == [p EXCEPT !.status = status]
<1>1. p \in History!Proposal /\ proposals' = (proposals \ {p}) \cup {q}
  BY DEF HistoryInv, History!TypeOK, History!Resolve
<1>2. q \in History!Proposal /\ q.content = p.content
  BY <1>1 DEF History!Proposal
<1> HIDE DEF q
<1>3. proposals' \subseteq History!Proposal
  BY <1>1, <1>2 DEF HistoryInv, History!TypeOK
<1>4. \A r \in proposals' : r.content \in 1 .. written'
  BY <1>1, <1>2 DEF HistoryInv, ProposalsNamed
<1>5. ASSUME NEW r \in proposals', NEW s \in proposals', r.content = s.content PROVE r = s
  BY <1>1, <1>2, <1>5 DEF HistoryInv, ProposalsNamed
<1> QED BY <1>3, <1>4, <1>5 DEF ProposalsNamed

LEMMA AcceptHolds ==
  ASSUME HistoryInv, NEW p \in proposals, History!Accept(p)
  PROVE  HistoryInv' /\ Grows /\ History!OnTop(p) /\ versions'[History!Draft].content = p.content
<1>1. /\ History!OnTop(p) /\ History!HasDraft /\ History!Resolve(p, "accepted")
      /\ UNCHANGED <<written, complete, desk, test>>
      /\ versions' = [versions EXCEPT ![History!Draft].rev = @ + 1, ![History!Draft].content = p.content]
  BY DEF History!Accept, History!OnTop
<1>2. p.content \in 0 .. written' /\ written' \in Nat /\ written <= written'
  BY <1>1, HistoryParts DEF HistoryInv, ProposalsNamed
<1>3. Grows /\ History!OneLiveOneDraft' /\ History!LiveIsComplete' /\ versions'[History!Draft].content = p.content
  BY <1>1, <1>2, EditGrows
<1>4. complete' \subseteq 1 .. written' /\ desk' \in [Operators -> History!Desk] /\ written' \in 0 .. MaxContents
  BY <1>1 DEF HistoryInv, History!TypeOK
<1> QED BY <1>1, <1>2, <1>3, <1>4, ResolveNames, HistoryStays

LEMMA RejectHolds ==
  ASSUME HistoryInv, NEW p \in proposals, History!Reject(p)
  PROVE  HistoryInv' /\ Grows
<1>1. History!Resolve(p, "rejected") /\ UNCHANGED <<versions, written, complete, desk, test>>
  BY DEF History!Reject
<1>2. Grows
  BY <1>1, HistoryParts, RowsStay DEF HistoryInv
<1>3. History!OneLiveOneDraft' /\ History!LiveIsComplete' /\ complete' \subseteq 1 .. written'
      /\ desk' \in [Operators -> History!Desk] /\ written' \in 0 .. MaxContents /\ written <= written'
  BY <1>1, HistoryParts DEF HistoryInv, History!OneLiveOneDraft, History!LiveIsComplete, History!Lives, History!Of, History!Numbers, History!TypeOK
<1> QED BY <1>1, <1>2, <1>3, ResolveNames, HistoryStays

LEMMA PromoteToTestingHolds ==
  ASSUME HistoryInv, NEW v \in History!Numbers, History!PromoteToTesting(v)
  PROVE  HistoryInv' /\ Grows
<1> DEFINE row == [versions[v] EXCEPT !.status = "testing"]
           after == [versions EXCEPT ![v] = row]
<1>1. versions[v].status = "draft" /\ versions' = after /\ UNCHANGED <<written, complete, proposals, desk, test>>
  BY DEF History!PromoteToTesting, History!Of
<1>2. versions \in Seq(History!Row) /\ v \in 1 .. Len(versions) /\ versions[v] \in History!Row
  BY HistoryParts DEF HistoryInv
<1>3. row \in History!Row /\ row.status = "testing" /\ row.rev = versions[v].rev /\ row.content = versions[v].content
  BY <1>2 DEF History!Row, History!Statuses
<1> HIDE DEF row
<1>4. /\ after \in Seq(History!Row) /\ Len(after) = Len(versions)
      /\ \A w \in 1 .. Len(versions) : after[w] = IF w = v THEN row ELSE versions[w]
  BY <1>2, <1>3, RowAt
<1> HIDE DEF after
<1>5. \A w \in 1 .. Len(versions) : Forward(w)
  BY SMTT(20), <1>1, <1>3, <1>4, HistoryParts DEF HistoryInv, Forward
<1>6. Grows
  <2>1. \A w \in 1 .. Len(versions) : versions'[w].content = versions[w].content
    BY <1>1, <1>3, <1>4
  <2>2. versions' \in Seq(History!Row) /\ Len(versions') = Len(versions) /\ UNCHANGED written
    BY <1>1, <1>4
  <2>3. /\ History!Numbers = 1 .. Len(versions) /\ Len(versions) \in Len(versions) .. MaxVersions
        /\ \A w \in 1 .. Len(versions) : versions[w].content \in 0 .. written
    BY HistoryParts DEF HistoryInv
  <2> QED BY <1>5, <2>1, <2>2, <2>3 DEF Grows
<1>7. History!OneLiveOneDraft' /\ History!LiveIsComplete'
  BY SMTT(20), <1>1, <1>3, <1>4, HistoryParts
     DEF HistoryInv, History!OneLiveOneDraft, History!LiveIsComplete, History!Lives, History!Of, History!Numbers
<1> QED BY <1>1, <1>6, <1>7, RowsHold

(* The cards: what one of them completes is what it was opened for.        *)
LEMMA ReviewOpens ==
  ASSUME HistoryInv, NEW o \in Operators, NEW kind \in {"publish", "rollback"}, NEW v \in History!Numbers,
         History!Review(o, kind, v)
  PROVE  HistoryInv' /\ Grows
<1> DEFINE d == [kind |-> kind, version |-> v, rev |-> versions[v].rev, content |-> versions[v].content,
                 live |-> History!LiveNow, shown |-> History!LiveContent]
<1>1. History!Put(o, d) /\ UNCHANGED <<versions, written, complete, proposals, test>>
  BY DEF History!Review
<1>2. /\ v \in Nat \ {0} /\ versions[v].rev \in Nat /\ versions[v].content \in Nat
  BY HistoryParts DEF HistoryInv
<1>3. /\ History!LiveNow \in Nat /\ History!LiveContent \in Nat /\ History!LiveNow \in 0 .. Len(versions)
      /\ History!LiveNow = 0 => History!LiveContent = 0
      /\ History!LiveNow # 0 => versions[History!LiveNow].status = "live"
                                /\ versions[History!LiveNow].content = History!LiveContent
  BY LiveIs, HistoryParts DEF HistoryInv
<1>4. d \in History!Desk
  BY <1>2, <1>3 DEF History!Desk
<1>5. ReviewHolds(d)
  BY <1>2, <1>3 DEF ReviewHolds
<1> HIDE DEF d
<1> QED BY <1>1, <1>4, <1>5, DeskHolds, HistoryParts, RowsStay DEF HistoryInv

LEMMA CompleteHolds ==
  ASSUME HistoryInv, NEW o \in Operators, History!CompletePublish(o) \/ History!CompleteRollback(o)
  PROVE  /\ HistoryInv' /\ Grows
         /\ History!LiveContent' = desk[o].content /\ History!LiveContent = desk[o].shown
<1> DEFINE d == desk[o]
<1>1. /\ d.kind \in {"publish", "rollback"} /\ History!StillReviewed(d) /\ History!Put(o, History!EmptyDesk)
      /\ UNCHANGED <<written, complete, proposals, test>>
      /\ \/ History!Publishable(d.version) /\ versions' = History!Published(d.version)
         \/ History!Restorable(d.version) /\ versions' = History!Restored(d.version)
  BY DEF History!CompletePublish, History!CompleteRollback
<1>2. Grows /\ History!OneLiveOneDraft' /\ History!LiveIsComplete' /\ History!LiveContent' = versions[d.version].content
  BY <1>1, PublishGrows, RestoreGrows
<1>3. ReviewHolds(d) /\ versions[d.version].rev = d.rev /\ History!LiveNow = d.live
  BY <1>1 DEF HistoryInv, ReviewsHold, History!StillReviewed
<1>4. History!LiveContent = d.shown
  <2>1. Len(versions) \in Nat /\ History!Numbers = 1 .. Len(versions)
    BY HistoryParts DEF HistoryInv
  <2> QED BY <1>1, <1>3, <2>1, LiveIs DEF ReviewHolds
<1>5. versions[d.version].content = d.content
  BY <1>1, <1>3 DEF ReviewHolds
<1> QED BY <1>1, <1>2, <1>4, <1>5, RowsHold

LEMMA PromoteHolds ==
  ASSUME HistoryInv, NEW v, History!PromoteToLive(v) \/ History!RollbackTo(v)
  PROVE  HistoryInv' /\ Grows
BY PublishGrows, RestoreGrows, RowsHold DEF History!PromoteToLive, History!RollbackTo

LEMMA TestTurns ==
  ASSUME HistoryInv, History!TestTurn \/ \E v \in History!Numbers : History!StartTest(v)
  PROVE  HistoryInv' /\ Grows
<1>1. UNCHANGED <<versions, written, complete, proposals, desk>>
  BY DEF History!TestTurn, History!StartTest
<1>2. Grows
  BY <1>1, HistoryParts, RowsStay DEF HistoryInv
<1>3. TestHolds' /\ test' \in [version : Nat, rev : Nat, started : Nat, answers : SUBSET Nat]
      /\ test'.version \in 0 .. Len(versions)
  <2>1. CASE History!TestTurn
    <3> DEFINE more == test.answers \cup {versions[test.version].content}
    <3>1. /\ test # History!NoTest /\ versions[test.version].rev = test.rev
          /\ test' = [test EXCEPT !.answers = more]
      BY <2>1 DEF History!TestTurn
    <3>2. /\ test \in [version : Nat, rev : Nat, started : Nat, answers : SUBSET Nat]
          /\ test.version \in 0 .. Len(versions)
      BY DEF HistoryInv, History!TypeOK
    <3>3. test.version # 0 /\ versions[test.version].content = test.started
      BY <3>1 DEF HistoryInv, TestHolds
    <3>4. more \subseteq {test.started} /\ more \in SUBSET Nat
      BY <3>2, <3>3 DEF HistoryInv, TestHolds
    <3> HIDE DEF more
    <3>5. /\ test' \in [version : Nat, rev : Nat, started : Nat, answers : SUBSET Nat]
          /\ test'.version = test.version /\ test'.rev = test.rev /\ test'.started = test.started /\ test'.answers = more
      BY <3>1, <3>2, <3>4
    <3> QED BY <1>1, <3>2, <3>3, <3>4, <3>5 DEF HistoryInv, TestHolds
  <2>2. ASSUME NEW v \in History!Numbers, History!StartTest(v)
        PROVE  /\ TestHolds' /\ test' \in [version : Nat, rev : Nat, started : Nat, answers : SUBSET Nat]
               /\ test'.version \in 0 .. Len(versions)
    <3>1. test' = [version |-> v, rev |-> versions[v].rev, started |-> versions[v].content, answers |-> {}]
      BY <2>2 DEF History!StartTest
    <3>2. v \in 1 .. Len(versions) /\ versions[v].rev \in Nat /\ versions[v].content \in Nat /\ Len(versions) \in Nat
      BY HistoryParts DEF HistoryInv
    <3> QED BY <1>1, <3>1, <3>2 DEF TestHolds
  <2> QED BY <2>1, <2>2
<1>4. /\ History!OneLiveOneDraft' /\ History!LiveIsComplete' /\ ReviewsHold' /\ ProposalsNamed'
  BY <1>1 DEF HistoryInv, History!OneLiveOneDraft, History!LiveIsComplete, History!Lives, History!Of, History!Numbers,
              ReviewsHold, ReviewHolds, ProposalsNamed
<1>5. History!TypeOK'
  BY <1>1, <1>3 DEF HistoryInv, History!TypeOK, History!Numbers, History!Contents
<1> QED BY <1>2, <1>3, <1>4, <1>5 DEF HistoryInv

(* The tabs: what they load and close, and what they send.                 *)
LEMMA TabsHold ==
  ASSUME HistoryInv, NEW o \in Operators,
         \/ History!LoadDraft(o) \/ History!ReadForImport(o) \/ History!AskBuilder(o) \/ History!Close(o)
         \/ \E ok \in BOOLEAN : History!Propose(o, ok) \/ History!StageImport(o, ok) \/ History!BuilderAnswers(o, ok)
  PROVE  HistoryInv' /\ Grows
<1>1. History!HasDraft => versions[History!Draft].rev \in Nat
  BY DraftIs, HistoryParts DEF HistoryInv
<1>2. \A rev \in Nat, kind \in {"editor", "import", "builder"} :
        [kind |-> kind, rev |-> rev] \in History!Desk /\ [kind |-> kind, rev |-> rev].kind = kind
  BY DEF History!Desk
<1>3. CASE History!LoadDraft(o) \/ History!AskBuilder(o) \/ History!Close(o)
  <2>1. UNCHANGED <<versions, written, complete, proposals, test>>
    BY <1>3 DEF History!LoadDraft, History!AskBuilder, History!Close
  <2>2. PICK d \in History!Desk : History!Put(o, d) /\ d.kind \notin {"publish", "rollback"}
    BY <1>1, <1>2, <1>3, EmptyIsDesk DEF History!LoadDraft, History!AskBuilder, History!Close
  <2> QED BY <2>1, <2>2, DeskHolds, HistoryParts, RowsStay DEF HistoryInv
<1>4. CASE History!ReadForImport(o)
  <2> DEFINE d == [desk[o] EXCEPT !.kind = "import"]
  <2>1. /\ desk[o].kind = "editor" /\ desk[o] \in History!Desk /\ History!Put(o, d)
        /\ UNCHANGED <<versions, written, complete, proposals, test>>
    BY <1>4 DEF History!ReadForImport, HistoryInv, History!TypeOK
  <2>2. d \in History!Desk /\ d.kind = "import"
    BY <2>1 DEF History!Desk
  <2> HIDE DEF d
  <2> QED BY <2>1, <2>2, DeskHolds, HistoryParts, RowsStay DEF HistoryInv
<1>5. ASSUME NEW ok \in BOOLEAN, History!Propose(o, ok) \/ History!StageImport(o, ok) \/ History!BuilderAnswers(o, ok)
      PROVE  HistoryInv' /\ Grows
  <2>1. /\ History!Stage(desk[o].rev, ok) /\ History!Put(o, History!EmptyDesk) /\ UNCHANGED <<versions, test>>
        /\ History!HasDraft /\ versions[History!Draft].rev = desk[o].rev
    BY <1>5 DEF History!Propose, History!StageImport, History!BuilderAnswers, History!Stage
  <2>2. History!Write(ok)
    BY <2>1 DEF History!Stage
  <2> QED BY <1>1, <2>1, <2>2, StageHolds, WriteGrows, RowsStay DEF HistoryInv
<1> QED BY <1>3, <1>4, <1>5

LEMMA HistoryStarts == History!Init => HistoryInv
<1> SUFFICES ASSUME History!Init PROVE HistoryInv
  OBVIOUS
<1> DEFINE row == [status |-> "draft", rev |-> 0, content |-> 0]
<1>1. versions = <<row>> /\ written = 0 /\ complete = {} /\ proposals = {} /\ test = History!NoTest
      /\ desk = [o \in Operators |-> History!EmptyDesk]
  BY DEF History!Init
<1>2. row \in History!Row /\ row.status = "draft" /\ row.content = 0
  BY DEF History!Row, History!Statuses
<1> HIDE DEF row
<1>3. versions \in Seq(History!Row) /\ Len(versions) = 1 /\ versions[1] = row
  BY <1>1, <1>2
<1>4. MaxVersions \in Nat \ {0} /\ MaxContents \in Nat
  BY KnowledgeAssumptions DEF History!BoundsAreNatural
<1>5. desk \in [Operators -> History!Desk] /\ \A o \in Operators : desk[o].kind = "none"
  BY <1>1, EmptyIsDesk
<1>6. /\ test \in [version : Nat, rev : Nat, started : Nat, answers : SUBSET Nat]
      /\ test.version = 0 /\ test.answers = {}
  BY <1>1 DEF History!NoTest
<1>7. History!TypeOK
  <2>1. Len(versions) \in 1 .. MaxVersions /\ written \in 0 .. MaxContents /\ test.version \in 0 .. Len(versions)
    BY <1>1, <1>3, <1>4, <1>6
  <2>2. \A v \in 1 .. 1 : versions[v].content \in 0 .. written
    BY <1>1, <1>2, <1>3
  <2> QED BY <1>1, <1>3, <1>5, <1>6, <2>1, <2>2 DEF History!TypeOK, History!Numbers, History!Contents
<1>8. History!OneLiveOneDraft /\ History!LiveIsComplete
  BY <1>2, <1>3 DEF History!OneLiveOneDraft, History!LiveIsComplete, History!Lives, History!Of, History!Numbers
<1>9. ReviewsHold /\ TestHolds /\ ProposalsNamed
  BY <1>1, <1>5, <1>6 DEF ReviewsHold, ReviewHolds, TestHolds, ProposalsNamed
<1> QED BY <1>7, <1>8, <1>9 DEF HistoryInv

LEMMA HistorySteps ==
  ASSUME HistoryInv, History!Next
  PROVE  HistoryInv' /\ Grows
<1>1. CASE History!CreateDraft
  BY <1>1, CreateDraftHolds
<1>2. ASSUME NEW o \in Operators, History!Work(o) PROVE HistoryInv' /\ Grows
  <2>1. CASE \E ok \in BOOLEAN : History!PatchDraft(o, ok)
    BY <2>1, PatchHolds
  <2>2. CASE History!CompletePublish(o) \/ History!CompleteRollback(o)
    BY <2>2, CompleteHolds
  <2>3. CASE History!ReviewPublish(o)
    BY <2>3, DraftIs, ReviewOpens DEF History!ReviewPublish
  <2>4. ASSUME NEW v \in History!Numbers, History!ReviewRollback(o, v) PROVE HistoryInv' /\ Grows
    BY <2>4, ReviewOpens DEF History!ReviewRollback
  <2> QED BY <1>2, <2>1, <2>2, <2>3, <2>4, TabsHold DEF History!Work
<1>3. ASSUME NEW p \in proposals, History!Accept(p) \/ History!Reject(p) PROVE HistoryInv' /\ Grows
  BY <1>3, AcceptHolds, RejectHolds
<1>4. ASSUME NEW v \in History!Numbers, History!PromoteToTesting(v) PROVE HistoryInv' /\ Grows
  BY <1>4, PromoteToTestingHolds
<1>5. ASSUME NEW v \in History!Numbers, History!PromoteToLive(v) \/ History!RollbackTo(v) PROVE HistoryInv' /\ Grows
  BY <1>5, PromoteHolds
<1>6. CASE History!TestTurn \/ \E v \in History!Numbers : History!StartTest(v)
  BY <1>6, TestTurns
<1> QED BY <1>1, <1>2, <1>3, <1>4, <1>5, <1>6 DEF History!Next

LEMMA HistoryStandsStill == HistoryInv /\ UNCHANGED versionVars => HistoryInv'
BY DEF versionVars, HistoryInv, History!TypeOK, History!OneLiveOneDraft, History!LiveIsComplete, History!Lives,
       History!Of, History!Numbers, History!Contents, ReviewsHold, ReviewHolds, TestHolds, ProposalsNamed

LEMMA HistoryAlways == KnowledgeSpec => []HistoryInv
<1>1. KnowledgeInit => HistoryInv
  BY HistoryStarts DEF KnowledgeInit
<1>2. HistoryInv /\ [KnowledgeNext]_<<part, vars, replyVars, versionVars>> => HistoryInv'
  BY HistorySteps, HistoryStandsStill DEF KnowledgeNext
<1> QED BY <1>1, <1>2, PTL DEF KnowledgeSpec
-----------------------------------------------------------------------------
(* A press of a card that changes the rows is the press of that card.      *)
LEMMA CardsAreExact ==
  ASSUME HistoryInv, History!Next, NEW o \in Operators,
         desk[o].kind \in {"publish", "rollback"}, desk'[o] # desk[o], versions' # versions
  PROVE  History!LiveContent' = desk[o].content /\ History!LiveContent = desk[o].shown
<1>1. \E p \in Operators : History!PatchDraft(p, TRUE) \/ History!PatchDraft(p, FALSE)
                           \/ History!CompletePublish(p) \/ History!CompleteRollback(p)
  BY DEF History!Next, History!Work, History!CreateDraft, History!Accept, History!Reject, History!PromoteToTesting,
         History!PromoteToLive, History!RollbackTo, History!StartTest, History!TestTurn, History!LoadDraft,
         History!ReadForImport, History!AskBuilder, History!Close, History!Propose, History!StageImport,
         History!BuilderAnswers, History!ReviewPublish, History!ReviewRollback, History!Review
<1>2. PICK p \in Operators : /\ desk[p].kind = "editor" \/ History!CompletePublish(p) \/ History!CompleteRollback(p)
                             /\ History!Put(p, History!EmptyDesk)
  BY <1>1 DEF History!PatchDraft, History!CompletePublish, History!CompleteRollback
<1>3. p = o
  BY <1>2, EmptyIsDesk, DeskTakes
<1> QED BY <1>2, <1>3, CompleteHolds

LEMMA AcceptedIsOnTop ==
  ASSUME HistoryInv, History!Next, NEW p \in proposals, p.status = "pending", p \notin proposals',
         [p EXCEPT !.status = "accepted"] \in proposals'
  PROVE  p.version = History!Draft /\ versions[History!Draft].rev = p.base /\ versions'[History!Draft].content = p.content
<1> DEFINE yes == [p EXCEPT !.status = "accepted"]
           no == [p EXCEPT !.status = "rejected"]
<1>1. p \in History!Proposal
  BY DEF HistoryInv, History!TypeOK
<1>2. yes.content = p.content /\ yes.status = "accepted" /\ no.status = "rejected"
  BY <1>1 DEF History!Proposal
<1>3. yes \in proposals' /\ (History!Reject(p) => proposals' = (proposals \ {p}) \cup {no})
  BY DEF History!Reject, History!Resolve
<1> HIDE DEF yes, no
<1>4. ~History!Reject(p)
  <2>1. yes \notin proposals
    BY <1>2 DEF HistoryInv, ProposalsNamed
  <2> QED BY <1>2, <1>3, <2>1
<1>5. \E q \in proposals : History!Accept(q) \/ History!Reject(q)
  BY DEF History!Next, History!Work, History!CreateDraft, History!PromoteToTesting,
         History!PromoteToLive, History!RollbackTo, History!StartTest, History!TestTurn, History!LoadDraft,
         History!ReadForImport, History!AskBuilder, History!Close, History!Propose, History!StageImport, History!Stage,
         History!BuilderAnswers, History!ReviewPublish, History!ReviewRollback, History!Review, History!PatchDraft,
         History!CompletePublish, History!CompleteRollback
<1>6. PICK q \in proposals : History!Accept(q) \/ History!Reject(q)
  BY <1>5
<1>7. q = p
  BY <1>6 DEF History!Accept, History!Reject, History!Resolve
<1> QED BY <1>4, <1>6, <1>7, AcceptHolds DEF History!OnTop

(* agents/service.py: get_live and get_draft find one row, and a draft     *)
(* that is published passed the check, however publications, restorations, *)
(* edits and tests of several people interleave.                           *)
THEOREM AgentSpeaksOnce == KnowledgeSpec => []OneVoice
<1>1. HistoryInv => OneVoice
  BY DEF HistoryInv, OneVoice, TestHolds, History!TestSpeaksForOne
<1> QED BY <1>1, HistoryAlways, PTL

(* workflow_agents.py and agents/service.py: a card publishes or restores  *)
(* what it showed in place of what it compared, a proposal is accepted on  *)
(* the draft it was staged for, and a row that was live is never rewritten *)
(* or revived.                                                             *)
THEOREM VersionsAsReviewed == KnowledgeSpec => ReviewedVersions
<1> DEFINE Cards ==
             \A o \in Operators :
               desk[o].kind \in {"publish", "rollback"} /\ desk'[o] # desk[o] /\ versions' # versions =>
                 /\ History!LiveContent' = desk[o].content
                 /\ History!LiveContent = desk[o].shown
           Accepted ==
             \A p \in proposals :
               p.status = "pending" /\ p \notin proposals' /\ [p EXCEPT !.status = "accepted"] \in proposals' =>
                 /\ p.version = History!Draft /\ versions[History!Draft].rev = p.base
                 /\ versions'[History!Draft].content = p.content
           Kept ==
             \A v \in History!Numbers :
               /\ v \in DOMAIN versions'
               /\ versions[v].status \in {"live", "archived"} => versions'[v].content = versions[v].content
               /\ versions[v].status = "archived" => versions'[v].status = "archived"
<1>1. HistoryInv /\ History!Next => Cards
  BY CardsAreExact
<1>2. HistoryInv /\ History!Next => Accepted
  BY AcceptedIsOnTop
<1>3. HistoryInv /\ History!Next => Kept
  <2> SUFFICES ASSUME HistoryInv, History!Next PROVE Kept
    OBVIOUS
  <2>1. Grows
    BY HistorySteps
  <2>2. DOMAIN versions' = 1 .. Len(versions') /\ Len(versions') \in Nat /\ Len(versions) <= Len(versions')
    BY <2>1, HistoryParts DEF Grows, HistoryInv
  <2> QED BY <2>1, <2>2, HistoryParts DEF Grows, Forward, HistoryInv
<1>4. HistoryInv /\ [KnowledgeNext]_<<part, vars, replyVars, versionVars>> => [Cards /\ Accepted /\ Kept]_History!vars
  <2>1. UNCHANGED versionVars => UNCHANGED History!vars
    BY DEF versionVars, History!vars
  <2> QED BY <1>1, <1>2, <1>3, <2>1 DEF KnowledgeNext
<1>5. History!PublishedAsReviewed <=> [][Cards]_History!vars
  BY DEF History!PublishedAsReviewed
<1>6. History!AcceptedOnTop <=> [][Accepted]_History!vars
  BY DEF History!AcceptedOnTop
<1>7. History!HistoryKept <=> [][Kept]_History!vars
  BY DEF History!HistoryKept
<1> HIDE DEF Cards, Accepted, Kept
<1> QED BY <1>4, <1>5, <1>6, <1>7, HistoryAlways, PTL DEF KnowledgeSpec, ReviewedVersions
-----------------------------------------------------------------------------
LEMMA LeastOf ==
  ASSUME NEW S, S \subseteq Nat, S # {}
  PROVE  \E x \in S : \A y \in S : x <= y
<1> DEFINE Less == OpToRel(<, Nat)
<1>1. IsWellFoundedOn(Less, Nat)
  BY NatLessThanWellFounded
<1>2. \A a, b \in Nat : a < b => <<a, b>> \in Less
  BY DEF OpToRel
<1> HIDE DEF Less
<1>3. PICK x \in S : \A y \in S : ~(<<y, x>> \in Less)
  BY <1>1, WFMin
<1>4. ASSUME NEW y \in S  PROVE x <= y
  <2>1. x \in Nat /\ y \in Nat
    OBVIOUS
  <2>2. ~(y < x)
    BY <1>2, <1>3, <2>1
  <2> QED BY <2>1, <2>2
<1> QED BY <1>4

LEMMA Counting ==
  ASSUME NEW T, 0 \in T, \A n \in Nat : n \in T => n + 1 \in T
  PROVE  Nat \subseteq T
<1> SUFFICES ASSUME Nat \ T # {}  PROVE FALSE
  OBVIOUS
<1>1. PICK x \in Nat \ T : \A y \in Nat \ T : x <= y
  BY LeastOf
<1>2. x # 0 /\ x - 1 \in Nat
  BY <1>1
<1>3. x - 1 \in T
  BY <1>1, <1>2
<1>4. (x - 1) + 1 \in T
  BY <1>2, <1>3
<1> QED BY <1>1, <1>4

LEMMA ImageIsFinite ==
  ASSUME NEW S, IsFiniteSet(S), NEW f, f = [x \in S |-> f[x]]
  PROVE  IsFiniteSet({f[x] : x \in S})
<1> DEFINE T == {f[x] : x \in S}
<1>1. f \in Surjection(S, T)
  BY DEF Surjection
<1> HIDE DEF T
<1> QED BY <1>1, FS_Surjection DEF T
-----------------------------------------------------------------------------
LEMMA CoreLength == Len(CoreFlow) = 18 /\ DOMAIN CoreFlow = 1 .. 18
BY DEF CoreFlow

LEMMA CoreIds ==
  /\ CoreFlow[1].id = "organization" /\ CoreFlow[2].id = "parties" /\ CoreFlow[3].id = "offerings"
  /\ CoreFlow[4].id = "customer-profiles" /\ CoreFlow[5].id = "customer-profile-fields"
  /\ CoreFlow[6].id = "party-profile-bindings" /\ CoreFlow[7].id = "offering-provider-bindings"
  /\ CoreFlow[8].id = "relationships" /\ CoreFlow[9].id = "facts" /\ CoreFlow[10].id = "fact-subject-bindings"
  /\ CoreFlow[11].id = "processes" /\ CoreFlow[12].id = "process-transitions" /\ CoreFlow[13].id = "policies"
  /\ CoreFlow[14].id = "policy-conditions" /\ CoreFlow[15].id = "policy-template-bindings"
  /\ CoreFlow[16].id = "agent-policy" /\ CoreFlow[17].id = "module-registry" /\ CoreFlow[18].id = "lifecycle-review"
BY DEF CoreFlow, FlowSpec, Of

LEMMA IdsDiffer == \A i, j \in 1 .. 18 : CoreFlow[i].id = CoreFlow[j].id => i = j
BY CoreIds

LEMMA DepsBefore ==
  \A i \in 1 .. 17 : \A d \in CoreFlow[i].deps : \E j \in 1 .. 17 : j < i /\ CoreFlow[j].id = d
<1>1. CoreFlow[1].deps = {} /\ CoreFlow[2].deps = {} /\ CoreFlow[3].deps = {"organization"} /\ CoreFlow[4].deps = {}
      /\ CoreFlow[5].deps = {"customer-profiles"} /\ CoreFlow[6].deps = {"parties", "customer-profiles"}
  BY DEF CoreFlow, FlowSpec, Of
<1>2. CoreFlow[7].deps = {"organization", "offerings", "parties"} /\ CoreFlow[8].deps = {"organization", "parties", "offerings"}
      /\ CoreFlow[9].deps = {"organization"} /\ CoreFlow[10].deps = {"facts", "organization", "parties", "offerings"}
      /\ CoreFlow[11].deps = {} /\ CoreFlow[12].deps = {"processes"}
  BY DEF CoreFlow, FlowSpec, Of
<1>3. CoreFlow[13].deps = {} /\ CoreFlow[14].deps = {"policies"} /\ CoreFlow[15].deps = {"policies", "facts"}
      /\ CoreFlow[16].deps = {"organization"} /\ CoreFlow[17].deps = {}
  BY DEF CoreFlow, FlowSpec, Of
<1>4. \A i \in 1 .. 6 : \A d \in CoreFlow[i].deps : \E j \in 1 .. 17 : j < i /\ CoreFlow[j].id = d
  BY <1>1, CoreIds
<1>5. \A i \in 7 .. 12 : \A d \in CoreFlow[i].deps : \E j \in 1 .. 17 : j < i /\ CoreFlow[j].id = d
  BY <1>2, CoreIds
<1>6. \A i \in 13 .. 17 : \A d \in CoreFlow[i].deps : \E j \in 1 .. 17 : j < i /\ CoreFlow[j].id = d
  BY <1>3, CoreIds
<1> QED BY <1>4, <1>5, <1>6

(* What the table says of a step.                                          *)
Shaped(s) ==
  /\ s.id \notin {Complete, None}
  /\ DOMAIN s = {"id", "kind", "deps", "canDefer", "of"}
  /\ s.kind \in {"form", "root", "nested", "bind", "review"}
  /\ s.kind = "review" <=> s.id = "lifecycle-review"
  /\ s.kind = "nested" => s.of \in {"customer-profiles", "processes", "policies"}
  /\ s.id \in {"customer-profiles", "processes", "policies", "module-registry"} => s.kind = "root"
  /\ s.id = "lifecycle-review" => ~s.canDefer

LEMMA CoreShapes == \A i \in 1 .. 18 : Shaped(CoreFlow[i])
<1>1. \A i \in 1 .. 6 : Shaped(CoreFlow[i])
  BY DEF Shaped, CoreFlow, FlowSpec, Of, Complete, None
<1>2. \A i \in 7 .. 12 : Shaped(CoreFlow[i])
  BY DEF Shaped, CoreFlow, FlowSpec, Of, Complete, None
<1>3. \A i \in 13 .. 18 : Shaped(CoreFlow[i])
  BY DEF Shaped, CoreFlow, FlowSpec, Of, Complete, None
<1> QED BY <1>1, <1>2, <1>3
-----------------------------------------------------------------------------
CoreNames == {CoreFlow[i].id : i \in 1 .. 18}

LEMMA TheCore ==
  /\ \A s \in Core : \E i \in 1 .. 18 : s = CoreFlow[i] /\ Shaped(s) /\ s.id \in Included /\ s.id \in CoreNames
  /\ \A i \in 1 .. 18 : CoreFlow[i].id \in Included => CoreFlow[i] \in Core
  /\ \A s, t \in Core : s.id = t.id => s = t
  /\ Core = {CoreFlow[i] : i \in {j \in 1 .. 18 : CoreFlow[j].id \in Included}}
<1>1. Core = {CoreFlow[i] : i \in {j \in 1 .. 18 : CoreFlow[j].id \in Included}}
  BY CoreLength DEF Core
<1>2. \A s \in Core : \E i \in 1 .. 18 : s = CoreFlow[i] /\ Shaped(s) /\ s.id \in Included /\ s.id \in CoreNames
  BY <1>1, CoreShapes DEF CoreNames
<1>3. \A s, t \in Core : s.id = t.id => s = t
  BY SMTT(20), <1>1, IdsDiffer
<1> QED BY <1>1, <1>2, <1>3

LEMMA ModulesAreNew ==
  /\ Modules \cap CoreNames = {} /\ Complete \notin Modules /\ Complete \notin CoreNames
  /\ \A s \in Core : s.id \notin Modules
<1>1. CoreNames = {CoreFlow[i].id : i \in DOMAIN CoreFlow}
  BY CoreLength DEF CoreNames
<1>2. Complete \notin CoreNames
  BY CoreShapes DEF CoreNames, Shaped
<1> QED BY <1>1, <1>2, TheCore, FlowAssumption

LEMMA StepSets ==
  /\ \A s \in Core : /\ s.id \in Root <=> s.kind = "root"
                     /\ s.id \in Nested <=> s.kind = "nested"
                     /\ s.id \in Bindings <=> s.kind = "bind"
                     /\ s.id \in Forms <=> s.kind = "form"
                     /\ SpecOf(s.id) = s
  /\ (Root \cup Nested \cup Bindings \cup Forms) \subseteq {s.id : s \in Core}
<1>1. \A s, t \in Core : s.id = t.id => s = t
  BY TheCore
<1>2. ASSUME NEW s \in Core  PROVE SpecOf(s.id) = s
  BY <1>1 DEF SpecOf
<1> HIDE DEF Core
<1> QED BY <1>1, <1>2 DEF Root, Nested, Bindings, Forms

(* The four sets of steps have nothing in common.                          *)
LEMMA Apart ==
  /\ Root \cap (Nested \cup Bindings \cup Forms) = {} /\ Nested \cap (Bindings \cup Forms) = {} /\ Bindings \cap Forms = {}
  /\ "lifecycle-review" \notin Root \cup Nested \cup Bindings \cup Forms
  /\ Complete \notin Root \cup Nested \cup Bindings \cup Forms
  /\ Modules \cap (Root \cup Nested \cup Bindings \cup Forms) = {} /\ "lifecycle-review" \notin Modules
<1> DEFINE R == "lifecycle-review"
<1>1. \A s \in Core : Shaped(s) /\ s.id # Complete /\ s.id \notin Modules
  BY TheCore, ModulesAreNew DEF Shaped
<1>2. \A s \in Core : s.id = R => s.kind = "review"
  BY <1>1 DEF Shaped
<1>3. R \notin Modules
  BY ModulesAreNew, CoreIds DEF CoreNames
<1> QED BY <1>1, <1>2, <1>3, StepSets

LEMMA NestedOf ==
  ASSUME NEW s \in Nested
  PROVE  SpecOf(s).of \in Root /\ SpecOf(s).of \notin {"relationships", "module-registry"}
<1>1. PICK c \in Core : c.id = s
  BY StepSets
<1>2. SpecOf(s) = c /\ c.kind = "nested" /\ Shaped(c)
  BY <1>1, StepSets, TheCore
<1>3. c.of \in {"customer-profiles", "processes", "policies"}
  BY <1>2 DEF Shaped
<1>4. c.of \in Included
  BY <1>3, FlowAssumption DEF None
<1>5. PICK i \in {4, 11, 13} : CoreFlow[i].id = c.of
  BY <1>3, CoreIds
<1>6. CoreFlow[i] \in Core
  BY <1>4, <1>5, TheCore
<1>7. CoreFlow[i].kind = "root"
  BY <1>3, <1>5, CoreShapes DEF Shaped
<1> QED BY <1>2, <1>3, <1>5, <1>6, <1>7, StepSets
-----------------------------------------------------------------------------
LEMMA Ranks ==
  /\ \A i \in 1 .. 18 : Rank(CoreFlow[i].id) = i
  /\ \A m \in Modules : Rank(m) \in Nat /\ Rank(m) > 18 /\ Rank(m) <= 18 + Cardinality(Modules)
  /\ \A m, n \in Modules : Rank(m) = Rank(n) => m = n
  /\ Cardinality(Modules) \in Nat
<1> DEFINE N == Cardinality(Modules)
<1>1. N \in Nat /\ ExistsBijection(1 .. N, Modules)
  BY FlowAssumption, FS_CardinalityType
<1>2. PICK f \in [1 .. N -> Modules] : (\A a, b \in 1 .. N : f[a] = f[b] => a = b) /\ \A m \in Modules : \E a \in 1 .. N : f[a] = m
  BY <1>1 DEF ExistsBijection, Bijection, Injection, Surjection, IsInjective
<1> DEFINE g == [m \in Modules |-> CHOOSE a \in 1 .. N : f[a] = m]
<1>3. \A m \in Modules : g[m] \in 1 .. N /\ f[g[m]] = m
  BY <1>2
<1>4. g \in [Modules -> 1 .. N]
  BY <1>3
<1>5. IsInjective(g)
  BY <1>3 DEF IsInjective
<1>6. \E h \in [Modules -> 1 .. N] : IsInjective(h)
  BY <1>4, <1>5
<1>7. ModuleRank \in [Modules -> 1 .. N] /\ IsInjective(ModuleRank)
  BY <1>6 DEF ModuleRank
<1>8. \A m, n \in Modules : ModuleRank[m] = ModuleRank[n] => m = n
  BY <1>7 DEF IsInjective
<1>9. \A m \in Modules : Rank(m) = 18 + ModuleRank[m]
  BY CoreLength DEF Rank
<1>10. \A m \in Modules : ModuleRank[m] \in 1 .. N
  BY <1>7
<1>11. ASSUME NEW i \in 1 .. 18  PROVE Rank(CoreFlow[i].id) = i
  <2>1. CoreFlow[i].id \notin Modules
    BY ModulesAreNew DEF CoreNames
  <2> QED BY <2>1, IdsDiffer, CoreLength DEF Rank
<1> HIDE DEF N
<1>12. \A m \in Modules : Rank(m) \in Nat /\ Rank(m) > 18 /\ Rank(m) <= 18 + N
  BY <1>1, <1>9, <1>10
<1>13. \A m, n \in Modules : Rank(m) = Rank(n) => m = n
  <2> SUFFICES ASSUME NEW m \in Modules, NEW n \in Modules, Rank(m) = Rank(n)  PROVE m = n
    OBVIOUS
  <2>1. ModuleRank[m] \in Nat /\ ModuleRank[n] \in Nat
    BY <1>1, <1>10
  <2>2. ModuleRank[m] = ModuleRank[n]
    BY <1>9, <2>1
  <2> QED BY <1>8, <2>2
<1> QED BY <1>1, <1>11, <1>12, <1>13 DEF N

(* Where a step stands: the review is after everything.                    *)
Place(id) == IF id = "lifecycle-review" THEN 19 + Cardinality(Modules) ELSE Rank(id)

LEMMA Places ==
  /\ \A id \in CoreNames \cup Modules : Place(id) \in Nat
  /\ \A id, other \in CoreNames \cup Modules : Place(id) = Place(other) => id = other
  /\ \A id \in CoreNames \cup Modules : Place(id) > 17 <=> id \in Modules \cup {"lifecycle-review"}
  /\ \A id \in CoreNames \cup Modules : id # "lifecycle-review" => Place(id) < Place("lifecycle-review")
  /\ Place("module-registry") = 17
  /\ \A i \in 1 .. 17 : Place(CoreFlow[i].id) = i
<1> DEFINE R == "lifecycle-review"
           N == Cardinality(Modules)
<1>1. CoreFlow[18].id = R /\ CoreFlow[17].id = "module-registry" /\ R \notin Modules
  BY CoreIds, Apart
<1>2. \A i \in 1 .. 17 : CoreFlow[i].id # R /\ Place(CoreFlow[i].id) = i
  BY <1>1, IdsDiffer, Ranks DEF Place
<1>3. N \in Nat /\ Place(R) = 19 + N
  BY Ranks DEF Place
<1>4. \A m \in Modules : Place(m) = Rank(m) /\ Rank(m) \in Nat /\ Rank(m) > 18 /\ Rank(m) <= 18 + N
  BY <1>1, Ranks DEF Place
<1>5. ASSUME NEW id \in CoreNames \cup Modules
      PROVE  \/ id \in Modules
             \/ id = R
             \/ id \notin Modules /\ id # R /\ \E i \in 1 .. 17 : id = CoreFlow[i].id /\ Place(id) = i
  BY <1>1, <1>2, ModulesAreNew DEF CoreNames
<1> HIDE DEF N
<1>6. \A id \in CoreNames \cup Modules : Place(id) \in Nat
  BY <1>3, <1>4, <1>5
<1>7. \A id \in CoreNames \cup Modules : Place(id) > 17 <=> id \in Modules \cup {R}
  BY <1>3, <1>4, <1>5
<1>8. \A id \in CoreNames \cup Modules : id # R => Place(id) < Place(R)
  BY <1>3, <1>4, <1>5
<1>9. ASSUME NEW id \in CoreNames \cup Modules, NEW other \in CoreNames \cup Modules, Place(id) = Place(other)
      PROVE  id = other
  <2>1. CASE id = R \/ other = R
    BY <1>6, <1>8, <1>9, <2>1
  <2>2. CASE id # R /\ other # R /\ id \in Modules
    <3>1. other \in Modules
      BY <1>7, <1>9, <2>2
    <3> QED BY <1>4, <1>9, <2>2, <3>1, Ranks
  <2>3. CASE id # R /\ other # R /\ id \notin Modules
    <3>1. other \notin Modules
      BY <1>7, <1>9, <2>3
    <3> QED BY <1>5, <1>9, <2>3, <3>1
  <2> QED BY <2>1, <2>2, <2>3
<1> QED BY <1>1, <1>2, <1>6, <1>7, <1>8, <1>9
-----------------------------------------------------------------------------
(* The steps that are compiled.                                            *)
Written(mods) == Core \cup {ModuleStep(m) : m \in mods}
Same(s, t) == s.id = t.id /\ s.kind = t.kind /\ s.canDefer = t.canDefer /\ s.of = t.of

LEMMA WrittenSteps ==
  ASSUME NEW mods, mods \subseteq Modules
  PROVE  /\ \A w \in Written(mods) : w.id \in CoreNames \cup mods
         /\ \A w \in Written(mods) : DOMAIN w = {"id", "kind", "deps", "canDefer", "of"}
         /\ \A w, x \in Written(mods) : w.id = x.id => w = x
         /\ \A w \in Written(mods) : w.id \in mods => w = ModuleStep(w.id)
         /\ \A w \in Written(mods) : w.id \notin mods => w \in Core
         /\ {w.id : w \in Written(mods)} = {s.id : s \in Core} \cup mods
         /\ IsFiniteSet(Written(mods))
<1>1. \A m \in mods : ModuleStep(m).id = m /\ DOMAIN ModuleStep(m) = {"id", "kind", "deps", "canDefer", "of"}
  BY DEF ModuleStep, FlowSpec
<1>2. \A s \in Core : s.id \in CoreNames /\ s.id \notin mods /\ DOMAIN s = {"id", "kind", "deps", "canDefer", "of"}
  BY TheCore, ModulesAreNew DEF Shaped
<1>3. \A s, t \in Core : s.id = t.id => s = t
  BY TheCore
<1>4. IsFiniteSet(Core)
  <2> DEFINE I == {j \in 1 .. 18 : CoreFlow[j].id \in Included}
             f == [j \in I |-> CoreFlow[j]]
  <2>1. IsFiniteSet(1 .. 18)
    <3>1. 1 \in Int /\ 18 \in Int
      OBVIOUS
    <3> QED BY <3>1, FS_Interval, Zenon
  <2>2. IsFiniteSet(I)
    <3>1. I \in SUBSET (1 .. 18)
      OBVIOUS
    <3> HIDE DEF I
    <3> QED BY <2>1, <3>1, FS_Subset
  <2>3. f = [j \in I |-> f[j]] /\ {f[j] : j \in I} = {CoreFlow[j] : j \in I}
    OBVIOUS
  <2>4. Core = {f[j] : j \in I}
    <3>1. Core = {CoreFlow[j] : j \in I}
      BY TheCore
    <3> QED BY <2>3, <3>1
  <2> HIDE DEF f, I
  <2> QED BY <2>2, <2>3, <2>4, ImageIsFinite
<1>5. IsFiniteSet({ModuleStep(m) : m \in mods})
  <2> DEFINE f == [m \in mods |-> ModuleStep(m)]
  <2>1. IsFiniteSet(mods)
    BY FlowAssumption, FS_Subset
  <2>2. {ModuleStep(m) : m \in mods} = {f[m] : m \in mods} /\ f = [m \in mods |-> f[m]]
    OBVIOUS
  <2> HIDE DEF f
  <2> QED BY <2>1, <2>2, ImageIsFinite
<1>6. IsFiniteSet(Written(mods))
  BY <1>4, <1>5, FS_Union DEF Written
<1> HIDE DEF Core
<1> QED BY <1>1, <1>2, <1>3, <1>6 DEF Written

(* A step as compiled: its dependencies are those that are there.          *)
Compiled(w, ids) == [w EXCEPT !.deps = IF w.id = "lifecycle-review" THEN ids \ {w.id} ELSE @ \cap ids]

LEMMA SpecsAre ==
  ASSUME NEW mods, mods \subseteq Modules
  PROVE  LET ids == {s.id : s \in Core} \cup mods
         IN /\ IsFiniteSet(Specs(mods))
            /\ {s.id : s \in Specs(mods)} = ids
            /\ ids \subseteq CoreNames \cup Modules
            /\ \A s \in Specs(mods) : \E w \in Written(mods) : Same(s, w)
            /\ \A s, t \in Specs(mods) : s.id = t.id => s = t
            /\ \A s \in Specs(mods) : s.id = "lifecycle-review" => s.deps = ids \ {s.id}
            /\ \A s \in Specs(mods) : s.id # "lifecycle-review" =>
                 \A d \in s.deps : \E t \in Specs(mods) : /\ t.id = d /\ d # "lifecycle-review"
                                                        /\ Place(d) < Place(s.id)
<1> DEFINE ids == {s.id : s \in Core} \cup mods
           W == Written(mods)
           f == [w \in W |-> Compiled(w, ids)]
<1>1. /\ \A w \in W : w.id \in CoreNames \cup mods
      /\ \A w \in W : DOMAIN w = {"id", "kind", "deps", "canDefer", "of"}
      /\ \A w, x \in W : w.id = x.id => w = x
      /\ \A w \in W : w.id \in mods => w = ModuleStep(w.id)
      /\ \A w \in W : w.id \notin mods => w \in Core
      /\ {w.id : w \in W} = ids
      /\ IsFiniteSet(W)
  BY WrittenSteps
<1>2. Specs(mods) = {f[w] : w \in W} /\ f = [w \in W |-> f[w]]
  <2>1. Specs(mods) = {Compiled(w, {x.id : x \in W}) : w \in W}
    BY DEF Specs, Written, Compiled
  <2>2. Specs(mods) = {Compiled(w, ids) : w \in W}
    BY <1>1, <2>1
  <2> HIDE DEF ids, W
  <2> QED BY <2>2
<1>3. \A w \in W : f[w] = Compiled(w, ids)
  OBVIOUS
<1> HIDE DEF W, f
<1>4. ASSUME NEW w \in W
      PROVE  /\ Same(f[w], w)
             /\ w.id = "lifecycle-review" => f[w].deps = ids \ {w.id}
             /\ w.id # "lifecycle-review" => f[w].deps = w.deps \cap ids
  <2>1. DOMAIN w = {"id", "kind", "deps", "canDefer", "of"}
    BY <1>1
  <2> HIDE DEF ids
  <2> QED BY <1>3, <2>1 DEF Compiled, Same
<1>5. IsFiniteSet(Specs(mods))
  BY <1>1, <1>2, ImageIsFinite
<1>6. \A w \in W : f[w].id = w.id
  BY <1>4 DEF Same
<1>7. {s.id : s \in Specs(mods)} = ids
  BY <1>1, <1>2, <1>6
<1>8. ids \subseteq CoreNames \cup Modules
  BY TheCore
<1>9. \A s, t \in Specs(mods) : s.id = t.id => s = t
  BY <1>1, <1>2, <1>6
<1>10. ASSUME NEW s \in Specs(mods), s.id # "lifecycle-review", NEW d \in s.deps
       PROVE  \E t \in Specs(mods) : t.id = d /\ d # "lifecycle-review" /\ Place(d) < Place(s.id)
  <2>1. PICK w \in W : s = f[w] /\ w.id = s.id
    BY <1>2, <1>6
  <2>2. d \in w.deps /\ d \in ids
    BY <1>4, <1>10, <2>1
  <2>3. PICK t \in Specs(mods) : t.id = d
    BY <1>7, <2>2
  <2>4. CASE w.id \in mods
    <3>1. d = "module-registry"
      BY <1>1, <2>2, <2>4 DEF ModuleStep, FlowSpec
    <3>2. w.id \in Modules /\ Place(w.id) > 17
      BY <2>4, Places
    <3> QED BY <2>1, <2>3, <3>1, <3>2, Places
  <2>5. CASE w.id \notin mods
    <3>1. PICK i \in 1 .. 18 : w = CoreFlow[i]
      BY <1>1, <2>5, TheCore
    <3>2. i \in 1 .. 17
      BY <1>10, <2>1, <3>1, CoreIds
    <3>3. PICK j \in 1 .. 17 : j < i /\ CoreFlow[j].id = d
      BY <2>2, <3>1, <3>2, DepsBefore
    <3>4. Place(d) = j /\ Place(s.id) = i
      BY <2>1, <3>1, <3>2, <3>3, Places
    <3>5. d # "lifecycle-review"
      BY <3>3, CoreIds, IdsDiffer
    <3> QED BY <2>3, <3>3, <3>4, <3>5
  <2> QED BY <2>4, <2>5
<1>11. \A s \in Specs(mods) : \E w \in Written(mods) : Same(s, w)
  BY <1>2, <1>4 DEF W
<1>12. \A s \in Specs(mods) : s.id = "lifecycle-review" => s.deps = ids \ {s.id}
  BY <1>2, <1>4, <1>6
<1> HIDE DEF ids
<1> QED BY <1>5, <1>7, <1>8, <1>9, <1>10, <1>11, <1>12 DEF ids
-----------------------------------------------------------------------------
(* The order, one step after the other.                                    *)
Further(specs, before) == Append(before, FirstOf(Ready(specs, before)))
Follows(specs, d, n) == d = [k \in 0 .. n |-> IF k = 0 THEN <<>> ELSE Further(specs, d[k - 1])]

LEMMA OrderExists ==
  ASSUME NEW specs, NEW n \in Nat
  PROVE  \E d : Follows(specs, d, n)
<1> DEFINE T == {k \in Nat : \E d : Follows(specs, d, k)}
<1>1. 0 \in T
  <2> DEFINE d == [k \in 0 .. 0 |-> <<>>]
  <2>1. Follows(specs, d, 0)
    BY DEF Follows
  <2> QED BY <2>1
<1>2. ASSUME NEW k \in Nat, k \in T  PROVE k + 1 \in T
  <2>1. PICK d : Follows(specs, d, k)
    BY <1>2
  <2> DEFINE e == [j \in 0 .. k + 1 |-> IF j = 0 THEN <<>> ELSE Further(specs, d[j - 1])]
  <2>2. \A j \in 0 .. k : e[j] = d[j]
    <3>1. d = [j \in 0 .. k |-> IF j = 0 THEN <<>> ELSE Further(specs, d[j - 1])]
      BY <2>1 DEF Follows
    <3>2. \A j \in 0 .. k : d[j] = IF j = 0 THEN <<>> ELSE Further(specs, d[j - 1])
      BY <3>1
    <3> QED BY <3>2
  <2>3. \A j \in 1 .. k + 1 : e[j - 1] = d[j - 1]
    <3> HIDE DEF e
    <3>1. \A j \in 1 .. k + 1 : j - 1 \in 0 .. k
      OBVIOUS
    <3> QED BY <2>2, <3>1
  <2>4. e = [j \in 0 .. k + 1 |-> IF j = 0 THEN <<>> ELSE Further(specs, e[j - 1])]
    <3>1. \A j \in 0 .. k + 1 : (IF j = 0 THEN <<>> ELSE Further(specs, d[j - 1])) = IF j = 0 THEN <<>> ELSE Further(specs, e[j - 1])
      BY <2>3
    <3> QED BY <3>1
  <2>5. Follows(specs, e, k + 1)
    BY <2>4 DEF Follows
  <2> QED BY <2>5
<1> HIDE DEF T
<1>3. Nat \subseteq T
  BY <1>1, <1>2, Counting
<1> QED BY <1>3 DEF T

LEMMA OrderedFollows ==
  ASSUME NEW specs, Cardinality(specs) \in Nat
  PROVE  \E d : Follows(specs, d, Cardinality(specs)) /\ Ordered(specs) = d[Cardinality(specs)]
<1> DEFINE N == Cardinality(specs)
           done == CHOOSE d : Follows(specs, d, N)
<1>1. Follows(specs, done, N)
  BY OrderExists
<1>2. Ordered(specs) = done[N]
  BY DEF Ordered, Follows, Further
<1> QED BY <1>1, <1>2

LEMMA FirstIsNext ==
  ASSUME NEW mods, mods \subseteq Modules, NEW b, ToSet(b) \subseteq Specs(mods), Specs(mods) \ ToSet(b) # {}
  PROVE  LET p == FirstOf(Ready(Specs(mods), b))
             rest == Specs(mods) \ ToSet(b)
         IN p \in rest /\ \A t \in rest \ {p} : Place(p.id) < Place(t.id)
<1> DEFINE S == Specs(mods)
           R == "lifecycle-review"
           done == ToSet(b)
           rest == S \ done
           ready == Ready(S, b)
           C == CoreNames \cup Modules
<1>1. /\ \A s \in S : s.id \in C
      /\ \A s, t \in S : s.id = t.id => s = t
      /\ \A s \in S : s.id = R => s.deps = {t.id : t \in S} \ {R}
      /\ \A s \in S : s.id # R => \A d \in s.deps : \E t \in S : t.id = d /\ Place(d) < Place(s.id)
  BY SpecsAre
<1>2. /\ \A id \in C : Place(id) \in Nat
      /\ \A id, other \in C : Place(id) = Place(other) => id = other
      /\ \A id \in C : id # R => Place(id) < Place(R)
      /\ \A id \in C : id # R => Place(id) = Rank(id)
  BY Places DEF Place
<1>3. ready = {s \in rest : s.deps \subseteq {d.id : d \in done}}
  BY DEF Ready
<1> HIDE DEF S, done, ready, C
<1>4. PICK m \in rest : \A t \in rest : Place(m.id) <= Place(t.id)
  <2> DEFINE P == {Place(t.id) : t \in rest}
  <2>1. P \subseteq Nat /\ P # {}
    BY <1>1, <1>2 DEF S, done
  <2>2. PICK x \in P : \A y \in P : x <= y
    BY <2>1, LeastOf
  <2> QED BY <2>2
<1>5. \A t \in rest \ {m} : Place(m.id) < Place(t.id)
  BY <1>1, <1>2, <1>4
<1>6. m \in ready
  <2>1. CASE m.id # R
    <3>1. ASSUME NEW d \in m.deps  PROVE d \in {x.id : x \in done}
      <4>1. PICK t \in S : t.id = d /\ Place(d) < Place(m.id)
        BY <1>1, <1>4, <2>1
      <4>2. Place(d) \in Nat /\ Place(m.id) \in Nat
        BY <1>1, <1>2, <1>4, <4>1
      <4>3. t \in done
        BY <1>4, <4>1, <4>2
      <4> QED BY <4>1, <4>3
    <3> QED BY <1>3, <1>4, <3>1
  <2>2. CASE m.id = R
    <3>1. ASSUME NEW d \in m.deps  PROVE d \in {x.id : x \in done}
      <4>1. PICK t \in S : t.id = d /\ d # R
        BY <1>1, <1>4, <2>2, <3>1
      <4>2. Place(d) < Place(m.id) /\ Place(d) \in Nat /\ Place(m.id) \in Nat
        BY <1>1, <1>2, <1>4, <2>2, <4>1
      <4>3. t \in done
        BY <1>4, <4>1, <4>2
      <4> QED BY <4>1, <4>3
    <3> QED BY <1>3, <1>4, <3>1
  <2> QED BY <2>1, <2>2
<1>7. ASSUME NEW r \in ready, r # m  PROVE r.id # R /\ m.id # R
  <2>1. r \in rest /\ Place(m.id) < Place(r.id)
    BY <1>3, <1>5, <1>7
  <2>2. m.id # R
    BY <1>1, <1>2, <1>4, <2>1
  <2>3. m.id \notin {d.id : d \in done}
    <3>1. done \subseteq S
      BY DEF S, done
    <3> QED BY <1>1, <1>4, <3>1
  <2>4. r.id # R
    <3> SUFFICES ASSUME r.id = R  PROVE FALSE
      OBVIOUS
    <3>1. m.id \in r.deps
      BY <1>1, <1>4, <2>1, <2>2
    <3> QED BY <1>3, <1>7, <2>3, <3>1
  <2> QED BY <2>2, <2>4
<1>8. \A r \in ready : r # m => Rank(r.id) \in Nat /\ Rank(m.id) < Rank(r.id)
  <2> SUFFICES ASSUME NEW r \in ready, r # m  PROVE Rank(r.id) \in Nat /\ Rank(m.id) < Rank(r.id)
    OBVIOUS
  <2>1. r \in rest /\ Place(m.id) < Place(r.id)
    BY <1>3, <1>5
  <2>2. Place(m.id) = Rank(m.id) /\ Place(r.id) = Rank(r.id) /\ Place(r.id) \in Nat
    BY <1>1, <1>2, <1>4, <1>7, <2>1
  <2> QED BY <2>1, <2>2
<1>9. Rank(m.id) \in Nat
  <2>1. CASE m.id = R
    BY <2>1, CoreIds, Ranks
  <2>2. CASE m.id # R
    BY <1>1, <1>2, <1>4, <2>2
  <2> QED BY <2>1, <2>2
<1>10. \A t \in ready : Rank(m.id) <= Rank(t.id)
  BY <1>8, <1>9
<1>11. FirstOf(ready) \in ready /\ \A t \in ready : Rank(FirstOf(ready).id) <= Rank(t.id)
  BY <1>6, <1>10 DEF FirstOf
<1>12. FirstOf(ready) = m
  <2> SUFFICES ASSUME FirstOf(ready) # m  PROVE FALSE
    OBVIOUS
  <2> DEFINE p == FirstOf(ready)
  <2>1. Rank(m.id) < Rank(p.id) /\ Rank(p.id) <= Rank(m.id) /\ Place(p.id) = Rank(p.id) /\ Place(p.id) \in Nat
    BY <1>1, <1>2, <1>3, <1>6, <1>7, <1>8, <1>11
  <2> QED BY <1>9, <2>1
<1> QED BY <1>4, <1>5, <1>12 DEF ready, S, done

Left(specs, b) == specs \ ToSet(b)
InOrder(specs, b, k) ==
  /\ b \in Seq(specs) /\ Len(b) = k
  /\ Cardinality(Left(specs, b)) = Cardinality(specs) - k
  /\ \A i, j \in 1 .. k : i < j => Place(b[i].id) < Place(b[j].id)
  /\ \A i \in 1 .. k : \A t \in Left(specs, b) : Place(b[i].id) < Place(t.id)

LEMMA OneFurther ==
  ASSUME NEW mods, mods \subseteq Modules, NEW k \in Nat, k < Cardinality(Specs(mods)),
         NEW b, InOrder(Specs(mods), b, k)
  PROVE  InOrder(Specs(mods), Further(Specs(mods), b), k + 1)
<1> DEFINE S == Specs(mods)
           p == FirstOf(Ready(S, b))
           c == Append(b, p)
<1>1. IsFiniteSet(S) /\ Cardinality(S) \in Nat
  BY SpecsAre, FS_CardinalityType
<1>2. ToSet(b) \subseteq S /\ b \in Seq(S) /\ Len(b) = k
  BY DEF InOrder, ToSet
<1>3. Left(S, b) # {}
  <2>1. Cardinality(Left(S, b)) = Cardinality(S) - k
    BY DEF InOrder
  <2>2. Cardinality(S) - k # 0
    BY <1>1
  <2>3. Cardinality({}) = 0
    BY FS_EmptySet
  <2> QED BY <2>1, <2>2, <2>3
<1>4. p \in Left(S, b) /\ \A t \in Left(S, b) \ {p} : Place(p.id) < Place(t.id)
  BY <1>2, <1>3, FirstIsNext DEF Left
<1> HIDE DEF p, S
<1>5. c \in Seq(S) /\ Len(c) = k + 1 /\ c[k + 1] = p /\ \A i \in 1 .. k : c[i] = b[i]
  BY <1>2, <1>4 DEF Left
<1>6. ToSet(c) = ToSet(b) \cup {p}
  <2>1. DOMAIN c = 1 .. k + 1 /\ DOMAIN b = 1 .. k
    BY <1>2, <1>5
  <2> HIDE DEF c
  <2>2. \A x \in ToSet(c) : x \in ToSet(b) \cup {p}
    <3> SUFFICES ASSUME NEW i \in 1 .. k + 1  PROVE c[i] \in ToSet(b) \cup {p}
      BY <2>1 DEF ToSet
    <3>1. i = k + 1 \/ i \in 1 .. k
      OBVIOUS
    <3> QED BY <1>5, <2>1, <3>1 DEF ToSet
  <2>3. \A x \in ToSet(b) : x \in ToSet(c)
    <3> SUFFICES ASSUME NEW i \in 1 .. k  PROVE b[i] \in ToSet(c)
      BY <2>1 DEF ToSet
    <3>1. i \in 1 .. k + 1 /\ c[i] = b[i]
      BY <1>5
    <3> QED BY <2>1, <3>1 DEF ToSet
  <2>4. k + 1 \in DOMAIN c
    BY <2>1
  <2>5. p \in ToSet(c)
    BY <1>5, <2>4 DEF ToSet
  <2> QED BY <2>2, <2>3, <2>5
<1>7. Left(S, c) = Left(S, b) \ {p}
  BY <1>6 DEF Left
<1>8. Cardinality(Left(S, c)) = Cardinality(S) - (k + 1)
  <2>1. IsFiniteSet(Left(S, b))
    BY <1>1, FS_Subset DEF Left
  <2>2. Cardinality(Left(S, b) \ {p}) = Cardinality(Left(S, b)) - 1
    BY <1>4, <2>1, FS_RemoveElement
  <2>3. Cardinality(Left(S, b)) = Cardinality(S) - k
    BY DEF InOrder, S
  <2> QED BY <1>1, <1>7, <2>2, <2>3
<1> HIDE DEF c
<1>9. ASSUME NEW i \in 1 .. k + 1, NEW j \in 1 .. k + 1, i < j  PROVE Place(c[i].id) < Place(c[j].id)
  <2>1. i \in 1 .. k
    BY <1>9
  <2>2. CASE j \in 1 .. k
    BY <1>5, <1>9, <2>1, <2>2 DEF InOrder
  <2>3. CASE j = k + 1
    <3>1. Place(b[i].id) < Place(p.id)
      BY <1>4, <2>1 DEF InOrder, S
    <3> QED BY <1>5, <2>1, <2>3, <3>1
  <2> QED BY <2>2, <2>3
<1>10. ASSUME NEW i \in 1 .. k + 1, NEW t \in Left(S, c)  PROVE Place(c[i].id) < Place(t.id)
  <2>1. CASE i \in 1 .. k
    <3>1. Place(b[i].id) < Place(t.id)
      BY <1>7, <2>1 DEF InOrder, S
    <3> QED BY <1>5, <2>1, <3>1
  <2>2. CASE i = k + 1
    BY <1>4, <1>5, <1>7, <2>2
  <2> QED BY <2>1, <2>2
<1>11. InOrder(S, c, k + 1)
  BY <1>5, <1>8, <1>9, <1>10 DEF InOrder
<1> QED BY <1>11 DEF c, p, S, Further

LEMMA OrderedAsWritten ==
  ASSUME NEW mods, mods \subseteq Modules
  PROVE  LET f == Compile(mods)
         IN /\ f \in Seq(Specs(mods)) /\ ToSet(f) = Specs(mods)
            /\ \A i, j \in 1 .. Len(f) : i < j => Place(f[i].id) < Place(f[j].id)
<1> DEFINE S == Specs(mods)
           N == Cardinality(S)
<1>1. IsFiniteSet(S) /\ N \in Nat
  BY SpecsAre, FS_CardinalityType
<1>2. PICK d : Follows(S, d, N) /\ Compile(mods) = d[N]
  BY <1>1, OrderedFollows DEF Compile
<1>3. d[0] = <<>> /\ \A k \in 1 .. N : d[k] = Further(S, d[k - 1])
  <2>1. d = [k \in 0 .. N |-> IF k = 0 THEN <<>> ELSE Further(S, d[k - 1])]
    BY <1>2 DEF Follows
  <2> HIDE DEF N, S
  <2>2. \A k \in 0 .. N : d[k] = IF k = 0 THEN <<>> ELSE Further(S, d[k - 1])
    BY <2>1
  <2> QED BY <1>1, <2>2
<1> DEFINE T == {k \in Nat : k <= N => InOrder(S, d[k], k)}
<1>4. 0 \in T
  <2>1. ToSet(<<>>) = {} /\ Left(S, <<>>) = S
    BY DEF ToSet, Left
  <2> HIDE DEF S
  <2>2. InOrder(S, <<>>, 0)
    BY <1>1, <2>1 DEF InOrder
  <2> QED BY <1>3, <2>2
<1>5. ASSUME NEW k \in Nat, k \in T  PROVE k + 1 \in T
  <2>1. SUFFICES ASSUME k + 1 <= N  PROVE InOrder(S, d[k + 1], k + 1)
    OBVIOUS
  <2>2. k < N /\ InOrder(S, d[k], k)
    BY <1>1, <1>5, <2>1
  <2>3. d[k + 1] = Further(S, d[k])
    <3> HIDE DEF N, S
    <3>1. k + 1 \in 1 .. N /\ (k + 1) - 1 = k
      BY <1>1, <2>1
    <3> QED BY <1>3, <3>1
  <2> QED BY <2>2, <2>3, OneFurther
<1> HIDE DEF T
<1>6. N \in T
  BY <1>1, <1>4, <1>5, Counting
<1>7. InOrder(S, d[N], N)
  BY <1>1, <1>6 DEF T
<1> HIDE DEF N, S
<1>8. Left(S, d[N]) = {}
  <2>1. Cardinality(Left(S, d[N])) = 0
    BY <1>1, <1>7 DEF InOrder, N
  <2>2. IsFiniteSet(Left(S, d[N]))
    BY <1>1, FS_Subset DEF Left
  <2> QED BY <2>1, <2>2, FS_EmptySet
<1>9. ToSet(d[N]) = S
  <2>1. ToSet(d[N]) \subseteq S
    BY <1>7 DEF InOrder, ToSet
  <2> QED BY <1>8, <2>1 DEF Left
<1> QED BY <1>2, <1>7, <1>9 DEF InOrder, S
-----------------------------------------------------------------------------
(* A compiled flow: every step once, the modules after their registry, the *)
(* review at the end.                                                      *)
IdsOf(f) == {f[i].id : i \in DOMAIN f}
StepLike(s, mods) == \/ \E c \in Core : Same(s, c)
                     \/ s.id \in mods /\ s.kind = "module"
LastIsReview(f) == /\ f[Len(f)].id = "lifecycle-review"
                   /\ \A i \in DOMAIN f : f[i].id = "lifecycle-review" => i = Len(f)
WellFormed(f, mods) ==
  /\ Len(f) \in Nat \ {0} /\ DOMAIN f = 1 .. Len(f)
  /\ IdsOf(f) = {s.id : s \in Core} \cup mods
  /\ \A i \in DOMAIN f : StepLike(f[i], mods)
  /\ \A i, j \in DOMAIN f : f[i].id = f[j].id => i = j
  /\ LastIsReview(f)
  /\ \A i, j \in DOMAIN f : f[i].id = "module-registry" /\ i < j => f[j].id \in mods \cup {"lifecycle-review"}

THEOREM FlowIsWellFormed ==
  ASSUME NEW mods, mods \subseteq Modules
  PROVE  WellFormed(Compile(mods), mods)
<1> DEFINE f == Compile(mods)
           S == Specs(mods)
           C == CoreNames \cup Modules
           R == "lifecycle-review"
           ids == {s.id : s \in Core} \cup mods
<1>1. /\ f \in Seq(S) /\ ToSet(f) = S
      /\ \A i, j \in 1 .. Len(f) : i < j => Place(f[i].id) < Place(f[j].id)
  BY OrderedAsWritten
<1>2. /\ {s.id : s \in S} = ids /\ ids \subseteq C
      /\ \A s \in S : \E w \in Written(mods) : Same(s, w)
  BY SpecsAre
<1>3. /\ \A w \in Written(mods) : w.id \in mods => w = ModuleStep(w.id)
      /\ \A w \in Written(mods) : w.id \notin mods => w \in Core
  BY WrittenSteps
<1>4. R \in ids
  <2>1. CoreFlow[18] \in Core /\ CoreFlow[18].id = R
    BY TheCore, CoreIds, FlowAssumption
  <2> QED BY <2>1
<1>5. /\ \A id \in C : Place(id) \in Nat
      /\ \A id \in C : Place(id) > 17 <=> id \in Modules \cup {R}
      /\ \A id \in C : id # R => Place(id) < Place(R)
      /\ Place("module-registry") = 17
  BY Places
<1>6. Modules \cap CoreNames = {}
  BY ModulesAreNew
<1>7. ASSUME NEW s \in S  PROVE StepLike(s, mods)
  <2>1. PICK w \in Written(mods) : Same(s, w)
    BY <1>2
  <2>2. CASE w.id \in mods
    BY <1>3, <2>1, <2>2 DEF StepLike, Same, ModuleStep, FlowSpec
  <2>3. CASE w.id \notin mods
    BY <1>3, <2>1, <2>3 DEF StepLike
  <2> QED BY <2>2, <2>3
<1> HIDE DEF f, S, C, ids
<1>8. Len(f) \in Nat /\ DOMAIN f = 1 .. Len(f) /\ (\A i \in 1 .. Len(f) : f[i] \in S) /\ \A s \in S : \E i \in 1 .. Len(f) : f[i] = s
  BY <1>1 DEF ToSet
<1>9. IdsOf(f) = ids
  BY <1>2, <1>8 DEF IdsOf
<1>10. \A i \in 1 .. Len(f) : f[i].id \in C
  BY <1>2, <1>8
<1>11. PICK r \in 1 .. Len(f) : f[r].id = R
  BY <1>4, <1>8, <1>9 DEF IdsOf
<1>12. \A i, j \in 1 .. Len(f) : f[i].id = f[j].id => i = j
  <2> SUFFICES ASSUME NEW i \in 1 .. Len(f), NEW j \in 1 .. Len(f), f[i].id = f[j].id, i # j  PROVE FALSE
    OBVIOUS
  <2>1. Place(f[i].id) \in Nat
    BY <1>5, <1>10
  <2>2. i < j \/ j < i
    BY <1>8
  <2> QED BY <1>1, <2>1, <2>2
<1>13. r = Len(f)
  <2> SUFFICES ASSUME r # Len(f)  PROVE FALSE
    OBVIOUS
  <2>1. Len(f) \in 1 .. Len(f) /\ r < Len(f)
    <3> DEFINE L == Len(f)
    <3>1. r \in 1 .. L /\ L \in Nat /\ r # L
      BY <1>8, <1>11
    <3> HIDE DEF L
    <3>2. r < L /\ L \in 1 .. L
      BY <3>1
    <3> QED BY <3>2 DEF L
  <2>2. Place(R) < Place(f[Len(f)].id) /\ f[Len(f)].id # R
    BY <1>1, <1>11, <1>12, <2>1
  <2>3. Place(f[Len(f)].id) < Place(R) /\ Place(R) \in Nat /\ Place(f[Len(f)].id) \in Nat
    BY <1>2, <1>4, <1>5, <1>10, <2>1, <2>2
  <2> QED BY <2>2, <2>3
<1>14. ASSUME NEW i \in 1 .. Len(f), NEW j \in 1 .. Len(f), f[i].id = "module-registry", i < j
       PROVE  f[j].id \in mods \cup {R}
  <2>1. Place(f[j].id) > 17 /\ f[j].id \in C
    BY <1>1, <1>5, <1>10, <1>14
  <2>2. f[j].id \in Modules \cup {R}
    BY <1>5, <2>1
  <2>3. f[j].id \in ids
    BY <1>2, <1>8
  <2>4. \A s \in Core : s.id \notin Modules
    BY ModulesAreNew
  <2> QED BY <2>2, <2>3, <2>4 DEF ids
<1>15. LastIsReview(f)
  BY <1>8, <1>11, <1>12, <1>13 DEF LastIsReview
<1> QED BY <1>7, <1>8, <1>9, <1>11, <1>12, <1>14, <1>15 DEF WellFormed, f, S, ids
-----------------------------------------------------------------------------
(* The state of a session.                                                 *)
DraftTypes ==
  /\ DOMAIN configs \subseteq Modules /\ flow = Compile(DOMAIN configs)
  /\ items \in [Root -> SUBSET (Items \cup Modules)]
  /\ \A s \in Nested : items[SpecOf(s).of] \subseteq Items
  /\ children = [s \in Nested |-> children[s]]
  /\ \A s \in Nested : children[s] = [i \in Items |-> children[s][i]]
  /\ nested = [s \in Nested |-> nested[s]]
  /\ scope = [s \in Root |-> scope[s]]
SessionTypes == DraftTypes /\ at \in IdsOf(flow) \cup {Complete}

(* What waits was previewed at its step, and adds an id a step may add.    *)
WaitingFits ==
  pending # NoProposal =>
    /\ pending.cmd.step = pending.step
    /\ pending.cmd.step \in Root => pending.cmd.item \in (IF pending.cmd.step = "module-registry" THEN Modules ELSE Items)
    /\ pending.cmd.step \in Nested => pending.cmd.item \in Items

(* The collections at and after the present step are open.                 *)
AheadIsOpen == \A i, j \in DOMAIN flow : (flow[i].id = at /\ i <= j /\ flow[j].id \in Root) => scope[flow[j].id] = "open"

(* A ref to defer was given at a step that can be deferred.                *)
DefersFit == Ref("defer", 0) \in refs => \A i \in DOMAIN flow : flow[i].id = at => flow[i].canDefer

CompleteIsBuilt ==
  at = Complete => refs = {} /\ pending = NoProposal /\ life # "draft" /\ Buildable(life, FALSE)

SessionInv == SessionTypes /\ WaitingFits /\ AheadIsOpen /\ DefersFit /\ CompleteIsBuilt

LEMMA PresentStep ==
  ASSUME SessionTypes, at # Complete
  PROVE  /\ Here \in DOMAIN flow /\ flow[Here].id = at /\ Current = flow[Here]
         /\ \A i \in DOMAIN flow : flow[i].id = at => i = Here
         /\ WellFormed(flow, DOMAIN configs)
<1>1. WellFormed(flow, DOMAIN configs)
  BY FlowIsWellFormed DEF SessionTypes, DraftTypes
<1>2. \E i \in DOMAIN flow : flow[i].id = at
  BY DEF SessionTypes, DraftTypes, IdsOf
<1>3. \A i, j \in DOMAIN flow : flow[i].id = flow[j].id => i = j
  BY <1>1 DEF WellFormed
<1> QED BY <1>1, <1>2, <1>3 DEF Here, Current

(* Going on from the present step.                                         *)
LEMMA GoingOn ==
  ASSUME SessionTypes, at # Complete
  PROVE  /\ Advanced \in IdsOf(flow) \cup {Complete}
         /\ Advanced # at
         /\ at = "lifecycle-review" <=> Advanced = Complete
         /\ Advanced # Complete => \E i \in DOMAIN flow : /\ i = Here + 1 /\ flow[i].id = Advanced
         /\ \A i \in DOMAIN flow : flow[i].id = Advanced => i = Here + 1
<1>1. /\ Here \in DOMAIN flow /\ flow[Here].id = at
      /\ \A i \in DOMAIN flow : flow[i].id = at => i = Here
      /\ WellFormed(flow, DOMAIN configs)
  BY PresentStep
<1>2. /\ Len(flow) \in Nat \ {0} /\ DOMAIN flow = 1 .. Len(flow)
      /\ \A i, j \in DOMAIN flow : flow[i].id = flow[j].id => i = j
      /\ LastIsReview(flow) /\ IdsOf(flow) = {s.id : s \in Core} \cup DOMAIN configs
  BY <1>1 DEF WellFormed
<1>3. \A i \in DOMAIN flow : flow[i].id # Complete
  <2>1. Complete \notin DOMAIN configs /\ \A s \in Core : s.id # Complete
    BY ModulesAreNew, TheCore DEF SessionTypes, DraftTypes
  <2> QED BY <1>2, <2>1 DEF IdsOf
<1>4. CASE Here = Len(flow)
  <2>1. Advanced = Complete /\ at = "lifecycle-review"
    BY <1>1, <1>2, <1>4 DEF Advanced, LastIsReview
  <2> QED BY <1>3, <2>1, PresentStep
<1>5. CASE Here # Len(flow)
  <2>1. Here + 1 \in DOMAIN flow /\ Here + 1 # Here
    BY <1>1, <1>2, <1>5
  <2>2. Advanced = flow[Here + 1].id /\ at # "lifecycle-review"
    BY <1>1, <1>2, <1>5 DEF Advanced, LastIsReview
  <2>3. Advanced # at /\ Advanced \in IdsOf(flow) /\ Advanced # Complete
    BY <1>1, <1>3, <2>1, <2>2 DEF IdsOf
  <2> QED BY <1>2, <2>1, <2>2, <2>3
<1> QED BY <1>4, <1>5

LEMMA CommandsFit ==
  ASSUME SessionTypes, at # Complete, NEW c \in Commands(Current)
  PROVE  /\ c.step = at
         /\ at \in Root => c.item \in (IF at = "module-registry" THEN Modules ELSE Items)
         /\ at \in Nested => c.item \in Items
<1> DEFINE s == Current
<1>1. s.id = at /\ StepLike(s, DOMAIN configs)
  BY PresentStep DEF WellFormed
<1>2. \A x : Blank(x) = [step |-> x, item |-> None, ids |-> {}, ok |-> TRUE, life |-> None]
  BY DEF Blank
<1> HIDE DEF s
<1>3. CASE s.kind \in {"form", "module"}
  <2>1. c \in {[Blank(s.id) EXCEPT !.ok = b] : b \in BOOLEAN}
    <3>1. \A x \in Core : x.id = "module-registry" => x.kind = "root"
      BY TheCore DEF Shaped
    <3>2. "module-registry" \notin Modules
      BY ModulesAreNew, CoreIds DEF CoreNames
    <3>3. s.id # "module-registry"
      BY <1>1, <1>3, <3>1, <3>2 DEF StepLike, Same, SessionTypes, DraftTypes
    <3> QED BY <1>3, <3>3 DEF Commands, s
  <2>2. c.step = at
    BY <1>1, <1>2, <2>1
  <2>3. at \notin Root \cup Nested
    BY <1>1, <1>3, StepSets, Apart DEF StepLike, Same, SessionTypes, DraftTypes
  <2> QED BY <2>2, <2>3
<1>4. CASE \E x \in Core : Same(s, x)
  <2>1. PICK x \in Core : Same(s, x)
    BY <1>4
  <2>2. s.kind = x.kind /\ s.of = x.of /\ x.id = at /\ Shaped(x) /\ SpecOf(at) = x
    BY <1>1, <2>1, StepSets, TheCore DEF Same
  <2>3. CASE x.kind = "root" /\ at = "module-registry"
    <3>1. c \in {[Blank(s.id) EXCEPT !.item = m] : m \in Modules}
      BY <1>1, <2>2, <2>3 DEF Commands, s
    <3> QED BY <1>1, <1>2, <2>2, <2>3, <3>1, StepSets, Apart
  <2>4. CASE x.kind = "root" /\ at # "module-registry"
    <3>1. c \in {[Blank(s.id) EXCEPT !.item = i] : i \in Items}
      BY <1>1, <2>2, <2>4 DEF Commands, s
    <3>2. at \notin Nested
      BY <2>1, <2>2, <2>4, StepSets
    <3> QED BY <1>1, <1>2, <2>4, <3>1, <3>2
  <2>5. CASE x.kind = "nested"
    <3>1. c \in {[Blank(s.id) EXCEPT !.item = i] : i \in {j \in items[s.of] : children[s.id][j] < MaxChildren}}
      BY <1>1, <2>2, <2>5 DEF Commands, s, Shaped
    <3>2. at \in Nested /\ at \notin Root
      BY <2>1, <2>2, <2>5, StepSets
    <3>3. items[s.of] \subseteq Items
      BY <2>2, <3>2 DEF SessionTypes, DraftTypes
    <3> QED BY <1>1, <1>2, <3>1, <3>2, <3>3
  <2>6. CASE x.kind = "bind"
    <3>1. c \in UNION {{[Blank(s.id) EXCEPT !.ids = S, !.ok = b] : b \in BOOLEAN} : S \in SUBSET Items}
      BY <1>1, <2>2, <2>6 DEF Commands, s, Shaped
    <3>2. at \notin Root \cup Nested
      BY <2>1, <2>2, <2>6, StepSets
    <3>3. PICK S \in SUBSET Items : c \in {[Blank(s.id) EXCEPT !.ids = S, !.ok = b] : b \in BOOLEAN}
      BY <3>1
    <3>4. PICK b \in BOOLEAN : c = [Blank(s.id) EXCEPT !.ids = S, !.ok = b]
      BY <3>3
    <3>5. c.step = at
      BY <1>1, <1>2, <3>4
    <3> QED BY <3>2, <3>5
  <2>7. CASE x.kind = "review"
    <3>1. c \in {[Blank(s.id) EXCEPT !.life = l] : l \in {"draft", "review", "approved"}}
      BY <1>1, <2>2, <2>7 DEF Commands, s, Shaped
    <3>2. at \notin Root \cup Nested
      BY <2>1, <2>2, <2>7, StepSets
    <3> QED BY <1>1, <1>2, <3>1, <3>2
  <2>8. CASE x.kind = "form"
    BY <1>3, <2>2, <2>8
  <2> QED BY <2>2, <2>3, <2>4, <2>5, <2>6, <2>7, <2>8 DEF Shaped
<1> QED BY <1>1, <1>3, <1>4 DEF StepLike

(* What an applied command has passed.                                     *)
LEMMA WhatApplies ==
  ASSUME SessionTypes, NEW cmd, Applicable(cmd)
  PROVE  /\ cmd.step = at
         /\ at \in Root => scope[at] = "open" /\ Unique(cmd)
         /\ at \in Nested => cmd.item \in nested[at]
         /\ at = "lifecycle-review" => Reviewed(cmd.life)
         /\ at # Complete
<1>1. cmd.step = at
  BY DEF Applicable, Fits
<1>2. at \in Root => scope[at] = "open" /\ Unique(cmd)
  BY <1>1, Apart DEF Applicable
<1>3. at \in Nested => cmd.item \in nested[at]
  BY <1>1, Apart DEF Applicable, StillOpen
<1>4. at = "lifecycle-review" => Reviewed(cmd.life)
  BY <1>1, Apart DEF Applicable
<1>5. at # Complete
  <2> SUFFICES ASSUME at = Complete  PROVE FALSE
    OBVIOUS
  <2>1. Complete # "lifecycle-review" /\ Complete \notin Modules
    BY ModulesAreNew DEF Complete
  <2>2. cmd.step \in DOMAIN configs
    BY <1>1, <2>1, Apart DEF Applicable
  <2> QED BY <1>1, <2>1, <2>2 DEF SessionTypes, DraftTypes
<1> QED BY <1>1, <1>2, <1>3, <1>4, <1>5
-----------------------------------------------------------------------------
(* Steps that leave the draft as it is.                                    *)
LEMMA DraftStays ==
  ASSUME SessionInv, UNCHANGED <<at, stage, scope, nested>>, WaitingFits', DefersFit',
         at = Complete => refs' = {} /\ pending' = NoProposal
  PROVE  SessionInv'
<1>1. SessionTypes' /\ AheadIsOpen'
  BY DEF SessionInv, SessionTypes, DraftTypes, AheadIsOpen, stage, IdsOf
<1>2. CompleteIsBuilt'
  BY DEF SessionInv, CompleteIsBuilt, Buildable, stage
<1> QED BY <1>1, <1>2 DEF SessionInv

(* Steps that go on, or stay, and leave the flow as it is.                 *)
LEMMA WentOn ==
  ASSUME SessionInv, at # Complete, at # "lifecycle-review", at' \in {at, Advanced}, flow' = flow,
         DraftTypes', WaitingFits', refs' = {},
         \A s \in Root \ {at} : scope'[s] = scope[s], at' = at => scope' = scope
  PROVE  SessionInv'
<1>1. /\ Here \in DOMAIN flow /\ flow[Here].id = at
      /\ \A i \in DOMAIN flow : flow[i].id = at => i = Here
      /\ DOMAIN flow = 1 .. Len(flow) /\ Len(flow) \in Nat
  BY PresentStep DEF SessionInv, WellFormed
<1>2. /\ Advanced \in IdsOf(flow) /\ Advanced # Complete /\ Advanced # at
      /\ \A i \in DOMAIN flow : flow[i].id = Advanced => i = Here + 1
  BY GoingOn DEF SessionInv
<1>3. at' \in IdsOf(flow) /\ at' # Complete
  BY <1>1, <1>2 DEF IdsOf
<1>4. SessionTypes'
  BY <1>3 DEF SessionTypes, IdsOf
<1>5. AheadIsOpen'
  <2>1. CASE at' = at
    BY <2>1 DEF SessionInv, AheadIsOpen
  <2>2. CASE at' = Advanced
    <3> SUFFICES ASSUME NEW i \in DOMAIN flow, NEW j \in DOMAIN flow, flow[i].id = Advanced, i <= j, flow[j].id \in Root
                 PROVE  scope'[flow[j].id] = "open"
      BY <2>2 DEF AheadIsOpen
    <3>1. Here <= j /\ j # Here
      BY <1>1, <1>2
    <3>2. scope[flow[j].id] = "open"
      BY <1>1, <3>1 DEF SessionInv, AheadIsOpen
    <3>3. flow[j].id # at
      BY <1>1, <3>1
    <3> QED BY <3>2, <3>3
  <2> QED BY <2>1, <2>2
<1> QED BY <1>3, <1>4, <1>5 DEF SessionInv, DefersFit, CompleteIsBuilt
-----------------------------------------------------------------------------
LEMMA SessionInit ==
  ASSUME Init
  PROVE  SessionInv
<1>1. WellFormed(Compile({}), {})
  BY FlowIsWellFormed
<1>2. at \in IdsOf(flow) /\ DOMAIN configs = {} /\ flow = Compile({})
  BY <1>1 DEF Init, WellFormed, IdsOf
<1>3. at # Complete
  <2>1. IdsOf(flow) = {s.id : s \in Core}
    BY <1>1, <1>2 DEF WellFormed
  <2>2. \A s \in Core : s.id # Complete
    BY TheCore DEF Shaped
  <2> QED BY <1>2, <2>1, <2>2
<1>4. SessionTypes
  BY <1>2, NestedOf DEF Init, SessionTypes, DraftTypes
<1> QED BY <1>3, <1>4 DEF Init, SessionInv, WaitingFits, AheadIsOpen, DefersFit, CompleteIsBuilt

LEMMA RefsDiffer == \A i, j : Ref("defer", 0) # Ref("propose", i) /\ Ref("defer", 0) # Ref("close", j)
                           /\ Ref("defer", 0) # Ref("accept", j) /\ Ref("defer", 0) # Ref("reject", j)
BY DEF Ref

LEMMA IssuesKeep ==
  ASSUME SessionInv, IssueCommand \/ IssueDecision \/ IssueClose \/ IssueDefer
  PROVE  SessionInv'
<1>1. UNCHANGED <<at, stage, scope, nested, pending>>
  BY DEF IssueCommand, IssueDecision, IssueClose, IssueDefer, Issue
<1>2. at # Complete
  <2>1. CASE IssueCommand \/ IssueDefer
    BY <2>1 DEF IssueCommand, IssueDefer
  <2>2. CASE IssueDecision
    BY <2>2 DEF IssueDecision, SessionInv, CompleteIsBuilt
  <2>3. CASE IssueClose
    <3>1. Closable # {}
      BY <2>3 DEF IssueClose
    <3> QED BY <3>1, Apart DEF Closable
  <2> QED BY <2>1, <2>2, <2>3
<1>3. WaitingFits'
  BY <1>1 DEF SessionInv, WaitingFits
<1>4. DefersFit'
  <2> SUFFICES ASSUME Ref("defer", 0) \in refs'  PROVE \A i \in DOMAIN flow : flow[i].id = at => flow[i].canDefer
    BY <1>1 DEF DefersFit, stage
  <2>1. CASE Ref("defer", 0) \in refs
    BY <2>1 DEF SessionInv, DefersFit
  <2>2. CASE Ref("defer", 0) \notin refs
    <3>1. IssueDefer
      BY <2>2, RefsDiffer DEF IssueCommand, IssueDecision, IssueClose, Issue
    <3> QED BY <1>2, <3>1, PresentStep DEF IssueDefer, SessionInv
  <2> QED BY <2>1, <2>2
<1> QED BY <1>1, <1>2, <1>3, <1>4, DraftStays

LEMMA ProposeKeeps ==
  ASSUME SessionInv, Propose
  PROVE  SessionInv'
<1>1. UNCHANGED <<at, stage, scope, nested>> /\ refs' \subseteq refs
  BY DEF Propose, Refuse, Spent
<1>2. at # Complete
  BY DEF Propose, SessionInv, CompleteIsBuilt
<1>3. WaitingFits'
  <2>1. CASE pending' = pending
    BY <2>1 DEF SessionInv, WaitingFits
  <2>2. CASE pending' # pending
    <3>1. PICK c \in Commands(Current) : pending' = [id |-> tries + 1, step |-> at, cmd |-> c]
      BY <2>2 DEF Propose, Refuse
    <3>2. /\ c.step = at
          /\ at \in Root => c.item \in (IF at = "module-registry" THEN Modules ELSE Items)
          /\ at \in Nested => c.item \in Items
      BY <1>2, CommandsFit DEF SessionInv
    <3>3. pending'.cmd = c /\ pending'.step = at
      BY <3>1
    <3> QED BY <3>2, <3>3 DEF WaitingFits
  <2> QED BY <2>1, <2>2
<1>4. DefersFit'
  BY <1>1 DEF SessionInv, DefersFit, stage
<1> QED BY <1>1, <1>2, <1>3, <1>4, DraftStays

LEMMA RefusalKeeps ==
  ASSUME SessionInv, NEW r, r \in refs, Refuse(r)
  PROVE  SessionInv'
<1>1. UNCHANGED <<at, stage, scope, nested, pending>> /\ refs' \subseteq refs
  BY DEF Refuse, Spent
<1>2. WaitingFits' /\ DefersFit'
  BY <1>1 DEF SessionInv, WaitingFits, DefersFit, stage
<1>3. at # Complete
  BY DEF SessionInv, CompleteIsBuilt
<1> QED BY <1>1, <1>2, <1>3, DraftStays

LEMMA RejectKeeps ==
  ASSUME SessionInv, Reject
  PROVE  SessionInv'
<1>1. PICK r \in refs : IF ~Names(r) THEN Refuse(r)
                       ELSE pending' = NoProposal /\ refs' = Spent(r) /\ UNCHANGED <<at, stage, scope, nested, tries>>
  BY DEF Reject
<1>2. CASE Refuse(r)
  BY <1>2, RefusalKeeps
<1>3. CASE ~Refuse(r)
  <2>1. UNCHANGED <<at, stage, scope, nested>> /\ refs' \subseteq refs /\ pending' = NoProposal
    BY <1>1, <1>3 DEF Spent
  <2>2. WaitingFits' /\ DefersFit'
    BY <2>1 DEF SessionInv, WaitingFits, DefersFit, stage
  <2>3. at # Complete
    BY <1>1 DEF SessionInv, CompleteIsBuilt
  <2> QED BY <2>1, <2>2, <2>3, DraftStays
<1> QED BY <1>2, <1>3

LEMMA CloseKeeps ==
  ASSUME SessionInv, CloseCollection
  PROVE  SessionInv'
<1>1. at \in Root \cup Nested /\ UNCHANGED <<stage, pending>> /\ refs' = {} /\ at' \in {at, Advanced}
  BY DEF CloseCollection, Closable, Bumped
<1>2. at # Complete /\ at # "lifecycle-review"
  BY <1>1, Apart
<1>3. CASE at \in Root
  <2>1. scope' = [scope EXCEPT ![at] = "closed"] /\ nested' = nested /\ at' = Advanced
    BY <1>3 DEF CloseCollection
  <2>2. scope' = [s \in Root |-> scope'[s]] /\ \A s \in Root \ {at} : scope'[s] = scope[s]
    BY <2>1 DEF SessionInv, SessionTypes, DraftTypes
  <2>3. DraftTypes'
    BY <1>1, <2>1, <2>2 DEF SessionInv, SessionTypes, DraftTypes, stage
  <2>4. at' # at
    BY <1>2, <2>1, GoingOn DEF SessionInv
  <2>5. WaitingFits'
    BY <1>1 DEF SessionInv, WaitingFits
  <2> QED BY <1>1, <1>2, <2>2, <2>3, <2>4, <2>5, WentOn DEF stage
<1>4. CASE at \notin Root
  <2>1. PICK r \in refs : nested' = [nested EXCEPT ![at] = @ \ {r[2]}] /\ scope' = scope
    BY <1>4 DEF CloseCollection
  <2>2. nested' = [s \in Nested |-> nested'[s]]
    BY <2>1 DEF SessionInv, SessionTypes, DraftTypes
  <2>3. DraftTypes'
    BY <1>1, <2>1, <2>2 DEF SessionInv, SessionTypes, DraftTypes, stage
  <2>4. WaitingFits'
    BY <1>1 DEF SessionInv, WaitingFits
  <2> QED BY <1>1, <1>2, <2>1, <2>3, <2>4, WentOn DEF stage
<1> QED BY <1>3, <1>4

LEMMA DeferKeeps ==
  ASSUME SessionInv, Defer
  PROVE  SessionInv'
<1>1. UNCHANGED <<stage, nested, pending>> /\ refs' = {} /\ at' = Advanced
  BY DEF Defer, Bumped
<1>2. at # Complete
  BY DEF Defer, SessionInv, CompleteIsBuilt
<1>3. at # "lifecycle-review"
  <2>1. flow[Here].id = at /\ flow[Here].canDefer /\ StepLike(flow[Here], DOMAIN configs)
    BY <1>2, PresentStep DEF Defer, SessionInv, DefersFit, WellFormed
  <2>2. \A x \in Core : x.id = "lifecycle-review" => ~x.canDefer
    BY TheCore DEF Shaped
  <2> QED BY <2>1, <2>2, Apart DEF StepLike, Same, SessionInv, SessionTypes, DraftTypes
<1>4. scope' = [s \in Root |-> scope'[s]] /\ \A s \in Root \ {at} : scope'[s] = scope[s]
  BY DEF Defer, SessionInv, SessionTypes, DraftTypes
<1>5. DraftTypes'
  BY <1>1, <1>4 DEF SessionInv, SessionTypes, DraftTypes, stage
<1>6. at' # at
  BY <1>1, <1>2, GoingOn DEF SessionInv
<1>7. WaitingFits'
  BY <1>1 DEF SessionInv, WaitingFits
<1> QED BY <1>1, <1>2, <1>3, <1>4, <1>5, <1>6, <1>7, WentOn DEF stage

(* What accepting a command that is applied does.                          *)
Applies ==
  /\ pending # NoProposal /\ Applicable(pending.cmd) /\ Apply(pending.cmd)
  /\ pending' = NoProposal /\ at' = (IF Leaves(at) THEN Advanced ELSE at)
  /\ refs' = {} /\ UNCHANGED scope

LEMMA AcceptOutcomes ==
  ASSUME Accept
  PROVE  Applies \/ \E r \in refs : Refuse(r)
BY DEF Accept, Applies, Names, Bumped

(* The step at which each command is applied.                              *)
LEMMA AppliedAt ==
  ASSUME SessionInv, Applies
  PROVE  LET cmd == pending.cmd
         IN /\ cmd.step = at /\ pending.step = at /\ at # Complete
            /\ FillForm(cmd) => at \in Forms
            /\ AddItem(cmd) => at \in Root /\ scope[at] = "open" /\ Unique(cmd)
            /\ AddItem(cmd) => cmd.item \in (IF at = "module-registry" THEN Modules ELSE Items)
            /\ AddChild(cmd) => at \in Nested /\ cmd.item \in nested[at] /\ cmd.item \in Items
            /\ Bind(cmd) => at \in Bindings
            /\ Configure(cmd) => at \in DOMAIN configs /\ at \in Modules
            /\ SetLifecycle(cmd) => at = "lifecycle-review" /\ Reviewed(cmd.life)
            /\ Leaves(at) <=> ~AddItem(cmd) /\ ~AddChild(cmd)
<1> DEFINE cmd == pending.cmd
<1>1. /\ cmd.step = at /\ at # Complete
      /\ at \in Root => scope[at] = "open" /\ Unique(cmd)
      /\ at \in Nested => cmd.item \in nested[at]
      /\ at = "lifecycle-review" => Reviewed(cmd.life)
  BY WhatApplies DEF Applies, SessionInv
<1>2. /\ cmd.step = pending.step
      /\ cmd.step \in Root => cmd.item \in (IF cmd.step = "module-registry" THEN Modules ELSE Items)
      /\ cmd.step \in Nested => cmd.item \in Items
  BY DEF Applies, SessionInv, WaitingFits
<1>3. DOMAIN configs \subseteq Modules
  BY DEF SessionInv, SessionTypes, DraftTypes
<1>4. FillForm(cmd) \/ AddItem(cmd) \/ AddChild(cmd) \/ Bind(cmd) \/ Configure(cmd) \/ SetLifecycle(cmd)
  BY DEF Applies, Apply
<1> HIDE DEF cmd
<1>5. /\ FillForm(cmd) => at \in Forms
      /\ AddItem(cmd) => at \in Root
      /\ AddChild(cmd) => at \in Nested
      /\ Bind(cmd) => at \in Bindings
      /\ Configure(cmd) => at \in DOMAIN configs
      /\ SetLifecycle(cmd) => at = "lifecycle-review"
  BY <1>1 DEF FillForm, AddItem, AddChild, Bind, Configure, SetLifecycle
<1>6. Leaves(at) <=> ~AddItem(cmd) /\ ~AddChild(cmd)
  BY <1>3, <1>4, <1>5, Apart DEF Leaves
<1> QED BY <1>1, <1>2, <1>3, <1>5, <1>6 DEF cmd

LEMMA NoWaiting == pending' = NoProposal => WaitingFits'
BY DEF WaitingFits

LEMMA AddItemKeeps ==
  ASSUME SessionInv, Applies, AddItem(pending.cmd)
  PROVE  SessionInv'
<1> DEFINE cmd == pending.cmd
<1>1. /\ cmd.step = at /\ at # Complete /\ at \in Root /\ scope[at] = "open" /\ ~Leaves(at)
      /\ cmd.item \in (IF at = "module-registry" THEN Modules ELSE Items)
  BY AppliedAt
<1>2. at' = at /\ scope' = scope /\ refs' = {} /\ pending' = NoProposal
  BY <1>1 DEF Applies
<1>3. at # "lifecycle-review"
  BY <1>1, Apart
<1> HIDE DEF cmd
<1>4. items' = [items EXCEPT ![at] = @ \cup {cmd.item}] /\ children' = children
  BY <1>1 DEF AddItem, cmd
<1>5. items' \in [Root -> SUBSET (Items \cup Modules)]
  BY <1>1, <1>4 DEF SessionInv, SessionTypes, DraftTypes
<1>6. ASSUME NEW s \in Nested  PROVE items'[SpecOf(s).of] \subseteq Items
  <2>1. SpecOf(s).of \in Root /\ SpecOf(s).of # "module-registry" /\ items[SpecOf(s).of] \subseteq Items
    BY NestedOf DEF SessionInv, SessionTypes, DraftTypes
  <2> QED BY <1>1, <1>4, <2>1 DEF SessionInv, SessionTypes, DraftTypes
<1>7. nested' = [s \in Nested |-> nested'[s]]
  <2>1. nested' = [s \in Nested |-> IF SpecOf(s).of = cmd.step THEN nested[s] \cup {cmd.item} ELSE nested[s]]
    BY DEF AddItem, cmd
  <2> QED BY <2>1
<1>8. CASE at # "module-registry"
  <2>1. configs' = configs /\ flow' = flow
    BY <1>1, <1>8 DEF AddItem, cmd
  <2>2. DraftTypes'
    BY <1>2, <1>4, <1>5, <1>6, <1>7, <2>1 DEF SessionInv, SessionTypes, DraftTypes
  <2> QED BY <1>1, <1>2, <1>3, <2>1, <2>2, WentOn, NoWaiting
<1>9. CASE at = "module-registry"
  <2>1. configs' = [m \in DOMAIN configs \cup {cmd.item} |-> m # cmd.item /\ configs[m]] /\ flow' = Compile(DOMAIN configs \cup {cmd.item})
    BY <1>1, <1>9 DEF AddItem, cmd
  <2>2. DOMAIN configs' = DOMAIN configs \cup {cmd.item}
    BY <2>1
  <2>3. DOMAIN configs' \subseteq Modules /\ flow' = Compile(DOMAIN configs')
    BY <1>1, <1>9, <2>1, <2>2 DEF SessionInv, SessionTypes, DraftTypes
  <2>4. DraftTypes'
    BY <1>2, <1>4, <1>5, <1>6, <1>7, <2>3 DEF SessionInv, SessionTypes, DraftTypes
  <2>5. WellFormed(flow', DOMAIN configs')
    BY <2>3, FlowIsWellFormed
  <2>6. at' \in IdsOf(flow')
    BY <1>1, <1>2, <2>5, StepSets DEF WellFormed
  <2>7. AheadIsOpen'
    <3> SUFFICES ASSUME NEW i \in DOMAIN flow', NEW j \in DOMAIN flow', flow'[i].id = at, i <= j, flow'[j].id \in Root
                 PROVE  scope[flow'[j].id] = "open"
      BY <1>2 DEF AheadIsOpen
    <3>1. CASE i = j
      BY <1>1, <3>1
    <3>2. CASE i # j
      <4>1. DOMAIN flow' = 1 .. Len(flow') /\ i < j
        BY <2>5, <3>2 DEF WellFormed
      <4>2. flow'[j].id \in DOMAIN configs' \cup {"lifecycle-review"}
        BY <1>9, <2>5, <4>1 DEF WellFormed
      <4> QED BY <2>3, <4>2, Apart
    <3> QED BY <3>1, <3>2
  <2>8. SessionTypes'
    BY <2>4, <2>6 DEF SessionTypes, IdsOf
  <2> QED BY <1>1, <1>2, <2>7, <2>8, NoWaiting DEF SessionInv, DefersFit, CompleteIsBuilt
<1> QED BY <1>8, <1>9

LEMMA AppliesKeeps ==
  ASSUME SessionInv, Applies
  PROVE  SessionInv'
<1> DEFINE cmd == pending.cmd
<1>1. cmd.step = at /\ at # Complete /\ refs' = {} /\ pending' = NoProposal /\ scope' = scope
  BY AppliedAt DEF Applies
<1>2. CASE AddItem(cmd)
  BY <1>2, AddItemKeeps
<1>3. CASE FillForm(cmd) \/ Bind(cmd) \/ AddChild(cmd) \/ Configure(cmd)
  <2>1. at # "lifecycle-review" /\ (at' = Advanced \/ at' = at)
    BY <1>3, AppliedAt, Apart DEF Applies
  <2>2. items' = items /\ nested' = nested /\ flow' = flow
    BY <1>3 DEF FillForm, Bind, AddChild, Configure
  <2>3. DOMAIN configs' = DOMAIN configs
    BY <1>3 DEF FillForm, Bind, AddChild, Configure
  <2>4. /\ children' = [s \in Nested |-> children'[s]]
        /\ \A s \in Nested : children'[s] = [i \in Items |-> children'[s][i]]
    <3>1. CASE children' = children
      BY <3>1 DEF SessionInv, SessionTypes, DraftTypes
    <3>2. CASE children' # children
      <4>1. AddChild(cmd) /\ at \in Nested
        BY <1>3, <3>2, AppliedAt DEF FillForm, Bind, Configure
      <4>2. children' = [children EXCEPT ![at][cmd.item] = @ + 1]
        BY <1>1, <4>1 DEF AddChild
      <4> QED BY <4>1, <4>2 DEF SessionInv, SessionTypes, DraftTypes
    <3> QED BY <3>1, <3>2
  <2>5. DraftTypes'
    BY <1>1, <2>2, <2>3, <2>4 DEF SessionInv, SessionTypes, DraftTypes
  <2> QED BY <1>1, <2>1, <2>2, <2>5, WentOn, NoWaiting
<1>4. CASE SetLifecycle(cmd)
  <2>1. at = "lifecycle-review" /\ Reviewed(cmd.life) /\ at' = Advanced
    BY <1>4, AppliedAt, Apart DEF Applies, Leaves
  <2>2. at' = Complete
    BY <1>1, <2>1, GoingOn DEF SessionInv
  <2>3. life' = cmd.life /\ UNCHANGED <<filled, items, children, bound, configs, nested, flow, scope>>
    BY <1>1, <1>4 DEF SetLifecycle
  <2>4. life' # "draft" /\ Buildable(life, FALSE)'
    BY <1>1, <2>1, <2>2, <2>3 DEF Reviewed, Buildable
  <2>5. SessionTypes'
    BY <2>2, <2>3 DEF SessionInv, SessionTypes, DraftTypes, IdsOf
  <2>6. AheadIsOpen'
    <3>1. WellFormed(flow, DOMAIN configs)
      BY <1>1, PresentStep DEF SessionInv
    <3>2. IdsOf(flow) = {s.id : s \in Core} \cup DOMAIN configs
      BY <3>1 DEF WellFormed
    <3>3. Complete \notin DOMAIN configs /\ \A s \in Core : s.id # Complete
      BY ModulesAreNew, TheCore DEF Shaped, SessionInv, SessionTypes, DraftTypes
    <3>4. \A i \in DOMAIN flow : flow[i].id # Complete
      BY <3>2, <3>3 DEF IdsOf
    <3>5. flow' = flow
      BY <2>3
    <3> QED BY <2>2, <3>4, <3>5 DEF AheadIsOpen
  <2> QED BY <1>1, <2>4, <2>5, <2>6, NoWaiting DEF SessionInv, DefersFit, CompleteIsBuilt
<1> QED BY <1>2, <1>3, <1>4 DEF Applies, Apply
-----------------------------------------------------------------------------
LEMMA SessionSteps ==
  ASSUME SessionInv, [Next]_vars
  PROVE  SessionInv'
<1>1. CASE IssueCommand \/ IssueDecision \/ IssueClose \/ IssueDefer
  BY <1>1, IssuesKeep
<1>2. CASE Propose
  BY <1>2, ProposeKeeps
<1>3. CASE Accept
  <2>1. CASE Applies
    BY <2>1, AppliesKeeps
  <2>2. CASE \E r \in refs : Refuse(r)
    BY <2>2, RefusalKeeps
  <2> QED BY <1>3, <2>1, <2>2, AcceptOutcomes
<1>4. CASE Reject
  BY <1>4, RejectKeeps
<1>5. CASE CloseCollection
  BY <1>5, CloseKeeps
<1>6. CASE Defer
  BY <1>6, DeferKeeps
<1>7. CASE UNCHANGED vars
  BY <1>7 DEF vars, SessionInv, SessionTypes, DraftTypes, WaitingFits, AheadIsOpen, DefersFit, CompleteIsBuilt, Buildable, IdsOf
<1> QED BY <1>1, <1>2, <1>3, <1>4, <1>5, <1>6, <1>7 DEF Next

LEMMA SessionAlways == KnowledgeSpec => []SessionInv
<1>1. KnowledgeInit => SessionInv
  BY SessionInit DEF KnowledgeInit
<1>2. SessionInv /\ [KnowledgeNext]_<<part, vars, replyVars, versionVars>> => SessionInv'
  BY SessionSteps DEF KnowledgeNext
<1> QED BY <1>1, <1>2, PTL DEF KnowledgeSpec

(* A collection, or the scope of one of its items, is closed for good.     *)
Frozen ==
  /\ \A s \in Root : scope[s] # "open" => items'[s] = items[s] /\ scope'[s] = scope[s]
  /\ \A s \in Nested : \A i \in items[SpecOf(s).of] \ nested[s] :
       children'[s][i] = children[s][i] /\ i \notin nested'[s]
Previewed == stage' # stage => pending # NoProposal /\ pending.step = at /\ pending' = NoProposal

LEMMA PresentIsOpen ==
  ASSUME SessionInv, at \in Root
  PROVE  scope[at] = "open"
<1>1. at # Complete
  BY Apart
<1>2. Here \in DOMAIN flow /\ flow[Here].id = at /\ DOMAIN flow = 1 .. Len(flow)
  BY <1>1, PresentStep DEF SessionInv, WellFormed
<1>3. Here <= Here
  BY <1>2
<1> QED BY <1>2, <1>3 DEF SessionInv, AheadIsOpen

LEMMA AppliesFreezes ==
  ASSUME SessionInv, Applies
  PROVE  Frozen
<1> DEFINE cmd == pending.cmd
<1>1. cmd.step = at /\ scope' = scope
  BY AppliedAt DEF Applies
<1>2. CASE AddItem(cmd)
  <2>1. at \in Root /\ scope[at] = "open" /\ Unique(cmd)
    BY <1>2, AppliedAt
  <2> HIDE DEF cmd
  <2>2. /\ items' = [items EXCEPT ![at] = @ \cup {cmd.item}] /\ children' = children
        /\ nested' = [s \in Nested |-> IF SpecOf(s).of = at THEN nested[s] \cup {cmd.item} ELSE nested[s]]
    BY <1>1, <1>2 DEF AddItem
  <2>3. ASSUME NEW s \in Root, scope[s] # "open"  PROVE items'[s] = items[s]
    BY <2>1, <2>2, <2>3 DEF SessionInv, SessionTypes, DraftTypes
  <2>4. ASSUME NEW s \in Nested, NEW i \in items[SpecOf(s).of] \ nested[s]  PROVE i \notin nested'[s]
    <3>1. SpecOf(s).of # "relationships"
      BY NestedOf
    <3>2. CASE SpecOf(s).of = at
      <4>1. cmd.item \notin items[at]
        <5>1. at \in SameSpace(at)
          BY <2>1 DEF SameSpace
        <5> QED BY <1>1, <2>1, <3>1, <3>2, <5>1 DEF Unique, cmd
      <4> QED BY <2>2, <2>4, <3>2, <4>1
    <3>3. CASE SpecOf(s).of # at
      BY <2>2, <2>4, <3>3
    <3> QED BY <3>2, <3>3
  <2> QED BY <1>1, <2>2, <2>3, <2>4 DEF Frozen
<1>3. CASE AddChild(cmd)
  <2>1. at \in Nested /\ cmd.item \in nested[at]
    BY <1>3, AppliedAt
  <2> HIDE DEF cmd
  <2>2. items' = items /\ nested' = nested /\ children' = [children EXCEPT ![at][cmd.item] = @ + 1]
    BY <1>1, <1>3 DEF AddChild
  <2>3. ASSUME NEW s \in Nested, NEW i \in items[SpecOf(s).of] \ nested[s]  PROVE children'[s][i] = children[s][i]
    <3>1. i \in Items
      BY <2>3 DEF SessionInv, SessionTypes, DraftTypes
    <3>2. s # at \/ i # cmd.item
      BY <2>1, <2>3
    <3> QED BY <2>2, <3>1, <3>2 DEF SessionInv, SessionTypes, DraftTypes
  <2> QED BY <1>1, <2>2, <2>3 DEF Frozen
<1>4. CASE FillForm(cmd) \/ Bind(cmd) \/ Configure(cmd) \/ SetLifecycle(cmd)
  <2>1. items' = items /\ nested' = nested /\ children' = children
    BY <1>4 DEF FillForm, Bind, Configure, SetLifecycle
  <2> QED BY <1>1, <2>1 DEF Frozen
<1> QED BY <1>2, <1>3, <1>4 DEF Applies, Apply

LEMMA ClosingFreezes ==
  ASSUME SessionInv, CloseCollection \/ Defer
  PROVE  Frozen
<1>1. items' = items /\ children' = children
  BY DEF CloseCollection, Defer, stage
<1>2. at \in Root => scope[at] = "open"
  BY PresentIsOpen
<1>3. ASSUME NEW s \in Root, scope[s] # "open"  PROVE scope'[s] = scope[s]
  <2>1. s # at
    BY <1>2, <1>3
  <2> QED BY <2>1 DEF CloseCollection, Defer, SessionInv, SessionTypes, DraftTypes
<1>4. ASSUME NEW s \in Nested, NEW i \in items[SpecOf(s).of] \ nested[s]  PROVE i \notin nested'[s]
  <2>1. CASE nested' = nested
    BY <1>4, <2>1
  <2>2. CASE nested' # nested
    <3>1. PICK r \in refs : nested' = [nested EXCEPT ![at] = @ \ {r[2]}]
      BY <2>2 DEF CloseCollection, Defer
    <3> QED BY <1>4, <3>1 DEF SessionInv, SessionTypes, DraftTypes
  <2> QED BY <2>1, <2>2
<1> QED BY <1>1, <1>3, <1>4 DEF Frozen

LEMMA OthersFreeze ==
  ASSUME UNCHANGED <<at, stage, scope, nested>>
  PROVE  Frozen /\ Previewed
BY DEF Frozen, Previewed, stage

LEMMA SessionIsReviewed ==
  ASSUME SessionInv, Next
  PROVE  Frozen /\ Previewed
<1>1. CASE IssueCommand \/ IssueDecision \/ IssueClose \/ IssueDefer
  BY <1>1, OthersFreeze DEF IssueCommand, IssueDecision, IssueClose, IssueDefer, Issue
<1>2. CASE Propose \/ Reject \/ \E r \in refs : Refuse(r)
  BY <1>2, OthersFreeze DEF Propose, Reject, Refuse
<1>3. CASE CloseCollection \/ Defer
  <2>1. stage' = stage
    BY <1>3 DEF CloseCollection, Defer
  <2> QED BY <1>3, <2>1, ClosingFreezes DEF Previewed
<1>4. CASE Applies
  <2>1. pending # NoProposal /\ pending.step = at /\ pending' = NoProposal
    BY <1>4, AppliedAt DEF Applies
  <2> QED BY <1>4, <2>1, AppliesFreezes DEF Previewed
<1> QED BY <1>1, <1>2, <1>3, <1>4, AcceptOutcomes DEF Next

(* config_flow.py, is_complete and materialize: a session that is at its   *)
(* end can be built, for any modules and any items: no step was passed     *)
(* with an open scope, an unbound item or a module left unconfigured.      *)
THEOREM CompleteCanBeBuilt == KnowledgeSpec => []CompleteMaterializes
<1>1. SessionInv => CompleteMaterializes
  BY DEF SessionInv, CompleteIsBuilt, CompleteMaterializes
<1> QED BY <1>1, SessionAlways, PTL

(* config_flow.py: what was closed stays as it is, and the draft changes   *)
(* only by an accepted proposal, at the step it was previewed at.          *)
THEOREM SessionAsReviewed == KnowledgeSpec => ReviewedSession
<1> DEFINE Step == Frozen /\ Previewed
<1>1. SessionInv /\ [KnowledgeNext]_<<part, vars, replyVars, versionVars>> => [Step]_vars
  BY SessionIsReviewed DEF KnowledgeNext
<1>2. ClosedIsFrozen <=> [][Frozen]_vars
  BY DEF ClosedIsFrozen, Frozen
<1>3. AppliedWherePreviewed <=> [][Previewed]_vars
  BY DEF AppliedWherePreviewed, Previewed
<1> HIDE DEF Frozen, Previewed
<1> QED BY <1>1, <1>2, <1>3, SessionAlways, PTL DEF KnowledgeSpec, ReviewedSession
-----------------------------------------------------------------------------
(* The families above a product.                                           *)
Above(c, S) == S \cup Reply!Parents(c, S)
Climbs(c, S, d, n) == d = [k \in 0 .. n |-> IF k = 0 THEN S ELSE Above(c, d[k - 1])]

LEMMA ClimbExists ==
  ASSUME NEW c, NEW S, NEW n \in Nat
  PROVE  \E d : Climbs(c, S, d, n)
<1> DEFINE T == {k \in Nat : \E d : Climbs(c, S, d, k)}
<1>1. 0 \in T
  <2> DEFINE d == [k \in 0 .. 0 |-> S]
  <2>1. Climbs(c, S, d, 0)
    BY DEF Climbs
  <2> QED BY <2>1
<1>2. ASSUME NEW k \in Nat, k \in T  PROVE k + 1 \in T
  <2>1. PICK d : Climbs(c, S, d, k)
    BY <1>2
  <2> DEFINE e == [j \in 0 .. k + 1 |-> IF j = 0 THEN S ELSE Above(c, d[j - 1])]
  <2>2. d = [j \in 0 .. k |-> IF j = 0 THEN S ELSE Above(c, d[j - 1])]
    BY <2>1 DEF Climbs
  <2>3. \A j \in 0 .. k : d[j] = IF j = 0 THEN S ELSE Above(c, d[j - 1])
    BY <2>2
  <2>4. \A j \in 0 .. k : e[j] = d[j]
    BY <2>3
  <2>5. \A j \in 1 .. k + 1 : e[j - 1] = d[j - 1]
    <3> HIDE DEF e
    <3>1. \A j \in 1 .. k + 1 : j - 1 \in 0 .. k
      OBVIOUS
    <3> QED BY <2>4, <3>1
  <2>6. e = [j \in 0 .. k + 1 |-> IF j = 0 THEN S ELSE Above(c, e[j - 1])]
    <3>1. \A j \in 0 .. k + 1 : (IF j = 0 THEN S ELSE Above(c, d[j - 1])) = IF j = 0 THEN S ELSE Above(c, e[j - 1])
      <4> HIDE DEF e
      <4> SUFFICES ASSUME NEW j \in 0 .. k + 1
                   PROVE  (IF j = 0 THEN S ELSE Above(c, d[j - 1])) = IF j = 0 THEN S ELSE Above(c, e[j - 1])
        OBVIOUS
      <4>1. CASE j = 0
        BY <4>1
      <4>2. CASE j # 0
        <5>1. j \in 1 .. k + 1
          BY <4>2
        <5>2. e[j - 1] = d[j - 1]
          BY <2>5, <5>1
        <5> QED BY <4>2, <5>2
      <4> QED BY <4>1, <4>2
    <3> QED BY <3>1
  <2>7. Climbs(c, S, e, k + 1)
    BY <2>6 DEF Climbs
  <2> QED BY <2>7
<1> HIDE DEF T
<1>3. Nat \subseteq T
  BY <1>1, <1>2, Counting
<1> QED BY <1>3 DEF T

LEMMA SameCounting ==
  ASSUME NEW S
  PROVE  Reply!Cardinality(S) = Cardinality(S) /\ (Reply!IsFiniteSet(S) <=> IsFiniteSet(S))
<1>1. Reply!Cardinality(S) = Cardinality(S)
  BY DEF Reply!Cardinality, Cardinality
<1>2. Reply!IsFiniteSet(S) <=> IsFiniteSet(S)
  BY DEF Reply!IsFiniteSet, IsFiniteSet
<1> QED BY <1>1, <1>2

LEMMA LineageClimbs ==
  ASSUME NEW c, NEW S, Cardinality(c.isa) \in Nat
  PROVE  \E d : /\ Reply!Lineage(c, S) = d[Cardinality(c.isa)] /\ d[0] = S
                /\ \A k \in 1 .. Cardinality(c.isa) : d[k] = Above(c, d[k - 1])
<1> DEFINE N == Cardinality(c.isa)
           up == CHOOSE d : Climbs(c, S, d, N)
<1>1. Climbs(c, S, up, N)
  BY ClimbExists
<1>2. Reply!Lineage(c, S) = up[N]
  <2>1. Reply!Cardinality(c.isa) = N
    BY SameCounting
  <2> HIDE DEF N
  <2> QED BY <2>1, Zenon DEF Reply!Lineage, Climbs, Above
<1> HIDE DEF up, N
<1>3. up = [k \in 0 .. N |-> IF k = 0 THEN S ELSE Above(c, up[k - 1])]
  BY <1>1 DEF Climbs
<1>4. \A k \in 0 .. N : up[k] = IF k = 0 THEN S ELSE Above(c, up[k - 1])
  BY <1>3
<1>5. N \in Nat
  BY DEF N
<1>6. up[0] = S /\ \A k \in 1 .. N : up[k] = Above(c, up[k - 1])
  BY <1>4, <1>5
<1> QED BY <1>2, <1>6 DEF N

LEMMA LineageHolds ==
  ASSUME NEW c, NEW S, IsFiniteSet(c.isa)
  PROVE  S \subseteq Reply!Lineage(c, S) /\ Reply!Parents(c, S) \subseteq Reply!Lineage(c, S)
<1> DEFINE N == Cardinality(c.isa)
<1>1. N \in Nat
  BY FS_CardinalityType
<1>2. PICK d : Reply!Lineage(c, S) = d[N] /\ d[0] = S /\ \A k \in 1 .. N : d[k] = Above(c, d[k - 1])
  BY <1>1, LineageClimbs
<1> HIDE DEF N
<1> DEFINE T == {k \in Nat : k <= N => S \subseteq d[k] /\ (k >= 1 => Reply!Parents(c, S) \subseteq d[k])}
<1>3. 0 \in T
  BY <1>2
<1>4. ASSUME NEW k \in Nat, k \in T  PROVE k + 1 \in T
  <2> SUFFICES ASSUME k + 1 <= N  PROVE S \subseteq d[k + 1] /\ Reply!Parents(c, S) \subseteq d[k + 1]
    OBVIOUS
  <2>1. k + 1 \in 1 .. N /\ (k + 1) - 1 = k /\ k <= N
    BY <1>1
  <2>2. d[k + 1] = Above(c, d[k])
    BY <1>2, <2>1
  <2>3. S \subseteq d[k] /\ (k >= 1 => Reply!Parents(c, S) \subseteq d[k])
    BY <1>4, <2>1
  <2>4. CASE k = 0
    BY <1>2, <2>2, <2>4 DEF Above
  <2>5. CASE k >= 1
    BY <2>2, <2>3, <2>5 DEF Above
  <2> QED BY <2>4, <2>5
<1> HIDE DEF T
<1>5. N \in T
  BY <1>1, <1>3, <1>4, Counting
<1>6. CASE N = 0
  <2>1. c.isa = {}
    BY <1>6, FS_EmptySet DEF N
  <2>2. Reply!Parents(c, S) = {}
    BY <2>1 DEF Reply!Parents
  <2> QED BY <1>2, <1>6, <2>2
<1>7. CASE N # 0
  BY <1>1, <1>2, <1>5, <1>7 DEF T
<1> QED BY <1>6, <1>7

LEMMA LineageGrows ==
  ASSUME NEW c, NEW S, NEW W, S \subseteq W, IsFiniteSet(c.isa)
  PROVE  Reply!Lineage(c, S) \subseteq Reply!Lineage(c, W)
<1> DEFINE N == Cardinality(c.isa)
<1>1. N \in Nat
  BY FS_CardinalityType
<1>2. PICK d : Reply!Lineage(c, S) = d[N] /\ d[0] = S /\ \A k \in 1 .. N : d[k] = Above(c, d[k - 1])
  BY <1>1, LineageClimbs
<1>3. PICK e : Reply!Lineage(c, W) = e[N] /\ e[0] = W /\ \A k \in 1 .. N : e[k] = Above(c, e[k - 1])
  BY <1>1, LineageClimbs
<1> HIDE DEF N
<1> DEFINE T == {k \in Nat : k <= N => d[k] \subseteq e[k]}
<1>4. 0 \in T
  BY <1>2, <1>3
<1>5. ASSUME NEW k \in Nat, k \in T  PROVE k + 1 \in T
  <2> SUFFICES ASSUME k + 1 <= N  PROVE d[k + 1] \subseteq e[k + 1]
    OBVIOUS
  <2>1. k + 1 \in 1 .. N /\ (k + 1) - 1 = k /\ k <= N
    BY <1>1
  <2>2. d[k + 1] = Above(c, d[k]) /\ e[k + 1] = Above(c, e[k])
    BY <1>2, <1>3, <2>1
  <2>3. d[k] \subseteq e[k]
    BY <1>5, <2>1
  <2> QED BY <2>2, <2>3 DEF Above, Reply!Parents
<1> HIDE DEF T
<1>6. N \in T
  BY <1>1, <1>4, <1>5, Counting
<1> QED BY <1>1, <1>2, <1>3, <1>6 DEF T
-----------------------------------------------------------------------------
(* The ids of a part that are not rendered yet.                            *)
OneSeen(ids, R, rest, i) == IF ids[i] \in R THEN rest ELSE Append(rest, ids[i])
Sieves(ids, R, d, n) == d = [k \in 0 .. n |-> IF k = 0 THEN <<>> ELSE OneSeen(ids, R, d[k - 1], k)]

LEMMA SieveExists ==
  ASSUME NEW ids, NEW R, NEW n \in Nat
  PROVE  \E d : Sieves(ids, R, d, n)
<1> DEFINE T == {k \in Nat : \E d : Sieves(ids, R, d, k)}
<1>1. 0 \in T
  <2> DEFINE d == [k \in 0 .. 0 |-> <<>>]
  <2>1. Sieves(ids, R, d, 0)
    BY DEF Sieves
  <2> QED BY <2>1
<1>2. ASSUME NEW k \in Nat, k \in T  PROVE k + 1 \in T
  <2>1. PICK d : Sieves(ids, R, d, k)
    BY <1>2
  <2> DEFINE e == [j \in 0 .. k + 1 |-> IF j = 0 THEN <<>> ELSE OneSeen(ids, R, d[j - 1], j)]
  <2>2. d = [j \in 0 .. k |-> IF j = 0 THEN <<>> ELSE OneSeen(ids, R, d[j - 1], j)]
    BY <2>1 DEF Sieves
  <2>3. \A j \in 0 .. k : d[j] = IF j = 0 THEN <<>> ELSE OneSeen(ids, R, d[j - 1], j)
    BY <2>2
  <2>4. \A j \in 0 .. k : e[j] = d[j]
    BY <2>3
  <2>5. \A j \in 1 .. k + 1 : e[j - 1] = d[j - 1]
    <3> HIDE DEF e
    <3>1. \A j \in 1 .. k + 1 : j - 1 \in 0 .. k
      OBVIOUS
    <3> QED BY <2>4, <3>1
  <2>6. e = [j \in 0 .. k + 1 |-> IF j = 0 THEN <<>> ELSE OneSeen(ids, R, e[j - 1], j)]
    <3>1. \A j \in 0 .. k + 1 : (IF j = 0 THEN <<>> ELSE OneSeen(ids, R, d[j - 1], j)) = IF j = 0 THEN <<>> ELSE OneSeen(ids, R, e[j - 1], j)
      <4> HIDE DEF e
      <4> SUFFICES ASSUME NEW j \in 0 .. k + 1
                   PROVE  (IF j = 0 THEN <<>> ELSE OneSeen(ids, R, d[j - 1], j)) = IF j = 0 THEN <<>> ELSE OneSeen(ids, R, e[j - 1], j)
        OBVIOUS
      <4>1. CASE j = 0
        BY <4>1
      <4>2. CASE j # 0
        <5>1. j \in 1 .. k + 1
          BY <4>2
        <5>2. e[j - 1] = d[j - 1]
          BY <2>5, <5>1
        <5> QED BY <4>2, <5>2
      <4> QED BY <4>1, <4>2
    <3> QED BY <3>1
  <2>7. Sieves(ids, R, e, k + 1)
    BY <2>6 DEF Sieves
  <2> QED BY <2>7
<1> HIDE DEF T
<1>3. Nat \subseteq T
  BY <1>1, <1>2, Counting
<1> QED BY <1>3 DEF T

LEMMA SievesAre ==
  ASSUME NEW ids, NEW R, Len(ids) \in Nat
  PROVE  \E d : /\ Reply!Unseen(ids, R) = d[Len(ids)] /\ d[0] = <<>>
                /\ \A k \in 1 .. Len(ids) : d[k] = OneSeen(ids, R, d[k - 1], k)
<1> DEFINE N == Len(ids)
           d == CHOOSE r : Sieves(ids, R, r, N)
<1>1. Sieves(ids, R, d, N)
  BY SieveExists
<1>2. Reply!Unseen(ids, R) = d[N]
  BY Zenon DEF Reply!Unseen, Sieves, OneSeen
<1> HIDE DEF d, N
<1>3. d = [k \in 0 .. N |-> IF k = 0 THEN <<>> ELSE OneSeen(ids, R, d[k - 1], k)]
  BY <1>1 DEF Sieves
<1>4. \A k \in 0 .. N : d[k] = IF k = 0 THEN <<>> ELSE OneSeen(ids, R, d[k - 1], k)
  BY <1>3
<1>5. N \in Nat
  BY DEF N
<1>6. d[0] = <<>> /\ \A k \in 1 .. N : d[k] = OneSeen(ids, R, d[k - 1], k)
  BY <1>4, <1>5
<1> QED BY <1>2, <1>6 DEF N

LEMMA JoinHolds ==
  ASSUME NEW U, NEW s \in Seq(U), NEW r \in Seq(U)
  PROVE  /\ s \o r \in Seq(U)
         /\ \A z : z \in Reply!ToSet(s) => z \in Reply!ToSet(s \o r)
         /\ \A z : z \in Reply!ToSet(r) => z \in Reply!ToSet(s \o r)
<1> DEFINE L == Len(s)
           M == Len(r)
           j == s \o r
<1>1. j \in Seq(U) /\ Len(j) = L + M /\ L \in Nat /\ M \in Nat
  OBVIOUS
<1>2. \A i \in 1 .. L : j[i] = s[i]
  OBVIOUS
<1>3. \A i \in 1 .. M : j[L + i] = r[i]
  OBVIOUS
<1>4. /\ Reply!ToSet(s) = {s[i] : i \in 1 .. L} /\ Reply!ToSet(r) = {r[i] : i \in 1 .. M}
      /\ Reply!ToSet(j) = {j[i] : i \in 1 .. Len(j)}
  BY DEF Reply!ToSet
<1> HIDE DEF j, L, M
<1>5. ASSUME NEW z, z \in Reply!ToSet(s)  PROVE z \in Reply!ToSet(j)
  <2>1. PICK i \in 1 .. L : z = s[i]
    BY <1>4, <1>5
  <2>2. i \in 1 .. Len(j)
    BY <1>1
  <2> QED BY <1>2, <1>4, <2>1, <2>2
<1>6. ASSUME NEW z, z \in Reply!ToSet(r)  PROVE z \in Reply!ToSet(j)
  <2>1. PICK i \in 1 .. M : z = r[i]
    BY <1>4, <1>6
  <2>2. L + i \in 1 .. Len(j)
    BY <1>1
  <2> QED BY <1>3, <1>4, <2>1, <2>2
<1> QED BY <1>1, <1>5, <1>6 DEF j

LEMMA UnseenIs ==
  ASSUME NEW U, NEW ids \in Seq(U), NEW R
  PROVE  /\ Reply!Unseen(ids, R) \in Seq(U)
         /\ \A x \in Reply!ToSet(ids) \ R : x \in Reply!ToSet(Reply!Unseen(ids, R))
<1> DEFINE N == Len(ids)
<1>1. N \in Nat /\ \A k \in 1 .. N : ids[k] \in U
  OBVIOUS
<1>2. PICK d : /\ Reply!Unseen(ids, R) = d[N] /\ d[0] = <<>>
               /\ \A k \in 1 .. N : d[k] = OneSeen(ids, R, d[k - 1], k)
  BY <1>1, SievesAre
<1>3. Reply!ToSet(ids) = {ids[i] : i \in 1 .. N}
  BY DEF Reply!ToSet
<1> HIDE DEF N
<1> DEFINE Kept(k) == \A i \in 1 .. k : ids[i] \in R \/ \E j \in 1 .. Len(d[k]) : d[k][j] = ids[i]
           T == {k \in Nat : k <= N => d[k] \in Seq(U) /\ Kept(k)}
<1>4. 0 \in T
  <2>1. d[0] \in Seq(U)
    BY <1>2
  <2>2. Kept(0)
    OBVIOUS
  <2> QED BY <2>1, <2>2
<1>5. ASSUME NEW k \in Nat, k \in T  PROVE k + 1 \in T
  <2> SUFFICES ASSUME k + 1 <= N  PROVE d[k + 1] \in Seq(U) /\ Kept(k + 1)
    OBVIOUS
  <2>1. k + 1 \in 1 .. N /\ (k + 1) - 1 = k /\ k <= N
    BY <1>1
  <2>2. d[k + 1] = IF ids[k + 1] \in R THEN d[k] ELSE Append(d[k], ids[k + 1])
    BY <1>2, <2>1 DEF OneSeen
  <2>3. d[k] \in Seq(U) /\ Kept(k)
    BY <1>5, <2>1
  <2> DEFINE a == d[k]
             b == d[k + 1]
             x == ids[k + 1]
  <2>4. x \in U
    BY <1>1, <2>1
  <2>5. CASE x \in R
    <3>1. b = a
      BY <2>2, <2>5
    <3>2. Kept(k + 1)
      BY <2>1, <2>3, <2>5, <3>1
    <3> QED BY <2>3, <3>1, <3>2
  <2>6. CASE x \notin R
    <3>1. b = Append(a, x)
      BY <2>2, <2>6
    <3>2. a \in Seq(U)
      BY <2>3
    <3>3. \A i \in 1 .. k : ids[i] \in R \/ \E j \in 1 .. Len(a) : a[j] = ids[i]
      BY <2>3
    <3> HIDE DEF a, b
    <3>4. b \in Seq(U) /\ Len(b) = Len(a) + 1 /\ b[Len(b)] = x
      BY <2>4, <3>1, <3>2
    <3>5. \A j \in 1 .. Len(a) : b[j] = a[j] /\ j \in 1 .. Len(b)
      BY <2>4, <3>1, <3>2
    <3>6. Len(a) \in Nat /\ Len(b) \in 1 .. Len(b)
      BY <3>2, <3>4
    <3>7. ASSUME NEW i \in 1 .. k + 1  PROVE ids[i] \in R \/ \E j \in 1 .. Len(b) : b[j] = ids[i]
      <4>1. CASE i = k + 1
        BY <3>4, <3>6, <4>1
      <4>2. CASE i # k + 1
        <5>1. i \in 1 .. k
          BY <4>2
        <5> QED BY <3>3, <3>5, <5>1
      <4> QED BY <4>1, <4>2
    <3> QED BY <3>4, <3>7 DEF b
  <2> QED BY <2>5, <2>6
<1> HIDE DEF T
<1>6. N \in T
  BY <1>1, <1>4, <1>5, Counting
<1>7. d[N] \in Seq(U) /\ Kept(N)
  BY <1>1, <1>6 DEF T
<1>8. Reply!ToSet(d[N]) = {d[N][i] : i \in 1 .. Len(d[N])}
  BY <1>7 DEF Reply!ToSet
<1> QED BY <1>2, <1>3, <1>7, <1>8
-----------------------------------------------------------------------------
(* The parts of a reply, one request after the other.                      *)
Deferred == [status |-> "deferred", facts |-> <<>>]
OnePart(c, suffix, ds, acc, i) == Reply!AddPart(c, suffix, acc, ds[i])
Rendered(c, suffix, ds, d, n) ==
    d = [k \in 0 .. n |-> IF k = 0 THEN Reply!NoParts ELSE OnePart(c, suffix, ds, d[k - 1], k)]

LEMMA RenderedExists ==
  ASSUME NEW c, NEW suffix, NEW ds, NEW n \in Nat
  PROVE  \E d : Rendered(c, suffix, ds, d, n)
<1> DEFINE T == {k \in Nat : \E d : Rendered(c, suffix, ds, d, k)}
<1>1. 0 \in T
  <2> DEFINE d == [k \in 0 .. 0 |-> Reply!NoParts]
  <2>1. Rendered(c, suffix, ds, d, 0)
    BY DEF Rendered
  <2> QED BY <2>1
<1>2. ASSUME NEW k \in Nat, k \in T  PROVE k + 1 \in T
  <2>1. PICK d : Rendered(c, suffix, ds, d, k)
    BY <1>2
  <2> DEFINE e == [j \in 0 .. k + 1 |-> IF j = 0 THEN Reply!NoParts ELSE OnePart(c, suffix, ds, d[j - 1], j)]
  <2>2. d = [j \in 0 .. k |-> IF j = 0 THEN Reply!NoParts ELSE OnePart(c, suffix, ds, d[j - 1], j)]
    BY <2>1 DEF Rendered
  <2>3. \A j \in 0 .. k : d[j] = IF j = 0 THEN Reply!NoParts ELSE OnePart(c, suffix, ds, d[j - 1], j)
    BY <2>2
  <2>4. \A j \in 0 .. k : e[j] = d[j]
    BY <2>3
  <2>5. \A j \in 1 .. k + 1 : e[j - 1] = d[j - 1]
    <3> HIDE DEF e
    <3>1. \A j \in 1 .. k + 1 : j - 1 \in 0 .. k
      OBVIOUS
    <3> QED BY <2>4, <3>1
  <2>6. e = [j \in 0 .. k + 1 |-> IF j = 0 THEN Reply!NoParts ELSE OnePart(c, suffix, ds, e[j - 1], j)]
    <3>1. \A j \in 0 .. k + 1 : (IF j = 0 THEN Reply!NoParts ELSE OnePart(c, suffix, ds, d[j - 1], j)) = IF j = 0 THEN Reply!NoParts ELSE OnePart(c, suffix, ds, e[j - 1], j)
      <4> HIDE DEF e
      <4> SUFFICES ASSUME NEW j \in 0 .. k + 1
                   PROVE  (IF j = 0 THEN Reply!NoParts ELSE OnePart(c, suffix, ds, d[j - 1], j)) = IF j = 0 THEN Reply!NoParts ELSE OnePart(c, suffix, ds, e[j - 1], j)
        OBVIOUS
      <4>1. CASE j = 0
        BY <4>1
      <4>2. CASE j # 0
        <5>1. j \in 1 .. k + 1
          BY <4>2
        <5>2. e[j - 1] = d[j - 1]
          BY <2>5, <5>1
        <5> QED BY <4>2, <5>2
      <4> QED BY <4>1, <4>2
    <3> QED BY <3>1
  <2>7. Rendered(c, suffix, ds, e, k + 1)
    BY <2>6 DEF Rendered
  <2> QED BY <2>7
<1> HIDE DEF T
<1>3. Nat \subseteq T
  BY <1>1, <1>2, Counting
<1> QED BY <1>3 DEF T

LEMMA PartsAre ==
  ASSUME NEW c, NEW suffix, NEW ds, NEW n \in Nat
  PROVE  \E d : /\ Reply!Parts(c, suffix, ds, n) = d[n] /\ d[0] = Reply!NoParts
                /\ \A k \in 1 .. n : d[k] = OnePart(c, suffix, ds, d[k - 1], k)
<1> DEFINE d == CHOOSE r : Rendered(c, suffix, ds, r, n)
<1>1. Rendered(c, suffix, ds, d, n)
  BY RenderedExists
<1>2. Reply!Parts(c, suffix, ds, n) = d[n]
  BY Zenon DEF Reply!Parts, Rendered, OnePart
<1> HIDE DEF d
<1>3. d = [k \in 0 .. n |-> IF k = 0 THEN Reply!NoParts ELSE OnePart(c, suffix, ds, d[k - 1], k)]
  BY <1>1 DEF Rendered
<1>4. \A k \in 0 .. n : d[k] = IF k = 0 THEN Reply!NoParts ELSE OnePart(c, suffix, ds, d[k - 1], k)
  BY <1>3
<1>5. d[0] = Reply!NoParts /\ \A k \in 1 .. n : d[k] = OnePart(c, suffix, ds, d[k - 1], k)
  BY <1>4
<1> QED BY <1>2, <1>5

\* One more part: what was rendered stays, and the trace grows by one entry,
\* the decision itself with all its facts rendered, or a part put off.
IsPart(d, facts, x) ==
    x = Deferred \/ (x = d /\ \A y \in Reply!ToSet(d.facts) : y \in Reply!ToSet(facts))

Grown(U, d, acc, more) ==
    /\ more = [facts |-> more.facts, n |-> more.n, len |-> more.len, trace |-> more.trace]
    /\ \E new \in Seq(U) : more.facts = acc.facts \o new
    /\ \E x : more.trace = Append(acc.trace, x) /\ IsPart(d, more.facts, x)

LEMMA OneMorePart ==
  ASSUME NEW c, NEW suffix, NEW U, NEW acc, NEW d,
         acc = [facts |-> acc.facts, n |-> acc.n, len |-> acc.len, trace |-> acc.trace],
         acc.facts \in Seq(U), d.facts \in Seq(U)
  PROVE  Grown(U, d, acc, Reply!AddPart(c, suffix, acc, d))
<1> DEFINE more == Reply!AddPart(c, suffix, acc, d)
           new == Reply!ToSet(d.facts) \ Reply!ToSet(acc.facts)
           rest == Reply!Unseen(d.facts, Reply!ToSet(acc.facts))
<1>1. CASE new # {} /\ ~Reply!Fits(c, suffix, acc, new)
  <2>1. more = [acc EXCEPT !.trace = Append(@, Deferred)]
    BY <1>1 DEF Reply!AddPart, Deferred
  <2>2. more = [facts |-> acc.facts, n |-> acc.n, len |-> acc.len, trace |-> Append(acc.trace, Deferred)]
    BY <2>1
  <2> HIDE DEF more
  <2>3. more.facts = acc.facts \o <<>> /\ <<>> \in Seq(U)
    BY <2>2
  <2>4. more.trace = Append(acc.trace, Deferred)
    BY <2>2
  <2>5. IsPart(d, more.facts, Deferred)
    BY DEF IsPart
  <2>6. more = [facts |-> more.facts, n |-> more.n, len |-> more.len, trace |-> more.trace]
    BY <2>2
  <2>7. Grown(U, d, acc, more)
    BY <2>3, <2>4, <2>5, <2>6 DEF Grown
  <2> QED BY <2>7 DEF more
<1>2. CASE ~(new # {} /\ ~Reply!Fits(c, suffix, acc, new))
  <2>1. more = [facts |-> acc.facts \o rest,
                n |-> acc.n + Reply!Cardinality(new), len |-> acc.len + Reply!TextLen(c, new),
                trace |-> Append(acc.trace, d)]
    BY <1>2, Zenon DEF Reply!AddPart
  <2>2. rest \in Seq(U) /\ \A x \in Reply!ToSet(d.facts) \ Reply!ToSet(acc.facts) : x \in Reply!ToSet(rest)
    BY UnseenIs
  <2> HIDE DEF more, rest
  <2>3. more.facts = acc.facts \o rest /\ more.trace = Append(acc.trace, d)
    BY <2>1
  <2>4. ASSUME NEW y \in Reply!ToSet(d.facts)  PROVE y \in Reply!ToSet(more.facts)
    <3>1. y \in Reply!ToSet(acc.facts) \/ y \in Reply!ToSet(rest)
      BY <2>2
    <3>2. y \in Reply!ToSet(acc.facts \o rest)
      BY <2>2, <3>1, JoinHolds
    <3> QED BY <2>3, <3>2
  <2>5. IsPart(d, more.facts, d)
    BY <2>4 DEF IsPart
  <2>6. more = [facts |-> more.facts, n |-> more.n, len |-> more.len, trace |-> more.trace]
    BY <2>1
  <2> QED BY <2>2, <2>3, <2>5, <2>6 DEF Grown, more
<1> QED BY <1>1, <1>2

\* A composed reply has one entry of the trace for each request, and the facts
\* of an entry that was not put off are all in it.
LEMMA PartsHold ==
  ASSUME NEW c, NEW suffix, NEW U, NEW ds, NEW n \in Nat,
         \A k \in 1 .. n : ds[k].facts \in Seq(U)
  PROVE  LET body == Reply!Parts(c, suffix, ds, n) IN
         /\ body.facts \in Seq(U) /\ DOMAIN body.trace = 1 .. n
         /\ \A k \in 1 .. n : IsPart(ds[k], body.facts, body.trace[k])
<1>0. n \in Nat
  OBVIOUS
<1>1. PICK d : /\ Reply!Parts(c, suffix, ds, n) = d[n] /\ d[0] = Reply!NoParts
               /\ \A k \in 1 .. n : d[k] = OnePart(c, suffix, ds, d[k - 1], k)
  BY ONLY <1>0, PartsAre
<1> DEFINE A(x) == [facts |-> x.facts, n |-> x.n, len |-> x.len, trace |-> x.trace]
           W == UNION {{ds[i], Deferred} : i \in 1 .. n}
           Good(a, k) == /\ a = A(a) /\ a.facts \in Seq(U)
                         /\ a.trace \in Seq(W) /\ Len(a.trace) = k
                         /\ \A i \in 1 .. k : IsPart(ds[i], a.facts, a.trace[i])
           T == {k \in Nat : k <= n => Good(d[k], k)}
<1>2. 0 \in T
  <2>1. d[0] = [facts |-> <<>>, n |-> 0, len |-> 0, trace |-> <<>>]
    BY <1>1 DEF Reply!NoParts
  <2> HIDE DEF W
  <2>2. Good(d[0], 0)
    BY <2>1
  <2> QED BY <2>2
<1>3. ASSUME NEW k \in Nat, k \in T  PROVE k + 1 \in T
  <2> SUFFICES ASSUME k + 1 <= n  PROVE Good(d[k + 1], k + 1)
    OBVIOUS
  <2>1. k + 1 \in 1 .. n /\ (k + 1) - 1 = k /\ k <= n
    OBVIOUS
  <2> DEFINE a == d[k]
             b == d[k + 1]
             e == ds[k + 1]
  <2>2. Good(a, k)
    BY <1>3, <2>1
  <2>3. b = Reply!AddPart(c, suffix, a, e)
    BY <1>1, <2>1 DEF OnePart
  <2>4. e.facts \in Seq(U)
    BY <2>1
  <2>5. e \in W /\ Deferred \in W
    BY <2>1
  <2> HIDE DEF a, b, W
  <2>6. Grown(U, e, a, b)
    BY <2>2, <2>3, <2>4, OneMorePart
  <2> HIDE DEF e
  <2>7. PICK new \in Seq(U) : b.facts = a.facts \o new
    BY <2>6 DEF Grown
  <2>8. PICK x : b.trace = Append(a.trace, x) /\ IsPart(e, b.facts, x)
    BY <2>6 DEF Grown
  <2>9. b = A(b)
    BY <2>6 DEF Grown
  <2>10. b.facts \in Seq(U) /\ \A z : z \in Reply!ToSet(a.facts) => z \in Reply!ToSet(b.facts)
    BY <2>2, <2>7, JoinHolds
  <2>11. x \in W
    BY <2>5, <2>8 DEF IsPart
  <2> DEFINE ta == a.trace
             tb == b.trace
  <2>12. ta \in Seq(W) /\ Len(ta) = k /\ tb = Append(ta, x)
    BY <2>2, <2>8
  <2> HIDE DEF ta, tb
  <2>13. tb \in Seq(W) /\ Len(tb) = k + 1 /\ tb[k + 1] = x /\ \A i \in 1 .. k : tb[i] = ta[i]
    BY <2>11, <2>12
  <2>14. ASSUME NEW i \in 1 .. k + 1  PROVE IsPart(ds[i], b.facts, tb[i])
    <3>1. CASE i = k + 1
      BY <2>8, <2>13, <3>1 DEF e
    <3>2. CASE i # k + 1
      <4>1. i \in 1 .. k
        BY <3>2
      <4>2. IsPart(ds[i], a.facts, ta[i])
        BY <2>2, <4>1 DEF ta
      <4>3. tb[i] = ta[i]
        BY <2>13, <4>1
      <4> QED BY <2>10, <4>2, <4>3 DEF IsPart
    <3> QED BY <3>1, <3>2
  <2>15. Good(b, k + 1)
    BY <2>9, <2>10, <2>13, <2>14 DEF tb
  <2> QED BY <2>15 DEF b
<1> HIDE DEF T
<1>4. n \in T
  BY <1>2, <1>3, Counting
<1>5. Good(d[n], n)
  BY <1>4 DEF T
<1> DEFINE body == d[n]
<1> HIDE DEF body, W
<1>6. body.trace \in Seq(W) /\ Len(body.trace) = n
  BY <1>5 DEF body
<1>7. DOMAIN body.trace = 1 .. n
  BY <1>6
<1> QED BY <1>1, <1>5, <1>7 DEF body
-----------------------------------------------------------------------------
(* What a catalogue is.                                                    *)
LEMMA CatalogueIs ==
  ASSUME NEW c \in Catalogues
  PROVE  /\ IsFiniteSet(c.isa)
         /\ c.unknown \in {"handoff", "ask_clarification", "decline"}
         /\ \A f, g \in c.facts : f.id = g.id => f = g
         /\ \A f \in c.facts : f.id # Reply!None /\ (f.id \in c.smallTalk => f.category = "social")
         /\ \A o \in c.offerings : o.overview # Reply!None =>
              \E f \in c.facts : f.id = o.overview /\ f.visible /\ f.subject = o.id
<1>1. Reply!CatalogueAssumption
  BY KnowledgeAssumptions
<1>2. Reply!IsFiniteSet(c.isa)
  BY <1>1 DEF Reply!CatalogueAssumption
<1>3. \A f, g \in c.facts : f.id = g.id => f = g
  BY <1>1 DEF Reply!CatalogueAssumption
<1>4. c.unknown \in {"handoff", "ask_clarification", "decline"}
  BY <1>1 DEF Reply!CatalogueAssumption
<1>5. \A f \in c.facts : f.id # Reply!None /\ (f.id \in c.smallTalk => f.category = "social")
  BY <1>1 DEF Reply!CatalogueAssumption
<1>6. \A o \in c.offerings : o.overview # Reply!None =>
              \E f \in c.facts : f.id = o.overview /\ f.visible /\ f.subject = o.id
  BY <1>1 DEF Reply!CatalogueAssumption
<1> QED BY <1>2, <1>3, <1>4, <1>5, <1>6, SameCounting

LEMMA CutIsPart ==
  ASSUME NEW S, NEW n, NEW key
  PROVE  Reply!Cut(S, n, key) \subseteq S
BY DEF Reply!Cut

\* The candidates of a request are visible facts in its scope.
InRequest(c, r, f) ==
    /\ f \in Reply!Visible(c)
    /\ f \in Reply!InScope(c, r) \/ f.category = "social"
    /\ f.category = "social" => r.topic \in {"social", "visuals"}
    /\ r.topic \in Reply!Protected => f.category \in Reply!Categories(r.topic)
    /\ r.topic = "price" => ~f.quote

LEMMA RequestScope ==
  ASSUME NEW c \in Catalogues, NEW r, NEW f \in Reply!RequestCandidates(c, r)
  PROVE  InRequest(c, r, f)
<1> DEFINE usable == {g \in Reply!Visible(c) : g.id \notin c.completions}
           own == [g \in c.facts |-> IF g.subject = r.subject THEN 1 ELSE 0]
           rest == {g \in usable \cap Reply!InScope(c, r) :
                      /\ g.category \in Reply!Categories(r.topic)
                      /\ r.topic = "price" => ~g.quote}
<1>1. CASE r.subject = "unknown"
  BY <1>1 DEF Reply!RequestCandidates
<1>2. CASE r.subject # "unknown" /\ r.topic = "social"
  <2>1. f \in usable /\ f.category = "social"
    BY <1>2 DEF Reply!RequestCandidates
  <2> QED BY <1>2, <2>1 DEF InRequest, Reply!Protected
<1>3. CASE r.subject # "unknown" /\ r.topic = "visuals"
  <2>1. f \in usable /\ \E o \in Reply!Offering(c, r.subject) : o.overview = f.id
    BY <1>3 DEF Reply!RequestCandidates
  <2>2. PICK o \in c.offerings : o.id = r.subject /\ o.overview = f.id
    BY <2>1 DEF Reply!Offering
  <2>3. f \in c.facts /\ f \in Reply!Visible(c)
    BY <2>1 DEF Reply!Visible
  <2>4. PICK g \in c.facts : g.id = o.overview /\ g.subject = o.id
    BY <2>2, <2>3, CatalogueIs
  <2>5. f.subject = r.subject
    BY <2>2, <2>3, <2>4, CatalogueIs
  <2>6. r.subject \in Reply!Lineage(c, {r.subject})
    BY CatalogueIs, LineageHolds
  <2>7. f \in Reply!InScope(c, r)
    BY <2>3, <2>5, <2>6 DEF Reply!InScope
  <2> QED BY <1>3, <2>3, <2>7 DEF InRequest, Reply!Protected
<1>4. CASE r.subject # "unknown" /\ r.topic \notin {"social", "visuals"}
  <2>1. Reply!RequestCandidates(c, r) = Reply!Cut(rest, 8, own)
    BY <1>4 DEF Reply!RequestCandidates
  <2>2. f \in rest
    BY <2>1, CutIsPart
  <2>3. f.category \in Reply!Categories(r.topic) /\ f \in Reply!InScope(c, r) /\ f \in Reply!Visible(c)
    BY <2>2
  <2>4. "social" \notin Reply!Categories(r.topic)
    BY <1>4 DEF Reply!Categories
  <2> QED BY <2>2, <2>3, <2>4 DEF InRequest
<1> QED BY <1>1, <1>2, <1>3, <1>4

\* What the server makes of a supported decision cites candidates only.
LEMMA SettledIsShown ==
  ASSUME NEW c, NEW r, NEW d, Reply!Supported(c, r, d),
         NEW id \in Reply!ToSet(Reply!Settled(c, r, d).facts),
         Reply!Settled(c, r, d).status = "answered"
  PROVE  \E f \in Reply!RequestCandidates(c, r) : f.id = id
<1> DEFINE C == Reply!RequestCandidates(c, r)
           x == CHOOSE f \in C : TRUE
<1>1. CASE r.subject = "unknown"
  BY <1>1 DEF Reply!Settled
<1>2. CASE r.subject # "unknown" /\ r.topic = "visuals" /\ C # {}
  <2>1. Reply!Settled(c, r, d).facts = <<x.id>>
    BY <1>2, Zenon DEF Reply!Settled
  <2>2. x \in C
    BY <1>2
  <2> HIDE DEF x
  <2>3. id = x.id
    BY <2>1 DEF Reply!ToSet
  <2> QED BY <2>2, <2>3
<1>3. CASE r.subject # "unknown" /\ ~(r.topic = "visuals" /\ C # {})
  <2>1. Reply!Settled(c, r, d) = d
    BY <1>3, Zenon DEF Reply!Settled
  <2> QED BY <2>1, Zenon DEF Reply!Supported, Reply!Ids
<1> QED BY <1>1, <1>2, <1>3

LEMMA SettledIsSeq ==
  ASSUME NEW c, NEW r, NEW d, NEW U, d.facts \in Seq(U), Reply!Ids(Reply!RequestCandidates(c, r)) \subseteq U
  PROVE  Reply!Settled(c, r, d).facts \in Seq(U)
<1> DEFINE C == Reply!RequestCandidates(c, r)
           x == CHOOSE f \in C : TRUE
<1>1. CASE r.subject = "unknown"
  BY <1>1 DEF Reply!Settled
<1>2. CASE r.subject # "unknown" /\ r.topic = "visuals" /\ C # {}
  <2>1. Reply!Settled(c, r, d).facts = <<x.id>>
    BY <1>2, Zenon DEF Reply!Settled
  <2>2. x \in C
    BY <1>2
  <2>3. x.id \in U
    BY <2>2 DEF Reply!Ids
  <2> HIDE DEF x
  <2> QED BY <2>1, <2>3
<1>3. CASE r.subject # "unknown" /\ ~(r.topic = "visuals" /\ C # {})
  <2>1. Reply!Settled(c, r, d) = d
    BY <1>3, Zenon DEF Reply!Settled
  <2> QED BY <2>1
<1> QED BY <1>1, <1>2, <1>3

\* What a reply says of the requests that are not answered.
Unanswered(c, p, ds) == {Reply!Boundary(c, p[i], ds[i]) : i \in Reply!Missing(ds)}

LEMMA ComposedHolds ==
  ASSUME NEW c, NEW p, NEW ds, NEW U, NEW n \in Nat, Len(p) = n, DOMAIN ds = 1 .. n,
         \A i \in 1 .. n : ds[i].facts \in Seq(U)
  PROVE  LET t == Reply!Compose(c, p, ds) IN
         /\ t = [action |-> Reply!ActionOf(c, ds), facts |-> t.facts, len |-> t.len, source |-> "model",
                 said |-> t.said, trace |-> t.trace, interaction |-> t.interaction]
         /\ DOMAIN t.trace = 1 .. n
         /\ \A i \in 1 .. n : IsPart(ds[i], t.facts, t.trace[i])
         /\ t.said = Reply!Said(c, Unanswered(c, p, ds), t.trace)
<1> DEFINE said == Unanswered(c, p, ds)
           next == Reply!NextStep(c, p, ds)
           suffix == Reply!Suffix(c, said, next)
           body == Reply!Parts(c, suffix, ds, n)
           late == IF \E i \in DOMAIN ds : body.trace[i].status = "deferred" THEN 1 ELSE 0
           facts == IF next = Reply!None \/ next \in Reply!ToSet(body.facts) THEN body.facts
                    ELSE Append(body.facts, next)
           len == Reply!Joined(body.n + suffix.n + late,
                               body.len + suffix.len + late * c.boundary[Reply!Remaining(c)])
           t == Reply!Compose(c, p, ds)
<1>1. t = [Reply!Turn(Reply!ActionOf(c, ds), facts, len, "model")
             EXCEPT !.said = Reply!Said(c, said, body.trace), !.trace = body.trace]
  BY Zenon DEF Reply!Compose, Unanswered
<1> HIDE DEF t, said, next, suffix, body, late, len
<1>2. t = [action |-> Reply!ActionOf(c, ds), facts |-> facts, len |-> len, source |-> "model",
           said |-> Reply!Said(c, said, body.trace), trace |-> body.trace,
           interaction |-> Reply!NoInteraction]
  BY <1>1 DEF Reply!Turn
<1> DEFINE V == U \cup {next}
<1>3. \A i \in 1 .. n : ds[i].facts \in Seq(V)
  OBVIOUS
<1> HIDE DEF V
<1>4. /\ body.facts \in Seq(V) /\ DOMAIN body.trace = 1 .. n
      /\ \A k \in 1 .. n : IsPart(ds[k], body.facts, body.trace[k])
  <2>1. n \in Nat
    OBVIOUS
  <2>2. \A k \in 1 .. n : ds[k].facts \in Seq(V)
    BY <1>3
  <2> QED BY ONLY <2>1, <2>2, PartsHold DEF body
<1>5. \A y \in Reply!ToSet(body.facts) : y \in Reply!ToSet(facts)
  <2>1. <<next>> \in Seq(V) /\ Append(body.facts, next) = body.facts \o <<next>>
    BY SMTT(20), <1>4 DEF V
  <2> QED BY <1>4, <2>1, JoinHolds
<1>6. \A i \in 1 .. n : IsPart(ds[i], facts, body.trace[i])
  BY <1>4, <1>5 DEF IsPart
<1> HIDE DEF facts
<1>7. /\ t.facts = facts /\ t.trace = body.trace /\ t.said = Reply!Said(c, said, body.trace)
      /\ t.len = len /\ t.interaction = Reply!NoInteraction
  BY <1>2
<1> QED BY <1>2, <1>4, <1>6, <1>7 DEF t, said
-----------------------------------------------------------------------------
(* What the model is shown when it chooses without a plan.                 *)
NamedProducts(c, m, recent) == Reply!Disambiguated(c, Reply!MatchedProducts(c, m), recent)
Found(c, m, recent) ==
    IF NamedProducts(c, m, recent) # {}
    THEN Reply!ProductFacts(c, m, NamedProducts(c, m, recent))
    ELSE Reply!FollowUp(c, m.words, recent, Reply!BestMatches(c, m.words))
Allowed(c, m, recent) ==
    IF Reply!MatchedProducts(c, m) # {} THEN Reply!Lineage(c, Reply!MatchedProducts(c, m))
    ELSE recent \cup Reply!Parents(c, recent)
Spoken(c) == {f.subject : f \in {x \in Reply!Visible(c) : x.category # "social"}} \ {Reply!Company}

LEMMA NamesStay ==
  ASSUME NEW c, NEW m, NEW recent
  PROVE  /\ NamedProducts(c, m, recent) \subseteq Reply!MatchedProducts(c, m)
         /\ NamedProducts(c, m, recent) = {} => Reply!MatchedProducts(c, m) = {}
<1> DEFINE matched == Reply!MatchedProducts(c, m)
           kin == {s \in matched : Reply!Lineage(c, {s}) \cap recent # {}}
           few == Reply!Cardinality(matched) <= 1 \/ recent = {} \/ kin = {}
<1>1. NamedProducts(c, m, recent) = IF few THEN matched ELSE kin
  BY Zenon DEF NamedProducts, Reply!Disambiguated
<1>2. kin \subseteq matched
  OBVIOUS
<1>3. ~few => kin # {}
  OBVIOUS
<1> HIDE DEF kin, few, matched
<1> QED BY <1>1, <1>2, <1>3 DEF matched

LEMMA CompanyFactsAre ==
  ASSUME NEW c, NEW words, NEW f \in Reply!CompanyFacts(c, words)
  PROVE  f \in Reply!Visible(c) /\ f.subject = Reply!Company
BY DEF Reply!CompanyFacts

LEMMA ProductFactsAre ==
  ASSUME NEW c, NEW m, NEW matched, NEW f \in Reply!ProductFacts(c, m, matched)
  PROVE  /\ f \in Reply!Visible(c)
         /\ f.subject \in matched \cup Reply!Lineage(c, matched) \cup Reply!Parents(c, matched)
                           \cup {Reply!Company}
<1> DEFINE facts(S) == {g \in Reply!Visible(c) : g.subject \in S}
           names == UNION {o.name : o \in {x \in c.offerings : x.id \in matched}}
           inherited == {g \in facts(Reply!Lineage(c, matched) \ matched) :
                           Reply!Score(g, m.words \ names) > 0}
           company == Reply!CompanyFacts(c, m.words)
           rank == [g \in c.facts |-> IF g.subject \in matched THEN 2
                                      ELSE IF g \in inherited THEN 1 ELSE 0]
           nearest == [g \in c.facts |-> IF g.subject = Reply!Company THEN 0 ELSE 1]
<1>1. Reply!ProductFacts(c, m, matched) =
        IF facts(matched) # {}
        THEN Reply!Cut(facts(matched) \cup inherited \cup company, 12, rank)
        ELSE Reply!Cut(facts(Reply!Parents(c, matched)) \cup company, 12, nearest)
  BY Zenon DEF Reply!ProductFacts
<1>2. inherited \subseteq facts(Reply!Lineage(c, matched))
  OBVIOUS
<1> HIDE DEF inherited, company, rank, nearest
<1>3. f \in facts(matched) \cup inherited \cup company \cup facts(Reply!Parents(c, matched))
  BY <1>1, CutIsPart
<1>4. f \in company => f \in Reply!Visible(c) /\ f.subject = Reply!Company
  BY CompanyFactsAre DEF company
<1> QED BY <1>2, <1>3, <1>4

LEMMA BestMatchesAre ==
  ASSUME NEW c, NEW words
  PROVE  Reply!BestMatches(c, words) \subseteq Reply!Visible(c)
BY CutIsPart DEF Reply!BestMatches

LEMMA FollowUpIs ==
  ASSUME NEW c, NEW words, NEW recent, NEW found, found \subseteq Reply!Visible(c),
         NEW f \in Reply!FollowUp(c, words, recent, found)
  PROVE  /\ f \in Reply!Visible(c)
         /\ (\E g \in Reply!Visible(c) : /\ g.category # "social"
                                         /\ g.subject \in recent \cup Reply!Parents(c, recent))
            => \/ f.category = "social"
               \/ f.subject \in recent \cup Reply!Parents(c, recent) \cup {Reply!Company}
<1> DEFINE score == Reply!Scores(c, words)
           inScope == {g \in Reply!Visible(c) : /\ g.category # "social"
                                                /\ g.subject \in recent \cup Reply!Parents(c, recent)}
           product == {g \in inScope : score[g] > 0}
           company == Reply!Cut(Reply!CompanyFacts(c, words), 6, score)
           result == Reply!FollowUp(c, words, recent, found)
<1>1. /\ inScope = {} => result = found
      /\ inScope # {} /\ product # {} /\ company # {}
           => result = Reply!Cut(company, 3, score) \cup Reply!Cut(product, 3, score)
      /\ inScope # {} /\ product = {} /\ company = {}
           => result = {g \in found : g.category = "social"} \cup inScope
      /\ inScope # {} /\ product = {} /\ company # {} => result = company
      /\ inScope # {} /\ product # {} /\ company = {} => result = Reply!Cut(product, 6, score)
  <2> HIDE DEF inScope, product, company, score
  <2>1. result = CASE inScope = {} -> found
                   [] inScope # {} /\ product # {} /\ company # {} ->
                        Reply!Cut(company, 3, score) \cup Reply!Cut(product, 3, score)
                   [] inScope # {} /\ product = {} /\ company = {} ->
                        {g \in found : g.category = "social"} \cup inScope
                   [] OTHER -> IF company # {} THEN company ELSE Reply!Cut(product, 6, score)
    BY Zenon DEF Reply!FollowUp, inScope, product, company, score
  <2> HIDE DEF result
  <2> QED BY <2>1
<1>2. product \subseteq inScope
  OBVIOUS
<1>3. \A g \in company : g \in Reply!Visible(c) /\ g.subject = Reply!Company
  BY CutIsPart, CompanyFactsAre
<1> HIDE DEF product, company, score, result
<1>4. \/ inScope = {} /\ f \in found
      \/ f \in inScope \/ f \in company \/ (f \in found /\ f.category = "social")
  <2>1. Reply!Cut(company, 3, score) \subseteq company /\ Reply!Cut(product, 3, score) \subseteq product
        /\ Reply!Cut(product, 6, score) \subseteq product
    BY CutIsPart
  <2>2. f \in result
    BY DEF result
  <2> HIDE DEF inScope
  <2> QED BY <1>1, <1>2, <2>1, <2>2
<1> QED BY <1>3, <1>4

LEMMA FoundIs ==
  ASSUME NEW c \in Catalogues, NEW m, NEW recent, NEW f \in Found(c, m, recent)
  PROVE  /\ f \in Reply!Visible(c)
         /\ recent \subseteq Spoken(c) /\ Allowed(c, m, recent) # {} =>
              f.category = "social" \/ f.subject \in Allowed(c, m, recent) \cup {Reply!Company}
<1> DEFINE matched == Reply!MatchedProducts(c, m)
           named == NamedProducts(c, m, recent)
<1>1. CASE named # {}
  <2>1. f \in Reply!ProductFacts(c, m, named)
    BY <1>1 DEF Found
  <2>2. f.subject \in named \cup Reply!Lineage(c, named) \cup Reply!Parents(c, named) \cup {Reply!Company}
    BY <2>1, ProductFactsAre
  <2>3. named \subseteq matched /\ matched # {}
    BY <1>1, NamesStay
  <2>4. named \subseteq Reply!Lineage(c, named) /\ Reply!Parents(c, named) \subseteq Reply!Lineage(c, named)
    BY CatalogueIs, LineageHolds
  <2>5. Reply!Lineage(c, named) \subseteq Reply!Lineage(c, matched)
    BY <2>3, CatalogueIs, LineageGrows
  <2>6. Allowed(c, m, recent) = Reply!Lineage(c, matched)
    BY <2>3 DEF Allowed
  <2>7. f \in Reply!Visible(c)
    BY <2>1, ProductFactsAre
  <2> QED BY <2>2, <2>4, <2>5, <2>6, <2>7
<1>2. CASE named = {}
  <2>1. f \in Reply!FollowUp(c, m.words, recent, Reply!BestMatches(c, m.words))
    BY <1>2 DEF Found
  <2>2. Allowed(c, m, recent) = recent \cup Reply!Parents(c, recent)
    BY <1>2, NamesStay DEF Allowed
  <2>3. f \in Reply!Visible(c)
    BY <2>1, FollowUpIs, BestMatchesAre
  <2>4. ASSUME recent \subseteq Spoken(c), Allowed(c, m, recent) # {}
        PROVE  f.category = "social" \/ f.subject \in Allowed(c, m, recent) \cup {Reply!Company}
    <3>1. recent # {}
      BY <2>2, <2>4 DEF Reply!Parents
    <3>2. \E g \in Reply!Visible(c) : g.category # "social" /\ g.subject \in recent \cup Reply!Parents(c, recent)
      BY <2>4, <3>1 DEF Spoken
    <3> QED BY <2>1, <2>2, <3>2, FollowUpIs, BestMatchesAre
  <2> QED BY <2>3, <2>4
<1> QED BY <1>1, <1>2

Intents(words) == {Intent[w] : w \in Reply!ProtectedWords(words)}

LEMMA RetrievedIs ==
  ASSUME NEW c \in Catalogues, NEW m, NEW recent, NEW f \in Reply!Retrieved(c, m, recent)
  PROVE  /\ f \in Reply!Visible(c)
         /\ Reply!ProtectedWords(m.words) # {} => Reply!Eligible(f, m.words)
         /\ recent \subseteq Spoken(c) /\ Allowed(c, m, recent) # {} =>
              f.category = "social" \/ f.subject \in Allowed(c, m, recent) \cup {Reply!Company}
<1> DEFINE found == Found(c, m, recent)
           Bound(g) == /\ g \in Reply!Visible(c)
                       /\ recent \subseteq Spoken(c) /\ Allowed(c, m, recent) # {} =>
                            g.category = "social" \/ g.subject \in Allowed(c, m, recent) \cup {Reply!Company}
<1>1. Reply!Retrieved(c, m, recent) =
        IF Reply!ProtectedWords(m.words) # {} THEN Reply!Guarded(c, m.words, found)
        ELSE Reply!WithSmallTalk(c, m.words, found)
  BY Zenon DEF Reply!Retrieved, Found, NamedProducts
<1>2. \A g \in found : Bound(g)
  BY FoundIs
<1> HIDE DEF found
<1>3. CASE Reply!ProtectedWords(m.words) # {}
  <2>1. f \in Reply!Guarded(c, m.words, found)
    BY <1>1, <1>3
  <2>2. /\ f \in found \/ (f \in Reply!Visible(c) /\ f.subject = Reply!Company)
        /\ Reply!Eligible(f, m.words)
    BY <2>1 DEF Reply!Guarded
  <2> QED BY <1>2, <2>2
<1>4. CASE Reply!ProtectedWords(m.words) = {}
  <2>1. f \in Reply!WithSmallTalk(c, m.words, found)
    BY <1>1, <1>4
  <2>2. f \in found \/ (f \in Reply!Visible(c) /\ f.id \in c.smallTalk)
    BY <2>1 DEF Reply!WithSmallTalk
  <2>3. f \in Reply!Visible(c) /\ f.id \in c.smallTalk => f.category = "social"
    BY CatalogueIs DEF Reply!Visible
  <2> QED BY <1>2, <1>4, <2>2, <2>3
<1> QED BY <1>3, <1>4

\* A visible fact whose id is cited among the candidates is a candidate.
LEMMA CitedIsShown ==
  ASSUME NEW c \in Catalogues, NEW m, NEW recent, NEW f \in Reply!Visible(c),
         Reply!ExplicitFact(c, m) = {}, Reply!DrawingFact(c, m) = {},
         f.id \in Reply!Ids(Reply!Candidates(c, m, recent))
  PROVE  Reply!ShownWhole(c, m, recent) \/ f \in Reply!Retrieved(c, m, recent)
<1>1. PICK g \in Reply!Candidates(c, m, recent) : g.id = f.id
  BY DEF Reply!Ids
<1>2. g \in IF Reply!ShownWhole(c, m, recent) THEN Reply!Visible(c) ELSE Reply!Retrieved(c, m, recent)
  BY <1>1 DEF Reply!Candidates
<1>3. g \in Reply!Visible(c)
  BY <1>2, RetrievedIs
<1>4. g = f
  BY <1>1, <1>3, CatalogueIs DEF Reply!Visible
<1> QED BY <1>2, <1>4
-----------------------------------------------------------------------------
(* A turn says nothing before it is answered, a plan has a request, and    *)
(* the products of the last reply are spoken of in the live catalogue, so  *)
(* a follow-up finds their facts: what the properties of a reply need of   *)
(* the turns before it.                                                    *)
ReplyShape ==
    /\ live \in Catalogues
    /\ stageOfReply \in {"idle", "received", "planned", "answered", "raised"}
    /\ about \subseteq Spoken(live)
    /\ Len(plan) \in 0 .. MaxRequests /\ DOMAIN plan = 1 .. Len(plan)
    /\ stageOfReply = "planned" => Len(plan) # 0
    /\ stageOfReply # "answered" => turn = Reply!NoTurn
    /\ turn.action \in {Reply!None, "reply", "handoff", "ask_clarification", "decline"}

Grounded == Reply!EvidenceInScope /\ Reply!ProtectedByCategory /\ Reply!FollowUpKeepsSubject
ReplyInv == ReplyShape /\ Grounded /\ Reply!NoNeedDropped

LEMMA NothingSaid ==
  /\ Reply!NoTurn.trace = <<>> /\ Reply!NoTurn.facts = <<>> /\ Reply!NoTurn.action = Reply!None
  /\ Reply!NoTurn.source = Reply!None
BY DEF Reply!NoTurn, Reply!Turn

\* Before a turn is answered there is nothing to be grounded.
LEMMA NothingToGround ==
  ASSUME turn = Reply!NoTurn, stageOfReply # "answered"
  PROVE  Grounded /\ Reply!NoNeedDropped
BY NothingSaid DEF Grounded, Reply!EvidenceInScope, Reply!ProtectedByCategory,
   Reply!FollowUpKeepsSubject, Reply!NoNeedDropped, Reply!Chosen

LEMMA NothingToGroundNext ==
  ASSUME turn' = Reply!NoTurn, stageOfReply' # "answered"
  PROVE  Grounded' /\ Reply!NoNeedDropped'
BY NothingSaid DEF Grounded, Reply!EvidenceInScope, Reply!ProtectedByCategory,
   Reply!FollowUpKeepsSubject, Reply!NoNeedDropped, Reply!Chosen

\* An answer without a trace that the model did not choose by itself.
LEMMA NotChosenNext ==
  ASSUME turn'.trace = <<>>, turn'.source # "model" \/ turn'.action # "reply"
  PROVE  Grounded' /\ Reply!NoNeedDropped'
BY DEF Grounded, Reply!EvidenceInScope, Reply!ProtectedByCategory,
   Reply!FollowUpKeepsSubject, Reply!NoNeedDropped, Reply!Chosen

\* The server's own answer.
LEMMA UnknownIsGrounded ==
  ASSUME ReplyShape, NEW source, Reply!Unknown(source), UNCHANGED live
  PROVE  /\ Grounded' /\ Reply!NoNeedDropped'
         /\ stageOfReply' \in {"answered", "raised"}
         /\ stageOfReply' # "answered" => turn' = Reply!NoTurn
         /\ turn'.action \in {Reply!None, "reply", "handoff", "ask_clarification", "decline"}
<1>1. CASE live.fallbackLen > live.max
  <2>1. stageOfReply' = "raised" /\ turn' = Reply!NoTurn
    BY <1>1 DEF Reply!Unknown
  <2> QED BY <2>1, NothingToGroundNext, NothingSaid
<1>2. CASE ~(live.fallbackLen > live.max)
  <2> DEFINE facts == IF live.unknown = "handoff" /\ live.handoff # Reply!None THEN <<live.handoff>> ELSE <<>>
  <2>1. stageOfReply' = "answered" /\ turn' = Reply!Turn(live.unknown, facts, live.fallbackLen, source)
    BY <1>2, Zenon DEF Reply!Unknown
  <2> HIDE DEF facts
  <2>2. turn'.trace = <<>> /\ turn'.action = live.unknown
    BY <2>1 DEF Reply!Turn
  <2>3. live.unknown \in {"handoff", "ask_clarification", "decline"}
    BY CatalogueIs DEF ReplyShape
  <2>4. turn'.action # "reply"
    BY <2>2, <2>3
  <2> QED BY <2>1, <2>2, <2>3, <2>4, NotChosenNext
<1> QED BY <1>1, <1>2

LEMMA ReceiveIsGrounded ==
  ASSUME ReplyInv, Reply!Receive
  PROVE  ReplyInv'
<1>1. /\ stageOfReply = "idle" /\ stageOfReply' = "received"
      /\ UNCHANGED <<live, about, plan, turn>>
  BY DEF Reply!Receive
<1>2. ReplyShape'
  BY <1>1 DEF ReplyInv, ReplyShape, Spoken, Reply!Visible
<1>3. turn' = Reply!NoTurn
  BY <1>1 DEF ReplyInv, ReplyShape
<1> QED BY <1>1, <1>2, <1>3, NothingToGroundNext DEF ReplyInv

LEMMA AcknowledgeIsGrounded ==
  ASSUME ReplyInv, Reply!Acknowledge
  PROVE  ReplyInv'
<1>1. /\ stageOfReply' = "answered" /\ UNCHANGED <<live, about, plan>>
      /\ \E f : turn' = Reply!Turn("reply", <<f.id>>, f.len, "guided")
  BY DEF Reply!Acknowledge
<1>2. turn'.action = "reply" /\ turn'.source = "guided" /\ turn'.trace = <<>>
  BY <1>1 DEF Reply!Turn
<1>3. ReplyShape'
  BY <1>1, <1>2 DEF ReplyInv, ReplyShape, Spoken, Reply!Visible
<1> QED BY <1>2, <1>3, NotChosenNext DEF ReplyInv

LEMMA NavigateIsGrounded ==
  ASSUME ReplyInv, Reply!Navigate
  PROVE  ReplyInv'
<1> USE DEF ReplyInv
<1>1. UNCHANGED <<live, about, msg, plan>>
  BY DEF Reply!Navigate
<1>2. CASE Reply!Guided(live, msg) = {}
  <2>1. Reply!Unknown("guided")
    BY <1>2 DEF Reply!Navigate
  <2>2. /\ Grounded' /\ Reply!NoNeedDropped'
        /\ stageOfReply' \in {"answered", "raised"}
        /\ stageOfReply' # "answered" => turn' = Reply!NoTurn
        /\ turn'.action \in {Reply!None, "reply", "handoff", "ask_clarification", "decline"}
    BY <1>1, <2>1, UnknownIsGrounded
  <2>3. ReplyShape'
    BY <1>1, <2>2 DEF ReplyShape, Spoken, Reply!Visible
  <2> QED BY <2>2, <2>3
<1>3. CASE Reply!Guided(live, msg) # {}
  <2>1. PICK f \in Reply!Guided(live, msg) :
           IF Reply!Accepts(live, Reply!Candidates(live, msg, about), "reply", <<f.id>>)
           THEN Reply!Reply(Reply!Turn("reply", <<f.id>>, f.len, "guided"), msg)
           ELSE stageOfReply' = "raised" /\ turn' = Reply!NoTurn
    BY <1>3, Zenon DEF Reply!Navigate
  <2>2. CASE Reply!Reply(Reply!Turn("reply", <<f.id>>, f.len, "guided"), msg)
    <3> DEFINE t == Reply!Turn("reply", <<f.id>>, f.len, "guided")
               i == Reply!Interaction(live, t.action, t.len, t.facts, msg)
    <3>1. stageOfReply' = "answered" /\ turn' = [t EXCEPT !.interaction = i]
      BY <2>2, Zenon DEF Reply!Reply
    <3> HIDE DEF i
    <3>2. turn'.action = "reply" /\ turn'.source = "guided" /\ turn'.trace = <<>>
      BY <3>1 DEF Reply!Turn
    <3>3. ReplyShape'
      BY <1>1, <3>1, <3>2 DEF ReplyShape, Spoken, Reply!Visible
    <3> QED BY <3>2, <3>3, NotChosenNext
  <2>3. CASE stageOfReply' = "raised" /\ turn' = Reply!NoTurn
    <3>1. ReplyShape'
      BY <1>1, <2>3, NothingSaid DEF ReplyShape, Spoken, Reply!Visible
    <3> QED BY <2>3, <3>1, NothingToGroundNext
  <2> QED BY <2>1, <2>2, <2>3
<1> QED BY <1>2, <1>3

LEMMA CloseIsGrounded ==
  ASSUME ReplyInv, Reply!Close
  PROVE  ReplyInv'
<1>1. /\ about' = IF stageOfReply = "raised" THEN about ELSE Reply!ContextSubjects(live, Reply!ToSet(turn.facts))
      /\ stageOfReply' = "idle" /\ plan' = <<>> /\ turn' = Reply!NoTurn /\ live' = live
  BY DEF Reply!Close
<1>2. Reply!ContextSubjects(live, Reply!ToSet(turn.facts)) \subseteq Spoken(live)
  BY DEF Reply!ContextSubjects, Spoken
<1>3. about' \subseteq Spoken(live)
  BY <1>1, <1>2 DEF ReplyInv, ReplyShape
<1>4. Len(plan') = 0 /\ DOMAIN plan' = 1 .. 0 /\ MaxRequests \in Nat
  BY <1>1, KnowledgeAssumptions DEF Reply!CatalogueAssumption
<1>5. ReplyShape'
  BY <1>1, <1>3, <1>4, NothingSaid DEF ReplyInv, ReplyShape, Spoken, Reply!Visible
<1> QED BY <1>1, <1>5, NothingToGroundNext DEF ReplyInv

LEMMA PublishIsGrounded ==
  ASSUME ReplyInv, Reply!Publish
  PROVE  ReplyInv'
<1>1. /\ stageOfReply = "idle" /\ live' \in Catalogues /\ about' = {}
      /\ UNCHANGED <<stageOfReply, msg, plan, turn>>
  BY DEF Reply!Publish
<1>2. ReplyShape'
  BY <1>1 DEF ReplyInv, ReplyShape
<1>3. turn' = Reply!NoTurn
  BY <1>1 DEF ReplyInv, ReplyShape
<1> QED BY <1>1, <1>2, <1>3, NothingToGroundNext DEF ReplyInv
-----------------------------------------------------------------------------
\* A sequence of a bounded length is a sequence, of such a length.
LEMMA BoundedIsSeq ==
  ASSUME NEW S, NEW n \in Nat, NEW s \in Reply!BoundedSeq(S, n)
  PROVE  s \in Seq(S) /\ Len(s) \in 0 .. n /\ DOMAIN s = 1 .. Len(s)
<1>1. PICK k \in 0 .. n : s \in [1 .. k -> S]
  BY DEF Reply!BoundedSeq, Reply!SeqOf
<1>2. k \in Nat
  OBVIOUS
<1>3. s \in Seq(S)
  BY <1>1, <1>2
<1>4. Len(s) = k
  BY <1>1, <1>2, <1>3
<1> QED BY <1>1, <1>3, <1>4

LEMMA PlanIsGrounded ==
  ASSUME ReplyInv, Reply!Plan
  PROVE  ReplyInv'
<1> USE DEF ReplyInv
<1>1. UNCHANGED <<live, about>> /\ stageOfReply = "received"
  BY DEF Reply!Plan
<1>2. CASE Reply!Unknown("fallback") /\ UNCHANGED plan
  <2>2. /\ Grounded' /\ Reply!NoNeedDropped'
        /\ stageOfReply' \in {"answered", "raised"}
        /\ stageOfReply' # "answered" => turn' = Reply!NoTurn
        /\ turn'.action \in {Reply!None, "reply", "handoff", "ask_clarification", "decline"}
    BY <1>1, <1>2, UnknownIsGrounded
  <2>3. ReplyShape'
    BY <1>1, <1>2, <2>2 DEF ReplyShape, Spoken, Reply!Visible
  <2> QED BY <2>2, <2>3
<1>3. CASE /\ plan' \in Reply!BoundedSeq(Reply!Request, MaxRequests) \ {<<>>}
           /\ stageOfReply' = "planned" /\ UNCHANGED turn
  <2>1. MaxRequests \in Nat
    BY KnowledgeAssumptions DEF Reply!CatalogueAssumption
  <2>2. plan' \in Seq(Reply!Request) /\ Len(plan') \in 0 .. MaxRequests /\ DOMAIN plan' = 1 .. Len(plan')
    BY <1>3, <2>1, BoundedIsSeq
  <2>3. Len(plan') # 0
    BY <1>3, <2>2
  <2>4. turn' = Reply!NoTurn
    BY <1>1, <1>3 DEF ReplyShape
  <2>5. ReplyShape'
    BY <1>1, <1>3, <2>2, <2>3, <2>4, NothingSaid DEF ReplyShape, Spoken, Reply!Visible
  <2> QED BY <1>3, <2>4, <2>5, NothingToGroundNext
<1>4. \/ Reply!Unknown("fallback") /\ UNCHANGED plan
      \/ /\ plan' \in Reply!BoundedSeq(Reply!Request, MaxRequests) \ {<<>>}
         /\ stageOfReply' = "planned" /\ UNCHANGED turn
  BY DEF Reply!Plan
<1> QED BY <1>2, <1>3, <1>4

\* A decision of the model that the server accepts cites what it was shown, and
\* that is bound to the intent and the products of the message.
LEMMA AcceptedIsGrounded ==
  ASSUME NEW c \in Catalogues, NEW m, NEW recent, recent \subseteq Spoken(c),
         Reply!ExplicitFact(c, m) = {}, Reply!DrawingFact(c, m) = {},
         NEW facts, Reply!Accepts(c, Reply!Candidates(c, m, recent), "reply", facts),
         NEW f \in Reply!Visible(c), f.id \in Reply!ToSet(facts)
  PROVE  /\ Reply!ProtectedWords(m.words) # {} => f.category # "social"
         /\ Intents(m.words) = {"price"} => f.category = "commercial_rule" /\ ~f.intake
         /\ Intents(m.words) = {"stock"} => f.category = "availability"
         /\ ~Reply!ShownWhole(c, m, recent) /\ Allowed(c, m, recent) # {} /\ f.category # "social" =>
              f.subject \in Allowed(c, m, recent) \cup {Reply!Company}
<1>1. f.id \in Reply!Ids(Reply!Candidates(c, m, recent))
  BY Zenon DEF Reply!Accepts
<1>2. Reply!ShownWhole(c, m, recent) \/ f \in Reply!Retrieved(c, m, recent)
  BY <1>1, CitedIsShown
<1>3. Intents(m.words) # {} => Reply!ProtectedWords(m.words) # {}
  BY DEF Intents
<1>4. ASSUME Reply!ProtectedWords(m.words) # {}
      PROVE  Reply!Eligible(f, m.words)
  BY <1>2, <1>4, RetrievedIs DEF Reply!ShownWhole
<1>5. Reply!Eligible(f, m.words) =>
        /\ f.category # "social"
        /\ Intents(m.words) = {"price"} => f.category = "commercial_rule" /\ ~f.intake
        /\ Intents(m.words) = {"stock"} => f.category = "availability"
  BY DEF Reply!Eligible, Intents
<1>6. ~Reply!ShownWhole(c, m, recent) /\ Allowed(c, m, recent) # {} /\ f.category # "social" =>
        f.subject \in Allowed(c, m, recent) \cup {Reply!Company}
  BY <1>2, RetrievedIs
<1> QED BY <1>3, <1>4, <1>5, <1>6

LEMMA DecideIsGrounded ==
  ASSUME ReplyInv, Reply!Decide
  PROVE  ReplyInv'
<1> USE DEF ReplyInv
<1>1. UNCHANGED <<live, about, msg, plan>> /\ Reply!ToModel
  BY DEF Reply!Decide
<1>2. ASSUME NEW source, Reply!Unknown(source)
      PROVE  ReplyInv'
  <2>2. /\ Grounded' /\ Reply!NoNeedDropped'
        /\ stageOfReply' \in {"answered", "raised"}
        /\ stageOfReply' # "answered" => turn' = Reply!NoTurn
        /\ turn'.action \in {Reply!None, "reply", "handoff", "ask_clarification", "decline"}
    BY <1>1, <1>2, UnknownIsGrounded
  <2>3. ReplyShape'
    BY <1>1, <2>2 DEF ReplyShape, Spoken, Reply!Visible
  <2> QED BY <2>2, <2>3
<1>3. ASSUME NEW facts, NEW len,
             Reply!Accepts(live, Reply!Candidates(live, msg, about), "reply", facts),
             Reply!Reply(Reply!Turn("reply", facts, len, "model"), msg)
      PROVE  ReplyInv'
  <2> DEFINE t == Reply!Turn("reply", facts, len, "model")
             i == Reply!Interaction(live, t.action, t.len, t.facts, msg)
  <2>1. stageOfReply' = "answered" /\ turn' = [t EXCEPT !.interaction = i]
    BY <1>3, Zenon DEF Reply!Reply
  <2> HIDE DEF i
  <2>2. turn'.action = "reply" /\ turn'.trace = <<>> /\ turn'.facts = facts
    BY <2>1 DEF Reply!Turn
  <2>3. ReplyShape'
    BY <1>1, <2>1, <2>2 DEF ReplyShape, Spoken, Reply!Visible
  <2>4. Reply!EvidenceInScope' /\ Reply!NoNeedDropped'
    BY <2>2 DEF Reply!EvidenceInScope, Reply!NoNeedDropped
  <2>5. Reply!ExplicitFact(live, msg) = {}
    BY <1>1 DEF Reply!ToModel, Reply!Guided
  <2>6. ASSUME Reply!DrawingFact(live, msg) = {}, NEW f \in Reply!Visible(live), f.id \in Reply!ToSet(facts)
        PROVE  /\ Reply!ProtectedWords(msg.words) # {} => f.category # "social"
               /\ Intents(msg.words) = {"price"} => f.category = "commercial_rule" /\ ~f.intake
               /\ Intents(msg.words) = {"stock"} => f.category = "availability"
               /\ ~Reply!ShownWhole(live, msg, about) /\ Allowed(live, msg, about) # {} /\ f.category # "social" =>
                    f.subject \in Allowed(live, msg, about) \cup {Reply!Company}
    BY <1>3, <2>5, <2>6, AcceptedIsGrounded DEF ReplyShape
  <2>7. live' = live /\ msg' = msg /\ about' = about
    BY <1>1
  <2>8. Reply!ProtectedByCategory'
    BY <2>2, <2>6, <2>7 DEF Reply!ProtectedByCategory, Reply!Chosen, Intents, Reply!DrawingFact,
       Reply!Named, Reply!Visible, Reply!ProtectedWords
  <2>9. Reply!FollowUpKeepsSubject'
    <3> SUFFICES ASSUME Reply!Chosen', ~Reply!ShownWhole(live, msg, about)', Allowed(live, msg, about)' # {},
                        NEW f \in Reply!Visible(live)', f.id \in Reply!ToSet(turn.facts)', f.category # "social"
                 PROVE  f.subject \in Allowed(live, msg, about)' \cup {Reply!Company}
      BY Zenon DEF Reply!FollowUpKeepsSubject, Allowed
    <3>1. Reply!DrawingFact(live, msg)' = Reply!DrawingFact(live, msg)
      BY <2>7
    <3>2. Reply!ShownWhole(live, msg, about)' <=> Reply!ShownWhole(live, msg, about)
      BY <2>7
    <3>3. Allowed(live, msg, about)' = Allowed(live, msg, about) /\ Reply!Visible(live)' = Reply!Visible(live)
      BY <2>7
    <3>4. Reply!DrawingFact(live, msg) = {}
      BY <3>1 DEF Reply!Chosen
    <3> QED BY <2>2, <2>6, <3>2, <3>3, <3>4
  <2> QED BY <2>3, <2>4, <2>8, <2>9 DEF Grounded
<1>4. \/ Reply!Unknown("fallback")
      \/ \E action \in {"reply", "handoff", "ask_clarification", "decline"},
            facts \in Reply!BoundedSeq(Reply!Ids(live.facts), 2) :
           IF Reply!Accepts(live, Reply!Candidates(live, msg, about), action, facts)
           THEN IF action = "reply"
                THEN Reply!Reply(Reply!Turn(action, facts, Reply!TextLen(live, Reply!ToSet(facts)) + Len(facts) - 1,
                                 "model"), msg)
                ELSE Reply!Unknown("model")
           ELSE Reply!Unknown("fallback")
  BY Zenon DEF Reply!Decide
<1>5. CASE Reply!Unknown("fallback")
  BY <1>2, <1>5
<1>6. ASSUME NEW action, NEW facts,
             IF Reply!Accepts(live, Reply!Candidates(live, msg, about), action, facts)
             THEN IF action = "reply"
                  THEN Reply!Reply(Reply!Turn(action, facts, Reply!TextLen(live, Reply!ToSet(facts)) + Len(facts) - 1,
                                   "model"), msg)
                  ELSE Reply!Unknown("model")
             ELSE Reply!Unknown("fallback")
      PROVE  ReplyInv'
  BY <1>2, <1>3, <1>6
<1> QED BY <1>4, <1>5, <1>6
-----------------------------------------------------------------------------
\* A composed answer to a plan whose every decision is supported.
Answering(c, p, n, t) ==
    /\ t = [action |-> t.action, facts |-> t.facts, len |-> t.len, source |-> "model",
            said |-> t.said, trace |-> t.trace, interaction |-> t.interaction]
    /\ t.action \in {"reply", "ask_clarification", c.unknown}
    /\ DOMAIN t.trace = 1 .. n
    /\ \A i \in 1 .. n : t.trace[i].status = "answered" =>
         /\ \A id \in Reply!ToSet(t.trace[i].facts) :
              \E f \in Reply!RequestCandidates(c, p[i]) : f.id = id
         /\ Reply!ToSet(t.trace[i].facts) \subseteq Reply!ToSet(t.facts)
    /\ \A i \in 1 .. n : t.trace[i].status = "deferred" => Reply!Remaining(c) \in t.said
    /\ \A i \in 1 .. n : t.trace[i].status \notin {"answered", "deferred"} =>
         Reply!Boundary(c, p[i], t.trace[i]) \in t.said

LEMMA ComposedIsGrounded ==
  ASSUME NEW c \in Catalogues, NEW p, NEW ds, NEW final, NEW U, NEW n \in Nat, Len(p) = n, DOMAIN final = 1 .. n,
         \A i \in 1 .. n : ds[i].facts \in Seq(U),
         \A i \in 1 .. n : Reply!Ids(Reply!RequestCandidates(c, p[i])) \subseteq U,
         \A i \in 1 .. n : Reply!Supported(c, p[i], ds[i]),
         \A i \in 1 .. n : final[i] = Reply!Settled(c, p[i], ds[i])
  PROVE  Answering(c, p, n, Reply!Compose(c, p, final))
<1> DEFINE t == Reply!Compose(c, p, final)
           said == Unanswered(c, p, final)
<1>1. \A i \in 1 .. n : final[i].facts \in Seq(U)
  BY SettledIsSeq
<1>2. n \in Nat
  OBVIOUS
<1>3. /\ t = [action |-> Reply!ActionOf(c, final), facts |-> t.facts, len |-> t.len, source |-> "model",
              said |-> t.said, trace |-> t.trace, interaction |-> t.interaction]
      /\ DOMAIN t.trace = 1 .. n
      /\ \A i \in 1 .. n : IsPart(final[i], t.facts, t.trace[i])
      /\ t.said = Reply!Said(c, said, t.trace)
  <2>1. Len(p) = n /\ DOMAIN final = 1 .. n
    OBVIOUS
  <2> QED BY ONLY <1>1, <1>2, <2>1, ComposedHolds
<1> HIDE DEF t
<1>4. t.action \in {"reply", "ask_clarification", c.unknown}
  <2>1. t.action = Reply!ActionOf(c, final)
    BY <1>3
  <2>2. CASE Reply!Missing(final) # DOMAIN final
    BY <2>1, <2>2 DEF Reply!ActionOf
  <2>3. CASE /\ Reply!Missing(final) = DOMAIN final
             /\ \A i \in DOMAIN final : final[i].status = "clarify"
    BY <2>1, <2>3, Zenon DEF Reply!ActionOf
  <2>4. CASE /\ Reply!Missing(final) = DOMAIN final
             /\ ~(\A i \in DOMAIN final : final[i].status = "clarify")
    <3>1. Reply!ActionOf(c, final) = c.unknown
      BY <2>4, Zenon DEF Reply!ActionOf
    <3> QED BY <2>1, <3>1
  <2> QED BY <2>2, <2>3, <2>4
<1>5. \A i \in 1 .. n : t.trace[i].status # "deferred" =>
        t.trace[i] = final[i] /\ \A y \in Reply!ToSet(final[i].facts) : y \in Reply!ToSet(t.facts)
  BY <1>3 DEF IsPart, Deferred
<1>6. ASSUME NEW i \in 1 .. n, t.trace[i].status = "answered"
      PROVE  /\ \A id \in Reply!ToSet(t.trace[i].facts) :
                  \E f \in Reply!RequestCandidates(c, p[i]) : f.id = id
             /\ Reply!ToSet(t.trace[i].facts) \subseteq Reply!ToSet(t.facts)
  <2>1. t.trace[i] = final[i] /\ \A y \in Reply!ToSet(final[i].facts) : y \in Reply!ToSet(t.facts)
    BY <1>5, <1>6
  <2>2. t.trace[i] = Reply!Settled(c, p[i], ds[i]) /\ Reply!Supported(c, p[i], ds[i])
    BY <2>1
  <2>3. \A id \in Reply!ToSet(t.trace[i].facts) : \E f \in Reply!RequestCandidates(c, p[i]) : f.id = id
    <3> DEFINE r == p[i]
               d == ds[i]
    <3>1. Reply!Supported(c, r, d) /\ Reply!Settled(c, r, d).status = "answered"
      BY <1>6, <2>2
    <3>2. t.trace[i].facts = Reply!Settled(c, r, d).facts
      BY <2>2
    <3> HIDE DEF r, d
    <3>3. \A id \in Reply!ToSet(Reply!Settled(c, r, d).facts) : \E f \in Reply!RequestCandidates(c, r) : f.id = id
      <4> SUFFICES ASSUME NEW id \in Reply!ToSet(Reply!Settled(c, r, d).facts)
                   PROVE  \E f \in Reply!RequestCandidates(c, r) : f.id = id
        OBVIOUS
      <4> QED BY ONLY <3>1, id \in Reply!ToSet(Reply!Settled(c, r, d).facts), SettledIsShown
    <3> QED BY <3>2, <3>3 DEF r
  <2> QED BY <2>1, <2>3
<1>7. ASSUME NEW i \in 1 .. n, t.trace[i].status = "deferred"
      PROVE  Reply!Remaining(c) \in t.said
  BY <1>3, <1>7 DEF Reply!Said
<1>8. ASSUME NEW i \in 1 .. n, t.trace[i].status \notin {"answered", "deferred"}
      PROVE  Reply!Boundary(c, p[i], t.trace[i]) \in t.said
  <2>1. t.trace[i] = final[i]
    BY <1>5, <1>8
  <2>2. i \in Reply!Missing(final)
    BY <1>8, <2>1 DEF Reply!Missing
  <2>3. Reply!Boundary(c, p[i], t.trace[i]) \in said
    BY <2>1, <2>2 DEF Unanswered
  <2>4. said \subseteq t.said
    BY <1>3 DEF Reply!Said
  <2> QED BY <2>3, <2>4
<1>9. t = [action |-> t.action, facts |-> t.facts, len |-> t.len, source |-> "model",
           said |-> t.said, trace |-> t.trace, interaction |-> t.interaction]
  <2>1. t.action = Reply!ActionOf(c, final)
    BY <1>3
  <2> QED BY <1>3, <2>1
<1>10. Answering(c, p, n, t)
  BY <1>3, <1>4, <1>6, <1>7, <1>8, <1>9 DEF Answering
<1> QED BY <1>10 DEF t

LEMMA AnswerIsGrounded ==
  ASSUME ReplyInv, Reply!Answer
  PROVE  ReplyInv'
<1> USE DEF ReplyInv
<1> DEFINE shown == UNION {Reply!Ids(Reply!RequestCandidates(live, plan[i])) : i \in DOMAIN plan}
           Decision == [status : {"answered", "unavailable", "clarify"},
                        facts : Reply!BoundedSeq(shown, 2)]
           Final(ds) == [i \in DOMAIN plan |-> Reply!Settled(live, plan[i], ds[i])]
           Bad(ds) == \/ \E i \in DOMAIN plan : ~Reply!Supported(live, plan[i], ds[i])
                      \/ Reply!Compose(live, plan, Final(ds)).len > Reply!Budget(live)
           Answered(ds) ==
             /\ stageOfReply' = "answered"
             /\ \E x : turn' = [Reply!Compose(live, plan, Final(ds)) EXCEPT !.interaction = x]
<1>1. UNCHANGED <<live, about, msg, plan>> /\ stageOfReply = "planned"
  BY DEF Reply!Answer
<1>2. \/ Reply!Unknown("fallback")
      \/ \E ds \in [DOMAIN plan -> Decision] :
           IF Bad(ds) THEN Reply!Unknown("fallback") ELSE Answered(ds)
  BY Zenon DEF Reply!Answer
<1>3. CASE Reply!Unknown("fallback")
  <2>2. /\ Grounded' /\ Reply!NoNeedDropped'
        /\ stageOfReply' \in {"answered", "raised"}
        /\ stageOfReply' # "answered" => turn' = Reply!NoTurn
        /\ turn'.action \in {Reply!None, "reply", "handoff", "ask_clarification", "decline"}
    BY <1>1, <1>3, UnknownIsGrounded
  <2>3. ReplyShape'
    BY <1>1, <2>2 DEF ReplyShape, Spoken, Reply!Visible
  <2> QED BY <2>2, <2>3
<1> DEFINE n == Len(plan)
<1>4. n \in Nat /\ n # 0 /\ DOMAIN plan = 1 .. n /\ live \in Catalogues
  BY <1>1, KnowledgeAssumptions DEF ReplyShape, Reply!CatalogueAssumption
<1>5. ASSUME NEW ds \in [DOMAIN plan -> Decision], ~Bad(ds), Answered(ds)
      PROVE  ReplyInv'
  <2> DEFINE final == Final(ds)
             t == Reply!Compose(live, plan, final)
  <2>1. \A i \in 1 .. n : Reply!Supported(live, plan[i], ds[i])
    BY <1>4, <1>5
  <2>2. \A i \in 1 .. n : ds[i].facts \in Seq(shown)
    <3> SUFFICES ASSUME NEW i \in 1 .. n  PROVE ds[i].facts \in Seq(shown)
      OBVIOUS
    <3>1. ds[i] \in Decision
      BY <1>4
    <3> HIDE DEF shown
    <3>2. ds[i].facts \in Reply!BoundedSeq(shown, 2)
      BY <3>1
    <3>3. 2 \in Nat
      OBVIOUS
    <3> QED BY <3>2, <3>3, BoundedIsSeq
  <2>3. \A i \in 1 .. n : Reply!Ids(Reply!RequestCandidates(live, plan[i])) \subseteq shown
    BY <1>4
  <2>4. DOMAIN final = 1 .. n /\ \A i \in 1 .. n : final[i] = Reply!Settled(live, plan[i], ds[i])
    BY <1>4
  <2> PICK x : turn' = [t EXCEPT !.interaction = x]
    BY <1>5
  <2> HIDE DEF shown, final, n
  <2>5. Answering(live, plan, n, t)
    <3>1. live \in Catalogues /\ n \in Nat /\ Len(plan) = n /\ DOMAIN final = 1 .. n
      BY <1>4, <2>4 DEF n
    <3>2. \A i \in 1 .. n : final[i] = Reply!Settled(live, plan[i], ds[i])
      BY <2>4
    <3> QED BY ONLY <2>1, <2>2, <2>3, <3>1, <3>2, ComposedIsGrounded
  <2> HIDE DEF t
  <2>6. /\ turn'.action = t.action /\ turn'.facts = t.facts /\ turn'.said = t.said
        /\ turn'.trace = t.trace
    BY <2>5 DEF Answering
  <2>7. /\ live' = live /\ plan' = plan /\ about' = about /\ stageOfReply' = "answered"
    BY <1>1, <1>5
  <2>8. turn'.action \in {Reply!None, "reply", "handoff", "ask_clarification", "decline"}
    BY <1>4, <2>5, <2>6, CatalogueIs DEF Answering
  <2>9. ReplyShape'
    BY <2>7, <2>8 DEF ReplyShape, Spoken, Reply!Visible
  <2>10. Reply!EvidenceInScope'
    <3> SUFFICES ASSUME NEW i \in DOMAIN turn'.trace, turn'.trace[i].status = "answered",
                        NEW id \in Reply!ToSet(turn'.trace[i].facts)
                 PROVE  (\E f \in Reply!InScope(live, plan[i]) \cup {g \in Reply!Visible(live) : g.category = "social"} :
                           /\ f.id = id
                           /\ f.category = "social" => plan[i].topic \in {"social", "visuals"}
                           /\ plan[i].topic \in Reply!Protected => f.category \in Reply!Categories(plan[i].topic)
                           /\ plan[i].topic = "price" => ~f.quote)'
      BY Zenon DEF Reply!EvidenceInScope
    <3>0. i \in 1 .. n /\ t.trace[i].status = "answered" /\ id \in Reply!ToSet(t.trace[i].facts)
      BY <2>5, <2>6 DEF Answering
    <3>1. PICK f \in Reply!RequestCandidates(live, plan[i]) : f.id = id
      BY <2>5, <3>0 DEF Answering
    <3>2. InRequest(live, plan[i], f)
      BY <1>4, RequestScope
    <3>3. /\ Reply!InScope(live, plan[i])' = Reply!InScope(live, plan[i])
          /\ Reply!Visible(live)' = Reply!Visible(live)
          /\ Reply!Categories(plan[i].topic)' = Reply!Categories(plan[i].topic)
      BY <2>7 DEF Reply!Categories
    <3>4. f \in Reply!InScope(live, plan[i]) \cup {g \in Reply!Visible(live) : g.category = "social"}
      BY <3>2 DEF InRequest
    <3> QED BY <2>7, <3>1, <3>2, <3>3, <3>4 DEF InRequest
  <2>11. Reply!NoNeedDropped'
    <3> SUFFICES ASSUME NEW i \in 1 .. n
                 PROVE  CASE t.trace[i].status = "answered" -> Reply!ToSet(t.trace[i].facts) \subseteq Reply!ToSet(t.facts)
                          [] t.trace[i].status = "deferred" -> Reply!Remaining(live) \in t.said
                          [] OTHER -> Reply!Boundary(live, plan[i], t.trace[i]) \in t.said
      BY <2>5, <2>6, <2>7 DEF Reply!NoNeedDropped, Answering
    <3> QED BY <2>5 DEF Answering
  <2>12. turn'.trace # <<>>
    BY <1>4, <2>5, <2>6 DEF n, Answering
  <2>13. ~Reply!Chosen'
    BY <2>12 DEF Reply!Chosen
  <2> QED BY <2>9, <2>10, <2>11, <2>13 DEF Grounded, Reply!ProtectedByCategory, Reply!FollowUpKeepsSubject
<1>6. ASSUME NEW ds \in [DOMAIN plan -> Decision], IF Bad(ds) THEN Reply!Unknown("fallback") ELSE Answered(ds)
      PROVE  ReplyInv'
  BY <1>3, <1>5, <1>6
<1> QED BY <1>2, <1>3, <1>6

LEMMA ReplyInitially ==
  ASSUME KnowledgeInit
  PROVE  ReplyInv
<1>1. /\ live \in Catalogues /\ about = {} /\ stageOfReply = "idle" /\ plan = <<>> /\ turn = Reply!NoTurn
  BY DEF KnowledgeInit, Reply!Init
<1>2. MaxRequests \in Nat
  BY KnowledgeAssumptions DEF Reply!CatalogueAssumption
<1>3. ReplyShape
  BY <1>1, <1>2, NothingSaid DEF ReplyShape
<1> QED BY <1>1, <1>3, NothingToGround DEF ReplyInv

LEMMA ReplyStays ==
  ASSUME ReplyInv, UNCHANGED replyVars
  PROVE  ReplyInv'
<1>1. /\ live' = live /\ about' = about /\ stageOfReply' = stageOfReply /\ msg' = msg
      /\ plan' = plan /\ turn' = turn
  BY DEF replyVars
<1>2. ReplyShape'
  BY <1>1 DEF ReplyInv, ReplyShape, Spoken, Reply!Visible
<1>3. Reply!EvidenceInScope'
  <2>1. \A r : Reply!Categories(r)' = Reply!Categories(r)
    BY <1>1 DEF Reply!Categories
  <2> QED BY <1>1, <2>1 DEF ReplyInv, Grounded, Reply!EvidenceInScope
<1>4. Reply!NoNeedDropped'
  BY <1>1 DEF ReplyInv, Reply!NoNeedDropped
<1>5. Reply!Chosen' <=> Reply!Chosen
  BY <1>1 DEF Reply!Chosen
<1>6. Reply!ProtectedByCategory'
  BY <1>1, <1>5 DEF ReplyInv, Grounded, Reply!ProtectedByCategory
<1>7. Reply!FollowUpKeepsSubject'
  BY <1>1, <1>5 DEF ReplyInv, Grounded, Reply!FollowUpKeepsSubject
<1> QED BY <1>2, <1>3, <1>4, <1>6, <1>7 DEF ReplyInv, Grounded

LEMMA ReplyStep ==
  ASSUME ReplyInv, [KnowledgeNext]_<<part, vars, replyVars, versionVars>>
  PROVE  ReplyInv'
<1>1. CASE Reply!Next
  BY <1>1, ReceiveIsGrounded, AcknowledgeIsGrounded, NavigateIsGrounded, DecideIsGrounded, PlanIsGrounded,
     AnswerIsGrounded, CloseIsGrounded, PublishIsGrounded DEF Reply!Next
<1>2. CASE UNCHANGED replyVars
  BY <1>2, ReplyStays
<1> QED BY <1>1, <1>2 DEF KnowledgeNext

LEMMA ReplyInvHolds == KnowledgeSpec => []ReplyInv
<1>1. KnowledgeInit => ReplyInv
  BY ReplyInitially
<1>2. ReplyInv /\ [KnowledgeNext]_<<part, vars, replyVars, versionVars>> => ReplyInv'
  BY ReplyStep
<1> QED BY <1>1, <1>2, PTL DEF KnowledgeSpec

(* A reply rests on visible facts: those of a plan inside the lineage of   *)
(* the product asked for and in the category of the topic; those the model *)
(* chose by itself of the category the words demand, and about the product *)
(* the message or, without one, the last reply was about (_visible_facts,  *)
(* request_candidates, parse_customer_reply).                              *)
THEOREM RepliesAreGrounded == KnowledgeSpec => []GroundedReply
<1>1. ReplyInv => GroundedReply
  <2> SUFFICES ASSUME ReplyInv  PROVE GroundedReply
    OBVIOUS
  <2>1. Reply!TypeOK
    BY DEF ReplyInv, ReplyShape, Spoken, Reply!TypeOK
  <2> QED BY <2>1 DEF ReplyInv, Grounded, GroundedReply
<1> QED BY <1>1, ReplyInvHolds, PTL

(* Each request of a plan is rendered with all the facts cited for it, or  *)
(* the reply says that it is put off or cannot be answered (compose_reply).*)
THEOREM NothingIsDropped == KnowledgeSpec => []NoNeedDropped
<1>1. ReplyInv => NoNeedDropped
  BY DEF ReplyInv, NoNeedDropped
<1> QED BY <1>1, ReplyInvHolds, PTL
=============================================================================
