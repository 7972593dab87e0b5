--------------------------- MODULE OutreachProofs ---------------------------
(***************************************************************************)
(* What holds of leads and receipts for any number of scans, leads, sites, *)
(* callbacks and workers that die.                                         *)
(*   LeadsAreClean             what is left of a campaign passed the bar,  *)
(*                             and a company became one lead of a scan.    *)
(*   LockedReceiptsAreEvidence a row shows what the callbacks prove, while *)
(*                             the lock of its Message keeps sessions      *)
(*                             apart.                                      *)
(***************************************************************************)
EXTENDS Outreach, FiniteSetTheorems, SequenceTheorems, TLAPS

(***************************************************************************)
(* Leads.                                                                  *)
(***************************************************************************)
LeadIds == [task : Tasks, raw : Raws]
LeadRow == [status : {"discovered", "enriching", "qualified", "discarded"}, score : 0 .. 100]
TaskRow == [kind : {"none", "scan", "lead"},
            stage : {"none", "queued", "ingest", "ingested", "enrich", "purged", "done", "failed"},
            found : SUBSET Raws, fresh : SUBSET LeadIds, todo : SUBSET LeadIds, busy : SUBSET LeadIds]
ScanTypes ==
  /\ campaign \in {"draft", "discovering", "ready"}
  /\ leads \in [DOMAIN leads -> LeadRow] /\ DOMAIN leads \subseteq LeadIds
  /\ contacts \in [DOMAIN contacts -> DOMAIN leads] /\ "none" \notin DOMAIN contacts
  /\ tasks \in [Tasks -> TaskRow]

(* Only a scan ingests, and only an enrichment has leads to see to.        *)
Shape(x) ==
  /\ x.kind = "none" => x.stage = "none"
  /\ x.kind = "lead" => x.stage \in {"enrich", "done", "failed"}
  /\ x.stage # "enrich" => x.todo = {} /\ x.busy = {}
  /\ x.fresh # {} => x.stage = "ingest" /\ x.kind = "scan"
Shapes == \A t \in Tasks : Shape(tasks[t])

(* Unless a scan failed, or a manager enriched a lead, what is below the   *)
(* bar waits for a scan that will purge it, and what passed it and is not  *)
(* qualified is about to be scored again.                                  *)
Broken == \E t \in Tasks : tasks[t].stage = "failed" \/ tasks[t].kind = "lead"
WillPurge(x) == x.kind = "scan" /\ x.stage \in {"ingested", "enrich"}
LowIsPurged == Broken \/ \A l \in Scan!Leads : leads[l].score < Bar => \E t \in Tasks : WillPurge(tasks[t])
HighIsScored ==
  Broken \/ \A l \in Scan!Leads : leads[l].score >= Bar =>
               \/ leads[l].status = "qualified"
               \/ leads[l].status = "enriching" /\ \E t \in Tasks : l \in tasks[t].busy

(* A lead that passed the bar has its phone, so that storing it again does *)
(* not fail.                                                               *)
HighHasPhone ==
  \A l \in Scan!Leads : leads[l].score >= Bar /\ l.raw.phone # "none" =>
     l.raw.phone \in DOMAIN contacts /\ contacts[l.raw.phone] = l

(* With one scan, no company twice among what it committed and what it is  *)
(* about to commit.                                                        *)
OneScan == \A t, u \in Tasks : tasks[t].kind = "scan" /\ tasks[u].kind = "scan" => t = u
Apart(l, k) ==
  l # k /\ l.raw.name = k.raw.name => l.raw.domain # k.raw.domain /\ "none" \notin {l.raw.domain, k.raw.domain}
AllApart(those) == \A l, k \in those : Apart(l, k)
FoundOnce == OneScan => \A t \in Tasks : AllApart(Scan!Leads \cup tasks[t].fresh)

ScanInv == ScanTypes /\ Shapes /\ LowIsPurged /\ HighIsScored /\ HighHasPhone /\ FoundOnce
-----------------------------------------------------------------------------
(* The instance has its own names of what FiniteSets defines.              *)
LEMMA SameFinite == Scan!IsFiniteSet(Tasks) <=> IsFiniteSet(Tasks)
BY DEF Scan!IsFiniteSet, IsFiniteSet

LEMMA SameCardinality == Scan!Cardinality(Scan!Scans) = Cardinality(Scan!Scans)
BY DEF Scan!Cardinality, Cardinality

LEMMA BarIsPositive == Bar \in 1 .. 100 /\ IsFiniteSet(Tasks)
                       /\ \A raw \in Raws : raw.site.matched \in Nat /\ raw.site.negative \in Nat
<1>1. Scan!BarIsAScore
  BY OutreachAssumptions
<1> QED BY <1>1, SameFinite DEF Scan!BarIsAScore

LEMMA PutIs ==
  ASSUME ScanTypes, NEW t \in Tasks, NEW x \in TaskRow, Scan!Put(t, x)
  PROVE  tasks' \in [Tasks -> TaskRow] /\ tasks'[t] = x /\ \A u \in Tasks \ {t} : tasks'[u] = tasks[u]
BY DEF ScanTypes, Scan!Put

(* A step of a task that leaves the leads alone.                           *)
LEMMA TaskMoves ==
  ASSUME ScanInv, NEW t \in Tasks, NEW x \in TaskRow, Scan!Put(t, x), Shape(x),
         UNCHANGED <<leads, contacts>>, campaign' \in {"draft", "discovering", "ready"},
         tasks[t].stage # "failed", tasks[t].kind # "none" => x.kind = tasks[t].kind,
         \/ x.stage = "failed" \/ x.kind = "lead"
         \/ /\ WillPurge(tasks[t]) => WillPurge(x)
            /\ \A l \in tasks[t].busy \ x.busy : l \notin Scan!Leads \/ leads[l].score < Bar,
         OneScan => AllApart(Scan!Leads \cup x.fresh)
  PROVE  ScanInv'
<1>1. tasks' \in [Tasks -> TaskRow] /\ tasks'[t] = x /\ \A u \in Tasks \ {t} : tasks'[u] = tasks[u]
  BY PutIs DEF ScanInv
<1>2. tasks[t] \in TaskRow /\ Bar \in Nat
  BY BarIsPositive DEF ScanInv, ScanTypes
<1>3. ScanTypes'
  BY <1>1 DEF ScanInv, ScanTypes
<1>4. Shapes'
  BY <1>1 DEF ScanInv, Shapes
<1>5. Broken => Broken'
  BY <1>1 DEF Broken
<1>6. x.stage = "failed" \/ x.kind = "lead" => Broken'
  BY <1>1 DEF Broken
<1>7. LowIsPurged'
  BY <1>1, <1>5, <1>6 DEF ScanInv, LowIsPurged, Scan!Leads
<1>8. HighIsScored'
  <2>1. SUFFICES ASSUME ~Broken', NEW l \in Scan!Leads, leads[l].score >= Bar
                 PROVE  \/ leads[l].status = "qualified"
                        \/ leads[l].status = "enriching" /\ \E u \in Tasks : l \in tasks'[u].busy
    BY DEF HighIsScored, Scan!Leads
  <2>2. \/ leads[l].status = "qualified"
        \/ leads[l].status = "enriching" /\ \E u \in Tasks : l \in tasks[u].busy
    BY <1>5, <2>1 DEF ScanInv, HighIsScored
  <2>3. ~(leads[l].score < Bar)
    BY <1>2, <2>1 DEF ScanInv, ScanTypes, LeadRow, Scan!Leads
  <2>4. \A m \in tasks[t].busy \ x.busy : m # l
    BY <1>6, <2>1, <2>3
  <2>5. \A u \in Tasks : l \in tasks[u].busy => l \in tasks'[u].busy
    BY <1>1, <2>4
  <2> QED BY <2>2, <2>5
<1>9. HighHasPhone'
  BY DEF ScanInv, HighHasPhone, Scan!Leads
<1>10. FoundOnce'
  <2>1. OneScan' => OneScan
    BY <1>1, <1>2 DEF OneScan, TaskRow
  <2>2. ASSUME OneScan', NEW u \in Tasks  PROVE AllApart(Scan!Leads \cup tasks'[u].fresh)
    BY <1>1, <2>1, <2>2 DEF ScanInv, FoundOnce
  <2>3. Scan!Leads' = Scan!Leads
    BY DEF Scan!Leads
  <2> QED BY <2>2, <2>3 DEF FoundOnce, AllApart
<1> QED BY <1>3, <1>4, <1>7, <1>8, <1>9, <1>10 DEF ScanInv

LEMMA NoTaskIs ==
  /\ Scan!NoTask \in TaskRow /\ Scan!NoTask.kind = "none" /\ Scan!NoTask.stage = "none" /\ Scan!NoTask.found = {}
  /\ Scan!NoTask.fresh = {} /\ Scan!NoTask.todo = {} /\ Scan!NoTask.busy = {}
BY DEF Scan!NoTask, TaskRow

(* With one scan no two leads are of one company; a scan that takes no     *)
(* lead more adds none.                                                    *)
LEMMA NoneMore ==
  ASSUME ScanInv, NEW t \in Tasks, NEW x, x.fresh \subseteq tasks[t].fresh
  PROVE  OneScan => AllApart(Scan!Leads \cup x.fresh)
BY DEF ScanInv, FoundOnce, AllApart

LEMMA DiscoverHolds ==
  ASSUME ScanInv, NEW t \in Tasks, Scan!Discover(t)
  PROVE  ScanInv'
<1> DEFINE x == [Scan!NoTask EXCEPT !.kind = "scan", !.stage = "queued"]
<1>1. x \in TaskRow /\ x.kind = "scan" /\ x.stage = "queued" /\ x.fresh = {} /\ x.todo = {} /\ x.busy = {}
  BY DEF Scan!NoTask, TaskRow
<1>2. Scan!Put(t, x) /\ tasks[t] = Scan!NoTask /\ UNCHANGED <<leads, contacts>> /\ campaign' = "discovering"
  BY DEF Scan!Discover
<1> HIDE DEF x
<1>3. Shape(x) /\ ~WillPurge(tasks[t]) /\ tasks[t].busy = {}
  BY <1>1, <1>2, NoTaskIs DEF Shape, WillPurge
<1>4. OneScan => AllApart(Scan!Leads \cup x.fresh)
  BY <1>1, NoneMore
<1> QED BY <1>1, <1>2, <1>3, <1>4, NoTaskIs, TaskMoves

LEMMA CollectHolds ==
  ASSUME ScanInv, NEW t \in Tasks, Scan!Collect(t)
  PROVE  ScanInv'
<1>1. PICK found \in SUBSET Raws : Scan!Put(t, [tasks[t] EXCEPT !.stage = "ingest", !.found = found])
  BY DEF Scan!Collect
<1> DEFINE x == [tasks[t] EXCEPT !.stage = "ingest", !.found = found]
<1>2. tasks[t] \in TaskRow /\ Shape(tasks[t]) /\ tasks[t].kind = "scan" /\ tasks[t].stage = "queued"
      /\ UNCHANGED <<leads, contacts, campaign>> /\ campaign \in {"draft", "discovering", "ready"}
  BY DEF Scan!Collect, Scan!At, ScanInv, ScanTypes, Shapes
<1>3. x \in TaskRow /\ x.kind = "scan" /\ x.stage = "ingest" /\ x.fresh = tasks[t].fresh
      /\ x.todo = tasks[t].todo /\ x.busy = tasks[t].busy
  BY <1>2 DEF TaskRow
<1>4. Scan!Put(t, x)
  BY <1>1
<1> HIDE DEF x
<1>5. Shape(x) /\ ~WillPurge(tasks[t]) /\ tasks[t].busy = {}
  BY <1>2, <1>3 DEF Shape, WillPurge
<1>6. OneScan => AllApart(Scan!Leads \cup x.fresh)
  BY <1>3, NoneMore
<1> QED BY <1>2, <1>3, <1>4, <1>5, <1>6, TaskMoves

LEMMA IngestHolds ==
  ASSUME ScanInv, NEW t \in Tasks, NEW raw \in Raws, Scan!Ingest(t, raw)
  PROVE  ScanInv'
<1> DEFINE fresher == IF Scan!Matches(t, raw) = {} THEN tasks[t].fresh \cup {Scan!LeadOf(t, raw)} ELSE tasks[t].fresh
           x == [tasks[t] EXCEPT !.found = @ \ {raw}, !.fresh = fresher]
<1>1. tasks[t] \in TaskRow /\ Shape(tasks[t]) /\ tasks[t].kind = "scan" /\ tasks[t].stage = "ingest"
      /\ UNCHANGED <<leads, contacts, campaign>> /\ campaign \in {"draft", "discovering", "ready"}
  BY DEF Scan!Ingest, Scan!At, ScanInv, ScanTypes, Shapes
<1>2. Scan!Put(t, x)
  BY <1>1 DEF Scan!Ingest
<1>3. fresher \subseteq LeadIds
  BY <1>1 DEF TaskRow, LeadIds, Scan!LeadOf
<1>4. OneScan => AllApart(Scan!Leads \cup fresher)
  <2>1. CASE Scan!Matches(t, raw) # {}
    BY <2>1 DEF ScanInv, FoundOnce
  <2>2. CASE Scan!Matches(t, raw) = {}
    <3>1. \A k \in Scan!Leads \cup tasks[t].fresh :
             k.raw.name = raw.name => raw.domain # "none" /\ k.raw.domain # raw.domain /\ k.raw.domain # "none"
      BY <2>2 DEF Scan!Matches, Scan!SameCompany
    <3>2. Scan!LeadOf(t, raw).raw = raw
      BY DEF Scan!LeadOf
    <3>3. OneScan => AllApart(Scan!Leads \cup tasks[t].fresh)
      BY DEF ScanInv, FoundOnce
    <3>4. fresher = tasks[t].fresh \cup {Scan!LeadOf(t, raw)}
      BY <2>2
    <3> QED BY <3>1, <3>2, <3>3, <3>4 DEF AllApart, Apart
  <2> QED BY <2>1, <2>2
<1> HIDE DEF fresher
<1>5. x \in TaskRow /\ x.kind = "scan" /\ x.stage = "ingest" /\ x.fresh = fresher
      /\ x.todo = tasks[t].todo /\ x.busy = tasks[t].busy
  BY <1>1, <1>3 DEF TaskRow
<1> HIDE DEF x
<1>6. Shape(x) /\ ~WillPurge(tasks[t]) /\ tasks[t].busy = {}
  BY <1>1, <1>5 DEF Shape, WillPurge
<1> QED BY <1>1, <1>2, <1>4, <1>5, <1>6, TaskMoves

(* The tasks that end without having done all: their scan has failed.      *)
LEMMA FailHolds ==
  ASSUME ScanInv, NEW t \in Tasks, tasks[t].stage # "failed", tasks[t].kind # "none",
         Scan!Put(t, [Scan!NoTask EXCEPT !.kind = tasks[t].kind, !.stage = "failed"]),
         UNCHANGED <<leads, contacts, campaign>>
  PROVE  ScanInv'
<1> DEFINE x == [Scan!NoTask EXCEPT !.kind = tasks[t].kind, !.stage = "failed"]
<1>1. tasks[t] \in TaskRow /\ campaign \in {"draft", "discovering", "ready"}
  BY DEF ScanInv, ScanTypes
<1>2. x \in TaskRow /\ x.kind = tasks[t].kind /\ x.stage = "failed" /\ x.fresh = {} /\ x.todo = {} /\ x.busy = {}
  BY <1>1 DEF Scan!NoTask, TaskRow
<1>3. Scan!Put(t, x)
  OBVIOUS
<1> HIDE DEF x
<1>4. Shape(x)
  BY <1>2 DEF Shape
<1>5. OneScan => AllApart(Scan!Leads \cup x.fresh)
  BY <1>2, NoneMore
<1> QED BY <1>1, <1>2, <1>3, <1>4, <1>5, TaskMoves

LEMMA IngestFailsHolds ==
  ASSUME ScanInv, NEW t \in Tasks, NEW raw \in Raws, Scan!IngestFails(t, raw)
  PROVE  ScanInv'
<1>1. tasks[t].kind = "scan" /\ tasks[t].stage = "ingest" /\ UNCHANGED <<leads, contacts, campaign>>
  BY DEF Scan!IngestFails, Scan!At
<1>2. Scan!Put(t, [Scan!NoTask EXCEPT !.kind = tasks[t].kind, !.stage = "failed"])
  BY <1>1 DEF Scan!IngestFails
<1> QED BY <1>1, <1>2, FailHolds

LEMMA CrashHolds ==
  ASSUME ScanInv, NEW t \in Tasks, Scan!Crash(t)
  PROVE  ScanInv'
<1>1. tasks[t].stage # "none" /\ tasks[t].stage # "failed" /\ UNCHANGED <<leads, contacts, campaign>>
      /\ Scan!Put(t, [Scan!NoTask EXCEPT !.kind = tasks[t].kind, !.stage = "failed"])
  BY DEF Scan!Crash
<1>2. tasks[t].kind # "none"
  BY <1>1 DEF ScanInv, Shapes, Shape
<1> QED BY <1>1, <1>2, FailHolds

LEMMA SelectHolds ==
  ASSUME ScanInv, NEW t \in Tasks, Scan!Select(t)
  PROVE  ScanInv'
<1> DEFINE todo == {l \in Scan!Leads : leads[l].status = "discovered"}
           x == [tasks[t] EXCEPT !.stage = "enrich", !.todo = todo]
<1>1. tasks[t] \in TaskRow /\ Shape(tasks[t]) /\ tasks[t].kind = "scan" /\ tasks[t].stage = "ingested"
      /\ UNCHANGED <<leads, contacts, campaign>> /\ campaign \in {"draft", "discovering", "ready"}
  BY DEF Scan!Select, Scan!At, ScanInv, ScanTypes, Shapes
<1>2. Scan!Put(t, x)
  BY DEF Scan!Select
<1>3. todo \subseteq LeadIds
  BY DEF ScanInv, ScanTypes, Scan!Leads
<1> HIDE DEF todo
<1>4. x \in TaskRow /\ x.kind = "scan" /\ x.stage = "enrich" /\ x.fresh = tasks[t].fresh /\ x.busy = tasks[t].busy
  BY <1>1, <1>3 DEF TaskRow
<1> HIDE DEF x
<1>5. Shape(x) /\ WillPurge(x)
  BY <1>1, <1>4 DEF Shape, WillPurge
<1>6. OneScan => AllApart(Scan!Leads \cup x.fresh)
  BY <1>4, NoneMore
<1> QED BY <1>1, <1>2, <1>4, <1>5, <1>6, TaskMoves

LEMMA EnrichOneHolds ==
  ASSUME ScanInv, NEW t \in Tasks, NEW l, Scan!EnrichOne(t, l)
  PROVE  ScanInv'
<1> DEFINE x == [Scan!NoTask EXCEPT !.kind = "lead", !.stage = "enrich", !.todo = {l}]
<1>1. tasks[t] = Scan!NoTask /\ l \in LeadIds /\ UNCHANGED <<leads, contacts, campaign>>
      /\ campaign \in {"draft", "discovering", "ready"}
  BY DEF Scan!EnrichOne, ScanInv, ScanTypes, Scan!Leads
<1>2. x \in TaskRow /\ x.kind = "lead" /\ x.stage = "enrich" /\ x.fresh = {} /\ x.busy = {}
  BY <1>1 DEF Scan!NoTask, TaskRow
<1>3. Scan!Put(t, x)
  BY DEF Scan!EnrichOne
<1> HIDE DEF x
<1>4. Shape(x)
  BY <1>2 DEF Shape
<1>5. OneScan => AllApart(Scan!Leads \cup x.fresh)
  BY <1>2, NoneMore
<1> QED BY <1>1, <1>2, <1>3, <1>4, <1>5, NoTaskIs, TaskMoves

LEMMA EnrichedOneHolds ==
  ASSUME ScanInv, NEW t \in Tasks, Scan!EnrichedOne(t)
  PROVE  ScanInv'
<1> DEFINE x == [tasks[t] EXCEPT !.stage = "done"]
<1>1. tasks[t] \in TaskRow /\ Shape(tasks[t]) /\ tasks[t].kind = "lead" /\ tasks[t].stage = "enrich"
      /\ tasks[t].todo = {} /\ tasks[t].busy = {}
      /\ UNCHANGED <<leads, contacts, campaign>> /\ campaign \in {"draft", "discovering", "ready"}
  BY DEF Scan!EnrichedOne, Scan!Through, ScanInv, ScanTypes, Shapes
<1>2. Scan!Put(t, x)
  BY DEF Scan!EnrichedOne
<1>3. x \in TaskRow /\ x.kind = "lead" /\ x.stage = "done" /\ x.fresh = tasks[t].fresh /\ x.busy = {} /\ x.todo = {}
  BY <1>1 DEF TaskRow
<1> HIDE DEF x
<1>4. Shape(x)
  BY <1>1, <1>3 DEF Shape
<1>5. OneScan => AllApart(Scan!Leads \cup x.fresh)
  BY <1>3, NoneMore
<1> QED BY <1>1, <1>2, <1>3, <1>4, <1>5, TaskMoves

LEMMA FinalizeHolds ==
  ASSUME ScanInv, NEW t \in Tasks, Scan!Finalize(t)
  PROVE  ScanInv'
<1> DEFINE x == [tasks[t] EXCEPT !.stage = "done"]
<1>1. tasks[t] \in TaskRow /\ Shape(tasks[t]) /\ tasks[t].kind = "scan" /\ tasks[t].stage = "purged"
      /\ UNCHANGED <<leads, contacts>> /\ campaign' = "ready"
  BY DEF Scan!Finalize, Scan!At, ScanInv, ScanTypes, Shapes
<1>2. Scan!Put(t, x)
  BY DEF Scan!Finalize
<1>3. x \in TaskRow /\ x.kind = "scan" /\ x.stage = "done" /\ x.fresh = tasks[t].fresh
      /\ x.busy = tasks[t].busy /\ x.todo = tasks[t].todo
  BY <1>1 DEF TaskRow
<1> HIDE DEF x
<1>4. Shape(x) /\ ~WillPurge(tasks[t]) /\ tasks[t].busy = {}
  BY <1>1, <1>3 DEF Shape, WillPurge
<1>5. OneScan => AllApart(Scan!Leads \cup x.fresh)
  BY <1>3, NoneMore
<1> QED BY <1>1, <1>2, <1>3, <1>4, <1>5, TaskMoves

LEMMA EnrichFailsHolds ==
  ASSUME ScanInv, NEW t \in Tasks, NEW l, Scan!EnrichFails(t, l)
  PROVE  ScanInv'
<1> DEFINE fewer == tasks[t].busy \ {l}
           x == [tasks[t] EXCEPT !.busy = fewer]
<1>1. tasks[t] \in TaskRow /\ Shape(tasks[t]) /\ tasks[t].busy # {} /\ fewer \subseteq LeadIds
      /\ UNCHANGED <<leads, contacts, campaign>> /\ campaign \in {"draft", "discovering", "ready"}
  BY DEF Scan!EnrichFails, ScanInv, ScanTypes, Shapes, TaskRow
<1>2. Scan!Put(t, x)
  BY <1>1 DEF Scan!EnrichFails
<1>3. \A m \in tasks[t].busy \ fewer : m = l
  OBVIOUS
<1> HIDE DEF fewer
<1>4. x \in TaskRow /\ x.kind = tasks[t].kind /\ x.stage = tasks[t].stage /\ x.fresh = tasks[t].fresh
      /\ x.busy = fewer /\ x.todo = tasks[t].todo
  BY <1>1 DEF TaskRow
<1> HIDE DEF x
<1>5. Shape(x) /\ tasks[t].stage = "enrich" /\ (WillPurge(tasks[t]) => WillPurge(x))
  BY <1>1, <1>4 DEF Shape, WillPurge
<1>6. l \notin Scan!Leads \/ leads[l].score < Bar
  <2>1. SUFFICES ASSUME l \in Scan!Leads, ~(leads[l].score < Bar)  PROVE FALSE
    OBVIOUS
  <2>2. leads[l].score >= Bar
    BY <2>1, BarIsPositive DEF ScanInv, ScanTypes, LeadRow, Scan!Leads
  <2>3. l.raw.phone \in DOMAIN contacts /\ contacts[l.raw.phone] # l
    BY <2>1 DEF Scan!EnrichFails, Scan!Taken
  <2> QED BY <2>1, <2>2, <2>3 DEF ScanInv, ScanTypes, HighHasPhone
<1>7. OneScan => AllApart(Scan!Leads \cup x.fresh)
  BY <1>4, NoneMore
<1> QED BY <1>1, <1>2, <1>3, <1>4, <1>5, <1>6, <1>7, TaskMoves

-----------------------------------------------------------------------------
LEMMA IngestCommitsHolds ==
  ASSUME ScanInv, NEW t \in Tasks, Scan!IngestCommits(t)
  PROVE  ScanInv'
<1> DEFINE x == [tasks[t] EXCEPT !.stage = "ingested", !.fresh = {}]
<1>1. tasks[t] \in TaskRow /\ Shape(tasks[t]) /\ tasks[t].kind = "scan" /\ tasks[t].stage = "ingest"
      /\ UNCHANGED <<contacts, campaign>>
      /\ leads' = [l \in Scan!Leads \cup tasks[t].fresh |-> IF l \in Scan!Leads THEN leads[l] ELSE Scan!New]
  BY DEF Scan!IngestCommits, Scan!At, ScanInv, ScanTypes, Shapes
<1>2. Scan!Put(t, x)
  BY DEF Scan!IngestCommits
<1>3. x \in TaskRow /\ x.kind = "scan" /\ x.stage = "ingested" /\ x.fresh = {} /\ x.busy = tasks[t].busy /\ x.todo = tasks[t].todo
  BY <1>1 DEF TaskRow
<1> HIDE DEF x
<1>4. tasks' \in [Tasks -> TaskRow] /\ tasks'[t] = x /\ \A u \in Tasks \ {t} : tasks'[u] = tasks[u]
  BY <1>2, <1>3, PutIs DEF ScanInv
<1>5. Shape(x) /\ WillPurge(x) /\ tasks[t].busy = {}
  BY <1>1, <1>3 DEF Shape, WillPurge
<1>6. Scan!New \in LeadRow /\ Scan!New.score = 0 /\ 0 < Bar /\ ~(0 >= Bar)
  BY BarIsPositive DEF Scan!New, LeadRow
<1>7. /\ Scan!Leads' = Scan!Leads \cup tasks[t].fresh
      /\ \A l \in Scan!Leads : leads'[l] = leads[l]
      /\ \A l \in Scan!Leads' \ Scan!Leads : leads'[l] = Scan!New
  BY <1>1 DEF Scan!Leads
<1>8. ScanTypes'
  <2>1. \A l \in Scan!Leads' : leads'[l] \in LeadRow
    BY <1>6, <1>7 DEF ScanInv, ScanTypes, Scan!Leads
  <2>2. leads' \in [DOMAIN leads' -> LeadRow]
    BY <1>1, <2>1 DEF Scan!Leads
  <2>3. DOMAIN leads' \subseteq LeadIds /\ DOMAIN leads \subseteq DOMAIN leads'
    BY <1>1, <1>7 DEF ScanInv, ScanTypes, Scan!Leads, TaskRow
  <2> QED BY <1>1, <1>4, <2>2, <2>3 DEF ScanInv, ScanTypes
<1>9. Shapes'
  BY <1>4, <1>5 DEF ScanInv, Shapes
<1>10. Broken => Broken'
  BY <1>1, <1>4 DEF Broken
<1>11. LowIsPurged'
  BY <1>4, <1>5 DEF LowIsPurged
<1>12. HighIsScored'
  BY <1>3, <1>4, <1>5, <1>6, <1>7, <1>10 DEF ScanInv, HighIsScored
<1>13. HighHasPhone'
  BY <1>1, <1>6, <1>7 DEF ScanInv, HighHasPhone
<1>14. FoundOnce'
  <2>1. OneScan' => OneScan /\ \A u \in Tasks \ {t} : tasks[u].kind # "scan"
    BY <1>1, <1>3, <1>4 DEF OneScan
  <2>2. ASSUME OneScan', NEW u \in Tasks  PROVE tasks'[u].fresh = {}
    BY <1>3, <1>4, <2>1, <2>2 DEF ScanInv, Shapes, Shape
  <2>3. ASSUME OneScan'  PROVE AllApart(Scan!Leads \cup tasks[t].fresh)
    BY <2>1, <2>3 DEF ScanInv, FoundOnce
  <2> QED BY <1>7, <2>2, <2>3 DEF FoundOnce
<1> QED BY <1>8, <1>9, <1>11, <1>12, <1>13, <1>14 DEF ScanInv

(* What remains of FoundOnce when no task takes leads and no lead comes.   *)
LEMMA FoundKept ==
  ASSUME FoundOnce, OneScan' => OneScan, Scan!Leads' \subseteq Scan!Leads,
         \A u \in Tasks : tasks'[u].fresh = tasks[u].fresh
  PROVE  FoundOnce'
BY DEF FoundOnce, AllApart

LEMMA BeginScanHolds ==
  ASSUME ScanInv, NEW t \in Tasks, NEW l, Scan!Begin(t, l)
  PROVE  ScanInv'
<1> DEFINE busier == IF l \in Scan!Leads THEN tasks[t].busy \cup {l} ELSE tasks[t].busy
           less == tasks[t].todo \ {l}
           x == [tasks[t] EXCEPT !.todo = less, !.busy = busier]
<1>1. tasks[t] \in TaskRow /\ Shape(tasks[t]) /\ tasks[t].stage = "enrich" /\ UNCHANGED <<contacts, campaign>>
  BY DEF Scan!Begin, ScanInv, ScanTypes, Shapes
<1>2. Scan!Put(t, x)
  BY <1>1 DEF Scan!Begin
<1>3. busier \subseteq LeadIds /\ less \subseteq LeadIds /\ tasks[t].busy \subseteq busier /\ (l \in Scan!Leads => l \in busier)
  BY <1>1 DEF ScanInv, ScanTypes, Scan!Leads, TaskRow
<1> HIDE DEF busier, less
<1>4. x \in TaskRow /\ x.kind = tasks[t].kind /\ x.stage = "enrich" /\ x.fresh = tasks[t].fresh /\ x.busy = busier
  BY <1>1, <1>3 DEF TaskRow
<1> HIDE DEF x
<1>5. tasks' \in [Tasks -> TaskRow] /\ tasks'[t] = x /\ \A u \in Tasks \ {t} : tasks'[u] = tasks[u]
  BY <1>2, <1>4, PutIs DEF ScanInv
<1>6. Shape(x)
  BY <1>1, <1>4 DEF Shape
<1>7. /\ leads' \in [DOMAIN leads' -> LeadRow] /\ Scan!Leads' = Scan!Leads
      /\ \A k \in Scan!Leads : leads'[k].score = leads[k].score
      /\ \A k \in Scan!Leads : k # l => leads'[k].status = leads[k].status
      /\ l \in Scan!Leads => leads'[l].status = "enriching"
  <2>1. CASE l \notin Scan!Leads
    BY <2>1 DEF Scan!Begin, ScanInv, ScanTypes, Scan!Leads
  <2>2. CASE l \in Scan!Leads
    <3> DEFINE row == [leads[l] EXCEPT !.status = "enriching"]
    <3>1. leads' = [leads EXCEPT ![l] = row]
      BY <2>2 DEF Scan!Begin, ScanInv, ScanTypes, Scan!Leads
    <3>2. row \in LeadRow /\ row.status = "enriching" /\ row.score = leads[l].score
      BY <2>2 DEF ScanInv, ScanTypes, Scan!Leads, LeadRow
    <3> HIDE DEF row
    <3>3. leads \in [Scan!Leads -> LeadRow]
      BY DEF ScanInv, ScanTypes, Scan!Leads
    <3>4. leads' \in [Scan!Leads -> LeadRow] /\ Scan!Leads' = Scan!Leads
          /\ \A k \in Scan!Leads : leads'[k] = IF k = l THEN row ELSE leads[k]
      BY <3>1, <3>2, <3>3, <2>2 DEF Scan!Leads
    <3>5. leads' \in [DOMAIN leads' -> LeadRow]
      BY <3>4
    <3> QED BY <2>2, <3>2, <3>4, <3>5
  <2> QED BY <2>1, <2>2
<1>8. ScanTypes'
  BY <1>1, <1>5, <1>7 DEF ScanInv, ScanTypes, Scan!Leads
<1>9. Shapes'
  BY <1>5, <1>6 DEF ScanInv, Shapes
<1>10. (Broken => Broken') /\ \A u \in Tasks : WillPurge(tasks[u]) => WillPurge(tasks'[u])
  BY <1>1, <1>4, <1>5 DEF Broken, WillPurge
<1>11. LowIsPurged'
  BY <1>7, <1>10 DEF ScanInv, LowIsPurged
<1>12. HighIsScored'
  <2>1. \A k \in Scan!Leads : \A u \in Tasks : k \in tasks[u].busy => k \in tasks'[u].busy
    BY <1>3, <1>4, <1>5
  <2>2. l \in Scan!Leads => l \in tasks'[t].busy
    BY <1>3, <1>4, <1>5
  <2> QED BY <1>7, <1>10, <2>1, <2>2 DEF ScanInv, HighIsScored
<1>13. HighHasPhone'
  BY <1>1, <1>7 DEF ScanInv, HighHasPhone
<1>14. FoundOnce'
  <2>1. OneScan' => OneScan
    BY <1>4, <1>5 DEF OneScan
  <2>2. \A u \in Tasks : tasks'[u].fresh = tasks[u].fresh
    BY <1>4, <1>5
  <2> QED BY <1>7, <2>1, <2>2, FoundKept DEF ScanInv
<1> QED BY <1>8, <1>9, <1>11, <1>12, <1>13, <1>14 DEF ScanInv

(* _score_fit returns a score.                                             *)
LEMMA FitIsAScore ==
  ASSUME NEW l \in LeadIds, NEW site \in {l.raw.site, Scan!Dead}
  PROVE  Scan!Fit(site) \in 0 .. 100
<1>1. site.matched \in Nat /\ site.negative \in Nat
  BY BarIsPositive DEF LeadIds, Scan!Dead
<1> QED BY <1>1 DEF Scan!Fit, Scan!Clamped

LEMMA EnrichHolds ==
  ASSUME ScanInv, NEW t \in Tasks, NEW l, Scan!Enrich(t, l)
  PROVE  ScanInv'
<1> DEFINE fewer == tasks[t].busy \ {l}
           x == [tasks[t] EXCEPT !.busy = fewer]
<1>1. tasks[t] \in TaskRow /\ Shape(tasks[t]) /\ tasks[t].busy # {} /\ fewer \subseteq LeadIds
      /\ l \in Scan!Leads /\ l \in LeadIds /\ UNCHANGED campaign
  BY DEF Scan!Enrich, ScanInv, ScanTypes, Shapes, TaskRow, Scan!Leads
<1>2. Scan!Put(t, x)
  BY <1>1 DEF Scan!Enrich
<1>3. PICK site \in {l.raw.site, Scan!Dead} : leads' = [leads EXCEPT ![l] = Scan!Scored(Scan!Fit(site))]
  BY DEF Scan!Enrich
<1> DEFINE row == Scan!Scored(Scan!Fit(site))
<1>4. /\ row \in LeadRow
      /\ row.score >= Bar => row.status = "qualified"
  BY <1>1, FitIsAScore, BarIsPositive DEF Scan!Scored, LeadRow
<1>5. \A k \in tasks[t].busy : k # l => k \in fewer
  OBVIOUS
<1> HIDE DEF fewer, row
<1>6. x \in TaskRow /\ x.kind = tasks[t].kind /\ x.stage = tasks[t].stage /\ x.fresh = tasks[t].fresh
      /\ x.busy = fewer /\ x.todo = tasks[t].todo
  BY <1>1 DEF TaskRow
<1> HIDE DEF x
<1>7. Shape(x) /\ tasks[t].stage = "enrich" /\ tasks[t].kind # "none" /\ x.stage = "enrich"
  BY <1>1, <1>6 DEF Shape
<1>8. tasks' \in [Tasks -> TaskRow] /\ tasks'[t] = x /\ \A u \in Tasks \ {t} : tasks'[u] = tasks[u]
  BY <1>2, <1>6, PutIs DEF ScanInv
<1>9. leads' \in [Scan!Leads -> LeadRow] /\ Scan!Leads' = Scan!Leads
      /\ \A k \in Scan!Leads : leads'[k] = IF k = l THEN row ELSE leads[k]
  <2>1. leads \in [Scan!Leads -> LeadRow] /\ leads' = [leads EXCEPT ![l] = row]
    BY <1>3 DEF ScanInv, ScanTypes, Scan!Leads, row
  <2> QED BY <1>1, <1>4, <2>1 DEF Scan!Leads
<1>10. /\ contacts' \in [DOMAIN contacts' -> Scan!Leads] /\ "none" \notin DOMAIN contacts'
       /\ l.raw.phone # "none" => l.raw.phone \in DOMAIN contacts' /\ contacts'[l.raw.phone] = l
       /\ \A p \in DOMAIN contacts : p # l.raw.phone => p \in DOMAIN contacts' /\ contacts'[p] = contacts[p]
  <2>1. contacts \in [DOMAIN contacts -> Scan!Leads] /\ "none" \notin DOMAIN contacts
    BY DEF ScanInv, ScanTypes, Scan!Leads
  <2>2. CASE l.raw.phone = "none"
    BY <2>1, <2>2 DEF Scan!Enrich
  <2>3. CASE l.raw.phone # "none"
    <3>1. contacts' = [p \in DOMAIN contacts \cup {l.raw.phone} |-> IF p = l.raw.phone THEN l ELSE contacts[p]]
      BY <2>3 DEF Scan!Enrich
    <3> QED BY <1>1, <2>1, <2>3, <3>1
  <2> QED BY <2>2, <2>3
<1>11. l.raw.phone \in DOMAIN contacts => contacts[l.raw.phone] = l
  BY DEF Scan!Enrich, Scan!Taken
<1>12. ScanTypes'
  BY <1>1, <1>8, <1>9, <1>10 DEF ScanInv, ScanTypes, Scan!Leads
<1>13. Shapes'
  BY <1>7, <1>8 DEF ScanInv, Shapes
<1>14. (Broken => Broken') /\ \A u \in Tasks : WillPurge(tasks[u]) => WillPurge(tasks'[u])
  BY <1>6, <1>8 DEF Broken, WillPurge
<1>15. tasks[t].kind = "scan" \/ Broken
  BY <1>1, <1>7 DEF Broken, TaskRow
<1>16. WillPurge(x) \/ Broken'
  BY <1>6, <1>7, <1>14, <1>15 DEF WillPurge
<1>17. LowIsPurged'
  BY <1>8, <1>16 DEF LowIsPurged
<1>18. HighIsScored'
  <2>1. \A k \in Scan!Leads : k # l => \A u \in Tasks : k \in tasks[u].busy => k \in tasks'[u].busy
    BY <1>5, <1>6, <1>8
  <2> QED BY <1>4, <1>9, <1>14, <2>1 DEF ScanInv, HighIsScored
<1>19. HighHasPhone'
  <2>1. ASSUME NEW k \in Scan!Leads, k # l, leads[k].score >= Bar, k.raw.phone # "none"
        PROVE  k.raw.phone \in DOMAIN contacts' /\ contacts'[k.raw.phone] = k
    <3>1. k.raw.phone \in DOMAIN contacts /\ contacts[k.raw.phone] = k
      BY <2>1 DEF ScanInv, HighHasPhone
    <3> QED BY <1>10, <1>11, <2>1, <3>1
  <2> QED BY <1>9, <1>10, <2>1 DEF HighHasPhone
<1>20. FoundOnce'
  <2>1. OneScan' => OneScan
    BY <1>6, <1>8 DEF OneScan
  <2>2. \A u \in Tasks : tasks'[u].fresh = tasks[u].fresh
    BY <1>6, <1>8
  <2> QED BY <1>9, <2>1, <2>2, FoundKept DEF ScanInv
<1> QED BY <1>12, <1>13, <1>17, <1>18, <1>19, <1>20 DEF ScanInv

LEMMA PurgeHolds ==
  ASSUME ScanInv, NEW t \in Tasks, Scan!Purge(t)
  PROVE  ScanInv'
<1> DEFINE x == [tasks[t] EXCEPT !.stage = "purged"]
<1>1. tasks[t] \in TaskRow /\ Shape(tasks[t]) /\ tasks[t].kind = "scan" /\ tasks[t].stage = "enrich"
      /\ tasks[t].todo = {} /\ tasks[t].busy = {} /\ UNCHANGED campaign /\ Scan!Put(t, x)
  BY DEF Scan!Purge, Scan!Through, ScanInv, ScanTypes, Shapes
<1>2. x \in TaskRow /\ x.kind = "scan" /\ x.stage = "purged" /\ x.fresh = tasks[t].fresh /\ x.busy = {} /\ x.todo = {}
  BY <1>1 DEF TaskRow
<1> HIDE DEF x
<1>3. Shape(x)
  BY <1>1, <1>2 DEF Shape
<1>4. tasks' \in [Tasks -> TaskRow] /\ tasks'[t] = x /\ \A u \in Tasks \ {t} : tasks'[u] = tasks[u]
  BY <1>1, <1>2, PutIs DEF ScanInv
<1>5. leads' = [l \in Scan!Leads \ Scan!BelowBar |-> leads[l]]
      /\ contacts' = [p \in {p \in DOMAIN contacts : contacts[p] \notin Scan!BelowBar} |-> contacts[p]]
  BY DEF Scan!Purge, Scan!Restrict
<1>6. Scan!Leads' = Scan!Leads \ Scan!BelowBar /\ \A l \in Scan!Leads' : leads'[l] = leads[l]
  BY <1>5 DEF Scan!Leads
<1>7. DOMAIN contacts' = {p \in DOMAIN contacts : contacts[p] \notin Scan!BelowBar}
      /\ \A p \in DOMAIN contacts' : contacts'[p] = contacts[p]
  BY <1>5
<1>8. ScanTypes'
  <2>1. leads' \in [DOMAIN leads' -> LeadRow] /\ DOMAIN leads' \subseteq LeadIds
    BY <1>5, <1>6 DEF ScanInv, ScanTypes, Scan!Leads
  <2>2. \A p \in DOMAIN contacts' : contacts'[p] \in DOMAIN leads'
    BY <1>6, <1>7 DEF ScanInv, ScanTypes, Scan!Leads
  <2>3. contacts' \in [DOMAIN contacts' -> DOMAIN leads']
    BY <1>5, <1>7, <2>2
  <2>4. "none" \notin DOMAIN contacts'
    BY <1>7 DEF ScanInv, ScanTypes
  <2> QED BY <1>1, <1>4, <2>1, <2>3, <2>4 DEF ScanInv, ScanTypes
<1>9. Shapes'
  BY <1>3, <1>4 DEF ScanInv, Shapes
<1>10. Broken => Broken'
  BY <1>1, <1>4 DEF Broken
<1>11. LowIsPurged'
  BY <1>6 DEF LowIsPurged, Scan!BelowBar
<1>12. HighIsScored'
  <2>1. \A u \in Tasks : \A k \in tasks[u].busy : k \in tasks'[u].busy
    BY <1>1, <1>4
  <2> QED BY <1>6, <1>10, <2>1 DEF ScanInv, HighIsScored
<1>13. HighHasPhone'
  BY <1>6, <1>7 DEF ScanInv, HighHasPhone, Scan!BelowBar
<1>14. FoundOnce'
  <2>1. OneScan' => OneScan
    BY <1>1, <1>2, <1>4 DEF OneScan
  <2>2. \A u \in Tasks : tasks'[u].fresh = tasks[u].fresh
    BY <1>2, <1>4
  <2> QED BY <1>6, <2>1, <2>2, FoundKept DEF ScanInv
<1> QED BY <1>8, <1>9, <1>11, <1>12, <1>13, <1>14 DEF ScanInv

LEMMA ScanBegins == ScanInv \/ ~Scan!Init
<1> SUFFICES ASSUME Scan!Init  PROVE ScanInv
  OBVIOUS
<1>1. DOMAIN leads = {} /\ DOMAIN contacts = {}
  BY DEF Scan!Init
<1>2. ScanTypes
  BY <1>1, NoTaskIs DEF Scan!Init, ScanTypes
<1>3. Shapes
  BY NoTaskIs DEF Scan!Init, Shapes, Shape
<1>4. LowIsPurged /\ HighIsScored /\ HighHasPhone
  BY <1>1 DEF LowIsPurged, HighIsScored, HighHasPhone, Scan!Leads
<1>5. FoundOnce
  BY <1>1, NoTaskIs DEF Scan!Init, FoundOnce, AllApart, Scan!Leads
<1> QED BY <1>2, <1>3, <1>4, <1>5 DEF ScanInv

LEMMA ScanStep ==
  ASSUME ScanInv, OutreachNext
  PROVE  ScanInv'
<1>1. CASE Scan!Next
  <2>1. PICK t \in Tasks : Scan!Discover(t) \/ Scan!Work(t) \/ Scan!Crash(t) \/ \E l \in Scan!Leads : Scan!EnrichOne(t, l)
    BY <1>1 DEF Scan!Next
  <2>2. CASE Scan!Work(t)
    BY <2>2, CollectHolds, IngestCommitsHolds, SelectHolds, EnrichedOneHolds, PurgeHolds, FinalizeHolds, IngestHolds,
       IngestFailsHolds, BeginScanHolds, EnrichHolds, EnrichFailsHolds DEF Scan!Work
  <2> QED BY <2>1, <2>2, DiscoverHolds, CrashHolds, EnrichOneHolds
<1>2. CASE UNCHANGED leadVars
  BY <1>2 DEF leadVars, ScanInv, ScanTypes, Shapes, LowIsPurged, HighIsScored, HighHasPhone, FoundOnce, OneScan, Broken, Scan!Leads
<1> QED BY <1>1, <1>2 DEF OutreachNext

(* workers/enrichment.py and discovery/service.py: "persist only >= 80%    *)
(* matches" and "fuzzy dedup on (normalized_name + domain)", for any bar   *)
(* above 0, any number of scans that overlap, whatever connectors find and *)
(* sites answer.                                                           *)
THEOREM LeadsAreClean == OutreachSpec => []CleanLeads
<1>1. OutreachInit => ScanInv
  BY ScanBegins DEF OutreachInit
<1>2. ScanInv /\ [OutreachNext]_<<desk, vars, leadVars, receiptVars>> => ScanInv'
  <2>1. ScanInv /\ UNCHANGED leadVars => ScanInv'
    BY DEF leadVars, ScanInv, ScanTypes, Shapes, LowIsPurged, HighIsScored, HighHasPhone, FoundOnce, OneScan, Broken, Scan!Leads
  <2> QED BY <2>1, ScanStep
<1>3. ScanInv => CleanLeads
  <2> SUFFICES ASSUME ScanInv  PROVE CleanLeads
    OBVIOUS
  <2>1. Scan!TypeOK
    BY DEF ScanInv, ScanTypes, Scan!TypeOK, Scan!Leads, LeadIds, LeadRow, TaskRow
  <2>2. Scan!OnlyMatchesRemain
    <3> SUFFICES ASSUME Scan!Idle, \A t \in Tasks : tasks[t].kind # "lead", NEW l \in Scan!Leads
                 PROVE  leads[l].status = "qualified" /\ leads[l].score >= Bar
      BY DEF Scan!OnlyMatchesRemain
    <3>1. ~Broken /\ \A t \in Tasks : ~WillPurge(tasks[t]) /\ tasks[t].busy = {}
      BY DEF Scan!Idle, Broken, WillPurge, ScanInv, Shapes, Shape
    <3>2. ~(leads[l].score < Bar)
      BY <3>1 DEF ScanInv, LowIsPurged
    <3>3. leads[l].score \in Int /\ Bar \in Int
      BY BarIsPositive DEF ScanInv, ScanTypes, LeadRow, Scan!Leads
    <3>4. leads[l].score >= Bar
      BY <3>2, <3>3
    <3> QED BY <3>1, <3>4 DEF ScanInv, HighIsScored
  <2>3. Scan!CompanyOnce
    <3> SUFFICES ASSUME Cardinality(Scan!Scans) = 1
                 PROVE  \A l, k \in Scan!Leads : Apart(l, k)
      BY SameCardinality, Zenon DEF Scan!CompanyOnce, Apart
    <3>1. IsFiniteSet(Scan!Scans)
      BY BarIsPositive, FS_Subset DEF Scan!Scans
    <3>2. PICK s : Scan!Scans = {s}
      BY <3>1, FS_Singleton
    <3>3. OneScan /\ s \in Tasks
      BY <3>2 DEF OneScan, Scan!Scans
    <3> QED BY <3>3 DEF ScanInv, FoundOnce, AllApart
  <2> QED BY <2>1, <2>2, <2>3 DEF CleanLeads
<1> QED BY <1>1, <1>2, <1>3, PTL DEF OutreachSpec

(***************************************************************************)
(* Receipts, for any number of webhook transactions at once and a request  *)
(* to resume the bot beside them.  Only a session that missed the Message, *)
(* or the request, reads the row without its lock: until one of them meets *)
(* another, one session at most has the row, and what it read is current.  *)
(***************************************************************************)

(* What stands in a row for the callbacks cs: the earliest of a status     *)
(* without a choice, the history of an audit, and either row.              *)
IsEarliest(at, cs, s) ==
  \/ at = Receipts!NoTime /\ \A c \in cs : c.status # s
  \/ /\ \E c \in cs : c.status = s /\ c.time = at
     /\ \A c \in cs : c.status = s => at <= c.time
HistoryShows(events, cs) ==
  /\ Receipts!Range(events) \subseteq cs /\ Receipts!IsInjective(events)
  /\ Len(events) <= HistoryLimit
  /\ Len(events) < HistoryLimit => Receipts!Range(events) = cs
JobShows(r, cs) ==
  Receipts!Evidence(r.status, cs) /\ \A s \in Receipts!Succeeded : IsEarliest(r.at[s], cs, s)
AuditShows(r, cs) ==
  Receipts!Evidence(r.status, cs) /\ IsEarliest(r.at, cs, r.status) /\ HistoryShows(r.history, cs)
Shows(r, cs) == IF owner = "outreach" THEN JobShows(r, cs) ELSE AuditShows(r, cs)

AnyRow == Receipts!JobRow \cup Receipts!AuditRow
Held == [at : {"idle", "found", "missed", "between"}, has : BOOLEAN, bare : BOOLEAN,
         row : AnyRow, read : AnyRow, took : SUBSET Receipts!Callbacks]
InHand(s) == IF s.has THEN s.row \in Receipts!Rows /\ s.read \in Receipts!Rows /\ Receipts!Known
             ELSE s.took = {}
ReceiptTypes ==
  /\ owner \in {"runtime", "outreach"} /\ (owner = "outreach" => turn = "none")
  /\ stored \in Receipts!Rows /\ got \subseteq Receipts!Callbacks
  /\ lock \in Callers \cup {NoOne} /\ raced \in BOOLEAN
  /\ hook \in [Callers -> Held] /\ \A h \in Callers : InHand(hook[h])
  /\ resume \in [open : BOOLEAN, read : Receipts!AuditRow] /\ (resume.open => turn = "handoff")

(* Who found the Message has its lock, and keeps it with the row.          *)
Locked == \A h \in Callers : hook[h].at = "found" \/ (hook[h].has /\ ~hook[h].bare) => lock = h

(* One session at most has the row ...                                     *)
Alone ==
  /\ \A g, h \in Callers : hook[g].has /\ hook[h].has => g = h
  /\ resume.open => \A h \in Callers : ~hook[h].has
(* ... and what it read is what is there.                                  *)
UpToDate(s) ==
  /\ s.read = stored /\ Shows(s.row, got \cup s.took)
  /\ owner = "runtime" => s.row.review = stored.review
Truthful ==
  /\ Shows(stored, got)
  /\ \A h \in Callers : hook[h].has => UpToDate(hook[h])
  /\ resume.open => resume.read = stored
  /\ Receipts!ResolutionKept

ReceiptInv == ReceiptTypes /\ Locked /\ (~raced => Alone /\ Truthful)
-----------------------------------------------------------------------------
LEMMA TimesAreNat == Times \subseteq Nat \ {0}
BY OutreachAssumptions DEF Receipts!Assumptions

LEMMA EarliestIs ==
  ASSUME NEW cs \in SUBSET Receipts!Callbacks, NEW s, NEW at, IsEarliest(at, cs, s)
  PROVE  at = Receipts!Earliest(cs, s)
<1> DEFINE times == {c.time : c \in {d \in cs : d.status = s}}
<1>1. times \subseteq Nat
  BY TimesAreNat DEF Receipts!Callbacks
<1>2. CASE \A c \in cs : c.status # s
  BY <1>2 DEF IsEarliest, Receipts!Earliest
<1>3. CASE /\ \E c \in cs : c.status = s /\ c.time = at
           /\ \A c \in cs : c.status = s => at <= c.time
  <2>1. at \in times /\ \A u \in times : at <= u
    BY <1>3
  <2>2. \A t \in times : (\A u \in times : t <= u) => t = at
    BY <1>1, <2>1
  <2>3. times # {} /\ Receipts!Earliest(cs, s) = CHOOSE t \in times : \A u \in times : t <= u
    BY <2>1 DEF Receipts!Earliest
  <2> QED BY <2>1, <2>2, <2>3
<1> QED BY <1>2, <1>3 DEF IsEarliest

(* A timestamp that is kept when it is earlier.                            *)
LEMMA EarlierKept ==
  ASSUME NEW cs \in SUBSET Receipts!Callbacks, NEW s, NEW at \in Times \cup {Receipts!NoTime},
         IsEarliest(at, cs, s), NEW c \in Receipts!Callbacks, c.status = s
  PROVE  /\ IsEarliest(Receipts!EarliestTimestamp(at, c.time), cs \cup {c}, s)
         /\ Receipts!EarliestTimestamp(at, c.time) \in Times
<1>1. \A d \in cs \cup {c} : d.time \in Nat \ {0}
  BY TimesAreNat DEF Receipts!Callbacks
<1>2. c.time \in Times
  BY DEF Receipts!Callbacks
<1> QED BY <1>1, <1>2, TimesAreNat DEF IsEarliest, Receipts!EarliestTimestamp, Receipts!NoTime

LEMMA OthersKept ==
  ASSUME NEW cs \in SUBSET Receipts!Callbacks, NEW s, NEW at,
         IsEarliest(at, cs, s), NEW c \in Receipts!Callbacks, c.status # s
  PROVE  IsEarliest(at, cs \cup {c}, s)
BY DEF IsEarliest

Statuses == Receipts!DELIVERY_STATUSES \cup {"none"}

LEMMA NextIsKnown ==
  ASSUME NEW old \in Statuses, NEW s \in Receipts!DELIVERY_STATUSES \cup {"other"}
  PROVE  /\ Receipts!NextDeliveryStatus(old, s) \in Statuses
         /\ Receipts!NextDeliveryStatus(old, s) # old => Receipts!NextDeliveryStatus(old, s) = s
<1>1. s \in {"sent", "delivered", "read", "failed", "other"} /\ old \in {"sent", "delivered", "read", "failed", "none"}
  BY DEF Receipts!DELIVERY_STATUSES, Receipts!Succeeded, Statuses
<1> QED BY <1>1 DEF Receipts!NextDeliveryStatus, Receipts!DeliveryRank, Receipts!DELIVERY_STATUSES,
                   Receipts!Succeeded, Statuses

(* A status is the evidence of one callback more, and a status that is new *)
(* was not reported before.                                                *)
LEMMA NextIsEvidence ==
  ASSUME NEW cs \in SUBSET Receipts!Callbacks, NEW old \in Statuses, Receipts!Evidence(old, cs),
         NEW c \in Receipts!Callbacks
  PROVE  /\ Receipts!Evidence(Receipts!NextDeliveryStatus(old, c.status), cs \cup {c})
         /\ \A d \in cs : d.status = Receipts!NextDeliveryStatus(old, c.status) =>
                              Receipts!NextDeliveryStatus(old, c.status) = old
<1> DEFINE next == Receipts!NextDeliveryStatus(old, c.status)
           before == Receipts!StatusesOf(cs)
           after == Receipts!StatusesOf(cs \cup {c})
<1>1. before \subseteq {"sent", "delivered", "read", "failed"}
  BY DEF Receipts!StatusesOf, Receipts!Callbacks, Receipts!DELIVERY_STATUSES, Receipts!Succeeded
<1>2. after = before \cup ({c.status} \ {"other"})
  BY DEF Receipts!StatusesOf
<1>3. \A d \in cs : d.status \in before \cup {"other"}
  BY DEF Receipts!StatusesOf
<1>4. c.status \in {"sent", "delivered", "read", "failed", "other"} /\ old \in {"sent", "delivered", "read", "failed", "none"}
  BY DEF Receipts!Callbacks, Receipts!DELIVERY_STATUSES, Receipts!Succeeded, Statuses
<1>5. next # "other"
  BY <1>4 DEF Receipts!NextDeliveryStatus, Receipts!DeliveryRank, Receipts!Succeeded
<1>6. /\ "read" \in before => old = "read"
      /\ "read" \notin before /\ "delivered" \in before => old = "delivered"
      /\ before = {} => old = "none"
      /\ "read" \notin before /\ "delivered" \notin before /\ before # {} => old \in before
  BY DEF Receipts!Evidence
<1> HIDE DEF before, after
<1>7. next \in before => next = old
  BY <1>1, <1>4, <1>6 DEF Receipts!NextDeliveryStatus, Receipts!DeliveryRank, Receipts!Succeeded
<1>8. /\ "read" \in after => next = "read"
      /\ "read" \notin after /\ "delivered" \in after => next = "delivered"
      /\ after = {} => next = "none"
      /\ "read" \notin after /\ "delivered" \notin after /\ after # {} => next \in after
  BY <1>1, <1>2, <1>4, <1>6 DEF Receipts!NextDeliveryStatus, Receipts!DeliveryRank, Receipts!Succeeded
<1>9. Receipts!Evidence(next, cs \cup {c})
  BY <1>8 DEF Receipts!Evidence, after
<1>10. \A d \in cs : d.status = next => next = old
  BY <1>3, <1>5, <1>7
<1> QED BY <1>9, <1>10

LEMMA OnJobShows ==
  ASSUME NEW cs \in SUBSET Receipts!Callbacks, NEW r \in Receipts!JobRow, JobShows(r, cs),
         NEW c \in Receipts!Callbacks
  PROVE  Receipts!OnJob(r, c) \in Receipts!JobRow /\ JobShows(Receipts!OnJob(r, c), cs \cup {c})
<1> DEFINE next == Receipts!OnJob(r, c)
<1>1. next.status = Receipts!NextDeliveryStatus(r.status, c.status) /\ r.status \in Statuses
      /\ \A s \in Receipts!Succeeded :
            /\ next.at[s] = IF s = c.status THEN Receipts!EarliestTimestamp(r.at[s], c.time) ELSE r.at[s]
            /\ r.at[s] \in Times \cup {Receipts!NoTime}
  BY DEF Receipts!OnJob, Receipts!JobRow, Statuses
<1>2. next.status \in Statuses /\ Receipts!Evidence(next.status, cs \cup {c})
  <2>1. c.status \in Receipts!DELIVERY_STATUSES \cup {"other"} /\ Receipts!Evidence(r.status, cs)
    BY DEF JobShows, Receipts!Callbacks
  <2>2. Receipts!NextDeliveryStatus(r.status, c.status) \in Statuses
    BY <1>1, <2>1, NextIsKnown
  <2>3. Receipts!Evidence(Receipts!NextDeliveryStatus(r.status, c.status), cs \cup {c})
    BY <1>1, <2>1, NextIsEvidence
  <2> QED BY <1>1, <2>2, <2>3
<1>3. ASSUME NEW s \in Receipts!Succeeded
      PROVE  IsEarliest(next.at[s], cs \cup {c}, s) /\ next.at[s] \in Times \cup {Receipts!NoTime}
  BY SMTT(20), <1>1, EarlierKept, OthersKept DEF JobShows
<1>4. next \in Receipts!JobRow
  BY <1>2, <1>3 DEF Receipts!OnJob, Receipts!JobRow, Statuses
<1> QED BY <1>2, <1>3, <1>4 DEF JobShows

(* An event is recorded once, and the oldest gives way at the limit.       *)
LEMMA RecordedShows ==
  ASSUME NEW cs \in SUBSET Receipts!Callbacks, NEW events \in Seq(Receipts!Callbacks),
         HistoryShows(events, cs), NEW c \in Receipts!Callbacks
  PROVE  /\ Receipts!Recorded(events, c) \in Seq(Receipts!Callbacks)
         /\ HistoryShows(Receipts!Recorded(events, c), cs \cup {c})
<1>1. HistoryLimit \in Nat \ {0}
  BY OutreachAssumptions DEF Receipts!Assumptions
<1>2. CASE c \in Receipts!Range(events)
  BY <1>2 DEF Receipts!Recorded, HistoryShows
<1>3. CASE c \notin Receipts!Range(events)
  <2> DEFINE longer == Append(events, c)
             n == Len(events)
             kept == SubSeq(longer, n + 1 - HistoryLimit + 1, n + 1)
  <2>1. /\ longer \in Seq(Receipts!Callbacks) /\ Len(longer) = n + 1 /\ n \in Nat
        /\ \A i \in 1 .. n : longer[i] = events[i]
        /\ longer[n + 1] = c
    BY DEF longer, n
  <2>2. DOMAIN events = 1 .. n /\ DOMAIN longer = 1 .. n + 1
    BY <2>1
  <2>3. \A i, j \in 1 .. n + 1 : longer[i] = longer[j] => i = j
    <3>1. \A i, j \in 1 .. n : events[i] = events[j] => i = j
      BY <2>2 DEF HistoryShows, Receipts!IsInjective
    <3>2. \A i \in 1 .. n : events[i] # c
      BY <1>3, <2>2 DEF Receipts!Range
    <3> HIDE DEF longer, n
    <3> QED BY <2>1, <3>1, <3>2
  <2>4. \A i \in 1 .. n + 1 : longer[i] \in cs \cup {c}
    <3>1. \A i \in 1 .. n : events[i] \in cs
      BY <2>2 DEF HistoryShows, Receipts!Range
    <3> HIDE DEF longer, n
    <3> QED BY <2>1, <3>1
  <2>5. n <= HistoryLimit
    BY DEF HistoryShows, n
  <2>6. CASE n + 1 <= HistoryLimit
    <3>1. Receipts!Recorded(events, c) = longer
      BY <1>3, <2>1, <2>6 DEF Receipts!Recorded, Receipts!LastEvents, n
    <3>2. Receipts!Range(events) = cs
      BY <1>1, <2>1, <2>6 DEF HistoryShows, n
    <3>3. Receipts!Range(longer) = cs \cup {c}
      <4>1. cs \subseteq Receipts!Range(longer)
        <5> SUFFICES ASSUME NEW e \in cs  PROVE e \in Receipts!Range(longer)
          OBVIOUS
        <5>1. PICK i \in 1 .. n : events[i] = e
          BY <3>2, <2>2 DEF Receipts!Range
        <5>2. i \in 1 .. n + 1 /\ longer[i] = e
          BY <5>1, <2>1
        <5> HIDE DEF longer, n
        <5> QED BY <5>2, <2>2 DEF Receipts!Range
      <4> HIDE DEF longer, n
      <4>2. c \in Receipts!Range(longer)
        BY <2>1, <2>2 DEF Receipts!Range
      <4>3. Receipts!Range(longer) \subseteq cs \cup {c}
        BY <2>2, <2>4 DEF Receipts!Range
      <4> QED BY <4>1, <4>2, <4>3
    <3>4. Receipts!IsInjective(longer)
      <4> HIDE DEF longer, n
      <4> QED BY <2>2, <2>3 DEF Receipts!IsInjective
    <3> HIDE DEF longer, n
    <3> QED BY <2>1, <2>6, <3>1, <3>3, <3>4 DEF HistoryShows
  <2>7. CASE n + 1 > HistoryLimit
    <3>1. Receipts!Recorded(events, c) = kept
      <4>1. ~(n + 1 <= HistoryLimit)
        BY <1>1, <2>1, <2>7
      <4>2. Receipts!LastEvents(longer) = kept
        <5> HIDE DEF longer, n
        <5> QED BY <1>1, <2>1, <4>1 DEF Receipts!LastEvents
      <4> QED BY <1>3, <4>2 DEF Receipts!Recorded
    <3> HIDE DEF longer, n
    <3>2. n = HistoryLimit
      BY <1>1, <2>1, <2>5, <2>7
    <3>3. kept = SubSeq(longer, 2, n + 1)
      BY <1>1, <2>1, <3>2
    <3> HIDE DEF kept
    <3>4. kept \in Seq(Receipts!Callbacks) /\ Len(kept) = n /\ \A i \in 1 .. n : kept[i] = longer[i + 1]
      BY <2>1, <3>3, SubSeqProperties
    <3>5. DOMAIN kept = 1 .. n
      BY <2>1, <3>4
    <3>6. Receipts!Range(kept) \subseteq cs \cup {c}
      BY <2>1, <2>4, <3>4, <3>5 DEF Receipts!Range
    <3>7. Receipts!IsInjective(kept)
      BY <2>1, <2>3, <3>4, <3>5 DEF Receipts!IsInjective
    <3> QED BY <1>1, <3>1, <3>2, <3>4, <3>6, <3>7 DEF HistoryShows
  <2> QED BY <1>1, <2>1, <2>6, <2>7
<1> QED BY <1>2, <1>3

LEMMA OnAuditShows ==
  ASSUME NEW cs \in SUBSET Receipts!Callbacks, NEW r \in Receipts!AuditRow, AuditShows(r, cs),
         NEW c \in Receipts!Callbacks
  PROVE  Receipts!OnAudit(r, c) \in Receipts!AuditRow /\ AuditShows(Receipts!OnAudit(r, c), cs \cup {c})
         /\ Receipts!OnAudit(r, c).review = r.review
<1> DEFINE effective == Receipts!NextDeliveryStatus(r.status, c.status)
           next == Receipts!OnAudit(r, c)
<1>1. r.status \in Statuses /\ r.at \in Times \cup {Receipts!NoTime} /\ c.time \in Times
      /\ r.history \in Seq(Receipts!Callbacks)
  BY DEF Receipts!AuditRow, AuditShows, Receipts!Callbacks, Statuses
<1>2. next = [status |-> effective,
              at |-> IF effective # r.status THEN c.time
                     ELSE IF effective = c.status THEN Receipts!EarliestTimestamp(r.at, c.time) ELSE r.at,
              history |-> Receipts!Recorded(r.history, c),
              review |-> r.review]
  BY <1>1 DEF Receipts!OnAudit
<1> DEFINE old == r.status
<1>a. old \in Statuses /\ Receipts!Evidence(old, cs) /\ effective = Receipts!NextDeliveryStatus(old, c.status)
  BY <1>1 DEF AuditShows
<1> HIDE DEF effective, next, old
<1>b. effective \in Statuses /\ (effective # old => effective = c.status)
  BY <1>a, NextIsKnown DEF Receipts!Callbacks
<1>c. Receipts!Evidence(effective, cs \cup {c})
  BY <1>a, NextIsEvidence
<1>d. \A d \in cs : d.status = effective => effective = old
  BY <1>a, NextIsEvidence
<1>3. /\ effective \in Statuses /\ Receipts!Evidence(effective, cs \cup {c})
      /\ effective # r.status => effective = c.status /\ \A d \in cs : d.status # effective
  BY <1>b, <1>c, <1>d DEF old
<1>4. IsEarliest(next.at, cs \cup {c}, effective) /\ next.at \in Times \cup {Receipts!NoTime}
  <2>1. CASE effective # r.status
    <3>1. next.at = c.time /\ c.status = effective /\ \A d \in cs : d.status # effective
      BY <1>2, <1>3, <2>1
    <3>2. c.time \in Nat
      BY <1>1, TimesAreNat
    <3>3. c.time <= c.time
      BY <3>2
    <3> QED BY <3>1, <3>3, <1>1 DEF IsEarliest
  <2>2. CASE effective = r.status /\ effective = c.status
    BY <1>1, <1>2, <2>2, EarlierKept DEF AuditShows
  <2>3. CASE effective = r.status /\ effective # c.status
    BY <1>1, <1>2, <2>3, OthersKept DEF AuditShows
  <2> QED BY <2>1, <2>2, <2>3
<1>5. /\ next.history = Receipts!Recorded(r.history, c) /\ next.history \in Seq(Receipts!Callbacks)
      /\ HistoryShows(next.history, cs \cup {c})
  BY <1>1, <1>2, RecordedShows DEF AuditShows
<1>6. next.review = r.review /\ r.review \in {"none", "required", "resolved"}
  BY <1>2 DEF Receipts!AuditRow
<1>7. next \in Receipts!AuditRow
  BY <1>1, <1>2, <1>3, <1>4, <1>5, <1>6 DEF Receipts!AuditRow, Statuses
<1> QED BY <1>2, <1>3, <1>4, <1>5, <1>6, <1>7 DEF AuditShows, next
(* Whatever a row shows, a callback leaves a row.                          *)
LEMMA OnJobIsARow ==
  ASSUME NEW r \in Receipts!JobRow, NEW c \in Receipts!Callbacks
  PROVE  Receipts!OnJob(r, c) \in Receipts!JobRow
<1>1. r.status \in Statuses /\ c.time \in Times /\ c.status \in Receipts!DELIVERY_STATUSES \cup {"other"}
      /\ r.at \in [Receipts!Succeeded -> Times \cup {Receipts!NoTime}]
  BY DEF Receipts!JobRow, Receipts!Callbacks, Statuses
<1>2. Receipts!NextDeliveryStatus(r.status, c.status) \in Statuses
  BY <1>1, NextIsKnown
<1>3. \A s \in Receipts!Succeeded : Receipts!EarliestTimestamp(r.at[s], c.time) \in Times \cup {Receipts!NoTime}
  BY <1>1 DEF Receipts!EarliestTimestamp
<1> QED BY <1>1, <1>2, <1>3 DEF Receipts!OnJob, Receipts!JobRow, Statuses

LEMMA OnAuditIsARow ==
  ASSUME NEW r \in Receipts!AuditRow, NEW c \in Receipts!Callbacks
  PROVE  Receipts!OnAudit(r, c) \in Receipts!AuditRow
<1> DEFINE next == Receipts!OnAudit(r, c)
<1>1. r.status \in Statuses /\ c.time \in Times /\ c.status \in Receipts!DELIVERY_STATUSES \cup {"other"}
      /\ r.at \in Times \cup {Receipts!NoTime} /\ r.history \in Seq(Receipts!Callbacks)
      /\ r.review \in {"none", "required", "resolved"}
  BY DEF Receipts!AuditRow, Receipts!Callbacks, Statuses
<1>2. Receipts!NextDeliveryStatus(r.status, c.status) \in Statuses
  BY <1>1, NextIsKnown
<1>3. Receipts!EarliestTimestamp(r.at, c.time) \in Times \cup {Receipts!NoTime}
  BY <1>1 DEF Receipts!EarliestTimestamp
<1>4. Receipts!Recorded(r.history, c) \in Seq(Receipts!Callbacks)
  <2>1. HistoryLimit \in Nat \ {0}
    BY OutreachAssumptions DEF Receipts!Assumptions
  <2>2. Append(r.history, c) \in Seq(Receipts!Callbacks) /\ Len(Append(r.history, c)) \in Nat
    BY <1>1
  <2> DEFINE longer == Append(r.history, c)
  <2> HIDE DEF longer
  <2>3. longer \in Seq(Receipts!Callbacks) /\ Len(longer) \in Nat
    BY <2>2 DEF longer
  <2>4. Receipts!LastEvents(longer) \in Seq(Receipts!Callbacks)
    BY <2>1, <2>3, SubSeqProperties DEF Receipts!LastEvents
  <2> QED BY <1>1, <2>4 DEF Receipts!Recorded, longer
<1>5. /\ next.status = Receipts!NextDeliveryStatus(r.status, c.status)
      /\ next.at \in {c.time, Receipts!EarliestTimestamp(r.at, c.time), r.at}
      /\ next.history = Receipts!Recorded(r.history, c) /\ next.review = r.review
      /\ next = [status |-> next.status, at |-> next.at, history |-> next.history, review |-> next.review]
  BY DEF Receipts!OnAudit
<1> HIDE DEF next
<1>6. next \in Receipts!AuditRow
  BY <1>1, <1>2, <1>3, <1>4, <1>5 DEF Receipts!AuditRow, Statuses
<1> QED BY <1>6 DEF next
-----------------------------------------------------------------------------
(* A callback more on either row.                                          *)
LEMMA OnRowIsARow ==
  ASSUME ReceiptTypes, NEW r \in Receipts!Rows, NEW c \in Receipts!Callbacks
  PROVE  Receipts!OnRow(r, c) \in Receipts!Rows
<1>1. CASE owner = "outreach"
  BY <1>1, OnJobIsARow DEF Receipts!OnRow, Receipts!Rows
<1>2. CASE owner # "outreach"
  BY <1>2, OnAuditIsARow DEF Receipts!OnRow, Receipts!Rows
<1> QED BY <1>1, <1>2

LEMMA OnRowShows ==
  ASSUME ReceiptTypes, NEW cs \in SUBSET Receipts!Callbacks, NEW r \in Receipts!Rows, NEW c \in Receipts!Callbacks
  PROVE  Shows(r, cs) => /\ Receipts!OnRow(r, c) \in Receipts!Rows /\ Shows(Receipts!OnRow(r, c), cs \cup {c})
                         /\ owner = "runtime" => Receipts!OnRow(r, c).review = r.review
BY OnJobShows, OnAuditShows DEF Receipts!OnRow, Receipts!Rows, Shows, ReceiptTypes

(* What a session did alone is written as it is.                           *)
LEMMA MergedIsOwn ==
  ASSUME ReceiptTypes, NEW s \in Held, s.row \in Receipts!Rows, s.read = stored
  PROVE  Receipts!Merged(s) = s.row
<1>1. CASE owner = "outreach"
  <2>1. s.row \in Receipts!JobRow
    BY <1>1 DEF Receipts!Rows
  <2>2. s.row = [status |-> s.row.status, at |-> s.row.at]
        /\ s.row.at = [t \in Receipts!Succeeded |-> s.row.at[t]]
    BY <2>1 DEF Receipts!JobRow
  <2> QED BY <1>1, <2>2 DEF Receipts!Merged
<1>2. CASE owner # "outreach"
  BY <1>2 DEF Receipts!Merged
<1> QED BY <1>1, <1>2

LEMMA MergedIsARow ==
  ASSUME ReceiptTypes, NEW s \in Held, s.row \in Receipts!Rows
  PROVE  Receipts!Merged(s) \in Receipts!Rows
<1>1. CASE owner = "outreach"
  BY <1>1 DEF ReceiptTypes, Receipts!Merged, Receipts!Rows, Receipts!JobRow
<1>2. CASE owner # "outreach"
  BY <1>2 DEF ReceiptTypes, Receipts!Merged, Receipts!Rows
<1> QED BY <1>1, <1>2

LEMMA IdleIsHeld ==
  /\ Receipts!NewAudit \in Receipts!AuditRow /\ Receipts!NewJob \in Receipts!JobRow
  /\ Receipts!Idle \in Held /\ ~Receipts!Idle.has /\ Receipts!Idle.took = {} /\ Receipts!Idle.at = "idle"
<1>1. /\ Receipts!NewAudit \in Receipts!AuditRow /\ Receipts!NewJob \in Receipts!JobRow
  BY DEF Receipts!AuditRow, Receipts!NewAudit, Receipts!JobRow, Receipts!NewJob
<1> QED BY <1>1 DEF Held, AnyRow, Receipts!Idle
-----------------------------------------------------------------------------
LEMMA SendHolds ==
  ASSUME ReceiptInv, NEW outcome \in {"sent", "handoff"}, Receipts!Send(outcome)
  PROVE  ReceiptInv'
<1>1. /\ owner = "runtime" /\ owner' = owner /\ turn' = outcome /\ stored \in Receipts!AuditRow
      /\ UNCHANGED <<lock, hook, resume, got, raced>>
      /\ stored' = IF outcome = "handoff" THEN [stored EXCEPT !.review = "required"] ELSE stored
  BY DEF Receipts!Send, ReceiptInv, ReceiptTypes, Receipts!Rows
<1>2. (\A h \in Callers : ~hook[h].has) /\ ~resume.open
  BY DEF Receipts!Send, ReceiptInv, ReceiptTypes, InHand, Receipts!Known
<1>3. /\ stored' \in Receipts!AuditRow /\ stored'.status = stored.status /\ stored'.at = stored.at
      /\ stored'.history = stored.history
  BY <1>1 DEF Receipts!AuditRow
<1>4. ReceiptTypes'
  <2>1. stored' \in Receipts!Rows'
    BY <1>1, <1>3 DEF Receipts!Rows
  <2>2. ReceiptTypes /\ \A h \in Callers : InHand(hook[h])'
    BY <1>1, <1>2 DEF ReceiptInv, ReceiptTypes, InHand
  <2> QED BY <1>1, <1>2, <2>1, <2>2 DEF ReceiptTypes
<1>5. Locked'
  BY <1>1 DEF ReceiptInv, Locked
<1>6. ASSUME ~raced'
      PROVE  Alone' /\ Truthful'
  <2>1. Shows(stored, got)
    BY <1>1, <1>6 DEF ReceiptInv, Truthful
  <2>2. Shows(stored, got)'
    BY <1>1, <1>3, <2>1 DEF Shows, AuditShows
  <2> QED BY <1>1, <1>2, <2>2 DEF Alone, Truthful, Receipts!ResolutionKept
<1> QED BY <1>4, <1>5, <1>6 DEF ReceiptInv

LEMMA LookHolds ==
  ASSUME ReceiptInv, NEW h \in Callers, Receipts!Look(h)
  PROVE  ReceiptInv'
<1>1. PICK at \in {"found", "missed"} : /\ hook' = [hook EXCEPT ![h].at = at]
                                        /\ at = "found" => lock \in {NoOne, h} /\ lock' = h
                                        /\ at = "missed" => lock' = lock
  BY DEF Receipts!Look
<1>2. UNCHANGED <<owner, turn, message, stored, resume, got, raced>>
  BY DEF Receipts!Look, Receipts!sent
<1>3. /\ hook' \in [Callers -> Held] /\ hook'[h].at = at
      /\ \A g \in Callers : g # h => hook'[g] = hook[g]
      /\ \A g \in Callers : /\ hook'[g].has = hook[g].has /\ hook'[g].bare = hook[g].bare
                            /\ hook'[g].row = hook[g].row /\ hook'[g].read = hook[g].read
                            /\ hook'[g].took = hook[g].took
  BY <1>1 DEF ReceiptInv, ReceiptTypes, Held
<1>4. ReceiptTypes'
  <2>1. ReceiptTypes /\ lock' \in Callers \cup {NoOne}
    BY <1>1 DEF ReceiptInv, ReceiptTypes
  <2>2. \A g \in Callers : InHand(hook[g])'
    BY <1>2, <1>3, <2>1 DEF ReceiptTypes, InHand, Receipts!Rows, Receipts!Known
  <2>3. stored' \in Receipts!Rows'
    BY <1>2, <2>1 DEF ReceiptTypes, Receipts!Rows
  <2> QED BY <1>2, <1>3, <2>1, <2>2, <2>3 DEF ReceiptTypes
<1>5. Locked'
  <2>1. NoOne \notin Callers
    BY OutreachAssumptions DEF Receipts!Assumptions
  <2> QED BY <1>1, <1>3, <2>1 DEF ReceiptInv, Locked
<1>6. ASSUME ~raced'
      PROVE  Alone' /\ Truthful'
  <2>1. Alone /\ Truthful
    BY <1>2, <1>6 DEF ReceiptInv
  <2>2. Alone'
    BY <1>2, <1>3, <2>1 DEF Alone
  <2>3. \A g \in Callers : hook'[g].has => UpToDate(hook[g])'
    BY <1>2, <1>3, <2>1 DEF Truthful, UpToDate, Shows
  <2>4. Shows(stored, got)' /\ (resume'.open => resume'.read = stored') /\ Receipts!ResolutionKept'
    BY <1>2, <2>1 DEF Truthful, Shows, Receipts!ResolutionKept
  <2> QED BY <2>2, <2>3, <2>4 DEF Truthful
<1> QED BY <1>4, <1>5, <1>6 DEF ReceiptInv

(* A session's first callback meets nobody else who has the row, unless    *)
(* one of the two is outside the lock.                                     *)
LEMMA FirstIsAlone ==
  ASSUME ReceiptInv, NEW h \in Callers, hook[h].at \in {"found", "missed"}, ~Receipts!Races(h)
  PROVE  ~resume.open /\ \A g \in Callers \ {h} : ~hook[g].has
<1>1. ~resume.open
  BY DEF Receipts!Races
<1>2. ASSUME NEW g \in Callers \ {h}, hook[g].has
      PROVE  FALSE
  <2>1. ~hook[g].bare /\ hook[h].at = "found"
    BY <1>2 DEF Receipts!Races
  <2>2. lock = g /\ lock = h
    BY <1>2, <2>1 DEF ReceiptInv, Locked
  <2> QED BY <2>2
<1> QED BY <1>1, <1>2

LEMMA TakeHolds ==
  ASSUME ReceiptInv, NEW h \in Callers, NEW c \in Receipts!Callbacks, Receipts!Take(h, c)
  PROVE  ReceiptInv'
<1> DEFINE s == hook[h]
           held == IF ~s.has THEN stored ELSE s.row
           bare == IF ~s.has THEN s.at = "missed" ELSE s.bare
           read == IF ~s.has THEN stored ELSE s.read
           took == s.took \cup {c}
           next == [at |-> "between", has |-> TRUE, bare |-> bare, row |-> Receipts!OnRow(held, c),
                    read |-> read, took |-> took]
<1>1. /\ s.at \in {"found", "missed"} /\ UNCHANGED <<owner, turn, message, stored, lock, resume, got>>
      /\ s \in Held /\ s.has \in BOOLEAN /\ s.bare \in BOOLEAN /\ s.took \subseteq Receipts!Callbacks
      /\ raced \in BOOLEAN
  BY DEF Receipts!Take, Receipts!sent, ReceiptInv, ReceiptTypes, Held
<1>2. CASE ~Receipts!Known
  <2>1. hook' = [hook EXCEPT ![h].at = "between"] /\ raced' = raced
    BY <1>2 DEF Receipts!Take
  <2>2. /\ hook' \in [Callers -> Held] /\ hook'[h].at = "between"
        /\ \A g \in Callers : g # h => hook'[g] = hook[g]
        /\ \A g \in Callers : ~hook[g].has /\ ~hook'[g].has /\ hook'[g].took = hook[g].took
    BY <1>1, <1>2, <2>1 DEF ReceiptInv, ReceiptTypes, Held, InHand
  <2>3. ReceiptTypes'
    <3>1. ReceiptTypes
      BY DEF ReceiptInv
    <3>2. \A g \in Callers : InHand(hook[g])'
      BY <2>2, <3>1 DEF ReceiptTypes, InHand
    <3>3. stored' \in Receipts!Rows'
      BY <1>1, <3>1 DEF ReceiptTypes, Receipts!Rows
    <3> QED BY <1>1, <2>1, <2>2, <3>1, <3>2, <3>3 DEF ReceiptTypes
  <2>4. Locked'
    BY <1>1, <2>2 DEF ReceiptInv, Locked
  <2>5. ASSUME ~raced'
        PROVE  Alone' /\ Truthful'
    <3>1. Truthful
      BY <2>1, <2>5 DEF ReceiptInv
    <3>2. Shows(stored, got)' /\ (resume'.open => resume'.read = stored') /\ Receipts!ResolutionKept'
      BY <1>1, <3>1 DEF Truthful, Shows, Receipts!ResolutionKept
    <3> QED BY <2>2, <3>2 DEF Alone, Truthful
  <2> QED BY <2>3, <2>4, <2>5 DEF ReceiptInv
<1>3. CASE Receipts!Known
  <2>1. hook' = [hook EXCEPT ![h] = next] /\ raced' = (raced \/ (~s.has /\ Receipts!Races(h)))
    BY <1>3 DEF Receipts!Take
  <2>2. held \in Receipts!Rows /\ read \in Receipts!Rows /\ took \subseteq Receipts!Callbacks
    BY <1>1 DEF ReceiptInv, ReceiptTypes, InHand
  <2>3. bare \in BOOLEAN /\ ReceiptTypes
    BY <1>1 DEF ReceiptInv
  <2>4. Receipts!OnRow(held, c) \in Receipts!Rows
    BY <2>2, <2>3, OnRowIsARow
  <2> DEFINE row2 == Receipts!OnRow(held, c)
  <2>5. ~s.has \/ ~raced' => ~raced \/ ~s.has
    BY <1>1, <2>1
  <2>6. row2 \in AnyRow /\ read \in AnyRow
    BY <2>2, <2>4 DEF AnyRow, Receipts!Rows
  <2>7. next \in Held
    <3> HIDE DEF row2, read, took, bare
    <3> QED BY <2>2, <2>3, <2>6 DEF Held, row2
  <2>8. /\ hook' \in [Callers -> Held] /\ hook'[h] = next
        /\ \A g \in Callers : g # h => hook'[g] = hook[g]
    <3> HIDE DEF next
    <3> QED BY <2>1, <2>3, <2>7 DEF ReceiptTypes
  <2>a. /\ hook'[h].has /\ hook'[h].row = row2 /\ hook'[h].read = read /\ hook'[h].took = took
        /\ hook'[h].at = "between" /\ hook'[h].bare = bare
    <3> HIDE DEF row2, read, took, bare
    <3> QED BY <2>8 DEF row2
  <2>9. ReceiptTypes'
    <3>1. \A g \in Callers : InHand(hook[g])'
      <4>1. ASSUME NEW g \in Callers, g # h  PROVE InHand(hook[g])'
        BY <1>1, <2>3, <2>8, <4>1 DEF ReceiptTypes, InHand, Receipts!Rows, Receipts!Known
      <4>2. InHand(hook[h])'
        <5> HIDE DEF row2, read, took
        <5> QED BY <1>1, <1>3, <2>2, <2>4, <2>a DEF InHand, Receipts!Rows, Receipts!Known, row2
      <4> QED BY <4>1, <4>2
    <3>2. stored' \in Receipts!Rows'
      BY <1>1, <2>3 DEF ReceiptTypes, Receipts!Rows
    <3>3. raced' \in BOOLEAN
      BY <1>1, <2>1
    <3> QED BY <1>1, <2>3, <2>8, <3>1, <3>2, <3>3 DEF ReceiptTypes
  <2>10. Locked'
    <3>1. ~bare => lock = h
      BY <1>1 DEF ReceiptInv, Locked
    <3> HIDE DEF bare, next
    <3> QED BY <1>1, <2>8, <2>a, <3>1 DEF ReceiptInv, Locked
  <2>11. ASSUME ~raced'
         PROVE  Alone' /\ Truthful'
    <3>1. Alone /\ Truthful /\ (~s.has => ~Receipts!Races(h))
      BY <1>1, <2>1, <2>11 DEF ReceiptInv
    <3>2. ~resume.open /\ \A g \in Callers \ {h} : ~hook[g].has
      <4>1. CASE s.has
        BY <3>1, <4>1 DEF Alone
      <4>2. CASE ~s.has
        BY <1>1, <3>1, <4>2, FirstIsAlone
      <4> QED BY <4>1, <4>2
    <3>3. \A g \in Callers : g # h => ~hook'[g].has
      BY <2>8, <3>2
    <3>4. read = stored /\ Shows(held, got \cup s.took) /\ (owner = "runtime" => held.review = stored.review)
      <4>1. CASE s.has
        BY <3>1, <4>1 DEF Truthful, UpToDate
      <4>2. CASE ~s.has
        <5>1. s.took = {} /\ got \cup s.took = got
          BY <2>3, <4>2 DEF ReceiptTypes, InHand
        <5> QED BY <3>1, <4>2, <5>1 DEF Truthful
      <4> QED BY <4>1, <4>2
    <3>5. got \cup s.took \subseteq Receipts!Callbacks /\ (got \cup s.took) \cup {c} = got \cup took
      BY <1>1, <2>3 DEF ReceiptTypes
    <3>6. Shows(row2, got \cup took) /\ (owner = "runtime" => row2.review = stored.review)
      <4> HIDE DEF held, took
      <4> QED BY <2>2, <2>3, <3>4, <3>5, OnRowShows
    <3>7. UpToDate(hook[h])'
      <4> HIDE DEF row2, took, read
      <4> QED BY <1>1, <2>a, <3>4, <3>6 DEF UpToDate, Shows
    <3>8. Alone'
      BY <1>1, <3>2, <3>3 DEF Alone
    <3>9. \A g \in Callers : hook'[g].has => UpToDate(hook[g])'
      BY <3>3, <3>7
    <3>10. Shows(stored, got)' /\ (resume'.open => resume'.read = stored') /\ Receipts!ResolutionKept'
      BY <1>1, <3>1 DEF Truthful, Shows, Receipts!ResolutionKept
    <3> QED BY <3>8, <3>9, <3>10 DEF Truthful
  <2> QED BY <2>9, <2>10, <2>11 DEF ReceiptInv
<1> QED BY <1>2, <1>3

(* A session that ends, whatever it wrote.                                 *)
LEMMA ReleasedHolds ==
  ASSUME ReceiptInv, NEW h \in Callers, Receipts!Released(h)
  PROVE  /\ hook' \in [Callers -> Held] /\ ~hook'[h].has /\ hook'[h].took = {}
         /\ \A g \in Callers : g # h => hook'[g] = hook[g]
         /\ lock' \in Callers \cup {NoOne} /\ Locked'
<1>1. ReceiptTypes /\ Locked
  BY DEF ReceiptInv
<1>2. /\ hook' \in [Callers -> Held] /\ hook'[h] = Receipts!Idle
      /\ \A g \in Callers : g # h => hook'[g] = hook[g]
      /\ lock' = IF lock = h THEN NoOne ELSE lock
  BY <1>1, IdleIsHeld DEF Receipts!Released, ReceiptTypes
<1>3. lock' \in Callers \cup {NoOne}
  BY <1>1, <1>2 DEF ReceiptTypes
<1>4. Locked'
  BY <1>1, <1>2, IdleIsHeld DEF Locked
<1> QED BY <1>2, <1>3, <1>4, IdleIsHeld

LEMMA WriteHolds ==
  ASSUME ReceiptInv, NEW h \in Callers, Receipts!Write(h)
  PROVE  ReceiptInv'
<1> DEFINE s == hook[h]
<1>1. /\ UNCHANGED <<owner, turn, message, resume, raced>> /\ got' = got \cup s.took /\ Receipts!Released(h)
      /\ stored' = IF s.has THEN Receipts!Merged(s) ELSE stored
      /\ s \in Held /\ s.took \subseteq Receipts!Callbacks /\ ReceiptTypes
  BY DEF Receipts!Write, Receipts!sent, ReceiptInv, ReceiptTypes, Held
<1>2. /\ hook' \in [Callers -> Held] /\ ~hook'[h].has /\ hook'[h].took = {}
      /\ \A g \in Callers : g # h => hook'[g] = hook[g]
      /\ lock' \in Callers \cup {NoOne} /\ Locked'
  BY <1>1, ReleasedHolds
<1>3. ReceiptTypes'
  <2>1. stored' \in Receipts!Rows
    <3>1. CASE s.has
      BY <1>1, <3>1, MergedIsARow DEF ReceiptTypes, InHand
    <3>2. CASE ~s.has
      BY <1>1, <3>2 DEF ReceiptTypes
    <3> QED BY <3>1, <3>2
  <2>2. stored' \in Receipts!Rows'
    BY <1>1, <2>1 DEF Receipts!Rows
  <2>3. \A g \in Callers : InHand(hook[g])'
    BY <1>1, <1>2 DEF ReceiptTypes, InHand, Receipts!Rows, Receipts!Known
  <2> QED BY <1>1, <1>2, <2>2, <2>3 DEF ReceiptTypes
<1>4. ASSUME ~raced', s.has
      PROVE  Alone' /\ Truthful'
  <2>1. Alone /\ Truthful
    BY <1>1, <1>4 DEF ReceiptInv
  <2>2. UpToDate(s) /\ ~resume.open /\ \A g \in Callers : g # h => ~hook[g].has
    BY <1>4, <2>1 DEF Alone, Truthful
  <2>3. stored' = s.row
    BY <1>1, <1>4, <2>2, MergedIsOwn DEF UpToDate, ReceiptTypes, InHand
  <2>4. \A g \in Callers : ~hook'[g].has
    BY <1>2, <2>2
  <2>5. Shows(stored, got)'
    BY <1>1, <2>2, <2>3 DEF UpToDate, Shows
  <2>6. Receipts!ResolutionKept'
    BY <1>1, <2>1, <2>2, <2>3 DEF Truthful, UpToDate, Receipts!ResolutionKept, ReceiptTypes
  <2> QED BY <1>1, <2>2, <2>4, <2>5, <2>6 DEF Alone, Truthful
<1>5. ASSUME ~raced', ~s.has
      PROVE  Alone' /\ Truthful'
  <2>1. Alone /\ Truthful /\ stored' = stored
    BY <1>1, <1>5 DEF ReceiptInv
  <2>2. got' = got
    BY <1>1, <1>5 DEF ReceiptTypes, InHand
  <2>3. Alone'
    BY <1>1, <1>2, <2>1 DEF Alone
  <2>4. \A g \in Callers : hook'[g].has => UpToDate(hook[g])'
    BY <1>1, <1>2, <2>1, <2>2 DEF Truthful, UpToDate, Shows
  <2>5. Shows(stored, got)' /\ (resume'.open => resume'.read = stored') /\ Receipts!ResolutionKept'
    BY <1>1, <2>1, <2>2 DEF Truthful, Shows, Receipts!ResolutionKept
  <2> QED BY <2>3, <2>4, <2>5 DEF Truthful
<1> QED BY <1>2, <1>3, <1>4, <1>5 DEF ReceiptInv

LEMMA AbortHolds ==
  ASSUME ReceiptInv, NEW h \in Callers, Receipts!Abort(h)
  PROVE  ReceiptInv'
<1>1. UNCHANGED <<owner, turn, message, stored, resume, got, raced>> /\ Receipts!Released(h) /\ ReceiptTypes
  BY DEF Receipts!Abort, Receipts!sent, ReceiptInv
<1>2. /\ hook' \in [Callers -> Held] /\ ~hook'[h].has /\ hook'[h].took = {}
      /\ \A g \in Callers : g # h => hook'[g] = hook[g]
      /\ lock' \in Callers \cup {NoOne} /\ Locked'
  BY <1>1, ReleasedHolds
<1>3. ReceiptTypes'
  <2>1. stored' \in Receipts!Rows'
    BY <1>1 DEF ReceiptTypes, Receipts!Rows
  <2>2. \A g \in Callers : InHand(hook[g])'
    BY <1>1, <1>2 DEF ReceiptTypes, InHand, Receipts!Rows, Receipts!Known
  <2> QED BY <1>1, <1>2, <2>1, <2>2 DEF ReceiptTypes
<1>4. ASSUME ~raced'
      PROVE  Alone' /\ Truthful'
  <2>1. Alone /\ Truthful
    BY <1>1, <1>4 DEF ReceiptInv
  <2>2. Alone'
    BY <1>1, <1>2, <2>1 DEF Alone
  <2>3. \A g \in Callers : hook'[g].has => UpToDate(hook[g])'
    BY <1>1, <1>2, <2>1 DEF Truthful, UpToDate, Shows
  <2>4. Shows(stored, got)' /\ (resume'.open => resume'.read = stored') /\ Receipts!ResolutionKept'
    BY <1>1, <2>1 DEF Truthful, Shows, Receipts!ResolutionKept
  <2> QED BY <2>2, <2>3, <2>4 DEF Truthful
<1> QED BY <1>2, <1>3, <1>4 DEF ReceiptInv

(* A request to resume the bot: while it has the audit nobody else may.    *)
LEMMA ResumeHolds ==
  ASSUME ReceiptInv, Receipts!ResumeReads \/ Receipts!ResumeRefused \/ Receipts!ResumeWrites
  PROVE  ReceiptInv'
<1>1. UNCHANGED <<owner, message, lock, hook, got>> /\ ReceiptTypes /\ Locked
  BY DEF Receipts!ResumeReads, Receipts!ResumeRefused, Receipts!ResumeWrites, Receipts!sent, ReceiptInv
<1>2. Locked'
  BY <1>1 DEF Locked
<1>3. CASE Receipts!ResumeReads
  <2>1. /\ turn = "handoff" /\ UNCHANGED <<turn, stored>> /\ resume' = [open |-> TRUE, read |-> stored]
        /\ raced' = (raced \/ \E h \in Callers : hook[h].has)
    BY <1>3 DEF Receipts!ResumeReads, Receipts!sent
  <2>2. owner = "runtime" /\ stored \in Receipts!AuditRow
    BY <1>1, <2>1 DEF ReceiptTypes, Receipts!Rows
  <2>3. ReceiptTypes'
    <3>1. resume' \in [open : BOOLEAN, read : Receipts!AuditRow] /\ raced' \in BOOLEAN
      BY <1>1, <2>1, <2>2 DEF ReceiptTypes
    <3>2. stored' \in Receipts!Rows' /\ \A h \in Callers : InHand(hook[h])'
      BY <1>1, <2>1 DEF ReceiptTypes, Receipts!Rows, InHand, Receipts!Known
    <3> QED BY <1>1, <2>1, <3>1, <3>2 DEF ReceiptTypes
  <2>4. ASSUME ~raced'
        PROVE  Alone' /\ Truthful'
    <3>1. ~raced /\ \A h \in Callers : ~hook[h].has
      BY <1>1, <2>1, <2>4 DEF ReceiptTypes
    <3>2. Alone /\ Truthful
      BY <3>1 DEF ReceiptInv
    <3>3. Shows(stored, got)' /\ Receipts!ResolutionKept'
      BY <1>1, <2>1, <3>2 DEF Truthful, Shows, Receipts!ResolutionKept
    <3> QED BY <1>1, <2>1, <3>1, <3>3 DEF Alone, Truthful
  <2> QED BY <1>2, <2>3, <2>4 DEF ReceiptInv
<1>4. CASE Receipts!ResumeRefused
  <2>1. UNCHANGED <<turn, stored, raced>> /\ resume' = Receipts!Absent
    BY <1>4 DEF Receipts!ResumeRefused, Receipts!sent
  <2>2. resume' \in [open : BOOLEAN, read : Receipts!AuditRow] /\ ~resume'.open
    BY <2>1, IdleIsHeld DEF Receipts!Absent
  <2>3. ReceiptTypes'
    <3>1. stored' \in Receipts!Rows' /\ \A h \in Callers : InHand(hook[h])'
      BY <1>1, <2>1 DEF ReceiptTypes, Receipts!Rows, InHand, Receipts!Known
    <3> QED BY <1>1, <2>1, <2>2, <3>1 DEF ReceiptTypes
  <2>4. ASSUME ~raced'
        PROVE  Alone' /\ Truthful'
    <3>1. Alone /\ Truthful
      BY <2>1, <2>4 DEF ReceiptInv
    <3>2. \A g \in Callers : hook'[g].has => UpToDate(hook[g])'
      BY <1>1, <2>1, <3>1 DEF Truthful, UpToDate, Shows
    <3>3. Shows(stored, got)' /\ Receipts!ResolutionKept'
      BY <1>1, <2>1, <3>1 DEF Truthful, Shows, Receipts!ResolutionKept
    <3> QED BY <1>1, <2>2, <3>1, <3>2, <3>3 DEF Alone, Truthful
  <2> QED BY <1>2, <2>3, <2>4 DEF ReceiptInv
<1>5. CASE Receipts!ResumeWrites
  <2>1. /\ resume.open /\ turn' = "resolved" /\ UNCHANGED raced
        /\ stored' = [resume.read EXCEPT !.review = "resolved"] /\ resume' = Receipts!Absent
    BY <1>5 DEF Receipts!ResumeWrites
  <2>2. resume' \in [open : BOOLEAN, read : Receipts!AuditRow] /\ ~resume'.open
    BY <2>1, IdleIsHeld DEF Receipts!Absent
  <2>3. /\ owner = "runtime" /\ turn = "handoff" /\ resume.read \in Receipts!AuditRow
    BY <1>1, <2>1 DEF ReceiptTypes
  <2>4. /\ stored' \in Receipts!AuditRow /\ stored'.review = "resolved" /\ stored'.status = resume.read.status
        /\ stored'.at = resume.read.at /\ stored'.history = resume.read.history
    BY <2>1, <2>3 DEF Receipts!AuditRow
  <2>5. ReceiptTypes'
    <3>1. stored' \in Receipts!Rows' /\ \A h \in Callers : InHand(hook[h])'
      BY <1>1, <2>1, <2>3, <2>4 DEF ReceiptTypes, Receipts!Rows, InHand, Receipts!Known
    <3> QED BY <1>1, <2>1, <2>2, <2>3, <3>1 DEF ReceiptTypes
  <2>6. ASSUME ~raced'
        PROVE  Alone' /\ Truthful'
    <3>1. Alone /\ Truthful
      BY <2>1, <2>6 DEF ReceiptInv
    <3>2. resume.read = stored /\ \A g \in Callers : ~hook[g].has
      BY <2>1, <3>1 DEF Alone, Truthful
    <3>3. AuditShows(stored, got)
      BY <2>3, <3>1 DEF Truthful, Shows
    <3>4. Shows(stored, got)' /\ Receipts!ResolutionKept'
      BY <1>1, <2>3, <2>4, <3>2, <3>3 DEF Shows, AuditShows, Receipts!ResolutionKept
    <3> QED BY <1>1, <2>2, <3>2, <3>4 DEF Alone, Truthful
  <2> QED BY <1>2, <2>5, <2>6 DEF ReceiptInv
<1> QED BY <1>3, <1>4, <1>5

LEMMA ReceiptsBegin == Receipts!Init => ReceiptInv
<1> SUFFICES ASSUME Receipts!Init  PROVE ReceiptInv
  OBVIOUS
<1>1. /\ lock = NoOne /\ got = {} /\ ~raced /\ raced \in BOOLEAN /\ resume = Receipts!Absent
      /\ hook = [h \in Callers |-> Receipts!Idle]
      /\ \/ owner = "runtime" /\ turn = "sending" /\ stored = Receipts!NewAudit
         \/ owner = "outreach" /\ turn = "none" /\ stored = Receipts!NewJob
  BY DEF Receipts!Init
<1>2. hook \in [Callers -> Held] /\ \A h \in Callers : hook[h] = Receipts!Idle /\ ~hook[h].has /\ InHand(hook[h])
  BY <1>1, IdleIsHeld DEF InHand
<1>3. resume \in [open : BOOLEAN, read : Receipts!AuditRow] /\ ~resume.open
  BY <1>1, IdleIsHeld DEF Receipts!Absent
<1>4. ReceiptTypes
  BY <1>1, <1>2, <1>3, IdleIsHeld DEF ReceiptTypes, Receipts!Rows
<1>5. Locked
  BY <1>2, IdleIsHeld DEF Locked
<1>6. Shows(stored, got)
  <2>1. JobShows(Receipts!NewJob, {})
    BY DEF JobShows, Receipts!NewJob, IsEarliest, Receipts!Evidence, Receipts!StatusesOf
  <2>2. AuditShows(Receipts!NewAudit, {})
    <3>1. HistoryShows(<<>>, {})
      <4>1. HistoryLimit \in Nat \ {0}
        BY OutreachAssumptions DEF Receipts!Assumptions
      <4>2. DOMAIN << >> = {} /\ Len(<< >>) = 0
        OBVIOUS
      <4> QED BY <4>1, <4>2 DEF HistoryShows, Receipts!Range, Receipts!IsInjective
    <3> QED BY <3>1 DEF AuditShows, Receipts!NewAudit, IsEarliest, Receipts!Evidence, Receipts!StatusesOf
  <2> QED BY <1>1, <2>1, <2>2 DEF Shows
<1>7. Alone /\ Truthful
  BY <1>1, <1>2, <1>3, <1>6 DEF Alone, Truthful, Receipts!ResolutionKept
<1> QED BY <1>4, <1>5, <1>7 DEF ReceiptInv

LEMMA ReceiptsStay ==
  ASSUME ReceiptInv, UNCHANGED receiptVars
  PROVE  ReceiptInv'
BY DEF receiptVars, ReceiptInv, ReceiptTypes, Locked, Alone, Truthful, UpToDate, Shows, InHand,
       Receipts!Rows, Receipts!Known, Receipts!ResolutionKept

LEMMA ReceiptsStep ==
  ASSUME ReceiptInv, OutreachNext
  PROVE  ReceiptInv'
<1>1. CASE Receipts!Next
  <2>1. CASE \E outcome \in {"sent", "handoff"} : Receipts!Send(outcome)
    BY <2>1, SendHolds
  <2>2. ASSUME NEW h \in Callers, \/ Receipts!Look(h) \/ Receipts!Write(h) \/ Receipts!Abort(h)
                                  \/ \E c \in Receipts!Callbacks : Receipts!Take(h, c)
        PROVE  ReceiptInv'
    BY <2>2, LookHolds, WriteHolds, AbortHolds, TakeHolds
  <2>3. CASE Receipts!ResumeReads \/ Receipts!ResumeRefused \/ Receipts!ResumeWrites
    BY <2>3, ResumeHolds
  <2> QED BY <1>1, <2>1, <2>2, <2>3 DEF Receipts!Next
<1>2. CASE UNCHANGED receiptVars
  BY <1>2, ReceiptsStay
<1> QED BY <1>1, <1>2 DEF OutreachNext

(* webhooks.py: in whatever order and however often Meta sends callbacks,  *)
(* and however many transactions take them, the owner of a message shows   *)
(* the best proof, the first time of each status and every event until     *)
(* there are more than an audit keeps, and a turn a person resolved stays  *)
(* resolved in its audit; as long as no session got past the lock of the   *)
(* Message: one that looked for it too early, or a request to resume.      *)
THEOREM LockedReceiptsAreEvidence == OutreachSpec => []ReceiptsAreEvidence
<1>1. OutreachInit => ReceiptInv
  BY ReceiptsBegin DEF OutreachInit
<1>2. ReceiptInv /\ [OutreachNext]_<<desk, vars, leadVars, receiptVars>> => ReceiptInv'
  BY ReceiptsStay, ReceiptsStep
<1>3. ReceiptInv => ReceiptsAreEvidence
  <2> SUFFICES ASSUME ReceiptInv  PROVE ReceiptsAreEvidence
    OBVIOUS
  <2>1. Receipts!TypeOK
    BY DEF ReceiptInv, ReceiptTypes, InHand, Receipts!TypeOK
  <2>2. ASSUME ~raced
        PROVE  /\ Receipts!StatusIsEvidence /\ Receipts!EarliestKept
               /\ Receipts!HistoryComplete /\ Receipts!ResolutionKept
    <3>1. ReceiptTypes /\ Truthful
      BY <2>2 DEF ReceiptInv
    <3>2. CASE owner = "outreach"
      <4>1. JobShows(stored, got) /\ got \in SUBSET Receipts!Callbacks
        BY <3>1, <3>2 DEF Truthful, Shows, ReceiptTypes
      <4>2. \A s \in Receipts!Succeeded : stored.at[s] = Receipts!Earliest(got, s)
        BY <4>1, EarliestIs DEF JobShows
      <4> QED BY <3>1, <3>2, <4>1, <4>2 DEF Truthful, JobShows, Receipts!StatusIsEvidence,
                   Receipts!EarliestKept, Receipts!HistoryComplete
    <3>3. CASE owner # "outreach"
      <4>1. AuditShows(stored, got) /\ got \in SUBSET Receipts!Callbacks
        BY <3>1, <3>3 DEF Truthful, Shows, ReceiptTypes
      <4>2. stored.at = Receipts!Earliest(got, stored.status)
        BY <4>1, EarliestIs DEF AuditShows
      <4> QED BY <3>1, <3>3, <4>1, <4>2 DEF Truthful, AuditShows, HistoryShows, Receipts!StatusIsEvidence,
                   Receipts!EarliestKept, Receipts!HistoryComplete
    <3> QED BY <3>2, <3>3
  <2> QED BY <2>1, <2>2 DEF ReceiptsAreEvidence, Receipts!LockedEvidence
<1> QED BY <1>1, <1>2, <1>3, PTL DEF OutreachSpec
=============================================================================
