------------------------------- MODULE LeadScan -------------------------------
(***************************************************************************)
(* The lead scans of a campaign (modules/discovery, workers/discovery.py,  *)
(* workers/enrichment.py): a Celery task asks the connectors and ingests   *)
(* the companies found, a second one fetches the site of every new lead,   *)
(* scores it and in the end deletes what is below the bar.  Nothing keeps  *)
(* a manager from starting a scan while another one runs, and both tasks   *)
(* commit many times on their way.                                         *)
(*                                                                         *)
(* What a connector may find is a raw lead: a normalized name, a domain or *)
(* "none", a phone or "none" and what its site says.                       *)
(***************************************************************************)
EXTENDS Naturals, FiniteSets, Functions

CONSTANTS
    Raws,        \* raw leads: records of id, name, domain, phone, site
    Tasks,       \* bound: scans and enrichments of single leads
    MaxCrashes,  \* bound: workers killed
    Bar          \* _QUALIFY_THRESHOLD

\* The bar is above the score of a lead that was never scored; words on a site are counted.
BarIsAScore ==
    /\ Bar \in 1 .. 100 /\ MaxCrashes \in Nat /\ IsFiniteSet(Tasks)
    /\ \A raw \in Raws : raw.site.matched \in Nat /\ raw.site.negative \in Nat

VARIABLES
    campaign,    \* its status
    leads,       \* leads of the campaign: status and fit_score, by run and raw
    phones,      \* lead_contacts of type phone: the lead that has it
    tasks,       \* of each task: kind, stage, raw leads to ingest, uncommitted
                 \* leads, leads to enrich and leads being enriched
    crashes

vars == <<campaign, leads, phones, tasks, crashes>>

Leads == DOMAIN leads
LeadOf(t, raw) == [task |-> t, raw |-> raw]
New == [status |-> "discovered", score |-> 0]
NoTask == [kind |-> "none", stage |-> "none", found |-> {}, fresh |-> {}, todo |-> {}, busy |-> {}]

\* _score_fit: a page without a word of the sector, or on a host that is never a
\* company's, scores nothing; matches count 20, exclusions take 25.
Clamped(n, low, high) == IF n < low THEN low ELSE IF n > high THEN high ELSE n
Dead == [commercial |-> TRUE, anchor |-> FALSE, matched |-> 0, negative |-> 0]
Fit(site) ==
    IF ~site.commercial \/ ~site.anchor THEN 0
    ELSE LET won == site.matched * 20
             lost == site.negative * 25
         IN IF won < lost THEN 0 ELSE Clamped(won - lost, 0, 100)

Init ==
    /\ campaign = "draft"
    /\ leads = << >>
    /\ phones = << >>
    /\ tasks = [t \in Tasks |-> NoTask]
    /\ crashes = 0

At(t, kind, stage) == tasks[t].kind = kind /\ tasks[t].stage = stage
Put(t, task) == tasks' = [tasks EXCEPT ![t] = task]

-----------------------------------------------------------------------------
(* The discovery task.                                                     *)

\* start_discovery.
Discover(t) ==
    /\ tasks[t] = NoTask
    /\ campaign' = "discovering"
    /\ Put(t, [NoTask EXCEPT !.kind = "scan", !.stage = "queued"])
    /\ UNCHANGED <<leads, phones, crashes>>

\* Connectors time out or fail one by one; the others' answers are kept.
Collect(t) ==
    /\ At(t, "scan", "queued")
    /\ \E found \in SUBSET Raws :
          Put(t, [tasks[t] EXCEPT !.stage = "ingest", !.found = found])
    /\ UNCHANGED <<campaign, leads, phones, crashes>>

\* dedup_stmt: what an ingested lead is compared with.
SameCompany(raw, l) ==
    /\ l.raw.name = raw.name
    /\ raw.domain # "none" => l.raw.domain \in {raw.domain, "none"}

Matches(t, raw) == {l \in Leads \cup tasks[t].fresh : SameCompany(raw, l)}

\* ingest_raw_leads, one raw lead: it becomes a source of the lead it matches.
Ingest(t, raw) ==
    /\ At(t, "scan", "ingest") /\ raw \in tasks[t].found
    /\ Cardinality(Matches(t, raw)) <= 1
    /\ Put(t, [tasks[t] EXCEPT !.found = @ \ {raw},
                               !.fresh = IF Matches(t, raw) = {} THEN @ \cup {LeadOf(t, raw)} ELSE @])
    /\ UNCHANGED <<campaign, leads, phones, crashes>>

\* scalar_one_or_none finds two: the task fails and nothing is ingested.
IngestFails(t, raw) ==
    /\ At(t, "scan", "ingest") /\ raw \in tasks[t].found
    /\ Cardinality(Matches(t, raw)) > 1
    /\ Put(t, [NoTask EXCEPT !.kind = "scan", !.stage = "failed"])
    /\ UNCHANGED <<campaign, leads, phones, crashes>>

\* The leads are committed, and the enrichment is queued.
IngestCommits(t) ==
    /\ At(t, "scan", "ingest") /\ tasks[t].found = {}
    /\ leads' = [l \in Leads \cup tasks[t].fresh |-> IF l \in Leads THEN leads[l] ELSE New]
    /\ Put(t, [tasks[t] EXCEPT !.stage = "ingested", !.fresh = {}])
    /\ UNCHANGED <<campaign, phones, crashes>>

-----------------------------------------------------------------------------
(* The enrichment task.                                                    *)

\* enrich_campaign: the leads of the campaign that nobody has enriched yet.
Select(t) ==
    /\ At(t, "scan", "ingested")
    /\ Put(t, [tasks[t] EXCEPT !.stage = "enrich",
                               !.todo = {l \in Leads : leads[l].status = "discovered"}])
    /\ UNCHANGED <<campaign, leads, phones, crashes>>

\* trigger_enrich: a manager has one lead enriched again.
EnrichOne(t, l) ==
    /\ tasks[t] = NoTask /\ l \in Leads
    /\ Put(t, [NoTask EXCEPT !.kind = "lead", !.stage = "enrich", !.todo = {l}])
    /\ UNCHANGED <<campaign, leads, phones, crashes>>

\* _enrich_lead: a lead that is gone is left out.
Begin(t, l) ==
    /\ tasks[t].stage = "enrich" /\ l \in tasks[t].todo
    /\ leads' = IF l \in Leads THEN [leads EXCEPT ![l].status = "enriching"] ELSE leads
    /\ Put(t, [tasks[t] EXCEPT !.todo = @ \ {l}, !.busy = IF l \in Leads THEN @ \cup {l} ELSE @])
    /\ UNCHANGED <<campaign, phones, crashes>>

Taken(l) == l.raw.phone \in DOMAIN phones /\ phones[l.raw.phone] # l
Scored(score) == [status |-> IF score >= Bar THEN "qualified" ELSE "discarded", score |-> score]

\* The site was read, or did not answer (_fetch_site_text); the phone found is stored and the lead is
\* scored in one commit.
Enrich(t, l) ==
    /\ l \in tasks[t].busy /\ l \in Leads /\ ~Taken(l)
    /\ \E site \in {l.raw.site, Dead} : leads' = [leads EXCEPT ![l] = Scored(Fit(site))]
    /\ phones' = IF l.raw.phone = "none" THEN phones
                 ELSE [p \in DOMAIN phones \cup {l.raw.phone} |-> IF p = l.raw.phone THEN l ELSE phones[p]]
    /\ Put(t, [tasks[t] EXCEPT !.busy = @ \ {l}])
    /\ UNCHANGED <<campaign, crashes>>

\* A phone that another lead has (uq_lead_contacts_tenant_phone), or a lead that
\* has been deleted: the commit fails, and the failure is logged.
EnrichFails(t, l) ==
    /\ l \in tasks[t].busy
    /\ l \notin Leads \/ Taken(l)
    /\ Put(t, [tasks[t] EXCEPT !.busy = @ \ {l}])
    /\ UNCHANGED <<campaign, leads, phones, crashes>>

Through(t) == tasks[t].stage = "enrich" /\ tasks[t].todo = {} /\ tasks[t].busy = {}

EnrichedOne(t) ==
    /\ Through(t) /\ tasks[t].kind = "lead"
    /\ Put(t, [tasks[t] EXCEPT !.stage = "done"])
    /\ UNCHANGED <<campaign, leads, phones, crashes>>

\* Faulty: what could not be scored stays.
Discarded == {l \in Leads : leads[l].status = "discarded"}
BelowBar == {l \in Leads : leads[l].score < Bar}

\* The bulk delete, for the whole campaign; contacts go with their lead.
Purge(t) ==
    /\ Through(t) /\ tasks[t].kind = "scan"
    /\ leads' = Restrict(leads, Leads \ BelowBar)
    /\ phones' = Restrict(phones, {p \in DOMAIN phones : phones[p] \notin BelowBar})
    /\ Put(t, [tasks[t] EXCEPT !.stage = "purged"])
    /\ UNCHANGED <<campaign, crashes>>

Finalize(t) ==
    /\ At(t, "scan", "purged")
    /\ campaign' = "ready"
    /\ Put(t, [tasks[t] EXCEPT !.stage = "done"])
    /\ UNCHANGED <<leads, phones, crashes>>

\* A worker that is killed loses its task: Celery acknowledges before it runs.
Crash(t) ==
    /\ tasks[t].stage \notin {"none", "done", "failed"}
    /\ crashes < MaxCrashes
    /\ crashes' = crashes + 1
    /\ Put(t, [NoTask EXCEPT !.kind = tasks[t].kind, !.stage = "failed"])
    /\ UNCHANGED <<campaign, leads, phones>>

Work(t) ==
    \/ Collect(t) \/ IngestCommits(t) \/ Select(t) \/ EnrichedOne(t) \/ Purge(t) \/ Finalize(t)
    \/ \E raw \in Raws : Ingest(t, raw) \/ IngestFails(t, raw)
    \/ \E l \in tasks[t].todo : Begin(t, l)
    \/ \E l \in tasks[t].busy : Enrich(t, l) \/ EnrichFails(t, l)

Next ==
    \E t \in Tasks : Discover(t) \/ Work(t) \/ Crash(t) \/ \E l \in Leads : EnrichOne(t, l)

Spec == Init /\ [][Next]_vars

\* Celery delivers a queued task and runs it to its end.
Fairness == \A t \in Tasks : WF_vars(Work(t))
FairSpec == Spec /\ Fairness

-----------------------------------------------------------------------------
(* Properties.                                                             *)

Scans == {t \in Tasks : tasks[t].kind = "scan"}
Idle == \A t \in Tasks : tasks[t].stage \in {"none", "done"}

\* Fields keep their shapes (discovery/models.py).
TypeOK ==
    /\ campaign \in {"draft", "discovering", "ready"}
    /\ Leads \subseteq [task : Tasks, raw : Raws]
    /\ \A l \in Leads : leads[l].status \in {"discovered", "enriching", "qualified", "discarded"}
                        /\ leads[l].score \in 0 .. 100
    /\ \A p \in DOMAIN phones : phones[p] \in Leads
    /\ \A t \in Tasks : tasks[t].kind \in {"none", "scan", "lead"}

\* "Persist only >=80% matches": when the campaign is ready and nothing failed or
\* runs any more, only matches are left, however scans overlapped and whatever
\* could not be enriched.
OnlyMatchesRemain ==
    campaign = "ready" /\ Idle /\ (\A t \in Tasks : tasks[t].kind # "lead") =>
        \A l \in Leads : leads[l].status = "qualified" /\ leads[l].score >= Bar

\* "Fuzzy dedup on (normalized_name + domain)": one scan at a time stores a company
\* once per domain, and once altogether if it was met without one.
CompanyOnce ==
    Cardinality(Scans) = 1 =>
        \A l, k \in Leads : l # k /\ l.raw.name = k.raw.name =>
            l.raw.domain # k.raw.domain /\ "none" \notin {l.raw.domain, k.raw.domain}

\* The dashboard stops polling: a campaign in discovery becomes ready, unless the
\* task of a scan fails.
ScanEnds ==
    campaign = "discovering" ~> campaign = "ready" \/ \E t \in Tasks : tasks[t].stage = "failed"

=============================================================================
