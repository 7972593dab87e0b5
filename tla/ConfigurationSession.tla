------------------------- MODULE ConfigurationSession -------------------------
(***************************************************************************)
(* ConfigurationFlowSession: one admin builds a company configuration, step *)
(* by step of a compiled flow.  An action is a one-time ref that the server *)
(* issues for the present step and revision; a command is proposed and      *)
(* previewed, then accepted or rejected.  What is staged becomes a company  *)
(* configuration only when the review at the end can build it.              *)
(*                                                                         *)
(* Every change of the draft bumps the revision, and a ref of an older one  *)
(* is refused for good: refs holds the refs of the present revision that    *)
(* are not used up or expired.  Delivering a used ref again changes nothing.*)
(***************************************************************************)
EXTENDS Integers, FiniteSets, Sequences, SequencesExt

CONSTANTS Included,      \* steps of CORE_FLOW_SPECS this instance asks
          Items,         \* business ids
          Templated,     \* ids whose policy has the effect use_template
          Modules,       \* ids of the registered module providers
          MaxChildren,   \* bound: fields, transitions or conditions of one item
          MaxTries       \* bound: proposals at one revision

None == "none"
Complete == "__complete__"
Blank(step) == [step |-> step, item |-> None, ids |-> {}, ok |-> TRUE, life |-> None]
NoProposal == [id |-> 0, step |-> None, cmd |-> Blank(None)]

-----------------------------------------------------------------------------
(* The flow                                                                 *)

FlowSpec(id, kind, deps, canDefer) ==
    [id |-> id, kind |-> kind, deps |-> deps, canDefer |-> canDefer, of |-> None]
(* A nested or binding step is about the items of a root step.              *)
Of(spec, root) == [spec EXCEPT !.of = root]

CoreFlow == <<
    FlowSpec("organization", "form", {}, FALSE),
    FlowSpec("parties", "root", {}, TRUE),
    FlowSpec("offerings", "root", {"organization"}, TRUE),
    FlowSpec("customer-profiles", "root", {}, TRUE),
    Of(FlowSpec("customer-profile-fields", "nested", {"customer-profiles"}, TRUE), "customer-profiles"),
    Of(FlowSpec("party-profile-bindings", "bind", {"parties", "customer-profiles"}, TRUE), "parties"),
    Of(FlowSpec("offering-provider-bindings", "bind", {"organization", "offerings", "parties"}, TRUE), "offerings"),
    FlowSpec("relationships", "root", {"organization", "parties", "offerings"}, TRUE),
    FlowSpec("facts", "root", {"organization"}, TRUE),
    Of(FlowSpec("fact-subject-bindings", "bind", {"facts", "organization", "parties", "offerings"}, TRUE), "facts"),
    FlowSpec("processes", "root", {}, TRUE),
    Of(FlowSpec("process-transitions", "nested", {"processes"}, TRUE), "processes"),
    FlowSpec("policies", "root", {}, TRUE),
    Of(FlowSpec("policy-conditions", "nested", {"policies"}, TRUE), "policies"),
    Of(FlowSpec("policy-template-bindings", "bind", {"policies", "facts"}, TRUE), "policies"),
    FlowSpec("agent-policy", "form", {"organization"}, FALSE),
    FlowSpec("module-registry", "root", {}, TRUE),
    FlowSpec("lifecycle-review", "review", {"organization", "agent-policy"}, FALSE) >>

Core == {CoreFlow[i] : i \in {j \in DOMAIN CoreFlow : CoreFlow[j].id \in Included}}
Root == {s.id : s \in {x \in Core : x.kind = "root"}}
Nested == {s.id : s \in {x \in Core : x.kind = "nested"}}
Bindings == {s.id : s \in {x \in Core : x.kind = "bind"}}
Forms == {s.id : s \in {x \in Core : x.kind = "form"}}
SpecOf(id) == CHOOSE s \in Core : s.id = id
Entities == {"parties", "offerings"}     \* with the organization, one space of ids

ASSUME FlowAssumption ==
    /\ {"organization", "agent-policy", "lifecycle-review"} \subseteq Included
    /\ \A s \in Core : s.of # None => s.of \in Included
    /\ MaxChildren \in Nat /\ MaxTries \in Nat \ {0}
    /\ Templated \subseteq Items
    \* a flow with two steps of one id is not compiled (FlowCompilationError)
    /\ IsFiniteSet(Modules)
    /\ Modules \cap ({Complete} \cup {CoreFlow[i].id : i \in DOMAIN CoreFlow}) = {}

VARIABLES flow,        \* the compiled steps, in order
          at,          \* id of the present step
          filled,      \* forms filled, each with whether it can be published
          items,       \* root step -> the ids added
          children,    \* nested step -> id -> number of children
          bound,       \* binding step -> the ids bound, or None
          configs,     \* registered module -> its configuration is valid
          life,        \* draft | review | approved
          scope,       \* root step -> open | closed | deferred
          nested,      \* nested step -> the ids whose scope is open
          pending,     \* the proposal under review
          refs,        \* usable refs of this revision
          tries        \* proposals made at this revision

stage == <<filled, items, children, bound, configs, life, flow>>
vars == <<flow, at, filled, items, children, bound, configs, life, scope, nested, pending, refs, tries>>

(* compile: a module adds its step, the review comes after everything.      *)
ModuleStep(m) == FlowSpec(m, "module", {"module-registry"}, TRUE)
Specs(mods) ==
    LET all == Core \cup {ModuleStep(m) : m \in mods}
        ids == {s.id : s \in all}
    IN {[s EXCEPT !.deps = IF s.id = "lifecycle-review" THEN ids \ {s.id} ELSE @ \cap ids] : s \in all}

(* The order the steps are written in: the core, then those of the modules. *)
ModuleRank == CHOOSE f \in [Modules -> 1 .. Cardinality(Modules)] : IsInjective(f)
Rank(id) == IF id \in Modules THEN Len(CoreFlow) + ModuleRank[id]
            ELSE CHOOSE i \in DOMAIN CoreFlow : CoreFlow[i].id = id

(* _topological_order: of the steps that are ready, the first one written.  *)
Ready(specs, done) == {s \in specs \ ToSet(done) : s.deps \subseteq {d.id : d \in ToSet(done)}}
FirstOf(ready) == CHOOSE s \in ready : \A t \in ready : Rank(s.id) <= Rank(t.id)
Ordered(specs) ==
    LET done[k \in 0 .. Cardinality(specs)] ==
          IF k = 0 THEN <<>>
          ELSE LET before == done[k - 1] IN Append(before, FirstOf(Ready(specs, before)))
    IN done[Cardinality(specs)]

Compile(mods) == Ordered(Specs(mods))
Here == CHOOSE i \in DOMAIN flow : flow[i].id = at
Current == flow[Here]
Advanced == IF Here = Len(flow) THEN Complete ELSE flow[Here + 1].id

-----------------------------------------------------------------------------
(* What can be built                                                        *)

(* completion_blockers and the checks of _build_config.                     *)
Buildable(lifecycle, atReview) ==
    /\ pending = NoProposal \/ atReview
    /\ at = Complete \/ (atReview /\ at = "lifecycle-review")
    /\ \A s \in Root : scope[s] # "open"
    /\ \A s \in Nested : nested[s] = {}
    /\ {f[1] : f \in filled} = Forms
    /\ \A s \in Bindings : items[SpecOf(s).of] \subseteq bound[s]
    /\ \A i \in items["policies"] : children["policy-conditions"][i] > 0
    /\ \A m \in DOMAIN configs : configs[m]
    /\ lifecycle = "approved" => \A f \in filled : f[2]   \* publishability_errors

(* SetLifecycleCommand builds the configuration before it sets the lifecycle. *)
ReviewedBlindly(lifecycle) == lifecycle # "draft"
Reviewed(lifecycle) == lifecycle # "draft" /\ Buildable(lifecycle, TRUE)

-----------------------------------------------------------------------------
(* Commands, each of the type of one step                                   *)

Commands(spec) ==
    CASE spec.kind \in {"form", "module"} -> {[Blank(spec.id) EXCEPT !.ok = b] : b \in BOOLEAN}
      [] spec.id = "module-registry" -> {[Blank(spec.id) EXCEPT !.item = m] : m \in Modules}
      [] spec.kind = "root" /\ spec.id # "module-registry" ->
           {[Blank(spec.id) EXCEPT !.item = i] : i \in Items}
      [] spec.kind = "nested" ->     \* MaxChildren bounds what is explored
           {[Blank(spec.id) EXCEPT !.item = i] : i \in {j \in items[spec.of] : children[spec.id][j] < MaxChildren}}
      [] spec.kind = "bind" ->
           UNION {{[Blank(spec.id) EXCEPT !.ids = S, !.ok = b] : b \in BOOLEAN} : S \in SUBSET Items}
      [] spec.kind = "review" -> {[Blank(spec.id) EXCEPT !.life = l] : l \in {"draft", "review", "approved"}}

(* The type check of _apply; configuring a module checks its own path.      *)
FitsAnywhere(cmd, step) == TRUE
Fits(cmd, step) == cmd.step = step

SameSpace(step) == IF step \in Entities THEN Entities \cap Root ELSE {step}
Unique(cmd) == \/ cmd.step = "relationships"
               \/ \A s \in SameSpace(cmd.step) : cmd.item \notin items[s]

StillOpen(cmd) == cmd.item \in nested[cmd.step]

(* A binding covers every item of its step, and gives a policy a template   *)
(* exactly when it uses one: ok says that the command does.                 *)
Covers(cmd) ==
    /\ cmd.ids = items[SpecOf(cmd.step).of]
    /\ cmd.ok
    /\ (cmd.step = "policy-template-bindings" /\ cmd.ids \cap Templated # {}) => items["facts"] # {}

(* _apply: the command is applied as a whole or, if a check of it fails,    *)
(* not at all.                                                              *)
Applicable(cmd) ==
    /\ Fits(cmd, at)
    /\ CASE cmd.step \in Forms    -> ~\E f \in filled : f[1] = cmd.step
         [] cmd.step \in Root     -> scope[cmd.step] = "open" /\ Unique(cmd)
         [] cmd.step \in Nested   -> StillOpen(cmd)
         [] cmd.step \in Bindings -> Covers(cmd)
         [] cmd.step = "lifecycle-review" -> Reviewed(cmd.life)
         [] OTHER -> cmd.step \in DOMAIN configs /\ cmd.ok

FillForm(cmd) ==
    /\ cmd.step \in Forms
    /\ filled' = filled \cup {<<cmd.step, cmd.ok>>}
    /\ UNCHANGED <<items, children, bound, configs, life, nested, flow>>

AddItem(cmd) ==
    LET isModule == cmd.step = "module-registry"
    IN /\ cmd.step \in Root
       /\ items' = [items EXCEPT ![cmd.step] = @ \cup {cmd.item}]
       /\ nested' = [s \in Nested |-> IF SpecOf(s).of = cmd.step
                                      THEN nested[s] \cup {cmd.item} ELSE nested[s]]
       /\ configs' = IF isModule
                     THEN [m \in DOMAIN configs \cup {cmd.item} |-> m # cmd.item /\ configs[m]]
                     ELSE configs
       /\ flow' = IF isModule THEN Compile(DOMAIN configs \cup {cmd.item}) ELSE flow
       /\ UNCHANGED <<filled, children, bound, life>>

AddChild(cmd) ==
    /\ cmd.step \in Nested
    /\ children' = [children EXCEPT ![cmd.step][cmd.item] = @ + 1]
    /\ UNCHANGED <<filled, items, bound, configs, life, nested, flow>>

Bind(cmd) ==
    /\ cmd.step \in Bindings
    /\ bound' = [bound EXCEPT ![cmd.step] = cmd.ids]
    /\ UNCHANGED <<filled, items, children, configs, life, nested, flow>>

Configure(cmd) ==
    /\ cmd.step \in DOMAIN configs
    /\ configs' = [configs EXCEPT ![cmd.step] = TRUE]
    /\ UNCHANGED <<filled, items, children, bound, life, nested, flow>>

SetLifecycle(cmd) ==
    /\ cmd.step = "lifecycle-review"
    /\ life' = cmd.life
    /\ UNCHANGED <<filled, items, children, bound, configs, nested, flow>>

Apply(cmd) == \/ FillForm(cmd) \/ AddItem(cmd) \/ AddChild(cmd)
              \/ Bind(cmd) \/ Configure(cmd) \/ SetLifecycle(cmd)

-----------------------------------------------------------------------------
(* Refs                                                                     *)

Ref(kind, of) == <<kind, of>>
Issue(r) == /\ refs' = refs \cup {r}
            /\ UNCHANGED <<at, stage, scope, nested, pending, tries>>
(* A used ref is spent whether or not its action succeeds.                  *)
Spent(r) == refs \ {r}
(* A bump makes every outstanding ref stale; a proposal that is still       *)
(* pending keeps its number.                                                *)
Bumped == /\ refs' = {}
          /\ tries' = IF pending' = NoProposal THEN 0 ELSE tries
Refuse(r) == /\ refs' = Spent(r)
             /\ UNCHANGED <<at, stage, scope, nested, pending, tries>>

Init ==
    /\ flow = Compile({}) /\ at = flow[1].id
    /\ filled = {} /\ life = "draft"
    /\ items = [s \in Root |-> {}]
    /\ children = [s \in Nested |-> [i \in Items |-> 0]]
    /\ bound = [s \in Bindings |-> {}]
    /\ configs = [m \in {} |-> FALSE]
    /\ scope = [s \in Root |-> "open"]
    /\ nested = [s \in Nested |-> {}]
    /\ pending = NoProposal /\ refs = {} /\ tries = 0

IssueCommand ==
    /\ at # Complete /\ pending = NoProposal
    /\ Issue(Ref("propose", 0))

Propose ==
    LET r == Ref("propose", 0)
    IN /\ r \in refs
       /\ IF pending # NoProposal THEN Refuse(r)
          ELSE /\ tries < MaxTries
               /\ \E c \in Commands(Current) : pending' = [id |-> tries + 1, step |-> at, cmd |-> c]
               /\ tries' = tries + 1
               /\ refs' = Spent(r)
               /\ UNCHANGED <<at, stage, scope, nested>>

IssueDecision ==
    /\ pending # NoProposal
    /\ \E kind \in {"accept", "reject"} : Issue(Ref(kind, pending.id))

Names(r) == pending # NoProposal /\ r = Ref(r[1], pending.id)

(* The steps that are left by accepting a command; a collection stays open. *)
Leaves(step) == step \notin Root \cup Nested

Accept ==
    \E r \in refs :
      /\ r[1] = "accept"
      /\ IF ~Names(r) \/ ~Applicable(pending.cmd) THEN Refuse(r)
         ELSE /\ Apply(pending.cmd)
              /\ pending' = NoProposal
              /\ at' = IF Leaves(at) THEN Advanced ELSE at
              /\ Bumped
              /\ UNCHANGED scope

Reject ==
    \E r \in refs :
      /\ r[1] = "reject"
      /\ IF ~Names(r) THEN Refuse(r)
         ELSE /\ pending' = NoProposal
              /\ refs' = Spent(r)
              /\ UNCHANGED <<at, stage, scope, nested, tries>>

(* Issuing asks that no proposal is pending; using the ref does not.        *)
Closable == IF at \in Root THEN {None} ELSE IF at \in Nested THEN nested[at] ELSE {}

IssueClose ==
    /\ pending = NoProposal
    /\ \E i \in Closable : Issue(Ref("close", i))

CloseCollection ==
    \E r \in refs :
      /\ r[1] = "close"
      /\ r[2] \in Closable
      /\ IF at \in Root
         THEN scope' = [scope EXCEPT ![at] = "closed"] /\ UNCHANGED nested
         ELSE nested' = [nested EXCEPT ![at] = @ \ {r[2]}] /\ UNCHANGED scope
      /\ at' = IF at \in Root \/ nested'[at] = {} THEN Advanced ELSE at
      /\ UNCHANGED <<stage, pending>>
      /\ Bumped

IssueDefer ==
    /\ at # Complete /\ Current.canDefer /\ pending = NoProposal
    /\ at \in Nested => items[Current.of] = {}
    /\ Issue(Ref("defer", 0))

Defer ==
    LET r == Ref("defer", 0)
    IN /\ r \in refs
       /\ scope' = IF at \in Root THEN [scope EXCEPT ![at] = "deferred"] ELSE scope
       /\ at' = Advanced
       /\ UNCHANGED <<stage, nested, pending>>
       /\ Bumped

(* After the last step, or when the review cannot pass, nothing is left.    *)
Next == IssueCommand \/ Propose \/ IssueDecision \/ Accept \/ Reject
          \/ IssueClose \/ CloseCollection \/ IssueDefer \/ Defer

Spec == Init /\ [][Next]_vars

-----------------------------------------------------------------------------
TypeOK ==
    /\ at \in Included \cup Modules \cup {Complete}
    /\ items \in [Root -> SUBSET (Items \cup Modules)]
    /\ scope \in [Root -> {"open", "closed", "deferred"}]
    /\ nested \in [Nested -> SUBSET Items]
    /\ life \in {"draft", "review", "approved"}

(* A session that is complete can be materialized: no step was passed with  *)
(* an open scope, an unbound item, a policy without conditions or a module  *)
(* without a valid configuration (is_complete, materialize).                *)
CompleteMaterializes ==
    (at = Complete /\ pending = NoProposal) => Buildable(life, FALSE) /\ life # "draft"

(* Once a collection or the scope of one item is closed, nothing is added   *)
(* to it, whatever proposal was waiting when it was closed.                 *)
ClosedIsFrozen ==
    [][/\ \A s \in Root : scope[s] # "open" => items'[s] = items[s] /\ scope'[s] = scope[s]
       /\ \A s \in Nested : \A i \in items[SpecOf(s).of] \ nested[s] :
            children'[s][i] = children[s][i] /\ i \notin nested'[s]]_vars

(* The draft changes only by an accepted proposal, at the step it was       *)
(* previewed at, and never again at a step that was left.                   *)
AppliedWherePreviewed ==
    [][stage' # stage => pending # NoProposal /\ pending.step = at /\ pending' = NoProposal]_vars
==============================================================================
