------------------------------ MODULE Workflow ------------------------------
(***************************************************************************)
(* The operator assistant's durable workflows (admin_chat/workflows.py):   *)
(* the cards of one chat session.  A card is opened by a form or by a chat *)
(* turn, filled in, reviewed and completed; opening or resuming one card   *)
(* pauses the others; outreach and template cards go on in the background. *)
(*                                                                         *)
(* Every handler locks the session row (router.owned), so it is one step,  *)
(* except the submission of a template to Meta, which commits and lets the *)
(* lock go before its POST and takes it again for the answer.              *)
(*                                                                         *)
(* Of the form a card keeps which text its required fields hold (Blank     *)
(* when one is missing or invalid); of the tenant's own rows that a review *)
(* is compared with (a member's role, a request, a version) it keeps one   *)
(* counter, record.                                                        *)
(***************************************************************************)
EXTENDS Naturals, FiniteSets

CONSTANTS
    Cards,        \* workflow ids
    StartKinds,   \* the kinds a form or a turn opens
    Texts,        \* contents of a completely filled form
    MaxCommands,  \* bound: client operations (each has its own receipt)
    MaxRecord,    \* bound: edits of the tenant's rows by others
    MaxBatches,   \* bound: outreach batches
    MaxRevision   \* bound: revisions a poll that finds nothing may still add

ASSUME BoundsAreNatural ==
    /\ MaxCommands \in Nat /\ MaxRecord \in Nat
    /\ MaxBatches \in Nat /\ MaxRevision \in Nat

VARIABLES
    cards,     \* chat_workflows
    batches,   \* outbound_batches, each with the card that created it
    posting,   \* the submission in progress in some API process
    meta,      \* what Meta has of a card's template
    posts,     \* how many times a card's template was posted
    record,    \* version of the tenant's rows that reviews are compared with
    spent,     \* client operations that have a receipt
    screen,    \* the review an operator has in front of him, with its revision
    done       \* what completing a card did, and who asked for it

vars == <<cards, batches, posting, meta, posts, record, spent, screen, done>>

TERMINAL == {"completed", "cancelled"}
ACTIVE == {"awaiting_input", "ready", "running", "failed"}
Background == {"outreach", "create_template"}
Kinds == {"person", "contact", "member", "publish", "outreach", "create_template", "records"}
ASSUME StartKindsAreKinds == StartKinds \subseteq Kinds
Decided == {"APPROVED", "REJECTED"}

NoCard == [kind |-> "none", status |-> "none"]
Blank == "blank"
NoFields == "unchanged"
Fields == Texts \cup {Blank}
NoBasis == [text |-> Blank, record |-> 0]
NoBatch == [card |-> "none", status |-> "none"]
NoScreen == [rev |-> 0, basis |-> NoBasis, shown |-> FALSE]
NotDone == [by |-> "nobody", text |-> Blank, record |-> 0]

Exists(c) == cards[c] # NoCard
Open(c) == Exists(c) /\ cards[c].status \notin TERMINAL
BatchIds == 1 .. MaxBatches
BatchOf(k) == batches[k.batch]
HasBatch(k) == k.batch # 0

-----------------------------------------------------------------------------
(* What the handlers share. *)

\* Faulty: a card that waits at its review is left open.
PauseOthersInForm(except) ==
    [c \in Cards |->
        LET k == cards[c] IN
        IF c # except /\ Exists(c) /\ k.status \in ACTIVE \ {"ready"}
        THEN [k EXCEPT !.status = "paused", !.rev = @ + 1,
                       !.bg = @ \/ (k.kind \in Background /\ k.status = "running")]
        ELSE k]

\* pause_others: the other open cards are paused, a running one goes on behind.
PauseOthers(except) ==
    [c \in Cards |->
        LET k == cards[c] IN
        IF c # except /\ Exists(c) /\ k.status \in ACTIVE
        THEN [k EXCEPT !.status = "paused", !.rev = @ + 1,
                       !.bg = @ \/ (k.kind \in Background /\ k.status = "running")]
        ELSE k]

\* Faulty: the fields are saved and the review stays ready.
PatchInPlace(k, f) == IF f = NoFields THEN k ELSE [k EXCEPT !.fields = f]

\* patch: saving fields throws away the result and goes back to the form.
Patch(k, f) ==
    IF f = NoFields THEN k
    ELSE [k EXCEPT !.fields = f, !.out = "none", !.status = "awaiting_input",
                   !.step = IF k.kind = "outreach" /\ k.step \in {"compose", "review"}
                            THEN "compose" ELSE "details"]

\* The guards of act, from the closed card to the paused one.
Accepts(k, action, f) ==
    /\ k.status \notin TERMINAL
    /\ k.status = "running" =>
          k.kind = "outreach" /\ action \in {"pause", "cancel"} /\ f = NoFields
    /\ k.kind = "outreach" /\ k.bg => action \in {"resume", "cancel"}
    /\ k.kind = "create_template" /\ k.bg => action = "resume"
    /\ action # "launch" => (k.status = "paused" => action \in {"resume", "cancel"})

\* workflow_outreach.invalidate: a review that is edited drops its batch, and a
\* batch that was started refuses the edit.
MayInvalidate(k) == k.kind = "outreach" /\ HasBatch(k) => BatchOf(k).status = "draft"
Invalidate(k) == IF k.kind = "outreach" THEN [k EXCEPT !.batch = 0] ELSE k
KeepBatch(k) == batches   \* Faulty
DropBatch(k) ==
    IF k.kind = "outreach" /\ HasBatch(k)
    THEN [batches EXCEPT ![k.batch].status = "cancelled", ![k.batch].pending = FALSE]
    ELSE batches

\* act increments the revision and records the receipt of the operation.
Record(c, k) ==
    /\ cards' = [cards EXCEPT ![c] = [k EXCEPT !.rev = cards[c].rev + 1]]
    /\ spent' = spent + 1

Command(c, action, f) ==
    /\ spent < MaxCommands
    /\ Exists(c)
    /\ Accepts(cards[c], action, f)

-----------------------------------------------------------------------------
Init ==
    /\ cards = [c \in Cards |-> NoCard]
    /\ batches = [b \in BatchIds |-> NoBatch]
    /\ posting = [c \in Cards |-> "idle"]
    /\ meta = [c \in Cards |-> "none"]
    /\ posts = [c \in Cards |-> 0]
    /\ record = 0
    /\ spent = 0
    /\ screen = [c \in Cards |-> NoScreen]
    /\ done = [c \in Cards |-> NotDone]

\* A new card; outreach reads Meta's template list when it can be reached.
NewCard(kind, f, reachable) ==
    Patch([kind |-> kind, status |-> "awaiting_input", step |-> "details", rev |-> 0,
           fields |-> Blank, templates |-> kind = "outreach" /\ reachable, bg |-> FALSE,
           batch |-> 0, basis |-> NoBasis, out |-> "none"], f)

\* start, from a form or a turn.  A repeated operation id finds its receipt and
\* changes nothing, so every step of this kind is a new operation.
Start(c, kind, f, reachable) ==
    /\ spent < MaxCommands
    /\ ~Exists(c)
    /\ cards' = [PauseOthers(c) EXCEPT ![c] = NewCard(kind, f, reachable)]
    /\ spent' = spent + 1
    /\ UNCHANGED <<batches, posting, meta, posts, record, screen, done>>

\* launch: a record list or an outreach card opens another card; the parent is
\* paused with the others and keeps its place.
Launch(c, child, kind, f, reachable) ==
    /\ Command(c, "launch", NoFields)
    /\ ~Exists(child)
    /\ \/ cards[c].kind = "records"
       \/ cards[c].kind = "outreach" /\ kind = "create_template" /\ f = Blank
    /\ cards' = [PauseOthers(child) EXCEPT ![child] = NewCard(kind, f, reachable)]
    /\ spent' = spent + 1
    /\ UNCHANGED <<batches, posting, meta, posts, record, screen, done>>

Resume(c, reachable) ==
    LET k == cards[c] IN
    /\ Command(c, "resume", NoFields)
    /\ cards' =
         [PauseOthers(c) EXCEPT ![c] =
            [k EXCEPT !.templates = IF k.kind = "outreach" /\ ~HasBatch(k) THEN reachable ELSE @,
                      !.status = IF k.bg THEN "running"
                                 ELSE IF k.step = "review" THEN "ready" ELSE "awaiting_input",
                      !.rev = @ + 1]]
    /\ spent' = spent + 1
    /\ UNCHANGED <<batches, posting, meta, posts, record, screen, done>>

Pause(c, f) ==
    LET k == cards[c] IN
    /\ Command(c, "pause", f)
    /\ f # NoFields => MayInvalidate(k)
    /\ batches' = IF f # NoFields THEN DropBatch(k) ELSE batches
    /\ LET kept == IF f # NoFields THEN Invalidate(k) ELSE k IN
       Record(c, [Patch([kept EXCEPT !.bg = @ \/ (k.kind = "outreach" /\ k.status = "running")], f)
                    EXCEPT !.status = "paused"])
    /\ UNCHANGED <<posting, meta, posts, record, screen, done>>

\* cancel; workflow_outreach.cancel also stops the recipients not yet taken.
Cancel(c) ==
    LET k == cards[c] IN
    /\ Command(c, "cancel", NoFields)
    /\ Record(c, [k EXCEPT !.status = "cancelled",
                           !.out = IF k.kind = "outreach" THEN "cancelled" ELSE @])
    /\ batches' = DropBatch(k)
    /\ UNCHANGED <<posting, meta, posts, record, screen, done>>

Back(c) ==
    LET k == cards[c] IN
    /\ Command(c, "back", NoFields)
    /\ MayInvalidate(k)
    /\ Record(c, [Invalidate(k) EXCEPT
                    !.status = "awaiting_input",
                    !.step = IF k.kind = "outreach" /\ k.step = "review" THEN "compose" ELSE "details"])
    /\ batches' = DropBatch(k)
    /\ UNCHANGED <<posting, meta, posts, record, screen, done>>

\* The card an update or a continue starts from: edited, its batch dropped, a
\* record list searched again.
Edited(k, f) ==
    LET kept == Patch(IF f = NoFields THEN k ELSE Invalidate(k), f) IN
    IF k.kind = "records" THEN [kept EXCEPT !.status = "awaiting_input", !.step = "details"] ELSE kept

Edits(c, action, f) ==
    /\ Command(c, action, f)
    /\ f # NoFields => MayInvalidate(cards[c])

EditBatches(k, f) == IF f = NoFields THEN batches ELSE DropBatch(k)

Update(c, f) ==
    /\ Edits(c, "update", f)
    /\ Record(c, Edited(cards[c], f))
    /\ batches' = EditBatches(cards[c], f)
    /\ UNCHANGED <<posting, meta, posts, record, screen, done>>

\* continue where nothing is reviewed: a list, a form with errors, and the
\* person card, which becomes a contact card with an empty form.
ContinueForm(c, f) ==
    LET k == Edited(cards[c], f) IN
    /\ Edits(c, "continue", f)
    /\ \/ k.kind = "records" \/ k.fields = Blank \/ k.kind = "person"
    /\ Record(c, IF k.kind = "person" /\ k.fields # Blank
                 THEN [k EXCEPT !.kind = "contact", !.fields = Blank] ELSE k)
    /\ batches' = EditBatches(cards[c], f)
    /\ UNCHANGED <<posting, meta, posts, record, screen, done>>

\* continue to a review, which remembers what it was made from.  A failure on
\* the way refuses the request and changes nothing ...
Reviewed(k) == [k EXCEPT !.step = "review", !.status = "ready",
                         !.basis = [text |-> k.fields, record |-> record]]

ContinueReview(c, f, kind) ==
    LET k == Edited(cards[c], f) IN
    /\ Edits(c, "continue", f)
    /\ k.kind = kind /\ k.fields # Blank
    /\ Record(c, Reviewed(k))
    /\ UNCHANGED <<batches, posting, meta, posts, record, screen, done>>

ContinueContact(c, f) == ContinueReview(c, f, "contact")
ContinueMember(c, f) == ContinueReview(c, f, "member")
ContinueTemplate(c, f) == ContinueReview(c, f, "create_template")

\* ... except for a version, whose preview fails inside a savepoint.
ContinueVersion(c, f, succeeds) ==
    LET k == Edited(cards[c], f) IN
    /\ Edits(c, "continue", f)
    /\ k.kind = "publish" /\ k.fields # Blank
    /\ Record(c, IF succeeds THEN Reviewed(k)
                 ELSE [k EXCEPT !.step = "details", !.status = "failed"])
    /\ UNCHANGED <<batches, posting, meta, posts, record, screen, done>>

\* continue of an outreach card without errors (workflow_outreach.prepare in a
\* savepoint): the template list, then the draft batch of the review.
ContinueOutreach(c, f, succeeds) ==
    LET k == Edited(cards[c], f)
        kept == EditBatches(cards[c], f)
    IN
    /\ Edits(c, "continue", f)
    /\ k.kind = "outreach" /\ k.fields # Blank
    /\ \/ /\ k.step = "details" /\ succeeds
          /\ Record(c, [k EXCEPT !.templates = TRUE, !.step = "compose", !.status = "awaiting_input"])
          /\ batches' = kept
       \/ /\ k.step = "compose" /\ k.templates /\ succeeds
          /\ \E b \in BatchIds :
                /\ batches[b] = NoBatch
                /\ batches' = [kept EXCEPT ![b] = [card |-> c, status |-> "draft",
                                                   text |-> k.fields, pending |-> FALSE]]
                /\ Record(c, [Reviewed(k) EXCEPT !.batch = b])
       \/ /\ k.step = "review" \/ ~succeeds \/ (k.step = "compose" /\ ~k.templates)
          /\ Record(c, [k EXCEPT !.status = "failed"])
          /\ batches' = kept
    /\ UNCHANGED <<posting, meta, posts, record, screen, done>>

-----------------------------------------------------------------------------
(* Completing a review.  The form's button carries the revision of the card *)
(* it shows; a turn's approval takes the revision the row has              *)
(* (execute_intent), and needs the card to be the only one of its kind.    *)

Look(c) ==
    /\ Open(c) /\ cards[c].step = "review"
    /\ screen' = [screen EXCEPT ![c] = [rev |-> cards[c].rev, basis |-> cards[c].basis, shown |-> TRUE]]
    /\ screen[c] # screen'[c]
    /\ UNCHANGED <<cards, batches, posting, meta, posts, record, spent, done>>

ExpectedRevision(c, by) ==
    \/ by = "button" /\ screen[c].shown /\ screen[c].rev = cards[c].rev
    \/ by = "turn" /\ {d \in Cards : Open(d) /\ cards[d].kind = cards[c].kind} = {c}

Ready(c, by) ==
    /\ Command(c, "complete", NoFields)
    /\ cards[c].status = "ready" /\ cards[c].step = "review" /\ cards[c].fields # Blank
    /\ ExpectedRevision(c, by)

Did(c, by, text, version) == done' = [done EXCEPT ![c] = [by |-> by, text |-> text, record |-> version]]

\* A person, an invitation or an assistant is created from the form.
CompleteContact(c, by) ==
    LET k == cards[c] IN
    /\ Ready(c, by) /\ k.kind = "contact"
    /\ Record(c, [k EXCEPT !.status = "completed", !.step = "result", !.out = "done"])
    /\ Did(c, by, k.fields, k.basis.record)
    /\ UNCHANGED <<batches, posting, meta, posts, record, screen>>

\* A row that others may have changed is changed only while it is the one
\* reviewed (workflow_members and workflow_agents.complete, apply_review).
StillReviewed(k) == k.basis.record = record

CompleteChange(c, by, kind) ==
    LET k == cards[c] IN
    /\ Ready(c, by) /\ k.kind = kind
    /\ StillReviewed(k)
    /\ Record(c, [k EXCEPT !.status = "completed", !.step = "result", !.out = "done"])
    /\ record' = record + 1
    /\ Did(c, by, k.fields, record)
    /\ UNCHANGED <<batches, posting, meta, posts, screen>>

CompleteMember(c, by) == CompleteChange(c, by, "member")

\* A version is published, restored or saved, or a customer test of it fell back.
CompleteVersion(c, by) ==
    \/ CompleteChange(c, by, "publish")
    \/ /\ Ready(c, by) /\ cards[c].kind = "publish"
       /\ StillReviewed(cards[c])
       /\ Record(c, [cards[c] EXCEPT !.status = "failed", !.step = "details", !.out = "done"])
       /\ UNCHANGED <<batches, posting, meta, posts, record, screen, done>>

\* workflow_outreach.complete: queue_batch returns at once for a batch that is
\* no longer a draft; sync then closes a card whose recipients are all settled.
CompleteOutreach(c, by) ==
    LET k == cards[c] IN
    /\ Ready(c, by) /\ k.kind = "outreach" /\ k.templates
    /\ batches' = IF BatchOf(k).status = "draft"
                  THEN [batches EXCEPT ![k.batch].status = "queued", ![k.batch].pending = TRUE]
                  ELSE batches
    /\ Record(c, IF BatchOf(k).status = "queued" /\ ~BatchOf(k).pending
                 THEN [k EXCEPT !.status = "completed", !.step = "result", !.out = "processed"]
                 ELSE [k EXCEPT !.status = "running", !.step = "result", !.out = "queued"])
    /\ Did(c, by, BatchOf(k).text, k.basis.record)
    /\ UNCHANGED <<posting, meta, posts, record, screen>>

\* Faulty: the POST comes before the commit that says it is under way.
SubmitBeforeCommit(c, by) ==
    LET k == cards[c] IN
    /\ Ready(c, by) /\ k.kind = "create_template"
    /\ k.basis.text = k.fields
    /\ Record(c, k)
    /\ posting' = [posting EXCEPT ![c] = "committed"]
    /\ Did(c, by, k.basis.text, k.basis.record)
    /\ UNCHANGED <<batches, meta, posts, record, screen>>

\* workflow_templates.submit, up to the commit before the POST.
SubmitTemplate(c, by) ==
    LET k == cards[c] IN
    /\ Ready(c, by) /\ k.kind = "create_template"
    /\ k.basis.text = k.fields
    /\ Record(c, [k EXCEPT !.status = "running", !.step = "result", !.out = "submitting"])
    /\ posting' = [posting EXCEPT ![c] = "committed"]
    /\ Did(c, by, k.basis.text, k.basis.record)
    /\ UNCHANGED <<batches, meta, posts, record, screen>>

\* The one external POST.
PostTemplate(c) ==
    /\ posting[c] = "committed"
    /\ posting' = [posting EXCEPT ![c] = "posted"]
    /\ posts' = [posts EXCEPT ![c] = @ + 1]
    /\ UNCHANGED <<cards, batches, meta, record, spent, screen, done>>

\* The answer, under the session lock again and on the row as it is now.
TemplateAnswer(c, outcome) ==
    LET k == cards[c]
        decided == outcome = "rejected" \/ (outcome = "submitted" /\ meta[c] \in Decided)
    IN
    /\ posting[c] = "posted"
    /\ outcome = "submitted" => meta[c] # "none"
    /\ outcome = "rejected" => meta[c] = "none"
    /\ cards' = [cards EXCEPT ![c] = [k EXCEPT !.out = outcome, !.rev = @ + 1,
                                               !.status = IF decided THEN "completed" ELSE @]]
    /\ posting' = [posting EXCEPT ![c] = "idle"]
    /\ UNCHANGED <<batches, meta, posts, record, spent, screen, done>>

\* The API process stops between the two transactions: the row stays as it was
\* committed and nobody waits for the answer any more.
Crash(c) ==
    /\ posting[c] # "idle"
    /\ posting' = [posting EXCEPT ![c] = "idle"]
    /\ UNCHANGED <<cards, batches, meta, posts, record, spent, screen, done>>

-----------------------------------------------------------------------------
(* list_views: every poll and every turn brings the cards up to date.       *)

\* Faulty: a paused card is not looked at.
OutreachSyncedInFront(k) ==
    IF HasBatch(k) /\ k.status # "paused" /\ BatchOf(k).status = "queued" /\ ~BatchOf(k).pending
    THEN [k EXCEPT !.status = "completed", !.out = "processed"]
    ELSE k

OutreachSynced(k) ==
    IF k.status \in ACTIVE /\ ~k.templates /\ ~HasBatch(k) THEN k
    ELSE IF HasBatch(k) /\ BatchOf(k).status = "queued"
    THEN LET over == ~BatchOf(k).pending IN
         [k EXCEPT !.status = IF over THEN "completed" ELSE @,
                   !.out = IF over THEN "processed" ELSE @,
                   !.bg = @ \/ (~over /\ k.status = "paused")]
    ELSE k

TemplateSynced(k, c) ==
    IF k.status \in {"running", "paused"} /\ k.out # "none" /\ meta[c] # "none"
    THEN [k EXCEPT !.out = "submitted",
                   !.status = IF meta[c] \in Decided THEN "completed" ELSE @]
    ELSE k

\* A card whose row changed gets a new revision.
Synced(c, catalog) ==
    LET k == cards[c]
        s == CASE Exists(c) /\ k.kind = "outreach" -> OutreachSynced(k)
               [] Exists(c) /\ k.kind = "create_template" /\ catalog -> TemplateSynced(k, c)
               [] OTHER -> k
    IN IF s # k THEN [s EXCEPT !.rev = @ + 1] ELSE s

\* A poll with Meta's catalog read or not (unreachable, or read less than 30 s ago).
ListViews(catalog) ==
    /\ cards' = [c \in Cards |-> Synced(c, catalog)]
    /\ cards' # cards
    /\ UNCHANGED <<batches, posting, meta, posts, record, spent, screen, done>>

\* What a poll changes without anything to see: an outreach card without its
\* template list asks for it again, a template card notes that it looked.
PollAgain(c, reachable) ==
    LET k == cards[c] IN
    /\ Exists(c) /\ k.rev < MaxRevision
    /\ \/ k.kind = "outreach" /\ k.status \in ACTIVE /\ ~k.templates /\ ~HasBatch(k)
       \/ k.kind = "create_template" /\ k.status \in {"running", "paused"} /\ k.out # "none" /\ ~reachable
    /\ cards' = [cards EXCEPT ![c].rev = @ + 1,
                              ![c].templates = IF k.kind = "outreach" THEN reachable ELSE @]
    /\ UNCHANGED <<batches, posting, meta, posts, record, spent, screen, done>>

-----------------------------------------------------------------------------
(* Around the assistant: Meta, the outbox worker, other operators.          *)

MetaReceives(c, status) ==
    /\ posts[c] > 0 /\ meta[c] = "none" /\ cards[c].out # "rejected"
    /\ meta' = [meta EXCEPT ![c] = status]
    /\ UNCHANGED <<cards, batches, posting, posts, record, spent, screen, done>>

MetaDecides(c, status) ==
    /\ meta[c] = "PENDING"
    /\ meta' = [meta EXCEPT ![c] = status]
    /\ UNCHANGED <<cards, batches, posting, posts, record, spent, screen, done>>

\* The outbox worker has settled every recipient of a queued batch (ChatOutbound).
RecipientsSettled(b) ==
    /\ batches[b].status = "queued" /\ batches[b].pending
    /\ batches' = [batches EXCEPT ![b].pending = FALSE]
    /\ UNCHANGED <<cards, posting, meta, posts, record, spent, screen, done>>

\* POST /batches/{id}/actions cancel, for the id the completed card shows.
CancelBatch(b) ==
    /\ batches[b].status = "queued"
    /\ batches' = [batches EXCEPT ![b].status = "cancelled", ![b].pending = FALSE]
    /\ UNCHANGED <<cards, posting, meta, posts, record, spent, screen, done>>

\* Another operator changes the row a review was made from.
OtherEdit ==
    /\ record < MaxRecord
    /\ record' = record + 1
    /\ UNCHANGED <<cards, batches, posting, meta, posts, spent, screen, done>>

-----------------------------------------------------------------------------
Inputs == Fields \cup {NoFields}
Approvers == {"button", "turn"}

Operator(c) ==
    \/ \E kind \in StartKinds, f \in Fields, r \in BOOLEAN : Start(c, kind, f, r)
    \/ \E d \in Cards, kind \in StartKinds \cup {"create_template"}, f \in Fields, r \in BOOLEAN :
          Launch(c, d, kind, f, r)
    \/ \E r \in BOOLEAN : Resume(c, r)
    \/ \E f \in Inputs : Pause(c, f) \/ Update(c, f) \/ ContinueForm(c, f)
    \/ \E f \in Inputs : ContinueContact(c, f) \/ ContinueMember(c, f) \/ ContinueTemplate(c, f)
    \/ \E f \in Inputs, ok \in BOOLEAN : ContinueVersion(c, f, ok) \/ ContinueOutreach(c, f, ok)
    \/ Cancel(c) \/ Back(c) \/ Look(c)
    \/ \E by \in Approvers :
          \/ CompleteContact(c, by) \/ CompleteMember(c, by) \/ CompleteVersion(c, by)
          \/ CompleteOutreach(c, by) \/ SubmitTemplate(c, by)

System(c) ==
    \/ PostTemplate(c) \/ Crash(c)
    \/ \E o \in {"submitted", "rejected", "ambiguous"} : TemplateAnswer(c, o)
    \/ \E s \in {"PENDING"} \cup Decided : MetaReceives(c, s)
    \/ \E s \in Decided : MetaDecides(c, s)
    \/ \E r \in BOOLEAN : PollAgain(c, r)

Next ==
    \/ \E c \in Cards : Operator(c) \/ System(c)
    \/ \E up \in BOOLEAN : ListViews(up)
    \/ \E b \in BatchIds : RecipientsSettled(b) \/ CancelBatch(b)
    \/ OtherEdit

\* An open chat polls every five seconds while a card waits for a delivery or a
\* decision (ops-chat.tsx); the outbox worker runs by itself.
Fairness ==
    /\ WF_vars(ListViews(TRUE))
    /\ \A b \in BatchIds : WF_vars(RecipientsSettled(b))

Spec == Init /\ [][Next]_vars /\ Fairness
-----------------------------------------------------------------------------
(* Properties. *)

CardShape == [kind : Kinds, status : TERMINAL \cup ACTIVE \cup {"paused"},
              step : {"details", "compose", "review", "result"}, rev : Nat, fields : Fields,
              templates : BOOLEAN, bg : BOOLEAN, batch : {0} \cup BatchIds,
              basis : [text : Fields, record : Nat],
              out : {"none", "done", "queued", "processed", "cancelled",
                     "submitting", "submitted", "rejected", "ambiguous"}]

\* Cards, batches and submissions keep their shapes, and only an outreach card
\* has a batch (workflow_models.py, outbound_models.py).
TypeOK ==
    /\ cards \in [Cards -> CardShape \cup {NoCard}]
    /\ batches \in [BatchIds -> [card : Cards, status : {"draft", "queued", "cancelled"},
                                 text : Texts, pending : BOOLEAN] \cup {NoBatch}]
    /\ posting \in [Cards -> {"idle", "committed", "posted"}]
    /\ meta \in [Cards -> {"none", "PENDING"} \cup Decided]
    /\ posts \in [Cards -> Nat] /\ record \in Nat /\ spent \in 0 .. MaxCommands
    /\ screen \in [Cards -> [rev : Nat, basis : [text : Fields, record : Nat], shown : BOOLEAN]]
    /\ done \in [Cards -> [by : Approvers \cup {"nobody"}, text : Fields, record : Nat]]
    /\ \A c \in Cards : Exists(c) /\ HasBatch(cards[c]) => cards[c].kind = "outreach"

\* A session has one card in the foreground: whatever opens, resumes or answers
\* late while a submission has let the session lock go, two cards never take
\* the operator's next message at once (pause_others).
OneOpenCard ==
    \A c, d \in Cards : Exists(c) /\ Exists(d) /\ cards[c].status \in ACTIVE
                        /\ cards[d].status \in ACTIVE => c = d

\* What a button press does is what the review in front of the operator showed,
\* text and compared row alike, however the card was edited in another tab, by
\* a turn, or the row by another operator since (expected_revision, the reset
\* of the step by patch, the comparison of the row before the change).
ApprovedIsDone ==
    \A c \in Cards : done[c].by = "button" =>
        done[c].text = screen[c].basis.text /\ done[c].record = screen[c].basis.record

\* A template is posted to Meta once: no retry, resumed card, second approval
\* or restart between the commit and the answer posts it again.
TemplatePostedOnce == \A c \in Cards : posts[c] <= 1

\* A batch that can still send belongs to the review its card shows: editing,
\* going back or cancelling leaves no draft or queued batch behind.
OnlyTheReviewedBatch ==
    \A b \in BatchIds : batches[b].status \in {"draft", "queued"} =>
        /\ cards[batches[b].card].batch = b
        /\ cards[batches[b].card].status # "cancelled"

\* Work left in the background comes to an end on its card, paused or not: an
\* outreach card when its recipients are settled, a template card when Meta has
\* decided, also after a lost answer or a restart.
BackgroundSettles ==
    /\ \A b \in BatchIds : batches[b].status = "queued" ~>
          (batches[b].status = "cancelled" \/ \E c \in Cards : batches[b].card = c /\ cards[c].status \in TERMINAL)
    /\ \A c \in Cards : meta[c] \in Decided ~> cards[c].status = "completed"

=============================================================================
