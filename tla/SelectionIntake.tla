--------------------------- MODULE SelectionIntake ---------------------------
(***************************************************************************)
(* One conversation's technical requests, filled in from two sides: the    *)
(* deterministic WhatsApp intake (selection/service.py over engine.py) and *)
(* the hosted form (customer_form.py with its web client), then reviewed   *)
(* by the team (review.py).                                                *)
(*                                                                         *)
(* Every writer holds the row lock of the request from its read to its     *)
(* commit, so a handler is one step; only STOP does not wait for the lock. *)
(* A chat turn that is rolled back leaves nothing and is no step.          *)
(***************************************************************************)
EXTENDS Integers, FiniteSets, FiniteSetsExt

CONSTANTS
  Last,          \* number of steps of the flow; step 1 is contact_name
  Options,       \* values each step takes
  SkipIf,        \* triples <<i, k, v>>: step i is skipped if step k says v
  Drawing,       \* the step "drawing", whose value "done" needs a file
  Form, Panel,   \* browser tabs: of the customer, of the team
  MaxRequests, MaxVersion, MaxFiles,
  MaxRevision    \* bounds, the last one on the revisions of all requests

Steps == 1 .. Last
Values == UNION {Options[i] : i \in Steps}
NoAnswer == "none"
Keep     == "keep"

ASSUME Assumptions ==
  /\ Last \in Nat \ {0}
  /\ Drawing \in Steps \ {1}
  /\ NoAnswer \notin Values /\ Keep \notin Values
  /\ \A c \in SkipIf : c[1] \in Steps /\ c[2] \in Steps /\ c[2] < c[1]
  /\ {MaxRequests, MaxRevision, MaxVersion, MaxFiles} \subseteq Nat /\ MaxVersion > 0
  /\ Form \cap Panel = {}

Requests == 1 .. MaxRequests
Screens  == Form \cup Panel

VARIABLES
  row,        \* SelectionRequest rows, in the order they were created
  published,  \* version of the published company configuration
  asked,      \* prompts in the chat whose buttons are still accepted
  view,       \* what each screen shows of a request
  pending,    \* operation a form has sent and has no answer for
  receipt     \* stored response to that operation

vars == <<row, published, asked, view, pending, receipt>>

-----------------------------------------------------------------------------
Answers  == [Steps -> Values \cup {NoAnswer}]
Closed   == {"waiting_review", "in_review", "completed", "cancelled", "superseded"}
Statuses == {"absent", "draft"} \cup Closed

NoSnapshot == [taken |-> FALSE, answers |-> [i \in Steps |-> NoAnswer], files |-> 0]
NoRow == [status |-> "absent", answers |-> [i \in Steps |-> NoAnswer], step |-> 1,
          revision |-> 0, files |-> 0, version |-> 0, snapshot |-> NoSnapshot]

ViewOf(r) == [of |-> r, revision |-> row[r].revision, status |-> row[r].status,
              answers |-> row[r].answers]
NoView == [of |-> 0, revision |-> 0, status |-> "absent", answers |-> NoRow.answers]
NoOp   == [action |-> "none", of |-> 0, revision |-> 0, fields |-> [i \in Steps |-> Keep]]

(* engine.py: a step is visible unless an earlier answer skips it.         *)
Visible(a, i) == \A k \in Steps : <<i, k, a[k]>> \notin SkipIf

Advance(a, from) ==
  LET open == {i \in from .. Last : Visible(a, i) /\ a[i] = NoAnswer}
  IN  IF open = {} THEN Last + 1 ELSE Min(open)

Forget(a, i) == [k \in Steps |-> IF k > i THEN NoAnswer ELSE a[k]]

Drafts == {r \in Requests : row[r].status = "draft"}
NextRequest == Cardinality({r \in Requests : row[r].status # "absent"}) + 1
Room(r) == MapThenSumSet(LAMBDA q : row[q].revision, Requests) < MaxRevision

(* The prompt of a row, and the prompts whose buttons a row still accepts: *)
(* a button carries the request's id and revision.                         *)
Prompt(r, rows) == [of |-> r, revision |-> rows[r].revision,
                    step |-> rows[r].step, answers |-> rows[r].answers]
Accepted(prompts, rows) ==
  {p \in prompts : rows[p.of].status = "draft" /\ rows[p.of].revision = p.revision}

Put(rows, shown) ==
  /\ row' = rows
  /\ asked' = Accepted(asked \cup shown, rows)

-----------------------------------------------------------------------------
(* WhatsApp.  A draft of another version of the flow is superseded by the  *)
(* next turn, whatever it says.                                            *)
Current(r) == row[r].status = "draft" /\ row[r].version = published

(* Chat writes the new contents of draft r and asks its next question.  A  *)
(* drawing that is said to be done without a file takes the turn back.     *)
(* Faulty: it does not.                                                    *)
Write(r, new) ==
  LET rows == [row EXCEPT ![r] = new]
  IN  /\ Current(r)
      /\ Put(rows, {Prompt(r, rows)})
      /\ UNCHANGED <<published, view, pending, receipt>>

Say(r, new) ==
  Write(r, IF new.files = 0 /\ new.answers[Drawing] = "done" THEN row[r] ELSE new)

Bump(r) == row[r].revision + 1

(* A new draft, with the name known from the request before it.            *)
Start ==
  LET old   == {r \in Drafts : row[r].version # published}
      r     == NextRequest
      known == IF r = 1 THEN NoAnswer ELSE row[r - 1].answers[1]
      a     == [NoRow.answers EXCEPT ![1] = known]
      draft == [NoRow EXCEPT !.status = "draft", !.version = published,
                             !.answers = a, !.step = Advance(a, 1)]
      rows  == [q \in Requests |->
                  CASE q = r      -> draft
                    [] q \in old  -> [row[q] EXCEPT !.status = "superseded"]
                    [] OTHER      -> row[q]]
  IN  /\ Drafts \subseteq old
      /\ r \in Requests
      /\ Put(rows, {Prompt(r, rows)})
      /\ UNCHANGED <<published, view, pending, receipt>>

(* "devam", an old button, an unclear value, a question beside the point,  *)
(* the choice of chat or form: the draft stays as it is.                   *)
Reprompt(r) == Say(r, row[r])

(* An answer typed or pressed; one that differs takes the later ones away. *)
Answered(a, i, v) ==
  IF a[i] \notin {NoAnswer, v} THEN [Forget(a, i) EXCEPT ![i] = v]
                               ELSE [a EXCEPT ![i] = v]

Answer(r, v) ==
  LET i == row[r].step
      a == Answered(row[r].answers, i, v)
  IN  /\ i \in Steps
      /\ v \in Options[i]
      /\ Room(r)
      /\ Say(r, [row[r] EXCEPT !.answers = a, !.step = Advance(a, i + 1),
                               !.revision = Bump(r)])

(* "geri".  Faulty: the buttons of the question left behind stay valid.    *)
Previous(r) == {i \in 1 .. row[r].step - 1 : Visible(row[r].answers, i)}
BackSameRevision(r) ==
  /\ Previous(r) # {}
  /\ Say(r, [row[r] EXCEPT !.step = Max(Previous(r))])
Back(r) ==
  /\ Previous(r) # {}
  /\ Room(r)
  /\ Say(r, [row[r] EXCEPT !.step = Max(Previous(r)), !.revision = Bump(r)])

(* A button of the edit menu.                                              *)
Edit(r, i) ==
  /\ row[r].answers[i] # NoAnswer
  /\ Room(r)
  /\ Say(r, [row[r] EXCEPT !.step = i, !.revision = Bump(r)])

(* "iptal"; the answer shows no buttons.                                   *)
Cancel(r) ==
  /\ Current(r) /\ Room(r)
  /\ Put([row EXCEPT ![r].status = "cancelled", ![r].revision = Bump(r)], {})
  /\ UNCHANGED <<published, view, pending, receipt>>

Confirmed(r, a) ==
  [row[r] EXCEPT !.status = "waiting_review", !.revision = Bump(r), !.answers = a,
                 !.step = Last + 1,
                 !.snapshot = [taken |-> TRUE, answers |-> a, files |-> row[r].files]]

ConfirmNow(r) ==
  /\ Current(r) /\ Room(r)
  /\ Put([row EXCEPT ![r] = Confirmed(r, row[r].answers)], {})
  /\ UNCHANGED <<published, view, pending, receipt>>

Confirm(r) == row[r].step > Last /\ ConfirmNow(r)

(* A picture or document, which does not move the draft on.                *)
Media(r) ==
  /\ row[r].files < MaxFiles
  /\ Say(r, [row[r] EXCEPT !.files = @ + 1])

(* STOP cancels the draft unless a transaction holds its row.              *)
Stop(r) ==
  /\ r \in Drafts /\ Room(r)
  /\ Put([row EXCEPT ![r].status = "cancelled", ![r].revision = Bump(r)], {})
  /\ UNCHANGED <<published, view, pending, receipt>>

(* A new version of the company configuration goes live.                   *)
Publish ==
  /\ published < MaxVersion
  /\ published' = published + 1
  /\ UNCHANGED <<row, asked, view, pending, receipt>>

-----------------------------------------------------------------------------
(* The form.  A tab opens or refreshes its request when nothing is pending *)
(* and sends one operation at a time, made from what it shows.             *)
Load(s, r) ==
  /\ row[r].status # "absent"
  /\ view[s].of \in {0, r}
  /\ s \in Form => pending[s] = NoOp
  /\ s \in Panel => row[r].status \in Closed
  /\ view' = [view EXCEPT ![s] = ViewOf(r)]
  /\ UNCHANGED <<row, published, asked, pending, receipt>>

Submit(f, action, fields) ==
  /\ pending[f] = NoOp
  /\ view[f].of # 0 /\ view[f].status = "draft"
  /\ pending' = [pending EXCEPT ![f] = [action |-> action, of |-> view[f].of,
                                        revision |-> view[f].revision, fields |-> fields]]
  /\ receipt' = [receipt EXCEPT ![f] = NoView]
  /\ UNCHANGED <<row, published, asked, view>>

(* update_form's loop: hidden answers go, a changed one takes the later    *)
(* ones with it, and those that were sent are put in again.                *)
Merged(a, fields) ==
  LET pass[i \in 0 .. Last] ==
        IF i = 0 THEN a
        ELSE LET b == pass[i - 1]
             IN  IF ~Visible(b, i) THEN [b EXCEPT ![i] = NoAnswer]
                 ELSE IF fields[i] \in {Keep, b[i]} THEN b
                 ELSE [Forget(b, i) EXCEPT ![i] = fields[i]]
  IN  pass[Last]

(* The row after an operation that passes every check of the form.         *)
Edited(op) ==
  LET r == op.of
      a == Merged(row[r].answers, op.fields)
  IN  CASE op.action = "upload"  -> [row[r] EXCEPT !.files = @ + 1, !.revision = Bump(r)]
        [] op.action = "save"    -> [row[r] EXCEPT !.answers = a, !.step = Advance(a, 1),
                                                   !.revision = Bump(r)]
        [] op.action = "confirm" -> Confirmed(r, a)

(* Faulty on its own: a confirmation with open questions passes.           *)
FileThere(op) ==
  LET r == op.of
  IN  IF op.action = "upload" THEN row[r].files < MaxFiles
      ELSE Merged(row[r].answers, op.fields)[Drawing] = "done" => row[r].files > 0

Valid(op) ==
  /\ FileThere(op)
  /\ op.action = "confirm" => Advance(Merged(row[op.of].answers, op.fields), 1) > Last

(* The operation is carried out, and its response may be lost, in which    *)
(* case the tab sends it again.  Faulty on its own: any revision will do.  *)
CarryOutAnyway(f) ==
  LET op == pending[f]
  IN  /\ op # NoOp /\ receipt[f] = NoView
      /\ row[op.of].status = "draft" /\ Room(op.of)
      /\ Valid(op)
      /\ LET rows == [row EXCEPT ![op.of] = Edited(op)]
             seen == [of |-> op.of, revision |-> rows[op.of].revision,
                      status |-> rows[op.of].status, answers |-> rows[op.of].answers]
         IN  /\ Put(rows, {})
             /\ receipt' = [receipt EXCEPT ![f] = seen]
             /\ \/ UNCHANGED <<view, pending>>
                \/ view' = [view EXCEPT ![f] = seen] /\ pending' = [pending EXCEPT ![f] = NoOp]
      /\ UNCHANGED published

CarryOut(f) ==
  /\ pending[f] # NoOp
  /\ row[pending[f].of].revision = pending[f].revision
  /\ CarryOutAnyway(f)

(* A retry finds the receipt.                                              *)
Replay(f) ==
  /\ pending[f] # NoOp /\ receipt[f] # NoView
  /\ view' = [view EXCEPT ![f] = receipt[f]]
  /\ pending' = [pending EXCEPT ![f] = NoOp]
  /\ UNCHANGED <<row, published, asked, receipt>>

(* A conflict, which shows the tab the present state.  Faulty: a retry is  *)
(* compared with the revision before its receipt is looked for.            *)
ConflictFirst(f) ==
  LET op == pending[f]
  IN  /\ op # NoOp
      /\ row[op.of].revision # op.revision
      /\ view' = [view EXCEPT ![f] = ViewOf(op.of)]
      /\ pending' = [pending EXCEPT ![f] = NoOp]
      /\ UNCHANGED <<row, published, asked, receipt>>
Conflict(f) == receipt[f] = NoView /\ ConflictFirst(f)

(* Any other refusal leaves the tab as it is.                              *)
Refuse(f) ==
  LET op == pending[f]
  IN  /\ op # NoOp /\ receipt[f] = NoView
      /\ row[op.of].revision = op.revision
      /\ row[op.of].status # "draft" \/ ~Valid(op)
      /\ pending' = [pending EXCEPT ![f] = NoOp]
      /\ UNCHANGED <<row, published, asked, view, receipt>>

-----------------------------------------------------------------------------
(* apply_review, from the panel or the operator assistant: a new status,   *)
(* or an assignment or note that leaves it.  Another status for a request  *)
(* that was superseded is an error of the server.                          *)
Allowed(s) == CASE s = "waiting_review" -> {s, "in_review", "cancelled"}
                [] s = "in_review"      -> {s, "waiting_review", "completed", "cancelled"}
                [] OTHER                -> {s}

(* Faulty on its own: the request has moved on since the panel read it.    *)
ReviewAnyway(p, to) ==
  LET r == view[p].of
  IN  /\ r # 0 /\ Room(r)
      /\ row[r].status \in Closed
      /\ to \in Allowed(row[r].status)
      /\ Put([row EXCEPT ![r].status = to, ![r].revision = Bump(r)], {})
      /\ view' = [view EXCEPT ![p] = [@ EXCEPT !.status = to, !.revision = Bump(r)]]
      /\ UNCHANGED <<published, pending, receipt>>

Review(p, to) ==
  /\ view[p].of # 0
  /\ row[view[p].of].revision = view[p].revision
  /\ ReviewAnyway(p, to)

-----------------------------------------------------------------------------
Init ==
  /\ row = [r \in Requests |-> NoRow]
  /\ published = 1
  /\ asked = {}
  /\ view = [s \in Screens |-> NoView]
  /\ pending = [f \in Form |-> NoOp]
  /\ receipt = [f \in Form |-> NoView]

(* The tab sends every field, blank ones included, to save, and no field   *)
(* to upload or confirm.                                                   *)
Fields == {g \in Answers : \A i \in Steps : g[i] \in Options[i] \cup {NoAnswer}}

Chat(r) ==
  \/ Reprompt(r)
  \/ \E v \in Values : Answer(r, v)
  \/ Back(r)
  \/ \E i \in Steps : Edit(r, i)
  \/ Cancel(r)
  \/ Confirm(r)
  \/ Media(r)

Hosted(f) ==
  \/ \E g \in Fields : Submit(f, "save", g)
  \/ \E action \in {"upload", "confirm"} : Submit(f, action, NoOp.fields)
  \/ CarryOut(f)
  \/ Replay(f)
  \/ Conflict(f)
  \/ Refuse(f)

Next ==
  \/ Start
  \/ \E r \in Requests : Chat(r) \/ Stop(r)
  \/ Publish
  \/ \E s \in Screens, r \in Requests : Load(s, r)
  \/ \E f \in Form : Hosted(f)
  \/ \E p \in Panel, to \in Closed : Review(p, to)

Spec == Init /\ [][Next]_vars

-----------------------------------------------------------------------------
TypeOK ==
  /\ row \in [Requests -> [status : Statuses, answers : Answers, step : 1 .. Last + 1,
                           revision : Nat, files : 0 .. MaxFiles,
                           version : 0 .. MaxVersion,
                           snapshot : [taken : BOOLEAN, answers : Answers, files : 0 .. MaxFiles]]]
  /\ published \in 1 .. MaxVersion
  /\ \A p \in asked : p.of \in Requests /\ p.step \in 1 .. Last + 1
  /\ \A s \in Screens : view[s].of \in Requests \cup {0} /\ view[s].answers \in Answers
  /\ \A f \in Form : pending[f].action \in {"none", "save", "upload", "confirm"}
  /\ \A f \in Form : receipt[f].of \in Requests \cup {0}

(* A button in the chat answers the question it was shown with: whatever   *)
(* the form, "geri" or an edit did in the meantime, a prompt whose buttons *)
(* are accepted asks the present step of the present answers.              *)
ButtonsMeanWhatTheyShow ==
  \A p \in asked : p.step = row[p.of].step /\ p.answers = row[p.of].answers

(* A drawing is only said to be done when a file is attached, on both      *)
(* sides and at every step.                                                *)
FileBeforeDone ==
  \A r \in Requests : row[r].answers[Drawing] = "done" => row[r].files > 0

(* What the chat asks and is told is what the request holds.               *)
ChatIsTrue == TypeOK /\ ButtonsMeanWhatTheyShow /\ FileBeforeDone

(* A save, a confirmation or a review changes the request its tab shows:   *)
(* what the chat, another tab or the team did since is never overwritten,  *)
(* and nothing is confirmed unseen.                                        *)
Wrote(s) == row' # row /\ IF s \in Form THEN receipt'[s] # receipt[s] ELSE view'[s] # view[s]
NoLostEdit ==
  [][\A s \in Screens : Wrote(s) =>
        LET r == row[view[s].of]
        IN  r.answers = view[s].answers /\ r.status = view[s].status]_vars

(* What is confirmed on the form answers the questions that apply, all of  *)
(* them and no others, whatever gaps and leftovers the chat has made.      *)
ConfirmedOnForm ==
  [][\A f \in Form : Wrote(f) /\ pending[f].action = "confirm" =>
        LET c == row'[pending[f].of].snapshot
        IN  c.taken /\ \A i \in Steps : Visible(c.answers, i) <=> c.answers[i] # NoAnswer]_vars

(* "Confirmed requests cannot be edited": snapshot and answers stay as the *)
(* customer confirmed them.                                                *)
ConfirmedIsFrozen ==
  [][\A r \in Requests : row[r].snapshot.taken =>
        row'[r].snapshot = row[r].snapshot /\ row'[r].answers = row[r].answers]_vars

(* "Retries return the original receipt": a tab that retries what was      *)
(* carried out is shown that, even if the chat has moved the draft on.     *)
RetriesGetReceipt ==
  [][\A f \in Form : pending[f] # NoOp /\ receipt[f] # NoView /\ pending'[f] = NoOp
        => view'[f] = receipt[f]]_vars

(* No side undoes another, not even by a retry.                            *)
SidesAgree == NoLostEdit /\ RetriesGetReceipt

(* A confirmation is of everything that applies, and final.                *)
ConfirmationStands == ConfirmedOnForm /\ ConfirmedIsFrozen

(* "Onaylamadan once bu alani tamamlayalim" (let us complete this field    *)
(* before you confirm, engine.py:235): nothing is confirmed with a         *)
(* question that applies left open.                                        *)
ConfirmedIsComplete ==
  \A r \in Requests : LET c == row[r].snapshot IN
     c.taken => \A i \in Steps : Visible(c.answers, i) => c.answers[i] # NoAnswer
=============================================================================
