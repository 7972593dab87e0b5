------------------------ MODULE SelectionIntakeProofs ------------------------
(***************************************************************************)
(* The chat, the hosted form and the team's panel work on one request      *)
(* without undoing each other, for any flow, any number of tabs, requests  *)
(* and versions, and any bound on revisions and files.                     *)
(*   NothingOverwritten   SidesAgree                                       *)
(*   ButtonsHold          ButtonsMeanWhatTheyShow                          *)
(*   FilesFirst           FileBeforeDone                                   *)
(*   FrozenOnceConfirmed  ConfirmedIsFrozen                                *)
(*   ChatHolds            ChatIsTrue                                       *)
(*   ConfirmationHolds    ConfirmationStands                               *)
(***************************************************************************)
EXTENDS SelectionIntake, FiniteSetTheorems, WellFoundedInduction, TLAPS

RowFields  == {"status", "answers", "step", "revision", "files", "version", "snapshot"}
ViewFields == {"of", "revision", "status", "answers"}

(* A row; what a confirmation took a snapshot of is no draft any more.     *)
RowOk(x) ==
  /\ RowFields \subseteq DOMAIN x
  /\ x.status \in Statuses /\ x.revision \in Nat /\ x.files \in Nat
  /\ x.answers[Drawing] = "done" => x.files > 0
  /\ x.snapshot.taken => x.status \in Closed

(* A view is of its request or of an earlier revision of it.  A draft of   *)
(* another version is superseded without a new revision.                   *)
Shows(v, rows) ==
  /\ ViewFields \subseteq DOMAIN v
  /\ v.of # 0 =>
       /\ v.of \in Requests /\ rows[v.of].status # "absent"
       /\ v.revision \in Nat /\ v.revision <= rows[v.of].revision
       /\ v.revision = rows[v.of].revision =>
            /\ v.answers = rows[v.of].answers
            /\ \/ v.status = rows[v.of].status
               \/ v.status = "draft" /\ rows[v.of].status = "superseded"

(* What was sent was made from what the tab still shows.                   *)
Sent(op, v) ==
  op # NoOp => /\ op.action \in {"save", "upload", "confirm"}
               /\ v.of # 0 /\ op.of = v.of /\ op.revision = v.revision /\ v.status = "draft"

Asks(p, rows) ==
  /\ p.of \in Requests /\ rows[p.of].status = "draft" /\ p.revision = rows[p.of].revision
  /\ p.step = rows[p.of].step /\ p.answers = rows[p.of].answers

(* The requests exist in the order of their numbers.                       *)
InOrder(rows) == \E n \in Nat : {r \in Requests : rows[r].status # "absent"} = 1 .. n

RowsInv ==
  /\ row = [r \in Requests |-> row[r]] /\ \A r \in Requests : RowOk(row[r])
  /\ InOrder(row)
  /\ \A p \in asked : Asks(p, row)

ScreensInv ==
  /\ view = [s \in Screens |-> view[s]] /\ \A s \in Screens : Shows(view[s], row)
  /\ pending = [f \in Form |-> pending[f]] /\ \A f \in Form : Sent(pending[f], view[f])
  /\ receipt = [f \in Form |-> receipt[f]] /\ \A f \in Form : Shows(receipt[f], row)
  /\ \A p \in Panel : view[p].status # "draft"

IntakeInv == RowsInv /\ ScreensInv

(* What any writer may do to a row: what it holds changes with its         *)
(* revision, and not at all what was closed.                               *)
Moves(old, new) ==
  /\ RowOk(new)
  /\ \/ old.status = "absent"
     \/ new.status # "absent" /\ new.revision > old.revision
     \/ /\ new.revision = old.revision /\ new.answers = old.answers /\ new.step = old.step
        /\ new.status = old.status \/ (old.status = "draft" /\ new.status = "superseded")
  /\ old.status \in Closed => new.snapshot = old.snapshot /\ new.answers = old.answers
-----------------------------------------------------------------------------
(***************************************************************************)
(* Rows, and what is known of them.                                        *)
(***************************************************************************)
LEMMA ShowsOn ==
  ASSUME NEW v, NEW rows, NEW next, \A r \in Requests : RowOk(rows[r]) /\ Moves(rows[r], next[r]), Shows(v, rows)
  PROVE  Shows(v, next)
<1>1. CASE v.of = 0
  BY <1>1 DEF Shows
<1>2. CASE v.of # 0
  <2>1. /\ v.of \in Requests /\ rows[v.of].status # "absent" /\ v.revision \in Nat
        /\ rows[v.of].revision \in Nat /\ next[v.of].revision \in Nat /\ Moves(rows[v.of], next[v.of])
    BY <1>2 DEF Shows, RowOk, Moves
  <2> QED BY <1>2, <2>1 DEF Shows, Moves
<1> QED BY <1>1, <1>2

LEMMA Still == ASSUME NEW x, RowOk(x) PROVE Moves(x, x)
BY DEF Moves

(* One row is written, and the chat shows its prompt or nothing.           *)
LEMMA OneRow ==
  ASSUME RowsInv, NEW r \in Requests, NEW x, Moves(row[r], x), row[r].status # "absent",
         NEW shown \in {{}, {Prompt(r, row')}},
         row' = [row EXCEPT ![r] = x], asked' = Accepted(asked \cup shown, row')
  PROVE  RowsInv' /\ \A q \in Requests : Moves(row[q], row'[q])
<1>1. row'[r] = x /\ (\A q \in Requests \ {r} : row'[q] = row[q]) /\ row' = [q \in Requests |-> row'[q]]
  BY DEF RowsInv
<1>2. \A q \in Requests : RowOk(row[q]) /\ Moves(row[q], row'[q])
  BY <1>1, Still DEF RowsInv
<1>3. \A q \in Requests : RowOk(row'[q])
  BY <1>2 DEF Moves
<1>4. InOrder(row')
  <2>1. \A q \in Requests : row'[q].status # "absent" <=> row[q].status # "absent"
    <3>1. x.status # "absent"
      BY DEF Moves
    <3> QED BY <1>1, <3>1
  <2>2. {q \in Requests : row'[q].status # "absent"} = {q \in Requests : row[q].status # "absent"}
    BY <2>1
  <2> QED BY <2>2 DEF RowsInv, InOrder
<1>5. ASSUME NEW p \in asked' PROVE Asks(p, row')
  <2>1. p \in asked \cup shown /\ row'[p.of].status = "draft" /\ row'[p.of].revision = p.revision
    BY DEF Accepted
  <2>2. CASE p \in asked
    <3>1. Asks(p, row)
      BY <2>2 DEF RowsInv
    <3>2. p.of \in Requests /\ row[p.of].revision \in Nat /\ Moves(row[p.of], row'[p.of])
      BY <1>2, <3>1 DEF Asks, RowOk
    <3> QED BY <2>1, <3>1, <3>2 DEF Asks, Moves
  <2>3. CASE p = Prompt(r, row')
    <3>1. /\ p.of = r /\ p.revision = row'[r].revision /\ p.step = row'[r].step
          /\ p.answers = row'[r].answers
      BY <2>3 DEF Prompt
    <3> QED BY <2>1, <3>1 DEF Asks
  <2> QED BY <2>1, <2>2, <2>3
<1> QED BY <1>1, <1>2, <1>3, <1>4, <1>5 DEF RowsInv

(* Screens that nobody touches.                                            *)
LEMMA ScreensStay ==
  ASSUME IntakeInv, \A q \in Requests : Moves(row[q], row'[q]), UNCHANGED <<view, pending, receipt>>
  PROVE  ScreensInv'
<1>1. \A q \in Requests : RowOk(row[q]) /\ Moves(row[q], row'[q])
  BY DEF IntakeInv, RowsInv
<1>2. \A s \in Screens : Shows(view'[s], row')
  BY <1>1, ShowsOn DEF IntakeInv, ScreensInv
<1>3. \A f \in Form : Shows(receipt'[f], row')
  BY <1>1, ShowsOn DEF IntakeInv, ScreensInv
<1> QED BY <1>2, <1>3 DEF IntakeInv, ScreensInv
-----------------------------------------------------------------------------
(***************************************************************************)
(* The chat.                                                               *)
(***************************************************************************)
LEMMA ChatWrites ==
  ASSUME IntakeInv, NEW r \in Requests, NEW x, Moves(row[r], x), row[r].status # "absent",
         NEW shown \in {{}, {Prompt(r, [row EXCEPT ![r] = x])}},
         Put([row EXCEPT ![r] = x], shown), UNCHANGED <<view, pending, receipt>>
  PROVE  IntakeInv' /\ \A q \in Requests : Moves(row[q], row'[q])
<1>1. /\ row' = [row EXCEPT ![r] = x] /\ shown \in {{}, {Prompt(r, row')}}
      /\ asked' = Accepted(asked \cup shown, row')
  BY DEF Put
<1>2. RowsInv' /\ \A q \in Requests : Moves(row[q], row'[q])
  BY <1>1, OneRow DEF IntakeInv
<1> QED BY <1>2, ScreensStay DEF IntakeInv

(* A row of a draft that the chat fills in: another revision, or the same  *)
(* answers at the same step.                                               *)
Fills(x, old) ==
  /\ RowFields \subseteq DOMAIN x /\ x.status = "draft" /\ x.revision \in Nat /\ x.files \in Nat
  /\ x.snapshot = old.snapshot
  /\ \/ x.revision > old.revision
     \/ x.revision = old.revision /\ x.answers = old.answers /\ x.step = old.step

LEMMA SayKeeps ==
  ASSUME IntakeInv, NEW r \in Requests, NEW x, Fills(x, row[r]), Say(r, x)
  PROVE  IntakeInv' /\ \A q \in Requests : Moves(row[q], row'[q])
<1> DEFINE new == IF x.files = 0 /\ x.answers[Drawing] = "done" THEN row[r] ELSE x
<1>1. /\ row[r].status = "draft" /\ Put([row EXCEPT ![r] = new], {Prompt(r, [row EXCEPT ![r] = new])})
      /\ UNCHANGED <<view, pending, receipt>>
  BY DEF Say, Write, Current
<1>2. RowOk(row[r])
  BY DEF IntakeInv, RowsInv
<1>3. Moves(row[r], new)
  <2>1. CASE new = row[r]
    BY <1>2, <2>1, Still
  <2>2. CASE new = x /\ (x.answers[Drawing] = "done" => x.files > 0)
    <3>1. RowOk(x)
      BY <1>1, <1>2, <2>2 DEF Fills, RowOk, Statuses, Closed
    <3> QED BY <1>1, <2>2, <3>1 DEF Fills, Moves, Closed
  <2>3. x.files # 0 => x.files > 0
    BY DEF Fills
  <2> QED BY <2>1, <2>2, <2>3
<1> HIDE DEF new
<1> QED BY <1>1, <1>3, ChatWrites

LEMMA ChatKeeps ==
  ASSUME IntakeInv, NEW r \in Requests, Chat(r) \/ Stop(r)
  PROVE  IntakeInv' /\ \A q \in Requests : Moves(row[q], row'[q])
<1> DEFINE k == row[r]
<1>0. RowOk(k) /\ k.revision \in Nat /\ k.files \in Nat /\ RowFields \subseteq DOMAIN k
      /\ Bump(r) = k.revision + 1
  BY DEF IntakeInv, RowsInv, RowOk, Bump
<1>1. CASE Reprompt(r)
  <2>1. k.status = "draft"
    BY <1>1 DEF Reprompt, Say, Write, Current
  <2> QED BY <1>0, <1>1, <2>1, SayKeeps DEF Reprompt, Fills
<1>2. ASSUME NEW v \in Values, Answer(r, v)
      PROVE  IntakeInv' /\ \A q \in Requests : Moves(row[q], row'[q])
  <2> DEFINE a == Answered(k.answers, k.step, v)
             step == Advance(a, k.step + 1)
             x == [k EXCEPT !.answers = a, !.step = step, !.revision = k.revision + 1]
  <2>1. Say(r, x)
    BY <1>0, <1>2 DEF Answer
  <2>2. k.status = "draft"
    BY <2>1 DEF Say, Write, Current
  <2> HIDE DEF a, step, k
  <2>3. Fills(x, k)
    BY <1>0, <2>2 DEF Fills, RowFields
  <2> HIDE DEF x
  <2> QED BY <2>1, <2>3, SayKeeps DEF k
<1>3. CASE Back(r)
  <2> DEFINE step == Max(Previous(r))
             x == [k EXCEPT !.step = step, !.revision = k.revision + 1]
  <2>1. Say(r, x)
    BY <1>0, <1>3 DEF Back
  <2>2. k.status = "draft"
    BY <2>1 DEF Say, Write, Current
  <2> HIDE DEF step, k
  <2>3. Fills(x, k)
    BY <1>0, <2>2 DEF Fills, RowFields
  <2> HIDE DEF x
  <2> QED BY <2>1, <2>3, SayKeeps DEF k
<1>4. ASSUME NEW i \in Steps, Edit(r, i)
      PROVE  IntakeInv' /\ \A q \in Requests : Moves(row[q], row'[q])
  <2> DEFINE x == [k EXCEPT !.step = i, !.revision = k.revision + 1]
  <2>1. Say(r, x)
    BY <1>0, <1>4 DEF Edit
  <2>2. k.status = "draft"
    BY <2>1 DEF Say, Write, Current
  <2> HIDE DEF k
  <2>3. Fills(x, k)
    BY <1>0, <2>2 DEF Fills, RowFields
  <2> HIDE DEF x
  <2> QED BY <2>1, <2>3, SayKeeps DEF k
<1>5. CASE Media(r)
  <2> DEFINE x == [k EXCEPT !.files = k.files + 1]
  <2>1. Say(r, x)
    BY <1>0, <1>5 DEF Media
  <2>2. k.status = "draft"
    BY <2>1 DEF Say, Write, Current
  <2> HIDE DEF k
  <2>3. Fills(x, k)
    BY <1>0, <2>2 DEF Fills, RowFields
  <2> HIDE DEF x
  <2> QED BY <2>1, <2>3, SayKeeps DEF k
<1>6. CASE Cancel(r) \/ Stop(r)
  <2> DEFINE x == [k EXCEPT !.status = "cancelled", !.revision = k.revision + 1]
  <2>1. /\ k.status = "draft" /\ row = [q \in Requests |-> row[q]]
        /\ UNCHANGED <<view, pending, receipt>>
    BY <1>6 DEF Cancel, Stop, Current, Drafts, IntakeInv, RowsInv
  <2>2. Put([row EXCEPT ![r] = x], {})
    <3>1. [row EXCEPT ![r].status = "cancelled", ![r].revision = Bump(r)] = [row EXCEPT ![r] = x]
      BY <1>0, <2>1
    <3> QED BY <1>6, <3>1 DEF Cancel, Stop
  <2> HIDE DEF k
  <2>3. Moves(k, x)
    BY <1>0, <2>1 DEF Moves, RowOk, RowFields, Statuses, Closed
  <2> HIDE DEF x
  <2>4. k.status # "absent"
    BY <2>1
  <2> QED BY <2>1, <2>2, <2>3, <2>4, ChatWrites DEF k
<1>7. CASE Confirm(r)
  <2> DEFINE x == Confirmed(r, k.answers)
  <2>1. /\ k.status = "draft" /\ Put([row EXCEPT ![r] = x], {})
        /\ UNCHANGED <<view, pending, receipt>>
    BY <1>7 DEF Confirm, ConfirmNow, Current
  <2>2. Moves(k, x)
    BY <1>0, <2>1 DEF Confirmed, Moves, RowOk, RowFields, Statuses, Closed
  <2> HIDE DEF x
  <2>3. k.status # "absent"
    BY <2>1
  <2> QED BY <2>1, <2>2, <2>3, ChatWrites
<1> QED BY <1>1, <1>2, <1>3, <1>4, <1>5, <1>6, <1>7 DEF Chat

(* A new request takes the first number that is free.                      *)
LEMMA NextIsFree ==
  ASSUME InOrder(row), NextRequest \in Requests
  PROVE  /\ row[NextRequest].status = "absent"
         /\ NextRequest \in Nat
         /\ {r \in Requests : row[r].status # "absent"} = 1 .. NextRequest - 1
<1>1. PICK n \in Nat : {r \in Requests : row[r].status # "absent"} = 1 .. n
  BY DEF InOrder
<1>2. Cardinality(1 .. n) = n
  BY <1>1, FS_Interval
<1>3. NextRequest = n + 1
  BY <1>1, <1>2 DEF NextRequest
<1>4. NextRequest \notin {r \in Requests : row[r].status # "absent"}
  BY <1>1, <1>3
<1> QED BY <1>1, <1>3, <1>4

LEMMA StartKeeps ==
  ASSUME IntakeInv, Start
  PROVE  IntakeInv' /\ \A q \in Requests : Moves(row[q], row'[q])
<1> DEFINE old == {q \in Drafts : row[q].version # published}
           r == NextRequest
           known == IF r = 1 THEN NoAnswer ELSE row[r - 1].answers[1]
           a == [NoRow.answers EXCEPT ![1] = known]
           draft == [NoRow EXCEPT !.status = "draft", !.version = published,
                                  !.answers = a, !.step = Advance(a, 1)]
           rows == [q \in Requests |->
                      CASE q = r     -> draft
                        [] q \in old -> [row[q] EXCEPT !.status = "superseded"]
                        [] OTHER     -> row[q]]
<1>1. r \in Requests /\ Put(rows, {Prompt(r, rows)}) /\ UNCHANGED <<view, pending, receipt>>
  BY DEF Start
<1>2. row[r].status = "absent" /\ r \in Nat /\ {q \in Requests : row[q].status # "absent"} = 1 .. r - 1
  BY <1>1, NextIsFree DEF IntakeInv, RowsInv
<1>3. row' = rows /\ asked' = Accepted(asked \cup {Prompt(r, rows)}, rows)
  BY <1>1 DEF Put
<1>4. \A q \in Requests : RowOk(row[q])
  BY DEF IntakeInv, RowsInv
<1>5. RowOk(draft) /\ draft.status = "draft"
  <2>1. Drawing \in Steps /\ Drawing # 1 /\ a[Drawing] = NoAnswer
    BY Assumptions DEF NoRow
  <2> HIDE DEF a
  <2>2. RowFields \subseteq DOMAIN draft /\ draft.status = "draft" /\ draft.revision = 0 /\ draft.files = 0
        /\ draft.answers = a /\ draft.snapshot.taken = FALSE
    BY DEF NoRow, NoSnapshot, RowFields
  <2> HIDE DEF draft
  <2> QED BY <2>1, <2>2 DEF RowOk, Statuses, NoAnswer
<1>r. row'[r] = draft
  <2>1. r \notin old
    BY <1>2 DEF Drafts
  <2> HIDE DEF r, draft, old
  <2> QED BY <1>1, <1>3, <2>1
<1>6. ASSUME NEW q \in Requests PROVE Moves(row[q], row'[q])
  <2>1. CASE q = r
    <3>1. row'[q] = draft /\ row[q].status = "absent"
      BY <1>2, <1>r, <2>1
    <3> HIDE DEF draft
    <3> QED BY <1>5, <3>1 DEF Moves, Closed
  <2>2. CASE q # r /\ q \in old
    <3>1. row'[q] = [row[q] EXCEPT !.status = "superseded"] /\ row[q].status = "draft"
      BY <1>3, <2>2 DEF Drafts
    <3> QED BY <1>4, <3>1 DEF Moves, RowOk, RowFields, Statuses, Closed
  <2>3. CASE q # r /\ q \notin old
    <3>1. row'[q] = row[q]
      BY <1>3, <2>3
    <3> QED BY <1>4, <3>1, Still
  <2> QED BY <2>1, <2>2, <2>3
<1>7. row'[r] = draft /\ (\A q \in Requests \ {r} : row'[q].status # "absent" <=> row[q].status # "absent")
  <2>1. row'[r] = draft
    BY <1>r
  <2>2. \A q \in Requests \ {r} : row'[q] = row[q] \/ (q \in old /\ row'[q] = [row[q] EXCEPT !.status = "superseded"])
    BY <1>3
  <2>3. \A q \in old : row[q].status = "draft" /\ "status" \in DOMAIN row[q]
    BY <1>4 DEF RowOk, RowFields, Drafts
  <2> QED BY ZenonT(40), <2>1, <2>2, <2>3
<1>8. InOrder(row')
  <2> HIDE DEF draft, old
  <2>1. \A q \in Requests : row'[q].status # "absent" <=> (q = r \/ q \in 1 .. r - 1)
    <3>1. row'[r].status # "absent"
      BY <1>5, <1>7
    <3>2. \A q \in Requests \ {r} : row'[q].status # "absent" <=> q \in 1 .. r - 1
      BY <1>2, <1>7
    <3>3. r \notin 1 .. r - 1
      BY <1>2
    <3> QED BY <3>1, <3>2, <3>3
  <2>2. {q \in Requests : row'[q].status # "absent"} = 1 .. r
    <3>1. 1 .. r - 1 \subseteq Requests
      BY <1>2
    <3>2. \A q : q \in 1 .. r <=> (q = r \/ q \in 1 .. r - 1)
      BY <1>1, <1>2 DEF Requests
    <3> QED BY <1>1, <2>1, <3>1, <3>2
  <2> QED BY <1>2, <2>2 DEF InOrder
<1>9. ASSUME NEW p \in asked' PROVE Asks(p, row')
  <2>1. p \in asked \cup {Prompt(r, row')} /\ row'[p.of].status = "draft" /\ row'[p.of].revision = p.revision
    BY <1>3 DEF Accepted
  <2> HIDE DEF draft, old
  <2>2. CASE p \in asked
    <3>1. Asks(p, row)
      BY <2>2 DEF IntakeInv, RowsInv
    <3>2. p.of \in Requests /\ row[p.of].revision \in Nat /\ Moves(row[p.of], row'[p.of])
      BY <1>4, <1>6, <3>1 DEF Asks, RowOk
    <3> QED BY <2>1, <3>1, <3>2 DEF Asks, Moves
  <2>3. CASE p = Prompt(r, row')
    <3>1. /\ p.of = r /\ p.revision = row'[r].revision /\ p.step = row'[r].step
          /\ p.answers = row'[r].answers
      BY <2>3 DEF Prompt
    <3> QED BY <1>1, <2>1, <3>1 DEF Asks
  <2> QED BY <2>1, <2>2, <2>3
<1>10. row' = [q \in Requests |-> row'[q]] /\ \A q \in Requests : RowOk(row'[q])
  <2>1. \A q \in Requests : RowOk(row'[q])
    BY <1>6 DEF Moves
  <2> HIDE DEF draft, old
  <2> QED BY <1>3, <2>1
<1>11. RowsInv'
  BY <1>8, <1>9, <1>10 DEF RowsInv
<1> QED BY <1>1, <1>6, <1>11, ScreensStay DEF IntakeInv
-----------------------------------------------------------------------------
(***************************************************************************)
(* The form and the panel.                                                 *)
(***************************************************************************)
LEMMA ScreensApart == \A f \in Form : f \notin Panel /\ f \in Screens
BY Assumptions DEF Screens

LEMMA RowsStay ==
  ASSUME IntakeInv, UNCHANGED <<row, asked>>
  PROVE  RowsInv' /\ \A q \in Requests : Moves(row[q], row'[q])
BY Still DEF IntakeInv, RowsInv

LEMMA ViewIsTrue ==
  ASSUME NEW r \in Requests, RowOk(row[r]), row[r].status # "absent"
  PROVE  Shows(ViewOf(r), row) /\ ViewOf(r).of = r
BY DEF ViewOf, Shows, ViewFields, RowOk

LEMMA NothingShown == \A rows : Shows(NoView, rows)
BY DEF NoView, Shows, ViewFields

LEMMA LoadKeeps ==
  ASSUME IntakeInv, NEW s \in Screens, NEW r \in Requests, Load(s, r)
  PROVE  IntakeInv' /\ \A q \in Requests : Moves(row[q], row'[q])
<1>1. /\ view' = [view EXCEPT ![s] = ViewOf(r)] /\ row[r].status # "absent"
      /\ s \in Form => pending[s] = NoOp
      /\ s \in Panel => row[r].status \in Closed
      /\ UNCHANGED <<row, published, asked, pending, receipt>>
  BY DEF Load
<1>2. RowsInv' /\ \A q \in Requests : Moves(row[q], row'[q])
  BY <1>1, RowsStay
<1>3. Shows(ViewOf(r), row) /\ ViewOf(r).status = row[r].status
  BY <1>1, ViewIsTrue DEF IntakeInv, RowsInv, ViewOf
<1>4. view'[s] = ViewOf(r) /\ (\A t \in Screens \ {s} : view'[t] = view[t]) /\ view' = [t \in Screens |-> view'[t]]
  BY <1>1 DEF IntakeInv, ScreensInv
<1>5. \A t \in Screens : Shows(view'[t], row')
  BY <1>1, <1>3, <1>4 DEF IntakeInv, ScreensInv
<1>6. \A f \in Form : Sent(pending'[f], view'[f])
  BY <1>1, <1>4, ScreensApart DEF IntakeInv, ScreensInv, Sent
<1>7. \A p \in Panel : view'[p].status # "draft"
  BY <1>1, <1>3, <1>4 DEF IntakeInv, ScreensInv, Closed, Screens
<1> QED BY <1>1, <1>2, <1>4, <1>5, <1>6, <1>7 DEF IntakeInv, ScreensInv

LEMMA SubmitKeeps ==
  ASSUME IntakeInv, NEW f \in Form, NEW action \in {"save", "upload", "confirm"}, NEW fields,
         Submit(f, action, fields)
  PROVE  IntakeInv' /\ \A q \in Requests : Moves(row[q], row'[q])
<1> DEFINE op == [action |-> action, of |-> view[f].of, revision |-> view[f].revision, fields |-> fields]
<1>1. /\ view[f].of # 0 /\ view[f].status = "draft"
      /\ pending' = [pending EXCEPT ![f] = op] /\ receipt' = [receipt EXCEPT ![f] = NoView]
      /\ UNCHANGED <<row, published, asked, view>>
  BY DEF Submit
<1>2. RowsInv' /\ \A q \in Requests : Moves(row[q], row'[q])
  BY <1>1, RowsStay
<1>3. Sent(op, view[f])
  BY <1>1 DEF Sent
<1> HIDE DEF op
<1>4. /\ pending' = [g \in Form |-> pending'[g]] /\ \A g \in Form : Sent(pending'[g], view'[g])
  BY <1>1, <1>3 DEF IntakeInv, ScreensInv
<1>5. /\ receipt' = [g \in Form |-> receipt'[g]] /\ \A g \in Form : Shows(receipt'[g], row')
  BY <1>1, NothingShown DEF IntakeInv, ScreensInv
<1> QED BY <1>1, <1>2, <1>4, <1>5 DEF IntakeInv, ScreensInv

(* What an operation writes.                                               *)
LEMMA EditedMoves ==
  ASSUME NEW op, op.action \in {"save", "upload", "confirm"}, op.of \in Requests, RowOk(row[op.of]),
         row[op.of].status = "draft", FileThere(op)
  PROVE  Moves(row[op.of], Edited(op)) /\ Edited(op).revision = row[op.of].revision + 1
<1> DEFINE k == row[op.of]
           a == Merged(k.answers, op.fields)
<1>0. /\ k.revision \in Nat /\ k.files \in Nat /\ RowFields \subseteq DOMAIN k /\ Bump(op.of) = k.revision + 1
      /\ (k.snapshot.taken => k.status \in Closed) /\ (k.answers[Drawing] = "done" => k.files > 0)
  BY DEF RowOk, Bump
<1>1. CASE op.action = "upload"
  <2> DEFINE x == [k EXCEPT !.files = k.files + 1, !.revision = k.revision + 1]
  <2>1. Edited(op) = x
    BY <1>0, <1>1 DEF Edited
  <2> HIDE DEF k
  <2>2. Moves(k, x) /\ x.revision = k.revision + 1
    BY <1>0 DEF k, Moves, RowOk, RowFields, Statuses, Closed
  <2> QED BY <2>1, <2>2 DEF k
<1>2. CASE op.action = "save"
  <2> DEFINE step == Advance(a, 1)
             x == [k EXCEPT !.answers = a, !.step = step, !.revision = k.revision + 1]
  <2>1. Edited(op) = x
    BY <1>0, <1>2 DEF Edited
  <2>2. a[Drawing] = "done" => k.files > 0
    BY <1>2 DEF FileThere
  <2> HIDE DEF a, step
  <2>3. Moves(k, x) /\ x.revision = k.revision + 1
    BY <1>0, <2>2 DEF Moves, RowOk, RowFields, Statuses, Closed
  <2> QED BY <2>1, <2>3
<1>3. CASE op.action = "confirm"
  <2>1. Edited(op) = Confirmed(op.of, a)
    BY <1>3 DEF Edited
  <2>2. a[Drawing] = "done" => k.files > 0
    BY <1>3 DEF FileThere
  <2> HIDE DEF a
  <2>3. Moves(k, Confirmed(op.of, a)) /\ Confirmed(op.of, a).revision = k.revision + 1
    BY <1>0, <2>2 DEF Confirmed, Moves, RowOk, RowFields, Statuses, Closed
  <2> QED BY <2>1, <2>3
<1> QED BY <1>1, <1>2, <1>3

LEMMA CarryOutKeeps ==
  ASSUME IntakeInv, NEW f \in Form, CarryOut(f)
  PROVE  /\ IntakeInv' /\ \A q \in Requests : Moves(row[q], row'[q])
         /\ pending[f] # NoOp /\ receipt[f] = NoView
         /\ row[view[f].of].answers = view[f].answers /\ row[view[f].of].status = view[f].status
         /\ \A g \in Form \ {f} : receipt'[g] = receipt[g] /\ pending'[g] = pending[g] /\ view'[g] = view[g]
         /\ \A p \in Panel : view'[p] = view[p]
<1> DEFINE op == pending[f]
           rows == [row EXCEPT ![op.of] = Edited(op)]
           seen == [of |-> op.of, revision |-> rows[op.of].revision,
                    status |-> rows[op.of].status, answers |-> rows[op.of].answers]
<1>1. /\ op # NoOp /\ receipt[f] = NoView /\ row[op.of].revision = op.revision
      /\ row[op.of].status = "draft" /\ FileThere(op)
      /\ Put(rows, {}) /\ receipt' = [receipt EXCEPT ![f] = seen]
      /\ \/ UNCHANGED <<view, pending>>
         \/ view' = [view EXCEPT ![f] = seen] /\ pending' = [pending EXCEPT ![f] = NoOp]
  BY DEF CarryOut, CarryOutAnyway, Valid
<1>2. /\ op.action \in {"save", "upload", "confirm"} /\ op.of = view[f].of /\ op.of \in Requests
      /\ view[f].revision = op.revision /\ view[f].status = "draft" /\ RowOk(row[op.of]) /\ f \in Screens
      /\ Shows(view[f], row)
  BY ZenonT(40), <1>1, ScreensApart DEF IntakeInv, RowsInv, ScreensInv, Sent, Shows
<1>3. Moves(row[op.of], Edited(op)) /\ Edited(op).revision = row[op.of].revision + 1
  BY <1>1, <1>2, EditedMoves
<1>4. row' = rows /\ asked' = Accepted(asked \cup {}, row')
  BY <1>1 DEF Put
<1>5. RowsInv' /\ \A q \in Requests : Moves(row[q], row'[q])
  BY <1>1, <1>2, <1>3, <1>4, OneRow DEF IntakeInv
<1>6. row'[op.of].status # "absent" /\ row'[op.of].revision \in Nat
  BY <1>1, <1>2, <1>5 DEF Moves, RowOk
<1>7. Shows(seen, row') /\ seen.of = op.of
  BY <1>2, <1>4, <1>6 DEF Shows, ViewFields
<1>8. \A q \in Requests : RowOk(row[q]) /\ Moves(row[q], row'[q])
  BY <1>5 DEF IntakeInv, RowsInv
<1> HIDE DEF seen, rows, op
<1>9. /\ receipt' = [g \in Form |-> receipt'[g]] /\ (\A g \in Form \ {f} : receipt'[g] = receipt[g])
      /\ \A g \in Form : Shows(receipt'[g], row')
  <2>1. \A g \in Form : Shows(receipt[g], row')
    BY <1>8, ShowsOn DEF IntakeInv, ScreensInv
  <2> QED BY <1>1, <1>7, <2>1 DEF IntakeInv, ScreensInv
<1>10. /\ view' = [s \in Screens |-> view'[s]] /\ (\A s \in Screens \ {f} : view'[s] = view[s])
       /\ \A s \in Screens : Shows(view'[s], row')
  <2>1. \A s \in Screens : Shows(view[s], row')
    BY <1>8, ShowsOn DEF IntakeInv, ScreensInv
  <2>2. CASE UNCHANGED view
    BY <2>1, <2>2 DEF IntakeInv, ScreensInv
  <2>3. CASE view' = [view EXCEPT ![f] = seen]
    BY <1>2, <1>7, <2>1, <2>3 DEF IntakeInv, ScreensInv
  <2> QED BY <1>1, <2>2, <2>3
<1>11. /\ pending' = [g \in Form |-> pending'[g]] /\ (\A g \in Form \ {f} : pending'[g] = pending[g])
       /\ \A g \in Form : Sent(pending'[g], view'[g])
  <2>1. CASE UNCHANGED <<view, pending>>
    BY <2>1 DEF IntakeInv, ScreensInv
  <2>2. CASE pending' = [pending EXCEPT ![f] = NoOp]
    BY <1>10, <2>2, ScreensApart DEF IntakeInv, ScreensInv, Sent
  <2> QED BY <1>1, <2>1, <2>2
<1>12. \A p \in Panel : view'[p] = view[p]
  BY <1>10, ScreensApart DEF Screens
<1>13. ScreensInv'
  BY <1>9, <1>10, <1>11, <1>12 DEF IntakeInv, ScreensInv
<1>14. row[view[f].of].answers = view[f].answers /\ row[view[f].of].status = view[f].status
  <2>1. view[f].of # 0 /\ view[f].revision = row[view[f].of].revision /\ row[view[f].of].status = "draft"
    BY <1>1, <1>2, Assumptions DEF Requests
  <2> QED BY <1>2, <2>1 DEF Shows
<1> QED BY <1>1, <1>5, <1>9, <1>10, <1>11, <1>12, <1>13, <1>14, ScreensApart DEF IntakeInv, op

(* An answer that ends what the tab waits for.                             *)
LEMMA AnswerKeeps ==
  ASSUME IntakeInv, NEW f \in Form, NEW v, Shows(v, row),
         view' = [view EXCEPT ![f] = v], pending' = [pending EXCEPT ![f] = NoOp],
         UNCHANGED <<row, asked, receipt>>
  PROVE  IntakeInv' /\ \A q \in Requests : Moves(row[q], row'[q])
<1>1. RowsInv' /\ \A q \in Requests : Moves(row[q], row'[q])
  BY RowsStay
<1>2. f \in Screens /\ f \notin Panel
  BY ScreensApart
<1>3. /\ view' = [s \in Screens |-> view'[s]] /\ (\A s \in Screens \ {f} : view'[s] = view[s])
      /\ \A s \in Screens : Shows(view'[s], row')
  BY <1>2 DEF IntakeInv, ScreensInv
<1>4. /\ pending' = [g \in Form |-> pending'[g]]
      /\ \A g \in Form : Sent(pending'[g], view'[g])
  BY <1>3, ScreensApart DEF IntakeInv, ScreensInv, Sent
<1>5. \A p \in Panel : view'[p].status # "draft"
  BY <1>2, <1>3 DEF IntakeInv, ScreensInv, Screens
<1> QED BY <1>1, <1>3, <1>4, <1>5 DEF IntakeInv, ScreensInv

LEMMA HostedKeeps ==
  ASSUME IntakeInv, NEW f \in Form, Hosted(f)
  PROVE  IntakeInv' /\ \A q \in Requests : Moves(row[q], row'[q])
<1>1. CASE \/ \E g \in Fields : Submit(f, "save", g)
           \/ \E action \in {"upload", "confirm"} : Submit(f, action, NoOp.fields)
  BY <1>1, SubmitKeeps
<1>2. CASE CarryOut(f)
  BY <1>2, CarryOutKeeps
<1>3. CASE Replay(f)
  BY <1>3, AnswerKeeps DEF Replay, IntakeInv, ScreensInv
<1>4. CASE Conflict(f)
  <2>1. /\ pending[f] # NoOp /\ view' = [view EXCEPT ![f] = ViewOf(pending[f].of)]
        /\ pending' = [pending EXCEPT ![f] = NoOp] /\ UNCHANGED <<row, asked, receipt>>
    BY <1>4 DEF Conflict, ConflictFirst
  <2>2. pending[f].of \in Requests /\ row[pending[f].of].status # "absent" /\ RowOk(row[pending[f].of])
    <3>1. Sent(pending[f], view[f]) /\ Shows(view[f], row) /\ \A r \in Requests : RowOk(row[r])
      BY ScreensApart DEF IntakeInv, RowsInv, ScreensInv
    <3> QED BY <2>1, <3>1 DEF Sent, Shows
  <2>3. Shows(ViewOf(pending[f].of), row)
    BY <2>2, ViewIsTrue
  <2> QED BY <2>1, <2>3, AnswerKeeps
<1>5. CASE Refuse(f)
  <2>1. pending' = [pending EXCEPT ![f] = NoOp] /\ UNCHANGED <<row, asked, view, receipt>>
    BY <1>5 DEF Refuse
  <2>2. RowsInv' /\ \A q \in Requests : Moves(row[q], row'[q])
    BY <2>1, RowsStay
  <2>3. /\ pending' = [g \in Form |-> pending'[g]]
        /\ \A g \in Form : Sent(pending'[g], view'[g])
    BY <2>1 DEF IntakeInv, ScreensInv, Sent
  <2> QED BY <2>1, <2>2, <2>3 DEF IntakeInv, ScreensInv
<1> QED BY <1>1, <1>2, <1>3, <1>4, <1>5 DEF Hosted

LEMMA ReviewKeeps ==
  ASSUME IntakeInv, NEW p \in Panel, NEW to \in Closed, Review(p, to)
  PROVE  /\ IntakeInv' /\ \A q \in Requests : Moves(row[q], row'[q])
         /\ row[view[p].of].answers = view[p].answers /\ row[view[p].of].status = view[p].status
         /\ \A s \in Screens \ {p} : view'[s] = view[s]
<1> DEFINE v == view[p]
           k == row[v.of]
           x == [k EXCEPT !.status = to, !.revision = k.revision + 1]
           seen == [v EXCEPT !.status = to, !.revision = k.revision + 1]
<1>1. /\ v.of # 0 /\ k.revision = v.revision /\ k.status \in Closed
      /\ Put([row EXCEPT ![v.of].status = to, ![v.of].revision = Bump(v.of)], {})
      /\ view' = [view EXCEPT ![p] = [@ EXCEPT !.status = to, !.revision = Bump(v.of)]]
      /\ UNCHANGED <<published, pending, receipt>>
  BY DEF Review, ReviewAnyway
<1>2. /\ v.of \in Requests /\ RowOk(k) /\ p \in Screens /\ Shows(v, row) /\ v.status # "draft"
      /\ row = [q \in Requests |-> row[q]] /\ view = [s \in Screens |-> view[s]]
  <2>1. p \in Screens
    BY DEF Screens
  <2> QED BY <1>1, <2>1 DEF IntakeInv, RowsInv, ScreensInv, Shows
<1>3. k.answers = v.answers /\ k.status = v.status
  BY <1>1, <1>2 DEF Shows, RowOk
<1>4. /\ row' = [row EXCEPT ![v.of] = x] /\ asked' = Accepted(asked \cup {}, row')
      /\ view' = [view EXCEPT ![p] = seen]
  BY <1>1, <1>2 DEF Put, Bump
<1>5. Moves(k, x) /\ x.revision = k.revision + 1 /\ x.answers = k.answers /\ x.status = to
  <2> HIDE DEF k
  <2> QED BY <1>1, <1>2 DEF Moves, RowOk, RowFields, Statuses, Closed
<1>6. RowsInv' /\ \A q \in Requests : Moves(row[q], row'[q])
  <2> HIDE DEF x
  <2>1. row[v.of].status # "absent"
    BY <1>1 DEF Closed
  <2> QED BY <1>2, <1>4, <1>5, <2>1, OneRow DEF IntakeInv
<1>7. /\ seen.of = v.of /\ seen.status = to /\ seen.revision = k.revision + 1 /\ seen.answers = v.answers
      /\ ViewFields \subseteq DOMAIN seen
  <2> HIDE DEF v, k
  <2> QED BY <1>2 DEF Shows, ViewFields
<1>8. Shows(seen, row')
  <2>1. row'[v.of] = x /\ k.revision + 1 \in Nat
    BY <1>2, <1>4 DEF RowOk
  <2> HIDE DEF x, seen
  <2> QED BY <1>2, <1>3, <1>5, <1>7, <2>1 DEF Shows, Closed
<1> HIDE DEF seen
<1>9. /\ view' = [s \in Screens |-> view'[s]] /\ view'[p] = seen
      /\ \A s \in Screens \ {p} : view'[s] = view[s]
  BY <1>2, <1>4
<1>10. /\ \A s \in Screens : Shows(view'[s], row')
       /\ \A f \in Form : Shows(receipt'[f], row')
  <2>1. \A q \in Requests : RowOk(row[q]) /\ Moves(row[q], row'[q])
    BY <1>6 DEF IntakeInv, RowsInv
  <2>2. (\A s \in Screens : Shows(view[s], row')) /\ (\A f \in Form : Shows(receipt[f], row'))
    BY <2>1, ShowsOn DEF IntakeInv, ScreensInv
  <2> QED BY <1>1, <1>8, <1>9, <2>2
<1>11. \A f \in Form : Sent(pending'[f], view'[f])
  <2>1. \A f \in Form : f \in Screens /\ f # p
    BY ScreensApart
  <2> QED BY <1>1, <1>9, <2>1 DEF IntakeInv, ScreensInv
<1>12. \A q \in Panel : view'[q].status # "draft"
  BY <1>7, <1>9 DEF IntakeInv, ScreensInv, Closed, Screens
<1>13. ScreensInv'
  BY <1>1, <1>9, <1>10, <1>11, <1>12 DEF IntakeInv, ScreensInv
<1> QED BY <1>3, <1>6, <1>9, <1>13 DEF IntakeInv
-----------------------------------------------------------------------------
(***************************************************************************)
(* The invariant, and what follows from it.                                *)
(***************************************************************************)
LEMMA InitIntake == Init => IntakeInv
<1> SUFFICES ASSUME Init PROVE IntakeInv
  OBVIOUS
<1>1. RowOk(NoRow) /\ NoRow.status = "absent"
  BY Assumptions DEF NoRow, NoSnapshot, RowOk, RowFields, Statuses, NoAnswer
<1>2. \A r \in Requests : row[r] = NoRow
  BY DEF Init
<1>3. InOrder(row)
  <2>1. {r \in Requests : row[r].status # "absent"} = 1 .. 0
    BY <1>1, <1>2
  <2> QED BY <2>1 DEF InOrder
<1>4. RowsInv
  BY <1>1, <1>3 DEF Init, RowsInv
<1>5. ScreensInv
  BY NothingShown DEF Init, ScreensInv, Screens, Sent, NoView
<1> QED BY <1>4, <1>5 DEF IntakeInv

LEMMA NextIntake == IntakeInv /\ [Next]_vars => IntakeInv' /\ \A q \in Requests : Moves(row[q], row'[q])
<1> SUFFICES ASSUME IntakeInv, [Next]_vars
             PROVE  IntakeInv' /\ \A q \in Requests : Moves(row[q], row'[q])
  OBVIOUS
<1>1. CASE Start
  BY <1>1, StartKeeps
<1>2. CASE \E r \in Requests : Chat(r) \/ Stop(r)
  BY <1>2, ChatKeeps
<1>3. CASE Publish \/ UNCHANGED vars
  <2>1. UNCHANGED <<row, asked, view, pending, receipt>>
    BY <1>3 DEF Publish, vars
  <2> QED BY <2>1, RowsStay DEF IntakeInv, ScreensInv
<1>4. CASE \E s \in Screens, r \in Requests : Load(s, r)
  BY <1>4, LoadKeeps
<1>5. CASE \E f \in Form : Hosted(f)
  BY <1>5, HostedKeeps
<1>6. CASE \E p \in Panel, to \in Closed : Review(p, to)
  BY <1>6, ReviewKeeps
<1> QED BY <1>1, <1>2, <1>3, <1>4, <1>5, <1>6 DEF Next

LEMMA Always == Spec => []IntakeInv
BY InitIntake, NextIntake, PTL DEF Spec

(* Steps that leave the screens and the answers to forms alone.            *)
LEMMA ChatIsAside ==
  ASSUME NEW r \in Requests, Chat(r) \/ Stop(r)
  PROVE  UNCHANGED <<view, pending, receipt>>
BY DEF Chat, Stop, Reprompt, Answer, Back, Edit, Cancel, Confirm, ConfirmNow, Media, Say, Write

LEMMA NoEditLost ==
  IntakeInv /\ [Next]_vars =>
    \A s \in Screens : Wrote(s) =>
      row[view[s].of].answers = view[s].answers /\ row[view[s].of].status = view[s].status
<1> SUFFICES ASSUME IntakeInv, [Next]_vars, NEW s \in Screens, Wrote(s)
             PROVE  row[view[s].of].answers = view[s].answers /\ row[view[s].of].status = view[s].status
  OBVIOUS
<1>0. /\ row' # row
      /\ s \in Form => receipt'[s] # receipt[s]
      /\ s \notin Form => s \in Panel /\ view'[s] # view[s]
  BY DEF Wrote, Screens
<1>1. ~(UNCHANGED <<view, receipt>>)
  BY <1>0
<1>2. ~Start /\ ~(\E r \in Requests : Chat(r) \/ Stop(r)) /\ ~Publish /\ ~(UNCHANGED vars)
  BY <1>1, ChatIsAside DEF Start, Publish, vars
<1>3. ~(\E t \in Screens, r \in Requests : Load(t, r))
  BY <1>0 DEF Load
<1>4. ASSUME NEW f \in Form, Hosted(f)
      PROVE  row[view[s].of].answers = view[s].answers /\ row[view[s].of].status = view[s].status
  <2>1. CarryOut(f)
    BY <1>0, <1>4 DEF Hosted, Submit, Replay, Conflict, ConflictFirst, Refuse
  <2>2. s = f
    BY <1>0, <2>1, CarryOutKeeps
  <2> QED BY <2>1, <2>2, CarryOutKeeps
<1>5. ASSUME NEW p \in Panel, NEW to \in Closed, Review(p, to)
      PROVE  row[view[s].of].answers = view[s].answers /\ row[view[s].of].status = view[s].status
  <2>1. UNCHANGED receipt
    BY <1>5 DEF Review, ReviewAnyway
  <2>2. s = p
    BY <1>0, <1>5, <2>1, ReviewKeeps
  <2> QED BY <1>5, <2>2, ReviewKeeps
<1> QED BY <1>2, <1>3, <1>4, <1>5 DEF Next

LEMMA ReceiptShown ==
  IntakeInv /\ [Next]_vars =>
    \A f \in Form : pending[f] # NoOp /\ receipt[f] # NoView /\ pending'[f] = NoOp
      => view'[f] = receipt[f]
<1> SUFFICES ASSUME IntakeInv, [Next]_vars, NEW f \in Form,
                    pending[f] # NoOp, receipt[f] # NoView, pending'[f] = NoOp
             PROVE  view'[f] = receipt[f]
  OBVIOUS
<1>1. ~(UNCHANGED pending)
  OBVIOUS
<1>2. ~Start /\ ~(\E r \in Requests : Chat(r) \/ Stop(r)) /\ ~Publish /\ ~(UNCHANGED vars)
  BY <1>1, ChatIsAside DEF Start, Publish, vars
<1>3. ~(\E t \in Screens, r \in Requests : Load(t, r)) /\ ~(\E p \in Panel, to \in Closed : Review(p, to))
  BY <1>1 DEF Load, Review, ReviewAnyway
<1>4. ASSUME NEW g \in Form, Hosted(g) PROVE view'[f] = receipt[f]
  <2>0. pending = [h \in Form |-> pending[h]] /\ view = [t \in Screens |-> view[t]] /\ f \in Screens
    BY ScreensApart DEF IntakeInv, ScreensInv
  <2>1. CASE g = f
    <3>1. ~(\E fields, action : Submit(f, action, fields))
      BY DEF Submit
    <3>2. Replay(f)
      BY <1>4, <2>1, <3>1 DEF Hosted, CarryOut, CarryOutAnyway, Conflict, Refuse
    <3> QED BY <2>0, <3>2 DEF Replay
  <2>2. CASE g # f
    <3>1. pending'[f] = pending[f]
      <4>1. CASE CarryOut(g)
        BY <2>2, <4>1, CarryOutKeeps
      <4>2. CASE ~CarryOut(g)
        BY <1>4, <2>0, <2>2, <4>2 DEF Hosted, Submit, Replay, Conflict, ConflictFirst, Refuse
      <4> QED BY <4>1, <4>2
    <3> QED BY <3>1
  <2> QED BY <2>1, <2>2
<1> QED BY <1>2, <1>3, <1>4 DEF Next

(* A save, a confirmation or a review finds the answers and the status its *)
(* screen shows, and a retry is shown what was carried out, whatever the   *)
(* chat, STOP, a new version of the flow, other tabs and the team did in   *)
(* between (update_form's and apply_review's check of the revision, the    *)
(* stored receipt that comes before it).                                   *)
THEOREM NothingOverwritten == Spec => SidesAgree
<1>1. IntakeInv /\ [Next]_vars =>
        [\A s \in Screens : Wrote(s) =>
            LET r == row[view[s].of] IN r.answers = view[s].answers /\ r.status = view[s].status]_vars
  BY NoEditLost
<1>2. IntakeInv /\ [Next]_vars =>
        [\A f \in Form : pending[f] # NoOp /\ receipt[f] # NoView /\ pending'[f] = NoOp
            => view'[f] = receipt[f]]_vars
  BY ReceiptShown
<1> QED BY <1>1, <1>2, Always, PTL DEF Spec, SidesAgree, NoLostEdit, RetriesGetReceipt

(* A prompt whose buttons are accepted asks the step the request is at, of *)
(* the answers it has: what changes either gives the request another       *)
(* revision, which the buttons carry (service.py, engine.py).              *)
THEOREM ButtonsHold == Spec => []ButtonsMeanWhatTheyShow
<1>1. IntakeInv => ButtonsMeanWhatTheyShow
  BY DEF IntakeInv, RowsInv, Asks, ButtonsMeanWhatTheyShow
<1> QED BY <1>1, Always, PTL

(* Neither a chat turn nor an operation of the form leaves a drawing that  *)
(* is done without a file (service.py:310, customer_form.py:196).          *)
THEOREM FilesFirst == Spec => []FileBeforeDone
<1>1. IntakeInv => FileBeforeDone
  BY DEF IntakeInv, RowsInv, RowOk, FileBeforeDone
<1> QED BY <1>1, Always, PTL

(* After the confirmation neither side, nor a review, changes what the     *)
(* customer confirmed: a closed request accepts no answer.                 *)
THEOREM FrozenOnceConfirmed == Spec => ConfirmedIsFrozen
<1>1. IntakeInv /\ [Next]_vars =>
        [\A r \in Requests : row[r].snapshot.taken =>
            row'[r].snapshot = row[r].snapshot /\ row'[r].answers = row[r].answers]_vars
  BY NextIntake DEF IntakeInv, RowsInv, RowOk, Moves
<1> QED BY <1>1, Always, PTL DEF Spec, ConfirmedIsFrozen
-----------------------------------------------------------------------------
LEMMA LeastOf ==
  ASSUME NEW S, S \subseteq Nat, S # {}
  PROVE  \E x \in S : \A y \in S : x <= y
<1> DEFINE Less == OpToRel(<, Nat)
<1>1. IsWellFoundedOn(Less, Nat)
  BY NatLessThanWellFounded
<1>2. \A a, b \in Nat : a < b => <<a, b>> \in Less
  BY DEF OpToRel
<1> HIDE DEF Less
<1>3. PICK x \in S : \A y \in S : ~(<<y, x>> \in Less)
  BY <1>1, WFMin
<1>4. ASSUME NEW y \in S  PROVE x <= y
  <2>1. x \in Nat /\ y \in Nat
    OBVIOUS
  <2>2. ~(y < x)
    BY <1>2, <1>3, <2>1
  <2> QED BY <2>1, <2>2
<1> QED BY <1>4

LEMMA Counting ==
  ASSUME NEW T, 0 \in T, \A n \in Nat : n \in T => n + 1 \in T
  PROVE  Nat \subseteq T
<1> SUFFICES ASSUME Nat \ T # {}  PROVE FALSE
  OBVIOUS
<1>1. PICK x \in Nat \ T : \A y \in Nat \ T : x <= y
  BY LeastOf
<1>2. x # 0 /\ x - 1 \in Nat
  BY <1>1
<1>3. x - 1 \in T
  BY <1>1, <1>2
<1>4. (x - 1) + 1 \in T
  BY <1>2, <1>3
<1> QED BY <1>1, <1>4


(***************************************************************************)
(* Answers: what a sweep over the steps leaves.                            *)
(***************************************************************************)
Answerable == Values \cup {NoAnswer}

(* One step of update_form's loop, and the loop up to step n.              *)
OnePass(fields, b, i) ==
  IF ~Visible(b, i) THEN [b EXCEPT ![i] = NoAnswer]
  ELSE IF fields[i] \in {Keep, b[i]} THEN b
  ELSE [Forget(b, i) EXCEPT ![i] = fields[i]]
Passes(a, fields, d, n) == d = [k \in 0 .. n |-> IF k = 0 THEN a ELSE OnePass(fields, d[k - 1], k)]

LEMMA PassesExist ==
  ASSUME NEW a, NEW fields, NEW n \in Nat
  PROVE  \E d : Passes(a, fields, d, n)
<1> DEFINE T == {k \in Nat : \E d : Passes(a, fields, d, k)}
<1>1. 0 \in T
  <2> DEFINE d == [k \in 0 .. 0 |-> a]
  <2>1. Passes(a, fields, d, 0)
    BY DEF Passes
  <2> QED BY <2>1
<1>2. ASSUME NEW k \in Nat, k \in T  PROVE k + 1 \in T
  <2>1. PICK d : Passes(a, fields, d, k)
    BY <1>2
  <2> DEFINE e == [j \in 0 .. k + 1 |-> IF j = 0 THEN a ELSE OnePass(fields, d[j - 1], j)]
  <2>2. d = [j \in 0 .. k |-> IF j = 0 THEN a ELSE OnePass(fields, d[j - 1], j)]
    BY <2>1 DEF Passes
  <2>3. \A j \in 0 .. k : d[j] = IF j = 0 THEN a ELSE OnePass(fields, d[j - 1], j)
    BY <2>2
  <2>4. \A j \in 0 .. k : e[j] = d[j]
    BY <2>3
  <2>5. \A j \in 1 .. k + 1 : e[j - 1] = d[j - 1]
    <3> HIDE DEF e
    <3>1. \A j \in 1 .. k + 1 : j - 1 \in 0 .. k
      OBVIOUS
    <3> QED BY <2>4, <3>1
  <2>6. e = [j \in 0 .. k + 1 |-> IF j = 0 THEN a ELSE OnePass(fields, e[j - 1], j)]
    <3>1. \A j \in 0 .. k + 1 : (IF j = 0 THEN a ELSE OnePass(fields, d[j - 1], j)) = IF j = 0 THEN a ELSE OnePass(fields, e[j - 1], j)
      <4> HIDE DEF e
      <4> SUFFICES ASSUME NEW j \in 0 .. k + 1
                   PROVE  (IF j = 0 THEN a ELSE OnePass(fields, d[j - 1], j)) = IF j = 0 THEN a ELSE OnePass(fields, e[j - 1], j)
        OBVIOUS
      <4>1. CASE j = 0
        BY <4>1
      <4>2. CASE j # 0
        <5>1. j \in 1 .. k + 1
          BY <4>2
        <5>2. e[j - 1] = d[j - 1]
          BY <2>5, <5>1
        <5> QED BY <4>2, <5>2
      <4> QED BY <4>1, <4>2
    <3> QED BY <3>1
  <2>7. Passes(a, fields, e, k + 1)
    BY <2>6 DEF Passes
  <2> QED BY <2>7
<1> HIDE DEF T
<1>3. Nat \subseteq T
  BY <1>1, <1>2, Counting
<1> QED BY <1>3 DEF T

LEMMA PassesAre ==
  ASSUME NEW a, NEW fields
  PROVE  \E d : /\ Merged(a, fields) = d[Last] /\ d[0] = a
                /\ \A k \in 1 .. Last : d[k] = OnePass(fields, d[k - 1], k)
<1> DEFINE d == CHOOSE r : Passes(a, fields, r, Last)
<1>1. Last \in Nat
  BY Assumptions
<1>2. Passes(a, fields, d, Last)
  BY <1>1, PassesExist
<1>3. Merged(a, fields) = d[Last]
  BY Zenon DEF Merged, Passes, OnePass
<1> HIDE DEF d
<1>4. d = [k \in 0 .. Last |-> IF k = 0 THEN a ELSE OnePass(fields, d[k - 1], k)]
  BY <1>2 DEF Passes
<1>5. \A k \in 0 .. Last : d[k] = IF k = 0 THEN a ELSE OnePass(fields, d[k - 1], k)
  BY <1>4
<1>6. d[0] = a /\ \A k \in 1 .. Last : d[k] = OnePass(fields, d[k - 1], k)
  BY <1>1, <1>5
<1> QED BY <1>3, <1>6

(* One step of the loop leaves answers, does not touch the earlier ones,   *)
(* and leaves a step that does not apply without an answer.                *)
LEMMA OnePassIs ==
  ASSUME NEW b \in Answers, NEW fields \in [Steps -> Answerable \cup {Keep}], NEW i \in Steps
  PROVE  /\ OnePass(fields, b, i) \in Answers
         /\ \A j \in 1 .. i - 1 : OnePass(fields, b, i)[j] = b[j]
         /\ ~Visible(b, i) => OnePass(fields, b, i)[i] = NoAnswer
<1>0. b \in [Steps -> Answerable] /\ \A j \in 1 .. i - 1 : j \in Steps /\ j # i /\ ~(j > i)
  <2>1. i \in Nat /\ i <= Last /\ Last \in Nat
    BY Assumptions DEF Steps
  <2>2. \A j \in 1 .. i - 1 : j \in Steps /\ j # i /\ ~(j > i)
    BY <2>1 DEF Steps
  <2> QED BY <2>2 DEF Answers, Answerable
<1>1. CASE ~Visible(b, i)
  <2>1. OnePass(fields, b, i) = [b EXCEPT ![i] = NoAnswer]
    BY <1>1 DEF OnePass
  <2>2. NoAnswer \in Answerable
    BY DEF Answerable
  <2> QED BY <1>0, <2>1, <2>2 DEF Answers, Answerable
<1>2. CASE Visible(b, i) /\ fields[i] \in {Keep, b[i]}
  BY <1>0, <1>2 DEF OnePass
<1>3. CASE Visible(b, i) /\ fields[i] \notin {Keep, b[i]}
  <2>1. OnePass(fields, b, i) = [Forget(b, i) EXCEPT ![i] = fields[i]]
    BY <1>3 DEF OnePass
  <2>2. Forget(b, i) \in [Steps -> Answerable] /\ \A j \in 1 .. i - 1 : Forget(b, i)[j] = b[j]
    BY <1>0 DEF Forget, Answerable
  <2>3. fields[i] \in Answerable
    BY <1>3
  <2> QED BY <1>0, <1>3, <2>1, <2>2, <2>3 DEF Answers, Answerable
<1> QED BY <1>1, <1>2, <1>3

(* A step applies or not by the answers before it.                         *)
LEMMA VisibleByEarlier ==
  ASSUME NEW a, NEW b, NEW i \in Steps, \A j \in 1 .. i - 1 : a[j] = b[j]
  PROVE  Visible(a, i) <=> Visible(b, i)
<1>1. ASSUME NEW k \in Steps  PROVE <<i, k, a[k]>> \in SkipIf <=> <<i, k, b[k]>> \in SkipIf
  <2>1. CASE k < i
    <3>1. k \in 1 .. i - 1
      BY <2>1 DEF Steps
    <3> QED BY <3>1
  <2>2. CASE ~(k < i)
    <3>1. \A v : <<i, k, v>> \notin SkipIf
      BY <2>2, Assumptions
    <3> QED BY <3>1
  <2> QED BY <2>1, <2>2
<1> QED BY <1>1 DEF Visible

(* What the form sends in leaves answers to steps that apply, no others.   *)
LEMMA MergedIs ==
  ASSUME NEW a \in Answers, NEW fields \in [Steps -> Answerable \cup {Keep}]
  PROVE  /\ Merged(a, fields) \in Answers
         /\ \A j \in Steps : ~Visible(Merged(a, fields), j) => Merged(a, fields)[j] = NoAnswer
<1>1. PICK d : /\ Merged(a, fields) = d[Last] /\ d[0] = a
               /\ \A k \in 1 .. Last : d[k] = OnePass(fields, d[k - 1], k)
  BY PassesAre
<1>2. Last \in Nat
  BY Assumptions
<1> DEFINE Clean(b, i) == \A j \in 1 .. i : ~Visible(b, j) => b[j] = NoAnswer
           T == {k \in Nat : k <= Last => d[k] \in Answers /\ Clean(d[k], k)}
<1>3. 0 \in T
  BY <1>1
<1>4. ASSUME NEW k \in Nat, k \in T  PROVE k + 1 \in T
  <2> SUFFICES ASSUME k + 1 <= Last  PROVE d[k + 1] \in Answers /\ Clean(d[k + 1], k + 1)
    OBVIOUS
  <2> DEFINE i == k + 1
             b == d[k]
             e == d[k + 1]
  <2>1. i \in 1 .. Last /\ i \in Steps /\ i - 1 = k /\ k <= Last
    BY <1>2 DEF Steps
  <2>2. e = OnePass(fields, b, i)
    BY <1>1, <2>1
  <2>3. b \in Answers /\ Clean(b, k)
    BY <1>4, <2>1
  <2> HIDE DEF b, e
  <2> HIDE DEF i
  <2>4. /\ e \in Answers /\ \A j \in 1 .. k : e[j] = b[j]
        /\ ~Visible(b, i) => e[i] = NoAnswer
    <3>1. /\ OnePass(fields, b, i) \in Answers
          /\ \A j \in 1 .. i - 1 : OnePass(fields, b, i)[j] = b[j]
          /\ ~Visible(b, i) => OnePass(fields, b, i)[i] = NoAnswer
      BY <2>1, <2>3, OnePassIs
    <3> QED BY <2>1, <2>2, <3>1
  <2>5. ASSUME NEW j \in 1 .. i, ~Visible(e, j)  PROVE e[j] = NoAnswer
    <3>0. i \in Nat /\ Last \in Nat /\ i <= Last /\ k = i - 1 /\ j \in Nat /\ 1 <= j /\ j <= i
      BY <1>2, <2>1
    <3>1. j \in Steps /\ \A m \in 1 .. j - 1 : m \in 1 .. k
      BY <3>0 DEF Steps
    <3>2. Visible(e, j) <=> Visible(b, j)
      BY <2>4, <3>1, VisibleByEarlier
    <3>3. CASE j = i
      BY <2>4, <2>5, <3>2, <3>3
    <3>4. CASE j # i
      <4>1. j \in 1 .. k
        BY <3>0, <3>4
      <4> QED BY <2>3, <2>4, <2>5, <3>2, <4>1
    <3> QED BY <3>3, <3>4
  <2> QED BY <2>4, <2>5 DEF e, i
<1> HIDE DEF T
<1>5. Last \in T
  BY <1>2, <1>3, <1>4, Counting
<1>6. d[Last] \in Answers /\ Clean(d[Last], Last)
  BY <1>2, <1>5 DEF T
<1> QED BY <1>1, <1>6 DEF Steps

(* The next open step, or the end: then nothing that applies is open.      *)
LEMMA AdvanceIs ==
  ASSUME NEW a, NEW from \in 1 .. Last + 1
  PROVE  /\ Advance(a, from) \in 1 .. Last + 1
         /\ Advance(a, from) > Last => \A i \in from .. Last : Visible(a, i) => a[i] # NoAnswer
<1> DEFINE open == {i \in from .. Last : Visible(a, i) /\ a[i] = NoAnswer}
<1>1. Last \in Nat
  BY Assumptions
<1>2. Advance(a, from) = IF open = {} THEN Last + 1 ELSE Min(open)
  BY DEF Advance
<1>3. CASE open = {}
  BY <1>1, <1>2, <1>3
<1>4. CASE open # {}
  <2>1. open \subseteq Nat /\ open \subseteq 1 .. Last
    BY <1>1
  <2>2. \E x \in open : \A y \in open : x <= y
    BY <1>4, <2>1, LeastOf
  <2>3. Min(open) \in open
    BY <2>2 DEF Min
  <2>4. Advance(a, from) = Min(open)
    BY <1>2, <1>4
  <2> HIDE DEF open
  <2>5. Min(open) \in 1 .. Last
    BY <2>1, <2>3
  <2> QED BY <1>1, <2>4, <2>5
<1> QED BY <1>3, <1>4
-----------------------------------------------------------------------------
(***************************************************************************)
(* What rows, screens and operations hold.                                 *)
(***************************************************************************)
Snapshots == [taken : BOOLEAN, answers : Answers, files : 0 .. MaxFiles]
Rows == [status : Statuses, answers : Answers, step : 1 .. Last + 1, revision : Nat,
         files : 0 .. MaxFiles, version : 0 .. MaxVersion, snapshot : Snapshots]

RowsTyped == row \in [Requests -> Rows] /\ published \in 1 .. MaxVersion

ScreensTyped ==
  /\ \A s \in Screens : view[s].answers \in Answers
  /\ \A f \in Form : receipt[f].answers \in Answers
  /\ \A f \in Form : pending[f].fields \in [Steps -> Answerable \cup {Keep}]

Typed == RowsTyped /\ ScreensTyped

LEMMA Numbers ==
  /\ Last \in Nat \ {0} /\ MaxFiles \in Nat /\ MaxVersion \in Nat /\ MaxVersion > 0 /\ MaxRequests \in Nat
  /\ Steps = 1 .. Last /\ 1 \in Steps /\ Last + 1 \in 1 .. Last + 1 /\ Steps \subseteq 1 .. Last + 1
  /\ Drawing \in Steps
BY Assumptions DEF Steps

LEMMA Blank ==
  /\ NoRow.answers = [i \in Steps |-> NoAnswer] /\ NoRow.answers \in Answers
  /\ NoSnapshot \in Snapshots /\ NoRow \in Rows
  /\ NoView.answers \in Answers /\ NoOp.fields \in [Steps -> Answerable \cup {Keep}]
<1>1. NoRow.answers = [i \in Steps |-> NoAnswer] /\ [i \in Steps |-> NoAnswer] \in Answers
  BY DEF NoRow, Answers
<1>2. NoSnapshot \in Snapshots
  BY <1>1, Numbers DEF NoSnapshot, Snapshots
<1>3. NoRow \in Rows
  BY <1>1, <1>2, Numbers DEF NoRow, Rows, Statuses
<1>4. NoOp.fields \in [Steps -> Answerable \cup {Keep}]
  BY DEF NoOp
<1> QED BY <1>1, <1>2, <1>3, <1>4 DEF NoView

LEMMA AnsweredIs ==
  ASSUME NEW a \in Answers, NEW i \in Steps, NEW v \in Values
  PROVE  Answered(a, i, v) \in Answers
BY DEF Answered, Forget, Answers

(* "geri" goes to a step of the flow.                                      *)
LEMMA PreviousIs ==
  ASSUME NEW r \in Requests, row[r].step \in 1 .. Last + 1, Previous(r) # {}
  PROVE  Max(Previous(r)) \in 1 .. Last
<1> DEFINE S == Previous(r)
           T == {Last - x : x \in S}
<1>1. S \subseteq 1 .. Last
  BY Numbers DEF Previous
<1> HIDE DEF S
<1>2. T \subseteq Nat /\ T # {}
  BY <1>1, Numbers DEF S
<1> HIDE DEF T
<1>3. PICK m \in T : \A y \in T : m <= y
  BY <1>2, LeastOf
<1>4. PICK x \in S : m = Last - x
  BY <1>3 DEF T
<1>5. \A y \in S : x >= y
  <2> SUFFICES ASSUME NEW y \in S  PROVE x >= y
    OBVIOUS
  <2>1. Last - y \in T
    BY DEF T
  <2> QED BY <1>1, <1>3, <1>4, <2>1, Numbers
<1>6. \E z \in S : \A y \in S : z >= y
  BY <1>5
<1>7. Max(S) \in S
  BY <1>6 DEF Max
<1> QED BY <1>1, <1>7 DEF S
-----------------------------------------------------------------------------
(* One row of the right type is written.                                   *)
LEMMA WrittenTyped ==
  ASSUME RowsTyped, NEW r \in Requests, NEW x \in Rows, row' = [row EXCEPT ![r] = x], UNCHANGED published
  PROVE  RowsTyped'
BY DEF RowsTyped

LEMMA SayTyped ==
  ASSUME Typed, NEW r \in Requests, NEW x \in Rows, Say(r, x)
  PROVE  Typed'
<1> DEFINE new == IF x.files = 0 /\ x.answers[Drawing] = "done" THEN row[r] ELSE x
<1>1. row' = [row EXCEPT ![r] = new] /\ UNCHANGED <<published, view, pending, receipt>>
  BY DEF Say, Write, Put
<1>2. new \in Rows
  BY DEF Typed, RowsTyped
<1> HIDE DEF new
<1>3. RowsTyped'
  BY <1>1, <1>2, WrittenTyped DEF Typed
<1> QED BY <1>1, <1>3 DEF Typed, ScreensTyped

LEMMA ChatTyped ==
  ASSUME Typed, NEW r \in Requests, Chat(r) \/ Stop(r)
  PROVE  Typed'
<1> DEFINE k == row[r]
<1>0. k \in Rows /\ Bump(r) = k.revision + 1 /\ k.revision + 1 \in Nat
  BY DEF Typed, RowsTyped, Rows, Bump
<1>1. CASE Reprompt(r)
  BY <1>0, <1>1, SayTyped DEF Reprompt
<1>2. ASSUME NEW v \in Values, Answer(r, v)  PROVE Typed'
  <2> DEFINE a == Answered(k.answers, k.step, v)
             step == Advance(a, k.step + 1)
             x == [k EXCEPT !.answers = a, !.step = step, !.revision = k.revision + 1]
  <2>1. Say(r, x) /\ k.step \in Steps
    BY <1>0, <1>2 DEF Answer
  <2>2. a \in Answers
    BY <1>0, <2>1, AnsweredIs DEF Rows
  <2>3. step \in 1 .. Last + 1
    <3>1. k.step + 1 \in 1 .. Last + 1
      BY <2>1, Numbers
    <3> QED BY <3>1, AdvanceIs
  <2> HIDE DEF a, step, k
  <2>4. x \in Rows
    BY <1>0, <2>2, <2>3 DEF Rows
  <2> HIDE DEF x
  <2> QED BY <2>1, <2>4, SayTyped
<1>3. CASE Back(r)
  <2> DEFINE step == Max(Previous(r))
             x == [k EXCEPT !.step = step, !.revision = k.revision + 1]
  <2>1. Say(r, x) /\ Previous(r) # {}
    BY <1>0, <1>3 DEF Back
  <2>2. step \in 1 .. Last + 1
    <3>1. step \in 1 .. Last
      BY <1>0, <2>1, PreviousIs DEF Rows
    <3> HIDE DEF step
    <3> QED BY <3>1, Numbers
  <2> HIDE DEF step, k
  <2>3. x \in Rows
    BY <1>0, <2>2 DEF Rows
  <2> HIDE DEF x
  <2> QED BY <2>1, <2>3, SayTyped
<1>4. ASSUME NEW i \in Steps, Edit(r, i)  PROVE Typed'
  <2> DEFINE x == [k EXCEPT !.step = i, !.revision = k.revision + 1]
  <2>1. Say(r, x)
    BY <1>0, <1>4 DEF Edit
  <2> HIDE DEF k
  <2>2. x \in Rows
    BY <1>0, Numbers DEF Rows
  <2> HIDE DEF x
  <2> QED BY <2>1, <2>2, SayTyped
<1>5. CASE Media(r)
  <2> DEFINE x == [k EXCEPT !.files = k.files + 1]
  <2>1. Say(r, x) /\ k.files < MaxFiles
    BY <1>0, <1>5 DEF Media
  <2> HIDE DEF k
  <2>2. k.files + 1 \in 0 .. MaxFiles
    <3>1. k.files \in 0 .. MaxFiles
      BY <1>0 DEF Rows
    <3> QED BY <2>1, <3>1, Numbers
  <2>3. x \in Rows
    BY <1>0, <2>2 DEF Rows
  <2> HIDE DEF x
  <2> QED BY <2>1, <2>3, SayTyped
<1>6. CASE Cancel(r) \/ Stop(r)
  <2> DEFINE x == [k EXCEPT !.status = "cancelled", !.revision = k.revision + 1]
  <2>1. row' = [row EXCEPT ![r] = x] /\ UNCHANGED <<published, view, pending, receipt>>
    <3>1. [row EXCEPT ![r].status = "cancelled", ![r].revision = Bump(r)] = [row EXCEPT ![r] = x]
      BY <1>0 DEF Typed, RowsTyped
    <3> QED BY <1>6, <3>1 DEF Cancel, Stop, Put
  <2> HIDE DEF k
  <2>2. x \in Rows
    BY <1>0 DEF Rows, Statuses, Closed
  <2> HIDE DEF x
  <2>3. RowsTyped'
    BY <2>1, <2>2, WrittenTyped DEF Typed
  <2> QED BY <2>1, <2>3 DEF Typed, ScreensTyped
<1>7. CASE Confirm(r)
  <2> DEFINE x == Confirmed(r, k.answers)
  <2>1. row' = [row EXCEPT ![r] = x] /\ UNCHANGED <<published, view, pending, receipt>>
    BY <1>7 DEF Confirm, ConfirmNow, Put
  <2>2. x \in Rows
    BY <1>0, Numbers DEF Confirmed, Rows, Snapshots, Statuses, Closed
  <2> HIDE DEF x
  <2>3. RowsTyped'
    BY <2>1, <2>2, WrittenTyped DEF Typed
  <2> QED BY <2>1, <2>3 DEF Typed, ScreensTyped
<1> QED BY <1>1, <1>2, <1>3, <1>4, <1>5, <1>6, <1>7 DEF Chat

LEMMA StartTyped ==
  ASSUME Typed, Start
  PROVE  Typed'
<1> DEFINE old == {q \in Drafts : row[q].version # published}
           r == NextRequest
           known == IF r = 1 THEN NoAnswer ELSE row[r - 1].answers[1]
           a == [NoRow.answers EXCEPT ![1] = known]
           draft == [NoRow EXCEPT !.status = "draft", !.version = published,
                                  !.answers = a, !.step = Advance(a, 1)]
           rows == [q \in Requests |->
                      CASE q = r     -> draft
                        [] q \in old -> [row[q] EXCEPT !.status = "superseded"]
                        [] OTHER     -> row[q]]
<1>1. r \in Requests /\ row' = rows /\ UNCHANGED <<published, view, pending, receipt>>
  BY DEF Start, Put
<1>2. known \in Values \cup {NoAnswer}
  <2>1. CASE r = 1
    BY <2>1
  <2>2. CASE r # 1
    <3> HIDE DEF r
    <3>1. r - 1 \in Requests
      BY <1>1, <2>2, Numbers DEF Requests
    <3>2. row[r - 1].answers \in Answers
      BY <3>1 DEF Typed, RowsTyped, Rows
    <3>3. row[r - 1].answers[1] \in Values \cup {NoAnswer}
      BY <3>2, Numbers DEF Answers
    <3> QED BY <2>2, <3>3
  <2> QED BY <2>1, <2>2
<1> HIDE DEF known
<1>3. a \in Answers
  BY <1>2, Blank, Numbers DEF Answers
<1> HIDE DEF a
<1>4. draft \in Rows
  <2>1. Advance(a, 1) \in 1 .. Last + 1
    <3>1. 1 \in 1 .. Last + 1
      BY Numbers
    <3> QED BY <3>1, AdvanceIs
  <2>2. published \in 0 .. MaxVersion
    BY Numbers DEF Typed, RowsTyped
  <2> QED BY <1>3, <2>1, <2>2, Blank DEF Rows, Statuses
<1> HIDE DEF draft
<1>5. rows \in [Requests -> Rows]
  <2>1. ASSUME NEW q \in Requests  PROVE row[q] \in Rows /\ [row[q] EXCEPT !.status = "superseded"] \in Rows
    <3>1. row[q] \in Rows
      BY DEF Typed, RowsTyped
    <3> QED BY <3>1 DEF Rows, Statuses, Closed
  <2> HIDE DEF old
  <2>2. \A q \in Requests : rows[q] \in {draft, [row[q] EXCEPT !.status = "superseded"], row[q]}
    OBVIOUS
  <2> QED BY <1>4, <2>1, <2>2
<1> HIDE DEF rows
<1> QED BY <1>1, <1>5 DEF Typed, RowsTyped, ScreensTyped
-----------------------------------------------------------------------------
(* What an operation of the form writes, and what its response shows.      *)
LEMMA EditedIs ==
  ASSUME Typed, NEW op, op.of \in Requests, op.fields \in [Steps -> Answerable \cup {Keep}],
         op.action \in {"save", "upload", "confirm"}, FileThere(op)
  PROVE  Edited(op) \in Rows
<1> DEFINE k == row[op.of]
           a == Merged(k.answers, op.fields)
           step == Advance(a, 1)
<1>0. k \in Rows /\ Bump(op.of) = k.revision + 1 /\ k.revision + 1 \in Nat
  BY DEF Typed, RowsTyped, Rows, Bump
<1>1. a \in Answers
  <2>1. k.answers \in Answers
    BY <1>0 DEF Rows
  <2> QED BY <2>1, MergedIs
<1>2. step \in 1 .. Last + 1
  <2>1. 1 \in 1 .. Last + 1
    BY Numbers
  <2> QED BY <2>1, AdvanceIs
<1>3. CASE op.action = "upload"
  <2> DEFINE x == [k EXCEPT !.files = k.files + 1, !.revision = k.revision + 1]
  <2>1. Edited(op) = x
    BY <1>0, <1>3 DEF Edited, Rows
  <2>2. k.files + 1 \in 0 .. MaxFiles
    <3>1. k.files \in 0 .. MaxFiles /\ k.files < MaxFiles
      BY <1>0, <1>3 DEF Rows, FileThere
    <3> QED BY <3>1, Numbers
  <2> HIDE DEF k
  <2>3. x \in Rows
    BY <1>0, <2>2 DEF Rows
  <2> QED BY <2>1, <2>3
<1>4. CASE op.action = "save"
  <2> DEFINE x == [k EXCEPT !.answers = a, !.step = step, !.revision = k.revision + 1]
  <2>1. Edited(op) = x
    BY <1>0, <1>4 DEF Edited
  <2> HIDE DEF a, step, k
  <2>2. x \in Rows
    BY <1>0, <1>1, <1>2 DEF Rows
  <2> QED BY <2>1, <2>2
<1>5. CASE op.action = "confirm"
  <2>1. Edited(op) = Confirmed(op.of, a)
    BY <1>5 DEF Edited
  <2> HIDE DEF a
  <2>2. Confirmed(op.of, a) \in Rows
    BY <1>0, <1>1, Numbers DEF Confirmed, Rows, Snapshots, Statuses, Closed
  <2> QED BY <2>1, <2>2
<1> QED BY <1>3, <1>4, <1>5

LEMMA CarryOutTyped ==
  ASSUME IntakeInv, Typed, NEW f \in Form, CarryOut(f)
  PROVE  Typed'
<1> DEFINE op == pending[f]
           rows == [row EXCEPT ![op.of] = Edited(op)]
           seen == [of |-> op.of, revision |-> rows[op.of].revision,
                    status |-> rows[op.of].status, answers |-> rows[op.of].answers]
<1>1. /\ op # NoOp /\ FileThere(op) /\ row' = rows /\ UNCHANGED published
      /\ receipt' = [receipt EXCEPT ![f] = seen]
      /\ \/ UNCHANGED <<view, pending>>
         \/ view' = [view EXCEPT ![f] = seen] /\ pending' = [pending EXCEPT ![f] = NoOp]
  BY DEF CarryOut, CarryOutAnyway, Valid, Put
<1>2. op.action \in {"save", "upload", "confirm"} /\ op.of \in Requests
      /\ op.fields \in [Steps -> Answerable \cup {Keep}]
  BY <1>1, ScreensApart DEF IntakeInv, ScreensInv, Sent, Shows, Typed, ScreensTyped
<1>3. Edited(op) \in Rows
  BY <1>1, <1>2, EditedIs
<1>4. RowsTyped'
  BY <1>1, <1>2, <1>3, WrittenTyped DEF Typed
<1>5. seen.answers \in Answers
  BY <1>2, <1>3 DEF Typed, RowsTyped, Rows
<1> HIDE DEF seen, rows
<1>6. ScreensTyped'
  <2>1. \A g \in Form : receipt'[g].answers \in Answers
    BY <1>1, <1>5 DEF IntakeInv, ScreensInv, Typed, ScreensTyped
  <2>2. \A s \in Screens : view'[s].answers \in Answers
    BY <1>1, <1>5 DEF IntakeInv, ScreensInv, Typed, ScreensTyped
  <2>3. \A g \in Form : pending'[g].fields \in [Steps -> Answerable \cup {Keep}]
    BY <1>1, Blank DEF IntakeInv, ScreensInv, Typed, ScreensTyped
  <2> QED BY <2>1, <2>2, <2>3 DEF ScreensTyped
<1> QED BY <1>4, <1>6 DEF Typed

LEMMA HostedTyped ==
  ASSUME IntakeInv, Typed, NEW f \in Form, Hosted(f)
  PROVE  Typed'
<1>1. ASSUME NEW action, NEW fields \in [Steps -> Answerable \cup {Keep}], Submit(f, action, fields)
      PROVE  Typed'
  <2> DEFINE op == [action |-> action, of |-> view[f].of, revision |-> view[f].revision, fields |-> fields]
  <2>1. /\ pending' = [pending EXCEPT ![f] = op] /\ receipt' = [receipt EXCEPT ![f] = NoView]
        /\ UNCHANGED <<row, published, view>>
    BY <1>1 DEF Submit
  <2>2. op.fields = fields
    OBVIOUS
  <2> HIDE DEF op
  <2>3. /\ \A g \in Form : receipt'[g].answers \in Answers
        /\ \A g \in Form : pending'[g].fields \in [Steps -> Answerable \cup {Keep}]
    BY <2>1, <2>2, Blank DEF IntakeInv, ScreensInv, Typed, ScreensTyped
  <2> QED BY <2>1, <2>3 DEF Typed, RowsTyped, ScreensTyped
<1>2. \A g \in Fields : g \in [Steps -> Answerable \cup {Keep}]
  BY DEF Fields, Answers, Answerable
<1>3. CASE CarryOut(f)
  BY <1>3, CarryOutTyped
<1>4. ASSUME NEW v, v.answers \in Answers, view' = [view EXCEPT ![f] = v] \/ UNCHANGED view,
             pending' = [pending EXCEPT ![f] = NoOp], UNCHANGED <<row, published, receipt>>
      PROVE  Typed'
  <2>1. /\ \A s \in Screens : view'[s].answers \in Answers
        /\ \A g \in Form : pending'[g].fields \in [Steps -> Answerable \cup {Keep}]
    BY <1>4, Blank DEF IntakeInv, ScreensInv, Typed, ScreensTyped
  <2> QED BY <1>4, <2>1 DEF Typed, RowsTyped, ScreensTyped
<1>5. CASE Replay(f)
  BY <1>4, <1>5 DEF Replay, Typed, ScreensTyped
<1>6. CASE Conflict(f)
  <2>1. pending[f] # NoOp /\ view' = [view EXCEPT ![f] = ViewOf(pending[f].of)]
        /\ pending' = [pending EXCEPT ![f] = NoOp] /\ UNCHANGED <<row, published, receipt>>
    BY <1>6 DEF Conflict, ConflictFirst
  <2>2. pending[f].of \in Requests
    BY <2>1, ScreensApart DEF IntakeInv, ScreensInv, Sent, Shows
  <2>3. ViewOf(pending[f].of).answers \in Answers
    BY <2>2 DEF ViewOf, Typed, RowsTyped, Rows
  <2> QED BY <1>4, <2>1, <2>3
<1>7. CASE Refuse(f)
  BY <1>4, <1>7, Blank DEF Refuse
<1> QED BY <1>1, <1>2, <1>3, <1>5, <1>6, <1>7, Blank DEF Hosted

LEMMA LoadTyped ==
  ASSUME IntakeInv, Typed, NEW s \in Screens, NEW r \in Requests, Load(s, r)
  PROVE  Typed'
<1>1. view' = [view EXCEPT ![s] = ViewOf(r)] /\ UNCHANGED <<row, published, asked, pending, receipt>>
  BY DEF Load
<1>2. ViewOf(r).answers \in Answers
  BY DEF ViewOf, Typed, RowsTyped, Rows
<1>3. \A t \in Screens : view'[t].answers \in Answers
  BY <1>1, <1>2 DEF IntakeInv, ScreensInv, Typed, ScreensTyped
<1> QED BY <1>1, <1>3 DEF Typed, RowsTyped, ScreensTyped

LEMMA ReviewTyped ==
  ASSUME IntakeInv, Typed, NEW p \in Panel, NEW to \in Closed, Review(p, to)
  PROVE  Typed'
<1> DEFINE v == view[p]
           k == row[v.of]
           x == [k EXCEPT !.status = to, !.revision = k.revision + 1]
           seen == [v EXCEPT !.status = to, !.revision = k.revision + 1]
<1>1. p \in Screens /\ v.of \in Requests
  <2>1. p \in Screens
    BY DEF Screens
  <2> QED BY <2>1 DEF Review, IntakeInv, ScreensInv, Shows
<1>2. k \in Rows /\ k.revision + 1 \in Nat
  BY <1>1 DEF Typed, RowsTyped, Rows
<1>3. /\ row' = [row EXCEPT ![v.of] = x] /\ view' = [view EXCEPT ![p] = seen]
      /\ UNCHANGED <<published, pending, receipt>>
  BY <1>1 DEF Review, ReviewAnyway, Put, Bump, Typed, RowsTyped
<1>4. x \in Rows
  <2> HIDE DEF k
  <2> QED BY <1>2 DEF Rows, Statuses, Closed
<1>5. seen.answers \in Answers
  <2>1. v.answers \in Answers /\ ViewFields \subseteq DOMAIN v
    BY <1>1 DEF Typed, ScreensTyped, IntakeInv, ScreensInv, Shows
  <2> HIDE DEF v, k
  <2> QED BY <2>1 DEF ViewFields
<1> HIDE DEF x, seen
<1>6. RowsTyped'
  BY <1>1, <1>3, <1>4, WrittenTyped DEF Typed
<1>7. \A s \in Screens : view'[s].answers \in Answers
  BY <1>3, <1>5 DEF IntakeInv, ScreensInv, Typed, ScreensTyped
<1> QED BY <1>3, <1>6, <1>7 DEF Typed, ScreensTyped

LEMMA InitTyped == Init => Typed
BY Blank, Numbers DEF Init, Typed, RowsTyped, ScreensTyped

LEMMA NextTyped == IntakeInv /\ Typed /\ [Next]_vars => Typed'
<1> SUFFICES ASSUME IntakeInv, Typed, [Next]_vars
             PROVE  Typed'
  OBVIOUS
<1>1. CASE Start
  BY <1>1, StartTyped
<1>2. CASE \E r \in Requests : Chat(r) \/ Stop(r)
  BY <1>2, ChatTyped
<1>3. CASE Publish
  <2>1. published' \in 1 .. MaxVersion
    BY <1>3, Numbers DEF Publish, Typed, RowsTyped
  <2> QED BY <1>3, <2>1 DEF Publish, Typed, RowsTyped, ScreensTyped
<1>4. CASE UNCHANGED vars
  BY <1>4 DEF vars, Typed, RowsTyped, ScreensTyped
<1>5. CASE \E s \in Screens, r \in Requests : Load(s, r)
  BY <1>5, LoadTyped
<1>6. CASE \E f \in Form : Hosted(f)
  BY <1>6, HostedTyped
<1>7. CASE \E p \in Panel, to \in Closed : Review(p, to)
  BY <1>7, ReviewTyped
<1> QED BY <1>1, <1>2, <1>3, <1>4, <1>5, <1>6, <1>7 DEF Next

LEMMA TypesFollow == IntakeInv /\ Typed => TypeOK
<1> SUFFICES ASSUME IntakeInv, Typed  PROVE TypeOK
  OBVIOUS
<1>1. row \in [Requests -> Rows] /\ published \in 1 .. MaxVersion
  BY DEF Typed, RowsTyped
<1>2. \A p \in asked : p.of \in Requests /\ p.step \in 1 .. Last + 1
  BY <1>1 DEF IntakeInv, RowsInv, Asks, Rows
<1>3. \A s \in Screens : view[s].of \in Requests \cup {0} /\ view[s].answers \in Answers
  BY DEF Typed, ScreensTyped, IntakeInv, ScreensInv, Shows
<1>4. \A f \in Form : pending[f].action \in {"none", "save", "upload", "confirm"}
  BY DEF IntakeInv, ScreensInv, Sent, NoOp
<1>5. \A f \in Form : receipt[f].of \in Requests \cup {0}
  BY DEF IntakeInv, ScreensInv, Shows
<1> QED BY <1>1, <1>2, <1>3, <1>4, <1>5 DEF TypeOK, Rows, Snapshots

(* The types of all that is stored, with what the chat's buttons mean and  *)
(* a file before "done": every step a request is put at is one of the      *)
(* flow, and what either side leaves are answers to its steps (engine.py,  *)
(* customer_form.py:167).                                                  *)
THEOREM ChatHolds == Spec => []ChatIsTrue
<1>1. IntakeInv /\ Typed => ChatIsTrue
  BY TypesFollow DEF ChatIsTrue, IntakeInv, RowsInv, Asks, ButtonsMeanWhatTheyShow, RowOk, FileBeforeDone
<1>2. Spec => []Typed
  BY InitTyped, NextTyped, Always, PTL DEF Spec
<1> QED BY <1>1, <1>2, Always, PTL
-----------------------------------------------------------------------------
LEMMA FormConfirmsAll ==
  IntakeInv /\ Typed /\ [Next]_vars =>
    \A f \in Form : Wrote(f) /\ pending[f].action = "confirm" =>
      LET c == row'[pending[f].of].snapshot
      IN  c.taken /\ \A i \in Steps : Visible(c.answers, i) <=> c.answers[i] # NoAnswer
<1> SUFFICES ASSUME IntakeInv, Typed, [Next]_vars, NEW f \in Form, Wrote(f), pending[f].action = "confirm"
             PROVE  LET c == row'[pending[f].of].snapshot
                    IN  c.taken /\ \A i \in Steps : Visible(c.answers, i) <=> c.answers[i] # NoAnswer
  OBVIOUS
<1>1. row' # row /\ receipt'[f] # receipt[f]
  BY DEF Wrote
<1>2. ~Start /\ ~(\E r \in Requests : Chat(r) \/ Stop(r)) /\ ~Publish /\ ~(UNCHANGED vars)
  BY <1>1, ChatIsAside DEF Start, Publish, vars
<1>3. ~(\E t \in Screens, r \in Requests : Load(t, r)) /\ ~(\E p \in Panel, to \in Closed : Review(p, to))
  BY <1>1 DEF Load, Review, ReviewAnyway
<1>4. PICK g \in Form : Hosted(g)
  BY <1>2, <1>3 DEF Next
<1>5. CarryOut(g)
  BY <1>1, <1>4 DEF Hosted, Submit, Replay, Conflict, ConflictFirst, Refuse
<1>6. g = f
  BY <1>1, <1>5, CarryOutKeeps
<1> DEFINE op == pending[f]
           k == row[op.of]
           a == Merged(k.answers, op.fields)
<1>7. /\ op # NoOp /\ Valid(op) /\ row' = [row EXCEPT ![op.of] = Edited(op)]
  BY <1>5, <1>6 DEF CarryOut, CarryOutAnyway, Put
<1>8. /\ op.of \in Requests /\ op.fields \in [Steps -> Answerable \cup {Keep}]
      /\ k \in Rows /\ row \in [Requests -> Rows]
  <2>1. op.of \in Requests
    BY ZenonT(40), <1>7, ScreensApart DEF IntakeInv, ScreensInv, Sent, Shows
  <2> QED BY <2>1 DEF Typed, RowsTyped, ScreensTyped
<1>9. row'[op.of] = Confirmed(op.of, a)
  BY <1>7, <1>8 DEF Edited
<1>10. Advance(a, 1) > Last
  BY <1>7 DEF Valid
<1> HIDE DEF a
<1>11. row'[op.of].snapshot = [taken |-> TRUE, answers |-> a, files |-> k.files]
  BY <1>8, <1>9 DEF Confirmed, Rows
<1>12. \A i \in Steps : Visible(a, i) => a[i] # NoAnswer
  <2>1. 1 \in 1 .. Last + 1
    BY Numbers
  <2> QED BY <1>10, <2>1, AdvanceIs DEF Steps
<1>13. \A i \in Steps : ~Visible(a, i) => a[i] = NoAnswer
  <2>1. k.answers \in Answers
    BY <1>8 DEF Rows
  <2> QED BY <1>8, <2>1, MergedIs DEF a
<1> QED BY <1>11, <1>12, <1>13

(* A confirmation of the form is of an answer to every step that applies   *)
(* and to no other, for any flow whose conditions look back: the loop of   *)
(* update_form removes the leftovers and the check of its result refuses   *)
(* the gaps (customer_form.py:167-204); and it stands from then on.        *)
THEOREM ConfirmationHolds == Spec => ConfirmationStands
<1>1. IntakeInv /\ Typed /\ [Next]_vars =>
        [\A f \in Form : Wrote(f) /\ pending[f].action = "confirm" =>
            LET c == row'[pending[f].of].snapshot
            IN  c.taken /\ \A i \in Steps : Visible(c.answers, i) <=> c.answers[i] # NoAnswer]_vars
  BY FormConfirmsAll
<1>2. Spec => []Typed
  BY InitTyped, NextTyped, Always, PTL DEF Spec
<1>3. Spec => ConfirmedOnForm
  BY <1>1, <1>2, Always, PTL DEF Spec, ConfirmedOnForm
<1> QED BY <1>3, FrozenOnceConfirmed DEF ConfirmationStands
=============================================================================
