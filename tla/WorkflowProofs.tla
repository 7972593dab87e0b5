---------------------------- MODULE WorkflowProofs ----------------------------
(***************************************************************************)
(* What the assistant's cards guarantee for any number of cards, texts,    *)
(* commands, batches and edits by others.                                  *)
(*   TypeCorrect        every variable keeps its type.                     *)
(*   OneCardOpen        one card is in the foreground.                     *)
(*   BatchOfReview      a batch that can send is the one its card reviews. *)
(*   TemplatePosted     a template is posted to Meta once.                 *)
(*   DoneAsApproved     what a button did is what its review showed.       *)
(***************************************************************************)
EXTENDS Workflow, TLAPS

Rows     == CardShape \cup {NoCard}
Statuses == TERMINAL \cup ACTIVE \cup {"paused"}
Steps    == {"details", "compose", "review", "result"}
Outs     == {"none", "done", "queued", "processed", "cancelled",
             "submitting", "submitted", "rejected", "ambiguous"}
Batch    == [card : Cards, status : {"draft", "queued", "cancelled"}, text : Texts, pending : BOOLEAN]

(* A batch and its card know each other, and a card has one from its       *)
(* review on.                                                              *)
BatchesMatch ==
  /\ \A c \in Cards : Exists(c) /\ HasBatch(cards[c]) =>
       batches[cards[c].batch] # NoBatch /\ batches[cards[c].batch].card = c
  /\ \A b \in BatchIds : batches[b] # NoBatch => Exists(batches[b].card)
  /\ \A c \in Cards : Exists(c) /\ cards[c].kind = "outreach" =>
       (HasBatch(cards[c]) <=> cards[c].step \in {"review", "result"})

(* A template that was approved is out of the form for good, and the POST  *)
(* comes once after its commit.                                            *)
OutOfForm(k) ==
  /\ k.kind = "create_template" /\ k.step = "result"
  /\ k.status \in {"running", "completed"} \/ (k.status = "paused" /\ k.bg)
Submitted(c) == posting[c] # "idle" \/ posts[c] > 0
SubmittedOnce ==
  \A c \in Cards : /\ Submitted(c) => Exists(c) /\ OutOfForm(cards[c])
                   /\ posting[c] = "committed" => posts[c] = 0

CardInv == TypeOK /\ BatchesMatch /\ OneOpenCard /\ OnlyTheReviewedBatch
             /\ SubmittedOnce /\ TemplatePostedOnce
-----------------------------------------------------------------------------
(***************************************************************************)
(* The helpers of the handlers, on cards of the right shape.               *)
(***************************************************************************)
LEMMA FieldSet ==
  ASSUME NEW k \in CardShape
  PROVE  /\ \A x \in Kinds : [k EXCEPT !.kind = x] \in CardShape
         /\ \A x \in Statuses : [k EXCEPT !.status = x] \in CardShape
         /\ \A x \in Steps : [k EXCEPT !.step = x] \in CardShape
         /\ \A x \in Nat : [k EXCEPT !.rev = x] \in CardShape
         /\ \A x \in Fields : [k EXCEPT !.fields = x] \in CardShape
         /\ \A x \in BOOLEAN : [k EXCEPT !.templates = x] \in CardShape /\ [k EXCEPT !.bg = x] \in CardShape
         /\ \A x \in {0} \cup BatchIds : [k EXCEPT !.batch = x] \in CardShape
         /\ \A x \in [text : Fields, record : Nat] : [k EXCEPT !.basis = x] \in CardShape
         /\ \A x \in Outs : [k EXCEPT !.out = x] \in CardShape
BY DEF CardShape, Statuses, Steps, Outs

(* pause_others, on one card.                                              *)
Behind(k)   == k.bg \/ (k.kind \in Background /\ k.status = "running")
SetAside(k) == [k EXCEPT !.status = "paused", !.rev = @ + 1,
                         !.bg = @ \/ (k.kind \in Background /\ k.status = "running")]

LEMMA SetAsideShape ==
  ASSUME NEW k \in CardShape
  PROVE  /\ SetAside(k) \in CardShape
         /\ SetAside(k).kind = k.kind /\ SetAside(k).step = k.step /\ SetAside(k).batch = k.batch
         /\ SetAside(k).status = "paused" /\ (Behind(k) => SetAside(k).bg)
<1>1. k.rev + 1 \in Nat /\ k.bg \in BOOLEAN
  BY DEF CardShape
<1>2. [k EXCEPT !.status = "paused", !.rev = k.rev + 1] \in CardShape
  BY <1>1, FieldSet DEF Statuses
<1>3. CASE Behind(k)
  <2>1. SetAside(k) = [k EXCEPT !.status = "paused", !.rev = k.rev + 1, !.bg = TRUE]
    BY <1>1, <1>3 DEF SetAside, Behind
  <2>2. SetAside(k) \in CardShape
    BY <1>2, <2>1, FieldSet
  <2> QED BY <1>3, <2>1, <2>2 DEF CardShape
<1>4. CASE ~Behind(k)
  <2>1. SetAside(k) = [k EXCEPT !.status = "paused", !.rev = k.rev + 1, !.bg = FALSE]
    BY <1>1, <1>4 DEF SetAside, Behind
  <2>2. SetAside(k) \in CardShape
    BY <1>2, <2>1, FieldSet
  <2> QED BY <1>4, <2>1, <2>2 DEF CardShape
<1> QED BY <1>3, <1>4

LEMMA RowParts ==
  ASSUME TypeOK, NEW c \in Cards
  PROVE  /\ cards[c] \in Rows
         /\ Exists(c) => cards[c] \in CardShape
         /\ HasBatch(cards[c]) /\ Exists(c) => cards[c].batch \in BatchIds
BY DEF TypeOK, Rows, Exists, HasBatch, CardShape

LEMMA NoCardIsOther == NoCard \notin CardShape /\ NoBatch \notin Batch
<1>1. \A k \in CardShape : k.kind # "none"
  BY DEF CardShape, Kinds
<1>2. \A b \in Batch : b.status # "none"
  BY DEF Batch
<1> QED BY <1>1, <1>2 DEF NoCard, NoBatch

LEMMA PatchShape ==
  ASSUME NEW k \in CardShape, NEW f \in Inputs
  PROVE  /\ Patch(k, f) \in CardShape
         /\ Patch(k, f).kind = k.kind /\ Patch(k, f).batch = k.batch
         /\ Patch(k, f).bg = k.bg /\ Patch(k, f).rev = k.rev
         /\ Patch(k, f).status \in {k.status, "awaiting_input"}
         /\ f = NoFields => Patch(k, f) = k
         /\ f # NoFields => Patch(k, f).step \in {"details", "compose"}
<1>1. CASE f = NoFields
  BY <1>1 DEF Patch
<1>2. CASE f # NoFields
  <2> DEFINE step == IF k.kind = "outreach" /\ k.step \in {"compose", "review"}
                     THEN "compose" ELSE "details"
  <2>1. Patch(k, f) = [k EXCEPT !.fields = f, !.out = "none", !.status = "awaiting_input", !.step = step]
    BY <1>2 DEF Patch
  <2>2. f \in Fields /\ step \in {"details", "compose"}
    BY <1>2 DEF Inputs
  <2> HIDE DEF step
  <2> QED BY ZenonT(40), <1>2, <2>1, <2>2 DEF CardShape, ACTIVE
<1> QED BY <1>1, <1>2

LEMMA InvalidateShape ==
  ASSUME NEW k \in CardShape
  PROVE  /\ Invalidate(k) \in CardShape
         /\ Invalidate(k).kind = k.kind /\ Invalidate(k).status = k.status /\ Invalidate(k).step = k.step
         /\ Invalidate(k).bg = k.bg /\ Invalidate(k).rev = k.rev
         /\ Invalidate(k).batch = IF k.kind = "outreach" THEN 0 ELSE k.batch
BY DEF Invalidate, CardShape, Kinds

LEMMA NewCardShape ==
  ASSUME NEW kind \in Kinds, NEW f \in Inputs, NEW reachable \in BOOLEAN
  PROVE  LET k == NewCard(kind, f, reachable) IN
         /\ k \in CardShape /\ k.kind = kind /\ k.batch = 0 /\ k.step = "details"
<1> DEFINE new == [kind |-> kind, status |-> "awaiting_input", step |-> "details", rev |-> 0,
                   fields |-> Blank, templates |-> kind = "outreach" /\ reachable, bg |-> FALSE,
                   batch |-> 0, basis |-> NoBasis, out |-> "none"]
<1>1. new \in CardShape
  BY DEF CardShape, ACTIVE, Fields, NoBasis
<1> QED BY <1>1, PatchShape DEF NewCard, Patch

LEMMA PausedShape ==
  ASSUME TypeOK, NEW e \in Cards
  PROVE  /\ PauseOthers(e) \in [Cards -> Rows]
         /\ PauseOthers(e)[e] = cards[e]
         /\ \A c \in Cards \ {e} :
              \/ PauseOthers(e)[c] = cards[c] /\ (Exists(c) => cards[c].status \notin ACTIVE)
              \/ /\ Exists(c) /\ cards[c].status \in ACTIVE
                 /\ PauseOthers(e)[c] = SetAside(cards[c])
<1>1. \A c \in Cards : cards[c] \in Rows /\ (Exists(c) => SetAside(cards[c]) \in Rows)
  BY RowParts, SetAsideShape DEF Rows
<1>2. PauseOthers(e) = [c \in Cards |-> IF c # e /\ Exists(c) /\ cards[c].status \in ACTIVE
                                      THEN SetAside(cards[c]) ELSE cards[c]]
  BY DEF PauseOthers, SetAside
<1> QED BY <1>1, <1>2

LEMMA EditedShape ==
  ASSUME NEW k \in CardShape, NEW f \in Inputs
  PROVE  LET e == Edited(k, f) IN
         /\ e \in CardShape /\ e.kind = k.kind /\ e.bg = k.bg /\ e.rev = k.rev
         /\ e.status \in {k.status, "awaiting_input"}
         /\ e.batch = IF f = NoFields \/ k.kind # "outreach" THEN k.batch ELSE 0
         /\ f # NoFields => e.step \in {"details", "compose"}
         /\ f = NoFields /\ k.kind # "records" => e = k
<1> DEFINE base == IF f = NoFields THEN k ELSE Invalidate(k)
<1>1. /\ base \in CardShape /\ base.kind = k.kind /\ base.bg = k.bg /\ base.rev = k.rev
      /\ base.status = k.status
      /\ base.batch = IF f = NoFields \/ k.kind # "outreach" THEN k.batch ELSE 0
  BY InvalidateShape
<1> HIDE DEF base
<1> DEFINE kept == Patch(base, f)
<1>2. /\ kept \in CardShape /\ kept.kind = k.kind /\ kept.bg = k.bg /\ kept.rev = k.rev
      /\ kept.status \in {k.status, "awaiting_input"} /\ kept.batch = base.batch
      /\ f # NoFields => kept.step \in {"details", "compose"}
      /\ f = NoFields => kept = k
  BY <1>1, PatchShape DEF base
<1>3. Edited(k, f) = IF k.kind = "records" THEN [kept EXCEPT !.status = "awaiting_input", !.step = "details"]
                     ELSE kept
  BY DEF Edited, base
<1> HIDE DEF kept
<1>4. [kept EXCEPT !.status = "awaiting_input", !.step = "details"] \in CardShape
  BY <1>2, FieldSet DEF Statuses, Steps, ACTIVE
<1> QED BY <1>1, <1>2, <1>3, <1>4 DEF CardShape

LEMMA DroppedBatch ==
  ASSUME TypeOK, BatchesMatch, NEW c \in Cards, Exists(c)
  PROVE  LET dropped == DropBatch(cards[c]) IN
         /\ dropped \in [BatchIds -> Batch \cup {NoBatch}]
         /\ \A b \in BatchIds : /\ dropped[b] = NoBatch <=> batches[b] = NoBatch
                                /\ dropped[b] # NoBatch => dropped[b].card = batches[b].card
                                /\ dropped[b].status \in {batches[b].status, "cancelled"}
         /\ HasBatch(cards[c]) => dropped[cards[c].batch].status = "cancelled"
<1> DEFINE k == cards[c]
<1>1. batches \in [BatchIds -> Batch \cup {NoBatch}]
  BY DEF TypeOK, Batch
<1>2. CASE ~HasBatch(k)
  BY <1>1, <1>2 DEF DropBatch
<1>3. CASE HasBatch(k)
  <2> DEFINE b == k.batch
  <2>1. k.kind = "outreach" /\ b \in BatchIds
    BY <1>3, RowParts DEF TypeOK
  <2>2. batches[b] \in Batch
    BY <1>1, <1>3, <2>1 DEF BatchesMatch
  <2>3. DropBatch(k) = [batches EXCEPT ![b] = [batches[b] EXCEPT !.status = "cancelled", !.pending = FALSE]]
    BY <1>3, <2>1 DEF DropBatch
  <2>4. /\ [batches[b] EXCEPT !.status = "cancelled", !.pending = FALSE] \in Batch
        /\ [batches[b] EXCEPT !.status = "cancelled", !.pending = FALSE].card = batches[b].card
        /\ [batches[b] EXCEPT !.status = "cancelled", !.pending = FALSE].status = "cancelled"
    BY <2>2 DEF Batch
  <2> HIDE DEF k, b
  <2> QED BY <1>1, <2>1, <2>2, <2>3, <2>4, NoCardIsOther DEF k, b
<1> QED BY <1>2, <1>3
-----------------------------------------------------------------------------
(***************************************************************************)
(* Commands on one card, in terms of the card they record.                 *)
(***************************************************************************)
LEMMA CommandParts ==
  ASSUME CardInv, NEW c \in Cards, NEW action, NEW f, Command(c, action, f)
  PROVE  /\ Exists(c) /\ cards[c] \in CardShape /\ spent < MaxCommands
         /\ cards[c].status \notin TERMINAL
         /\ action # "resume" => ~Submitted(c)
         /\ action \notin {"launch", "resume", "cancel"} => cards[c].status \in ACTIVE
         /\ action \notin {"pause", "cancel"} => cards[c].status # "running"
         /\ f # NoFields => cards[c].status # "running"
         /\ cards[c].kind = "outreach" /\ cards[c].bg => action \in {"resume", "cancel"}
<1>1. Exists(c) /\ cards[c] \in CardShape /\ spent < MaxCommands /\ Accepts(cards[c], action, f)
  BY RowParts DEF Command, CardInv
<1>2. cards[c].status \in Statuses
  BY <1>1 DEF CardShape, Statuses
<1>3. action # "resume" => ~OutOfForm(cards[c])
  BY <1>1 DEF Accepts, OutOfForm, TERMINAL
<1> QED BY <1>1, <1>2, <1>3 DEF Accepts, Statuses, TERMINAL, ACTIVE, CardInv, SubmittedOnce

LEMMA Recorded ==
  ASSUME TypeOK, NEW c \in Cards, Exists(c), NEW k \in CardShape, spent < MaxCommands, Record(c, k)
  PROVE  /\ cards' \in [Cards -> Rows] /\ spent' \in 0 .. MaxCommands
         /\ \A d \in Cards : /\ d # c => cards'[d] = cards[d]
                             /\ Exists(d)' <=> Exists(d)
         /\ cards'[c] \in CardShape
         /\ cards'[c].kind = k.kind /\ cards'[c].status = k.status /\ cards'[c].step = k.step
         /\ cards'[c].batch = k.batch /\ cards'[c].bg = k.bg
<1> DEFINE new == [k EXCEPT !.rev = cards[c].rev + 1]
<1>1. cards[c].rev + 1 \in Nat
  BY RowParts DEF CardShape
<1>2. new \in CardShape
  BY <1>1, FieldSet
<1>3. new.kind = k.kind /\ new.status = k.status /\ new.step = k.step /\ new.batch = k.batch /\ new.bg = k.bg
  BY DEF CardShape
<1>4. cards \in [Cards -> Rows] /\ spent \in 0 .. MaxCommands
  BY DEF TypeOK, Rows
<1>5. cards' = [cards EXCEPT ![c] = new] /\ spent' = spent + 1
  BY DEF Record
<1>6. spent' \in 0 .. MaxCommands
  BY <1>4, <1>5, BoundsAreNatural
<1> HIDE DEF new
<1> QED BY <1>2, <1>3, <1>4, <1>5, <1>6, NoCardIsOther DEF Rows, Exists

(* A card that was in front, or does not come there, and is not submitted. *)
LEMMA OwnCard ==
  ASSUME CardInv, NEW c \in Cards, Exists(c), NEW k \in CardShape, spent < MaxCommands, Record(c, k),
         k.status \in ACTIVE => cards[c].status \in ACTIVE,
         ~Submitted(c), UNCHANGED <<posting, posts>>
  PROVE  OneOpenCard' /\ SubmittedOnce' /\ TemplatePostedOnce'
<1>1. OneOpenCard'
  BY Recorded DEF CardInv, OneOpenCard
<1>2. SubmittedOnce' /\ TemplatePostedOnce'
  BY Recorded DEF CardInv, SubmittedOnce, TemplatePostedOnce, Submitted
<1> QED BY <1>1, <1>2

OwnsOutreach(new) == \A c \in Cards : new[c] # NoCard /\ HasBatch(new[c]) => new[c].kind = "outreach"
Consistent(k) == k.kind = "outreach" => (HasBatch(k) <=> k.step \in {"review", "result"})

LEMMA KeptBatches ==
  ASSUME CardInv, NEW c \in Cards, Exists(c), NEW k \in CardShape, spent < MaxCommands, Record(c, k),
         batches' = batches, k.batch = cards[c].batch, k.kind = "outreach" <=> cards[c].kind = "outreach",
         k.status = "cancelled" => ~HasBatch(cards[c]), Consistent(k)
  PROVE  BatchesMatch' /\ OnlyTheReviewedBatch' /\ OwnsOutreach(cards')
<1>a. TypeOK /\ BatchesMatch /\ OnlyTheReviewedBatch
  BY DEF CardInv
<1>r. /\ \A d \in Cards : /\ d # c => cards'[d] = cards[d]
                          /\ Exists(d)' <=> Exists(d)
      /\ cards'[c].kind = k.kind /\ cards'[c].status = k.status /\ cards'[c].step = k.step
      /\ cards'[c].batch = k.batch
  BY <1>a, Recorded
<1>2. \A b \in BatchIds : batches[b].status \in {"draft", "queued"} => batches[b] # NoBatch /\ b # 0
  BY DEF NoBatch, BatchIds
<1>4. OwnsOutreach(cards')
  BY SMTT(20), <1>a, <1>r DEF TypeOK, OwnsOutreach, Exists, HasBatch
<1>1. BatchesMatch'
  <2>1. ASSUME NEW d \in Cards, Exists(d)', HasBatch(cards'[d])
        PROVE  batches'[cards'[d].batch] # NoBatch /\ batches'[cards'[d].batch].card = d
    BY <1>a, <1>r, <2>1 DEF BatchesMatch, HasBatch
  <2>2. ASSUME NEW d \in Cards, Exists(d)', cards'[d].kind = "outreach"
        PROVE  HasBatch(cards'[d]) <=> cards'[d].step \in {"review", "result"}
    BY <1>a, <1>r, <2>2 DEF BatchesMatch, HasBatch, Consistent
  <2>3. \A b \in BatchIds : batches'[b] # NoBatch => Exists(batches[b].card)'
    BY <1>a, <1>r DEF BatchesMatch, TypeOK, Batch
  <2> QED BY <2>1, <2>2, <2>3 DEF BatchesMatch, HasBatch
<1>3. OnlyTheReviewedBatch'
  BY SMTT(20), <1>a, <1>2, <1>r DEF OnlyTheReviewedBatch, BatchesMatch, HasBatch, TypeOK
<1> QED BY <1>1, <1>3, <1>4

LEMMA DroppedBatches ==
  ASSUME CardInv, NEW c \in Cards, Exists(c), NEW k \in CardShape, spent < MaxCommands, Record(c, k),
         batches' = DropBatch(cards[c]), k.batch \in {0, cards[c].batch},
         k.kind = "outreach" <=> cards[c].kind = "outreach", Consistent(k)
  PROVE  /\ BatchesMatch' /\ OnlyTheReviewedBatch' /\ OwnsOutreach(cards')
         /\ batches' \in [BatchIds -> Batch \cup {NoBatch}]
<1>a. TypeOK /\ BatchesMatch /\ OnlyTheReviewedBatch
  BY DEF CardInv
<1>r. /\ \A d \in Cards : /\ d # c => cards'[d] = cards[d]
                          /\ Exists(d)' <=> Exists(d)
      /\ cards'[c].kind = k.kind /\ cards'[c].status = k.status /\ cards'[c].step = k.step
      /\ cards'[c].batch = k.batch
  BY <1>a, Recorded
<1>2. \A b \in BatchIds : batches[b].status \in {"draft", "queued"} => batches[b] # NoBatch /\ b # 0
  BY DEF NoBatch, BatchIds
<1>4. OwnsOutreach(cards')
  BY <1>a, <1>r DEF TypeOK, OwnsOutreach, Exists, HasBatch
<1>d. /\ batches' \in [BatchIds -> Batch \cup {NoBatch}]
      /\ \A b \in BatchIds : /\ batches'[b] = NoBatch <=> batches[b] = NoBatch
                             /\ batches'[b] # NoBatch => batches'[b].card = batches[b].card
                             /\ batches'[b].status \in {batches[b].status, "cancelled"}
      /\ HasBatch(cards[c]) => batches'[cards[c].batch].status = "cancelled"
  BY <1>a, DroppedBatch
<1>1. BatchesMatch'
  <2>1. ASSUME NEW d \in Cards, Exists(d)', HasBatch(cards'[d])
        PROVE  batches'[cards'[d].batch] # NoBatch /\ batches'[cards'[d].batch].card = d
    <3>1. cards'[d].batch = cards[d].batch /\ HasBatch(cards[d]) /\ Exists(d)
      BY <1>r, <2>1 DEF HasBatch
    <3>2. cards[d].batch \in BatchIds
      BY <1>a, <3>1, RowParts
    <3> QED BY <1>a, <1>d, <3>1, <3>2 DEF BatchesMatch
  <2>2. ASSUME NEW d \in Cards, Exists(d)', cards'[d].kind = "outreach"
        PROVE  HasBatch(cards'[d]) <=> cards'[d].step \in {"review", "result"}
    BY <1>a, <1>r, <2>2 DEF BatchesMatch, HasBatch, Consistent
  <2>3. \A b \in BatchIds : batches'[b] # NoBatch => Exists(batches[b].card)'
    BY <1>a, <1>d, <1>r DEF BatchesMatch, TypeOK, Batch
  <2> QED BY <2>1, <2>2, <2>3 DEF BatchesMatch, HasBatch
<1>3. ASSUME NEW b \in BatchIds, batches'[b].status \in {"draft", "queued"}
      PROVE  cards'[batches'[b].card].batch = b /\ cards'[batches'[b].card].status # "cancelled"
  <2>1. batches[b].status \in {"draft", "queued"} /\ batches[b] # NoBatch /\ b # 0
    BY <1>d, <1>2, <1>3
  <2>2. batches'[b].card = batches[b].card /\ Exists(batches[b].card) /\ batches[b].card \in Cards
    BY <1>a, <1>d, <2>1 DEF BatchesMatch, TypeOK, Batch
  <2>3. cards[batches[b].card].batch = b /\ cards[batches[b].card].status # "cancelled"
    BY <1>a, <2>1 DEF OnlyTheReviewedBatch
  <2>4. batches[b].card # c
    BY <1>3, <1>d, <2>1, <2>3 DEF HasBatch
  <2> QED BY <1>r, <2>2, <2>3, <2>4
<1> QED BY <1>1, <1>3, <1>4, <1>d DEF OnlyTheReviewedBatch

(* What TypeOK says beside the cards, the batches and the operations.      *)
RestTyped ==
  /\ posting \in [Cards -> {"idle", "committed", "posted"}]
  /\ meta \in [Cards -> {"none", "PENDING"} \cup Decided]
  /\ posts \in [Cards -> Nat] /\ record \in Nat
  /\ screen \in [Cards -> [rev : Nat, basis : [text : Fields, record : Nat], shown : BOOLEAN]]
  /\ done \in [Cards -> [by : Approvers \cup {"nobody"}, text : Fields, record : Nat]]

LEMMA TypeParts ==
  TypeOK <=> /\ cards \in [Cards -> Rows] /\ batches \in [BatchIds -> Batch \cup {NoBatch}]
             /\ spent \in 0 .. MaxCommands /\ RestTyped /\ OwnsOutreach(cards)
BY DEF TypeOK, Rows, Batch, RestTyped, OwnsOutreach, Exists

LEMMA TypePartsAfter ==
  TypeOK' <=> /\ cards' \in [Cards -> Rows] /\ batches' \in [BatchIds -> Batch \cup {NoBatch}]
              /\ spent' \in 0 .. MaxCommands /\ RestTyped' /\ OwnsOutreach(cards')
BY DEF TypeOK, Rows, Batch, RestTyped, OwnsOutreach, Exists

LEMMA RecordKept ==
  ASSUME CardInv, NEW c \in Cards, Exists(c), NEW k \in CardShape, spent < MaxCommands, Record(c, k),
         k.status \in ACTIVE => cards[c].status \in ACTIVE,
         ~Submitted(c), UNCHANGED <<posting, posts>>, RestTyped',
         batches' = batches, k.batch = cards[c].batch, k.kind = "outreach" <=> cards[c].kind = "outreach",
         k.status = "cancelled" => ~HasBatch(cards[c]), Consistent(k)
  PROVE  CardInv'
<1>1. OneOpenCard' /\ SubmittedOnce' /\ TemplatePostedOnce'
  BY OwnCard
<1>2. BatchesMatch' /\ OnlyTheReviewedBatch' /\ OwnsOutreach(cards')
  BY KeptBatches
<1>3. cards' \in [Cards -> Rows] /\ spent' \in 0 .. MaxCommands
  BY Recorded DEF CardInv
<1> QED BY <1>1, <1>2, <1>3, TypeParts, TypePartsAfter DEF CardInv

LEMMA RecordDropped ==
  ASSUME CardInv, NEW c \in Cards, Exists(c), NEW k \in CardShape, spent < MaxCommands, Record(c, k),
         k.status \in ACTIVE => cards[c].status \in ACTIVE,
         ~Submitted(c), UNCHANGED <<posting, posts>>, RestTyped',
         batches' = DropBatch(cards[c]), k.batch \in {0, cards[c].batch},
         k.kind = "outreach" <=> cards[c].kind = "outreach", Consistent(k)
  PROVE  CardInv'
<1>1. OneOpenCard' /\ SubmittedOnce' /\ TemplatePostedOnce'
  BY OwnCard
<1>2. /\ BatchesMatch' /\ OnlyTheReviewedBatch' /\ OwnsOutreach(cards')
      /\ batches' \in [BatchIds -> Batch \cup {NoBatch}]
  BY DroppedBatches
<1>3. cards' \in [Cards -> Rows] /\ spent' \in 0 .. MaxCommands
  BY Recorded DEF CardInv
<1> QED BY <1>1, <1>2, <1>3, TypePartsAfter DEF CardInv

(* A card comes to the front, new or resumed, and the others step back.    *)
LEMMA InFront ==
  ASSUME CardInv, NEW c \in Cards, NEW k \in CardShape, cards' = [PauseOthers(c) EXCEPT ![c] = k],
         spent < MaxCommands, spent' = spent + 1,
         Exists(c) => k.kind = cards[c].kind /\ k.batch = cards[c].batch /\ k.step = cards[c].step,
         ~Exists(c) => k.batch = 0 /\ k.step = "details",
         k.status # "cancelled", Submitted(c) => OutOfForm(k),
         UNCHANGED <<batches, posting, posts>>, RestTyped'
  PROVE  CardInv'
<1>a. TypeOK /\ BatchesMatch /\ OnlyTheReviewedBatch /\ SubmittedOnce
  BY DEF CardInv
<1>b. cards \in [Cards -> Rows] /\ OwnsOutreach(cards) /\ batches \in [BatchIds -> Batch \cup {NoBatch}]
  BY <1>a, TypeParts
<1>p. /\ PauseOthers(c) \in [Cards -> Rows]
      /\ \A d \in Cards \ {c} :
           \/ PauseOthers(c)[d] = cards[d] /\ (Exists(d) => cards[d].status \notin ACTIVE)
           \/ Exists(d) /\ cards[d].status \in ACTIVE /\ PauseOthers(c)[d] = SetAside(cards[d])
  BY <1>a, PausedShape
<1>r. /\ cards' \in [Cards -> Rows] /\ cards'[c] = k /\ Exists(c)'
      /\ \A d \in Cards \ {c} :
           /\ Exists(d)' <=> Exists(d)
           /\ Exists(d) => /\ cards'[d].status \notin ACTIVE
                           /\ cards'[d].kind = cards[d].kind /\ cards'[d].step = cards[d].step
                           /\ cards'[d].batch = cards[d].batch
                           /\ cards[d].status # "cancelled" => cards'[d].status # "cancelled"
                           /\ OutOfForm(cards[d]) => OutOfForm(cards'[d])
  <2>1. cards' \in [Cards -> Rows] /\ cards'[c] = k /\ \A d \in Cards \ {c} : cards'[d] = PauseOthers(c)[d]
    BY <1>p DEF Rows
  <2>2. Exists(c)'
    BY <2>1, NoCardIsOther DEF Exists
  <2>3. ASSUME NEW d \in Cards \ {c}, cards'[d] = cards[d], Exists(d) => cards[d].status \notin ACTIVE
        PROVE  /\ Exists(d)' <=> Exists(d)
               /\ Exists(d) => /\ cards'[d].status \notin ACTIVE
                               /\ cards'[d].kind = cards[d].kind /\ cards'[d].step = cards[d].step
                               /\ cards'[d].batch = cards[d].batch
                               /\ cards[d].status # "cancelled" => cards'[d].status # "cancelled"
                               /\ OutOfForm(cards[d]) => OutOfForm(cards'[d])
    BY <2>3 DEF Exists
  <2>4. ASSUME NEW d \in Cards \ {c}, Exists(d), cards[d].status \in ACTIVE, cards'[d] = SetAside(cards[d])
        PROVE  /\ Exists(d)'
               /\ cards'[d].status \notin ACTIVE
               /\ cards'[d].kind = cards[d].kind /\ cards'[d].step = cards[d].step
               /\ cards'[d].batch = cards[d].batch
               /\ cards[d].status # "cancelled" => cards'[d].status # "cancelled"
               /\ OutOfForm(cards[d]) => OutOfForm(cards'[d])
    <3>1. cards[d] \in CardShape
      BY <1>a, <2>4, RowParts
    <3>2. /\ cards'[d] \in CardShape /\ cards'[d].kind = cards[d].kind /\ cards'[d].step = cards[d].step
          /\ cards'[d].batch = cards[d].batch /\ cards'[d].status = "paused"
          /\ Behind(cards[d]) => cards'[d].bg
      BY <2>4, <3>1, SetAsideShape
    <3>3. OutOfForm(cards[d]) => Behind(cards[d])
      BY <2>4 DEF OutOfForm, Behind, ACTIVE, Background
    <3> QED BY <3>2, <3>3, NoCardIsOther DEF Exists, OutOfForm, ACTIVE
  <2> QED BY <1>p, <2>1, <2>2, <2>3, <2>4
<1>1. OneOpenCard'
  BY <1>r DEF OneOpenCard
<1>2. SubmittedOnce' /\ TemplatePostedOnce'
  BY <1>r DEF CardInv, SubmittedOnce, TemplatePostedOnce, Submitted
<1>3. OwnsOutreach(cards')
  BY <1>b, <1>r DEF OwnsOutreach, Exists, HasBatch
<1>4. BatchesMatch'
  <2>1. ASSUME NEW d \in Cards, Exists(d)', HasBatch(cards'[d])
        PROVE  batches'[cards'[d].batch] # NoBatch /\ batches'[cards'[d].batch].card = d
    BY <1>a, <1>r, <2>1 DEF BatchesMatch, HasBatch
  <2>2. ASSUME NEW d \in Cards, Exists(d)', cards'[d].kind = "outreach"
        PROVE  HasBatch(cards'[d]) <=> cards'[d].step \in {"review", "result"}
    BY <1>a, <1>r, <2>2 DEF BatchesMatch, HasBatch
  <2>3. \A b \in BatchIds : batches'[b] # NoBatch => Exists(batches[b].card)'
    BY <1>a, <1>b, <1>r DEF BatchesMatch, Batch
  <2> QED BY <2>1, <2>2, <2>3 DEF BatchesMatch, HasBatch
<1>5. OnlyTheReviewedBatch'
  <2> SUFFICES ASSUME NEW b \in BatchIds, batches[b].status \in {"draft", "queued"}
               PROVE  cards'[batches[b].card].batch = b /\ cards'[batches[b].card].status # "cancelled"
    BY DEF OnlyTheReviewedBatch
  <2>1. batches[b] # NoBatch /\ batches[b].card \in Cards /\ Exists(batches[b].card)
    BY <1>a, <1>b DEF NoBatch, Batch, BatchesMatch
  <2> QED BY <1>a, <1>r, <2>1 DEF OnlyTheReviewedBatch
<1>6. spent' \in 0 .. MaxCommands
  BY <1>a, BoundsAreNatural DEF TypeOK
<1> QED BY <1>b, <1>r, <1>1, <1>2, <1>3, <1>4, <1>5, <1>6, TypePartsAfter DEF CardInv

(* A card that is brought up to date in the background.                    *)
LEMMA Quiet ==
  ASSUME CardInv, cards' \in [Cards -> Rows],
         \A d \in Cards :
           /\ Exists(d)' <=> Exists(d)
           /\ Exists(d) => /\ cards'[d].kind = cards[d].kind /\ cards'[d].step = cards[d].step
                           /\ cards'[d].batch = cards[d].batch
                           /\ cards'[d].status \in {cards[d].status, "completed"}
                           /\ cards[d].kind = "create_template" => cards'[d].bg = cards[d].bg
           /\ posting'[d] \in {posting[d], "idle"},
         UNCHANGED <<batches, posts, spent>>, RestTyped'
  PROVE  CardInv'
<1>a. TypeOK /\ BatchesMatch /\ OnlyTheReviewedBatch /\ OneOpenCard /\ SubmittedOnce /\ TemplatePostedOnce
  BY DEF CardInv
<1>b. OwnsOutreach(cards) /\ batches \in [BatchIds -> Batch \cup {NoBatch}] /\ spent \in 0 .. MaxCommands
  BY <1>a, TypeParts
<1>1. TypeOK'
  <2>1. OwnsOutreach(cards')
    BY <1>b DEF OwnsOutreach, HasBatch, Exists
  <2> QED BY <1>b, <2>1, TypePartsAfter
<1>2. OneOpenCard'
  BY <1>a DEF OneOpenCard, ACTIVE
<1>3. SubmittedOnce' /\ TemplatePostedOnce'
  <2>1. \A d \in Cards : Submitted(d)' => Submitted(d)
    BY DEF Submitted
  <2>2. ASSUME NEW d \in Cards, Exists(d), OutOfForm(cards[d])
        PROVE  OutOfForm(cards'[d])
    BY <2>2 DEF OutOfForm
  <2> QED BY <1>a, <2>1, <2>2 DEF SubmittedOnce, TemplatePostedOnce
<1>4. BatchesMatch'
  <2>1. ASSUME NEW d \in Cards, Exists(d)', HasBatch(cards'[d])
        PROVE  batches'[cards'[d].batch] # NoBatch /\ batches'[cards'[d].batch].card = d
    BY <1>a, <2>1 DEF BatchesMatch, HasBatch
  <2>2. ASSUME NEW d \in Cards, Exists(d)', cards'[d].kind = "outreach"
        PROVE  HasBatch(cards'[d]) <=> cards'[d].step \in {"review", "result"}
    BY <1>a, <2>2 DEF BatchesMatch, HasBatch
  <2>3. \A b \in BatchIds : batches'[b] # NoBatch => Exists(batches[b].card)'
    BY <1>a, <1>b DEF BatchesMatch, Batch
  <2> QED BY <2>1, <2>2, <2>3 DEF BatchesMatch, HasBatch
<1>5. OnlyTheReviewedBatch'
  <2> SUFFICES ASSUME NEW b \in BatchIds, batches[b].status \in {"draft", "queued"}
               PROVE  cards'[batches[b].card].batch = b /\ cards'[batches[b].card].status # "cancelled"
    BY DEF OnlyTheReviewedBatch
  <2>1. batches[b] # NoBatch /\ batches[b].card \in Cards /\ Exists(batches[b].card)
    BY <1>a, <1>b DEF NoBatch, Batch, BatchesMatch
  <2> QED BY <1>a, <2>1 DEF OnlyTheReviewedBatch
<1> QED BY <1>1, <1>2, <1>3, <1>4, <1>5 DEF CardInv

(* The card a command finds, and the card it leaves after the edit.        *)
LEMMA OwnParts ==
  ASSUME CardInv, NEW c \in Cards, Exists(c)
  PROVE  /\ Consistent(cards[c]) /\ (HasBatch(cards[c]) => cards[c].kind = "outreach")
         /\ RestTyped /\ TypeOK /\ BatchesMatch
BY TypeParts DEF CardInv, BatchesMatch, Consistent, OwnsOutreach, Exists

LEMMA EditedParts ==
  ASSUME CardInv, NEW c \in Cards, Exists(c), NEW f \in Inputs
  PROVE  LET e == Edited(cards[c], f) IN
         /\ e \in CardShape /\ e.kind = cards[c].kind /\ e.status \in {cards[c].status, "awaiting_input"}
         /\ e.batch \in {0, cards[c].batch}
         /\ (f = NoFields => e.batch = cards[c].batch)
         /\ (cards[c].kind # "outreach" => e.batch = cards[c].batch /\ ~HasBatch(e))
         /\ Consistent(e)
<1> DEFINE k == cards[c]
           e == Edited(k, f)
<1>0. k \in CardShape
  BY RowParts DEF CardInv
<1>1. /\ e \in CardShape /\ e.kind = k.kind /\ e.status \in {k.status, "awaiting_input"}
      /\ e.batch = IF f = NoFields \/ k.kind # "outreach" THEN k.batch ELSE 0
      /\ f # NoFields => e.step \in {"details", "compose"}
      /\ f = NoFields /\ k.kind # "records" => e = k
  BY <1>0, EditedShape
<1>2. Consistent(k) /\ (HasBatch(k) => k.kind = "outreach")
  BY OwnParts
<1> HIDE DEF k, e
<1>3. Consistent(e)
  BY <1>1, <1>2 DEF Consistent, HasBatch
<1>4. k.kind # "outreach" => e.batch = k.batch /\ ~HasBatch(e)
  BY <1>1, <1>2 DEF HasBatch
<1> QED BY <1>1, <1>3, <1>4 DEF k, e

(* After an edit: the batch is dropped with the fields or stays with them. *)
LEMMA RecordEdited ==
  ASSUME CardInv, NEW c \in Cards, Exists(c), NEW f \in Inputs, NEW k \in CardShape, spent < MaxCommands,
         Record(c, k), cards[c].status \in ACTIVE, k.status # "cancelled",
         ~Submitted(c), UNCHANGED <<posting, meta, posts, record, screen, done>>,
         batches' = EditBatches(cards[c], f) \/ (cards[c].kind # "outreach" /\ batches' = batches),
         k.batch = Edited(cards[c], f).batch, k.kind = "outreach" <=> cards[c].kind = "outreach",
         Consistent(k)
  PROVE  CardInv'
<1>1. RestTyped' /\ TypeOK
  BY OwnParts DEF RestTyped
<1>2. /\ k.batch \in {0, cards[c].batch} /\ (f = NoFields => k.batch = cards[c].batch)
      /\ cards[c].kind # "outreach" => k.batch = cards[c].batch
  BY EditedParts
<1>3. CASE batches' = batches /\ k.batch = cards[c].batch
  BY <1>1, <1>3, RecordKept
<1>4. CASE batches' = DropBatch(cards[c])
  BY <1>1, <1>2, <1>4, RecordDropped
<1> QED BY <1>2, <1>3, <1>4 DEF EditBatches
-----------------------------------------------------------------------------
(***************************************************************************)
(* The operator's commands.                                                *)
(***************************************************************************)
LEMMA StartKeeps ==
  ASSUME CardInv, NEW c \in Cards, NEW kind \in Kinds, NEW f \in Fields, NEW r \in BOOLEAN,
         Start(c, kind, f, r)
  PROVE  CardInv'
<1>1. LET k == NewCard(kind, f, r) IN k \in CardShape /\ k.batch = 0 /\ k.step = "details"
  BY NewCardShape DEF Inputs
<1>2. NewCard(kind, f, r).status # "cancelled"
  BY DEF NewCard, Patch
<1>3. ~Submitted(c)
  BY DEF CardInv, SubmittedOnce, Start
<1>4. RestTyped'
  BY TypeParts DEF CardInv, RestTyped, Start
<1> QED BY <1>1, <1>2, <1>3, <1>4, InFront DEF Start

LEMMA LaunchKeeps ==
  ASSUME CardInv, NEW c \in Cards, NEW d \in Cards, NEW kind \in Kinds, NEW f \in Fields, NEW r \in BOOLEAN,
         Launch(c, d, kind, f, r)
  PROVE  CardInv'
<1>1. LET k == NewCard(kind, f, r) IN k \in CardShape /\ k.batch = 0 /\ k.step = "details"
  BY NewCardShape DEF Inputs
<1>2. NewCard(kind, f, r).status # "cancelled"
  BY DEF NewCard, Patch
<1>3. ~Submitted(d)
  BY DEF CardInv, SubmittedOnce, Launch
<1>4. RestTyped'
  BY TypeParts DEF CardInv, RestTyped, Launch
<1>5. spent < MaxCommands
  BY DEF Launch, Command
<1> QED BY <1>1, <1>2, <1>3, <1>4, <1>5, InFront DEF Launch

LEMMA ResumeKeeps ==
  ASSUME CardInv, NEW c \in Cards, NEW r \in BOOLEAN, Resume(c, r)
  PROVE  CardInv'
<1> DEFINE k == cards[c]
           t == IF k.kind = "outreach" /\ ~HasBatch(k) THEN r ELSE k.templates
           s == IF k.bg THEN "running" ELSE IF k.step = "review" THEN "ready" ELSE "awaiting_input"
           new == [k EXCEPT !.templates = t, !.status = s, !.rev = k.rev + 1]
<1>0. Command(c, "resume", NoFields)
  BY DEF Resume
<1>1. /\ Exists(c) /\ k \in CardShape /\ spent < MaxCommands
      /\ k.status \notin TERMINAL /\ k.status # "running"
  BY <1>0, CommandParts
<1>2. t \in BOOLEAN /\ s \in {"running", "ready", "awaiting_input"} /\ k.rev + 1 \in Nat
  BY <1>1 DEF CardShape
<1>3. /\ new \in CardShape /\ new.kind = k.kind /\ new.batch = k.batch /\ new.step = k.step
      /\ new.status = s
  <2> HIDE DEF t, s, k
  <2>1. [k EXCEPT !.templates = t] \in CardShape
    BY <1>1, <1>2, FieldSet
  <2>2. [k EXCEPT !.templates = t, !.status = s] \in CardShape
    BY <1>2, <2>1, FieldSet DEF Statuses, ACTIVE
  <2>3. new \in CardShape
    BY <1>2, <2>2, FieldSet
  <2> QED BY <1>1, <2>3 DEF CardShape
<1>4. Submitted(c) => OutOfForm(new)
  <2> SUFFICES ASSUME Submitted(c) PROVE OutOfForm(new)
    OBVIOUS
  <2>1. OutOfForm(k)
    BY DEF CardInv, SubmittedOnce
  <2>2. s = "running"
    BY <1>1, <2>1 DEF OutOfForm, TERMINAL
  <2> HIDE DEF new
  <2> QED BY <1>3, <2>1, <2>2 DEF OutOfForm
<1>5. RestTyped'
  BY TypeParts DEF CardInv, RestTyped, Resume
<1>6. cards' = [PauseOthers(c) EXCEPT ![c] = new]
  BY <1>1, PausedShape DEF Resume, CardInv
<1>7. spent' = spent + 1 /\ UNCHANGED <<batches, posting, posts>>
  BY DEF Resume
<1> HIDE DEF new
<1>8. new.status # "cancelled"
  BY <1>2, <1>3
<1> QED BY <1>1, <1>3, <1>4, <1>5, <1>6, <1>7, <1>8, InFront

LEMMA PauseKeeps ==
  ASSUME CardInv, NEW c \in Cards, NEW f \in Inputs, Pause(c, f)
  PROVE  CardInv'
<1> DEFINE k == cards[c]
           kept == IF f # NoFields THEN Invalidate(k) ELSE k
           bg == k.bg \/ (k.kind = "outreach" /\ k.status = "running")
           behind == [kept EXCEPT !.bg = bg]
           new == [Patch(behind, f) EXCEPT !.status = "paused"]
<1>1. /\ Exists(c) /\ k \in CardShape /\ spent < MaxCommands /\ ~Submitted(c)
      /\ k.status \in ACTIVE
  BY CommandParts DEF Pause
<1>2. /\ kept \in CardShape /\ kept.kind = k.kind /\ kept.step = k.step /\ kept.bg = k.bg
      /\ kept.status = k.status
      /\ kept.batch = IF f # NoFields /\ k.kind = "outreach" THEN 0 ELSE k.batch
  BY <1>1, InvalidateShape
<1>3. /\ behind \in CardShape /\ behind.kind = k.kind /\ behind.step = k.step
      /\ behind.batch = kept.batch
  <2>1. bg \in BOOLEAN
    <3>1. CASE k.kind = "outreach" /\ k.status = "running"
      BY <3>1
    <3>2. CASE ~(k.kind = "outreach" /\ k.status = "running")
      BY <1>1, <3>2 DEF CardShape
    <3> QED BY <3>1, <3>2
  <2> HIDE DEF kept, bg
  <2> QED BY <1>2, <2>1, FieldSet DEF CardShape
<1>4. behind = [kept EXCEPT !.bg = @ \/ (k.kind = "outreach" /\ k.status = "running")]
  <2> HIDE DEF kept
  <2> QED BY <1>2 DEF CardShape
<1>5. Record(c, new)
  BY <1>4 DEF Pause
<1> HIDE DEF behind, kept, bg
<1>6. /\ new \in CardShape /\ new.kind = k.kind /\ new.status = "paused"
      /\ new.batch = kept.batch
      /\ f = NoFields => new.step = k.step
      /\ f # NoFields => new.step \in {"details", "compose"}
  <2> DEFINE p == Patch(behind, f)
  <2>1. /\ p \in CardShape /\ p.kind = k.kind /\ p.batch = kept.batch
        /\ f = NoFields => p.step = k.step
        /\ f # NoFields => p.step \in {"details", "compose"}
    BY <1>3, PatchShape
  <2> HIDE DEF p
  <2>2. [p EXCEPT !.status = "paused"] \in CardShape
    BY <2>1, FieldSet DEF Statuses
  <2>3. /\ [p EXCEPT !.status = "paused"].kind = p.kind /\ [p EXCEPT !.status = "paused"].step = p.step
        /\ [p EXCEPT !.status = "paused"].batch = p.batch
        /\ [p EXCEPT !.status = "paused"].status = "paused"
    BY <2>1 DEF CardShape
  <2> QED BY <2>1, <2>2, <2>3 DEF p
<1> HIDE DEF new
<1>7. Consistent(k) /\ RestTyped' /\ UNCHANGED <<posting, posts>>
  BY <1>1, OwnParts DEF RestTyped, Pause
<1>8. Consistent(new)
  BY <1>2, <1>6, <1>7 DEF Consistent, HasBatch
<1>9. new.status \notin ACTIVE \cup {"cancelled"}
  BY <1>6 DEF ACTIVE
<1>10. CASE f = NoFields
  <2>1. batches' = batches /\ new.batch = k.batch
    BY <1>2, <1>6, <1>10 DEF Pause
  <2> QED BY <1>1, <1>5, <1>6, <1>7, <1>8, <1>9, <2>1, RecordKept
<1>11. CASE f # NoFields
  <2>1. batches' = DropBatch(k) /\ new.batch \in {0, k.batch}
    BY <1>2, <1>6, <1>11 DEF Pause
  <2> QED BY <1>1, <1>5, <1>6, <1>7, <1>8, <1>9, <2>1, RecordDropped
<1> QED BY <1>10, <1>11

LEMMA CancelKeeps ==
  ASSUME CardInv, NEW c \in Cards, Cancel(c)
  PROVE  CardInv'
<1> DEFINE k == cards[c]
           out == IF k.kind = "outreach" THEN "cancelled" ELSE k.out
           new == [k EXCEPT !.status = "cancelled", !.out = out]
<1>1. Exists(c) /\ k \in CardShape /\ spent < MaxCommands /\ ~Submitted(c)
  BY CommandParts DEF Cancel
<1>2. out \in Outs
  BY <1>1 DEF CardShape, Outs
<1>3. Record(c, new) /\ batches' = DropBatch(k) /\ UNCHANGED <<posting, posts>>
  BY DEF Cancel
<1>4. Consistent(k) /\ RestTyped'
  BY <1>1, OwnParts DEF RestTyped, Cancel
<1> HIDE DEF k, out
<1>5. /\ new \in CardShape /\ new.kind = k.kind /\ new.step = k.step /\ new.batch = k.batch
      /\ new.status = "cancelled"
  <2>1. new \in CardShape
    BY <1>1, <1>2, FieldSet DEF Statuses, TERMINAL
  <2> QED BY <1>1, <2>1 DEF CardShape
<1> HIDE DEF new
<1>6. Consistent(new) /\ new.status \notin ACTIVE
  BY <1>4, <1>5 DEF Consistent, HasBatch, ACTIVE
<1> QED BY <1>1, <1>3, <1>4, <1>5, <1>6, RecordDropped DEF k

LEMMA BackKeeps ==
  ASSUME CardInv, NEW c \in Cards, Back(c)
  PROVE  CardInv'
<1> DEFINE k == cards[c]
           kept == Invalidate(k)
           step == IF k.kind = "outreach" /\ k.step = "review" THEN "compose" ELSE "details"
           new == [kept EXCEPT !.status = "awaiting_input", !.step = step]
<1>1. /\ Exists(c) /\ k \in CardShape /\ spent < MaxCommands /\ ~Submitted(c)
      /\ k.status \in ACTIVE
  BY CommandParts DEF Back
<1>2. /\ kept \in CardShape /\ kept.kind = k.kind
      /\ kept.batch = IF k.kind = "outreach" THEN 0 ELSE k.batch
  BY <1>1, InvalidateShape
<1>3. Record(c, new) /\ batches' = DropBatch(k) /\ UNCHANGED <<posting, posts>>
  BY DEF Back
<1>4. RestTyped'
  BY <1>1, OwnParts DEF RestTyped, Back
<1>5. step \in {"compose", "details"}
  OBVIOUS
<1> HIDE DEF k, kept, step
<1>6. /\ new \in CardShape /\ new.kind = k.kind /\ new.step = step /\ new.batch = kept.batch
      /\ new.status = "awaiting_input"
  <2>1. new \in CardShape
    BY <1>2, <1>5, FieldSet DEF Statuses, Steps, ACTIVE
  <2> QED BY <1>2, <2>1 DEF CardShape
<1> HIDE DEF new
<1>7. Consistent(new) /\ new.batch \in {0, k.batch}
  BY <1>2, <1>5, <1>6 DEF Consistent, HasBatch
<1> QED BY <1>1, <1>2, <1>3, <1>4, <1>6, <1>7, RecordDropped DEF k

(* What an edit finds.                                                     *)
LEMMA EditsParts ==
  ASSUME CardInv, NEW c \in Cards, NEW f \in Inputs, NEW action \in {"update", "continue"}, Edits(c, action, f)
  PROVE  /\ Exists(c) /\ cards[c] \in CardShape /\ spent < MaxCommands /\ ~Submitted(c)
         /\ cards[c].status \in ACTIVE
         /\ LET e == Edited(cards[c], f) IN
            /\ e \in CardShape /\ e.kind = cards[c].kind /\ Consistent(e)
            /\ e.status \in ACTIVE
            /\ cards[c].kind # "outreach" => ~HasBatch(e)
<1>1. /\ Exists(c) /\ cards[c] \in CardShape /\ spent < MaxCommands /\ ~Submitted(c)
      /\ cards[c].status \in ACTIVE
  BY CommandParts DEF Edits
<1> QED BY <1>1, EditedParts DEF ACTIVE

LEMMA UpdateKeeps ==
  ASSUME CardInv, NEW c \in Cards, NEW f \in Inputs, Update(c, f)
  PROVE  CardInv'
<1> DEFINE e == Edited(cards[c], f)
<1>1. /\ Exists(c) /\ spent < MaxCommands /\ ~Submitted(c) /\ cards[c].status \in ACTIVE
      /\ e \in CardShape /\ e.kind = cards[c].kind /\ Consistent(e) /\ e.status \in ACTIVE
  BY EditsParts DEF Update
<1>2. /\ Record(c, e) /\ batches' = EditBatches(cards[c], f)
      /\ UNCHANGED <<posting, meta, posts, record, screen, done>>
  BY DEF Update
<1>3. e.status # "cancelled" /\ e.batch = Edited(cards[c], f).batch
  BY <1>1 DEF ACTIVE
<1> HIDE DEF e
<1> QED BY <1>1, <1>2, <1>3, RecordEdited

LEMMA ContinueFormKeeps ==
  ASSUME CardInv, NEW c \in Cards, NEW f \in Inputs, ContinueForm(c, f)
  PROVE  CardInv'
<1> DEFINE e == Edited(cards[c], f)
           new == IF e.kind = "person" /\ e.fields # Blank
                  THEN [e EXCEPT !.kind = "contact", !.fields = Blank] ELSE e
<1>1. /\ Exists(c) /\ spent < MaxCommands /\ ~Submitted(c) /\ cards[c].status \in ACTIVE
      /\ e \in CardShape /\ e.kind = cards[c].kind /\ Consistent(e) /\ e.status \in ACTIVE
  BY EditsParts DEF ContinueForm
<1>2. /\ Record(c, new) /\ batches' = EditBatches(cards[c], f)
      /\ UNCHANGED <<posting, meta, posts, record, screen, done>>
  BY DEF ContinueForm
<1>3. e.batch = Edited(cards[c], f).batch
  OBVIOUS
<1> HIDE DEF e
<1>4. /\ new \in CardShape /\ new.batch = e.batch /\ new.status = e.status /\ new.step = e.step
      /\ new.kind = "outreach" <=> e.kind = "outreach"
  <2>1. [e EXCEPT !.kind = "contact", !.fields = Blank] \in CardShape
    BY <1>1, FieldSet DEF Kinds, Fields
  <2> QED BY <1>1, <2>1 DEF CardShape
<1> HIDE DEF new
<1>5. Consistent(new) /\ new.status # "cancelled"
  BY <1>1, <1>4 DEF Consistent, HasBatch, ACTIVE
<1> QED BY <1>1, <1>2, <1>3, <1>4, <1>5, RecordEdited

(* The card of a review.                                                   *)
LEMMA ReviewedShape ==
  ASSUME TypeOK, NEW k \in CardShape
  PROVE  /\ Reviewed(k) \in CardShape /\ Reviewed(k).kind = k.kind /\ Reviewed(k).batch = k.batch
         /\ Reviewed(k).step = "review" /\ Reviewed(k).status = "ready"
<1>1. [text |-> k.fields, record |-> record] \in [text : Fields, record : Nat]
  BY DEF TypeOK, CardShape
<1> DEFINE basis == [text |-> k.fields, record |-> record]
<1>2. Reviewed(k) = [k EXCEPT !.step = "review", !.status = "ready", !.basis = basis]
  BY DEF Reviewed
<1>3. basis \in [text : Fields, record : Nat]
  BY <1>1
<1> HIDE DEF basis
<1> DEFINE new == [k EXCEPT !.step = "review", !.status = "ready", !.basis = basis]
<1>4. new \in CardShape
  BY <1>3, FieldSet DEF Steps, Statuses, ACTIVE
<1>5. new.kind = k.kind /\ new.batch = k.batch /\ new.step = "review" /\ new.status = "ready"
  BY DEF CardShape
<1> QED BY <1>2, <1>4, <1>5

LEMMA ContinueReviewKeeps ==
  ASSUME CardInv, NEW c \in Cards, NEW f \in Inputs, NEW kind \in Kinds \ {"outreach"}, ContinueReview(c, f, kind)
  PROVE  CardInv'
<1> DEFINE e == Edited(cards[c], f)
<1>1. /\ Exists(c) /\ spent < MaxCommands /\ ~Submitted(c) /\ cards[c].status \in ACTIVE
      /\ e \in CardShape /\ e.kind = cards[c].kind
  BY EditsParts DEF ContinueReview
<1>2. /\ Record(c, Reviewed(e)) /\ batches' = batches /\ e.kind = kind
      /\ UNCHANGED <<posting, meta, posts, record, screen, done>>
  BY DEF ContinueReview
<1>3. e.batch = Edited(cards[c], f).batch
  OBVIOUS
<1> HIDE DEF e
<1>4. /\ Reviewed(e) \in CardShape /\ Reviewed(e).kind = e.kind /\ Reviewed(e).batch = e.batch
      /\ Reviewed(e).status = "ready"
  BY <1>1, ReviewedShape DEF CardInv
<1>5. Consistent(Reviewed(e))
  BY <1>2, <1>4 DEF Consistent
<1> QED BY <1>1, <1>2, <1>3, <1>4, <1>5, RecordEdited

LEMMA ContinueVersionKeeps ==
  ASSUME CardInv, NEW c \in Cards, NEW f \in Inputs, NEW ok \in BOOLEAN, ContinueVersion(c, f, ok)
  PROVE  CardInv'
<1> DEFINE e == Edited(cards[c], f)
           new == IF ok THEN Reviewed(e) ELSE [e EXCEPT !.step = "details", !.status = "failed"]
<1>1. /\ Exists(c) /\ spent < MaxCommands /\ ~Submitted(c) /\ cards[c].status \in ACTIVE
      /\ e \in CardShape /\ e.kind = cards[c].kind
  BY EditsParts DEF ContinueVersion
<1>2. /\ Record(c, new) /\ batches' = batches /\ e.kind = "publish"
      /\ UNCHANGED <<posting, meta, posts, record, screen, done>>
  BY DEF ContinueVersion
<1>3. e.batch = Edited(cards[c], f).batch
  OBVIOUS
<1> HIDE DEF e
<1>4. new \in CardShape /\ new.kind = e.kind /\ new.batch = e.batch /\ new.status \in {"ready", "failed"}
  <2>1. [e EXCEPT !.step = "details", !.status = "failed"] \in CardShape
    BY <1>1, FieldSet DEF Steps, Statuses, ACTIVE
  <2>2. Reviewed(e) \in CardShape /\ Reviewed(e).kind = e.kind /\ Reviewed(e).batch = e.batch
        /\ Reviewed(e).status = "ready"
    BY <1>1, ReviewedShape DEF CardInv
  <2> QED BY <1>1, <2>1, <2>2 DEF CardShape
<1> HIDE DEF new
<1>5. Consistent(new)
  BY <1>2, <1>4 DEF Consistent
<1> QED BY <1>1, <1>2, <1>3, <1>4, <1>5, RecordEdited

LEMMA ContinueOutreachKeeps ==
  ASSUME CardInv, NEW c \in Cards, NEW f \in Inputs, NEW ok \in BOOLEAN, ContinueOutreach(c, f, ok)
  PROVE  CardInv'
<1> DEFINE e == Edited(cards[c], f)
           kept == EditBatches(cards[c], f)
<1>1. /\ Exists(c) /\ spent < MaxCommands /\ ~Submitted(c) /\ cards[c].status \in ACTIVE
      /\ e \in CardShape /\ e.kind = cards[c].kind /\ Consistent(e) /\ e.status \in ACTIVE
      /\ cards[c] \in CardShape
  BY EditsParts DEF ContinueOutreach
<1>2. /\ e.kind = "outreach" /\ e.fields # Blank
      /\ UNCHANGED <<posting, meta, posts, record, screen, done>>
  BY DEF ContinueOutreach
<1>3. e.batch = Edited(cards[c], f).batch /\ kept = EditBatches(cards[c], f)
      /\ (f = NoFields => e = cards[c])
  BY <1>1, <1>2, EditedShape
<1>4. CASE /\ e.step = "details"
           /\ Record(c, [e EXCEPT !.templates = TRUE, !.step = "compose", !.status = "awaiting_input"])
           /\ batches' = kept
  <2> DEFINE new == [e EXCEPT !.templates = TRUE, !.step = "compose", !.status = "awaiting_input"]
  <2> HIDE DEF e, kept
  <2>1. new \in CardShape
    BY <1>1, FieldSet DEF Steps, Statuses, ACTIVE
  <2>2. /\ new.kind = e.kind /\ new.batch = e.batch /\ new.step = "compose"
        /\ new.status = "awaiting_input"
    BY <1>1 DEF CardShape
  <2>3. Consistent(new)
    BY <1>1, <1>4, <2>2 DEF Consistent, HasBatch
  <2>4. Record(c, new)
    BY <1>4
  <2> HIDE DEF new
  <2> QED BY <1>1, <1>2, <1>3, <1>4, <2>1, <2>2, <2>3, <2>4, RecordEdited
<1>5. CASE Record(c, [e EXCEPT !.status = "failed"]) /\ batches' = kept
  <2> DEFINE new == [e EXCEPT !.status = "failed"]
  <2> HIDE DEF e, kept
  <2>1. new \in CardShape
    BY <1>1, FieldSet DEF Statuses, ACTIVE
  <2>2. new.kind = e.kind /\ new.batch = e.batch /\ new.step = e.step /\ new.status = "failed"
    BY <1>1 DEF CardShape
  <2>3. Consistent(new)
    BY <1>1, <2>2 DEF Consistent, HasBatch
  <2>4. Record(c, new)
    BY <1>5
  <2> HIDE DEF new
  <2> QED BY <1>1, <1>2, <1>3, <1>5, <2>1, <2>2, <2>3, <2>4, RecordEdited
<1>6. ASSUME e.step = "compose", NEW b \in BatchIds, batches[b] = NoBatch,
             batches' = [kept EXCEPT ![b] = [card |-> c, status |-> "draft", text |-> e.fields, pending |-> FALSE]],
             Record(c, [Reviewed(e) EXCEPT !.batch = b])
      PROVE  CardInv'
  <2> DEFINE new == [Reviewed(e) EXCEPT !.batch = b]
             draft == [card |-> c, status |-> "draft", text |-> e.fields, pending |-> FALSE]
  <2>a. TypeOK /\ BatchesMatch /\ OnlyTheReviewedBatch /\ RestTyped /\ b # 0
    BY <1>1, OwnParts DEF CardInv, BatchIds
  <2>b. batches \in [BatchIds -> Batch \cup {NoBatch}] /\ OwnsOutreach(cards)
    BY <2>a, TypeParts
  <2>1. /\ kept \in [BatchIds -> Batch \cup {NoBatch}]
        /\ \A x \in BatchIds : /\ kept[x] = NoBatch <=> batches[x] = NoBatch
                               /\ kept[x] # NoBatch => kept[x].card = batches[x].card
                               /\ kept[x].status \in {batches[x].status, "cancelled"}
        /\ f # NoFields /\ HasBatch(cards[c]) => kept[cards[c].batch].status = "cancelled"
    BY <1>1, <2>a, <2>b, DroppedBatch DEF EditBatches
  <2>2. ~HasBatch(e)
    BY <1>1, <1>2, <1>6 DEF Consistent
  <2>3. \A x \in BatchIds : batches[x].status \in {"draft", "queued"} =>
             batches[x] # NoBatch /\ x # 0 /\ batches[x].card \in Cards /\ Exists(batches[x].card)
    BY <2>a, <2>b DEF NoBatch, BatchIds, Batch, BatchesMatch
  <2> HIDE DEF e, kept
  <2>4. \A x \in BatchIds : kept[x].status \in {"draft", "queued"} => batches[x].card # c
    <3> SUFFICES ASSUME NEW x \in BatchIds, kept[x].status \in {"draft", "queued"}, batches[x].card = c
                 PROVE  FALSE
      OBVIOUS
    <3>1. batches[x].status \in {"draft", "queued"}
      BY <2>1
    <3>2. cards[c].batch = x /\ HasBatch(cards[c])
      BY <2>a, <2>3, <3>1 DEF OnlyTheReviewedBatch, HasBatch
    <3> QED BY <1>3, <2>1, <2>2, <3>2
  <2>5. /\ new \in CardShape /\ new.kind = "outreach" /\ new.batch = b /\ new.step = "review"
        /\ new.status = "ready"
    <3>1. /\ Reviewed(e) \in CardShape /\ Reviewed(e).kind = "outreach" /\ Reviewed(e).step = "review"
          /\ Reviewed(e).status = "ready"
      BY <1>1, <1>2, <2>a, ReviewedShape
    <3> QED BY <3>1 DEF CardShape
  <2>6. Record(c, new)
    BY <1>6
  <2> HIDE DEF new
  <2>7. OneOpenCard' /\ SubmittedOnce' /\ TemplatePostedOnce'
    BY <1>1, <1>2, <2>5, <2>6, OwnCard
  <2>8. /\ cards' \in [Cards -> Rows] /\ spent' \in 0 .. MaxCommands
        /\ \A d \in Cards : /\ d # c => cards'[d] = cards[d]
                            /\ Exists(d)' <=> Exists(d)
        /\ cards'[c].kind = "outreach" /\ cards'[c].batch = b /\ cards'[c].step = "review"
        /\ cards'[c].status = "ready"
    BY <1>1, <2>a, <2>5, <2>6, Recorded
  <2>9. draft \in Batch /\ draft.card = c
    BY <1>1, <1>2 DEF Batch, CardShape, Fields
  <2>10. /\ batches' \in [BatchIds -> Batch \cup {NoBatch}] /\ batches'[b] = draft
         /\ \A x \in BatchIds \ {b} : batches'[x] = kept[x]
    <3> HIDE DEF draft
    <3>1. batches' = [kept EXCEPT ![b] = draft]
      BY <1>6 DEF draft
    <3> QED BY <2>1, <2>9, <3>1
  <2>11. BatchesMatch'
    <3>1. ASSUME NEW d \in Cards, Exists(d)', HasBatch(cards'[d])
          PROVE  batches'[cards'[d].batch] # NoBatch /\ batches'[cards'[d].batch].card = d
      <4>1. CASE d = c
        BY <2>8, <2>9, <2>10, <4>1, NoCardIsOther
      <4>2. CASE d # c
        <5>1. cards'[d] = cards[d] /\ Exists(d) /\ HasBatch(cards[d])
          BY <2>8, <3>1, <4>2
        <5>2. cards[d].batch \in BatchIds /\ batches[cards[d].batch] # NoBatch /\ batches[cards[d].batch].card = d
          BY <2>a, <5>1, RowParts DEF BatchesMatch
        <5> QED BY <1>6, <2>1, <2>10, <5>1, <5>2
      <4> QED BY <4>1, <4>2
    <3>2. ASSUME NEW d \in Cards, Exists(d)', cards'[d].kind = "outreach"
          PROVE  HasBatch(cards'[d]) <=> cards'[d].step \in {"review", "result"}
      BY <2>a, <2>8, <3>2 DEF BatchesMatch, HasBatch
    <3>3. ASSUME NEW x \in BatchIds, batches'[x] # NoBatch
          PROVE  Exists(batches[x].card)'
      <4>1. CASE x = b
        <5>1. batches'[x].card = c
          BY <2>9, <2>10, <4>1
        <5> QED BY <1>1, <2>8, <5>1
      <4>2. CASE x # b
        <5>1. batches'[x].card = batches[x].card /\ batches[x] # NoBatch
          BY <2>1, <2>10, <3>3, <4>2
        <5>2. batches[x].card \in Cards /\ Exists(batches[x].card)
          BY <2>a, <2>b, <5>1 DEF BatchesMatch, Batch
        <5> QED BY <2>8, <5>1, <5>2
      <4> QED BY <4>1, <4>2
    <3> QED BY <3>1, <3>2, <3>3 DEF BatchesMatch, HasBatch
  <2>12. ASSUME NEW x \in BatchIds, batches'[x].status \in {"draft", "queued"}
         PROVE  cards'[batches'[x].card].batch = x /\ cards'[batches'[x].card].status # "cancelled"
    <3>1. CASE x = b
      BY <2>8, <2>9, <2>10, <3>1
    <3>2. CASE x # b
      <4>1. kept[x].status \in {"draft", "queued"} /\ batches[x].status \in {"draft", "queued"}
        BY <2>1, <2>10, <2>12, <3>2
      <4>2. batches[x].card # c /\ batches[x].card \in Cards /\ batches'[x].card = batches[x].card
        BY <2>1, <2>3, <2>4, <2>10, <3>2, <4>1
      <4>3. cards[batches[x].card].batch = x /\ cards[batches[x].card].status # "cancelled"
        BY <2>a, <4>1 DEF OnlyTheReviewedBatch
      <4> QED BY <2>8, <4>2, <4>3
    <3> QED BY <3>1, <3>2
  <2>13. OwnsOutreach(cards')
    BY <2>b, <2>8 DEF OwnsOutreach, Exists
  <2>14. RestTyped'
    BY <1>2, <2>a DEF RestTyped
  <2> QED BY <2>7, <2>8, <2>10, <2>11, <2>12, <2>13, <2>14, TypePartsAfter DEF CardInv, OnlyTheReviewedBatch
<1>7. \/ /\ e.step = "details"
         /\ Record(c, [e EXCEPT !.templates = TRUE, !.step = "compose", !.status = "awaiting_input"])
         /\ batches' = kept
      \/ Record(c, [e EXCEPT !.status = "failed"]) /\ batches' = kept
      \/ /\ e.step = "compose"
         /\ \E b \in BatchIds :
              /\ batches[b] = NoBatch
              /\ batches' = [kept EXCEPT ![b] = [card |-> c, status |-> "draft", text |-> e.fields, pending |-> FALSE]]
              /\ Record(c, [Reviewed(e) EXCEPT !.batch = b])
  BY DEF ContinueOutreach
<1> HIDE DEF e, kept
<1> QED BY <1>4, <1>5, <1>6, <1>7
-----------------------------------------------------------------------------
(***************************************************************************)
(* Completing a review, and the submission to Meta.                        *)
(***************************************************************************)
LEMMA ReadyParts ==
  ASSUME CardInv, NEW c \in Cards, NEW by \in Approvers, Ready(c, by)
  PROVE  /\ Exists(c) /\ cards[c] \in CardShape /\ spent < MaxCommands /\ ~Submitted(c)
         /\ cards[c].status = "ready" /\ cards[c].step = "review" /\ cards[c].fields \in Texts
         /\ Consistent(cards[c]) /\ (HasBatch(cards[c]) => cards[c].kind = "outreach")
         /\ RestTyped /\ TypeOK /\ BatchesMatch
<1>1. /\ Exists(c) /\ cards[c] \in CardShape /\ spent < MaxCommands /\ ~Submitted(c)
  BY CommandParts DEF Ready
<1>2. cards[c].status = "ready" /\ cards[c].step = "review" /\ cards[c].fields \in Texts
  BY <1>1 DEF Ready, CardShape, Fields
<1> QED BY <1>1, <1>2, OwnParts

LEMMA DidTyped ==
  ASSUME RestTyped, NEW c \in Cards, NEW by \in Approvers, NEW text \in Fields, NEW version \in Nat,
         Did(c, by, text, version)
  PROVE  done' \in [Cards -> [by : Approvers \cup {"nobody"}, text : Fields, record : Nat]]
BY DEF RestTyped, Did

LEMMA CompleteContactKeeps ==
  ASSUME CardInv, NEW c \in Cards, NEW by \in Approvers, CompleteContact(c, by)
  PROVE  CardInv'
<1> DEFINE k == cards[c]
           new == [k EXCEPT !.status = "completed", !.step = "result", !.out = "done"]
<1>1. /\ Exists(c) /\ k \in CardShape /\ spent < MaxCommands /\ ~Submitted(c)
      /\ k.fields \in Texts /\ RestTyped /\ (HasBatch(k) => k.kind = "outreach")
  BY ReadyParts DEF CompleteContact
<1>2. /\ Record(c, new) /\ k.kind = "contact" /\ Did(c, by, k.fields, k.basis.record)
      /\ UNCHANGED <<batches, posting, meta, posts, record, screen>>
  BY DEF CompleteContact
<1>3. RestTyped'
  <2>1. k.fields \in Fields /\ k.basis.record \in Nat
    BY <1>1 DEF CardShape
  <2>2. done' \in [Cards -> [by : Approvers \cup {"nobody"}, text : Fields, record : Nat]]
    BY <1>1, <1>2, <2>1, DidTyped
  <2> QED BY <1>1, <1>2, <2>2 DEF RestTyped
<1> HIDE DEF k
<1>4. new \in CardShape
  BY <1>1, FieldSet DEF Steps, Statuses, TERMINAL, Outs
<1>5. new.kind = k.kind /\ new.batch = k.batch /\ new.status = "completed"
  BY <1>1 DEF CardShape
<1> HIDE DEF new
<1>6. Consistent(new) /\ new.status \notin ACTIVE \cup {"cancelled"}
  BY <1>2, <1>5 DEF Consistent, ACTIVE
<1> QED BY <1>1, <1>2, <1>3, <1>4, <1>5, <1>6, RecordKept DEF k

LEMMA CompleteChangeKeeps ==
  ASSUME CardInv, NEW c \in Cards, NEW by \in Approvers, NEW kind \in {"member", "publish"},
         CompleteChange(c, by, kind)
  PROVE  CardInv'
<1> DEFINE k == cards[c]
           new == [k EXCEPT !.status = "completed", !.step = "result", !.out = "done"]
<1>1. /\ Exists(c) /\ k \in CardShape /\ spent < MaxCommands /\ ~Submitted(c)
      /\ k.fields \in Texts /\ RestTyped /\ (HasBatch(k) => k.kind = "outreach")
  BY ReadyParts DEF CompleteChange
<1>2. /\ Record(c, new) /\ k.kind = kind /\ Did(c, by, k.fields, record) /\ record' = record + 1
      /\ UNCHANGED <<batches, posting, meta, posts, screen>>
  BY DEF CompleteChange
<1>3. RestTyped'
  <2>1. k.fields \in Fields /\ record \in Nat
    BY <1>1 DEF CardShape, RestTyped
  <2>2. done' \in [Cards -> [by : Approvers \cup {"nobody"}, text : Fields, record : Nat]]
    BY <1>1, <1>2, <2>1, DidTyped
  <2> QED BY <1>1, <1>2, <2>1, <2>2 DEF RestTyped
<1> HIDE DEF k
<1>4. new \in CardShape
  BY <1>1, FieldSet DEF Steps, Statuses, TERMINAL, Outs
<1>5. new.kind = k.kind /\ new.batch = k.batch /\ new.status = "completed"
  BY <1>1 DEF CardShape
<1> HIDE DEF new
<1>6. Consistent(new) /\ new.status \notin ACTIVE \cup {"cancelled"}
  BY <1>2, <1>5 DEF Consistent, ACTIVE
<1> QED BY <1>1, <1>2, <1>3, <1>4, <1>5, <1>6, RecordKept DEF k

LEMMA CompleteVersionKeeps ==
  ASSUME CardInv, NEW c \in Cards, NEW by \in Approvers, CompleteVersion(c, by)
  PROVE  CardInv'
<1> DEFINE k == cards[c]
           new == [k EXCEPT !.status = "failed", !.step = "details", !.out = "done"]
<1>1. CASE CompleteChange(c, by, "publish")
  BY <1>1, CompleteChangeKeeps
<1>2. CASE /\ Ready(c, by) /\ k.kind = "publish" /\ Record(c, new)
           /\ UNCHANGED <<batches, posting, meta, posts, record, screen, done>>
  <2>1. /\ Exists(c) /\ k \in CardShape /\ spent < MaxCommands /\ ~Submitted(c) /\ RestTyped'
        /\ k.status = "ready" /\ (HasBatch(k) => k.kind = "outreach")
    BY <1>2, ReadyParts DEF RestTyped
  <2> HIDE DEF k
  <2>2. new \in CardShape
    BY <2>1, FieldSet DEF Steps, Statuses, ACTIVE, Outs
  <2>3. new.kind = k.kind /\ new.batch = k.batch /\ new.status = "failed"
    BY <2>1 DEF CardShape
  <2>4. Record(c, new)
    BY <1>2
  <2> HIDE DEF new
  <2>5. Consistent(new) /\ k.status \in ACTIVE
    BY <1>2, <2>1, <2>3 DEF Consistent, ACTIVE
  <2> QED BY <1>2, <2>1, <2>2, <2>3, <2>4, <2>5, RecordKept DEF k
<1> QED BY <1>1, <1>2 DEF CompleteVersion

LEMMA SubmitTemplateKeeps ==
  ASSUME CardInv, NEW c \in Cards, NEW by \in Approvers, SubmitTemplate(c, by)
  PROVE  CardInv'
<1> DEFINE k == cards[c]
           new == [k EXCEPT !.status = "running", !.step = "result", !.out = "submitting"]
<1>1. /\ Exists(c) /\ k \in CardShape /\ spent < MaxCommands /\ ~Submitted(c) /\ k.status = "ready"
      /\ RestTyped /\ TypeOK /\ (HasBatch(k) => k.kind = "outreach")
  BY ReadyParts DEF SubmitTemplate
<1>2. /\ Record(c, new) /\ k.kind = "create_template" /\ Did(c, by, k.basis.text, k.basis.record)
      /\ posting' = [posting EXCEPT ![c] = "committed"]
      /\ UNCHANGED <<batches, meta, posts, record, screen>>
  BY DEF SubmitTemplate
<1>3. RestTyped'
  <2>1. k.basis.text \in Fields /\ k.basis.record \in Nat
    BY <1>1 DEF CardShape
  <2>2. done' \in [Cards -> [by : Approvers \cup {"nobody"}, text : Fields, record : Nat]]
    BY <1>1, <1>2, <2>1, DidTyped
  <2> QED BY <1>1, <1>2, <2>2 DEF RestTyped
<1>7. posting \in [Cards -> {"idle", "committed", "posted"}]
  BY <1>1 DEF RestTyped
<1> HIDE DEF k
<1>4. new \in CardShape
  BY <1>1, FieldSet DEF Steps, Statuses, ACTIVE, Outs
<1>5. new.kind = k.kind /\ new.batch = k.batch /\ new.status = "running" /\ new.step = "result"
  BY <1>1 DEF CardShape
<1> HIDE DEF new
<1>6. Consistent(new)
  BY <1>2, <1>5 DEF Consistent
<1>8. BatchesMatch' /\ OnlyTheReviewedBatch' /\ OwnsOutreach(cards')
  BY <1>1, <1>2, <1>4, <1>5, <1>6, KeptBatches DEF k
<1>9. /\ cards' \in [Cards -> Rows] /\ spent' \in 0 .. MaxCommands
      /\ \A d \in Cards : /\ d # c => cards'[d] = cards[d]
                          /\ Exists(d)' <=> Exists(d)
      /\ cards'[c].kind = "create_template" /\ cards'[c].step = "result" /\ cards'[c].status = "running"
  BY <1>1, <1>2, <1>4, <1>5, Recorded
<1>10. TypeOK'
  BY <1>1, <1>2, <1>3, <1>8, <1>9, TypeParts, TypePartsAfter
<1>11. OneOpenCard'
  BY <1>1, <1>9 DEF CardInv, OneOpenCard, ACTIVE, k
<1>12. SubmittedOnce'
  <2>1. OutOfForm(cards'[c]) /\ Exists(c)' /\ posts'[c] = 0
    <3>1. posts[c] = 0
      BY <1>1 DEF Submitted, RestTyped
    <3> QED BY <1>1, <1>2, <1>9, <3>1 DEF OutOfForm
  <2>2. ASSUME NEW d \in Cards, d # c
        PROVE  /\ Submitted(d)' => Exists(d)' /\ OutOfForm(cards'[d])
               /\ posting'[d] = "committed" => posts'[d] = 0
    BY <1>2, <1>7, <1>9, <2>2 DEF CardInv, SubmittedOnce, Submitted
  <2> QED BY <2>1, <2>2 DEF SubmittedOnce
<1>13. TemplatePostedOnce'
  BY <1>2 DEF CardInv, TemplatePostedOnce
<1> QED BY <1>8, <1>10, <1>11, <1>12, <1>13 DEF CardInv

(* A batch changes its status and nothing else, and only away from a draft *)
(* of nobody: the batches stay with their cards.                           *)
LEMMA BatchStatus ==
  ASSUME CardInv, NEW b \in BatchIds, batches[b] # NoBatch, NEW row \in Batch, row.card = batches[b].card,
         batches[b].status \in {"draft", "queued"} \/ row.status = "cancelled",
         batches' = [batches EXCEPT ![b] = row],
         \A d \in Cards : /\ Exists(d)' <=> Exists(d)
                          /\ Exists(d) => /\ cards'[d].batch = cards[d].batch /\ cards'[d].kind = cards[d].kind
                                          /\ cards'[d].step = cards[d].step
                                               \/ {cards'[d].step, cards[d].step} \subseteq {"review", "result"}
                                          /\ cards[d].status # "cancelled" => cards'[d].status # "cancelled"
  PROVE  /\ BatchesMatch' /\ OnlyTheReviewedBatch' /\ OwnsOutreach(cards')
         /\ batches' \in [BatchIds -> Batch \cup {NoBatch}]
<1>a. BatchesMatch /\ OnlyTheReviewedBatch /\ TypeOK
  BY DEF CardInv
<1>b. batches \in [BatchIds -> Batch \cup {NoBatch}] /\ OwnsOutreach(cards)
  BY <1>a, TypeParts
<1>1. /\ batches' \in [BatchIds -> Batch \cup {NoBatch}] /\ batches'[b] = row
      /\ \A x \in BatchIds \ {b} : batches'[x] = batches[x]
  BY <1>b
<1>2. \A x \in BatchIds : /\ batches'[x] = NoBatch <=> batches[x] = NoBatch
                          /\ batches'[x].card = batches[x].card
                          /\ batches'[x].status \in {"draft", "queued"} => batches[x].status \in {"draft", "queued"}
  BY <1>1, NoCardIsOther
<1>3. OwnsOutreach(cards')
  BY <1>b DEF OwnsOutreach, HasBatch, Exists
<1>4. BatchesMatch'
  <2>1. ASSUME NEW d \in Cards, Exists(d)', HasBatch(cards'[d])
        PROVE  batches'[cards'[d].batch] # NoBatch /\ batches'[cards'[d].batch].card = d
    <3>1. Exists(d) /\ HasBatch(cards[d]) /\ cards'[d].batch = cards[d].batch
      BY <2>1 DEF HasBatch
    <3>2. cards[d].batch \in BatchIds
      BY <1>a, <3>1, RowParts
    <3> QED BY <1>a, <1>2, <3>1, <3>2 DEF BatchesMatch
  <2>2. ASSUME NEW d \in Cards, Exists(d)', cards'[d].kind = "outreach"
        PROVE  HasBatch(cards'[d]) <=> cards'[d].step \in {"review", "result"}
    BY <1>a, <2>2 DEF BatchesMatch, HasBatch
  <2>3. ASSUME NEW x \in BatchIds, batches'[x] # NoBatch
        PROVE  Exists(batches[x].card)'
    <3>1. batches[x] # NoBatch /\ batches'[x].card = batches[x].card
      BY <1>2, <2>3
    <3>2. batches[x].card \in Cards /\ Exists(batches[x].card)
      BY <1>a, <1>b, <3>1 DEF BatchesMatch, Batch
    <3> QED BY <3>1, <3>2
  <2> QED BY <2>1, <2>2, <2>3 DEF BatchesMatch, HasBatch
<1>5. ASSUME NEW x \in BatchIds, batches'[x].status \in {"draft", "queued"}
      PROVE  cards'[batches'[x].card].batch = x /\ cards'[batches'[x].card].status # "cancelled"
  <2>1. batches[x].status \in {"draft", "queued"} /\ batches'[x].card = batches[x].card
    BY <1>2, <1>5
  <2>2. batches[x].card \in Cards /\ Exists(batches[x].card)
    BY <1>a, <1>b, <2>1 DEF NoBatch, Batch, BatchesMatch
  <2> QED BY <1>a, <2>1, <2>2 DEF OnlyTheReviewedBatch
<1> QED BY <1>1, <1>3, <1>4, <1>5 DEF OnlyTheReviewedBatch

LEMMA CompleteOutreachKeeps ==
  ASSUME CardInv, NEW c \in Cards, NEW by \in Approvers, CompleteOutreach(c, by)
  PROVE  CardInv'
<1> DEFINE k == cards[c]
           b == k.batch
           over == [k EXCEPT !.status = "completed", !.step = "result", !.out = "processed"]
           runs == [k EXCEPT !.status = "running", !.step = "result", !.out = "queued"]
           new == IF batches[b].status = "queued" /\ ~batches[b].pending THEN over ELSE runs
           queued == [batches[b] EXCEPT !.status = "queued", !.pending = TRUE]
<1>1. /\ Exists(c) /\ k \in CardShape /\ spent < MaxCommands /\ ~Submitted(c)
      /\ k.status = "ready" /\ k.step = "review" /\ Consistent(k) /\ RestTyped /\ TypeOK /\ BatchesMatch
  BY ReadyParts DEF CompleteOutreach
<1>2. /\ k.kind = "outreach" /\ Record(c, new) /\ Did(c, by, batches[b].text, k.basis.record)
      /\ UNCHANGED <<posting, meta, posts, record, screen>>
      /\ batches' = IF batches[b].status = "draft"
                    THEN [batches EXCEPT ![b].status = "queued", ![b].pending = TRUE] ELSE batches
  BY DEF CompleteOutreach, BatchOf
<1>3. /\ b \in BatchIds /\ HasBatch(k) /\ batches[b] # NoBatch
      /\ batches[b] \in Batch /\ batches \in [BatchIds -> Batch \cup {NoBatch}]
  <2>1. HasBatch(k)
    BY <1>1, <1>2 DEF Consistent
  <2>2. b \in BatchIds /\ batches[b] # NoBatch
    BY <1>1, <2>1, RowParts DEF BatchesMatch
  <2> QED BY <1>1, <2>1, <2>2, TypeParts
<1>4. RestTyped'
  <2>1. batches[b].text \in Fields /\ k.basis.record \in Nat
    BY <1>1, <1>3 DEF CardShape, Batch, Fields
  <2>2. done' \in [Cards -> [by : Approvers \cup {"nobody"}, text : Fields, record : Nat]]
    BY <1>1, <1>2, <2>1, DidTyped
  <2> QED BY <1>1, <1>2, <2>2 DEF RestTyped
<1>5. /\ new \in CardShape /\ new.kind = k.kind /\ new.batch = k.batch /\ new.step = "result"
      /\ new.status \in {"completed", "running"}
  <2> HIDE DEF k
  <2>1. over \in CardShape
    BY <1>1, FieldSet DEF Steps, Statuses, TERMINAL, Outs
  <2>2. runs \in CardShape
    BY <1>1, FieldSet DEF Steps, Statuses, ACTIVE, Outs
  <2>3. /\ over.kind = k.kind /\ over.batch = k.batch /\ over.step = "result" /\ over.status = "completed"
        /\ runs.kind = k.kind /\ runs.batch = k.batch /\ runs.step = "result" /\ runs.status = "running"
    BY <1>1 DEF CardShape
  <2> HIDE DEF over, runs
  <2> QED BY <2>1, <2>2, <2>3
<1> HIDE DEF new
<1>6. Consistent(new) /\ (new.status \in ACTIVE => k.status \in ACTIVE) /\ new.status # "cancelled"
  BY <1>1, <1>3, <1>5 DEF Consistent, HasBatch, ACTIVE
<1>7. CASE batches[b].status # "draft"
  <2>1. batches' = batches
    BY <1>2, <1>7
  <2> QED BY <1>1, <1>2, <1>4, <1>5, <1>6, <2>1, RecordKept
<1>8. CASE batches[b].status = "draft"
  <2>1. queued \in Batch /\ queued.card = batches[b].card
    BY <1>3 DEF Batch
  <2>2. batches' = [batches EXCEPT ![b] = queued]
    BY <1>2, <1>3, <1>8 DEF Batch
  <2> HIDE DEF queued
  <2>3. /\ cards' \in [Cards -> Rows] /\ spent' \in 0 .. MaxCommands
        /\ \A d \in Cards : /\ d # c => cards'[d] = cards[d]
                            /\ Exists(d)' <=> Exists(d)
        /\ cards'[c].kind = k.kind /\ cards'[c].step = "result" /\ cards'[c].batch = k.batch
        /\ cards'[c].status # "cancelled"
    BY <1>1, <1>2, <1>5, <1>6, Recorded
  <2>4. /\ BatchesMatch' /\ OnlyTheReviewedBatch' /\ OwnsOutreach(cards')
        /\ batches' \in [BatchIds -> Batch \cup {NoBatch}]
    BY ZenonT(40), <1>1, <1>3, <1>8, <2>1, <2>2, <2>3, BatchStatus
  <2>5. OneOpenCard' /\ SubmittedOnce' /\ TemplatePostedOnce'
    BY <1>1, <1>2, <1>5, <1>6, OwnCard
  <2> QED BY <1>4, <2>3, <2>4, <2>5, TypePartsAfter DEF CardInv
<1> QED BY <1>7, <1>8
-----------------------------------------------------------------------------
(***************************************************************************)
(* What goes on by itself.                                                 *)
(***************************************************************************)
LEMMA PostTemplateKeeps ==
  ASSUME CardInv, NEW c \in Cards, PostTemplate(c)
  PROVE  CardInv'
<1>1. /\ posting[c] = "committed" /\ posting' = [posting EXCEPT ![c] = "posted"]
      /\ posts' = [posts EXCEPT ![c] = @ + 1]
      /\ UNCHANGED <<cards, batches, meta, record, spent, screen, done>>
  BY DEF PostTemplate
<1>2. /\ TypeOK /\ posting \in [Cards -> {"idle", "committed", "posted"}] /\ posts \in [Cards -> Nat]
      /\ SubmittedOnce /\ TemplatePostedOnce
  BY DEF CardInv, TypeOK
<1>3. TypeOK'
  BY <1>1, <1>2, TypeParts, TypePartsAfter DEF RestTyped
<1>4. \A d \in Cards : posting'[d] = "committed" => posts'[d] = 0
  BY <1>1, <1>2 DEF SubmittedOnce
<1>5. posts[c] = 0 /\ Submitted(c)
  BY <1>1, <1>2 DEF SubmittedOnce, Submitted
<1>6. \A d \in Cards : Submitted(d)' => Submitted(d)
  BY <1>1, <1>2, <1>5 DEF Submitted
<1>7. SubmittedOnce' /\ TemplatePostedOnce'
  <2>1. TemplatePostedOnce'
    BY <1>1, <1>2, <1>5 DEF TemplatePostedOnce
  <2>2. \A d \in Cards : Submitted(d)' => Exists(d)' /\ OutOfForm(cards'[d])
    BY <1>1, <1>2, <1>6 DEF SubmittedOnce, Exists
  <2> QED BY <1>4, <2>1, <2>2 DEF SubmittedOnce
<1>8. BatchesMatch' /\ OneOpenCard' /\ OnlyTheReviewedBatch'
  BY <1>1 DEF CardInv, BatchesMatch, OneOpenCard, OnlyTheReviewedBatch, Exists, HasBatch
<1> QED BY <1>3, <1>7, <1>8 DEF CardInv

LEMMA TemplateAnswerKeeps ==
  ASSUME CardInv, NEW c \in Cards, NEW outcome \in {"submitted", "rejected", "ambiguous"},
         TemplateAnswer(c, outcome)
  PROVE  CardInv'
<1> DEFINE k == cards[c]
           decided == outcome = "rejected" \/ (outcome = "submitted" /\ meta[c] \in Decided)
           status == IF decided THEN "completed" ELSE k.status
           new == [k EXCEPT !.out = outcome, !.rev = k.rev + 1, !.status = status]
<1>1. /\ posting[c] = "posted" /\ cards' = [cards EXCEPT ![c] = new]
      /\ posting' = [posting EXCEPT ![c] = "idle"]
      /\ UNCHANGED <<batches, meta, posts, record, spent, screen, done>>
  BY DEF TemplateAnswer
<1>2. TypeOK /\ RestTyped /\ cards \in [Cards -> Rows] /\ posting \in [Cards -> {"idle", "committed", "posted"}]
  BY TypeParts DEF CardInv, RestTyped
<1>3. Exists(c) /\ k \in CardShape
  <2>1. Submitted(c)
    BY <1>1 DEF Submitted
  <2>2. Exists(c)
    BY <2>1 DEF CardInv, SubmittedOnce
  <2> QED BY <1>2, <2>2, RowParts
<1>4. status \in {k.status, "completed"} /\ k.rev + 1 \in Nat /\ k.status \in Statuses /\ outcome \in Outs
  BY <1>3 DEF CardShape, Statuses, Outs
<1> HIDE DEF k, status
<1>5. new \in CardShape
  BY <1>3, <1>4, FieldSet DEF Statuses, TERMINAL
<1>6. new.kind = k.kind /\ new.step = k.step /\ new.batch = k.batch /\ new.bg = k.bg /\ new.status = status
  BY <1>3 DEF CardShape
<1> HIDE DEF new
<1>7. cards' \in [Cards -> Rows] /\ cards'[c] = new /\ \A d \in Cards \ {c} : cards'[d] = cards[d]
  BY <1>1, <1>2, <1>5 DEF Rows
<1>8. \A d \in Cards :
           /\ Exists(d)' <=> Exists(d)
           /\ Exists(d) => /\ cards'[d].kind = cards[d].kind /\ cards'[d].step = cards[d].step
                           /\ cards'[d].batch = cards[d].batch
                           /\ cards'[d].status \in {cards[d].status, "completed"}
                           /\ cards[d].kind = "create_template" => cards'[d].bg = cards[d].bg
           /\ posting'[d] \in {posting[d], "idle"}
  BY <1>1, <1>2, <1>3, <1>4, <1>5, <1>6, <1>7, NoCardIsOther DEF k, Exists
<1>9. RestTyped'
  BY <1>1, <1>2 DEF RestTyped
<1> QED BY <1>1, <1>7, <1>8, <1>9, Quiet

LEMMA CrashKeeps ==
  ASSUME CardInv, NEW c \in Cards, Crash(c)
  PROVE  CardInv'
<1>1. /\ posting' = [posting EXCEPT ![c] = "idle"]
      /\ UNCHANGED <<cards, batches, meta, posts, record, spent, screen, done>>
  BY DEF Crash
<1>2. RestTyped /\ cards \in [Cards -> Rows]
  BY TypeParts DEF CardInv
<1>3. RestTyped' /\ \A d \in Cards : posting'[d] \in {posting[d], "idle"}
  BY <1>1, <1>2 DEF RestTyped
<1> QED BY <1>1, <1>2, <1>3, Quiet DEF Exists

LEMMA SyncedShape ==
  ASSUME CardInv, NEW c \in Cards, NEW up \in BOOLEAN
  PROVE  LET s == Synced(c, up) IN
         /\ s \in Rows /\ (s # NoCard <=> Exists(c))
         /\ Exists(c) => /\ s.kind = cards[c].kind /\ s.step = cards[c].step /\ s.batch = cards[c].batch
                         /\ s.status \in {cards[c].status, "completed"}
                         /\ cards[c].kind = "create_template" => s.bg = cards[c].bg
<1> DEFINE k == cards[c]
           s == CASE Exists(c) /\ k.kind = "outreach" -> OutreachSynced(k)
                  [] Exists(c) /\ k.kind = "create_template" /\ up -> TemplateSynced(k, c)
                  [] OTHER -> k
<1>1. Synced(c, up) = IF s # k THEN [s EXCEPT !.rev = @ + 1] ELSE s
  BY DEF Synced
<1>2. CASE ~Exists(c)
  <2>1. s = k
    BY <1>2
  <2> QED BY <1>1, <1>2, <2>1 DEF Exists, Rows
<1>3. CASE Exists(c)
  <2>0. k \in CardShape
    BY <1>3, RowParts DEF CardInv
  <2>1. /\ s \in CardShape /\ s.kind = k.kind /\ s.step = k.step /\ s.batch = k.batch
        /\ s.status \in {k.status, "completed"} /\ (k.kind = "create_template" => s.bg = k.bg)
    <3>1. CASE k.kind = "outreach"
      <4>1. s = OutreachSynced(k)
        BY <1>3, <3>1
      <4> HIDE DEF s, k
      <4> DEFINE over == ~BatchOf(k).pending
                 st == IF over THEN "completed" ELSE k.status
                 out == IF over THEN "processed" ELSE k.out
                 bg == k.bg \/ (~over /\ k.status = "paused")
                 new == [k EXCEPT !.status = st, !.out = out, !.bg = bg]
      <4>2. s \in {k, new}
        BY <4>1 DEF OutreachSynced
      <4>3. st \in Statuses /\ out \in Outs /\ st \in {k.status, "completed"}
        BY <2>0 DEF CardShape, Statuses, TERMINAL, Outs
      <4>4. bg \in BOOLEAN
        <5>1. CASE ~over /\ k.status = "paused"
          BY <5>1
        <5>2. CASE ~(~over /\ k.status = "paused")
          BY <2>0, <5>2 DEF CardShape
        <5> QED BY <5>1, <5>2
      <4> HIDE DEF st, out, bg
      <4>5. new \in CardShape
        BY <2>0, <4>3, <4>4, FieldSet
      <4>6. new.kind = k.kind /\ new.step = k.step /\ new.batch = k.batch /\ new.status = st
        BY <2>0 DEF CardShape
      <4> HIDE DEF new
      <4> QED BY <2>0, <3>1, <4>2, <4>3, <4>5, <4>6
    <3>2. CASE k.kind = "create_template" /\ up
      <4>1. s = TemplateSynced(k, c)
        BY <1>3, <3>2
      <4> HIDE DEF s, k
      <4> DEFINE st == IF meta[c] \in Decided THEN "completed" ELSE k.status
                 new == [k EXCEPT !.out = "submitted", !.status = st]
      <4>2. s \in {k, new}
        BY <4>1 DEF TemplateSynced
      <4>3. st \in Statuses /\ st \in {k.status, "completed"}
        BY <2>0 DEF CardShape, Statuses, TERMINAL
      <4> HIDE DEF st
      <4>4. new \in CardShape
        BY <2>0, <4>3, FieldSet DEF Outs
      <4>5. new.kind = k.kind /\ new.step = k.step /\ new.batch = k.batch /\ new.status = st /\ new.bg = k.bg
        BY <2>0 DEF CardShape
      <4> HIDE DEF new
      <4> QED BY <2>0, <4>2, <4>3, <4>4, <4>5
    <3>3. CASE k.kind # "outreach" /\ ~(k.kind = "create_template" /\ up)
      <4>1. s = k
        BY <3>3
      <4> QED BY <2>0, <4>1
    <3> QED BY <3>1, <3>2, <3>3
  <2> HIDE DEF s, k
  <2>2. s.rev + 1 \in Nat
    BY <2>1 DEF CardShape
  <2> DEFINE next == [s EXCEPT !.rev = s.rev + 1]
  <2>3. next \in CardShape
    BY <2>1, <2>2, FieldSet
  <2>4. /\ next.kind = s.kind /\ next.step = s.step /\ next.batch = s.batch /\ next.status = s.status
        /\ next.bg = s.bg
    BY <2>1 DEF CardShape
  <2>5. Synced(c, up) \in {s, next}
    BY <1>1
  <2> HIDE DEF next
  <2> QED BY <1>3, <2>1, <2>3, <2>4, <2>5, NoCardIsOther DEF Rows, k
<1> QED BY <1>2, <1>3

LEMMA ListViewsKeeps ==
  ASSUME CardInv, NEW up \in BOOLEAN, ListViews(up)
  PROVE  CardInv'
<1>1. /\ cards' = [c \in Cards |-> Synced(c, up)]
      /\ UNCHANGED <<batches, posting, meta, posts, record, spent, screen, done>>
  BY DEF ListViews
<1>2. \A c \in Cards : cards'[c] = Synced(c, up)
  BY <1>1
<1>3. cards' \in [Cards -> Rows]
  BY <1>1, SyncedShape
<1>4. \A d \in Cards :
           /\ Exists(d)' <=> Exists(d)
           /\ Exists(d) => /\ cards'[d].kind = cards[d].kind /\ cards'[d].step = cards[d].step
                           /\ cards'[d].batch = cards[d].batch
                           /\ cards'[d].status \in {cards[d].status, "completed"}
                           /\ cards[d].kind = "create_template" => cards'[d].bg = cards[d].bg
  BY <1>2, SyncedShape DEF Exists
<1>5. RestTyped'
  BY <1>1, TypeParts DEF CardInv, RestTyped
<1> QED BY <1>1, <1>3, <1>4, <1>5, Quiet

LEMMA PollAgainKeeps ==
  ASSUME CardInv, NEW c \in Cards, NEW r \in BOOLEAN, PollAgain(c, r)
  PROVE  CardInv'
<1> DEFINE k == cards[c]
           t == IF k.kind = "outreach" THEN r ELSE k.templates
           new == [k EXCEPT !.rev = k.rev + 1, !.templates = t]
<1>1. Exists(c) /\ k \in CardShape /\ cards \in [Cards -> Rows]
  BY RowParts, TypeParts DEF PollAgain, CardInv
<1>2. cards' = [cards EXCEPT ![c] = new]
  BY <1>1 DEF PollAgain, CardShape
<1>3. UNCHANGED <<batches, posting, meta, posts, record, spent, screen, done>>
  BY DEF PollAgain
<1>4. t \in BOOLEAN /\ k.rev + 1 \in Nat
  BY <1>1 DEF CardShape
<1> HIDE DEF k, t
<1>5. new \in CardShape
  BY <1>1, <1>4, FieldSet
<1>6. new.kind = k.kind /\ new.step = k.step /\ new.batch = k.batch /\ new.bg = k.bg /\ new.status = k.status
  BY <1>1 DEF CardShape
<1> HIDE DEF new
<1>7. cards' \in [Cards -> Rows] /\ cards'[c] = new /\ \A d \in Cards \ {c} : cards'[d] = cards[d]
  BY <1>1, <1>2, <1>5 DEF Rows
<1>8. \A d \in Cards :
           /\ Exists(d)' <=> Exists(d)
           /\ Exists(d) => /\ cards'[d].kind = cards[d].kind /\ cards'[d].step = cards[d].step
                           /\ cards'[d].batch = cards[d].batch
                           /\ cards'[d].status \in {cards[d].status, "completed"}
                           /\ cards[d].kind = "create_template" => cards'[d].bg = cards[d].bg
  BY <1>1, <1>5, <1>6, <1>7, NoCardIsOther DEF k, Exists
<1>9. RestTyped'
  BY <1>3, TypeParts DEF CardInv, RestTyped
<1> QED BY <1>3, <1>7, <1>8, <1>9, Quiet

(* Steps that leave the cards, the batches and the submissions alone.      *)
LEMMA AsideKeeps ==
  ASSUME CardInv, UNCHANGED <<cards, batches, posting, posts, spent>>, RestTyped'
  PROVE  CardInv'
<1>1. cards \in [Cards -> Rows]
  BY TypeParts DEF CardInv
<1> QED BY <1>1, Quiet DEF Exists

LEMMA OthersKeep ==
  ASSUME CardInv, NEW c \in Cards,
         \/ Look(c) \/ OtherEdit
         \/ \E s \in {"PENDING"} \cup Decided : MetaReceives(c, s)
         \/ \E s \in Decided : MetaDecides(c, s)
  PROVE  CardInv'
<1>1. RestTyped /\ TypeOK
  BY TypeParts DEF CardInv
<1>2. CASE Look(c)
  <2>1. Exists(c) /\ cards[c] \in CardShape
    BY <1>1, <1>2, RowParts DEF Look, Open
  <2>2. [rev |-> cards[c].rev, basis |-> cards[c].basis, shown |-> TRUE]
          \in [rev : Nat, basis : [text : Fields, record : Nat], shown : BOOLEAN]
    BY <2>1 DEF CardShape
  <2>3. RestTyped'
    BY <1>1, <1>2, <2>2 DEF Look, RestTyped
  <2> QED BY <1>2, <2>3, AsideKeeps DEF Look
<1>3. CASE OtherEdit
  <2>1. RestTyped'
    BY <1>1, <1>3 DEF OtherEdit, RestTyped
  <2> QED BY <1>3, <2>1, AsideKeeps DEF OtherEdit
<1>4. CASE \E s \in {"PENDING"} \cup Decided : MetaReceives(c, s)
  <2>1. RestTyped'
    BY <1>1, <1>4 DEF MetaReceives, RestTyped
  <2> QED BY <1>4, <2>1, AsideKeeps DEF MetaReceives
<1>5. CASE \E s \in Decided : MetaDecides(c, s)
  <2>1. RestTyped'
    BY <1>1, <1>5 DEF MetaDecides, RestTyped
  <2> QED BY <1>5, <2>1, AsideKeeps DEF MetaDecides
<1> QED BY <1>2, <1>3, <1>4, <1>5

LEMMA BatchStepsKeep ==
  ASSUME CardInv, NEW b \in BatchIds, RecipientsSettled(b) \/ CancelBatch(b)
  PROVE  CardInv'
<1>a. /\ TypeOK /\ RestTyped /\ batches \in [BatchIds -> Batch \cup {NoBatch}] /\ cards \in [Cards -> Rows]
      /\ spent \in 0 .. MaxCommands
  BY TypeParts DEF CardInv
<1>1. batches[b].status = "queued" /\ UNCHANGED <<cards, posting, meta, posts, record, spent, screen, done>>
  BY DEF RecipientsSettled, CancelBatch
<1>2. batches[b] # NoBatch /\ batches[b] \in Batch
  BY <1>a, <1>1 DEF NoBatch
<1>3. PICK row \in Batch : row.card = batches[b].card /\ batches' = [batches EXCEPT ![b] = row]
  <2>1. CASE RecipientsSettled(b)
    <3>1. [batches[b] EXCEPT !.pending = FALSE] \in Batch
      BY <1>2 DEF Batch
    <3>2. batches' = [batches EXCEPT ![b] = [batches[b] EXCEPT !.pending = FALSE]]
      BY <1>2, <2>1 DEF RecipientsSettled
    <3> QED BY <1>2, <3>1, <3>2 DEF Batch
  <2>2. CASE CancelBatch(b)
    <3>1. [batches[b] EXCEPT !.status = "cancelled", !.pending = FALSE] \in Batch
      BY <1>2 DEF Batch
    <3>2. batches' = [batches EXCEPT ![b] = [batches[b] EXCEPT !.status = "cancelled", !.pending = FALSE]]
      BY <1>2, <2>2 DEF CancelBatch
    <3> QED BY <1>2, <3>1, <3>2 DEF Batch
  <2> QED BY <2>1, <2>2
<1>4. /\ BatchesMatch' /\ OnlyTheReviewedBatch' /\ OwnsOutreach(cards')
      /\ batches' \in [BatchIds -> Batch \cup {NoBatch}]
  BY <1>1, <1>2, <1>3, BatchStatus DEF Exists
<1>5. OneOpenCard' /\ SubmittedOnce' /\ TemplatePostedOnce'
  BY <1>1 DEF CardInv, OneOpenCard, SubmittedOnce, TemplatePostedOnce, Submitted, Exists, OutOfForm
<1>6. RestTyped'
  BY <1>a, <1>1 DEF RestTyped
<1> QED BY <1>a, <1>1, <1>4, <1>5, <1>6, TypePartsAfter DEF CardInv
-----------------------------------------------------------------------------
(***************************************************************************)
(* The invariant, and what follows from it.                                *)
(***************************************************************************)
LEMMA InitCardInv == Init => CardInv
<1> SUFFICES ASSUME Init PROVE CardInv
  OBVIOUS
<1>1. TypeOK
  BY BoundsAreNatural DEF Init, TypeOK, Exists, NoScreen, NotDone, NoBasis, Fields, Approvers
<1>2. \A c \in Cards : ~Exists(c) /\ ~Submitted(c) /\ posting[c] # "committed" /\ posts[c] = 0
  BY DEF Init, Exists, Submitted
<1>3. \A b \in BatchIds : batches[b] = NoBatch /\ batches[b].status = "none"
  BY DEF Init, NoBatch
<1> QED BY <1>1, <1>2, <1>3 DEF CardInv, BatchesMatch, OneOpenCard, OnlyTheReviewedBatch,
                                SubmittedOnce, TemplatePostedOnce

LEMMA OperatorKeeps ==
  ASSUME CardInv, NEW c \in Cards, Operator(c)
  PROVE  CardInv'
<1>1. CASE \E kind \in StartKinds, f \in Fields, r \in BOOLEAN : Start(c, kind, f, r)
  BY <1>1, StartKeeps, StartKindsAreKinds
<1>2. CASE \E d \in Cards, kind \in StartKinds \cup {"create_template"}, f \in Fields, r \in BOOLEAN :
              Launch(c, d, kind, f, r)
  BY <1>2, LaunchKeeps, StartKindsAreKinds DEF Kinds
<1>3. CASE \E r \in BOOLEAN : Resume(c, r)
  BY <1>3, ResumeKeeps
<1>4. CASE \E f \in Inputs : Pause(c, f) \/ Update(c, f) \/ ContinueForm(c, f)
  BY <1>4, PauseKeeps, UpdateKeeps, ContinueFormKeeps
<1>5. CASE \E f \in Inputs : ContinueContact(c, f) \/ ContinueMember(c, f) \/ ContinueTemplate(c, f)
  BY <1>5, ContinueReviewKeeps DEF ContinueContact, ContinueMember, ContinueTemplate, Kinds
<1>6. CASE \E f \in Inputs, ok \in BOOLEAN : ContinueVersion(c, f, ok) \/ ContinueOutreach(c, f, ok)
  BY <1>6, ContinueVersionKeeps, ContinueOutreachKeeps
<1>7. CASE Cancel(c) \/ Back(c) \/ Look(c)
  BY <1>7, CancelKeeps, BackKeeps, OthersKeep
<1>8. CASE \E by \in Approvers :
              \/ CompleteContact(c, by) \/ CompleteMember(c, by) \/ CompleteVersion(c, by)
              \/ CompleteOutreach(c, by) \/ SubmitTemplate(c, by)
  BY <1>8, CompleteContactKeeps, CompleteChangeKeeps, CompleteVersionKeeps, CompleteOutreachKeeps,
     SubmitTemplateKeeps DEF CompleteMember
<1> QED BY <1>1, <1>2, <1>3, <1>4, <1>5, <1>6, <1>7, <1>8 DEF Operator

LEMMA SystemKeeps ==
  ASSUME CardInv, NEW c \in Cards, System(c)
  PROVE  CardInv'
<1>1. CASE PostTemplate(c) \/ Crash(c)
  BY <1>1, PostTemplateKeeps, CrashKeeps
<1>2. CASE \E o \in {"submitted", "rejected", "ambiguous"} : TemplateAnswer(c, o)
  BY <1>2, TemplateAnswerKeeps
<1>3. CASE \/ \E s \in {"PENDING"} \cup Decided : MetaReceives(c, s)
           \/ \E s \in Decided : MetaDecides(c, s)
  BY <1>3, OthersKeep
<1>4. CASE \E r \in BOOLEAN : PollAgain(c, r)
  BY <1>4, PollAgainKeeps
<1> QED BY <1>1, <1>2, <1>3, <1>4 DEF System

LEMMA NextKeeps == CardInv /\ [Next]_vars => CardInv'
<1> SUFFICES ASSUME CardInv, [Next]_vars PROVE CardInv'
  OBVIOUS
<1>1. CASE \E c \in Cards : Operator(c) \/ System(c)
  BY <1>1, OperatorKeeps, SystemKeeps
<1>2. CASE \E up \in BOOLEAN : ListViews(up)
  BY <1>2, ListViewsKeeps
<1>3. CASE \E b \in BatchIds : RecipientsSettled(b) \/ CancelBatch(b)
  BY <1>3, BatchStepsKeep
<1>4. CASE OtherEdit
  <2>1. RestTyped'
    BY <1>4, TypeParts DEF CardInv, OtherEdit, RestTyped
  <2> QED BY <1>4, <2>1, AsideKeeps DEF OtherEdit
<1>5. CASE UNCHANGED vars
  <2>1. RestTyped'
    BY <1>5, TypeParts DEF CardInv, vars, RestTyped
  <2> QED BY <1>5, <2>1, AsideKeeps DEF vars
<1> QED BY <1>1, <1>2, <1>3, <1>4, <1>5 DEF Next

LEMMA Always == Spec => []CardInv
BY InitCardInv, NextKeeps, PTL DEF Spec

(* Cards, batches, submissions and what completing did keep their shapes.  *)
THEOREM TypeCorrect == Spec => []TypeOK
<1>1. CardInv => TypeOK
  BY DEF CardInv
<1> QED BY <1>1, Always, PTL

(* Two cards of a session never wait for the operator at once, however     *)
(* many there are: start, launch and resume set the others aside in the    *)
(* same transaction, and a late answer of Meta ends its card or leaves it  *)
(* where it is (pause_others, submit).                                     *)
THEOREM OneCardOpen == Spec => []OneOpenCard
<1>1. CardInv => OneOpenCard
  BY DEF CardInv
<1> QED BY <1>1, Always, PTL

(* A draft or queued batch is the one its card shows and the card is not   *)
(* cancelled: an edit, a step back or a cancel drops the batch with the    *)
(* review it was made for (workflow_outreach.invalidate, cancel).          *)
THEOREM BatchOfReview == Spec => []OnlyTheReviewedBatch
<1>1. CardInv => OnlyTheReviewedBatch
  BY DEF CardInv
<1> QED BY <1>1, Always, PTL

(* A template is posted to Meta at most once, through answers that are     *)
(* lost, restarts and second approvals: the commit before the POST takes   *)
(* the card out of its form for good (workflow_templates.submit).          *)
THEOREM TemplatePosted == Spec => []TemplatePostedOnce
<1>1. CardInv => TemplatePostedOnce
  BY DEF CardInv
<1> QED BY <1>1, Always, PTL
-----------------------------------------------------------------------------
(***************************************************************************)
(* What an approval does is what its review showed.                        *)
(***************************************************************************)

(* A card that waits at its review remembers the form it was made from,    *)
(* and the batch of the review was made from the same.                     *)
ReviewHolds(k, rows) ==
  k.step = "review" => /\ k.kind # "person" /\ k.basis.text = k.fields
                       /\ HasBatch(k) => rows[k.batch].text = k.fields

(* A screen is of its card or of an earlier one.                           *)
Seen(s, k) ==
  s.shown => /\ s.rev <= k.rev
             /\ s.rev = k.rev /\ k.step = "review" => s.basis = k.basis

(* A card that was carried out accepts no review any more: it is over, or  *)
(* runs, in front or behind.                                               *)
CarriedOut(k) ==
  /\ k.step = "result"
  /\ \/ k.status \in TERMINAL
     \/ k.kind \in Background /\ (k.status = "running" \/ (k.status = "paused" /\ k.bg))

CardApproved(c) ==
  /\ Exists(c) => ReviewHolds(cards[c], batches) /\ Seen(screen[c], cards[c])
  /\ screen[c].shown \/ done[c].by # "nobody" => Exists(c)
  /\ done[c].by # "nobody" => CarriedOut(cards[c])

ApprovalInv == (\A c \in Cards : CardApproved(c)) /\ ApprovedIsDone

(* Batches keep the text they were made with.                              *)
TextsKept == \A b \in BatchIds : batches[b] # NoBatch => batches'[b].text = batches[b].text

SameReview(new, k) ==
  /\ new.kind = k.kind /\ new.step = k.step /\ new.fields = k.fields
  /\ new.basis = k.basis /\ new.batch = k.batch
-----------------------------------------------------------------------------
(***************************************************************************)
(* One card, in one step.                                                  *)
(***************************************************************************)
LEMMA CardStays ==
  ASSUME CardInv, NEW c \in Cards, CardApproved(c), TextsKept,
         cards'[c] = cards[c], screen'[c] = screen[c], done'[c] = done[c]
  PROVE  CardApproved(c)'
<1>1. Exists(c) /\ HasBatch(cards[c]) => batches'[cards[c].batch].text = batches[cards[c].batch].text
  BY RowParts DEF CardInv, BatchesMatch, TextsKept
<1>2. Exists(c)' <=> Exists(c)
  BY DEF Exists
<1>3. Exists(c) => ReviewHolds(cards'[c], batches') /\ Seen(screen'[c], cards'[c])
  BY <1>1 DEF CardApproved, ReviewHolds, Seen, HasBatch
<1> QED BY <1>2, <1>3 DEF CardApproved, CarriedOut

(* A card that changes gets a higher revision, and what screens show is    *)
(* of an earlier card.                                                     *)
LEMMA CardMoves ==
  ASSUME CardInv, NEW c \in Cards, CardApproved(c), TextsKept, Exists(c), Exists(c)',
         cards'[c].rev \in Nat, cards'[c].rev > cards[c].rev,
         SameReview(cards'[c], cards[c]) \/ ReviewHolds(cards'[c], batches'),
         screen'[c] = screen[c],
         done'[c].by # "nobody" => CarriedOut(cards'[c])
  PROVE  CardApproved(c)'
<1>1. ReviewHolds(cards'[c], batches')
  <2>1. CASE ReviewHolds(cards'[c], batches')
    BY <2>1
  <2>2. CASE SameReview(cards'[c], cards[c])
    <3>1. HasBatch(cards[c]) => batches'[cards[c].batch].text = batches[cards[c].batch].text
      BY RowParts DEF CardInv, BatchesMatch, TextsKept
    <3> QED BY <2>2, <3>1 DEF CardApproved, SameReview, ReviewHolds, HasBatch
  <2> QED BY <2>1, <2>2
<1>2. cards[c].rev \in Nat /\ screen[c].rev \in Nat
  BY RowParts DEF CardInv, CardShape, TypeOK
<1>3. Seen(screen'[c], cards'[c])
  BY <1>2 DEF CardApproved, Seen
<1> QED BY <1>1, <1>3 DEF CardApproved, CarriedOut

(* Steps that carry nothing out.                                           *)
LEMMA Calm ==
  ASSUME CardInv, ApprovalInv, TextsKept, UNCHANGED <<screen, done>>,
         \A c \in Cards :
           \/ cards'[c] = cards[c]
           \/ ~Exists(c) /\ Exists(c)' /\ cards'[c].step = "details"
           \/ /\ Exists(c) /\ Exists(c)' /\ cards'[c].rev \in Nat /\ cards'[c].rev > cards[c].rev
              /\ SameReview(cards'[c], cards[c]) \/ ReviewHolds(cards'[c], batches')
              /\ done[c].by # "nobody" => CarriedOut(cards'[c])
  PROVE  ApprovalInv'
<1>1. ASSUME NEW c \in Cards PROVE CardApproved(c)'
  <2>0. CardApproved(c)
    BY DEF ApprovalInv
  <2>1. CASE cards'[c] = cards[c]
    BY <2>0, <2>1, CardStays
  <2>2. CASE ~Exists(c) /\ Exists(c)' /\ cards'[c].step = "details"
    BY <2>0, <2>2 DEF CardApproved, ReviewHolds, Seen
  <2>3. CASE /\ Exists(c) /\ Exists(c)' /\ cards'[c].rev \in Nat /\ cards'[c].rev > cards[c].rev
             /\ SameReview(cards'[c], cards[c]) \/ ReviewHolds(cards'[c], batches')
             /\ done[c].by # "nobody" => CarriedOut(cards'[c])
    BY <2>0, <2>3, CardMoves
  <2> QED BY <2>1, <2>2, <2>3
<1>2. ApprovedIsDone'
  BY DEF ApprovalInv, ApprovedIsDone
<1> QED BY <1>1, <1>2 DEF ApprovalInv

(* The card an operation records.                                          *)
LEMMA RecordedWhole ==
  ASSUME TypeOK, NEW c \in Cards, Exists(c), NEW k \in CardShape, Record(c, k)
  PROVE  /\ \A d \in Cards \ {c} : cards'[d] = cards[d]
         /\ cards'[c] = [k EXCEPT !.rev = cards[c].rev + 1]
         /\ cards[c].rev \in Nat /\ cards'[c].rev = cards[c].rev + 1
         /\ SameReview(cards'[c], k) /\ cards'[c].status = k.status /\ cards'[c].bg = k.bg
         /\ Exists(c)'
<1>1. cards[c].rev \in Nat
  BY RowParts DEF CardShape
<1>2. cards' = [cards EXCEPT ![c] = [k EXCEPT !.rev = cards[c].rev + 1]] /\ cards \in [Cards -> Rows]
  BY TypeParts DEF Record
<1>3. [k EXCEPT !.rev = cards[c].rev + 1] \in CardShape
  BY <1>1, FieldSet
<1>4. cards'[c] = [k EXCEPT !.rev = cards[c].rev + 1] /\ \A d \in Cards \ {c} : cards'[d] = cards[d]
  BY <1>2
<1> QED BY <1>1, <1>3, <1>4, NoCardIsOther DEF CardShape, SameReview, Exists

LEMMA RecordCalm ==
  ASSUME CardInv, ApprovalInv, NEW c \in Cards, Exists(c), NEW k \in CardShape, Record(c, k),
         TextsKept, UNCHANGED <<screen, done>>,
         SameReview(k, cards[c]) \/ ReviewHolds(k, batches'),
         done[c].by # "nobody" => CarriedOut(k)
  PROVE  ApprovalInv'
<1>1. /\ \A d \in Cards \ {c} : cards'[d] = cards[d]
      /\ cards[c].rev \in Nat /\ cards'[c].rev = cards[c].rev + 1 /\ Exists(c)'
      /\ SameReview(cards'[c], k) /\ cards'[c].status = k.status /\ cards'[c].bg = k.bg
  BY RecordedWhole DEF CardInv
<1>2. SameReview(cards'[c], cards[c]) \/ ReviewHolds(cards'[c], batches')
  BY <1>1 DEF SameReview, ReviewHolds, HasBatch
<1>3. CarriedOut(k) => CarriedOut(cards'[c])
  BY <1>1 DEF SameReview, CarriedOut
<1>4. cards'[c].rev \in Nat /\ cards'[c].rev > cards[c].rev
  BY <1>1
<1> QED BY <1>1, <1>2, <1>3, <1>4, Calm

(* A card steps back.                                                      *)
LEMMA AsideApproved ==
  ASSUME NEW k \in CardShape
  PROVE  /\ SameReview(SetAside(k), k) /\ SetAside(k).rev = k.rev + 1 /\ k.rev \in Nat
         /\ (k.status \in ACTIVE /\ CarriedOut(k) => CarriedOut(SetAside(k)))
<1>1. /\ SetAside(k).kind = k.kind /\ SetAside(k).step = k.step /\ SetAside(k).batch = k.batch
      /\ SetAside(k).status = "paused" /\ (Behind(k) => SetAside(k).bg)
  BY SetAsideShape
<1>2. /\ SetAside(k).fields = k.fields /\ SetAside(k).basis = k.basis /\ SetAside(k).rev = k.rev + 1
      /\ k.rev \in Nat
  <2> DEFINE bg == k.bg \/ (k.kind \in Background /\ k.status = "running")
             new == [k EXCEPT !.status = "paused", !.rev = k.rev + 1, !.bg = bg]
  <2>1. SetAside(k) = new
    BY DEF SetAside, CardShape
  <2> HIDE DEF bg
  <2>2. new.fields = k.fields /\ new.basis = k.basis /\ new.rev = k.rev + 1 /\ k.rev \in Nat
    BY DEF CardShape
  <2> HIDE DEF new
  <2> QED BY <2>1, <2>2
<1>3. k.status \in ACTIVE /\ CarriedOut(k) => k.kind \in Background /\ k.step = "result" /\ Behind(k)
  BY DEF CarriedOut, Behind, ACTIVE, TERMINAL
<1> QED BY <1>1, <1>2, <1>3 DEF SameReview, CarriedOut

LEMMA FrontCalm ==
  ASSUME CardInv, ApprovalInv, NEW c \in Cards, NEW k \in CardShape, cards' = [PauseOthers(c) EXCEPT ![c] = k],
         UNCHANGED <<batches, screen, done>>,
         \/ ~Exists(c) /\ k.step = "details"
         \/ /\ Exists(c) /\ k.rev > cards[c].rev /\ SameReview(k, cards[c])
            /\ done[c].by # "nobody" => CarriedOut(k)
  PROVE  ApprovalInv'
<1>p. /\ PauseOthers(c) \in [Cards -> Rows]
      /\ \A d \in Cards \ {c} :
           \/ PauseOthers(c)[d] = cards[d] /\ (Exists(d) => cards[d].status \notin ACTIVE)
           \/ Exists(d) /\ cards[d].status \in ACTIVE /\ PauseOthers(c)[d] = SetAside(cards[d])
  BY PausedShape DEF CardInv
<1>1. cards'[c] = k /\ Exists(c)' /\ \A d \in Cards \ {c} : cards'[d] = PauseOthers(c)[d]
  BY <1>p, NoCardIsOther DEF Exists
<1>2. TextsKept
  BY DEF TextsKept
<1>3. ASSUME NEW d \in Cards \ {c}
      PROVE  \/ cards'[d] = cards[d]
             \/ /\ Exists(d) /\ Exists(d)' /\ cards'[d].rev \in Nat /\ cards'[d].rev > cards[d].rev
                /\ SameReview(cards'[d], cards[d])
                /\ done[d].by # "nobody" => CarriedOut(cards'[d])
  <2>1. CASE PauseOthers(c)[d] = cards[d]
    BY <1>1, <2>1
  <2>2. CASE Exists(d) /\ cards[d].status \in ACTIVE /\ PauseOthers(c)[d] = SetAside(cards[d])
    <3>1. cards[d] \in CardShape /\ cards'[d] = SetAside(cards[d]) /\ SetAside(cards[d]) \in CardShape
      BY <1>1, <2>2, RowParts, SetAsideShape DEF CardInv
    <3>2. Exists(d)'
      BY <3>1, NoCardIsOther DEF Exists
    <3>3. done[d].by # "nobody" => CarriedOut(cards[d])
      BY DEF ApprovalInv, CardApproved
    <3>4. /\ SameReview(cards'[d], cards[d]) /\ cards'[d].rev = cards[d].rev + 1 /\ cards[d].rev \in Nat
          /\ CarriedOut(cards[d]) => CarriedOut(cards'[d])
      BY <2>2, <3>1, AsideApproved
    <3>5. cards'[d].rev \in Nat /\ cards'[d].rev > cards[d].rev
      BY <3>4
    <3> QED BY <2>2, <3>2, <3>3, <3>4, <3>5
  <2> QED BY <1>p, <2>1, <2>2
<1>4. k.rev \in Nat
  BY DEF CardShape
<1> QED BY <1>1, <1>2, <1>3, <1>4, Calm
-----------------------------------------------------------------------------
(***************************************************************************)
(* The operator's commands.                                                *)
(***************************************************************************)
LEMMA OnlyThese ==
  ASSUME CardInv, ApprovalInv, NEW c \in Cards, NEW action, NEW f, Command(c, action, f)
  PROVE  /\ Exists(c) /\ cards[c] \in CardShape /\ TypeOK /\ ReviewHolds(cards[c], batches)
         /\ action \notin {"launch", "resume", "pause", "cancel"} => done[c].by = "nobody"
         /\ action = "pause" /\ done[c].by # "nobody" =>
              f = NoFields /\ cards[c].step = "result" /\ cards[c].status = "running" /\ cards[c].kind = "outreach"
         /\ action = "resume" /\ done[c].by # "nobody" =>
              cards[c].step = "result" /\ cards[c].kind \in Background /\ cards[c].bg
         /\ done[c].by # "nobody" => cards[c].step = "result"
<1>1. Exists(c) /\ cards[c] \in CardShape /\ Accepts(cards[c], action, f) /\ TypeOK
  BY RowParts DEF CardInv, Command
<1>2. done[c].by # "nobody" => CarriedOut(cards[c])
  BY DEF ApprovalInv, CardApproved
<1>3. /\ cards[c].status \notin TERMINAL
      /\ action \notin {"launch", "resume", "cancel"} => cards[c].status \in ACTIVE
      /\ action \notin {"pause", "cancel"} => cards[c].status # "running"
  BY CommandParts
<1>4. ReviewHolds(cards[c], batches)
  BY <1>1 DEF ApprovalInv, CardApproved
<1> QED BY <1>1, <1>2, <1>3, <1>4 DEF CarriedOut, Accepts, ACTIVE, TERMINAL

LEMMA DropKeepsTexts ==
  ASSUME TypeOK, NEW k, batches' = DropBatch(k) \/ batches' = batches
  PROVE  TextsKept
<1>1. batches \in [BatchIds -> Batch \cup {NoBatch}]
  BY TypeParts
<1> SUFFICES ASSUME NEW b \in BatchIds, batches[b] # NoBatch
             PROVE  batches'[b].text = batches[b].text
  BY DEF TextsKept
<1>2. batches[b] \in Batch
  BY <1>1
<1>3. CASE batches' = batches
  BY <1>3
<1>4. CASE batches' = [batches EXCEPT ![k.batch].status = "cancelled", ![k.batch].pending = FALSE]
  <2>1. CASE b = k.batch
    <3>1. batches'[b] = [batches[b] EXCEPT !.status = "cancelled", !.pending = FALSE]
      BY <1>1, <1>4, <2>1
    <3> QED BY <1>2, <3>1 DEF Batch
  <2>2. CASE b # k.batch
    BY <1>1, <1>4, <2>2
  <2> QED BY <2>1, <2>2
<1> QED BY <1>3, <1>4 DEF DropBatch

LEMMA StartApproved ==
  ASSUME CardInv, ApprovalInv, NEW c \in Cards, NEW kind \in Kinds, NEW f \in Fields, NEW r \in BOOLEAN,
         Start(c, kind, f, r)
  PROVE  ApprovalInv'
<1>1. LET k == NewCard(kind, f, r) IN k \in CardShape /\ k.step = "details"
  BY NewCardShape DEF Inputs
<1> QED BY <1>1, FrontCalm DEF Start

LEMMA LaunchApproved ==
  ASSUME CardInv, ApprovalInv, NEW c \in Cards, NEW d \in Cards, NEW kind \in Kinds, NEW f \in Fields,
         NEW r \in BOOLEAN, Launch(c, d, kind, f, r)
  PROVE  ApprovalInv'
<1>1. LET k == NewCard(kind, f, r) IN k \in CardShape /\ k.step = "details"
  BY NewCardShape DEF Inputs
<1> QED BY <1>1, FrontCalm DEF Launch

LEMMA ResumeApproved ==
  ASSUME CardInv, ApprovalInv, NEW c \in Cards, NEW r \in BOOLEAN, Resume(c, r)
  PROVE  ApprovalInv'
<1> DEFINE k == cards[c]
           t == IF k.kind = "outreach" /\ ~HasBatch(k) THEN r ELSE k.templates
           s == IF k.bg THEN "running" ELSE IF k.step = "review" THEN "ready" ELSE "awaiting_input"
           new == [k EXCEPT !.templates = t, !.status = s, !.rev = k.rev + 1]
<1>0. Command(c, "resume", NoFields)
  BY DEF Resume
<1>1. /\ Exists(c) /\ k \in CardShape /\ TypeOK
      /\ done[c].by # "nobody" => k.step = "result" /\ k.kind \in Background /\ k.bg
  BY <1>0, OnlyThese
<1>2. t \in BOOLEAN /\ s \in {"running", "ready", "awaiting_input"} /\ k.rev \in Nat /\ k.rev + 1 \in Nat
  BY <1>1 DEF CardShape
<1>3. k.bg => s = "running"
  OBVIOUS
<1>4. cards' = [PauseOthers(c) EXCEPT ![c] = new] /\ UNCHANGED <<batches, screen, done>>
  BY <1>1, PausedShape DEF Resume
<1> HIDE DEF t, s, k
<1>5. new \in CardShape
  <2>1. [k EXCEPT !.templates = t] \in CardShape
    BY <1>1, <1>2, FieldSet
  <2>2. [k EXCEPT !.templates = t, !.status = s] \in CardShape
    BY <1>2, <2>1, FieldSet DEF Statuses, ACTIVE
  <2> QED BY <1>2, <2>2, FieldSet
<1>6. SameReview(new, k) /\ new.status = s /\ new.rev = k.rev + 1
  BY <1>1 DEF CardShape, SameReview
<1> HIDE DEF new
<1>7. /\ new.rev > k.rev
      /\ done[c].by # "nobody" => CarriedOut(new)
  BY <1>1, <1>2, <1>3, <1>6 DEF SameReview, CarriedOut
<1> QED BY <1>1, <1>4, <1>5, <1>6, <1>7, FrontCalm DEF k

LEMMA PauseApproved ==
  ASSUME CardInv, ApprovalInv, NEW c \in Cards, NEW f \in Inputs, Pause(c, f)
  PROVE  ApprovalInv'
<1> DEFINE k == cards[c]
           kept == IF f # NoFields THEN Invalidate(k) ELSE k
           bg == k.bg \/ (k.kind = "outreach" /\ k.status = "running")
           behind == [kept EXCEPT !.bg = bg]
           new == [Patch(behind, f) EXCEPT !.status = "paused"]
<1>0. Command(c, "pause", f)
  BY DEF Pause
<1>1. /\ Exists(c) /\ k \in CardShape /\ TypeOK
      /\ done[c].by # "nobody" =>
           f = NoFields /\ k.step = "result" /\ k.status = "running" /\ k.kind = "outreach"
  BY <1>0, OnlyThese
<1>2. kept \in CardShape /\ kept.bg = k.bg
  BY <1>1, InvalidateShape
<1>3. bg \in BOOLEAN
  <2>1. CASE k.kind = "outreach" /\ k.status = "running"
    BY <2>1
  <2>2. CASE ~(k.kind = "outreach" /\ k.status = "running")
    BY <1>1, <2>2 DEF CardShape
  <2> QED BY <2>1, <2>2
<1>4. behind \in CardShape
  <2> HIDE DEF kept, bg
  <2> QED BY <1>2, <1>3, FieldSet
<1>5. behind = [kept EXCEPT !.bg = @ \/ (k.kind = "outreach" /\ k.status = "running")]
  <2> HIDE DEF kept
  <2> QED BY <1>2 DEF CardShape
<1>6. Record(c, new) /\ UNCHANGED <<screen, done>>
  BY <1>5 DEF Pause
<1>7. TextsKept
  BY <1>1, DropKeepsTexts DEF Pause
<1>8. new \in CardShape /\ (f # NoFields => new.step \in {"details", "compose"})
  <2> DEFINE p == Patch(behind, f)
  <2>1. p \in CardShape /\ (f # NoFields => p.step \in {"details", "compose"})
    BY <1>4, PatchShape
  <2> HIDE DEF p
  <2>2. [p EXCEPT !.status = "paused"] \in CardShape
    BY <2>1, FieldSet DEF Statuses
  <2>3. [p EXCEPT !.status = "paused"].step = p.step
    BY <2>1 DEF CardShape
  <2> QED BY <2>1, <2>2, <2>3 DEF p
<1>9. CASE f = NoFields
  <2>1. Patch(behind, f) = behind /\ kept = k
    BY <1>9 DEF Patch
  <2>2. new = [k EXCEPT !.bg = bg, !.status = "paused"]
    BY <2>1
  <2>3. k.kind = "outreach" /\ k.status = "running" => bg
    OBVIOUS
  <2> HIDE DEF new, bg, kept, behind, k
  <2>4. SameReview(new, k) /\ new.status = "paused" /\ new.bg = bg
    BY <1>1, <2>2 DEF CardShape, SameReview
  <2>5. done[c].by # "nobody" => CarriedOut(new)
    BY <1>1, <2>3, <2>4 DEF SameReview, CarriedOut, Background
  <2> QED BY <1>1, <1>6, <1>7, <1>8, <2>4, <2>5, RecordCalm DEF k
<1>10. CASE f # NoFields
  <2> HIDE DEF new
  <2> QED BY <1>1, <1>6, <1>7, <1>8, <1>10, RecordCalm DEF ReviewHolds
<1> QED BY <1>9, <1>10

LEMMA CancelApproved ==
  ASSUME CardInv, ApprovalInv, NEW c \in Cards, Cancel(c)
  PROVE  ApprovalInv'
<1> DEFINE k == cards[c]
           out == IF k.kind = "outreach" THEN "cancelled" ELSE k.out
           new == [k EXCEPT !.status = "cancelled", !.out = out]
<1>0. Command(c, "cancel", NoFields)
  BY DEF Cancel
<1>1. Exists(c) /\ k \in CardShape /\ TypeOK /\ (done[c].by # "nobody" => k.step = "result")
  BY <1>0, OnlyThese
<1>2. out \in Outs
  BY <1>1 DEF CardShape, Outs
<1>3. Record(c, new) /\ UNCHANGED <<screen, done>> /\ TextsKept
  BY <1>1, DropKeepsTexts DEF Cancel
<1> HIDE DEF k, out
<1>4. new \in CardShape
  BY <1>1, <1>2, FieldSet DEF Statuses, TERMINAL
<1>5. SameReview(new, k) /\ new.status = "cancelled"
  BY <1>1 DEF CardShape, SameReview
<1> HIDE DEF new
<1>6. done[c].by # "nobody" => CarriedOut(new)
  BY <1>1, <1>5 DEF CarriedOut, SameReview, TERMINAL
<1> QED BY <1>1, <1>3, <1>4, <1>5, <1>6, RecordCalm DEF k

LEMMA BackApproved ==
  ASSUME CardInv, ApprovalInv, NEW c \in Cards, Back(c)
  PROVE  ApprovalInv'
<1> DEFINE k == cards[c]
           kept == Invalidate(k)
           step == IF k.kind = "outreach" /\ k.step = "review" THEN "compose" ELSE "details"
           new == [kept EXCEPT !.status = "awaiting_input", !.step = step]
<1>0. Command(c, "back", NoFields)
  BY DEF Back
<1>1. Exists(c) /\ k \in CardShape /\ TypeOK /\ done[c].by = "nobody"
  BY <1>0, OnlyThese
<1>2. kept \in CardShape
  BY <1>1, InvalidateShape
<1>3. Record(c, new) /\ UNCHANGED <<screen, done>> /\ TextsKept
  BY <1>1, DropKeepsTexts DEF Back
<1>4. step \in {"compose", "details"}
  OBVIOUS
<1> HIDE DEF k, kept, step
<1>5. new \in CardShape
  BY <1>2, <1>4, FieldSet DEF Statuses, Steps, ACTIVE
<1>6. new.step = step
  BY <1>2 DEF CardShape
<1> HIDE DEF new
<1> QED BY <1>1, <1>3, <1>4, <1>5, <1>6, RecordCalm DEF k, ReviewHolds

(* An edited card is the card itself or back in its form.                  *)
LEMMA EditedCard ==
  ASSUME CardInv, ApprovalInv, NEW c \in Cards, NEW f \in Inputs, NEW action \in {"update", "continue"},
         Edits(c, action, f)
  PROVE  LET e == Edited(cards[c], f) IN
         /\ Exists(c) /\ cards[c] \in CardShape /\ TypeOK /\ done[c].by = "nobody"
         /\ ReviewHolds(cards[c], batches)
         /\ e \in CardShape /\ e.kind = cards[c].kind
         /\ e = cards[c] \/ e.step \in {"details", "compose"}
<1>1. /\ Exists(c) /\ cards[c] \in CardShape /\ TypeOK /\ done[c].by = "nobody"
      /\ ReviewHolds(cards[c], batches)
  BY OnlyThese DEF Edits
<1>2. LET e == Edited(cards[c], f) IN
      /\ e \in CardShape /\ e.kind = cards[c].kind
      /\ f # NoFields => e.step \in {"details", "compose"}
      /\ f = NoFields /\ cards[c].kind # "records" => e = cards[c]
  BY <1>1, EditedShape
<1>3. ASSUME cards[c].kind = "records" PROVE Edited(cards[c], f).step = "details"
  <2> DEFINE kept == Patch(IF f = NoFields THEN cards[c] ELSE Invalidate(cards[c]), f)
  <2>1. Edited(cards[c], f) = [kept EXCEPT !.status = "awaiting_input", !.step = "details"]
    BY <1>3 DEF Edited
  <2>2. kept \in CardShape
    BY <1>1, InvalidateShape, PatchShape
  <2> HIDE DEF kept
  <2>3. [kept EXCEPT !.status = "awaiting_input", !.step = "details"].step = "details"
    BY <2>2 DEF CardShape
  <2> QED BY <2>1, <2>3
<1> QED BY <1>1, <1>2, <1>3

LEMMA EditKeepsTexts ==
  ASSUME TypeOK, NEW k, NEW f, batches' = EditBatches(k, f) \/ batches' = batches
  PROVE  TextsKept
BY DropKeepsTexts DEF EditBatches

LEMMA UpdateApproved ==
  ASSUME CardInv, ApprovalInv, NEW c \in Cards, NEW f \in Inputs, Update(c, f)
  PROVE  ApprovalInv'
<1> DEFINE e == Edited(cards[c], f)
<1>1. /\ Exists(c) /\ TypeOK /\ done[c].by = "nobody" /\ e \in CardShape
      /\ e = cards[c] \/ e.step \in {"details", "compose"}
  BY EditedCard DEF Update
<1>2. Record(c, e) /\ UNCHANGED <<screen, done>> /\ TextsKept
  BY <1>1, EditKeepsTexts DEF Update
<1> HIDE DEF e
<1>3. SameReview(e, cards[c]) \/ ReviewHolds(e, batches')
  BY <1>1 DEF SameReview, ReviewHolds
<1> QED BY <1>1, <1>2, <1>3, RecordCalm

LEMMA ContinueFormApproved ==
  ASSUME CardInv, ApprovalInv, NEW c \in Cards, NEW f \in Inputs, ContinueForm(c, f)
  PROVE  ApprovalInv'
<1> DEFINE e == Edited(cards[c], f)
           contact == [e EXCEPT !.kind = "contact", !.fields = Blank]
           new == IF e.kind = "person" /\ e.fields # Blank THEN contact ELSE e
<1>1. /\ Exists(c) /\ TypeOK /\ done[c].by = "nobody" /\ e \in CardShape
      /\ ReviewHolds(cards[c], batches) /\ (e = cards[c] \/ e.step \in {"details", "compose"})
  BY EditedCard DEF ContinueForm
<1>2. Record(c, new) /\ UNCHANGED <<screen, done>> /\ TextsKept
  BY <1>1, EditKeepsTexts DEF ContinueForm
<1> HIDE DEF e
<1>3. contact \in CardShape /\ contact.step = e.step
  <2>1. contact \in CardShape
    BY <1>1, FieldSet DEF Kinds, Fields
  <2> QED BY <1>1, <2>1 DEF CardShape
<1> HIDE DEF contact
<1>4. new \in CardShape
  BY <1>1, <1>3
<1>5. SameReview(new, cards[c]) \/ ReviewHolds(new, batches')
  <2>1. CASE new = e
    BY <1>1, <2>1 DEF SameReview, ReviewHolds
  <2>2. CASE e.kind = "person" /\ new = contact
    <3>1. e.step # "review"
      BY <1>1, <2>2 DEF ReviewHolds
    <3> QED BY <1>3, <2>2, <3>1 DEF ReviewHolds
  <2> QED BY <2>1, <2>2
<1> HIDE DEF new
<1> QED BY <1>1, <1>2, <1>4, <1>5, RecordCalm

LEMMA ReviewedCard ==
  ASSUME TypeOK, NEW k \in CardShape
  PROVE  /\ Reviewed(k) \in CardShape /\ Reviewed(k).kind = k.kind /\ Reviewed(k).batch = k.batch
         /\ Reviewed(k).fields = k.fields /\ Reviewed(k).basis.text = k.fields
<1> DEFINE basis == [text |-> k.fields, record |-> record]
           new == [k EXCEPT !.step = "review", !.status = "ready", !.basis = basis]
<1>1. Reviewed(k) = new
  BY DEF Reviewed
<1>2. basis.text = k.fields
  OBVIOUS
<1> HIDE DEF basis
<1>3. new.kind = k.kind /\ new.batch = k.batch /\ new.fields = k.fields /\ new.basis = basis
  BY DEF CardShape
<1> HIDE DEF new
<1> QED BY <1>1, <1>2, <1>3, ReviewedShape

LEMMA ContinueReviewApproved ==
  ASSUME CardInv, ApprovalInv, NEW c \in Cards, NEW f \in Inputs, NEW kind \in Kinds \ {"person", "outreach"},
         ContinueReview(c, f, kind)
  PROVE  ApprovalInv'
<1> DEFINE e == Edited(cards[c], f)
<1>1. Exists(c) /\ TypeOK /\ done[c].by = "nobody" /\ e \in CardShape /\ e.kind = kind
  BY EditedCard DEF ContinueReview
<1>2. Record(c, Reviewed(e)) /\ UNCHANGED <<screen, done>> /\ TextsKept
  BY <1>1, EditKeepsTexts DEF ContinueReview
<1>3. ~HasBatch(e)
  BY <1>1, EditsParts DEF ContinueReview
<1> HIDE DEF e
<1>4. /\ Reviewed(e) \in CardShape
      /\ ReviewHolds(Reviewed(e), batches')
  BY <1>1, <1>3, ReviewedCard DEF ReviewHolds, HasBatch
<1> QED BY <1>1, <1>2, <1>4, RecordCalm

LEMMA ContinueVersionApproved ==
  ASSUME CardInv, ApprovalInv, NEW c \in Cards, NEW f \in Inputs, NEW ok \in BOOLEAN, ContinueVersion(c, f, ok)
  PROVE  ApprovalInv'
<1> DEFINE e == Edited(cards[c], f)
           failed == [e EXCEPT !.step = "details", !.status = "failed"]
           new == IF ok THEN Reviewed(e) ELSE failed
<1>1. Exists(c) /\ TypeOK /\ done[c].by = "nobody" /\ e \in CardShape /\ e.kind = "publish"
  BY EditedCard DEF ContinueVersion
<1>2. Record(c, new) /\ UNCHANGED <<screen, done>> /\ TextsKept
  BY <1>1, EditKeepsTexts DEF ContinueVersion
<1>3. ~HasBatch(e)
  BY <1>1, EditsParts DEF ContinueVersion
<1> HIDE DEF e
<1>4. failed \in CardShape
  BY <1>1, FieldSet DEF Steps, Statuses, ACTIVE
<1>5. failed.step = "details"
  BY <1>1 DEF CardShape
<1> HIDE DEF failed
<1>6. Reviewed(e) \in CardShape /\ ReviewHolds(Reviewed(e), batches') /\ ReviewHolds(failed, batches')
  BY <1>1, <1>3, <1>5, ReviewedCard DEF ReviewHolds, HasBatch
<1>7. new \in CardShape /\ ReviewHolds(new, batches')
  BY <1>4, <1>6
<1> HIDE DEF new
<1> QED BY <1>1, <1>2, <1>7, RecordCalm

LEMMA ContinueOutreachApproved ==
  ASSUME CardInv, ApprovalInv, NEW c \in Cards, NEW f \in Inputs, NEW ok \in BOOLEAN, ContinueOutreach(c, f, ok)
  PROVE  ApprovalInv'
<1> DEFINE e == Edited(cards[c], f)
           kept == EditBatches(cards[c], f)
<1>1. /\ Exists(c) /\ TypeOK /\ done[c].by = "nobody" /\ e \in CardShape /\ e.kind = "outreach"
      /\ ReviewHolds(cards[c], batches) /\ (e = cards[c] \/ e.step \in {"details", "compose"})
  BY EditedCard DEF ContinueOutreach
<1>2. UNCHANGED <<screen, done>>
  BY DEF ContinueOutreach
<1>3. batches \in [BatchIds -> Batch \cup {NoBatch}] /\ kept = EditBatches(cards[c], f)
  BY <1>1, TypeParts
<1>4. CASE /\ Record(c, [e EXCEPT !.templates = TRUE, !.step = "compose", !.status = "awaiting_input"])
           /\ batches' = kept
  <2> DEFINE new == [e EXCEPT !.templates = TRUE, !.step = "compose", !.status = "awaiting_input"]
  <2> HIDE DEF e, kept
  <2>1. new \in CardShape
    BY <1>1, FieldSet DEF Steps, Statuses, ACTIVE
  <2>2. new.step = "compose"
    BY <1>1 DEF CardShape
  <2>3. Record(c, new) /\ TextsKept
    BY <1>1, <1>3, <1>4, EditKeepsTexts
  <2> HIDE DEF new
  <2> QED BY <1>1, <1>2, <2>1, <2>2, <2>3, RecordCalm DEF ReviewHolds
<1>5. CASE Record(c, [e EXCEPT !.status = "failed"]) /\ batches' = kept
  <2> DEFINE new == [e EXCEPT !.status = "failed"]
  <2> HIDE DEF e, kept
  <2>1. new \in CardShape
    BY <1>1, FieldSet DEF Statuses, ACTIVE
  <2>2. SameReview(new, e)
    BY <1>1 DEF CardShape, SameReview
  <2>3. Record(c, new) /\ TextsKept
    BY <1>1, <1>3, <1>5, EditKeepsTexts
  <2>4. SameReview(new, cards[c]) \/ ReviewHolds(new, batches')
    BY <1>1, <2>2 DEF SameReview, ReviewHolds
  <2> HIDE DEF new
  <2> QED BY <1>1, <1>2, <2>1, <2>3, <2>4, RecordCalm
<1>6. ASSUME NEW b \in BatchIds, batches[b] = NoBatch,
             batches' = [kept EXCEPT ![b] = [card |-> c, status |-> "draft", text |-> e.fields, pending |-> FALSE]],
             Record(c, [Reviewed(e) EXCEPT !.batch = b])
      PROVE  ApprovalInv'
  <2> DEFINE new == [Reviewed(e) EXCEPT !.batch = b]
             draft == [card |-> c, status |-> "draft", text |-> e.fields, pending |-> FALSE]
  <2>1. /\ kept \in [BatchIds -> Batch \cup {NoBatch}]
        /\ \A x \in BatchIds : batches[x] # NoBatch => kept[x].text = batches[x].text
    <3>1. CASE kept = batches
      BY <1>3, <3>1
    <3>2. CASE kept = DropBatch(cards[c])
      <4> DEFINE k == cards[c]
      <4>1. DropBatch(k) \in [BatchIds -> Batch \cup {NoBatch}]
        BY <1>1, DroppedBatch DEF CardInv
      <4>2. ASSUME NEW x \in BatchIds, batches[x] # NoBatch
            PROVE  DropBatch(k)[x].text = batches[x].text
        <5>1. batches[x] \in Batch
          BY <1>3, <4>2
        <5>2. CASE DropBatch(k) = batches
          BY <5>2
        <5>3. CASE DropBatch(k) = [batches EXCEPT ![k.batch].status = "cancelled", ![k.batch].pending = FALSE]
          <6>1. CASE x = k.batch
            <7>1. DropBatch(k)[x] = [batches[x] EXCEPT !.status = "cancelled", !.pending = FALSE]
              BY <1>3, <5>3, <6>1
            <7> QED BY <5>1, <7>1 DEF Batch
          <6>2. CASE x # k.batch
            BY <1>3, <5>3, <6>2
          <6> QED BY <6>1, <6>2
        <5> QED BY <5>2, <5>3 DEF DropBatch
      <4> QED BY <3>2, <4>1, <4>2
    <3> QED BY <3>1, <3>2 DEF EditBatches
  <2> HIDE DEF e, kept
  <2>2. batches'[b].text = e.fields /\ \A x \in BatchIds \ {b} : batches'[x] = kept[x]
    BY <1>6, <2>1
  <2>3. TextsKept
    BY <1>6, <2>1, <2>2 DEF TextsKept
  <2>4. /\ Reviewed(e) \in CardShape /\ Reviewed(e).kind = "outreach" /\ Reviewed(e).fields = e.fields
        /\ Reviewed(e).basis.text = e.fields
    BY <1>1, ReviewedCard
  <2>5. /\ new \in CardShape /\ new.kind = "outreach" /\ new.fields = e.fields /\ new.basis.text = e.fields
        /\ new.batch = b
    BY <2>4 DEF CardShape
  <2>6. Record(c, new)
    BY <1>6
  <2> HIDE DEF new
  <2>7. ReviewHolds(new, batches')
    BY <2>2, <2>5 DEF ReviewHolds
  <2> QED BY <1>1, <1>2, <2>3, <2>5, <2>6, <2>7, RecordCalm
<1>7. \/ /\ Record(c, [e EXCEPT !.templates = TRUE, !.step = "compose", !.status = "awaiting_input"])
         /\ batches' = kept
      \/ Record(c, [e EXCEPT !.status = "failed"]) /\ batches' = kept
      \/ \E b \in BatchIds :
           /\ batches[b] = NoBatch
           /\ batches' = [kept EXCEPT ![b] = [card |-> c, status |-> "draft", text |-> e.fields, pending |-> FALSE]]
           /\ Record(c, [Reviewed(e) EXCEPT !.batch = b])
  BY DEF ContinueOutreach
<1> HIDE DEF e, kept
<1> QED BY <1>4, <1>5, <1>6, <1>7
-----------------------------------------------------------------------------
(***************************************************************************)
(* A look at the review, and its approval.                                 *)
(***************************************************************************)
LEMMA LookApproved ==
  ASSUME CardInv, ApprovalInv, NEW c \in Cards, Look(c)
  PROVE  ApprovalInv'
<1> DEFINE seen == [rev |-> cards[c].rev, basis |-> cards[c].basis, shown |-> TRUE]
<1>1. /\ Open(c) /\ cards[c].step = "review" /\ screen' = [screen EXCEPT ![c] = seen]
      /\ UNCHANGED <<cards, batches, posting, meta, posts, record, spent, done>>
  BY DEF Look
<1>2. /\ screen'[c] = seen /\ \A d \in Cards \ {c} : screen'[d] = screen[d]
      /\ TypeOK /\ Exists(c) /\ cards[c].rev \in Nat
  BY <1>1, RowParts DEF CardInv, TypeOK, Open, CardShape
<1>3. done[c].by = "nobody"
  BY <1>1 DEF ApprovalInv, CardApproved, CarriedOut
<1>4. ASSUME NEW d \in Cards PROVE CardApproved(d)'
  <2>0. CardApproved(d)
    BY DEF ApprovalInv
  <2>1. CASE d = c
    <3>1. Seen(screen'[c], cards[c])
      BY <1>2 DEF Seen
    <3> QED BY <1>1, <1>2, <1>3, <2>0, <2>1, <3>1 DEF CardApproved, Exists
  <2>2. CASE d # c
    <3>1. TextsKept
      BY <1>1 DEF TextsKept
    <3> QED BY <1>1, <1>2, <2>0, <2>2, <3>1, CardStays
  <2> QED BY <2>1, <2>2
<1>5. ApprovedIsDone'
  BY <1>1, <1>2, <1>3 DEF ApprovalInv, ApprovedIsDone
<1> QED BY <1>4, <1>5 DEF ApprovalInv

(* What is done is what the card's review was made from, and a button      *)
(* press names the revision of the screen, so that is what it shows.       *)
LEMMA CompleteCalm ==
  ASSUME CardInv, ApprovalInv, NEW c \in Cards, NEW by \in Approvers, Ready(c, by),
         NEW k \in CardShape, Record(c, k), CarriedOut(k), TextsKept, screen' = screen,
         Did(c, by, cards[c].basis.text, cards[c].basis.record)
  PROVE  ApprovalInv'
<1> DEFINE did == [by |-> by, text |-> cards[c].basis.text, record |-> cards[c].basis.record]
<1>1. Exists(c) /\ cards[c].step = "review" /\ TypeOK /\ ExpectedRevision(c, by) /\ RestTyped
  BY ReadyParts DEF Ready
<1>2. done'[c] = did /\ \A d \in Cards \ {c} : done'[d] = done[d]
  BY <1>1 DEF Did, RestTyped
<1>3. /\ \A d \in Cards \ {c} : cards'[d] = cards[d]
      /\ cards[c].rev \in Nat /\ cards'[c].rev = cards[c].rev + 1 /\ Exists(c)'
      /\ SameReview(cards'[c], k) /\ cards'[c].status = k.status /\ cards'[c].bg = k.bg
  BY <1>1, RecordedWhole
<1>4. CarriedOut(cards'[c])
  BY <1>3 DEF CarriedOut, SameReview
<1>5. ReviewHolds(cards'[c], batches')
  BY <1>4 DEF CarriedOut, ReviewHolds
<1>6. ASSUME NEW d \in Cards PROVE CardApproved(d)'
  <2>0. CardApproved(d)
    BY DEF ApprovalInv
  <2>1. CASE d = c
    <3>1. cards'[c].rev \in Nat /\ cards'[c].rev > cards[c].rev
      BY <1>3
    <3> QED BY <1>1, <1>3, <1>4, <1>5, <2>0, <2>1, <3>1, CardMoves
  <2>2. CASE d # c
    BY <1>2, <1>3, <2>0, <2>2, CardStays
  <2> QED BY <2>1, <2>2
<1>7. by = "button" => screen[c].basis = cards[c].basis
  BY <1>1 DEF ExpectedRevision, ApprovalInv, CardApproved, Seen
<1>8. ApprovedIsDone'
  BY <1>2, <1>7 DEF ApprovalInv, ApprovedIsDone
<1> QED BY <1>6, <1>8 DEF ApprovalInv

(* What the review was made from is what the form still holds.             *)
LEMMA ReadyHolds ==
  ASSUME CardInv, ApprovalInv, NEW c \in Cards, NEW by \in Approvers, Ready(c, by)
  PROVE  /\ Exists(c) /\ cards[c] \in CardShape /\ TypeOK /\ BatchesMatch
         /\ cards[c].step = "review" /\ cards[c].status = "ready"
         /\ cards[c].basis.text = cards[c].fields
         /\ HasBatch(cards[c]) => batches[cards[c].batch].text = cards[c].fields
         /\ done[c].by = "nobody"
<1>1. Exists(c) /\ cards[c] \in CardShape /\ TypeOK /\ BatchesMatch /\ cards[c].step = "review" /\ cards[c].status = "ready"
  BY ReadyParts
<1> QED BY <1>1 DEF ApprovalInv, CardApproved, ReviewHolds, CarriedOut

LEMMA CompletedCard ==
  ASSUME NEW k \in CardShape, NEW out \in Outs,
         NEW new, new = [k EXCEPT !.status = "completed", !.step = "result", !.out = out]
  PROVE  new \in CardShape /\ CarriedOut(new)
<1>1. new \in CardShape
  BY FieldSet DEF Steps, Statuses, TERMINAL
<1>2. new.status = "completed" /\ new.step = "result"
  BY DEF CardShape
<1> QED BY <1>1, <1>2 DEF CarriedOut, TERMINAL

LEMMA RunningCard ==
  ASSUME NEW k \in CardShape, NEW out \in Outs, k.kind \in Background,
         NEW new, new = [k EXCEPT !.status = "running", !.step = "result", !.out = out]
  PROVE  new \in CardShape /\ CarriedOut(new)
<1>1. new \in CardShape
  BY FieldSet DEF Steps, Statuses, ACTIVE
<1>2. new.status = "running" /\ new.step = "result" /\ new.kind = k.kind
  BY DEF CardShape
<1> QED BY <1>1, <1>2 DEF CarriedOut

LEMMA CompleteContactApproved ==
  ASSUME CardInv, ApprovalInv, NEW c \in Cards, NEW by \in Approvers, CompleteContact(c, by)
  PROVE  ApprovalInv'
<1> DEFINE new == [cards[c] EXCEPT !.status = "completed", !.step = "result", !.out = "done"]
<1>1. /\ Ready(c, by) /\ Record(c, new) /\ Did(c, by, cards[c].fields, cards[c].basis.record)
      /\ UNCHANGED <<batches, screen>>
  BY DEF CompleteContact
<1>2. cards[c] \in CardShape /\ cards[c].basis.text = cards[c].fields
  BY <1>1, ReadyHolds
<1>3. new \in CardShape /\ CarriedOut(new)
  BY <1>2, CompletedCard DEF Outs
<1>4. TextsKept
  BY <1>1 DEF TextsKept
<1> HIDE DEF new
<1> QED BY <1>1, <1>2, <1>3, <1>4, CompleteCalm

LEMMA CompleteChangeApproved ==
  ASSUME CardInv, ApprovalInv, NEW c \in Cards, NEW by \in Approvers, NEW kind, CompleteChange(c, by, kind)
  PROVE  ApprovalInv'
<1> DEFINE new == [cards[c] EXCEPT !.status = "completed", !.step = "result", !.out = "done"]
<1>1. /\ Ready(c, by) /\ Record(c, new) /\ Did(c, by, cards[c].fields, record)
      /\ cards[c].basis.record = record /\ UNCHANGED <<batches, screen>>
  BY DEF CompleteChange, StillReviewed
<1>2. cards[c] \in CardShape /\ cards[c].basis.text = cards[c].fields
  BY <1>1, ReadyHolds
<1>3. new \in CardShape /\ CarriedOut(new)
  BY <1>2, CompletedCard DEF Outs
<1>4. TextsKept
  BY <1>1 DEF TextsKept
<1> HIDE DEF new
<1> QED BY <1>1, <1>2, <1>3, <1>4, CompleteCalm

LEMMA CompleteVersionApproved ==
  ASSUME CardInv, ApprovalInv, NEW c \in Cards, NEW by \in Approvers, CompleteVersion(c, by)
  PROVE  ApprovalInv'
<1> DEFINE new == [cards[c] EXCEPT !.status = "failed", !.step = "details", !.out = "done"]
<1>1. CASE CompleteChange(c, by, "publish")
  BY <1>1, CompleteChangeApproved
<1>2. CASE Ready(c, by) /\ Record(c, new) /\ UNCHANGED <<batches, screen, done>>
  <2>1. Exists(c) /\ cards[c] \in CardShape /\ done[c].by = "nobody"
    BY <1>2, ReadyHolds
  <2>2. TextsKept
    BY <1>2 DEF TextsKept
  <2>3. new \in CardShape
    BY <2>1, FieldSet DEF Steps, Statuses, ACTIVE, Outs
  <2>4. new.step = "details"
    BY <2>1 DEF CardShape
  <2>5. Record(c, new)
    BY <1>2
  <2> HIDE DEF new
  <2> QED BY <1>2, <2>1, <2>2, <2>3, <2>4, <2>5, RecordCalm DEF ReviewHolds
<1> QED BY <1>1, <1>2 DEF CompleteVersion

LEMMA CompleteOutreachApproved ==
  ASSUME CardInv, ApprovalInv, NEW c \in Cards, NEW by \in Approvers, CompleteOutreach(c, by)
  PROVE  ApprovalInv'
<1> DEFINE k == cards[c]
           b == k.batch
           over == [k EXCEPT !.status = "completed", !.step = "result", !.out = "processed"]
           runs == [k EXCEPT !.status = "running", !.step = "result", !.out = "queued"]
           new == IF batches[b].status = "queued" /\ ~batches[b].pending THEN over ELSE runs
           queued == [batches[b] EXCEPT !.status = "queued", !.pending = TRUE]
<1>1. /\ Ready(c, by) /\ k.kind = "outreach" /\ Record(c, new) /\ Did(c, by, batches[b].text, k.basis.record)
      /\ UNCHANGED screen
      /\ batches' = IF batches[b].status = "draft"
                    THEN [batches EXCEPT ![b].status = "queued", ![b].pending = TRUE] ELSE batches
  BY DEF CompleteOutreach, BatchOf
<1>2. /\ Exists(c) /\ k \in CardShape /\ TypeOK /\ BatchesMatch /\ k.step = "review"
      /\ k.basis.text = k.fields /\ (HasBatch(k) => batches[b].text = k.fields)
  BY <1>1, ReadyHolds
<1>3. HasBatch(k) /\ b \in BatchIds /\ batches[b].text = k.basis.text
  BY <1>1, <1>2, RowParts DEF BatchesMatch
<1>4. batches \in [BatchIds -> Batch \cup {NoBatch}] /\ batches[b] \in Batch
  BY <1>2, <1>3, TypeParts DEF BatchesMatch
<1>5. new \in CardShape /\ CarriedOut(new)
  <2>1. over \in CardShape /\ CarriedOut(over)
    BY <1>2, CompletedCard DEF Outs
  <2>2. runs \in CardShape /\ CarriedOut(runs)
    BY <1>1, <1>2, RunningCard DEF Outs, Background
  <2> QED BY <2>1, <2>2
<1> HIDE DEF new
<1>6. TextsKept
  <2>1. CASE batches' = batches
    BY <2>1 DEF TextsKept
  <2>2. CASE batches' = [batches EXCEPT ![b].status = "queued", ![b].pending = TRUE]
    <3>1. batches'[b].text = batches[b].text
      BY <1>3, <1>4, <2>2 DEF Batch
    <3>2. \A x \in BatchIds \ {b} : batches'[x] = batches[x]
      BY <1>4, <2>2
    <3> QED BY <3>1, <3>2 DEF TextsKept
  <2> QED BY <1>1, <2>1, <2>2
<1> QED BY <1>1, <1>3, <1>5, <1>6, CompleteCalm

LEMMA SubmitTemplateApproved ==
  ASSUME CardInv, ApprovalInv, NEW c \in Cards, NEW by \in Approvers, SubmitTemplate(c, by)
  PROVE  ApprovalInv'
<1> DEFINE new == [cards[c] EXCEPT !.status = "running", !.step = "result", !.out = "submitting"]
<1>1. /\ Ready(c, by) /\ Record(c, new) /\ Did(c, by, cards[c].basis.text, cards[c].basis.record)
      /\ cards[c].kind = "create_template" /\ UNCHANGED <<batches, screen>>
  BY DEF SubmitTemplate
<1>2. cards[c] \in CardShape
  BY <1>1, ReadyHolds
<1>3. new \in CardShape /\ CarriedOut(new)
  BY <1>1, <1>2, RunningCard DEF Outs, Background
<1>4. TextsKept
  BY <1>1 DEF TextsKept
<1> HIDE DEF new
<1> QED BY <1>1, <1>3, <1>4, CompleteCalm
-----------------------------------------------------------------------------
(***************************************************************************)
(* What goes on by itself: no card is filled in or reviewed by it.         *)
(***************************************************************************)
(* A card that is brought up to date keeps what it is about, and comes no  *)
(* nearer to the form.                                                     *)
UpToDate(new, k) ==
  /\ SameReview(new, k) /\ new.rev \in Nat /\ new.rev > k.rev
  /\ CarriedOut(k) => CarriedOut(new)

LEMMA QuietApproved ==
  ASSUME CardInv, ApprovalInv, UNCHANGED <<batches, screen, done>>,
         \A c \in Cards : \/ cards'[c] = cards[c]
                          \/ Exists(c) /\ cards'[c] \in CardShape /\ UpToDate(cards'[c], cards[c])
  PROVE  ApprovalInv'
<1>1. TextsKept
  BY DEF TextsKept
<1>2. ASSUME NEW c \in Cards, Exists(c), cards'[c] \in CardShape, UpToDate(cards'[c], cards[c])
      PROVE  /\ Exists(c) /\ Exists(c)' /\ cards'[c].rev \in Nat /\ cards'[c].rev > cards[c].rev
             /\ SameReview(cards'[c], cards[c])
             /\ done[c].by # "nobody" => CarriedOut(cards'[c])
  BY <1>2, NoCardIsOther DEF UpToDate, Exists, ApprovalInv, CardApproved
<1> QED BY <1>1, <1>2, Calm

LEMMA TemplateAnswerApproved ==
  ASSUME CardInv, ApprovalInv, NEW c \in Cards, NEW outcome \in {"submitted", "rejected", "ambiguous"},
         TemplateAnswer(c, outcome)
  PROVE  ApprovalInv'
<1> DEFINE k == cards[c]
           decided == outcome = "rejected" \/ (outcome = "submitted" /\ meta[c] \in Decided)
           status == IF decided THEN "completed" ELSE k.status
           new == [k EXCEPT !.out = outcome, !.rev = k.rev + 1, !.status = status]
<1>1. /\ posting[c] = "posted" /\ cards' = [cards EXCEPT ![c] = new]
      /\ UNCHANGED <<batches, screen, done>>
  BY DEF TemplateAnswer
<1>2. Exists(c) /\ k \in CardShape /\ cards \in [Cards -> Rows]
  <2>1. Exists(c)
    BY <1>1 DEF CardInv, SubmittedOnce, Submitted
  <2> QED BY <2>1, RowParts, TypeParts DEF CardInv
<1>3. /\ status \in {k.status, "completed"} /\ k.rev \in Nat /\ k.rev + 1 \in Nat
      /\ k.status \in Statuses /\ outcome \in Outs
  BY <1>2 DEF CardShape, Statuses, Outs
<1> HIDE DEF k, status
<1>4. new \in CardShape
  <2>1. [k EXCEPT !.out = outcome] \in CardShape
    BY <1>2, <1>3, FieldSet
  <2>2. [k EXCEPT !.out = outcome, !.rev = k.rev + 1] \in CardShape
    BY <1>3, <2>1, FieldSet
  <2> QED BY <1>3, <2>2, FieldSet DEF Statuses, TERMINAL
<1>5. SameReview(new, k) /\ new.rev = k.rev + 1 /\ new.status = status /\ new.bg = k.bg
  BY <1>2 DEF CardShape, SameReview
<1>6. cards'[c] = new /\ \A d \in Cards \ {c} : cards'[d] = cards[d]
  BY <1>1, <1>2
<1> HIDE DEF new
<1>7. UpToDate(new, k)
  BY <1>3, <1>5 DEF UpToDate, SameReview, CarriedOut, TERMINAL
<1> QED BY <1>1, <1>2, <1>4, <1>6, <1>7, QuietApproved DEF k

LEMMA SyncedReview ==
  ASSUME CardInv, NEW c \in Cards, NEW up \in BOOLEAN
  PROVE  Synced(c, up) = cards[c] \/ (Exists(c) /\ UpToDate(Synced(c, up), cards[c]))
<1> DEFINE k == cards[c]
           s == CASE Exists(c) /\ k.kind = "outreach" -> OutreachSynced(k)
                  [] Exists(c) /\ k.kind = "create_template" /\ up -> TemplateSynced(k, c)
                  [] OTHER -> k
<1>1. Synced(c, up) = IF s # k THEN [s EXCEPT !.rev = @ + 1] ELSE s
  BY DEF Synced
<1>2. CASE s = k
  BY <1>1, <1>2
<1>3. CASE s # k
  <2>1. Exists(c)
    BY <1>3
  <2>2. k \in CardShape
    BY <2>1, RowParts DEF CardInv
  <2>3. /\ s \in CardShape /\ SameReview(s, k) /\ s.rev = k.rev /\ s.status \in {k.status, "completed"}
        /\ k.bg => s.bg
    <3>1. CASE k.kind = "outreach"
      <4>1. s = OutreachSynced(k)
        BY <2>1, <3>1
      <4> HIDE DEF s, k
      <4> DEFINE over == ~BatchOf(k).pending
                 st == IF over THEN "completed" ELSE k.status
                 out == IF over THEN "processed" ELSE k.out
                 bg == k.bg \/ (~over /\ k.status = "paused")
                 new == [k EXCEPT !.status = st, !.out = out, !.bg = bg]
      <4>2. s \in {k, new}
        BY <4>1 DEF OutreachSynced
      <4>3. st \in Statuses /\ out \in Outs /\ st \in {k.status, "completed"}
        BY <2>2 DEF CardShape, Statuses, TERMINAL, Outs
      <4>4. bg \in BOOLEAN
        <5>1. CASE ~over /\ k.status = "paused"
          BY <5>1
        <5>2. CASE ~(~over /\ k.status = "paused")
          BY <2>2, <5>2 DEF CardShape
        <5> QED BY <5>1, <5>2
      <4>5. k.bg => bg
        OBVIOUS
      <4> HIDE DEF st, out, bg
      <4>6. new \in CardShape
        BY <2>2, <4>3, <4>4, FieldSet
      <4>7. SameReview(new, k) /\ new.rev = k.rev /\ new.status = st /\ new.bg = bg
        BY <2>2 DEF CardShape, SameReview
      <4> HIDE DEF new
      <4> QED BY <2>2, <4>2, <4>3, <4>5, <4>6, <4>7 DEF SameReview
    <3>2. CASE k.kind = "create_template" /\ up
      <4>1. s = TemplateSynced(k, c)
        BY <2>1, <3>2
      <4> HIDE DEF s, k
      <4> DEFINE st == IF meta[c] \in Decided THEN "completed" ELSE k.status
                 new == [k EXCEPT !.out = "submitted", !.status = st]
      <4>2. s \in {k, new}
        BY <4>1 DEF TemplateSynced
      <4>3. st \in Statuses /\ st \in {k.status, "completed"}
        BY <2>2 DEF CardShape, Statuses, TERMINAL
      <4> HIDE DEF st
      <4>4. new \in CardShape
        BY <2>2, <4>3, FieldSet DEF Outs
      <4>5. SameReview(new, k) /\ new.rev = k.rev /\ new.status = st /\ new.bg = k.bg
        BY <2>2 DEF CardShape, SameReview
      <4> HIDE DEF new
      <4> QED BY <2>2, <4>2, <4>3, <4>4, <4>5 DEF SameReview
    <3> QED BY <1>3, <3>1, <3>2
  <2>4. Synced(c, up) = [s EXCEPT !.rev = s.rev + 1]
    BY <1>1, <1>3
  <2> HIDE DEF s, k
  <2> DEFINE next == [s EXCEPT !.rev = s.rev + 1]
  <2>5. /\ SameReview(next, s) /\ next.rev = s.rev + 1 /\ s.rev \in Nat /\ s.rev + 1 \in Nat
        /\ next.status = s.status /\ next.bg = s.bg
    BY <2>3 DEF CardShape, SameReview
  <2> HIDE DEF next
  <2>6. UpToDate(next, k)
    BY <2>3, <2>5 DEF UpToDate, SameReview, CarriedOut, TERMINAL
  <2> QED BY <2>1, <2>4, <2>6 DEF next, k
<1> QED BY <1>2, <1>3

LEMMA ListViewsApproved ==
  ASSUME CardInv, ApprovalInv, NEW up \in BOOLEAN, ListViews(up)
  PROVE  ApprovalInv'
<1>1. (\A c \in Cards : cards'[c] = Synced(c, up)) /\ UNCHANGED <<batches, screen, done>>
  BY DEF ListViews
<1>2. \A c \in Cards : Exists(c) => cards'[c] \in CardShape
  BY <1>1, SyncedShape DEF Rows
<1>3. \A c \in Cards : \/ cards'[c] = cards[c]
                       \/ Exists(c) /\ UpToDate(cards'[c], cards[c])
  BY <1>1, SyncedReview
<1> QED BY <1>1, <1>2, <1>3, QuietApproved

LEMMA PollAgainApproved ==
  ASSUME CardInv, ApprovalInv, NEW c \in Cards, NEW r \in BOOLEAN, PollAgain(c, r)
  PROVE  ApprovalInv'
<1> DEFINE k == cards[c]
           t == IF k.kind = "outreach" THEN r ELSE k.templates
           new == [k EXCEPT !.rev = k.rev + 1, !.templates = t]
<1>1. Exists(c) /\ k \in CardShape /\ cards \in [Cards -> Rows]
  BY RowParts, TypeParts DEF PollAgain, CardInv
<1>2. cards' = [cards EXCEPT ![c] = new] /\ UNCHANGED <<batches, screen, done>>
  BY <1>1 DEF PollAgain, CardShape
<1>3. t \in BOOLEAN /\ k.rev \in Nat /\ k.rev + 1 \in Nat
  BY <1>1 DEF CardShape
<1> HIDE DEF k, t
<1>4. new \in CardShape
  BY <1>1, <1>3, FieldSet
<1>5. SameReview(new, k) /\ new.rev = k.rev + 1 /\ new.status = k.status /\ new.bg = k.bg
  BY <1>1 DEF CardShape, SameReview
<1>6. cards'[c] = new /\ \A d \in Cards \ {c} : cards'[d] = cards[d]
  BY <1>1, <1>2
<1> HIDE DEF new
<1>7. UpToDate(new, k)
  BY <1>3, <1>5 DEF UpToDate, SameReview, CarriedOut
<1> QED BY <1>1, <1>2, <1>4, <1>6, <1>7, QuietApproved DEF k

LEMMA BatchStepsApproved ==
  ASSUME CardInv, ApprovalInv, NEW b \in BatchIds, RecipientsSettled(b) \/ CancelBatch(b)
  PROVE  ApprovalInv'
<1>1. batches \in [BatchIds -> Batch \cup {NoBatch}] /\ batches[b].status = "queued"
  BY TypeParts DEF CardInv, RecipientsSettled, CancelBatch
<1>2. batches[b] \in Batch
  BY <1>1 DEF NoBatch
<1>3. batches'[b].text = batches[b].text /\ \A x \in BatchIds \ {b} : batches'[x] = batches[x]
  BY <1>1, <1>2 DEF RecipientsSettled, CancelBatch, Batch
<1>4. TextsKept
  BY <1>3 DEF TextsKept
<1>5. UNCHANGED <<cards, screen, done>>
  BY DEF RecipientsSettled, CancelBatch
<1> QED BY <1>4, <1>5, Calm
-----------------------------------------------------------------------------
(***************************************************************************)
(* The invariant, and what follows from it.                                *)
(***************************************************************************)
LEMMA InitApproval == Init => ApprovalInv
BY DEF Init, ApprovalInv, CardApproved, ApprovedIsDone, Exists, NoScreen, NotDone

LEMMA OperatorApproved ==
  ASSUME CardInv, ApprovalInv, NEW c \in Cards, Operator(c)
  PROVE  ApprovalInv'
<1>1. CASE \E kind \in StartKinds, f \in Fields, r \in BOOLEAN : Start(c, kind, f, r)
  BY <1>1, StartApproved, StartKindsAreKinds
<1>2. CASE \E d \in Cards, kind \in StartKinds \cup {"create_template"}, f \in Fields, r \in BOOLEAN :
              Launch(c, d, kind, f, r)
  BY <1>2, LaunchApproved, StartKindsAreKinds DEF Kinds
<1>3. CASE \E r \in BOOLEAN : Resume(c, r)
  BY <1>3, ResumeApproved
<1>4. CASE \E f \in Inputs : Pause(c, f) \/ Update(c, f) \/ ContinueForm(c, f)
  BY <1>4, PauseApproved, UpdateApproved, ContinueFormApproved
<1>5. CASE \E f \in Inputs : ContinueContact(c, f) \/ ContinueMember(c, f) \/ ContinueTemplate(c, f)
  <2>1. {"contact", "member", "create_template"} \subseteq Kinds \ {"person", "outreach"}
    BY DEF Kinds
  <2> QED BY <1>5, <2>1, ContinueReviewApproved DEF ContinueContact, ContinueMember, ContinueTemplate
<1>6. CASE \E f \in Inputs, ok \in BOOLEAN : ContinueVersion(c, f, ok) \/ ContinueOutreach(c, f, ok)
  BY <1>6, ContinueVersionApproved, ContinueOutreachApproved
<1>7. CASE Cancel(c) \/ Back(c) \/ Look(c)
  BY <1>7, CancelApproved, BackApproved, LookApproved
<1>8. CASE \E by \in Approvers :
              \/ CompleteContact(c, by) \/ CompleteMember(c, by) \/ CompleteVersion(c, by)
              \/ CompleteOutreach(c, by) \/ SubmitTemplate(c, by)
  BY <1>8, CompleteContactApproved, CompleteChangeApproved, CompleteVersionApproved,
     CompleteOutreachApproved, SubmitTemplateApproved DEF CompleteMember
<1> QED BY <1>1, <1>2, <1>3, <1>4, <1>5, <1>6, <1>7, <1>8 DEF Operator

LEMMA UntouchedApproved ==
  ASSUME CardInv, ApprovalInv, UNCHANGED <<cards, batches, screen, done>>
  PROVE  ApprovalInv'
BY QuietApproved

LEMMA SystemApproved ==
  ASSUME CardInv, ApprovalInv, NEW c \in Cards, System(c)
  PROVE  ApprovalInv'
<1>1. CASE PostTemplate(c) \/ Crash(c)
  BY <1>1, UntouchedApproved DEF PostTemplate, Crash
<1>2. CASE \E o \in {"submitted", "rejected", "ambiguous"} : TemplateAnswer(c, o)
  BY <1>2, TemplateAnswerApproved
<1>3. CASE \/ \E s \in {"PENDING"} \cup Decided : MetaReceives(c, s)
           \/ \E s \in Decided : MetaDecides(c, s)
  BY <1>3, UntouchedApproved DEF MetaReceives, MetaDecides
<1>4. CASE \E r \in BOOLEAN : PollAgain(c, r)
  BY <1>4, PollAgainApproved
<1> QED BY <1>1, <1>2, <1>3, <1>4 DEF System

LEMMA NextApproved == CardInv /\ ApprovalInv /\ [Next]_vars => ApprovalInv'
<1> SUFFICES ASSUME CardInv, ApprovalInv, [Next]_vars PROVE ApprovalInv'
  OBVIOUS
<1>1. CASE \E c \in Cards : Operator(c) \/ System(c)
  BY <1>1, OperatorApproved, SystemApproved
<1>2. CASE \E up \in BOOLEAN : ListViews(up)
  BY <1>2, ListViewsApproved
<1>3. CASE \E b \in BatchIds : RecipientsSettled(b) \/ CancelBatch(b)
  BY <1>3, BatchStepsApproved
<1>4. CASE OtherEdit
  BY <1>4, UntouchedApproved DEF OtherEdit
<1>5. CASE UNCHANGED vars
  BY <1>5, UntouchedApproved DEF vars
<1> QED BY <1>1, <1>2, <1>3, <1>4, <1>5 DEF Next

(* What a button press did is what the review on the screen showed, its    *)
(* text and the version of the row it was compared with, however cards     *)
(* were edited, paused, resumed or synchronized and others changed the row *)
(* since: an edit takes the card out of its review, a screen of an earlier *)
(* revision is refused, and a row that changed stops the change            *)
(* (patch, expected_revision, the comparison in complete).                 *)
THEOREM DoneAsApproved == Spec => []ApprovedIsDone
<1>1. Init => CardInv /\ ApprovalInv
  BY InitCardInv, InitApproval
<1>2. (CardInv /\ ApprovalInv) /\ [Next]_vars => (CardInv /\ ApprovalInv)'
  BY NextKeeps, NextApproved
<1>3. ApprovalInv => ApprovedIsDone
  BY DEF ApprovalInv
<1> QED BY <1>1, <1>2, <1>3, PTL DEF Spec
=============================================================================
