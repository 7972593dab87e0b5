----------------------------- MODULE ConsoleProofs -----------------------------
(***************************************************************************)
(* What the web console guarantees for any number of people, requests,     *)
(* changes, invitations, tokens and refresh calls.                         *)
(* Accounts:                                                               *)
(*   TypeCorrect    every variable keeps its type.                         *)
(*   OwnerStays     two changes side by side leave an active owner.        *)
(*   CardIsExact    a reviewed change meets the access it was shown.       *)
(* One operator's session:                                                 *)
(*   TokensExchangedOnce  a refresh token is exchanged for one other.      *)
(*   PageSignedIn         a page is not signed out by its own requests.    *)
(* One chat of the operator assistant:                                     *)
(*   MessagesOnce    a message is one turn, and kept until it is.          *)
(*   WordsAuthorize  a turn carries out what its message says.             *)
(* One task:                                                               *)
(*   TasksAreHonest  what is reported complete, or to review, is so.       *)
(***************************************************************************)
EXTENDS Console, FiniteSetTheorems, SequenceTheorems, WellFoundedInduction, TLAPS

Rows == {NoUser} \cup [role : Roles, active : BOOLEAN]
Patches ==
  [op : {"patch"}, at : {"claims", "locked", "write"}, who : Emails,
   payload : Payloads, base : Rows, seen : Rows]
Invites == [op : {"invite"}, at : {"insert"}, email : Emails, role : Roles]
Accepts == [op : {"accept"}, at : {"insert"}, row : DOMAIN invitations]
Records == {Idle} \cup Patches \cup Invites \cup Accepts
Reviews == {NoCard} \cup [who : Emails, payload : Payloads, base : Rows]

(* The records that are passed on: open requests, and the card's review.   *)
RecordsMatch ==
  /\ calls \in [Calls -> Records]
  /\ card \in Reviews

TypeInv == TypeOK /\ RecordsMatch

(* Nothing belongs to a company that is not there.                         *)
NobodyBefore ==
  ~company => /\ \A e \in Emails : users[e] = NoUser
              /\ invitations = <<>>
              /\ \A c \in Calls : calls[c] = Idle

(* The company's row has one holder, and what it has read stays true until *)
(* it writes: nobody else changes a member.                                *)
HasLock(c)  == calls[c].op = "patch" /\ calls[c].at \in {"locked", "write"}
AtWrite(c)  == calls[c].op = "patch" /\ calls[c].at = "write"
OneHolder   == \A c, d \in Calls : HasLock(c) /\ HasLock(d) => c = d
OtherOwner(who) == \E o \in ActiveOwners : o # who
ReadHolds ==
  \A c \in Calls : AtWrite(c) =>
    /\ calls[c].seen # NoUser
    /\ users[calls[c].who] = calls[c].seen
    /\ calls[c].base # NoUser => users[calls[c].who] = calls[c].base
    /\ Closes(calls[c].seen, calls[c].payload) => OtherOwner(calls[c].who)

AccountInv == TypeInv /\ NobodyBefore /\ OneHolder /\ ReadHolds
-----------------------------------------------------------------------------
LEMMA InitInv == Init => AccountInv
<1> SUFFICES ASSUME Init PROVE AccountInv
  OBVIOUS
<1>1. TypeOK
  <2>1. invitations \in Seq([email : Emails, role : Roles, state : {"open", "expired", "accepted"}])
    BY DEF Init
  <2>2. Len(invitations) <= MaxInvites
    BY InvitesAreNatural DEF Init
  <2>3. \A c \in Calls : calls[c].op = "none"
    BY DEF Init, Idle
  <2> QED BY <2>1, <2>2, <2>3 DEF Init, TypeOK
<1>2. RecordsMatch
  BY DEF Init, RecordsMatch, Records, Reviews
<1>3. \A c \in Calls : ~HasLock(c) /\ ~AtWrite(c)
  BY DEF Init, HasLock, AtWrite, Idle
<1>4. NobodyBefore
  BY DEF Init, NobodyBefore
<1>5. OneHolder /\ ReadHolds
  BY <1>3 DEF OneHolder, ReadHolds
<1> QED BY <1>1, <1>2, <1>4, <1>5 DEF AccountInv, TypeInv

(* What an open request is, by its kind.                                   *)
LEMMA CallParts ==
  ASSUME TypeInv, NEW c \in Calls
  PROVE  /\ calls[c].op = "patch" => calls[c] \in Patches
         /\ calls[c].op = "invite" => calls[c] \in Invites
         /\ calls[c].op = "accept" => calls[c] \in Accepts
BY DEF TypeInv, RecordsMatch, Records, Patches, Invites, Accepts, Idle

LEMMA UserRow ==
  ASSUME NEW role \in Roles, NEW on \in BOOLEAN
  PROVE  User(role, on) \in Rows /\ User(role, on) # NoUser
BY DEF User, Rows, NoUser, Roles, Owner

LEMMA NewInvitation ==
  ASSUME TypeInv, NEW e \in Emails, NEW role \in Roles, Len(invitations) < MaxInvites
  PROVE  /\ Invited(e, role) \in Seq([email : Emails, role : Roles,
                                      state : {"open", "expired", "accepted"}])
         /\ Len(Invited(e, role)) <= MaxInvites
         /\ DOMAIN invitations \subseteq DOMAIN Invited(e, role)
BY InvitesAreNatural DEF TypeInv, TypeOK, Invited

LEMMA SameInvitations ==
  ASSUME TypeInv, NEW i \in DOMAIN invitations, NEW state \in {"expired", "accepted"}
  PROVE  LET new == [invitations EXCEPT ![i].state = state] IN
         /\ new \in Seq([email : Emails, role : Roles, state : {"open", "expired", "accepted"}])
         /\ Len(new) <= MaxInvites
         /\ DOMAIN new = DOMAIN invitations
<1> DEFINE Invitations == [email : Emails, role : Roles, state : {"open", "expired", "accepted"}]
           row == [invitations[i] EXCEPT !.state = state]
           new == [invitations EXCEPT ![i] = row]
<1>1. invitations \in Seq(Invitations) /\ Len(invitations) <= MaxInvites
  BY DEF TypeInv, TypeOK
<1>2. invitations[i] \in Invitations
  <2> HIDE DEF Invitations
  <2> QED BY <1>1
<1>3. row \in Invitations
  BY <1>2
<1>4. new = [invitations EXCEPT ![i].state = state]
  OBVIOUS
<1>5. new \in Seq(Invitations) /\ Len(new) <= MaxInvites /\ DOMAIN new = DOMAIN invitations
  <2> HIDE DEF Invitations, row
  <2> QED BY <1>1, <1>3
<1> QED BY <1>4, <1>5

LEMMA InvitationParts ==
  ASSUME TypeInv, NEW i \in DOMAIN invitations
  PROVE  invitations[i].email \in Emails /\ invitations[i].role \in Roles
<1> DEFINE Invitations == [email : Emails, role : Roles, state : {"open", "expired", "accepted"}]
<1>1. invitations \in Seq(Invitations)
  BY DEF TypeInv, TypeOK
<1>2. invitations[i] \in Invitations
  <2> HIDE DEF Invitations
  <2> QED BY <1>1
<1> QED BY <1>2

(* A member who is written has the roles of the company.                   *)
LEMMA WrittenIsRow ==
  ASSUME TypeInv, NEW c \in Calls, AtWrite(c), users[calls[c].who] # NoUser
  PROVE  Written(calls[c]) \in Rows /\ calls[c].who \in Emails
<1>1. calls[c] \in Patches
  BY CallParts DEF AtWrite
<1>2. calls[c].payload \in [role : Roles \cup {Keep}, active : {"true", "false", Keep}]
  BY <1>1, PayloadsAreUserPatches DEF Patches
<1>3. users[calls[c].who] \in [role : Roles, active : BOOLEAN]
  BY <1>1 DEF Patches, TypeInv, TypeOK, NoUser
<1>4. calls[c].payload.role \in Roles \cup {Keep} /\ calls[c].payload.active \in {"true", "false", Keep}
  BY <1>2
<1> DEFINE row    == users[calls[c].who]
           role   == calls[c].payload.role
           on     == calls[c].payload.active
           newRole   == IF role \in {Keep, calls[c].seen.role} THEN row.role ELSE role
           newActive == IF on = Keep \/ (on = "true") = calls[c].seen.active
                        THEN row.active ELSE on = "true"
<1>5. newRole \in Roles
  BY <1>3, <1>4
<1>6. newActive \in BOOLEAN
  <2>1. row.active \in BOOLEAN
    BY <1>3
  <2> HIDE DEF row
  <2> QED BY <2>1
<1>7. Written(calls[c]) = User(newRole, newActive)
  BY DEF Written
<1> HIDE DEF newRole, newActive
<1> QED BY <1>1, <1>5, <1>6, <1>7, UserRow DEF Patches

(* A step that gives one request another record, and drops no invitation.  *)
LEMMA Becoming ==
  ASSUME TypeInv, NEW c \in Calls, NEW call \in Records, Becomes(c, call),
         DOMAIN invitations \subseteq DOMAIN invitations'
  PROVE  /\ calls' \in [Calls -> Records']
         /\ DOMAIN calls' = Calls
         /\ \A d \in Calls : calls'[d].op \in {"none", "patch", "invite", "accept"}
<1>1. Records \subseteq Records'
  BY DEF Records, Patches, Invites, Accepts, Rows
<1>2. calls' \in [Calls -> Records]
  BY DEF Becomes, TypeInv, RecordsMatch
<1>3. \A r \in Records : r.op \in {"none", "patch", "invite", "accept"}
  BY DEF Records, Patches, Invites, Accepts, Idle
<1> QED BY <1>1, <1>2, <1>3

LEMMA TypeStep == TypeInv /\ ReadHolds /\ [Next]_vars => TypeInv'
<1> SUFFICES ASSUME TypeInv, ReadHolds, [Next]_vars PROVE TypeInv'
  OBVIOUS
<1> USE DEF TypeInv, TypeOK, RecordsMatch
<1>0. Idle \in Records /\ NoUser \in Rows /\ Rows' = Rows /\ Reviews' = Reviews
  BY DEF Records, Rows, Reviews
<1>i. DOMAIN invitations \subseteq DOMAIN invitations' /\ calls' = calls => calls' \in [Calls -> Records']
  BY DEF Records, Patches, Invites, Accepts, Rows
<1>1. ASSUME NEW e \in Emails, Provision(e) PROVE TypeInv'
  <2>1. DOMAIN invitations \subseteq DOMAIN invitations'
    BY <1>1, NewInvitation DEF Provision, Roles
  <2> QED BY <1>0, <1>i, <1>1, <2>1, NewInvitation DEF Provision, Roles
<1>2. ASSUME NEW e \in Emails, RegisterTenant(e) PROVE TypeInv'
  <2>1. users' \in [Emails -> {NoUser} \cup [role : Roles, active : BOOLEAN]]
    BY <1>2 DEF RegisterTenant, User, Roles
  <2> QED BY <1>0, <1>i, <1>2, <2>1 DEF RegisterTenant
<1>3. ASSUME NEW e \in Emails, NEW payload \in Payloads, PrepareCard(e, payload) PROVE TypeInv'
  <2>1. card' \in Reviews
    BY <1>3 DEF PrepareCard, Reviews, Rows
  <2> QED BY <1>0, <1>i, <1>3, <2>1 DEF PrepareCard
<1>4. ASSUME NEW c \in Calls, NEW e \in Emails, NEW role \in Roles, AskInvite(c, e, role)
      PROVE  TypeInv'
  <2>1. [op |-> "invite", at |-> "insert", email |-> e, role |-> role] \in Records
    BY DEF Records, Invites
  <2> QED BY <1>0, <1>4, <2>1, Becoming DEF AskInvite
<1>5. ASSUME NEW c \in Calls, NEW e \in Emails, NEW payload \in Payloads, AskPatch(c, e, payload)
      PROVE  TypeInv'
  <2>1. Patch(e, payload, NoUser) \in Records
    BY <1>0 DEF Records, Patches, Patch
  <2> QED BY <1>0, <1>5, <2>1, Becoming DEF AskPatch
<1>6. ASSUME NEW c \in Calls, NEW i \in DOMAIN invitations, TakeInvitation(c, i) PROVE TypeInv'
  <2>1. [op |-> "accept", at |-> "insert", row |-> i] \in Records
    BY DEF Records, Accepts
  <2> QED BY <1>0, <1>6, <2>1, Becoming DEF TakeInvitation
<1>7. ASSUME NEW c \in Calls, Invite(c) PROVE TypeInv'
  <2>1. calls[c].email \in Emails /\ calls[c].role \in Roles
    BY <1>7, CallParts DEF Invite, Invites
  <2>2. DOMAIN invitations \subseteq DOMAIN invitations'
    BY <1>7, <2>1, NewInvitation DEF Invite
  <2> QED BY <1>0, <1>7, <2>1, <2>2, NewInvitation, Becoming DEF Invite
<1>8. ASSUME NEW c \in Calls, Refused(c) PROVE TypeInv'
  BY <1>0, <1>8, Becoming DEF Refused
<1>9. ASSUME NEW c \in Calls, Accept(c) PROVE TypeInv'
  <2>1. CASE Refused(c)
    BY <1>8, <2>1
  <2>2. CASE ~Refused(c)
    <3> DEFINE i == calls[c].row
    <3>1. i \in DOMAIN invitations
      BY <1>9, CallParts DEF Accept, Accepts
    <3>2. invitations[i].email \in Emails /\ invitations[i].role \in Roles
      BY <3>1, InvitationParts
    <3>3. users' \in [Emails -> {NoUser} \cup [role : Roles, active : BOOLEAN]]
      <4>1. users' = [users EXCEPT ![invitations[i].email] = User(invitations[i].role, TRUE)]
        BY <1>9, <2>2 DEF Accept
      <4>2. User(invitations[i].role, TRUE) \in [role : Roles, active : BOOLEAN]
        BY <3>2 DEF User
      <4> QED BY <4>1, <4>2
    <3>4. DOMAIN invitations \subseteq DOMAIN invitations'
      BY <1>9, <2>2, <3>1 DEF Accept
    <3>5. invitations' = [invitations EXCEPT ![i].state = "accepted"]
      BY <1>9, <2>2 DEF Accept
    <3>6. Becomes(c, Idle) /\ UNCHANGED <<company, card>>
      BY <1>9, <2>2 DEF Accept
    <3> QED BY <1>0, <3>1, <3>3, <3>4, <3>5, <3>6, SameInvitations, Becoming
  <2> QED BY <2>1, <2>2
<1>10. ASSUME NEW c \in Calls, CompleteCard(c) PROVE TypeInv'
  <2>1. card \in [who : Emails, payload : Payloads, base : Rows]
    BY <1>10 DEF CompleteCard, Reviews
  <2>2. Patch(card.who, card.payload, card.base) \in Records
    BY <1>0, <2>1 DEF Records, Patches, Patch
  <2> QED BY <1>0, <1>10, <2>2, Becoming DEF CompleteCard, Reviews
<1>11. ASSUME NEW c \in Calls, Lock(c) PROVE TypeInv'
  <2>1. [calls[c] EXCEPT !.at = "locked"] \in Records
    BY <1>11, CallParts DEF Lock, Records, Patches
  <2> QED BY <1>0, <1>11, <2>1, Becoming DEF Lock
<1>12. ASSUME NEW c \in Calls, Look(c) PROVE TypeInv'
  <2>1. CASE Refused(c)
    BY <1>8, <2>1
  <2>2. CASE ~Refused(c)
    <3>1. calls[c] \in Patches
      BY <1>12, CallParts DEF Look
    <3>2. users[calls[c].who] \in Rows
      BY <3>1 DEF Patches, Rows
    <3>3. [calls[c] EXCEPT !.at = "write", !.seen = users[calls[c].who]] \in Records
      BY <3>1, <3>2 DEF Records, Patches
    <3> QED BY <1>0, <1>12, <2>2, <3>3, Becoming DEF Look
  <2> QED BY <2>1, <2>2
<1>13. ASSUME NEW c \in Calls, Write(c) PROVE TypeInv'
  <2>1. Written(calls[c]) \in Rows
    BY <1>13, WrittenIsRow DEF Write, AtWrite, ReadHolds
  <2> QED BY <1>0, <1>13, <2>1, Becoming DEF Write, Rows
<1>14. ASSUME NEW i \in DOMAIN invitations, ExpireInvitation(i) PROVE TypeInv'
  <2>1. DOMAIN invitations \subseteq DOMAIN invitations'
    BY <1>14 DEF ExpireInvitation
  <2> QED BY <1>0, <1>i, <1>14, <2>1, SameInvitations DEF ExpireInvitation
<1>15. CASE UNCHANGED vars
  BY <1>0, <1>i, <1>15 DEF vars
<1> QED BY <1>1, <1>2, <1>3, <1>4, <1>5, <1>6, <1>7, <1>9, <1>10, <1>11, <1>12, <1>13, <1>14, <1>15
        DEF Next

LEMMA NobodyStep == AccountInv /\ [Next]_vars => NobodyBefore'
<1> SUFFICES ASSUME AccountInv, Next PROVE NobodyBefore'
  BY DEF NobodyBefore, AccountInv, vars
<1>1. CASE company
  <2>1. company'
    BY <1>1 DEF Next, Provision, RegisterTenant, PrepareCard, AskInvite, AskPatch, TakeInvitation, Invite,
       Accept, Refused, CompleteCard, Lock, Look, Write, ExpireInvitation
  <2> QED BY <2>1 DEF NobodyBefore
<1>2. CASE ~company
  <2>1. /\ \A e \in Emails : users[e] = NoUser
        /\ DOMAIN invitations = {}
        /\ \A c \in Calls : calls[c] = Idle
    BY <1>2 DEF AccountInv, NobodyBefore
  <2>2. \A e \in Emails : ~Authorized(e)
    BY <2>1 DEF Authorized, User, NoUser, Owner
  <2>3. \A c \in Calls : /\ ~Invite(c) /\ ~Accept(c) /\ ~Lock(c) /\ ~Look(c) /\ ~Write(c)
                          /\ ~CompleteCard(c)
    <3> SUFFICES ASSUME NEW c \in Calls
                 PROVE  ~Invite(c) /\ ~Accept(c) /\ ~Lock(c) /\ ~Look(c) /\ ~Write(c) /\ ~CompleteCard(c)
      OBVIOUS
    <3>1. calls[c].op = "none"
      BY <2>1 DEF Idle
    <3>2. ~CompleteCard(c)
      BY <2>2 DEF CompleteCard
    <3> QED BY <3>1, <3>2 DEF Invite, Accept, Lock, Look, Write
  <2>4. \A c \in Calls, e \in Emails :
          /\ \A role \in Roles : ~AskInvite(c, e, role)
          /\ \A payload \in Payloads : ~AskPatch(c, e, payload)
    BY <1>2, <2>2 DEF AskInvite, AskPatch
  <2>5. \A e \in Emails, payload \in Payloads : ~PrepareCard(e, payload)
    BY <2>2 DEF PrepareCard
  <2>6. PICK e \in Emails : Provision(e) \/ RegisterTenant(e)
    BY <2>1, <2>3, <2>4, <2>5 DEF Next, TakeInvitation
  <2> QED BY <2>6 DEF Provision, RegisterTenant, NobodyBefore
<1> QED BY <1>1, <1>2

(***************************************************************************)
(* Who may write a member's row, and what is known when he does.           *)
(***************************************************************************)
(* A step that leaves everybody's access alone and takes no lock.          *)
LockKept(c) == HasLock(c)' => HasLock(c) /\ calls'[c] = calls[c]

LEMMA LocksKept ==
  ASSUME AccountInv, \A c \in Calls : LockKept(c), ActiveOwners \subseteq ActiveOwners',
         \A c \in Calls : AtWrite(c) => users'[calls[c].who] = users[calls[c].who]
  PROVE  OneHolder' /\ ReadHolds'
<1>1. OneHolder'
  BY DEF AccountInv, OneHolder, LockKept
<1>2. ReadHolds'
  <2> SUFFICES ASSUME NEW c \in Calls, AtWrite(c)'
               PROVE  (/\ calls[c].seen # NoUser
                       /\ users[calls[c].who] = calls[c].seen
                       /\ calls[c].base # NoUser => users[calls[c].who] = calls[c].base
                       /\ Closes(calls[c].seen, calls[c].payload) => OtherOwner(calls[c].who))'
    BY DEF ReadHolds
  <2>1. AtWrite(c) /\ calls'[c] = calls[c]
    BY DEF LockKept, HasLock, AtWrite
  <2>2. OtherOwner(calls[c].who) => OtherOwner(calls[c].who)'
    BY <2>1 DEF OtherOwner
  <2>3. Closes(calls[c].seen, calls[c].payload)' => Closes(calls[c].seen, calls[c].payload)
    BY <2>1 DEF Closes
  <2> QED BY <2>1, <2>2, <2>3 DEF AccountInv, ReadHolds
<1> QED BY <1>1, <1>2

(* Another request gets a record that holds no lock.                       *)
LEMMA NoLockTaken ==
  ASSUME TypeInv, NEW c \in Calls, NEW call, Becomes(c, call),
         ~(call.op = "patch" /\ call.at \in {"locked", "write"})
  PROVE  \A d \in Calls : LockKept(d)
<1>1. calls'[c] = call /\ \A d \in Calls : d # c => calls'[d] = calls[d]
  BY DEF Becomes, TypeInv, RecordsMatch
<1> QED BY <1>1 DEF LockKept, HasLock

(* A member only comes in: who was there keeps the access he had.          *)
LEMMA Joins ==
  ASSUME AccountInv, NEW e \in Emails, users[e] = NoUser, NEW new,
         users' = [users EXCEPT ![e] = new], \A c \in Calls : LockKept(c)
  PROVE  OneHolder' /\ ReadHolds' /\ ActiveOwners \subseteq ActiveOwners'
<1>1. \A d \in Emails : users[d] # NoUser => users'[d] = users[d]
  BY DEF AccountInv, TypeInv, TypeOK
<1>2. ActiveOwners \subseteq ActiveOwners'
  BY <1>1 DEF ActiveOwners, User, NoUser, Owner
<1>3. ASSUME NEW c \in Calls, AtWrite(c) PROVE users'[calls[c].who] = users[calls[c].who]
  <2>1. calls[c].who \in Emails /\ users[calls[c].who] # NoUser
    BY <1>3, CallParts DEF AccountInv, ReadHolds, AtWrite, Patches
  <2> QED BY <1>1, <2>1
<1> QED BY <1>2, <1>3, LocksKept

(* The lock's holder finds another owner before it closes one's access.    *)
LEMMA OwnerBeside ==
  ASSUME NEW who \in Emails, users[who] = User(Owner, TRUE), ~IsLastOwner(users[who])
  PROVE  OtherOwner(who)
<1> SUFFICES ASSUME ~OtherOwner(who) PROVE FALSE
  OBVIOUS
<1>1. ActiveOwners = {who}
  BY DEF OtherOwner, ActiveOwners
<1>2. Cardinality(ActiveOwners) = 1
  BY <1>1, FS_Singleton
<1> QED BY <1>2 DEF IsLastOwner

(* What a write does to the owners.                                        *)
LEMMA WriteKeepsOwner ==
  ASSUME AccountInv, NEW c \in Calls, Write(c)
  PROVE  ActiveOwners # {} => ActiveOwners' # {}
<1> DEFINE who == calls[c].who
<1>1. AtWrite(c) /\ calls[c] \in Patches
  BY CallParts DEF AccountInv, Write, AtWrite
<1>2. users[who] = calls[c].seen /\ calls[c].seen # NoUser
  BY <1>1 DEF AccountInv, ReadHolds
<1>3. \A e \in Emails : e # who => users'[e] = users[e]
  BY DEF Write, AccountInv, TypeInv, TypeOK
<1>4. OtherOwner(who) => ActiveOwners' # {}
  BY <1>3 DEF OtherOwner, ActiveOwners
<1>5. CASE users[who] # User(Owner, TRUE)
  BY <1>4, <1>5 DEF OtherOwner, ActiveOwners
<1>6. CASE Closes(calls[c].seen, calls[c].payload)
  BY <1>1, <1>4, <1>6 DEF AccountInv, ReadHolds
<1>7. CASE users[who] = User(Owner, TRUE) /\ ~Closes(calls[c].seen, calls[c].payload)
  <2>1. calls[c].payload.role \in {Owner, Keep} /\ calls[c].payload.active # "false"
    BY <1>2, <1>7 DEF Closes
  <2>2. calls[c].payload.active \in {"true", Keep}
    BY <1>1, <2>1, PayloadsAreUserPatches DEF Patches
  <2>3. users[who].role = Owner /\ users[who].active = TRUE
    BY <1>7 DEF User
  <2>4. Written(calls[c]) = User(Owner, TRUE)
    BY <1>2, <2>1, <2>2, <2>3 DEF Written, Keep, Owner
  <2>5. users'[who] = User(Owner, TRUE) /\ who \in Emails
    BY <1>1, <2>4 DEF Write, Patches, AccountInv, TypeInv, TypeOK
  <2> QED BY <2>5 DEF ActiveOwners
<1> QED BY <1>5, <1>6, <1>7

LEMMA AccountStep ==
  AccountInv /\ [Next]_vars
    => AccountInv' /\ (ActiveOwners # {} => ActiveOwners' # {})
<1> SUFFICES ASSUME AccountInv, [Next]_vars
             PROVE  OneHolder' /\ ReadHolds' /\ (ActiveOwners # {} => ActiveOwners' # {})
  BY TypeStep, NobodyStep DEF AccountInv
<1> DEFINE Good == OneHolder' /\ ReadHolds' /\ (ActiveOwners # {} => ActiveOwners' # {})
<1>t. TypeInv /\ TypeInv'
  BY TypeStep DEF AccountInv
<1>a. ASSUME users' = users, \A c \in Calls : LockKept(c) PROVE Good
  <2>1. ActiveOwners' = ActiveOwners
    BY <1>a DEF ActiveOwners
  <2> QED BY <1>a, <2>1, LocksKept
<1>b. ASSUME calls' = calls PROVE \A c \in Calls : LockKept(c)
  BY <1>b DEF LockKept, HasLock
<1>1. ASSUME NEW e \in Emails, Provision(e) PROVE Good
  BY <1>1, <1>a, <1>b DEF Provision
<1>2. ASSUME NEW e \in Emails, RegisterTenant(e) PROVE Good
  <2>1. users[e] = NoUser
    BY <1>2 DEF RegisterTenant, AccountInv, NobodyBefore
  <2>2. users' = [users EXCEPT ![e] = User(Owner, TRUE)] /\ \A c \in Calls : LockKept(c)
    BY <1>2, <1>b DEF RegisterTenant
  <2> QED BY <2>1, <2>2, Joins
<1>3. ASSUME NEW e \in Emails, NEW payload \in Payloads, PrepareCard(e, payload) PROVE Good
  BY <1>3, <1>a, <1>b DEF PrepareCard
<1>4. ASSUME NEW c \in Calls, NEW e \in Emails, NEW role \in Roles, AskInvite(c, e, role) PROVE Good
  BY <1>4, <1>a, <1>t, NoLockTaken DEF AskInvite
<1>5. ASSUME NEW c \in Calls, NEW e \in Emails, NEW payload \in Payloads, AskPatch(c, e, payload)
      PROVE  Good
  BY <1>5, <1>a, <1>t, NoLockTaken DEF AskPatch, Patch
<1>6. ASSUME NEW c \in Calls, NEW i \in DOMAIN invitations, TakeInvitation(c, i) PROVE Good
  BY <1>6, <1>a, <1>t, NoLockTaken DEF TakeInvitation
<1>7. ASSUME NEW c \in Calls, Invite(c) PROVE Good
  BY <1>7, <1>a, <1>t, NoLockTaken DEF Invite, Idle
<1>8. ASSUME NEW c \in Calls, Refused(c) PROVE Good
  BY <1>8, <1>a, <1>t, NoLockTaken DEF Refused, Idle
<1>9. ASSUME NEW c \in Calls, Accept(c) PROVE Good
  <2>1. CASE Refused(c)
    BY <1>8, <2>1
  <2>2. CASE ~Refused(c)
    <3> DEFINE invitation == invitations[calls[c].row]
    <3>1. invitation.email \in Emails
      BY <1>9, <1>t, CallParts, InvitationParts DEF Accept, Accepts
    <3>2. /\ users[invitation.email] = NoUser
          /\ users' = [users EXCEPT ![invitation.email] = User(invitation.role, TRUE)]
          /\ Becomes(c, Idle)
      BY <1>9, <2>2 DEF Accept, IsTaken
    <3>3. \A d \in Calls : LockKept(d)
      BY <1>t, <3>2, NoLockTaken DEF Idle
    <3> QED BY <3>1, <3>2, <3>3, Joins
  <2> QED BY <2>1, <2>2
<1>10. ASSUME NEW c \in Calls, CompleteCard(c) PROVE Good
  BY <1>10, <1>a, <1>t, NoLockTaken DEF CompleteCard, Patch
<1>11. ASSUME NEW c \in Calls, Lock(c) PROVE Good
  <2>1. \A d \in Calls : ~HasLock(d)
    BY <1>11 DEF Lock, CompanyIsLocked, HasLock
  <2>2. \A d \in Calls : d # c => calls'[d] = calls[d]
    BY <1>11, <1>t DEF Lock, Becomes, TypeInv, RecordsMatch
  <2>3. calls'[c].at = "locked"
    BY <1>11, <1>t, CallParts DEF Lock, Becomes, Patches, TypeInv, RecordsMatch
  <2>4. OneHolder'
    BY <2>1, <2>2 DEF OneHolder, HasLock
  <2>5. ReadHolds'
    BY <2>1, <2>2, <2>3 DEF ReadHolds, AtWrite, HasLock
  <2> QED BY <1>11, <2>4, <2>5 DEF Lock, ActiveOwners
<1>12. ASSUME NEW c \in Calls, Look(c) PROVE Good
  <2>1. CASE Refused(c)
    BY <1>8, <2>1
  <2>2. CASE ~Refused(c)
    <3> DEFINE call == calls[c]
               user == users[call.who]
    <3>1. /\ call.op = "patch" /\ call.at = "locked"
          /\ user # NoUser /\ ~IsStale(call)
          /\ Closes(user, call.payload) => ~IsLastOwner(user)
          /\ Becomes(c, [call EXCEPT !.at = "write", !.seen = user])
          /\ UNCHANGED <<company, users, invitations, card>>
      BY <1>12, <2>2 DEF Look
    <3>2. call \in Patches /\ call.who \in Emails
      BY <1>t, <3>1, CallParts DEF Patches
    <3>3. \A d \in Calls : d # c => calls'[d] = calls[d]
      BY <1>t, <3>1 DEF Becomes, TypeInv, RecordsMatch
    <3>4. /\ calls'[c].seen = user /\ calls'[c].op = "patch"
          /\ calls'[c].base = call.base
          /\ calls'[c].who = call.who /\ calls'[c].payload = call.payload
      BY <1>t, <3>1, <3>2 DEF Becomes, TypeInv, RecordsMatch, Patches
    <3>5. HasLock(c) /\ \A d \in Calls : HasLock(d)' => HasLock(d)
      BY <3>1, <3>3 DEF HasLock
    <3>6. OneHolder'
      BY <3>5 DEF AccountInv, OneHolder
    <3>7. ActiveOwners' = ActiveOwners
      BY <3>1 DEF ActiveOwners
    <3>8. Closes(user, call.payload) => OtherOwner(call.who)
      BY <3>1, <3>2, OwnerBeside DEF Closes
    <3>9. ReadHolds'
      <4> SUFFICES ASSUME NEW d \in Calls, AtWrite(d)'
                   PROVE  (/\ calls[d].seen # NoUser
                           /\ users[calls[d].who] = calls[d].seen
                           /\ calls[d].base # NoUser => users[calls[d].who] = calls[d].base
                           /\ Closes(calls[d].seen, calls[d].payload) => OtherOwner(calls[d].who))'
        BY DEF ReadHolds
      <4>1. d = c
        BY <3>5, <3>3 DEF AccountInv, OneHolder, HasLock, AtWrite
      <4>2. OtherOwner(call.who) => OtherOwner(calls[c].who)'
        BY <3>4, <3>7 DEF OtherOwner
      <4>3. Closes(calls[c].seen, calls[c].payload)' => Closes(user, call.payload)
        BY <3>4 DEF Closes
      <4> QED BY <3>1, <3>4, <3>8, <4>1, <4>2, <4>3 DEF IsStale
    <3> QED BY <3>1, <3>6, <3>7, <3>9
  <2> QED BY <2>1, <2>2
<1>13. ASSUME NEW c \in Calls, Write(c) PROVE Good
  <2>1. HasLock(c) /\ AtWrite(c)
    BY <1>13 DEF Write, HasLock, AtWrite
  <2>2. \A d \in Calls : d # c => calls'[d] = calls[d]
    BY <1>13, <1>t DEF Write, Becomes, TypeInv, RecordsMatch
  <2>3. calls'[c].op = "none"
    BY <1>13, <1>t DEF Write, Becomes, Idle, TypeInv, RecordsMatch
  <2>4. \A d \in Calls : ~HasLock(d)'
    BY <2>1, <2>2, <2>3 DEF AccountInv, OneHolder, HasLock
  <2>5. OneHolder' /\ ReadHolds'
    BY <2>4 DEF OneHolder, ReadHolds, HasLock, AtWrite
  <2> QED BY <1>13, <2>5, WriteKeepsOwner
<1>14. ASSUME NEW i \in DOMAIN invitations, ExpireInvitation(i) PROVE Good
  BY <1>14, <1>a, <1>b DEF ExpireInvitation
<1>15. CASE UNCHANGED vars
  BY <1>15, <1>a, <1>b DEF vars
<1> QED BY <1>1, <1>2, <1>3, <1>4, <1>5, <1>6, <1>7, <1>9, <1>10, <1>11, <1>12, <1>13, <1>14, <1>15
        DEF Next
-----------------------------------------------------------------------------
(* The rows and the open requests keep their types.                        *)
THEOREM TypeCorrect == Spec => []TypeOK
<1>1. AccountInv => TypeOK
  BY DEF AccountInv, TypeInv
<1> QED BY <1>1, InitInv, AccountStep, PTL DEF Spec

(* "the last active owner's access must be kept" (auth/router.py): owners  *)
(* who close each other's accounts at the same time do not both succeed.   *)
THEOREM OwnerStays == Spec => OwnerRemains
<1>1. AccountInv /\ [Next]_vars => [ActiveOwners # {} => ActiveOwners' # {}]_vars
  BY AccountStep
<1> QED BY <1>1, InitInv, AccountStep, PTL DEF Spec, OwnerRemains

(* A change confirmed on the member card meets the access the card showed. *)
THEOREM CardIsExact == Spec => ChangedAsReviewed
<1> DEFINE Exact ==
      \A c \in Calls : calls[c].op = "patch" /\ calls[c].at = "write" /\ calls'[c] = Idle
                         /\ calls[c].base # NoUser => users[calls[c].who] = calls[c].base
<1>1. AccountInv /\ [Next]_vars => [Exact]_vars
  BY DEF AccountInv, ReadHolds, AtWrite
<1> QED BY <1>1, InitInv, AccountStep, PTL DEF Spec, ChangedAsReviewed
(***************************************************************************)
(* One operator's session (SignIn).                                        *)
(***************************************************************************)
Open(r)  == reqs[r].at # "idle"
Newest   == Len(tokens)
Tried(f) == fetches[f].token

(* Cookies, tokens, requests, calls and the shared entries name tokens and *)
(* calls that are there.                                                   *)
CookiesThere ==
  /\ jar.access \in 0 .. Newest /\ jar.refresh \in 0 .. Newest
  /\ expired \subseteq 1 .. Newest
  /\ \A s \in 1 .. Newest : tokens[s].from \in 0 .. Newest
RequestsThere ==
  \A r \in Requests :
    /\ reqs[r].refresh \in 0 .. Newest /\ reqs[r].got \in 0 .. Newest
    /\ Open(r) => reqs[r].refresh # 0
    /\ ~Open(r) => reqs[r] = Session!Quiet
    /\ reqs[r].at = "refreshing" => reqs[r].fetch \in DOMAIN fetches
CallsThere ==
  /\ Len(fetches) <= MaxFetches
  /\ \A f \in DOMAIN fetches : fetches[f].token \in 1 .. Newest /\ fetches[f].next \in 0 .. Newest
  /\ \A t \in Session!TokenIds : cache[t] \in 0 .. Len(fetches)

(* The row lock of a token that is being exchanged: one call has it, and   *)
(* nobody revokes the token meanwhile.                                     *)
LockIsGood ==
  \A f, g \in DOMAIN fetches : fetches[f].api = "locked" =>
     /\ ~tokens[fetches[f].token].revoked
     /\ fetches[g].api = "locked" /\ fetches[f].token = fetches[g].token => f = g

ExchangeInv == Session!TypeOK /\ CookiesThere /\ RequestsThere /\ CallsThere /\ LockIsGood /\ Session!ExchangedOnce
-----------------------------------------------------------------------------
(* A session without a fault.  Each token but the newest was exchanged for *)
(* the next, by the one call that was made for it, and a request brings    *)
(* back the newest or nothing.                                             *)
TokensChain == \A s \in 1 .. Newest : tokens[s].revoked <=> s < Newest
EntriesName == \A t \in Session!TokenIds : cache[t] # 0 => Tried(cache[t]) = t
CallsChain ==
  \A f \in DOMAIN fetches :
    /\ fetches[f].promise # "null"
    /\ Tried(f) < Newest => fetches[f].api = "done" /\ fetches[f].next = Tried(f) + 1
    /\ Tried(f) = Newest => /\ f = cache[Newest] /\ fetches[f].promise = "pending"
                            /\ fetches[f].api # "done" /\ fetches[f].next = 0
RequestsChain ==
  \A r \in Requests : Open(r) =>
    /\ reqs[r].code # 401
    /\ reqs[r].got = 0 => reqs[r].access \in {0, reqs[r].refresh}
    /\ reqs[r].got # 0 => reqs[r].got = Newest /\ reqs[r].access = Newest
                          /\ reqs[r].refresh = Newest - 1 /\ reqs[r].at \in {"invoke", "answered"}
    /\ reqs[r].at = "refreshing" => Tried(reqs[r].fetch) = reqs[r].refresh
ChainHolds == TokensChain /\ EntriesName /\ CallsChain /\ RequestsChain

(* The cookies hold the newest token and it has not run out: the requests  *)
(* that carry the one before it find its call.                             *)
InForce ==
  /\ jar.access = Newest /\ jar.refresh = Newest /\ Newest \notin expired
  /\ cache[Newest] = 0
  /\ \A r \in Requests : Open(r) =>
       /\ reqs[r].refresh \in {Newest - 1, Newest}
       /\ reqs[r].refresh = Newest => reqs[r].access = Newest
       /\ Session!Carries(r, Newest - 1) => cache[Newest - 1] # 0

(* It has run out, and those who miss it share one call that is under way. *)
RunOut ==
  /\ jar.access = 0 /\ jar.refresh = Newest
  /\ \A r \in Requests : Open(r) => reqs[r].refresh = Newest
  /\ cache[Newest] # 0 => \E r \in Requests : reqs[r].at = "refreshing"

(* It has been exchanged, and a request that knows is on its way back.     *)
Replaced ==
  /\ jar.access = 0 /\ jar.refresh = Newest - 1 /\ Newest > 1 /\ Newest \notin expired
  /\ cache[Newest] = 0 /\ cache[Newest - 1] # 0
  /\ \A r \in Requests : Open(r) => reqs[r].refresh = Newest - 1
  /\ \E r \in Requests : reqs[r].at = "refreshing" \/ reqs[r].got # 0

NotYet == tokens = <<>> /\ jar.access = 0 /\ jar.refresh = 0 /\ \A r \in Requests : ~Open(r)
Seated == Newest > 0 /\ ChainHolds /\ (InForce \/ RunOut \/ Replaced)
Calm   == timeouts = 0 /\ ~ended

SessionHolds == Calm => active = TRUE /\ logout = "none" /\ (NotYet \/ Seated)

SessionInv == ExchangeInv /\ SessionHolds
-----------------------------------------------------------------------------
TokenRow   == [revoked : BOOLEAN, from : 0 .. MaxTokens]
CallRow    == [token : Session!TokenIds, api : {"sent", "locked", "done"},
               promise : {"pending", "tokens", "null"}, next : 0 .. MaxTokens]
RequestRow == [at : {"idle", "sent", "refreshing", "invoke", "answered"},
               access : 0 .. MaxTokens, refresh : 0 .. MaxTokens,
               got : 0 .. MaxTokens, fetch : 0 .. MaxFetches, code : {0, 200, 401}]

LEMMA ReplaceAt ==
  ASSUME NEW S, NEW s \in Seq(S), NEW i \in DOMAIN s, NEW x \in S
  PROVE  /\ s[i] \in S /\ [s EXCEPT ![i] = x] \in Seq(S)
         /\ DOMAIN [s EXCEPT ![i] = x] = DOMAIN s /\ Len([s EXCEPT ![i] = x]) = Len(s)
OBVIOUS

LEMMA SessionParts ==
  ASSUME ExchangeInv
  PROVE  /\ tokens \in Seq(TokenRow) /\ DOMAIN tokens = 1 .. Len(tokens) /\ Len(tokens) \in Nat
         /\ fetches \in Seq(CallRow) /\ DOMAIN fetches = 1 .. Len(fetches) /\ Len(fetches) \in Nat
         /\ reqs \in [Requests -> RequestRow]
         /\ cache \in [Session!TokenIds -> 0 .. MaxFetches]
BY DEF ExchangeInv, Session!TypeOK, TokenRow, CallRow, RequestRow

(* A call of the API or its promise takes a step.                          *)
Moves(f, api, promise, next) ==
  /\ fetches' \in Seq(CallRow) /\ Len(fetches') = Len(fetches) /\ DOMAIN fetches' = DOMAIN fetches
  /\ \A g \in DOMAIN fetches : fetches'[g].token = fetches[g].token
  /\ \A g \in DOMAIN fetches : g # f => fetches'[g] = fetches[g]
  /\ fetches'[f].api = api /\ fetches'[f].promise = promise /\ fetches'[f].next = next

LEMMA MoveCall ==
  ASSUME ExchangeInv, NEW f \in DOMAIN fetches, NEW x \in CallRow,
         x.token = fetches[f].token, fetches' = [fetches EXCEPT ![f] = x]
  PROVE  Moves(f, x.api, x.promise, x.next)
BY ReplaceAt, SessionParts DEF Moves

LEMMA CallMoves ==
  ASSUME ExchangeInv, NEW f \in DOMAIN fetches
  PROVE  /\ fetches[f] \in CallRow
         /\ Session!Refuse(f) => Moves(f, "done", fetches[f].promise, fetches[f].next)
         /\ Session!Lookup(f) => Moves(f, "locked", fetches[f].promise, fetches[f].next)
         /\ Session!Rotate(f) => Moves(f, "done", fetches[f].promise, Newest + 1)
         /\ Session!Resolve(f) => Moves(f, fetches[f].api,
                                        IF fetches[f].next = 0 THEN "null" ELSE "tokens", fetches[f].next)
         /\ Session!TimeOut(f) => Moves(f, fetches[f].api, "null", fetches[f].next)
<1> DEFINE k == fetches[f]
           told == IF k.next = 0 THEN "null" ELSE "tokens"
<1>1. k \in CallRow
  BY SessionParts
<1>2. ASSUME Session!Refuse(f) PROVE Moves(f, "done", k.promise, k.next)
  <2> DEFINE x == [k EXCEPT !.api = "done"]
  <2>1. x \in CallRow /\ x.token = k.token /\ x.api = "done" /\ x.promise = k.promise /\ x.next = k.next
    BY <1>1 DEF CallRow
  <2>2. fetches' = [fetches EXCEPT ![f] = x]
    BY <1>2 DEF Session!Refuse, Session!None, Session!Last, Newest
  <2> HIDE DEF x
  <2> QED BY <2>1, <2>2, MoveCall
<1>3. ASSUME Session!Lookup(f) PROVE Moves(f, "locked", k.promise, k.next)
  <2> DEFINE x == [k EXCEPT !.api = "locked"]
  <2>1. x \in CallRow /\ x.token = k.token /\ x.api = "locked" /\ x.promise = k.promise /\ x.next = k.next
    BY <1>1 DEF CallRow
  <2>2. fetches' = [fetches EXCEPT ![f] = x]
    BY <1>3 DEF Session!Lookup, Session!None, Session!Last, Newest
  <2> HIDE DEF x
  <2> QED BY <2>1, <2>2, MoveCall
<1>4. ASSUME Session!Rotate(f) PROVE Moves(f, "done", k.promise, Newest + 1)
  <2> DEFINE x == [k EXCEPT !.api = "done", !.next = Newest + 1]
  <2>0. Newest + 1 \in 0 .. MaxTokens
    BY <1>4, SessionParts, ConsoleAssumptions DEF Session!Rotate, Newest, Session!BoundsAreNatural
  <2>1. x \in CallRow /\ x.token = k.token /\ x.api = "done" /\ x.promise = k.promise /\ x.next = Newest + 1
    BY <1>1, <2>0 DEF CallRow
  <2>2. fetches' = [fetches EXCEPT ![f] = x]
    BY <1>4 DEF Session!Rotate, Session!None, Session!Last, Newest
  <2> HIDE DEF x
  <2> QED BY <2>1, <2>2, MoveCall
<1>5. ASSUME Session!Resolve(f) PROVE Moves(f, k.api, told, k.next)
  <2> DEFINE x == [k EXCEPT !.promise = told]
  <2>1. x \in CallRow /\ x.token = k.token /\ x.api = k.api /\ x.promise = told /\ x.next = k.next
    BY <1>1 DEF CallRow
  <2>2. fetches' = [fetches EXCEPT ![f] = x]
    BY <1>5 DEF Session!Resolve, Session!None, Session!Last, Newest
  <2> HIDE DEF x
  <2> QED BY <2>1, <2>2, MoveCall
<1>6. ASSUME Session!TimeOut(f) PROVE Moves(f, k.api, "null", k.next)
  <2> DEFINE x == [k EXCEPT !.promise = "null"]
  <2>1. x \in CallRow /\ x.token = k.token /\ x.api = k.api /\ x.promise = "null" /\ x.next = k.next
    BY <1>1 DEF CallRow
  <2>2. fetches' = [fetches EXCEPT ![f] = x]
    BY <1>6 DEF Session!TimeOut, Session!None, Session!Last, Newest
  <2> HIDE DEF x
  <2> QED BY <2>1, <2>2, MoveCall
<1> QED BY <1>1, <1>2, <1>3, <1>4, <1>5, <1>6

(* Everything but Rotate leaves the tokens alone.                          *)
LEMMA MovesExchange ==
  ASSUME ExchangeInv, NEW f \in DOMAIN fetches,
         Session!Refuse(f) \/ Session!Lookup(f) \/ Session!Resolve(f) \/ Session!TimeOut(f)
  PROVE  ExchangeInv'
<1>1. PICK api, promise, next :
        /\ Moves(f, api, promise, next)
        /\ api = "locked" => fetches[f].api = "locked" \/ Session!IsActive(fetches[f].token)
        /\ next = fetches[f].next
  BY CallMoves DEF Session!Refuse, Session!Lookup, Session!Resolve, Session!TimeOut
<1>2. /\ UNCHANGED <<active, tokens, expired, jar, reqs, cache, logout, ended>>
      /\ timeouts' \in 0 .. MaxTimeouts
  BY SMTT(20), ConsoleAssumptions DEF Session!Refuse, Session!Lookup, Session!Resolve, Session!TimeOut,
                            ExchangeInv, Session!TypeOK, Session!BoundsAreNatural
<1>3. Session!TypeOK'
  BY <1>1, <1>2 DEF ExchangeInv, Session!TypeOK, Moves, CallRow
<1>4. CookiesThere'
  BY <1>2 DEF ExchangeInv, CookiesThere, Newest
<1>5. RequestsThere'
  BY <1>1, <1>2 DEF ExchangeInv, RequestsThere, Moves, Open, Newest
<1>6. CallsThere'
  BY <1>1, <1>2, SessionParts DEF ExchangeInv, CallsThere, Moves, Newest
<1>7. LockIsGood'
  BY SMTT(20), <1>1, <1>2, SessionParts DEF ExchangeInv, LockIsGood, Moves, Session!IsActive, Session!IsLocked
<1>8. Session!ExchangedOnce'
  BY <1>2 DEF ExchangeInv, Session!ExchangedOnce
<1> QED BY <1>3, <1>4, <1>5, <1>6, <1>7, <1>8 DEF ExchangeInv

(* The exchange: the holder of the token's lock revokes it and issues the  *)
(* next one from it.                                                       *)
LEMMA RotateTokens ==
  ASSUME ExchangeInv, NEW f \in DOMAIN fetches, Session!Rotate(f)
  PROVE  LET t == fetches[f].token IN
         /\ t \in 1 .. Newest /\ ~tokens[t].revoked
         /\ tokens' \in Seq(TokenRow) /\ Len(tokens') = Newest + 1 /\ Newest + 1 \in 1 .. MaxTokens
         /\ \A s \in 1 .. Newest : s # t => tokens'[s] = tokens[s]
         /\ tokens'[t].from = tokens[t].from /\ tokens'[t].revoked = TRUE
         /\ tokens'[Newest + 1].from = t /\ tokens'[Newest + 1].revoked = FALSE
<1> DEFINE t == fetches[f].token
           more == Append(tokens, [revoked |-> FALSE, from |-> t])
           old == [more[t] EXCEPT !.revoked = TRUE]
<1>1. t \in 1 .. Newest /\ ~tokens[t].revoked
  BY DEF ExchangeInv, CallsThere, LockIsGood, Session!Rotate
<1>2. Newest \in Nat /\ Newest < MaxTokens /\ MaxTokens \in Nat
  BY SessionParts, ConsoleAssumptions DEF Session!Rotate, Newest, Session!BoundsAreNatural
<1>3. [revoked |-> FALSE, from |-> t] \in TokenRow
  BY <1>1, <1>2 DEF TokenRow
<1>4. /\ more \in Seq(TokenRow) /\ Len(more) = Newest + 1
      /\ \A s \in 1 .. Newest : more[s] = tokens[s]
      /\ more[Newest + 1] = [revoked |-> FALSE, from |-> t]
  BY <1>2, <1>3, SessionParts DEF Newest
<1>5. more[t] \in TokenRow /\ more[t] = tokens[t]
  BY <1>1, <1>2, <1>4, SessionParts DEF Newest
<1>6. old \in TokenRow /\ old.from = tokens[t].from /\ old.revoked = TRUE
  BY <1>5 DEF TokenRow
<1>7. tokens' = [more EXCEPT ![t] = old]
  BY DEF Session!Rotate, Session!Issued
<1> HIDE DEF t, more, old
<1>8. tokens' \in Seq(TokenRow) /\ Len(tokens') = Newest + 1 /\ t \in DOMAIN more
  BY <1>1, <1>2, <1>4, <1>6, <1>7, ReplaceAt
<1>9. \A s \in 1 .. Newest + 1 : tokens'[s] = IF s = t THEN old ELSE more[s]
  BY <1>2, <1>4, <1>7
<1> USE DEF t
<1> QED BY <1>1, <1>2, <1>4, <1>6, <1>8, <1>9

LEMMA RotateExchange ==
  ASSUME ExchangeInv, NEW f \in DOMAIN fetches, Session!Rotate(f)
  PROVE  ExchangeInv'
<1> DEFINE t == fetches[f].token
<1>1. Moves(f, "done", fetches[f].promise, Newest + 1) /\ fetches[f].api = "locked"
  BY CallMoves DEF Session!Rotate
<1>2. UNCHANGED <<active, expired, jar, reqs, cache, logout, ended, timeouts>>
  BY DEF Session!Rotate
<1>3. /\ t \in 1 .. Newest /\ ~tokens[t].revoked
      /\ tokens' \in Seq(TokenRow) /\ Len(tokens') = Newest + 1 /\ Newest + 1 \in 1 .. MaxTokens
      /\ \A s \in 1 .. Newest : s # t => tokens'[s] = tokens[s]
      /\ tokens'[t].from = tokens[t].from /\ tokens'[t].revoked = TRUE
      /\ tokens'[Newest + 1].from = t /\ tokens'[Newest + 1].revoked = FALSE
  BY RotateTokens
<1>4. Newest \in Nat /\ DOMAIN tokens = 1 .. Newest /\ DOMAIN tokens' = 1 .. Newest + 1 /\ Newest' = Newest + 1
  BY <1>3, SessionParts DEF Newest
<1> HIDE DEF t
<1>5. Session!TypeOK'
  <2>1. (tokens \in Seq([revoked : BOOLEAN, from : 0 .. MaxTokens]) /\ Len(tokens) <= MaxTokens)'
    BY <1>3 DEF TokenRow
  <2>2. (fetches \in Seq([token : Session!TokenIds, api : {"sent", "locked", "done"},
                          promise : {"pending", "tokens", "null"}, next : 0 .. MaxTokens]))'
    BY <1>1 DEF Moves, CallRow
  <2> QED BY <2>1, <2>2, <1>2 DEF ExchangeInv, Session!TypeOK
<1>6. CookiesThere'
  <2>1. \A s \in 1 .. Newest : tokens'[s].from = tokens[s].from
    BY <1>3, <1>4, SessionParts
  <2>2. \A s \in 1 .. Newest + 1 : tokens'[s].from \in 0 .. Newest + 1
    <3>1. \A s \in 1 .. Newest : tokens'[s].from \in 0 .. Newest
      BY <2>1 DEF ExchangeInv, CookiesThere
    <3> QED BY <1>3, <1>4, <3>1
  <2>3. /\ jar'.access \in 0 .. Newest + 1 /\ jar'.refresh \in 0 .. Newest + 1
        /\ expired' \subseteq 1 .. Newest + 1
    BY <1>2, <1>4 DEF ExchangeInv, CookiesThere
  <2> QED BY <1>4, <2>2, <2>3 DEF CookiesThere
<1>7. RequestsThere'
  BY <1>1, <1>2, <1>4 DEF ExchangeInv, RequestsThere, Moves, Open
<1>8. CallsThere'
  <2>1. \A g \in DOMAIN fetches : fetches'[g].next \in {fetches[g].next, Newest + 1}
    BY <1>1 DEF Moves
  <2>2. \A g \in DOMAIN fetches : fetches'[g].next \in 0 .. Newest + 1
    BY <1>4, <2>1 DEF ExchangeInv, CallsThere
  <2>3. \A g \in DOMAIN fetches : fetches'[g].token \in 1 .. Newest + 1
    BY <1>1, <1>4 DEF ExchangeInv, CallsThere, Moves
  <2>4. Len(fetches') = Len(fetches) /\ DOMAIN fetches' = DOMAIN fetches
    BY <1>1 DEF Moves
  <2> QED BY <1>2, <1>4, <2>2, <2>3, <2>4 DEF ExchangeInv, CallsThere
<1>9. LockIsGood'
  <2> SUFFICES ASSUME NEW g \in DOMAIN fetches, fetches'[g].api = "locked"
               PROVE  /\ g # f /\ fetches[g].api = "locked"
                      /\ ~tokens'[fetches[g].token].revoked
    BY <1>1 DEF ExchangeInv, LockIsGood, Moves
  <2>1. g # f /\ fetches[g].api = "locked"
    BY <1>1 DEF Moves
  <2>2. fetches[g].token # t /\ fetches[g].token \in 1 .. Newest
    BY <1>1, <2>1 DEF ExchangeInv, LockIsGood, CallsThere, t
  <2> QED BY <1>3, <2>1, <2>2 DEF ExchangeInv, LockIsGood
<1>10. Session!ExchangedOnce'
  <2>1. \A s \in 1 .. Newest : tokens[s].from # t
    BY <1>3, <1>4 DEF ExchangeInv, Session!ExchangedOnce, Session!None
  <2>2. \A s \in 1 .. Newest : tokens'[s].from = tokens[s].from /\ (tokens[s].revoked => tokens'[s].revoked)
    BY <1>3
  <2>3. \A s \in 1 .. Newest : tokens[s].from \in 0 .. Newest
    BY DEF ExchangeInv, CookiesThere
  <2>4. ASSUME NEW s \in 1 .. Newest + 1, NEW u \in 1 .. Newest + 1, tokens'[s].from # 0
        PROVE  tokens'[tokens'[s].from].revoked /\ (tokens'[s].from = tokens'[u].from => s = u)
    <3>1. CASE s = Newest + 1
      BY <1>3, <1>4, <2>1, <2>2, <2>4, <3>1
    <3>2. CASE s # Newest + 1
      <4>1. s \in 1 .. Newest /\ tokens[s].from \in 1 .. Newest
        BY <1>4, <2>2, <2>3, <2>4, <3>2
      <4>2. tokens[tokens[s].from].revoked /\ \A v \in 1 .. Newest : tokens[s].from = tokens[v].from => s = v
        BY <1>4, <4>1 DEF ExchangeInv, Session!ExchangedOnce, Session!None
      <4> QED BY <1>3, <1>4, <2>1, <2>2, <4>1, <4>2
    <3> QED BY <3>1, <3>2
  <2> QED BY <1>4, <2>4 DEF Session!ExchangedOnce, Session!None
<1> QED BY <1>5, <1>6, <1>7, <1>8, <1>9, <1>10 DEF ExchangeInv

(***************************************************************************)
(* A request of the page takes a step.                                     *)
(***************************************************************************)
Takes(r, at, access, refresh, got, fetch, code) ==
  /\ reqs' \in [Requests -> RequestRow]
  /\ \A p \in Requests : p # r => reqs'[p] = reqs[p]
  /\ reqs'[r].at = at /\ reqs'[r].access = access /\ reqs'[r].refresh = refresh
  /\ reqs'[r].got = got /\ reqs'[r].fetch = fetch /\ reqs'[r].code = code

LEMMA RequestTakes ==
  ASSUME ExchangeInv, NEW r \in Requests, NEW x \in RequestRow, reqs' = [reqs EXCEPT ![r] = x]
  PROVE  Takes(r, x.at, x.access, x.refresh, x.got, x.fetch, x.code)
BY SessionParts DEF Takes

Invokes(r)       == reqs' = [reqs EXCEPT ![r].at = "invoke"]
Gets(r, n)       == reqs' = [reqs EXCEPT ![r] = [@ EXCEPT !.at = "invoke", !.access = n, !.got = n]]
Waits(r, f)      == reqs' = [reqs EXCEPT ![r].at = "refreshing", ![r].fetch = f]
Answers(r, code) == reqs' = [reqs EXCEPT ![r].at = "answered", ![r].code = code]
SignedOut(r)     == reqs' = [reqs EXCEPT ![r] = [@ EXCEPT !.at = "answered", !.code = 401]]

LEMMA RequestSet ==
  ASSUME ExchangeInv, NEW r \in Requests, NEW n \in 0 .. MaxTokens, NEW f \in 0 .. MaxFetches,
         NEW code \in {200, 401}
  PROVE  LET k == reqs[r] IN
         /\ k \in RequestRow
         /\ Invokes(r) => Takes(r, "invoke", k.access, k.refresh, k.got, k.fetch, k.code)
         /\ Gets(r, n) => Takes(r, "invoke", n, k.refresh, n, k.fetch, k.code)
         /\ Waits(r, f) => Takes(r, "refreshing", k.access, k.refresh, k.got, f, k.code)
         /\ Answers(r, code) => Takes(r, "answered", k.access, k.refresh, k.got, k.fetch, code)
         /\ SignedOut(r) => Takes(r, "answered", k.access, k.refresh, k.got, k.fetch, 401)
<1> DEFINE k == reqs[r]
<1>1. k \in RequestRow
  BY SessionParts
<1>2. ASSUME Invokes(r) PROVE Takes(r, "invoke", k.access, k.refresh, k.got, k.fetch, k.code)
  <2> DEFINE x == [k EXCEPT !.at = "invoke"]
  <2>1. /\ x \in RequestRow /\ x.at = "invoke" /\ x.access = k.access /\ x.refresh = k.refresh
        /\ x.got = k.got /\ x.fetch = k.fetch /\ x.code = k.code
    BY <1>1 DEF RequestRow
  <2>2. reqs' = [reqs EXCEPT ![r] = x]
    BY <1>2 DEF Invokes
  <2> HIDE DEF x
  <2>3. Takes(r, x.at, x.access, x.refresh, x.got, x.fetch, x.code)
    BY <2>1, <2>2, RequestTakes
  <2> QED BY <2>1, <2>3
<1>3. ASSUME Gets(r, n) PROVE Takes(r, "invoke", n, k.refresh, n, k.fetch, k.code)
  <2> DEFINE x == [k EXCEPT !.at = "invoke", !.access = n, !.got = n]
  <2>1. /\ x \in RequestRow /\ x.at = "invoke" /\ x.access = n /\ x.refresh = k.refresh
        /\ x.got = n /\ x.fetch = k.fetch /\ x.code = k.code
    BY <1>1 DEF RequestRow
  <2>2. reqs' = [reqs EXCEPT ![r] = x]
    BY <1>3 DEF Gets
  <2> HIDE DEF x
  <2>3. Takes(r, x.at, x.access, x.refresh, x.got, x.fetch, x.code)
    BY <2>1, <2>2, RequestTakes
  <2> QED BY <2>1, <2>3
<1>4. ASSUME Waits(r, f) PROVE Takes(r, "refreshing", k.access, k.refresh, k.got, f, k.code)
  <2> DEFINE first == [k EXCEPT !.at = "refreshing"]
             x     == [first EXCEPT !.fetch = f]
             once  == [reqs EXCEPT ![r] = first]
  <2>1. /\ x \in RequestRow /\ x.at = "refreshing" /\ x.access = k.access /\ x.refresh = k.refresh
        /\ x.got = k.got /\ x.fetch = f /\ x.code = k.code
    BY <1>1 DEF RequestRow
  <2>2. reqs' = [once EXCEPT ![r] = [once[r] EXCEPT !.fetch = f]]
    BY <1>4 DEF Waits
  <2> HIDE DEF first
  <2>3. once[r] = first
    BY SessionParts
  <2>4. reqs' = [once EXCEPT ![r] = x]
    BY <2>2, <2>3
  <2> HIDE DEF x
  <2>5. reqs' = [reqs EXCEPT ![r] = x]
    BY <2>4
  <2>6. Takes(r, x.at, x.access, x.refresh, x.got, x.fetch, x.code)
    BY <2>1, <2>5, RequestTakes
  <2> QED BY <2>1, <2>6
<1>5. ASSUME Answers(r, code) PROVE Takes(r, "answered", k.access, k.refresh, k.got, k.fetch, code)
  <2> DEFINE first == [k EXCEPT !.at = "answered"]
             x     == [first EXCEPT !.code = code]
             once  == [reqs EXCEPT ![r] = first]
  <2>1. /\ x \in RequestRow /\ x.at = "answered" /\ x.access = k.access /\ x.refresh = k.refresh
        /\ x.got = k.got /\ x.fetch = k.fetch /\ x.code = code
    BY ZenonT(40), <1>1 DEF RequestRow
  <2>2. reqs' = [once EXCEPT ![r] = [once[r] EXCEPT !.code = code]]
    BY <1>5 DEF Answers
  <2> HIDE DEF first
  <2>3. once[r] = first
    BY SessionParts
  <2>4. reqs' = [once EXCEPT ![r] = x]
    BY <2>2, <2>3
  <2> HIDE DEF x
  <2>5. reqs' = [reqs EXCEPT ![r] = x]
    BY <2>4
  <2>6. Takes(r, x.at, x.access, x.refresh, x.got, x.fetch, x.code)
    BY <2>1, <2>5, RequestTakes
  <2> QED BY <2>1, <2>6
<1>6. ASSUME SignedOut(r) PROVE Takes(r, "answered", k.access, k.refresh, k.got, k.fetch, 401)
  <2> DEFINE x == [k EXCEPT !.at = "answered", !.code = 401]
  <2>1. /\ x \in RequestRow /\ x.at = "answered" /\ x.access = k.access /\ x.refresh = k.refresh
        /\ x.got = k.got /\ x.fetch = k.fetch /\ x.code = 401
    BY ZenonT(40), <1>1 DEF RequestRow
  <2>2. reqs' = [reqs EXCEPT ![r] = x]
    BY <1>6 DEF SignedOut
  <2> HIDE DEF x
  <2>3. Takes(r, x.at, x.access, x.refresh, x.got, x.fetch, x.code)
    BY <2>1, <2>2, RequestTakes
  <2> QED BY <2>1, <2>3
<1> QED BY <1>1, <1>2, <1>3, <1>4, <1>5, <1>6

(* A new call of the API, shared by all who bring its token.               *)
Begins(t) ==
  /\ fetches' \in Seq(CallRow) /\ Len(fetches') = Len(fetches) + 1 /\ Len(fetches) < MaxFetches
  /\ \A g \in DOMAIN fetches : fetches'[g] = fetches[g]
  /\ LET new == fetches'[Len(fetches) + 1] IN
     new.token = t /\ new.api = "sent" /\ new.promise = "pending" /\ new.next = 0
  /\ cache' = [cache EXCEPT ![t] = Len(fetches) + 1]

LEMMA RequestParts ==
  ASSUME ExchangeInv, NEW r \in Requests, Open(r)
  PROVE  /\ reqs[r] \in RequestRow /\ reqs[r].refresh \in 1 .. Newest
         /\ reqs[r].refresh \in Session!TokenIds /\ Newest \in 1 .. MaxTokens
<1>1. Newest \in 0 .. MaxTokens
  BY SessionParts, ConsoleAssumptions DEF Newest, ExchangeInv, Session!TypeOK, Session!BoundsAreNatural
<1>2. reqs[r].refresh \in 1 .. Newest
  BY <1>1 DEF ExchangeInv, RequestsThere
<1> QED BY <1>1, <1>2, SessionParts, ConsoleAssumptions DEF Session!TokenIds, Session!BoundsAreNatural

LEMMA JoinIs ==
  ASSUME ExchangeInv, NEW r \in Requests, Open(r), Session!JoinRefresh(r)
  PROVE  LET k == reqs[r] IN
         \E f \in 1 .. MaxFetches :
           /\ Takes(r, "refreshing", k.access, k.refresh, k.got, f, k.code)
           /\ \/ f = cache[k.refresh] /\ f \in DOMAIN fetches /\ UNCHANGED <<fetches, cache>>
              \/ cache[k.refresh] = 0 /\ f = Len(fetches) + 1 /\ Begins(k.refresh)
<1> DEFINE k == reqs[r]
           t == k.refresh
           call == [token |-> t, api |-> "sent", promise |-> "pending", next |-> 0]
<1>1. t \in 1 .. Newest /\ t \in Session!TokenIds /\ cache[t] \in 0 .. Len(fetches)
  BY RequestParts DEF ExchangeInv, CallsThere
<1>2. Len(fetches) \in Nat /\ DOMAIN fetches = 1 .. Len(fetches) /\ MaxFetches \in Nat /\ Len(fetches) <= MaxFetches
  BY SessionParts, ConsoleAssumptions DEF Session!BoundsAreNatural, ExchangeInv, CallsThere
<1>3. 0 \in 0 .. MaxTokens /\ 200 \in {200, 401}
  BY ConsoleAssumptions DEF Session!BoundsAreNatural
<1>4. ASSUME NEW f \in 0 .. MaxFetches, Waits(r, f)
      PROVE  Takes(r, "refreshing", k.access, k.refresh, k.got, f, k.code)
  BY <1>3, <1>4, RequestSet
<1>5. CASE cache[t] # 0
  <2>1. cache[t] \in 1 .. MaxFetches /\ cache[t] \in DOMAIN fetches /\ cache[t] \in 0 .. MaxFetches
    BY <1>1, <1>2, <1>5
  <2>2. Waits(r, cache[t]) /\ UNCHANGED <<fetches, cache>>
    BY <1>5 DEF Waits, Session!JoinRefresh, Session!None
  <2>3. Takes(r, "refreshing", k.access, k.refresh, k.got, cache[t], k.code)
    BY <1>4, <2>1, <2>2
  <2> QED BY <2>1, <2>2, <2>3
<1>6. CASE cache[t] = 0
  <2>1. /\ Len(fetches) < MaxFetches
        /\ fetches' = Append(fetches, call)
        /\ cache' = [cache EXCEPT ![t] = Len(fetches) + 1]
        /\ Waits(r, Len(fetches) + 1)
    BY <1>6 DEF Waits, Session!JoinRefresh, Session!None
  <2>2. call \in CallRow /\ fetches \in Seq(CallRow)
    BY <1>1, <1>3, SessionParts DEF CallRow
  <2>3. /\ call.token = t /\ call.api = "sent" /\ call.promise = "pending" /\ call.next = 0
    OBVIOUS
  <2> HIDE DEF call, t
  <2>4. Begins(t)
    BY <2>1, <2>2, <2>3, <1>2 DEF Begins
  <2>5. Len(fetches) + 1 \in 0 .. MaxFetches /\ Len(fetches) + 1 \in 1 .. MaxFetches
    BY <1>2, <2>1
  <2>6. Takes(r, "refreshing", k.access, k.refresh, k.got, Len(fetches) + 1, k.code)
    BY <1>4, <2>1, <2>5
  <2> QED BY <1>6, <2>4, <2>5, <2>6 DEF t
<1> QED BY <1>5, <1>6, <1>1

LEMMA BeginsKeeps ==
  ASSUME ExchangeInv, NEW t \in 1 .. Newest, Begins(t), UNCHANGED tokens
  PROVE  /\ cache' \in [Session!TokenIds -> 0 .. MaxFetches] /\ CallsThere' /\ LockIsGood'
         /\ DOMAIN fetches \subseteq DOMAIN fetches'
<1> DEFINE new == Len(fetches) + 1
<1>1. /\ DOMAIN fetches = 1 .. Len(fetches) /\ Len(fetches) \in Nat /\ MaxFetches \in Nat
      /\ DOMAIN fetches' = 1 .. new /\ Len(fetches') = new
      /\ new \in 0 .. MaxFetches
  BY SessionParts, ConsoleAssumptions DEF Begins, Session!BoundsAreNatural
<1>2. cache \in [Session!TokenIds -> 0 .. MaxFetches] /\ cache' = [cache EXCEPT ![t] = new]
  BY SessionParts DEF Begins
<1>3. fetches'[new].token = t /\ fetches'[new].api = "sent" /\ fetches'[new].next = 0 /\ \A g \in DOMAIN fetches : fetches'[g] = fetches[g]
  BY DEF Begins
<1> HIDE DEF new
<1>4. CallsThere'
  <2>1. \A f \in DOMAIN fetches' : fetches'[f].token \in 1 .. Newest /\ fetches'[f].next \in 0 .. Newest
    BY <1>1, <1>3, SessionParts DEF Newest, ExchangeInv, CallsThere, new
  <2>2. \A u \in Session!TokenIds : cache'[u] \in 0 .. new
    BY <1>1, <1>2 DEF ExchangeInv, CallsThere, new
  <2> QED BY <1>1, <2>1, <2>2 DEF CallsThere, Newest
<1>5. LockIsGood'
  BY <1>1, <1>3 DEF ExchangeInv, LockIsGood, new
<1>6. DOMAIN fetches \subseteq DOMAIN fetches'
  BY <1>1 DEF new
<1> QED BY <1>1, <1>2, <1>4, <1>5, <1>6

LEMMA TakesKeeps ==
  ASSUME ExchangeInv, NEW r \in Requests, NEW at, NEW access, NEW refresh, NEW got, NEW fetch, NEW code,
         Takes(r, at, access, refresh, got, fetch, code), at # "idle",
         refresh \in 1 .. Newest, got \in 0 .. Newest, at = "refreshing" => fetch \in DOMAIN fetches',
         DOMAIN fetches \subseteq DOMAIN fetches', UNCHANGED tokens
  PROVE  RequestsThere'
<1>1. \A p \in Requests : RequestsThere =>
        /\ reqs[p].refresh \in 0 .. Newest /\ reqs[p].got \in 0 .. Newest
        /\ Open(p) => reqs[p].refresh # 0
        /\ ~Open(p) => reqs[p] = Session!Quiet
        /\ reqs[p].at = "refreshing" => reqs[p].fetch \in DOMAIN fetches'
  BY DEF RequestsThere
<1>2. Newest' = Newest /\ refresh # 0 /\ refresh \in 0 .. Newest
  BY DEF Newest
<1> QED BY <1>1, <1>2 DEF ExchangeInv, RequestsThere, Takes, Open

LEMMA GoesOn ==
  ASSUME ExchangeInv, NEW r \in Requests
  PROVE  LET k == reqs[r] IN
    /\ Session!Enter(r) =>
         /\ k.at = "sent"
         /\ \/ /\ k.access # 0 /\ UNCHANGED <<fetches, cache>>
               /\ Takes(r, "invoke", k.access, k.refresh, k.got, k.fetch, k.code)
            \/ k.access = 0 /\ Session!JoinRefresh(r)
    /\ Session!Invoke(r) =>
         /\ k.at = "invoke"
         /\ \/ /\ active /\ k.access \notin expired /\ UNCHANGED <<fetches, cache>>
               /\ Takes(r, "answered", k.access, k.refresh, k.got, k.fetch, 200)
            \/ (~active \/ k.access \in expired) /\ k.got = 0 /\ Session!JoinRefresh(r)
            \/ /\ (~active \/ k.access \in expired) /\ k.got # 0 /\ UNCHANGED <<fetches, cache>>
               /\ Takes(r, "answered", k.access, k.refresh, k.got, k.fetch, 401)
    /\ Session!Refreshed(r) =>
         /\ k.at = "refreshing" /\ k.fetch \in DOMAIN fetches /\ fetches[k.fetch].promise # "pending"
         /\ UNCHANGED <<fetches, cache>>
         /\ LET next == fetches[k.fetch].next IN
            \/ /\ fetches[k.fetch].promise = "tokens" /\ next \in 0 .. MaxTokens
               /\ Takes(r, "invoke", next, k.refresh, next, k.fetch, k.code)
            \/ /\ fetches[k.fetch].promise # "tokens"
               /\ Takes(r, "answered", k.access, k.refresh, k.got, k.fetch, 401)
<1> DEFINE k == reqs[r]
<1>1. 0 \in 0 .. MaxTokens /\ 0 \in 0 .. MaxFetches /\ 200 \in {200, 401} /\ 401 \in {200, 401}
  BY ConsoleAssumptions DEF Session!BoundsAreNatural
<1>2. ASSUME Session!Enter(r)
      PROVE  /\ k.at = "sent"
             /\ \/ /\ k.access # 0 /\ UNCHANGED <<fetches, cache>>
                   /\ Takes(r, "invoke", k.access, k.refresh, k.got, k.fetch, k.code)
                \/ k.access = 0 /\ Session!JoinRefresh(r)
  <2>1. k.at = "sent" /\ (k.access = 0 => Session!JoinRefresh(r))
    BY <1>2 DEF Session!Enter, Session!None
  <2>2. k.access # 0 => Invokes(r) /\ UNCHANGED <<fetches, cache>>
    BY <1>2 DEF Invokes, Session!Enter, Session!None
  <2> QED BY <1>1, <2>1, <2>2, RequestSet
<1>3. ASSUME Session!Invoke(r)
      PROVE  /\ k.at = "invoke"
             /\ \/ /\ active /\ k.access \notin expired /\ UNCHANGED <<fetches, cache>>
                   /\ Takes(r, "answered", k.access, k.refresh, k.got, k.fetch, 200)
                \/ (~active \/ k.access \in expired) /\ k.got = 0 /\ Session!JoinRefresh(r)
                \/ /\ (~active \/ k.access \in expired) /\ k.got # 0 /\ UNCHANGED <<fetches, cache>>
                   /\ Takes(r, "answered", k.access, k.refresh, k.got, k.fetch, 401)
  <2>1. k.at = "invoke"
    BY <1>3 DEF Session!Invoke
  <2>2. CASE active /\ k.access \notin expired
    <3>1. Answers(r, 200) /\ UNCHANGED <<fetches, cache>>
      BY <1>3, <2>2 DEF Answers, Session!Invoke
    <3>2. Takes(r, "answered", k.access, k.refresh, k.got, k.fetch, 200)
      BY <1>1, <3>1, RequestSet
    <3> QED BY <2>1, <2>2, <3>1, <3>2
  <2>3. CASE ~(active /\ k.access \notin expired) /\ k.got = 0
    BY <1>3, <2>1, <2>3 DEF Session!Invoke, Session!None
  <2>4. CASE ~(active /\ k.access \notin expired) /\ k.got # 0
    <3>1. Answers(r, 401) /\ UNCHANGED <<fetches, cache>>
      BY <1>3, <2>4 DEF Answers, Session!Invoke, Session!None
    <3>2. Takes(r, "answered", k.access, k.refresh, k.got, k.fetch, 401)
      BY <1>1, <3>1, RequestSet
    <3> QED BY <2>1, <2>4, <3>1, <3>2
  <2> QED BY <2>2, <2>3, <2>4
<1>4. ASSUME Session!Refreshed(r)
      PROVE  /\ k.at = "refreshing" /\ k.fetch \in DOMAIN fetches /\ fetches[k.fetch].promise # "pending"
             /\ UNCHANGED <<fetches, cache>>
             /\ LET next == fetches[k.fetch].next IN
                \/ /\ fetches[k.fetch].promise = "tokens" /\ next \in 0 .. MaxTokens
                   /\ Takes(r, "invoke", next, k.refresh, next, k.fetch, k.code)
                \/ /\ fetches[k.fetch].promise # "tokens"
                   /\ Takes(r, "answered", k.access, k.refresh, k.got, k.fetch, 401)
  <2> DEFINE next == fetches[k.fetch].next
  <2>1. /\ k.at = "refreshing" /\ fetches[k.fetch].promise # "pending"
        /\ UNCHANGED <<fetches, cache>>
    BY <1>4 DEF Session!Refreshed, Session!Settled
  <2>2. k.fetch \in DOMAIN fetches
    BY <2>1 DEF ExchangeInv, RequestsThere
  <2>3. fetches[k.fetch] \in CallRow
    BY <2>2, SessionParts
  <2>4. next \in 0 .. MaxTokens
    BY <2>3 DEF CallRow
  <2>5. CASE fetches[k.fetch].promise = "tokens"
    <3>1. Gets(r, next)
      BY <1>4, <2>5 DEF Gets, Session!Refreshed
    <3>2. Takes(r, "invoke", next, k.refresh, next, k.fetch, k.code)
      BY <1>1, <2>4, <3>1, RequestSet
    <3> QED BY <2>1, <2>2, <2>4, <2>5, <3>2
  <2>6. CASE fetches[k.fetch].promise # "tokens"
    <3>1. SignedOut(r)
      BY <1>4, <2>6 DEF SignedOut, Session!Refreshed
    <3>2. Takes(r, "answered", k.access, k.refresh, k.got, k.fetch, 401)
      BY <1>1, <3>1, RequestSet
    <3> QED BY <2>1, <2>2, <2>6, <3>2
  <2> QED BY <2>5, <2>6
<1> QED BY <1>2, <1>3, <1>4

LEMMA GoesOnExchange ==
  ASSUME ExchangeInv, NEW r \in Requests, Session!Enter(r) \/ Session!Invoke(r) \/ Session!Refreshed(r)
  PROVE  ExchangeInv'
<1> DEFINE k == reqs[r]
<1>1. UNCHANGED <<active, tokens, expired, jar, logout, ended, timeouts>>
  BY DEF Session!Enter, Session!Invoke, Session!Refreshed
<1>2. Open(r)
  BY GoesOn DEF Open
<1>3. k \in RequestRow /\ k.refresh \in 1 .. Newest
  BY <1>2, RequestParts
<1>4. PICK at, access, got, fetch, code :
        /\ Takes(r, at, access, k.refresh, got, fetch, code) /\ at # "idle" /\ got \in 0 .. Newest
        /\ \/ /\ UNCHANGED <<fetches, cache>>
              /\ at = "refreshing" => fetch \in DOMAIN fetches
           \/ Begins(k.refresh) /\ fetch = Len(fetches) + 1
  <2>1. CASE Session!JoinRefresh(r)
    BY <1>2, <2>1, JoinIs DEF ExchangeInv, RequestsThere
  <2>2. CASE ~Session!JoinRefresh(r)
    <3>1. k.got \in 0 .. Newest /\ \A f \in DOMAIN fetches : fetches[f].next \in 0 .. Newest
      BY DEF ExchangeInv, RequestsThere, CallsThere
    <3> QED BY <2>2, <3>1, GoesOn
  <2> QED BY <2>1, <2>2
<1>5. /\ cache' \in [Session!TokenIds -> 0 .. MaxFetches] /\ CallsThere' /\ LockIsGood'
      /\ DOMAIN fetches \subseteq DOMAIN fetches' /\ fetches' \in Seq(CallRow)
  <2>1. CASE UNCHANGED <<fetches, cache>>
    BY <1>1, <2>1, SessionParts DEF ExchangeInv, CallsThere, LockIsGood, Newest
  <2>2. CASE Begins(k.refresh)
    BY <1>1, <1>3, <2>2, BeginsKeeps DEF Begins
  <2> QED BY <1>4, <2>1, <2>2
<1>6. RequestsThere'
  <2>1. at = "refreshing" => fetch \in DOMAIN fetches'
    BY <1>4, <1>5 DEF Begins
  <2> QED BY <1>1, <1>3, <1>4, <1>5, <2>1, TakesKeeps
<1>7. CookiesThere' /\ Session!ExchangedOnce'
  BY <1>1 DEF ExchangeInv, CookiesThere, Newest, Session!ExchangedOnce
<1>8. Session!TypeOK'
  <2>1. reqs' \in [Requests -> RequestRow]
    BY <1>4 DEF Takes
  <2> QED BY <1>1, <1>5, <2>1 DEF ExchangeInv, Session!TypeOK, RequestRow, CallRow
<1> QED BY <1>5, <1>6, <1>7, <1>8 DEF ExchangeInv

LEMMA SendIs ==
  ASSUME ExchangeInv, NEW r \in Requests, Session!Send(r)
  PROVE  Takes(r, "sent", jar.access, jar.refresh, 0, 0, 0) /\ jar.refresh # 0 /\ reqs[r].at = "idle"
<1> DEFINE x == [Session!Quiet EXCEPT !.at = "sent", !.access = jar.access, !.refresh = jar.refresh]
<1>1. jar.access \in 0 .. MaxTokens /\ jar.refresh \in 0 .. MaxTokens /\ 0 \in 0 .. MaxTokens /\ 0 \in 0 .. MaxFetches
  BY ConsoleAssumptions DEF ExchangeInv, Session!TypeOK, Session!BoundsAreNatural
<1>2. /\ x \in RequestRow /\ x.at = "sent" /\ x.access = jar.access /\ x.refresh = jar.refresh
      /\ x.got = 0 /\ x.fetch = 0 /\ x.code = 0
  BY <1>1 DEF RequestRow, Session!Quiet, Session!None
<1>3. reqs' = [reqs EXCEPT ![r] = x] /\ jar.refresh # 0 /\ reqs[r].at = "idle"
  BY DEF Session!Send, Session!None
<1> HIDE DEF x
<1>4. Takes(r, x.at, x.access, x.refresh, x.got, x.fetch, x.code)
  BY <1>2, <1>3, RequestTakes
<1> QED BY <1>2, <1>3, <1>4

LEMMA SendExchange ==
  ASSUME ExchangeInv, NEW r \in Requests, Session!Send(r)
  PROVE  ExchangeInv'
<1>1. UNCHANGED <<active, tokens, expired, jar, fetches, cache, logout, ended, timeouts>>
  BY DEF Session!Send
<1>2. jar.refresh \in 1 .. Newest /\ 0 \in 0 .. Newest
  BY SendIs, SessionParts DEF ExchangeInv, CookiesThere, Newest
<1>3. RequestsThere'
  BY <1>1, <1>2, SendIs, TakesKeeps
<1>4. CookiesThere' /\ CallsThere' /\ LockIsGood' /\ Session!ExchangedOnce'
  BY <1>1 DEF ExchangeInv, CookiesThere, CallsThere, LockIsGood, Newest, Session!ExchangedOnce
<1>5. Session!TypeOK'
  BY <1>1, SendIs DEF Takes, RequestRow, ExchangeInv, Session!TypeOK
<1> QED BY <1>3, <1>4, <1>5 DEF ExchangeInv


LEMMA AnswerExchange ==
  ASSUME ExchangeInv, NEW r \in Requests, Session!Answer(r)
  PROVE  ExchangeInv'
<1>1. /\ UNCHANGED <<active, tokens, expired, fetches, cache, logout, ended, timeouts>>
      /\ reqs' = [reqs EXCEPT ![r] = Session!Quiet]
      /\ jar' \in {Session!Empty, jar, [access |-> reqs[r].got, refresh |-> reqs[r].got]}
  BY DEF Session!Answer
<1>2. Session!Quiet \in RequestRow /\ 0 \in 0 .. Newest /\ 0 \in 0 .. MaxTokens
  BY SessionParts, ConsoleAssumptions DEF Session!Quiet, Session!None, RequestRow, Newest, Session!BoundsAreNatural
<1>3. reqs' \in [Requests -> RequestRow] /\ reqs'[r] = Session!Quiet /\ \A p \in Requests : p # r => reqs'[p] = reqs[p]
  BY <1>1, <1>2, SessionParts
<1>4. RequestsThere'
  BY <1>1, <1>2, <1>3 DEF ExchangeInv, RequestsThere, Open, Newest, Session!Quiet, Session!None
<1>5. jar' \in [access : 0 .. MaxTokens, refresh : 0 .. MaxTokens] /\ jar'.access \in 0 .. Newest /\ jar'.refresh \in 0 .. Newest
  <2>1. reqs[r].got \in 0 .. Newest /\ reqs[r].got \in 0 .. MaxTokens
    BY SessionParts DEF ExchangeInv, RequestsThere, RequestRow
  <2>2. jar \in [access : 0 .. MaxTokens, refresh : 0 .. MaxTokens] /\ jar.access \in 0 .. Newest /\ jar.refresh \in 0 .. Newest
    BY DEF ExchangeInv, CookiesThere, Session!TypeOK
  <2> QED BY <1>1, <1>2, <2>1, <2>2 DEF Session!Empty, Session!None
<1>6. CookiesThere' /\ CallsThere' /\ LockIsGood' /\ Session!ExchangedOnce'
  BY <1>1, <1>5 DEF ExchangeInv, CookiesThere, CallsThere, LockIsGood, Newest, Session!ExchangedOnce
<1>7. Session!TypeOK'
  BY <1>1, <1>3, <1>5 DEF RequestRow, ExchangeInv, Session!TypeOK
<1> QED BY <1>4, <1>6, <1>7 DEF ExchangeInv

LEMMA ForgetExchange ==
  ASSUME ExchangeInv, NEW t \in Session!TokenIds, Session!Forget(t)
  PROVE  ExchangeInv'
<1>1. /\ UNCHANGED <<active, tokens, expired, jar, reqs, fetches, logout, ended>>
      /\ cache' = [cache EXCEPT ![t] = 0] /\ timeouts' \in {timeouts, timeouts + 1}
      /\ timeouts' # timeouts => timeouts < MaxTimeouts
  BY DEF Session!Forget, Session!None
<1>2. 0 \in 0 .. MaxFetches /\ 0 \in 0 .. Len(fetches) /\ timeouts' \in 0 .. MaxTimeouts
  BY <1>1, SessionParts, ConsoleAssumptions DEF Session!BoundsAreNatural, ExchangeInv, Session!TypeOK
<1>3. cache' \in [Session!TokenIds -> 0 .. MaxFetches] /\ \A u \in Session!TokenIds : cache'[u] \in 0 .. Len(fetches)
  BY <1>1, <1>2, SessionParts DEF ExchangeInv, CallsThere
<1>4. CookiesThere' /\ RequestsThere' /\ CallsThere' /\ LockIsGood' /\ Session!ExchangedOnce'
  BY <1>1, <1>3 DEF ExchangeInv, CookiesThere, RequestsThere, CallsThere, LockIsGood, Newest, Open,
                    Session!ExchangedOnce
<1>5. Session!TypeOK'
  BY <1>1, <1>2, <1>3 DEF ExchangeInv, Session!TypeOK
<1> QED BY <1>4, <1>5 DEF ExchangeInv

LEMMA LoginExchange ==
  ASSUME ExchangeInv, Session!Login
  PROVE  ExchangeInv'
<1>1. /\ UNCHANGED <<active, expired, reqs, fetches, cache, logout, ended, timeouts>>
      /\ tokens = <<>> /\ tokens' = Append(tokens, [revoked |-> FALSE, from |-> 0])
      /\ jar' = [access |-> 1, refresh |-> 1]
  BY DEF Session!Login, Session!Issued, Session!Last, Session!None
<1>2. Newest = 0 /\ DOMAIN tokens = {} /\ MaxTokens \in Nat /\ 0 \in 0 .. MaxTokens /\ 1 \in 0 .. MaxTokens
  BY <1>1, ConsoleAssumptions DEF Newest, Session!BoundsAreNatural
<1>3. /\ tokens' \in Seq(TokenRow) /\ Len(tokens') = 1 /\ tokens'[1] = [revoked |-> FALSE, from |-> 0]
      /\ DOMAIN tokens' = {1}
  BY <1>1, <1>2, SessionParts DEF TokenRow, Newest
<1>4. \A f \in DOMAIN fetches : FALSE
  BY <1>2 DEF ExchangeInv, CallsThere
<1>5. \A r \in Requests : reqs[r] = Session!Quiet /\ reqs[r].at = "idle" /\ reqs[r].refresh = 0 /\ reqs[r].got = 0
  BY <1>2 DEF ExchangeInv, RequestsThere, Open, Session!Quiet, Session!None
<1>6. RequestsThere'
  BY <1>1, <1>3, <1>5 DEF RequestsThere, Open, Newest
<1>7. CookiesThere'
  <2>1. jar'.access = 1 /\ jar'.refresh = 1 /\ tokens'[1].from = 0 /\ expired' = expired
    BY <1>1, <1>3
  <2> QED BY <1>2, <1>3, <2>1 DEF CookiesThere, Newest, ExchangeInv
<1>8. CallsThere' /\ LockIsGood'
  BY <1>1, <1>4 DEF ExchangeInv, CallsThere, LockIsGood
<1>9. Session!ExchangedOnce'
  BY <1>3 DEF Session!ExchangedOnce, Session!None
<1>10. Session!TypeOK'
  BY <1>1, <1>2, <1>3 DEF ExchangeInv, Session!TypeOK, TokenRow
<1> QED BY <1>6, <1>7, <1>8, <1>9, <1>10 DEF ExchangeInv

LEMMA AloneExchange ==
  ASSUME ExchangeInv, Session!Deactivate \/ Session!AccessExpires \/ Session!LogoutAnswer
  PROVE  ExchangeInv'
<1>1. /\ UNCHANGED <<tokens, reqs, fetches, cache, timeouts>>
      /\ active' \in {active, FALSE} /\ ended' \in {ended, TRUE} /\ logout' \in {logout, "answered"}
      /\ expired' = expired \/ (expired' = expired \cup {jar.access} /\ jar.access # 0)
      /\ jar' \in {jar, Session!Empty, [jar EXCEPT !.access = 0]}
  BY DEF Session!Deactivate, Session!AccessExpires, Session!LogoutAnswer, Session!None
<1>2. 0 \in 0 .. MaxTokens /\ 0 \in 0 .. Newest /\ Newest \in 0 .. MaxTokens
  BY SessionParts, ConsoleAssumptions DEF Newest, Session!BoundsAreNatural, ExchangeInv, Session!TypeOK
<1>3. jar \in [access : 0 .. MaxTokens, refresh : 0 .. MaxTokens] /\ jar.access \in 0 .. Newest /\ jar.refresh \in 0 .. Newest
  BY DEF ExchangeInv, CookiesThere, Session!TypeOK
<1>4. jar' \in [access : 0 .. MaxTokens, refresh : 0 .. MaxTokens] /\ jar'.access \in 0 .. Newest /\ jar'.refresh \in 0 .. Newest
  <2>1. /\ [jar EXCEPT !.access = 0] \in [access : 0 .. MaxTokens, refresh : 0 .. MaxTokens]
        /\ [jar EXCEPT !.access = 0].access = 0 /\ [jar EXCEPT !.access = 0].refresh = jar.refresh
    BY <1>2, <1>3
  <2> QED BY <1>1, <1>2, <1>3, <2>1 DEF Session!Empty, Session!None
<1>5. expired' \subseteq 1 .. Newest /\ expired' \subseteq Session!TokenIds
  BY <1>1, <1>2, <1>3 DEF ExchangeInv, CookiesThere, Session!TypeOK, Session!TokenIds
<1>6. RequestsThere' /\ CallsThere' /\ LockIsGood' /\ Session!ExchangedOnce'
  BY <1>1 DEF ExchangeInv, RequestsThere, CallsThere, LockIsGood, Newest, Open, Session!ExchangedOnce
<1>7. CookiesThere'
  BY <1>1, <1>4, <1>5 DEF ExchangeInv, CookiesThere, Newest
<1>8. Session!TypeOK'
  BY <1>1, <1>4, <1>5 DEF ExchangeInv, Session!TypeOK
<1> QED BY <1>6, <1>7, <1>8 DEF ExchangeInv

LEMMA LogoutExchange ==
  ASSUME ExchangeInv, Session!Logout
  PROVE  ExchangeInv'
<1> DEFINE t == jar.refresh
           old == [tokens[t] EXCEPT !.revoked = TRUE]
<1>1. /\ UNCHANGED <<active, expired, jar, reqs, fetches, cache, timeouts>>
      /\ ended' = TRUE /\ logout' = "sent" /\ t # 0 /\ ~Session!IsLocked(t)
      /\ tokens' = [tokens EXCEPT ![t] = old]
  BY DEF Session!Logout, Session!None
<1>2. t \in 1 .. Newest /\ t \in DOMAIN tokens /\ DOMAIN tokens = 1 .. Newest
  BY <1>1, SessionParts DEF ExchangeInv, CookiesThere, Newest
<1> HIDE DEF t
<1>3. tokens \in Seq(TokenRow) /\ tokens[t] \in TokenRow
  <2>1. tokens \in Seq(TokenRow)
    BY SessionParts
  <2>2. t \in 1 .. Len(tokens)
    BY <1>2 DEF Newest
  <2> QED BY <2>1, <2>2
<1>4. old \in TokenRow /\ old.from = tokens[t].from /\ old.revoked = TRUE
  BY <1>3 DEF TokenRow
<1> HIDE DEF old
<1>5. /\ tokens' \in Seq(TokenRow) /\ DOMAIN tokens' = DOMAIN tokens /\ Len(tokens') = Len(tokens)
      /\ \A s \in DOMAIN tokens : s # t => tokens'[s] = tokens[s]
      /\ tokens'[t].from = tokens[t].from /\ tokens'[t].revoked = TRUE
  <2>1. tokens' \in Seq(TokenRow) /\ DOMAIN tokens' = DOMAIN tokens /\ Len(tokens') = Len(tokens)
    <3>1. tokens \in Seq(TokenRow) /\ t \in DOMAIN tokens /\ old \in TokenRow
      BY <1>2, <1>3, <1>4
    <3>2. tokens' = [tokens EXCEPT ![t] = old]
      BY <1>1
    <3> QED BY <3>1, <3>2, ReplaceAt
  <2>2. \A s \in DOMAIN tokens : tokens'[s] = IF s = t THEN old ELSE tokens[s]
    BY <1>1, <1>3
  <2> QED BY <1>2, <1>4, <2>1, <2>2
<1>6. \A s \in DOMAIN tokens : tokens'[s].from = tokens[s].from /\ (tokens[s].revoked => tokens'[s].revoked)
  BY <1>5
<1>7. CookiesThere' /\ RequestsThere' /\ CallsThere'
  BY <1>1, <1>2, <1>5, <1>6 DEF ExchangeInv, CookiesThere, RequestsThere, CallsThere, Newest, Open
<1>8. LockIsGood'
  <2>1. \A f \in DOMAIN fetches : fetches[f].api = "locked" =>
          fetches[f].token # t /\ fetches[f].token \in DOMAIN tokens
    BY <1>1, <1>2 DEF Session!IsLocked, ExchangeInv, CallsThere, t
  <2> QED BY <1>1, <1>5, <2>1 DEF ExchangeInv, LockIsGood
<1>9. Session!ExchangedOnce'
  <2>1. \A s \in DOMAIN tokens : tokens[s].from # 0 => tokens[s].from \in DOMAIN tokens
    BY <1>2, SessionParts DEF ExchangeInv, CookiesThere, Newest
  <2> QED BY <1>5, <1>6, <2>1 DEF ExchangeInv, Session!ExchangedOnce, Session!None
<1>10. Session!TypeOK'
  BY <1>1, <1>5 DEF ExchangeInv, Session!TypeOK, TokenRow
<1> QED BY <1>7, <1>8, <1>9, <1>10 DEF ExchangeInv

(***************************************************************************)
(* A session without a fault.                                              *)
(***************************************************************************)
(* What a step finds in a session without a fault.                         *)
LEMMA SessionFinds ==
  ASSUME ExchangeInv, SessionHolds, Calm
  PROVE  /\ active = TRUE /\ logout = "none" /\ (NotYet \/ Seated)
         /\ Newest \in 0 .. MaxTokens /\ MaxTokens \in Nat
         /\ NotYet => Newest = 0 /\ DOMAIN fetches = {} /\ (\A t \in Session!TokenIds : cache[t] = 0)
         /\ Seated => Newest \in Session!TokenIds /\ Newest \in 1 .. Newest
         /\ timeouts \in Nat
<1>1. Newest \in 0 .. MaxTokens /\ MaxTokens \in Nat
  BY SessionParts, ConsoleAssumptions DEF Newest, ExchangeInv, Session!TypeOK, Session!BoundsAreNatural
<1>2. ASSUME NotYet
      PROVE  Newest = 0 /\ DOMAIN fetches = {} /\ (\A t \in Session!TokenIds : cache[t] = 0)
  <2>1. Newest = 0
    BY <1>2 DEF NotYet, Newest
  <2>2. DOMAIN fetches = {}
    BY <2>1 DEF ExchangeInv, CallsThere
  <2>3. Len(fetches) = 0
    BY <2>2, SessionParts
  <2> QED BY <2>1, <2>2, <2>3 DEF ExchangeInv, CallsThere
<1>3. timeouts \in Nat
  BY DEF Calm
<1> QED BY <1>1, <1>2, <1>3 DEF SessionHolds, Seated, Session!TokenIds

LEMMA LoginHolds ==
  ASSUME ExchangeInv, SessionHolds, Session!Login
  PROVE  SessionHolds'
<1> SUFFICES ASSUME Calm PROVE active' = TRUE /\ logout' = "none" /\ Seated'
  BY DEF SessionHolds, Calm, Session!Login
<1>1. /\ UNCHANGED <<active, expired, reqs, fetches, cache, logout, ended, timeouts>>
      /\ tokens = <<>> /\ tokens' = Append(tokens, [revoked |-> FALSE, from |-> 0])
      /\ jar' = [access |-> 1, refresh |-> 1]
  BY DEF Session!Login, Session!Issued, Session!Last, Session!None
<1>2. Newest = 0 /\ Newest' = 1 /\ tokens'[1].revoked = FALSE /\ expired = {}
  BY <1>1 DEF Newest, ExchangeInv, CookiesThere
<1>3. NotYet
  BY <1>2, SessionFinds DEF Seated
<1>4. DOMAIN fetches = {} /\ \A t \in Session!TokenIds : cache[t] = 0
  BY <1>3, SessionFinds
<1>5. 1 \in Session!TokenIds
  BY ConsoleAssumptions DEF Session!TokenIds, Session!BoundsAreNatural
<1>6. ChainHolds'
  BY <1>1, <1>2, <1>3, <1>4 DEF NotYet, ChainHolds, TokensChain, EntriesName, CallsChain, RequestsChain, Open
<1>7. InForce'
  BY <1>1, <1>2, <1>3, <1>4, <1>5 DEF NotYet, InForce, Open
<1> QED BY <1>1, <1>2, <1>6, <1>7, SessionFinds DEF Seated

(* A call and its promise.                                                 *)
LEMMA CallsKeepTokens ==
  ASSUME ExchangeInv, Seated, UNCHANGED <<tokens, reqs, cache>>,
         NEW f \in DOMAIN fetches, NEW api, NEW promise, NEW next, Moves(f, api, promise, next)
  PROVE  RequestsChain' /\ EntriesName'
<1>1. \A g \in DOMAIN fetches : fetches'[g].token = fetches[g].token
  BY DEF Moves
<1>2. EntriesName'
  <2> SUFFICES ASSUME NEW t \in Session!TokenIds, cache[t] # 0 PROVE fetches'[cache[t]].token = t
    BY DEF EntriesName, Tried
  <2>1. cache[t] \in DOMAIN fetches
    BY SessionParts DEF ExchangeInv, CallsThere
  <2> QED BY <1>1, <2>1 DEF Seated, ChainHolds, EntriesName, Tried
<1>3. \A r \in Requests : reqs[r].at = "refreshing" => fetches'[reqs[r].fetch].token = fetches[reqs[r].fetch].token
  BY <1>1 DEF ExchangeInv, RequestsThere
<1>4. RequestsChain'
  BY <1>3 DEF Seated, ChainHolds, RequestsChain, Tried, Newest, Open
<1> QED BY <1>2, <1>4

LEMMA CallHolds ==
  ASSUME ExchangeInv, SessionHolds, NEW f \in DOMAIN fetches,
         Session!Refuse(f) \/ Session!Lookup(f) \/ Session!Resolve(f) \/ Session!TimeOut(f)
  PROVE  SessionHolds'
<1>1. UNCHANGED <<active, tokens, expired, jar, reqs, cache, logout, ended>>
  BY DEF Session!Refuse, Session!Lookup, Session!Resolve, Session!TimeOut
<1> SUFFICES ASSUME timeouts' = 0, ~ended PROVE active' = TRUE /\ logout' = "none" /\ Seated'
  BY <1>1 DEF SessionHolds, Calm
<1>2. Calm /\ ~Session!TimeOut(f)
  BY DEF Calm, ExchangeInv, Session!TypeOK, Session!Refuse, Session!Lookup, Session!Resolve, Session!TimeOut
<1>3. Seated /\ active = TRUE /\ logout = "none" /\ Newest \in Nat /\ Newest \in 1 .. Newest
  BY <1>2, SessionFinds
<1>4. /\ fetches[f].token \in 1 .. Newest /\ fetches[f].promise # "null"
      /\ Tried(f) < Newest => fetches[f].api = "done" /\ fetches[f].next = Tried(f) + 1 /\ tokens[Tried(f)].revoked
      /\ Tried(f) = Newest => ~tokens[Tried(f)].revoked /\ fetches[f].api # "done" /\ fetches[f].next = 0
      /\ Tried(f) \in Nat
  BY <1>3 DEF ExchangeInv, CallsThere, Seated, ChainHolds, TokensChain, CallsChain, Tried
<1>5. CASE Session!Refuse(f)
  BY <1>3, <1>4, <1>5 DEF Session!Refuse, Tried
<1>6. CASE Session!Lookup(f)
  <2>1. Moves(f, "locked", fetches[f].promise, fetches[f].next) /\ fetches[f].api = "sent"
    BY <1>6, CallMoves DEF Session!Lookup
  <2>2. CallsChain'
    BY <1>1, <1>3, <1>4, <2>1 DEF Moves, Seated, ChainHolds, CallsChain, Tried, Newest
  <2>3. RequestsChain' /\ EntriesName'
    BY <1>1, <1>3, <2>1, CallsKeepTokens
  <2> QED BY <1>1, <1>3, <2>2, <2>3 DEF Seated, ChainHolds, TokensChain, InForce, RunOut, Replaced, Newest, Open, Session!Carries
<1>7. CASE Session!Resolve(f)
  <2>1. fetches[f].api = "done" /\ fetches[f].promise = "pending"
    BY <1>7 DEF Session!Resolve, Session!Settled
  <2>2. Tried(f) < Newest /\ fetches[f].next # 0
    BY <1>3, <1>4, <2>1 DEF Tried
  <2>3. Moves(f, fetches[f].api, "tokens", fetches[f].next)
    BY <1>7, <2>2, CallMoves
  <2>4. CallsChain'
    <3>1. SUFFICES ASSUME NEW g \in DOMAIN fetches
                   PROVE  /\ fetches'[g].promise # "null"
                          /\ Tried(g) < Newest => fetches'[g].api = "done" /\ fetches'[g].next = Tried(g) + 1
                          /\ Tried(g) = Newest => /\ g = cache[Newest] /\ fetches'[g].promise = "pending"
                                                  /\ fetches'[g].api # "done" /\ fetches'[g].next = 0
      BY <1>1, <2>3 DEF CallsChain, Moves, Tried, Newest
    <3>2. CASE g = f
      BY <1>4, <2>1, <2>2, <2>3, <3>2 DEF Moves
    <3>3. CASE g # f
      BY <1>3, <2>3, <3>3 DEF Moves, Seated, ChainHolds, CallsChain
    <3> QED BY <3>2, <3>3
  <2>5. RequestsChain' /\ EntriesName'
    BY <1>1, <1>3, <2>3, CallsKeepTokens
  <2> QED BY <1>1, <1>3, <2>4, <2>5 DEF Seated, ChainHolds, TokensChain, InForce, RunOut, Replaced, Newest, Open, Session!Carries
<1> QED BY <1>2, <1>5, <1>6, <1>7

LEMMA RotateHolds ==
  ASSUME ExchangeInv, SessionHolds, NEW f \in DOMAIN fetches, Session!Rotate(f)
  PROVE  SessionHolds'
<1> DEFINE N == Newest
<1>1. UNCHANGED <<active, expired, jar, reqs, cache, logout, ended, timeouts>> /\ fetches[f].api = "locked"
  BY DEF Session!Rotate
<1> SUFFICES ASSUME Calm PROVE active' = TRUE /\ logout' = "none" /\ Seated'
  BY <1>1 DEF SessionHolds, Calm
<1>2. Seated /\ active = TRUE /\ logout = "none" /\ N \in Session!TokenIds /\ N \in Nat /\ N \in 1 .. N
  BY SessionFinds
<1>3. /\ Tried(f) \in 1 .. N
      /\ \A s \in 1 .. N : s # Tried(f) => tokens'[s] = tokens[s]
      /\ tokens'[Tried(f)].revoked = TRUE /\ tokens'[N + 1].revoked = FALSE
      /\ Len(tokens') = N + 1 /\ N + 1 \in 1 .. MaxTokens
  BY RotateTokens DEF Tried
<1>4. Newest' = N + 1 /\ N + 1 \in Session!TokenIds
  BY <1>3 DEF Newest, Session!TokenIds
<1>5. /\ Tried(f) = N /\ f = cache[N] /\ f # 0 /\ fetches[f].promise = "pending"
      /\ \A g \in DOMAIN fetches : g # f => Tried(g) # N
  <2>1. Tried(f) = N
    BY <1>1, <1>2, <1>3 DEF Seated, ChainHolds, CallsChain
  <2>2. DOMAIN fetches = 1 .. Len(fetches)
    BY SessionParts
  <2> QED BY <2>1, <2>2, <1>2 DEF Seated, ChainHolds, CallsChain
<1>6. RunOut
  BY <1>2, <1>5 DEF Seated, InForce, Replaced
<1>7. Moves(f, "done", "pending", N + 1)
  BY <1>5, CallMoves
<1>8. cache[N + 1] = 0
  <2>1. cache[N + 1] # 0 => cache[N + 1] \in DOMAIN fetches
    BY <1>4, SessionParts DEF ExchangeInv, CallsThere
  <2>2. cache[N + 1] # 0 => Tried(cache[N + 1]) = N + 1
    BY <1>2, <1>4 DEF Seated, ChainHolds, EntriesName
  <2> QED BY <1>2, <2>1, <2>2 DEF ExchangeInv, CallsThere, Tried
<1> HIDE DEF N
<1>9. Replaced'
  BY <1>1, <1>2, <1>4, <1>5, <1>6, <1>8 DEF Replaced, RunOut, ExchangeInv, CookiesThere, N, Open
<1>10. TokensChain'
  BY <1>2, <1>3, <1>4, <1>5 DEF Seated, ChainHolds, TokensChain, N
<1>11. EntriesName'
  <2> SUFFICES ASSUME NEW t \in Session!TokenIds, cache[t] # 0 PROVE fetches'[cache[t]].token = t
    BY <1>1 DEF EntriesName, Tried
  <2>1. cache[t] \in DOMAIN fetches
    BY SessionParts DEF ExchangeInv, CallsThere
  <2> QED BY <1>2, <1>7, <2>1 DEF Seated, ChainHolds, EntriesName, Tried, Moves
<1>12. CallsChain'
  <2> SUFFICES ASSUME NEW g \in DOMAIN fetches
               PROVE  /\ Tried(g) \in 1 .. N /\ fetches'[g].promise # "null"
                      /\ fetches'[g].api = "done" /\ fetches'[g].next = Tried(g) + 1
    BY <1>2, <1>4, <1>7 DEF CallsChain, Tried, Moves
  <2>1. Tried(g) \in 1 .. N
    BY DEF ExchangeInv, CallsThere, Tried, N
  <2>2. CASE g = f
    BY <1>5, <1>7, <2>1, <2>2 DEF Moves
  <2>3. CASE g # f
    <3>1. fetches'[g] = fetches[g] /\ Tried(g) < N
      BY <1>2, <1>5, <1>7, <2>1, <2>3 DEF Moves
    <3> QED BY <1>2, <2>1, <3>1 DEF Seated, ChainHolds, CallsChain, N
  <2> QED BY <2>2, <2>3
<1>13. RequestsChain'
  <2>1. \A r \in Requests : reqs[r].at = "refreshing" => fetches'[reqs[r].fetch].token = fetches[reqs[r].fetch].token
    BY <1>7 DEF ExchangeInv, RequestsThere, Moves
  <2>2. \A r \in Requests : Open(r) => reqs[r].got = 0
    BY <1>2, <1>6 DEF Seated, ChainHolds, RequestsChain, RunOut, N
  <2> QED BY <1>1, <1>2, <2>1, <2>2 DEF Seated, ChainHolds, RequestsChain, Tried, Open
<1> QED BY <1>1, <1>2, <1>4, <1>9, <1>10, <1>11, <1>12, <1>13 DEF Seated, ChainHolds

LEMMA ForgetHolds ==
  ASSUME ExchangeInv, SessionHolds, NEW t \in Session!TokenIds, Session!Forget(t)
  PROVE  SessionHolds'
<1>1. /\ UNCHANGED <<active, tokens, expired, jar, reqs, fetches, logout, ended>>
      /\ cache[t] # 0 /\ fetches[cache[t]].promise # "pending"
      /\ cache' = [cache EXCEPT ![t] = 0]
      /\ timeouts' \in {timeouts, timeouts + 1}
      /\ \/ timeouts' = timeouts + 1
         \/ /\ fetches[cache[t]].promise = "tokens" => jar.refresh # t /\ \A r \in Requests : ~Session!Carries(r, t)
  BY DEF Session!Forget, Session!None, Session!Settled
<1> SUFFICES ASSUME timeouts' = 0, ~ended PROVE active' = TRUE /\ logout' = "none" /\ Seated'
  BY <1>1 DEF SessionHolds, Calm
<1>2. Calm /\ timeouts' # timeouts + 1
  BY <1>1 DEF Calm, ExchangeInv, Session!TypeOK
<1>3. Seated /\ active = TRUE /\ logout = "none" /\ Newest \in Session!TokenIds /\ Newest \in Nat
  BY <1>1, <1>2, SessionFinds
<1>4. cache[t] \in DOMAIN fetches /\ fetches[cache[t]] \in CallRow /\ Tried(cache[t]) = t /\ t \in 1 .. Newest
  <2>1. cache[t] \in DOMAIN fetches
    BY <1>1, SessionParts DEF ExchangeInv, CallsThere
  <2>2. Tried(cache[t]) = t
    BY <1>1, <1>3 DEF Seated, ChainHolds, EntriesName
  <2> QED BY <2>1, <2>2, SessionParts DEF Tried, ExchangeInv, CallsThere
<1>5. t # Newest /\ jar.refresh # t /\ \A r \in Requests : ~Session!Carries(r, t)
  <2>1. fetches[cache[t]].promise = "tokens" /\ t # Newest
    BY <1>1, <1>3, <1>4 DEF CallRow, Seated, ChainHolds, CallsChain
  <2> QED BY <1>1, <1>2, <2>1
<1>6. cache'[Newest] = cache[Newest] /\ cache'[t] = 0 /\ \A u \in Session!TokenIds : u # t => cache'[u] = cache[u]
  BY <1>1, <1>3, <1>5, SessionParts
<1>7. ChainHolds'
  BY <1>1, <1>3, <1>6 DEF Seated, ChainHolds, TokensChain, EntriesName, CallsChain, RequestsChain, Tried, Newest, Open
<1>8. CASE InForce
  <2>1. ASSUME NEW r \in Requests, Open(r), Session!Carries(r, Newest - 1) PROVE cache'[Newest - 1] # 0
    <3>1. Newest - 1 # t /\ cache[Newest - 1] # 0 /\ reqs[r].refresh = Newest - 1
      BY <1>5, <1>8, <2>1 DEF InForce, Session!Carries
    <3>2. Newest - 1 \in Session!TokenIds
      BY <1>3, <2>1, <3>1, RequestParts
    <3> QED BY <1>6, <3>1, <3>2
  <2>2. InForce'
    BY <1>1, <1>6, <1>8, <2>1 DEF InForce, Newest, Open, Session!Carries
  <2> QED BY <1>1, <1>3, <1>7, <2>2 DEF Seated, Newest
<1>9. CASE RunOut
  <2>1. RunOut'
    BY <1>1, <1>6, <1>9 DEF RunOut, Newest, Open
  <2> QED BY <1>1, <1>3, <1>7, <2>1 DEF Seated, Newest
<1>10. CASE Replaced
  <2>1. Newest - 1 \in Session!TokenIds /\ Newest - 1 # t
    BY <1>3, <1>5, <1>10, ConsoleAssumptions DEF Replaced, Session!TokenIds, Session!BoundsAreNatural
  <2>2. Replaced'
    BY <1>1, <1>6, <1>10, <2>1 DEF Replaced, Newest, Open
  <2> QED BY <1>1, <1>3, <1>7, <2>2 DEF Seated, Newest
<1> QED BY <1>3, <1>8, <1>9, <1>10 DEF Seated

LEMMA SendHolds ==
  ASSUME ExchangeInv, SessionHolds, NEW r \in Requests, Session!Send(r)
  PROVE  SessionHolds'
<1>1. UNCHANGED <<active, tokens, expired, jar, fetches, cache, logout, ended, timeouts>>
  BY DEF Session!Send
<1> SUFFICES ASSUME Calm PROVE active' = TRUE /\ logout' = "none" /\ Seated'
  BY <1>1 DEF SessionHolds, Calm
<1>2. Takes(r, "sent", jar.access, jar.refresh, 0, 0, 0) /\ jar.refresh # 0 /\ ~Open(r)
  BY SendIs DEF Open
<1>3. Seated /\ active = TRUE /\ logout = "none" /\ Newest \in Nat
  BY <1>2, SessionFinds DEF NotYet
<1>4. reqs[r].at # "refreshing" /\ reqs[r].got = 0
  BY <1>2 DEF ExchangeInv, RequestsThere, Session!Quiet, Session!None
<1>5. RequestsChain'
  <2>1. jar.access \in {0, jar.refresh}
    BY <1>3 DEF Seated, InForce, RunOut, Replaced
  <2> QED BY <1>1, <1>2, <1>3, <2>1 DEF Seated, ChainHolds, RequestsChain, Takes, Tried, Newest, Open
<1>6. ChainHolds'
  BY <1>1, <1>3, <1>5 DEF Seated, ChainHolds, TokensChain, EntriesName, CallsChain, Tried, Newest
<1>7. InForce => InForce'
  BY <1>1, <1>2, <1>3 DEF InForce, Takes, Newest, Open, Session!Carries
<1>8. RunOut => RunOut'
  BY <1>1, <1>2, <1>4 DEF RunOut, Takes, Newest, Open
<1>9. Replaced => Replaced'
  BY <1>1, <1>2, <1>4 DEF Replaced, Takes, Newest, Open
<1> QED BY <1>1, <1>3, <1>6, <1>7, <1>8, <1>9 DEF Seated, Newest

LEMMA AnswerHolds ==
  ASSUME ExchangeInv, SessionHolds, NEW r \in Requests, Session!Answer(r)
  PROVE  SessionHolds'
<1>1. /\ UNCHANGED <<active, tokens, expired, fetches, cache, logout, ended, timeouts>>
      /\ reqs[r].at = "answered"
      /\ jar' = IF reqs[r].code = 401 THEN Session!Empty
                ELSE IF reqs[r].got # 0 THEN [access |-> reqs[r].got, refresh |-> reqs[r].got] ELSE jar
      /\ reqs' = [reqs EXCEPT ![r] = Session!Quiet]
  BY DEF Session!Answer, Session!None
<1> SUFFICES ASSUME Calm PROVE active' = TRUE /\ logout' = "none" /\ Seated'
  BY <1>1 DEF SessionHolds, Calm
<1>2. Seated /\ active = TRUE /\ logout = "none" /\ Newest \in Nat /\ Open(r)
  BY <1>1, SessionFinds DEF NotYet, Open
<1>3. /\ \A p \in Requests : p # r => reqs'[p] = reqs[p]
      /\ reqs'[r].at = "idle" /\ reqs'[r].got = 0
  BY <1>1, SessionParts DEF Session!Quiet, Session!None
<1>4. ChainHolds'
  BY <1>1, <1>2, <1>3 DEF Seated, ChainHolds, TokensChain, EntriesName, CallsChain, RequestsChain, Tried, Newest, Open
<1>5. reqs[r].code # 401
  BY <1>2 DEF Seated, ChainHolds, RequestsChain
<1>6. CASE reqs[r].got = 0
  <2>1. jar' = jar
    BY <1>1, <1>5, <1>6
  <2>2. InForce => InForce'
    BY <1>1, <1>3, <2>1 DEF InForce, Newest, Open, Session!Carries
  <2>3. RunOut => RunOut'
    BY <1>1, <1>3, <2>1 DEF RunOut, Newest, Open
  <2>4. Replaced => Replaced'
    BY <1>1, <1>3, <1>6, <2>1 DEF Replaced, Newest, Open
  <2> QED BY <1>1, <1>2, <1>4, <2>2, <2>3, <2>4 DEF Seated, Newest
<1>7. CASE reqs[r].got # 0
  <2>1. reqs[r].got = Newest /\ reqs[r].refresh = Newest - 1
    BY <1>2, <1>7 DEF Seated, ChainHolds, RequestsChain
  <2>2. jar'.access = Newest /\ jar'.refresh = Newest
    BY <1>1, <1>5, <1>7, <2>1
  <2>3. ~RunOut
    BY <1>2, <2>1 DEF RunOut
  <2>4. InForce \/ Replaced => InForce'
    BY <1>1, <1>2, <1>3, <2>2 DEF InForce, Replaced, Newest, Open, Session!Carries
  <2> QED BY <1>1, <1>2, <1>4, <2>3, <2>4 DEF Seated, Newest
<1> QED BY <1>6, <1>7

LEMMA ExpiryHolds ==
  ASSUME ExchangeInv, SessionHolds, Session!AccessExpires
  PROVE  SessionHolds'
<1>1. /\ UNCHANGED <<active, tokens, reqs, fetches, cache, logout, ended, timeouts>>
      /\ jar.access # 0 /\ (\A r \in Requests : ~Session!IsOlder(r))
      /\ jar' = [jar EXCEPT !.access = 0]
  BY DEF Session!AccessExpires, Session!None
<1> SUFFICES ASSUME Calm PROVE active' = TRUE /\ logout' = "none" /\ Seated'
  BY <1>1 DEF SessionHolds, Calm
<1>2. Seated /\ InForce /\ active = TRUE /\ logout = "none" /\ Newest \in Nat
  BY <1>1, SessionFinds DEF NotYet, Seated, RunOut, Replaced
<1>3. jar \in [access : 0 .. MaxTokens, refresh : 0 .. MaxTokens] /\ 0 \in 0 .. MaxTokens
  BY ConsoleAssumptions DEF ExchangeInv, Session!TypeOK, Session!BoundsAreNatural
<1>4. jar'.access = 0 /\ jar'.refresh = Newest
  BY <1>1, <1>2, <1>3 DEF InForce
<1>5. \A r \in Requests : Open(r) => reqs[r].access = Newest /\ reqs[r].got = 0
  BY <1>1, <1>2 DEF InForce, Session!IsOlder, Session!None, Open
<1>6. \A r \in Requests : Open(r) => reqs[r].refresh = Newest
  BY <1>2, <1>5 DEF Seated, ChainHolds, RequestsChain
<1>7. RunOut'
  BY <1>1, <1>2, <1>4, <1>6 DEF RunOut, InForce, Newest, Open
<1>8. ChainHolds'
  BY <1>1, <1>2 DEF Seated, ChainHolds, TokensChain, EntriesName, CallsChain, RequestsChain, Tried, Newest, Open
<1> QED BY <1>1, <1>2, <1>7, <1>8 DEF Seated, Newest

(* Who misses the access token joins the call for its refresh token, or    *)
(* makes the one call for the newest.                                      *)
LEMMA JoinHolds ==
  ASSUME ExchangeInv, Seated, Newest \in Session!TokenIds, UNCHANGED <<tokens, expired, jar>>,
         NEW r \in Requests, reqs[r].at \in {"sent", "invoke"}, reqs[r].got = 0, Session!JoinRefresh(r),
         InForce => reqs[r].refresh # Newest
  PROVE  Seated'
<1> DEFINE k == reqs[r]
<1>1. Open(r) /\ k.refresh \in 1 .. Newest /\ k.refresh \in Session!TokenIds /\ Newest \in Nat
  BY RequestParts DEF Open
<1>2. PICK f \in 1 .. MaxFetches :
        /\ Takes(r, "refreshing", k.access, k.refresh, k.got, f, k.code)
        /\ \/ f = cache[k.refresh] /\ f \in DOMAIN fetches /\ UNCHANGED <<fetches, cache>>
           \/ cache[k.refresh] = 0 /\ f = Len(fetches) + 1 /\ Begins(k.refresh)
  BY <1>1, JoinIs
<1>3. CASE f = cache[k.refresh] /\ f \in DOMAIN fetches /\ UNCHANGED <<fetches, cache>>
  <2>1. Tried(f) = k.refresh
    BY <1>1, <1>2, <1>3 DEF Seated, ChainHolds, EntriesName
  <2>2. RequestsChain'
    BY <1>1, <1>2, <1>3, <2>1 DEF Seated, ChainHolds, RequestsChain, Takes, Tried, Newest, Open
  <2>3. ChainHolds'
    BY <1>3, <2>2 DEF Seated, ChainHolds, TokensChain, EntriesName, CallsChain, Tried, Newest
  <2>4. InForce => InForce'
    BY <1>1, <1>2, <1>3 DEF InForce, Takes, Newest, Open, Session!Carries
  <2>5. RunOut => RunOut'
    BY <1>1, <1>2, <1>3 DEF RunOut, Takes, Newest, Open
  <2>6. Replaced => Replaced'
    BY <1>1, <1>2, <1>3 DEF Replaced, Takes, Newest, Open
  <2> QED BY <2>3, <2>4, <2>5, <2>6 DEF Seated, Newest
<1>4. CASE cache[k.refresh] = 0 /\ f = Len(fetches) + 1 /\ Begins(k.refresh)
  <2>1. RunOut /\ k.refresh = Newest
    BY <1>1, <1>4 DEF Seated, InForce, RunOut, Replaced, Session!Carries, Session!None
  <2>2. /\ DOMAIN fetches = 1 .. Len(fetches) /\ DOMAIN fetches' = 1 .. f /\ f \in Nat
        /\ \A g \in DOMAIN fetches : fetches'[g] = fetches[g]
        /\ fetches'[f].token = Newest /\ fetches'[f].api = "sent" /\ fetches'[f].promise = "pending"
        /\ fetches'[f].next = 0
        /\ cache'[Newest] = f /\ \A u \in Session!TokenIds : u # Newest => cache'[u] = cache[u]
    BY <1>4, <2>1, SessionParts DEF Begins
  <2>3. cache[Newest] = 0
    BY <1>4, <2>1
  <2>4. EntriesName'
    <3> SUFFICES ASSUME NEW t \in Session!TokenIds, cache'[t] # 0 PROVE fetches'[cache'[t]].token = t
      BY DEF EntriesName, Tried
    <3>1. CASE t = Newest
      BY <2>2, <3>1
    <3>2. CASE t # Newest
      <4>1. cache'[t] = cache[t] /\ cache[t] \in DOMAIN fetches
        BY <2>2, <3>2, SessionParts DEF ExchangeInv, CallsThere
      <4> QED BY <2>2, <4>1 DEF Seated, ChainHolds, EntriesName, Tried
    <3> QED BY <3>1, <3>2
  <2>5. CallsChain'
    <3> SUFFICES ASSUME NEW g \in DOMAIN fetches'
                 PROVE  /\ fetches'[g].promise # "null"
                        /\ fetches'[g].token < Newest => fetches'[g].api = "done" /\ fetches'[g].next = fetches'[g].token + 1
                        /\ fetches'[g].token = Newest => /\ g = cache'[Newest] /\ fetches'[g].promise = "pending"
                                                         /\ fetches'[g].api # "done" /\ fetches'[g].next = 0
      BY DEF CallsChain, Tried, Newest
    <3>1. CASE g = f
      BY <1>1, <2>2, <3>1
    <3>2. CASE g # f
      <4>1. g \in DOMAIN fetches /\ fetches'[g] = fetches[g] /\ g # 0
        BY <1>4, <2>2, <3>2
      <4>2. fetches[g].token # Newest
        BY <2>3, <4>1 DEF Seated, ChainHolds, CallsChain, Tried
      <4> QED BY <4>1, <4>2 DEF Seated, ChainHolds, CallsChain, Tried
    <3> QED BY <3>1, <3>2
  <2>6. RequestsChain'
    <3>1. \A p \in Requests : reqs[p].at = "refreshing" => fetches'[reqs[p].fetch] = fetches[reqs[p].fetch]
      BY <2>2 DEF ExchangeInv, RequestsThere
    <3> QED BY <1>1, <1>2, <2>1, <2>2, <3>1 DEF Seated, ChainHolds, RequestsChain, Takes, Tried, Newest, Open
  <2>7. RunOut'
    BY <1>1, <1>2, <2>1 DEF RunOut, Takes, Newest, Open
  <2> QED BY <2>4, <2>5, <2>6, <2>7 DEF Seated, ChainHolds, TokensChain, Newest
<1> QED BY <1>2, <1>3, <1>4

LEMMA GoesOnHolds ==
  ASSUME ExchangeInv, SessionHolds, NEW r \in Requests,
         Session!Enter(r) \/ Session!Invoke(r) \/ Session!Refreshed(r)
  PROVE  SessionHolds'
<1> DEFINE k == reqs[r]
<1>1. UNCHANGED <<active, tokens, expired, jar, logout, ended, timeouts>>
  BY DEF Session!Enter, Session!Invoke, Session!Refreshed
<1> SUFFICES ASSUME Calm PROVE active' = TRUE /\ logout' = "none" /\ Seated'
  BY <1>1 DEF SessionHolds, Calm
<1>2. Open(r)
  BY GoesOn DEF Open
<1>3. Seated /\ active = TRUE /\ logout = "none" /\ Newest \in Nat /\ Newest \in Session!TokenIds /\ Newest # 0
  BY <1>2, SessionFinds DEF NotYet, Seated
<1>4. k \in RequestRow /\ k.refresh \in 1 .. Newest /\ 0 \notin expired
  BY <1>2, RequestParts DEF ExchangeInv, CookiesThere
<1>5. /\ k.code # 401
      /\ k.got = 0 => k.access \in {0, k.refresh}
      /\ k.got # 0 => k.got = Newest /\ k.access = Newest /\ k.refresh = Newest - 1 /\ k.at \in {"invoke", "answered"}
      /\ k.at = "refreshing" => Tried(k.fetch) = k.refresh
  BY <1>2, <1>3 DEF Seated, ChainHolds, RequestsChain
\* The request takes its answer, or goes on with the token it has.
<1>6. ASSUME NEW at \in {"invoke", "answered"}, NEW access, NEW got, NEW code, code # 401,
             Takes(r, at, access, k.refresh, got, k.fetch, code), UNCHANGED <<fetches, cache>>,
             \/ access = k.access /\ got = k.got /\ (at = "invoke" => k.at = "sent") /\ k.at # "refreshing"
             \/ access = Newest /\ got = Newest /\ k.refresh = Newest - 1
      PROVE  Seated'
  <2>1. RequestsChain'
    BY <1>1, <1>3, <1>5, <1>6 DEF Seated, ChainHolds, RequestsChain, Takes, Tried, Newest, Open
  <2>2. ChainHolds'
    BY <1>1, <1>3, <1>6, <2>1 DEF Seated, ChainHolds, TokensChain, EntriesName, CallsChain, Tried, Newest
  <2>3. InForce => InForce'
    BY <1>1, <1>2, <1>3, <1>6 DEF InForce, Takes, Newest, Open, Session!Carries, Session!None
  <2>4. RunOut => RunOut'
    BY <1>1, <1>2, <1>3, <1>6 DEF RunOut, Takes, Newest, Open
  <2>5. Replaced => Replaced'
    BY <1>1, <1>2, <1>3, <1>6 DEF Replaced, Takes, Newest, Open
  <2> QED BY <1>1, <1>3, <2>2, <2>3, <2>4, <2>5 DEF Seated, Newest
<1>7. CASE Session!JoinRefresh(r) /\ k.got = 0 /\ (Session!Enter(r) \/ Session!Invoke(r)) /\ (k.access = 0 \/ k.access \in expired)
  <2>1. k.at \in {"sent", "invoke"}
    BY <1>7, GoesOn
  <2>2. InForce => k.refresh # Newest
    BY <1>2, <1>3, <1>7 DEF InForce
  <2> QED BY <1>1, <1>3, <1>7, <2>1, <2>2, JoinHolds
<1>8. CASE Session!Enter(r)
  <2>1. k.at = "sent" /\ k.got = 0
    BY <1>5, <1>8, GoesOn
  <2>2. CASE Session!JoinRefresh(r) /\ k.access = 0
    BY <1>7, <1>8, <2>1, <2>2
  <2>3. CASE Takes(r, "invoke", k.access, k.refresh, k.got, k.fetch, k.code) /\ UNCHANGED <<fetches, cache>>
    <3>1. Seated'
      BY <1>5, <1>6, <2>1, <2>3
    <3> QED BY <1>1, <1>3, <3>1
  <2> QED BY <1>8, <2>2, <2>3, GoesOn
<1>9. CASE Session!Invoke(r)
  <2>1. k.at = "invoke"
    BY <1>9, GoesOn
  <2>2. CASE k.access \notin expired
    <3>1. Takes(r, "answered", k.access, k.refresh, k.got, k.fetch, 200) /\ UNCHANGED <<fetches, cache>>
      BY <1>3, <1>9, <2>2, GoesOn
    <3>2. Seated'
      BY <1>6, <2>1, <3>1
    <3> QED BY <1>1, <1>3, <3>2
  <2>3. CASE k.access \in expired
    <3>1. k.got = 0
      BY <1>2, <1>3, <1>5, <2>3 DEF Seated, InForce, RunOut, Replaced
    <3>2. Session!JoinRefresh(r)
      BY <1>3, <1>9, <2>3, <3>1, GoesOn
    <3> QED BY <1>7, <1>9, <2>3, <3>1, <3>2
  <2> QED BY <2>2, <2>3
<1>10. CASE Session!Refreshed(r)
  <2> DEFINE next == fetches[k.fetch].next
  <2>1. k.at = "refreshing" /\ k.fetch \in DOMAIN fetches /\ fetches[k.fetch].promise # "pending"
    BY <1>10, GoesOn
  <2>2. fetches[k.fetch] \in CallRow /\ Tried(k.fetch) = k.refresh
    BY <1>5, <2>1, SessionParts
  <2>3. fetches[k.fetch].promise = "tokens" /\ k.refresh < Newest /\ next = k.refresh + 1
    BY <1>3, <1>4, <2>1, <2>2 DEF CallRow, Seated, ChainHolds, CallsChain
  <2>4. k.refresh = Newest - 1 /\ next = Newest
    BY <1>2, <1>3, <1>4, <2>3 DEF Seated, InForce, RunOut, Replaced
  <2>5. Takes(r, "invoke", next, k.refresh, next, k.fetch, k.code) /\ UNCHANGED <<fetches, cache>>
    BY <1>10, <2>3, GoesOn
  <2>6. Seated'
    BY <1>5, <1>6, <2>4, <2>5
  <2> QED BY <1>1, <1>3, <2>6
<1> QED BY <1>8, <1>9, <1>10

(* The session is closed.                                                  *)
LEMMA ClosingHolds ==
  ASSUME ExchangeInv, SessionHolds, Session!Deactivate \/ Session!Logout \/ Session!LogoutAnswer
  PROVE  SessionHolds'
<1>1. UNCHANGED timeouts /\ (ended' = TRUE \/ (logout = "sent" /\ UNCHANGED ended))
  BY DEF Session!Deactivate, Session!Logout, Session!LogoutAnswer
<1> QED BY <1>1 DEF SessionHolds, Calm

LEMMA StandsStill ==
  ASSUME SessionInv, UNCHANGED <<active, tokens, expired, jar, reqs, fetches, cache, logout, ended, timeouts>>
  PROVE  SessionInv'
<1>1. ExchangeInv'
  BY DEF SessionInv, ExchangeInv, Session!TypeOK, CookiesThere, RequestsThere, CallsThere, LockIsGood,
         Session!ExchangedOnce, Newest, Open
<1>2. SessionHolds'
  <2>1. NotYet' = NotYet
    BY DEF NotYet, Open
  <2>2. ChainHolds' = ChainHolds
    BY DEF ChainHolds, TokensChain, EntriesName, CallsChain, RequestsChain, Newest, Open, Tried
  <2>3. InForce' = InForce
    BY DEF InForce, Newest, Open, Session!Carries
  <2>4. RunOut' = RunOut /\ Replaced' = Replaced
    BY DEF RunOut, Replaced, Newest, Open
  <2> QED BY <2>1, <2>2, <2>3, <2>4 DEF SessionInv, SessionHolds, Calm, Seated, Newest
<1> QED BY <1>1, <1>2 DEF SessionInv

LEMMA SessionStarts == Session!Init => SessionInv
<1> SUFFICES ASSUME Session!Init PROVE SessionInv
  OBVIOUS
<1> USE DEF Session!Init, Session!Empty, Session!Quiet, Session!None
<1>1. 0 \in 0 .. MaxTokens /\ 0 \in 0 .. MaxFetches /\ 0 \in 0 .. MaxTimeouts /\ MaxTokens \in Nat /\ MaxFetches \in Nat
  BY ConsoleAssumptions DEF Session!BoundsAreNatural
<1>2. Session!Quiet \in RequestRow
  BY <1>1 DEF RequestRow
<1>3. reqs \in [Requests -> RequestRow] /\ cache \in [Session!TokenIds -> 0 .. MaxFetches]
  BY <1>1, <1>2
<1>4. Session!TypeOK
  <2>1. tokens \in Seq(TokenRow) /\ Len(tokens) <= MaxTokens /\ fetches \in Seq(CallRow)
    BY <1>1
  <2>2. jar \in [access : 0 .. MaxTokens, refresh : 0 .. MaxTokens]
    BY <1>1
  <2>3. /\ {active, ended} \subseteq BOOLEAN /\ expired \subseteq Session!TokenIds
        /\ logout \in {"none", "sent", "answered"} /\ timeouts \in 0 .. MaxTimeouts
    BY <1>1
  <2> HIDE DEF Session!Init
  <2> QED BY <1>3, <2>1, <2>2, <2>3 DEF Session!TypeOK, RequestRow, TokenRow, CallRow
<1>5. Newest = 0 /\ DOMAIN fetches = {} /\ DOMAIN tokens = {} /\ Len(fetches) = 0
  BY DEF Newest
<1>6. CookiesThere /\ RequestsThere /\ CallsThere /\ LockIsGood /\ Session!ExchangedOnce
  BY <1>1, <1>5 DEF CookiesThere, RequestsThere, CallsThere, LockIsGood, Session!ExchangedOnce, Open
<1>7. NotYet
  BY DEF NotYet, Open
<1> QED BY <1>4, <1>6, <1>7 DEF SessionInv, ExchangeInv, SessionHolds

LEMMA SessionSteps ==
  ASSUME SessionInv, Session!Next
  PROVE  SessionInv'
<1> USE DEF SessionInv
<1>1. CASE Session!Login
  BY <1>1, LoginExchange, LoginHolds
<1>2. CASE Session!Deactivate \/ Session!Logout \/ Session!LogoutAnswer
  BY <1>2, AloneExchange, LogoutExchange, ClosingHolds
<1>3. CASE Session!AccessExpires
  BY <1>3, AloneExchange, ExpiryHolds
<1>4. ASSUME NEW f \in DOMAIN fetches, Session!Rotate(f) PROVE SessionInv'
  BY <1>4, RotateExchange, RotateHolds
<1>5. ASSUME NEW f \in DOMAIN fetches,
             Session!Refuse(f) \/ Session!Lookup(f) \/ Session!Resolve(f) \/ Session!TimeOut(f)
      PROVE  SessionInv'
  BY <1>5, MovesExchange, CallHolds
<1>6. ASSUME NEW t \in Session!TokenIds, Session!Forget(t) PROVE SessionInv'
  BY <1>6, ForgetExchange, ForgetHolds
<1>7. ASSUME NEW r \in Requests, Session!Send(r) PROVE SessionInv'
  BY <1>7, SendExchange, SendHolds
<1>8. ASSUME NEW r \in Requests, Session!Enter(r) \/ Session!Invoke(r) \/ Session!Refreshed(r) PROVE SessionInv'
  BY <1>8, GoesOnExchange, GoesOnHolds
<1>9. ASSUME NEW r \in Requests, Session!Answer(r) PROVE SessionInv'
  BY <1>9, AnswerExchange, AnswerHolds
<1> HIDE DEF SessionInv
<1> QED BY <1>1, <1>2, <1>3, <1>4, <1>5, <1>6, <1>7, <1>8, <1>9 DEF Session!Next

LEMMA SessionInvShows == SessionInv => Session!ExchangedOnce /\ Session!PageStaysSignedIn
<1> SUFFICES ASSUME SessionInv, timeouts = 0, ~ended
             PROVE  /\ \A r \in Requests : reqs[r].code # 401
                    /\ tokens # <<>> /\ (\A r \in Requests : reqs[r] = Session!Quiet) =>
                         jar.refresh # 0 /\ ~tokens[jar.refresh].revoked
  BY DEF SessionInv, ExchangeInv, Session!PageStaysSignedIn, Session!None
<1>1. (NotYet \/ Seated) /\ Newest \in Nat
  BY SessionFinds DEF SessionInv, Calm
<1>2. \A r \in Requests : reqs[r].code # 401
  BY <1>1 DEF NotYet, Seated, ChainHolds, RequestsChain, SessionInv, ExchangeInv, RequestsThere, Session!Quiet
<1>3. ASSUME tokens # <<>>, \A r \in Requests : reqs[r] = Session!Quiet
      PROVE  jar.refresh # 0 /\ ~tokens[jar.refresh].revoked
  <2>1. Seated
    BY <1>1, <1>3 DEF NotYet
  <2>2. ~Replaced
    BY <1>3 DEF Replaced, Session!Quiet, Session!None
  <2>3. jar.refresh = Newest /\ Newest \in 1 .. Newest
    BY <1>1, <2>1, <2>2 DEF Seated, InForce, RunOut
  <2> QED BY <1>1, <2>1, <2>3 DEF Seated, ChainHolds, TokensChain
<1> QED BY <1>2, <1>3
-----------------------------------------------------------------------------
LEMMA SessionAlways == ConsoleSpec => []SessionInv
<1>1. ConsoleInit => SessionInv
  BY SessionStarts DEF ConsoleInit
<1>2. SessionInv /\ [ConsoleNext]_<<area, vars, sessionVars, chatVars, taskVars>> => SessionInv'
  <2>1. SessionInv /\ UNCHANGED sessionVars => SessionInv'
    BY StandsStill DEF sessionVars
  <2> QED BY <2>1, SessionSteps DEF ConsoleNext
<1> QED BY <1>1, <1>2, PTL DEF ConsoleSpec

(* auth/service.py, refresh: the row lock makes an exchange of a refresh   *)
(* token exclusive, and the token that was exchanged is revoked.           *)
THEOREM TokensExchangedOnce == ConsoleSpec => []ExchangedOnce
<1>1. SessionInv => ExchangedOnce
  BY DEF SessionInv, ExchangeInv, ExchangedOnce
<1> QED BY <1>1, SessionAlways, PTL

(* route.ts, refreshes: the requests of a page that find the access token  *)
(* gone share one exchange, so none of them is answered 401 and the page   *)
(* ends with the token in force.                                           *)
THEOREM PageSignedIn == ConsoleSpec => []PageStaysSignedIn
<1>1. SessionInv => PageStaysSignedIn
  BY SessionInvShows DEF PageStaysSignedIn
<1> QED BY <1>1, SessionAlways, PTL

(***************************************************************************)
(* One chat of the operator assistant (OperatorChat).                      *)
(***************************************************************************)
TabRow == [at : {"idle", "turn", "messages", "workflows"}, call : 0 .. MaxPosts,
           pending : 0 .. MaxPosts, composer : 0 .. MaxMessages]
Turns == [attempt : 1 .. MaxPosts, targets : 0 .. 2, did : Chat!Effects]
CardRow == {Chat!NoCard} \cup [kind : Chat!Kinds, status : {"awaiting_input", "ready"}]
ChatTypes ==
  /\ written \in Seq(Texts) /\ Len(written) <= MaxMessages
  /\ attempts \in Seq(Nat) /\ \A i \in 1 .. Len(attempts) : attempts[i] \in 1 .. Len(written)
  /\ Len(attempts) <= tab.call
  /\ tab \in TabRow /\ tab.pending <= Len(attempts) /\ tab.composer <= Len(written)
  /\ posts \subseteq [attempt : 1 .. MaxPosts, call : 1 .. MaxPosts]
  /\ answers \subseteq [call : 1 .. MaxPosts, code : {200, 401, 409, 503}]
  /\ turns \in Seq(Turns) /\ \A t \in 1 .. Len(turns) : turns[t].attempt <= Len(attempts)
  /\ front \in CardRow /\ preview \in BOOLEAN
  /\ faults \in 0 .. MaxFaults /\ denied \in 0 .. faults

(* The tab waits for the answer to its latest call, which is of the        *)
(* attempt that is pending, and nothing else is in the composer.           *)
TabWaits ==
  /\ tab.at # "idle" => tab.pending # 0
  /\ tab.pending # 0 => tab.composer = 0
CallsAreNumbered ==
  /\ \A c \in posts : c.call <= tab.call /\ c.attempt <= Len(attempts)
  /\ \A c, d \in posts : c.call = d.call => c = d
  /\ \A c \in posts : c.call = tab.call => tab.pending # 0 /\ c.attempt = tab.pending

(* A call is served once, and after all the calls before it.               *)
AnswersAreLast ==
  /\ \A a \in answers : a.call <= tab.call
  /\ \A a \in answers : a.call = tab.call =>
        /\ posts = {} /\ tab.pending # 0
        /\ a.code = 200 => Chat!IsKnown(tab.pending)
        /\ \A b \in answers : b.call = tab.call => b = a
RecordedWhenRead ==
  tab.at \in {"messages", "workflows"} =>
    Chat!IsKnown(tab.pending) /\ posts = {} /\ \A a \in answers : a.call # tab.call

(* While nobody was signed out, what is served later is of the attempt     *)
(* pending, and no turn has the message of the composer, or of the attempt *)
(* pending but its own.                                                    *)
OneAttemptOpen ==
  denied = 0 =>
    /\ \A c \in posts : tab.pending # 0 /\ c.attempt = tab.pending
    /\ \A a \in answers : a.call = tab.call /\ a.code # 200 => ~Chat!IsKnown(tab.pending)
    /\ tab.composer # 0 => \A t \in 1 .. Len(turns) : attempts[turns[t].attempt] # tab.composer
    /\ tab.pending # 0 => \A t \in 1 .. Len(turns) :
                             attempts[turns[t].attempt] = attempts[tab.pending] => turns[t].attempt = tab.pending
    /\ \A s, t \in 1 .. Len(turns) : attempts[turns[s].attempt] = attempts[turns[t].attempt] => s = t
Kept ==
  \A n \in 1 .. Len(written) :
    \/ \E t \in 1 .. Len(turns) : attempts[turns[t].attempt] = n
    \/ tab.composer = n
    \/ tab.pending # 0 /\ attempts[tab.pending] = n

(* What a turn applied stands in its message, and one thing was open.      *)
Spoken(text, turn) ==
  turn.did \in {"completed", "confirmed"} =>
    /\ text.words \in {"send", "save", "approve"} /\ ~text.negated
    /\ text.bare => turn.targets = 1
AllSpoken == \A t \in 1 .. Len(turns) : Spoken(written[attempts[turns[t].attempt]], turns[t])

ChatInv ==
  /\ ChatTypes /\ TabWaits /\ CallsAreNumbered /\ AnswersAreLast /\ RecordedWhenRead
  /\ OneAttemptOpen /\ Kept /\ AllSpoken
-----------------------------------------------------------------------------
LEMMA ChatBounds == {MaxMessages, MaxPosts, MaxFaults} \subseteq Nat
BY ConsoleAssumptions DEF Chat!BoundsAreNatural

(* What the server may read: a message, with the mark of its button or     *)
(* without.                                                                *)
Readings == Texts \cup {[text EXCEPT !.guided = FALSE] : text \in Texts}

LEMMA TextsAre ==
  ASSUME NEW text \in Readings
  PROVE  /\ text.negated \in BOOLEAN /\ text.bare \in BOOLEAN /\ text.guided \in BOOLEAN /\ text.phone \in BOOLEAN
         /\ text.guided => ~text.negated /\ ~text.bare
<1>1. Chat!TextsAreMessages
  BY ConsoleAssumptions
<1>2. CASE text \in Texts
  BY <1>1, <1>2 DEF Chat!TextsAreMessages
<1>3. ASSUME NEW original \in Texts, text = [original EXCEPT !.guided = FALSE]
      PROVE  /\ text.negated \in BOOLEAN /\ text.bare \in BOOLEAN /\ text.phone \in BOOLEAN
             /\ text.guided = FALSE
  BY <1>1, <1>3 DEF Chat!TextsAreMessages
<1> QED BY <1>2, <1>3 DEF Readings

(* An attempt carries the words of its message.                            *)
LEMMA CarriedIsRead ==
  ASSUME NEW a, written[attempts[a]] \in Texts
  PROVE  /\ Chat!Carried(a) \in Readings
         /\ Chat!Carried(a).words = written[attempts[a]].words
         /\ Chat!Carried(a).negated = written[attempts[a]].negated
         /\ Chat!Carried(a).bare = written[attempts[a]].bare
<1> DEFINE text == written[attempts[a]]
<1>1. text \in [words : {"none", "send", "save", "approve", "cancel"},
                negated : BOOLEAN, phone : BOOLEAN, bare : BOOLEAN, guided : BOOLEAN]
  BY ConsoleAssumptions DEF Chat!TextsAreMessages
<1>2. Chat!Carried(a) \in {text, [text EXCEPT !.guided = FALSE]}
  BY DEF Chat!Carried
<1> HIDE DEF text
<1>3. LET bare == [text EXCEPT !.guided = FALSE] IN
      bare.words = text.words /\ bare.negated = text.negated /\ bare.bare = text.bare
  BY <1>1
<1>4. Chat!Carried(a) \in Readings
  BY <1>2 DEF Readings, text
<1> QED BY <1>2, <1>3, <1>4 DEF text

(* What the planner lets pass is said in the words of the message.         *)
Applies(intent) == \/ intent.tool = "workflow" /\ intent.action = "complete"
                   \/ intent.tool = "workspace" /\ intent.action = "confirm"
LEMMA PlannedIsSaid ==
  ASSUME NEW text \in Readings, NEW planned \in Chat!Plans(text), NEW found \in BOOLEAN,
         Applies(Chat!Routed(Chat!Normalized(planned), found))
  PROVE  text.words \in {"send", "save", "approve"} /\ ~text.negated
<1>1. Applies(planned) \/ planned.tool = "send_outreach"
  BY DEF Applies, Chat!Routed, Chat!Normalized, Chat!Intent
<1>2. CASE text.guided
  <2>1. planned = Chat!Guided(text)
    BY <1>2 DEF Chat!Plans
  <2> QED BY <1>1, <1>2, <2>1, TextsAre DEF Chat!Guided, Chat!Intent, Applies
<1>3. CASE ~text.guided
  <2>1. PICK intent \in Chat!Intents : planned = Chat!Planned(text, intent)
    BY <1>3 DEF Chat!Plans
  <2>2. ~Applies(Chat!Clarify) /\ Chat!Clarify.tool # "send_outreach"
    BY DEF Applies, Chat!Clarify, Chat!Intent
  <2>3. planned = intent /\ Chat!IsSaid(text, intent)
    BY <1>1, <2>1, <2>2 DEF Chat!Planned
  <2> QED BY <1>1, <2>3, TextsAre DEF Chat!IsSaid, Chat!Says, Applies
<1> QED BY <1>2, <1>3

LEMMA TurnSpeaks ==
  ASSUME ChatTypes, NEW text \in Readings, NEW planned \in Chat!Plans(text), NEW found \in BOOLEAN, NEW did \in Chat!Effects,
         Chat!Does(text, Chat!Routed(Chat!Normalized(planned), found), did)
  PROVE  \A id : Spoken(text, [attempt |-> id, targets |-> Chat!Targets, did |-> did])
<1> DEFINE intent == Chat!Routed(Chat!Normalized(planned), found)
<1>1. Applies(intent) => text.words \in {"send", "save", "approve"} /\ ~text.negated
  BY PlannedIsSaid
<1>2. Chat!Does(text, intent, did)
  OBVIOUS
<1> HIDE DEF intent
<1>3. SUFFICES ASSUME did \in {"completed", "confirmed"}
               PROVE  /\ text.words \in {"send", "save", "approve"} /\ ~text.negated
                      /\ text.bare => Chat!Targets = 1
  BY DEF Spoken
<1>4. ~Chat!IsAmbiguous(text, intent) /\ Applies(intent)
      /\ (preview \/ Chat!IsOpen)
  BY <1>2, <1>3 DEF Chat!Does, Chat!Stays, Applies, Chat!Meets
<1>5. text.bare => ~(preview /\ Chat!IsOpen)
  BY <1>1, <1>4, TextsAre DEF Chat!IsAmbiguous, Applies
<1> QED BY <1>1, <1>4, <1>5 DEF Chat!Targets, ChatTypes

(* Intents name the kinds of cards.                                        *)
LEMMA IntentKinds ==
  ASSUME NEW text \in Readings, NEW planned \in Chat!Plans(text), NEW found \in BOOLEAN
  PROVE  Chat!Routed(Chat!Normalized(planned), found).kind \in Chat!Kinds \cup {"none"}
<1>1. \A intent \in Chat!Intents : intent.kind \in Chat!Kinds \cup {"none"}
  BY DEF Chat!Intents, Chat!Intent, Chat!Clarify, Chat!Kinds
<1>2. planned.kind \in Chat!Kinds \cup {"none"}
  BY <1>1 DEF Chat!Plans, Chat!Planned, Chat!Guided, Chat!Intent, Chat!Clarify, Chat!Kinds
<1> QED BY <1>2 DEF Chat!Routed, Chat!Normalized, Chat!Intent, Chat!Kinds

LEMMA CardsStay ==
  ASSUME ChatTypes, NEW text \in Readings, NEW planned \in Chat!Plans(text), NEW found \in BOOLEAN, NEW did \in Chat!Effects,
         Chat!Does(text, Chat!Routed(Chat!Normalized(planned), found), did)
  PROVE  front' \in CardRow /\ preview' \in BOOLEAN
<1> DEFINE intent == Chat!Routed(Chat!Normalized(planned), found)
<1>1. intent.kind \in Chat!Kinds \cup {"none"} /\ Chat!Does(text, intent, did)
  BY IntentKinds
<1> HIDE DEF intent
<1>2. /\ preview' \in {preview, FALSE}
      /\ \/ front' \in {front, Chat!NoCard}
         \/ \E s \in {"awaiting_input", "ready"} :
               front' = [kind |-> IF intent.kind = "none" THEN "contact" ELSE intent.kind, status |-> s]
  BY <1>1 DEF Chat!Does, Chat!Stays
<1>3. ASSUME NEW s \in {"awaiting_input", "ready"}
      PROVE  [kind |-> IF intent.kind = "none" THEN "contact" ELSE intent.kind, status |-> s] \in CardRow
  <2> DEFINE kind == IF intent.kind = "none" THEN "contact" ELSE intent.kind
  <2>1. kind \in Chat!Kinds
    BY <1>1 DEF Chat!Kinds
  <2> HIDE DEF kind
  <2>2. [kind |-> kind, status |-> s] \in CardRow
    BY <2>1 DEF CardRow
  <2> QED BY <2>2 DEF kind
<1>4. front \in CardRow /\ Chat!NoCard \in CardRow
  BY DEF ChatTypes, CardRow
<1>5. front' \in CardRow
  BY <1>2, <1>3, <1>4
<1>6. preview' \in BOOLEAN
  BY ZenonT(40), <1>2 DEF ChatTypes
<1> QED BY <1>5, <1>6
-----------------------------------------------------------------------------
LEMMA TurnsHaveAttempts ==
  ASSUME ChatTypes, NEW t \in 1 .. Len(turns)
  PROVE  turns[t].attempt \in 1 .. Len(attempts)
<1>1. turns[t] \in Turns /\ turns[t].attempt <= Len(attempts) /\ Len(attempts) \in Nat
  BY DEF ChatTypes
<1>2. turns[t].attempt \in 1 .. MaxPosts
  BY <1>1 DEF Turns
<1> QED BY <1>1, <1>2, ChatBounds

(* A call that is served: the earliest that is under way.                  *)
LEMMA ServedIs ==
  ASSUME ChatInv, NEW c \in posts, NEW code \in {200, 409, 503}, Chat!Reply(c, code), UNCHANGED tab
  PROVE  /\ posts' \subseteq posts /\ c \notin posts'
         /\ posts' \subseteq [attempt : 1 .. MaxPosts, call : 1 .. MaxPosts]
         /\ answers' \subseteq [call : 1 .. MaxPosts, code : {200, 401, 409, 503}]
         /\ c.call = tab.call => posts' = {} /\ tab.pending # 0 /\ c.attempt = tab.pending
                                /\ \A a \in answers' : a.call = tab.call => a.code = code /\ a = [call |-> c.call, code |-> code]
         /\ c.call # tab.call => answers' = answers
         /\ \A a \in answers : a.call # tab.call
         /\ tab.at \notin {"messages", "workflows"}
         /\ \A a \in answers' : a.call <= tab.call
         /\ c.attempt \in 1 .. Len(attempts)
<1> DEFINE a0 == [call |-> c.call, code |-> code]
<1>1. /\ c \in [attempt : 1 .. MaxPosts, call : 1 .. MaxPosts] /\ c.call \in Nat /\ c.attempt \in Nat \ {0}
      /\ \A d \in posts : d.call \in Nat /\ d.call <= tab.call /\ c.call <= d.call
      /\ tab.call \in Nat /\ c.call <= tab.call /\ c.attempt <= Len(attempts)
  BY SMTT(20), ChatBounds DEF ChatInv, ChatTypes, TabRow, CallsAreNumbered, Chat!Reply
<1>2. \A a \in answers : a.call # tab.call
  BY DEF ChatInv, AnswersAreLast
<1>3. posts' = posts \ {c} /\ answers' = IF tab.call = c.call THEN answers \cup {a0} ELSE answers
  BY DEF Chat!Reply
<1>4. a0.call = c.call /\ a0.code = code /\ a0 \in [call : 1 .. MaxPosts, code : {200, 401, 409, 503}]
  BY <1>1
<1> HIDE DEF a0
<1>5. c.call = tab.call => posts' = {}
  <2>1. ASSUME c.call = tab.call, NEW d \in posts  PROVE d = c
    <3>1. d.call = c.call
      BY <1>1, <2>1
    <3> QED BY <3>1 DEF ChatInv, CallsAreNumbered
  <2> QED BY <1>3, <2>1
<1>6. c.call = tab.call => tab.pending # 0 /\ c.attempt = tab.pending
  BY DEF ChatInv, CallsAreNumbered
<1>7. \A a \in answers' : a \in answers \/ (a = a0 /\ tab.call = c.call)
  BY <1>3
<1>8. \A a \in answers' : a.call <= tab.call
  BY <1>1, <1>4, <1>7 DEF ChatInv, AnswersAreLast
<1>9. tab.at \notin {"messages", "workflows"}
  BY DEF ChatInv, RecordedWhenRead
<1>10. answers' \subseteq [call : 1 .. MaxPosts, code : {200, 401, 409, 503}]
  BY <1>4, <1>7 DEF ChatInv, ChatTypes
<1>11. posts' \subseteq [attempt : 1 .. MaxPosts, call : 1 .. MaxPosts]
  BY <1>3 DEF ChatInv, ChatTypes
<1>12. \A a \in answers' : a.call = tab.call => a = a0 /\ a.code = code
  BY <1>2, <1>4, <1>7
<1> QED BY <1>1, <1>2, <1>3, <1>5, <1>6, <1>8, <1>9, <1>10, <1>11, <1>12 DEF a0

(* A call that leaves no turn: it was answered before, or it fails.        *)
LEMMA ServedAgain ==
  ASSUME ChatInv, NEW c \in posts, NEW code \in {200, 409, 503}, Chat!Reply(c, code),
         code = 200 => Chat!IsKnown(c.attempt), code # 200 => ~Chat!IsKnown(c.attempt),
         UNCHANGED <<written, attempts, tab, turns, front, preview, faults, denied>>
  PROVE  ChatInv'
<1>0. Chat!IsKnown(tab.pending)' = Chat!IsKnown(tab.pending)
  BY DEF Chat!IsKnown
<1>1. /\ posts' \subseteq posts /\ c \notin posts'
      /\ posts' \subseteq [attempt : 1 .. MaxPosts, call : 1 .. MaxPosts]
      /\ answers' \subseteq [call : 1 .. MaxPosts, code : {200, 401, 409, 503}]
      /\ c.call = tab.call => posts' = {} /\ tab.pending # 0 /\ c.attempt = tab.pending
                             /\ \A a \in answers' : a.call = tab.call => a.code = code /\ a = [call |-> c.call, code |-> code]
      /\ c.call # tab.call => answers' = answers
      /\ \A a \in answers : a.call # tab.call
      /\ tab.at \notin {"messages", "workflows"}
      /\ \A a \in answers' : a.call <= tab.call
  BY ServedIs
<1>2. ChatTypes'
  BY <1>1 DEF ChatInv, ChatTypes
<1>3. TabWaits'
  BY DEF ChatInv, TabWaits
<1>4. CallsAreNumbered'
  BY <1>1 DEF ChatInv, CallsAreNumbered
<1>5. AnswersAreLast'
  <2>1. CASE c.call = tab.call
    <3>1. \A a, b \in answers' : a.call = tab.call /\ b.call = tab.call => b = a
      BY <1>1, <2>1
    <3>2. \A a \in answers' : a.call = tab.call /\ a.code = 200 => Chat!IsKnown(tab.pending)
      BY <1>1, <2>1
    <3> QED BY <1>0, <1>1, <2>1, <3>1, <3>2 DEF AnswersAreLast
  <2>2. CASE c.call # tab.call
    BY <1>1, <2>2 DEF AnswersAreLast
  <2> QED BY <2>1, <2>2
<1>6. RecordedWhenRead'
  BY <1>1 DEF RecordedWhenRead
<1>7. OneAttemptOpen'
  <2>1. denied = 0 => \A a \in answers' : a.call = tab.call /\ a.code # 200 => ~Chat!IsKnown(tab.pending)
    BY <1>1
  <2> QED BY <1>0, <1>1, <2>1 DEF ChatInv, OneAttemptOpen
<1>8. Kept' /\ AllSpoken'
  BY DEF ChatInv, Kept, AllSpoken
<1> QED BY <1>2, <1>3, <1>4, <1>5, <1>6, <1>7, <1>8 DEF ChatInv

LEMMA TurnAgainHolds ==
  ASSUME ChatInv, NEW c \in posts, Chat!TurnAgain(c)
  PROVE  ChatInv'
BY ServedAgain DEF Chat!TurnAgain

LEMMA TurnFailsHolds ==
  ASSUME ChatInv, NEW c \in posts, Chat!TurnFails(c)
  PROVE  ChatInv'
<1>1. PICK code \in {409, 503} : Chat!Reply(c, code)
  BY DEF Chat!TurnFails
<1> QED BY <1>1, ServedAgain DEF Chat!TurnFails

LEMMA TurnHolds ==
  ASSUME ChatInv, NEW c \in posts, Chat!Turn(c)
  PROVE  ChatInv'
<1> DEFINE text == written[attempts[c.attempt]]
           heard == Chat!Carried(c.attempt)
<1>1. PICK planned \in Chat!Plans(heard), found \in BOOLEAN, did \in Chat!Effects :
         /\ Chat!Does(heard, Chat!Routed(Chat!Normalized(planned), found), did)
         /\ turns' = Append(turns, [attempt |-> c.attempt, targets |-> Chat!Targets, did |-> did])
  BY DEF Chat!Turn
<1>2. Chat!Reply(c, 200) /\ ~Chat!IsKnown(c.attempt) /\ UNCHANGED <<written, attempts, tab, faults, denied>>
  BY DEF Chat!Turn
<1>3. /\ posts' \subseteq posts /\ c \notin posts'
      /\ posts' \subseteq [attempt : 1 .. MaxPosts, call : 1 .. MaxPosts]
      /\ answers' \subseteq [call : 1 .. MaxPosts, code : {200, 401, 409, 503}]
      /\ c.call = tab.call => posts' = {} /\ tab.pending # 0 /\ c.attempt = tab.pending
                             /\ \A a \in answers' : a.call = tab.call => a.code = 200 /\ a = [call |-> c.call, code |-> 200]
      /\ c.call # tab.call => answers' = answers
      /\ \A a \in answers : a.call # tab.call
      /\ tab.at \notin {"messages", "workflows"}
      /\ \A a \in answers' : a.call <= tab.call
      /\ c.attempt \in 1 .. Len(attempts)
  BY <1>2, ServedIs
<1>4. attempts[c.attempt] \in 1 .. Len(written) /\ text \in Texts /\ c.attempt \in 1 .. MaxPosts
  BY <1>3 DEF ChatInv, ChatTypes
<1>5. Spoken(text, [attempt |-> c.attempt, targets |-> Chat!Targets, did |-> did]) /\ front' \in CardRow /\ preview' \in BOOLEAN
  <2>1. /\ heard \in Readings
        /\ heard.words = text.words /\ heard.negated = text.negated /\ heard.bare = text.bare
    BY <1>4, CarriedIsRead
  <2> HIDE DEF heard
  <2>2. \A id : Spoken(heard, [attempt |-> id, targets |-> Chat!Targets, did |-> did])
    BY <1>1, <2>1, TurnSpeaks DEF ChatInv
  <2>3. front' \in CardRow /\ preview' \in BOOLEAN
    BY <1>1, <2>1, CardsStay DEF ChatInv
  <2> QED BY <2>1, <2>2, <2>3 DEF Spoken
<1> DEFINE turn == [attempt |-> c.attempt, targets |-> Chat!Targets, did |-> did]
<1>6. turn \in Turns /\ turn.attempt = c.attempt /\ Spoken(text, turn)
  BY <1>1, <1>4, <1>5 DEF Turns, Chat!Targets
<1>7. turns' = Append(turns, turn)
  BY <1>1
<1> HIDE DEF turn, text, heard
<1>8. /\ turns' \in Seq(Turns) /\ Len(turns) \in Nat /\ Len(turns') = Len(turns) + 1
      /\ \A t \in 1 .. Len(turns) : turns'[t] = turns[t]
      /\ turns'[Len(turns) + 1] = turn
      /\ DOMAIN turns = 1 .. Len(turns) /\ DOMAIN turns' = 1 .. Len(turns')
  BY <1>6, <1>7 DEF ChatInv, ChatTypes
<1>9. \A t \in 1 .. Len(turns') : t \in 1 .. Len(turns) \/ (t = Len(turns) + 1 /\ turns'[t] = turn)
  BY <1>8
<1>10. 1 .. Len(turns) \subseteq 1 .. Len(turns') /\ Len(turns) + 1 \in 1 .. Len(turns')
  BY <1>8
<1>11. Chat!IsKnown(c.attempt)'
  BY <1>6, <1>8, <1>10 DEF Chat!IsKnown
<1>12. ChatTypes'
  <2>1. ASSUME NEW t \in 1 .. Len(turns')  PROVE turns'[t].attempt <= Len(attempts)
    <3>1. CASE t \in 1 .. Len(turns)
      BY <1>8, <3>1 DEF ChatInv, ChatTypes
    <3>2. CASE t \notin 1 .. Len(turns)
      BY <1>3, <1>6, <1>9, <3>2
    <3> QED BY <3>1, <3>2
  <2> QED BY <1>2, <1>3, <1>5, <1>8, <2>1 DEF ChatInv, ChatTypes
<1>13. TabWaits'
  BY <1>2 DEF ChatInv, TabWaits
<1>14. CallsAreNumbered'
  BY <1>2, <1>3 DEF ChatInv, CallsAreNumbered
<1>15. AnswersAreLast'
  <2>1. CASE c.call = tab.call
    <3>1. \A a, b \in answers' : a.call = tab.call /\ b.call = tab.call => b = a
      BY <1>3, <2>1
    <3>2. Chat!IsKnown(tab.pending)'
      BY <1>2, <1>3, <1>11, <2>1
    <3> QED BY <1>2, <1>3, <2>1, <3>1, <3>2 DEF AnswersAreLast
  <2>2. CASE c.call # tab.call
    BY <1>2, <1>3, <2>2 DEF AnswersAreLast
  <2> QED BY <2>1, <2>2
<1>16. RecordedWhenRead'
  BY <1>2, <1>3 DEF RecordedWhenRead
<1>17. OneAttemptOpen'
  <2> SUFFICES ASSUME denied = 0
               PROVE  /\ \A d \in posts' : tab.pending # 0 /\ d.attempt = tab.pending
                      /\ \A a \in answers' : a.call = tab.call => a.code = 200
                      /\ tab.composer = 0
                      /\ \A t \in 1 .. Len(turns') :
                            attempts[turns'[t].attempt] = attempts[tab.pending] => turns'[t].attempt = tab.pending
                      /\ \A s, t \in 1 .. Len(turns') : attempts[turns'[s].attempt] = attempts[turns'[t].attempt] => s = t
    BY <1>2 DEF OneAttemptOpen
  <2>1. tab.pending # 0 /\ c.attempt = tab.pending /\ \A d \in posts' : d.attempt = tab.pending
    BY <1>3 DEF ChatInv, OneAttemptOpen
  <2>2. tab.composer = 0
    BY <2>1 DEF ChatInv, TabWaits
  <2>3. \A a \in answers' : a.call = tab.call => a.code = 200
    BY <1>3
  <2>4. \A t \in 1 .. Len(turns) : attempts[turns[t].attempt] # attempts[c.attempt]
    BY <1>2, <1>8, <2>1 DEF ChatInv, OneAttemptOpen, Chat!IsKnown
  <2>5. \A t \in 1 .. Len(turns') : t \in 1 .. Len(turns) => attempts[turns'[t].attempt] # attempts[c.attempt]
    BY <1>8, <2>4
  <2>6. \A t \in 1 .. Len(turns') : t \notin 1 .. Len(turns) => t = Len(turns) + 1 /\ turns'[t].attempt = c.attempt
    BY <1>6, <1>9
  <2>7. \A t \in 1 .. Len(turns') : attempts[turns'[t].attempt] = attempts[tab.pending] => turns'[t].attempt = tab.pending
    BY <2>1, <2>5, <2>6
  <2>8. \A s, t \in 1 .. Len(turns) : attempts[turns'[s].attempt] = attempts[turns'[t].attempt] => s = t
    BY <1>8 DEF ChatInv, OneAttemptOpen
  <2>9. ASSUME NEW s \in 1 .. Len(turns'), NEW t \in 1 .. Len(turns'), attempts[turns'[s].attempt] = attempts[turns'[t].attempt]
        PROVE  s = t
    <3>1. CASE s \in 1 .. Len(turns) /\ t \in 1 .. Len(turns)
      BY <2>8, <2>9, <3>1
    <3>2. CASE s \notin 1 .. Len(turns) /\ t \notin 1 .. Len(turns)
      BY <2>6, <3>2
    <3>3. CASE s \in 1 .. Len(turns) /\ t \notin 1 .. Len(turns)
      BY <2>5, <2>6, <2>9, <3>3
    <3>4. CASE s \notin 1 .. Len(turns) /\ t \in 1 .. Len(turns)
      BY <2>5, <2>6, <2>9, <3>4
    <3> QED BY <3>1, <3>2, <3>3, <3>4
  <2> QED BY <2>1, <2>2, <2>3, <2>7, <2>9
<1>18. Kept'
  BY <1>2, <1>8, <1>10 DEF ChatInv, Kept
<1>19. AllSpoken'
  <2>1. ASSUME NEW t \in 1 .. Len(turns')  PROVE Spoken(written[attempts[turns'[t].attempt]], turns'[t])
    <3>1. CASE t \in 1 .. Len(turns)
      BY <1>8, <3>1 DEF ChatInv, AllSpoken
    <3>2. CASE t \notin 1 .. Len(turns)
      BY <1>6, <1>9, <3>2 DEF text
    <3> QED BY <3>1, <3>2
  <2> QED BY <1>2, <2>1 DEF AllSpoken
<1> QED BY <1>12, <1>13, <1>14, <1>15, <1>16, <1>17, <1>18, <1>19 DEF ChatInv

-----------------------------------------------------------------------------
(* The attempts a step adds, and the ones it keeps.                        *)
Grown ==
  /\ written' \in Seq(Texts) /\ Len(written') <= MaxMessages /\ Len(written) <= Len(written')
  /\ attempts' \in Seq(Nat) /\ Len(attempts) <= Len(attempts') /\ Len(attempts') <= tab'.call
  /\ \A i \in 1 .. Len(attempts') : attempts'[i] \in 1 .. Len(written')
  /\ \A n \in 1 .. Len(written) : written'[n] = written[n]
  /\ \A i \in 1 .. Len(attempts) : attempts'[i] = attempts[i]

(* A new call of an attempt that is the one pending, or new and for a      *)
(* message without a turn.                                                 *)
LEMMA PostHolds ==
  ASSUME ChatInv, NEW id \in 1 .. MaxPosts, Chat!Post(id), Chat!CanCall, Grown, id <= Len(attempts'), tab.at = "idle",
         UNCHANGED <<answers, turns, front, preview, faults, denied>>,
         \/ id = tab.pending
         \/ /\ tab.pending = 0 /\ id = Len(attempts) + 1
            /\ denied = 0 => \A t \in 1 .. Len(turns) : attempts'[turns[t].attempt] # attempts'[id],
         \A n \in 1 .. Len(written') : n \in 1 .. Len(written) \/ attempts'[id] = n,
         tab.composer # 0 => attempts'[id] = tab.composer
  PROVE  ChatInv'
<1>1. posts' = posts \cup {[attempt |-> id, call |-> tab.call + 1]}
      /\ tab' = [at |-> "turn", call |-> tab.call + 1, pending |-> id, composer |-> 0]
  BY DEF Chat!Post
<1>2. tab'.at = "turn" /\ tab'.call = tab.call + 1 /\ tab'.pending = id /\ tab'.composer = 0 /\ id # 0
      /\ tab.call \in Nat /\ tab.call + 1 \in 1 .. MaxPosts
  BY SMTT(20), <1>1, ChatBounds DEF ChatInv, ChatTypes, TabRow, Chat!CanCall
<1>3. tab' \in TabRow
  BY <1>1, <1>2, ChatBounds DEF TabRow
<1>4. \A c \in posts' :
         \/ c \in posts /\ c.call <= tab.call /\ c.call # tab.call + 1
         \/ c.call = tab.call + 1 /\ c.attempt = id /\ c = [attempt |-> id, call |-> tab.call + 1]
  <2>1. \A c \in posts : c.call \in Nat /\ c.call <= tab.call
    BY DEF ChatInv, ChatTypes, CallsAreNumbered
  <2> QED BY <1>1, <1>2, <2>1
<1>5. \A a \in answers : a.call \in Nat /\ a.call <= tab.call /\ a.call # tab'.call /\ a.call <= tab'.call
  BY <1>2 DEF ChatInv, ChatTypes, AnswersAreLast
<1>6. \A t \in 1 .. Len(turns) : turns[t].attempt \in 1 .. Len(attempts) /\ attempts'[turns[t].attempt] = attempts[turns[t].attempt]
  BY TurnsHaveAttempts DEF ChatInv, Grown
<1>7. ChatTypes'
  <2>1. posts' \subseteq [attempt : 1 .. MaxPosts, call : 1 .. MaxPosts]
    BY <1>1, <1>2 DEF ChatInv, ChatTypes
  <2>2. ASSUME NEW t \in 1 .. Len(turns)  PROVE turns[t].attempt <= Len(attempts')
    <3>1. turns[t].attempt \in 1 .. Len(attempts)
      BY <1>6
    <3>2. attempts \in Seq(Nat) /\ attempts' \in Seq(Nat) /\ Len(attempts) <= Len(attempts')
      BY DEF Grown, ChatInv, ChatTypes
    <3> QED BY <3>1, <3>2
  <2>3. /\ tab'.pending <= Len(attempts') /\ tab'.composer <= Len(written')
        /\ Len(attempts') <= tab'.call
    BY <1>2 DEF Grown
  <2>4. /\ answers' \subseteq [call : 1 .. MaxPosts, code : {200, 401, 409, 503}]
        /\ turns' \in Seq(Turns) /\ \A t \in 1 .. Len(turns') : turns'[t].attempt <= Len(attempts')
        /\ front' \in CardRow /\ preview' \in BOOLEAN
        /\ faults' \in 0 .. MaxFaults /\ denied' \in 0 .. faults'
    BY <2>2 DEF ChatInv, ChatTypes
  <2> QED BY <1>3, <2>1, <2>3, <2>4 DEF ChatTypes, Grown
<1>8. TabWaits'
  BY <1>2 DEF TabWaits
<1>9. CallsAreNumbered'
  <2>1. \A c \in posts' : c.call <= tab'.call
    BY SMTT(20), <1>2, <1>4 DEF ChatInv, ChatTypes
  <2>2. \A c \in posts' : c.attempt <= Len(attempts')
    <3>1. \A c \in posts : c.attempt \in Nat /\ c.attempt <= Len(attempts)
      BY DEF ChatInv, ChatTypes, CallsAreNumbered
    <3> QED BY SMTT(20), <1>4, <3>1 DEF Grown, ChatInv, ChatTypes
  <2>3. \A c, d \in posts' : c.call = d.call => c = d
    BY <1>4 DEF ChatInv, CallsAreNumbered
  <2>4. \A c \in posts' : c.call = tab'.call => c.attempt = id
    BY <1>2, <1>4
  <2> QED BY <1>2, <2>1, <2>2, <2>3, <2>4 DEF CallsAreNumbered
<1>10. AnswersAreLast' /\ RecordedWhenRead'
  BY <1>2, <1>5 DEF AnswersAreLast, RecordedWhenRead
<1>11. OneAttemptOpen'
  <2> SUFFICES ASSUME denied = 0
               PROVE  /\ \A c \in posts' : c.attempt = id
                      /\ \A t \in 1 .. Len(turns) :
                            attempts'[turns[t].attempt] = attempts'[id] => turns[t].attempt = id
                      /\ \A s, t \in 1 .. Len(turns) : attempts'[turns[s].attempt] = attempts'[turns[t].attempt] => s = t
    BY <1>2, <1>5 DEF OneAttemptOpen
  <2>1. \A c \in posts : tab.pending # 0 /\ c.attempt = tab.pending
    BY DEF ChatInv, OneAttemptOpen
  <2>2. \A c \in posts' : c.attempt = id
    BY <1>4, <2>1
  <2>3. \A s, t \in 1 .. Len(turns) : attempts'[turns[s].attempt] = attempts'[turns[t].attempt] => s = t
    BY <1>6 DEF ChatInv, OneAttemptOpen
  <2>4. ASSUME NEW t \in 1 .. Len(turns), attempts'[turns[t].attempt] = attempts'[id]  PROVE turns[t].attempt = id
    <3>1. CASE id = tab.pending
      <4>1. id \in 1 .. Len(attempts)
        BY <3>1 DEF ChatInv, ChatTypes
      <4>2. attempts'[id] = attempts[id]
        BY <4>1 DEF Grown
      <4> QED BY <1>2, <1>6, <2>4, <3>1, <4>2 DEF ChatInv, OneAttemptOpen
    <3>2. CASE id # tab.pending
      BY <2>4, <3>2
    <3> QED BY <3>1, <3>2
  <2> QED BY <2>2, <2>3, <2>4
<1>12. Kept'
  <2>1. ASSUME NEW n \in 1 .. Len(written), attempts'[id] # n
        PROVE  \E t \in 1 .. Len(turns) : attempts[turns[t].attempt] = n
    <3>1. tab.composer # n
      BY <2>1 DEF ChatInv, ChatTypes
    <3>2. tab.pending # 0 => attempts[tab.pending] # n
      <4>1. tab.pending # 0 => tab.pending \in 1 .. Len(attempts) /\ id = tab.pending
        BY DEF ChatInv, ChatTypes, TabRow
      <4> QED BY <2>1, <4>1 DEF Grown
    <3> QED BY <3>1, <3>2 DEF ChatInv, Kept
  <2>2. \A n \in 1 .. Len(written) : attempts'[id] = n \/ \E t \in 1 .. Len(turns) : attempts'[turns[t].attempt] = n
    BY <1>6, <2>1
  <2> QED BY <1>2, <2>2 DEF Kept
<1>13. AllSpoken'
  <2>1. ASSUME NEW t \in 1 .. Len(turns)
        PROVE  written'[attempts'[turns[t].attempt]] = written[attempts[turns[t].attempt]]
    <3>1. attempts[turns[t].attempt] \in 1 .. Len(written)
      BY <1>6 DEF ChatInv, ChatTypes
    <3> QED BY <1>6, <3>1 DEF Grown
  <2> QED BY <2>1 DEF ChatInv, AllSpoken
<1> QED BY <1>7, <1>8, <1>9, <1>10, <1>11, <1>12, <1>13 DEF ChatInv

LEMMA MessageSends ==
  ASSUME ChatInv, NEW text \in Texts, Chat!Send(text)
  PROVE  ChatInv'
<1> DEFINE id == Len(attempts) + 1
<1>1. /\ tab.at = "idle" /\ tab.pending = 0 /\ tab.composer = 0 /\ Chat!CanCall /\ Len(written) < MaxMessages
      /\ written' = Append(written, text) /\ attempts' = Append(attempts, Len(written) + 1) /\ Chat!Post(id)
      /\ UNCHANGED <<answers, turns, front, preview, faults, denied>>
  BY DEF Chat!Send
<1>2. /\ written \in Seq(Texts) /\ Len(written) \in Nat /\ attempts \in Seq(Nat) /\ Len(attempts) \in Nat
      /\ \A i \in 1 .. Len(attempts) : attempts[i] \in 1 .. Len(written)
      /\ tab.call \in Nat /\ Len(attempts) <= tab.call /\ tab.call < MaxPosts /\ MaxPosts \in Nat
      /\ tab'.call = tab.call + 1 /\ MaxMessages \in Nat
  BY <1>1, ChatBounds DEF ChatInv, ChatTypes, TabRow, Chat!CanCall, Chat!Post
<1>3. /\ Len(written') = Len(written) + 1 /\ written' \in Seq(Texts)
      /\ \A n \in 1 .. Len(written) : written'[n] = written[n]
      /\ Len(attempts') = id /\ attempts' \in Seq(Nat) /\ attempts'[id] = Len(written) + 1
      /\ \A i \in 1 .. Len(attempts) : attempts'[i] = attempts[i]
  BY <1>1, <1>2
<1>4. \A i \in 1 .. Len(attempts') : i \in 1 .. Len(attempts) \/ i = id
  BY <1>2, <1>3
<1>5. ASSUME NEW i \in 1 .. Len(attempts')  PROVE attempts'[i] \in 1 .. Len(written')
  <2>1. CASE i \in 1 .. Len(attempts)
    <3>1. attempts'[i] = attempts[i] /\ attempts[i] \in 1 .. Len(written)
      BY <1>2, <1>3, <2>1
    <3> QED BY <1>2, <1>3, <3>1
  <2>2. CASE i = id
    BY <1>2, <1>3, <2>2
  <2> QED BY <1>4, <2>1, <2>2
<1>6. Grown
  BY SMTT(20), <1>1, <1>2, <1>3, <1>5 DEF Grown
<1>7. \A t \in 1 .. Len(turns) : attempts'[turns[t].attempt] # attempts'[id]
  <2>1. ASSUME NEW t \in 1 .. Len(turns)  PROVE attempts'[turns[t].attempt] \in 1 .. Len(written)
    BY <1>2, <1>3, TurnsHaveAttempts DEF ChatInv
  <2> QED BY <1>2, <1>3, <2>1
<1>8. \A n \in 1 .. Len(written') : n \in 1 .. Len(written) \/ attempts'[id] = n
  BY <1>2, <1>3
<1>9. id \in 1 .. MaxPosts /\ id <= Len(attempts')
  BY <1>2, <1>3
<1> HIDE DEF id
<1> QED BY <1>1, <1>6, <1>7, <1>8, <1>9, PostHolds DEF id

LEMMA SendAgainHolds ==
  ASSUME ChatInv, Chat!SendAgain
  PROVE  ChatInv'
<1> DEFINE id == Len(attempts) + 1
<1>1. /\ tab.at = "idle" /\ tab.pending = 0 /\ tab.composer # 0 /\ Chat!CanCall
      /\ attempts' = Append(attempts, tab.composer) /\ Chat!Post(id)
      /\ UNCHANGED <<written, answers, turns, front, preview, faults, denied>>
  BY DEF Chat!SendAgain
<1>2. /\ Len(written) \in Nat /\ attempts \in Seq(Nat) /\ Len(attempts) \in Nat
      /\ \A i \in 1 .. Len(attempts) : attempts[i] \in 1 .. Len(written)
      /\ tab.call \in Nat /\ Len(attempts) <= tab.call /\ tab.call < MaxPosts /\ MaxPosts \in Nat
      /\ tab'.call = tab.call + 1 /\ tab.composer \in 1 .. Len(written)
  BY <1>1, ChatBounds DEF ChatInv, ChatTypes, TabRow, Chat!CanCall, Chat!Post
<1>3. /\ Len(attempts') = id /\ attempts' \in Seq(Nat) /\ attempts'[id] = tab.composer
      /\ \A i \in 1 .. Len(attempts) : attempts'[i] = attempts[i]
  BY <1>1, <1>2
<1>4. \A i \in 1 .. Len(attempts') : i \in 1 .. Len(attempts) \/ i = id
  BY <1>2, <1>3
<1>5. \A i \in 1 .. Len(attempts') : attempts'[i] \in 1 .. Len(written)
  BY <1>2, <1>3, <1>4
<1>6. Grown
  BY <1>1, <1>2, <1>3, <1>5 DEF Grown, ChatInv, ChatTypes
<1>7. denied = 0 => \A t \in 1 .. Len(turns) : attempts'[turns[t].attempt] # attempts'[id]
  <2>1. ASSUME NEW t \in 1 .. Len(turns)  PROVE attempts'[turns[t].attempt] = attempts[turns[t].attempt]
    BY <1>2, <1>3, TurnsHaveAttempts DEF ChatInv
  <2> QED BY <1>1, <1>3, <2>1 DEF ChatInv, OneAttemptOpen
<1>8. \A n \in 1 .. Len(written') : n \in 1 .. Len(written) \/ attempts'[id] = n
  BY <1>1
<1>9. id \in 1 .. MaxPosts /\ id <= Len(attempts')
  BY <1>2, <1>3
<1> HIDE DEF id
<1> QED BY <1>1, <1>3, <1>6, <1>7, <1>8, <1>9, PostHolds DEF id

LEMMA RetryHolds ==
  ASSUME ChatInv, Chat!Retry
  PROVE  ChatInv'
<1>1. /\ tab.at = "idle" /\ tab.pending # 0 /\ Chat!CanCall /\ Chat!Post(tab.pending)
      /\ UNCHANGED <<written, attempts, answers, turns, front, preview, faults, denied>>
  BY DEF Chat!Retry
<1>2. /\ tab.call \in Nat /\ tab'.call = tab.call + 1 /\ Len(attempts) \in Nat /\ Len(attempts) <= tab.call
      /\ tab.pending \in 1 .. MaxPosts /\ tab.pending <= Len(attempts) /\ tab.composer = 0
  BY <1>1, ChatBounds DEF ChatInv, ChatTypes, TabRow, Chat!Post, TabWaits
<1>3. Grown
  BY <1>1, <1>2 DEF Grown, ChatInv, ChatTypes
<1> QED BY <1>1, <1>2, <1>3, PostHolds

(* A step of the tab that keeps its attempt pending ...                    *)
LEMMA TabKeeps ==
  ASSUME ChatInv, tab' \in TabRow, tab'.call = tab.call, tab'.pending = tab.pending, tab'.composer = tab.composer,
         tab.pending # 0, posts' \subseteq posts, answers' \subseteq answers,
         UNCHANGED <<written, attempts, turns, front, preview, denied>>, faults' \in faults .. MaxFaults,
         tab'.at \in {"messages", "workflows"} =>
           Chat!IsKnown(tab.pending) /\ posts' = {} /\ \A a \in answers' : a.call # tab.call
  PROVE  ChatInv'
<1>1. Chat!IsKnown(tab.pending)' = Chat!IsKnown(tab.pending)
  BY DEF Chat!IsKnown
<1>2. ChatTypes'
  BY DEF ChatInv, ChatTypes
<1>3. TabWaits' /\ CallsAreNumbered' /\ RecordedWhenRead'
  BY <1>1 DEF ChatInv, TabWaits, CallsAreNumbered, RecordedWhenRead
<1>4. AnswersAreLast'
  BY <1>1 DEF ChatInv, AnswersAreLast
<1>5. OneAttemptOpen'
  BY <1>1 DEF ChatInv, OneAttemptOpen
<1>6. Kept' /\ AllSpoken'
  BY DEF ChatInv, Kept, AllSpoken
<1> QED BY <1>2, <1>3, <1>4, <1>5, <1>6 DEF ChatInv

(* ... and one after which it has none: the message is back in the         *)
(* composer, or has its turn.                                              *)
LEMMA TabSettles ==
  ASSUME ChatInv, tab' \in TabRow, tab'.call = tab.call, tab'.pending = 0, tab'.at = "idle",
         tab.pending # 0, posts' \subseteq posts, answers' \subseteq answers,
         UNCHANGED <<written, attempts, turns, front, preview>>,
         faults' \in 0 .. MaxFaults, denied' \in 0 .. faults', denied' = 0 => denied = 0,
         \/ tab'.composer = attempts[tab.pending]
         \/ tab'.composer = 0 /\ Chat!IsKnown(tab.pending),
         \A c \in posts' : c.call # tab.call, \A a \in answers' : a.call # tab.call,
         denied' = 0 => posts' = {} /\ (tab'.composer # 0 => ~Chat!IsKnown(tab.pending))
  PROVE  ChatInv'
<1>0. tab.pending \in 1 .. Len(attempts) /\ attempts[tab.pending] \in 1 .. Len(written) /\ Len(written) \in Nat /\ tab.composer = 0
      /\ DOMAIN turns = 1 .. Len(turns)
  BY DEF ChatInv, ChatTypes, TabRow, TabWaits
<1>1. ChatTypes'
  BY <1>0 DEF ChatInv, ChatTypes
<1>2. TabWaits' /\ CallsAreNumbered' /\ RecordedWhenRead'
  BY DEF ChatInv, TabWaits, CallsAreNumbered, RecordedWhenRead
<1>3. AnswersAreLast'
  BY DEF ChatInv, AnswersAreLast
<1>4. OneAttemptOpen'
  <2> SUFFICES ASSUME denied' = 0
               PROVE  /\ tab'.composer # 0 => \A t \in 1 .. Len(turns) : attempts[turns[t].attempt] # tab'.composer
                      /\ \A s, t \in 1 .. Len(turns) : attempts[turns[s].attempt] = attempts[turns[t].attempt] => s = t
    BY DEF OneAttemptOpen
  <2>1. denied = 0
    OBVIOUS
  <2>2. \A s, t \in 1 .. Len(turns) : attempts[turns[s].attempt] = attempts[turns[t].attempt] => s = t
    BY <2>1 DEF ChatInv, OneAttemptOpen
  <2>3. ASSUME tab'.composer # 0, NEW t \in 1 .. Len(turns), attempts[turns[t].attempt] = tab'.composer  PROVE FALSE
    <3>1. turns[t].attempt = tab.pending
      BY <2>1, <2>3 DEF ChatInv, OneAttemptOpen
    <3>2. ~Chat!IsKnown(tab.pending)
      BY <2>3
    <3> QED BY <1>0, <3>1, <3>2 DEF Chat!IsKnown
  <2> QED BY <2>2, <2>3
<1>5. Kept'
  <2>1. ASSUME NEW n \in 1 .. Len(written)
        PROVE  (\E t \in 1 .. Len(turns) : attempts[turns[t].attempt] = n) \/ tab'.composer = n
    <3>1. CASE attempts[tab.pending] = n
      BY <1>0, <3>1 DEF Chat!IsKnown
    <3>2. CASE attempts[tab.pending] # n
      BY <1>0, <3>2 DEF ChatInv, Kept
    <3> QED BY <3>1, <3>2
  <2> QED BY <2>1 DEF Kept
<1>6. AllSpoken'
  BY DEF ChatInv, AllSpoken
<1> QED BY <1>1, <1>2, <1>3, <1>4, <1>5, <1>6 DEF ChatInv

(* The fields of a tab that goes on, or gives up its attempt.              *)
LEMMA TabGoesOn ==
  ASSUME ChatInv, NEW place \in {"idle", "messages", "workflows"}, tab' = [tab EXCEPT !.at = place]
  PROVE  tab' \in TabRow /\ tab'.at = place /\ tab'.call = tab.call /\ tab'.pending = tab.pending
         /\ tab'.composer = tab.composer
<1>1. tab \in TabRow
  BY DEF ChatInv, ChatTypes
<1> QED BY <1>1 DEF TabRow

LEMMA TabGivesUp ==
  ASSUME ChatInv, NEW n \in 0 .. MaxMessages, tab' = [tab EXCEPT !.at = "idle", !.pending = 0, !.composer = n]
  PROVE  tab' \in TabRow /\ tab'.at = "idle" /\ tab'.call = tab.call /\ tab'.pending = 0 /\ tab'.composer = n
<1>1. tab \in TabRow /\ 0 \in 0 .. MaxPosts
  BY ChatBounds DEF ChatInv, ChatTypes
<1> QED BY <1>1 DEF TabRow

LEMMA TabIsRejected ==
  ASSUME ChatInv, tab.pending # 0, tab' = Chat!Rejected(tab.pending)
  PROVE  tab' \in TabRow /\ tab'.at = "idle" /\ tab'.call = tab.call /\ tab'.pending = 0
         /\ tab'.composer = attempts[tab.pending]
<1>1. attempts[tab.pending] \in 0 .. MaxMessages
  BY ChatBounds DEF ChatInv, ChatTypes, TabRow
<1> QED BY <1>1, TabGivesUp DEF Chat!Rejected

LEMMA AnsweredHolds ==
  ASSUME ChatInv, NEW a \in answers, Chat!Answered(a)
  PROVE  ChatInv'
<1>1. /\ a.call = tab.call /\ tab.at = "turn" /\ answers' = answers \ {a}
      /\ tab' = IF a.code = 200 THEN [tab EXCEPT !.at = "messages"]
                ELSE IF a.code = 503 THEN [tab EXCEPT !.at = "idle"] ELSE Chat!Rejected(tab.pending)
      /\ UNCHANGED <<written, attempts, posts, turns, front, preview, faults, denied>>
  BY DEF Chat!Answered, Chat!Failed
<1>2. /\ posts = {} /\ tab.pending # 0 /\ (a.code = 200 => Chat!IsKnown(tab.pending))
      /\ \A b \in answers' : b.call # tab.call
      /\ answers' \subseteq answers /\ faults' \in faults .. MaxFaults
      /\ faults' \in 0 .. MaxFaults /\ denied' \in 0 .. faults' /\ denied' = denied
  BY <1>1, ChatBounds DEF ChatInv, AnswersAreLast, ChatTypes
<1>3. CASE a.code = 200
  BY <1>1, <1>2, <1>3, TabGoesOn, TabKeeps
<1>4. CASE a.code = 503
  BY <1>1, <1>2, <1>4, TabGoesOn, TabKeeps
<1>5. CASE a.code \notin {200, 503}
  <2>1. tab' = Chat!Rejected(tab.pending)
    BY <1>1, <1>5
  <2>2. denied = 0 => ~Chat!IsKnown(tab.pending)
    BY <1>1, <1>5 DEF ChatInv, OneAttemptOpen
  <2> QED BY <1>1, <1>2, <2>1, <2>2, TabIsRejected, TabSettles
<1> QED BY <1>3, <1>4, <1>5

LEMMA LoadedHolds ==
  ASSUME ChatInv, Chat!Loaded
  PROVE  ChatInv'
<1>1. /\ tab' = IF tab.at = "messages" THEN [tab EXCEPT !.at = "workflows"]
                ELSE [tab EXCEPT !.at = "idle", !.pending = 0]
      /\ tab.at \in {"messages", "workflows"}
      /\ UNCHANGED <<written, attempts, posts, answers, turns, front, preview, faults, denied>>
  BY DEF Chat!Loaded
<1>2. /\ posts = {} /\ Chat!IsKnown(tab.pending) /\ (\A b \in answers : b.call # tab.call)
      /\ tab.pending # 0 /\ tab.composer = 0
      /\ faults' \in faults .. MaxFaults /\ faults' \in 0 .. MaxFaults /\ denied' \in 0 .. faults'
  BY <1>1, ChatBounds DEF ChatInv, RecordedWhenRead, TabWaits, ChatTypes
<1>3. CASE tab.at = "messages"
  BY <1>1, <1>2, <1>3, TabGoesOn, TabKeeps
<1>4. CASE tab.at = "workflows"
  <2>1. tab \in TabRow /\ 0 \in 0 .. MaxPosts
    BY ChatBounds DEF ChatInv, ChatTypes
  <2>2. tab' \in TabRow /\ tab'.at = "idle" /\ tab'.call = tab.call /\ tab'.pending = 0 /\ tab'.composer = 0
    BY <1>1, <1>2, <1>4, <2>1 DEF TabRow
  <2> QED BY <1>1, <1>2, <2>2, TabSettles
<1> QED BY <1>1, <1>3, <1>4

LEMMA LostHolds ==
  ASSUME ChatInv, Chat!Lost
  PROVE  ChatInv'
<1>1. /\ tab' = [tab EXCEPT !.at = "idle"] /\ tab.at # "idle" /\ faults < MaxFaults /\ faults' = faults + 1
      /\ answers' = {} /\ posts' \subseteq posts
      /\ UNCHANGED <<written, attempts, turns, front, preview, denied>>
  BY DEF Chat!Lost, Chat!Failed
<1>2. tab.pending # 0 /\ faults' \in faults .. MaxFaults
  BY <1>1, ChatBounds DEF ChatInv, TabWaits, ChatTypes
<1> QED BY <1>1, <1>2, TabGoesOn, TabKeeps

LEMMA DeniedHolds ==
  ASSUME ChatInv, Chat!Denied
  PROVE  ChatInv'
<1>1. /\ tab' = Chat!Rejected(tab.pending) /\ tab.at # "idle" /\ faults < MaxFaults
      /\ (tab.at = "turn" => [attempt |-> tab.pending, call |-> tab.call] \in posts)
      /\ faults' = faults + 1 /\ denied' = denied + 1
      /\ posts' = {c \in posts : c.call # tab.call}
      /\ UNCHANGED <<written, attempts, answers, turns, front, preview>>
  BY DEF Chat!Denied
<1>2. /\ tab.pending # 0 /\ faults' \in 0 .. MaxFaults /\ denied' \in 0 .. faults' /\ denied' # 0
  BY <1>1, ChatBounds DEF ChatInv, TabWaits, ChatTypes
<1>3. \A b \in answers' : b.call # tab.call
  <2>1. CASE tab.at = "turn"
    BY <1>1, <2>1 DEF ChatInv, AnswersAreLast
  <2>2. CASE tab.at # "turn"
    <3>1. tab.at \in {"messages", "workflows"}
      BY <1>1, <2>2 DEF ChatInv, ChatTypes, TabRow
    <3> QED BY <1>1, <3>1 DEF ChatInv, RecordedWhenRead
  <2> QED BY <2>1, <2>2
<1> QED BY <1>1, <1>2, <1>3, TabIsRejected, TabSettles
-----------------------------------------------------------------------------
LEMMA ChatBegins == Chat!Init => ChatInv
<1> SUFFICES ASSUME Chat!Init  PROVE ChatInv
  OBVIOUS
<1>1. /\ written = <<>> /\ attempts = <<>> /\ posts = {} /\ answers = {} /\ turns = <<>> /\ front = Chat!NoCard
      /\ preview \in BOOLEAN /\ faults = 0 /\ denied = 0
      /\ tab.at = "idle" /\ tab.call = 0 /\ tab.pending = 0 /\ tab.composer = 0 /\ tab = Chat!Quiet
  BY DEF Chat!Init, Chat!Quiet
<1>2. tab \in TabRow
  BY <1>1, ChatBounds DEF TabRow, Chat!Quiet
<1>3. ChatTypes
  BY <1>1, <1>2, ChatBounds DEF ChatTypes, CardRow
<1>4. TabWaits /\ CallsAreNumbered /\ AnswersAreLast /\ RecordedWhenRead /\ OneAttemptOpen /\ Kept /\ AllSpoken
  BY <1>1 DEF TabWaits, CallsAreNumbered, AnswersAreLast, RecordedWhenRead, OneAttemptOpen, Kept, AllSpoken
<1> QED BY <1>3, <1>4 DEF ChatInv

LEMMA ChatRests ==
  ASSUME ChatInv, UNCHANGED <<written, attempts, tab, posts, answers, turns, front, preview, faults, denied>>
  PROVE  ChatInv'
BY DEF ChatInv, ChatTypes, TabWaits, CallsAreNumbered, AnswersAreLast, RecordedWhenRead, OneAttemptOpen, Kept,
       AllSpoken, Chat!IsKnown

LEMMA ChatMoves ==
  ASSUME ChatInv, Chat!Next
  PROVE  ChatInv'
BY MessageSends, SendAgainHolds, RetryHolds, LoadedHolds, LostHolds, DeniedHolds, AnsweredHolds, TurnHolds,
   TurnAgainHolds, TurnFailsHolds
DEF Chat!Next

LEMMA ChatStep ==
  ASSUME ChatInv, ConsoleNext
  PROVE  ChatInv'
BY ChatMoves, ChatRests DEF ConsoleNext, chatVars

(* A sequence whose elements are in T is one of T.                        *)
LEMMA Narrow ==
  ASSUME NEW S, NEW T, NEW s \in Seq(S), \A i \in 1 .. Len(s) : s[i] \in T
  PROVE  s \in Seq(T)
<1>1. Len(s) \in Nat /\ s \in [1 .. Len(s) -> S]
  BY LenProperties
<1> DEFINE n == Len(s)
<1>2. n \in Nat /\ s \in [1 .. n -> T]
  BY <1>1
<1> HIDE DEF n
<1>3. \E m \in Nat : s \in [1 .. m -> T]
  BY <1>2
<1>4. s \in UNION {[1 .. m -> T] : m \in Nat}
  BY <1>3
<1>5. Seq(T) = UNION {[1 .. m -> T] : m \in Nat}
  BY SeqDef, Zenon
<1> QED BY <1>4, <1>5, Zenon

LEMMA ChatAlways == ConsoleSpec => []ChatInv
<1>1. ConsoleInit => ChatInv
  BY ChatBegins DEF ConsoleInit
<1>2. ChatInv /\ [ConsoleNext]_<<area, vars, sessionVars, chatVars, taskVars>> => ChatInv'
  BY ChatStep, ChatRests DEF chatVars
<1> QED BY <1>1, <1>2, PTL DEF ConsoleSpec

(* ops-chat.tsx, submit: a message keeps its client_message_id while its    *)
(* attempt is pending, and the chat has one turn per id: one message is one *)
(* turn, and what is written is kept until the chat has it.                 *)
THEOREM MessagesOnce == ConsoleSpec => []MessageOnce
<1>1. ChatInv => MessageOnce
  <2> SUFFICES ASSUME ChatInv  PROVE MessageOnce
    OBVIOUS
  <2>1. DOMAIN turns = 1 .. Len(turns) /\ DOMAIN written = 1 .. Len(written)
    BY DEF ChatInv, ChatTypes
  <2>2. Chat!MessageOnce
    BY <2>1 DEF ChatInv, OneAttemptOpen, Chat!MessageOnce, Chat!MessageOf
  <2>3. Chat!KeptUntilRecorded
    BY <2>1 DEF ChatInv, Kept, Chat!KeptUntilRecorded, Chat!MessageOf
  <2> QED BY <2>2, <2>3 DEF MessageOnce
<1> QED BY <1>1, ChatAlways, PTL

(* "Model classification is not itself authorization" (planner.py): what a  *)
(* turn carries out was asked for in the words of its message, and a bare   *)
(* approval speaks of one thing only, whatever the model answers.           *)
THEOREM WordsAuthorize == ConsoleSpec => []WordsDecide
<1>1. ChatInv => WordsDecide
  <2> SUFFICES ASSUME ChatInv  PROVE WordsDecide
    OBVIOUS
  <2>1. DOMAIN turns = 1 .. Len(turns)
    BY DEF ChatInv, ChatTypes
  <2>2. attempts \in Seq(1 .. MaxMessages)
    <3>1. \A i \in 1 .. Len(attempts) : attempts[i] \in 1 .. MaxMessages
      BY ChatBounds DEF ChatInv, ChatTypes
    <3>2. attempts \in Seq(Nat) /\ Len(attempts) \in Nat
      BY DEF ChatInv, ChatTypes
    <3> QED BY <3>1, <3>2, Narrow
  <2>3. Chat!TypeOK
    BY <2>2 DEF ChatInv, ChatTypes, TabRow, Turns, CardRow, Chat!TypeOK
  <2>4. Chat!AppliedInWords
    BY <2>1 DEF ChatInv, AllSpoken, Spoken, Chat!AppliedInWords, Chat!MessageOf
  <2>5. Chat!ApprovalIsClear
    BY <2>1 DEF ChatInv, AllSpoken, Spoken, Chat!ApprovalIsClear, Chat!MessageOf
  <2> QED BY <2>3, <2>4, <2>5 DEF WordsDecide
<1> QED BY <1>1, ChatAlways, PTL

(***************************************************************************)
(* One task (TaskRunner).                                                  *)
(***************************************************************************)
Tools == {"none", "search", "conversation", "request", "delivery", "analytics", "prepare"}
ListNames == [category : {"none", "inbox", "requests"}, n : Nat]
WorldRow == [inbox : Nat, requests : Nat, talk : Nat \ {0}, selected : BOOLEAN,
             long : BOOLEAN, card : {"none", "open", "paused", "running"}]
CallTo == [tool : Tools, goal : Nat, of : ListNames, page : Nat]
ObsRow == [tool : Tools, goal : Nat, of : ListNames, page : Nat, more : BOOLEAN, total : Nat, error : BOOLEAN]
CardRows == [kind : {"old", "review", "view"}, goal : Nat, tool : Tools, status : {"open", "paused", "running"}]

TaskTypes ==
  /\ goals \in Seq(Task!Kinds) /\ world \in WorldRow /\ steps \in 0 .. MaxSteps /\ cut \in BOOLEAN
  /\ phase \in {"loop", "broken", "accepted", "done", "failed"}
  /\ obs \in Seq(ObsRow) /\ cards \subseteq CardRows

(* A page that is observed is one of its list, and "more" says it is not   *)
(* the last; what did not reach the model whole is marked.                 *)
PagesAreThere ==
  \A i \in 1 .. Len(obs) :
    /\ obs[i].goal \in 1 .. Len(goals)
    /\ obs[i].page \in 1 .. Task!PagesOf(obs[i].tool, obs[i].of)
    /\ ~obs[i].error /\ ~obs[i].more => obs[i].page = Task!PagesOf(obs[i].tool, obs[i].of)
CutIsMarked == Task!Truncates(obs) => cut

(* An outcome is the state of its evidence, and nothing is read after it.  *)
OutcomesStand ==
  /\ phase \in {"loop", "broken"} => \A g \in 1 .. Len(goals) : outcomes[g] = Task!Blank
  /\ \A g \in 1 .. Len(goals) :
       \/ outcomes[g] = Task!Blank
       \/ /\ outcomes[g].evidence \subseteq 1 .. Len(obs)
          /\ outcomes[g].status = Task!Limited(Task!State(g, outcomes[g].evidence))

(* A change that was prepared has its card, and no card of a reading is    *)
(* laid over it.                                                           *)
Prepared(i) == obs[i].tool = "prepare" /\ ~obs[i].error
Botched(i)  == obs[i].tool = "prepare" /\ obs[i].error
ReviewsAreMade ==
  phase # "failed" => \A i \in 1 .. Len(obs) : Prepared(i) => \E c \in cards : c.kind = "review" /\ c.goal = obs[i].goal
ReviewsAreInFront ==
  phase # "failed" /\ (\E c \in cards : c.kind = "review") =>
    /\ \E i \in 1 .. Len(obs) : Prepared(i)
    /\ \/ \E c \in cards : c.kind = "review" /\ c.status = "open"
       \/ \E i \in 1 .. Len(obs) : Botched(i)

TaskInv ==
  /\ TaskTypes /\ PagesAreThere /\ CutIsMarked /\ OutcomesStand /\ ReviewsAreMade /\ ReviewsAreInFront
-----------------------------------------------------------------------------
(* A set of pages has a last one.                                          *)
LEMMA LastPage ==
  ASSUME NEW n \in Nat, NEW S, S \subseteq 1 .. n, S # {}
  PROVE  \E x \in S : \A y \in S : x >= y
<1> DEFINE Less == OpToRel(<, Nat)
           T == {n - x : x \in S}
<1>1. T \subseteq Nat /\ T # {}
  <2>1. \A x \in S : n - x \in Nat
    OBVIOUS
  <2> QED BY <2>1
<1>2. IsWellFoundedOn(Less, Nat)
  BY NatLessThanWellFounded
<1>3. \A a, b \in Nat : a < b => <<a, b>> \in Less
  BY DEF OpToRel
<1> HIDE DEF Less, T
<1>4. PICK t \in T : \A u \in T : ~(<<u, t>> \in Less)
  BY <1>1, <1>2, WFMin
<1>5. PICK x \in S : t = n - x
  BY <1>4 DEF T
<1>6. ASSUME NEW y \in S  PROVE x >= y
  <2>1. n - y \in T
    BY DEF T
  <2>2. ~(n - y < t)
    BY <1>1, <1>3, <1>4, <2>1
  <2> QED BY <1>5, <2>2
<1> QED BY <1>6

LEMMA LastPageIs ==
  ASSUME NEW n \in Nat, NEW S, S \subseteq 1 .. n, S # {}
  PROVE  Task!Max(S) \in S
<1>1. \E x \in S : \A y \in S : x >= y
  BY LastPage
<1> QED BY <1>1 DEF Task!Max

LEMMA TaskBounds == {MaxSteps, MaxErrors, MaxPages, Room} \subseteq Nat
BY ConsoleAssumptions DEF Task!BoundsAreNatural

LEMMA ListsHavePages ==
  ASSUME world \in WorldRow, NEW tool, NEW list
  PROVE  Task!PagesOf(tool, list) \in Nat \ {0}
<1>1. Task!Found(list) \in Nat
  BY DEF Task!Found, WorldRow
<1> DEFINE n == Task!Found(list)
<1>2. Task!Max({1, n}) \in Nat \ {0}
  <2> n \in Nat
    BY <1>1
  <2> HIDE DEF n
  <2>1. \E x \in {1, n} : \A y \in {1, n} : x >= y
    <3>1. CASE n >= 1
      BY <3>1
    <3>2. CASE ~(n >= 1)
      BY <3>2
    <3> QED BY <3>1, <3>2
  <2>2. Task!Max({1, n}) \in {1, n} /\ \A y \in {1, n} : Task!Max({1, n}) >= y
    BY <2>1 DEF Task!Max
  <2> QED BY <2>2
<1>3. world.talk \in Nat \ {0}
  BY DEF WorldRow
<1> QED BY <1>2, <1>3 DEF Task!PagesOf

(* incomplete_pages: what it lets pass is every page of the list.          *)
LEMMA AllPagesRead ==
  ASSUME TaskTypes, NEW reads,
         \A r \in reads : /\ r.page \in 1 .. Task!PagesOf(r.tool, r.of)
                          /\ ~r.more => r.page = Task!PagesOf(r.tool, r.of),
         \A r, s \in reads : r.tool = s.tool,
         ~Task!IsIncomplete(reads), NEW o \in reads
  PROVE  {r.page : r \in {r \in reads : r.of = o.of}} = 1 .. Task!PagesOf(o.tool, o.of)
<1> DEFINE pages == {r.page : r \in {r \in reads : r.of = o.of}}
           n == Task!PagesOf(o.tool, o.of)
<1>1. n \in Nat
  BY ListsHavePages DEF TaskTypes
<1>2. \A r \in reads : r.of = o.of => Task!PagesOf(r.tool, r.of) = n
  OBVIOUS
<1>3. pages \subseteq 1 .. n /\ pages # {}
  BY <1>2
<1>4. Task!Max(pages) \in pages
  <2> HIDE DEF pages, n
  <2> QED BY <1>1, <1>3, LastPageIs
<1>5. PICK last \in reads : last.of = o.of /\ last.page = Task!Max(pages)
  BY <1>4
<1>6. {r.page : r \in {r \in reads : r.of = last.of}} = pages
  BY <1>5
<1>7. ~last.more /\ pages = 1 .. last.page
  BY <1>5, <1>6 DEF Task!IsIncomplete
<1>8. last.page = n
  BY <1>2, <1>5, <1>7
<1> QED BY <1>7, <1>8
-----------------------------------------------------------------------------
(* The steps.  The goals and what is stored stay.                          *)
LEMMA StoredStays ==
  ASSUME UNCHANGED <<goals, world>>
  PROVE  \A tool, list : Task!PagesOf(tool, list)' = Task!PagesOf(tool, list)
BY DEF Task!PagesOf, Task!Found

LEMMA ObservationIs ==
  ASSUME TaskTypes, NEW call \in CallTo, NEW error \in BOOLEAN
  PROVE  /\ Task!Observation(call, error) \in ObsRow
         /\ Task!Observation(call, error).tool = call.tool
         /\ Task!Observation(call, error).goal = call.goal
         /\ Task!Observation(call, error).of = call.of
         /\ Task!Observation(call, error).page = call.page
         /\ Task!Observation(call, error).error = error
         /\ ~error /\ ~Task!Observation(call, error).more => ~(call.page < Task!PagesOf(call.tool, call.of))
<1> DEFINE more == ~error /\ call.page < Task!PagesOf(call.tool, call.of)
           total == IF call.tool = "search" /\ ~error THEN Task!Found(call.of) ELSE 0
<1>1. more \in BOOLEAN
  OBVIOUS
<1>2. total \in Nat
  BY DEF TaskTypes, WorldRow, Task!Found
<1>3. Task!Observation(call, error) =
         [tool |-> call.tool, goal |-> call.goal, of |-> call.of, page |-> call.page,
          more |-> more, total |-> total, error |-> error]
  BY DEF Task!Observation
<1>4. ~error /\ ~more => ~(call.page < Task!PagesOf(call.tool, call.of))
  OBVIOUS
<1> HIDE DEF more, total
<1> QED BY <1>1, <1>2, <1>3, <1>4 DEF CallTo, ObsRow

Follows(call, error) ==
  /\ obs' \in Seq(ObsRow) /\ Len(obs') = Len(obs) + 1
  /\ \A i \in 1 .. Len(obs) : obs'[i] = obs[i]
  /\ obs'[Len(obs) + 1].tool = call.tool /\ obs'[Len(obs) + 1].goal = call.goal
  /\ obs'[Len(obs) + 1].error = error
  /\ PagesAreThere' /\ CutIsMarked' /\ OutcomesStand' /\ cut' \in BOOLEAN

LEMMA Observed ==
  ASSUME TaskInv, phase = "loop", UNCHANGED <<goals, world, phase, outcomes>>,
         NEW call \in CallTo, call.goal \in 1 .. Len(goals), call.page \in 1 .. Task!PagesOf(call.tool, call.of),
         NEW error \in BOOLEAN, Task!Observe(call, error)
  PROVE  Follows(call, error)
<1> DEFINE o == Task!Observation(call, error)
<1>1. /\ o \in ObsRow /\ o.tool = call.tool /\ o.goal = call.goal /\ o.of = call.of /\ o.page = call.page
      /\ o.error = error /\ (~error /\ ~o.more => ~(call.page < Task!PagesOf(call.tool, call.of)))
  BY ObservationIs DEF TaskInv
<1>2. obs' = Append(obs, o) /\ cut' = (cut \/ Task!Truncates(obs'))
  BY DEF Task!Observe
<1> HIDE DEF o
<1>3. obs \in Seq(ObsRow) /\ Len(obs) \in Nat /\ world \in WorldRow
  BY DEF TaskInv, TaskTypes
<1>4. /\ obs' \in Seq(ObsRow) /\ Len(obs') = Len(obs) + 1
      /\ \A i \in 1 .. Len(obs) : obs'[i] = obs[i]
      /\ obs'[Len(obs) + 1] = o
  BY <1>1, <1>2, <1>3
<1>5. \A i \in 1 .. Len(obs') : i \in 1 .. Len(obs) \/ i = Len(obs) + 1
  BY <1>3, <1>4
<1>6. Task!PagesOf(call.tool, call.of) \in Nat /\ \A t, l : Task!PagesOf(t, l)' = Task!PagesOf(t, l)
  BY <1>3, ListsHavePages, StoredStays
<1>7. PagesAreThere'
  <2> SUFFICES ASSUME NEW i \in 1 .. Len(obs')
               PROVE  /\ obs'[i].goal \in 1 .. Len(goals)
                      /\ obs'[i].page \in 1 .. Task!PagesOf(obs'[i].tool, obs'[i].of)
                      /\ ~obs'[i].error /\ ~obs'[i].more => obs'[i].page = Task!PagesOf(obs'[i].tool, obs'[i].of)
    BY <1>6 DEF PagesAreThere
  <2>1. CASE i \in 1 .. Len(obs)
    BY <1>4, <2>1 DEF TaskInv, PagesAreThere
  <2>2. CASE i = Len(obs) + 1
    <3>1. obs'[i] = o
      BY <1>4, <2>2
    <3>2. ~error /\ ~o.more => call.page = Task!PagesOf(call.tool, call.of)
      BY <1>1, <1>6
    <3> QED BY <1>1, <3>1, <3>2
  <2> QED BY <1>5, <2>1, <2>2
<1>8. CutIsMarked' /\ cut' \in BOOLEAN
  <2>1. Task!Truncates(obs)' = Task!Truncates(obs')
    BY DEF Task!Truncates, Task!Range
  <2> QED BY <1>2, <2>1 DEF CutIsMarked
<1>9. OutcomesStand'
  BY DEF TaskInv, OutcomesStand
<1> QED BY <1>1, <1>4, <1>7, <1>8, <1>9 DEF Follows

LEMMA PausedAre ==
  ASSUME TaskTypes
  PROVE  /\ Task!Paused(cards) \subseteq CardRows
         /\ \A c \in cards : \E d \in Task!Paused(cards) : d.kind = c.kind /\ d.goal = c.goal
         /\ \A d \in Task!Paused(cards) : \E c \in cards : d.kind = c.kind /\ d.goal = c.goal
<1> DEFINE pause(c) == IF c.status = "open" THEN [c EXCEPT !.status = "paused"] ELSE c
<1>1. \A c \in cards : pause(c) \in CardRows /\ pause(c).kind = c.kind /\ pause(c).goal = c.goal
  BY DEF TaskTypes, CardRows
<1>2. Task!Paused(cards) = {pause(c) : c \in cards}
  BY DEF Task!Paused
<1> HIDE DEF pause
<1> QED BY <1>1, <1>2

LEMMA StateStays ==
  ASSUME UNCHANGED <<goals, obs, cut>>
  PROVE  \A g, evidence : Task!Limited(Task!State(g, evidence))' = Task!Limited(Task!State(g, evidence))
<1>1. \A evidence : Task!Cited(evidence)' = Task!Cited(evidence)
  BY DEF Task!Cited
<1>2. \A g, evidence : Task!Borrowed(g, evidence)' = Task!Borrowed(g, evidence)
  BY DEF Task!Borrowed, Task!Cited
<1>3. ASSUME NEW g, NEW evidence  PROVE Task!State(g, evidence)' = Task!State(g, evidence)
  BY DEF Task!State, Task!Borrowed, Task!Cited, Task!Tool, Task!Where, Task!IsIncomplete, Task!Inbox, Task!Drafted,
         Task!Of, Task!Max
<1> QED BY <1>3 DEF Task!Limited

LEMMA ReadableAre ==
  ASSUME TaskInv, NEW call \in Task!Readable
  PROVE  /\ call \in CallTo /\ call.goal \in 1 .. Len(goals) /\ call.tool # "prepare"
         /\ call.page \in 1 .. Task!PagesOf(call.tool, call.of)
<1>1. PICK g \in 1 .. Len(goals) : \E t \in Task!Useful(g) : \E l \in Task!Lists(t) :
         \E p \in 1 .. Task!PagesOf(t, l) : call = Task!Fingerprint(t, g, l, p)
  BY DEF Task!Readable, Task!Goals
<1>a. PICK t \in Task!Useful(g) : \E l \in Task!Lists(t) :
         \E p \in 1 .. Task!PagesOf(t, l) : call = Task!Fingerprint(t, g, l, p)
  BY <1>1
<1>b. PICK l \in Task!Lists(t) : \E p \in 1 .. Task!PagesOf(t, l) : call = Task!Fingerprint(t, g, l, p)
  BY <1>a
<1>c. PICK p \in 1 .. Task!PagesOf(t, l) : call = Task!Fingerprint(t, g, l, p)
  BY <1>b
<1>2. t \in {"search", "conversation", "request", "delivery", "analytics"}
  BY DEF Task!Useful, Task!Paged
<1>3. l \in ListNames
  <2>1. \A n \in 1 .. MaxPages : Task!Of("inbox", n) \in ListNames
    BY TaskBounds DEF ListNames, Task!Of
  <2>2. Task!Inbox \in ListNames /\ Task!Drafted \in ListNames /\ Task!Of("requests", 1) \in ListNames /\ Task!Nothing \in ListNames
    BY DEF ListNames, Task!Of, Task!Inbox, Task!Drafted, Task!Nothing
  <2> QED BY <1>2, <2>1, <2>2 DEF Task!Lists
<1>4. Task!PagesOf(t, l) \in Nat /\ Len(goals) \in Nat
  BY ListsHavePages DEF TaskInv, TaskTypes
<1>5. call.tool = t /\ call.goal = g /\ call.of = l /\ call.page = p /\ call = [tool |-> t, goal |-> g, of |-> l, page |-> p]
  BY <1>c DEF Task!Fingerprint
<1> QED BY <1>2, <1>3, <1>4, <1>5 DEF CallTo, Tools

(* A step that reads nothing and leaves the cards alone.                   *)
LEMMA NothingSeen ==
  ASSUME TaskInv, UNCHANGED <<goals, world, obs, cut, outcomes, cards>>, steps' \in 0 .. MaxSteps,
         phase' = phase \/ (phase = "loop" /\ phase' = "broken")
  PROVE  TaskInv'
<1>1. TaskTypes'
  BY DEF TaskInv, TaskTypes
<1>2. PagesAreThere'
  BY StoredStays DEF TaskInv, PagesAreThere
<1>3. CutIsMarked'
  BY DEF TaskInv, CutIsMarked, Task!Truncates, Task!Range
<1>4. OutcomesStand'
  BY StateStays DEF TaskInv, OutcomesStand, Task!Blank
<1>5. ReviewsAreMade'
  BY DEF TaskInv, TaskTypes, ReviewsAreMade, Prepared
<1>6. ReviewsAreInFront'
  BY DEF TaskInv, TaskTypes, ReviewsAreInFront, Prepared, Botched
<1> QED BY <1>1, <1>2, <1>3, <1>4, <1>5, <1>6 DEF TaskInv

LEMMA StepCounts ==
  ASSUME TaskInv, Task!Step
  PROVE  phase = "loop" /\ steps' \in 0 .. MaxSteps /\ UNCHANGED <<goals, world>>
BY TaskBounds DEF TaskInv, TaskTypes, Task!Step

LEMMA QuietHolds ==
  ASSUME TaskInv, Task!Repair \/ Task!Stop \/ (\E call \in Task!Readable : Task!ReadUnknown(call))
                    \/ (\E g \in Task!Goals : Task!PrepareRefused(g))
  PROVE  TaskInv'
<1>1. UNCHANGED <<goals, world, obs, cut, outcomes, cards>> /\ steps' \in 0 .. MaxSteps
      /\ (phase' = phase \/ (phase = "loop" /\ phase' = "broken"))
  BY StepCounts DEF Task!Repair, Task!Stop, Task!ReadUnknown, Task!PrepareRefused, TaskInv, TaskTypes
<1> QED BY <1>1, NothingSeen

(* A task that fails leaves only the cards of before.                      *)
LEMMA FailHolds ==
  ASSUME TaskInv, Task!Fail, UNCHANGED <<goals, world>>, steps' \in 0 .. MaxSteps
  PROVE  TaskInv'
<1>1. phase' = "failed" /\ cards' \subseteq cards /\ UNCHANGED <<obs, cut, outcomes>>
  BY DEF Task!Fail
<1>2. TaskTypes'
  BY <1>1 DEF TaskInv, TaskTypes
<1>3. PagesAreThere'
  BY <1>1, StoredStays DEF TaskInv, PagesAreThere
<1>4. CutIsMarked'
  BY <1>1 DEF TaskInv, CutIsMarked, Task!Truncates, Task!Range
<1>5. OutcomesStand'
  BY <1>1, StateStays DEF TaskInv, OutcomesStand, Task!Blank
<1> QED BY <1>1, <1>2, <1>3, <1>4, <1>5 DEF TaskInv, ReviewsAreMade, ReviewsAreInFront

LEMMA TaskReadHolds ==
  ASSUME TaskInv, NEW call \in Task!Readable, Task!Read(call)
  PROVE  TaskInv'
<1>1. PICK error \in BOOLEAN : Task!Observe(call, error)
  BY DEF Task!Read
<1>2. /\ phase = "loop" /\ steps' \in 0 .. MaxSteps /\ UNCHANGED <<goals, world, cards, phase, outcomes>>
      /\ call.tool # "prepare"
  BY <1>1, StepCounts, ReadableAre DEF Task!Read, Task!Observe
<1>3. Follows(call, error)
  BY <1>1, <1>2, Observed, ReadableAre
<1>4. /\ obs \in Seq(ObsRow) /\ obs' \in Seq(ObsRow) /\ Len(obs') = Len(obs) + 1
      /\ \A i \in 1 .. Len(obs) : obs'[i] = obs[i]
      /\ obs'[Len(obs) + 1].tool # "prepare"
  BY <1>2, <1>3 DEF Follows, TaskInv, TaskTypes
<1>5. \A i \in 1 .. Len(obs') : i \in 1 .. Len(obs) \/ i = Len(obs) + 1
  BY <1>4
<1>6. \A i \in 1 .. Len(obs) : i \in 1 .. Len(obs')
  BY <1>4
<1>7. TaskTypes'
  BY <1>2, <1>3 DEF TaskInv, TaskTypes, Follows
<1>8. ReviewsAreMade'
  BY <1>2, <1>4, <1>5 DEF TaskInv, ReviewsAreMade, Prepared
<1>9. ReviewsAreInFront'
  BY <1>2, <1>4, <1>6 DEF TaskInv, ReviewsAreInFront, Prepared, Botched
<1> QED BY <1>3, <1>7, <1>8, <1>9 DEF TaskInv, Follows

(* What a preparation asks for.                                            *)
LEMMA PreparingIs ==
  ASSUME TaskInv, NEW g \in 1 .. Len(goals)
  PROVE  /\ Task!Preparing(g) \in CallTo /\ Task!Preparing(g).goal = g /\ Task!Preparing(g).tool = "prepare"
         /\ Task!Preparing(g).page \in 1 .. Task!PagesOf(Task!Preparing(g).tool, Task!Preparing(g).of)
<1>1. Task!Nothing \in ListNames
  BY DEF ListNames, Task!Of, Task!Nothing
<1>2. g \in Nat
  BY DEF TaskInv, TaskTypes
<1>3. \A tool, list : Task!PagesOf(tool, list) \in Nat \ {0}
  BY ListsHavePages DEF TaskInv, TaskTypes
<1>4. \A tool, list : 1 \in 1 .. Task!PagesOf(tool, list)
  BY <1>3
<1> QED BY <1>1, <1>2, <1>4 DEF Task!Preparing, Task!Fingerprint, CallTo, Tools

LEMMA PrepareHolds ==
  ASSUME TaskInv, NEW g \in 1 .. Len(goals), Task!Prepare(g)
  PROVE  TaskInv'
<1> DEFINE new == Task!Card("review", g, "prepare", "open")
<1>1. /\ phase = "loop" /\ steps' \in 0 .. MaxSteps /\ UNCHANGED <<goals, world, phase, outcomes>>
      /\ cards' = Task!Paused(cards) \cup {new} /\ Task!Observe(Task!Preparing(g), FALSE)
  BY StepCounts DEF Task!Prepare, Task!Observe
<1>2. Follows(Task!Preparing(g), FALSE)
  BY <1>1, Observed, PreparingIs
<1>3. /\ obs \in Seq(ObsRow) /\ obs' \in Seq(ObsRow) /\ Len(obs') = Len(obs) + 1
      /\ \A i \in 1 .. Len(obs) : obs'[i] = obs[i]
      /\ obs'[Len(obs) + 1].tool = "prepare" /\ ~obs'[Len(obs) + 1].error /\ obs'[Len(obs) + 1].goal = g
  BY <1>2, PreparingIs DEF Follows, TaskInv, TaskTypes
<1>4. \A i \in 1 .. Len(obs') : i \in 1 .. Len(obs) \/ i = Len(obs) + 1
  BY <1>3
<1>5. new \in CardRows /\ new.kind = "review" /\ new.goal = g /\ new.status = "open"
  BY DEF Task!Card, CardRows, Tools, TaskInv, TaskTypes
<1> HIDE DEF new
<1>6. /\ cards' \subseteq CardRows /\ new \in cards'
      /\ \A c \in cards : \E d \in cards' : d.kind = c.kind /\ d.goal = c.goal
  BY <1>1, <1>5, PausedAre DEF TaskInv
<1>7. TaskTypes'
  BY <1>1, <1>2, <1>6 DEF TaskInv, TaskTypes, Follows
<1>8. ReviewsAreMade'
  <2> SUFFICES ASSUME NEW i \in 1 .. Len(obs'), Prepared(i)'
               PROVE  \E c \in cards' : c.kind = "review" /\ c.goal = obs'[i].goal
    BY DEF ReviewsAreMade
  <2>1. CASE i \in 1 .. Len(obs)
    <3>1. Prepared(i)
      BY <1>3, <2>1 DEF Prepared
    <3>2. PICK c \in cards : c.kind = "review" /\ c.goal = obs[i].goal
      BY <1>1, <2>1, <3>1 DEF TaskInv, ReviewsAreMade
    <3> QED BY <1>3, <1>6, <2>1, <3>2
  <2>2. CASE i = Len(obs) + 1
    BY <1>3, <1>5, <1>6, <2>2
  <2> QED BY <1>4, <2>1, <2>2
<1>9. ReviewsAreInFront'
  <2>1. Len(obs) + 1 \in 1 .. Len(obs')
    BY <1>3
  <2>2. \E i \in 1 .. Len(obs') : obs'[i].tool = "prepare" /\ ~obs'[i].error
    BY <1>3, <2>1
  <2> QED BY <1>5, <1>6, <2>2 DEF ReviewsAreInFront, Prepared, Botched
<1> QED BY <1>2, <1>7, <1>8, <1>9 DEF TaskInv, Follows

LEMMA PrepareFailsHolds ==
  ASSUME TaskInv, NEW g \in 1 .. Len(goals), Task!PrepareFails(g)
  PROVE  TaskInv'
<1>1. /\ phase = "loop" /\ steps' \in 0 .. MaxSteps /\ UNCHANGED <<goals, world, phase, outcomes>>
      /\ cards' \in {cards, Task!Paused(cards)} /\ Task!Observe(Task!Preparing(g), TRUE)
  BY StepCounts DEF Task!PrepareFails, Task!Observe
<1>2. Follows(Task!Preparing(g), TRUE)
  BY <1>1, Observed, PreparingIs
<1>3. /\ obs \in Seq(ObsRow) /\ obs' \in Seq(ObsRow) /\ Len(obs') = Len(obs) + 1
      /\ \A i \in 1 .. Len(obs) : obs'[i] = obs[i]
      /\ obs'[Len(obs) + 1].tool = "prepare" /\ obs'[Len(obs) + 1].error
  BY <1>2, PreparingIs DEF Follows, TaskInv, TaskTypes
<1>4. \A i \in 1 .. Len(obs') : i \in 1 .. Len(obs) \/ i = Len(obs) + 1
  BY <1>3
<1>6. /\ cards' \subseteq CardRows
      /\ \A c \in cards : \E d \in cards' : d.kind = c.kind /\ d.goal = c.goal
      /\ \A d \in cards' : \E c \in cards : d.kind = c.kind /\ d.goal = c.goal
  BY <1>1, PausedAre DEF TaskInv, TaskTypes
<1>7. TaskTypes'
  BY <1>1, <1>2, <1>6 DEF TaskInv, TaskTypes, Follows
<1>8. ReviewsAreMade'
  <2> SUFFICES ASSUME NEW i \in 1 .. Len(obs'), Prepared(i)'
               PROVE  \E c \in cards' : c.kind = "review" /\ c.goal = obs'[i].goal
    BY DEF ReviewsAreMade
  <2>1. i \in 1 .. Len(obs)
    BY <1>3, <1>4 DEF Prepared
  <2>2. Prepared(i)
    BY <1>3, <2>1 DEF Prepared
  <2>3. PICK c \in cards : c.kind = "review" /\ c.goal = obs[i].goal
    BY <1>1, <2>1, <2>2 DEF TaskInv, ReviewsAreMade
  <2> QED BY <1>3, <1>6, <2>1, <2>3
<1>9. ReviewsAreInFront'
  <2> SUFFICES ASSUME NEW d \in cards', d.kind = "review"
               PROVE  /\ \E i \in 1 .. Len(obs') : obs'[i].tool = "prepare" /\ ~obs'[i].error
                      /\ \E i \in 1 .. Len(obs') : obs'[i].tool = "prepare" /\ obs'[i].error
    BY DEF ReviewsAreInFront, Prepared, Botched
  <2>1. \E c \in cards : c.kind = "review"
    BY <1>6
  <2>2. PICK i \in 1 .. Len(obs) : Prepared(i)
    BY <1>1, <2>1 DEF TaskInv, ReviewsAreInFront
  <2>3. Len(obs) + 1 \in 1 .. Len(obs') /\ i \in 1 .. Len(obs')
    BY <1>3
  <2>4. obs'[i].tool = "prepare" /\ ~obs'[i].error
    BY <1>3, <2>2 DEF Prepared
  <2> QED BY <1>3, <2>3, <2>4
<1> QED BY <1>2, <1>7, <1>8, <1>9 DEF TaskInv, Follows

LEMMA FinishHolds ==
  ASSUME TaskInv, NEW given \in Task!Answers, Task!Finish(given)
  PROVE  TaskInv'
<1>1. /\ phase = "loop" /\ steps' \in 0 .. MaxSteps /\ phase' = "accepted"
      /\ UNCHANGED <<goals, world, obs, cut, cards>>
      /\ outcomes' = [g \in 1 .. Len(goals) |-> [status |-> Task!Limited(Task!State(g, given[g])),
                                                 evidence |-> given[g]]]
  BY StepCounts DEF Task!Finish, Task!Goals
<1>2. TaskTypes'
  BY <1>1 DEF TaskInv, TaskTypes
<1>3. PagesAreThere'
  BY <1>1, StoredStays DEF TaskInv, PagesAreThere
<1>4. CutIsMarked'
  BY <1>1 DEF TaskInv, CutIsMarked, Task!Truncates, Task!Range
<1>5. OutcomesStand'
  <2>1. ASSUME NEW g \in 1 .. Len(goals)
        PROVE  /\ outcomes'[g].evidence \subseteq 1 .. Len(obs)
               /\ outcomes'[g].status = Task!Limited(Task!State(g, outcomes'[g].evidence))
    <3>1. outcomes'[g].evidence = given[g] /\ outcomes'[g].status = Task!Limited(Task!State(g, given[g]))
      BY <1>1
    <3>2. given[g] \subseteq 1 .. Len(obs)
      BY DEF Task!Answers, Task!Goals, TaskInv, TaskTypes
    <3> QED BY <3>1, <3>2
  <2> QED BY <1>1, <2>1, StateStays DEF OutcomesStand
<1>6. ReviewsAreMade' /\ ReviewsAreInFront'
  BY <1>1 DEF TaskInv, ReviewsAreMade, ReviewsAreInFront, Prepared, Botched
<1> QED BY <1>2, <1>3, <1>4, <1>5, <1>6 DEF TaskInv

(* present adds views only where no change was prepared.                   *)
LEMMA PresentedAre ==
  ASSUME TaskInv, phase # "failed"
  PROVE  /\ Task!Presented \subseteq CardRows
         /\ \A c \in cards : \E d \in Task!Presented : d.kind = c.kind /\ d.goal = c.goal
         /\ (\E c \in cards : c.kind = "review") => Task!Presented = cards
         /\ (\E d \in Task!Presented : d.kind = "review") => \E c \in cards : c.kind = "review"
<1> DEFINE place(v) == IF \A w \in Task!Views : Task!First(w[1], w[2]) <= Task!First(v[1], v[2]) THEN "open" ELSE "paused"
           views == {Task!Card("view", v[1], v[2], place(v)) : v \in Task!Views}
<1>1. \A v \in Task!Views : place(v) \in {"open", "paused"} /\ v[1] \in Nat /\ v[2] \in Tools
  <2>1. \A v \in Task!Views : \E o \in Task!Range(obs) : v = <<o.goal, o.tool>>
    BY DEF Task!Views
  <2>2. Task!Range(obs) \subseteq ObsRow
    BY DEF TaskInv, TaskTypes, Task!Range
  <2> QED BY <2>1, <2>2 DEF ObsRow
<1> HIDE DEF place
<1>2. views \subseteq CardRows /\ \A d \in views : d.kind = "view"
  BY <1>1 DEF Task!Card, CardRows
<1>3. Task!Presented = IF Task!HasPrepared \/ Task!Views = {} THEN cards ELSE Task!Paused(cards) \cup views
  BY DEF Task!Presented, place
<1> HIDE DEF views
<1>4. (\E c \in cards : c.kind = "review") => Task!HasPrepared
  <2>1. ASSUME NEW i \in 1 .. Len(obs), Prepared(i)  PROVE Task!HasPrepared
    <3>1. obs[i] \in Task!Range(obs)
      BY DEF Task!Range, TaskInv, TaskTypes
    <3> QED BY <2>1, <3>1 DEF Prepared, Task!HasPrepared
  <2> QED BY <2>1 DEF TaskInv, ReviewsAreInFront
<1>5. TaskTypes /\ cards \subseteq CardRows
  BY DEF TaskInv, TaskTypes
<1>6. CASE Task!HasPrepared \/ Task!Views = {}
  BY <1>3, <1>5, <1>6
<1>7. CASE ~(Task!HasPrepared \/ Task!Views = {})
  BY <1>2, <1>3, <1>4, <1>5, <1>7, PausedAre
<1> QED BY <1>6, <1>7

LEMMA PresentHolds ==
  ASSUME TaskInv, Task!Present
  PROVE  TaskInv'
<1>1. phase \in {"loop", "broken", "accepted"} /\ UNCHANGED <<goals, world, steps>>
  BY DEF Task!Present
<1>2. CASE Task!Fail
  BY <1>1, <1>2, FailHolds DEF TaskInv, TaskTypes
<1>3. CASE ~Task!Fail
  <2>1. phase' = "done" /\ cards' = Task!Presented /\ UNCHANGED <<obs, refused, cut, outcomes>>
    BY <1>3 DEF Task!Present
  <2>2. /\ cards' \subseteq CardRows
        /\ \A c \in cards : \E d \in cards' : d.kind = c.kind /\ d.goal = c.goal
        /\ (\E c \in cards : c.kind = "review") => cards' = cards
        /\ (\E d \in cards' : d.kind = "review") => \E c \in cards : c.kind = "review"
    BY <1>1, <2>1, PresentedAre
  <2>3. TaskTypes'
    BY <1>1, <2>1, <2>2 DEF TaskInv, TaskTypes
  <2>4. PagesAreThere'
    BY <1>1, <2>1, StoredStays DEF TaskInv, PagesAreThere
  <2>5. CutIsMarked'
    BY <1>1, <2>1 DEF TaskInv, CutIsMarked, Task!Truncates, Task!Range
  <2>6. OutcomesStand'
    BY <1>1, <2>1, StateStays DEF TaskInv, OutcomesStand, Task!Blank
  <2>7. ReviewsAreMade'
    <3> SUFFICES ASSUME NEW i \in 1 .. Len(obs), Prepared(i)
                 PROVE  \E c \in cards' : c.kind = "review" /\ c.goal = obs[i].goal
      BY <2>1 DEF ReviewsAreMade, Prepared
    <3>1. PICK c \in cards : c.kind = "review" /\ c.goal = obs[i].goal
      BY <1>1 DEF TaskInv, ReviewsAreMade
    <3> QED BY <2>2, <3>1
  <2>8. ReviewsAreInFront'
    <3> SUFFICES ASSUME \E d \in cards' : d.kind = "review"  PROVE ReviewsAreInFront'
      BY DEF ReviewsAreInFront
    <3>1. cards' = cards /\ \E c \in cards : c.kind = "review"
      BY <2>2
    <3> QED BY <1>1, <2>1, <3>1 DEF TaskInv, ReviewsAreInFront, Prepared, Botched
  <2> QED BY <2>3, <2>4, <2>5, <2>6, <2>7, <2>8 DEF TaskInv
<1> QED BY <1>2, <1>3
-----------------------------------------------------------------------------
LEMMA TaskBegins == Task!Init => TaskInv
<1> SUFFICES ASSUME Task!Init  PROVE TaskInv
  OBVIOUS
<1>1. /\ goals \in GoalLists /\ world \in Worlds /\ steps = 0 /\ obs = <<>> /\ cut = FALSE /\ phase = "loop"
      /\ outcomes = [g \in 1 .. Len(goals) |-> Task!Blank]
      /\ cards = IF world.card = "none" THEN {} ELSE {Task!Card("old", 0, "none", world.card)}
  BY DEF Task!Init, Task!Goals
<1>2. goals \in Seq(Task!Kinds) /\ world \in WorldRow
  BY <1>1, ConsoleAssumptions DEF Task!TasksAreStored, WorldRow
<1>3. cards \subseteq CardRows /\ \A c \in cards : c.kind = "old"
  BY <1>1, <1>2 DEF WorldRow, CardRows, Tools, Task!Card
<1>4. TaskTypes
  <2>1. obs \in Seq(ObsRow)
    BY <1>1
  <2>2. steps \in 0 .. MaxSteps
    BY <1>1, TaskBounds
  <2>3. cut \in BOOLEAN
    BY <1>1
  <2> QED BY <1>1, <1>2, <1>3, <2>1, <2>2, <2>3 DEF TaskTypes
<1>5. CutIsMarked
  <2>1. Task!Range(<<>>) = {}
    BY DEF Task!Range
  <2>2. Len(obs) = 0 /\ ~(0 > Room)
    BY <1>1, TaskBounds
  <2> QED BY <1>1, <2>1, <2>2 DEF CutIsMarked, Task!Truncates
<1>6. PagesAreThere /\ OutcomesStand /\ ReviewsAreMade /\ ReviewsAreInFront
  BY <1>1, <1>3 DEF PagesAreThere, OutcomesStand, ReviewsAreMade, ReviewsAreInFront
<1> QED BY <1>4, <1>5, <1>6 DEF TaskInv

LEMMA TaskMoves ==
  ASSUME TaskInv, Task!Next
  PROVE  TaskInv'
<1>1. CASE \E g \in Task!Goals : Task!PrepareConflicts(g)
  <2>1. Task!Fail /\ Task!Step
    BY <1>1 DEF Task!PrepareConflicts
  <2> QED BY <2>1, FailHolds, StepCounts
<1>2. CASE \E a \in Task!Answers : Task!FinishUnannounced(a)
  <2>1. Task!Fail /\ Task!Step
    BY <1>2 DEF Task!FinishUnannounced
  <2> QED BY <2>1, FailHolds, StepCounts
<1>3. CASE \E a \in Task!Answers : Task!Finish(a)
  BY <1>3, FinishHolds
<1>4. CASE \E g \in Task!Goals : Task!Prepare(g) \/ Task!PrepareFails(g)
  BY <1>4, PrepareHolds, PrepareFailsHolds DEF Task!Goals
<1>5. CASE \E call \in Task!Readable : Task!Read(call)
  BY <1>5, TaskReadHolds
<1> QED BY <1>1, <1>2, <1>3, <1>4, <1>5, QuietHolds, PresentHolds DEF Task!Next

LEMMA TaskRests ==
  ASSUME TaskInv, UNCHANGED taskVars
  PROVE  TaskInv'
BY NothingSeen DEF taskVars, TaskInv, TaskTypes

LEMMA TaskAlways == ConsoleSpec => []TaskInv
<1>1. ConsoleInit => TaskInv
  BY TaskBegins DEF ConsoleInit
<1>2. TaskInv /\ ConsoleNext => TaskInv'
  BY TaskMoves, TaskRests DEF ConsoleNext
<1>3. TaskInv /\ UNCHANGED <<area, vars, sessionVars, chatVars, taskVars>> => TaskInv'
  BY TaskRests
<1> QED BY <1>1, <1>2, <1>3, PTL DEF ConsoleSpec

(* The evidence of a goal that is completed.                               *)
LEMMA CompletedIsRead ==
  ASSUME TaskInv, NEW g \in 1 .. Len(goals), outcomes[g].status = "completed"
  PROVE  /\ ~cut /\ goals[g] \notin {"workflow", "unsupported"}
         /\ LET read == {o \in Task!Cited(outcomes[g].evidence) : o.tool = Task!Tool(goals[g]) /\ ~o.error}
            IN /\ read # {}
               /\ \A o \in read : {r.page : r \in {r \in read : r.of = o.of}} = 1 .. Task!PagesOf(o.tool, o.of)
<1> DEFINE evidence == outcomes[g].evidence
           read == {o \in Task!Cited(evidence) : o.tool = Task!Tool(goals[g]) /\ ~o.error}
<1>1. /\ evidence \subseteq 1 .. Len(obs)
      /\ Task!Limited(Task!State(g, evidence)) = "completed"
  BY DEF TaskInv, OutcomesStand, Task!Blank
<1>2. ~cut /\ Task!State(g, evidence) = "completed"
  BY <1>1 DEF Task!Limited
<1> HIDE DEF evidence
<1>3. goals[g] \notin {"workflow", "unsupported"} /\ read # {} /\ ~Task!IsIncomplete(read)
  <2> DEFINE incomplete == Task!IsIncomplete(read)
  <2> HIDE DEF read, incomplete
  <2>1. Task!State(g, evidence) # "completed" \/
          (goals[g] \notin {"workflow", "unsupported"} /\ read # {} /\ ~incomplete)
    BY DEF Task!State, read, incomplete
  <2> QED BY <1>2, <2>1 DEF incomplete
<1>4. \A o \in read : \E i \in 1 .. Len(obs) : o = obs[i] /\ ~o.error
  BY <1>1 DEF Task!Cited
<1>5. \A r \in read : /\ r.page \in 1 .. Task!PagesOf(r.tool, r.of)
                      /\ ~r.more => r.page = Task!PagesOf(r.tool, r.of)
  BY <1>4 DEF TaskInv, PagesAreThere
<1>6. \A r, s \in read : r.tool = s.tool
  OBVIOUS
<1> HIDE DEF read
<1>7. \A o \in read : {r.page : r \in {r \in read : r.of = o.of}} = 1 .. Task!PagesOf(o.tool, o.of)
  BY <1>3, <1>5, <1>6, AllPagesRead DEF TaskInv
<1> QED BY <1>2, <1>3, <1>7 DEF read, evidence

(* The evidence of a goal that waits for a review.                         *)
LEMMA AwaitedIsPrepared ==
  ASSUME TaskInv, NEW g \in 1 .. Len(goals), outcomes[g].status = "awaiting_review"
  PROVE  \E i \in 1 .. Len(obs) : Prepared(i) /\ obs[i].goal = g
<1> DEFINE evidence == outcomes[g].evidence
<1>1. /\ evidence \subseteq 1 .. Len(obs)
      /\ Task!Limited(Task!State(g, evidence)) = "awaiting_review"
  BY DEF TaskInv, OutcomesStand, Task!Blank
<1>2. Task!State(g, evidence) = "awaiting_review"
  BY <1>1 DEF Task!Limited
<1> HIDE DEF evidence
<1>3. /\ goals[g] = "workflow" /\ ~Task!Borrowed(g, evidence)
      /\ \E o \in Task!Cited(evidence) : o.tool = Task!Tool(goals[g]) /\ ~o.error
  BY <1>2 DEF Task!State
<1>4. PICK i \in evidence : obs[i].tool = Task!Tool(goals[g]) /\ ~obs[i].error
  BY <1>3 DEF Task!Cited
<1>5. Task!Tool(goals[g]) = "prepare"
  BY <1>3 DEF Task!Tool
<1>6. obs[i].goal = g
  BY <1>3, <1>4, <1>5 DEF Task!Borrowed, Task!Cited
<1> QED BY <1>1, <1>4, <1>5, <1>6 DEF Prepared

(* "never report incomplete work as success" (task_runner.py): a completed  *)
(* task read every page of every list it cites and saw all of it; what      *)
(* waits for a review has a card of its goal, and present lays no card of a *)
(* reading over a review.                                                   *)
THEOREM TasksAreHonest == ConsoleSpec => []HonestTask
<1>1. TaskInv => HonestTask
  <2> SUFFICES ASSUME TaskInv  PROVE HonestTask
    OBVIOUS
  <2>1. DOMAIN obs = 1 .. Len(obs) /\ DOMAIN goals = 1 .. Len(goals)
        /\ Task!Range(obs) = {obs[i] : i \in 1 .. Len(obs)}
    BY DEF TaskInv, TaskTypes, Task!Range
  <2>2. Task!TypeOK
    <3>1. \A g \in 1 .. Len(goals) : outcomes[g].evidence \subseteq 1 .. Len(obs)
      BY DEF TaskInv, OutcomesStand, Task!Blank
    <3>2. \A c \in cards : c.status \in {"open", "paused", "running"}
      BY DEF TaskInv, TaskTypes, CardRows
    <3> QED BY <2>1, <3>1, <3>2 DEF TaskInv, TaskTypes, Task!TypeOK, Task!Goals
  <2>3. Task!CompletedIsWhole
    <3> SUFFICES ASSUME \A g \in 1 .. Len(goals) : outcomes[g].status = "completed"
                 PROVE  /\ ~(world.long /\ \E o \in Task!Range(obs) : o.tool = "conversation" /\ ~o.error)
                        /\ \A g \in 1 .. Len(goals) :
                            /\ goals[g] \notin {"workflow", "unsupported"}
                            /\ LET read == {o \in Task!Cited(outcomes[g].evidence) : o.tool = Task!Tool(goals[g]) /\ ~o.error}
                               IN /\ read # {}
                                  /\ \A o \in read : {r.page : r \in {r \in read : r.of = o.of}}
                                                        = 1 .. Task!PagesOf(o.tool, o.of)
      BY DEF Task!CompletedIsWhole, Task!Completed, Task!Goals
    <3>1. ASSUME world.long, NEW i \in 1 .. Len(obs), obs[i].tool = "conversation", ~obs[i].error  PROVE FALSE
      <4>1. cut
        BY <2>1, <3>1 DEF TaskInv, CutIsMarked, Task!Truncates
      <4>2. obs[i].goal \in 1 .. Len(goals)
        BY DEF TaskInv, PagesAreThere
      <4> QED BY <4>1, <4>2, CompletedIsRead
    <3> QED BY <2>1, <3>1, CompletedIsRead
  <2>4. Task!ReviewIsThere
    <3>1. ASSUME NEW g \in 1 .. Len(goals), outcomes[g].status = "awaiting_review", phase # "failed"
          PROVE  \E c \in cards : c.kind = "review" /\ c.goal = g
      <4>1. PICK i \in 1 .. Len(obs) : Prepared(i) /\ obs[i].goal = g
        BY <3>1, AwaitedIsPrepared
      <4> QED BY <3>1, <4>1 DEF TaskInv, ReviewsAreMade
    <3> QED BY <3>1 DEF Task!ReviewIsThere, Task!Goals
  <2>5. Task!ReviewIsInFront
    BY <2>1 DEF TaskInv, ReviewsAreInFront, Botched, Task!ReviewIsInFront
  <2> QED BY <2>2, <2>3, <2>4, <2>5 DEF HonestTask
<1> QED BY <1>1, TaskAlways, PTL
=============================================================================
