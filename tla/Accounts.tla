------------------------------- MODULE Accounts -------------------------------
(***************************************************************************)
(* The accounts of one company (modules/auth): provisioning, invitations   *)
(* and members with their roles.                                           *)
(*                                                                         *)
(* Calls run side by side.  A call that changes a member first reads the   *)
(* claims of who asks, then takes the company row FOR UPDATE, then reads   *)
(* and writes; accepting an invitation locks the invitation the same way.  *)
(* A member is identified by the e-mail.                                   *)
(***************************************************************************)
EXTENDS Naturals, Sequences, FiniteSets, Functions

CONSTANTS
    Emails,      \* addresses of the people
    Calls,       \* HTTP requests that may be open at once
    Payloads,    \* changes of a member that may be asked for: role and active
    MaxInvites   \* bound: invitations ever made

ASSUME InvitesAreNatural == MaxInvites \in Nat


Owner == "tenant_owner"
Roles == {Owner, "viewer"}  \* the highest role inside a company, and one below it
Keep == "keep"              \* a field the payload leaves out

ASSUME PayloadsAreUserPatches ==
    Payloads \subseteq [role : Roles \cup {Keep}, active : {"true", "false", Keep}]

VARIABLES
    company,      \* the tenant row exists
    users,        \* per address: NoUser, or role and is_active
    invitations,  \* the invitation rows, in the order they were made
    calls,        \* per call: what it asks and how far it is
    card          \* the member card of the assistant: NoCard, or its review

vars == <<company, users, invitations, calls, card>>

NoUser == [role |-> "none", active |-> FALSE]
User(role, active) == [role |-> role, active |-> active]
ActiveOwners == {e \in Emails : users[e] = User(Owner, TRUE)}

Idle == [op |-> "none", at |-> "none"]
NoCard == [who |-> "none"]
Patch(who, payload, base) ==
    [op |-> "patch", at |-> "claims", who |-> who, payload |-> payload, base |-> base, seen |-> NoUser]

TypeOK ==
    /\ company \in BOOLEAN
    /\ users \in [Emails -> {NoUser} \cup [role : Roles, active : BOOLEAN]]
    /\ invitations \in Seq([email : Emails, role : Roles, state : {"open", "expired", "accepted"}])
    /\ Len(invitations) <= MaxInvites
    /\ DOMAIN calls = Calls
    /\ \A c \in Calls : calls[c].op \in {"none", "patch", "invite", "accept"}

Init ==
    /\ company = FALSE
    /\ users = [e \in Emails |-> NoUser]
    /\ invitations = <<>>
    /\ calls = [c \in Calls |-> Idle]
    /\ card = NoCard

(***************************************************************************)
(* The company and its invitations.                                        *)
(***************************************************************************)
Invited(e, role) == Append(invitations, [email |-> e, role |-> role, state |-> "open"])

\* The platform makes the company with its owner's invitation, in one commit.
Provision(e) ==
    /\ ~company
    /\ Len(invitations) < MaxInvites
    /\ company' = TRUE
    /\ invitations' = Invited(e, Owner)
    /\ UNCHANGED <<users, calls, card>>

\* ... or with the owner's account itself.
RegisterTenant(e) ==
    /\ ~company
    /\ company' = TRUE
    /\ users' = [users EXCEPT ![e] = User(Owner, TRUE)]
    /\ UNCHANGED <<invitations, calls, card>>

\* get_current_claims and RequireOwner: the role is the one stored now.
Authorized(by) == users[by] = User(Owner, TRUE)
IsFree(c) == calls[c] = Idle
Becomes(c, call) == calls' = [calls EXCEPT ![c] = call]
Refused(c) == Becomes(c, Idle) /\ UNCHANGED <<company, users, invitations, card>>

\* Both kinds of invitation look for a member first and insert afterwards.
AskInvite(c, e, role) ==
    /\ IsFree(c)
    /\ \/ \E by \in Emails : Authorized(by)       \* an owner, through auth/invite
       \/ company /\ role = Owner                 \* the platform, for a new owner
    /\ users[e] = NoUser
    /\ Becomes(c, [op |-> "invite", at |-> "insert", email |-> e, role |-> role])
    /\ UNCHANGED <<company, users, invitations, card>>

Invite(c) ==
    /\ calls[c].op = "invite"
    /\ Len(invitations) < MaxInvites
    /\ invitations' = Invited(calls[c].email, calls[c].role)
    /\ Becomes(c, Idle)
    /\ UNCHANGED <<company, users, card>>

ExpireInvitation(i) ==
    /\ invitations[i].state = "open"
    /\ invitations' = [invitations EXCEPT ![i].state = "expired"]
    /\ UNCHANGED <<company, users, calls, card>>

\* SELECT ... FOR UPDATE on the invitation: one call at a time holds it.
IsHeld(i) == \E c \in Calls : calls[c].op = "accept" /\ calls[c].row = i
TakeInvitation(c, i) ==
    /\ IsFree(c)
    /\ ~IsHeld(i)
    /\ invitations[i].state = "open"
    /\ users[invitations[i].email] = NoUser
    /\ Becomes(c, [op |-> "accept", at |-> "insert", row |-> i])
    /\ UNCHANGED <<company, users, invitations, card>>

\* The unique (tenant, e-mail) refuses a second account; the call then fails whole.
IsTaken(e) == users[e] # NoUser
Accept(c) ==
    /\ calls[c].op = "accept"
    /\ LET i == calls[c].row
           invitation == invitations[i] IN
       IF IsTaken(invitation.email) THEN Refused(c)
       ELSE /\ users' = [users EXCEPT ![invitation.email] = User(invitation.role, TRUE)]
            /\ invitations' = [invitations EXCEPT ![i].state = "accepted"]
            /\ Becomes(c, Idle)
            /\ UNCHANGED <<company, card>>

(***************************************************************************)
(* Members: PATCH users/{id}, and the member card of the assistant, which  *)
(* shows the change first and then goes through the same handler.          *)
(***************************************************************************)
AskPatch(c, who, payload) ==
    /\ IsFree(c)
    /\ \E by \in Emails : Authorized(by)
    /\ Becomes(c, Patch(who, payload, NoUser))
    /\ UNCHANGED <<company, users, invitations, card>>

\* A card fills in both fields.
IsWhole(payload) == payload.role # Keep /\ payload.active # Keep
PrepareCard(who, payload) ==
    /\ card = NoCard
    /\ \E by \in Emails : Authorized(by)
    /\ users[who] # NoUser
    /\ IsWhole(payload)
    /\ card' = [who |-> who, payload |-> payload, base |-> users[who]]
    /\ UNCHANGED <<company, users, invitations, calls>>

CompleteCard(c) ==
    /\ IsFree(c)
    /\ card # NoCard
    /\ \E by \in Emails : Authorized(by)
    /\ Becomes(c, Patch(card.who, card.payload, card.base))
    /\ card' = NoCard
    /\ UNCHANGED <<company, users, invitations>>

\* Without the lock of the company.
NeverLocked == FALSE

\* SELECT Tenant ... FOR UPDATE: changes of members wait for each other.
CompanyIsLocked == \E c \in Calls : calls[c].op = "patch" /\ calls[c].at \in {"locked", "write"}
Lock(c) ==
    /\ calls[c].op = "patch" /\ calls[c].at = "claims"
    /\ ~CompanyIsLocked
    /\ Becomes(c, [calls[c] EXCEPT !.at = "locked"])
    /\ UNCHANGED <<company, users, invitations, card>>

Closes(user, payload) ==
    user = User(Owner, TRUE) /\ (payload.active = "false" \/ payload.role \notin {Owner, Keep})
IsLastOwner(user) == Cardinality(ActiveOwners) <= 1
\* Without the comparison with the review.
NeverStale(call) == FALSE
IsStale(call) == call.base # NoUser /\ users[call.who] # call.base

Look(c) ==
    /\ calls[c].op = "patch" /\ calls[c].at = "locked"
    /\ LET call == calls[c]
           user == users[call.who] IN
       IF \/ user = NoUser
          \/ IsStale(call)
          \/ Closes(user, call.payload) /\ IsLastOwner(user)
       THEN Refused(c)
       ELSE /\ Becomes(c, [call EXCEPT !.at = "write", !.seen = user])
            /\ UNCHANGED <<company, users, invitations, card>>

\* The session writes the columns that differ from the row it read.
Written(call) ==
    LET role == call.payload.role
        active == call.payload.active IN
    User(IF role \in {Keep, call.seen.role} THEN users[call.who].role ELSE role,
         IF active = Keep \/ (active = "true") = call.seen.active
         THEN users[call.who].active ELSE active = "true")

Write(c) ==
    /\ calls[c].op = "patch" /\ calls[c].at = "write"
    /\ users' = [users EXCEPT ![calls[c].who] = Written(calls[c])]
    /\ Becomes(c, Idle)
    /\ UNCHANGED <<company, invitations, card>>

Next ==
    \/ \E e \in Emails :
        \/ Provision(e) \/ RegisterTenant(e)
        \/ \E payload \in Payloads : PrepareCard(e, payload)
    \/ \E c \in Calls :
        \/ \E e \in Emails :
            \/ \E role \in Roles : AskInvite(c, e, role)
            \/ \E payload \in Payloads : AskPatch(c, e, payload)
        \/ \E i \in DOMAIN invitations : TakeInvitation(c, i)
        \/ Invite(c) \/ Accept(c) \/ CompleteCard(c) \/ Lock(c) \/ Look(c) \/ Write(c)
    \/ \E i \in DOMAIN invitations : ExpireInvitation(i)

Spec == Init /\ [][Next]_vars

(***************************************************************************)
(* Properties.                                                             *)
(***************************************************************************)
\* However the changes of members interleave, a company that has an active
\* owner keeps one: two owners who close each other's accounts at the same
\* time do not both succeed ("the last active owner's access must be kept").
OwnerRemains == [][ActiveOwners # {} => ActiveOwners' # {}]_vars

\* A change confirmed on the member card applies to the access the card
\* showed: whatever other change was made since the review stops it.
ChangedAsReviewed ==
    [][\A c \in Calls :
        calls[c].op = "patch" /\ calls[c].at = "write" /\ calls'[c] = Idle
            /\ calls[c].base # NoUser => users[calls[c].who] = calls[c].base]_vars
=============================================================================
