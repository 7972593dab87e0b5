------------------------------ MODULE Outreach ------------------------------
(***************************************************************************)
(* How a company reaches customers: leads found and scored, batches sent   *)
(* to phones, and the receipts that come back.                             *)
(*                                                                         *)
(* An operator carries contacts from the leads to a batch by hand, and the *)
(* receipts modelled in detail are those of jobs, not of batches: they     *)
(* meet in no row, so a behaviour is about one of them (desk) and the      *)
(* others stay at their beginning.                                         *)
(***************************************************************************)
EXTENDS ChatOutbound

CONSTANTS
    Raws, Tasks, MaxKills, Bar,    \* LeadScan
    Callers, Times, HistoryLimit, MaxReceipts    \* DeliveryReceipts

VARIABLES
    desk,   \* the part that moves
    campaign, leads, contacts, tasks, kills,
    owner, turn, message, stored, lock, hook, resume, got, raced

leadVars == <<campaign, leads, contacts, tasks, kills>>
receiptVars == <<owner, turn, message, stored, lock, hook, resume, got, raced>>

Scan == INSTANCE LeadScan WITH MaxCrashes <- MaxKills, crashes <- kills, phones <- contacts
Receipts == INSTANCE DeliveryReceipts WITH Hooks <- Callers, NoHook <- NoOne

ASSUME OutreachAssumptions == Scan!BarIsAScore /\ Receipts!Assumptions

OutreachInit ==
    /\ desk \in {"leads", "batches", "receipts"}
    /\ Init /\ Scan!Init /\ Receipts!Init
    /\ desk # "receipts" => owner = "runtime"   \* one of its beginnings

OutreachNext ==
    /\ UNCHANGED desk
    /\ \/ desk = "batches" /\ Next /\ UNCHANGED <<leadVars, receiptVars>>
       \/ desk = "leads" /\ Scan!Next /\ UNCHANGED <<vars, receiptVars>>
       \/ desk = "receipts" /\ Receipts!Next /\ UNCHANGED <<vars, leadVars>>

OutreachSpec == OutreachInit /\ [][OutreachNext]_<<desk, vars, leadVars, receiptVars>>

(***************************************************************************)
(* The properties of the instances, by name.                               *)
(***************************************************************************)
\* LeadScan: what is left after the runs passed the bar, and a company became
\* one lead of the campaign.
CleanLeads == Scan!TypeOK /\ Scan!OnlyMatchesRemain /\ Scan!CompanyOnce
\* DeliveryReceipts: while the Message's lock keeps sessions apart, the status and
\* times stored are those of the callbacks taken, the earliest of each kept and none
\* forgotten below the limit, and a review a person ended stays ended.
ReceiptsAreEvidence == Receipts!TypeOK /\ Receipts!LockedEvidence
=============================================================================
