----------------------------- MODULE MCOutreach -----------------------------
(***************************************************************************)
(* One name on two domains and without one, two companies with one phone;  *)
(* interchangeable workers, operators, phones and batches.                 *)
(***************************************************************************)
EXTENDS Outreach, TLC

Site(anchor, matched, negative) ==
    [commercial |-> TRUE, anchor |-> anchor, matched |-> matched, negative |-> negative]
Raw(id, name, domain, phone, site) ==
    [id |-> id, name |-> name, domain |-> domain, phone |-> phone, site |-> site]
MCRaws == {Raw(1, "kasnak", "a.com", "p1", Site(TRUE, 4, 0)), Raw(2, "kasnak", "b.com", "p1", Site(TRUE, 5, 1)),
           Raw(3, "kasnak", "none", "none", Site(FALSE, 5, 0))}

Interchangeable == Permutations(Workers) \cup Permutations(Operators)
                     \cup Permutations(Phones) \cup Permutations(Batches)
                     \cup Permutations(Callers)

(* Nothing is claimed of a row once two sessions had it outside the        *)
(* Message's lock: such a state is checked, and not gone on from.          *)
Unraced == ~raced
=============================================================================
