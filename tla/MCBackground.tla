---------------------------- MODULE MCBackground ----------------------------
(* Two companies of one name and one phone, one of them a match.           *)
EXTENDS Background

MCRaws ==
    {[id |-> 1, name |-> "kasnak", domain |-> "a.com", phone |-> "p1",
      site |-> [commercial |-> TRUE, anchor |-> TRUE, matched |-> 4, negative |-> 0]],
     [id |-> 2, name |-> "kasnak", domain |-> "none", phone |-> "p1",
      site |-> [commercial |-> TRUE, anchor |-> FALSE, matched |-> 5, negative |-> 0]]}
=============================================================================
