------------------------- MODULE MCSelectionIntake -------------------------
(* The first steps of config/arti_kasnak.production.json: contact_name,    *)
(* intent, and drawing, which is skipped for a new pulley.                 *)
EXTENDS SelectionIntake

MCOptions == <<{"ali"}, {"new", "replace"}, {"done", "manual"}>>
MCSkipIf  == {<<3, 2, "new">>}
=============================================================================
