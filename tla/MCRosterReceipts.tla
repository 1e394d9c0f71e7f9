-------------------------- MODULE MCRosterReceipts --------------------------
(***************************************************************************)
(* Model checking of RosterReceipts.  One row exists at the migration.     *)
(* The kiosk starts with an old template of it and of an unknown id; a     *)
(* kiosk that holds fewer is reached by Reimage and by the first roster.   *)
(***************************************************************************)
EXTENDS RosterReceipts

MCInit ==
    /\ Init
    /\ created = 1
    /\ hasApplied
    /\ templates = [i \in Ids |-> IF i <= created THEN 0 ELSE None]

MCSpec == MCInit /\ [][Next]_vars
=============================================================================
