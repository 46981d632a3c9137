---------------------------- MODULE MCPhoneTasks ----------------------------
(***************************************************************************)
(* Two tasks (one in MCPhoneRotation) on a timeline of one or two entries: *)
(* a rejected command evicts what is shown.  Task identifiers are ordered, *)
(* as UUIDs are.                                                           *)
(***************************************************************************)
EXTENDS PhoneTasks

MCRetriedPlans == Plans \ {Plan("MAC", "SAFE")}
MCMixedPlans == {Plan("MAC", "SAFE"), Plan("PHONE", "CONFIRM")}

=============================================================================
