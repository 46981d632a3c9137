---------------------------- MODULE MCHubMessages ----------------------------
(* One SAFE and one CONFIRM tool.  Either both connections belong to one   *)
(* paired phone, which can then replay on one what it signed for the other *)
(* or one of them to a credential that was paired without an approval key. *)
(* The set of logins is closed under a swap of the connections, so these   *)
(* are interchangeable, and so are approval ids.                           *)
EXTENDS HubMessages, TLC

MCLogins == {f \in [Conns -> Principals] : \E x \in Conns : f[x] = "phone"}
Interchangeable == Permutations(Conns) \cup Permutations(Approvals)
=============================================================================
