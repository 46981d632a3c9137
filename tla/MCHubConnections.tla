-------------------------- MODULE MCHubConnections ---------------------------
(* One migrated credential and one to be paired.  The store holds a single *)
(* row, so pairing the second prunes the first, and connection attempts    *)
(* and requests may meet their credential active, revoked or pruned.       *)
EXTENDS HubConnections

MCCredentialIds == 1 .. 2
MCOneCredential == {1}
MCLegacyIds == {1}
MCStamps == {1}
=============================================================================
