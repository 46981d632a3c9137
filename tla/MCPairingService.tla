-------------------------- MODULE MCPairingService ---------------------------
(* Three redemptions of two challenges: enough for two devices racing for  *)
(* one challenge after a wrong guess, and for the guess limit of two.      *)
EXTENDS PairingService

MCCredentialIds == 1 .. 3
MCLegacyIds == {2}
MCStamps == {1}
=============================================================================
