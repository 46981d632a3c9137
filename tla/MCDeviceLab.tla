---------------------------- MODULE MCDeviceLab ----------------------------
(* Constants for TLC: see MCDeviceLab.cfg. *)
EXTENDS DeviceLab
=============================================================================
