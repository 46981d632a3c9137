------------------------------- MODULE MotoG -------------------------------
(***************************************************************************)
(* What the scripts that drive the Moto G share: the state of the bench    *)
(* (the Hub, the phone on its USB cable, the reverse port, the APK on the  *)
(* host) and adb, any command of which may fail or time out.               *)
(***************************************************************************)
EXTENDS Naturals, Sequences, FiniteSets, SequencesExt

CONSTANTS
    MaxFlips       \* bound on the changes of the bench that no script makes

ASSUME MotoGAssumption == MaxFlips \in Nat

VARIABLES
    site,          \* the facts that hold on the bench
    runs,
    flips

siteVars == <<site, runs, flips>>

Facts == {"hub", "device", "reverse", "apk"}

(* execute_step: the result of one adb command. *)
Outcomes == {"OK", "FAIL"}

(* resolve_device_target: adb answers, and exactly one authorized device   *)
(* is a Moto G.                                                            *)
TargetResolved == "device" \in site

(* What happens to the bench meanwhile: the cable goes (and the port with  *)
(* it), the Hub stops, the APK is rebuilt, another script opens the port.  *)
Falls(fact) == IF fact = "device" THEN {"device", "reverse"} ELSE {fact}

BenchChanges ==
    /\ flips < MaxFlips /\ flips' = flips + 1
    /\ \E fact \in Facts :
         \/ fact \in site /\ site' = site \ Falls(fact)
         \/ fact \notin site /\ (fact = "reverse" => TargetResolved) /\ site' = site \cup {fact}
    /\ UNCHANGED runs

(* One of a bounded number of scripts starts. *)
Starts(bound) == runs < bound /\ runs' = runs + 1

=============================================================================
