----------------------------- MODULE DeviceLab -----------------------------
(***************************************************************************)
(* The phone lab: the device smoke, the benchmarks and the validation      *)
(* bundle on one bench.  An operator does one job at a time; the scripts   *)
(* of a job share their own files, and jobs meet on the bench only, whose  *)
(* facts BenchChanges changes under every script as the others would.      *)
(***************************************************************************)
EXTENDS DeviceSmoke, PhoneBenchmarks, ValidationBundle

VARIABLE job

labVars == <<job, smokeVars, benchVars, bundleVars, siteVars>>

LabInit ==
    /\ job \in {"smoke", "benchmark", "bundle"}
    /\ site = Facts
    /\ runs = 0 /\ flips = 0
    /\ SmokeInit /\ BenchInit /\ BundleInit
    /\ job # "smoke" => ~screen.linked
    /\ job # "bundle" => ~dir.exists

SmokeJob == job = "smoke" /\ SmokeNext /\ UNCHANGED <<job, benchVars, bundleVars>>
BenchJob == job = "benchmark" /\ BenchNext /\ UNCHANGED <<job, smokeVars, bundleVars>>
BundleJob == job = "bundle" /\ BundleNext /\ UNCHANGED <<job, smokeVars, benchVars>>

LabNext ==
    \/ SmokeJob \/ BenchJob \/ BundleJob
    \/ BenchChanges /\ UNCHANGED <<job, smokeVars, benchVars, bundleVars>>

LabSpec == LabInit /\ [][LabNext]_labVars

(* A script that runs goes on: every adb command has a timeout, every      *)
(* search a number of swipes and every wait a deadline (execute_step).     *)
ScriptStep ==
    \/ SmokeStep /\ UNCHANGED <<job, runs, flips, benchVars, bundleVars>>
    \/ BenchActs /\ UNCHANGED <<job, runs, flips, smokeVars, bundleVars>>
    \/ /\ UsbActs \/ \E p \in Pipelines : PipelineActs(p)
       /\ UNCHANGED <<job, runs, flips, smokeVars, benchVars>>

FairLabSpec == LabSpec /\ WF_labVars(ScriptStep)

-----------------------------------------------------------------------------
ScriptsDone ==
    /\ smoke = SmokeIdle /\ bench = BenchIdle /\ usb = UsbIdle
    /\ \A p \in Pipelines : crew[p].pc \in {"idle", "done"}

(* Every script ends with its report, whatever the phone answers, the      *)
(* operator does meanwhile and another pipeline does to its directory      *)
(* (build_report of the smoke and of the benchmarks, the pipeline's main). *)
LabRunsEnd == ~ScriptsDone ~> ScriptsDone

=============================================================================
