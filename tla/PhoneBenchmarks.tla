--------------------------- MODULE PhoneBenchmarks ---------------------------
(***************************************************************************)
(* The scripts that measure local models on the phone: the LiteRT-LM and   *)
(* the Task Text benchmark, the Task Text evaluation suite with its        *)
(* quality gate, and the modelDebug observation.  The instrumented test    *)
(* writes its result to one fixed path on the phone and nobody deletes it, *)
(* so what is pulled may be the result of an earlier test; the model on    *)
(* the host may be replaced while a script runs.                           *)
(***************************************************************************)
EXTENDS MotoG

CONSTANTS
    MaxBenches,    \* bound on the scripts started
    Models,        \* model files, told apart by their SHA-256
    NoModel,
    Examples       \* the evaluation split of the corpus

ASSUME PhoneBenchmarksAssumption == MaxBenches \in Nat /\ NoModel \notin Models

VARIABLES
    bench,         \* the script
    files,         \* the model on the host, and models and results on the phone
    measured       \* history: <<model, example>> of the tests the model passed

benchVars == <<bench, files, measured>>

BenchIdle == [pc |-> "idle"]
NoResult == [model |-> NoModel, example |-> "none", right |-> FALSE]

(* The two families of tests keep their models and results apart. *)
Slot(kind) == IF kind = "suite" THEN "text" ELSE kind

BenchInit ==
    /\ bench = BenchIdle
    /\ files = [host |-> CHOOSE m \in Models : TRUE, staged |-> NoModel, private |-> NoModel,
                pushed |-> [s \in {"text", "lite"} |-> NoModel],
                result |-> [s \in {"text", "lite"} |-> NoResult]]
    /\ measured = {}

-----------------------------------------------------------------------------
BenchAt(pc) == bench.pc = pc

(* The next step, or the report at the first FAIL. *)
BenchStep(status, next) ==
    bench' = IF status = "FAIL" THEN [bench EXCEPT !.pc = "report", !.ok = FALSE]
                                ELSE [bench EXCEPT !.pc = next]

Report(kind, ok) == [kind |-> kind, pc |-> "report", executed |-> FALSE, ok |-> ok, push |-> TRUE,
                     evidence |-> NoModel, todo |-> {}, example |-> "none", artifacts |-> {}]

(* build_report up to the first step on the phone: a plan, a refusal, or   *)
(* the run `started`.                                                      *)
Begins(execute, ready, refused, started) ==
    /\ BenchAt("idle") /\ Starts(MaxBenches)
    /\ bench' = IF execute /\ ready THEN [started EXCEPT !.executed = TRUE, !.ok = TRUE] ELSE refused
    /\ UNCHANGED <<files, measured, site, flips>>

(* The single benchmarks push a model of the host or use the one that is   *)
(* on the phone already.  They plan whatever they are given.               *)
StartLite(execute, allowed, push) ==
    Begins(execute, allowed /\ TargetResolved, Report("lite", ~execute),
           [Report("lite", TRUE) EXCEPT !.pc = "build", !.push = push])

StartText(execute, allowed, push) ==
    Begins(execute, allowed /\ TargetResolved, Report("text", ~execute),
           [Report("text", TRUE) EXCEPT !.pc = "build", !.push = push])

(* The suite needs a usable model even for a plan, and copies it before it *)
(* looks for the phone.                                                    *)
StartSuite(execute, confirm, usable) ==
    Begins(execute, confirm /\ usable, Report("suite", ~execute /\ usable),
           [Report("suite", TRUE) EXCEPT !.pc = "copy"])

(* The observation records the digest of the host's model at once. *)
StartObserve(execute, allowed) ==
    Begins(execute, allowed /\ TargetResolved, Report("observe", ~execute),
           [Report("observe", TRUE) EXCEPT !.pc = "build", !.evidence = files.host])

(* copy_model_into_evidence_tree, then resolve_device_target. *)
CopyModel ==
    /\ BenchAt("copy")
    /\ bench' = [bench EXCEPT !.evidence = files.host, !.todo = Examples, !.ok = TargetResolved,
                             !.pc = IF TargetResolved THEN "build" ELSE "report"]
    /\ UNCHANGED <<files, measured, site>>

(* The LiteRT-LM benchmark builds the debug APK that the others install. *)
LeavesDebugApk == bench.kind = "lite"

(* The next step after the APKs are on the phone. *)
AfterInstall == IF bench.kind = "observe" THEN "stage" ELSE IF bench.push THEN "push" ELSE "next"

(* Build and install, until something fails. *)
BuildAndInstall ==
    /\ BenchAt("build")
    /\ \E built, installed \in Outcomes :
         /\ site' = IF built = "OK" /\ LeavesDebugApk THEN site \cup {"apk"} ELSE site
         /\ BenchStep(IF "FAIL" \in {built, installed} THEN "FAIL" ELSE "OK", AfterInstall)
    /\ UNCHANGED <<files, measured>>

(* A push that fails may leave a part of the file. *)
PushModel ==
    /\ BenchAt("push")
    /\ LET s == Slot(bench.kind) IN
       \/ files' = [files EXCEPT !.pushed[s] = files.host] /\ BenchStep("OK", "next")
       \/ files' = [files EXCEPT !.pushed[s] = NoModel] /\ BenchStep("FAIL", "next")
       \/ BenchStep("FAIL", "next") /\ UNCHANGED files
    /\ UNCHANGED <<measured, site>>

(* The loop over the examples; a single benchmark has one test, which is   *)
(* not of the corpus.                                                      *)
NextTest ==
    /\ BenchAt("next")
    /\ IF bench.kind = "suite"
       THEN IF bench.todo = {} THEN bench' = [bench EXCEPT !.pc = "quality"]
            ELSE LET e == CHOOSE e \in bench.todo : TRUE IN
                 bench' = [bench EXCEPT !.pc = "test", !.example = e, !.todo = @ \ {e}]
       ELSE bench' = [bench EXCEPT !.pc = "test"]
    /\ UNCHANGED <<files, measured, site>>

(* An example that fails does not end the suite. *)
TestFailed == IF bench.kind = "suite" THEN [bench EXCEPT !.pc = "next", !.ok = FALSE, !.example = "none"]
                                      ELSE [bench EXCEPT !.pc = "report", !.ok = FALSE]

(* The instrumented test on the phone: it measures the model it finds and  *)
(* writes the result.                                                      *)
Measure(right) ==
    LET s == Slot(bench.kind) m == files.pushed[s] IN
    /\ m # NoModel
    /\ files' = [files EXCEPT !.result[s] = [model |-> m, example |-> bench.example, right |-> right]]
    /\ measured' = IF right THEN measured \cup {<<m, bench.example>>} ELSE measured

(* am instrument: its exit code says nothing of a result. *)
RunTest ==
    /\ BenchAt("test")
    /\ \E r \in Outcomes :
         /\ bench' = IF r = "OK" THEN [bench EXCEPT !.pc = "pull"] ELSE TestFailed
         /\ (\E right \in BOOLEAN : Measure(right)) \/ UNCHANGED <<files, measured>>
    /\ UNCHANGED site

(* classifier_json_step: any result in good form, which names some model. *)
ClassifierJson(json) == json.model # NoModel

(* benchmark_json_step: any result of a test that passed. *)
BenchmarkJson(json) == json # NoResult

WellFormed(json) == IF bench.kind = "lite" THEN BenchmarkJson(json) ELSE ClassifierJson(json)

(* Pull and check the form. *)
PullResult ==
    /\ BenchAt("pull")
    /\ LET json == files.result[Slot(bench.kind)] IN
       \/ bench' = TestFailed
       \/ /\ WellFormed(json)
          /\ bench' = IF bench.kind = "suite"
                      THEN [bench EXCEPT !.artifacts = @ \cup {[example |-> bench.example, json |-> json]},
                                         !.pc = "next", !.example = "none"]
                      ELSE [bench EXCEPT !.pc = "report"]
    /\ UNCHANGED <<files, measured, site>>

-----------------------------------------------------------------------------
(* Slip: the result is not bound to the model. *)
ArtifactAcceptedAnyModel(a) == a.json.example = a.example /\ a.json.right

(* validate_benchmark_artifact: the result names the example and the model *)
(* of the evidence, and the route is the expected one.                     *)
ArtifactAccepted(a) == /\ a.json.example = a.example
                       /\ a.json.model = bench.evidence
                       /\ a.json.right

(* build_routing_quality_report: every example has an accepted artifact. *)
QualityOk == \A e \in Examples : \E a \in bench.artifacts : a.example = e /\ ArtifactAccepted(a)

(* The end of the suite: manifest, quality gate, report. *)
JudgeSuite ==
    /\ BenchAt("quality")
    /\ bench' = [bench EXCEPT !.pc = "report", !.ok = @ /\ QualityOk]
    /\ UNCHANGED <<files, measured, site>>

-----------------------------------------------------------------------------
(* seed_private_model: stage, copy into the app's private storage, remove  *)
(* the staged copy.  Only a failed push leaves without removing it.        *)
StageModel ==
    /\ BenchAt("stage")
    /\ \/ files' = [files EXCEPT !.staged = files.host] /\ BenchStep("OK", "seed")
       \/ \E m \in {files.staged, files.host} : files' = [files EXCEPT !.staged = m] /\ BenchStep("FAIL", "seed")
    /\ UNCHANGED <<measured, site>>

RemoveStaged(r) == IF r = "OK" THEN NoModel ELSE files.staged

SeedModel ==
    /\ BenchAt("seed")
    /\ \E copied, removed \in Outcomes :
         /\ files' = [files EXCEPT !.private = IF copied = "OK" THEN files.staged ELSE @,
                                   !.staged = RemoveStaged(removed)]
         /\ BenchStep(IF "FAIL" \in {copied, removed} THEN "FAIL" ELSE "OK", "launch")
    /\ UNCHANGED <<measured, site>>

(* launch_modeldebug *)
LaunchModelDebug ==
    /\ BenchAt("launch") /\ (\E r \in Outcomes : BenchStep(r, "surface"))
    /\ UNCHANGED <<files, measured, site>>

(* The home screen, the runtime setting and the command surface: all three *)
(* are tried before the first result is looked at.                         *)
Tried(status, next) == bench' = [bench EXCEPT !.pc = next, !.ok = @ /\ status = "OK"]

VerifyModelDebugHome ==
    /\ BenchAt("surface") /\ (\E r \in Outcomes : Tried(r, "runtime"))
    /\ UNCHANGED <<files, measured, site>>

EnableRuntime ==
    /\ BenchAt("runtime") /\ (\E r \in Outcomes : Tried(r, "reveal"))
    /\ UNCHANGED <<files, measured, site>>

RevealSurface ==
    /\ BenchAt("reveal")
    /\ \E r \in Outcomes : Tried(r, IF bench.ok /\ r = "OK" THEN "observe" ELSE "report")
    /\ UNCHANGED <<files, measured, site>>

(* The unsupported command, verified as in the device smoke. *)
ObserveCommand ==
    /\ BenchAt("observe") /\ (\E r \in Outcomes : BenchStep(r, "capture"))
    /\ UNCHANGED <<files, measured, site>>

(* The dump and the three captures: all run, none may fail. *)
CaptureObservation ==
    /\ BenchAt("capture") /\ (\E r \in Outcomes : BenchStep(r, "report"))
    /\ UNCHANGED <<files, measured, site>>

EndBench == BenchAt("report") /\ bench' = BenchIdle /\ UNCHANGED <<files, measured, site>>

(* Another download replaces the model on the host. *)
HostModelReplaced ==
    /\ flips < MaxFlips /\ flips' = flips + 1
    /\ \E m \in Models \ {files.host} : files' = [files EXCEPT !.host = m]
    /\ UNCHANGED <<bench, measured, site, runs>>

BenchActs ==
    \/ CopyModel \/ BuildAndInstall \/ PushModel \/ NextTest \/ RunTest \/ PullResult \/ JudgeSuite
    \/ StageModel \/ SeedModel \/ LaunchModelDebug \/ VerifyModelDebugHome \/ EnableRuntime
    \/ RevealSurface \/ ObserveCommand
    \/ CaptureObservation \/ EndBench

BenchNext ==
    \/ \E execute, allowed, push \in BOOLEAN : StartLite(execute, allowed, push) \/ StartText(execute, allowed, push)
    \/ \E execute, confirm, usable \in BOOLEAN : StartSuite(execute, confirm, usable)
    \/ \E execute, allowed \in BOOLEAN : StartObserve(execute, allowed)
    \/ BenchActs /\ UNCHANGED <<runs, flips>>
    \/ HostModelReplaced

-----------------------------------------------------------------------------
(* An accepted suite speaks of the model in its evidence directory: that   *)
(* very model, on the phone, answered every example rightly - although the *)
(* host's file may have changed between the copy and the push, a push may  *)
(* have failed, a test may end without a result and the result pulled may  *)
(* be an older one's (run_moto_g_tflite_task_text_eval_suite,              *)
(* verify_tflite_task_text_routing_quality).                               *)
AcceptedSuiteMeasuresModel ==
    BenchAt("report") /\ bench.kind = "suite" /\ bench.executed /\ bench.ok =>
        \A e \in Examples : <<bench.evidence, e>> \in measured

=============================================================================
