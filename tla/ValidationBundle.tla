-------------------------- MODULE ValidationBundle --------------------------
(***************************************************************************)
(* The evidence of a validated phone: the USB setup prepares the bench,    *)
(* the collector records the bench and the operator's checklist in a       *)
(* bundle directory named after the second, and the verifier judges a      *)
(* bundle.  Pipelines (collect, then verify) that are started in the same  *)
(* second work on the same directory.                                      *)
(***************************************************************************)
EXTENDS MotoG

CONSTANTS
    MaxJobs,       \* bound on the scripts started
    MaxForced,     \* bound on the pipelines started with --force
    Pipelines      \* the pipelines that share a directory

VARIABLES
    usb,           \* the USB setup
    crew,          \* the pipelines
    dir            \* the bundle directory

bundleVars == <<usb, crew, dir>>

None == "none"
Artifacts == <<"guide.json", "guide.txt", "smoke.json", "smoke.txt">>
ArtifactSet == Range(Artifacts)
NoDir == [exists |-> FALSE, files |-> <<>>]
CrewIdle == [pc |-> "idle"]
UsbIdle == [pc |-> "idle"]

-----------------------------------------------------------------------------
(* verify_moto_g_readiness, run_moto_g_usb_setup *)

(* collect_readiness_report: the phone is asked before the Hub. *)
DeviceFacts == {"device", "reverse"}
HubFacts == {"hub", "apk"}
Readiness(facts) == Facts \subseteq facts

(* readiness_blockers_for_execution: the reverse port may still be missing. *)
UsbBlocked(facts) == ~(Facts \ {"reverse"} \subseteq facts)

(* run_moto_g_usb_setup: gates first. *)
StartUsb(execute, confirm) ==
    /\ usb = UsbIdle /\ Starts(MaxJobs)
    /\ usb' = [pc |-> IF execute /\ confirm /\ ~UsbBlocked(site) THEN "reverse" ELSE "report",
               executed |-> execute /\ confirm /\ ~UsbBlocked(site), ok |-> ~execute /\ ~UsbBlocked(site)]
    /\ UNCHANGED <<crew, dir, site, flips>>

UsbStep(status, next) ==
    usb' = IF status = "OK" THEN [usb EXCEPT !.pc = next] ELSE [usb EXCEPT !.pc = "report"]

(* The port is opened, listed back, and only then the APK installed. *)
OpenReverse ==
    /\ usb.pc = "reverse"
    /\ \E r \in Outcomes :
         /\ site' = IF r = "OK" /\ TargetResolved THEN site \cup {"reverse"} ELSE site
         /\ UsbStep(r, "verify")
    /\ UNCHANGED <<crew, dir>>

VerifyReverse ==
    /\ usb.pc = "verify"
    /\ \E r \in Outcomes : UsbStep(IF "reverse" \in site THEN r ELSE "FAIL", "install")
    /\ UNCHANGED <<crew, dir, site>>

InstallApk ==
    /\ usb.pc = "install"
    /\ \E r \in Outcomes : usb' = [usb EXCEPT !.pc = "report", !.ok = r = "OK"]
    /\ UNCHANGED <<crew, dir, site>>

EndUsb == usb.pc = "report" /\ usb' = UsbIdle /\ UNCHANGED <<crew, dir, site>>

-----------------------------------------------------------------------------
(* record_moto_g_smoke, guide_moto_g_validation *)

(* SmokeRecord: what the readiness check, the USB plan and a look at the   *)
(* APK found, one after the other, and the operator's checklist.           *)
Record(c) == [ready |-> Readiness(c.read), usb |-> ~UsbBlocked(c.plan), prereq |-> ~UsbBlocked(c.read),
              apk |-> c.apk, manual |-> c.manual]

ReadyForManualSmoke(rec) == rec.ready /\ rec.apk
PhysicalSmokePassed(rec) == ReadyForManualSmoke(rec) /\ rec.manual = "pass"

(* build_steps: the first step that is not done. *)
NextStepId(rec) ==
    IF ~rec.prereq THEN "preflight-readiness"
    ELSE IF ~ReadyForManualSmoke(rec) THEN "usb-setup"
    ELSE IF ~PhysicalSmokePassed(rec) THEN "manual-phone-smoke"
    ELSE None

Guide(rec) == [record |-> rec, ok |-> PhysicalSmokePassed(rec), next |-> NextStepId(rec)]

(* render_json, render_text: the text follows from the JSON. *)
Content(file, rec) == IF file \in {"guide.json", "guide.txt"} THEN Guide(rec) ELSE rec

(* A bundle that is complete. *)
FullBundle(rec) ==
    [f \in ArtifactSet \cup {"marker", "manifest"} |->
        CASE f = "marker" -> None
          [] f = "manifest" -> [ok |-> PhysicalSmokePassed(rec), next |-> NextStepId(rec),
                                hashes |-> [a \in ArtifactSet |-> Content(a, rec)]]
          [] OTHER -> Content(f, rec)]

(* What an earlier bundle recorded of a bench that was ready. *)
EarlierRecord(manual) == Record([read |-> Facts, plan |-> Facts, apk |-> TRUE, manual |-> manual])

(* At first there is no directory, one that a collector left before it     *)
(* wrote the marker, or an earlier bundle.                                 *)
BundleInit ==
    /\ usb = UsbIdle
    /\ crew = [p \in Pipelines |-> CrewIdle]
    /\ \/ dir = NoDir
       \/ dir = [exists |-> TRUE, files |-> <<>>]
       \/ \E manual \in {"pass", "open"} :
            dir = [exists |-> TRUE, files |-> FullBundle(EarlierRecord(manual))]

-----------------------------------------------------------------------------
(* collect_moto_g_validation_bundle *)

PipeAt(p, pc) == crew[p].pc = pc
Go(p, pc) == crew' = [crew EXCEPT ![p].pc = pc]
Ends(p, verdict) ==
    crew' = [crew EXCEPT ![p] = [pc |-> "done", exit |-> verdict, force |-> crew[p].force,
                                 manifest |-> crew[p].manifest]]
FileSet == DOMAIN dir.files
NoManifest == [ok |-> FALSE, next |-> None, hashes |-> <<>>]

(* The pipelines that were started with --force. *)
Forced == {p \in Pipelines : crew[p].pc # "idle" /\ crew[p].force}

StartPipeline(p, force, manual) ==
    /\ PipeAt(p, "idle") /\ Starts(MaxJobs) /\ (force => Cardinality(Forced) < MaxForced)
    /\ crew' = [crew EXCEPT ![p] = [pc |-> "inspect", force |-> force, manual |-> manual,
                                    doomed |-> {}, read |-> {}, plan |-> {}, apk |-> FALSE, i |-> 1,
                                    hashes |-> <<>>, sound |-> TRUE, manifest |-> NoManifest]]
    /\ UNCHANGED <<usb, dir, site, flips>>

(* collect_bundle asks whether the directory exists: without --force that  *)
(* is a conflict, ...                                                      *)
InspectDir(p) ==
    /\ PipeAt(p, "inspect")
    /\ \/ ~dir.exists /\ Go(p, "mkdir")
       \/ dir.exists /\ ~crew[p].force /\ Ends(p, 2)
       \/ dir.exists /\ crew[p].force /\ Go(p, "check")
    /\ UNCHANGED <<usb, dir, site>>

(* ... with it the directory must have the marker (ensure_force_safe).     *)
EnsureForceSafe(p) ==
    /\ PipeAt(p, "check")
    /\ IF "marker" \in FileSet THEN Go(p, "list") ELSE Ends(p, 2)
    /\ UNCHANGED <<usb, dir, site>>

(* shutil.rmtree lists the directory, ... *)
ListDir(p) ==
    /\ PipeAt(p, "list")
    /\ IF dir.exists THEN crew' = [crew EXCEPT ![p].doomed = FileSet, ![p].pc = "unlink"] ELSE Ends(p, 1)
    /\ UNCHANGED <<usb, dir, site>>

(* The order in which a listing names its files, whichever it is. *)
FirstOf(files) == CHOOSE f \in files : TRUE

(* ... removes file after file, and fails when one is gone already, ... *)
UnlinkFile(p) ==
    /\ PipeAt(p, "unlink")
    /\ \/ /\ crew[p].doomed = {}
          /\ Go(p, "rmdir") /\ UNCHANGED dir
       \/ /\ crew[p].doomed # {}
          /\ LET f == FirstOf(crew[p].doomed) IN
             \/ /\ f \in FileSet
                /\ dir' = [dir EXCEPT !.files = [g \in FileSet \ {f} |-> dir.files[g]]]
                /\ crew' = [crew EXCEPT ![p].doomed = @ \ {f}]
             \/ f \notin FileSet /\ Ends(p, 1) /\ UNCHANGED dir
    /\ UNCHANGED <<usb, site>>

(* ... and removes the directory, if that is empty. *)
RemoveDir(p) ==
    /\ PipeAt(p, "rmdir")
    /\ \/ dir.exists /\ FileSet = {} /\ Go(p, "mkdir") /\ dir' = NoDir
       \/ ~(dir.exists /\ FileSet = {}) /\ Ends(p, 1) /\ UNCHANGED dir
    /\ UNCHANGED <<usb, site>>

(* mkdir fails on a directory that appeared in between. *)
MakeDir(p) ==
    /\ PipeAt(p, "mkdir")
    /\ \/ dir.exists /\ Ends(p, 1) /\ UNCHANGED dir
       \/ ~dir.exists /\ Go(p, "readDevice") /\ dir' = [exists |-> TRUE, files |-> <<>>]
    /\ UNCHANGED <<usb, site>>

(* build_record: the reads, in order. *)
ReadBench(p) ==
    /\ \/ /\ PipeAt(p, "readDevice")
          /\ crew' = [crew EXCEPT ![p].read = site \cap DeviceFacts, ![p].pc = "readHub"]
       \/ /\ PipeAt(p, "readHub")
          /\ crew' = [crew EXCEPT ![p].read = @ \cup (site \cap HubFacts), ![p].pc = "planDevice"]
       \/ /\ PipeAt(p, "planDevice")
          /\ crew' = [crew EXCEPT ![p].plan = site, ![p].apk = "apk" \in site, ![p].pc = "write"]
    /\ UNCHANGED <<usb, dir, site>>

(* One file more, or another content of the same name. *)
With(fs, file, content) == [f \in DOMAIN fs \cup {file} |-> IF f = file THEN content ELSE fs[f]]

Put(file, content) == [dir EXCEPT !.files = With(@, file, content)]

(* The artifacts one by one, then the marker; a directory that is gone     *)
(* ends the script.                                                        *)
WriteArtifact(p) ==
    /\ PipeAt(p, "write")
    /\ LET c == crew[p] IN
       \/ ~dir.exists /\ Ends(p, 1) /\ UNCHANGED dir
       \/ /\ dir.exists /\ c.i <= Len(Artifacts)
          /\ dir' = Put(Artifacts[c.i], Content(Artifacts[c.i], Record(c)))
          /\ crew' = [crew EXCEPT ![p].i = @ + 1]
       \/ /\ dir.exists /\ c.i > Len(Artifacts)
          /\ dir' = Put("marker", None) /\ crew' = [crew EXCEPT ![p].i = 1, ![p].pc = "hash"]
    /\ UNCHANGED <<usb, site>>

(* file_entry hashes what is on disk, file by file. *)
HashArtifact(p) ==
    /\ PipeAt(p, "hash")
    /\ LET c == crew[p] IN
       \/ c.i > Len(Artifacts) /\ Go(p, "manifest")
       \/ c.i <= Len(Artifacts) /\ Artifacts[c.i] \notin FileSet /\ Ends(p, 1)
       \/ /\ c.i <= Len(Artifacts) /\ Artifacts[c.i] \in FileSet
          /\ crew' = [crew EXCEPT ![p].hashes = With(@, Artifacts[c.i], dir.files[Artifacts[c.i]]),
                                  ![p].i = @ + 1]
    /\ UNCHANGED <<usb, dir, site>>

(* The manifest comes last: this run's verdict over the hashes. *)
WriteManifest(p) ==
    /\ PipeAt(p, "manifest")
    /\ \/ ~dir.exists /\ Ends(p, 1) /\ UNCHANGED dir
       \/ /\ dir.exists /\ Go(p, "verify")
          /\ LET rec == Record(crew[p]) IN
             dir' = Put("manifest", [ok |-> PhysicalSmokePassed(rec), next |-> NextStepId(rec),
                                     hashes |-> crew[p].hashes])
    /\ UNCHANGED <<usb, site>>

-----------------------------------------------------------------------------
(* verify_moto_g_validation_bundle: it reads the manifest, checks the      *)
(* hashes, and reads the files again for their contents.                   *)
ReadManifest(p) ==
    /\ PipeAt(p, "verify")
    /\ IF "manifest" \in FileSet
       THEN crew' = [crew EXCEPT ![p].manifest = dir.files["manifest"], ![p].pc = "artifacts"]
       ELSE Ends(p, 2)
    /\ UNCHANGED <<usb, dir, site>>

(* validate_artifacts, validate_metadata, validate_bundle_contents *)
ArtifactsMatch(m) ==
    /\ DOMAIN m.hashes = ArtifactSet
    /\ \A f \in ArtifactSet : f \in FileSet /\ dir.files[f] = m.hashes[f]
    /\ "marker" \in FileSet

CheckArtifacts(p) ==
    /\ PipeAt(p, "artifacts")
    /\ crew' = [crew EXCEPT ![p].sound = ArtifactsMatch(crew[p].manifest), ![p].pc = "contents"]
    /\ UNCHANGED <<usb, dir, site>>

(* expected_guide_text, expected_smoke_text: the texts are those of the    *)
(* JSON beside them.                                                       *)
TextsAgree == /\ dir.files["guide.txt"] = dir.files["guide.json"]
              /\ dir.files["smoke.txt"] = dir.files["smoke.json"]

(* json_consistency_checks *)
ContentsAgree(m) ==
    /\ ArtifactSet \subseteq FileSet
    /\ LET guide == dir.files["guide.json"]  rec == dir.files["smoke.json"] IN
       /\ m.ok = guide.ok /\ m.next = guide.next
       /\ guide.record = rec
       /\ m.ok = PhysicalSmokePassed(rec)
    /\ TextsAgree

(* Slip: a bundle that is sound counts as passed. *)
CheckContentsOfAnyVerdict(p) ==
    /\ PipeAt(p, "contents")
    /\ Ends(p, IF ~(crew[p].sound /\ ContentsAgree(crew[p].manifest)) THEN 2 ELSE 0)
    /\ UNCHANGED <<usb, dir, site>>

(* exit_code: 2 unsound, 1 sound but not passed, 0 passed. *)
CheckContents(p) ==
    /\ PipeAt(p, "contents")
    /\ Ends(p, IF ~(crew[p].sound /\ ContentsAgree(crew[p].manifest)) THEN 2
               ELSE IF crew[p].manifest.ok THEN 0 ELSE 1)
    /\ UNCHANGED <<usb, dir, site>>

(* A script that is killed leaves the directory as it is. *)
PipelineDies(p) ==
    /\ ~PipeAt(p, "idle") /\ ~PipeAt(p, "done") /\ Ends(p, 1)
    /\ UNCHANGED <<usb, dir, site>>

UsbActs == OpenReverse \/ VerifyReverse \/ InstallApk \/ EndUsb

PipelineActs(p) ==
    \/ InspectDir(p) \/ EnsureForceSafe(p) \/ ListDir(p) \/ UnlinkFile(p) \/ RemoveDir(p)
    \/ MakeDir(p) \/ ReadBench(p) \/ WriteArtifact(p) \/ HashArtifact(p)
    \/ WriteManifest(p) \/ ReadManifest(p) \/ CheckArtifacts(p) \/ CheckContents(p)

BundleNext ==
    \/ \E execute, confirm \in BOOLEAN : StartUsb(execute, confirm)
    \/ \E p \in Pipelines, force \in BOOLEAN, manual \in {"pass", "open"} : StartPipeline(p, force, manual)
    \/ (UsbActs \/ \E p \in Pipelines : PipelineActs(p) \/ PipelineDies(p)) /\ UNCHANGED <<runs, flips>>

-----------------------------------------------------------------------------
AtMostOneForced == \A p, q \in Forced : p = q

(* As long as one pipeline only runs with --force, whichever others there  *)
(* are, a pipeline that exits with 0 vouches for one record: all the files *)
(* its manifest hashes show the same record, that record passed, and the   *)
(* guide has no step left - also when the forced pipeline removes and      *)
(* replaces the files between another's writing, hashing and reading       *)
(* (collect_bundle, verify_bundle).                                        *)
BundleIsGenuine ==
    AtMostOneForced =>
        \A p \in Pipelines : PipeAt(p, "done") /\ crew[p].exit = 0 =>
            \E rec \in {crew[p].manifest.hashes["smoke.json"]} :
                /\ \A f \in ArtifactSet : crew[p].manifest.hashes[f] = Content(f, rec)
                /\ PhysicalSmokePassed(rec) /\ crew[p].manifest.next = None

=============================================================================
