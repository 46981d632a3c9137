----------------------------- MODULE RomRefresh -----------------------------
(***************************************************************************)
(* The ROM-0 evidence directory at work: the operator runs one script at a *)
(* time, any of which may be cut short, a refresh replaces the report and  *)
(* the checklist file by file, and the Hub's status tool reads the two     *)
(* files one after the other without coordination.                         *)
(***************************************************************************)
EXTENDS RomEvidence

CONSTANTS
    Archives,      \* stock firmware archives
    TypedGates,    \* gates files as an operator may type them
    MaxTime,       \* bound on the clock
    MaxRuns,       \* bound on the script runs
    MaxFaults      \* bound on the runs cut short and the failed writes

ASSUME RomRefreshAssumption ==
    /\ MaxTime \in Nat /\ MaxRuns \in Nat /\ MaxFaults \in Nat
    /\ TypedGates \subseteq {EditedGates(b, eligible, a, backup) :
         b \in Builds \cup {NoBuild}, a \in Archives \cup {BlankArchive},
         eligible \in BOOLEAN, backup \in BOOLEAN}

VARIABLES
    disk,       \* the evidence files
    plan,       \* the writes the running refresh has left
    opened,     \* the first of them has truncated its file
    hub,        \* the status tool: its step and the report it read
    clock,
    runs,
    faults,
    unremoved,  \* history: a removal of the checklist failed and it was not replaced since
    checks,     \* history: <<build, time>> of the unlock checks that found the phone eligible
    witnessed   \* history: during the tool's call the files were READY and belonged together

romVars == <<disk, plan, opened, hub, clock, runs, faults, unremoved, checks, witnessed>>

NoReport == Missing
IdleHub == [pc |-> "idle", report |-> NoReport]

(* What adb can report: no phone, or some build with its lock state. *)
ProbesAt(now) == {BlockedProbe(now)} \cup
                 {ProbeReport(b, unlocked, now) : b \in Builds, unlocked \in BOOLEAN}

(* What earlier runs of the scripts left: a stock record comes after the   *)
(* rollback document, an unlock check after a probe of a phone, a passed   *)
(* preflight after that and the stock and GSI records.                     *)
Left(probe, checked, doc, stock, gsi, dsu, fastboot) ==
    /\ stock # Missing => doc # Missing
    /\ checked => NamesTarget(probe)
    /\ dsu # Missing => NamesTarget(probe) /\ stock # Missing /\ gsi # Missing
    /\ disk = [probe |-> probe, unlock |-> IF checked THEN UnlockEvidence(probe, TRUE, 0) ELSE Missing,
               stock |-> stock, gsi |-> gsi, dsu |-> dsu,
               fastboot |-> fastboot, rollback |-> doc, gates |-> Missing,
               report |-> Missing, checklist |-> Missing]
    /\ checks = IF checked THEN {<<probe.build, 0>>} ELSE {}

RomInit ==
    /\ \E probe \in {Missing} \cup {ProbeReport(b, TRUE, 0) : b \in Builds}, checked \in BOOLEAN,
          doc \in {Missing} \cup {RollbackDoc(b, a) : b \in Builds, a \in Archives},
          stock \in {Missing} \cup {StockEvidence(a) : a \in Archives}, gsi \in {Missing, GsiEvidence},
          dsu \in {Missing, [state |-> "ok", ready |-> TRUE]},
          fastboot \in {Missing, FastbootEvidence("MANUAL_BOOTLOADER_VISIBLE")} :
         Left(probe, checked, doc, stock, gsi, dsu, fastboot)
    /\ plan = <<>> /\ opened = FALSE
    /\ hub = IdleHub
    /\ clock = 0 /\ runs = 0 /\ faults = 0 /\ unremoved = FALSE
    /\ witnessed = FALSE

-----------------------------------------------------------------------------
(* One run of a script that writes one file: write_output truncates the    *)
(* file and fills it, and a run cut short in between leaves it torn.  The  *)
(* Hub reads none of the files but the checklist, so a call it has begun   *)
(* commutes with these runs and may as well begin after them.              *)
RunScript(file, content) ==
    /\ plan = <<>> /\ (hub = IdleHub \/ file = "checklist")
    /\ runs < MaxRuns /\ runs' = runs + 1
    /\ \/ disk' = [disk EXCEPT ![file] = content] /\ UNCHANGED faults
       \/ faults < MaxFaults /\ faults' = faults + 1 /\ disk' = [disk EXCEPT ![file] = Torn]
    /\ unremoved' = IF file = "checklist" THEN FALSE ELSE unremoved
    /\ UNCHANGED <<plan, opened, hub, clock>>

RunProbe == (\E p \in ProbesAt(clock) : RunScript("probe", p)) /\ UNCHANGED checks

CreateUnlock(eligible) ==
    /\ NamesTarget(disk.probe)
    /\ RunScript("unlock", UnlockEvidence(disk.probe, eligible, clock))
    /\ checks' = IF eligible THEN checks \cup {<<disk.probe.build, clock>>} ELSE checks

(* The rollback document is copied by hand from the generated draft. *)
WriteRollback(a) ==
    /\ NamesTarget(disk.probe)
    /\ RunScript("rollback", RollbackDoc(disk.probe.build, a)) /\ UNCHANGED checks

CreateStock(a) ==
    /\ disk.rollback # Missing
    /\ RunScript("stock", StockEvidence(a)) /\ UNCHANGED checks

CreateGsi == RunScript("gsi", GsiEvidence) /\ UNCHANGED checks

(* Written also when the preflight is blocked. *)
CreateDsu ==
    /\ NamesTarget(disk.probe)
    /\ RunScript("dsu", DsuEvidence(disk)) /\ UNCHANGED checks

CreateFastboot(available, requested, visible) ==
    /\ RunScript("fastboot", FastbootEvidence(FastbootStatus(available, requested, visible)))
    /\ UNCHANGED checks

(* What can be given to the template: load_probe_target_device wants a      *)
(* probe of a phone, and an unlock check is taken only with a probe.        *)
Givable(given) ==
    /\ "probe" \in given => NamesTarget(disk.probe)
    /\ "stock" \in given => StockReady(disk)
    /\ "unlock" \in given => "probe" \in given /\ UnlockInput(disk) = "LOADED"

(* Slip: the check may be one of another build or day. *)
CreateGatesUnbound(given) ==
    /\ Givable(given)
    /\ RunScript("gates", GatesTemplate(disk, given)) /\ UNCHANGED checks

CreateGates(given) ==
    /\ Givable(given)
    /\ "unlock" \in given => UnlockCurrent(disk.unlock, disk.probe)
    /\ RunScript("gates", GatesTemplate(disk, given)) /\ UNCHANGED checks

(* The operator edits the template once the data is backed up, or writes   *)
(* the gates by hand.                                                      *)
ConfirmBackup ==
    /\ plan = <<>> /\ hub = IdleHub
    /\ Intact(disk.gates) /\ ~disk.gates.backup
    /\ disk' = [disk EXCEPT !.gates.backup = TRUE]
    /\ UNCHANGED <<plan, opened, hub, clock, runs, faults, unremoved, checks>>

EditGates(gates) == RunScript("gates", gates) /\ UNCHANGED checks

(* create_rom0_operator_checklist.py on its own. *)
RunChecklist ==
    /\ Intact(disk.report)
    /\ RunScript("checklist", Checklist(disk.report)) /\ UNCHANGED checks

-----------------------------------------------------------------------------
(* refresh_rom0_action_packet: it computes everything from the new probe   *)
(* and the evidence as it finds it, and writes.                            *)
Write(file, content) == [file |-> file, content |-> content]

(* Slip: the old checklist stays until the new one is written. *)
RefreshPlanKeepsChecklist(p, report) ==
    <<Write("probe", p), Write("report", report), Write("checklist", Checklist(report))>>

RefreshPlan(p, report) ==
    <<Write("probe", p), Write("checklist", Missing), Write("report", report),
      Write("checklist", Checklist(report))>>

StartRefresh ==
    /\ plan = <<>>
    /\ runs < MaxRuns /\ runs' = runs + 1
    /\ \E p \in ProbesAt(clock), guideWritten \in {TRUE} \cup {faults >= MaxFaults} :
         /\ plan' = RefreshPlan(p, RefreshReport(disk, p, guideWritten, TRUE))
         /\ faults' = IF guideWritten THEN faults ELSE faults + 1
    /\ UNCHANGED <<disk, opened, hub, clock, unremoved, checks>>

(* A removal is one step; a write truncates and then fills. *)
WriteNext ==
    /\ plan # <<>>
    /\ LET w == Head(plan) IN
         IF opened \/ w.content = Missing
         THEN /\ disk' = [disk EXCEPT ![w.file] = w.content]
              /\ plan' = Tail(plan) /\ opened' = FALSE
              /\ unremoved' = IF w.file = "checklist" THEN FALSE ELSE unremoved
         ELSE /\ disk' = [disk EXCEPT ![w.file] = Torn] /\ opened' = TRUE
              /\ UNCHANGED <<plan, unremoved>>
    /\ UNCHANGED <<hub, clock, runs, faults, checks>>

(* remove_operator_checklist_outputs: unlink() raises, the error is passed  *)
(* over and the refresh goes on beside the old checklist.                   *)
RemovalFails ==
    /\ plan # <<>> /\ Head(plan) = Write("checklist", Missing)
    /\ disk.checklist # Missing
    /\ faults < MaxFaults /\ faults' = faults + 1
    /\ plan' = Tail(plan) /\ unremoved' = TRUE
    /\ UNCHANGED <<disk, opened, hub, clock, runs, checks>>

(* write_operator_checklist_outputs: a checklist that cannot be written is *)
(* removed and the report is written again with the error.                 *)
ChecklistWriteFails ==
    /\ Len(plan) = 1 /\ Head(plan).file = "checklist"
    /\ faults < MaxFaults /\ faults' = faults + 1
    /\ plan' = <<Write("checklist", Missing),
                 Write("report", RefreshReport(disk, disk.probe,
                                               disk.report.inputs.guide = "LOADED", FALSE))>>
    /\ opened' = FALSE
    /\ UNCHANGED <<disk, hub, clock, runs, unremoved, checks>>

(* The refresh is killed, or another of its writes raises. *)
RefreshCutShort ==
    /\ plan # <<>>
    /\ faults < MaxFaults /\ faults' = faults + 1
    /\ plan' = <<>> /\ opened' = FALSE
    /\ UNCHANGED <<disk, hub, clock, runs, unremoved, checks>>

-----------------------------------------------------------------------------
(* goffy_rom_status_snapshot: a missing or malformed report is answered    *)
(* at once.                                                                *)
HubReadReport ==
    /\ hub.pc = "idle" /\ Intact(disk.report)
    /\ hub' = [pc |-> "reading", report |-> disk.report]
    /\ UNCHANGED <<disk, plan, opened, clock, runs, faults, unremoved, checks>>

(* The answer to the call. *)
Decision == RomStatus(hub.report, disk.checklist)

HubReadChecklist ==
    /\ hub.pc = "reading"
    /\ hub' = IdleHub
    /\ UNCHANGED <<disk, plan, opened, clock, runs, faults, unremoved, checks>>

Tick ==
    /\ plan = <<>> /\ hub = IdleHub
    /\ clock < MaxTime /\ clock' = clock + 1
    /\ UNCHANGED <<disk, plan, opened, hub, runs, faults, unremoved, checks>>

(* The two files belong together and say READY. *)
DiskReady(d) ==
    /\ Intact(d.report) /\ d.report.romReady
    /\ d.checklist = Checklist(d.report) /\ d.checklist.ready

RomStep ==
    \/ RunProbe
    \/ \E eligible \in BOOLEAN : CreateUnlock(eligible)
    \/ \E a \in Archives : WriteRollback(a) \/ CreateStock(a)
    \/ CreateGsi
    \/ CreateDsu
    \/ \E available, requested, visible \in BOOLEAN : CreateFastboot(available, requested, visible)
    \/ \E given \in SUBSET {"probe", "stock", "unlock"} : CreateGates(given)
    \/ ConfirmBackup
    \/ \E gates \in TypedGates : EditGates(gates)
    \/ RunChecklist
    \/ StartRefresh
    \/ WriteNext
    \/ RemovalFails
    \/ ChecklistWriteFails
    \/ RefreshCutShort
    \/ HubReadReport
    \/ HubReadChecklist
    \/ Tick

RomNext ==
    /\ RomStep
    /\ witnessed' = (hub'.pc = "reading" /\ (DiskReady(disk') \/ witnessed))

RomSpec == RomInit /\ [][RomNext]_romVars

-----------------------------------------------------------------------------
(* When the Hub says READY_FOR_MANUAL_REVIEW, the probe behind the report  *)
(* it read showed an unlocked phone, and a check that found the build of   *)
(* that very probe eligible was made within MaxAge of it                   *)
(* (goffy_rom_status_snapshot, unlock_evidence_probe_blockers).            *)
HubReadyIsEarned ==
    hub.pc = "reading" /\ Decision = "READY_FOR_MANUAL_REVIEW" =>
        LET p == hub.report.from IN
        /\ p.unlocked
        /\ \E c \in checks : c[1] = p.build /\ c[2] - p.at <= MaxAge /\ p.at - c[2] <= MaxAge

(* The Hub answers READY only if at some moment of its call a READY report *)
(* and the checklist made from it were both on disk, however the two reads *)
(* interleave with refreshes, crashes and failed writes.                   *)
StatusIsLinearizable ==
    hub.pc = "reading" /\ Decision = "READY_FOR_MANUAL_REVIEW" => witnessed

(* While no refresh is running, an intact checklist is the one of the      *)
(* intact report beside it, whatever cut earlier refreshes short: only a   *)
(* removal that fails (remove_operator_checklist_outputs passes over the   *)
(* error) can leave an older one, and only until a checklist is written.   *)
ChecklistFollowsReport ==
    plan = <<>> /\ Intact(disk.report) /\ Intact(disk.checklist) /\ ~unremoved =>
        disk.checklist = Checklist(disk.report)

(* The packet and the checklist, computed by different scripts from        *)
(* different data, tell the operator the same: what is recorded, whether   *)
(* the gates can be created, and READY only together.                      *)
PacketAndChecklistAgree ==
    plan = <<>> /\ hub = IdleHub /\ Intact(disk.probe) =>
        \A guideWritten \in BOOLEAN :
            LET packet == Packet(disk, disk.probe)
                report == RefreshReport(disk, disk.probe, guideWritten, TRUE)
                checklist == Checklist(report)
                status(id) == (CHOOSE i \in DOMAIN checklist.steps : checklist.steps[i].id = id)
            IN /\ \A id \in {"stock", "unlock", "gsi", "dsu", "fastboot"} :
                    (checklist.steps[status(id)].status = "DONE") = (packet.actions[id] = "RECORDED")
               /\ checklist.steps[status("gates")].status = packet.actions.gates
               /\ checklist.ready = (checklist.steps[status("review")].status = "READY")
               /\ checklist.ready => packet.actions.review = "READY"
               /\ checklist.ready = (RomStatus(report, checklist) = "READY_FOR_MANUAL_REVIEW")

(* The next step that the Hub's checklist tool names is never a blocked    *)
(* one, and what it must follow is done.                                   *)
NextStepIsActionable ==
    Intact(disk.checklist) =>
        LET next == NextStep(disk.checklist) IN
        /\ next.status # "BLOCKED" /\ ~next.blocked
        /\ \A i \in DOMAIN disk.checklist.steps :
              disk.checklist.steps[i].id \in MustFollow(next.id) =>
                  disk.checklist.steps[i].status = "DONE"

(* A readiness review that passes on gates whose target and eligibility    *)
(* came from the evidence files rests on a check: one that found the build *)
(* of the current probe eligible, within MaxAge of the probe the gates     *)
(* were made from (unlock_evidence_probe_blockers in                       *)
(* create_manual_gates_template; validate_manual_gates itself sees no      *)
(* check and no date, so what the operator types in is taken on trust).    *)
ReviewRestsOnACheck ==
    ReviewReady(disk) /\ ~disk.gates.edited =>
        \E c \in checks : /\ c[1] = disk.probe.build
                          /\ c[2] - disk.gates.probeAt <= MaxAge
                          /\ disk.gates.probeAt - c[2] <= MaxAge
=============================================================================
