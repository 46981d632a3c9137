---------------------------- MODULE RomEvidence ----------------------------
(***************************************************************************)
(* The ROM-0 evidence files under .goffy-validation and what is computed   *)
(* from them: the loaders' verdicts, the manual action packet, the refresh *)
(* report, the operator checklist, the answers of the Hub's two ROM tools  *)
(* and the readiness review.                                               *)
(*                                                                         *)
(* A file is missing, torn (truncated and not yet, or never, filled) or    *)
(* "ok" with the fields the scripts tell apart.  The phone is represented  *)
(* by its build fingerprint, which stands for the six target_device keys,  *)
(* and its bootloader lock; NoBuild is a probe that found no phone.        *)
(***************************************************************************)
EXTENDS Integers, Sequences, FiniteSets

CONSTANTS
    Builds,     \* build fingerprints of a kansas phone
    NoBuild,    \* no phone was connected
    MaxAge      \* UNLOCK_EVIDENCE_MAX_AGE

ASSUME RomEvidenceAssumption == NoBuild \notin Builds /\ MaxAge \in Nat

Missing == [state |-> "missing"]
Torn == [state |-> "torn"]
Intact(file) == file.state = "ok"

-----------------------------------------------------------------------------
(* What the scripts put into a file.                                       *)

(* The report of a connected phone and the one without a device. *)
ProbeReport(b, unlocked, now) == [state |-> "ok", build |-> b, unlocked |-> unlocked, at |-> now]
BlockedProbe(now) == ProbeReport(NoBuild, FALSE, now)

(* classify_rom_path: a locked bootloader is the blocker that tells the    *)
(* kansas phone's states apart; Treble and the partitions do not change.   *)
ProbeOk(p) == p.build # NoBuild /\ p.unlocked

(* validate_target_device: the probe names all the keys of a kansas phone. *)
NamesTarget(p) == Intact(p) /\ p.build \in Builds

UnlockEvidence(p, eligible, now) ==
    [state |-> "ok", build |-> p.build, probeAt |-> p.at, eligible |-> eligible, at |-> now]

StockEvidence(archive) == [state |-> "ok", archive |-> archive]
GsiEvidence == [state |-> "ok"]

(* fastboot_status over the blockers and the devices that were visible. *)
FastbootStatus(available, requested, visible) ==
    IF ~available \/ (requested /\ ~visible) THEN "BLOCKED"
    ELSE IF requested THEN "MANUAL_BOOTLOADER_VISIBLE" ELSE "HOST_READY"
FastbootEvidence(status) == [state |-> "ok", status |-> status]

-----------------------------------------------------------------------------
(* The loaders.                                                            *)

(* load_optional_evidence: a file the loader refuses is INVALID, an absent *)
(* one MISSING.                                                            *)
InputStatus(file, accepted) ==
    IF file.state = "missing" THEN "MISSING"
    ELSE IF Intact(file) /\ accepted THEN "LOADED" ELSE "INVALID"

UnlockInput(d) == InputStatus(d.unlock, TRUE)
StockInput(d) == InputStatus(d.stock, TRUE)
GsiInput(d) == InputStatus(d.gsi, TRUE)
DsuInput(d) == InputStatus(d.dsu, Intact(d.dsu) /\ d.dsu.ready)
(* A status that its manual check and its commands bear out. *)
FastbootConsistent(e) == e.status \in {"HOST_READY", "MANUAL_BOOTLOADER_VISIBLE"}
FastbootInput(d) == InputStatus(d.fastboot, Intact(d.fastboot) /\ FastbootConsistent(d.fastboot))

Inputs(d, guideWritten) ==
    [unlock |-> UnlockInput(d), stock |-> StockInput(d), gsi |-> GsiInput(d), dsu |-> DsuInput(d),
     fastboot |-> FastbootInput(d), guide |-> IF guideWritten THEN "LOADED" ELSE "INVALID"]

(* dsu_blockers: what the preflight still misses. *)
DsuEvidence(d) ==
    [state |-> "ok", ready |-> StockInput(d) = "LOADED" /\ GsiInput(d) = "LOADED"]

(* guide_status of the bootloader visibility guide. *)
GuideStatus(d) ==
    CASE FastbootInput(d) = "MISSING" -> "HOST_EVIDENCE_MISSING"
      [] FastbootInput(d) = "INVALID" -> "FASTBOOT_EVIDENCE_INVALID"
      [] OTHER -> IF d.fastboot.status = "MANUAL_BOOTLOADER_VISIBLE"
                  THEN "MANUAL_BOOTLOADER_VISIBLE" ELSE "READY_FOR_MANUAL_BOOTLOADER_CHECK"

(* unlock_evidence_probe_blockers: the check was made for this probe's     *)
(* target, after the probe it names, within a day of the current probe.    *)
UnlockCurrent(u, p) ==
    /\ u.build = p.build
    /\ u.at >= u.probeAt
    /\ u.at - p.at <= MaxAge
    /\ p.at - u.at <= MaxAge

-----------------------------------------------------------------------------
(* The manual action packet.                                               *)

(* Slip: any answer of the check will do. *)
UnlockReadyAnyAnswer(d, p) == UnlockInput(d) = "LOADED" /\ UnlockCurrent(d.unlock, p)

UnlockReady(d, p) == UnlockInput(d) = "LOADED" /\ d.unlock.eligible /\ UnlockCurrent(d.unlock, p)
StockReady(d) == StockInput(d) = "LOADED"
GsiReady(d) == GsiInput(d) = "LOADED"
DsuReady(d) == DsuInput(d) = "LOADED"
FastbootReady(d) ==
    FastbootInput(d) = "LOADED" /\ d.fastboot.status = "MANUAL_BOOTLOADER_VISIBLE"
FastbootPresent(d) == FastbootInput(d) = "LOADED"

BlockedReasons(d, p) ==
    {r \in {"probe", "unlock", "stock", "gsi", "dsu", "visibility"} :
        CASE r = "probe" -> ~ProbeOk(p)
          [] r = "unlock" -> ~UnlockReady(d, p)
          [] r = "stock" -> ~StockReady(d)
          [] r = "gsi" -> ~GsiReady(d)
          [] r = "dsu" -> ~DsuReady(d)
          [] r = "visibility" -> ~FastbootReady(d)}

PacketStatus(d, p) ==
    IF BlockedReasons(d, p) = {} THEN "READY_FOR_ROM0_READINESS_REVIEW"
    ELSE IF UnlockReady(d, p) /\ StockReady(d) THEN "READY_FOR_MANUAL_GATE_TEMPLATE"
    ELSE "BLOCKED_MANUAL_EVIDENCE"

FastbootAction(d) == IF FastbootPresent(d) THEN "RECORDED" ELSE "REQUIRED"
StockAction(d) == IF StockReady(d) THEN "RECORDED" ELSE "REQUIRED"
GsiAction(d) == IF GsiReady(d) THEN "RECORDED" ELSE "REQUIRED"
DsuAction(d) ==
    IF DsuReady(d) THEN "RECORDED" ELSE IF StockReady(d) /\ GsiReady(d) THEN "READY" ELSE "BLOCKED"
UnlockAction(d, p) == IF UnlockReady(d, p) THEN "RECORDED" ELSE "REQUIRED"
GatesAction(d, p) == IF UnlockReady(d, p) /\ StockReady(d) THEN "READY" ELSE "BLOCKED"
ReadinessAction(d, p) == IF BlockedReasons(d, p) = {} THEN "READY" ELSE "BLOCKED"

(* build_packet.  The keys are the action ids that the checklist shares. *)
Packet(d, p) ==
    [status |-> PacketStatus(d, p),
     blockedBy |-> BlockedReasons(d, p),
     actions |-> [fastboot |-> FastbootAction(d), stock |-> StockAction(d), gsi |-> GsiAction(d),
                  dsu |-> DsuAction(d), unlock |-> UnlockAction(d, p), gates |-> GatesAction(d, p),
                  review |-> ReadinessAction(d, p)]]

-----------------------------------------------------------------------------
(* The refresh report.                                                     *)

RefreshStatus(succeeded, romReady) ==
    IF ~succeeded THEN "ERROR" ELSE IF romReady THEN "READY_FOR_ROM0_READINESS_REVIEW" ELSE "BLOCKED"

(* build_refresh_report over the files, the probe just made and the        *)
(* outcome of the guide and of the checklist.  `from` is history: the      *)
(* probe the report was computed from.                                     *)
RefreshReport(d, p, guideWritten, checklistWritten) ==
    LET inputs == Inputs(d, guideWritten)
        packet == Packet(d, p)
        succeeded == /\ \A name \in DOMAIN inputs : inputs[name] # "INVALID"
                     /\ p.build # NoBuild
                     /\ checklistWritten
        romReady == /\ succeeded
                    /\ packet.status = "READY_FOR_ROM0_READINESS_REVIEW"
                    /\ inputs.dsu = "LOADED"
    IN [state |-> "ok", succeeded |-> succeeded, romReady |-> romReady,
        status |-> RefreshStatus(succeeded, romReady), packetStatus |-> packet.status,
        guide |-> IF guideWritten THEN GuideStatus(d) ELSE "INVALID",
        blockedBy |-> packet.blockedBy, inputs |-> inputs, from |-> p]

-----------------------------------------------------------------------------
(* The operator checklist: a status and whether it has blockers, for each  *)
(* step in order.                                                          *)

Step(id, status, blocked) == [id |-> id, status |-> status, blocked |-> blocked]
DoneOr(done, status) == IF done THEN "DONE" ELSE status
ReadyIf(ready) == IF ready THEN "READY" ELSE "BLOCKED"

Loaded(r, name) == r.inputs[name] = "LOADED"

(* Slip: a loaded check counts, whatever the packet made of it. *)
UnlockAcceptedLoaded(r) == Loaded(r, "unlock")

(* unlock_semantically_ready: the packet's blocker decides. *)
UnlockAccepted(r) == Loaded(r, "unlock") /\ "unlock" \notin r.blockedBy

(* Slip: the refresh counts as done because it ran. *)
RefreshStepRan(r) == Step("refresh", "DONE", FALSE)

RefreshStep(r) == Step("refresh", DoneOr(r.succeeded, "READY"), FALSE)
StockStep(r) ==
    Step("stock", DoneOr(Loaded(r, "stock"), ReadyIf(r.succeeded)),
         ~(Loaded(r, "stock") \/ r.succeeded))
UnlockStep(r) ==
    Step("unlock", DoneOr(UnlockAccepted(r), ReadyIf(r.succeeded)), ~Loaded(r, "stock"))
GsiStep(r) ==
    Step("gsi", DoneOr(Loaded(r, "gsi"), ReadyIf(r.succeeded)), ~Loaded(r, "stock"))
DsuStep(r) ==
    LET prerequisites == Loaded(r, "stock") /\ Loaded(r, "gsi")
    IN Step("dsu", DoneOr(Loaded(r, "dsu"), ReadyIf(r.succeeded /\ prerequisites)),
            ~(Loaded(r, "dsu") \/ prerequisites))
HostFastbootStep(r) ==
    Step("fastboot", DoneOr(Loaded(r, "fastboot"), ReadyIf(r.succeeded)), FALSE)
VisibilityStep(r) ==
    LET visible == r.guide = "MANUAL_BOOTLOADER_VISIBLE"
        ready == r.guide = "READY_FOR_MANUAL_BOOTLOADER_CHECK"
    IN Step("visibility", DoneOr(visible, ReadyIf(ready)), ~(visible \/ ready))
GatesStep(r) ==
    LET ready == Loaded(r, "stock") /\ UnlockAccepted(r) IN Step("gates", ReadyIf(ready), ~ready)
ReviewStep(r) == Step("review", ReadyIf(r.succeeded /\ r.romReady), FALSE)
DecisionStep(r) == Step("decision", "BLOCKED", TRUE)

(* checklist_blockers: whether there is one. *)
ChecklistBlocked(r) ==
    \/ r.blockedBy # {}
    \/ ~r.succeeded
    \/ \E name \in DOMAIN r.inputs : r.inputs[name] = "INVALID"
    \/ \E name \in {"stock", "gsi", "dsu", "fastboot"} : ~Loaded(r, name)
    \/ ~UnlockAccepted(r)
    \/ r.guide # "MANUAL_BOOTLOADER_VISIBLE"

(* build_operator_checklist *)
Checklist(r) ==
    [state |-> "ok",
     ready |-> r.succeeded /\ r.romReady /\ ~ChecklistBlocked(r),
     steps |-> <<RefreshStep(r), StockStep(r), UnlockStep(r), GsiStep(r), DsuStep(r),
                 HostFastbootStep(r), VisibilityStep(r), GatesStep(r), ReviewStep(r),
                 DecisionStep(r)>>]

(* must_follow_after of the steps. *)
MustFollow(id) ==
    CASE id \in {"unlock", "gsi"} -> {"stock"}
      [] id = "dsu" -> {"stock", "gsi"}
      [] id = "visibility" -> {"fastboot"}
      [] id = "gates" -> {"stock", "unlock"}
      [] id = "review" -> {"gates", "gsi", "dsu", "visibility"}
      [] id = "decision" -> {"review"}
      [] OTHER -> {}

-----------------------------------------------------------------------------
(* The Hub's ROM tools (tools/rom_status.py).                              *)

UnlockGate(r) == IF Loaded(r, "unlock") /\ "unlock" \in r.blockedBy THEN "BLOCKED"
                 ELSE IF Loaded(r, "unlock") THEN "READY" ELSE r.inputs.unlock
EvidenceGate(r, name) == IF Loaded(r, name) THEN "READY" ELSE r.inputs[name]
FastbootGate(r) ==
    IF r.guide = "MANUAL_BOOTLOADER_VISIBLE" THEN "READY"
    ELSE IF Loaded(r, "fastboot") THEN "HOST_READY_ONLY" ELSE r.inputs.fastboot

GatesReady(r) ==
    /\ UnlockGate(r) = "READY"
    /\ \A name \in {"stock", "gsi", "dsu"} : EvidenceGate(r, name) = "READY"
    /\ FastbootGate(r) = "READY"

(* Slip: an absent checklist is no reason to withhold the answer. *)
RomStatusWithoutChecklist(r, c) ==
    IF /\ Intact(r) /\ r.romReady /\ GatesReady(r) /\ r.blockedBy = {} /\ r.succeeded
       /\ Intact(c) => c.ready
    THEN "READY_FOR_MANUAL_REVIEW" ELSE "BLOCKED"

(* install_decision of goffy_rom_status_snapshot, from the two files as    *)
(* they were read; missing and malformed files answer BLOCKED.             *)
RomStatus(r, c) ==
    IF /\ Intact(r) /\ Intact(c)
       /\ r.romReady /\ r.succeeded
       /\ r.status = "READY_FOR_ROM0_READINESS_REVIEW"
       /\ r.packetStatus = "READY_FOR_ROM0_READINESS_REVIEW"
       /\ GatesReady(r)
       /\ c.ready
       /\ r.blockedBy = {}
    THEN "READY_FOR_MANUAL_REVIEW" ELSE "BLOCKED"

(* goffy_rom_checklist_snapshot: the first remaining step that is not      *)
(* blocked, or the first remaining one.  Some step always remains.         *)
NextStep(c) ==
    LET remaining == {i \in DOMAIN c.steps : c.steps[i].status # "DONE"}
        open == {i \in remaining : c.steps[i].status # "BLOCKED" /\ ~c.steps[i].blocked}
        first(S) == CHOOSE i \in S : \A j \in S : i <= j
    IN c.steps[IF open # {} THEN first(open) ELSE first(remaining)]

-----------------------------------------------------------------------------
(* The manual gates and the readiness review.                              *)

BlankArchive == ""

(* create_manual_gates_template: each evidence file is optional, and what   *)
(* is not given stays blank, FALSE or "unknown".  `probeAt` and `edited`    *)
(* are history: the time of the probe given, and whether the operator has   *)
(* typed into the target or the eligibility since.                          *)
GatesTemplate(d, given) ==
    [state |-> "ok",
     build |-> IF "probe" \in given THEN d.probe.build ELSE NoBuild,
     eligible |-> "unlock" \in given /\ d.unlock.eligible,
     archive |-> IF "stock" \in given THEN d.stock.archive ELSE BlankArchive,
     backup |-> FALSE,
     probeAt |-> IF "probe" \in given THEN d.probe.at ELSE 0,
     edited |-> FALSE]

(* A gates file as the operator left it: any values, whoever wrote it first. *)
EditedGates(build, eligible, archive, backup) ==
    [state |-> "ok", build |-> build, eligible |-> eligible, archive |-> archive,
     backup |-> backup, probeAt |-> 0, edited |-> TRUE]

RollbackDoc(build, archive) == [state |-> "ok", build |-> build, archive |-> archive]

(* validate_target_device of the gates against the probe. *)
TargetMatches(gates, p) == gates.build \in Builds /\ gates.build = p.build

(* validate_rollback_doc *)
RollbackMatches(gates, doc) ==
    Intact(doc) /\ doc.build = gates.build /\ doc.archive = gates.archive

(* validate_manual_gates *)
GatesAccepted(gates, p, doc) ==
    /\ Intact(gates)
    /\ gates.backup
    /\ gates.eligible
    /\ TargetMatches(gates, p)
    /\ RollbackMatches(gates, doc)

(* validate_probe_evidence *)
ProbeAccepted(p) == Intact(p) /\ ProbeOk(p)

(* build_readiness_report, without its three sections on the signed APK. *)
ReviewReady(d) ==
    /\ ProbeAccepted(d.probe)
    /\ GatesAccepted(d.gates, d.probe, d.rollback)
    /\ FastbootReady(d)
    /\ GsiReady(d)
    /\ DsuReady(d)
=============================================================================
