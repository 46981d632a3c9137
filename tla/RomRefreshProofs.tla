-------------------------- MODULE RomRefreshProofs --------------------------
(* Proofs about the ROM-0 evidence directory, for any number of builds,    *)
(* archives, script runs, crashes and failed writes.                       *)
EXTENDS RomRefresh, TLAPS

-----------------------------------------------------------------------------
(* The inductive invariant.                                                *)

Files == {"probe", "unlock", "stock", "gsi", "dsu", "fastboot", "rollback", "gates", "report",
          "checklist"}

(* A check that found the build of the report's probe eligible, in time.   *)
Checked(p) == \E c \in checks : c[1] = p.build /\ c[2] - p.at <= MaxAge /\ p.at - c[2] <= MaxAge
Earned(r) ==
    /\ r.romReady => r.from.unlocked /\ Checked(r.from)
    /\ r.succeeded /\ r.romReady => ~ChecklistBlocked(r)
Reported(r) == Intact(r) /\ Earned(r)

(* Where a refresh is: the checklist of the old report is removed before   *)
(* the report is replaced, unless that fails, and the last write is the    *)
(* checklist of the report that is on disk by then.                        *)
PlanInv ==
    \/ plan = <<>>
    \/ /\ Len(plan) = 4 /\ plan = RefreshPlan(plan[1].content, plan[3].content)
       /\ Reported(plan[3].content)
    \/ /\ Len(plan) = 3 /\ Reported(plan[2].content)
       /\ plan = <<Write("checklist", Missing), Write("report", plan[2].content),
                   Write("checklist", Checklist(plan[2].content))>>
    \/ /\ Len(plan) = 2 /\ Reported(plan[1].content) /\ (unremoved \/ disk.checklist = Missing)
       /\ plan = <<Write("report", plan[1].content), Write("checklist", Checklist(plan[1].content))>>
    \/ /\ Len(plan) = 1 /\ Intact(disk.report) /\ (unremoved \/ ~Intact(disk.checklist))
       /\ plan = <<Write("checklist", Checklist(disk.report))>>
    \/ /\ Len(plan) = 2 /\ Reported(plan[2].content) /\ (unremoved \/ ~Intact(disk.checklist))
       /\ plan = <<Write("checklist", Missing), Write("report", plan[2].content)>>
    \/ /\ Len(plan) = 1 /\ Reported(plan[1].content) /\ (unremoved \/ disk.checklist = Missing)
       /\ plan = <<Write("report", plan[1].content)>>

(* Unless a removal failed, an intact checklist has its report, also in    *)
(* the middle of a refresh.                                                *)
Paired ==
    ~unremoved /\ Intact(disk.checklist) =>
        Intact(disk.report) /\ disk.checklist = Checklist(disk.report)

(* An older checklist was still made from some report.                     *)
Authored == Intact(disk.checklist) => \E r : disk.checklist = Checklist(r)

(* Gates that nobody typed into say eligible only after a check of their    *)
(* build within MaxAge of the probe they were made from.                    *)
Backed(g) ==
    g.eligible /\ ~g.edited =>
        \E c \in checks : c[1] = g.build /\ c[2] - g.probeAt <= MaxAge /\ g.probeAt - c[2] <= MaxAge

(* What is on disk about an eligible phone goes back to a check.           *)
EarnedInv ==
    /\ Intact(disk.report) => Earned(disk.report)
    /\ hub.pc = "reading" => Intact(hub.report) /\ Earned(hub.report)
    /\ Intact(disk.unlock) /\ disk.unlock.eligible => <<disk.unlock.build, disk.unlock.at>> \in checks
    /\ Intact(disk.gates) => Backed(disk.gates)

GateFields == {"state", "build", "eligible", "archive", "backup", "probeAt", "edited"}
DiskShape == DOMAIN disk = Files /\ (Intact(disk.gates) => DOMAIN disk.gates = GateFields)

RomInv == DiskShape /\ PlanInv /\ Paired /\ Authored /\ EarnedInv /\ StatusIsLinearizable

-----------------------------------------------------------------------------
(* Files.                                                                  *)

(* Missing and torn files are not intact, a checklist is. *)
LEMMA FileFacts ==
    /\ ~Intact(Missing) /\ ~Intact(Torn) /\ Missing # Torn
    /\ \A r : /\ Intact(Checklist(r)) /\ Checklist(r) # Missing
              /\ Checklist(r).ready => r.succeeded /\ r.romReady /\ ~ChecklistBlocked(r)
BY DEF Intact, Missing, Torn, Checklist

(* One file is replaced. *)
LEMMA WroteFacts ==
    ASSUME DOMAIN disk = Files, NEW file \in Files, NEW content,
           disk' = [disk EXCEPT ![file] = content]
    PROVE  /\ DOMAIN disk' = Files /\ disk'[file] = content
           /\ \A f \in Files : f # file => disk'[f] = disk[f]
OBVIOUS

(* The fields of a planned write. *)
LEMMA WriteFacts ==
    ASSUME NEW file, NEW content
    PROVE  Write(file, content).file = file /\ Write(file, content).content = content
BY DEF Write

(* What a refresh report says of the files. *)
LEMMA ReportFacts ==
    ASSUME NEW d, NEW p, NEW g, NEW r, r = RefreshReport(d, p, g, TRUE)
    PROVE  /\ Intact(r)
           /\ Loaded(r, "stock") <=> StockReady(d)
           /\ Loaded(r, "gsi") <=> GsiReady(d)
           /\ Loaded(r, "dsu") <=> DsuReady(d)
           /\ Loaded(r, "fastboot") <=> FastbootPresent(d)
           /\ UnlockAccepted(r) <=> UnlockReady(d, p)
           /\ r.blockedBy = BlockedReasons(d, p)
           /\ r.packetStatus = PacketStatus(d, p)
<1>1. r.inputs = Inputs(d, g) /\ r.blockedBy = BlockedReasons(d, p)
  BY DEF RefreshReport, Packet
<1>2. Intact(r) /\ r.packetStatus = PacketStatus(d, p)
  BY DEF RefreshReport, Packet, Intact
<1>3. /\ Loaded(r, "stock") <=> StockReady(d)
      /\ Loaded(r, "gsi") <=> GsiReady(d)
      /\ Loaded(r, "dsu") <=> DsuReady(d)
      /\ Loaded(r, "fastboot") <=> FastbootPresent(d)
      /\ Loaded(r, "unlock") <=> UnlockInput(d) = "LOADED"
  <2>1. /\ Inputs(d, g).stock = StockInput(d) /\ Inputs(d, g).gsi = GsiInput(d)
        /\ Inputs(d, g).dsu = DsuInput(d) /\ Inputs(d, g).fastboot = FastbootInput(d)
        /\ Inputs(d, g).unlock = UnlockInput(d)
    BY DEF Inputs
  <2> QED BY <1>1, <2>1 DEF Loaded, StockReady, GsiReady, DsuReady, FastbootPresent
<1>4. "unlock" \in BlockedReasons(d, p) <=> ~UnlockReady(d, p)
  BY DEF BlockedReasons
<1>5. UnlockAccepted(r) <=> UnlockReady(d, p)
  BY <1>1, <1>3, <1>4 DEF UnlockAccepted, UnlockReady
<1> QED BY <1>1, <1>2, <1>3, <1>5

(* A report that calls the ROM ready leaves the checklist no blocker and   *)
(* the Hub no closed gate.                                                 *)
LEMMA ReadyReport ==
    ASSUME NEW d, NEW p, NEW g \in BOOLEAN, NEW r, r = RefreshReport(d, p, g, TRUE),
           r.succeeded, r.romReady
    PROVE  /\ BlockedReasons(d, p) = {} /\ ~ChecklistBlocked(r) /\ GatesReady(r)
           /\ r.status = "READY_FOR_ROM0_READINESS_REVIEW"
           /\ r.packetStatus = "READY_FOR_ROM0_READINESS_REVIEW"
<1>1. PacketStatus(d, p) = "READY_FOR_ROM0_READINESS_REVIEW"
  BY DEF RefreshReport, Packet
<1>2. r.status = "READY_FOR_ROM0_READINESS_REVIEW"
  BY DEF RefreshReport, RefreshStatus
<1>3. r.inputs = Inputs(d, g) /\ \A name \in DOMAIN Inputs(d, g) : Inputs(d, g)[name] # "INVALID"
  BY DEF RefreshReport
<1>4. g
  BY <1>3 DEF Inputs
<1>5. BlockedReasons(d, p) = {}
  BY <1>1 DEF PacketStatus
<1>6. UnlockReady(d, p) /\ StockReady(d) /\ GsiReady(d) /\ DsuReady(d) /\ FastbootReady(d)
  BY <1>5 DEF BlockedReasons
<1>7. r.guide = GuideStatus(d)
  BY <1>4 DEF RefreshReport
<1>8. r.guide = "MANUAL_BOOTLOADER_VISIBLE"
  BY <1>6, <1>7 DEF GuideStatus, FastbootReady
<1>9. FastbootPresent(d)
  BY <1>6 DEF FastbootReady, FastbootPresent
<1>10. ~ChecklistBlocked(r)
  BY <1>3, <1>5, <1>6, <1>8, <1>9, ReportFacts DEF ChecklistBlocked
<1>11. GatesReady(r)
  BY <1>6, <1>8, ReportFacts DEF GatesReady, UnlockGate, EvidenceGate, FastbootGate, UnlockAccepted
<1> QED BY <1>1, <1>2, <1>5, <1>10, <1>11, ReportFacts

(* A refresh that finds everything ready has found an eligible phone.      *)
LEMMA ReportIsEarned ==
    ASSUME EarnedInv, NEW p, NEW guideWritten \in BOOLEAN, NEW checklistWritten \in BOOLEAN
    PROVE  Reported(RefreshReport(disk, p, guideWritten, checklistWritten))
<1> DEFINE r == RefreshReport(disk, p, guideWritten, checklistWritten)
<1>1. Intact(r) /\ r.from = p
  BY DEF RefreshReport, Intact
<1>2. r.romReady => PacketStatus(disk, p) = "READY_FOR_ROM0_READINESS_REVIEW"
  BY DEF RefreshReport, Packet
<1>3. PacketStatus(disk, p) = "READY_FOR_ROM0_READINESS_REVIEW" => BlockedReasons(disk, p) = {}
  BY DEF PacketStatus
<1>4. BlockedReasons(disk, p) = {} => ProbeOk(p) /\ UnlockReady(disk, p)
  BY DEF BlockedReasons
<1>5. UnlockReady(disk, p) => Checked(p)
  <2> SUFFICES ASSUME UnlockReady(disk, p) PROVE Checked(p)
    OBVIOUS
  <2>1. Intact(disk.unlock) /\ disk.unlock.eligible /\ UnlockCurrent(disk.unlock, p)
    BY DEF UnlockReady, UnlockInput, InputStatus
  <2>2. <<disk.unlock.build, disk.unlock.at>> \in checks
    BY <2>1 DEF EarnedInv
  <2> QED BY <2>1, <2>2 DEF Checked, UnlockCurrent
<1>7. r.succeeded => checklistWritten
  BY DEF RefreshReport
<1>8. r.succeeded /\ r.romReady => ~ChecklistBlocked(r)
  BY <1>7, ReadyReport
<1> HIDE DEF r
<1>6. Earned(r)
  BY <1>1, <1>2, <1>3, <1>4, <1>5, <1>8 DEF Earned, ProbeOk
<1> QED BY <1>1, <1>6 DEF Reported, r

-----------------------------------------------------------------------------
(* Steps.                                                                  *)

(* A check is never forgotten. *)
LEMMA ChecksStay ==
    ASSUME checks \subseteq checks'
    PROVE  \A r : (Earned(r) => Earned(r)') /\ (Reported(r) => Reported(r)')
BY DEF Earned, Checked, Reported

(* What a step does to the checklist: leave it, spoil it, or write the one *)
(* of the report beside it.                                                *)
Kept ==
    \/ disk'.checklist = disk.checklist
    \/ ~Intact(disk'.checklist)
    \/ Intact(disk'.report) /\ disk'.checklist = Checklist(disk'.report)

(* So it is always one that was made from a report. *)
LEMMA AuthoredStays ==
    ASSUME Authored, Kept
    PROVE  Authored'
BY DEF Authored, Kept

Witnesses == witnessed' = (hub'.pc = "reading" /\ (DiskReady(disk') \/ witnessed))

(* A call in progress: only a checklist that belongs to the report beside  *)
(* it can turn the answer to READY, and then both were on disk at once.    *)
LEMMA CallStep ==
    ASSUME StatusIsLinearizable, Witnesses, UNCHANGED hub, Kept
    PROVE  StatusIsLinearizable'
<1> SUFFICES ASSUME hub.pc = "reading",
                    RomStatus(hub.report, disk'.checklist) = "READY_FOR_MANUAL_REVIEW"
             PROVE  witnessed'
  BY DEF StatusIsLinearizable, Decision
<1>1. Intact(disk'.checklist) /\ disk'.checklist.ready
  BY DEF RomStatus
<1>2. CASE disk'.checklist = disk.checklist
  BY <1>2 DEF StatusIsLinearizable, Decision, Witnesses
<1>3. CASE Intact(disk'.report) /\ disk'.checklist = Checklist(disk'.report)
  <2>1. disk'.report.romReady
    BY <1>1, <1>3, FileFacts
  <2>2. DiskReady(disk')
    BY <1>1, <1>3, <2>1 DEF DiskReady
  <2> QED BY <2>2 DEF Witnesses
<1> QED BY <1>1, <1>2, <1>3 DEF Kept

(* One run of a script, cut short or not. *)
LEMMA ScriptStep ==
    ASSUME RomInv, Witnesses, NEW file \in Files \ {"report"}, NEW content,
           RunScript(file, content), checks \subseteq checks',
           file = "checklist" => Intact(disk.report) /\ content = Checklist(disk.report),
           file = "unlock" /\ Intact(content) /\ content.eligible =>
             <<content.build, content.at>> \in checks',
           file = "gates" /\ Intact(content) => Backed(content)' /\ DOMAIN content = GateFields
    PROVE  RomInv'
<1>1. PICK c : disk' = [disk EXCEPT ![file] = c] /\ c \in {content, Torn}
  BY DEF RunScript
<1>2. /\ DOMAIN disk' = Files /\ disk'[file] = c
      /\ \A f \in Files : f # file => disk'[f] = disk[f]
  BY <1>1, WroteFacts DEF RomInv, DiskShape
<1>a. DiskShape'
  <2>1. CASE file = "gates"
    BY <1>1, <1>2, <2>1, FileFacts DEF DiskShape
  <2>2. CASE file # "gates"
    <3>1. disk'.gates = disk.gates
      BY <1>2, <2>2 DEF Files
    <3> QED BY <1>2, <3>1 DEF DiskShape, RomInv
  <2> QED BY <2>1, <2>2
<1>3. /\ plan = <<>> /\ UNCHANGED <<plan, hub>> /\ disk'.report = disk.report
      /\ file # "checklist" => unremoved' = unremoved
  BY <1>2 DEF RunScript, Files
<1>4. PlanInv'
  BY <1>3 DEF PlanInv
<1>5. Paired' /\ Kept
  <2>1. CASE file = "checklist"
    BY <1>1, <1>2, <1>3, <2>1, FileFacts DEF Paired, Kept
  <2>2. CASE file # "checklist"
    <3>1. disk'.checklist = disk.checklist
      BY <1>2, <2>2 DEF Files
    <3>2. unremoved' = unremoved
      BY <1>3, <2>2
    <3> QED BY <1>3, <3>1, <3>2 DEF Paired, RomInv, Kept
  <2> QED BY <2>1, <2>2
<1>6. EarnedInv'
  <2>1. /\ Intact(disk'.report) => Earned(disk.report)'
        /\ hub'.pc = "reading" => Intact(hub'.report) /\ Earned(hub.report)'
    BY <1>3, ChecksStay DEF RomInv, EarnedInv, Earned, Checked
  <2>2. Intact(disk'.unlock) /\ disk'.unlock.eligible =>
          <<disk'.unlock.build, disk'.unlock.at>> \in checks'
    <3>1. CASE file = "unlock"
      BY <1>1, <1>2, <3>1, FileFacts
    <3>2. CASE file # "unlock"
      <4>1. disk'.unlock = disk.unlock
        BY <1>2, <3>2 DEF Files
      <4> QED BY <4>1 DEF RomInv, EarnedInv
    <3> QED BY <3>1, <3>2
  <2>3. Intact(disk'.gates) => Backed(disk.gates)'
    <3>1. CASE file = "gates"
      BY <1>1, <1>2, <3>1, FileFacts DEF Backed
    <3>2. CASE file # "gates"
      <4>1. disk'.gates = disk.gates
        BY <1>2, <3>2 DEF Files
      <4> QED BY <4>1 DEF RomInv, EarnedInv, Backed
    <3> QED BY <3>1, <3>2
  <2> QED BY <1>3, <2>1, <2>2, <2>3 DEF EarnedInv
<1>7. StatusIsLinearizable' /\ Authored'
  BY <1>3, <1>5, CallStep, AuthoredStays DEF RomInv
<1> QED BY <1>a, <1>4, <1>5, <1>6, <1>7 DEF RomInv

(* The next write of a refresh, whatever was planned. *)
LEMMA WriteStep ==
    ASSUME RomInv, Witnesses, WriteNext
    PROVE  RomInv'
<1> DEFINE w == Head(plan)
<1>1. UNCHANGED <<hub, checks>> /\ plan # <<>>
  BY DEF WriteNext
<1>2. ASSUME NEW file \in Files, NEW c, disk' = [disk EXCEPT ![file] = c],
             file \notin {"unlock", "gates"}, PlanInv', Paired', Kept,
             file = "report" => ~Intact(c) \/ Reported(c)
      PROVE  RomInv'
  <2>1. /\ DOMAIN disk' = Files /\ disk'[file] = c
        /\ \A f \in Files : f # file => disk'[f] = disk[f]
    BY <1>2, WroteFacts DEF RomInv, DiskShape
  <2>2. disk'.unlock = disk.unlock /\ disk'.gates = disk.gates
    BY <1>2, <2>1 DEF Files
  <2>3. Intact(disk'.report) => Earned(disk'.report)
    <3>1. CASE file = "report"
      BY <1>2, <2>1, <3>1 DEF Reported
    <3>2. CASE file # "report"
      BY <2>1, <3>2 DEF Files, RomInv, EarnedInv
    <3> QED BY <3>1, <3>2
  <2>4. EarnedInv'
    BY <1>1, <2>2, <2>3 DEF RomInv, EarnedInv, Earned, Checked, Backed
  <2>5. StatusIsLinearizable' /\ Authored'
    BY <1>1, <1>2, CallStep, AuthoredStays DEF RomInv
  <2>6. DiskShape'
    BY <2>1, <2>2 DEF DiskShape, RomInv
  <2> QED BY <1>2, <2>4, <2>5, <2>6 DEF RomInv
<1>3. ASSUME NEW file, NEW c, w = Write(file, c)
      PROVE  \/ /\ c # Missing /\ disk' = [disk EXCEPT ![file] = Torn]
                /\ UNCHANGED <<plan, unremoved>>
             \/ /\ disk' = [disk EXCEPT ![file] = c] /\ plan' = Tail(plan)
                /\ file # "checklist" => unremoved' = unremoved
  <2>1. w.file = file /\ w.content = c
    BY <1>3, WriteFacts
  <2>2. CASE opened \/ c = Missing
    <3>1. disk' = [disk EXCEPT ![file] = c] /\ plan' = Tail(plan)
      BY <2>1, <2>2 DEF WriteNext
    <3>2. file # "checklist" => unremoved' = unremoved
      BY <2>1, <2>2, Zenon DEF WriteNext
    <3> QED BY <3>1, <3>2
  <2>3. CASE ~(opened \/ c = Missing)
    BY <2>1, <2>3 DEF WriteNext
  <2> QED BY <2>2, <2>3
<1> HIDE DEF w
<1>a. \A r : Reported(r)' <=> Reported(r)
  BY <1>1 DEF Reported, Earned, Checked
<1>4. CASE Len(plan) = 4 /\ plan = RefreshPlan(plan[1].content, plan[3].content) /\ Reported(plan[3].content)
  <2>1. PICK p, r : /\ plan = RefreshPlan(p, r) /\ Reported(r)
    BY <1>4
  <2>2. /\ Head(plan) = Write("probe", p)
        /\ Tail(plan) = <<Write("checklist", Missing), Write("report", r), Write("checklist", Checklist(r))>>
    BY <2>1 DEF RefreshPlan
  <2>3. PICK c : disk' = [disk EXCEPT !["probe"] = c] /\ unremoved' = unremoved
    BY <1>3, <2>2 DEF w
  <2>4. disk'.report = disk.report /\ disk'.checklist = disk.checklist
    BY <2>3, WroteFacts DEF RomInv, DiskShape, Files
  <2>5. Paired' /\ Kept
    BY <2>3, <2>4 DEF Paired, RomInv, Kept
  <2>6. PlanInv'
    <3>1. CASE plan' = plan
      BY <1>4, <1>a, <3>1 DEF PlanInv
    <3>2. CASE plan' = Tail(plan)
      <4>0. plan' = <<Write("checklist", Missing), Write("report", r), Write("checklist", Checklist(r))>>
        BY <2>2, <3>2
      <4>1. plan'[2] = Write("report", r) /\ Len(plan') = 3
        BY <4>0
      <4>2. plan'[2].content = r
        BY <4>1, WriteFacts
      <4> QED BY <1>a, <2>1, <2>2, <3>2, <4>1, <4>2 DEF PlanInv
    <3> QED BY <1>3, <2>2, <3>1, <3>2 DEF w
  <2> QED BY <1>2, <2>3, <2>5, <2>6 DEF Files
<1>5. CASE /\ Len(plan) = 3 /\ Reported(plan[2].content)
           /\ plan = <<Write("checklist", Missing), Write("report", plan[2].content),
                       Write("checklist", Checklist(plan[2].content))>>
  <2>1. PICK r : /\ Reported(r)
                 /\ plan = <<Write("checklist", Missing), Write("report", r),
                             Write("checklist", Checklist(r))>>
    BY <1>5
  <2>2. /\ Head(plan) = Write("checklist", Missing)
        /\ Tail(plan) = <<Write("report", r), Write("checklist", Checklist(r))>>
    BY <2>1
  <2>3. disk' = [disk EXCEPT !["checklist"] = Missing] /\ plan' = Tail(plan)
    BY <1>3, <2>2 DEF w
  <2>4. disk'.checklist = Missing
    BY <2>3, WroteFacts DEF RomInv, DiskShape, Files
  <2>5. Paired' /\ Kept
    BY <2>4, FileFacts DEF Paired, Kept
  <2>6. PlanInv'
    <3>0. plan' = <<Write("report", r), Write("checklist", Checklist(r))>>
      BY <2>2, <2>3
    <3>1. plan'[1] = Write("report", r) /\ Len(plan') = 2
      BY <3>0
    <3>2. plan'[1].content = r
      BY <3>1, WriteFacts
    <3> QED BY <1>a, <2>1, <2>2, <2>3, <2>4, <3>1, <3>2 DEF PlanInv
  <2> QED BY <1>2, <2>3, <2>5, <2>6 DEF Files
<1>6. CASE /\ Len(plan) = 2 /\ Reported(plan[1].content) /\ (unremoved \/ disk.checklist = Missing)
           /\ plan = <<Write("report", plan[1].content), Write("checklist", Checklist(plan[1].content))>>
  <2>1. PICK r : /\ Reported(r)
                 /\ plan = <<Write("report", r), Write("checklist", Checklist(r))>>
    BY <1>6
  <2>2. /\ Head(plan) = Write("report", r) /\ Tail(plan) = <<Write("checklist", Checklist(r))>>
    BY <2>1
  <2>3. PICK c : /\ disk' = [disk EXCEPT !["report"] = c]
                 /\ (c = Torn /\ plan' = plan) \/ (c = r /\ plan' = Tail(plan))
                 /\ unremoved' = unremoved
    <3>1. \/ disk' = [disk EXCEPT !["report"] = Torn] /\ plan' = plan /\ unremoved' = unremoved
          \/ disk' = [disk EXCEPT !["report"] = r] /\ plan' = Tail(plan) /\ unremoved' = unremoved
      BY <1>3, <2>2 DEF w
    <3> QED BY <3>1
  <2>4. /\ disk'.report = c /\ disk'.checklist = disk.checklist
        /\ unremoved' \/ disk'.checklist = Missing
    BY <1>6, <2>3, WroteFacts DEF RomInv, DiskShape, Files
  <2>5. Paired' /\ Kept
    BY <2>4, FileFacts DEF Paired, Kept
  <2>6. PlanInv'
    <3>1. CASE plan' = plan
      BY <1>6, <1>a, <2>4, <3>1 DEF PlanInv
    <3>2. CASE c = r /\ plan' = Tail(plan)
      <4>1. Len(plan') = 1 /\ plan' = <<Write("checklist", Checklist(disk'.report))>>
        BY <2>2, <2>4, <3>2
      <4>2. Intact(disk'.report) /\ (unremoved' \/ ~Intact(disk'.checklist))
        BY <2>1, <2>4, <3>2, FileFacts DEF Reported
      <4> QED BY <4>1, <4>2 DEF PlanInv
    <3> QED BY <2>3, <3>1, <3>2
  <2>7. ~Intact(c) \/ Reported(c)
    BY <2>1, <2>3, FileFacts
  <2> QED BY <1>2, <2>3, <2>5, <2>6, <2>7 DEF Files
<1>7. CASE /\ Len(plan) = 1 /\ Intact(disk.report) /\ (unremoved \/ ~Intact(disk.checklist))
           /\ plan = <<Write("checklist", Checklist(disk.report))>>
  <2>1. Head(plan) = Write("checklist", Checklist(disk.report)) /\ Tail(plan) = <<>>
    BY <1>7
  <2>2. PICK c : /\ disk' = [disk EXCEPT !["checklist"] = c]
                 /\ \/ c = Torn /\ plan' = plan /\ unremoved' = unremoved
                    \/ c = Checklist(disk.report) /\ plan' = Tail(plan)
    BY <1>3, <2>1 DEF w
  <2>3. disk'.report = disk.report /\ disk'.checklist = c
    BY <2>2, WroteFacts DEF RomInv, DiskShape, Files
  <2>4. Paired' /\ Kept
    BY <1>7, <2>2, <2>3, FileFacts DEF Paired, Kept
  <2>5. PlanInv'
    BY <1>7, <2>1, <2>2, <2>3, FileFacts DEF PlanInv
  <2> QED BY <1>2, <2>2, <2>4, <2>5 DEF Files
<1>8. CASE /\ Len(plan) = 2 /\ Reported(plan[2].content) /\ (unremoved \/ ~Intact(disk.checklist))
           /\ plan = <<Write("checklist", Missing), Write("report", plan[2].content)>>
  <2>1. PICK r : /\ Reported(r)
                 /\ plan = <<Write("checklist", Missing), Write("report", r)>>
    BY <1>8
  <2>2. Head(plan) = Write("checklist", Missing) /\ Tail(plan) = <<Write("report", r)>>
    BY <2>1
  <2>3. disk' = [disk EXCEPT !["checklist"] = Missing] /\ plan' = Tail(plan)
    BY <1>3, <2>2 DEF w
  <2>4. disk'.checklist = Missing
    BY <2>3, WroteFacts DEF RomInv, DiskShape, Files
  <2>5. Paired' /\ Kept
    BY <2>4, FileFacts DEF Paired, Kept
  <2>6. PlanInv'
    <3>0. plan' = <<Write("report", r)>>
      BY <2>2, <2>3
    <3>1. plan'[1] = Write("report", r) /\ Len(plan') = 1
      BY <3>0
    <3>2. plan'[1].content = r
      BY <3>1, WriteFacts
    <3> QED BY <1>a, <2>1, <2>2, <2>3, <2>4, <3>1, <3>2 DEF PlanInv
  <2> QED BY <1>2, <2>3, <2>5, <2>6 DEF Files
<1>9. CASE /\ Len(plan) = 1 /\ Reported(plan[1].content) /\ (unremoved \/ disk.checklist = Missing)
           /\ plan = <<Write("report", plan[1].content)>>
  <2>1. PICK r : Reported(r) /\ plan = <<Write("report", r)>>
    BY <1>9
  <2>2. Head(plan) = Write("report", r) /\ Tail(plan) = <<>>
    BY <2>1
  <2>3. PICK c : /\ disk' = [disk EXCEPT !["report"] = c]
                 /\ (c = Torn /\ plan' = plan) \/ (c = r /\ plan' = Tail(plan))
                 /\ unremoved' = unremoved
    BY <1>3, <2>2 DEF w
  <2>4. disk'.checklist = disk.checklist /\ (unremoved' \/ disk'.checklist = Missing)
    BY <1>9, <2>3, WroteFacts DEF RomInv, DiskShape, Files
  <2>5. Paired' /\ Kept
    BY <2>4, FileFacts DEF Paired, Kept
  <2>6. PlanInv'
    BY <1>9, <1>a, <2>2, <2>3, <2>4 DEF PlanInv
  <2>7. ~Intact(c) \/ Reported(c)
    BY <2>1, <2>3, FileFacts
  <2> QED BY <1>2, <2>3, <2>5, <2>6, <2>7 DEF Files
<1> QED BY <1>1, <1>4, <1>5, <1>6, <1>7, <1>8, <1>9 DEF RomInv, PlanInv

(* A refresh begins, starts to undo a failed write, or ends. *)
LEMMA PlanStep ==
    ASSUME RomInv, Witnesses, UNCHANGED <<disk, hub, checks>>, PlanInv',
           unremoved' = unremoved \/ unremoved'
    PROVE  RomInv'
<1>1. DiskShape' /\ Paired' /\ EarnedInv' /\ Authored'
  BY DEF RomInv, DiskShape, Paired, EarnedInv, Earned, Checked, Authored, Backed
<1>2. StatusIsLinearizable'
  BY CallStep DEF RomInv, Kept
<1> QED BY <1>1, <1>2 DEF RomInv

(* The start of a refresh keeps the invariant. *)
LEMMA RefreshStarts ==
    ASSUME RomInv, Witnesses, StartRefresh
    PROVE  RomInv'
<1>1. PICK p \in ProbesAt(clock), guideWritten \in {TRUE} \cup {faults >= MaxFaults} :
        plan' = RefreshPlan(p, RefreshReport(disk, p, guideWritten, TRUE))
  BY DEF StartRefresh
<1>2. PICK r : r = RefreshReport(disk, p, guideWritten, TRUE)
  OBVIOUS
<1>3. UNCHANGED <<disk, hub, checks, unremoved>>
  BY DEF StartRefresh
<1>9. guideWritten \in BOOLEAN
  <2>1. (faults >= MaxFaults) \in BOOLEAN
    OBVIOUS
  <2> QED BY <2>1
<1>4. Reported(r)'
  BY <1>2, <1>3, <1>9, ReportIsEarned, ChecksStay DEF RomInv
<1>5. plan' = RefreshPlan(p, r)
  BY <1>1, <1>2
<1>6. plan'[1] = Write("probe", p) /\ plan'[3] = Write("report", r) /\ Len(plan') = 4
  BY <1>5 DEF RefreshPlan
<1>7. plan'[1].content = p /\ plan'[3].content = r
  BY <1>6, WriteFacts
<1>8. PlanInv'
  BY <1>4, <1>5, <1>6, <1>7 DEF PlanInv
<1> QED BY <1>3, <1>8, PlanStep

(* A failing checklist write keeps the invariant. *)
LEMMA ChecklistFails ==
    ASSUME RomInv, Witnesses, ChecklistWriteFails
    PROVE  RomInv'
<1>1. PICK r : r = RefreshReport(disk, disk.probe, disk.report.inputs.guide = "LOADED", FALSE)
  OBVIOUS
<1>2. /\ Len(plan) = 1 /\ Head(plan).file = "checklist" /\ UNCHANGED <<disk, hub, checks, unremoved>>
      /\ plan' = <<Write("checklist", Missing), Write("report", r)>>
  BY <1>1 DEF ChecklistWriteFails
<1>3. unremoved \/ ~Intact(disk.checklist)
  BY <1>2, FileFacts DEF RomInv, PlanInv
<1>4. Reported(r)'
  BY <1>1, <1>2, ReportIsEarned, ChecksStay DEF RomInv
<1>5. plan'[2] = Write("report", r) /\ Len(plan') = 2
  BY <1>2
<1>6. plan'[2].content = r
  BY <1>5, WriteFacts
<1>7. PlanInv'
  BY <1>2, <1>3, <1>4, <1>5, <1>6 DEF PlanInv
<1> QED BY <1>2, <1>7, PlanStep

(* A removal that fails leaves the older checklist, and says so. *)
LEMMA RemovalStep ==
    ASSUME RomInv, Witnesses, RemovalFails
    PROVE  RomInv'
<1>1. /\ UNCHANGED <<disk, hub, checks>> /\ unremoved' /\ plan' = Tail(plan)
      /\ plan # <<>> /\ Head(plan) = Write("checklist", Missing)
  BY DEF RemovalFails
<1>2. \A r : Reported(r) => Reported(r)' /\ r # Missing
  BY <1>1, FileFacts, ChecksStay DEF Reported
<1>3. CASE /\ Len(plan) = 3 /\ Reported(plan[2].content)
           /\ plan = <<Write("checklist", Missing), Write("report", plan[2].content),
                       Write("checklist", Checklist(plan[2].content))>>
  <2>1. PICK r : /\ Reported(r)
                 /\ plan = <<Write("checklist", Missing), Write("report", r),
                             Write("checklist", Checklist(r))>>
    BY <1>3
  <2>2. plan' = <<Write("report", r), Write("checklist", Checklist(r))>>
    BY <1>1, <2>1
  <2>3. plan'[1] = Write("report", r) /\ Len(plan') = 2
    BY <2>2
  <2>4. plan'[1].content = r
    BY <2>3, WriteFacts
  <2>5. PlanInv'
    BY <1>1, <1>2, <2>1, <2>2, <2>3, <2>4 DEF PlanInv
  <2> QED BY <1>1, <2>5, PlanStep
<1>4. CASE /\ Len(plan) = 2 /\ Reported(plan[2].content) /\ (unremoved \/ ~Intact(disk.checklist))
           /\ plan = <<Write("checklist", Missing), Write("report", plan[2].content)>>
  <2>1. PICK r : Reported(r) /\ plan = <<Write("checklist", Missing), Write("report", r)>>
    BY <1>4
  <2>2. plan' = <<Write("report", r)>>
    BY <1>1, <2>1
  <2>3. plan'[1] = Write("report", r) /\ Len(plan') = 1
    BY <2>2
  <2>4. plan'[1].content = r
    BY <2>3, WriteFacts
  <2>5. PlanInv'
    BY <1>1, <1>2, <2>1, <2>2, <2>3, <2>4 DEF PlanInv
  <2> QED BY <1>1, <2>5, PlanStep
<1>5. CASE Len(plan) = 4 /\ plan = RefreshPlan(plan[1].content, plan[3].content)
  <2>1. Head(plan) = Write("probe", plan[1].content)
    BY <1>5 DEF RefreshPlan
  <2> QED BY <1>1, <2>1, WriteFacts
<1>6. CASE \/ plan = <<Write("report", plan[1].content), Write("checklist", Checklist(plan[1].content))>>
           \/ plan = <<Write("report", plan[1].content)>>
  <2>1. PICK r : plan = <<Write("report", r), Write("checklist", Checklist(r))>>
                 \/ plan = <<Write("report", r)>>
    BY <1>6
  <2>2. Head(plan) = Write("report", r)
    BY <2>1
  <2> QED BY <1>1, <2>2, WriteFacts
<1>7. CASE plan = <<Write("checklist", Checklist(disk.report))>>
  <2>1. Head(plan) = Write("checklist", Checklist(disk.report))
    BY <1>7
  <2> QED BY <1>1, <2>1, WriteFacts, FileFacts
<1> QED BY <1>1, <1>3, <1>4, <1>5, <1>6, <1>7 DEF RomInv, PlanInv

(* Confirming the backup keeps the invariant. *)
LEMMA BackupStep ==
    ASSUME RomInv, Witnesses, ConfirmBackup
    PROVE  RomInv'
<1>1. PICK g : g = [disk.gates EXCEPT !.backup = TRUE]
  OBVIOUS
<1>2. /\ disk' = [disk EXCEPT !["gates"] = g] /\ Intact(disk.gates)
      /\ UNCHANGED <<plan, hub, checks, unremoved>> /\ plan = <<>>
  BY <1>1 DEF ConfirmBackup
<1>3. /\ DOMAIN disk' = Files /\ disk'.gates = g
      /\ disk'.report = disk.report /\ disk'.checklist = disk.checklist /\ disk'.unlock = disk.unlock
  BY <1>2, WroteFacts DEF RomInv, DiskShape, Files
<1>4. DOMAIN disk.gates = GateFields
  BY <1>2 DEF RomInv, DiskShape
<1>5. /\ DOMAIN g = GateFields /\ g.eligible = disk.gates.eligible
      /\ g.build = disk.gates.build /\ g.state = disk.gates.state
      /\ g.probeAt = disk.gates.probeAt /\ g.edited = disk.gates.edited
  BY <1>1, <1>4 DEF GateFields
<1>6. DiskShape'
  BY <1>3, <1>5 DEF DiskShape
<1>7. Paired' /\ PlanInv' /\ Authored'
  BY <1>2, <1>3 DEF RomInv, Paired, PlanInv, Authored
<1>8. EarnedInv'
  BY <1>2, <1>3, <1>5 DEF RomInv, EarnedInv, Earned, Checked, Intact, Backed
<1>9. StatusIsLinearizable'
  BY <1>2, <1>3, CallStep DEF RomInv, Kept
<1> QED BY <1>6, <1>7, <1>8, <1>9 DEF RomInv

(* All READY checklists are alike. *)
ReadyList ==
    [state |-> "ok", ready |-> TRUE,
     steps |-> <<Step("refresh", "DONE", FALSE), Step("stock", "DONE", FALSE),
                 Step("unlock", "DONE", FALSE), Step("gsi", "DONE", FALSE),
                 Step("dsu", "DONE", FALSE), Step("fastboot", "DONE", FALSE),
                 Step("visibility", "DONE", FALSE), Step("gates", "READY", FALSE),
                 Step("review", "READY", FALSE), Step("decision", "BLOCKED", TRUE)>>]

(* A report without a blocker has that checklist. *)
LEMMA ReadyListFacts ==
    ASSUME NEW r, r.succeeded, r.romReady, ~ChecklistBlocked(r)
    PROVE  Checklist(r) = ReadyList
<1>1. /\ Loaded(r, "stock") /\ Loaded(r, "gsi") /\ Loaded(r, "dsu") /\ Loaded(r, "fastboot")
      /\ UnlockAccepted(r) /\ r.guide = "MANUAL_BOOTLOADER_VISIBLE"
  BY DEF ChecklistBlocked
<1>2. RefreshStep(r) = Step("refresh", "DONE", FALSE)
  BY DEF RefreshStep, DoneOr
<1>3. StockStep(r) = Step("stock", "DONE", FALSE)
  BY <1>1 DEF StockStep, DoneOr, Step
<1>4. UnlockStep(r) = Step("unlock", "DONE", FALSE)
  BY <1>1 DEF UnlockStep, DoneOr, Step
<1>5. GsiStep(r) = Step("gsi", "DONE", FALSE)
  BY <1>1 DEF GsiStep, DoneOr, Step
<1>6. DsuStep(r) = Step("dsu", "DONE", FALSE)
  BY <1>1 DEF DsuStep, DoneOr, Step
<1>7. HostFastbootStep(r) = Step("fastboot", "DONE", FALSE)
  BY <1>1 DEF HostFastbootStep, DoneOr, Step
<1>8. VisibilityStep(r) = Step("visibility", "DONE", FALSE)
  BY <1>1 DEF VisibilityStep, DoneOr, Step
<1>9. GatesStep(r) = Step("gates", "READY", FALSE)
  BY <1>1 DEF GatesStep, ReadyIf, Step
<1>10. ReviewStep(r) = Step("review", "READY", FALSE)
  BY DEF ReviewStep, ReadyIf, Step
<1>11. (r.succeeded /\ r.romReady /\ ~ChecklistBlocked(r)) = TRUE
  OBVIOUS
<1> QED BY <1>2, <1>3, <1>4, <1>5, <1>6, <1>7, <1>8, <1>9, <1>10, <1>11
        DEF Checklist, ReadyList, DecisionStep

(* The Hub's two reads keep the invariant. *)
LEMMA HubStep ==
    ASSUME RomInv, Witnesses, HubReadReport \/ HubReadChecklist
    PROVE  RomInv'
<1>1. UNCHANGED <<disk, plan, checks, unremoved>>
  BY DEF HubReadReport, HubReadChecklist
<1>2. DiskShape' /\ Paired' /\ PlanInv' /\ Authored'
  BY <1>1 DEF RomInv, DiskShape, Paired, PlanInv, Reported, Earned, Checked, Authored
<1>3. hub'.pc = "reading" => Intact(disk.report) /\ hub'.report = disk.report
  BY DEF HubReadReport, HubReadChecklist, IdleHub
<1>4. EarnedInv'
  BY <1>1, <1>3 DEF RomInv, EarnedInv, Earned, Checked, Backed
<1>5. StatusIsLinearizable'
  <2> SUFFICES ASSUME hub'.pc = "reading",
                      RomStatus(disk.report, disk.checklist) = "READY_FOR_MANUAL_REVIEW"
               PROVE  witnessed'
    BY <1>1, <1>3 DEF StatusIsLinearizable, Decision
  <2>1. /\ Intact(disk.checklist) /\ disk.checklist.ready
        /\ disk.report.romReady /\ disk.report.succeeded
    BY DEF RomStatus
  <2>2. Checklist(disk.report) = ReadyList
    BY <1>3, <2>1, ReadyListFacts DEF RomInv, EarnedInv, Earned
  <2>3. PICK r : disk.checklist = Checklist(r)
    BY <2>1 DEF RomInv, Authored
  <2>4. r.succeeded /\ r.romReady /\ ~ChecklistBlocked(r)
    BY <2>1, <2>3, FileFacts
  <2>5. disk.checklist = Checklist(disk.report)
    BY <2>2, <2>3, <2>4, ReadyListFacts
  <2>6. DiskReady(disk')
    BY <1>1, <1>3, <2>1, <2>5 DEF DiskReady
  <2> QED BY <2>6 DEF Witnesses
<1> QED BY <1>2, <1>4, <1>5 DEF RomInv

(* Every step of scripts and Hub keeps the invariant. *)
LEMMA RomStepKeeps ==
    ASSUME RomInv, Witnesses, RomStep
    PROVE  RomInv'
<1>1. ASSUME NEW eligible \in BOOLEAN, CreateUnlock(eligible)
      PROVE  RomInv'
  <2>1. PICK u : u = UnlockEvidence(disk.probe, eligible, clock)
    OBVIOUS
  <2>2. /\ RunScript("unlock", u)
        /\ checks' = IF eligible THEN checks \cup {<<disk.probe.build, clock>>} ELSE checks
    BY <1>1, <2>1 DEF CreateUnlock
  <2>3. u.eligible => <<u.build, u.at>> \in checks'
    BY <2>1, <2>2 DEF UnlockEvidence
  <2> QED BY <2>2, <2>3, ScriptStep DEF Files
<1>2. ASSUME NEW given \in SUBSET {"probe", "stock", "unlock"}, CreateGates(given)
      PROVE  RomInv'
  <2>1. PICK g : g = GatesTemplate(disk, given)
    OBVIOUS
  <2>2. RunScript("gates", g) /\ UNCHANGED checks
    BY <1>2, <2>1 DEF CreateGates
  <2>3. DOMAIN g = GateFields
    BY <2>1 DEF GatesTemplate, GateFields
  <2>4. Backed(g)'
    <3> SUFFICES ASSUME g.eligible PROVE Backed(g)'
      BY DEF Backed
    <3>1. "unlock" \in given /\ disk.unlock.eligible
      BY <2>1 DEF GatesTemplate
    <3>2. /\ "probe" \in given /\ Intact(disk.unlock) /\ UnlockCurrent(disk.unlock, disk.probe)
      BY <1>2, <3>1 DEF CreateGates, Givable, UnlockInput, InputStatus
    <3>3. g.build = disk.probe.build /\ g.probeAt = disk.probe.at
      BY <2>1, <3>2 DEF GatesTemplate
    <3>4. <<disk.unlock.build, disk.unlock.at>> \in checks'
      BY <2>2, <3>1, <3>2 DEF RomInv, EarnedInv
    <3> QED BY <3>2, <3>3, <3>4 DEF Backed, UnlockCurrent
  <2> QED BY <2>2, <2>3, <2>4, ScriptStep DEF Files
<1>10. ASSUME NEW g \in TypedGates, EditGates(g)
       PROVE  RomInv'
  <2>1. DOMAIN g = GateFields /\ g.edited
    BY RomRefreshAssumption DEF EditedGates, GateFields
  <2>2. Backed(g)'
    BY <2>1 DEF Backed
  <2>3. RunScript("gates", g) /\ UNCHANGED checks
    BY <1>10 DEF EditGates
  <2> QED BY <2>1, <2>2, <2>3, ScriptStep DEF Files
<1>3. CASE RunChecklist
  <2>1. PICK c : c = Checklist(disk.report)
    OBVIOUS
  <2>2. RunScript("checklist", c) /\ UNCHANGED checks /\ Intact(disk.report)
    BY <1>3, <2>1 DEF RunChecklist
  <2> QED BY <2>1, <2>2, ScriptStep DEF Files
<1>4. ASSUME NEW file \in {"probe", "rollback", "stock", "gsi", "dsu", "fastboot"}, NEW content,
             RunScript(file, content), UNCHANGED checks
      PROVE  RomInv'
  BY <1>4, ScriptStep DEF Files
<1>5. CASE RunProbe
  BY <1>4, <1>5 DEF RunProbe
<1>6. ASSUME NEW a \in Archives, WriteRollback(a) \/ CreateStock(a)
      PROVE  RomInv'
  <2>1. PICK c, d : c = RollbackDoc(disk.probe.build, a) /\ d = StockEvidence(a)
    OBVIOUS
  <2> QED BY <1>4, <1>6, <2>1 DEF WriteRollback, CreateStock
<1>7. CASE CreateGsi \/ CreateDsu
  <2>1. PICK c : c = DsuEvidence(disk)
    OBVIOUS
  <2> QED BY <1>4, <1>7, <2>1 DEF CreateGsi, CreateDsu
<1>8. ASSUME NEW available \in BOOLEAN, NEW requested \in BOOLEAN, NEW visible \in BOOLEAN,
             CreateFastboot(available, requested, visible)
      PROVE  RomInv'
  BY <1>4, <1>8 DEF CreateFastboot
<1>9. CASE RefreshCutShort \/ Tick
  <2>1. UNCHANGED <<disk, hub, checks, unremoved>> /\ plan' = <<>>
    BY <1>9 DEF RefreshCutShort, Tick
  <2> QED BY <2>1, PlanStep DEF PlanInv
<1> QED BY <1>1, <1>2, <1>3, <1>5, <1>6, <1>7, <1>8, <1>9, <1>10, WriteStep, RemovalStep,
           RefreshStarts, ChecklistFails, BackupStep, HubStep DEF RomStep

(* The invariant holds of every directory the runs begin with. *)
LEMMA RomStarts == RomInit => RomInv
<1> SUFFICES ASSUME RomInit PROVE RomInv
  OBVIOUS
<1>0. PICK probe, checked, doc, stock, gsi, dsu, fastboot :
        Left(probe, checked, doc, stock, gsi, dsu, fastboot)
  BY DEF RomInit
<1>1. /\ DOMAIN disk = Files /\ disk.gates = Missing
      /\ disk.report = Missing /\ disk.checklist = Missing
  BY <1>0 DEF Left, Files
<1>2. plan = <<>> /\ hub.pc = "idle"
  BY DEF RomInit, IdleHub
<1>3. Intact(disk.unlock) => <<disk.unlock.build, disk.unlock.at>> \in checks
  <2>2. /\ disk.unlock = IF checked THEN UnlockEvidence(probe, TRUE, 0) ELSE Missing
        /\ checks = IF checked THEN {<<probe.build, 0>>} ELSE {}
    BY <1>0 DEF Left
  <2>3. CASE checked
    BY <2>2, <2>3 DEF UnlockEvidence
  <2>4. CASE ~checked
    BY <2>2, <2>4, FileFacts
  <2> QED BY <2>3, <2>4
<1> QED BY <1>1, <1>2, <1>3, FileFacts
        DEF RomInv, DiskShape, PlanInv, Paired, Authored, EarnedInv, StatusIsLinearizable

(* The invariant of the evidence directory: where a refresh is in its      *)
(* writes, that an intact checklist has its report beside it unless a      *)
(* removal failed, and that what claims an eligible phone goes back to a   *)
(* check, through every script run, crash, failed write and Hub read.      *)
THEOREM RomInvariant == RomSpec => []RomInv
<1>1. ASSUME RomInv, [RomNext]_romVars
      PROVE  RomInv'
  <2>1. CASE RomNext
    BY <1>1, <2>1, RomStepKeeps DEF RomNext, Witnesses
  <2>2. CASE UNCHANGED romVars
    <3>1. UNCHANGED <<disk, plan, hub, checks, witnessed, unremoved>>
      BY <2>2 DEF romVars
    <3>5. \A r : Reported(r)' <=> Reported(r)
      BY <3>1 DEF Reported, Earned, Checked
    <3>2. PlanInv'
      BY <1>1, <3>1, <3>5 DEF RomInv, PlanInv
    <3>3. DiskShape' /\ Paired' /\ EarnedInv' /\ Authored'
      BY <1>1, <3>1 DEF RomInv, DiskShape, Paired, EarnedInv, Earned, Checked, Authored, Backed
    <3>4. StatusIsLinearizable'
      BY <1>1, <3>1 DEF RomInv, StatusIsLinearizable, Decision
    <3> QED BY <3>2, <3>3, <3>4 DEF RomInv
  <2> QED BY <1>1, <2>1, <2>2
<1> QED BY <1>1, RomStarts, PTL DEF RomSpec

(* A READY answer of the Hub goes back to a check of the probed phone's    *)
(* own build, made within MaxAge of the probe (HubReadyIsEarned), for any  *)
(* number of builds, runs and faults.                                      *)
THEOREM ReadyIsEarned == RomSpec => []HubReadyIsEarned
<1>1. RomInv => HubReadyIsEarned
  BY DEF RomInv, EarnedInv, Earned, Checked, HubReadyIsEarned, Decision, RomStatus
<1> QED BY <1>1, RomInvariant, PTL

(* A READY answer of the Hub has a moment of its call at which a READY     *)
(* report and its own checklist were on disk (StatusIsLinearizable).       *)
THEOREM StatusLinearizes == RomSpec => []StatusIsLinearizable
<1>1. RomInv => StatusIsLinearizable
  BY DEF RomInv
<1> QED BY <1>1, RomInvariant, PTL

(* Between refreshes an intact checklist is the one of the report beside   *)
(* it (ChecklistFollowsReport), whatever cut earlier refreshes short, as   *)
(* long as no removal of an older one has failed since it was written.     *)
THEOREM ChecklistIsCurrent == RomSpec => []ChecklistFollowsReport
<1>1. RomInv => ChecklistFollowsReport
  BY DEF RomInv, Paired, ChecklistFollowsReport
<1> QED BY <1>1, RomInvariant, PTL

(* A readiness review that passes on gates nobody typed into rests on a    *)
(* check of the probed build within MaxAge of the gates' own probe         *)
(* (ReviewRestsOnACheck), whichever evidence the template was given.       *)
THEOREM ReviewIsBacked == RomSpec => []ReviewRestsOnACheck
<1>1. RomInv => ReviewRestsOnACheck
  <2> SUFFICES ASSUME RomInv, ReviewReady(disk), ~disk.gates.edited
               PROVE  \E c \in checks : /\ c[1] = disk.probe.build
                                        /\ c[2] - disk.gates.probeAt <= MaxAge
                                        /\ disk.gates.probeAt - c[2] <= MaxAge
    BY DEF ReviewRestsOnACheck
  <2>1. Intact(disk.gates) /\ disk.gates.eligible /\ disk.gates.build = disk.probe.build
    BY DEF ReviewReady, GatesAccepted, TargetMatches
  <2>2. Backed(disk.gates)
    BY <2>1 DEF RomInv, EarnedInv
  <2> QED BY <2>1, <2>2 DEF Backed
<1> QED BY <1>1, RomInvariant, PTL

-----------------------------------------------------------------------------
(* The checklist and what is read from it.                                 *)

(* The status of each step, as far as others depend on it. *)
LEMMA StepStatus ==
    ASSUME NEW r
    PROVE  /\ StockStep(r).status = DoneOr(Loaded(r, "stock"), ReadyIf(r.succeeded))
           /\ UnlockStep(r).status = DoneOr(UnlockAccepted(r), ReadyIf(r.succeeded))
           /\ GsiStep(r).status = DoneOr(Loaded(r, "gsi"), ReadyIf(r.succeeded))
           /\ DsuStep(r).status =
                DoneOr(Loaded(r, "dsu"), ReadyIf(r.succeeded /\ Loaded(r, "stock") /\ Loaded(r, "gsi")))
           /\ HostFastbootStep(r).status = DoneOr(Loaded(r, "fastboot"), ReadyIf(r.succeeded))
           /\ GatesStep(r).status = ReadyIf(Loaded(r, "stock") /\ UnlockAccepted(r))
           /\ ReviewStep(r).status = ReadyIf(r.succeeded /\ r.romReady)
<1>1. StockStep(r).status = DoneOr(Loaded(r, "stock"), ReadyIf(r.succeeded))
  BY DEF StockStep, Step
<1>2. UnlockStep(r).status = DoneOr(UnlockAccepted(r), ReadyIf(r.succeeded))
  BY DEF UnlockStep, Step
<1>3. GsiStep(r).status = DoneOr(Loaded(r, "gsi"), ReadyIf(r.succeeded))
  BY DEF GsiStep, Step
<1>4. DsuStep(r).status =
        DoneOr(Loaded(r, "dsu"), ReadyIf(r.succeeded /\ Loaded(r, "stock") /\ Loaded(r, "gsi")))
  BY DEF DsuStep, Step
<1>5. HostFastbootStep(r).status = DoneOr(Loaded(r, "fastboot"), ReadyIf(r.succeeded))
  BY DEF HostFastbootStep, Step
<1>6. GatesStep(r).status = ReadyIf(Loaded(r, "stock") /\ UnlockAccepted(r))
  BY DEF GatesStep, Step
<1>7. ReviewStep(r).status = ReadyIf(r.succeeded /\ r.romReady)
  BY DEF ReviewStep, Step
<1> QED BY <1>1, <1>2, <1>3, <1>4, <1>5, <1>6, <1>7

(* The steps of a checklist, by number. *)
LEMMA ChecklistSteps ==
    ASSUME NEW r
    PROVE  LET s == Checklist(r).steps
           IN /\ DOMAIN s = 1..10
              /\ s[1] = RefreshStep(r) /\ s[2] = StockStep(r) /\ s[3] = UnlockStep(r)
              /\ s[4] = GsiStep(r) /\ s[5] = DsuStep(r) /\ s[6] = HostFastbootStep(r)
              /\ s[7] = VisibilityStep(r) /\ s[8] = GatesStep(r) /\ s[9] = ReviewStep(r)
              /\ s[10] = DecisionStep(r)
BY DEF Checklist

StepIds(s) ==
    /\ s[1].id = "refresh" /\ s[2].id = "stock" /\ s[3].id = "unlock" /\ s[4].id = "gsi"
    /\ s[5].id = "dsu" /\ s[6].id = "fastboot" /\ s[7].id = "visibility" /\ s[8].id = "gates"
    /\ s[9].id = "review" /\ s[10].id = "decision"

(* The ids of the ten steps of a checklist. *)
LEMMA ChecklistIds ==
    ASSUME NEW r
    PROVE  StepIds(Checklist(r).steps)
<1> DEFINE s == Checklist(r).steps
<1>1. /\ s[1] = RefreshStep(r) /\ s[2] = StockStep(r) /\ s[3] = UnlockStep(r) /\ s[4] = GsiStep(r)
      /\ s[5] = DsuStep(r) /\ s[6] = HostFastbootStep(r) /\ s[7] = VisibilityStep(r)
      /\ s[8] = GatesStep(r) /\ s[9] = ReviewStep(r) /\ s[10] = DecisionStep(r)
  BY ChecklistSteps
<1> HIDE DEF s
<1>2. StepIds(s)
  BY <1>1 DEF StepIds, Step, RefreshStep, StockStep, UnlockStep, GsiStep, DsuStep,
     HostFastbootStep, VisibilityStep, GatesStep, ReviewStep, DecisionStep
<1> QED BY <1>2 DEF s

(* An open step, and one that is the first of them and whose must_follow_  *)
(* after is done.                                                          *)
Open(s, i) == s[i].status \notin {"DONE", "BLOCKED"} /\ ~s[i].blocked
Follows(s, k) == \A i \in 1..10 : s[i].id \in MustFollow(s[k].id) => s[i].status = "DONE"
FirstOpen(s, k) == Open(s, k) /\ Follows(s, k) /\ \A i \in 1..10 : Open(s, i) => k <= i

(* Some step among the first eight is open, and what the first of them     *)
(* must follow is done, whatever report the checklist is made from.        *)
LEMMA FirstOpenStep ==
    ASSUME NEW r
    PROVE  \E k \in 1..8 : FirstOpen(Checklist(r).steps, k)
<1> DEFINE s == Checklist(r).steps
           open(i) == Open(s, i)
           ok == r.succeeded
           stock == Loaded(r, "stock")
           unlock == UnlockAccepted(r)
           gsi == Loaded(r, "gsi")
           dsu == Loaded(r, "dsu")
           fastboot == Loaded(r, "fastboot")
<1>0. /\ s[1] = RefreshStep(r) /\ s[2] = StockStep(r) /\ s[3] = UnlockStep(r) /\ s[4] = GsiStep(r)
      /\ s[5] = DsuStep(r) /\ s[6] = HostFastbootStep(r) /\ s[7] = VisibilityStep(r)
      /\ s[8] = GatesStep(r) /\ s[9] = ReviewStep(r) /\ s[10] = DecisionStep(r)
  BY ChecklistSteps
<1> HIDE DEF s, open
<1>2. StepIds(s)
  BY ChecklistIds DEF s
<1>3. /\ s[1].status = IF ok THEN "DONE" ELSE "READY"
      /\ ~s[1].blocked
  BY <1>0 DEF Step, RefreshStep, DoneOr
<1>4. /\ s[2].status = IF stock THEN "DONE" ELSE IF ok THEN "READY" ELSE "BLOCKED"
      /\ ok => ~s[2].blocked
  <2>1. s[2].status = DoneOr(stock, ReadyIf(ok))
    BY <1>0 DEF Step, StockStep
  <2>2. s[2].blocked = ~(stock \/ ok)
    BY <1>0 DEF Step, StockStep
  <2> QED BY <2>1, <2>2 DEF DoneOr, ReadyIf
<1>5. /\ s[3].status = IF unlock THEN "DONE" ELSE IF ok THEN "READY" ELSE "BLOCKED"
      /\ stock => ~s[3].blocked
  <2>1. s[3].status = DoneOr(unlock, ReadyIf(ok))
    BY <1>0 DEF Step, UnlockStep
  <2>2. s[3].blocked = ~stock
    BY <1>0 DEF Step, UnlockStep
  <2> QED BY <2>1, <2>2 DEF DoneOr, ReadyIf
<1>6. /\ s[4].status = IF gsi THEN "DONE" ELSE IF ok THEN "READY" ELSE "BLOCKED"
      /\ stock => ~s[4].blocked
  <2>1. s[4].status = DoneOr(gsi, ReadyIf(ok))
    BY <1>0 DEF Step, GsiStep
  <2>2. s[4].blocked = ~stock
    BY <1>0 DEF Step, GsiStep
  <2> QED BY <2>1, <2>2 DEF DoneOr, ReadyIf
<1>7. /\ stock /\ gsi => s[5].status = IF dsu THEN "DONE" ELSE IF ok THEN "READY" ELSE "BLOCKED"
      /\ stock /\ gsi => ~s[5].blocked
  <2>1. s[5].status = DoneOr(Loaded(r, "dsu"), ReadyIf(ok /\ stock /\ gsi))
    BY <1>0 DEF Step, DsuStep
  <2>2. s[5].blocked = ~(dsu \/ (stock /\ gsi))
    BY <1>0 DEF Step, DsuStep
  <2> QED BY <2>1, <2>2 DEF DoneOr, ReadyIf
<1>8. /\ s[6].status = IF fastboot THEN "DONE" ELSE IF ok THEN "READY" ELSE "BLOCKED"
      /\ ~s[6].blocked
  BY <1>0 DEF Step, HostFastbootStep, DoneOr, ReadyIf
<1>9. stock /\ unlock => s[8].status = "READY" /\ ~s[8].blocked
  <2>1. s[8].status = ReadyIf(stock /\ unlock)
    BY <1>0 DEF Step, GatesStep
  <2>2. s[8].blocked = ~(stock /\ unlock)
    BY <1>0 DEF Step, GatesStep
  <2> QED BY <2>1, <2>2 DEF ReadyIf
<1>10. /\ MustFollow("refresh") = {} /\ MustFollow("stock") = {} /\ MustFollow("fastboot") = {}
       /\ MustFollow("unlock") = {"stock"} /\ MustFollow("gsi") = {"stock"}
       /\ MustFollow("dsu") = {"stock", "gsi"} /\ MustFollow("visibility") = {"fastboot"}
       /\ MustFollow("gates") = {"stock", "unlock"}
  BY DEF MustFollow
<1>11. ASSUME NEW k \in 1..8, open(k), \A i \in 1..10 : i < k => ~open(i), Follows(s, k)
       PROVE  FirstOpen(s, k)
  <2>1. \A i \in 1..10 : open(i) => k <= i
    BY <1>11 DEF open
  <2> QED BY <1>11, <2>1 DEF open, FirstOpen
<1>12. CASE ~ok
  <2>1. open(1)
    BY <1>3, <1>12 DEF open, Open
  <2>2. Follows(s, 1)
    BY <1>2, <1>10, <2>1 DEF Follows, StepIds
  <2>3. FirstOpen(s, 1)
    BY <1>11, <2>1, <2>2 DEF open
  <2> QED BY <2>3 DEF s
<1>13. CASE ok /\ ~stock
  <2>1. open(2) /\ ~open(1)
    BY <1>3, <1>4, <1>13 DEF open, Open
  <2>2. Follows(s, 2)
    BY <1>2, <1>10, <2>1 DEF Follows, StepIds
  <2>3. FirstOpen(s, 2)
    BY <1>11, <2>1, <2>2 DEF open
  <2> QED BY <2>3 DEF s
<1>14. CASE ok /\ stock /\ ~unlock
  <2>1. open(3) /\ ~open(1) /\ ~open(2) /\ s[2].status = "DONE"
    BY <1>3, <1>4, <1>5, <1>14 DEF open, Open
  <2>2. Follows(s, 3)
    BY <1>2, <1>10, <2>1 DEF Follows, StepIds
  <2>3. FirstOpen(s, 3)
    BY <1>11, <2>1, <2>2 DEF open
  <2> QED BY <2>3 DEF s
<1>15. CASE ok /\ stock /\ unlock /\ ~gsi
  <2>1. open(4) /\ ~open(1) /\ ~open(2) /\ ~open(3) /\ s[2].status = "DONE"
    BY <1>3, <1>4, <1>5, <1>6, <1>15 DEF open, Open
  <2>2. Follows(s, 4)
    BY <1>2, <1>10, <2>1 DEF Follows, StepIds
  <2>3. FirstOpen(s, 4)
    BY <1>11, <2>1, <2>2 DEF open
  <2> QED BY <2>3 DEF s
<1>16. CASE ok /\ stock /\ unlock /\ gsi /\ ~dsu
  <2>1. /\ open(5) /\ ~open(1) /\ ~open(2) /\ ~open(3) /\ ~open(4)
        /\ s[2].status = "DONE" /\ s[4].status = "DONE"
    BY <1>3, <1>4, <1>5, <1>6, <1>7, <1>16 DEF open, Open
  <2>2. Follows(s, 5)
    BY <1>2, <1>10, <2>1 DEF Follows, StepIds
  <2>3. FirstOpen(s, 5)
    BY <1>11, <2>1, <2>2 DEF open
  <2> QED BY <2>3 DEF s
<1>17. CASE ok /\ stock /\ unlock /\ gsi /\ dsu /\ ~fastboot
  <2>1. /\ open(6) /\ ~open(1) /\ ~open(2) /\ ~open(3) /\ ~open(4) /\ ~open(5)
    BY <1>3, <1>4, <1>5, <1>6, <1>7, <1>8, <1>17 DEF open, Open
  <2>2. Follows(s, 6)
    BY <1>2, <1>10, <2>1 DEF Follows, StepIds
  <2>3. FirstOpen(s, 6)
    BY <1>11, <2>1, <2>2 DEF open
  <2> QED BY <2>3 DEF s
<1>18. CASE ok /\ stock /\ unlock /\ gsi /\ dsu /\ fastboot
  <2>1. /\ open(8) /\ ~open(1) /\ ~open(2) /\ ~open(3) /\ ~open(4) /\ ~open(5) /\ ~open(6)
        /\ s[2].status = "DONE" /\ s[3].status = "DONE" /\ s[6].status = "DONE"
    BY <1>3, <1>4, <1>5, <1>6, <1>7, <1>8, <1>9, <1>18 DEF open, Open
  <2>2. Follows(s, 7) /\ Follows(s, 8)
    BY <1>2, <1>10, <2>1 DEF Follows, StepIds
  <2>3. CASE open(7)
    <3>1. FirstOpen(s, 7)
      BY <1>11, <2>1, <2>2, <2>3 DEF open
    <3> QED BY <3>1 DEF s
  <2>4. CASE ~open(7)
    <3>1. FirstOpen(s, 8)
      BY <1>11, <2>1, <2>2, <2>4 DEF open
    <3> QED BY <3>1 DEF s
  <2> QED BY <2>3, <2>4
<1> QED BY <1>12, <1>13, <1>14, <1>15, <1>16, <1>17, <1>18

(* The step that the Hub's checklist tool names is open and what it must   *)
(* follow is done (NextStepIsActionable), in every state: also while the   *)
(* files are being replaced.                                               *)
THEOREM NextStepActs == RomSpec => []NextStepIsActionable
<1>1. RomInv => NextStepIsActionable
  <2> SUFFICES ASSUME RomInv, Intact(disk.checklist)
               PROVE  NextStepIsActionable
    BY DEF NextStepIsActionable
  <2>1. PICK c : c = disk.checklist
    OBVIOUS
  <2>2. PICK r : c = Checklist(r)
    BY <2>1 DEF RomInv, Authored
  <2>3. PICK k \in 1..8 : FirstOpen(c.steps, k)
    BY <2>2, FirstOpenStep
  <2>4. DOMAIN c.steps = 1..10
    BY <2>2, ChecklistSteps
  <2> DEFINE open == {i \in {j \in DOMAIN c.steps : c.steps[j].status # "DONE"} :
                        c.steps[i].status # "BLOCKED" /\ ~c.steps[i].blocked}
             first == CHOOSE i \in open : \A j \in open : i <= j
  <2>5. \A i : i \in open <=> i \in 1..10 /\ Open(c.steps, i)
    BY <2>4 DEF Open
  <2>6. k \in open /\ \A j \in open : k <= j
    BY <2>3, <2>5 DEF FirstOpen
  <2>7. \A i \in open : i \in Int
    BY <2>5
  <2> HIDE DEF open
  <2>8. first \in open /\ \A j \in open : first <= j
    BY <2>6
  <2> HIDE DEF first
  <2>9. first = k
    BY <2>6, <2>7, <2>8
  <2>10. NextStep(c) = c.steps[k]
    BY <2>6, <2>9 DEF NextStep, open, first
  <2>11. /\ c.steps[k].status # "BLOCKED" /\ ~c.steps[k].blocked
         /\ \A i \in DOMAIN c.steps : c.steps[i].id \in MustFollow(c.steps[k].id) =>
                                        c.steps[i].status = "DONE"
    BY <2>3, <2>4 DEF FirstOpen, Open, Follows
  <2> QED BY <2>1, <2>10, <2>11 DEF NextStepIsActionable
<1> QED BY <1>1, RomInvariant, PTL

-----------------------------------------------------------------------------
(* The packet and the checklist.                                           *)

Where(c, id) == CHOOSE i \in DOMAIN c.steps : c.steps[i].id = id

(* Where the steps stand in a checklist. *)
LEMMA WhereFacts ==
    ASSUME NEW r, NEW c, c = Checklist(r)
    PROVE  /\ Where(c, "stock") = 2 /\ Where(c, "unlock") = 3 /\ Where(c, "gsi") = 4
           /\ Where(c, "dsu") = 5 /\ Where(c, "fastboot") = 6 /\ Where(c, "gates") = 8
           /\ Where(c, "review") = 9
<1>1. DOMAIN c.steps = 1..10 /\ StepIds(c.steps)
  BY ChecklistSteps, ChecklistIds
<1>2. ASSUME NEW k \in 1..10, NEW id, \A i \in 1..10 : c.steps[i].id = id <=> i = k
      PROVE  Where(c, id) = k
  BY <1>1, <1>2 DEF Where
<1>3. \A i \in 1..10 : /\ c.steps[i].id = "stock" <=> i = 2
                       /\ c.steps[i].id = "unlock" <=> i = 3
                       /\ c.steps[i].id = "gsi" <=> i = 4
                       /\ c.steps[i].id = "dsu" <=> i = 5
                       /\ c.steps[i].id = "fastboot" <=> i = 6
                       /\ c.steps[i].id = "gates" <=> i = 8
                       /\ c.steps[i].id = "review" <=> i = 9
  BY <1>1 DEF StepIds
<1> QED BY <1>2, <1>3

Agree(r, c, k) ==
    /\ \A id \in {"stock", "unlock", "gsi", "dsu", "fastboot"} :
         (c.steps[Where(c, id)].status = "DONE") = (k.actions[id] = "RECORDED")
    /\ c.steps[Where(c, "gates")].status = k.actions.gates
    /\ c.ready = (c.steps[Where(c, "review")].status = "READY")
    /\ c.ready => k.actions.review = "READY"
    /\ c.ready = (RomStatus(r, c) = "READY_FOR_MANUAL_REVIEW")

(* The same, with the places of the steps. *)
Same(r, c, k) ==
    /\ (c.steps[2].status = "DONE") <=> (k.actions.stock = "RECORDED")
    /\ (c.steps[3].status = "DONE") <=> (k.actions.unlock = "RECORDED")
    /\ (c.steps[4].status = "DONE") <=> (k.actions.gsi = "RECORDED")
    /\ (c.steps[5].status = "DONE") <=> (k.actions.dsu = "RECORDED")
    /\ (c.steps[6].status = "DONE") <=> (k.actions.fastboot = "RECORDED")
    /\ c.steps[8].status = k.actions.gates
    /\ c.ready = (c.steps[9].status = "READY")
    /\ c.ready => k.actions.review = "READY"
    /\ c.ready = (RomStatus(r, c) = "READY_FOR_MANUAL_REVIEW")

(* Packet and checklist of one refresh say the same. *)
LEMMA Agreement ==
    ASSUME NEW d, NEW p, NEW g \in BOOLEAN, NEW r, r = RefreshReport(d, p, g, TRUE),
           NEW c, c = Checklist(r), NEW k, k = Packet(d, p)
    PROVE  Same(r, c, k)
<1>1. /\ c.steps[2] = StockStep(r) /\ c.steps[3] = UnlockStep(r) /\ c.steps[4] = GsiStep(r)
      /\ c.steps[5] = DsuStep(r) /\ c.steps[6] = HostFastbootStep(r) /\ c.steps[8] = GatesStep(r)
      /\ c.steps[9] = ReviewStep(r)
  BY ChecklistSteps
<1>2. /\ k.actions.stock = StockAction(d) /\ k.actions.unlock = UnlockAction(d, p)
      /\ k.actions.gsi = GsiAction(d) /\ k.actions.dsu = DsuAction(d)
      /\ k.actions.fastboot = FastbootAction(d) /\ k.actions.gates = GatesAction(d, p)
      /\ k.actions.review = ReadinessAction(d, p)
  BY DEF Packet
<1>3. /\ StockReady(d) <=> Loaded(r, "stock")
      /\ GsiReady(d) <=> Loaded(r, "gsi")
      /\ DsuReady(d) <=> Loaded(r, "dsu")
      /\ FastbootPresent(d) <=> Loaded(r, "fastboot")
      /\ UnlockReady(d, p) <=> UnlockAccepted(r)
  BY ReportFacts
<1> DEFINE recorded == r.succeeded /\ r.romReady
<1>4. Intact(c) /\ (c.ready <=> recorded /\ ~ChecklistBlocked(r))
  BY DEF Checklist, Intact
<1>5. recorded => /\ BlockedReasons(d, p) = {} /\ ~ChecklistBlocked(r) /\ GatesReady(r)
                  /\ r.status = "READY_FOR_ROM0_READINESS_REVIEW"
                  /\ r.packetStatus = "READY_FOR_ROM0_READINESS_REVIEW"
  BY ReadyReport
<1>6. c.ready <=> recorded
  BY <1>4, <1>5
<1>7. (c.steps[9].status = "READY") <=> recorded
  <2>1. c.steps[9].status = ReadyIf(recorded)
    BY <1>1, StepStatus
  <2> QED BY <2>1 DEF ReadyIf
<1>8. (RomStatus(r, c) = "READY_FOR_MANUAL_REVIEW") <=> recorded
  BY <1>4, <1>5, <1>6, ReportFacts DEF RomStatus
<1>9. c.ready \in BOOLEAN
  BY DEF Checklist
<1>10. recorded => k.actions.review = "READY"
  BY <1>2, <1>5 DEF ReadinessAction
<1>11. c.steps[2].status = "DONE" <=> k.actions.stock = "RECORDED"
  <2>1. c.steps[2].status = DoneOr(Loaded(r, "stock"), ReadyIf(r.succeeded))
    BY <1>1, StepStatus
  <2> QED BY <1>2, <1>3, <2>1 DEF DoneOr, ReadyIf, StockAction
<1>12. c.steps[3].status = "DONE" <=> k.actions.unlock = "RECORDED"
  <2>1. c.steps[3].status = DoneOr(UnlockAccepted(r), ReadyIf(r.succeeded))
    BY <1>1, StepStatus
  <2> QED BY <1>2, <1>3, <2>1 DEF DoneOr, ReadyIf, UnlockAction
<1>13. c.steps[4].status = "DONE" <=> k.actions.gsi = "RECORDED"
  <2>1. c.steps[4].status = DoneOr(Loaded(r, "gsi"), ReadyIf(r.succeeded))
    BY <1>1, StepStatus
  <2> QED BY <1>2, <1>3, <2>1 DEF DoneOr, ReadyIf, GsiAction
<1>14. c.steps[5].status = "DONE" <=> k.actions.dsu = "RECORDED"
  <2>1. c.steps[5].status = DoneOr(Loaded(r, "dsu"),
                                   ReadyIf(r.succeeded /\ Loaded(r, "stock") /\ Loaded(r, "gsi")))
    BY <1>1, StepStatus
  <2> QED BY <1>2, <1>3, <2>1 DEF DoneOr, ReadyIf, DsuAction
<1>15. c.steps[6].status = "DONE" <=> k.actions.fastboot = "RECORDED"
  <2>1. c.steps[6].status = DoneOr(Loaded(r, "fastboot"), ReadyIf(r.succeeded))
    BY <1>1, StepStatus
  <2> QED BY <1>2, <1>3, <2>1 DEF DoneOr, ReadyIf, FastbootAction
<1>16. c.steps[8].status = k.actions.gates
  <2>1. c.steps[8].status = ReadyIf(Loaded(r, "stock") /\ UnlockAccepted(r))
    BY <1>1, StepStatus
  <2> QED BY <1>2, <1>3, <2>1 DEF ReadyIf, GatesAction
<1> QED BY <1>6, <1>7, <1>8, <1>9, <1>10, <1>11, <1>12, <1>13, <1>14, <1>15, <1>16
        DEF Same

(* The packet's actions and the checklist's steps agree for every content  *)
(* of the evidence files (PacketAndChecklistAgree): what is recorded, when *)
(* the gates can be created, and READY only together with the Hub.         *)
THEOREM PacketAndChecklistConcur == RomSpec => []PacketAndChecklistAgree
<1>1. ASSUME NEW g \in BOOLEAN
      PROVE  LET packet == Packet(disk, disk.probe)
                 report == RefreshReport(disk, disk.probe, g, TRUE)
                 checklist == Checklist(report)
             IN Agree(report, checklist, packet)
  <2>1. PICK r, c, k : /\ r = RefreshReport(disk, disk.probe, g, TRUE)
                       /\ c = Checklist(r) /\ k = Packet(disk, disk.probe)
    OBVIOUS
  <2>2. /\ Where(c, "stock") = 2 /\ Where(c, "unlock") = 3 /\ Where(c, "gsi") = 4
        /\ Where(c, "dsu") = 5 /\ Where(c, "fastboot") = 6 /\ Where(c, "gates") = 8
        /\ Where(c, "review") = 9
    BY <2>1, WhereFacts
  <2>3. Same(r, c, k)
    BY <2>1, Agreement
  <2>4. Agree(r, c, k)
    BY <2>2, <2>3 DEF Agree, Same
  <2> QED BY <2>1, <2>4
<1>2. PacketAndChecklistAgree
  BY <1>1 DEF PacketAndChecklistAgree, Agree, Where
<1> QED BY <1>2, PTL

=============================================================================
