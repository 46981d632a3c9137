--------------------------- MODULE DeviceLabProofs ---------------------------
(* Proofs about the phone lab: the validation bundle, the benchmarks and   *)
(* the device smoke, for any models and examples, any number of script     *)
(* runs, swipes and cards, and any changes of the bench.                   *)
EXTENDS DeviceLab, FiniteSetTheorems, TLAPS

-----------------------------------------------------------------------------
(* The bundle directory.                                                   *)

(* A pipeline while it removes a directory, before it has one, while it    *)
(* fills it, and after.                                                    *)
Removing == {"list", "unlink", "rmdir"}
Early == {"idle", "inspect", "check", "mkdir"} \cup Removing
Reading == {"readDevice", "readHub", "planDevice"}
Filling == Reading \cup {"write"}
Late == {"hash", "manifest", "verify", "artifacts", "contents"}

WorkFields == {"pc", "force", "manual", "doomed", "read", "plan", "apk", "i", "hashes", "sound", "manifest"}

Records == [ready : BOOLEAN, usb : BOOLEAN, prereq : BOOLEAN, apk : BOOLEAN, manual : {"pass", "open"}]

(* What the pipelines and the directory look like. *)
CrewOK ==
    /\ DOMAIN crew = Pipelines
    /\ \A p \in Pipelines :
         \/ crew[p] = CrewIdle
         \/ /\ DOMAIN crew[p] = WorkFields
            /\ crew[p].pc \in (Early \ {"idle"}) \cup Filling \cup Late
            /\ crew[p].i \in Nat \ {0} /\ crew[p].apk \in BOOLEAN /\ crew[p].manual \in {"pass", "open"}
         \/ crew[p].pc = "done"

DirOK ==
    /\ DOMAIN dir = {"exists", "files"}
    /\ dir.exists \in BOOLEAN
    /\ ~dir.exists => FileSet = {}

(* The artifacts among the files show the record rec. *)
Shows(fs, rec) == \A f \in ArtifactSet \cap DOMAIN fs : fs[f] = Content(f, rec)

(* A record of a phone that was ready is one whose prerequisites held. *)
Plausible(rec) == rec \in Records /\ (rec.ready => rec.prereq)

(* Whoever fills the directory does so alone, and it has no marker yet. *)
OneWriter ==
    \A p \in Pipelines : crew[p].pc \in Filling =>
        /\ dir.exists /\ "marker" \notin FileSet
        /\ \A q \in Pipelines : crew[q].pc \in Filling => q = p

(* Whoever removes the directory was started with --force, and nobody      *)
(* fills it then.                                                          *)
RemoverAlone ==
    \A p \in Pipelines :
        /\ crew[p].pc \in Removing \cup {"check"} => crew[p].force
        /\ crew[p].pc \in Removing =>
             dir.exists /\ \A q \in Pipelines : crew[q].pc \notin Filling

(* Its artifacts are those of its record, and there are none before it     *)
(* has one.                                                                *)
WriterShows ==
    \A p \in Pipelines :
        /\ crew[p].pc \in Reading => ArtifactSet \cap FileSet = {}
        /\ crew[p].pc = "write" => Shows(dir.files, Record(crew[p]))

(* At all times the directory shows one record. *)
DirShowsOne == \E rec \in Records : Plausible(rec) /\ Shows(dir.files, rec)

(* So do the hashes that were found to match it. *)
HashesShowOne(p) ==
    \E rec \in Records : \A f \in ArtifactSet : crew[p].manifest.hashes[f] = Content(f, rec)

SoundShowsOne == \A p \in Pipelines : crew[p].pc = "contents" /\ crew[p].sound => HashesShowOne(p)

(* A pipeline that exits with 0 vouches for one record, and its manifest   *)
(* says that it passed and that no step is left (verify_bundle).           *)
OneRecordVouched ==
    \A p \in Pipelines : crew[p].pc = "done" /\ crew[p].exit = 0 =>
        /\ HashesShowOne(p)
        /\ crew[p].manifest.ok /\ crew[p].manifest.next = None

BundleInv ==
    CrewOK /\ DirOK /\ OneWriter /\ RemoverAlone /\ WriterShows /\ DirShowsOne /\ SoundShowsOne /\ OneRecordVouched

(* The pipeline that runs with --force has removed what it found, or has   *)
(* given up: from then on a marked directory stays.                        *)
Settled ==
    \E q \in Pipelines : crew[q].pc \notin {"idle", "inspect", "check"} \cup Removing /\ crew[q].force

Working == Filling \cup Late

(* Until then whoever works in the directory does so alone. *)
LoneWorker(p) == ~Settled /\ crew[p].pc \in Working =>
    dir.exists /\ \A q \in Pipelines : crew[q].pc \in Working => q = p

Passes(p) == PhysicalSmokePassed(Record(crew[p]))

(* Until then files and manifest are one's own. *)
OwnFiles(p) == ~Settled =>
    /\ crew[p].pc \in Late => Shows(dir.files, Record(crew[p]))
    /\ crew[p].pc \in Filling => "manifest" \notin FileSet
    /\ crew[p].pc \in Late /\ "manifest" \in FileSet => dir.files["manifest"].ok = Passes(p)
    /\ crew[p].pc \in {"artifacts", "contents"} => crew[p].manifest.ok = Passes(p)

(* The manifest's verdict is that of the record its hashes show, or the    *)
(* hashes still match files that nobody is left to replace.                *)
HashedPasses(p) == PhysicalSmokePassed(crew[p].manifest.hashes["smoke.json"])
StillMatches(p) == \A f \in ArtifactSet : f \in FileSet /\ dir.files[f] = crew[p].manifest.hashes[f]

VerdictBound(p) == crew[p].pc = "contents" /\ crew[p].sound =>
    (crew[p].manifest.ok = HashedPasses(p)) \/ (Settled /\ "marker" \in FileSet /\ StillMatches(p))

VouchedPasses(p) == crew[p].pc = "done" /\ crew[p].exit = 0 => HashedPasses(p)

PairInv == \A p \in Pipelines : LoneWorker(p) /\ OwnFiles(p) /\ VerdictBound(p) /\ VouchedPasses(p)

(* Nothing is claimed once two pipelines were started with --force. *)
LabBundleInv == CrewOK /\ (AtMostOneForced => BundleInv /\ PairInv)

(* The names of the artifacts. *)
LEMMA ArtifactNames ==
    /\ ArtifactSet = {"guide.json", "guide.txt", "smoke.json", "smoke.txt"}
    /\ Len(Artifacts) = 4
    /\ \A i \in 1..4 : Artifacts[i] \in ArtifactSet
BY DEF ArtifactSet, Artifacts, Range

(* A file that is written is there, and the others are as they were. *)
LEMMA PutFile ==
    ASSUME DirOK, NEW file, NEW content, dir' = Put(file, content)
    PROVE  /\ DOMAIN dir' = {"exists", "files"} /\ dir'.exists = dir.exists
           /\ DOMAIN (dir'.files) = FileSet \cup {file}
           /\ dir'.files[file] = content
           /\ \A f \in FileSet : f # file => dir'.files[f] = dir.files[f]
<1>1. PICK fs : fs = With(dir.files, file, content)
  OBVIOUS
<1>2. /\ DOMAIN fs = FileSet \cup {file} /\ fs[file] = content
      /\ \A f \in FileSet : f # file => fs[f] = dir.files[f]
  BY <1>1 DEF With, FileSet
<1>3. dir' = [dir EXCEPT !.files = fs]
  BY <1>1 DEF Put
<1>4. dir'.files = fs /\ dir'.exists = dir.exists /\ DOMAIN dir' = {"exists", "files"}
  BY <1>3 DEF DirOK
<1> QED
  BY <1>2, <1>4

(* The record of a pipeline that has read the bench. *)
LEMMA RecordPlausible ==
    ASSUME CrewOK, NEW p \in Pipelines, crew[p].pc \in Filling \cup Late
    PROVE  Plausible(Record(crew[p]))
<1>1. crew[p].apk \in BOOLEAN /\ crew[p].manual \in {"pass", "open"}
  BY DEF CrewOK, Filling, Reading, Late, CrewIdle
<1>2. Readiness(crew[p].read) => ~UsbBlocked(crew[p].read)
  BY DEF Readiness, UsbBlocked, Facts
<1> DEFINE rec == Record(crew[p])
<1>3. rec.ready = Readiness(crew[p].read) /\ rec.prereq = ~UsbBlocked(crew[p].read)
  BY DEF Record
<1>4. rec \in Records
  BY <1>1 DEF Record, Records, Readiness, UsbBlocked
<1> QED
  BY <1>2, <1>3, <1>4 DEF Plausible

(* A pipeline at work has all its fields. *)
LEMMA AtWork ==
    ASSUME CrewOK, NEW p \in Pipelines, crew[p].pc \notin {"idle", "done"}
    PROVE  /\ DOMAIN crew[p] = WorkFields
           /\ crew[p].i \in Nat \ {0} /\ crew[p].apk \in BOOLEAN /\ crew[p].manual \in {"pass", "open"}
BY DEF CrewOK, CrewIdle

(* What a pipeline leaves behind when it ends. *)
LEMMA EndsLeaves ==
    ASSUME CrewOK, NEW p \in Pipelines, NEW verdict, Ends(p, verdict)
    PROVE  /\ DOMAIN crew' = Pipelines
           /\ crew'[p].pc = "done" /\ crew'[p].exit = verdict /\ crew'[p].manifest = crew[p].manifest
           /\ crew'[p].force = crew[p].force
           /\ \A q \in Pipelines : q # p => crew'[q] = crew[q]
BY DEF CrewOK, Ends

(* A pipeline that goes on keeps its other fields. *)
LEMMA GoKeeps ==
    ASSUME CrewOK, NEW p \in Pipelines, NEW pc, crew[p].pc \notin {"idle", "done"}, Go(p, pc)
    PROVE  /\ DOMAIN crew' = Pipelines /\ DOMAIN crew'[p] = WorkFields
           /\ crew'[p].pc = pc
           /\ \A x \in WorkFields \ {"pc"} : crew'[p][x] = crew[p][x]
           /\ \A q \in Pipelines : q # p => crew'[q] = crew[q]
BY AtWork DEF CrewOK, Go, WorkFields

(* The record is a matter of what was read. *)
LEMMA SameRecord ==
    ASSUME NEW c, NEW d, c.read = d.read, c.plan = d.plan, c.apk = d.apk, c.manual = d.manual
    PROVE  Record(c) = Record(d)
BY DEF Record

(* What a step of the pipeline p does to the crew. *)
OnlyMoves(p) ==
    /\ DOMAIN crew' = Pipelines
    /\ \A q \in Pipelines : q # p => crew'[q] = crew[q]

(* The pipeline p is well formed after the step. *)
MovesWell(p) ==
    \/ /\ DOMAIN crew'[p] = WorkFields
       /\ crew'[p].pc \in (Early \ {"idle"}) \cup Filling \cup Late
       /\ crew'[p].i \in Nat \ {0} /\ crew'[p].apk \in BOOLEAN /\ crew'[p].manual \in {"pass", "open"}
    \/ crew'[p].pc = "done"

(* It does not come to a verdict. *)
NoVerdict(p) == crew'[p].pc # "contents" /\ ~(crew'[p].pc = "done" /\ crew'[p].exit = 0)

(* The step of one pipeline keeps the others well formed. *)
LEMMA CrewStays ==
    ASSUME CrewOK, NEW p \in Pipelines, OnlyMoves(p), MovesWell(p)
    PROVE  CrewOK'
BY DEF CrewOK, OnlyMoves, MovesWell

(* Every step of p leaves the others alone and p well formed, and does not *)
(* change whether p was started with --force.                              *)
Moves(p) ==
    OnlyMoves(p) /\ MovesWell(p) /\ crew'[p].force = crew[p].force /\ crew'[p].pc # "idle"

(* Ending moves well, *)
LEMMA EndsMoves ==
    ASSUME CrewOK, NEW p \in Pipelines, NEW verdict, Ends(p, verdict)
    PROVE  Moves(p)
BY EndsLeaves DEF Moves, OnlyMoves, MovesWell

(* and so does going on. *)
LEMMA GoMoves ==
    ASSUME CrewOK, NEW p \in Pipelines, crew[p].pc \notin {"idle", "done"},
           NEW pc \in (Early \ {"idle"}) \cup Filling \cup Late, Go(p, pc)
    PROVE  Moves(p) /\ crew'[p].pc = pc
<1>1. OnlyMoves(p) /\ crew'[p].pc = pc /\ crew'[p].force = crew[p].force
  BY GoKeeps DEF OnlyMoves, WorkFields
<1>2. MovesWell(p)
  BY GoKeeps, AtWork DEF MovesWell, WorkFields
<1>3. pc # "idle"
  BY DEF Filling, Reading, Late
<1> QED
  BY <1>1, <1>2, <1>3 DEF Moves

(* The listing of what is to be removed. *)
LEMMA ListDirMoves ==
    ASSUME CrewOK, NEW p \in Pipelines, NEW fs, crew[p].pc = "list",
           crew' = [crew EXCEPT ![p].doomed = fs, ![p].pc = "unlink"]
    PROVE  Moves(p) /\ crew'[p].pc = "unlink"
<1>1. DOMAIN crew[p] = WorkFields /\ DOMAIN crew = Pipelines
      /\ crew[p].i \in Nat \ {0} /\ crew[p].apk \in BOOLEAN /\ crew[p].manual \in {"pass", "open"}
  BY AtWork DEF CrewOK
<1>2. OnlyMoves(p) /\ DOMAIN crew'[p] = WorkFields /\ crew'[p].pc = "unlink"
      /\ crew'[p].i = crew[p].i /\ crew'[p].apk = crew[p].apk /\ crew'[p].manual = crew[p].manual
      /\ crew'[p].force = crew[p].force
  BY <1>1 DEF OnlyMoves, WorkFields
<1> QED
  BY <1>1, <1>2 DEF Moves, MovesWell, Early, Removing

(* One file less to remove. *)
LEMMA UnlinkMoves ==
    ASSUME CrewOK, NEW p \in Pipelines, NEW f, crew[p].pc = "unlink",
           crew' = [crew EXCEPT ![p].doomed = @ \ {f}]
    PROVE  Moves(p) /\ crew'[p].pc = "unlink"
<1>1. DOMAIN crew[p] = WorkFields /\ DOMAIN crew = Pipelines
      /\ crew[p].i \in Nat \ {0} /\ crew[p].apk \in BOOLEAN /\ crew[p].manual \in {"pass", "open"}
  BY AtWork DEF CrewOK
<1>2. OnlyMoves(p) /\ DOMAIN crew'[p] = WorkFields /\ crew'[p].pc = "unlink"
      /\ crew'[p].i = crew[p].i /\ crew'[p].apk = crew[p].apk /\ crew'[p].manual = crew[p].manual
      /\ crew'[p].force = crew[p].force
  BY <1>1 DEF OnlyMoves, WorkFields
<1> QED
  BY <1>1, <1>2 DEF Moves, MovesWell, Early, Removing

(* The steps up to the directory. *)
LEMMA EarlyMoves ==
    ASSUME CrewOK, NEW p \in Pipelines,
           InspectDir(p) \/ EnsureForceSafe(p) \/ ListDir(p) \/ UnlinkFile(p) \/ RemoveDir(p) \/ MakeDir(p)
    PROVE  Moves(p)
<1>1. crew[p].pc \notin {"idle", "done"}
  BY DEF InspectDir, EnsureForceSafe, ListDir, UnlinkFile, RemoveDir, MakeDir, PipeAt
<1>2. {"check", "list", "rmdir", "mkdir", "readDevice"} \subseteq (Early \ {"idle"}) \cup Filling \cup Late
  BY DEF Early, Removing, Filling, Reading
<1>3. CASE \E pc \in {"check", "list", "rmdir", "mkdir", "readDevice"} : Go(p, pc)
  BY <1>1, <1>2, <1>3, GoMoves
<1>4. CASE \E verdict \in {1, 2} : Ends(p, verdict)
  BY <1>4, EndsMoves
<1>5. CASE InspectDir(p) \/ EnsureForceSafe(p) \/ RemoveDir(p) \/ MakeDir(p)
  BY <1>3, <1>4, <1>5 DEF InspectDir, EnsureForceSafe, RemoveDir, MakeDir
<1>6. CASE ListDir(p)
  BY <1>4, <1>6, ListDirMoves DEF ListDir, PipeAt
<1>7. CASE UnlinkFile(p)
  BY <1>3, <1>4, <1>7, UnlinkMoves DEF UnlinkFile, PipeAt
<1> QED
  BY <1>5, <1>6, <1>7

(* The reads of the bench, and the steps in the directory. *)
LEMMA WorkMoves ==
    ASSUME CrewOK, NEW p \in Pipelines,
           ReadBench(p) \/ WriteArtifact(p) \/ HashArtifact(p) \/ ReadManifest(p) \/ CheckArtifacts(p)
    PROVE  Moves(p)
<1>1. crew[p].pc \notin {"idle", "done"}
  BY DEF ReadBench, WriteArtifact, HashArtifact, ReadManifest, CheckArtifacts, PipeAt
<1>2. DOMAIN crew[p] = WorkFields /\ DOMAIN crew = Pipelines
      /\ crew[p].i \in Nat \ {0} /\ crew[p].apk \in BOOLEAN /\ crew[p].manual \in {"pass", "open"}
  BY <1>1, AtWork DEF CrewOK
<1>3. CASE \E verdict \in {1, 2} : Ends(p, verdict)
  BY <1>3, EndsMoves
<1>4. CASE ReadBench(p)
  <2>1. OnlyMoves(p) /\ DOMAIN crew'[p] = WorkFields /\ crew'[p].i = crew[p].i
        /\ crew'[p].manual = crew[p].manual /\ crew'[p].force = crew[p].force
    BY <1>2, <1>4 DEF ReadBench, OnlyMoves, WorkFields
  <2>2. crew'[p].apk \in BOOLEAN /\ crew'[p].pc \in {"readHub", "planDevice", "write"}
    BY <1>2, <1>4 DEF ReadBench, WorkFields
  <2> QED
    BY <1>2, <2>1, <2>2 DEF Moves, MovesWell, Filling, Reading
<1>5. CASE WriteArtifact(p)
  <2>1. CASE crew' = [crew EXCEPT ![p].i = @ + 1]
    <3>1. OnlyMoves(p) /\ DOMAIN crew'[p] = WorkFields /\ crew'[p].pc = "write"
          /\ crew'[p].i \in Nat \ {0} /\ crew'[p].apk = crew[p].apk /\ crew'[p].manual = crew[p].manual
          /\ crew'[p].force = crew[p].force
      BY <1>2, <1>5, <2>1 DEF OnlyMoves, WorkFields, WriteArtifact, PipeAt
    <3> QED
      BY <1>2, <3>1 DEF Moves, MovesWell, Filling
  <2>2. CASE crew' = [crew EXCEPT ![p].i = 1, ![p].pc = "hash"]
    <3>1. OnlyMoves(p) /\ DOMAIN crew'[p] = WorkFields /\ crew'[p].pc = "hash"
          /\ crew'[p].i \in Nat \ {0} /\ crew'[p].apk = crew[p].apk /\ crew'[p].manual = crew[p].manual
          /\ crew'[p].force = crew[p].force
      BY <1>2, <2>2 DEF OnlyMoves, WorkFields
    <3> QED
      BY <1>2, <3>1 DEF Moves, MovesWell, Late
  <2> QED
    BY <1>3, <1>5, <2>1, <2>2 DEF WriteArtifact
<1>6. CASE HashArtifact(p)
  <2>1. ASSUME NEW h, crew' = [crew EXCEPT ![p].hashes = h, ![p].i = @ + 1]
        PROVE  Moves(p)
    <3>1. OnlyMoves(p) /\ DOMAIN crew'[p] = WorkFields /\ crew'[p].pc = "hash"
          /\ crew'[p].i \in Nat \ {0} /\ crew'[p].apk = crew[p].apk /\ crew'[p].manual = crew[p].manual
          /\ crew'[p].force = crew[p].force
      BY <1>2, <1>6, <2>1 DEF OnlyMoves, WorkFields, HashArtifact, PipeAt
    <3> QED
      BY <1>2, <3>1 DEF Moves, MovesWell, Late
  <2>2. CASE Go(p, "manifest")
    BY <1>1, <2>2, GoMoves DEF Late
  <2> QED
    BY <1>3, <1>6, <2>1, <2>2 DEF HashArtifact
<1>7. CASE ReadManifest(p)
  <2>1. ASSUME NEW m, crew' = [crew EXCEPT ![p].manifest = m, ![p].pc = "artifacts"]
        PROVE  Moves(p)
    <3>1. OnlyMoves(p) /\ DOMAIN crew'[p] = WorkFields /\ crew'[p].pc = "artifacts"
          /\ crew'[p].i = crew[p].i /\ crew'[p].apk = crew[p].apk /\ crew'[p].manual = crew[p].manual
          /\ crew'[p].force = crew[p].force
      BY <1>2, <2>1 DEF OnlyMoves, WorkFields
    <3> QED
      BY <1>2, <3>1 DEF Moves, MovesWell, Late
  <2> QED
    BY <1>3, <1>7, <2>1 DEF ReadManifest
<1>8. CASE CheckArtifacts(p)
  <2>1. PICK s : crew' = [crew EXCEPT ![p].sound = s, ![p].pc = "contents"]
    BY <1>8 DEF CheckArtifacts
  <2>2. OnlyMoves(p) /\ DOMAIN crew'[p] = WorkFields /\ crew'[p].pc = "contents"
        /\ crew'[p].i = crew[p].i /\ crew'[p].apk = crew[p].apk /\ crew'[p].manual = crew[p].manual
        /\ crew'[p].force = crew[p].force
    BY <1>2, <2>1 DEF OnlyMoves, WorkFields
  <2> QED
    BY <1>2, <2>2 DEF Moves, MovesWell, Late
<1> QED
  BY <1>4, <1>5, <1>6, <1>7, <1>8

(* Every step of a pipeline. *)
LEMMA PipelineMoves ==
    ASSUME CrewOK, NEW p \in Pipelines, PipelineActs(p) \/ PipelineDies(p)
    PROVE  Moves(p)
<1>1. CASE \E verdict \in {0, 1, 2} : Ends(p, verdict)
  BY <1>1, EndsMoves
<1>2. CASE PipelineDies(p) \/ CheckContents(p)
  BY <1>1, <1>2 DEF PipelineDies, CheckContents
<1>3. CASE WriteManifest(p)
  BY <1>1, <1>3, GoMoves DEF WriteManifest, PipeAt, Late
<1> QED
  BY <1>1, <1>2, <1>3, EarlyMoves, WorkMoves DEF PipelineActs

(* A step of p without a verdict leaves the verdicts as they were. *)
LEMMA VerdictsStay ==
    ASSUME SoundShowsOne, OneRecordVouched, NEW p \in Pipelines, OnlyMoves(p), NoVerdict(p)
    PROVE  SoundShowsOne' /\ OneRecordVouched'
<1>1. SUFFICES ASSUME NEW q \in Pipelines, q # p
               PROVE  /\ crew'[q].pc = "contents" /\ crew'[q].sound => HashesShowOne(q)'
                      /\ crew'[q].pc = "done" /\ crew'[q].exit = 0 =>
                           HashesShowOne(q)' /\ crew'[q].manifest.ok /\ crew'[q].manifest.next = None
  BY DEF SoundShowsOne, OneRecordVouched, NoVerdict
<1>2. crew'[q] = crew[q]
  BY <1>1 DEF OnlyMoves
<1>3. HashesShowOne(q)' = HashesShowOne(q)
  BY <1>2 DEF HashesShowOne
<1> QED
  BY <1>2, <1>3 DEF SoundShowsOne, OneRecordVouched

(* A step of p that leaves the directory alone and takes no place among    *)
(* the writers.                                                            *)
LEMMA QuietStep ==
    ASSUME BundleInv, NEW p \in Pipelines, OnlyMoves(p), MovesWell(p), NoVerdict(p), dir' = dir,
           crew'[p].pc \in Reading => crew[p].pc \in Reading,
           crew'[p].pc = "write" => crew[p].pc \in Filling /\ Shows(dir.files, Record(crew'[p])),
           crew'[p].pc \in Removing \cup {"check"} => crew'[p].force,
           crew'[p].pc \in Removing => dir.exists /\ \A q \in Pipelines : crew[q].pc \notin Filling
    PROVE  BundleInv'
<1>1. CrewOK' /\ SoundShowsOne' /\ OneRecordVouched'
  BY CrewStays, VerdictsStay DEF BundleInv
<1>2. DirOK' /\ DirShowsOne'
  BY DEF BundleInv, DirOK, DirShowsOne, FileSet
<1>3. crew'[p].pc \in Filling => crew[p].pc \in Filling
  BY DEF Filling
<1>4. OneWriter'
  BY <1>3 DEF BundleInv, OneWriter, OnlyMoves, FileSet
<1>5. ASSUME NEW q \in Pipelines
      PROVE  /\ crew'[q].pc \in Reading => ArtifactSet \cap FileSet = {}
             /\ crew'[q].pc = "write" => Shows(dir.files, Record(crew'[q]))
  <2>1. CASE q = p
    BY <2>1 DEF BundleInv, WriterShows
  <2>2. CASE q # p
    <3>1. crew'[q] = crew[q]
      BY <2>2 DEF OnlyMoves
    <3> QED
      BY <3>1 DEF BundleInv, WriterShows
  <2> QED
    BY <2>1, <2>2
<1>6. WriterShows'
  BY <1>5 DEF WriterShows, FileSet
<1>7. \A q \in Pipelines : crew'[q].pc \in Filling => crew[q].pc \in Filling
  BY <1>3 DEF OnlyMoves
<1>8. RemoverAlone'
  <2>1. ASSUME NEW q \in Pipelines
        PROVE  /\ crew'[q].pc \in Removing \cup {"check"} => crew'[q].force
               /\ crew'[q].pc \in Removing => dir.exists /\ \A r \in Pipelines : crew[r].pc \notin Filling
    <3>1. CASE q = p
      BY <3>1
    <3>2. CASE q # p
      BY <3>2 DEF BundleInv, RemoverAlone, OnlyMoves
    <3> QED
      BY <3>1, <3>2
  <2> QED
    BY <1>7, <2>1 DEF RemoverAlone
<1> QED
  BY <1>1, <1>2, <1>4, <1>6, <1>8 DEF BundleInv

(* A pipeline that ends without a verdict of 0. *)
LEMMA EndsQuietly ==
    ASSUME BundleInv, NEW p \in Pipelines, NEW verdict \in {1, 2}, Ends(p, verdict), dir' = dir
    PROVE  BundleInv'
<1>1. OnlyMoves(p) /\ crew'[p].pc = "done" /\ crew'[p].exit # 0
  BY EndsLeaves DEF BundleInv, OnlyMoves
<1>2. MovesWell(p) /\ NoVerdict(p)
  BY <1>1 DEF MovesWell, NoVerdict
<1> QED
  BY <1>1, <1>2, QuietStep DEF Reading, Removing

(* A pipeline that goes on without touching the directory. *)
LEMMA GoesQuietly ==
    ASSUME BundleInv, NEW p \in Pipelines, crew[p].pc \notin {"idle", "done"},
           NEW pc \in {"mkdir", "manifest", "verify"}, Go(p, pc), dir' = dir
    PROVE  BundleInv'
<1>1. Moves(p) /\ crew'[p].pc = pc
  BY GoMoves DEF BundleInv, Early, Late
<1>2. NoVerdict(p)
  BY <1>1 DEF NoVerdict
<1> QED
  BY <1>1, <1>2, QuietStep DEF Reading, Removing, Moves

(* A forced pipeline comes nearer to the removal. *)
LEMMA ForcedGoes ==
    ASSUME BundleInv, NEW p \in Pipelines, Moves(p), crew[p].force,
           crew'[p].pc \in {"check"} \cup Removing, dir' = dir,
           crew'[p].pc \in Removing => dir.exists /\ \A q \in Pipelines : crew[q].pc \notin Filling
    PROVE  BundleInv'
<1>1. OnlyMoves(p) /\ MovesWell(p) /\ crew'[p].force
  BY DEF Moves
<1>2. NoVerdict(p) /\ crew'[p].pc \notin Reading /\ crew'[p].pc # "write"
  BY DEF NoVerdict, Removing, Reading
<1> QED
  BY <1>1, <1>2, QuietStep

(* A pipeline starts. *)
LEMMA StartPipelineKeeps ==
    ASSUME BundleInv, NEW p \in Pipelines, NEW force \in BOOLEAN, NEW manual \in {"pass", "open"},
           StartPipeline(p, force, manual)
    PROVE  BundleInv'
<1>1. PICK c : c = [pc |-> "inspect", force |-> force, manual |-> manual, doomed |-> {}, read |-> {},
                    plan |-> {}, apk |-> FALSE, i |-> 1, hashes |-> <<>>, sound |-> TRUE,
                    manifest |-> NoManifest]
  OBVIOUS
<1>2. /\ DOMAIN c = WorkFields /\ c.pc = "inspect"
      /\ c.i \in Nat \ {0} /\ c.apk \in BOOLEAN /\ c.manual \in {"pass", "open"}
  BY <1>1 DEF WorkFields
<1>3. crew' = [crew EXCEPT ![p] = c] /\ dir' = dir
  BY <1>1 DEF StartPipeline
<1>4. OnlyMoves(p) /\ crew'[p] = c
  BY <1>3 DEF BundleInv, CrewOK, OnlyMoves
<1>5. MovesWell(p) /\ NoVerdict(p)
  BY <1>2, <1>4 DEF MovesWell, NoVerdict, Early
<1> QED
  BY <1>2, <1>3, <1>4, <1>5, QuietStep DEF Reading, Removing

(* An existing directory is a conflict, or is looked into. *)
LEMMA InspectDirKeeps ==
    ASSUME BundleInv, NEW p \in Pipelines, InspectDir(p)
    PROVE  BundleInv'
<1>1. crew[p].pc = "inspect" /\ dir' = dir
  BY DEF InspectDir, PipeAt
<1>2. CASE Go(p, "mkdir")
  BY <1>1, <1>2, GoesQuietly
<1>3. CASE Ends(p, 2)
  BY <1>1, <1>3, EndsQuietly
<1>4. CASE crew[p].force /\ Go(p, "check")
  <2>1. Moves(p) /\ crew'[p].pc = "check"
    BY <1>1, <1>4, GoMoves DEF BundleInv, Early
  <2> QED
    BY <1>1, <1>4, <2>1, ForcedGoes DEF Removing
<1> QED
  BY <1>2, <1>3, <1>4 DEF InspectDir

(* One that has the marker is not being filled. *)
LEMMA EnsureForceSafeKeeps ==
    ASSUME BundleInv, NEW p \in Pipelines, EnsureForceSafe(p)
    PROVE  BundleInv'
<1>1. crew[p].pc = "check" /\ dir' = dir
  BY DEF EnsureForceSafe, PipeAt
<1>2. CASE "marker" \in FileSet
  <2>1. Moves(p) /\ crew'[p].pc = "list"
    BY <1>1, <1>2, GoMoves DEF BundleInv, Early, Removing, EnsureForceSafe
  <2>2. dir.exists /\ \A q \in Pipelines : crew[q].pc \notin Filling
    BY <1>2 DEF BundleInv, DirOK, OneWriter
  <2>3. crew[p].force
    BY <1>1 DEF BundleInv, RemoverAlone
  <2> QED
    BY <1>1, <2>1, <2>2, <2>3, ForcedGoes DEF Removing
<1>3. CASE "marker" \notin FileSet
  BY <1>1, <1>3, EndsQuietly DEF EnsureForceSafe
<1> QED
  BY <1>2, <1>3

(* What the removal may rely on. *)
LEMMA RemoverKnows ==
    ASSUME BundleInv, NEW p \in Pipelines, crew[p].pc \in Removing
    PROVE  crew[p].force /\ dir.exists /\ \A q \in Pipelines : crew[q].pc \notin Filling
BY DEF BundleInv, RemoverAlone

(* The listing. *)
LEMMA ListDirKeeps ==
    ASSUME BundleInv, NEW p \in Pipelines, ListDir(p)
    PROVE  BundleInv'
<1>1. crew[p].pc = "list" /\ dir' = dir
  BY DEF ListDir, PipeAt
<1>2. crew[p].force /\ dir.exists /\ \A q \in Pipelines : crew[q].pc \notin Filling
  BY <1>1, RemoverKnows DEF Removing
<1>3. Moves(p) /\ crew'[p].pc = "unlink"
  BY <1>1, <1>2, ListDirMoves DEF ListDir, BundleInv
<1> QED
  BY <1>1, <1>2, <1>3, ForcedGoes DEF Removing

(* Fewer files, of the same contents. *)
Shrinks ==
    /\ dir'.exists = dir.exists
    /\ DOMAIN (dir'.files) \subseteq FileSet
    /\ \A f \in DOMAIN (dir'.files) : dir'.files[f] = dir.files[f]

(* A file that is removed is gone, and the others are as they were. *)
LEMMA DropFile ==
    ASSUME DirOK, NEW f, dir' = [dir EXCEPT !.files = [g \in FileSet \ {f} |-> dir.files[g]]]
    PROVE  Shrinks /\ DOMAIN dir' = {"exists", "files"}
<1>1. PICK fs : fs = [g \in FileSet \ {f} |-> dir.files[g]]
  OBVIOUS
<1>2. DOMAIN fs = FileSet \ {f} /\ \A g \in FileSet \ {f} : fs[g] = dir.files[g]
  BY <1>1
<1>3. dir' = [dir EXCEPT !.files = fs]
  BY <1>1
<1>4. dir'.files = fs /\ dir'.exists = dir.exists /\ DOMAIN dir' = {"exists", "files"}
  BY <1>3 DEF DirOK
<1> QED
  BY <1>2, <1>4 DEF Shrinks

(* A file is removed. *)
LEMMA UnlinkFileKeeps ==
    ASSUME BundleInv, NEW p \in Pipelines, UnlinkFile(p)
    PROVE  BundleInv'
<1>1. crew[p].pc = "unlink"
  BY DEF UnlinkFile, PipeAt
<1>2. crew[p].force /\ dir.exists /\ \A q \in Pipelines : crew[q].pc \notin Filling
  BY <1>1, RemoverKnows DEF Removing
<1>3. CASE Go(p, "rmdir") /\ dir' = dir
  <2>1. Moves(p) /\ crew'[p].pc = "rmdir"
    BY <1>1, <1>3, GoMoves DEF BundleInv, Early, Removing
  <2> QED
    BY <1>2, <1>3, <2>1, ForcedGoes DEF Removing
<1>4. CASE Ends(p, 1) /\ dir' = dir
  BY <1>4, EndsQuietly
<1>5. ASSUME NEW f, dir' = [dir EXCEPT !.files = [g \in FileSet \ {f} |-> dir.files[g]]],
             crew' = [crew EXCEPT ![p].doomed = @ \ {f}]
      PROVE  BundleInv'
  <2>1. Moves(p) /\ crew'[p].pc = "unlink"
    BY <1>1, <1>5, UnlinkMoves DEF BundleInv
  <2>2. OnlyMoves(p) /\ MovesWell(p) /\ crew'[p].force
    BY <1>2, <2>1 DEF Moves
  <2>3. CrewOK' /\ SoundShowsOne' /\ OneRecordVouched'
    BY <2>1, <2>2, CrewStays, VerdictsStay DEF BundleInv, NoVerdict
  <2>4. Shrinks /\ DOMAIN dir' = {"exists", "files"}
    BY <1>5, DropFile DEF BundleInv
  <2>5. DirOK'
    BY <1>2, <2>4 DEF BundleInv, DirOK, Shrinks
  <2>6. \A q \in Pipelines : crew'[q].pc \notin Filling
    BY <1>2, <2>1, <2>2 DEF OnlyMoves, Filling, Reading
  <2>7. OneWriter' /\ WriterShows'
    BY <2>6 DEF OneWriter, WriterShows, Filling
  <2>8. \A rec : Shows(dir.files, rec) => Shows(dir'.files, rec)
    BY <2>4 DEF Shrinks, Shows, FileSet
  <2>9. DirShowsOne'
    BY <2>8 DEF BundleInv, DirShowsOne
  <2>10. dir'.exists
    BY <1>2, <2>4 DEF Shrinks
  <2>11. \A q \in Pipelines : crew'[q].pc \in Removing \cup {"check"} => crew'[q].force
    BY <2>2 DEF BundleInv, RemoverAlone, OnlyMoves
  <2>12. RemoverAlone'
    BY <2>6, <2>10, <2>11 DEF RemoverAlone
  <2> QED
    BY <2>3, <2>5, <2>7, <2>9, <2>12 DEF BundleInv
<1> QED
  BY <1>3, <1>4, <1>5 DEF UnlinkFile

(* The directory is removed by the only one that removes. *)
LEMMA RemoveDirKeeps ==
    ASSUME BundleInv, AtMostOneForced, NEW p \in Pipelines, RemoveDir(p)
    PROVE  BundleInv'
<1>1. crew[p].pc = "rmdir"
  BY DEF RemoveDir, PipeAt
<1>2. crew[p].force /\ dir.exists /\ \A q \in Pipelines : crew[q].pc \notin Filling
  BY <1>1, RemoverKnows DEF Removing
<1>3. CASE Ends(p, 1) /\ dir' = dir
  BY <1>3, EndsQuietly
<1>4. CASE Go(p, "mkdir") /\ dir' = NoDir
  <2>1. Moves(p) /\ crew'[p].pc = "mkdir"
    BY <1>1, <1>4, GoMoves DEF BundleInv, Early
  <2>2. OnlyMoves(p) /\ MovesWell(p) /\ NoVerdict(p)
    BY <2>1 DEF Moves, NoVerdict
  <2>3. CrewOK' /\ SoundShowsOne' /\ OneRecordVouched'
    BY <2>2, CrewStays, VerdictsStay DEF BundleInv
  <2>4. DOMAIN dir' = {"exists", "files"} /\ dir'.exists = FALSE /\ DOMAIN (dir'.files) = {}
    BY <1>4 DEF NoDir
  <2>5. DirOK'
    BY <2>4 DEF DirOK, FileSet
  <2>6. \A q \in Pipelines : crew'[q].pc \notin Filling
    BY <1>2, <2>1, <2>2 DEF OnlyMoves, Filling, Reading
  <2>7. OneWriter' /\ WriterShows'
    BY <2>6 DEF OneWriter, WriterShows, Filling
  <2>8. DirShowsOne'
    BY <2>4 DEF BundleInv, DirShowsOne, Shows
  <2>9. ASSUME NEW q \in Pipelines, crew'[q].pc \in Removing \cup {"check"}
        PROVE  FALSE
    <3>1. q # p
      BY <2>1, <2>9 DEF Removing
    <3>2. crew[q].pc \in Removing \cup {"check"} /\ crew[q].force
      BY <2>2, <2>9, <3>1 DEF OnlyMoves, BundleInv, RemoverAlone
    <3>3. p \in Forced /\ q \in Forced
      BY <1>1, <1>2, <3>2 DEF Forced, Removing
    <3> QED
      BY <3>1, <3>3 DEF AtMostOneForced
  <2>10. RemoverAlone'
    BY <2>9 DEF RemoverAlone
  <2> QED
    BY <2>3, <2>5, <2>7, <2>8, <2>10 DEF BundleInv
<1> QED
  BY <1>3, <1>4 DEF RemoveDir

(* The one that makes the directory fills it. *)
LEMMA MakeDirKeeps ==
    ASSUME BundleInv, NEW p \in Pipelines, MakeDir(p)
    PROVE  BundleInv'
<1>1. crew[p].pc = "mkdir"
  BY DEF MakeDir, PipeAt
<1>2. CASE Ends(p, 1) /\ dir' = dir
  BY <1>2, EndsQuietly
<1>3. CASE ~dir.exists /\ Go(p, "readDevice") /\ dir' = [exists |-> TRUE, files |-> <<>>]
  <2>1. OnlyMoves(p) /\ crew'[p].pc = "readDevice"
    BY <1>1, <1>3, GoKeeps DEF BundleInv, OnlyMoves
  <2>2. MovesWell(p) /\ NoVerdict(p)
    BY <1>1, <1>3, GoKeeps, AtWork DEF BundleInv, MovesWell, WorkFields, Filling, Reading, NoVerdict
  <2>3. CrewOK' /\ SoundShowsOne' /\ OneRecordVouched'
    BY <2>1, <2>2, CrewStays, VerdictsStay DEF BundleInv
  <2>4. DOMAIN dir' = {"exists", "files"} /\ dir'.exists = TRUE /\ DOMAIN (dir'.files) = {}
    BY <1>3
  <2>5. DirOK'
    BY <2>4 DEF DirOK, FileSet
  <2>6. \A q \in Pipelines : crew[q].pc \notin Filling
    BY <1>3 DEF BundleInv, OneWriter
  <2>7. \A q \in Pipelines : crew'[q].pc \in Filling => q = p
    BY <2>1, <2>6 DEF OnlyMoves
  <2>8. OneWriter'
    BY <2>4, <2>7 DEF OneWriter, FileSet
  <2>9. WriterShows'
    BY <2>1, <2>4, <2>7 DEF WriterShows, FileSet, Filling
  <2>10. DirShowsOne'
    BY <2>4 DEF BundleInv, DirShowsOne, Shows
  <2>11. RemoverAlone'
    BY <1>3, <2>1 DEF BundleInv, RemoverAlone, OnlyMoves, Removing
  <2> QED
    BY <2>3, <2>5, <2>8, <2>9, <2>10, <2>11 DEF BundleInv
<1> QED
  BY <1>2, <1>3 DEF MakeDir

(* The reads of the bench. *)
LEMMA ReadBenchKeeps ==
    ASSUME BundleInv, NEW p \in Pipelines, ReadBench(p)
    PROVE  BundleInv'
<1>1. crew[p].pc \in Reading /\ dir' = dir
  BY DEF ReadBench, PipeAt, Reading
<1>2. DOMAIN crew[p] = WorkFields /\ DOMAIN crew = Pipelines
      /\ crew[p].i \in Nat \ {0} /\ crew[p].apk \in BOOLEAN /\ crew[p].manual \in {"pass", "open"}
  BY <1>1, AtWork DEF BundleInv, CrewOK, Reading
<1>3. OnlyMoves(p) /\ DOMAIN crew'[p] = WorkFields /\ crew'[p].i = crew[p].i
      /\ crew'[p].manual = crew[p].manual
  BY <1>2 DEF ReadBench, OnlyMoves, WorkFields
<1>4. crew'[p].apk \in BOOLEAN /\ crew'[p].pc \in {"readHub", "planDevice", "write"}
  BY <1>2 DEF ReadBench, WorkFields
<1>5. MovesWell(p) /\ NoVerdict(p)
  BY <1>2, <1>3, <1>4 DEF MovesWell, NoVerdict, Filling, Reading
<1>6. Shows(dir.files, Record(crew'[p]))
  BY <1>1 DEF BundleInv, WriterShows, Shows, FileSet
<1> QED
  BY <1>1, <1>3, <1>4, <1>5, <1>6, QuietStep DEF Filling, Removing

(* An artifact is written: the directory shows the writer's record. *)
LEMMA WriteOneKeeps ==
    ASSUME BundleInv, NEW p \in Pipelines, crew[p].pc = "write", crew[p].i \in 1..4,
           dir' = Put(Artifacts[crew[p].i], Content(Artifacts[crew[p].i], Record(crew[p]))),
           crew' = [crew EXCEPT ![p].i = @ + 1]
    PROVE  BundleInv'
<1> DEFINE a == Artifacts[crew[p].i]
           rec == Record(crew[p])
<1>1. /\ DOMAIN crew[p] = WorkFields /\ DOMAIN crew = Pipelines
      /\ crew[p].i \in Nat \ {0} /\ crew[p].apk \in BOOLEAN /\ crew[p].manual \in {"pass", "open"}
  BY AtWork DEF BundleInv, CrewOK
<1>2. OnlyMoves(p) /\ DOMAIN crew'[p] = WorkFields /\ crew'[p].pc = "write"
      /\ crew'[p].i \in Nat \ {0} /\ crew'[p].apk = crew[p].apk /\ crew'[p].manual = crew[p].manual
      /\ crew'[p].read = crew[p].read /\ crew'[p].plan = crew[p].plan
  BY <1>1 DEF OnlyMoves, WorkFields
<1>3. MovesWell(p) /\ NoVerdict(p)
  BY <1>1, <1>2 DEF MovesWell, NoVerdict, Filling
<1>4. CrewOK' /\ SoundShowsOne' /\ OneRecordVouched'
  BY <1>2, <1>3, CrewStays, VerdictsStay DEF BundleInv
<1>5. Record(crew'[p]) = rec
  BY <1>2, SameRecord
<1>6. /\ DOMAIN dir' = {"exists", "files"} /\ dir'.exists = dir.exists
      /\ DOMAIN (dir'.files) = FileSet \cup {a}
      /\ dir'.files[a] = Content(a, rec)
      /\ \A f \in FileSet : f # a => dir'.files[f] = dir.files[f]
  BY PutFile DEF BundleInv
<1>7. a \in ArtifactSet /\ a # "marker"
  BY ArtifactNames
<1>8. dir.exists /\ "marker" \notin FileSet /\ \A q \in Pipelines : crew[q].pc \in Filling => q = p
  BY DEF BundleInv, OneWriter, Filling
<1>9. DirOK'
  BY <1>6, <1>8 DEF DirOK, FileSet
<1>10. \A q \in Pipelines : crew'[q].pc \in Filling => q = p
  BY <1>2, <1>8 DEF OnlyMoves
<1>11. OneWriter'
  BY <1>6, <1>7, <1>8, <1>10 DEF OneWriter, FileSet
<1>12. Shows(dir.files, rec)
  BY DEF BundleInv, WriterShows
<1>13. Shows(dir'.files, rec)
  BY <1>6, <1>12 DEF Shows, FileSet
<1>14. WriterShows'
  BY <1>2, <1>5, <1>10, <1>13 DEF WriterShows, Filling, Reading
<1>15. Plausible(rec)
  BY RecordPlausible DEF BundleInv, Filling
<1>16. DirShowsOne'
  BY <1>13, <1>15 DEF DirShowsOne, Plausible
<1>17. RemoverAlone'
  BY <1>2 DEF BundleInv, RemoverAlone, OnlyMoves, Removing, Filling
<1> QED
  BY <1>4, <1>9, <1>11, <1>14, <1>16, <1>17 DEF BundleInv

(* The marker is written: nobody fills the directory any more. *)
LEMMA WriteMarkerKeeps ==
    ASSUME BundleInv, NEW p \in Pipelines, crew[p].pc = "write", dir.exists,
           dir' = Put("marker", None), crew' = [crew EXCEPT ![p].i = 1, ![p].pc = "hash"]
    PROVE  BundleInv'
<1>1. /\ DOMAIN crew[p] = WorkFields /\ DOMAIN crew = Pipelines
      /\ crew[p].i \in Nat \ {0} /\ crew[p].apk \in BOOLEAN /\ crew[p].manual \in {"pass", "open"}
  BY AtWork DEF BundleInv, CrewOK
<1>2. OnlyMoves(p) /\ DOMAIN crew'[p] = WorkFields /\ crew'[p].pc = "hash"
      /\ crew'[p].i \in Nat \ {0} /\ crew'[p].apk = crew[p].apk /\ crew'[p].manual = crew[p].manual
  BY <1>1 DEF OnlyMoves, WorkFields
<1>3. MovesWell(p) /\ NoVerdict(p)
  BY <1>1, <1>2 DEF MovesWell, NoVerdict, Late
<1>4. CrewOK' /\ SoundShowsOne' /\ OneRecordVouched'
  BY <1>2, <1>3, CrewStays, VerdictsStay DEF BundleInv
<1>5. /\ DOMAIN dir' = {"exists", "files"} /\ dir'.exists = dir.exists
      /\ DOMAIN (dir'.files) = FileSet \cup {"marker"}
      /\ \A f \in FileSet : f # "marker" => dir'.files[f] = dir.files[f]
  BY PutFile DEF BundleInv
<1>6. DirOK'
  BY <1>5 DEF DirOK, FileSet
<1>7. \A q \in Pipelines : crew[q].pc \in Filling => q = p
  BY DEF BundleInv, OneWriter, Filling
<1>8. \A q \in Pipelines : crew'[q].pc \notin Filling
  BY <1>2, <1>7 DEF OnlyMoves, Filling, Reading
<1>9. OneWriter' /\ WriterShows'
  BY <1>8 DEF OneWriter, WriterShows, Filling
<1>10. \A rec : Shows(dir.files, rec) => Shows(dir'.files, rec)
  BY <1>5, ArtifactNames DEF Shows, FileSet
<1>11. DirShowsOne'
  BY <1>10 DEF BundleInv, DirShowsOne
<1>12. RemoverAlone'
  BY <1>2 DEF BundleInv, RemoverAlone, OnlyMoves, Removing, Filling
<1> QED
  BY <1>4, <1>6, <1>9, <1>11, <1>12 DEF BundleInv

(* The artifacts and the marker. *)
LEMMA WriteArtifactKeeps ==
    ASSUME BundleInv, NEW p \in Pipelines, WriteArtifact(p)
    PROVE  BundleInv'
<1>1. crew[p].pc = "write" /\ crew[p].i \in Nat \ {0}
  BY AtWork DEF WriteArtifact, PipeAt, BundleInv
<1>2. CASE ~dir.exists
  BY <1>1, <1>2 DEF BundleInv, OneWriter, Filling
<1>3. CASE dir.exists /\ crew[p].i <= Len(Artifacts)
  <2>1. /\ dir' = Put(Artifacts[crew[p].i], Content(Artifacts[crew[p].i], Record(crew[p])))
        /\ crew' = [crew EXCEPT ![p].i = @ + 1]
    BY <1>1, <1>3, ArtifactNames DEF WriteArtifact
  <2>2. CASE crew[p].i \in 1..4
    BY <1>1, <2>1, <2>2, WriteOneKeeps
  <2> QED
    BY <1>1, <1>3, <2>2, ArtifactNames
<1>4. CASE dir.exists /\ crew[p].i > Len(Artifacts)
  BY <1>1, <1>4, WriteMarkerKeeps, ArtifactNames DEF WriteArtifact
<1> QED
  BY <1>1, <1>2, <1>3, <1>4, ArtifactNames

(* The hashes of what is on disk. *)
LEMMA HashArtifactKeeps ==
    ASSUME BundleInv, NEW p \in Pipelines, HashArtifact(p)
    PROVE  BundleInv'
<1>1. crew[p].pc = "hash" /\ dir' = dir
  BY DEF HashArtifact, PipeAt
<1>2. /\ DOMAIN crew[p] = WorkFields /\ DOMAIN crew = Pipelines
      /\ crew[p].i \in Nat \ {0} /\ crew[p].apk \in BOOLEAN /\ crew[p].manual \in {"pass", "open"}
  BY <1>1, AtWork DEF BundleInv, CrewOK
<1>3. CASE Go(p, "manifest")
  BY <1>1, <1>3, GoesQuietly
<1>4. CASE Ends(p, 1)
  BY <1>1, <1>4, EndsQuietly
<1>5. ASSUME NEW h, crew' = [crew EXCEPT ![p].hashes = h, ![p].i = @ + 1]
      PROVE  BundleInv'
  <2>1. OnlyMoves(p) /\ DOMAIN crew'[p] = WorkFields /\ crew'[p].pc = "hash"
        /\ crew'[p].i \in Nat \ {0} /\ crew'[p].apk = crew[p].apk /\ crew'[p].manual = crew[p].manual
    BY <1>1, <1>2, <1>5 DEF OnlyMoves, WorkFields
  <2>2. MovesWell(p) /\ NoVerdict(p)
    BY <1>2, <2>1 DEF MovesWell, NoVerdict, Late
  <2> QED
    BY <1>1, <2>1, <2>2, QuietStep DEF Reading, Removing
<1>6. CASE crew' = [crew EXCEPT ![p].hashes = With(@, Artifacts[crew[p].i], dir.files[Artifacts[crew[p].i]]),
                                ![p].i = @ + 1]
  BY <1>5, <1>6
<1> QED
  BY <1>3, <1>4, <1>6 DEF HashArtifact

(* The manifest comes beside the artifacts. *)
LEMMA WriteManifestKeeps ==
    ASSUME BundleInv, NEW p \in Pipelines, WriteManifest(p)
    PROVE  BundleInv'
<1>1. crew[p].pc = "manifest"
  BY DEF WriteManifest, PipeAt
<1>2. CASE Ends(p, 1) /\ dir' = dir
  BY <1>2, EndsQuietly
<1>3. ASSUME NEW m, Go(p, "verify"), dir' = Put("manifest", m), dir.exists
      PROVE  BundleInv'
  <2>1. OnlyMoves(p) /\ crew'[p].pc = "verify"
    BY <1>1, <1>3, GoKeeps DEF BundleInv, OnlyMoves
  <2>2. MovesWell(p) /\ NoVerdict(p)
    BY <1>1, <1>3, GoKeeps, AtWork DEF BundleInv, MovesWell, WorkFields, Late, NoVerdict
  <2>3. CrewOK' /\ SoundShowsOne' /\ OneRecordVouched'
    BY <2>1, <2>2, CrewStays, VerdictsStay DEF BundleInv
  <2>4. /\ DOMAIN dir' = {"exists", "files"} /\ dir'.exists = dir.exists
        /\ DOMAIN (dir'.files) = FileSet \cup {"manifest"}
        /\ \A f \in FileSet : f # "manifest" => dir'.files[f] = dir.files[f]
    BY <1>3, PutFile DEF BundleInv
  <2>5. DirOK'
    BY <1>3, <2>4 DEF DirOK, FileSet
  <2>6. \A rec : Shows(dir.files, rec) => Shows(dir'.files, rec)
    BY <2>4, ArtifactNames DEF Shows, FileSet
  <2>7. DirShowsOne'
    BY <2>6 DEF BundleInv, DirShowsOne
  <2>8. \A q \in Pipelines : crew'[q].pc \in Filling => crew[q].pc \in Filling /\ crew'[q] = crew[q]
    BY <2>1 DEF OnlyMoves, Filling, Reading
  <2>9. OneWriter'
    BY <2>4, <2>8 DEF BundleInv, OneWriter, FileSet
  <2>10. WriterShows'
    BY <2>4, <2>6, <2>8, ArtifactNames DEF BundleInv, WriterShows, FileSet, Filling
  <2>11. RemoverAlone'
    BY <2>1, <2>4, <2>8 DEF BundleInv, RemoverAlone, OnlyMoves, Removing
  <2> QED
    BY <2>3, <2>5, <2>7, <2>9, <2>10, <2>11 DEF BundleInv
<1> QED
  BY <1>2, <1>3 DEF WriteManifest

(* The verifier reads the manifest. *)
LEMMA ReadManifestKeeps ==
    ASSUME BundleInv, NEW p \in Pipelines, ReadManifest(p)
    PROVE  BundleInv'
<1>1. crew[p].pc = "verify" /\ dir' = dir
  BY DEF ReadManifest, PipeAt
<1>2. /\ DOMAIN crew[p] = WorkFields /\ DOMAIN crew = Pipelines
      /\ crew[p].i \in Nat \ {0} /\ crew[p].apk \in BOOLEAN /\ crew[p].manual \in {"pass", "open"}
  BY <1>1, AtWork DEF BundleInv, CrewOK
<1>3. CASE Ends(p, 2)
  BY <1>1, <1>3, EndsQuietly
<1>4. ASSUME NEW m, crew' = [crew EXCEPT ![p].manifest = m, ![p].pc = "artifacts"]
      PROVE  BundleInv'
  <2>1. OnlyMoves(p) /\ DOMAIN crew'[p] = WorkFields /\ crew'[p].pc = "artifacts"
        /\ crew'[p].i = crew[p].i /\ crew'[p].apk = crew[p].apk /\ crew'[p].manual = crew[p].manual
    BY <1>1, <1>2, <1>4 DEF OnlyMoves, WorkFields
  <2>2. MovesWell(p) /\ NoVerdict(p)
    BY <1>2, <2>1 DEF MovesWell, NoVerdict, Late
  <2> QED
    BY <1>1, <2>1, <2>2, QuietStep DEF Reading, Removing
<1> QED
  BY <1>3, <1>4 DEF ReadManifest

(* A step of p to a verdict. *)
LEMMA VerdictStep ==
    ASSUME BundleInv, NEW p \in Pipelines, OnlyMoves(p), MovesWell(p), dir' = dir,
           crew'[p].pc \in {"contents", "done"},
           crew'[p].pc = "contents" /\ crew'[p].sound => HashesShowOne(p)',
           crew'[p].pc = "done" /\ crew'[p].exit = 0 =>
               HashesShowOne(p)' /\ crew'[p].manifest.ok /\ crew'[p].manifest.next = None
    PROVE  BundleInv'
<1>1. CrewOK'
  BY CrewStays DEF BundleInv
<1>2. DirOK' /\ DirShowsOne'
  BY DEF BundleInv, DirOK, DirShowsOne, FileSet
<1>3. \A q \in Pipelines : crew'[q].pc \in Filling => crew'[q] = crew[q]
  BY DEF OnlyMoves, Filling, Reading
<1>4. OneWriter' /\ WriterShows'
  BY <1>3 DEF BundleInv, OneWriter, WriterShows, FileSet, Filling
<1>7. RemoverAlone'
  BY <1>3 DEF BundleInv, RemoverAlone, OnlyMoves, Removing
<1>5. ASSUME NEW q \in Pipelines
      PROVE  /\ crew'[q].pc = "contents" /\ crew'[q].sound => HashesShowOne(q)'
             /\ crew'[q].pc = "done" /\ crew'[q].exit = 0 =>
                  HashesShowOne(q)' /\ crew'[q].manifest.ok /\ crew'[q].manifest.next = None
  <2>1. CASE q = p
    BY <2>1
  <2>2. CASE q # p
    <3>1. crew'[q] = crew[q]
      BY <2>2 DEF OnlyMoves
    <3>2. HashesShowOne(q)' = HashesShowOne(q)
      BY <3>1 DEF HashesShowOne
    <3> QED
      BY <3>1, <3>2 DEF BundleInv, SoundShowsOne, OneRecordVouched
  <2> QED
    BY <2>1, <2>2
<1>6. SoundShowsOne' /\ OneRecordVouched'
  BY <1>5 DEF SoundShowsOne, OneRecordVouched
<1> QED
  BY <1>1, <1>2, <1>4, <1>6, <1>7 DEF BundleInv

(* The hashes match: they show the record the directory shows. *)
LEMMA CheckArtifactsKeeps ==
    ASSUME BundleInv, NEW p \in Pipelines, CheckArtifacts(p)
    PROVE  BundleInv'
<1>1. crew[p].pc = "artifacts" /\ dir' = dir
  BY DEF CheckArtifacts, PipeAt
<1>2. /\ DOMAIN crew[p] = WorkFields /\ DOMAIN crew = Pipelines
      /\ crew[p].i \in Nat \ {0} /\ crew[p].apk \in BOOLEAN /\ crew[p].manual \in {"pass", "open"}
  BY <1>1, AtWork DEF BundleInv, CrewOK
<1>3. OnlyMoves(p) /\ DOMAIN crew'[p] = WorkFields /\ crew'[p].pc = "contents"
      /\ crew'[p].i = crew[p].i /\ crew'[p].apk = crew[p].apk /\ crew'[p].manual = crew[p].manual
      /\ crew'[p].manifest = crew[p].manifest
      /\ crew'[p].sound = ArtifactsMatch(crew[p].manifest)
  BY <1>1, <1>2 DEF CheckArtifacts, OnlyMoves, WorkFields
<1>4. MovesWell(p)
  BY <1>2, <1>3 DEF MovesWell, Late
<1>5. ASSUME crew'[p].sound
      PROVE  HashesShowOne(p)'
  <2>1. \A f \in ArtifactSet : f \in FileSet /\ dir.files[f] = crew[p].manifest.hashes[f]
    BY <1>3, <1>5 DEF ArtifactsMatch
  <2>2. PICK rec \in Records : Shows(dir.files, rec)
    BY DEF BundleInv, DirShowsOne
  <2>3. \A f \in ArtifactSet : crew'[p].manifest.hashes[f] = Content(f, rec)
    BY <1>3, <2>1, <2>2 DEF Shows, FileSet
  <2> QED
    BY <2>3 DEF HashesShowOne
<1> QED
  BY <1>1, <1>3, <1>4, <1>5, VerdictStep

(* What the contents say of the manifest. *)
LEMMA ContentsSay ==
    ASSUME BundleInv, NEW m, ContentsAgree(m), m.ok
    PROVE  /\ m.next = None
           /\ PhysicalSmokePassed(dir.files["smoke.json"])
<1>1. PICK rec \in Records : Plausible(rec) /\ Shows(dir.files, rec)
  BY DEF BundleInv, DirShowsOne
<1>2. dir.files["guide.json"] = Guide(rec) /\ dir.files["smoke.json"] = rec
  BY <1>1, ArtifactNames DEF ContentsAgree, Shows, Content, FileSet
<1>3. PhysicalSmokePassed(rec) /\ m.next = NextStepId(rec)
  <2>1. m.ok = PhysicalSmokePassed(dir.files["smoke.json"]) /\ m.next = dir.files["guide.json"].next
    BY DEF ContentsAgree
  <2>2. dir.files["guide.json"].next = NextStepId(rec)
    BY <1>2 DEF Guide
  <2>3. PhysicalSmokePassed(dir.files["smoke.json"])
    BY <2>1
  <2> QED
    BY <1>2, <2>1, <2>2, <2>3
<1>4. NextStepId(rec) = None
  BY <1>1, <1>3 DEF NextStepId, Plausible, PhysicalSmokePassed, ReadyForManualSmoke
<1> QED
  BY <1>2, <1>3, <1>4

(* The verdict. *)
LEMMA CheckContentsKeeps ==
    ASSUME BundleInv, NEW p \in Pipelines, CheckContents(p)
    PROVE  BundleInv'
<1>1. crew[p].pc = "contents" /\ dir' = dir
  BY DEF CheckContents, PipeAt
<1>2. PICK verdict : /\ Ends(p, verdict)
                     /\ verdict = 0 => /\ crew[p].sound /\ ContentsAgree(crew[p].manifest)
                                       /\ crew[p].manifest.ok
  BY DEF CheckContents
<1>3. OnlyMoves(p) /\ crew'[p].pc = "done" /\ crew'[p].exit = verdict
      /\ crew'[p].manifest = crew[p].manifest
  BY <1>2, EndsLeaves DEF BundleInv, OnlyMoves
<1>4. MovesWell(p)
  BY <1>3 DEF MovesWell
<1>5. ASSUME verdict = 0
      PROVE  HashesShowOne(p)' /\ crew'[p].manifest.ok /\ crew'[p].manifest.next = None
  <2>1. HashesShowOne(p)
    BY <1>1, <1>2, <1>5 DEF BundleInv, SoundShowsOne
  <2>2. HashesShowOne(p)'
    BY <1>3, <2>1 DEF HashesShowOne
  <2> QED
    BY <1>2, <1>3, <1>5, <2>2, ContentsSay
<1> QED
  BY <1>1, <1>3, <1>4, <1>5, VerdictStep

(* Every step of a pipeline keeps the invariant of the directory. *)
LEMMA PipelineKeeps ==
    ASSUME BundleInv, AtMostOneForced, NEW p \in Pipelines, PipelineActs(p) \/ PipelineDies(p)
    PROVE  BundleInv'
<1>1. CASE PipelineDies(p)
  BY <1>1, EndsQuietly DEF PipelineDies
<1> QED
  BY <1>1, InspectDirKeeps, EnsureForceSafeKeeps, ListDirKeeps, UnlinkFileKeeps, RemoveDirKeeps,
     MakeDirKeeps, ReadBenchKeeps, WriteArtifactKeeps, HashArtifactKeeps,
     WriteManifestKeeps, ReadManifestKeeps, CheckArtifactsKeeps, CheckContentsKeeps
     DEF PipelineActs

(* The crew and the directory are what the invariant is about. *)
LEMMA BundleInvFrame ==
    ASSUME BundleInv, UNCHANGED <<crew, dir>>
    PROVE  BundleInv'
BY DEF BundleInv, CrewOK, DirOK, OneWriter, RemoverAlone, WriterShows, DirShowsOne, SoundShowsOne,
       OneRecordVouched, HashesShowOne, FileSet

(* Every step of the lab keeps it. *)
LEMMA BundleInvStep ==
    ASSUME BundleInv, AtMostOneForced, [LabNext]_labVars
    PROVE  BundleInv'
<1>1. CASE UNCHANGED <<crew, dir>>
  BY <1>1, BundleInvFrame
<1>2. CASE BundleJob
  <2>1. CASE \E execute, confirm \in BOOLEAN : StartUsb(execute, confirm)
    BY <1>1, <2>1 DEF StartUsb
  <2>2. CASE \E p \in Pipelines, force \in BOOLEAN, manual \in {"pass", "open"} :
               StartPipeline(p, force, manual)
    BY <2>2, StartPipelineKeeps
  <2>3. CASE UsbActs
    BY <1>1, <2>3 DEF UsbActs, OpenReverse, VerifyReverse, InstallApk, EndUsb
  <2>4. CASE \E p \in Pipelines : PipelineActs(p) \/ PipelineDies(p)
    BY <2>4, PipelineKeeps
  <2> QED
    BY <1>2, <2>1, <2>2, <2>3, <2>4 DEF BundleJob, BundleNext
<1> QED
  BY <1>1, <1>2 DEF LabNext, labVars, SmokeJob, BenchJob, bundleVars

(* A bundle that is complete shows its record. *)
LEMMA FullBundleShows ==
    ASSUME NEW rec
    PROVE  Shows(FullBundle(rec), rec)
BY ArtifactNames DEF Shows, FullBundle

(* The lab begins with no pipeline, and with a directory that shows one    *)
(* record if any.                                                          *)
LEMMA BundleInvInit ==
    ASSUME LabInit
    PROVE  BundleInv
<1>1. crew = [p \in Pipelines |-> CrewIdle]
  BY DEF LabInit, BundleInit
<1>2. \A p \in Pipelines : crew[p] = CrewIdle /\ crew[p].pc = "idle"
  BY <1>1 DEF CrewIdle
<1>3. CrewOK
  BY <1>1, <1>2 DEF CrewOK
<1>4. OneWriter /\ RemoverAlone /\ WriterShows /\ SoundShowsOne /\ OneRecordVouched
  BY <1>2 DEF OneWriter, RemoverAlone, WriterShows, SoundShowsOne, OneRecordVouched, Filling, Reading, Removing
<1>5. ASSUME NEW ex \in BOOLEAN, dir = [exists |-> ex, files |-> <<>>]
      PROVE  DirOK /\ DirShowsOne
  <2>1. DOMAIN dir = {"exists", "files"} /\ dir.exists = ex /\ dir.files = <<>> /\ FileSet = {}
    BY <1>5 DEF FileSet
  <2>2. PICK rec : rec = [ready |-> FALSE, usb |-> FALSE, prereq |-> FALSE, apk |-> FALSE, manual |-> "open"]
    OBVIOUS
  <2>3. Plausible(rec) /\ Shows(dir.files, rec)
    BY <2>1, <2>2 DEF Plausible, Records, Shows, FileSet
  <2> QED
    BY <2>1, <2>3 DEF DirOK, DirShowsOne, Plausible
<1>6. ASSUME NEW manual \in {"pass", "open"},
             dir = [exists |-> TRUE, files |-> FullBundle(EarlierRecord(manual))]
      PROVE  DirOK /\ DirShowsOne
  <2>1. DOMAIN dir = {"exists", "files"} /\ dir.exists = TRUE /\ dir.files = FullBundle(EarlierRecord(manual))
    BY <1>6
  <2>2. PICK c : c = [read |-> Facts, plan |-> Facts, apk |-> TRUE, manual |-> manual]
    OBVIOUS
  <2>3. EarlierRecord(manual) = Record(c) /\ c.read = Facts /\ c.plan = Facts /\ c.apk = TRUE /\ c.manual = manual
    BY <2>2 DEF EarlierRecord
  <2>4. PICK rec : rec = EarlierRecord(manual)
    OBVIOUS
  <2>5. rec \in Records /\ rec.prereq
    <3>1. ~UsbBlocked(c.read)
      BY <2>3 DEF UsbBlocked
    <3>2. rec.prereq = ~UsbBlocked(c.read)
      BY <2>3, <2>4 DEF Record
    <3>3. c.apk \in BOOLEAN /\ c.manual \in {"pass", "open"}
      BY <2>3
    <3>4. Record(c) \in Records
      BY <3>3 DEF Record, Records, Readiness, UsbBlocked
    <3> QED
      BY <2>3, <2>4, <3>1, <3>2, <3>4
  <2>6. Shows(dir.files, rec)
    BY <2>1, <2>4, FullBundleShows
  <2> QED
    BY <2>1, <2>5, <2>6 DEF DirOK, DirShowsOne, Plausible
<1>7. DirOK /\ DirShowsOne
  BY <1>5, <1>6 DEF LabInit, BundleInit, NoDir
<1> QED
  BY <1>3, <1>4, <1>7 DEF BundleInv

-----------------------------------------------------------------------------
(* One pipeline with --force, among any others.                            *)

ArtifactsKept ==
    \A f \in ArtifactSet \cap FileSet : f \in DOMAIN (dir'.files) /\ dir'.files[f] = dir.files[f]

(* What the others see of a step of p: as long as nothing is settled, one  *)
(* that works in the directory loses files at most; once it is, a marked   *)
(* directory stays as it is.                                               *)
Discreet(p) ==
    /\ OnlyMoves(p)
    /\ Settled => Settled'
    /\ ~Settled' => \A x \in Pipelines : x # p /\ crew[x].pc \in Working =>
          crew'[p].pc \notin Working /\ Shrinks
    /\ Settled /\ "marker" \in FileSet => "marker" \in DOMAIN (dir'.files) /\ ArtifactsKept

(* A discreet step of p keeps what the invariant says of the others. *)
LEMMA OthersKeep ==
    ASSUME PairInv, NEW p \in Pipelines, NEW x \in Pipelines, x # p, Discreet(p)
    PROVE  LoneWorker(x)' /\ OwnFiles(x)' /\ VerdictBound(x)' /\ VouchedPasses(x)'
<1>1. crew'[x] = crew[x]
  BY DEF Discreet, OnlyMoves
<1>2. HashedPasses(x)' = HashedPasses(x) /\ Passes(x)' = Passes(x)
  BY <1>1 DEF HashedPasses, Passes
<1>3. VouchedPasses(x)'
  BY <1>1, <1>2 DEF PairInv, VouchedPasses
<1>4. LoneWorker(x) /\ OwnFiles(x) /\ VerdictBound(x)
  BY DEF PairInv
<1>5. ASSUME ~Settled', crew[x].pc \in Working
      PROVE  ~Settled /\ crew'[p].pc \notin Working /\ Shrinks
  BY <1>5 DEF Discreet
<1>6. LoneWorker(x)'
  <2>1. SUFFICES ASSUME ~Settled', crew[x].pc \in Working
                 PROVE  dir'.exists /\ \A q \in Pipelines : crew'[q].pc \in Working => q = x
    BY <1>1 DEF LoneWorker
  <2>2. dir.exists /\ \A q \in Pipelines : crew[q].pc \in Working => q = x
    BY <1>4, <1>5, <2>1 DEF LoneWorker
  <2> QED
    BY <1>5, <2>1, <2>2 DEF Discreet, OnlyMoves, Shrinks
<1>7. OwnFiles(x)'
  <2>1. SUFFICES ASSUME ~Settled', crew[x].pc \in Working
                 PROVE  /\ crew[x].pc \in Late => Shows(dir'.files, Record(crew[x]))
                        /\ crew[x].pc \in Filling => "manifest" \notin DOMAIN (dir'.files)
                        /\ crew[x].pc \in Late /\ "manifest" \in DOMAIN (dir'.files) =>
                             dir'.files["manifest"].ok = Passes(x)
                        /\ crew[x].pc \in {"artifacts", "contents"} => crew[x].manifest.ok = Passes(x)
    BY <1>1, <1>2 DEF OwnFiles, Working, FileSet, Late
  <2>2. ~Settled /\ Shrinks
    BY <1>5, <2>1
  <2> QED
    BY <1>4, <2>2 DEF OwnFiles, Shrinks, Shows, FileSet
<1>8. VerdictBound(x)'
  <2>1. ASSUME Settled, "marker" \in FileSet, StillMatches(x)
        PROVE  Settled' /\ "marker" \in FileSet' /\ StillMatches(x)'
    BY <1>1, <2>1 DEF Discreet, StillMatches, ArtifactsKept, FileSet
  <2> QED
    BY <1>1, <1>2, <1>4, <2>1 DEF VerdictBound
<1> QED
  BY <1>3, <1>6, <1>7, <1>8

(* So it remains to look at p. *)
LEMMA PairStep ==
    ASSUME PairInv, NEW p \in Pipelines, Discreet(p),
           LoneWorker(p)', OwnFiles(p)', VerdictBound(p)', VouchedPasses(p)'
    PROVE  PairInv'
BY OthersKeep DEF PairInv

(* What is settled stays so. *)
LEMMA SettledStays ==
    ASSUME NEW p \in Pipelines, OnlyMoves(p), Settled,
           crew[p].force => crew'[p].force,
           crew[p].pc \notin {"idle", "inspect", "check"} \cup Removing =>
               crew'[p].pc \notin {"idle", "inspect", "check"} \cup Removing
    PROVE  Settled'
<1>1. PICK q \in Pipelines : crew[q].pc \notin {"idle", "inspect", "check"} \cup Removing /\ crew[q].force
  BY DEF Settled
<1>2. crew'[q].pc \notin {"idle", "inspect", "check"} \cup Removing /\ crew'[q].force
  BY <1>1 DEF OnlyMoves
<1> QED
  BY <1>2 DEF Settled

(* A pipeline that is early, or done without a verdict of 0, claims        *)
(* nothing.                                                                *)
LEMMA NothingClaimed ==
    ASSUME NEW p \in Pipelines, crew'[p].pc \in Early \cup {"done"},
           crew'[p].pc = "done" => crew'[p].exit # 0
    PROVE  /\ LoneWorker(p)' /\ OwnFiles(p)' /\ VerdictBound(p)' /\ VouchedPasses(p)'
           /\ crew'[p].pc \notin Working
BY DEF LoneWorker, OwnFiles, VerdictBound, VouchedPasses, Early, Removing, Late, Filling, Reading, Working

(* A step that touches no file. *)
LEMMA SameFiles ==
    ASSUME dir' = dir
    PROVE  Shrinks /\ ArtifactsKept /\ ("marker" \in FileSet => "marker" \in DOMAIN (dir'.files))
BY DEF Shrinks, ArtifactsKept, FileSet

(* Ending without a verdict of 0. *)
LEMMA EndsPair ==
    ASSUME BundleInv, PairInv, NEW p \in Pipelines, NEW verdict \in {1, 2}, Ends(p, verdict), dir' = dir
    PROVE  PairInv'
<1>1. OnlyMoves(p) /\ crew'[p].pc = "done" /\ crew'[p].exit # 0 /\ crew'[p].force = crew[p].force
  BY EndsLeaves DEF BundleInv, OnlyMoves
<1>2. Settled => Settled'
  BY <1>1, SettledStays DEF Removing
<1>3. Discreet(p)
  BY <1>1, <1>2, NothingClaimed, SameFiles DEF Discreet
<1> QED
  BY <1>1, <1>3, NothingClaimed, PairStep

(* Coming early. *)
LEMMA EarlyPair ==
    ASSUME PairInv, NEW p \in Pipelines, OnlyMoves(p), crew[p].pc \in Early \ {"mkdir"},
           crew'[p].pc \in Early,
           dir' = dir \/ (Shrinks /\ ~Settled) \/ (Settled' /\ ~Settled)
    PROVE  PairInv'
<1>1. Settled => Settled'
  <2>1. SUFFICES ASSUME Settled PROVE Settled'
    OBVIOUS
  <2>2. PICK q \in Pipelines : crew[q].pc \notin {"idle", "inspect", "check"} \cup Removing /\ crew[q].force
    BY <2>1 DEF Settled
  <2>3. q # p
    BY <2>2 DEF Early
  <2>4. crew'[q] = crew[q]
    BY <2>3 DEF OnlyMoves
  <2> QED
    BY <2>2, <2>4 DEF Settled
<1>2. crew'[p].pc # "done"
  BY DEF Early, Removing
<1>3. /\ LoneWorker(p)' /\ OwnFiles(p)' /\ VerdictBound(p)' /\ VouchedPasses(p)'
      /\ crew'[p].pc \notin Working
  BY <1>2, NothingClaimed
<1>4. Discreet(p)
  BY <1>1, <1>3, SameFiles DEF Discreet
<1> QED
  BY <1>3, <1>4, PairStep

(* The steps before the directory is made. *)
LEMMA StartPipelinePair ==
    ASSUME BundleInv, PairInv, NEW p \in Pipelines, NEW force, NEW manual, StartPipeline(p, force, manual)
    PROVE  PairInv'
<1>1. PICK c : c = [pc |-> "inspect", force |-> force, manual |-> manual, doomed |-> {}, read |-> {},
                    plan |-> {}, apk |-> FALSE, i |-> 1, hashes |-> <<>>, sound |-> TRUE,
                    manifest |-> NoManifest]
  OBVIOUS
<1>2. crew' = [crew EXCEPT ![p] = c] /\ dir' = dir /\ crew[p].pc = "idle" /\ c.pc = "inspect"
  BY <1>1 DEF StartPipeline, PipeAt
<1>3. OnlyMoves(p) /\ crew'[p].pc = "inspect"
  BY <1>2 DEF BundleInv, CrewOK, OnlyMoves
<1> QED
  BY <1>2, <1>3, EarlyPair DEF Early

(* A directory that exists, its marker and its listing. *)
LEMMA LookingPair ==
    ASSUME BundleInv, PairInv, NEW p \in Pipelines, InspectDir(p) \/ EnsureForceSafe(p) \/ ListDir(p)
    PROVE  PairInv'
<1>1. crew[p].pc \in {"inspect", "check", "list"} /\ dir' = dir
  BY DEF InspectDir, EnsureForceSafe, ListDir, PipeAt
<1>2. CASE \E verdict \in {1, 2} : Ends(p, verdict)
  BY <1>1, <1>2, EndsPair
<1>3. CASE \E pc \in {"mkdir", "check", "list"} : Go(p, pc)
  <2>1. PICK pc \in {"mkdir", "check", "list"} : Go(p, pc)
    BY <1>3
  <2>2. OnlyMoves(p) /\ crew'[p].pc \in Early
    BY <1>1, <2>1, GoMoves DEF BundleInv, Moves, Early, Removing
  <2> QED
    BY <1>1, <2>2, EarlyPair DEF Early, Removing
<1>4. CASE ListDir(p)
  <2>1. crew[p].pc = "list" /\ dir.exists
    BY <1>4, RemoverKnows DEF ListDir, PipeAt, Removing
  <2>2. OnlyMoves(p) /\ crew'[p].pc = "unlink"
    BY <1>4, <2>1, ListDirMoves DEF ListDir, BundleInv, Moves
  <2> QED
    BY <1>1, <2>2, EarlyPair DEF Early, Removing
<1> QED
  BY <1>2, <1>3, <1>4 DEF InspectDir, EnsureForceSafe

(* As long as one removes, nothing is settled: nobody else was started     *)
(* with --force.                                                           *)
LEMMA RemoverUnsettled ==
    ASSUME BundleInv, AtMostOneForced, NEW p \in Pipelines, crew[p].pc \in Removing
    PROVE  ~Settled
<1>1. SUFFICES ASSUME NEW q \in Pipelines, crew[q].force,
                      crew[q].pc \notin {"idle", "inspect", "check"} \cup Removing
               PROVE  FALSE
  BY DEF Settled
<1>2. crew[p].force
  BY RemoverKnows
<1>3. p \in Forced /\ q \in Forced
  BY <1>1, <1>2 DEF Forced, Removing
<1>4. p = q
  BY <1>3 DEF AtMostOneForced
<1> QED
  BY <1>1, <1>4

(* The files are removed, *)
LEMMA UnlinkFilePair ==
    ASSUME BundleInv, AtMostOneForced, PairInv, NEW p \in Pipelines, UnlinkFile(p)
    PROVE  PairInv'
<1>1. crew[p].pc = "unlink"
  BY DEF UnlinkFile, PipeAt
<1>2. ~Settled
  BY <1>1, RemoverUnsettled DEF Removing
<1>3. CASE Ends(p, 1) /\ dir' = dir
  BY <1>3, EndsPair
<1>4. CASE Go(p, "rmdir") /\ dir' = dir
  <2>1. OnlyMoves(p) /\ crew'[p].pc = "rmdir"
    BY <1>1, <1>4, GoMoves DEF BundleInv, Moves, Early, Removing
  <2> QED
    BY <1>1, <1>4, <2>1, EarlyPair DEF Early, Removing
<1>5. ASSUME NEW f, dir' = [dir EXCEPT !.files = [g \in FileSet \ {f} |-> dir.files[g]]],
             crew' = [crew EXCEPT ![p].doomed = @ \ {f}]
      PROVE  PairInv'
  <2>1. OnlyMoves(p) /\ crew'[p].pc = "unlink"
    BY <1>1, <1>5, UnlinkMoves DEF BundleInv, Moves
  <2>2. Shrinks
    BY <1>5, DropFile DEF BundleInv
  <2> QED
    BY <1>1, <1>2, <2>1, <2>2, EarlyPair DEF Early, Removing
<1> QED
  BY <1>3, <1>4, <1>5 DEF UnlinkFile

(* and the directory with them: that settles it. *)
LEMMA RemoveDirPair ==
    ASSUME BundleInv, AtMostOneForced, PairInv, NEW p \in Pipelines, RemoveDir(p)
    PROVE  PairInv'
<1>1. crew[p].pc = "rmdir"
  BY DEF RemoveDir, PipeAt
<1>2. ~Settled /\ crew[p].force
  BY <1>1, RemoverUnsettled, RemoverKnows DEF Removing
<1>3. CASE Ends(p, 1) /\ dir' = dir
  BY <1>3, EndsPair
<1>4. CASE Go(p, "mkdir")
  <2>1. Moves(p) /\ crew'[p].pc = "mkdir"
    BY <1>1, <1>4, GoMoves DEF BundleInv, Early
  <2>2. OnlyMoves(p) /\ crew'[p].force
    BY <1>2, <2>1 DEF Moves
  <2>3. Settled'
    BY <2>1, <2>2 DEF Settled, Removing
  <2> QED
    BY <1>1, <1>2, <2>1, <2>2, <2>3, EarlyPair DEF Early, Removing
<1> QED
  BY <1>3, <1>4 DEF RemoveDir

(* A step of one that works in the directory, or begins to: until all is   *)
(* settled the others are not there, and later it keeps a marked one.      *)
LEMMA WorkerDiscreet ==
    ASSUME PairInv, NEW p \in Pipelines, Moves(p), crew[p].pc \in Working \cup {"mkdir"},
           crew'[p].pc \in Working \cup {"done"},
           crew[p].pc = "mkdir" => ~dir.exists,
           Settled /\ "marker" \in FileSet => "marker" \in DOMAIN (dir'.files) /\ ArtifactsKept
    PROVE  Discreet(p)
<1>1. Settled => Settled'
  BY SettledStays DEF Moves, Working, Filling, Reading, Late, Removing
<1>2. ASSUME ~Settled, NEW x \in Pipelines, x # p, crew[x].pc \in Working
      PROVE  FALSE
  <2>1. dir.exists /\ \A q \in Pipelines : crew[q].pc \in Working => q = x
    BY <1>2 DEF PairInv, LoneWorker
  <2> QED
    BY <1>2, <2>1
<1> QED
  BY <1>1, <1>2 DEF Discreet, Moves

(* The worker is alone as long as nothing is settled. *)
LEMMA WorkerAlone ==
    ASSUME PairInv, NEW p \in Pipelines, Moves(p), Discreet(p), crew[p].pc \in Working \cup {"mkdir"},
           crew[p].pc = "mkdir" => ~dir.exists,
           dir'.exists
    PROVE  LoneWorker(p)'
<1>1. SUFFICES ASSUME ~Settled' PROVE \A q \in Pipelines : crew'[q].pc \in Working => q = p
  BY DEF LoneWorker
<1>2. ~Settled
  BY <1>1 DEF Discreet
<1>3. \A q \in Pipelines : crew[q].pc \in Working => q = p
  BY <1>2 DEF PairInv, LoneWorker
<1> QED
  BY <1>3 DEF Moves, OnlyMoves

(* Filling the directory: the only claim is that there is no manifest. *)
LEMMA FillingPair ==
    ASSUME PairInv, NEW p \in Pipelines, Moves(p), crew[p].pc \in Filling \cup {"mkdir"},
           crew'[p].pc \in Filling, dir'.exists,
           crew[p].pc = "mkdir" => ~dir.exists, "marker" \notin FileSet,
           ~Settled => "manifest" \notin DOMAIN (dir'.files)
    PROVE  PairInv'
<1>1. Discreet(p)
  BY WorkerDiscreet DEF Working
<1>2. LoneWorker(p)'
  BY <1>1, WorkerAlone DEF Working
<1>3. OwnFiles(p)' /\ VerdictBound(p)' /\ VouchedPasses(p)'
  BY <1>1 DEF Discreet, OwnFiles, VerdictBound, VouchedPasses, Filling, Reading, Late, FileSet
<1> QED
  BY <1>1, <1>2, <1>3, PairStep

(* The directory is made. *)
LEMMA MakeDirPair ==
    ASSUME BundleInv, PairInv, NEW p \in Pipelines, MakeDir(p)
    PROVE  PairInv'
<1>1. crew[p].pc = "mkdir"
  BY DEF MakeDir, PipeAt
<1>2. CASE Ends(p, 1) /\ dir' = dir
  BY <1>2, EndsPair
<1>3. CASE ~dir.exists /\ Go(p, "readDevice") /\ dir' = [exists |-> TRUE, files |-> <<>>]
  <2>1. Moves(p) /\ crew'[p].pc = "readDevice"
    BY <1>1, <1>3, GoMoves DEF BundleInv, Filling, Reading
  <2>2. DOMAIN (dir'.files) = {} /\ dir'.exists
    BY <1>3
  <2>3. "marker" \notin FileSet
    BY <1>3 DEF BundleInv, DirOK
  <2> QED
    BY <1>1, <1>3, <2>1, <2>2, <2>3, FillingPair DEF Filling, Reading
<1> QED
  BY <1>2, <1>3 DEF MakeDir

(* What the one that fills may rely on. *)
LEMMA FillerKnows ==
    ASSUME BundleInv, PairInv, NEW p \in Pipelines, crew[p].pc \in Filling
    PROVE  dir.exists /\ "marker" \notin FileSet /\ (~Settled => "manifest" \notin FileSet)
BY DEF BundleInv, OneWriter, PairInv, OwnFiles

(* The bench is read. *)
LEMMA ReadBenchPair ==
    ASSUME BundleInv, PairInv, NEW p \in Pipelines, ReadBench(p)
    PROVE  PairInv'
<1>1. crew[p].pc \in Reading /\ dir' = dir
  BY DEF ReadBench, PipeAt, Reading
<1>2. DOMAIN crew[p] = WorkFields /\ DOMAIN crew = Pipelines
  BY <1>1, AtWork DEF BundleInv, CrewOK, Reading
<1>3. Moves(p)
  BY WorkMoves DEF BundleInv
<1>4. crew'[p].pc \in {"readHub", "planDevice", "write"}
  BY <1>2 DEF ReadBench, WorkFields
<1> QED
  BY <1>1, <1>3, <1>4, FillerKnows, FillingPair DEF Filling, Reading, FileSet

(* The artifacts and the marker are written. *)
LEMMA WriteArtifactPair ==
    ASSUME BundleInv, PairInv, NEW p \in Pipelines, WriteArtifact(p)
    PROVE  PairInv'
<1>1. crew[p].pc = "write" /\ Moves(p)
  BY WorkMoves DEF WriteArtifact, PipeAt, BundleInv
<1>2. /\ DOMAIN crew[p] = WorkFields /\ DOMAIN crew = Pipelines
      /\ crew[p].i \in Nat \ {0}
  BY <1>1, AtWork DEF BundleInv, CrewOK
<1>3. dir.exists /\ "marker" \notin FileSet /\ (~Settled => "manifest" \notin FileSet)
  BY <1>1, FillerKnows DEF Filling
<1>4. ASSUME NEW a \in ArtifactSet, NEW content, dir' = Put(a, content),
             crew' = [crew EXCEPT ![p].i = @ + 1]
      PROVE  PairInv'
  <2>1. crew'[p].pc = "write"
    BY <1>1, <1>2, <1>4 DEF WorkFields
  <2>2. DOMAIN (dir'.files) = FileSet \cup {a} /\ dir'.exists
    BY <1>3, <1>4, PutFile DEF BundleInv
  <2>3. a # "manifest"
    BY <1>4, ArtifactNames
  <2> QED
    BY <1>1, <1>3, <2>1, <2>2, <2>3, FillingPair DEF Filling
<1>5. CASE dir' = Put("marker", None) /\ crew' = [crew EXCEPT ![p].i = 1, ![p].pc = "hash"]
  <2>1. crew'[p].pc = "hash" /\ crew'[p].apk = crew[p].apk
        /\ crew'[p].manual = crew[p].manual /\ crew'[p].read = crew[p].read /\ crew'[p].plan = crew[p].plan
    BY <1>2, <1>5 DEF WorkFields
  <2>2. /\ DOMAIN (dir'.files) = FileSet \cup {"marker"} /\ dir'.exists
        /\ \A f \in FileSet : f # "marker" => dir'.files[f] = dir.files[f]
    BY <1>3, <1>5, PutFile DEF BundleInv
  <2>3. Discreet(p)
    BY <1>1, <1>3, <2>1, WorkerDiscreet DEF Working, Filling, Late
  <2>4. Record(crew'[p]) = Record(crew[p])
    BY <2>1, SameRecord
  <2>5. Shows(dir.files, Record(crew[p]))
    BY <1>1 DEF BundleInv, WriterShows
  <2>6. Shows(dir'.files, Record(crew'[p]))
    BY <2>2, <2>4, <2>5, ArtifactNames DEF Shows, FileSet
  <2>7. LoneWorker(p)'
    BY <1>1, <2>2, <2>3, WorkerAlone DEF Working, Filling
  <2>8. OwnFiles(p)' /\ VerdictBound(p)' /\ VouchedPasses(p)'
    BY <1>3, <2>1, <2>2, <2>3, <2>6
       DEF Discreet, OwnFiles, VerdictBound, VouchedPasses, Filling, Reading, FileSet
  <2> QED
    BY <2>3, <2>7, <2>8, PairStep
<1>6. CASE crew[p].i <= Len(Artifacts)
  <2>1. Artifacts[crew[p].i] \in ArtifactSet
    BY <1>2, <1>6, ArtifactNames
  <2> QED
    BY <1>1, <1>2, <1>3, <1>4, <1>6, <2>1, ArtifactNames DEF WriteArtifact
<1> QED
  BY <1>1, <1>2, <1>3, <1>5, <1>6, ArtifactNames DEF WriteArtifact

(* Late, with the record as it was: files and manifest stay one's own, and *)
(* nothing is claimed of the contents yet.                                 *)
LEMMA LatePair ==
    ASSUME PairInv, NEW p \in Pipelines, Moves(p), ArtifactsKept,
           "marker" \in FileSet => "marker" \in DOMAIN (dir'.files), dir'.exists = dir.exists,
           crew[p].pc \in Late, crew'[p].pc \in Late \ {"contents"},
           ~Settled =>
               /\ Shows(dir'.files, Record(crew'[p]))
               /\ "manifest" \in DOMAIN (dir'.files) =>
                    dir'.files["manifest"].ok = PhysicalSmokePassed(Record(crew'[p]))
               /\ crew'[p].pc = "artifacts" => crew'[p].manifest.ok = PhysicalSmokePassed(Record(crew'[p]))
    PROVE  PairInv'
<1>1. Discreet(p)
  BY WorkerDiscreet DEF Working, Late
<1>2. LoneWorker(p)'
  <2>1. CASE Settled'
    BY <2>1 DEF LoneWorker
  <2>2. CASE ~Settled'
    <3>1. dir.exists
      BY <1>1, <2>2 DEF Discreet, PairInv, LoneWorker, Working
    <3> QED
      BY <1>1, <3>1, WorkerAlone DEF Working, Late
  <2> QED
    BY <2>1, <2>2
<1>3. OwnFiles(p)'
  BY <1>1 DEF Discreet, OwnFiles, Passes, Filling, Reading, Late, FileSet
<1>4. VerdictBound(p)' /\ VouchedPasses(p)'
  BY DEF VerdictBound, VouchedPasses, Late
<1> QED
  BY <1>1, <1>2, <1>3, <1>4, PairStep

(* What OwnFiles says of a late pipeline. *)
LEMMA LateOwns ==
    ASSUME PairInv, NEW p \in Pipelines, crew[p].pc \in Late, ~Settled
    PROVE  /\ Shows(dir.files, Record(crew[p]))
           /\ "manifest" \in FileSet => dir.files["manifest"].ok = PhysicalSmokePassed(Record(crew[p]))
           /\ crew[p].pc = "artifacts" => crew[p].manifest.ok = PhysicalSmokePassed(Record(crew[p]))
BY DEF PairInv, OwnFiles, Passes

(* Hashing. *)
LEMMA HashArtifactPair ==
    ASSUME BundleInv, PairInv, NEW p \in Pipelines, HashArtifact(p)
    PROVE  PairInv'
<1>1. crew[p].pc = "hash" /\ dir' = dir /\ crew[p].pc \in Late
  BY DEF HashArtifact, PipeAt, Late
<1>2. DOMAIN crew[p] = WorkFields /\ DOMAIN crew = Pipelines
  BY <1>1, AtWork DEF BundleInv, CrewOK
<1>3. ArtifactsKept /\ ("marker" \in FileSet => "marker" \in DOMAIN (dir'.files)) /\ dir'.exists = dir.exists
  BY <1>1, SameFiles DEF Shrinks
<1>4. CASE Ends(p, 1)
  BY <1>1, <1>4, EndsPair
<1>5. ASSUME NEW pc \in {"hash", "manifest"},
             crew'[p].pc = pc, crew'[p].read = crew[p].read, crew'[p].plan = crew[p].plan,
             crew'[p].apk = crew[p].apk, crew'[p].manual = crew[p].manual
      PROVE  PairInv'
  <2>1. Record(crew'[p]) = Record(crew[p])
    BY <1>5, SameRecord
  <2>2. crew'[p].pc \in Late \ {"contents"} /\ crew'[p].pc # "artifacts"
    BY <1>5 DEF Late
  <2>3. Moves(p)
    BY WorkMoves DEF BundleInv
  <2> QED
    BY <1>1, <1>3, <2>1, <2>2, <2>3, LateOwns, LatePair DEF FileSet
<1>6. CASE Go(p, "manifest")
  BY <1>1, <1>5, <1>6, GoKeeps DEF BundleInv, WorkFields
<1>7. ASSUME NEW h, crew' = [crew EXCEPT ![p].hashes = h, ![p].i = @ + 1]
      PROVE  PairInv'
  <2>1. crew'[p].pc = "hash" /\ crew'[p].read = crew[p].read /\ crew'[p].plan = crew[p].plan
        /\ crew'[p].apk = crew[p].apk /\ crew'[p].manual = crew[p].manual
    BY <1>1, <1>2, <1>7 DEF WorkFields
  <2> QED
    BY <1>5, <2>1
<1>8. CASE crew' = [crew EXCEPT ![p].hashes = With(@, Artifacts[crew[p].i], dir.files[Artifacts[crew[p].i]]),
                                ![p].i = @ + 1]
  BY <1>7, <1>8
<1> QED
  BY <1>4, <1>6, <1>8 DEF HashArtifact

(* The manifest. *)
LEMMA WriteManifestPair ==
    ASSUME BundleInv, PairInv, NEW p \in Pipelines, WriteManifest(p)
    PROVE  PairInv'
<1>1. crew[p].pc = "manifest" /\ crew[p].pc \in Late
  BY DEF WriteManifest, PipeAt, Late
<1>2. CASE Ends(p, 1) /\ dir' = dir
  BY <1>2, EndsPair
<1>3. ASSUME NEW m, m.ok = PhysicalSmokePassed(Record(crew[p])), Go(p, "verify"), dir' = Put("manifest", m)
      PROVE  PairInv'
  <2>1. Moves(p) /\ crew'[p].pc = "verify" /\ crew'[p].read = crew[p].read
        /\ crew'[p].plan = crew[p].plan /\ crew'[p].apk = crew[p].apk /\ crew'[p].manual = crew[p].manual
    BY <1>1, <1>3, GoKeeps, GoMoves DEF BundleInv, WorkFields, Late
  <2>2. Record(crew'[p]) = Record(crew[p])
    BY <2>1, SameRecord
  <2>3. /\ DOMAIN (dir'.files) = FileSet \cup {"manifest"} /\ dir'.files["manifest"] = m
        /\ dir'.exists = dir.exists
        /\ \A f \in FileSet : f # "manifest" => dir'.files[f] = dir.files[f]
    BY <1>3, PutFile DEF BundleInv
  <2>4. ArtifactsKept
    BY <2>3, ArtifactNames DEF ArtifactsKept, FileSet
  <2>5. Shows(dir.files, Record(crew[p])) => Shows(dir'.files, Record(crew'[p]))
    BY <2>2, <2>3, ArtifactNames DEF Shows, FileSet
  <2>6. crew'[p].pc \in Late \ {"contents"} /\ crew'[p].pc # "artifacts"
    BY <2>1 DEF Late
  <2>7. dir'.files["manifest"].ok = PhysicalSmokePassed(Record(crew'[p]))
    BY <1>3, <2>2, <2>3
  <2> QED
    BY <1>1, <2>1, <2>3, <2>4, <2>5, <2>6, <2>7, LateOwns, LatePair
<1>4. CASE dir.exists /\ Go(p, "verify")
  <2>1. PICK m : m = [ok |-> PhysicalSmokePassed(Record(crew[p])), next |-> NextStepId(Record(crew[p])),
                      hashes |-> crew[p].hashes]
    OBVIOUS
  <2>2. m.ok = PhysicalSmokePassed(Record(crew[p]))
    BY <2>1
  <2>3. dir' = Put("manifest", m)
    BY <1>4, <2>1 DEF WriteManifest
  <2> QED
    BY <1>3, <1>4, <2>2, <2>3
<1> QED
  BY <1>2, <1>4 DEF WriteManifest

(* The manifest is read. *)
LEMMA ReadManifestPair ==
    ASSUME BundleInv, PairInv, NEW p \in Pipelines, ReadManifest(p)
    PROVE  PairInv'
<1>1. crew[p].pc = "verify" /\ dir' = dir /\ crew[p].pc \in Late
  BY DEF ReadManifest, PipeAt, Late
<1>2. DOMAIN crew[p] = WorkFields /\ DOMAIN crew = Pipelines
  BY <1>1, AtWork DEF BundleInv, CrewOK
<1>3. CASE "manifest" \notin FileSet
  BY <1>1, <1>3, EndsPair DEF ReadManifest
<1>4. CASE "manifest" \in FileSet
  <2>1. PICK m : m = dir.files["manifest"]
    OBVIOUS
  <2>2. crew' = [crew EXCEPT ![p].manifest = m, ![p].pc = "artifacts"]
    BY <1>4, <2>1 DEF ReadManifest
  <2>3. crew'[p].pc = "artifacts" /\ crew'[p].read = crew[p].read
        /\ crew'[p].plan = crew[p].plan /\ crew'[p].apk = crew[p].apk /\ crew'[p].manual = crew[p].manual
        /\ crew'[p].manifest = m
    BY <1>2, <2>2 DEF WorkFields
  <2>4. Record(crew'[p]) = Record(crew[p])
    BY <2>3, SameRecord
  <2>5. /\ ArtifactsKept /\ dir'.exists = dir.exists /\ Moves(p)
        /\ "marker" \in FileSet => "marker" \in DOMAIN (dir'.files)
    BY <1>1, SameFiles, WorkMoves DEF Shrinks, BundleInv
  <2>6. crew'[p].pc \in Late \ {"contents"}
    BY <2>3 DEF Late
  <2> QED
    BY <1>1, <1>4, <2>1, <2>3, <2>4, <2>5, <2>6, LateOwns, LatePair DEF FileSet
<1> QED
  BY <1>3, <1>4

(* The hashes match: the files are one's own, or nobody is left to replace *)
(* them.                                                                   *)
LEMMA CheckArtifactsPair ==
    ASSUME BundleInv, PairInv, NEW p \in Pipelines, CheckArtifacts(p)
    PROVE  PairInv'
<1>1. crew[p].pc = "artifacts" /\ dir' = dir /\ crew[p].pc \in Late
  BY DEF CheckArtifacts, PipeAt, Late
<1>2. DOMAIN crew[p] = WorkFields /\ DOMAIN crew = Pipelines
  BY <1>1, AtWork DEF BundleInv, CrewOK
<1>3. OnlyMoves(p) /\ crew'[p].pc = "contents" /\ crew'[p].read = crew[p].read
      /\ crew'[p].plan = crew[p].plan /\ crew'[p].apk = crew[p].apk /\ crew'[p].manual = crew[p].manual
      /\ crew'[p].manifest = crew[p].manifest
      /\ crew'[p].sound = ArtifactsMatch(crew[p].manifest)
  BY <1>2 DEF CheckArtifacts, OnlyMoves, WorkFields
<1>4. Record(crew'[p]) = Record(crew[p])
  BY <1>3, SameRecord
<1>5. Moves(p) /\ Discreet(p)
  BY <1>1, <1>3, SameFiles, WorkMoves, WorkerDiscreet DEF BundleInv, Working, Late
<1>6. LoneWorker(p)'
  <2>1. CASE Settled'
    BY <2>1 DEF LoneWorker
  <2>2. CASE ~Settled'
    <3>1. dir.exists
      BY <1>1, <1>5, <2>2 DEF Discreet, PairInv, LoneWorker, Working
    <3> QED
      BY <1>1, <1>5, <3>1, WorkerAlone DEF Working, Late
  <2> QED
    BY <2>1, <2>2
<1>7. OwnFiles(p)'
  BY <1>1, <1>3, <1>4, <1>5, LateOwns DEF Discreet, OwnFiles, Passes, Filling, Reading, FileSet
<1>8. VouchedPasses(p)'
  BY <1>3 DEF VouchedPasses
<1>9. ASSUME crew'[p].sound
      PROVE  (crew'[p].manifest.ok = HashedPasses(p)') \/ (Settled' /\ "marker" \in FileSet' /\ StillMatches(p)')
  <2>1. /\ \A f \in ArtifactSet : f \in FileSet /\ dir.files[f] = crew[p].manifest.hashes[f]
        /\ "marker" \in FileSet
    BY <1>3, <1>9 DEF ArtifactsMatch
  <2>2. CASE Settled
    <3>1. StillMatches(p)' /\ "marker" \in FileSet'
      BY <1>1, <1>3, <2>1 DEF StillMatches, FileSet
    <3> QED
      BY <1>5, <2>2, <3>1 DEF Discreet
  <2>3. CASE ~Settled
    <3>1. /\ Shows(dir.files, Record(crew[p]))
          /\ crew[p].manifest.ok = PhysicalSmokePassed(Record(crew[p]))
      BY <1>1, <2>3, LateOwns
    <3>2. crew[p].manifest.hashes["smoke.json"] = Record(crew[p])
      BY <2>1, <3>1, ArtifactNames DEF Shows, Content, FileSet
    <3> QED
      BY <1>3, <3>1, <3>2 DEF HashedPasses
  <2> QED
    BY <2>2, <2>3
<1>10. VerdictBound(p)'
  BY <1>9 DEF VerdictBound
<1> QED
  BY <1>5, <1>6, <1>7, <1>8, <1>10, PairStep

(* The verdict. *)
LEMMA CheckContentsPair ==
    ASSUME BundleInv, PairInv, NEW p \in Pipelines, CheckContents(p)
    PROVE  PairInv'
<1>1. crew[p].pc = "contents" /\ dir' = dir
  BY DEF CheckContents, PipeAt
<1>2. PICK verdict : /\ Ends(p, verdict)
                     /\ verdict = 0 => /\ crew[p].sound /\ ContentsAgree(crew[p].manifest)
                                       /\ crew[p].manifest.ok
  BY DEF CheckContents
<1>3. OnlyMoves(p) /\ crew'[p].pc = "done" /\ crew'[p].exit = verdict
      /\ crew'[p].manifest = crew[p].manifest
  BY <1>2, EndsLeaves DEF BundleInv, OnlyMoves
<1>4. Discreet(p)
  BY <1>1, <1>2, <1>3, SameFiles, EndsMoves, WorkerDiscreet DEF BundleInv, Working, Late
<1>5. LoneWorker(p)' /\ OwnFiles(p)' /\ VerdictBound(p)'
  BY <1>3 DEF LoneWorker, OwnFiles, VerdictBound, Filling, Reading, Late, Working
<1>6. ASSUME verdict = 0
      PROVE  HashedPasses(p)
  <2>1. (crew[p].manifest.ok = HashedPasses(p)) \/ StillMatches(p)
    BY <1>1, <1>2, <1>6 DEF PairInv, VerdictBound
  <2>2. PhysicalSmokePassed(dir.files["smoke.json"])
    BY <1>2, <1>6, ContentsSay
  <2>3. CASE StillMatches(p)
    <3>1. dir.files["smoke.json"] = crew[p].manifest.hashes["smoke.json"]
      BY <2>3, ArtifactNames DEF StillMatches
    <3> QED
      BY <2>2, <3>1 DEF HashedPasses
  <2>4. CASE crew[p].manifest.ok = HashedPasses(p)
    BY <1>2, <1>6, <2>4
  <2> QED
    BY <2>1, <2>3, <2>4
<1>7. VouchedPasses(p)'
  BY <1>3, <1>6 DEF VouchedPasses, HashedPasses
<1> QED
  BY <1>4, <1>5, <1>7, PairStep

(* Every step of the lab keeps the invariant of the forced pipeline. *)
LEMMA PairInvStep ==
    ASSUME BundleInv, AtMostOneForced, PairInv, [LabNext]_labVars
    PROVE  PairInv'
<1>1. CASE UNCHANGED <<crew, dir>>
  BY <1>1 DEF PairInv, LoneWorker, OwnFiles, VerdictBound, VouchedPasses, HashedPasses, StillMatches,
              Passes, Settled, FileSet
<1>2. CASE BundleJob
  <2>1. CASE \E execute, confirm \in BOOLEAN : StartUsb(execute, confirm)
    BY <1>1, <2>1 DEF StartUsb
  <2>2. CASE \E p \in Pipelines, force \in BOOLEAN, manual \in {"pass", "open"} :
               StartPipeline(p, force, manual)
    BY <2>2, StartPipelinePair
  <2>3. CASE UsbActs
    BY <1>1, <2>3 DEF UsbActs, OpenReverse, VerifyReverse, InstallApk, EndUsb
  <2>4. ASSUME NEW p \in Pipelines, PipelineActs(p) \/ PipelineDies(p)
        PROVE  PairInv'
    <3>1. CASE PipelineDies(p)
      BY <3>1, EndsPair DEF PipelineDies
    <3> QED
      BY <2>4, <3>1, LookingPair, UnlinkFilePair, RemoveDirPair, MakeDirPair, ReadBenchPair,
         WriteArtifactPair, HashArtifactPair, WriteManifestPair, ReadManifestPair, CheckArtifactsPair,
         CheckContentsPair
         DEF PipelineActs
  <2> QED
    BY <1>2, <2>1, <2>2, <2>3, <2>4 DEF BundleJob, BundleNext
<1> QED
  BY <1>1, <1>2 DEF LabNext, labVars, SmokeJob, BenchJob, bundleVars

(* Nothing is claimed of pipelines that have not started. *)
LEMMA PairInvInit ==
    ASSUME LabInit
    PROVE  PairInv
<1>1. \A p \in Pipelines : crew[p].pc = "idle"
  BY DEF LabInit, BundleInit, CrewIdle
<1> QED
  BY <1>1 DEF PairInv, LoneWorker, OwnFiles, VerdictBound, VouchedPasses, Filling, Reading, Late, Working

(* One that was started with --force stays so, and the crew well formed. *)
LEMMA CrewStep ==
    ASSUME CrewOK, [LabNext]_labVars
    PROVE  CrewOK' /\ (AtMostOneForced' => AtMostOneForced)
<1>1. ASSUME NEW p \in Pipelines, OnlyMoves(p), crew'[p].pc # "idle", crew[p].pc # "idle" => crew'[p].force = crew[p].force
      PROVE  AtMostOneForced' => AtMostOneForced
  <2>1. Forced \subseteq Forced'
    BY <1>1 DEF Forced, OnlyMoves
  <2> QED
    BY <2>1 DEF AtMostOneForced
<1>2. CASE UNCHANGED <<crew, dir>>
  BY <1>2 DEF CrewOK, AtMostOneForced, Forced
<1>3. CASE BundleJob
  <2>1. CASE \E execute, confirm \in BOOLEAN : StartUsb(execute, confirm)
    BY <1>2, <2>1 DEF StartUsb
  <2>2. ASSUME NEW p \in Pipelines, NEW force \in BOOLEAN, NEW manual \in {"pass", "open"},
               StartPipeline(p, force, manual)
        PROVE  CrewOK' /\ (AtMostOneForced' => AtMostOneForced)
    <3>1. PICK c : c = [pc |-> "inspect", force |-> force, manual |-> manual, doomed |-> {}, read |-> {},
                        plan |-> {}, apk |-> FALSE, i |-> 1, hashes |-> <<>>, sound |-> TRUE,
                        manifest |-> NoManifest]
      OBVIOUS
    <3>2. /\ DOMAIN c = WorkFields /\ c.pc = "inspect"
          /\ c.i \in Nat \ {0} /\ c.apk \in BOOLEAN /\ c.manual \in {"pass", "open"}
      BY <3>1 DEF WorkFields
    <3>3. crew' = [crew EXCEPT ![p] = c] /\ crew[p].pc = "idle"
      BY <2>2, <3>1 DEF StartPipeline, PipeAt
    <3>4. OnlyMoves(p) /\ crew'[p] = c
      BY <3>3 DEF CrewOK, OnlyMoves
    <3>5. MovesWell(p)
      BY <3>2, <3>4 DEF MovesWell, Early
    <3>6. CrewOK'
      BY <3>4, <3>5, CrewStays
    <3> QED
      BY <1>1, <3>2, <3>3, <3>4, <3>6
  <2>3. CASE UsbActs
    BY <1>2, <2>3 DEF UsbActs, OpenReverse, VerifyReverse, InstallApk, EndUsb
  <2>4. ASSUME NEW p \in Pipelines, PipelineActs(p) \/ PipelineDies(p)
        PROVE  CrewOK' /\ (AtMostOneForced' => AtMostOneForced)
    <3>1. Moves(p)
      BY <2>4, PipelineMoves
    <3> QED
      BY <1>1, <3>1, CrewStays DEF Moves
  <2> QED
    BY <1>3, <2>1, <2>2, <2>3, <2>4 DEF BundleJob, BundleNext
<1> QED
  BY <1>2, <1>3 DEF LabNext, labVars, SmokeJob, BenchJob, bundleVars

(* One record and a pass: the bundle is genuine. *)
LEMMA PairIsGenuine ==
    ASSUME LabBundleInv
    PROVE  BundleIsGenuine
<1>1. SUFFICES ASSUME AtMostOneForced, NEW p \in Pipelines, crew[p].pc = "done", crew[p].exit = 0
               PROVE  /\ \A f \in ArtifactSet : crew[p].manifest.hashes[f] =
                             Content(f, crew[p].manifest.hashes["smoke.json"])
                      /\ PhysicalSmokePassed(crew[p].manifest.hashes["smoke.json"])
                      /\ crew[p].manifest.next = None
  BY DEF BundleIsGenuine, PipeAt
<1>2. HashesShowOne(p) /\ crew[p].manifest.next = None
  BY <1>1 DEF LabBundleInv, BundleInv, OneRecordVouched
<1>3. PICK rec \in Records : \A f \in ArtifactSet : crew[p].manifest.hashes[f] = Content(f, rec)
  BY <1>2 DEF HashesShowOne
<1>4. crew[p].manifest.hashes["smoke.json"] = rec
  BY <1>3, ArtifactNames DEF Content
<1>5. PhysicalSmokePassed(crew[p].manifest.hashes["smoke.json"])
  BY <1>1 DEF LabBundleInv, PairInv, VouchedPasses, HashedPasses
<1> QED
  BY <1>2, <1>3, <1>4, <1>5

(* Any number of pipelines may work on the same directory, and one of them *)
(* may remove it and write it anew, file by file, between the others'      *)
(* writing, hashing and reading: a pipeline that exits with 0 vouches for  *)
(* the files of one record, and that record passed with no step left       *)
(* (collect_bundle, ensure_force_safe, verify_bundle).  With two that were *)
(* started with --force it need not be.                                    *)
THEOREM BundlesAreGenuine == LabSpec => []BundleIsGenuine
<1>1. LabInit => LabBundleInv
  BY BundleInvInit, PairInvInit DEF LabBundleInv, BundleInv
<1>2. LabBundleInv /\ [LabNext]_labVars => LabBundleInv'
  BY BundleInvStep, PairInvStep, CrewStep DEF LabBundleInv
<1>3. LabBundleInv => BundleIsGenuine
  BY PairIsGenuine
<1> QED
  BY <1>1, <1>2, <1>3, PTL DEF LabSpec

-----------------------------------------------------------------------------
(* The evaluation suite.                                                   *)

Slots == {"text", "lite"}
BenchFields == {"kind", "pc", "executed", "ok", "push", "evidence", "todo", "example", "artifacts"}

(* The steps of a suite. *)
SuiteSteps == {"copy", "build", "push", "next", "test", "pull", "quality", "report"}

(* A right answer of a model that was measured. *)
WasMeasured(json) == json.right => <<json.model, json.example>> \in measured

FilesOK ==
    /\ DOMAIN files = {"host", "staged", "private", "pushed", "result"}
    /\ DOMAIN files.result = Slots
    /\ \A s \in Slots : WasMeasured(files.result[s])

BenchOK ==
    bench # BenchIdle =>
        /\ DOMAIN bench = BenchFields
        /\ bench.ok \in BOOLEAN /\ bench.executed \in BOOLEAN
        /\ bench.kind = "suite" => bench.pc \in SuiteSteps /\ bench.push = TRUE
        /\ \A a \in bench.artifacts : WasMeasured(a.json)
        /\ bench.kind = "suite" /\ bench.executed /\ bench.pc = "report" /\ bench.ok => QualityOk

MeasuredInv == FilesOK /\ BenchOK

(* What was measured stays measured. *)
LEMMA StaysMeasured ==
    ASSUME NEW json, WasMeasured(json), measured \subseteq measured'
    PROVE  WasMeasured(json)'
BY DEF WasMeasured

(* A script that is not idle has all its fields. *)
LEMMA BenchRuns ==
    ASSUME BenchOK, NEW pc, pc # "idle", BenchAt(pc)
    PROVE  bench # BenchIdle /\ DOMAIN bench = BenchFields /\ bench.pc = pc
BY DEF BenchOK, BenchAt, BenchIdle

(* A step that keeps the artifacts and does not accept a suite. *)
BenchMoves ==
    /\ DOMAIN bench' = BenchFields
    /\ bench'.kind = bench.kind /\ bench'.push = bench.push /\ bench'.executed = bench.executed
    /\ bench'.artifacts = bench.artifacts
    /\ bench'.ok \in BOOLEAN
    /\ bench.kind = "suite" => bench'.pc \in SuiteSteps
    /\ bench.kind = "suite" /\ bench'.pc = "report" => ~bench'.ok

(* Such a step keeps the invariant. *)
LEMMA BenchMovesKeep ==
    ASSUME BenchOK, bench # BenchIdle, BenchMoves, measured \subseteq measured'
    PROVE  BenchOK'
<1>1. \A a \in bench'.artifacts : WasMeasured(a.json)'
  BY StaysMeasured DEF BenchOK, BenchMoves
<1> QED
  BY <1>1 DEF BenchOK, BenchMoves

(* The next step, or the report at the first FAIL. *)
LEMMA BenchStepMoves ==
    ASSUME BenchOK, bench # BenchIdle, NEW status, NEW next, BenchStep(status, next),
           bench.kind = "suite" => next \in SuiteSteps \ {"report"}
    PROVE  BenchMoves
<1>1. DOMAIN bench = BenchFields /\ bench.ok \in BOOLEAN
  BY DEF BenchOK
<1>2. CASE bench' = [bench EXCEPT !.pc = "report", !.ok = FALSE]
  BY <1>1, <1>2 DEF BenchMoves, BenchFields, SuiteSteps
<1>3. CASE bench' = [bench EXCEPT !.pc = next]
  BY <1>1, <1>3 DEF BenchMoves, BenchFields, SuiteSteps
<1> QED
  BY <1>2, <1>3 DEF BenchStep

(* Files of a step that writes no result. *)
LEMMA ResultsKept ==
    ASSUME FilesOK, DOMAIN files' = DOMAIN files, files'.result = files.result, measured' = measured
    PROVE  FilesOK'
BY DEF FilesOK, WasMeasured

(* A script starts, or reports at once. *)
LEMMA BeginsKeeps ==
    ASSUME MeasuredInv, NEW execute \in BOOLEAN, NEW ready \in BOOLEAN, NEW refused, NEW started,
           Begins(execute, ready, refused, started),
           DOMAIN refused = BenchFields, refused.ok \in BOOLEAN, refused.executed = FALSE,
           refused.pc = "report", refused.push = TRUE, refused.artifacts = {},
           DOMAIN started = BenchFields, started.artifacts = {},
           started.kind = "suite" => started.pc = "copy" /\ started.push = TRUE
    PROVE  MeasuredInv'
<1>1. UNCHANGED <<files, measured>>
  BY DEF Begins
<1>2. FilesOK'
  BY <1>1, ResultsKept DEF MeasuredInv
<1>3. CASE bench' = refused
  <2>1. BenchOK'
    BY <1>3 DEF BenchOK, SuiteSteps
  <2> QED
    BY <1>2, <2>1 DEF MeasuredInv
<1>4. CASE bench' = [started EXCEPT !.executed = TRUE, !.ok = TRUE]
  <2>1. DOMAIN bench' = BenchFields /\ bench'.artifacts = {} /\ bench'.ok = TRUE /\ bench'.executed = TRUE
        /\ bench'.kind = started.kind /\ bench'.pc = started.pc /\ bench'.push = started.push
    BY <1>4 DEF BenchFields
  <2>2. BenchOK'
    BY <2>1 DEF BenchOK, SuiteSteps
  <2> QED
    BY <1>2, <2>2 DEF MeasuredInv
<1> QED
  BY <1>3, <1>4 DEF Begins

(* What a report says. *)
LEMMA ReportFields ==
    ASSUME NEW kind, NEW ok \in BOOLEAN
    PROVE  LET r == Report(kind, ok) IN
           /\ DOMAIN r = BenchFields /\ r.ok = ok /\ r.executed = FALSE /\ r.pc = "report"
           /\ r.push = TRUE /\ r.artifacts = {} /\ r.kind = kind
BY DEF Report, BenchFields

(* The four scripts start. *)
LEMMA StartsKeep ==
    ASSUME MeasuredInv, NEW execute \in BOOLEAN, NEW a \in BOOLEAN, NEW b \in BOOLEAN,
           \/ StartLite(execute, a, b) \/ StartText(execute, a, b)
           \/ StartSuite(execute, a, b) \/ StartObserve(execute, a)
    PROVE  MeasuredInv'
<1>1. ASSUME NEW kind \in {"lite", "text", "observe"}, NEW started, NEW ready \in BOOLEAN,
             started.kind = kind, DOMAIN started = BenchFields, started.artifacts = {},
             Begins(execute, ready, Report(kind, ~execute), started)
      PROVE  MeasuredInv'
  <2>1. PICK r : r = Report(kind, ~execute)
    OBVIOUS
  <2>2. DOMAIN r = BenchFields /\ r.ok \in BOOLEAN /\ r.executed = FALSE /\ r.pc = "report"
        /\ r.push = TRUE /\ r.artifacts = {}
    BY <2>1, ReportFields
  <2>3. Begins(execute, ready, r, started)
    BY <1>1, <2>1
  <2> QED
    BY <1>1, <2>2, <2>3, BeginsKeeps
<1>2. TargetResolved \in BOOLEAN
  BY DEF TargetResolved
<1>3. CASE StartLite(execute, a, b)
  <2>1. PICK plan : plan = Report("lite", TRUE)
    OBVIOUS
  <2>2. DOMAIN plan = BenchFields /\ plan.artifacts = {} /\ plan.kind = "lite" /\ plan.push = TRUE
    BY <2>1, ReportFields
  <2>3. PICK started : started = [plan EXCEPT !.pc = "build", !.push = b]
    OBVIOUS
  <2>4. started.kind = "lite" /\ DOMAIN started = BenchFields /\ started.artifacts = {}
    BY <2>3, <2>1, <2>2 DEF BenchFields
  <2> QED
    BY <1>1, <1>2, <1>3, <2>1, <2>3, <2>4 DEF StartLite
<1>4. CASE StartText(execute, a, b)
  <2>1. PICK plan : plan = Report("text", TRUE)
    OBVIOUS
  <2>2. DOMAIN plan = BenchFields /\ plan.artifacts = {} /\ plan.kind = "text" /\ plan.push = TRUE
    BY <2>1, ReportFields
  <2>3. PICK started : started = [plan EXCEPT !.pc = "build", !.push = b]
    OBVIOUS
  <2>4. started.kind = "text" /\ DOMAIN started = BenchFields /\ started.artifacts = {}
    BY <2>3, <2>1, <2>2 DEF BenchFields
  <2> QED
    BY <1>1, <1>2, <1>4, <2>1, <2>3, <2>4 DEF StartText
<1>5. CASE StartObserve(execute, a)
  <2>1. PICK plan : plan = Report("observe", TRUE)
    OBVIOUS
  <2>2. DOMAIN plan = BenchFields /\ plan.artifacts = {} /\ plan.kind = "observe" /\ plan.push = TRUE
    BY <2>1, ReportFields
  <2>3. PICK started : started = [plan EXCEPT !.pc = "build", !.evidence = files.host]
    OBVIOUS
  <2>4. started.kind = "observe" /\ DOMAIN started = BenchFields /\ started.artifacts = {}
    BY <2>3, <2>1, <2>2 DEF BenchFields
  <2> QED
    BY <1>1, <1>2, <1>5, <2>1, <2>3, <2>4 DEF StartObserve
<1>6. CASE StartSuite(execute, a, b)
  <2>1. PICK plan : plan = Report("suite", TRUE)
    OBVIOUS
  <2>2. DOMAIN plan = BenchFields /\ plan.artifacts = {} /\ plan.kind = "suite" /\ plan.push = TRUE
    BY <2>1, ReportFields
  <2>3. PICK started : started = [plan EXCEPT !.pc = "copy"]
    OBVIOUS
  <2>4. DOMAIN started = BenchFields /\ started.artifacts = {} /\ started.pc = "copy" /\ started.push = TRUE
    BY <2>3, <2>1, <2>2 DEF BenchFields
  <2>5. PICK r : r = Report("suite", ~execute /\ b)
    OBVIOUS
  <2>6. DOMAIN r = BenchFields /\ r.ok \in BOOLEAN /\ r.executed = FALSE /\ r.pc = "report"
        /\ r.push = TRUE /\ r.artifacts = {}
    BY <2>5, ReportFields
  <2>7. Begins(execute, a /\ b, r, started)
    BY <1>6, <2>1, <2>3, <2>5 DEF StartSuite
  <2> QED
    BY <2>4, <2>6, <2>7, BeginsKeeps
<1> QED
  BY <1>3, <1>4, <1>5, <1>6

(* The model is copied into the evidence. *)
LEMMA CopyModelKeeps ==
    ASSUME MeasuredInv, CopyModel
    PROVE  MeasuredInv'
<1>1. bench # BenchIdle /\ DOMAIN bench = BenchFields /\ UNCHANGED <<files, measured>>
  BY BenchRuns DEF CopyModel, MeasuredInv
<1>2. PICK ok : ok = TargetResolved
  OBVIOUS
<1>3. PICK pc : pc = IF TargetResolved THEN "build" ELSE "report"
  OBVIOUS
<1>4. bench' = [bench EXCEPT !.evidence = files.host, !.todo = Examples, !.ok = ok, !.pc = pc]
  BY <1>2, <1>3 DEF CopyModel
<1>5. ok \in BOOLEAN /\ pc \in SuiteSteps /\ (pc = "report" => ~ok)
  <2>1. TargetResolved \in BOOLEAN
    BY DEF TargetResolved
  <2>2. pc \in {"build", "report"} /\ (pc = "report" => ~TargetResolved)
    BY <1>3
  <2>3. ok \in BOOLEAN /\ (pc = "report" => ~ok)
    BY <1>2, <2>1, <2>2, Zenon
  <2> QED
    BY <2>2, <2>3 DEF SuiteSteps
<1>6. BenchMoves
  BY <1>1, <1>4, <1>5 DEF BenchMoves, BenchFields
<1> QED
  BY <1>1, <1>6, BenchMovesKeep, ResultsKept DEF MeasuredInv

(* A step of the script that changes no file. *)
LEMMA BenchOnly ==
    ASSUME MeasuredInv, bench # BenchIdle, BenchMoves, UNCHANGED <<files, measured>>
    PROVE  MeasuredInv'
BY BenchMovesKeep, ResultsKept DEF MeasuredInv

(* The kinds of scripts and the steps of a suite. *)
LEMMA SuiteIsAt ==
    ASSUME BenchOK, bench # BenchIdle, bench.kind = "suite"
    PROVE  bench.pc \in SuiteSteps /\ bench.push = TRUE
BY DEF BenchOK

(* Build and install. *)
LEMMA BuildAndInstallKeeps ==
    ASSUME MeasuredInv, BuildAndInstall
    PROVE  MeasuredInv'
<1>1. bench # BenchIdle /\ UNCHANGED <<files, measured>>
  BY BenchRuns DEF BuildAndInstall, MeasuredInv
<1>2. PICK status : BenchStep(status, AfterInstall)
  BY DEF BuildAndInstall
<1>3. bench.kind = "suite" => AfterInstall = "push"
  BY <1>1, SuiteIsAt DEF AfterInstall, MeasuredInv
<1>4. BenchMoves
  BY <1>1, <1>2, <1>3, BenchStepMoves DEF MeasuredInv, SuiteSteps
<1> QED
  BY <1>1, <1>4, BenchOnly

(* A model is pushed: the results are not touched. *)
LEMMA PushModelKeeps ==
    ASSUME MeasuredInv, PushModel
    PROVE  MeasuredInv'
<1>1. bench # BenchIdle /\ measured' = measured
  BY BenchRuns DEF PushModel, MeasuredInv
<1>2. PICK status : BenchStep(status, "next")
  BY DEF PushModel
<1>3. BenchMoves
  BY <1>1, <1>2, BenchStepMoves DEF MeasuredInv, SuiteSteps
<1>4. DOMAIN files' = DOMAIN files /\ files'.result = files.result
  <2>1. ASSUME NEW f, files' = [files EXCEPT !.pushed = f]
        PROVE  DOMAIN files' = DOMAIN files /\ files'.result = files.result
    BY <2>1 DEF MeasuredInv, FilesOK
  <2> QED
    BY <2>1 DEF PushModel
<1> QED
  BY <1>1, <1>3, <1>4, BenchMovesKeep, ResultsKept DEF MeasuredInv

(* The loop over the examples. *)
LEMMA NextTestKeeps ==
    ASSUME MeasuredInv, NextTest
    PROVE  MeasuredInv'
<1>1. bench # BenchIdle /\ DOMAIN bench = BenchFields /\ bench.ok \in BOOLEAN
      /\ UNCHANGED <<files, measured>>
  BY BenchRuns DEF NextTest, MeasuredInv, BenchOK
<1>2. CASE bench' = [bench EXCEPT !.pc = "quality"]
  BY <1>1, <1>2, BenchOnly DEF BenchMoves, BenchFields, SuiteSteps
<1>3. CASE bench' = [bench EXCEPT !.pc = "test"]
  BY <1>1, <1>3, BenchOnly DEF BenchMoves, BenchFields, SuiteSteps
<1>4. ASSUME NEW e, NEW todo, bench' = [bench EXCEPT !.pc = "test", !.example = e, !.todo = todo]
      PROVE  MeasuredInv'
  <2>1. BenchMoves
    BY <1>1, <1>4 DEF BenchMoves, BenchFields, SuiteSteps
  <2> QED
    BY <1>1, <2>1, BenchOnly
<1>5. CASE bench.kind = "suite" /\ bench.todo # {}
  <2>1. PICK e : e = CHOOSE x \in bench.todo : TRUE
    OBVIOUS
  <2>2. bench' = [bench EXCEPT !.pc = "test", !.example = e, !.todo = @ \ {e}]
    BY <1>5, <2>1 DEF NextTest
  <2> QED
    BY <1>4, <2>2
<1> QED
  BY <1>2, <1>3, <1>5 DEF NextTest

(* A test that fails. *)
LEMMA TestFailedMoves ==
    ASSUME BenchOK, bench # BenchIdle, bench' = TestFailed
    PROVE  BenchMoves
<1>1. DOMAIN bench = BenchFields
  BY DEF BenchOK
<1>2. CASE bench.kind = "suite"
  BY <1>1, <1>2 DEF TestFailed, BenchMoves, BenchFields, SuiteSteps
<1>3. CASE bench.kind # "suite"
  BY <1>1, <1>3 DEF TestFailed, BenchMoves, BenchFields
<1> QED
  BY <1>2, <1>3

(* The test on the phone writes a result and, when the answer was right,   *)
(* the model has been measured.                                            *)
LEMMA MeasureKeeps ==
    ASSUME FilesOK, NEW right \in BOOLEAN, Measure(right)
    PROVE  FilesOK' /\ measured \subseteq measured'
<1>1. PICK s, m : s = Slot(bench.kind) /\ m = files.pushed[s]
  OBVIOUS
<1>2. PICK json : json = [model |-> m, example |-> bench.example, right |-> right]
  OBVIOUS
<1>3. /\ files' = [files EXCEPT !.result[s] = json]
      /\ measured' = IF right THEN measured \cup {<<m, bench.example>>} ELSE measured
  BY <1>1, <1>2 DEF Measure
<1>4. json.model = m /\ json.example = bench.example /\ json.right = right
  BY <1>2
<1>5. measured \subseteq measured'
  BY <1>3
<1>6. WasMeasured(json)'
  BY <1>3, <1>4 DEF WasMeasured
<1>7. PICK res : res = [files.result EXCEPT ![s] = json]
  OBVIOUS
<1>8. files' = [files EXCEPT !.result = res]
  BY <1>3, <1>7
<1>9. DOMAIN files' = DOMAIN files /\ files'.result = res
  BY <1>8 DEF FilesOK
<1>10. DOMAIN res = Slots /\ \A t \in Slots : res[t] = json \/ res[t] = files.result[t]
  BY <1>7 DEF FilesOK
<1>11. \A t \in Slots : WasMeasured(res[t])'
  <2> SUFFICES ASSUME NEW t \in Slots
               PROVE  WasMeasured(res[t])'
    OBVIOUS
  <2>1. CASE res[t] = json
    BY <1>6, <2>1
  <2>2. CASE res[t] = files.result[t]
    <3>1. WasMeasured(files.result[t])
      BY DEF FilesOK
    <3> QED
      BY <1>5, <2>2, <3>1 DEF WasMeasured
  <2> QED
    BY <1>10, <2>1, <2>2
<1>12. FilesOK'
  BY <1>9, <1>10, <1>11 DEF FilesOK
<1> QED
  BY <1>5, <1>12

(* The instrumented test. *)
LEMMA RunTestKeeps ==
    ASSUME MeasuredInv, RunTest
    PROVE  MeasuredInv'
<1>1. bench # BenchIdle /\ DOMAIN bench = BenchFields /\ bench.ok \in BOOLEAN
  BY BenchRuns DEF RunTest, MeasuredInv, BenchOK
<1>2. FilesOK' /\ measured \subseteq measured'
  <2>1. CASE UNCHANGED <<files, measured>>
    BY <2>1, ResultsKept DEF MeasuredInv
  <2>2. CASE \E right \in BOOLEAN : Measure(right)
    BY <2>2, MeasureKeeps DEF MeasuredInv
  <2> QED
    BY <2>1, <2>2 DEF RunTest
<1>3. BenchMoves
  <2>1. CASE bench' = [bench EXCEPT !.pc = "pull"]
    BY <1>1, <2>1 DEF BenchMoves, BenchFields, SuiteSteps
  <2>2. CASE bench' = TestFailed
    BY <1>1, <2>2, TestFailedMoves DEF MeasuredInv
  <2> QED
    BY <2>1, <2>2 DEF RunTest
<1> QED
  BY <1>1, <1>2, <1>3, BenchMovesKeep DEF MeasuredInv

(* A result is pulled: it is among what was measured, whatever test it is  *)
(* of.                                                                     *)
LEMMA PullResultKeeps ==
    ASSUME MeasuredInv, PullResult
    PROVE  MeasuredInv'
<1>1. bench # BenchIdle /\ DOMAIN bench = BenchFields /\ bench.ok \in BOOLEAN
      /\ UNCHANGED <<files, measured>> /\ bench.pc = "pull"
  BY BenchRuns DEF PullResult, MeasuredInv, BenchOK
<1>2. CASE bench' = TestFailed
  BY <1>1, <1>2, TestFailedMoves, BenchOnly DEF MeasuredInv
<1>3. CASE bench.kind # "suite" /\ bench' = [bench EXCEPT !.pc = "report"]
  BY <1>1, <1>3, BenchOnly DEF BenchMoves, BenchFields
<1>4. ASSUME NEW json, json = files.result["text"], bench.kind = "suite",
             NEW a, a = [example |-> bench.example, json |-> json],
             bench' = [bench EXCEPT !.artifacts = @ \cup {a}, !.pc = "next", !.example = "none"]
      PROVE  MeasuredInv'
  <2>1. WasMeasured(json)'
    BY <1>1, <1>4 DEF MeasuredInv, FilesOK, Slots, WasMeasured
  <2>2. /\ DOMAIN bench' = BenchFields /\ bench'.ok = bench.ok /\ bench'.executed = bench.executed
        /\ bench'.kind = bench.kind /\ bench'.push = bench.push /\ bench'.pc = "next"
        /\ bench'.artifacts = bench.artifacts \cup {a}
    BY <1>1, <1>4 DEF BenchFields
  <2>3. a.json = json
    BY <1>4
  <2>4. \A b \in bench.artifacts : WasMeasured(b.json)'
    BY <1>1 DEF MeasuredInv, BenchOK, WasMeasured
  <2>5. \A b \in bench'.artifacts : WasMeasured(b.json)'
    BY <2>1, <2>2, <2>3, <2>4
  <2>6. bench.executed \in BOOLEAN /\ (bench.kind = "suite" => bench.push = TRUE)
    BY <1>1 DEF MeasuredInv, BenchOK
  <2>7. BenchOK'
    BY <1>1, <2>2, <2>5, <2>6 DEF BenchOK, SuiteSteps
  <2> QED
    BY <1>1, <2>7, ResultsKept DEF MeasuredInv
<1>5. CASE bench.kind = "suite"
  <2>1. Slot(bench.kind) = "text"
    BY <1>5 DEF Slot
  <2>2. PICK json : json = files.result["text"]
    OBVIOUS
  <2>3. PICK a : a = [example |-> bench.example, json |-> json]
    OBVIOUS
  <2>4. CASE bench' = [bench EXCEPT !.artifacts = @ \cup {a}, !.pc = "next", !.example = "none"]
    BY <1>4, <1>5, <2>2, <2>3, <2>4
  <2> QED
    BY <1>2, <1>5, <2>1, <2>2, <2>3, <2>4 DEF PullResult
<1> QED
  BY <1>2, <1>3, <1>5 DEF PullResult

(* The quality gate. *)
LEMMA JudgeSuiteKeeps ==
    ASSUME MeasuredInv, JudgeSuite
    PROVE  MeasuredInv'
<1>1. bench # BenchIdle /\ DOMAIN bench = BenchFields /\ bench.ok \in BOOLEAN
      /\ UNCHANGED <<files, measured>> /\ bench.executed \in BOOLEAN
      /\ (bench.kind = "suite" => bench.push = TRUE)
  BY BenchRuns DEF JudgeSuite, MeasuredInv, BenchOK
<1>2. PICK ok : ok = (bench.ok /\ QualityOk)
  OBVIOUS
<1>3. ok \in BOOLEAN /\ (ok => QualityOk)
  BY <1>2
<1>4. bench' = [bench EXCEPT !.pc = "report", !.ok = ok]
  BY <1>2 DEF JudgeSuite
<1>5. /\ DOMAIN bench' = BenchFields /\ bench'.ok = ok /\ bench'.executed = bench.executed
      /\ bench'.kind = bench.kind /\ bench'.push = bench.push /\ bench'.pc = "report"
      /\ bench'.artifacts = bench.artifacts /\ bench'.evidence = bench.evidence
  BY <1>1, <1>4 DEF BenchFields
<1>6. QualityOk' = QualityOk
  BY <1>5 DEF QualityOk, ArtifactAccepted
<1>7. \A b \in bench'.artifacts : WasMeasured(b.json)'
  BY <1>1, <1>5 DEF MeasuredInv, BenchOK, WasMeasured
<1>8. BenchOK'
  BY <1>1, <1>3, <1>5, <1>6, <1>7 DEF BenchOK, SuiteSteps
<1> QED
  BY <1>1, <1>8, ResultsKept DEF MeasuredInv

(* The steps of the observation are none of a suite's. *)
LEMMA ObservationKeeps ==
    ASSUME MeasuredInv,
           \/ StageModel \/ SeedModel \/ LaunchModelDebug \/ VerifyModelDebugHome
           \/ EnableRuntime \/ RevealSurface \/ ObserveCommand \/ CaptureObservation
    PROVE  MeasuredInv'
<1>1. bench.pc \in {"stage", "seed", "launch", "surface", "runtime", "reveal", "observe", "capture"}
  BY DEF StageModel, SeedModel, LaunchModelDebug, VerifyModelDebugHome, EnableRuntime, RevealSurface,
         ObserveCommand, CaptureObservation, BenchAt
<1>2. bench # BenchIdle /\ DOMAIN bench = BenchFields /\ bench.ok \in BOOLEAN
      /\ measured' = measured /\ bench.kind # "suite"
  <2>1. bench # BenchIdle
    BY <1>1 DEF BenchIdle
  <2>2. measured' = measured
    BY DEF StageModel, SeedModel, LaunchModelDebug, VerifyModelDebugHome, EnableRuntime,
           RevealSurface, ObserveCommand, CaptureObservation
  <2> QED
    BY <1>1, <2>1, <2>2 DEF MeasuredInv, BenchOK, SuiteSteps
<1>3. ASSUME NEW status, NEW next, BenchStep(status, next)
      PROVE  BenchMoves
  BY <1>2, <1>3, BenchStepMoves DEF MeasuredInv
<1>4. ASSUME NEW status, NEW next, Tried(status, next)
      PROVE  BenchMoves
  <2>1. PICK ok : ok = (bench.ok /\ status = "OK")
    OBVIOUS
  <2>2. bench' = [bench EXCEPT !.pc = next, !.ok = ok] /\ ok \in BOOLEAN
    BY <1>4, <2>1 DEF Tried
  <2> QED
    BY <1>2, <2>2 DEF BenchMoves, BenchFields
<1>5. BenchMoves
  BY <1>3, <1>4 DEF StageModel, SeedModel, LaunchModelDebug, VerifyModelDebugHome, EnableRuntime,
                    RevealSurface, ObserveCommand, CaptureObservation
<1>6. DOMAIN files' = DOMAIN files /\ files'.result = files.result
  <2>1. CASE StageModel
    BY <2>1 DEF StageModel, MeasuredInv, FilesOK
  <2>2. CASE SeedModel
    BY <2>2 DEF SeedModel, MeasuredInv, FilesOK
  <2> QED
    BY <2>1, <2>2 DEF LaunchModelDebug, VerifyModelDebugHome, EnableRuntime,
                      RevealSurface, ObserveCommand, CaptureObservation
<1> QED
  BY <1>2, <1>5, <1>6, BenchMovesKeep, ResultsKept DEF MeasuredInv

(* Every step of the lab keeps what was measured. *)
LEMMA MeasuredInvStep ==
    ASSUME MeasuredInv, [LabNext]_labVars
    PROVE  MeasuredInv'
<1>1. CASE UNCHANGED benchVars
  <2>1. UNCHANGED <<bench, files, measured>>
    BY <1>1 DEF benchVars
  <2>2. FilesOK'
    BY <2>1, ResultsKept DEF MeasuredInv
  <2>3. BenchOK'
    BY <2>1 DEF MeasuredInv, BenchOK, WasMeasured, QualityOk, ArtifactAccepted
  <2> QED
    BY <2>2, <2>3 DEF MeasuredInv
<1>2. CASE BenchNext
  <2>1. CASE \E execute, allowed, push \in BOOLEAN :
               StartLite(execute, allowed, push) \/ StartText(execute, allowed, push)
    BY <2>1, StartsKeep
  <2>2. CASE \E execute, confirm, usable \in BOOLEAN : StartSuite(execute, confirm, usable)
    BY <2>2, StartsKeep
  <2>3. CASE \E execute, allowed \in BOOLEAN : StartObserve(execute, allowed)
    BY <2>3, StartsKeep
  <2>4. CASE HostModelReplaced
    <3>1. PICK m : files' = [files EXCEPT !.host = m]
      BY <2>4 DEF HostModelReplaced
    <3>2. DOMAIN files' = DOMAIN files /\ files'.result = files.result
      BY <3>1 DEF MeasuredInv, FilesOK
    <3>3. bench' = bench /\ measured' = measured
      BY <2>4 DEF HostModelReplaced
    <3>4. BenchOK'
      BY <3>3 DEF MeasuredInv, BenchOK, WasMeasured, QualityOk, ArtifactAccepted
    <3> QED
      BY <3>2, <3>3, <3>4, ResultsKept DEF MeasuredInv
  <2>5. CASE EndBench
    <3>1. bench' = BenchIdle /\ UNCHANGED <<files, measured>>
      BY <2>5 DEF EndBench
    <3>2. BenchOK'
      BY <3>1 DEF BenchOK, BenchIdle
    <3> QED
      BY <3>1, <3>2, ResultsKept DEF MeasuredInv
  <2>6. CASE \/ StageModel \/ SeedModel \/ LaunchModelDebug \/ VerifyModelDebugHome
             \/ EnableRuntime \/ RevealSurface \/ ObserveCommand \/ CaptureObservation
    BY <2>6, ObservationKeeps
  <2>7. CASE CopyModel \/ BuildAndInstall \/ PushModel \/ NextTest \/ RunTest \/ PullResult \/ JudgeSuite
    BY <2>7, CopyModelKeeps, BuildAndInstallKeeps, PushModelKeeps, NextTestKeeps, RunTestKeeps,
       PullResultKeeps, JudgeSuiteKeeps
  <2> QED
    BY <1>2, <2>1, <2>2, <2>3, <2>4, <2>5, <2>6, <2>7 DEF BenchNext, BenchActs
<1> QED
  BY <1>1, <1>2 DEF LabNext, labVars, SmokeJob, BenchJob, BundleJob

(* In the beginning nothing has been measured and there is no result. *)
LEMMA MeasuredInvInit ==
    ASSUME LabInit
    PROVE  MeasuredInv
<1>1. PICK none : none = [s \in {"text", "lite"} |-> NoResult]
  OBVIOUS
<1>2. PICK host, pushed : files = [host |-> host, staged |-> NoModel, private |-> NoModel,
                                   pushed |-> pushed, result |-> none]
  BY <1>1 DEF LabInit, BenchInit
<1>3. DOMAIN files = {"host", "staged", "private", "pushed", "result"} /\ files.result = none
  BY <1>2
<1>4. NoResult.right = FALSE
  BY DEF NoResult
<1>5. DOMAIN none = Slots /\ \A s \in Slots : WasMeasured(none[s])
  BY <1>1, <1>4 DEF Slots, WasMeasured
<1>6. BenchOK
  BY DEF LabInit, BenchInit, BenchOK
<1> QED
  BY <1>3, <1>5, <1>6 DEF MeasuredInv, FilesOK

(* An accepted suite measured the model in its evidence directory, on the  *)
(* phone and on every example, for any models, any corpus and any number   *)
(* of scripts before it - although the model on the host may be replaced   *)
(* between the copy and the push, and what is pulled may be the result of  *)
(* an earlier test (run_moto_g_tflite_task_text_eval_suite).               *)
THEOREM SuiteMeasuresItsModel == LabSpec => []AcceptedSuiteMeasuresModel
<1>1. LabInit => MeasuredInv
  BY MeasuredInvInit
<1>2. MeasuredInv /\ [LabNext]_labVars => MeasuredInv'
  BY MeasuredInvStep
<1>3. MeasuredInv => AcceptedSuiteMeasuresModel
  <2> SUFFICES ASSUME MeasuredInv, BenchAt("report"), bench.kind = "suite", bench.executed, bench.ok,
                      NEW e \in Examples
               PROVE  <<bench.evidence, e>> \in measured
    BY DEF AcceptedSuiteMeasuresModel
  <2>1. bench # BenchIdle
    BY BenchRuns DEF MeasuredInv
  <2>2. QualityOk
    BY <2>1 DEF MeasuredInv, BenchOK, BenchAt
  <2>3. PICK a \in bench.artifacts : a.example = e /\ ArtifactAccepted(a)
    BY <2>2 DEF QualityOk
  <2>4. WasMeasured(a.json)
    BY <2>1, <2>3 DEF MeasuredInv, BenchOK
  <2> QED
    BY <2>3, <2>4 DEF WasMeasured, ArtifactAccepted
<1> QED
  BY <1>1, <1>2, <1>3, PTL DEF LabSpec

-----------------------------------------------------------------------------
(* The device smoke.                                                       *)

SmokeFields == {"pc", "opts", "ok", "executed", "macOk", "cmd", "tries", "baseline", "seen", "send",
                "fallback", "approved", "blind"}
ScreenFields == {"app", "cards", "field", "endpoint", "focus", "open", "linked", "token"}
Texts == Commands \cup {"", "other"}
Card == [cmd : Texts, by : {"smoke", "operator"}, state : Active \cup {"verified", "failed"}]

(* What the script and the app look like. *)
SmokeOK ==
    \/ smoke = SmokeIdle
    \/ /\ DOMAIN smoke = SmokeFields /\ smoke.pc # "idle"
       /\ smoke.opts.mac \in BOOLEAN /\ smoke.opts.memory \in BOOLEAN
       /\ smoke.ok \in BOOLEAN /\ smoke.executed \in BOOLEAN /\ smoke.blind \in BOOLEAN
       /\ smoke.baseline \in Nat

ScreenOK ==
    /\ DOMAIN screen = ScreenFields
    /\ screen.cards \in Seq(Card)
    /\ screen.field \in Texts /\ screen.endpoint \in Texts \cup {"default"}

(* A token in another field than its own, and a run that it ends: one that *)
(* waits for the Debug link, or has failed.                                *)
Misplaced == screen.token \in TextFields \ {"token"}
Stranded == smoke.pc = "link" \/ (smoke.pc = "report" /\ smoke.ok = FALSE)
TokenInv == Misplaced => Stranded

(* The steps before a text may be on the screen, those after it, on the    *)
(* home screen, and those that write a command.                            *)
Preparing == {"idle", "setup", "launch", "pair", "open", "focus", "token"}
Linking == {"waitPaired", "link"}
AtHome == {"collapse", "restore", "dump", "home", "map"}
Writing == {"find", "type", "check", "send"}

(* A run that can still be reported OK, and has not lost a tap unseen. *)
Good == smoke.pc # "idle" /\ smoke.ok /\ ~smoke.blind

(* What stands in the app's command field, and that it is the field in     *)
(* reach: the setup card shows the default endpoint or none.               *)
FieldInv ==
    /\ smoke.pc \in Preparing => screen.field = ""
    /\ smoke.pc \in AtHome \cup Linking => screen.field \in {"", "other"}
    /\ smoke.pc \in AtHome \cup Writing \cup {"wait", "again"} => screen.endpoint = "default"

(* What the script knows of the field. *)
TextInv ==
    Good =>
        /\ smoke.pc \in {"find", "type"} => screen.field \in {"", "other"}
        /\ smoke.pc = "again" => screen.field = ""
        /\ smoke.pc = "type" => smoke.seen = screen.field
        /\ smoke.pc = "check" => smoke.seen # smoke.cmd
        /\ smoke.pc = "send" => smoke.seen = smoke.cmd /\ screen.field = smoke.cmd

(* After Send the newest card is the script's own, or the script has seen  *)
(* every card of the command there is.                                     *)
Landed == /\ screen.field = "" /\ screen.cards # <<>>
          /\ screen.cards[1].cmd = smoke.cmd /\ screen.cards[1].by = "smoke"
Covered == Occurrences(screen.cards, smoke.cmd) <= smoke.baseline
WaitInv == Good /\ smoke.pc = "wait" => Landed \/ Covered

(* The commands before the present one. *)
CommandInv ==
    /\ smoke.pc \in Writing \cup {"wait"} =>
         /\ smoke.cmd \in Commands
         /\ smoke.cmd \in {"remember", "memories"} => smoke.opts.memory
         /\ smoke.cmd = "mac" => smoke.opts.mac
    /\ smoke.pc = "again" => smoke.opts.memory

Before(c, o) == IF c = "battery" THEN {}
                ELSE IF c = "remember" THEN {"battery"}
                ELSE IF c = "memories" THEN {"battery", "remember"}
                ELSE Asked(o) \ {"mac"}

Needed == IF smoke.pc \in Writing \cup {"wait"} THEN Before(smoke.cmd, smoke.opts)
          ELSE IF smoke.pc = "again" THEN {"battery", "remember"}
          ELSE IF smoke.pc \in {"capture", "report"} THEN Asked(smoke.opts)
          ELSE {}

Verified(c) == \E i \in DOMAIN screen.cards :
    screen.cards[i].cmd = c /\ screen.cards[i].by = "smoke" /\ screen.cards[i].state = "verified"

(* A run that is still good has verified every command before the present. *)
ProgressInv == Good /\ smoke.executed => \A c \in Needed : Verified(c)

SmokeInv == SmokeOK /\ ScreenOK /\ FieldInv /\ TextInv /\ WaitInv /\ CommandInv /\ ProgressInv

(* The step of the script: it goes on to the given step, or fails. *)
Moved(next) == smoke'.pc = next /\ \A x \in SmokeFields \ {"pc", "tries"} : smoke'[x] = smoke[x]
Failed == smoke'.pc \in {"report", "capture"} /\ smoke'.ok = FALSE

(* A script that runs has all its fields. *)
LEMMA SmokeRuns ==
    ASSUME SmokeOK, smoke.pc # "idle"
    PROVE  /\ DOMAIN smoke = SmokeFields
           /\ smoke.opts.mac \in BOOLEAN /\ smoke.opts.memory \in BOOLEAN
           /\ smoke.ok \in BOOLEAN /\ smoke.executed \in BOOLEAN /\ smoke.blind \in BOOLEAN
           /\ smoke.baseline \in Nat
BY DEF SmokeOK, SmokeIdle

(* A step that only moves keeps the script well formed. *)
LEMMA MovedOK ==
    ASSUME SmokeOK, smoke.pc # "idle", DOMAIN smoke' = SmokeFields,
           NEW next, next # "idle", Moved(next)
    PROVE  SmokeOK'
BY SmokeRuns DEF SmokeOK, Moved, SmokeFields

(* The next step, or the report of a run that is not OK. *)
LEMMA StepMoves ==
    ASSUME SmokeOK, smoke.pc # "idle", NEW status, NEW next, next # "idle", Step(status, next)
    PROVE  SmokeOK' /\ ((status = "FAIL" /\ smoke'.pc = "report" /\ Failed) \/ (status # "FAIL" /\ Moved(next)))
<1>1. DOMAIN smoke = SmokeFields
  BY SmokeRuns
<1>2. CASE status = "FAIL"
  <2>1. smoke' = [smoke EXCEPT !.pc = "report", !.ok = FALSE]
    BY <1>2 DEF Step
  <2>2. /\ DOMAIN smoke' = SmokeFields /\ smoke'.pc = "report" /\ smoke'.ok = FALSE
        /\ \A x \in SmokeFields \ {"pc", "ok"} : smoke'[x] = smoke[x]
    BY <1>1, <2>1 DEF SmokeFields
  <2>3. SmokeOK'
    BY <2>2, SmokeRuns DEF SmokeOK, SmokeFields
  <2> QED
    BY <1>2, <2>2, <2>3 DEF Failed
<1>3. CASE status # "FAIL"
  <2>1. smoke' = [smoke EXCEPT !.pc = next, !.tries = 0]
    BY <1>3 DEF Step
  <2>2. DOMAIN smoke' = SmokeFields /\ Moved(next)
    BY <1>1, <2>1 DEF Moved, SmokeFields
  <2> QED
    BY <1>3, <2>2, MovedOK
<1> QED
  BY <1>2, <1>3

(* A search goes on where it is, or fails. *)
LEMMA ScrollMoves ==
    ASSUME SmokeOK, smoke.pc # "idle", ScrollOn
    PROVE  SmokeOK' /\ ((smoke'.pc = "report" /\ Failed) \/ Moved(smoke.pc))
<1>1. DOMAIN smoke = SmokeFields
  BY SmokeRuns
<1>2. CASE Step("FAIL", "report")
  BY <1>2, StepMoves
<1>3. CASE smoke' = [smoke EXCEPT !.pc = "report", !.ok = FALSE]
  BY <1>3, StepMoves DEF Step
<1>4. CASE smoke' = [smoke EXCEPT !.tries = @ + 1]
  <2>1. DOMAIN smoke' = SmokeFields /\ Moved(smoke.pc)
    BY <1>1, <1>4 DEF Moved, SmokeFields
  <2> QED
    BY <2>1, MovedOK
<1> QED
  BY <1>2, <1>3, <1>4 DEF ScrollOn

(* A run that has failed promises nothing any more. *)
LEMMA FailedKeeps ==
    ASSUME SmokeOK', ScreenOK', Failed
    PROVE  SmokeInv'
BY DEF Failed, SmokeInv, FieldInv, TextInv, WaitInv, CommandInv, ProgressInv, Good, Preparing, Linking,
       AtHome, Writing

(* Before the first command only the field matters. *)
LEMMA BeforeCommands ==
    ASSUME SmokeOK', ScreenOK', FieldInv', smoke'.pc \in Preparing \cup Linking \cup AtHome
    PROVE  SmokeInv'
BY DEF SmokeInv, TextInv, WaitInv, CommandInv, ProgressInv, Needed, Preparing, Linking, AtHome, Writing

(* A step before the first command that leaves the texts as they are, and  *)
(* reaches the home screen with the default endpoint.                      *)
LEMMA MovedBefore ==
    ASSUME SmokeInv, SmokeOK', ScreenOK', NEW next, Moved(next),
           screen'.field = screen.field,
           \/ smoke.pc \in Preparing /\ next \in Preparing \cup Linking \cup AtHome
           \/ smoke.pc \in Linking \cup AtHome /\ next \in Linking \cup AtHome,
           next \in AtHome => screen'.endpoint = "default"
    PROVE  SmokeInv'
<1>1. FieldInv'
  BY DEF SmokeInv, FieldInv, Moved, Preparing, Linking, AtHome, Writing
<1> QED
  BY <1>1, BeforeCommands DEF Moved

(* What a script looks like when it starts. *)
LEMMA StartedOK ==
    ASSUME NEW o \in Options, NEW pc, pc # "idle", NEW ok \in BOOLEAN, NEW executed \in BOOLEAN,
           smoke' = Started(o, pc, ok, executed)
    PROVE  SmokeOK' /\ smoke'.pc = pc /\ smoke'.ok = ok /\ smoke'.executed = executed
<1>1. o.mac \in BOOLEAN /\ o.memory \in BOOLEAN
  BY DEF Options
<1>2. /\ DOMAIN smoke' = SmokeFields
      /\ smoke'.pc = pc /\ smoke'.opts = o /\ smoke'.ok = ok /\ smoke'.executed = executed
      /\ smoke'.baseline = 0 /\ smoke'.blind = FALSE
  BY DEF Started, SmokeFields
<1>3. /\ smoke'.opts.mac \in BOOLEAN /\ smoke'.opts.memory \in BOOLEAN
      /\ smoke'.ok \in BOOLEAN /\ smoke'.executed \in BOOLEAN /\ smoke'.blind \in BOOLEAN
  BY <1>1, <1>2, Zenon
<1>4. smoke'.baseline \in Nat /\ smoke'.pc # "idle"
  BY <1>2
<1>5. SmokeOK'
  BY <1>2, <1>3, <1>4, Zenon DEF SmokeOK
<1> QED
  BY <1>2, <1>5

(* A script starts. *)
LEMMA StartSmokeKeeps ==
    ASSUME SmokeInv, NEW o \in Options, StartSmoke(o)
    PROVE  SmokeInv'
<1>1. screen' = screen /\ smoke.pc = "idle"
  BY DEF StartSmoke, At
<1>2. ScreenOK' /\ screen'.field = ""
  BY <1>1 DEF SmokeInv, ScreenOK, FieldInv, Preparing
<1>3. CASE smoke' = Started(o, "report", FALSE, FALSE)
  BY <1>2, <1>3, StartedOK, FailedKeeps DEF Failed
<1>4. CASE smoke' = Planned(o)
  <2>1. SmokeOK' /\ smoke'.pc = "report" /\ smoke'.executed = FALSE
    BY <1>4, StartedOK DEF Planned
  <2> QED
    BY <1>2, <2>1 DEF SmokeInv, FieldInv, TextInv, WaitInv, CommandInv, ProgressInv, Preparing, Linking, AtHome,
                      Writing
<1>5. CASE smoke' = Started(o, "setup", TRUE, TRUE)
  <2>1. SmokeOK' /\ smoke'.pc = "setup"
    BY <1>5, StartedOK
  <2>2. FieldInv'
    BY <1>2, <2>1 DEF FieldInv, Preparing, Linking, AtHome, Writing
  <2> QED
    BY <1>2, <2>1, <2>2, BeforeCommands DEF Preparing
<1> QED
  BY <1>3, <1>4, <1>5 DEF StartSmoke

(* Setup: the app is not touched. *)
LEMMA RunSetupKeeps ==
    ASSUME SmokeInv, RunSetup
    PROVE  SmokeInv'
<1>1. screen' = screen /\ smoke.pc = "setup" /\ SmokeOK
  BY DEF RunSetup, At, SmokeInv
<1>2. ScreenOK'
  BY <1>1 DEF SmokeInv, ScreenOK
<1>3. PICK status : Step(status, "launch")
  BY DEF RunSetup
<1>4. SmokeOK' /\ (Failed \/ Moved("launch"))
  BY <1>1, <1>3, StepMoves
<1> QED
  BY <1>1, <1>2, <1>4, FailedKeeps, MovedBefore DEF Preparing, AtHome

(* A fresh app has an empty field and the default endpoint. *)
LEMMA BlankOK ==
    ASSUME NEW linked, NEW cards \in Seq(Card), NEW app,
           screen' = [Blank(linked) EXCEPT !.cards = cards, !.app = app]
    PROVE  ScreenOK' /\ screen'.field = "" /\ screen'.endpoint = "default" /\ screen'.token = "none"
<1>1. PICK b : b = Blank(linked)
  OBVIOUS
<1>2. DOMAIN b = ScreenFields /\ b.field = "" /\ b.endpoint = "default" /\ b.token = "none"
  BY <1>1 DEF Blank, ScreenFields
<1>3. screen' = [b EXCEPT !.cards = cards, !.app = app]
  BY <1>1
<1>4. /\ DOMAIN screen' = ScreenFields /\ screen'.cards = cards /\ screen'.field = ""
      /\ screen'.endpoint = "default" /\ screen'.token = "none"
  BY <1>2, <1>3 DEF ScreenFields
<1> QED
  BY <1>4 DEF ScreenOK, Texts

(* What an app that was not stopped may show are cards. *)
LEMMA LeftoverCards == Leftovers \subseteq Seq(Card)
<1>1. ASSUME NEW c \in Commands
      PROVE  <<[cmd |-> c, by |-> "operator", state |-> "verified"]>> \in Seq(Card)
  <2>1. PICK card : card = [cmd |-> c, by |-> "operator", state |-> "verified"]
    OBVIOUS
  <2>2. card \in Card
    BY <2>1 DEF Card, Texts, Commands
  <2>3. <<card>> \in Seq(Card)
    BY <2>2
  <2> QED
    BY <2>1, <2>3
<1>2. <<>> \in Seq(Card)
  OBVIOUS
<1> QED
  BY <1>1, <1>2 DEF Leftovers

(* The app is launched anew. *)
LEMMA LaunchKeeps ==
    ASSUME SmokeInv, Launch
    PROVE  SmokeInv'
<1>1. smoke.pc = "launch" /\ SmokeOK
  BY DEF Launch, At, SmokeInv
<1>2. PICK stop \in Outcomes, start \in Outcomes :
        \E cards \in IF stop = "OK" THEN {<<>>} ELSE Leftovers :
         /\ screen' = [Blank(screen.linked) EXCEPT !.cards = cards, !.app = (start = "OK")]
         /\ smoke' = [smoke EXCEPT !.pc = AfterLaunch, !.ok = @ /\ "FAIL" \notin {stop, start}]
  BY DEF Launch
<1>3. PICK cards \in Seq(Card) :
         /\ screen' = [Blank(screen.linked) EXCEPT !.cards = cards, !.app = (start = "OK")]
         /\ smoke' = [smoke EXCEPT !.pc = AfterLaunch, !.ok = @ /\ "FAIL" \notin {stop, start}]
  <2>1. <<>> \in Seq(Card)
    OBVIOUS
  <2> QED
    BY <1>2, <2>1, LeftoverCards
<1>4. PICK ok : ok = (smoke.ok /\ "FAIL" \notin {stop, start})
  OBVIOUS
<1>5. ok \in BOOLEAN
  BY <1>4
<1>6. smoke' = [smoke EXCEPT !.pc = AfterLaunch, !.ok = ok]
  BY <1>3, <1>4
<1>7. ScreenOK' /\ screen'.field = "" /\ screen'.endpoint = "default"
  BY <1>3, BlankOK
<1>8. AfterLaunch \in {"pair", "open", "collapse"}
  BY DEF AfterLaunch, AfterLink
<1>9. /\ DOMAIN smoke' = SmokeFields /\ smoke'.pc = AfterLaunch /\ smoke'.ok = ok
      /\ \A x \in SmokeFields \ {"pc", "ok"} : smoke'[x] = smoke[x]
  BY <1>1, <1>6, SmokeRuns DEF SmokeFields
<1>10. SmokeOK'
  BY <1>1, <1>5, <1>8, <1>9, SmokeRuns DEF SmokeOK, SmokeFields
<1>11. FieldInv'
  BY <1>7, <1>8, <1>9 DEF FieldInv, Preparing, Linking, AtHome, Writing
<1> QED
  BY <1>7, <1>8, <1>9, <1>10, <1>11, BeforeCommands DEF Preparing, AtHome

(* The Hub link is looked for, or waited for. *)
LEMMA VerifyPairedKeeps ==
    ASSUME SmokeInv, VerifyPaired
    PROVE  SmokeInv'
<1>1. screen' = screen /\ smoke.pc = "pair" /\ SmokeOK
  BY DEF VerifyPaired, At, SmokeInv
<1>2. ScreenOK'
  BY <1>1 DEF SmokeInv, ScreenOK
<1>3. ASSUME NEW status, NEW next \in {"collapse", "waitPaired", "report"}, Step(status, next),
             next = "report" => status = "FAIL", next = "collapse" => screen.endpoint = "default"
      PROVE  SmokeInv'
  <2>1. SmokeOK' /\ (Failed \/ (status # "FAIL" /\ Moved(next)))
    BY <1>1, <1>3, StepMoves
  <2> QED
    BY <1>1, <1>2, <1>3, <2>1, FailedKeeps, MovedBefore DEF Preparing, Linking, AtHome
<1>4. CASE ScrollOn
  <2>1. SmokeOK' /\ (Failed \/ Moved("pair"))
    BY <1>1, <1>4, ScrollMoves
  <2> QED
    BY <1>1, <1>2, <2>1, FailedKeeps, MovedBefore DEF Preparing, AtHome
<1> QED
  BY <1>3, <1>4 DEF VerifyPaired, PairedVisible, AfterLink

(* The wait for the operator ends. *)
LEMMA WaitPairedKeeps ==
    ASSUME SmokeInv, SeesPaired \/ PairedDeadline
    PROVE  SmokeInv'
<1>1. screen' = screen /\ smoke.pc = "waitPaired" /\ SmokeOK
  BY DEF SeesPaired, PairedDeadline, At, SmokeInv
<1>2. ScreenOK'
  BY <1>1 DEF SmokeInv, ScreenOK
<1>3. CASE SeesPaired
  <2>1. Step("OK", "collapse") /\ screen.endpoint = "default"
    BY <1>3 DEF SeesPaired, PairedVisible, AfterLink
  <2>2. SmokeOK' /\ Moved("collapse")
    BY <1>1, <2>1, StepMoves
  <2> QED
    BY <1>1, <1>2, <2>1, <2>2, MovedBefore DEF Linking, AtHome
<1>4. CASE PairedDeadline
  BY <1>1, <1>2, <1>4, StepMoves, FailedKeeps DEF PairedDeadline
<1> QED
  BY <1>3, <1>4

(* A submitted text: the newest card, before the others. *)
LEMMA SubmittedShows ==
    ASSUME ScreenOK, NEW text \in Texts, NEW by \in {"smoke", "operator"}, screen' = Submitted(text, by)
    PROVE  /\ ScreenOK' /\ screen'.field = ""
           /\ \A x \in ScreenFields \ {"field", "cards"} : screen'[x] = screen[x]
           /\ screen'.cards # <<>> /\ screen'.cards[1].cmd = text /\ screen'.cards[1].by = by
           /\ Len(screen'.cards) = Len(screen.cards) + 1
           /\ \A i \in DOMAIN screen.cards : screen'.cards[i + 1] = screen.cards[i]
<1>1. PICK state : state = IF Busy THEN "failed" ELSE IF text = "remember" THEN "approval" ELSE "running"
  OBVIOUS
<1>2. PICK card : card = [cmd |-> text, by |-> by, state |-> state]
  OBVIOUS
<1>3. card \in Card /\ card.cmd = text /\ card.by = by
  BY <1>1, <1>2 DEF Card, Active
<1>4. PICK cards : cards = <<card>> \o screen.cards
  OBVIOUS
<1>5. screen.cards \in Seq(Card)
  BY DEF ScreenOK
<1>6. /\ cards \in Seq(Card) /\ cards # <<>> /\ cards[1] = card
      /\ Len(cards) = Len(screen.cards) + 1
      /\ \A i \in 1..Len(screen.cards) : cards[i + 1] = screen.cards[i]
  BY <1>3, <1>4, <1>5
<1>7. screen' = [screen EXCEPT !.field = "", !.cards = cards]
  BY <1>1, <1>2, <1>4 DEF Submitted
<1>8. /\ DOMAIN screen' = ScreenFields /\ screen'.field = "" /\ screen'.cards = cards
      /\ \A x \in ScreenFields \ {"field", "cards"} : screen'[x] = screen[x]
  BY <1>7 DEF ScreenOK, ScreenFields
<1>9. ScreenOK'
  BY <1>6, <1>8 DEF ScreenOK, ScreenFields, Texts
<1>10. DOMAIN screen.cards = 1..Len(screen.cards)
  BY <1>5
<1> QED
  BY <1>3, <1>6, <1>8, <1>9, <1>10

(* A change of the screen that is not one of its cards nor of a text. *)
Touched == /\ DOMAIN screen' = ScreenFields
           /\ screen'.cards = screen.cards /\ screen'.field = screen.field
           /\ screen'.endpoint = screen.endpoint

(* It keeps the screen well formed. *)
LEMMA TouchedOK ==
    ASSUME ScreenOK, Touched
    PROVE  ScreenOK'
BY DEF ScreenOK, Touched

(* What the operator may do while the script waits for the pairing. *)
LEMMA OperatorActsKeeps ==
    ASSUME SmokeInv, OperatorActs
    PROVE  SmokeInv'
<1>1. smoke' = smoke /\ smoke.pc = "waitPaired" /\ SmokeOK /\ ScreenOK
  BY DEF OperatorActs, At, SmokeInv
<1>2. SmokeOK'
  BY <1>1 DEF SmokeOK
<1>3. DOMAIN screen = ScreenFields
  BY <1>1 DEF ScreenOK
<1>4. screen.field \in {"", "other"}
  BY <1>1 DEF SmokeInv, FieldInv, Linking
<1>5. ASSUME ScreenOK', screen'.field \in {"", "other"}
      PROVE  SmokeInv'
  <2>1. FieldInv'
    BY <1>1, <1>5 DEF FieldInv, Preparing, Linking, AtHome, Writing
  <2> QED
    BY <1>1, <1>2, <1>5, <2>1, BeforeCommands DEF Linking
<1>6. CASE screen' = [screen EXCEPT !.open = ~@]
  <2>1. PICK open : open = ~screen.open
    OBVIOUS
  <2>2. screen' = [screen EXCEPT !.open = open]
    BY <1>6, <2>1
  <2>3. Touched
    BY <1>3, <2>2 DEF Touched, ScreenFields
  <2> QED
    BY <1>1, <1>4, <1>5, <2>3, TouchedOK DEF Touched
<1>7. CASE screen' = [screen EXCEPT !.linked = TRUE, !.open = FALSE]
  <2>1. Touched
    BY <1>3, <1>7 DEF Touched, ScreenFields
  <2> QED
    BY <1>1, <1>4, <1>5, <2>1, TouchedOK DEF Touched
<1>8. CASE screen' = [screen EXCEPT !.field = "other"]
  <2>1. /\ DOMAIN screen' = ScreenFields /\ screen'.field = "other" /\ screen'.cards = screen.cards
        /\ screen'.endpoint = screen.endpoint
    BY <1>3, <1>8 DEF ScreenFields
  <2>2. ScreenOK'
    BY <1>1, <2>1 DEF ScreenOK, Texts
  <2> QED
    BY <1>5, <2>1, <2>2
<1>9. CASE \E c \in Commands : screen' = Submitted(c, "operator")
  <2>1. PICK c \in Commands : screen' = Submitted(c, "operator")
    BY <1>9
  <2>2. c \in Texts
    BY DEF Texts
  <2> QED
    BY <1>1, <1>5, <2>1, <2>2, SubmittedShows
<1>10. CASE screen' = [screen EXCEPT !.endpoint = "other"]
  <2>1. /\ DOMAIN screen' = ScreenFields /\ screen'.endpoint = "other" /\ screen'.cards = screen.cards
        /\ screen'.field = screen.field
    BY <1>3, <1>10 DEF ScreenFields
  <2>2. ScreenOK'
    BY <1>1, <2>1 DEF ScreenOK, Texts
  <2> QED
    BY <1>4, <1>5, <2>1, <2>2
<1> QED
  BY <1>6, <1>7, <1>8, <1>9, <1>10 DEF OperatorActs

(* Opening the setup card, focusing and tapping the Debug link change what *)
(* the screen shows, but no text.                                          *)
LEMMA DebugLinkTouches ==
    ASSUME ScreenOK, OpenSetup \/ FocusToken \/ TapDebugLink
    PROVE  Touched
<1>1. DOMAIN screen = ScreenFields
  BY DEF ScreenOK
<1>2. CASE screen' = screen
  BY <1>1, <1>2 DEF Touched
<1>3. ASSUME NEW open, screen' = [screen EXCEPT !.open = open]
      PROVE  Touched
  BY <1>1, <1>3 DEF Touched, ScreenFields
<1>4. ASSUME NEW focus, screen' = [screen EXCEPT !.focus = focus]
      PROVE  Touched
  BY <1>1, <1>4 DEF Touched, ScreenFields
<1>5. ASSUME NEW linked, NEW token, NEW open,
             screen' = [screen EXCEPT !.linked = linked, !.token = token, !.open = open]
      PROVE  Touched
  BY <1>1, <1>5 DEF Touched, ScreenFields
<1>6. CASE OpenSetup
  BY <1>2, <1>3, <1>6 DEF OpenSetup
<1>7. CASE FocusToken
  BY <1>4, <1>7 DEF FocusToken
<1>8. CASE TapDebugLink
  <2>1. ASSUME NEW linked \in BOOLEAN,
               screen' = [screen EXCEPT !.linked = linked, !.token = IF linked THEN "none" ELSE @,
                                        !.open = ~linked]
        PROVE  Touched
    <3>1. PICK token, open : token = (IF linked THEN "none" ELSE screen.token) /\ open = ~linked
      OBVIOUS
    <3>2. screen' = [screen EXCEPT !.linked = linked, !.token = token, !.open = open]
      BY <2>1, <3>1
    <3> QED
      BY <1>5, <3>2
  <2> QED
    BY <1>2, <1>8, <2>1 DEF TapDebugLink, DebugLinkTapped
<1> QED
  BY <1>6, <1>7, <1>8

(* The typed token may become the text of the field that has the focus.    *)
LEMMA TokenTyped ==
    ASSUME ScreenOK, screen.field \in {"", "other"}, TypeToken
    PROVE  ScreenOK' /\ screen'.field \in {"", "other"}
<1>1. DOMAIN screen = ScreenFields
  BY DEF ScreenOK
<1>2. PICK on : screen' = [screen EXCEPT !.token = IF on = "none" THEN @ ELSE on,
                                         !.endpoint = IF on = "endpoint" THEN "other" ELSE @,
                                         !.field = IF on = "field" THEN "other" ELSE @]
  BY DEF TypeToken
<1>3. PICK token, endpoint, field :
        /\ token = (IF on = "none" THEN screen.token ELSE on)
        /\ endpoint = (IF on = "endpoint" THEN "other" ELSE screen.endpoint)
        /\ field = (IF on = "field" THEN "other" ELSE screen.field)
  OBVIOUS
<1>4. screen' = [screen EXCEPT !.token = token, !.endpoint = endpoint, !.field = field]
  BY <1>2, <1>3
<1>5. /\ DOMAIN screen' = ScreenFields /\ screen'.cards = screen.cards
      /\ screen'.endpoint = endpoint /\ screen'.field = field
  BY <1>1, <1>4 DEF ScreenFields
<1>6. endpoint \in Texts \cup {"default"} /\ field \in {"", "other"}
  BY <1>3 DEF ScreenOK, Texts
<1> QED
  BY <1>5, <1>6 DEF ScreenOK, Texts

(* Where they lead. *)
LEMMA DebugLinkMoves ==
    ASSUME SmokeOK, OpenSetup \/ FocusToken \/ TypeToken \/ TapDebugLink
    PROVE  /\ SmokeOK' /\ smoke.pc \in {"open", "focus", "token", "link"}
           /\ \/ smoke'.pc = "report" /\ Failed
              \/ \E next \in {"open", "focus", "token", "link", "collapse"} :
                   /\ Moved(next) /\ (TypeToken => next = "link")
                   /\ next = "collapse" => screen.endpoint = "default" /\ DebugLinkEnabled
<1>1. smoke.pc \in {"open", "focus", "token", "link"} /\ DOMAIN smoke = SmokeFields
  BY SmokeRuns DEF OpenSetup, FocusToken, TypeToken, TapDebugLink, At
<1>2. ASSUME NEW status, NEW next \in {"focus", "token", "link", "collapse"}, Step(status, next)
      PROVE  SmokeOK' /\ ((smoke'.pc = "report" /\ Failed) \/ Moved(next))
  BY <1>1, <1>2, StepMoves
<1>3. ASSUME Step("FAIL", "report")
      PROVE  SmokeOK' /\ smoke'.pc = "report" /\ Failed
  BY <1>1, <1>3, StepMoves
<1>4. ASSUME smoke' = [smoke EXCEPT !.tries = @ + 1]
      PROVE  SmokeOK' /\ Moved(smoke.pc)
  <2>1. DOMAIN smoke' = SmokeFields /\ Moved(smoke.pc)
    BY <1>1, <1>4 DEF Moved, SmokeFields
  <2> QED
    BY <1>1, <2>1, MovedOK
<1>5. ASSUME ScrollOn
      PROVE  SmokeOK' /\ ((smoke'.pc = "report" /\ Failed) \/ Moved(smoke.pc))
  BY <1>1, <1>5, ScrollMoves
<1>6. CASE OpenSetup
  <2>1. smoke.pc = "open"
    BY <1>6 DEF OpenSetup, At
  <2>2. \/ Step("OK", "focus") \/ Step("FAIL", "report") \/ smoke' = [smoke EXCEPT !.tries = @ + 1]
        \/ ScrollOn
    BY <1>6 DEF OpenSetup
  <2> QED
    BY <1>2, <1>3, <1>4, <1>5, <2>1, <2>2 DEF TypeToken, At
<1>7. CASE FocusToken
  <2>1. smoke.pc = "focus"
    BY <1>7 DEF FocusToken, At
  <2>2. \/ Step("OK", "token") \/ Step("FAIL", "report") \/ smoke' = [smoke EXCEPT !.tries = @ + 1]
    BY <1>7 DEF FocusToken
  <2> QED
    BY <1>2, <1>3, <1>4, <2>1, <2>2 DEF TypeToken, At
<1>8. CASE TypeToken
  <2>1. PICK r : Step(r, "link")
    BY <1>8 DEF TypeToken
  <2> QED
    BY <1>1, <1>2, <2>1
<1>9. CASE TapDebugLink
  <2>1. smoke.pc = "link"
    BY <1>9 DEF TapDebugLink, At
  <2>2. \/ Step("OK", "collapse") /\ screen.endpoint = "default" /\ DebugLinkEnabled
        \/ Step("FAIL", "collapse")
        \/ ScrollOn
    BY <1>9 DEF TapDebugLink, DebugLinkTapped, AfterLink
  <2>3. ASSUME Step("FAIL", "collapse")
        PROVE  SmokeOK' /\ smoke'.pc = "report" /\ Failed
    BY <1>1, <2>3, StepMoves
  <2>4. ~TypeToken
    BY <2>1 DEF TypeToken, At
  <2> QED
    BY <1>2, <1>5, <2>1, <2>2, <2>3, <2>4
<1> QED
  BY <1>6, <1>7, <1>8, <1>9

(* The Debug link. *)
LEMMA DebugLinkKeeps ==
    ASSUME SmokeInv, OpenSetup \/ FocusToken \/ TypeToken \/ TapDebugLink
    PROVE  SmokeInv'
<1>1. SmokeOK /\ ScreenOK
  BY DEF SmokeInv
<1>2. SmokeOK' /\ smoke.pc \in {"open", "focus", "token", "link"}
  BY <1>1, DebugLinkMoves
<1>3. CASE TypeToken
  <2>1. smoke.pc = "token" /\ screen.field = ""
    BY <1>3 DEF TypeToken, At, SmokeInv, FieldInv, Preparing
  <2>2. ScreenOK' /\ screen'.field \in {"", "other"}
    BY <1>1, <1>3, <2>1, TokenTyped
  <2>3. CASE Failed
    BY <1>2, <2>2, <2>3, FailedKeeps
  <2>4. CASE Moved("link")
    <3>1. smoke'.pc = "link"
      BY <2>4 DEF Moved
    <3>2. FieldInv'
      BY <2>2, <3>1 DEF FieldInv, Preparing, Linking, AtHome, Writing
    <3> QED
      BY <1>2, <2>2, <3>1, <3>2, BeforeCommands DEF Linking
  <2> QED
    BY <1>1, <1>3, <2>3, <2>4, DebugLinkMoves
<1>4. CASE ~TypeToken
  <2>1. Touched
    BY <1>1, <1>4, DebugLinkTouches
  <2>2. ScreenOK' /\ screen'.field = screen.field /\ screen'.endpoint = screen.endpoint
    BY <1>1, <2>1, TouchedOK DEF Touched
  <2>3. CASE Failed
    BY <1>2, <2>2, <2>3, FailedKeeps
  <2>4. ASSUME NEW next \in {"open", "focus", "token", "link", "collapse"}, Moved(next),
               next = "collapse" => screen.endpoint = "default",
               smoke.pc = "link" => next \in {"link", "collapse"}
        PROVE  SmokeInv'
    BY <1>2, <2>2, <2>4, MovedBefore DEF Preparing, Linking, AtHome
  <2>5. ASSUME NEW next \in {"open", "focus", "token", "link", "collapse"}, Moved(next), smoke.pc = "link",
               ~Failed
        PROVE  next \in {"link", "collapse"}
    <3>1. TapDebugLink
      BY <2>5, <1>4 DEF OpenSetup, FocusToken, At
    <3>2. Step("OK", "collapse") \/ Step("FAIL", "collapse") \/ ScrollOn
      BY <3>1 DEF TapDebugLink, DebugLinkTapped, AfterLink
    <3>3. smoke'.pc \in {"collapse", "report", "link"}
      BY <1>1, <1>2, <2>5, <3>2, StepMoves, ScrollMoves DEF Moved
    <3> QED
      BY <2>5, <3>3 DEF Moved
  <2> QED
    BY <1>1, <2>3, <2>4, <2>5, DebugLinkMoves
<1> QED
  BY <1>3, <1>4

(* The home screen. *)
LEMMA HomeKeeps ==
    ASSUME SmokeInv, CollapseSetup \/ RestoreHome \/ DumpLaunched \/ HomeSurface
    PROVE  SmokeInv'
<1>1. SmokeOK /\ ScreenOK /\ DOMAIN screen = ScreenFields /\ smoke.pc \in AtHome /\ smoke.pc # "idle"
  BY DEF SmokeInv, ScreenOK, CollapseSetup, RestoreHome, DumpLaunched, HomeSurface, At, AtHome
<1>2. ASSUME NEW status, NEW next \in {"restore", "dump", "home", "map"}, Step(status, next),
             screen' = screen \/ \E open : screen' = [screen EXCEPT !.open = open]
      PROVE  SmokeInv'
  <2>1. ScreenOK' /\ screen'.field = screen.field /\ screen'.endpoint = screen.endpoint
    <3>1. CASE screen' = screen
      BY <1>1, <3>1 DEF ScreenOK
    <3>2. CASE \E open : screen' = [screen EXCEPT !.open = open]
      <4>1. Touched
        BY <1>1, <3>2 DEF Touched, ScreenFields
      <4> QED
        BY <1>1, <4>1, TouchedOK DEF Touched
    <3> QED
      BY <1>2, <3>1, <3>2
  <2>2. SmokeOK' /\ (Failed \/ Moved(next))
    BY <1>1, <1>2, StepMoves
  <2>3. screen'.endpoint = "default"
    BY <1>1, <2>1 DEF SmokeInv, FieldInv
  <2> QED
    BY <1>1, <2>1, <2>2, <2>3, FailedKeeps, MovedBefore DEF AtHome
<1>3. ASSUME Step("FAIL", "report"), screen' = screen
      PROVE  SmokeInv'
  <2>1. ScreenOK'
    BY <1>1, <1>3 DEF ScreenOK
  <2> QED
    BY <1>1, <1>3, <2>1, StepMoves, FailedKeeps
<1>4. CASE CollapseSetup
  BY <1>2, <1>3, <1>4 DEF CollapseSetup
<1>5. CASE RestoreHome
  BY <1>2, <1>5 DEF RestoreHome
<1>6. CASE DumpLaunched
  BY <1>2, <1>6 DEF DumpLaunched
<1>7. CASE HomeSurface
  BY <1>2, <1>7 DEF HomeSurface
<1> QED
  BY <1>4, <1>5, <1>6, <1>7

(* A command begins. *)
LEMMA CommandStarts ==
    ASSUME NEW s, DOMAIN s = SmokeFields, NEW c, smoke' = Command(s, c)
    PROVE  /\ DOMAIN smoke' = SmokeFields
           /\ smoke'.pc = "find" /\ smoke'.cmd = c /\ smoke'.baseline \in Nat /\ smoke'.send = FALSE
           /\ smoke'.opts = s.opts /\ smoke'.ok = s.ok /\ smoke'.executed = s.executed
           /\ smoke'.blind = s.blind
<1>1. smoke'.baseline = 0
  BY DEF Command, SmokeFields
<1>2. smoke'.baseline \in Nat
  BY <1>1
<1> QED
  BY <1>2 DEF Command, SmokeFields

(* The commands are over, or the list is next. *)
LEMMA CaptureStarts ==
    ASSUME NEW s, DOMAIN s = SmokeFields, NEW next, smoke' = [Capture(s) EXCEPT !.pc = next]
    PROVE  /\ DOMAIN smoke' = SmokeFields
           /\ smoke'.pc = next /\ smoke'.baseline \in Nat
           /\ smoke'.opts = s.opts /\ smoke'.ok = s.ok /\ smoke'.executed = s.executed
           /\ smoke'.blind = s.blind
<1>1. PICK t : t = Capture(s)
  OBVIOUS
<1>2. /\ DOMAIN t = SmokeFields /\ t.baseline = 0
      /\ t.opts = s.opts /\ t.ok = s.ok /\ t.executed = s.executed /\ t.blind = s.blind
  BY <1>1 DEF Capture, SmokeFields
<1>3. smoke' = [t EXCEPT !.pc = next]
  BY <1>1
<1>4. smoke'.baseline = 0
  BY <1>2, <1>3 DEF SmokeFields
<1>5. smoke'.baseline \in Nat
  BY <1>4
<1> QED
  BY <1>2, <1>3, <1>5 DEF SmokeFields

(* Capture leads to the step of that name. *)
LEMMA CaptureIs ==
    ASSUME NEW s, DOMAIN s = SmokeFields
    PROVE  Capture(s) = [Capture(s) EXCEPT !.pc = "capture"]
<1>1. PICK t : t = Capture(s)
  OBVIOUS
<1>2. DOMAIN t = SmokeFields /\ t.pc = "capture" /\ t = [x \in SmokeFields |-> t[x]]
  BY <1>1 DEF Capture, SmokeFields
<1>3. t = [t EXCEPT !.pc = "capture"]
  BY <1>2
<1> QED
  BY <1>1, <1>3

(* What a command begins with. *)
LEMMA BeginCommand ==
    ASSUME ScreenOK', DOMAIN smoke' = SmokeFields, smoke'.pc = "find", smoke'.baseline \in Nat,
           smoke'.send = FALSE, smoke'.cmd \in Commands,
           smoke'.opts.mac \in BOOLEAN, smoke'.opts.memory \in BOOLEAN,
           smoke'.ok \in BOOLEAN, smoke'.executed \in BOOLEAN, smoke'.blind \in BOOLEAN,
           smoke'.cmd \in {"remember", "memories"} => smoke'.opts.memory,
           smoke'.cmd = "mac" => smoke'.opts.mac,
           Good' => screen'.field \in {"", "other"},
           screen'.endpoint = "default",
           Good' /\ smoke'.executed => \A c \in Before(smoke'.cmd, smoke'.opts) : Verified(c)'
    PROVE  SmokeInv'
<1>1. SmokeOK'
  BY Zenon DEF SmokeOK
<1>2. FieldInv' /\ TextInv' /\ WaitInv' /\ CommandInv'
  BY DEF FieldInv, TextInv, WaitInv, CommandInv, Preparing, Linking, AtHome, Writing
<1>3. Needed' = Before(smoke'.cmd, smoke'.opts)
  BY DEF Needed, Writing
<1>4. ProgressInv'
  BY <1>3 DEF ProgressInv
<1> QED
  BY <1>1, <1>2, <1>4 DEF SmokeInv

(* The device map, and the first command. *)
LEMMA DeviceMapKeeps ==
    ASSUME SmokeInv, DeviceMap
    PROVE  SmokeInv'
<1>1. smoke.pc = "map" /\ SmokeOK /\ ScreenOK /\ screen' = screen
  BY DEF DeviceMap, At, SmokeInv
<1>2. ScreenOK'
  BY <1>1 DEF ScreenOK
<1>3. CASE smoke' = [smoke EXCEPT !.pc = "report", !.ok = FALSE]
  BY <1>1, <1>2, <1>3, StepMoves, FailedKeeps DEF Step
<1>4. CASE smoke' = Command(smoke, "battery")
  <2>1. /\ DOMAIN smoke' = SmokeFields
        /\ smoke'.pc = "find" /\ smoke'.cmd = "battery" /\ smoke'.baseline \in Nat /\ smoke'.send = FALSE
        /\ smoke'.opts = smoke.opts /\ smoke'.ok = smoke.ok /\ smoke'.executed = smoke.executed
        /\ smoke'.blind = smoke.blind
    BY <1>1, <1>4, SmokeRuns, CommandStarts
  <2>2. screen'.field \in {"", "other"} /\ screen'.endpoint = "default"
    BY <1>1 DEF SmokeInv, FieldInv, AtHome
  <2>3. Before(smoke'.cmd, smoke'.opts) = {}
    BY <2>1 DEF Before
  <2>4. smoke'.cmd \in Commands /\ smoke'.cmd \notin {"remember", "memories", "mac"}
    BY <2>1 DEF Commands
  <2>5. /\ smoke'.opts.mac \in BOOLEAN /\ smoke'.opts.memory \in BOOLEAN
        /\ smoke'.ok \in BOOLEAN /\ smoke'.executed \in BOOLEAN /\ smoke'.blind \in BOOLEAN
    BY <1>1, <2>1, SmokeRuns
  <2> QED
    BY <1>2, <2>1, <2>2, <2>3, <2>4, <2>5, BeginCommand
<1> QED
  BY <1>3, <1>4 DEF DeviceMap

(* A command that fails ends the commands. *)
LEMMA CommandFails ==
    ASSUME SmokeOK, smoke.pc # "idle", CommandDone("FAIL")
    PROVE  SmokeOK' /\ Failed
<1>1. DOMAIN smoke = SmokeFields
  BY SmokeRuns
<1>2. PICK s : s = [smoke EXCEPT !.ok = FALSE]
  OBVIOUS
<1>3. /\ DOMAIN s = SmokeFields /\ s.ok = FALSE /\ s.opts = smoke.opts
      /\ s.executed = smoke.executed /\ s.blind = smoke.blind
  BY <1>1, <1>2 DEF SmokeFields
<1>4. smoke' = Capture(s)
  BY <1>2 DEF CommandDone
<1>5. smoke' = [Capture(s) EXCEPT !.pc = "capture"]
  BY <1>3, <1>4, CaptureIs
<1>6. /\ DOMAIN smoke' = SmokeFields /\ smoke'.pc = "capture" /\ smoke'.baseline \in Nat
      /\ smoke'.opts = s.opts /\ smoke'.ok = s.ok /\ smoke'.executed = s.executed
      /\ smoke'.blind = s.blind
  BY <1>3, <1>5, CaptureStarts
<1>7. /\ smoke'.opts.mac \in BOOLEAN /\ smoke'.opts.memory \in BOOLEAN
      /\ smoke'.ok \in BOOLEAN /\ smoke'.executed \in BOOLEAN /\ smoke'.blind \in BOOLEAN
  BY <1>3, <1>6, SmokeRuns
<1>8. SmokeOK'
  BY <1>6, <1>7 DEF SmokeOK
<1> QED
  BY <1>3, <1>6, <1>8 DEF Failed

(* So the failure of a command keeps the promises. *)
LEMMA CommandFailsKeeps ==
    ASSUME SmokeInv, smoke.pc # "idle", ScreenOK', CommandDone("FAIL")
    PROVE  SmokeInv'
BY CommandFails, FailedKeeps DEF SmokeInv

(* The home screen is restored before the list. *)
LEMMA RestoreForListKeeps ==
    ASSUME SmokeInv, RestoreForList
    PROVE  SmokeInv'
<1>1. smoke.pc = "again" /\ SmokeOK /\ ScreenOK /\ screen' = screen
  BY DEF RestoreForList, At, SmokeInv
<1>2. ScreenOK'
  BY <1>1 DEF ScreenOK
<1>3. CASE smoke' = Capture([smoke EXCEPT !.ok = FALSE])
  <2>1. CommandDone("FAIL")
    BY <1>3 DEF CommandDone
  <2> QED
    BY <1>1, <1>2, <2>1, CommandFailsKeeps
<1>4. CASE smoke' = Command(smoke, "memories")
  <2>1. /\ DOMAIN smoke' = SmokeFields
        /\ smoke'.pc = "find" /\ smoke'.cmd = "memories" /\ smoke'.baseline \in Nat
        /\ smoke'.send = FALSE
        /\ smoke'.opts = smoke.opts /\ smoke'.ok = smoke.ok /\ smoke'.executed = smoke.executed
        /\ smoke'.blind = smoke.blind
    BY <1>1, <1>4, SmokeRuns, CommandStarts
  <2>2. Good' = Good
    BY <1>1, <2>1 DEF Good
  <2>3. screen'.endpoint = "default" /\ smoke'.opts.memory /\ (Good' => screen'.field = "")
    BY <1>1, <2>1, <2>2 DEF SmokeInv, FieldInv, TextInv, CommandInv
  <2>4. ASSUME Good', smoke'.executed, NEW c \in Before(smoke'.cmd, smoke'.opts)
        PROVE  Verified(c)'
    <3>1. c \in {"battery", "remember"}
      BY <2>1, <2>4 DEF Before
    <3>2. Verified(c)
      BY <1>1, <2>1, <2>2, <2>4, <3>1 DEF SmokeInv, ProgressInv, Needed, Writing
    <3> QED
      BY <1>1, <3>2 DEF Verified
  <2>5. smoke'.cmd \in Commands /\ smoke'.cmd # "mac"
    BY <2>1 DEF Commands
  <2>6. /\ smoke'.opts.mac \in BOOLEAN /\ smoke'.opts.memory \in BOOLEAN
        /\ smoke'.ok \in BOOLEAN /\ smoke'.executed \in BOOLEAN /\ smoke'.blind \in BOOLEAN
    BY <1>1, <2>1, SmokeRuns
  <2> QED
    BY <1>2, <2>1, <2>3, <2>4, <2>5, <2>6, BeginCommand
<1> QED
  BY <1>3, <1>4 DEF RestoreForList

(* A dump shows some of the newest cards, the field in reach or none, and  *)
(* Send only when there is a text.                                         *)
LEMMA DumpShows ==
    ASSUME ScreenOK, NEW d \in Dumps
    PROVE  /\ d.cards \in Seq(Card) /\ Len(d.cards) <= Len(screen.cards)
           /\ \A i \in DOMAIN d.cards : i \in DOMAIN screen.cards /\ d.cards[i] = screen.cards[i]
           /\ d.field \in {"?", screen[FieldInReach]}
           /\ d.send \in BOOLEAN /\ (d.send => screen.field # "")
<1>1. screen.cards \in Seq(Card)
  BY DEF ScreenOK
<1>2. CASE d = NoDump
  <2>1. d.cards = <<>> /\ d.field = "?" /\ d.send = FALSE
    BY <1>2 DEF NoDump
  <2>2. d.send \in BOOLEAN /\ ~d.send
    BY <2>1
  <2>3. d.cards \in Seq(Card) /\ Len(d.cards) = 0 /\ DOMAIN d.cards = {}
    BY <2>1
  <2>4. Len(screen.cards) \in Nat
    BY <1>1
  <2>5. Len(d.cards) <= Len(screen.cards)
    BY <2>3, <2>4
  <2>6. d.field \in {"?", screen[FieldInReach]}
    BY <2>1
  <2> QED
    BY <2>2, <2>3, <2>5, <2>6
<1>3. CASE d # NoDump
  <2>1. d \in {View(k, f, s, v) : k \in 0..Len(screen.cards), f, s, v \in BOOLEAN}
    BY <1>3 DEF Dumps
  <2>2. PICK k \in 0..Len(screen.cards), f \in BOOLEAN, s \in BOOLEAN, v \in BOOLEAN :
          d = View(k, f, s, v)
    BY <2>1
  <2>3. PICK send, field : /\ send = (s /\ SendEnabled)
                           /\ field = (IF f THEN screen[FieldInReach] ELSE "?")
    OBVIOUS
  <2>4. d = [cards |-> SubSeq(screen.cards, 1, k), field |-> field, send |-> send, setup |-> v]
    BY <2>2, <2>3 DEF View
  <2>5. d.cards = SubSeq(screen.cards, 1, k) /\ d.field = field /\ d.send = send
    BY <2>4
  <2>6. send \in BOOLEAN /\ (send => screen.field # "")
    BY <2>3 DEF SendEnabled
  <2>7. d.field \in {"?", screen[FieldInReach]} /\ d.send \in BOOLEAN /\ (d.send => screen.field # "")
    BY <2>3, <2>5, <2>6
  <2>8. k \in Int /\ Len(screen.cards) \in Nat /\ k <= Len(screen.cards) /\ 0 <= k
    BY <1>1
  <2>9. /\ SubSeq(screen.cards, 1, k) \in Seq(Card) /\ Len(SubSeq(screen.cards, 1, k)) = k
        /\ \A i \in 1..k : SubSeq(screen.cards, 1, k)[i] = screen.cards[i]
    BY <1>1, <2>8
  <2>10. /\ d.cards \in Seq(Card) /\ Len(d.cards) <= Len(screen.cards)
         /\ \A i \in DOMAIN d.cards : i \in DOMAIN screen.cards /\ d.cards[i] = screen.cards[i]
    BY <1>1, <2>5, <2>8, <2>9
  <2> QED
    BY <2>7, <2>10
<1> QED
  BY <1>2, <1>3

(* The number of cards of a command. *)
LEMMA OccurrencesNat ==
    ASSUME NEW cards \in Seq(Card), NEW c
    PROVE  /\ IsFiniteSet({i \in DOMAIN cards : cards[i].cmd = c})
           /\ Occurrences(cards, c) \in Nat
<1>1. DOMAIN cards = 1..Len(cards) /\ Len(cards) \in Nat
  OBVIOUS
<1>2. IsFiniteSet(1..Len(cards))
  BY <1>1, FS_Interval
<1>3. {i \in DOMAIN cards : cards[i].cmd = c} \subseteq 1..Len(cards)
  BY <1>1
<1>4. IsFiniteSet({i \in DOMAIN cards : cards[i].cmd = c})
  BY <1>2, <1>3, FS_Subset
<1> QED
  BY <1>4, FS_CardinalityType DEF Occurrences

(* A dump has no more cards of a command than the screen. *)
LEMMA DumpCounts ==
    ASSUME ScreenOK, NEW d \in Dumps, NEW c
    PROVE  /\ Occurrences(d.cards, c) \in Nat
           /\ Occurrences(d.cards, c) <= Occurrences(screen.cards, c)
<1>1. d.cards \in Seq(Card) /\ screen.cards \in Seq(Card)
  BY DumpShows DEF ScreenOK
<1>2. {i \in DOMAIN d.cards : d.cards[i].cmd = c} \subseteq {i \in DOMAIN screen.cards : screen.cards[i].cmd = c}
  BY DumpShows
<1> QED
  BY <1>1, <1>2, OccurrencesNat, FS_Subset DEF Occurrences

(* What the script has seen of the cards stays a number. *)
LEMMA BaselineNat ==
    ASSUME SmokeOK, smoke.pc # "idle", ScreenOK, NEW d \in Dumps
    PROVE  Baseline(d) \in Nat
BY SmokeRuns, DumpCounts DEF Baseline, Larger

(* A step that writes: the command, the run and the cards stay. *)
WroteOn ==
    /\ DOMAIN smoke' = SmokeFields /\ smoke'.pc \in Writing /\ smoke'.baseline \in Nat
    /\ smoke'.opts = smoke.opts /\ smoke'.ok = smoke.ok /\ smoke'.executed = smoke.executed
    /\ smoke'.blind = smoke.blind /\ smoke'.cmd = smoke.cmd
    /\ screen'.cards = screen.cards /\ screen'.endpoint = screen.endpoint

(* It keeps the promises when what it knows of the field stays right. *)
LEMMA WroteOnKeeps ==
    ASSUME SmokeInv, smoke.pc \in Writing, WroteOn, ScreenOK', TextInv'
    PROVE  SmokeInv'
<1>1. smoke.pc # "idle" /\ smoke'.pc # "idle" /\ SmokeOK
  BY DEF Writing, WroteOn, SmokeInv
<1>2. SmokeOK'
  <2>1. /\ smoke'.opts.mac \in BOOLEAN /\ smoke'.opts.memory \in BOOLEAN
        /\ smoke'.ok \in BOOLEAN /\ smoke'.executed \in BOOLEAN /\ smoke'.blind \in BOOLEAN
    BY <1>1, SmokeRuns DEF WroteOn
  <2> QED
    BY <1>1, <2>1 DEF WroteOn, SmokeOK
<1>3. FieldInv'
  BY DEF SmokeInv, FieldInv, WroteOn, Preparing, Linking, AtHome, Writing
<1>4. WaitInv' /\ CommandInv'
  BY DEF SmokeInv, WaitInv, CommandInv, WroteOn, Writing
<1>5. ProgressInv'
  <2>1. Needed' = Needed /\ Good' = Good
    BY <1>1 DEF Needed, Good, WroteOn
  <2>2. \A c : Verified(c)' = Verified(c)
    BY DEF Verified, WroteOn
  <2> QED
    BY <2>1, <2>2 DEF SmokeInv, ProgressInv, WroteOn
<1> QED
  BY <1>2, <1>3, <1>4, <1>5 DEF SmokeInv

(* The facts a step that writes starts from. *)
LEMMA WritingFacts ==
    ASSUME SmokeInv, smoke.pc \in Writing
    PROVE  /\ SmokeOK /\ ScreenOK /\ smoke.pc # "idle" /\ DOMAIN smoke = SmokeFields
           /\ smoke.baseline \in Nat /\ smoke.cmd \in Commands
           /\ screen.endpoint = "default" /\ FieldInReach = "field"
BY SmokeRuns DEF SmokeInv, ScreenOK, FieldInv, CommandInv, Writing, FieldInReach

(* The field is found, or searched for. *)
LEMMA FindFieldKeeps ==
    ASSUME SmokeInv, FindField
    PROVE  SmokeInv'
<1>1. smoke.pc = "find" /\ screen' = screen /\ smoke.pc \in Writing
  BY DEF FindField, At, Writing
<1>2. /\ SmokeOK /\ ScreenOK /\ smoke.pc # "idle" /\ DOMAIN smoke = SmokeFields
      /\ FieldInReach = "field"
  BY <1>1, WritingFacts
<1>3. ScreenOK'
  BY <1>1, <1>2 DEF ScreenOK
<1>4. PICK d \in Dumps :
         LET seen == [smoke EXCEPT !.baseline = Baseline(d)] IN
         IF d.field # "?" THEN smoke' = [seen EXCEPT !.pc = "type", !.seen = d.field, !.tries = 0]
         ELSE IF smoke.tries = Swipes THEN CommandDone("FAIL")
         ELSE Reveal([seen EXCEPT !.tries = @ + 1])
  BY DEF FindField
<1>5. PICK b \in Nat : b = Baseline(d)
  BY <1>2, BaselineNat
<1>6. PICK s : s = [smoke EXCEPT !.baseline = b]
  OBVIOUS
<1>7. DOMAIN s = SmokeFields /\ s.baseline = b /\ \A x \in SmokeFields \ {"baseline"} : s[x] = smoke[x]
  BY <1>2, <1>6 DEF SmokeFields
<1>8. CASE CommandDone("FAIL")
  BY <1>2, <1>3, <1>8, CommandFailsKeeps
<1>9. CASE smoke' = [s EXCEPT !.pc = "type", !.seen = d.field, !.tries = 0] /\ d.field # "?"
  <2>1. /\ DOMAIN smoke' = SmokeFields /\ smoke'.pc = "type" /\ smoke'.seen = d.field
        /\ \A x \in SmokeFields \ {"pc", "seen", "tries"} : smoke'[x] = s[x]
    BY <1>7, <1>9 DEF SmokeFields
  <2>2. WroteOn /\ smoke'.send = smoke.send
    BY <1>1, <1>7, <2>1 DEF WroteOn, SmokeFields, Writing
  <2>3. d.field = screen.field
    BY <1>2, <1>9, DumpShows
  <2>4. Good' => Good
    BY <1>2, <2>2 DEF Good, WroteOn
  <2>5. TextInv'
    BY <1>1, <2>1, <2>3, <2>4 DEF SmokeInv, TextInv
  <2> QED
    BY <1>1, <1>2, <1>3, <2>2, <2>5, WroteOnKeeps
<1>10. CASE smoke' = [s EXCEPT !.tries = @ + 1]
  <2>1. DOMAIN smoke' = SmokeFields /\ \A x \in SmokeFields \ {"tries"} : smoke'[x] = s[x]
    BY <1>7, <1>10 DEF SmokeFields
  <2>2. WroteOn /\ smoke'.send = smoke.send /\ smoke'.pc = "find"
    BY <1>1, <1>7, <2>1 DEF WroteOn, SmokeFields, Writing
  <2>3. Good' => Good
    BY <1>2, <2>2 DEF Good, WroteOn
  <2>4. TextInv'
    BY <1>1, <2>2, <2>3 DEF SmokeInv, TextInv
  <2> QED
    BY <1>1, <1>2, <1>3, <2>2, <2>4, WroteOnKeeps
<1> QED
  BY <1>4, <1>5, <1>6, <1>8, <1>9, <1>10 DEF Reveal

(* What is typed is a text. *)
LEMMA TypedTexts ==
    ASSUME NEW rest \in Texts, NEW c \in Commands, NEW text \in Typed(rest, c)
    PROVE  text \in Texts
BY DEF Typed, Texts

(* Typing changes the field in reach. *)
LEMMA TypesInto ==
    ASSUME ScreenOK, FieldInReach = "field", NEW text \in Texts,
           screen' = [screen EXCEPT ![FieldInReach] = text]
    PROVE  /\ ScreenOK' /\ screen'.cards = screen.cards /\ screen'.endpoint = screen.endpoint
           /\ screen'.field = text
<1>1. DOMAIN screen = ScreenFields
  BY DEF ScreenOK
<1>2. screen' = [screen EXCEPT !.field = text]
  OBVIOUS
<1>3. /\ DOMAIN screen' = ScreenFields /\ screen'.field = text
      /\ \A x \in ScreenFields \ {"field"} : screen'[x] = screen[x]
  BY <1>1, <1>2 DEF ScreenFields
<1> QED
  BY <1>3 DEF ScreenOK, ScreenFields

(* What is in reach is a text. *)
LEMMA ReachTexts ==
    ASSUME ScreenOK
    PROVE  screen[FieldInReach] \in Texts
BY DEF ScreenOK, FieldInReach

(* The command is typed. *)
LEMMA TypeCommandKeeps ==
    ASSUME SmokeInv, TypeCommand
    PROVE  SmokeInv'
<1>1. smoke.pc = "type" /\ smoke.pc \in Writing
  BY DEF TypeCommand, At, Writing
<1>2. /\ SmokeOK /\ ScreenOK /\ smoke.pc # "idle" /\ DOMAIN smoke = SmokeFields
      /\ smoke.baseline \in Nat /\ smoke.cmd \in Commands
      /\ FieldInReach = "field"
  BY <1>1, WritingFacts
<1>3. PICK rest \in Texts : \E r \in Outcomes, text \in Typed(rest, smoke.cmd) :
            /\ screen' = [screen EXCEPT ![FieldInReach] = text]
            /\ IF r = "FAIL" THEN CommandDone("FAIL") ELSE smoke' = [smoke EXCEPT !.pc = "check"]
  <2>1. "" \in Texts
    BY DEF Texts
  <2> QED
    BY <1>2, <2>1, ReachTexts DEF TypeCommand
<1>4. PICK r \in Outcomes, text \in Typed(rest, smoke.cmd) :
            /\ screen' = [screen EXCEPT ![FieldInReach] = text]
            /\ IF r = "FAIL" THEN CommandDone("FAIL") ELSE smoke' = [smoke EXCEPT !.pc = "check"]
  BY <1>3
<1>5. ScreenOK' /\ screen'.cards = screen.cards /\ screen'.endpoint = screen.endpoint
  BY <1>2, <1>4, TypedTexts, TypesInto
<1>6. CASE CommandDone("FAIL")
  BY <1>2, <1>5, <1>6, CommandFailsKeeps
<1>7. CASE smoke' = [smoke EXCEPT !.pc = "check"]
  <2>1. /\ DOMAIN smoke' = SmokeFields /\ smoke'.pc = "check"
        /\ \A x \in SmokeFields \ {"pc"} : smoke'[x] = smoke[x]
    BY <1>2, <1>7 DEF SmokeFields
  <2>2. WroteOn /\ smoke'.send = smoke.send /\ smoke'.seen = smoke.seen
    BY <1>2, <1>5, <2>1 DEF WroteOn, SmokeFields, Writing
  <2>3. Good' => Good
    BY <1>2, <2>2 DEF Good, WroteOn
  <2>4. Good => smoke.seen # smoke.cmd
    BY <1>1, <1>2 DEF SmokeInv, TextInv, Commands
  <2>5. TextInv'
    BY <2>1, <2>2, <2>3, <2>4 DEF TextInv, WroteOn
  <2> QED
    BY <1>1, <1>2, <1>5, <2>2, <2>5, WroteOnKeeps
<1> QED
  BY <1>4, <1>6, <1>7

(* The text found is the one seen before, or what is in reach. *)
LEMMA SeenIs ==
    ASSUME ScreenOK, NEW d \in Dumps, FieldInReach = "field"
    PROVE  SeenField(d) \in {smoke.seen, screen.field}
BY DumpShows DEF SeenField

(* What was typed is checked. *)
LEMMA CheckTypedKeeps ==
    ASSUME SmokeInv, CheckTyped
    PROVE  SmokeInv'
<1>1. smoke.pc = "check" /\ smoke.pc \in Writing
  BY DEF CheckTyped, At, Writing
<1>2. /\ SmokeOK /\ ScreenOK /\ smoke.pc # "idle" /\ DOMAIN smoke = SmokeFields
      /\ smoke.cmd \in Commands /\ FieldInReach = "field"
  BY <1>1, WritingFacts
<1>3. PICK d \in Dumps :
         LET now == [smoke EXCEPT !.baseline = Baseline(d), !.seen = SeenField(d), !.send = d.send] IN
         \/ /\ now.seen = smoke.cmd /\ smoke' = [now EXCEPT !.pc = "send"]
            /\ UNCHANGED screen
         \/ /\ now.seen # smoke.cmd /\ smoke.fallback /\ CommandDone("FAIL")
            /\ UNCHANGED screen
         \/ /\ now.seen # smoke.cmd /\ ~smoke.fallback
            /\ Reveal([now EXCEPT !.fallback = TRUE])
            /\ \E text \in Typed(screen[FieldInReach], smoke.cmd) :
                 screen' = [screen EXCEPT ![FieldInReach] = text]
  BY DEF CheckTyped
<1>4. PICK b \in Nat : b = Baseline(d)
  BY <1>2, BaselineNat
<1>5. PICK seen, send : seen = SeenField(d) /\ send = d.send
  OBVIOUS
<1>6. PICK now : now = [smoke EXCEPT !.baseline = b, !.seen = seen, !.send = send]
  OBVIOUS
<1>7. /\ DOMAIN now = SmokeFields /\ now.baseline = b /\ now.seen = seen /\ now.send = send
      /\ \A x \in SmokeFields \ {"baseline", "seen", "send"} : now[x] = smoke[x]
  BY <1>2, <1>6 DEF SmokeFields
<1>8. \/ now.seen = smoke.cmd /\ smoke' = [now EXCEPT !.pc = "send"] /\ screen' = screen
      \/ CommandDone("FAIL") /\ screen' = screen
      \/ /\ now.seen # smoke.cmd
         /\ CommandDone("FAIL") \/ smoke' = [now EXCEPT !.fallback = TRUE]
         /\ \E text \in Typed(screen[FieldInReach], smoke.cmd) :
              screen' = [screen EXCEPT ![FieldInReach] = text]
  BY <1>3, <1>4, <1>5, <1>6 DEF Reveal
<1>9. seen \in {smoke.seen, screen.field}
  BY <1>2, <1>5, SeenIs
<1>10. Good => smoke.seen # smoke.cmd
  BY <1>1 DEF SmokeInv, TextInv
<1>11. CASE now.seen = smoke.cmd /\ smoke' = [now EXCEPT !.pc = "send"] /\ screen' = screen
  <2>1. /\ DOMAIN smoke' = SmokeFields /\ smoke'.pc = "send"
        /\ \A x \in SmokeFields \ {"pc"} : smoke'[x] = now[x]
    BY <1>7, <1>11 DEF SmokeFields
  <2>2. WroteOn /\ smoke'.send = send /\ smoke'.seen = smoke.cmd
    BY <1>7, <1>11, <2>1 DEF WroteOn, SmokeFields, Writing
  <2>3. Good' => Good
    BY <1>2, <2>2 DEF Good, WroteOn
  <2>4. TextInv'
    BY <1>7, <1>9, <1>10, <1>11, <2>1, <2>2, <2>3 DEF TextInv, WroteOn
  <2>5. ScreenOK'
    BY <1>2, <1>11 DEF ScreenOK
  <2> QED
    BY <1>1, <1>9, <1>11, <2>2, <2>4, <2>5, WroteOnKeeps
<1>12. CASE CommandDone("FAIL") /\ screen' = screen
  <2>1. ScreenOK'
    BY <1>2, <1>12 DEF ScreenOK
  <2> QED
    BY <1>2, <1>12, <2>1, CommandFailsKeeps
<1>13. CASE /\ now.seen # smoke.cmd
            /\ CommandDone("FAIL") \/ smoke' = [now EXCEPT !.fallback = TRUE]
            /\ \E text \in Typed(screen[FieldInReach], smoke.cmd) :
                 screen' = [screen EXCEPT ![FieldInReach] = text]
  <2>1. PICK text \in Typed(screen[FieldInReach], smoke.cmd) :
          screen' = [screen EXCEPT ![FieldInReach] = text]
    BY <1>13
  <2>2. ScreenOK' /\ screen'.cards = screen.cards /\ screen'.endpoint = screen.endpoint
    BY <1>2, <2>1, ReachTexts, TypedTexts, TypesInto
  <2>3. CASE CommandDone("FAIL")
    BY <1>2, <2>2, <2>3, CommandFailsKeeps
  <2>4. CASE smoke' = [now EXCEPT !.fallback = TRUE]
    <3>1. DOMAIN smoke' = SmokeFields /\ \A x \in SmokeFields \ {"fallback"} : smoke'[x] = now[x]
      BY <1>7, <2>4 DEF SmokeFields
    <3>2. WroteOn /\ smoke'.send = send /\ smoke'.seen = seen /\ smoke'.pc = "check"
      BY <1>1, <1>7, <2>2, <3>1 DEF WroteOn, SmokeFields, Writing
    <3>3. TextInv'
      BY <1>7, <1>13, <3>2 DEF TextInv, WroteOn
    <3> QED
      BY <1>1, <1>9, <2>2, <3>2, <3>3, WroteOnKeeps
  <2> QED
    BY <1>13, <2>3, <2>4
<1> QED
  BY <1>8, <1>11, <1>12, <1>13

(* Send comes into view. *)
LEMMA RevealSendKeeps ==
    ASSUME SmokeInv, RevealSend
    PROVE  SmokeInv'
<1>1. smoke.pc = "send" /\ smoke.pc \in Writing /\ screen' = screen
  BY DEF RevealSend, At, Writing
<1>2. /\ SmokeOK /\ ScreenOK /\ smoke.pc # "idle" /\ DOMAIN smoke = SmokeFields
      /\ FieldInReach = "field"
  BY <1>1, WritingFacts
<1>3. ScreenOK'
  BY <1>1, <1>2 DEF ScreenOK
<1>4. CASE CommandDone("FAIL")
  BY <1>2, <1>3, <1>4, CommandFailsKeeps
<1>5. ASSUME NEW d \in Dumps,
             smoke' = [smoke EXCEPT !.baseline = Baseline(d), !.seen = SeenField(d), !.send = d.send,
                                    !.tries = @ + 1]
      PROVE  SmokeInv'
  <2>1. PICK b \in Nat : b = Baseline(d)
    BY <1>2, BaselineNat
  <2>2. PICK seen, send : seen = SeenField(d) /\ send = d.send
    OBVIOUS
  <2>3. smoke' = [smoke EXCEPT !.baseline = b, !.seen = seen, !.send = send, !.tries = @ + 1]
    BY <1>5, <2>1, <2>2
  <2>4. /\ DOMAIN smoke' = SmokeFields /\ smoke'.baseline = b /\ smoke'.seen = seen /\ smoke'.send = send
        /\ \A x \in SmokeFields \ {"baseline", "seen", "send", "tries"} : smoke'[x] = smoke[x]
    BY <1>2, <2>3 DEF SmokeFields
  <2>5. WroteOn /\ smoke'.pc = "send"
    BY <1>1, <2>4 DEF WroteOn, SmokeFields, Writing
  <2>6. seen \in {smoke.seen, screen.field}
    BY <1>2, <2>2, SeenIs
  <2>7. Good' => Good
    BY <1>2, <2>5 DEF Good, WroteOn
  <2>8. Good => smoke.seen = smoke.cmd /\ screen.field = smoke.cmd
    BY <1>1 DEF SmokeInv, TextInv
  <2>9. TextInv'
    BY <1>1, <2>4, <2>5, <2>6, <2>7, <2>8 DEF TextInv, WroteOn
  <2> QED
    BY <1>1, <1>3, <2>4, <2>5, <2>6, <2>9, WroteOnKeeps
<1> QED
  BY <1>4, <1>5 DEF RevealSend, Reveal

(* The text has changed, or the deadline of the result has passed. *)
LEMMA GivesUpKeeps ==
    ASSUME SmokeInv, TextChanged \/ ResultDeadline
    PROVE  SmokeInv'
<1>1. smoke.pc # "idle" /\ screen' = screen /\ CommandDone("FAIL")
  BY DEF TextChanged, ResultDeadline, At
<1>2. ScreenOK'
  BY <1>1 DEF SmokeInv, ScreenOK
<1> QED
  BY <1>1, <1>2, CommandFailsKeeps

(* A card changes its state: whose it is, and of which command, stays. *)
CardMoved ==
    /\ ScreenOK' /\ \A x \in ScreenFields \ {"cards"} : screen'[x] = screen[x]
    /\ \A c : Verified(c) => Verified(c)'
    /\ \A c : Occurrences(screen'.cards, c) = Occurrences(screen.cards, c)
    /\ screen.cards # <<>> => /\ screen'.cards # <<>>
                              /\ screen'.cards[1].cmd = screen.cards[1].cmd
                              /\ screen'.cards[1].by = screen.cards[1].by

(* An active card that becomes another one's state. *)
LEMMA CardMoves ==
    ASSUME ScreenOK, NEW i \in DOMAIN screen.cards, screen.cards[i].state \in Active,
           NEW s \in Active \cup {"verified", "failed"}, screen' = [screen EXCEPT !.cards[i].state = s]
    PROVE  CardMoved
<1>1. screen.cards \in Seq(Card) /\ DOMAIN screen = ScreenFields
  BY DEF ScreenOK
<1>2. DOMAIN screen.cards = 1..Len(screen.cards) /\ screen.cards[i] \in Card
  BY <1>1
<1>3. PICK card : card = [screen.cards[i] EXCEPT !.state = s]
  OBVIOUS
<1>4. card \in Card /\ card.cmd = screen.cards[i].cmd /\ card.by = screen.cards[i].by
  BY <1>2, <1>3 DEF Card
<1>5. PICK cards : cards = [screen.cards EXCEPT ![i] = card]
  OBVIOUS
<1>6. cards \in Seq(Card) /\ Len(cards) = Len(screen.cards)
  BY <1>1, <1>4, <1>5
<1>7. /\ DOMAIN cards = DOMAIN screen.cards /\ cards[i] = card
      /\ \A j \in DOMAIN screen.cards : j # i => cards[j] = screen.cards[j]
  BY <1>1, <1>5
<1>8. screen' = [screen EXCEPT !.cards = cards]
  BY <1>3, <1>5
<1>9. /\ DOMAIN screen' = ScreenFields /\ screen'.cards = cards
      /\ \A x \in ScreenFields \ {"cards"} : screen'[x] = screen[x]
  BY <1>1, <1>8 DEF ScreenFields
<1>10. ScreenOK'
  BY <1>6, <1>9 DEF ScreenOK, ScreenFields
<1>11. \A j \in DOMAIN screen.cards :
         cards[j].cmd = screen.cards[j].cmd /\ cards[j].by = screen.cards[j].by
  BY <1>4, <1>7
<1>12. ASSUME NEW c, Verified(c)
       PROVE  Verified(c)'
  <2>1. PICK j \in DOMAIN screen.cards :
          /\ screen.cards[j].cmd = c /\ screen.cards[j].by = "smoke"
          /\ screen.cards[j].state = "verified"
    BY <1>12 DEF Verified
  <2>2. j # i
    BY <2>1 DEF Active
  <2>3. cards[j] = screen.cards[j] /\ j \in DOMAIN cards
    BY <1>7, <2>2
  <2> QED
    BY <1>9, <2>1, <2>3 DEF Verified
<1>13. ASSUME NEW c
       PROVE  Occurrences(screen'.cards, c) = Occurrences(screen.cards, c)
  <2>1. {j \in DOMAIN cards : cards[j].cmd = c} = {j \in DOMAIN screen.cards : screen.cards[j].cmd = c}
    BY <1>7, <1>11
  <2> QED
    BY <1>9, <2>1 DEF Occurrences
<1>14. ASSUME screen.cards # <<>>
       PROVE  /\ screen'.cards # <<>>
              /\ screen'.cards[1].cmd = screen.cards[1].cmd
              /\ screen'.cards[1].by = screen.cards[1].by
  <2>1. 1 \in DOMAIN screen.cards
    BY <1>1, <1>14
  <2>2. cards # <<>>
    BY <1>7, <2>1
  <2> QED
    BY <1>9, <1>11, <2>1, <2>2
<1> QED
  BY <1>9, <1>10, <1>12, <1>13, <1>14 DEF CardMoved

(* The script stays where it is while a card changes. *)
SameRun ==
    /\ smoke'.pc = smoke.pc
    /\ smoke.pc # "idle" => /\ smoke'.opts = smoke.opts /\ smoke'.ok = smoke.ok
                            /\ smoke'.executed = smoke.executed /\ smoke'.blind = smoke.blind
                            /\ smoke'.cmd = smoke.cmd /\ smoke'.baseline = smoke.baseline
                            /\ smoke'.seen = smoke.seen /\ smoke'.send = smoke.send

(* Then the promises stay. *)
LEMMA CardMovedKeeps ==
    ASSUME SmokeInv, SmokeOK', SameRun, CardMoved
    PROVE  SmokeInv'
<1>1. /\ screen'.field = screen.field /\ screen'.endpoint = screen.endpoint /\ ScreenOK'
  BY DEF CardMoved, ScreenFields
<1>2. Good' <=> Good
  BY DEF Good, SameRun
<1>3. FieldInv'
  BY <1>1 DEF SmokeInv, FieldInv, SameRun, Preparing, Linking, AtHome, Writing
<1>4. TextInv'
  BY <1>1, <1>2 DEF SmokeInv, TextInv, SameRun
<1>5. WaitInv'
  <2> SUFFICES ASSUME Good', smoke'.pc = "wait"
               PROVE  Landed' \/ Covered'
    BY DEF WaitInv
  <2>1. Landed \/ Covered
    BY <1>2 DEF SmokeInv, WaitInv, SameRun
  <2>2. CASE Landed
    BY <1>1, <2>2 DEF Landed, SameRun, CardMoved
  <2>3. CASE Covered
    BY <2>3 DEF Covered, SameRun, CardMoved
  <2> QED
    BY <2>1, <2>2, <2>3
<1>6. CommandInv'
  BY DEF SmokeInv, CommandInv, SameRun, Writing
<1>7. ProgressInv'
  <2> SUFFICES ASSUME Good', smoke'.executed, NEW c \in Needed'
               PROVE  Verified(c)'
    BY DEF ProgressInv
  <2>1. smoke.pc # "idle"
    BY <1>2 DEF Good
  <2>2. Needed' = Needed /\ smoke.executed
    BY <2>1 DEF Needed, SameRun
  <2>3. Verified(c)
    BY <1>2, <2>2 DEF SmokeInv, ProgressInv
  <2> QED
    BY <2>3 DEF CardMoved
<1> QED
  BY <1>1, <1>3, <1>4, <1>5, <1>6, <1>7 DEF SmokeInv

(* A screen that stays is no exception. *)
LEMMA CardUnmoved ==
    ASSUME ScreenOK, screen' = screen
    PROVE  CardMoved
<1>1. ScreenOK'
  BY DEF ScreenOK
<1>2. \A c : Verified(c) => Verified(c)'
  BY DEF Verified
<1> QED
  BY <1>1, <1>2 DEF CardMoved

(* A task of the app ends. *)
LEMMA TaskEndsKeeps ==
    ASSUME SmokeInv, TaskEnds
    PROVE  SmokeInv'
<1>1. SmokeOK' /\ SameRun
  BY DEF TaskEnds, SmokeInv, SmokeOK, SameRun
<1>2. CardMoved
  BY CardMoves DEF TaskEnds, SmokeInv
<1> QED
  BY <1>1, <1>2, CardMovedKeeps

(* The approval is tapped. *)
LEMMA ApproveKeeps ==
    ASSUME SmokeInv, Approve
    PROVE  SmokeInv'
<1>1. smoke.pc = "wait" /\ SmokeOK /\ ScreenOK
  BY DEF Approve, At, SmokeInv
<1>2. CASE CommandDone("FAIL") /\ screen' = screen
  <2>1. ScreenOK'
    BY <1>1, <1>2 DEF ScreenOK
  <2> QED
    BY <1>1, <1>2, <2>1, CommandFailsKeeps
<1>3. CASE /\ smoke' = [smoke EXCEPT !.approved = TRUE]
           /\ \/ screen' = screen
              \/ \E i \in DOMAIN screen.cards :
                   /\ screen.cards[i].state = "approval"
                   /\ screen' = [screen EXCEPT !.cards[i].state = "running"]
  <2>1. DOMAIN smoke' = SmokeFields /\ \A x \in SmokeFields \ {"approved"} : smoke'[x] = smoke[x]
    BY <1>1, <1>3, SmokeRuns DEF SmokeFields
  <2>2. SmokeOK' /\ SameRun
    BY <1>1, <2>1, SmokeRuns DEF SmokeOK, SameRun, SmokeFields
  <2>3. CardMoved
    BY <1>1, <1>3, CardMoves, CardUnmoved DEF Active
  <2> QED
    BY <2>2, <2>3, CardMovedKeeps
<1> QED
  BY <1>2, <1>3 DEF Approve

(* Send is tapped: the command becomes the newest card, or the tap is      *)
(* lost.                                                                   *)
LEMMA TapSendKeeps ==
    ASSUME SmokeInv, TapSend
    PROVE  SmokeInv'
<1>1. smoke.pc = "send" /\ smoke.pc \in Writing /\ smoke.send
  BY DEF TapSend, At, Writing
<1>2. /\ SmokeOK /\ ScreenOK /\ smoke.pc # "idle" /\ DOMAIN smoke = SmokeFields
      /\ smoke.baseline \in Nat /\ smoke.cmd \in Commands
      /\ screen.endpoint = "default"
  BY <1>1, WritingFacts
<1>4. ASSUME ScreenOK', screen'.endpoint = screen.endpoint, NEW blind \in BOOLEAN, smoke.blind => blind,
             smoke' = [smoke EXCEPT !.pc = "wait", !.tries = 0, !.blind = blind],
             Good' => Landed' \/ Covered', \A c : Verified(c) => Verified(c)'
      PROVE  SmokeInv'
  <2>1. /\ DOMAIN smoke' = SmokeFields /\ smoke'.pc = "wait" /\ smoke'.blind = blind
        /\ \A x \in SmokeFields \ {"pc", "tries", "blind"} : smoke'[x] = smoke[x]
    BY <1>2, <1>4 DEF SmokeFields
  <2>2. SmokeOK'
    BY <1>2, <1>4, <2>1, SmokeRuns DEF SmokeOK, SmokeFields
  <2>3. Good' => Good
    BY <1>2, <1>4, <2>1 DEF Good, SmokeFields
  <2>4. FieldInv' /\ TextInv' /\ WaitInv'
    BY <1>2, <1>4, <2>1 DEF FieldInv, TextInv, WaitInv, Preparing, Linking, AtHome, Writing
  <2>5. CommandInv'
    BY <1>1, <2>1 DEF SmokeInv, CommandInv, SmokeFields
  <2>6. Needed' = Needed
    BY <1>1, <2>1 DEF Needed, SmokeFields
  <2>7. ProgressInv'
    BY <1>4, <2>1, <2>3, <2>6 DEF SmokeInv, ProgressInv, SmokeFields
  <2> QED
    BY <1>4, <2>2, <2>4, <2>5, <2>7 DEF SmokeInv
<1>5. CASE CommandDone("FAIL") /\ screen' = screen
  <2>1. ScreenOK'
    BY <1>2, <1>5 DEF ScreenOK
  <2> QED
    BY <1>2, <1>5, <2>1, CommandFailsKeeps
<1>6. CASE /\ smoke' = [smoke EXCEPT !.pc = "wait", !.tries = 0]
           /\ screen' = Submitted(screen.field, "smoke")
  <2>1. screen.field \in Texts
    BY <1>2 DEF ScreenOK
  <2>2. /\ ScreenOK' /\ screen'.field = "" /\ screen'.endpoint = screen.endpoint
        /\ screen'.cards # <<>> /\ screen'.cards[1].cmd = screen.field /\ screen'.cards[1].by = "smoke"
        /\ Len(screen'.cards) = Len(screen.cards) + 1
        /\ \A i \in DOMAIN screen.cards : screen'.cards[i + 1] = screen.cards[i]
    BY <1>2, <1>6, <2>1, SubmittedShows DEF ScreenFields
  <2>3. ASSUME NEW c, Verified(c)
        PROVE  Verified(c)'
    <3>1. PICK i \in DOMAIN screen.cards :
            /\ screen.cards[i].cmd = c /\ screen.cards[i].by = "smoke"
            /\ screen.cards[i].state = "verified"
      BY <2>3 DEF Verified
    <3>2. screen'.cards[i + 1] = screen.cards[i]
      BY <2>2
    <3>3. i + 1 \in DOMAIN screen'.cards
      <4>1. screen.cards \in Seq(Card) /\ screen'.cards \in Seq(Card)
        BY <1>2, <2>2 DEF ScreenOK
      <4>2. /\ DOMAIN screen.cards = 1..Len(screen.cards) /\ Len(screen.cards) \in Nat
            /\ DOMAIN screen'.cards = 1..Len(screen'.cards)
        BY <4>1
      <4>3. DOMAIN screen'.cards = 1..(Len(screen.cards) + 1)
        BY <2>2, <4>2
      <4> QED
        BY <4>2, <4>3
    <3> QED
      BY <3>1, <3>2, <3>3 DEF Verified
  <2>4. smoke' = [smoke EXCEPT !.pc = "wait", !.tries = 0, !.blind = smoke.blind]
    BY <1>2, <1>6 DEF SmokeFields
  <2>5. smoke'.cmd = smoke.cmd /\ smoke'.ok = smoke.ok /\ smoke'.blind = smoke.blind
    BY <1>2, <1>6 DEF SmokeFields
  <2>6. Good' => Landed'
    <3>1. Good' => Good
      BY <1>2, <2>5 DEF Good
    <3>2. Good => screen.field = smoke.cmd
      BY <1>1 DEF SmokeInv, TextInv
    <3> QED
      BY <2>2, <2>5, <3>1, <3>2 DEF Landed
  <2>7. smoke.blind \in BOOLEAN
    BY <1>2, SmokeRuns
  <2> QED
    BY <1>4, <2>2, <2>3, <2>4, <2>6, <2>7
<1>7. CASE /\ smoke' = [smoke EXCEPT !.pc = "wait", !.tries = 0,
                           !.blind = @ \/ smoke.baseline < Occurrences(screen.cards, smoke.cmd)]
           /\ screen' = screen
  <2>1. PICK blind : blind = (smoke.blind \/ smoke.baseline < Occurrences(screen.cards, smoke.cmd))
    OBVIOUS
  <2>2. blind \in BOOLEAN /\ (smoke.blind => blind)
        /\ (~blind => ~(smoke.baseline < Occurrences(screen.cards, smoke.cmd)))
    BY <2>1
  <2>3. smoke' = [smoke EXCEPT !.pc = "wait", !.tries = 0, !.blind = blind]
    BY <1>7, <2>1
  <2>4. smoke'.cmd = smoke.cmd /\ smoke'.baseline = smoke.baseline /\ smoke'.blind = blind
    BY <1>2, <2>3 DEF SmokeFields
  <2>5. Occurrences(screen.cards, smoke.cmd) \in Nat
    BY <1>2, OccurrencesNat DEF ScreenOK
  <2>6. ~blind => Occurrences(screen.cards, smoke.cmd) <= smoke.baseline
    <3>1. \A m, n \in Nat : ~(m < n) => n <= m
      OBVIOUS
    <3>2. smoke.baseline \in Nat
      BY <1>2
    <3> QED
      BY <2>2, <2>5, <3>1, <3>2, Zenon
  <2>7. Good' => Covered'
    BY <1>7, <2>4, <2>6 DEF Good, Covered
  <2>8. ScreenOK' /\ \A c : Verified(c) => Verified(c)'
    BY <1>2, <1>7 DEF ScreenOK, Verified
  <2> QED
    BY <1>4, <1>7, <2>2, <2>3, <2>7, <2>8
<1> QED
  BY <1>5, <1>6, <1>7 DEF TapSend

(* A fresh result of the command is the script's own. *)
LEMMA FreshIsOwn ==
    ASSUME SmokeInv, smoke.pc = "wait", Good, NEW d \in Dumps, Fresh(d),
           WindowShows(d, smoke.cmd, "verified")
    PROVE  Verified(smoke.cmd) /\ screen.field = ""
<1>1. ScreenOK /\ screen.cards \in Seq(Card) /\ d.cards \in Seq(Card) /\ smoke.baseline \in Nat
  BY DumpShows, SmokeRuns DEF SmokeInv, ScreenOK
<1>2. ~Covered
  <2>1. Occurrences(screen.cards, smoke.cmd) \in Nat
    BY <1>1, OccurrencesNat
  <2> QED
    BY <1>1, <2>1, DumpCounts DEF Fresh, Covered
<1>3. Landed
  BY <1>2 DEF SmokeInv, WaitInv
<1>4. PICK i \in DOMAIN d.cards :
        /\ d.cards[i].cmd = smoke.cmd /\ d.cards[i].state = "verified"
        /\ \A j \in 1..(i - 1) : d.cards[j].cmd # smoke.cmd
  BY DEF WindowShows
<1>5. i \in 1..Len(d.cards) /\ 1 \in DOMAIN d.cards /\ 1 \in DOMAIN screen.cards
  <2>1. DOMAIN d.cards = 1..Len(d.cards) /\ Len(d.cards) \in Nat
    BY <1>1
  <2>2. i \in 1..Len(d.cards) /\ 1 \in DOMAIN d.cards
    BY <2>1
  <2> QED
    BY <1>1, <2>2, DumpShows
<1>6. d.cards[1].cmd = smoke.cmd
  BY <1>1, <1>3, <1>5, DumpShows DEF Landed
<1>7. i = 1
  BY <1>4, <1>5, <1>6
<1>8. screen.cards[1].state = "verified"
  BY <1>1, <1>4, <1>5, <1>7, DumpShows
<1> QED
  BY <1>3, <1>5, <1>8 DEF Landed, Verified

(* What follows a command that was verified. *)
LEMMA SeesResultKeeps ==
    ASSUME SmokeInv, SeesResult
    PROVE  SmokeInv'
<1>1. smoke.pc = "wait" /\ SmokeOK /\ ScreenOK /\ screen' = screen
  BY DEF SeesResult, At, SmokeInv
<1>2. ScreenOK' /\ \A c : Verified(c) => Verified(c)'
  BY <1>1 DEF ScreenOK, Verified
<1>3. Good => Verified(smoke.cmd) /\ screen.field = ""
  BY <1>1, FreshIsOwn DEF SeesResult
<1>4. /\ smoke.cmd \in Commands /\ screen.endpoint = "default"
      /\ smoke.cmd \in {"remember", "memories"} => smoke.opts.memory
      /\ smoke.cmd = "mac" => smoke.opts.mac
  BY <1>1 DEF SmokeInv, CommandInv, FieldInv
<1>5. Good /\ smoke.executed => \A c \in Before(smoke.cmd, smoke.opts) \cup {smoke.cmd} : Verified(c)'
  BY <1>1, <1>2, <1>3 DEF SmokeInv, ProgressInv, Needed
<1>6. PICK macOk : macOk = (smoke.cmd = "mac")
  OBVIOUS
<1>7. PICK s : s = [smoke EXCEPT !.macOk = macOk]
  OBVIOUS
<1>8. /\ DOMAIN s = SmokeFields /\ s.opts = smoke.opts /\ s.ok = smoke.ok
      /\ s.executed = smoke.executed /\ s.blind = smoke.blind
  BY <1>1, <1>7, SmokeRuns DEF SmokeFields
<1>9. smoke' = AfterCommand(s, smoke.cmd)
  BY <1>6, <1>7 DEF SeesResult, CommandDone
<1>10. /\ smoke.opts.mac \in BOOLEAN /\ smoke.opts.memory \in BOOLEAN
       /\ smoke.ok \in BOOLEAN /\ smoke.executed \in BOOLEAN /\ smoke.blind \in BOOLEAN
  BY <1>1, SmokeRuns
<1>11. ASSUME NEW c \in Commands, smoke' = Command(s, c),
              c \in {"remember", "memories"} => smoke.opts.memory, c = "mac" => smoke.opts.mac,
              Before(c, smoke.opts) \subseteq Before(smoke.cmd, smoke.opts) \cup {smoke.cmd}
       PROVE  SmokeInv'
  <2>1. /\ DOMAIN smoke' = SmokeFields
        /\ smoke'.pc = "find" /\ smoke'.cmd = c /\ smoke'.baseline \in Nat /\ smoke'.send = FALSE
        /\ smoke'.opts = s.opts /\ smoke'.ok = s.ok /\ smoke'.executed = s.executed
        /\ smoke'.blind = s.blind
    BY <1>8, <1>11, CommandStarts
  <2>2. /\ smoke'.opts = smoke.opts /\ smoke'.ok = smoke.ok /\ smoke'.executed = smoke.executed
        /\ smoke'.blind = smoke.blind
    BY <1>8, <2>1
  <2>3. Good' => Good
    BY <1>1, <2>2 DEF Good
  <2>4. Good' => screen'.field \in {"", "other"}
    BY <1>1, <1>3, <2>3
  <2>5. Good' /\ smoke'.executed => \A b \in Before(smoke'.cmd, smoke'.opts) : Verified(b)'
    BY <1>5, <1>11, <2>1, <2>2, <2>3
  <2>6. /\ smoke'.opts.mac \in BOOLEAN /\ smoke'.opts.memory \in BOOLEAN
        /\ smoke'.ok \in BOOLEAN /\ smoke'.executed \in BOOLEAN /\ smoke'.blind \in BOOLEAN
    BY <1>10, <2>2
  <2>7. /\ smoke'.cmd \in {"remember", "memories"} => smoke'.opts.memory
        /\ smoke'.cmd = "mac" => smoke'.opts.mac
        /\ smoke'.cmd \in Commands /\ screen'.endpoint = "default"
    BY <1>1, <1>4, <1>11, <2>1, <2>2
  <2> QED
    BY <1>2, <2>1, <2>4, <2>5, <2>6, <2>7, BeginCommand
<1>12. ASSUME NEW next \in {"again", "capture"}, smoke' = [Capture(s) EXCEPT !.pc = next],
              next = "again" => smoke.cmd = "remember",
              next = "capture" => Asked(smoke.opts) \subseteq Before(smoke.cmd, smoke.opts) \cup {smoke.cmd}
       PROVE  SmokeInv'
  <2>1. /\ DOMAIN smoke' = SmokeFields /\ smoke'.pc = next /\ smoke'.baseline \in Nat
        /\ smoke'.opts = s.opts /\ smoke'.ok = s.ok /\ smoke'.executed = s.executed
        /\ smoke'.blind = s.blind
    BY <1>8, <1>12, CaptureStarts
  <2>2. /\ smoke'.opts = smoke.opts /\ smoke'.ok = smoke.ok /\ smoke'.executed = smoke.executed
        /\ smoke'.blind = smoke.blind
    BY <1>8, <2>1
  <2>3. Good' => Good
    BY <1>1, <2>2 DEF Good
  <2>4. SmokeOK'
    <3>1. /\ smoke'.opts.mac \in BOOLEAN /\ smoke'.opts.memory \in BOOLEAN
          /\ smoke'.ok \in BOOLEAN /\ smoke'.executed \in BOOLEAN /\ smoke'.blind \in BOOLEAN
      BY <1>10, <2>2
    <3>2. smoke'.pc # "idle"
      BY <2>1
    <3> QED
      BY <2>1, <3>1, <3>2 DEF SmokeOK
  <2>5. FieldInv'
    BY <1>1, <1>4, <2>1 DEF FieldInv, Preparing, Linking, AtHome, Writing
  <2>6. TextInv' /\ WaitInv'
    BY <1>1, <1>3, <2>1, <2>3 DEF TextInv, WaitInv
  <2>7. CommandInv'
    BY <1>4, <1>12, <2>1, <2>2 DEF CommandInv, Writing
  <2>8. Needed' \subseteq Before(smoke.cmd, smoke.opts) \cup {smoke.cmd}
    <3>1. CASE next = "again"
      <4>1. Needed' = {"battery", "remember"}
        BY <2>1, <3>1 DEF Needed, Writing
      <4> QED
        BY <1>12, <3>1, <4>1 DEF Before
    <3>2. CASE next = "capture"
      <4>1. Needed' = Asked(smoke.opts)
        BY <2>1, <2>2, <3>2 DEF Needed, Writing
      <4> QED
        BY <1>12, <3>2, <4>1
    <3> QED
      BY <3>1, <3>2
  <2>9. ProgressInv'
    BY <1>5, <2>2, <2>3, <2>8 DEF ProgressInv
  <2> QED
    BY <1>2, <2>4, <2>5, <2>6, <2>7, <2>9 DEF SmokeInv
<1>13. CASE smoke.cmd = "battery" /\ smoke.opts.memory
  <2>1. smoke' = Command(s, "remember")
    BY <1>8, <1>9, <1>13 DEF AfterCommand
  <2>2. Before("remember", smoke.opts) = {"battery"} /\ "remember" \in Commands
    BY DEF Before, Commands
  <2> QED
    BY <1>11, <1>13, <2>1, <2>2
<1>14. CASE smoke.cmd = "remember"
  <2>1. smoke' = [Capture(s) EXCEPT !.pc = "again"]
    BY <1>9, <1>14 DEF AfterCommand
  <2> QED
    BY <1>12, <1>14, <2>1
<1>15. CASE smoke.cmd \in {"battery", "memories"} /\ smoke.opts.mac /\ ~(smoke.cmd = "battery" /\ smoke.opts.memory)
  <2>1. smoke' = Command(s, "mac")
    BY <1>8, <1>9, <1>15 DEF AfterCommand
  <2>2. Before("mac", smoke.opts) \subseteq Before(smoke.cmd, smoke.opts) \cup {smoke.cmd}
    BY <1>15 DEF Before, Asked
  <2>3. "mac" \in Commands
    BY DEF Commands
  <2> QED
    BY <1>11, <1>15, <2>1, <2>2, <2>3
<1>16. CASE /\ smoke.cmd # "remember" /\ ~(smoke.cmd = "battery" /\ smoke.opts.memory)
            /\ ~(smoke.cmd \in {"battery", "memories"} /\ smoke.opts.mac)
  <2>1. smoke' = Capture(s)
    BY <1>8, <1>9, <1>16 DEF AfterCommand
  <2>2. smoke' = [Capture(s) EXCEPT !.pc = "capture"]
    BY <1>8, <2>1, CaptureIs
  <2>3. Asked(smoke.opts) \subseteq Before(smoke.cmd, smoke.opts) \cup {smoke.cmd}
    BY <1>4, <1>16 DEF Before, Asked, Commands
  <2> QED
    BY <1>12, <2>2, <2>3
<1> QED
  BY <1>13, <1>14, <1>15, <1>16

(* The screenshot and the log: both must succeed. *)
LEMMA CapturesKeeps ==
    ASSUME SmokeInv, Captures
    PROVE  SmokeInv'
<1>1. smoke.pc = "capture" /\ SmokeOK /\ ScreenOK /\ screen' = screen
  BY DEF Captures, At, SmokeInv
<1>2. ScreenOK' /\ \A c : Verified(c) => Verified(c)'
  BY <1>1 DEF ScreenOK, Verified
<1>3. PICK shot, log : smoke' = [smoke EXCEPT !.pc = "report", !.ok = @ /\ "FAIL" \notin {shot, log}]
  BY DEF Captures
<1>4. PICK ok : ok = (smoke.ok /\ "FAIL" \notin {shot, log})
  OBVIOUS
<1>5. ok \in BOOLEAN /\ (ok => smoke.ok)
  BY <1>4
<1>6. smoke' = [smoke EXCEPT !.pc = "report", !.ok = ok]
  BY <1>3, <1>4
<1>7. /\ DOMAIN smoke' = SmokeFields /\ smoke'.pc = "report" /\ smoke'.ok = ok
      /\ \A x \in SmokeFields \ {"pc", "ok"} : smoke'[x] = smoke[x]
  BY <1>1, <1>6, SmokeRuns DEF SmokeFields
<1>8. SmokeOK'
  BY <1>1, <1>5, <1>7, SmokeRuns DEF SmokeOK, SmokeFields
<1>9. Good' => Good
  BY <1>1, <1>5, <1>7 DEF Good, SmokeFields
<1>10. Needed' = Needed /\ smoke'.executed = smoke.executed
  BY <1>1, <1>7 DEF Needed, SmokeFields, Writing
<1>11. ProgressInv'
  BY <1>2, <1>9, <1>10 DEF SmokeInv, ProgressInv
<1>12. FieldInv' /\ TextInv' /\ WaitInv' /\ CommandInv'
  BY <1>7 DEF FieldInv, TextInv, WaitInv, CommandInv, Preparing, Linking, AtHome, Writing
<1> QED
  BY <1>2, <1>8, <1>11, <1>12 DEF SmokeInv

(* A script that is idle, and an app as it starts. *)
LEMMA IdleOK ==
    ASSUME NEW linked
    PROVE  /\ smoke' = SmokeIdle /\ screen' = Blank(linked) => SmokeInv' /\ screen'.token = "none"
           /\ smoke = SmokeIdle /\ screen = Blank(linked) => SmokeInv /\ screen.token = "none"
<1>1. /\ DOMAIN Blank(linked) = ScreenFields /\ Blank(linked).cards = <<>>
      /\ Blank(linked).field = "" /\ Blank(linked).endpoint = "default"
      /\ Blank(linked).token = "none"
  BY DEF Blank, ScreenFields
<1>2. <<>> \in Seq(Card) /\ "" \in Texts
  BY DEF Texts
<1>3. SmokeIdle.pc = "idle"
  BY DEF SmokeIdle
<1>4. ASSUME smoke' = SmokeIdle, screen' = Blank(linked)
      PROVE  SmokeInv'
  <2>1. ScreenOK' /\ SmokeOK'
    BY <1>1, <1>2, <1>4 DEF ScreenOK, SmokeOK
  <2>2. smoke'.pc = "idle" /\ screen'.field = ""
    BY <1>1, <1>3, <1>4
  <2>3. FieldInv'
    BY <2>2 DEF FieldInv, Preparing, Linking, AtHome, Writing
  <2> QED
    BY <2>1, <2>2, <2>3, BeforeCommands DEF Preparing
<1>5. ASSUME smoke = SmokeIdle, screen = Blank(linked)
      PROVE  SmokeInv
  <2>1. ScreenOK /\ SmokeOK
    BY <1>1, <1>2, <1>5 DEF ScreenOK, SmokeOK
  <2>2. smoke.pc = "idle" /\ screen.field = ""
    BY <1>1, <1>3, <1>5
  <2> QED
    BY <2>1, <2>2 DEF SmokeInv, FieldInv, TextInv, WaitInv, CommandInv, ProgressInv, Good, Preparing,
                      Linking, AtHome, Writing
<1> QED
  BY <1>1, <1>4, <1>5

(* Every step of the lab keeps the promises of the smoke. *)
LEMMA SmokeInvStep ==
    ASSUME SmokeInv, [LabNext]_labVars
    PROVE  SmokeInv'
<1>1. CASE UNCHANGED smokeVars
  <2>1. smoke' = smoke /\ screen' = screen
    BY <1>1 DEF smokeVars
  <2>2. SmokeOK' /\ SameRun
    BY <2>1 DEF SmokeInv, SmokeOK, SameRun
  <2> QED
    BY <2>1, <2>2, CardUnmoved, CardMovedKeeps DEF SmokeInv
<1>2. CASE SmokeNext
  <2>1. CASE \E o \in Options : StartSmoke(o)
    BY <2>1, StartSmokeKeeps
  <2>2. CASE EndSmoke
    BY <2>2, IdleOK DEF EndSmoke
  <2>3. CASE \/ RunSetup \/ Launch \/ VerifyPaired \/ SeesPaired \/ PairedDeadline
             \/ OpenSetup \/ FocusToken \/ TypeToken \/ TapDebugLink
    BY <2>3, RunSetupKeeps, LaunchKeeps, VerifyPairedKeeps, WaitPairedKeeps, DebugLinkKeeps
  <2>4. CASE \/ CollapseSetup \/ RestoreHome \/ DumpLaunched \/ HomeSurface \/ DeviceMap
             \/ RestoreForList
    BY <2>4, HomeKeeps, DeviceMapKeeps, RestoreForListKeeps
  <2>5. CASE \/ FindField \/ TypeCommand \/ CheckTyped \/ RevealSend \/ TextChanged \/ TapSend
    BY <2>5, FindFieldKeeps, TypeCommandKeeps, CheckTypedKeeps, RevealSendKeeps, GivesUpKeeps,
       TapSendKeeps
  <2>6. CASE \/ Approve \/ SeesResult \/ ResultDeadline \/ Captures
    BY <2>6, ApproveKeeps, SeesResultKeeps, GivesUpKeeps, CapturesKeeps
  <2>7. CASE TaskEnds \/ OperatorActs
    BY <2>7, TaskEndsKeeps, OperatorActsKeeps
  <2> QED
    BY <1>2, <2>1, <2>2, <2>3, <2>4, <2>5, <2>6, <2>7 DEF SmokeNext, SmokeStep
<1> QED
  BY <1>1, <1>2 DEF LabNext, labVars, SmokeJob, BenchJob, BundleJob

(* A report that is OK rests on this run's own tasks, for any number of    *)
(* runs, swipes, cards and operator's commands: every command asked for    *)
(* has a verified card that the script's Send created - unless a tap of    *)
(* Send was lost while an older card of the command was out of every       *)
(* dump's view (submit_and_verify_command, executed_report).               *)
THEOREM SmokeReportsItsOwn == LabSpec => []SmokeVerdictIsFresh
<1>1. LabInit => SmokeInv
  BY IdleOK DEF LabInit, SmokeInit
<1>2. SmokeInv /\ [LabNext]_labVars => SmokeInv'
  BY SmokeInvStep
<1>3. SmokeInv => SmokeVerdictIsFresh
  <2> SUFFICES ASSUME SmokeInv, At("report"), smoke.executed, ReportOk, ~smoke.blind,
                      NEW c \in Asked(smoke.opts)
               PROVE  Verified(c)
    BY DEF SmokeVerdictIsFresh, Verified
  <2>1. Good /\ Needed = Asked(smoke.opts)
    BY DEF At, ReportOk, Good, Needed, Writing
  <2> QED
    BY <2>1 DEF SmokeInv, ProgressInv
<1> QED
  BY <1>1, <1>2, <1>3, PTL DEF LabSpec

(* The token on the screen stays, or is taken away. *)
TokenKept == screen'.token \in {screen.token, "none"}

(* No other step than its typing puts the token anywhere. *)
LEMMA OnlyTypingPuts ==
    ASSUME SmokeInv, SmokeNext, ~TypeToken
    PROVE  TokenKept
<1>1. ScreenOK /\ DOMAIN screen = ScreenFields
  BY DEF SmokeInv, ScreenOK
<1>2. CASE screen' = screen
  BY <1>2 DEF TokenKept
<1>3. CASE Launch
  <2>1. PICK cards, app : screen' = [Blank(screen.linked) EXCEPT !.cards = cards, !.app = app]
    BY <1>3 DEF Launch
  <2>2. screen'.token = "none"
    BY <2>1 DEF Blank
  <2> QED
    BY <2>2 DEF TokenKept
<1>4. ASSUME NEW text, NEW by, screen' = Submitted(text, by)
      PROVE  TokenKept
  <2>1. PICK cards : screen' = [screen EXCEPT !.field = "", !.cards = cards]
    BY <1>4 DEF Submitted
  <2> QED
    BY <1>1, <2>1 DEF TokenKept, ScreenFields
<1>5. CASE OperatorActs
  BY <1>1, <1>4, <1>5 DEF OperatorActs, TokenKept, ScreenFields
<1>6. CASE OpenSetup
  BY <1>1, <1>2, <1>6 DEF OpenSetup, TokenKept, ScreenFields
<1>7. CASE FocusToken
  BY <1>1, <1>7 DEF FocusToken, TokenKept, ScreenFields
<1>8. CASE TapDebugLink
  <2>1. ASSUME NEW linked \in BOOLEAN,
               screen' = [screen EXCEPT !.linked = linked, !.token = IF linked THEN "none" ELSE @,
                                        !.open = ~linked]
        PROVE  TokenKept
    <3>1. PICK token, open : token = (IF linked THEN "none" ELSE screen.token) /\ open = ~linked
      OBVIOUS
    <3>2. screen' = [screen EXCEPT !.linked = linked, !.token = token, !.open = open]
      BY <2>1, <3>1
    <3>3. screen'.token = token
      BY <1>1, <3>2 DEF ScreenFields
    <3> QED
      BY <3>1, <3>3 DEF TokenKept
  <2> QED
    BY <1>2, <1>8, <2>1 DEF TapDebugLink, DebugLinkTapped
<1>9. CASE CollapseSetup
  BY <1>1, <1>2, <1>9 DEF CollapseSetup, TokenKept, ScreenFields
<1>10. ASSUME NEW text, screen' = [screen EXCEPT ![FieldInReach] = text]
       PROVE  TokenKept
  BY <1>1, <1>10 DEF FieldInReach, TokenKept, ScreenFields
<1>11. CASE TypeCommand \/ CheckTyped
  BY <1>2, <1>10, <1>11 DEF TypeCommand, CheckTyped
<1>12. CASE TapSend
  BY <1>2, <1>4, <1>12 DEF TapSend
<1>13. CASE Approve \/ TaskEnds
  <2>1. ASSUME NEW i, NEW s, screen' = [screen EXCEPT !.cards[i].state = s]
        PROVE  TokenKept
    BY <1>1, <2>1 DEF TokenKept, ScreenFields
  <2> QED
    BY <1>2, <1>13, <2>1 DEF Approve, TaskEnds
<1>14. CASE EndSmoke
  <2>1. screen'.token = "none"
    BY <1>14, IdleOK DEF EndSmoke
  <2> QED
    BY <2>1 DEF TokenKept
<1>15. CASE \/ \E o \in Options : StartSmoke(o)
            \/ RunSetup \/ VerifyPaired \/ SeesPaired \/ PairedDeadline
            \/ RestoreHome \/ DumpLaunched \/ HomeSurface \/ DeviceMap
            \/ RestoreForList \/ FindField \/ RevealSend \/ TextChanged \/ SeesResult \/ ResultDeadline
            \/ Captures
  <2>1. screen' = screen
    BY <1>15 DEF StartSmoke, RunSetup, VerifyPaired, SeesPaired, PairedDeadline, RestoreHome,
                 DumpLaunched, HomeSurface, DeviceMap, RestoreForList, FindField, RevealSend,
                 TextChanged, SeesResult, ResultDeadline, Captures
  <2> QED
    BY <1>2, <2>1
<1> QED
  BY <1>3, <1>5, <1>6, <1>7, <1>8, <1>9, <1>11, <1>12, <1>13, <1>14, <1>15 DEF SmokeNext, SmokeStep

(* A stranded run gets no further: it goes on looking for the Debug link,  *)
(* fails, or ends.                                                         *)
LEMMA StrandedStays ==
    ASSUME SmokeInv, SmokeNext, Stranded, screen.token # "token"
    PROVE  Stranded' \/ EndSmoke
<1>1. SmokeOK /\ smoke.pc \in {"link", "report"} /\ smoke.pc # "idle"
  BY DEF SmokeInv, Stranded
<1>2. TapDebugLink \/ EndSmoke \/ smoke' = smoke
  BY <1>1 DEF SmokeNext, SmokeStep, StartSmoke, RunSetup, Launch, VerifyPaired, SeesPaired, PairedDeadline,
              OpenSetup, FocusToken, TypeToken, CollapseSetup, RestoreHome, DumpLaunched, HomeSurface,
              DeviceMap, RestoreForList, FindField, TypeCommand, CheckTyped, RevealSend, TextChanged,
              TapSend, Approve, SeesResult, ResultDeadline, Captures, TaskEnds, OperatorActs, At
<1>3. CASE TapDebugLink
  <2>1. smoke.pc = "link" /\ ScrollOn
    BY <1>3 DEF TapDebugLink, DebugLinkEnabled, At
  <2> QED
    BY <1>1, <2>1, ScrollMoves DEF Stranded, Failed, Moved
<1>4. CASE smoke' = smoke
  BY <1>4 DEF Stranded
<1> QED
  BY <1>2, <1>3, <1>4

(* The typing of the token leads to the Debug link, or fails. *)
LEMMA TypingStrands ==
    ASSUME SmokeInv, TypeToken
    PROVE  Stranded'
<1>1. SmokeOK
  BY DEF SmokeInv
<1>2. (smoke'.pc = "report" /\ Failed) \/ Moved("link")
  BY <1>1, DebugLinkMoves
<1> QED
  BY <1>2 DEF Stranded, Failed, Moved

(* Every step strands the run whose token is in another field. *)
LEMMA TokenInvStep ==
    ASSUME SmokeInv, TokenInv, [LabNext]_labVars
    PROVE  TokenInv'
<1> SUFFICES ASSUME Misplaced'
             PROVE  Stranded'
  BY DEF TokenInv
<1>1. CASE UNCHANGED smokeVars
  BY <1>1 DEF smokeVars, TokenInv, Misplaced, Stranded
<1>2. CASE SmokeNext
  <2>1. CASE TypeToken
    BY <2>1, TypingStrands
  <2>2. CASE ~TypeToken
    <3>1. TokenKept
      BY <1>2, <2>2, OnlyTypingPuts
    <3>2. screen'.token # "none"
      BY DEF Misplaced, TextFields
    <3>3. screen.token = screen'.token
      BY <3>1, <3>2 DEF TokenKept
    <3>4. Misplaced /\ screen.token # "token"
      BY <3>3 DEF Misplaced
    <3>5. Stranded' \/ EndSmoke
      BY <1>2, <3>4, StrandedStays DEF TokenInv
    <3>6. ASSUME EndSmoke
          PROVE  FALSE
      BY <3>2, <3>6, IdleOK DEF EndSmoke
    <3> QED
      BY <3>5, <3>6
  <2> QED
    BY <2>1, <2>2
<1> QED
  BY <1>1, <1>2 DEF LabNext, labVars, SmokeJob, BenchJob, BundleJob

(* A bearer token that landed in another field than its own ends the run,  *)
(* whatever the layout brought nearest to the label, for any number of     *)
(* runs, swipes and cards: no Debug link, no command after it, no OK       *)
(* report (configure_debug_hub_link).                                      *)
THEOREM MisplacedTokensEndRuns == LabSpec => []MisplacedTokenEndsRun
<1>1. LabInit => SmokeInv /\ TokenInv
  <2> SUFFICES ASSUME LabInit
               PROVE  SmokeInv /\ TokenInv
    OBVIOUS
  <2>1. smoke = SmokeIdle /\ \E linked \in BOOLEAN : screen = Blank(linked)
    BY DEF LabInit, SmokeInit
  <2>2. SmokeInv /\ screen.token = "none"
    BY <2>1, IdleOK
  <2> QED
    BY <2>2 DEF TokenInv, Misplaced, TextFields
<1>2. SmokeInv /\ TokenInv /\ [LabNext]_labVars => (SmokeInv /\ TokenInv)'
  BY SmokeInvStep, TokenInvStep
<1>3. TokenInv => MisplacedTokenEndsRun
  BY DEF TokenInv, Misplaced, Stranded, MisplacedTokenEndsRun, At, ReportOk
<1> QED
  BY <1>1, <1>2, <1>3, PTL DEF LabSpec

=============================================================================
