---------------------------- MODULE OperatorAudit ----------------------------
(***************************************************************************)
(* The persistent operator audit log (operator_audit.py): a SQLite table   *)
(* of hash-chained rows, two metadata records that name its last row, and  *)
(* the bounded copy that the Hub process keeps in memory.                  *)
(*                                                                         *)
(* A digest is modelled by what it commits to, the sequence of <<sequence  *)
(* number, event>> pairs hashed so far, since SHA-256 does not collide;    *)
(* Garbage is any other 32 bytes.  One lock serialises the operations and  *)
(* each is one transaction, so each is one step.                           *)
(***************************************************************************)
EXTENDS Integers, Sequences, FiniteSets

CONSTANTS
    Events,            \* audit events, without their timestamps
    Limits,            \* values of GOFFY_OPERATOR_AUDIT_MAX_EVENTS
    MaxInherited,      \* bound on the events in the file that an earlier Hub left
    MaxRecorded,       \* bound on the number of events
    MaxCorruptions     \* bound on the changes made by something else than the Hub

ASSUME AuditAssumption ==
    /\ Limits \subseteq Nat \ {0}
    /\ MaxInherited \in Nat /\ MaxRecorded \in Nat /\ MaxCorruptions \in Nat

VARIABLES
    db,           \* the database: user_version, rows, chain tip, high-water mark
    mem,          \* the process: OperatorAuditLog's attributes
    recorded,     \* history: the events whose record() committed
    corruptions   \* history: changes made by something else than the Hub

auditVars == <<db, mem, recorded, corruptions>>

Genesis == <<>>
Garbage == << <<0, "garbage">> >>
NoTip == [seq |-> -1, hash |-> Garbage]

EventHash(seq, e, previous) == Append(previous, <<seq, e>>)

Last(s) == s[Len(s)]
LastN(s, n) == SubSeq(s, IF Len(s) > n THEN Len(s) - n + 1 ELSE 1, Len(s))
EventsOf(rows) == [i \in DOMAIN rows |-> <<rows[i].seq, rows[i].event>>]

(* Slip: the walk along the chain compares the links only. *)
VerifyLinksOnly(rows, tip, mark) ==
    LET first == rows[1] IN
    IF tip = NoTip \/ mark = NoTip THEN "tamper_detected"
    ELSE IF rows = <<>>
    THEN IF tip = [seq |-> 0, hash |-> Genesis] /\ mark = tip THEN "verified" ELSE "tamper_detected"
    ELSE IF /\ first.seq = 1 => first.prev = Genesis
            /\ \A i \in 2 .. Len(rows) : rows[i].prev = rows[i - 1].hash
            /\ tip = [seq |-> Last(rows).seq, hash |-> Last(rows).hash] /\ mark = tip
    THEN IF first.seq = 1 THEN "verified" ELSE "retention_gap"
    ELSE "tamper_detected"

(* _verify_stored_rows *)
Verify(rows, tip, mark) ==
    LET first == rows[1] IN
    IF tip = NoTip \/ mark = NoTip THEN "tamper_detected"
    ELSE IF rows = <<>>
    THEN IF tip = [seq |-> 0, hash |-> Genesis] /\ mark = tip THEN "verified" ELSE "tamper_detected"
    ELSE IF /\ first.seq = 1 => first.prev = Genesis
            /\ \A i \in 2 .. Len(rows) : rows[i].prev = rows[i - 1].hash
            /\ \A i \in DOMAIN rows :
                 rows[i].hash = EventHash(rows[i].seq, rows[i].event, rows[i].prev)
            /\ tip = [seq |-> Last(rows).seq, hash |-> Last(rows).hash] /\ mark = tip
    THEN IF first.seq = 1 THEN "verified" ELSE "retention_gap"
    ELSE "tamper_detected"

Integrity(d) == Verify(d.rows, d.tip, d.mark)

(* The tip that _refresh_chain_tip_metadata writes. *)
TipOf(rows) == IF rows = <<>> THEN [seq |-> 0, hash |-> Genesis]
               ELSE [seq |-> Last(rows).seq, hash |-> Last(rows).hash]

-----------------------------------------------------------------------------
(* A database as an earlier Hub left it: the rows of a whole chain from    *)
(* number `first` on, in one of the four schema versions.                  *)
ChainHash(trail, n) == [i \in 1 .. n |-> <<i, trail[i]>>]
RowsOf(trail, first) ==
    [i \in 1 .. Len(trail) - first + 1 |->
        LET n == first + i - 1 IN
        [seq |-> n, event |-> trail[n],
         prev |-> ChainHash(trail, n - 1), hash |-> ChainHash(trail, n)]]
DatabaseOf(version, trail, first) ==
    LET rows == RowsOf(trail, first) IN
    [version |-> version, rows |-> rows,
     tip  |-> IF version >= 2 THEN TipOf(rows) ELSE NoTip,
     mark |-> IF version >= 3 THEN TipOf(rows) ELSE NoTip]

Down == [pc |-> "down", max |-> 1, events |-> <<>>, integrity |-> "verified"]

AuditInit ==
    /\ \E n \in 0 .. MaxInherited : \E trail \in [1 .. n -> Events] :
       \E first \in 1 .. (IF n > 1 THEN n ELSE 1) :
         /\ recorded = trail
         /\ \E version \in IF n = 0 THEN 0 .. 3 ELSE 1 .. 3 : db = DatabaseOf(version, trail, first)
    /\ mem = Down
    /\ corruptions = 0

-----------------------------------------------------------------------------
(* Starting the Hub: _initialize_schema, then _load_persistent_events.     *)

(* Slip: the high-water mark is migrated before the chain tip. *)
InitializeSchemaMarkFirst(max) ==
    /\ mem.pc = "down"
    /\ LET mark == IF db.version < 3 THEN db.tip ELSE db.mark
           tip == IF db.version < 2 THEN TipOf(db.rows) ELSE db.tip
       IN /\ db.version < 3 => tip # NoTip
          /\ db' = [db EXCEPT !.version = 3, !.tip = tip, !.mark = mark]
    /\ mem' = [Down EXCEPT !.pc = "schema", !.max = max]
    /\ UNCHANGED <<recorded, corruptions>>

(* The metadata that an older schema lacks is derived from the rows; the   *)
(* transaction is rolled back when a version 2 database has lost its tip.  *)
InitializeSchema(max) ==
    /\ mem.pc = "down"
    /\ LET tip == IF db.version < 2 THEN TipOf(db.rows) ELSE db.tip
           mark == IF db.version < 3 THEN tip ELSE db.mark
       IN /\ db.version < 3 => tip # NoTip
          /\ db' = [db EXCEPT !.version = 3, !.tip = tip, !.mark = mark]
    /\ mem' = [Down EXCEPT !.pc = "schema", !.max = max]
    /\ UNCHANGED <<recorded, corruptions>>

(* _prune_oldest *)
Pruned(rows, max) == LastN(rows, max)

LoadPersistentEvents ==
    /\ mem.pc = "schema"
    /\ LET kept == IF Integrity(db) = "tamper_detected" THEN db.rows ELSE Pruned(db.rows, mem.max)
       IN /\ db' = [db EXCEPT !.rows = kept]
          /\ mem' = [mem EXCEPT !.pc = "up", !.events = EventsOf(LastN(kept, mem.max)),
                                !.integrity = Verify(kept, db.tip, db.mark)]
    /\ UNCHANGED <<recorded, corruptions>>

-----------------------------------------------------------------------------
(* The running log.                                                        *)

NextRow(e) ==
    LET seq == IF db.rows = <<>> THEN 1 ELSE Last(db.rows).seq + 1
        prev == IF db.rows = <<>> THEN Genesis ELSE Last(db.rows).hash
    IN [seq |-> seq, event |-> e, prev |-> prev, hash |-> EventHash(seq, e, prev)]

(* The database after _persist_event: insert, tip, mark, prune. *)
Persisted(e) ==
    LET row == NextRow(e)
        tip == [seq |-> row.seq, hash |-> row.hash]
    IN [db EXCEPT !.rows = Pruned(Append(db.rows, row), mem.max), !.tip = tip, !.mark = tip]

Record(e) ==
    /\ mem.pc = "up" /\ Integrity(db) # "tamper_detected"
    /\ Len(recorded) < MaxRecorded
    /\ db' = Persisted(e)
    /\ mem' = [mem EXCEPT !.integrity = Integrity(db'),
                          !.events = LastN(Append(@, <<NextRow(e).seq, e>>), mem.max)]
    /\ recorded' = Append(recorded, e)
    /\ UNCHANGED corruptions

(* record() or check_store() finds the chain broken and raises. *)
RefuseTampered ==
    /\ mem.pc = "up" /\ Integrity(db) = "tamper_detected"
    /\ mem' = [mem EXCEPT !.integrity = "tamper_detected"]
    /\ UNCHANGED <<db, recorded, corruptions>>

(* The database fails; the transaction is rolled back, but the integrity   *)
(* that was computed inside it may have been assigned already.             *)
RecordFails(e) ==
    /\ mem.pc = "up" /\ Integrity(db) # "tamper_detected"
    /\ Len(recorded) < MaxRecorded
    /\ mem' \in {mem, [mem EXCEPT !.integrity = Integrity(Persisted(e))]}
    /\ UNCHANGED <<db, recorded, corruptions>>

CheckStore ==
    /\ mem.pc = "up" /\ Integrity(db) # "tamper_detected"
    /\ mem' = [mem EXCEPT !.integrity = Integrity(db)]
    /\ UNCHANGED <<db, recorded, corruptions>>

Crash ==
    /\ mem.pc # "down"
    /\ mem' = Down
    /\ UNCHANGED <<db, recorded, corruptions>>

-----------------------------------------------------------------------------
(* Something else writes to the file: a field of a row is edited, rows are *)
(* deleted, metadata is lost.  A coordinated rewrite of rows, tip and mark *)
(* is out of scope, as docs/adr/0023 says, and so is a version 1 file,     *)
(* which has no tip yet by which a cut could be noticed.                   *)

Without(s, i) == SubSeq(s, 1, i - 1) \o SubSeq(s, i + 1, Len(s))

CorruptedRows ==
    UNION {{[db.rows EXCEPT ![i].event = e] : e \in Events}
           \cup {[db.rows EXCEPT ![i].hash = Garbage], [db.rows EXCEPT ![i].prev = Garbage],
                 [db.rows EXCEPT ![i].seq = @ + 1], Without(db.rows, i),
                 SubSeq(db.rows, 1, i - 1)} : i \in DOMAIN db.rows}

Corrupt ==
    /\ corruptions < MaxCorruptions /\ db.version >= 2
    /\ \/ db' \in {[db EXCEPT !.rows = rows] : rows \in CorruptedRows}
       \/ db' = [db EXCEPT !.tip = NoTip]
       \/ db.version >= 3 /\ db' = [db EXCEPT !.mark = NoTip]
    /\ \A i, j \in DOMAIN db'.rows : i < j => db'.rows[i].seq < db'.rows[j].seq
    /\ corruptions' = corruptions + 1
    /\ UNCHANGED <<mem, recorded>>

AuditNext ==
    \/ \E max \in Limits : InitializeSchema(max)
    \/ LoadPersistentEvents
    \/ \E e \in Events : Record(e) \/ RecordFails(e)
    \/ RefuseTampered
    \/ CheckStore
    \/ Crash
    \/ Corrupt

AuditSpec == AuditInit /\ [][AuditNext]_auditVars

-----------------------------------------------------------------------------
(* Properties.                                                             *)

Trusted == Integrity(db) # "tamper_detected"

(* The log implements a trail that only grows: restarts, migrations, other *)
(* limits and failed writes lose nothing but the oldest events, whatever   *)
(* still verifies is the newest part of what was recorded, and nothing is  *)
(* added to a chain that was edited, cut or stripped of its metadata.      *)
Trail == INSTANCE AuditTrail WITH
    trail <- recorded,
    kept <- IF Trusted THEN [i \in DOMAIN db.rows |-> db.rows[i].event] ELSE <<>>,
    trusted <- Trusted
ImplementsTrail == Trail!TrailSpec

(* A file that only the Hub wrote to, in whatever version it began, never  *)
(* looks tampered with once it is migrated, the Hub reports "verified"     *)
(* only while not a single event has been dropped, and what the audit API  *)
(* shows from memory is what the file holds, after any restart, prune or   *)
(* failed write.                                                           *)
AuditReportIsTrue ==
    corruptions = 0 /\ mem.pc = "up" =>
        /\ Trusted /\ mem.integrity # "tamper_detected"
        /\ mem.integrity = "verified" => Len(db.rows) = Len(recorded)
        /\ mem.events = EventsOf(db.rows) /\ Len(mem.events) <= mem.max
=============================================================================
