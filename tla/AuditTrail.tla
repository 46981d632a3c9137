----------------------------- MODULE AuditTrail ------------------------------
(* What the operator audit log promises, without hashes, rows or metadata:  *)
(* a trail that only grows, of which the newest part can be shown, and to   *)
(* which nothing is added while what is stored cannot be trusted.           *)
EXTENDS Naturals, Sequences

CONSTANT Events

VARIABLES
    trail,     \* every event whose record() call succeeded, oldest first
    kept,      \* the events that can be shown, as a suffix of the trail
    trusted    \* the stored events verify

trailVars == <<trail, kept, trusted>>

Newest(s, n) == SubSeq(s, Len(s) - n + 1, Len(s))

TrailInit ==
    /\ trail \in Seq(Events)
    /\ \E n \in 0 .. Len(trail) : kept = Newest(trail, n)
    /\ trusted \in BOOLEAN

(* The new event is always among those kept. *)
RecordEvent(e) ==
    /\ trusted /\ trusted'
    /\ trail' = Append(trail, e)
    /\ \E n \in 1 .. Len(kept) + 1 : kept' = Newest(trail', n)

Forget ==
    /\ trusted /\ trusted'
    /\ \E n \in 0 .. Len(kept) : kept' = Newest(trail, n)
    /\ UNCHANGED trail

(* Something else than the Hub changed the stored events. *)
LoseTrust ==
    /\ ~trusted' /\ kept' = <<>>
    /\ UNCHANGED trail

(* Migration, or the opposite change, makes them verify again. *)
RegainTrust ==
    /\ ~trusted /\ trusted'
    /\ \E n \in 0 .. Len(trail) : kept' = Newest(trail, n)
    /\ UNCHANGED trail

TrailNext == (\E e \in Events : RecordEvent(e)) \/ Forget \/ LoseTrust \/ RegainTrust

TrailSpec == TrailInit /\ [][TrailNext]_trailVars
=============================================================================
