---------------------------- MODULE TaskTimeline ----------------------------
(***************************************************************************)
(* The phone's task timeline (GoffyTaskReducer.kt): immutable values       *)
(* [active, entries] and the functions that turn one into the next.  The   *)
(* newest MaxItems entries are kept, whether or not the active task is     *)
(* among them.  Texts are left out, but for the ones that the audit record *)
(* is derived from ("why").                                                *)
(***************************************************************************)
EXTENDS Integers, Sequences

CONSTANTS
    Tasks,      \* task identifiers
    NoTask,
    MaxItems,   \* MAX_TIMELINE_ITEMS
    Routes      \* the plans that the router may choose

ASSUME TimelineAssumption == NoTask \notin Tasks /\ MaxItems \in Nat \ {0}

Plan(target, permission) == [target |-> target, permission |-> permission]
NoPlan == Plan("PHONE", "none")
Plans == {Plan(t, p) : t \in {"PHONE", "MAC"}, p \in {"SAFE", "CONFIRM"}}

ASSUME RoutesAssumption == Routes \subseteq Plans

TerminalPhases == {"UNVERIFIED", "VERIFIED", "FAILED", "CANCELLED"}
Ended(e) == e.phase \in TerminalPhases

EmptyTimeline == [active |-> NoTask, entries |-> <<>>]

(* at is terminalAtEpochMillis, 0 when it is not set. *)
NewEntry(t, plan, phase, at) ==
    [id |-> t, plan |-> plan, phase |-> phase, why |-> "", at |-> at, attempt |-> 0, ready |-> FALSE,
     sequence |-> -1, result |-> FALSE, granted |-> FALSE, recorded |-> FALSE]

TakeLast(s) == SubSeq(s, IF Len(s) > MaxItems THEN Len(s) - MaxItems + 1 ELSE 1, Len(s))

Indices(tl, t) == {i \in DOMAIN tl.entries : tl.entries[i].id = t}
Shown(tl, t) == Indices(tl, t) # {}
EntryOf(tl, t) == tl.entries[CHOOSE i \in Indices(tl, t) : TRUE]

Start(tl, t, plan) ==
    [active |-> t, entries |-> TakeLast(Append(tl.entries, NewEntry(t, plan, "ROUTING", 0)))]

RejectEntry(tl, t, plan, at) ==
    [tl EXCEPT !.entries = TakeLast(Append(@, NewEntry(t, plan, "FAILED", at)))]

WithTerminalTimestamp(e, at) ==
    IF Ended(e) /\ e.at = 0
    THEN [NewEntry(e.id, e.plan, e.phase, at) EXCEPT !.why = e.why, !.granted = e.granted] ELSE e

(* replaceEntry, with the two tests that every caller begins with: events  *)
(* of another task are dropped, and an active task without an entry is no  *)
(* longer active.  The progress of an ended entry is not read again.       *)
Replace(tl, t, updated, at) ==
    IF t # tl.active THEN tl
    ELSE IF ~Shown(tl, t) THEN [tl EXCEPT !.active = NoTask]
    ELSE LET e == WithTerminalTimestamp(updated, at) IN
         [active |-> IF Ended(e) THEN NoTask ELSE t,
          entries |-> [i \in DOMAIN tl.entries |-> IF i \in Indices(tl, t) THEN e ELSE tl.entries[i]]]

-----------------------------------------------------------------------------
(* Events of an execution.                                                 *)

Starting(n) == [kind |-> "starting", n |-> n]
Ready == [kind |-> "ready"]
Progress(stage, n) == [kind |-> "progress", stage |-> stage, n |-> n]
ToolResult == [kind |-> "result"]
Verification == [kind |-> "verification"]
Unverified == [kind |-> "unverified"]
Error(code) == [kind |-> "error", code |-> code]

FailSequence(e) == [e EXCEPT !.phase = "FAILED"]

ApplyStarting(e, ev) ==
    IF /\ ev.n = e.attempt + 1
       /\ e.phase \in {"ROUTING", "PREPARING"}
       /\ e.sequence = -1
       /\ e.plan.permission = "CONFIRM" => e.granted
    THEN [e EXCEPT !.phase = "PREPARING", !.attempt = ev.n, !.ready = FALSE]
    ELSE FailSequence(e)

ApplyReady(e) ==
    IF e.phase = "PREPARING" /\ e.attempt > 0 /\ ~e.ready THEN [e EXCEPT !.ready = TRUE] ELSE FailSequence(e)

ApplyProgress(e, ev) ==
    IF ev.n # e.sequence + 1 THEN FailSequence(e)
    ELSE IF ev.stage = "accepted" /\ e.phase = "PREPARING" /\ e.ready /\ ev.n = 0
         THEN [e EXCEPT !.phase = "ACCEPTED", !.sequence = ev.n]
    ELSE IF ev.stage = "completed" /\ e.phase = "ACCEPTED"
         THEN [e EXCEPT !.phase = "COMPLETED_UNVERIFIED", !.sequence = ev.n]
    ELSE FailSequence(e)

(* acceptsContent: the content is of the tool's type, and a CONFIRM tool   *)
(* was approved.                                                           *)
ApplyResult(e) ==
    IF e.phase = "COMPLETED_UNVERIFIED" /\ ~e.result /\ (e.plan.permission = "CONFIRM" => e.granted)
    THEN [e EXCEPT !.result = TRUE] ELSE FailSequence(e)

ApplyVerdict(e, phase) ==
    IF e.phase = "COMPLETED_UNVERIFIED" /\ e.result THEN [e EXCEPT !.phase = phase] ELSE FailSequence(e)

ApplyEvent(tl, t, ev, at) ==
    LET e == EntryOf(tl, t)
        updated ==
          CASE ev.kind = "starting"     -> ApplyStarting(e, ev)
            [] ev.kind = "ready"        -> ApplyReady(e)
            [] ev.kind = "progress"     -> ApplyProgress(e, ev)
            [] ev.kind = "result"       -> ApplyResult(e)
            [] ev.kind = "verification" -> ApplyVerdict(e, "VERIFIED")
            [] ev.kind = "unverified"   -> ApplyVerdict(e, "UNVERIFIED")
            [] ev.kind = "error"        -> [e EXCEPT !.phase = "FAILED", !.why = ev.code]
    IN Replace(tl, t, updated, at)

-----------------------------------------------------------------------------
(* Approvals and cancellation.                                             *)

AwaitApproval(tl, t, at) ==
    LET e == EntryOf(tl, t)
        updated == IF e.phase = "ROUTING" /\ e.plan.permission = "CONFIRM" /\ ~e.granted
                   THEN [e EXCEPT !.phase = "AWAITING_APPROVAL"] ELSE FailSequence(e)
    IN Replace(tl, t, updated, at)

GrantApproval(tl, t, at) ==
    LET e == EntryOf(tl, t)
        updated == IF e.phase = "AWAITING_APPROVAL" /\ e.plan.permission = "CONFIRM" /\ ~e.granted
                   THEN [e EXCEPT !.phase = "ROUTING", !.granted = TRUE] ELSE FailSequence(e)
    IN Replace(tl, t, updated, at)

(* denyApproval and expireApproval leave an entry alone that is not        *)
(* waiting.                                                                *)
EndApproval(tl, t, phase, why, at) ==
    LET e == EntryOf(tl, t)
        updated == IF e.phase = "AWAITING_APPROVAL" THEN [e EXCEPT !.phase = phase, !.why = why] ELSE e
    IN Replace(tl, t, updated, at)
DenyApproval(tl, t, why, at) == EndApproval(tl, t, "CANCELLED", why, at)
ExpireApproval(tl, t, at) == EndApproval(tl, t, "FAILED", "expired", at)

CancelActive(tl, at) ==
    LET e == EntryOf(tl, tl.active)
        updated == [e EXCEPT !.phase = "CANCELLED",
                             !.why = IF e.phase = "AWAITING_APPROVAL" THEN "cancelled" ELSE ""]
    IN Replace(tl, tl.active, updated, at)

(* completeLocalModelObservation: a suggestion never executes. *)
CompleteObservation(tl, t, at) == Replace(tl, t, FailSequence(EntryOf(tl, t)), at)

(* markAuditRecorded and mergeRestoredAudit. *)
MarkRecorded(tl, t) ==
    [tl EXCEPT !.entries = [i \in DOMAIN @ |-> IF @[i].id = t /\ Ended(@[i])
                                               THEN [@[i] EXCEPT !.recorded = TRUE] ELSE @[i]]]
MergeRestored(tl, restored) == [tl EXCEPT !.entries = TakeLast(restored \o @)]

=============================================================================
