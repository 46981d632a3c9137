----------------------------- MODULE PhoneTasks -----------------------------
(***************************************************************************)
(* The phone's agent (GoffyViewModel.kt, GoffyUiState.kt): commands,       *)
(* approvals that are granted, denied, cancelled or expire, the jobs that  *)
(* collect the events of an execution, and the observer that writes every  *)
(* ended task to the audit table, which survives the process.              *)
(*                                                                         *)
(* Everything of the view model runs on the main thread; a coroutine can   *)
(* be overtaken only where it suspends.                                    *)
(***************************************************************************)
EXTENDS HubGateway, FiniteSets, SequencesExt

CONSTANTS
    Stamps,     \* readings of the wall clock
    MaxRows,    \* MAX_ROWS of the audit table
    MaxFaults,  \* bound on the failures of the audit database
    MaxDeaths   \* bound on the deaths of the process

ASSUME PhoneAssumption ==
    /\ Tasks \subseteq Nat  \* ordered, as UUIDs are
    /\ Stamps \subseteq Nat \ {0} /\ MaxRows \in Nat \ {0}
    /\ MaxFaults \in Nat /\ MaxDeaths \in Nat

VARIABLES
    ui,        \* the view model: timeline, approval card, pending execution, activeJob
    used,      \* the task identifiers drawn so far
    aud,       \* the observer: loading or watching, what it has in hand, attemptedTaskIds
    rows,      \* the audit table
    degraded,  \* AuditPersistenceState.DEGRADED
    faults,
    deaths,
    link,      \* hubLinkState: the operation on the Hub link that is under way
    decided    \* history, per task: what became of its approval

auditVars == <<aud, rows, degraded, faults>>
phoneVars == <<ui, used, decided, deaths, link, auditVars, gatewayVars>>

NoUi == [tl |-> EmptyTimeline, card |-> NoTask, pending |-> NoTask, job |-> NoTask]
Loading == [pc |-> "loading", queue |-> <<>>, tried |-> {}]

PhoneInit ==
    /\ GatewayInit
    /\ ui = NoUi /\ used = {}
    /\ aud = Loading /\ rows = {} /\ degraded = FALSE /\ faults = 0
    /\ deaths = 0 /\ link = "idle"
    /\ decided = [t \in Tasks |-> {}]

Busy == ui.tl.active # NoTask

(* applyTaskEvent: the card goes with the task it was about. *)
ApplyTaskEvent(u, t, ev, at) ==
    LET tl == ApplyEvent(u.tl, t, ev, at) IN
    IF t # u.tl.active THEN u
    ELSE [u EXCEPT !.tl = tl, !.card = IF tl.active = t THEN @ ELSE NoTask]

(* The one state that a sequence of events leads to, after each of them. *)
StatesAfter(u, t, events, at) ==
    LET after[n \in 0 .. Len(events)] ==
          IF n = 0 THEN {u} ELSE {ApplyTaskEvent(v, t, events[n], at) : v \in after[n - 1]}
    IN after
ApplyTaskEvents(u, t, events, at) == StatesAfter(u, t, events, at)[Len(events)]

(* collectTask: the job runs in place until its flow suspends, and         *)
(* replaces activeJob.                                                     *)
CollectTask(u, t, plan, at) ==
    \E f \in Launched(plan) :
        /\ ui' \in ApplyTaskEvents([u EXCEPT !.job = t], t, f.chan, at)
        /\ flow' = [flow EXCEPT ![t] = [f EXCEPT !.chan = <<>>]]

-----------------------------------------------------------------------------
(* Commands.                                                               *)

Draw(t) == t \notin used /\ used' = used \cup {t}

(* While a task is active every command is rejected; otherwise one that    *)
(* has no route, a Mac task without a Hub link, and a scan that failed.    *)
RejectCommand(t) ==
    /\ Draw(t)
    /\ \E at \in Stamps, plan \in {NoPlan} \cup (IF Busy THEN {} ELSE Routes \ {Plan("PHONE", "CONFIRM")}) :
         ui' = [ui EXCEPT !.tl = RejectEntry(@, t, plan, at)]
    /\ UNCHANGED <<decided, deaths, link, auditVars, gatewayVars>>

(* A Mac task needs hubConfig, which forgetHub clears first. *)
Reachable(plan) == plan.target = "MAC" => link # "forgetting"

(* executeTask. *)
ExecuteSafe(t) ==
    /\ ~Busy /\ Draw(t)
    /\ \E plan \in {p \in Routes : p.permission = "SAFE"}, at \in Stamps :
         /\ Reachable(plan)
         /\ CollectTask([ui EXCEPT !.tl = Start(@, t, plan)], t, plan, at)
    /\ UNCHANGED <<ran, decided, deaths, link, auditVars>>

(* recordForegroundQrScan, recordForegroundOcrRead: the camera has been    *)
(* read already, and the flow is a list that does not suspend.             *)
RecordScan(t) ==
    LET plan == Plan("PHONE", "SAFE") IN
    /\ plan \in Routes /\ ~Busy /\ Draw(t)
    /\ \E at \in Stamps :
         ui' \in ApplyTaskEvents([ui EXCEPT !.tl = Start(@, t, plan)], t,
                  <<Starting(1), Ready, Progress("accepted", 0), Progress("completed", 1),
                    ToolResult, Verification>>, at)
    /\ ran' = [ran EXCEPT ![t] = 1]
    /\ UNCHANGED <<flow, decided, deaths, link, auditVars>>

(* startLocalModelObservationIfAvailable. *)
ObserveLocalModel(t) ==
    /\ ~Busy /\ Draw(t)
    /\ ui' = [ui EXCEPT !.tl = Start(@, t, NoPlan), !.job = t]
    /\ flow' = [flow EXCEPT ![t].pc = "observing"]
    /\ UNCHANGED <<ran, decided, deaths, link, auditVars>>

RequestApproval(t) ==
    /\ ~Busy /\ Draw(t)
    /\ \E plan \in {p \in Routes : p.permission = "CONFIRM"}, at \in Stamps :
         /\ Reachable(plan)
         /\ LET tl == Start(ui.tl, t, plan) IN
            ui' = IF ui.card = NoTask
                  THEN [ui EXCEPT !.tl = AwaitApproval(tl, t, at), !.card = t, !.pending = t]
                  ELSE [ui EXCEPT !.tl = tl, !.pending = t]
         \* PendingExecution keeps the plan
         /\ flow' = [flow EXCEPT ![t].plan = plan]
    /\ UNCHANGED <<ran, decided, deaths, link, auditVars>>

-----------------------------------------------------------------------------
(* What becomes of an approval: the first to take pendingExecution wins.   *)
(* The user approves and denies on the card.                               *)

Decide(t, what) == decided' = [decided EXCEPT ![t] = @ \cup {what}]

(* The state transitions of GoffyUiState do nothing without the card. *)
CloseCard(t, tl) == IF ui.card = t THEN [tl |-> tl, card |-> NoTask] ELSE [tl |-> ui.tl, card |-> ui.card]

Settle(t, tl) ==
    LET c == CloseCard(t, tl) IN
    ui' = [ui EXCEPT !.tl = c.tl, !.card = c.card, !.pending = NoTask]

Granted(t, at) ==
    LET c == CloseCard(t, GrantApproval(ui.tl, t, at)) IN [ui EXCEPT !.tl = c.tl, !.card = c.card]

Approve(t) ==
    /\ ui.card = t /\ ui.pending = t
    /\ \E at \in Stamps :
         LET u == [Granted(t, at) EXCEPT !.pending = NoTask]
         IN \/ CollectTask(u, t, flow[t].plan, at)
            \* a Mac task and a link without a paired credential
            \/ /\ flow[t].plan.target = "MAC"
               /\ ui' = ApplyTaskEvent(u, t, Error("failed"), at)
               /\ UNCHANGED flow
    /\ Decide(t, "approved")
    /\ UNCHANGED <<used, ran, deaths, link, auditVars>>

(* expirePendingApproval: the timer fires, or the clock is past the        *)
(* deadline when the user approves.                                        *)
ExpirePending(t) ==
    /\ ui.pending = t
    /\ \E at \in Stamps : Settle(t, ExpireApproval(ui.tl, t, at))
    /\ Decide(t, "expired")
    /\ UNCHANGED <<used, deaths, link, auditVars, gatewayVars>>

(* denyPendingTask, and cancelActiveTask while an approval is pending. *)
Deny(t) ==
    /\ ui.pending = t
    /\ \E at \in Stamps, why \in {"cancelled"} \cup IF ui.card = t THEN {"denied"} ELSE {} :
         Settle(t, DenyApproval(ui.tl, t, why, at)) /\ Decide(t, why)
    /\ UNCHANGED <<used, deaths, link, auditVars, gatewayVars>>

(* cancelActiveTask.  It finds a job whose task has ended already, too. *)
CancelTask ==
    /\ ui.pending = NoTask /\ (Busy \/ ui.job # NoTask)
    /\ \E at \in Stamps : ui' = [ui EXCEPT !.tl = CancelActive(@, at), !.card = NoTask, !.job = NoTask]
    /\ flow' = [t \in Tasks |-> IF t = ui.job THEN Gone(flow[t]) ELSE flow[t]]
    /\ UNCHANGED <<used, ran, decided, deaths, link, auditVars>>

-----------------------------------------------------------------------------
(* The Hub link (rotateHubCredential, forgetHub).  Commands go on while an *)
(* operation is under way, and its answer takes away a card that has come  *)
(* up since, but neither the pending execution nor a job.                  *)

(* cancelActiveTask, then hubRotationStarted or hubForgetStarted.  Neither *)
(* waits for the user's approval to be decided.                            *)
LinkOperation(op) ==
    /\ op = "rotating" => link = "idle"
    /\ link' = op
    /\ \E at \in Stamps :
         \/ /\ ui.pending = NoTask
            /\ ui' = [ui EXCEPT !.tl = CancelActive(@, at), !.card = NoTask, !.job = NoTask]
            /\ flow' = [t \in Tasks |-> IF t = ui.job THEN Gone(flow[t]) ELSE flow[t]]
            /\ UNCHANGED decided
         \/ \E t \in Tasks :
              /\ ui.pending = t
              /\ LET c == CloseCard(t, DenyApproval(ui.tl, t, "cancelled", at)) IN
                 ui' = [ui EXCEPT !.tl = CancelActive(c.tl, at), !.card = NoTask, !.pending = NoTask]
              /\ Decide(t, "cancelled")
              /\ UNCHANGED flow
    /\ UNCHANGED <<used, ran, deaths, auditVars>>

(* What the history says of a card that goes. *)
CardGoes(what) ==
    decided' = [t \in Tasks |-> IF t = ui.card THEN decided[t] \cup {what} ELSE decided[t]]

(* hubRotationSucceeded, hubRotationFailed. *)
RotationAnswers ==
    /\ link = "rotating" /\ link' = "idle"
    /\ ui' = [ui EXCEPT !.card = NoTask] /\ CardGoes("lost")
    /\ UNCHANGED <<used, deaths, auditVars, gatewayVars>>

(* Slip: like a rotation's, the answer leaves the timeline alone. *)
ForgetAnswersCardOnly ==
    /\ link = "forgetting" /\ link' = "idle"
    /\ ui' = [ui EXCEPT !.card = NoTask] /\ CardGoes("cancelled")
    /\ UNCHANGED <<used, deaths, auditVars, gatewayVars>>

(* GoffyUiState.forgetHub, hubForgetVerificationFailed. *)
ForgetAnswers ==
    /\ link = "forgetting" /\ link' = "idle"
    /\ \E at \in Stamps : ui' = [ui EXCEPT !.tl = CancelActive(@, at), !.card = NoTask]
    /\ CardGoes("cancelled")
    /\ UNCHANGED <<used, deaths, auditVars, gatewayVars>>

-----------------------------------------------------------------------------
(* Jobs.                                                                   *)

Live(t) == flow[t].pc \notin {"none", "gone"}
Running(t) == Live(t) /\ flow[t].pc # "observing"

JobIsOver(t, u) ==
    /\ ui' = [u EXCEPT !.job = IF @ = t THEN NoTask ELSE @]
    /\ flow' = [flow EXCEPT ![t] = Gone(@)]

(* A phone's flow emits without a suspension; the Hub's events come one by *)
(* one.                                                                    *)
Collect(t) ==
    LET chan == flow[t].chan
        n == IF flow[t].plan.target = "PHONE" THEN Len(chan) ELSE 1
    IN /\ Running(t) /\ chan # <<>>
       /\ \E at \in Stamps : ui' \in ApplyTaskEvents(ui, t, SubSeq(chan, 1, n), at)
       /\ flow' = [flow EXCEPT ![t].chan = SubSeq(chan, n + 1, Len(chan))]
       /\ UNCHANGED <<used, ran, decided, deaths, link, auditVars>>

(* The flow has ended ("execution_stopped" if the task has not), or it     *)
(* raises ("client_failure").                                              *)
JobEnds(t) ==
    /\ In(t, {"done"}) /\ flow[t].chan = <<>>
    /\ \E at \in Stamps : JobIsOver(t, ApplyTaskEvent(ui, t, Error("failed"), at))
    /\ UNCHANGED <<used, ran, decided, deaths, link, auditVars>>

JobFails(t) ==
    /\ Running(t)
    /\ \E at \in Stamps : JobIsOver(t, ApplyTaskEvent(ui, t, Error("failed"), at))
    /\ UNCHANGED <<used, ran, decided, deaths, link, auditVars>>

ObservationEnds(t) ==
    /\ In(t, {"observing"})
    /\ \E at \in Stamps : JobIsOver(t, [ui EXCEPT !.tl = CompleteObservation(@, t, at)])
    /\ UNCHANGED <<used, ran, decided, deaths, link, auditVars>>

-----------------------------------------------------------------------------
(* The audit observer (observeTerminalAudit) and its table.                *)

(* Slip: whether the approval was granted is not asked. *)
ApprovalOutcomeUngranted(e) ==
    IF e.plan.permission # "CONFIRM" THEN "not_required"
    ELSE IF e.why \in {"expired", "denied", "cancelled"} THEN e.why ELSE "cancelled"

(* toClosedTerminalAuditRecord: approvalOutcome. *)
ApprovalOutcome(e) ==
    IF e.plan.permission # "CONFIRM" THEN "not_required"
    ELSE IF e.why \in {"expired", "denied", "cancelled"} THEN e.why
    ELSE IF e.granted THEN "approved" ELSE "cancelled"

Record(e) == [id |-> e.id, plan |-> e.plan, phase |-> e.phase, approval |-> ApprovalOutcome(e), at |-> e.at]
RestoredEntry(r) == [NewEntry(r.id, r.plan, r.phase, r.at) EXCEPT !.recorded = TRUE]

Older(r, s) == r.at < s.at \/ (r.at = s.at /\ r.id < s.id)
RowOf(t) == {r \in rows : r.id = t}
Insert(r) == (rows \ RowOf(r.id)) \cup {r}
Newest(table) == {r \in table : Cardinality({s \in table : Older(r, s)}) < MaxRows}

(* The table's CHECK lists the tools with their target and permission;     *)
(* mac.apps.open, the only CONFIRM tool of the Mac, is not among them.     *)
Storable(r) == r.plan # Plan("MAC", "CONFIRM")

(* The elements of a finite set in a given order. *)
Sorted(set, Before(_, _)) ==
    {s \in [1 .. Cardinality(set) -> set] : \A i, j \in DOMAIN s : i < j => Before(s[i], s[j])}

(* Slip: what was loaded counts as not yet written. *)
LoadAuditUntried ==
    /\ aud.pc = "loading"
    /\ \E s \in Sorted(rows, Older) :
         ui' = [ui EXCEPT !.tl = MergeRestored(@, [i \in DOMAIN s |-> RestoredEntry(s[i])])]
    /\ aud' = [aud EXCEPT !.pc = "watching"]
    /\ UNCHANGED <<used, decided, deaths, link, rows, degraded, faults, gatewayVars>>

LoadAudit ==
    /\ aud.pc = "loading"
    /\ \/ /\ \E s \in Sorted(rows, Older) :
               ui' = [ui EXCEPT !.tl = MergeRestored(@, [i \in DOMAIN s |-> RestoredEntry(s[i])])]
          /\ aud' = [aud EXCEPT !.pc = "watching", !.tried = {r.id : r \in rows}]
          /\ UNCHANGED <<degraded, faults>>
       \/ /\ faults < MaxFaults /\ faults' = faults + 1
          /\ degraded' = TRUE
          /\ aud' = [aud EXCEPT !.pc = "watching"]
          /\ UNCHANGED ui
    /\ UNCHANGED <<used, decided, deaths, link, rows, gatewayVars>>

(* collect: the state flow keeps its latest value only, so entries that    *)
(* came and went while a write was awaited are never seen.                 *)
Unwritten(e) == Ended(e) /\ e.id \notin aud.tried

(* Slip: one state ends one task at most, so its newest is enough. *)
ObserveNewest ==
    /\ aud.pc = "watching" /\ aud.queue = <<>>
    /\ \E i \in DOMAIN ui.tl.entries : Unwritten(ui.tl.entries[i])
    /\ LET new == SelectSeq(ui.tl.entries, Unwritten) IN
       aud' = [aud EXCEPT !.queue = <<Last(new)>>, !.tried = @ \cup {new[i].id : i \in DOMAIN new}]
    /\ UNCHANGED <<ui, used, decided, deaths, link, rows, degraded, faults, gatewayVars>>

ObserveEntries ==
    /\ aud.pc = "watching" /\ aud.queue = <<>>
    /\ LET new == {i \in DOMAIN ui.tl.entries : Unwritten(ui.tl.entries[i])} IN
       /\ new # {}
       /\ \E s \in Sorted(new, <) : aud' = [aud EXCEPT !.queue = [k \in DOMAIN s |-> ui.tl.entries[s[k]]]]
    /\ UNCHANGED <<ui, used, decided, deaths, link, rows, degraded, faults, gatewayVars>>

(* upsert: insert, trim, read back and compare, in one transaction. *)
WriteRecord ==
    /\ aud.pc = "watching" /\ aud.queue # <<>>
    /\ LET r == Record(Head(aud.queue))
           table == Newest(Insert(r))
       IN /\ aud' = [aud EXCEPT !.queue = Tail(@), !.tried = @ \cup {r.id}]
          /\ \/ /\ Storable(r) /\ r \in table
                /\ rows' = table
                /\ ui' = [ui EXCEPT !.tl = MarkRecorded(@, r.id)]
                /\ UNCHANGED <<degraded, faults>>
             \/ /\ \/ ~(Storable(r) /\ r \in table) /\ UNCHANGED faults
                   \/ faults < MaxFaults /\ faults' = faults + 1
                /\ degraded' = TRUE
                /\ UNCHANGED <<rows, ui>>
    /\ UNCHANGED <<used, decided, deaths, link, gatewayVars>>

(* Only the table survives. *)
ProcessDies ==
    /\ deaths < MaxDeaths /\ deaths' = deaths + 1
    /\ ui' = NoUi /\ link' = "idle" /\ aud' = Loading /\ degraded' = FALSE
    /\ flow' = [t \in Tasks |-> IF Live(t) THEN Gone(flow[t]) ELSE flow[t]]
    /\ UNCHANGED <<used, decided, rows, faults, ran>>

-----------------------------------------------------------------------------
UserActs(t) ==
    \/ RejectCommand(t) \/ ExecuteSafe(t) \/ RecordScan(t) \/ ObserveLocalModel(t) \/ RequestApproval(t)
    \/ Approve(t) \/ Deny(t)

LinkActs == (\E op \in {"rotating", "forgetting"} : LinkOperation(op)) \/ RotationAnswers \/ ForgetAnswers

PhoneNext ==
    \/ \E t \in Tasks :
          \/ UserActs(t)
          \/ ExpirePending(t) \/ Collect(t) \/ JobEnds(t) \/ JobFails(t) \/ ObservationEnds(t)
          \/ GatewayStep(t) /\ UNCHANGED <<ui, used, decided, deaths, link, auditVars>>
    \/ CancelTask
    \/ LinkActs
    \/ LoadAudit \/ ObserveEntries \/ WriteRecord
    \/ ProcessDies

PhoneSpec == PhoneInit /\ [][PhoneNext]_phoneVars

(* What goes on by itself: the main thread runs its coroutines and the     *)
(* timers fire (the approval's, the attempt's, the tool's, the model's).   *)
TaskProceeds(t) ==
    \/ ExpirePending(t) \/ Collect(t) \/ JobEnds(t) \/ ObservationEnds(t)
    \/ FlowProceeds(t) /\ UNCHANGED <<ui, used, decided, deaths, link, auditVars>>

(* Something that can go on by itself does, sooner or later: a coroutine,  *)
(* a timer or the audit thread.  Neither the user nor the Hub nor the      *)
(* network is assumed to do anything, nor an operation on the link to end. *)
Proceeds ==
    \/ \E t \in Tasks : TaskProceeds(t)
    \/ LoadAudit \/ ObserveEntries \/ WriteRecord

PhoneFairSpec == PhoneSpec /\ WF_phoneVars(Proceeds)

-----------------------------------------------------------------------------
(* Properties.                                                             *)

Entries == {ui.tl.entries[i] : i \in DOMAIN ui.tl.entries}
EndedEntries == {e \in Entries : Ended(e)}

(* A tool is started at most once for a task, whatever is retried, timed   *)
(* out or cancelled, and for a CONFIRM tool only when the approval was     *)
(* granted and nothing else became of it (approvePendingTask, the retries  *)
(* of runInvocation, consumeApproval).                                     *)
ToolRunsOnce ==
    \A t \in Tasks :
        /\ ran[t] <= 1
        /\ ran[t] = 1 /\ Confirm(t) => decided[t] = {"approved"}

Unrecorded == {e \in EndedEntries : ~e.recorded}

(* What the timeline shows and the audit table keeps is what happened:     *)
(* a completed task did run its tool, an approval that was denied,         *)
(* cancelled or expired ran nothing, even when the process died since, and *)
(* a row agrees with the entry that is shown for it                        *)
(* (toClosedTerminalAuditRecord, toTimelineEntry).                         *)
HistoryIsTrue ==
    /\ \A e \in EndedEntries \cup rows : e.phase \in {"VERIFIED", "UNVERIFIED"} => ran[e.id] = 1
    /\ \A r \in rows \cup {Record(e) : e \in Unrecorded} :
          r.approval \in {"denied", "cancelled", "expired"} => ran[r.id] = 0
    /\ \A r \in rows, e \in Entries : r.id = e.id => r.phase = e.phase /\ r.at = e.at

(* The approval card is about the execution that is pending and the task   *)
(* that is active: nobody approves what is not pending, or has been        *)
(* cancelled since.  And only the active task waits for an approval: it    *)
(* has its card, unless the answer of a rotation took it away              *)
(* (pendingApproval and pendingExecution are kept in two places).          *)
Lost(t) == "lost" \in decided[t]

ApprovalCardIsLive ==
    /\ ui.card # NoTask => ui.pending = ui.card /\ ui.tl.active = ui.card
    /\ \A e \in Entries :
          e.phase = "AWAITING_APPROVAL" => e.id = ui.tl.active /\ (e.id = ui.card \/ Lost(e.id))

(* The end of a task is final: a late event, a second cancellation or a    *)
(* restart changes neither what is shown of it nor its row (apply drops    *)
(* the events of a task that is not active; attemptedTaskIds).             *)
TerminalIsFinal ==
    [][/\ \A e \in EndedEntries, g \in Entries' : e.id = g.id => g.phase = e.phase /\ g.at = e.at
       /\ \A r \in rows, s \in rows' : r.id = s.id => r = s]_phoneVars

(* The phone does not stay busy: an active task ends even if the Hub never *)
(* answers and the user never decides (attempt timeout, approval timer,    *)
(* tool timeout, and an evicted entry clears activeTaskId) - unless the    *)
(* answer of a rotation took its approval card away.                       *)
BusyEnds == []<>(~Busy \/ Lost(ui.tl.active))

(* Every task that is shown as ended is written to the audit table, or the *)
(* user is told that history is degraded, although the observer sees only  *)
(* the latest state after each write (observeTerminalAudit).               *)
AuditedOrDegraded ==
    \A t \in Tasks : []<>(degraded \/ \A e \in EndedEntries : e.id = t => e.recorded)

(* docs/adr/0004: "Denial, cancellation, and expiry are terminal".  The    *)
(* task of an approval that came to such an end is shown as ended          *)
(* (expireApproval and denyApproval of GoffyUiState do it for a card).     *)
ApprovalEndIsTerminal ==
    \A e \in Entries : decided[e.id] \cap {"denied", "cancelled", "expired"} # {} => Ended(e)

=============================================================================
