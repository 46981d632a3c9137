----------------------------- MODULE HubGateway -----------------------------
(***************************************************************************)
(* How a task is executed on the phone: the flow of a Mac task (invoke of  *)
(* OkHttpHubGateway.kt: attempts, one WebSocket each, discovery, the       *)
(* invocation, the signed approval, retries and a timeout) and the flow of *)
(* a phone task (PhoneToolGateway.kt).  What a flow has emitted waits in   *)
(* chan until the view model collects it.                                  *)
(*                                                                         *)
(* What the phone has sent (up) may arrive at the Hub after the connection *)
(* is gone, or never; what the Hub has sent (net) is lost with it.  The    *)
(* wall clock may be set, so a test of the approval's deadline is a choice.*)
(***************************************************************************)
EXTENDS TaskTimeline

CONSTANT MaxAttempts    \* MAX_ATTEMPTS

ASSUME GatewayAssumption == MaxAttempts \in Nat \ {0}

VARIABLES
    flow,   \* per task: its flow
    ran     \* history, per task: how often its tool was started

gatewayVars == <<flow, ran>>

NoFlow == [pc |-> "none", plan |-> NoPlan, attempt |-> 0, invoked |-> FALSE, outcome |-> "none",
           chan |-> <<>>, net |-> <<>>, up |-> "none"]

(* The flow's driver has ended, or its job (awaitClose cancels the driver  *)
(* and the socket).  What was sent may still be on its way.                *)
Done(f) == [NoFlow EXCEPT !.pc = "done", !.plan = f.plan, !.chan = f.chan, !.up = f.up]
Gone(f) == [NoFlow EXCEPT !.pc = "gone", !.plan = f.plan, !.up = f.up]

Emit(f, event) == [f EXCEPT !.chan = Append(@, event)]

(* The head of runInvocation's loop. *)
Begin(f) ==
    {[Emit(f, Starting(f.attempt)) EXCEPT !.pc = "connecting"]} \cup
    (IF f.plan.permission = "CONFIRM" THEN {Done(Emit(f, Error("expired")))} ELSE {})

(* The head of the phone's flow: toAllowedOperation may find that the      *)
(* grant has expired.                                                      *)
PhoneBegin(f) ==
    {[f EXCEPT !.pc = "execute", !.chan = <<Starting(1), Ready, Progress("accepted", 0)>>]} \cup
    (IF f.plan.permission = "CONFIRM" THEN {Done(Emit(f, Error("failed")))} ELSE {})

(* A flow as it first suspends. *)
Launched(plan) ==
    LET f == [NoFlow EXCEPT !.plan = plan, !.attempt = 1]
    IN IF plan.target = "MAC" THEN Begin(f) ELSE PhoneBegin(f)

GatewayInit ==
    /\ flow = [t \in Tasks |-> NoFlow]
    /\ ran = [t \in Tasks |-> 0]

Becomes(t, flows) == flow' \in {[flow EXCEPT ![t] = f] : f \in flows}
In(t, pcs) == flow[t].pc \in pcs
Confirm(t) == flow[t].plan.permission = "CONFIRM"


-----------------------------------------------------------------------------
(* A Mac task.                                                             *)

Connected(t) == In(t, {"invoked", "closing"})
InAttempt == {"connecting", "discovering", "invoked", "closing"}

(* An attempt ends (finish) and runInvocation decides what is next. *)
Finish(f, outcome) ==
    CASE outcome = "completed" -> Done(f)
      [] outcome = "retryable" /\ f.attempt < MaxAttempts ->
            [f EXCEPT !.pc = "loop", !.attempt = @ + 1, !.invoked = FALSE, !.outcome = "none", !.net = <<>>]
      [] OTHER -> Done(Emit(f, Error(IF outcome = "expired" THEN "expired" ELSE "failed")))

(* closeWithOutcome: the outcome is kept until the socket has closed,      *)
(* unless close() finds that it is closing, closed or failed already.      *)
CloseWith(f, outcome) ==
    {Finish(f, outcome)} \cup
    (IF f.pc = "closing" THEN {} ELSE {[f EXCEPT !.pc = "closing", !.outcome = outcome]})

ApprovalExpired(t) == IF Confirm(t) THEN CloseWith(flow[t], "expired") ELSE {}

BeginAttempt(t) ==
    /\ In(t, {"loop"}) /\ Becomes(t, Begin(flow[t]))
    /\ UNCHANGED ran

(* onOpen: send() may be refused by a socket that is failing. *)
OnOpen(t) ==
    /\ In(t, {"connecting"})
    /\ Becomes(t, {[flow[t] EXCEPT !.pc = "discovering"]} \cup CloseWith(flow[t], "retryable") \cup ApprovalExpired(t))
    /\ UNCHANGED ran

(* onMessage before the invocation: the answer to the discovery. *)
OnDiscovery(t) ==
    LET f == flow[t] IN
    /\ In(t, {"discovering"})
    /\ Becomes(t, {[Emit(f, Ready) EXCEPT !.pc = "invoked", !.invoked = TRUE, !.up = "invoke"]} \cup
                  CloseWith(f, "final") \cup CloseWith(f, "retryable") \cup ApprovalExpired(t))
    /\ UNCHANGED ran

(* onMessage: the Hub asks for the signed approval.  The keystore may      *)
(* refuse to sign, and the response may not be sent.                       *)
OnApprovalRequest(t) ==
    LET f == flow[t]
        g == [f EXCEPT !.net = Tail(@)]
    IN
    /\ Connected(t) /\ f.net # <<>> /\ Head(f.net).kind = "ask"
    /\ Becomes(t, (IF In(t, {"invoked"}) THEN {[g EXCEPT !.up = "approve"]} ELSE {}) \cup
                  UNION {CloseWith(g, outcome) : outcome \in {"final", "expired", "retryable"}})
    /\ UNCHANGED ran

(* onMessage: an event.  After a terminal one the socket is closed. *)
OnEvent(t) ==
    LET event == Head(flow[t].net)
        f == Emit([flow[t] EXCEPT !.net = Tail(@)], event)
    IN /\ Connected(t) /\ flow[t].net # <<>> /\ event.kind # "ask"
       /\ Becomes(t, IF event.kind \in {"verification", "error"} THEN CloseWith(f, "completed") ELSE {f})
       /\ UNCHANGED ran

(* onMessage with something that the codec refuses. *)
ProtocolFailure(t) ==
    /\ Connected(t) /\ Becomes(t, CloseWith(flow[t], "final"))
    /\ UNCHANGED ran

(* Slip: whether the invocation was sent is not asked. *)
ConnectionEndsRetry(t) ==
    LET f == flow[t] IN
    /\ In(t, InAttempt)
    /\ Becomes(t, {Finish(f, IF In(t, {"closing"}) THEN f.outcome ELSE "retryable")} \cup
                  (IF In(t, {"connecting"}) THEN {Finish(f, "final")} ELSE {}))
    /\ UNCHANGED ran

(* onClosed, onFailure (with the Hub's refusal of the upgrade or without   *)
(* any response) and a newWebSocket() that raises.                         *)
ConnectionEnds(t) ==
    LET f == flow[t] IN
    /\ In(t, InAttempt)
    /\ Becomes(t, {Finish(f, IF In(t, {"closing"}) THEN f.outcome
                             ELSE IF f.invoked THEN "final" ELSE "retryable")} \cup
                  (IF In(t, {"connecting"}) THEN {Finish(f, "final")} ELSE {}))
    /\ UNCHANGED ran

(* Slip: only the connection is given a time. *)
AttemptTimesOutConnecting(t) ==
    /\ In(t, {"connecting"}) /\ Becomes(t, {Finish(flow[t], "final")})
    /\ UNCHANGED ran

(* withTimeoutOrNull: a late answer finds the attempt over. *)
AttemptTimesOut(t) ==
    /\ In(t, InAttempt) /\ Becomes(t, {Finish(flow[t], "final")})
    /\ UNCHANGED ran

-----------------------------------------------------------------------------
(* The Hub's receive loop, seen from one task (HubMessages has its inside).*)

Ask == [kind |-> "ask"]
ToolFails == <<Progress("accepted", 0), Error("failed")>>
ToolSucceeds == <<Progress("accepted", 0), Progress("completed", 1), ToolResult, Verification>>

HubAnswers(t, messages) ==
    flow' = [flow EXCEPT ![t].up = "none", ![t].net = IF Connected(t) THEN @ \o messages ELSE @]

HubRefuses(t) ==
    /\ flow[t].up # "none"
    /\ \E code \in {"failed"} \cup (IF flow[t].up = "approve" THEN {"expired"} ELSE {}) :
         HubAnswers(t, <<Error(code)>>)
    /\ UNCHANGED ran

HubAsks(t) ==
    /\ flow[t].up = "invoke" /\ Confirm(t)
    /\ HubAnswers(t, <<Ask>>)
    /\ UNCHANGED ran

HubRuns(t) ==
    /\ flow[t].up = IF Confirm(t) THEN "approve" ELSE "invoke"
    /\ \E messages \in {ToolFails, ToolSucceeds} : HubAnswers(t, messages)
    /\ ran' = [ran EXCEPT ![t] = @ + 1]

-----------------------------------------------------------------------------
(* A phone task.  Its flow is cold: what it emits is collected in place.   *)

PhoneRuns(t) ==
    /\ In(t, {"execute"}) /\ flow[t].chan = <<>>
    /\ Becomes(t, {[flow[t] EXCEPT !.pc = "ran"]})
    /\ ran' = [ran EXCEPT ![t] = @ + 1]

(* The tool times out, fails or returns something invalid, or it succeeds  *)
(* with a state that could be read back or not.                            *)
PhoneAnswers(t) ==
    LET f == flow[t] IN
    /\ In(t, {"execute", "ran"}) /\ f.chan = <<>>
    /\ Becomes(t, {Done(Emit(f, Error("failed")))} \cup
                  (IF In(t, {"ran"})
                   THEN {Done([f EXCEPT !.chan = <<Progress("completed", 1), ToolResult, verdict>>]) :
                             verdict \in {Verification, Unverified}}
                   ELSE {}))
    /\ UNCHANGED ran

-----------------------------------------------------------------------------
(* What goes on by itself: the driver, the timeout and the phone's tools.  *)
FlowProceeds(t) == BeginAttempt(t) \/ AttemptTimesOut(t) \/ PhoneRuns(t) \/ PhoneAnswers(t)

GatewayStep(t) ==
    \/ FlowProceeds(t)
    \/ OnOpen(t) \/ OnDiscovery(t) \/ OnApprovalRequest(t) \/ OnEvent(t) \/ ProtocolFailure(t) \/ ConnectionEnds(t)
    \/ HubRefuses(t) \/ HubAsks(t) \/ HubRuns(t)

=============================================================================
