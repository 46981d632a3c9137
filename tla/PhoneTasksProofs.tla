-------------------------- MODULE PhoneTasksProofs --------------------------
(* Proofs about the phone's agent, for any tasks, routes, limits, numbers  *)
(* of attempts, database failures and deaths of the process.               *)
EXTENDS PhoneTasks, FiniteSetTheorems, SequenceTheorems, WellFoundedInduction, TLAPS

-----------------------------------------------------------------------------
(* Executions.                                                             *)

(* The places of a flow, and the outcomes of an attempt. *)
Pcs == {"none", "observing", "loop", "connecting", "discovering", "invoked", "closing",
        "execute", "ran", "done", "gone"}
Outcomes == {"completed", "retryable", "final", "expired"}

(* What the Hub sends besides a request for approval, and what a flow emits. *)
Answers == {Progress("accepted", 0), Progress("completed", 1), ToolResult, Verification,
            Error("failed"), Error("expired")}
Emitted == [kind : {"starting"}, n : Nat] \cup Answers \cup {Ready, Unverified}

(* Flows. *)
FlowType == [pc : Pcs, plan : Plans \cup {NoPlan}, attempt : Nat, invoked : BOOLEAN,
             outcome : Outcomes \cup {"none"}, chan : Seq(Emitted),
             net : Seq(Answers \cup {Ask}), up : {"none", "invoke", "approve"}]

(* A flow whose tool was started r times.  Once the tool has started,      *)
(* nothing is on its way to the Hub; an attempt that may be repeated has   *)
(* nothing on its way either, and the Hub has started nothing.             *)
FlowOK(f, r) ==
    /\ f \in FlowType /\ r \in {0, 1}
    /\ r = 1 => f.up = "none"
    /\ f.up # "none" => f.net = <<>>
    /\ (f.net = <<Ask>> /\ r = 0) \/ f.net \in Seq(Answers)
    /\ f.pc \in {"none", "observing", "loop", "connecting", "discovering", "execute"} =>
          f.up = "none" /\ f.net = <<>>
    /\ f.pc \in {"loop", "connecting", "discovering", "execute"} => r = 0
    /\ f.pc = "invoked" => f.invoked
    /\ f.pc = "closing" => f.outcome # "none"
    /\ f.pc = "closing" /\ f.outcome = "retryable" => r = 0 /\ f.up = "none" /\ f.net = <<>>
    /\ f.pc = "none" /\ f.plan.permission = "CONFIRM" => r = 0

(* A flow that has been started stays one, of the same plan. *)
Follows(f, g, r) == FlowOK(g, r) /\ g.plan = f.plan /\ g.pc # "none"

(* Every task's flow is in order. *)
FlowsInv ==
    /\ flow \in [Tasks -> FlowType] /\ ran \in [Tasks -> {0, 1}]
    /\ \A t \in Tasks : FlowOK(flow[t], ran[t])

(* The view model is a record of four fields. *)
IsUi(u) == u = [tl |-> u.tl, card |-> u.card, pending |-> u.pending, job |-> u.job]

(* The pending execution and the job: one has not begun, the other has.    *)
(* What the card is about has not begun either, and is not decided.        *)
OwnersInv ==
    /\ used \subseteq Tasks
    /\ IsUi(ui)
    /\ ui.card \in used \cup {NoTask}
    /\ ui.pending \in used \cup {NoTask} /\ ui.job \in used \cup {NoTask}
    /\ \A t \in Tasks \ used : flow[t] = NoFlow /\ ran[t] = 0 /\ decided[t] = {}
    /\ \A t \in Tasks : ui.pending = t => flow[t].pc = "none" /\ Confirm(t)
    /\ \A t \in Tasks : ui.card = t => flow[t].pc = "none" /\ Confirm(t) /\ decided[t] = {}
    /\ \A t \in Tasks : ui.job = t => flow[t].pc # "none"

(* What may become of an approval. *)
Ends == {"approved", "denied", "cancelled", "expired", "lost"}

(* Only CONFIRM tools are decided on; one whose flow has begun was         *)
(* approved, and only that.                                                *)
DecidedInv ==
    /\ decided \in [Tasks -> SUBSET Ends]
    /\ \A t \in Tasks : decided[t] # {} => Confirm(t)
    /\ \A t \in Tasks : Confirm(t) /\ flow[t].pc # "none" => decided[t] = {"approved"}

(* The inductive invariant of executions. *)
RunInv == FlowsInv /\ OwnersInv /\ DecidedInv

-----------------------------------------------------------------------------
(* What the operators on flows preserve.                                   *)

(* No flow is a good flow, before and after a run. *)
LEMMA EmptyFlow == NoFlow \in FlowType /\ FlowOK(NoFlow, 0) /\ FlowOK(NoFlow, 1)
<1>1. <<>> \in Seq(Emitted) /\ <<>> \in Seq(Answers \cup {Ask}) /\ <<>> \in Seq(Answers)
  BY EmptySeq
<1>2. NoFlow \in FlowType
  BY <1>1 DEF NoFlow, FlowType, Pcs, Outcomes
<1>3. NoFlow.plan.permission # "CONFIRM"
  BY DEF NoFlow, NoPlan, Plan
<1>4. /\ NoFlow.up = "none" /\ NoFlow.net = <<>> /\ NoFlow.pc = "none"
  BY DEF NoFlow
<1> QED BY <1>1, <1>2, <1>3, <1>4 DEF FlowOK

(* Emitting an event changes the channel only. *)
LEMMA EmitOK ==
    ASSUME NEW f, NEW r, FlowOK(f, r), NEW e \in Emitted
    PROVE  FlowOK(Emit(f, e), r) /\ Emit(f, e).plan = f.plan /\ Emit(f, e).pc = f.pc
           /\ Emit(f, e).up = f.up /\ Emit(f, e).net = f.net /\ Emit(f, e).attempt = f.attempt
           /\ Emit(f, e).chan = Append(f.chan, e)
<1>1. PICK g : g = Emit(f, e)
  OBVIOUS
<1>2. f \in FlowType
  BY DEF FlowOK
<1>3. Append(f.chan, e) \in Seq(Emitted)
  BY <1>2, AppendProperties DEF FlowType
<1>4. g \in FlowType
  BY <1>1, <1>2, <1>3 DEF Emit, FlowType
<1>5. /\ g.pc = f.pc /\ g.plan = f.plan /\ g.attempt = f.attempt /\ g.invoked = f.invoked
      /\ g.outcome = f.outcome /\ g.net = f.net /\ g.up = f.up /\ g.chan = Append(f.chan, e)
  BY <1>1, <1>2 DEF Emit, FlowType
<1>6. FlowOK(g, r)
  BY <1>4, <1>5 DEF FlowOK
<1> QED BY <1>1, <1>5, <1>6

(* A flow that is done or gone follows the flow it was. *)
LEMMA EndedFlows ==
    ASSUME NEW f, NEW r, FlowOK(f, r)
    PROVE  Follows(f, Done(f), r) /\ Follows(f, Gone(f), r)
<1>1. f \in FlowType
  BY DEF FlowOK
<1>2. <<>> \in Seq(Emitted) /\ <<>> \in Seq(Answers \cup {Ask}) /\ <<>> \in Seq(Answers)
  BY EmptySeq
<1>3. PICK d, g : d = Done(f) /\ g = Gone(f)
  OBVIOUS
<1>4. d = [pc |-> "done", plan |-> f.plan, attempt |-> 0, invoked |-> FALSE, outcome |-> "none",
           chan |-> f.chan, net |-> <<>>, up |-> f.up]
  BY <1>3 DEF Done, NoFlow
<1>5. g = [pc |-> "gone", plan |-> f.plan, attempt |-> 0, invoked |-> FALSE, outcome |-> "none",
           chan |-> <<>>, net |-> <<>>, up |-> f.up]
  BY <1>3 DEF Gone, NoFlow
<1>6. d \in FlowType /\ g \in FlowType
  BY <1>1, <1>2, <1>4, <1>5 DEF FlowType, Pcs, Outcomes
<1>7. d.pc = "done" /\ d.plan = f.plan /\ d.up = f.up /\ d.net = <<>>
  BY <1>4
<1>8. g.pc = "gone" /\ g.plan = f.plan /\ g.up = f.up /\ g.net = <<>>
  BY <1>5
<1>9. FlowOK(d, r)
  BY <1>2, <1>6, <1>7 DEF FlowOK
<1>10. FlowOK(g, r)
  BY <1>2, <1>6, <1>8 DEF FlowOK
<1> QED BY <1>3, <1>7, <1>8, <1>9, <1>10 DEF Follows

(* The events that the gateways emit. *)
LEMMA ErrorsAreEmitted ==
    /\ Error("failed") \in Emitted /\ Error("expired") \in Emitted /\ Ready \in Emitted
    /\ ToolResult \in Emitted /\ Verification \in Emitted /\ Unverified \in Emitted
    /\ Progress("accepted", 0) \in Emitted /\ Progress("completed", 1) \in Emitted
    /\ \A n \in Nat : Starting(n) \in Emitted
BY DEF Emitted, Answers, Starting

(* An attempt ends. *)
LEMMA FinishOK ==
    ASSUME NEW f, NEW r, FlowOK(f, r), NEW outcome \in Outcomes,
           outcome = "retryable" => r = 0 /\ f.up = "none"
    PROVE  Follows(f, Finish(f, outcome), r)
<1>1. f \in FlowType
  BY DEF FlowOK
<1>2. CASE outcome = "completed"
  BY <1>2, EndedFlows DEF Finish
<1>3. CASE outcome = "retryable" /\ f.attempt < MaxAttempts
  <2>1. PICK g : g = Finish(f, outcome)
    OBVIOUS
  <2>2. g = [f EXCEPT !.pc = "loop", !.attempt = @ + 1, !.invoked = FALSE, !.outcome = "none", !.net = <<>>]
    BY <1>3, <2>1 DEF Finish
  <2>3. <<>> \in Seq(Answers \cup {Ask}) /\ <<>> \in Seq(Answers)
    BY EmptySeq
  <2>4. g.pc = "loop" /\ g.plan = f.plan /\ g.up = "none" /\ g.net = <<>>
    BY <1>1, <1>3, <2>2 DEF FlowType
  <2>5. g \in FlowType
    <3>1. g = [pc |-> "loop", plan |-> f.plan, attempt |-> f.attempt + 1, invoked |-> FALSE,
               outcome |-> "none", chan |-> f.chan, net |-> <<>>, up |-> f.up]
      BY <1>1, <2>2 DEF FlowType
    <3>2. f.attempt + 1 \in Nat /\ f.plan \in Plans \cup {NoPlan} /\ f.chan \in Seq(Emitted)
          /\ f.up \in {"none", "invoke", "approve"}
      BY <1>1 DEF FlowType
    <3> QED BY <2>3, <3>1, <3>2 DEF FlowType, Pcs
  <2>6. FlowOK(g, r)
    BY <1>3, <2>3, <2>4, <2>5 DEF FlowOK
  <2> QED BY <2>1, <2>4, <2>6 DEF Follows
<1>4. CASE ~(outcome = "completed") /\ ~(outcome = "retryable" /\ f.attempt < MaxAttempts)
  <2>1. PICK c : c = IF outcome = "expired" THEN "expired" ELSE "failed"
    OBVIOUS
  <2>2. Finish(f, outcome) = Done(Emit(f, Error(c)))
    BY <1>4, <2>1 DEF Finish
  <2>3. Error(c) \in Emitted
    BY <2>1, ErrorsAreEmitted
  <2>4. PICK h : h = Emit(f, Error(c))
    OBVIOUS
  <2>5. FlowOK(h, r) /\ h.plan = f.plan
    BY <2>3, <2>4, EmitOK
  <2>6. Follows(h, Done(h), r)
    BY <2>5, EndedFlows
  <2> QED BY <2>2, <2>4, <2>5, <2>6 DEF Follows
<1> QED BY <1>2, <1>3, <1>4

(* Closing an attempt is sound if a retry is due to nothing sent. *)
LEMMA CloseOK ==
    ASSUME NEW f, NEW r, FlowOK(f, r), NEW outcome \in Outcomes,
           outcome = "retryable" => r = 0 /\ f.up = "none" /\ f.net = <<>>,
           NEW g \in CloseWith(f, outcome)
    PROVE  Follows(f, g, r)
<1>1. f \in FlowType
  BY DEF FlowOK
<1>2. CASE g = Finish(f, outcome)
  BY <1>2, FinishOK
<1>3. CASE g = [f EXCEPT !.pc = "closing", !.outcome = outcome]
  <2>1. g \in FlowType
    BY <1>1, <1>3 DEF FlowType, Pcs
  <2>2. /\ g.pc = "closing" /\ g.plan = f.plan /\ g.up = f.up /\ g.net = f.net
        /\ g.outcome = outcome
    BY <1>1, <1>3 DEF FlowType
  <2>3. FlowOK(g, r)
    BY <2>1, <2>2 DEF FlowOK, Outcomes
  <2> QED BY <2>2, <2>3 DEF Follows
<1> QED BY <1>2, <1>3 DEF CloseWith

(* The head of the loop, and of the phone's flow. *)
LEMMA BeginOK ==
    ASSUME NEW f, NEW r, FlowOK(f, r), r = 0, f.up = "none", f.net = <<>>, NEW g \in Begin(f)
    PROVE  Follows(f, g, r)
<1>1. f \in FlowType
  BY DEF FlowOK
<1>2. CASE g = [Emit(f, Starting(f.attempt)) EXCEPT !.pc = "connecting"]
  <2>1. PICK h : h = Emit(f, Starting(f.attempt))
    OBVIOUS
  <2>2. Starting(f.attempt) \in Emitted
    BY <1>1, ErrorsAreEmitted DEF FlowType
  <2>3. FlowOK(h, r) /\ h.plan = f.plan /\ h.up = f.up /\ h.net = f.net
    BY <2>1, <2>2, EmitOK
  <2>4. h \in FlowType /\ g = [h EXCEPT !.pc = "connecting"]
    BY <1>2, <2>1, <2>3 DEF FlowOK
  <2>5. g \in FlowType /\ g.pc = "connecting" /\ g.plan = f.plan /\ g.up = "none" /\ g.net = <<>>
    BY <2>3, <2>4 DEF FlowType, Pcs
  <2>6. <<>> \in Seq(Answers)
    BY EmptySeq
  <2>7. FlowOK(g, r)
    BY <2>5, <2>6 DEF FlowOK
  <2> QED BY <2>5, <2>7 DEF Follows
<1>3. CASE g = Done(Emit(f, Error("expired")))
  <2>1. PICK h : h = Emit(f, Error("expired"))
    OBVIOUS
  <2>2. FlowOK(h, r) /\ h.plan = f.plan
    BY <2>1, EmitOK, ErrorsAreEmitted
  <2>3. Follows(h, Done(h), r)
    BY <2>2, EndedFlows
  <2> QED BY <1>3, <2>1, <2>2, <2>3 DEF Follows
<1> QED BY <1>2, <1>3 DEF Begin

(* A phone task begins its tool only if it never did. *)
LEMMA PhoneBeginOK ==
    ASSUME NEW f, NEW r, FlowOK(f, r), r = 0, f.up = "none", f.net = <<>>, NEW g \in PhoneBegin(f)
    PROVE  Follows(f, g, r)
<1>1. f \in FlowType
  BY DEF FlowOK
<1>2. CASE g = [f EXCEPT !.pc = "execute", !.chan = <<Starting(1), Ready, Progress("accepted", 0)>>]
  <2>1. <<Starting(1), Ready, Progress("accepted", 0)>> \in Seq(Emitted)
    <3>1. Starting(1) \in Emitted /\ Ready \in Emitted /\ Progress("accepted", 0) \in Emitted
      BY ErrorsAreEmitted
    <3> HIDE DEF Emitted, Starting, Ready, Progress
    <3> QED BY <3>1
  <2>2. g \in FlowType
    BY <1>1, <1>2, <2>1 DEF FlowType, Pcs
  <2>3. g.pc = "execute" /\ g.plan = f.plan /\ g.up = "none" /\ g.net = <<>>
    BY <1>1, <1>2 DEF FlowType
  <2>4. <<>> \in Seq(Answers)
    BY EmptySeq
  <2>5. FlowOK(g, r)
    BY <2>2, <2>3, <2>4 DEF FlowOK
  <2> QED BY <2>3, <2>5 DEF Follows
<1>3. CASE g = Done(Emit(f, Error("failed")))
  <2>1. PICK h : h = Emit(f, Error("failed"))
    OBVIOUS
  <2>2. FlowOK(h, r) /\ h.plan = f.plan
    BY <2>1, EmitOK, ErrorsAreEmitted
  <2>3. Follows(h, Done(h), r)
    BY <2>2, EndedFlows
  <2> QED BY <1>3, <2>1, <2>2, <2>3 DEF Follows
<1> QED BY <1>2, <1>3 DEF PhoneBegin

(* A launched flow is a good flow that ran nothing. *)
LEMMA LaunchedOK ==
    ASSUME NEW plan \in Plans, NEW g \in Launched(plan)
    PROVE  FlowOK(g, 0) /\ g.plan = plan /\ g.pc # "none"
<1>1. PICK f : f = [NoFlow EXCEPT !.plan = plan, !.attempt = 1]
  OBVIOUS
<1>2. NoFlow \in FlowType
  BY EmptyFlow
<1>3. f \in FlowType /\ f.plan = plan /\ f.up = "none" /\ f.net = <<>> /\ f.pc = "none"
  BY <1>1, <1>2 DEF FlowType, NoFlow
<1>4. <<>> \in Seq(Answers)
  BY EmptySeq
<1>5. FlowOK(f, 0)
  BY <1>3, <1>4 DEF FlowOK
<1>6. g \in Begin(f) \/ g \in PhoneBegin(f)
  BY <1>1 DEF Launched
<1>7. Follows(f, g, 0)
  BY <1>3, <1>5, <1>6, BeginOK, PhoneBeginOK
<1> QED BY <1>3, <1>7 DEF Follows

-----------------------------------------------------------------------------
(* The steps of one flow.                                                  *)

(* The step moves the flow of t to g, with its tool started r times. *)
Moves(t, g, r) ==
    /\ flow' = [flow EXCEPT ![t] = g] /\ ran' = [ran EXCEPT ![t] = r]
    /\ flow[t].pc # "none" /\ Follows(flow[t], g, r)

(* A step that starts no tool. *)
LEMMA Quietly ==
    ASSUME FlowsInv, NEW t \in Tasks, flow[t].pc # "none", NEW flows, Becomes(t, flows),
           UNCHANGED ran, \A g \in flows : Follows(flow[t], g, ran[t])
    PROVE  \E g, r : Moves(t, g, r)
<1>1. PICK g \in flows : flow' = [flow EXCEPT ![t] = g]
  BY DEF Becomes
<1>2. ran' = [ran EXCEPT ![t] = ran[t]]
  BY DEF FlowsInv
<1>3. Moves(t, g, ran[t])
  BY <1>1, <1>2 DEF Moves
<1> QED BY <1>3

(* An expired approval ends its flow. *)
LEMMA ExpiredOK ==
    ASSUME FlowsInv, NEW t \in Tasks, NEW g \in ApprovalExpired(t)
    PROVE  Follows(flow[t], g, ran[t])
<1>1. FlowOK(flow[t], ran[t])
  BY DEF FlowsInv
<1>2. g \in CloseWith(flow[t], "expired")
  BY DEF ApprovalExpired
<1> QED BY <1>1, <1>2, CloseOK DEF Outcomes

(* The steps of an attempt without the Hub's word are sound. *)
LEMMA AttemptSteps ==
    ASSUME FlowsInv, NEW t \in Tasks,
           BeginAttempt(t) \/ AttemptTimesOut(t) \/ OnOpen(t) \/ ProtocolFailure(t)
    PROVE  \E g, r : Moves(t, g, r)
<1>1. PICK f, r : f = flow[t] /\ r = ran[t]
  OBVIOUS
<1>2. FlowOK(f, r) /\ f \in FlowType
  BY <1>1 DEF FlowsInv
<1>3. CASE BeginAttempt(t)
  <2>1. f.pc = "loop" /\ Becomes(t, Begin(f)) /\ UNCHANGED ran
    BY <1>1, <1>3 DEF BeginAttempt, In
  <2>2. r = 0 /\ f.up = "none" /\ f.net = <<>>
    BY <1>2, <2>1 DEF FlowOK
  <2>3. \A g \in Begin(f) : Follows(f, g, r)
    BY <1>2, <2>2, BeginOK
  <2> QED BY <1>1, <2>1, <2>3, Quietly
<1>4. CASE AttemptTimesOut(t)
  <2>1. f.pc # "none" /\ Becomes(t, {Finish(f, "final")}) /\ UNCHANGED ran
    BY <1>1, <1>4 DEF AttemptTimesOut, In, InAttempt
  <2>2. Follows(f, Finish(f, "final"), r)
    BY <1>2, FinishOK DEF Outcomes
  <2> QED BY <1>1, <2>1, <2>2, Quietly
<1>5. CASE OnOpen(t)
  <2>1. f.pc = "connecting" /\ UNCHANGED ran
    BY <1>1, <1>5 DEF OnOpen, In
  <2>2. Becomes(t, {[f EXCEPT !.pc = "discovering"]} \cup CloseWith(f, "retryable") \cup ApprovalExpired(t))
    BY <1>1, <1>5 DEF OnOpen
  <2>3. r = 0 /\ f.up = "none" /\ f.net = <<>>
    BY <1>2, <2>1 DEF FlowOK
  <2>4. \A g \in CloseWith(f, "retryable") : Follows(f, g, r)
    BY <1>2, <2>3, CloseOK DEF Outcomes
  <2>5. \A g \in ApprovalExpired(t) : Follows(f, g, r)
    BY <1>1, ExpiredOK
  <2>6. Follows(f, [f EXCEPT !.pc = "discovering"], r)
    <3>1. PICK g : g = [f EXCEPT !.pc = "discovering"]
      OBVIOUS
    <3>2. g \in FlowType /\ g.pc = "discovering" /\ g.plan = f.plan /\ g.up = f.up /\ g.net = f.net
      BY <1>2, <3>1 DEF FlowType, Pcs
    <3>3. FlowOK(g, r)
      BY <1>2, <2>3, <3>2 DEF FlowOK
    <3> QED BY <3>1, <3>2, <3>3 DEF Follows
  <2> QED BY <1>1, <2>1, <2>2, <2>4, <2>5, <2>6, Quietly
<1>6. CASE ProtocolFailure(t)
  <2>1. f.pc # "none" /\ Becomes(t, CloseWith(f, "final")) /\ UNCHANGED ran
    BY <1>1, <1>6 DEF ProtocolFailure, In, Connected
  <2>2. \A g \in CloseWith(f, "final") : Follows(f, g, r)
    BY <1>2, CloseOK DEF Outcomes
  <2> QED BY <1>1, <2>1, <2>2, Quietly
<1> QED BY <1>3, <1>4, <1>5, <1>6

(* So is the answer to a discovery. *)
LEMMA DiscoveryStep ==
    ASSUME FlowsInv, NEW t \in Tasks, OnDiscovery(t)
    PROVE  \E g, r : Moves(t, g, r)
<1>1. PICK f, r, h : f = flow[t] /\ r = ran[t] /\ h = Emit(flow[t], Ready)
  OBVIOUS
<1>2. FlowOK(f, r) /\ f \in FlowType
  BY <1>1 DEF FlowsInv
<1>3. f.pc = "discovering" /\ UNCHANGED ran
  BY <1>1 DEF OnDiscovery, In
<1>4. PICK k : k = [h EXCEPT !.pc = "invoked", !.invoked = TRUE, !.up = "invoke"]
  OBVIOUS
<1>5. Becomes(t, {k} \cup CloseWith(f, "final") \cup CloseWith(f, "retryable") \cup ApprovalExpired(t))
  BY <1>1, <1>4 DEF OnDiscovery
<1>6. r = 0 /\ f.up = "none" /\ f.net = <<>>
  BY <1>2, <1>3 DEF FlowOK
<1>7. \A g \in CloseWith(f, "final") \cup CloseWith(f, "retryable") : Follows(f, g, r)
  BY <1>2, <1>6, CloseOK DEF Outcomes
<1>8. \A g \in ApprovalExpired(t) : Follows(f, g, r)
  BY <1>1, ExpiredOK
<1>9. Follows(f, k, r)
  <2>1. FlowOK(h, r) /\ h.plan = f.plan /\ h.net = <<>>
    BY <1>1, <1>2, <1>6, EmitOK, ErrorsAreEmitted
  <2>2. h \in FlowType
    BY <2>1 DEF FlowOK
  <2>3. k = [pc |-> "invoked", plan |-> h.plan, attempt |-> h.attempt, invoked |-> TRUE,
             outcome |-> h.outcome, chan |-> h.chan, net |-> h.net, up |-> "invoke"]
    BY <1>4, <2>2 DEF FlowType
  <2>4. k \in FlowType
    BY <2>2, <2>3 DEF FlowType, Pcs
  <2>5. k.pc = "invoked" /\ k.plan = f.plan /\ k.net = <<>> /\ k.invoked
    BY <2>1, <2>3
  <2>6. <<>> \in Seq(Answers)
    BY EmptySeq
  <2>7. FlowOK(k, r)
    BY <1>6, <2>4, <2>5, <2>6 DEF FlowOK
  <2> QED BY <2>5, <2>7 DEF Follows
<1>10. \A g \in {k} \cup CloseWith(f, "final") \cup CloseWith(f, "retryable") \cup ApprovalExpired(t) :
          Follows(f, g, r)
  BY <1>7, <1>8, <1>9
<1> QED BY <1>1, <1>3, <1>5, <1>10, Quietly

(* A message is taken from the connection. *)
LEMMA TakenOK ==
    ASSUME NEW f, NEW r, FlowOK(f, r), f.net # <<>>, NEW g, g = [f EXCEPT !.net = Tail(@)]
    PROVE  /\ Follows(f, g, r) /\ g.up = f.up /\ g.up = "none" /\ g.pc = f.pc
           /\ Head(f.net).kind = "ask" => r = 0 /\ g.net = <<>>
           /\ Head(f.net).kind # "ask" => Head(f.net) \in Answers
<1>1. f \in FlowType /\ f.up = "none"
  BY DEF FlowOK, FlowType
<1>2. f.pc \notin {"none", "observing", "loop", "connecting", "discovering", "execute"}
  BY DEF FlowOK
<1>3. Ask.kind = "ask" /\ \A a \in Answers : a.kind # "ask"
  BY DEF Ask, Answers, Progress, ToolResult, Verification, Error
<1>4. <<>> \in Seq(Answers) /\ <<>> \in Seq(Answers \cup {Ask})
  BY EmptySeq
<1>5. CASE f.net = <<Ask>> /\ r = 0
  <2>1. Head(f.net) = Ask /\ Tail(f.net) = <<>>
    BY <1>5
  <2>2. g \in FlowType /\ g.net = <<>> /\ g.up = f.up /\ g.pc = f.pc /\ g.plan = f.plan
        /\ g.invoked = f.invoked /\ g.outcome = f.outcome
    BY <1>1, <1>4, <2>1 DEF FlowType
  <2>3. FlowOK(g, r)
    BY <1>1, <1>2, <1>4, <1>5, <2>2 DEF FlowOK
  <2> QED BY <1>1, <1>2, <1>3, <1>5, <2>1, <2>2, <2>3 DEF Follows
<1>6. CASE f.net \in Seq(Answers)
  <2>1. Head(f.net) \in Answers /\ Tail(f.net) \in Seq(Answers)
    BY <1>6, HeadTailProperties
  <2>2. Tail(f.net) \in Seq(Answers \cup {Ask})
    BY <2>1, SeqMonotonic
  <2>3. g \in FlowType /\ g.net = Tail(f.net) /\ g.up = f.up /\ g.pc = f.pc /\ g.plan = f.plan
        /\ g.invoked = f.invoked /\ g.outcome = f.outcome
    BY <1>1, <2>2 DEF FlowType
  <2>4. ~(f.pc = "closing" /\ f.outcome = "retryable")
    BY DEF FlowOK
  <2>5. FlowOK(g, r)
    BY <1>1, <1>2, <2>1, <2>3, <2>4 DEF FlowOK
  <2> QED BY <1>1, <1>2, <1>3, <2>1, <2>3, <2>5 DEF Follows
<1> QED BY <1>5, <1>6 DEF FlowOK

(* So are the approval request and the Hub's events. *)
LEMMA MessageSteps ==
    ASSUME FlowsInv, NEW t \in Tasks, OnApprovalRequest(t) \/ OnEvent(t)
    PROVE  \E g, r : Moves(t, g, r)
<1>1. PICK f, r, g : f = flow[t] /\ r = ran[t] /\ g = [f EXCEPT !.net = Tail(@)]
  OBVIOUS
<1>2. FlowOK(f, r) /\ f \in FlowType
  BY <1>1 DEF FlowsInv
<1>3. f.net # <<>> /\ f.pc \in {"invoked", "closing"} /\ UNCHANGED ran
  BY <1>1 DEF OnApprovalRequest, OnEvent, Connected, In
<1>4. /\ Follows(f, g, r) /\ g.up = "none" /\ g.pc = f.pc
      /\ Head(f.net).kind = "ask" => r = 0 /\ g.net = <<>>
      /\ Head(f.net).kind # "ask" => Head(f.net) \in Answers
  BY <1>1, <1>2, <1>3, TakenOK
<1>5. FlowOK(g, r) /\ g.plan = f.plan /\ g \in FlowType
  BY <1>4 DEF Follows, FlowOK
<1>6. CASE OnApprovalRequest(t)
  <2>1. r = 0 /\ g.net = <<>>
    BY <1>1, <1>4, <1>6 DEF OnApprovalRequest
  <2>2. PICK k : k = [g EXCEPT !.up = "approve"]
    OBVIOUS
  <2>3. PICK S : S = (IF f.pc = "invoked" THEN {k} ELSE {}) \cup
                     UNION {CloseWith(g, outcome) : outcome \in {"final", "expired", "retryable"}}
    OBVIOUS
  <2>4. Becomes(t, S)
    BY <1>1, <1>6, <2>2, <2>3 DEF OnApprovalRequest, In
  <2>5. ASSUME f.pc = "invoked"
        PROVE  Follows(f, k, r)
    <3>1. /\ k \in FlowType /\ k.pc = "invoked" /\ k.plan = f.plan /\ k.net = <<>>
          /\ k.invoked = g.invoked
      BY <1>4, <1>5, <2>1, <2>2, <2>5 DEF FlowType
    <3>2. g.invoked
      BY <1>4, <1>5, <2>5 DEF FlowOK
    <3>3. <<>> \in Seq(Answers)
      BY EmptySeq
    <3>4. FlowOK(k, r)
      BY <2>1, <3>1, <3>2, <3>3 DEF FlowOK
    <3> QED BY <3>1, <3>4 DEF Follows
  <2>6. ASSUME NEW outcome \in {"final", "expired", "retryable"}, NEW h \in CloseWith(g, outcome)
        PROVE  Follows(f, h, r)
    <3>1. Follows(g, h, r)
      BY <1>4, <1>5, <2>1, CloseOK DEF Outcomes
    <3> QED BY <1>5, <3>1 DEF Follows
  <2>7. \A h \in S : Follows(f, h, r)
    BY <2>3, <2>5, <2>6
  <2> QED BY <1>1, <1>3, <2>4, <2>7, Quietly
<1>7. CASE OnEvent(t)
  <2>1. PICK ev, h : ev = Head(f.net) /\ h = Emit(g, ev)
    OBVIOUS
  <2>2. ev \in Emitted
    BY <1>1, <1>4, <1>7, <2>1 DEF OnEvent, Emitted
  <2>3. FlowOK(h, r) /\ h.plan = f.plan /\ h.pc = f.pc
    BY <1>4, <1>5, <2>1, <2>2, EmitOK
  <2>4. PICK S : S = IF ev.kind \in {"verification", "error"} THEN CloseWith(h, "completed") ELSE {h}
    OBVIOUS
  <2>5. Becomes(t, S)
    BY <1>1, <1>7, <2>1, <2>4 DEF OnEvent
  <2>6. \A k \in CloseWith(h, "completed") : Follows(h, k, r)
    BY <2>3, CloseOK DEF Outcomes
  <2>7. \A k \in S : Follows(f, k, r)
    BY <1>3, <2>3, <2>4, <2>6 DEF Follows
  <2> QED BY <1>1, <1>3, <2>5, <2>7, Quietly
<1> QED BY <1>6, <1>7

(* So is the end of a connection, whatever was on its way. *)
LEMMA ConnectionStep ==
    ASSUME FlowsInv, NEW t \in Tasks, ConnectionEnds(t)
    PROVE  \E g, r : Moves(t, g, r)
<1>1. PICK f, r : f = flow[t] /\ r = ran[t]
  OBVIOUS
<1>2. FlowOK(f, r) /\ f \in FlowType
  BY <1>1 DEF FlowsInv
<1>3. f.pc \in {"connecting", "discovering", "invoked", "closing"} /\ UNCHANGED ran
  BY <1>1 DEF ConnectionEnds, In, InAttempt
<1>4. PICK o : o = IF f.pc = "closing" THEN f.outcome ELSE IF f.invoked THEN "final" ELSE "retryable"
  OBVIOUS
<1>5. PICK S : S = {Finish(f, o)} \cup (IF f.pc = "connecting" THEN {Finish(f, "final")} ELSE {})
  OBVIOUS
<1>6. Becomes(t, S)
  BY <1>1, <1>4, <1>5 DEF ConnectionEnds, In
<1>7. o \in Outcomes /\ (o = "retryable" => r = 0 /\ f.up = "none")
  <2>1. CASE f.pc = "closing"
    BY <1>2, <1>4, <2>1 DEF FlowOK, FlowType
  <2>2. CASE f.pc # "closing" /\ f.invoked
    BY <1>4, <2>2 DEF Outcomes
  <2>3. CASE f.pc # "closing" /\ ~f.invoked
    <3>1. o = "retryable"
      BY <1>4, <2>3
    <3>2. f.pc \in {"connecting", "discovering"}
      BY <1>2, <1>3, <2>3 DEF FlowOK
    <3> QED BY <1>2, <3>1, <3>2 DEF FlowOK, Outcomes
  <2> QED BY <2>1, <2>2, <2>3
<1>8. Follows(f, Finish(f, o), r)
  BY <1>2, <1>7, FinishOK
<1>9. Follows(f, Finish(f, "final"), r)
  BY <1>2, FinishOK DEF Outcomes
<1>10. \A g \in S : Follows(f, g, r)
  BY <1>5, <1>8, <1>9
<1> QED BY <1>1, <1>3, <1>6, <1>10, Quietly

(* The Hub takes what the phone has sent. *)
LEMMA HubSteps ==
    ASSUME FlowsInv, NEW t \in Tasks, HubRefuses(t) \/ HubAsks(t) \/ HubRuns(t)
    PROVE  \E g, r : Moves(t, g, r)
<1>1. PICK f, r : f = flow[t] /\ r = ran[t]
  OBVIOUS
<1>2. FlowOK(f, r) /\ f \in FlowType
  BY <1>1 DEF FlowsInv
<1>3. f.up # "none" /\ r = 0 /\ f.net = <<>> /\ f.pc # "none"
  <2>1. f.up # "none"
    BY <1>1 DEF HubRefuses, HubAsks, HubRuns
  <2> QED BY <1>2, <2>1 DEF FlowOK
<1>4. f.pc \notin {"none", "observing", "loop", "connecting", "discovering", "execute"}
      /\ ~(f.pc = "closing" /\ f.outcome = "retryable")
  BY <1>2, <1>3 DEF FlowOK
<1>5. ASSUME NEW messages, NEW q \in {0, 1}, HubAnswers(t, messages), ran' = [ran EXCEPT ![t] = q],
             messages \in Seq(Answers) \/ (messages = <<Ask>> /\ q = 0)
      PROVE  \E g, n : Moves(t, g, n)
  <2>1. PICK net : net = IF Connected(t) THEN f.net \o messages ELSE f.net
    OBVIOUS
  <2>2. messages \in Seq(Answers \cup {Ask})
    <3>1. CASE messages \in Seq(Answers)
      BY <3>1, SeqMonotonic
    <3>2. CASE messages = <<Ask>>
      BY <3>2
    <3> QED BY <1>5, <3>1, <3>2
  <2>3. f.net \o messages = messages
    BY <1>3, <2>2, ConcatEmptySeq
  <2>4. <<>> \in Seq(Answers) /\ <<>> \in Seq(Answers \cup {Ask})
    BY EmptySeq
  <2>5. net \in Seq(Answers \cup {Ask}) /\ (net \in Seq(Answers) \/ (net = <<Ask>> /\ q = 0))
    BY <1>3, <1>5, <2>1, <2>2, <2>3, <2>4
  <2>6. PICK g : g = [f EXCEPT !.up = "none", !.net = net]
    OBVIOUS
  <2>7. flow' = [flow EXCEPT ![t] = g]
    BY <1>1, <1>5, <2>1, <2>6 DEF HubAnswers, FlowsInv, FlowType
  <2>8. /\ g \in FlowType /\ g.up = "none" /\ g.net = net /\ g.pc = f.pc /\ g.plan = f.plan
        /\ g.invoked = f.invoked /\ g.outcome = f.outcome
    BY <1>2, <2>5, <2>6 DEF FlowType
  <2>9. FlowOK(g, q)
    BY <1>2, <1>4, <1>5, <2>5, <2>8 DEF FlowOK
  <2>10. Moves(t, g, q)
    BY <1>1, <1>3, <1>5, <2>7, <2>8, <2>9 DEF Moves, Follows
  <2> QED BY <2>10
<1>6. Error("failed") \in Answers /\ Error("expired") \in Answers /\ Progress("accepted", 0) \in Answers
      /\ Progress("completed", 1) \in Answers /\ ToolResult \in Answers /\ Verification \in Answers
  BY DEF Answers
<1>7. \A a \in Answers : <<a>> \in Seq(Answers)
  OBVIOUS
<1>8. ToolFails \in Seq(Answers) /\ ToolSucceeds \in Seq(Answers)
  <2>1. \A a, b \in Answers : <<a, b>> \in Seq(Answers)
    OBVIOUS
  <2>2. \A a, b, c, d \in Answers : <<a, b, c, d>> \in Seq(Answers)
    OBVIOUS
  <2> QED BY <1>6, <2>1, <2>2 DEF ToolFails, ToolSucceeds
<1>9. ran' = ran => ran' = [ran EXCEPT ![t] = 0]
  BY <1>1, <1>3 DEF FlowsInv
<1>10. CASE HubRefuses(t)
  <2>1. PICK code \in {"failed", "expired"} : HubAnswers(t, <<Error(code)>>)
    BY <1>10 DEF HubRefuses
  <2>2. <<Error(code)>> \in Seq(Answers)
    BY <1>6, <1>7
  <2>3. ran' = [ran EXCEPT ![t] = 0]
    BY <1>9, <1>10 DEF HubRefuses
  <2> QED BY <1>5, <2>1, <2>2, <2>3
<1>11. CASE HubAsks(t)
  <2>1. HubAnswers(t, <<Ask>>) /\ ran' = [ran EXCEPT ![t] = 0]
    BY <1>9, <1>11 DEF HubAsks
  <2> QED BY <1>5, <2>1
<1>12. CASE HubRuns(t)
  <2>1. PICK messages \in {ToolFails, ToolSucceeds} : HubAnswers(t, messages)
    BY <1>12 DEF HubRuns
  <2>2. ran' = [ran EXCEPT ![t] = 1]
    <3>1. ran' = [ran EXCEPT ![t] = @ + 1] /\ ran[t] = 0
      BY <1>1, <1>3, <1>12 DEF HubRuns
    <3> QED BY <3>1
  <2> QED BY <1>5, <1>8, <2>1, <2>2
<1> QED BY <1>10, <1>11, <1>12

(* So are the steps of a phone task. *)
LEMMA PhoneSteps ==
    ASSUME FlowsInv, NEW t \in Tasks, PhoneRuns(t) \/ PhoneAnswers(t)
    PROVE  \E g, r : Moves(t, g, r)
<1>1. PICK f, r : f = flow[t] /\ r = ran[t]
  OBVIOUS
<1>2. FlowOK(f, r) /\ f \in FlowType
  BY <1>1 DEF FlowsInv
<1>3. CASE PhoneRuns(t)
  <2>1. f.pc = "execute" /\ r = 0 /\ f.up = "none" /\ f.net = <<>>
    BY <1>1, <1>2, <1>3 DEF PhoneRuns, In, FlowOK
  <2>2. PICK g : g = [f EXCEPT !.pc = "ran"]
    OBVIOUS
  <2>3. flow' = [flow EXCEPT ![t] = g] /\ ran' = [ran EXCEPT ![t] = 1]
    BY <1>1, <1>3, <2>1, <2>2 DEF PhoneRuns, Becomes, FlowsInv
  <2>4. g \in FlowType /\ g.pc = "ran" /\ g.plan = f.plan /\ g.up = "none" /\ g.net = <<>>
    BY <1>2, <2>1, <2>2 DEF FlowType, Pcs
  <2>5. <<>> \in Seq(Answers)
    BY EmptySeq
  <2>6. FlowOK(g, 1)
    BY <2>4, <2>5 DEF FlowOK
  <2>7. Moves(t, g, 1)
    BY <1>1, <2>1, <2>3, <2>4, <2>6 DEF Moves, Follows
  <2> QED BY <2>7
<1>4. CASE PhoneAnswers(t)
  <2>1. f.pc \in {"execute", "ran"} /\ UNCHANGED ran
    BY <1>1, <1>4 DEF PhoneAnswers, In
  <2>2. PICK flows : Becomes(t, flows) /\
          flows = {Done(Emit(f, Error("failed")))} \cup
                  (IF f.pc \in {"ran"}
                   THEN {Done([f EXCEPT !.chan = <<Progress("completed", 1), ToolResult, verdict>>]) :
                             verdict \in {Verification, Unverified}}
                   ELSE {})
    BY <1>1, <1>4 DEF PhoneAnswers, In
  <2>3. Follows(f, Done(Emit(f, Error("failed"))), r)
    <3>1. PICK h : h = Emit(f, Error("failed"))
      OBVIOUS
    <3>2. FlowOK(h, r) /\ h.plan = f.plan
      BY <1>2, <3>1, EmitOK, ErrorsAreEmitted
    <3>3. Follows(h, Done(h), r)
      BY <3>2, EndedFlows
    <3> QED BY <3>1, <3>2, <3>3 DEF Follows
  <2>4. ASSUME NEW v \in {Verification, Unverified}
        PROVE  Follows(f, Done([f EXCEPT !.chan = <<Progress("completed", 1), ToolResult, v>>]), r)
    <3>1. PICK c : c = <<Progress("completed", 1), ToolResult, v>>
      OBVIOUS
    <3>2. c \in Seq(Emitted)
      <4>1. \A a, b, d \in Emitted : <<a, b, d>> \in Seq(Emitted)
        OBVIOUS
      <4> QED BY <3>1, <4>1, ErrorsAreEmitted
    <3>3. PICK h : h = [f EXCEPT !.chan = c]
      OBVIOUS
    <3>4. h \in FlowType /\ h.pc = f.pc /\ h.plan = f.plan /\ h.up = f.up /\ h.net = f.net
          /\ h.invoked = f.invoked /\ h.outcome = f.outcome
      BY <1>2, <3>2, <3>3 DEF FlowType
    <3>5. FlowOK(h, r)
      BY <1>2, <3>4 DEF FlowOK
    <3>6. Follows(h, Done(h), r)
      BY <3>5, EndedFlows
    <3> QED BY <3>1, <3>3, <3>4, <3>6 DEF Follows
  <2>5. \A g \in flows : Follows(f, g, r)
    BY <2>2, <2>3, <2>4
  <2> QED BY <1>1, <2>1, <2>2, <2>5, Quietly
<1> QED BY <1>3, <1>4

(* Every step of a gateway moves one flow soundly. *)
LEMMA GatewaySteps ==
    ASSUME FlowsInv, NEW t \in Tasks, GatewayStep(t)
    PROVE  \E g, r : Moves(t, g, r)
BY AttemptSteps, DiscoveryStep, MessageSteps, ConnectionStep, HubSteps, PhoneSteps
   DEF GatewayStep, FlowProceeds

-----------------------------------------------------------------------------
(* Sequences of events.                                                    *)

(* A set of natural numbers has a least element. *)
LEMMA LeastNumber ==
    ASSUME NEW T, T \subseteq Nat, T # {}
    PROVE  \E m \in T : \A k \in T : m <= k
<1> DEFINE R == OpToRel(<, Nat)
<1>1. \A x, y \in Nat : x < y => <<x, y>> \in R
  BY DEF OpToRel
<1>2. IsWellFoundedOn(R, Nat)
  BY NatLessThanWellFounded
<1> HIDE DEF R
<1>3. PICK m \in T : \A k \in T : ~(<<k, m>> \in R)
  BY <1>2, WFMin
<1>4. \A k \in T : ~(k < m)
  BY <1>1, <1>3
<1> QED BY <1>4

(* The states that an event leads to. *)
NextStates(states, t, ev, at) == {ApplyTaskEvent(v, t, ev, at) : v \in states}

(* g is the run of the first m events. *)
IsRun(g, m, u, t, events, at) ==
    g = [n \in 0 .. m |-> IF n = 0 THEN {u} ELSE NextStates(g[n - 1], t, events[n], at)]

(* The recursive function of the states after each event exists. *)
LEMMA RunsExist ==
    ASSUME NEW u, NEW t, NEW events, NEW at, NEW m \in Nat
    PROVE  \E g : IsRun(g, m, u, t, events, at)
<1> DEFINE T == {k \in Nat : ~\E g : IsRun(g, k, u, t, events, at)}
<1>1. SUFFICES ASSUME T # {} PROVE FALSE
  BY DEF T
<1>2. PICK k \in T : \A j \in T : k <= j
  BY <1>1, LeastNumber
<1>3. k \in Nat /\ ~\E g : IsRun(g, k, u, t, events, at)
  BY <1>2
<1>4. CASE k = 0
  <2>1. PICK g : g = [n \in 0 .. 0 |-> {u}]
    OBVIOUS
  <2>2. \A n \in 0 .. 0 : n = 0
    OBVIOUS
  <2>3. IsRun(g, 0, u, t, events, at)
    BY <2>1, <2>2 DEF IsRun
  <2> QED BY <1>3, <1>4, <2>3
<1>5. CASE k > 0
  <2>1. k - 1 \in Nat /\ ~(k - 1 \in T)
    BY <1>2, <1>3, <1>5
  <2>2. PICK g : IsRun(g, k - 1, u, t, events, at)
    BY <2>1
  <2>3. \A n \in 0 .. k - 1 : g[n] = IF n = 0 THEN {u} ELSE NextStates(g[n - 1], t, events[n], at)
    BY <2>2 DEF IsRun
  <2>4. PICK h : h = [n \in 0 .. k |-> IF n = k THEN NextStates(g[k - 1], t, events[k], at) ELSE g[n]]
    OBVIOUS
  <2>5. \A n \in 0 .. k - 1 : h[n] = g[n]
    BY <1>3, <2>4
  <2>6. h[k] = NextStates(h[k - 1], t, events[k], at)
    BY <1>3, <1>5, <2>1, <2>4, <2>5
  <2>7. \A n \in 0 .. k : h[n] = IF n = 0 THEN {u} ELSE NextStates(h[n - 1], t, events[n], at)
    <3>1. ASSUME NEW n \in 0 .. k, n # k
          PROVE  h[n] = IF n = 0 THEN {u} ELSE NextStates(h[n - 1], t, events[n], at)
      <4>1. n \in 0 .. k - 1 /\ (n # 0 => n - 1 \in 0 .. k - 1)
        BY <1>3, <3>1
      <4> QED BY <2>3, <2>5, <4>1
    <3> QED BY <1>5, <2>6, <3>1
  <2>8. IsRun(h, k, u, t, events, at)
    BY <2>4, <2>7 DEF IsRun
  <2> QED BY <1>3, <2>8
<1> QED BY <1>3, <1>4, <1>5

(* What the recursive definition computes. *)
LEMMA AfterFacts ==
    ASSUME NEW u, NEW t, NEW events, NEW at, Len(events) \in Nat,
           NEW s, s = StatesAfter(u, t, events, at)
    PROVE  /\ s[0] = {u}
           /\ \A n \in 1 .. Len(events) : s[n] = NextStates(s[n - 1], t, events[n], at)
<1>1. s = CHOOSE g : IsRun(g, Len(events), u, t, events, at)
  BY DEF StatesAfter, IsRun, NextStates
<1>2. IsRun(s, Len(events), u, t, events, at)
  BY <1>1, RunsExist
<1>3. \A n \in 0 .. Len(events) : s[n] = IF n = 0 THEN {u} ELSE NextStates(s[n - 1], t, events[n], at)
  BY <1>2 DEF IsRun
<1> QED BY <1>3

(* Induction along the events: G[n] holds the states after n of them. *)
LEMMA EventInduction ==
    ASSUME NEW u, NEW t, NEW events, NEW at, Len(events) \in Nat, NEW G, u \in G[0],
           \A n \in 1 .. Len(events) : \A v \in G[n - 1] :
              v \in StatesAfter(u, t, events, at)[n - 1] => ApplyTaskEvent(v, t, events[n], at) \in G[n]
    PROVE  ApplyTaskEvents(u, t, events, at) \subseteq G[Len(events)]
<1>1. PICK s, l : s = StatesAfter(u, t, events, at) /\ l = Len(events)
  OBVIOUS
<1>2. s[0] = {u} /\ \A n \in 1 .. l : s[n] = NextStates(s[n - 1], t, events[n], at)
  BY <1>1, AfterFacts
<1> DEFINE T == {n \in 0 .. l : ~(s[n] \subseteq G[n])}
<1>3. l \in Nat /\ T \subseteq Nat
  BY <1>1
<1>4. SUFFICES ASSUME T # {} PROVE FALSE
  <2>1. T = {} => s[l] \subseteq G[l]
    BY <1>3
  <2> QED BY <1>1, <2>1 DEF ApplyTaskEvents
<1>5. PICK k \in T : \A j \in T : k <= j
  BY <1>3, <1>4, LeastNumber
<1>6. CASE k = 0
  BY <1>2, <1>5, <1>6
<1>7. CASE k # 0
  <2>1. k \in 1 .. l /\ k - 1 \in 0 .. l /\ k - 1 \notin T
    BY <1>3, <1>5, <1>7
  <2>2. s[k - 1] \subseteq G[k - 1]
    BY <2>1
  <2>3. \A v \in s[k - 1] : ApplyTaskEvent(v, t, events[k], at) \in G[k]
    BY <1>1, <2>1, <2>2
  <2>4. s[k] \subseteq G[k]
    BY <1>2, <2>1, <2>3 DEF NextStates
  <2> QED BY <1>5, <2>4
<1> QED BY <1>6, <1>7

(* The same execution is pending, the same job runs, and no card comes up. *)
SameOwners(u, v) == IsUi(v) /\ v.pending = u.pending /\ v.job = u.job /\ v.card \in {u.card, NoTask}

(* An event changes timeline and card, never the pending execution or the  *)
(* job.                                                                    *)
LEMMA OneEventKeepsOwners ==
    ASSUME NEW u, IsUi(u), NEW t, NEW ev, NEW at
    PROVE  SameOwners(u, ApplyTaskEvent(u, t, ev, at))
<1>1. PICK tl : tl = ApplyEvent(u.tl, t, ev, at)
  OBVIOUS
<1>2. PICK card : card = IF tl.active = t THEN u.card ELSE NoTask
  OBVIOUS
<1>3. PICK v : v = [u EXCEPT !.tl = tl, !.card = card]
  OBVIOUS
<1>4. ApplyTaskEvent(u, t, ev, at) = u \/ ApplyTaskEvent(u, t, ev, at) = v
  BY <1>1, <1>2, <1>3 DEF ApplyTaskEvent
<1>5. card \in {u.card, NoTask}
  BY <1>2
<1>6. PICK p, j, a, b : u = [tl |-> a, card |-> b, pending |-> p, job |-> j]
  BY DEF IsUi
<1>7. v = [tl |-> tl, card |-> card, pending |-> p, job |-> j]
  BY <1>3, <1>6
<1>8. SameOwners(u, v) /\ SameOwners(u, u)
  BY <1>5, <1>6, <1>7 DEF SameOwners, IsUi
<1> QED BY <1>4, <1>8

(* Neither does a sequence of events. *)
LEMMA EventsKeepOwners ==
    ASSUME NEW u, IsUi(u), NEW t, NEW events, NEW at, Len(events) \in Nat,
           NEW v \in ApplyTaskEvents(u, t, events, at)
    PROVE  SameOwners(u, v)
<1>1. PICK s, l : s = StatesAfter(u, t, events, at) /\ l = Len(events)
  OBVIOUS
<1>2. s[0] = {u} /\ \A n \in 1 .. l : s[n] = NextStates(s[n - 1], t, events[n], at)
  BY <1>1, AfterFacts
<1>3. PICK G : G = [n \in 0 .. l |-> {w \in s[n] : SameOwners(u, w)}]
  OBVIOUS
<1>4. u \in G[0]
  BY <1>1, <1>2, <1>3 DEF SameOwners
<1>5. ASSUME NEW n \in 1 .. l, NEW w \in G[n - 1]
      PROVE  ApplyTaskEvent(w, t, events[n], at) \in G[n]
  <2>1. n \in 0 .. l /\ n - 1 \in 0 .. l
    BY <1>1
  <2>2. w \in s[n - 1] /\ SameOwners(u, w)
    BY <1>3, <2>1
  <2>3. SameOwners(w, ApplyTaskEvent(w, t, events[n], at))
    BY <2>2, OneEventKeepsOwners DEF SameOwners
  <2>4. ApplyTaskEvent(w, t, events[n], at) \in s[n]
    BY <1>2, <2>2 DEF NextStates
  <2>5. SameOwners(u, ApplyTaskEvent(w, t, events[n], at))
    BY <2>2, <2>3 DEF SameOwners
  <2> QED BY <1>3, <2>1, <2>4, <2>5
<1>6. ApplyTaskEvents(u, t, events, at) \subseteq G[l]
  BY <1>1, <1>4, <1>5, EventInduction
<1> QED BY <1>1, <1>3, <1>6

-----------------------------------------------------------------------------
(* The view model: how its steps treat flows, approvals and owners.        *)

(* A flow that has begun goes on, or its job ends. *)
LEMMA FlowStep ==
    ASSUME RunInv, NEW t \in Tasks, NEW g, NEW r, Moves(t, g, r), UNCHANGED <<used, decided>>,
           IsUi(ui'), ui'.pending = ui.pending, ui'.job \in {ui.job, NoTask}, ui'.card \in {ui.card, NoTask}
    PROVE  RunInv'
<1>1. FlowOK(g, r) /\ g.plan = flow[t].plan /\ g.pc # "none" /\ g \in FlowType /\ r \in {0, 1}
      /\ flow[t].pc # "none"
  BY DEF Moves, Follows, FlowOK
<1>2. flow \in [Tasks -> FlowType] /\ ran \in [Tasks -> {0, 1}]
  BY DEF RunInv, FlowsInv
<1>3. flow' \in [Tasks -> FlowType] /\ ran' \in [Tasks -> {0, 1}]
  BY <1>1, <1>2 DEF Moves
<1>4. flow'[t] = g /\ ran'[t] = r
  BY <1>2 DEF Moves
<1>5. \A s \in Tasks : s # t => flow'[s] = flow[s] /\ ran'[s] = ran[s]
  BY <1>2 DEF Moves
<1>6. FlowsInv'
  BY <1>1, <1>3, <1>4, <1>5 DEF FlowsInv, RunInv
<1>7. t \in used /\ ui.pending # t /\ ui.card # t
  BY <1>1, EmptyFlow DEF RunInv, OwnersInv, NoFlow
<1>8. OwnersInv'
  <2>1. /\ \A s \in Tasks : ui'.pending = s => flow'[s].pc = "none" /\ Confirm(s)'
        /\ \A s \in Tasks : ui'.card = s => flow'[s].pc = "none" /\ Confirm(s)' /\ decided'[s] = {}
    BY <1>5, <1>7, TimelineAssumption DEF RunInv, OwnersInv, Confirm
  <2>2. \A s \in Tasks : ui'.job = s => flow'[s].pc # "none"
    BY <1>1, <1>4, <1>5, TimelineAssumption DEF RunInv, OwnersInv
  <2>3. \A s \in Tasks \ used : flow'[s] = NoFlow /\ ran'[s] = 0 /\ decided'[s] = {}
    BY <1>5, <1>7 DEF RunInv, OwnersInv
  <2> QED BY <2>1, <2>2, <2>3 DEF RunInv, OwnersInv
<1>9. DecidedInv'
  <2>1. \A s \in Tasks : Confirm(s)' /\ flow'[s].pc # "none" => decided[s] = {"approved"}
    BY <1>1, <1>4, <1>5 DEF RunInv, DecidedInv, Confirm
  <2>2. \A s \in Tasks : decided[s] # {} => Confirm(s)'
    BY <1>1, <1>4, <1>5 DEF RunInv, DecidedInv, Confirm
  <2> QED BY <2>1, <2>2 DEF RunInv, DecidedInv
<1> QED BY <1>6, <1>8, <1>9 DEF RunInv

(* Nothing of a flow changes. *)
LEMMA UiStep ==
    ASSUME RunInv, UNCHANGED <<flow, ran, decided>>, used \subseteq used', used' \subseteq Tasks,
           IsUi(ui'), ui'.pending \in {ui.pending, NoTask}, ui'.job \in {ui.job, NoTask},
           ui'.card \in {ui.card, NoTask}
    PROVE  RunInv'
<1>1. FlowsInv'
  BY DEF RunInv, FlowsInv
<1>2. OwnersInv'
  BY TimelineAssumption DEF RunInv, OwnersInv, Confirm
<1>3. DecidedInv'
  BY DEF RunInv, DecidedInv, Confirm
<1> QED BY <1>1, <1>2, <1>3 DEF RunInv

(* A new task. *)
LEMMA NewTask ==
    ASSUME RunInv, NEW t \in Tasks, Draw(t), NEW g, NEW r, FlowOK(g, r), UNCHANGED decided,
           flow' = [flow EXCEPT ![t] = g], ran' = [ran EXCEPT ![t] = r],
           g.plan.permission = "CONFIRM" => g.pc = "none",
           IsUi(ui'), ui'.pending \in {ui.pending, t}, ui'.job \in {ui.job, t},
           ui'.card \in {ui.card, NoTask, t}, ui'.card = t => g.pc = "none" /\ g.plan.permission = "CONFIRM",
           ui'.pending = t => g.pc = "none" /\ g.plan.permission = "CONFIRM",
           ui'.job = t => g.pc # "none"
    PROVE  RunInv'
<1>1. g \in FlowType /\ r \in {0, 1}
  BY DEF FlowOK
<1>2. flow \in [Tasks -> FlowType] /\ ran \in [Tasks -> {0, 1}] /\ t \notin used
      /\ used' = used \cup {t} /\ decided[t] = {}
  BY DEF RunInv, FlowsInv, OwnersInv, Draw
<1>3. flow' \in [Tasks -> FlowType] /\ ran' \in [Tasks -> {0, 1}]
  BY <1>1, <1>2
<1>4. flow'[t] = g /\ ran'[t] = r
  BY <1>2
<1>5. \A s \in Tasks : s # t => flow'[s] = flow[s] /\ ran'[s] = ran[s]
  BY <1>2
<1>6. FlowsInv'
  BY <1>3, <1>4, <1>5 DEF FlowsInv, RunInv
<1>7. OwnersInv'
  <2>1. /\ \A s \in Tasks : ui'.pending = s => flow'[s].pc = "none" /\ Confirm(s)'
        /\ \A s \in Tasks : ui'.card = s => flow'[s].pc = "none" /\ Confirm(s)' /\ decided'[s] = {}
    BY <1>2, <1>4, <1>5, TimelineAssumption DEF RunInv, OwnersInv, Confirm
  <2>2. \A s \in Tasks : ui'.job = s => flow'[s].pc # "none"
    BY <1>4, <1>5 DEF RunInv, OwnersInv
  <2>3. \A s \in Tasks \ used' : flow'[s] = NoFlow /\ ran'[s] = 0 /\ decided'[s] = {}
    BY <1>2, <1>5 DEF RunInv, OwnersInv
  <2> QED BY <1>2, <2>1, <2>2, <2>3 DEF RunInv, OwnersInv
<1>8. DecidedInv'
  <2>1. \A s \in Tasks : Confirm(s)' /\ flow'[s].pc # "none" => decided[s] = {"approved"}
    BY <1>4, <1>5 DEF RunInv, DecidedInv, Confirm
  <2>2. \A s \in Tasks : decided[s] # {} => Confirm(s)'
    BY <1>2, <1>5 DEF RunInv, DecidedInv, Confirm
  <2> QED BY <2>1, <2>2 DEF RunInv, DecidedInv
<1> QED BY <1>6, <1>7, <1>8 DEF RunInv

(* The pending execution is decided. *)
LEMMA DecideStep ==
    ASSUME RunInv, NEW t \in Tasks, ui.pending = t, NEW g, FlowOK(g, 0), g.plan = flow[t].plan,
           flow' = [flow EXCEPT ![t] = g], UNCHANGED <<used, ran>>,
           NEW what \in {"approved", "denied", "cancelled", "expired"}, Decide(t, what),
           g.pc # "none" => what = "approved" /\ ui.card = t,
           IsUi(ui'), ui'.pending = NoTask, ui'.job \in {ui.job, t}, ui'.job = t => g.pc # "none",
           ui'.card \in {ui.card, NoTask}, ui'.card # t
    PROVE  RunInv'
<1>1. g \in FlowType
  BY DEF FlowOK
<1>2. flow \in [Tasks -> FlowType] /\ ran \in [Tasks -> {0, 1}] /\ t \in used
      /\ (ui.card = t => decided[t] = {}) /\ decided \in [Tasks -> SUBSET Ends] /\ ran[t] = 0
  BY TimelineAssumption DEF RunInv, FlowsInv, OwnersInv, DecidedInv, FlowOK, Confirm
<1>3. flow' \in [Tasks -> FlowType] /\ flow'[t] = g /\ \A s \in Tasks : s # t => flow'[s] = flow[s]
  BY <1>1, <1>2
<1>4. decided' \in [Tasks -> SUBSET Ends]
      /\ (ui.card = t => decided'[t] = {what}) /\ \A s \in Tasks : s # t => decided'[s] = decided[s]
  BY <1>2 DEF Decide, Ends
<1>5. FlowsInv'
  BY <1>2, <1>3 DEF FlowsInv, RunInv
<1>6. OwnersInv'
  <2>1. \A s \in Tasks : ui'.job = s => flow'[s].pc # "none"
    BY <1>3 DEF RunInv, OwnersInv
  <2>2. \A s \in Tasks \ used : flow'[s] = NoFlow /\ ran'[s] = 0 /\ decided'[s] = {}
    BY <1>2, <1>3, <1>4 DEF RunInv, OwnersInv
  <2>3. \A s \in Tasks : ui'.card = s => flow'[s].pc = "none" /\ Confirm(s)' /\ decided'[s] = {}
    BY <1>3, <1>4, TimelineAssumption DEF RunInv, OwnersInv, Confirm
  <2> QED BY <1>2, <2>1, <2>2, <2>3, TimelineAssumption DEF RunInv, OwnersInv
<1>7. DecidedInv'
  <2>1. \A s \in Tasks : Confirm(s)' /\ flow'[s].pc # "none" => decided'[s] = {"approved"}
    BY <1>3, <1>4 DEF RunInv, DecidedInv, Confirm
  <2>2. \A s \in Tasks : decided'[s] # {} => Confirm(s)'
    BY <1>3, <1>4 DEF RunInv, OwnersInv, DecidedInv, Confirm
  <2> QED BY <1>4, <2>1, <2>2 DEF DecidedInv
<1> QED BY <1>5, <1>6, <1>7 DEF RunInv

(* Some flows are cancelled. *)
LEMMA CancelStep ==
    ASSUME RunInv, NEW C, C \subseteq Tasks, \A t \in C : flow[t].pc # "none",
           flow' = [t \in Tasks |-> IF t \in C THEN Gone(flow[t]) ELSE flow[t]],
           UNCHANGED <<used, ran, decided>>, IsUi(ui'), ui'.pending = NoTask, ui'.job = NoTask,
           ui'.card = NoTask
    PROVE  RunInv'
<1>1. \A t \in Tasks : FlowOK(flow[t], ran[t])
  BY DEF RunInv, FlowsInv
<1>2. \A t \in C : Follows(flow[t], flow'[t], ran[t])
  BY <1>1, EndedFlows
<1>3. \A t \in Tasks \ C : flow'[t] = flow[t]
  OBVIOUS
<1>4. \A t \in Tasks : FlowOK(flow'[t], ran[t]) /\ flow'[t] \in FlowType /\ flow'[t].plan = flow[t].plan
  BY <1>1, <1>2, <1>3 DEF Follows, FlowOK
<1>5. FlowsInv'
  BY <1>4 DEF RunInv, FlowsInv
<1>6. C \subseteq used
  BY EmptyFlow DEF RunInv, OwnersInv, NoFlow
<1>7. OwnersInv'
  BY <1>3, <1>6, TimelineAssumption DEF RunInv, OwnersInv
<1>8. DecidedInv'
  <2>1. \A s \in Tasks : Confirm(s)' /\ flow'[s].pc # "none" => decided[s] = {"approved"}
    BY <1>3, <1>4 DEF RunInv, DecidedInv, Confirm
  <2>2. \A s \in Tasks : decided[s] # {} => Confirm(s)'
    BY <1>4 DEF RunInv, DecidedInv, Confirm
  <2> QED BY <2>1, <2>2 DEF RunInv, DecidedInv
<1> QED BY <1>5, <1>7, <1>8 DEF RunInv

(* The fields of a state of the view model. *)
LEMMA UiFacts ==
    ASSUME NEW u, NEW a, NEW b, NEW p, NEW j, u = [tl |-> a, card |-> b, pending |-> p, job |-> j]
    PROVE  IsUi(u) /\ u.tl = a /\ u.card = b /\ u.pending = p /\ u.job = j
BY DEF IsUi

(* The state updates that leave the pending execution and the job alone. *)
LEMMA UiUpdates ==
    ASSUME NEW u, IsUi(u), NEW a, NEW b, NEW q
    PROVE  /\ SameOwners(u, u) /\ SameOwners(u, [u EXCEPT !.tl = a])
           /\ b \in {u.card, NoTask} => SameOwners(u, [u EXCEPT !.tl = a, !.card = b])
           /\ IsUi([u EXCEPT !.job = q]) /\ [u EXCEPT !.job = q].pending = u.pending
           /\ [u EXCEPT !.job = q].job = q /\ [u EXCEPT !.job = q].card = u.card
<1>1. PICK c, d, p, j : u = [tl |-> c, card |-> d, pending |-> p, job |-> j]
  BY DEF IsUi
<1>2. [u EXCEPT !.tl = a] = [tl |-> a, card |-> d, pending |-> p, job |-> j]
  BY <1>1
<1>3. [u EXCEPT !.tl = a, !.card = b] = [tl |-> a, card |-> b, pending |-> p, job |-> j]
  <2>1. PICK v : v = [u EXCEPT !.tl = a, !.card = b]
    OBVIOUS
  <2>2. v = [tl |-> a, card |-> b, pending |-> p, job |-> j]
    BY <1>1, <2>1
  <2> QED BY <2>1, <2>2
<1>4. [u EXCEPT !.job = q] = [tl |-> c, card |-> d, pending |-> p, job |-> q]
  BY <1>1
<1>5. SameOwners(u, u) /\ SameOwners(u, [u EXCEPT !.tl = a])
  BY <1>1, <1>2, UiFacts DEF SameOwners
<1>6. b \in {u.card, NoTask} => SameOwners(u, [u EXCEPT !.tl = a, !.card = b])
  BY <1>1, <1>3, UiFacts DEF SameOwners
<1> QED BY <1>1, <1>4, <1>5, <1>6, UiFacts

(* collectTask() launches one good flow and leaves the approval alone. *)
LEMMA CollectTaskFacts ==
    ASSUME NEW u, IsUi(u), NEW t, NEW plan \in Plans, NEW at, CollectTask(u, t, plan, at)
    PROVE  /\ IsUi(ui') /\ ui'.pending = u.pending /\ ui'.job = t /\ ui'.card \in {u.card, NoTask}
           /\ \E g : /\ FlowOK(g, 0) /\ g.plan = plan /\ g.pc # "none"
                     /\ flow' = [flow EXCEPT ![t] = g]
<1>1. PICK f \in Launched(plan) :
        /\ ui' \in ApplyTaskEvents([u EXCEPT !.job = t], t, f.chan, at)
        /\ flow' = [flow EXCEPT ![t] = [f EXCEPT !.chan = <<>>]]
  BY DEF CollectTask
<1>2. FlowOK(f, 0) /\ f.plan = plan /\ f.pc # "none" /\ f \in FlowType
  BY LaunchedOK DEF FlowOK
<1>3. Len(f.chan) \in Nat
  BY <1>2, LenProperties DEF FlowType
<1>4. PICK v : v = [u EXCEPT !.job = t]
  OBVIOUS
<1>5. IsUi(v) /\ v.pending = u.pending /\ v.job = t /\ v.card = u.card
  BY <1>4, UiUpdates
<1>6. SameOwners(v, ui')
  BY <1>1, <1>3, <1>4, <1>5, EventsKeepOwners
<1>7. PICK g : g = [f EXCEPT !.chan = <<>>]
  OBVIOUS
<1>8. <<>> \in Seq(Emitted)
  BY EmptySeq
<1>9. /\ g \in FlowType /\ g.plan = plan /\ g.pc = f.pc /\ g.up = f.up /\ g.net = f.net
      /\ g.invoked = f.invoked /\ g.outcome = f.outcome
  BY <1>2, <1>7, <1>8 DEF FlowType
<1>10. FlowOK(g, 0)
  BY <1>2, <1>9 DEF FlowOK
<1> QED BY <1>1, <1>2, <1>5, <1>6, <1>7, <1>9, <1>10 DEF SameOwners

(* Commands keep the invariant. *)
LEMMA CommandSteps ==
    ASSUME RunInv, NEW t \in Tasks,
           RejectCommand(t) \/ ExecuteSafe(t) \/ RecordScan(t) \/ ObserveLocalModel(t) \/ RequestApproval(t)
    PROVE  RunInv'
<1>1. /\ IsUi(ui) /\ flow \in [Tasks -> FlowType] /\ ran \in [Tasks -> {0, 1}] /\ used \subseteq Tasks
      /\ ui.pending \in Tasks \cup {NoTask} /\ ui.job \in Tasks \cup {NoTask}
  BY DEF RunInv, FlowsInv, OwnersInv
<1>2. PICK tl, card, p, j : ui = [tl |-> tl, card |-> card, pending |-> p, job |-> j]
  BY <1>1 DEF IsUi
<1>3. p = ui.pending /\ j = ui.job /\ card = ui.card
  BY <1>2
<1>4. t \notin used => /\ flow[t] = NoFlow /\ ran[t] = 0 /\ p # t /\ j # t /\ card # t /\ t # NoTask
  BY <1>3, TimelineAssumption DEF RunInv, OwnersInv
<1>5. CASE RejectCommand(t)
  <2>1. PICK x : ui' = [ui EXCEPT !.tl = x]
    BY <1>5 DEF RejectCommand
  <2>2. UNCHANGED <<flow, ran, decided>> /\ used' = used \cup {t}
    BY <1>5 DEF RejectCommand, Draw, gatewayVars
  <2>3. SameOwners(ui, ui')
    BY <1>1, <2>1, UiUpdates
  <2> QED BY <1>1, <2>2, <2>3, UiStep DEF SameOwners
<1>6. CASE ExecuteSafe(t)
  <2>1. PICK plan \in {q \in Routes : q.permission = "SAFE"}, at \in Stamps :
          CollectTask([ui EXCEPT !.tl = Start(@, t, plan)], t, plan, at)
    BY <1>6 DEF ExecuteSafe
  <2>2. Draw(t) /\ UNCHANGED <<ran, decided>>
    BY <1>6 DEF ExecuteSafe
  <2>3. PICK u : u = [ui EXCEPT !.tl = Start(@, t, plan)]
    OBVIOUS
  <2>4. SameOwners(ui, u)
    BY <1>1, <2>3, UiUpdates
  <2>5. plan \in Plans /\ plan.permission = "SAFE"
    BY RoutesAssumption
  <2>6. /\ IsUi(ui') /\ ui'.pending = ui.pending /\ ui'.job = t /\ ui'.card \in {ui.card, NoTask}
        /\ \E g : /\ FlowOK(g, 0) /\ g.plan = plan /\ g.pc # "none"
                  /\ flow' = [flow EXCEPT ![t] = g]
    BY <2>1, <2>3, <2>4, <2>5, CollectTaskFacts DEF SameOwners
  <2>7. PICK g : FlowOK(g, 0) /\ g.plan = plan /\ g.pc # "none" /\ flow' = [flow EXCEPT ![t] = g]
    BY <2>6
  <2>8. ran' = [ran EXCEPT ![t] = 0]
    BY <1>1, <1>4, <2>2 DEF Draw
  <2>9. g.plan.permission # "CONFIRM" /\ ui'.pending # t /\ ui'.card # t
    BY <1>3, <1>4, <2>2, <2>5, <2>6, <2>7 DEF Draw
  <2> QED BY <2>2, <2>6, <2>7, <2>8, <2>9, NewTask
<1>7. CASE RecordScan(t)
  <2>1. PICK plan, events, at : /\ ui' \in ApplyTaskEvents([ui EXCEPT !.tl = Start(@, t, plan)], t, events, at)
                                /\ Len(events) \in Nat
    <3>1. PICK at \in Stamps :
            ui' \in ApplyTaskEvents([ui EXCEPT !.tl = Start(@, t, Plan("PHONE", "SAFE"))], t,
                  <<Starting(1), Ready, Progress("accepted", 0), Progress("completed", 1),
                    ToolResult, Verification>>, at)
      BY <1>7 DEF RecordScan
    <3>2. Len(<<Starting(1), Ready, Progress("accepted", 0), Progress("completed", 1),
                ToolResult, Verification>>) \in Nat
      OBVIOUS
    <3> QED BY <3>1, <3>2
  <2>2. PICK u : u = [ui EXCEPT !.tl = Start(@, t, plan)]
    OBVIOUS
  <2>3. SameOwners(ui, u)
    BY <1>1, <2>2, UiUpdates
  <2>4. SameOwners(u, ui')
    <3>1. ui' \in ApplyTaskEvents(u, t, events, at) /\ Len(events) \in Nat
      BY <2>1, <2>2
    <3>2. IsUi(u)
      BY <2>3 DEF SameOwners
    <3> QED BY <3>1, <3>2, EventsKeepOwners
  <2>5. Draw(t) /\ UNCHANGED <<flow, decided>> /\ ran' = [ran EXCEPT ![t] = 1]
    BY <1>7 DEF RecordScan
  <2>6. flow' = [flow EXCEPT ![t] = NoFlow]
    BY <1>1, <1>4, <2>5 DEF Draw
  <2>7. NoFlow.plan.permission # "CONFIRM" /\ FlowOK(NoFlow, 1)
    BY EmptyFlow DEF NoFlow, NoPlan, Plan
  <2>8. /\ IsUi(ui') /\ ui'.pending = ui.pending /\ ui'.job = ui.job /\ ui.pending # t /\ ui.job # t
        /\ ui'.card \in {ui.card, NoTask} /\ ui'.card # t
    BY <1>3, <1>4, <2>3, <2>4, <2>5 DEF SameOwners, Draw
  <2> QED BY <2>5, <2>6, <2>7, <2>8, NewTask
<1>8. CASE ObserveLocalModel(t)
  <2>1. /\ ui' = [ui EXCEPT !.tl = Start(@, t, NoPlan), !.job = t] /\ Draw(t)
        /\ flow' = [flow EXCEPT ![t].pc = "observing"] /\ UNCHANGED <<ran, decided>>
    BY <1>8 DEF ObserveLocalModel
  <2>2. PICK g : g = [NoFlow EXCEPT !.pc = "observing"]
    OBVIOUS
  <2>3. flow' = [flow EXCEPT ![t] = g] /\ ran' = [ran EXCEPT ![t] = 0]
    BY <1>1, <1>4, <2>1, <2>2 DEF Draw
  <2>4. NoFlow \in FlowType /\ NoFlow.plan.permission # "CONFIRM" /\ NoFlow.up = "none" /\ NoFlow.net = <<>>
    BY EmptyFlow DEF NoFlow, NoPlan, Plan
  <2>5. /\ g \in FlowType /\ g.pc = "observing" /\ g.plan = NoFlow.plan
        /\ g.up = NoFlow.up /\ g.net = NoFlow.net
    BY <2>2, <2>4 DEF FlowType, Pcs
  <2>6. <<>> \in Seq(Answers)
    BY EmptySeq
  <2>7. FlowOK(g, 0)
    BY <2>4, <2>5, <2>6 DEF FlowOK
  <2>8. PICK x : ui' = [tl |-> x, card |-> card, pending |-> p, job |-> t]
    BY <1>2, <2>1
  <2>9. IsUi(ui') /\ ui'.pending = ui.pending /\ ui'.job = t /\ ui'.pending # t /\ ui'.card = ui.card /\ ui.card # t
    BY <1>3, <1>4, <2>1, <2>8, UiFacts DEF Draw
  <2> QED BY <2>1, <2>3, <2>4, <2>5, <2>7, <2>9, NewTask
<1>9. CASE RequestApproval(t)
  <2>1. PICK plan \in Routes : plan.permission = "CONFIRM" /\ flow' = [flow EXCEPT ![t].plan = plan]
           /\ \E x : ui' \in {[ui EXCEPT !.tl = x, !.card = t, !.pending = t],
                              [ui EXCEPT !.tl = x, !.pending = t]}
    BY <1>9 DEF RequestApproval
  <2>2. Draw(t) /\ UNCHANGED <<ran, decided>>
    BY <1>9 DEF RequestApproval
  <2>3. PICK g : g = [NoFlow EXCEPT !.plan = plan]
    OBVIOUS
  <2>4. flow' = [flow EXCEPT ![t] = g] /\ ran' = [ran EXCEPT ![t] = 0]
    BY <1>1, <1>4, <2>1, <2>2, <2>3 DEF Draw
  <2>5. NoFlow \in FlowType /\ NoFlow.pc = "none" /\ NoFlow.up = "none" /\ NoFlow.net = <<>>
    BY EmptyFlow DEF NoFlow
  <2>6. /\ g \in FlowType /\ g.pc = "none" /\ g.plan = plan /\ g.up = "none" /\ g.net = <<>>
    BY <2>3, <2>5, RoutesAssumption DEF FlowType
  <2>7. <<>> \in Seq(Answers)
    BY EmptySeq
  <2>8. FlowOK(g, 0)
    BY <2>6, <2>7 DEF FlowOK
  <2>9. PICK x, b : ui' = [tl |-> x, card |-> b, pending |-> t, job |-> j] /\ b \in {t, card}
    BY <1>2, <2>1
  <2>10. IsUi(ui') /\ ui'.pending = t /\ ui'.job = ui.job /\ ui'.job # t /\ ui'.card \in {ui.card, t}
    BY <1>3, <1>4, <2>2, <2>9, UiFacts DEF Draw
  <2> QED BY <2>1, <2>2, <2>4, <2>6, <2>8, <2>10, NewTask
<1> QED BY <1>5, <1>6, <1>7, <1>8, <1>9

(* Decisions on an approval keep the invariant. *)
LEMMA DecisionSteps ==
    ASSUME RunInv, NEW t \in Tasks, Approve(t) \/ ExpirePending(t) \/ Deny(t)
    PROVE  RunInv'
<1>1. /\ IsUi(ui) /\ flow \in [Tasks -> FlowType] /\ ran \in [Tasks -> {0, 1}]
      /\ ui.pending = t /\ FlowOK(flow[t], ran[t]) /\ flow[t].pc = "none" /\ Confirm(t)
  BY DEF RunInv, FlowsInv, OwnersInv, Approve, ExpirePending, Deny
<1>2. PICK tl, card, p, j : ui = [tl |-> tl, card |-> card, pending |-> p, job |-> j]
  BY <1>1 DEF IsUi
<1>3. p = ui.pending /\ j = ui.job /\ j # t /\ card = ui.card /\ t # NoTask
  BY <1>1, <1>2, TimelineAssumption DEF RunInv, OwnersInv
<1>4. ran[t] = 0 /\ FlowOK(flow[t], 0) /\ flow[t].plan \in Plans
  <2>1. ran[t] = 0
    BY <1>1 DEF FlowOK, Confirm
  <2>2. flow[t].plan \in Plans \cup {NoPlan} /\ flow[t].plan.permission = "CONFIRM"
    BY <1>1 DEF FlowType, Confirm
  <2>3. NoPlan.permission # "CONFIRM"
    BY DEF NoPlan, Plan
  <2> QED BY <1>1, <2>1, <2>2, <2>3
<1>5. UNCHANGED flow => flow' = [flow EXCEPT ![t] = flow[t]]
  BY <1>1
<1>6. ASSUME NEW what \in {"denied", "cancelled", "expired"}, Decide(t, what), NEW x, Settle(t, x),
             UNCHANGED <<used, flow, ran>>
      PROVE  RunInv'
  <2>1. PICK a, b : /\ ui' = [ui EXCEPT !.tl = a, !.card = b, !.pending = NoTask]
                    /\ b \in {ui.card, NoTask} /\ b # t
    <3>1. PICK c : c = CloseCard(t, x)
      OBVIOUS
    <3>2. c.card \in {ui.card, NoTask} /\ c.card # t
      BY <1>3, <3>1 DEF CloseCard
    <3>3. ui' = [ui EXCEPT !.tl = c.tl, !.card = c.card, !.pending = NoTask]
      BY <1>6, <3>1 DEF Settle
    <3> QED BY <3>2, <3>3
  <2>2. ui' = [tl |-> a, card |-> b, pending |-> NoTask, job |-> j]
    BY <1>2, <2>1
  <2>3. /\ IsUi(ui') /\ ui'.pending = NoTask /\ ui'.job = ui.job /\ ui'.job # t
        /\ ui'.card \in {ui.card, NoTask} /\ ui'.card # t
    BY <1>3, <2>1, <2>2, UiFacts
  <2> QED BY <1>1, <1>4, <1>5, <1>6, <2>3, DecideStep
<1>7. CASE ExpirePending(t)
  <2>1. PICK at \in Stamps : Settle(t, ExpireApproval(ui.tl, t, at))
    BY <1>7 DEF ExpirePending
  <2> QED BY <1>6, <1>7, <2>1 DEF ExpirePending, gatewayVars
<1>8. CASE Deny(t)
  <2>1. PICK at \in Stamps, why \in {"denied", "cancelled"} :
          Settle(t, DenyApproval(ui.tl, t, why, at)) /\ Decide(t, why)
    BY <1>8 DEF Deny
  <2> QED BY <1>6, <1>8, <2>1 DEF Deny, gatewayVars
<1>9. CASE Approve(t)
  <2>1. PICK at, u :
          /\ u = [Granted(t, at) EXCEPT !.pending = NoTask]
          /\ \/ CollectTask(u, t, flow[t].plan, at)
             \/ ui' = ApplyTaskEvent(u, t, Error("failed"), at) /\ UNCHANGED flow
    BY <1>9 DEF Approve
  <2>2. Decide(t, "approved") /\ UNCHANGED <<used, ran>> /\ ui.card = t
    BY <1>9 DEF Approve
  <2>3. PICK a, b : u = [tl |-> a, card |-> b, pending |-> NoTask, job |-> j] /\ b = NoTask
    <3>1. PICK a, b : Granted(t, at) = [ui EXCEPT !.tl = a, !.card = b] /\ b = NoTask
      BY <2>2 DEF Granted, CloseCard
    <3>2. PICK v : v = Granted(t, at)
      OBVIOUS
    <3>3. v = [tl |-> a, card |-> b, pending |-> p, job |-> j]
      BY <1>2, <3>1, <3>2
    <3>4. u = [v EXCEPT !.pending = NoTask]
      BY <2>1, <3>2
    <3> QED BY <3>1, <3>3, <3>4
  <2>4. IsUi(u) /\ u.pending = NoTask /\ u.job = j /\ u.card = NoTask
    BY <2>3, UiFacts
  <2>5. CASE CollectTask(u, t, flow[t].plan, at)
    <3>1. /\ IsUi(ui') /\ ui'.pending = NoTask /\ ui'.job = t /\ ui'.card = NoTask
          /\ \E g : /\ FlowOK(g, 0) /\ g.plan = flow[t].plan /\ g.pc # "none"
                    /\ flow' = [flow EXCEPT ![t] = g]
      BY <1>4, <2>4, <2>5, CollectTaskFacts
    <3>2. PICK g : /\ FlowOK(g, 0) /\ g.plan = flow[t].plan /\ g.pc # "none"
                   /\ flow' = [flow EXCEPT ![t] = g]
      BY <3>1
    <3> QED BY <1>1, <1>3, <2>2, <3>1, <3>2, DecideStep
  <2>6. CASE ui' = ApplyTaskEvent(u, t, Error("failed"), at) /\ UNCHANGED flow
    <3>1. SameOwners(u, ui')
      BY <2>4, <2>6, OneEventKeepsOwners
    <3>2. IsUi(ui') /\ ui'.pending = NoTask /\ ui'.job = ui.job /\ ui'.job # t /\ ui'.card = NoTask /\ t # NoTask
      BY <1>3, <2>4, <3>1 DEF SameOwners
    <3> QED BY <1>1, <1>4, <1>5, <2>2, <2>6, <3>2, DecideStep
  <2> QED BY <2>1, <2>5, <2>6
<1> QED BY <1>7, <1>8, <1>9

(* A job's flow is over. *)
LEMMA OverStep ==
    ASSUME RunInv, NEW t \in Tasks, flow[t].pc # "none", NEW u, SameOwners(ui, u), JobIsOver(t, u),
           UNCHANGED <<used, ran, decided>>
    PROVE  RunInv'
<1>1. FlowOK(flow[t], ran[t]) /\ ran \in [Tasks -> {0, 1}]
  BY DEF RunInv, FlowsInv
<1>2. Follows(flow[t], Gone(flow[t]), ran[t])
  BY <1>1, EndedFlows
<1>3. flow' = [flow EXCEPT ![t] = Gone(flow[t])] /\ ran' = [ran EXCEPT ![t] = ran[t]]
  BY <1>1 DEF JobIsOver
<1>4. Moves(t, Gone(flow[t]), ran[t])
  BY <1>2, <1>3 DEF Moves
<1>5. PICK q \in {u.job, NoTask} : ui' = [u EXCEPT !.job = q]
  BY DEF JobIsOver
<1>6. IsUi(ui') /\ ui'.pending = ui.pending /\ ui'.job \in {ui.job, NoTask} /\ ui'.card \in {ui.card, NoTask}
  <2>1. IsUi(u) /\ u.pending = ui.pending /\ u.job = ui.job /\ u.card \in {ui.card, NoTask}
    BY DEF SameOwners
  <2>2. IsUi(ui') /\ ui'.pending = u.pending /\ ui'.job = q /\ ui'.card = u.card
    BY <1>5, <2>1, UiUpdates
  <2> QED BY <1>5, <2>1, <2>2
<1> QED BY <1>4, <1>6, FlowStep

(* Collecting and ending a job keep the invariant. *)
LEMMA JobSteps ==
    ASSUME RunInv, NEW t \in Tasks, Collect(t) \/ JobEnds(t) \/ JobFails(t) \/ ObservationEnds(t)
    PROVE  RunInv'
<1>1. IsUi(ui) /\ FlowOK(flow[t], ran[t]) /\ flow \in [Tasks -> FlowType] /\ ran \in [Tasks -> {0, 1}]
  BY DEF RunInv, FlowsInv, OwnersInv
<1>2. flow[t].pc # "none"
  BY DEF Collect, JobEnds, JobFails, ObservationEnds, Running, Live, In
<1>3. CASE Collect(t)
  <2>1. PICK f, chan, n : f = flow[t] /\ chan = f.chan
           /\ n = IF f.plan.target = "PHONE" THEN Len(chan) ELSE 1
    OBVIOUS
  <2>2. PICK at \in Stamps : ui' \in ApplyTaskEvents(ui, t, SubSeq(chan, 1, n), at)
    BY <1>3, <2>1 DEF Collect
  <2>3. /\ flow' = [flow EXCEPT ![t].chan = SubSeq(chan, n + 1, Len(chan))] /\ chan # <<>>
        /\ UNCHANGED <<used, ran, decided>>
    BY <1>3, <2>1 DEF Collect
  <2>4. chan \in Seq(Emitted) /\ f \in FlowType /\ Len(chan) \in Nat \ {0}
    BY <1>1, <2>1, <2>3, EmptySeq DEF FlowType
  <2>5. n \in 1 .. Len(chan)
    BY <2>1, <2>4
  <2>6. /\ SubSeq(chan, 1, n) \in Seq(Emitted) /\ Len(SubSeq(chan, 1, n)) \in Nat
    <3>1. \A i \in 1 .. n : chan[i] \in Emitted
      BY <2>4, <2>5, ElementOfSeq
    <3>2. SubSeq(chan, 1, n) \in Seq(Emitted)
      BY <2>5, <3>1, SubSeqProperties
    <3> QED BY <3>2, LenProperties
  <2>7. SubSeq(chan, n + 1, Len(chan)) \in Seq(Emitted)
    <3>1. \A i \in n + 1 .. Len(chan) : chan[i] \in Emitted
      BY <2>4, <2>5, ElementOfSeq
    <3> QED BY <2>4, <2>5, <3>1, SubSeqProperties
  <2>8. SameOwners(ui, ui')
    BY <1>1, <2>2, <2>6, EventsKeepOwners
  <2>9. PICK rest, g : rest = SubSeq(chan, n + 1, Len(chan)) /\ g = [f EXCEPT !.chan = rest]
    OBVIOUS
  <2>10. g \in FlowType /\ g.pc = f.pc /\ g.plan = f.plan /\ g.up = f.up /\ g.net = f.net
         /\ g.invoked = f.invoked /\ g.outcome = f.outcome
    BY <2>4, <2>7, <2>9 DEF FlowType
  <2>11. FlowOK(g, ran[t])
    BY <1>1, <2>1, <2>10 DEF FlowOK
  <2>12. flow' = [flow EXCEPT ![t] = g] /\ ran' = [ran EXCEPT ![t] = ran[t]]
    BY <1>1, <2>1, <2>3, <2>9
  <2>13. Moves(t, g, ran[t])
    BY <1>2, <2>1, <2>10, <2>11, <2>12 DEF Moves, Follows
  <2> QED BY <2>3, <2>8, <2>13, FlowStep DEF SameOwners
<1>4. CASE JobEnds(t) \/ JobFails(t)
  <2>1. PICK at, u : u = ApplyTaskEvent(ui, t, Error("failed"), at) /\ JobIsOver(t, u)
    BY <1>4 DEF JobEnds, JobFails
  <2>2. UNCHANGED <<used, ran, decided>>
    BY <1>4 DEF JobEnds, JobFails
  <2>3. SameOwners(ui, u)
    BY <1>1, <2>1, OneEventKeepsOwners
  <2> QED BY <1>2, <2>1, <2>2, <2>3, OverStep
<1>5. CASE ObservationEnds(t)
  <2>1. PICK x, u : u = [ui EXCEPT !.tl = x] /\ JobIsOver(t, u)
    BY <1>5 DEF ObservationEnds
  <2>2. UNCHANGED <<used, ran, decided>>
    BY <1>5 DEF ObservationEnds
  <2>3. SameOwners(ui, u)
    BY <1>1, <2>1, UiUpdates
  <2> QED BY <1>2, <2>1, <2>2, <2>3, OverStep
<1> QED BY <1>3, <1>4, <1>5

(* A card goes, and no flow begins. *)
LEMMA CardStep ==
    ASSUME RunInv, NEW what \in Ends, CardGoes(what), UNCHANGED <<used, flow, ran>>,
           IsUi(ui'), ui'.card = NoTask, ui'.pending = ui.pending, ui'.job = ui.job
    PROVE  RunInv'
<1>1. FlowsInv'
  BY DEF RunInv, FlowsInv
<1>2. \A t \in Tasks : decided'[t] = IF t = ui.card THEN decided[t] \cup {what} ELSE decided[t]
  BY DEF CardGoes
<1>3. ASSUME NEW t \in Tasks, decided'[t] # decided[t]
      PROVE  t = ui.card /\ flow[t].pc = "none" /\ Confirm(t) /\ t \in used
  <2>1. t = ui.card /\ t # NoTask
    BY <1>2, <1>3, TimelineAssumption
  <2> QED BY <2>1 DEF RunInv, OwnersInv
<1>4. OwnersInv'
  BY <1>3, TimelineAssumption DEF RunInv, OwnersInv, Confirm
<1>5. decided' \in [Tasks -> SUBSET Ends]
  BY DEF RunInv, DecidedInv, CardGoes
<1>6. DecidedInv'
  BY <1>3, <1>5 DEF RunInv, DecidedInv, Confirm
<1> QED BY <1>1, <1>4, <1>6 DEF RunInv

(* The operations on the Hub link keep the invariant. *)
LEMMA LinkSteps ==
    ASSUME RunInv, LinkActs
    PROVE  RunInv'
<1>1. /\ IsUi(ui) /\ flow \in [Tasks -> FlowType] /\ used \subseteq Tasks
      /\ \A t \in Tasks : FlowOK(flow[t], ran[t])
  BY DEF RunInv, FlowsInv, OwnersInv
<1>2. PICK tl, card, p, j : ui = [tl |-> tl, card |-> card, pending |-> p, job |-> j]
  BY <1>1 DEF IsUi
<1>3. p = ui.pending /\ j = ui.job
  BY <1>2
<1>4. ASSUME NEW op, LinkOperation(op)
      PROVE  RunInv'
  <2>1. CASE ui.pending = NoTask
    <3>1. PICK x : ui' = [ui EXCEPT !.tl = x, !.card = NoTask, !.job = NoTask]
      BY <1>4, <2>1, TimelineAssumption DEF LinkOperation
    <3>2. /\ flow' = [t \in Tasks |-> IF t = ui.job THEN Gone(flow[t]) ELSE flow[t]]
          /\ UNCHANGED <<used, ran, decided>>
      BY <1>4, <2>1, TimelineAssumption DEF LinkOperation
    <3>3. PICK C : C = {t \in Tasks : t = ui.job}
      OBVIOUS
    <3>4. flow' = [t \in Tasks |-> IF t \in C THEN Gone(flow[t]) ELSE flow[t]]
      BY <3>2, <3>3
    <3>5. \A t \in C : flow[t].pc # "none"
      BY <3>3 DEF RunInv, OwnersInv
    <3>6. ui' = [tl |-> x, card |-> NoTask, pending |-> NoTask, job |-> NoTask]
      BY <1>2, <1>3, <2>1, <3>1
    <3>7. IsUi(ui') /\ ui'.pending = NoTask /\ ui'.job = NoTask /\ ui'.card = NoTask
      BY <3>6, UiFacts
    <3> QED BY <3>2, <3>3, <3>4, <3>5, <3>7, CancelStep
  <2>2. CASE ui.pending # NoTask
    <3>1. PICK t \in Tasks : /\ ui.pending = t /\ Decide(t, "cancelled") /\ UNCHANGED <<used, flow, ran>>
                             /\ \E x : ui' = [ui EXCEPT !.tl = x, !.card = NoTask, !.pending = NoTask]
      BY <1>4, <2>2 DEF LinkOperation
    <3>2. PICK x : ui' = [tl |-> x, card |-> NoTask, pending |-> NoTask, job |-> j]
      BY <1>2, <3>1
    <3>3. IsUi(ui') /\ ui'.pending = NoTask /\ ui'.job = ui.job /\ ui'.card = NoTask
      BY <1>3, <3>2, UiFacts
    <3>4. ui.job # t /\ t # NoTask /\ flow[t].pc = "none" /\ Confirm(t)
      BY <3>1, TimelineAssumption DEF RunInv, OwnersInv
    <3>5. FlowOK(flow[t], 0) /\ flow' = [flow EXCEPT ![t] = flow[t]]
      BY <1>1, <3>1, <3>4 DEF FlowOK, Confirm
    <3> QED BY <3>1, <3>3, <3>4, <3>5, DecideStep
  <2> QED BY <2>1, <2>2
<1>5. CASE RotationAnswers \/ ForgetAnswers
  <2>1. PICK x : ui' = [tl |-> x, card |-> NoTask, pending |-> p, job |-> j]
    <3>1. CASE RotationAnswers
      BY <1>2, <3>1 DEF RotationAnswers
    <3>2. CASE ForgetAnswers
      BY <1>2, <3>2 DEF ForgetAnswers
    <3> QED BY <1>5, <3>1, <3>2
  <2>2. IsUi(ui') /\ ui'.card = NoTask /\ ui'.pending = ui.pending /\ ui'.job = ui.job
    BY <1>3, <2>1, UiFacts
  <2>3. PICK what \in {"lost", "cancelled"} : CardGoes(what)
    BY <1>5 DEF RotationAnswers, ForgetAnswers
  <2>4. UNCHANGED <<used, flow, ran>>
    BY <1>5 DEF RotationAnswers, ForgetAnswers, gatewayVars
  <2> QED BY <2>2, <2>3, <2>4, CardStep DEF Ends
<1> QED BY <1>4, <1>5 DEF LinkActs

(* Cancelling, the audit observer and process death keep the invariant. *)
LEMMA OtherSteps ==
    ASSUME RunInv, CancelTask \/ LoadAudit \/ ObserveEntries \/ WriteRecord \/ ProcessDies
    PROVE  RunInv'
<1>1. IsUi(ui) /\ flow \in [Tasks -> FlowType] /\ used \subseteq Tasks
  BY DEF RunInv, FlowsInv, OwnersInv
<1>2. PICK tl, card, p, j : ui = [tl |-> tl, card |-> card, pending |-> p, job |-> j]
  BY <1>1 DEF IsUi
<1>3. CASE CancelTask
  <2>1. PICK x : ui' = [ui EXCEPT !.tl = x, !.card = NoTask, !.job = NoTask]
    BY <1>3 DEF CancelTask
  <2>2. /\ flow' = [t \in Tasks |-> IF t = ui.job THEN Gone(flow[t]) ELSE flow[t]]
        /\ UNCHANGED <<used, ran, decided>> /\ ui.pending = NoTask
    BY <1>3 DEF CancelTask
  <2>3. PICK C : C = {t \in Tasks : t = ui.job}
    OBVIOUS
  <2>4. flow' = [t \in Tasks |-> IF t \in C THEN Gone(flow[t]) ELSE flow[t]]
    BY <2>2, <2>3
  <2>5. \A t \in C : flow[t].pc # "none"
    BY <2>3 DEF RunInv, OwnersInv
  <2>6. ui' = [tl |-> x, card |-> NoTask, pending |-> NoTask, job |-> NoTask]
    BY <1>2, <2>1, <2>2
  <2>7. IsUi(ui') /\ ui'.pending = NoTask /\ ui'.job = NoTask /\ ui'.card = NoTask
    BY <2>6, UiFacts
  <2> QED BY <2>2, <2>3, <2>4, <2>5, <2>7, CancelStep
<1>4. CASE LoadAudit \/ ObserveEntries \/ WriteRecord
  <2>1. UNCHANGED <<used, decided, flow, ran>>
    BY <1>4 DEF LoadAudit, ObserveEntries, WriteRecord, gatewayVars
  <2>2. PICK x : ui' \in {ui, [ui EXCEPT !.tl = x]}
    BY <1>4 DEF LoadAudit, ObserveEntries, WriteRecord
  <2>3. SameOwners(ui, ui')
    <3>1. SameOwners(ui, ui) /\ SameOwners(ui, [ui EXCEPT !.tl = x])
      BY <1>1, UiUpdates
    <3>2. CASE ui' = ui
      BY <3>1, <3>2
    <3>3. CASE ui' = [ui EXCEPT !.tl = x]
      BY <3>1, <3>3
    <3> QED BY <2>2, <3>2, <3>3
  <2> QED BY <1>1, <2>1, <2>3, UiStep DEF SameOwners
<1>5. CASE ProcessDies
  <2>1. PICK C : C = {t \in Tasks : Live(t)}
    OBVIOUS
  <2>2. /\ flow' = [t \in Tasks |-> IF t \in C THEN Gone(flow[t]) ELSE flow[t]]
        /\ UNCHANGED <<used, ran, decided>> /\ ui' = NoUi
    BY <1>5, <2>1 DEF ProcessDies
  <2>3. \A t \in C : flow[t].pc # "none"
    BY <2>1 DEF Live
  <2>4. IsUi(ui') /\ ui'.pending = NoTask /\ ui'.job = NoTask /\ ui'.card = NoTask
    BY <2>2, UiFacts DEF NoUi
  <2> QED BY <2>1, <2>2, <2>3, <2>4, CancelStep
<1> QED BY <1>3, <1>4, <1>5

(* The invariant holds of a phone that was just started. *)
LEMMA RunStarts ==
    ASSUME PhoneInit
    PROVE  RunInv
<1>1. flow = [t \in Tasks |-> NoFlow] /\ ran = [t \in Tasks |-> 0]
      /\ ui = NoUi /\ used = {} /\ decided = [t \in Tasks |-> {}]
  BY DEF PhoneInit, GatewayInit
<1>2. FlowsInv
  BY <1>1, EmptyFlow DEF FlowsInv
<1>3. IsUi(ui) /\ ui.pending = NoTask /\ ui.job = NoTask /\ ui.card = NoTask
  BY <1>1, UiFacts DEF NoUi
<1>4. OwnersInv
  BY <1>1, <1>3, TimelineAssumption DEF OwnersInv
<1>5. \A t \in Tasks : flow[t].pc = "none"
  BY <1>1 DEF NoFlow
<1>6. DecidedInv
  BY <1>1, <1>5 DEF DecidedInv
<1> QED BY <1>2, <1>4, <1>6 DEF RunInv

(* Every step keeps the invariant. *)
LEMMA RunSteps ==
    ASSUME RunInv, [PhoneNext]_phoneVars
    PROVE  RunInv'
<1>1. CASE UNCHANGED phoneVars
  BY <1>1 DEF phoneVars, gatewayVars, RunInv, FlowsInv, OwnersInv, DecidedInv, Confirm
<1>2. ASSUME NEW t \in Tasks, GatewayStep(t), UNCHANGED <<ui, used, decided>>
      PROVE  RunInv'
  <2>1. PICK g, r : Moves(t, g, r)
    BY <1>2, GatewaySteps DEF RunInv
  <2>2. IsUi(ui') /\ ui' = ui
    BY <1>2 DEF RunInv, OwnersInv
  <2> QED BY <1>2, <2>1, <2>2, FlowStep
<1>3. CASE PhoneNext
  BY <1>2, <1>3, CommandSteps, DecisionSteps, JobSteps, LinkSteps, OtherSteps DEF PhoneNext, UserActs
<1> QED BY <1>1, <1>3

(* The inductive invariant of executions on the phone holds, for any       *)
(* tasks, routes and numbers of attempts: an attempt that may be repeated  *)
(* has left nothing on its way to the Hub and started nothing, the pending *)
(* execution has not begun, and what has begun of a CONFIRM tool was       *)
(* approved.                                                               *)
THEOREM RunInvariant == PhoneSpec => []RunInv
<1>1. PhoneInit => RunInv
  BY RunStarts
<1>2. RunInv /\ [PhoneNext]_phoneVars => RunInv'
  BY RunSteps
<1> QED BY <1>1, <1>2, PTL DEF PhoneSpec

(* A tool is started at most once for a task, whatever is retried, timed   *)
(* out, cancelled or killed, and for a CONFIRM tool only when its approval *)
(* was granted and nothing else became of it.                              *)
THEOREM ToolsRunOnce == PhoneSpec => []ToolRunsOnce
<1>1. RunInv => ToolRunsOnce
  <2> SUFFICES ASSUME RunInv, NEW t \in Tasks
               PROVE  /\ ran[t] <= 1
                      /\ ran[t] = 1 /\ Confirm(t) => decided[t] = {"approved"}
    BY DEF ToolRunsOnce
  <2>1. ran[t] \in {0, 1} /\ FlowOK(flow[t], ran[t])
    BY DEF RunInv, FlowsInv
  <2>2. ran[t] = 1 /\ Confirm(t) => flow[t].pc # "none"
    BY <2>1 DEF FlowOK, Confirm
  <2> QED BY <2>1, <2>2 DEF RunInv, DecidedInv
<1> QED BY <1>1, RunInvariant, PTL

-----------------------------------------------------------------------------
(* The history: the inductive invariant.                                   *)

(* What the timeline's entries are made of. *)
Phases == {"ROUTING", "AWAITING_APPROVAL", "PREPARING", "ACCEPTED", "COMPLETED_UNVERIFIED"}
          \cup TerminalPhases
Reasons == {"", "failed", "expired", "denied", "cancelled"}
EntryType == [id : Tasks, plan : Plans \cup {NoPlan}, phase : Phases, why : Reasons, at : Nat,
              attempt : Nat, ready : BOOLEAN, sequence : Int, result : BOOLEAN,
              granted : BOOLEAN, recorded : BOOLEAN]

(* An entry has the time of its end exactly when it has ended, and nothing *)
(* is said of the end before.                                              *)
GoodEntries == {e \in EntryType :
    /\ Ended(e) <=> e.at # 0
    /\ ~Ended(e) => e.why = "" /\ ~e.recorded}

(* No task has two entries, and the active task's is the one that has not  *)
(* ended.                                                                  *)
TimelineOK(tl) ==
    /\ tl = [active |-> tl.active, entries |-> tl.entries]
    /\ tl.entries \in Seq(GoodEntries)
    /\ \A i, j \in DOMAIN tl.entries : tl.entries[i].id = tl.entries[j].id => i = j
    /\ \A i \in DOMAIN tl.entries : tl.entries[i].id = tl.active <=> ~Ended(tl.entries[i])

(* Only tasks that were drawn are shown. *)
ShownInv ==
    /\ TimelineOK(ui.tl)
    /\ ui.tl.active \in used \cup {NoTask}
    /\ \A i \in DOMAIN ui.tl.entries : ui.tl.entries[i].id \in used

(* A flow that ended without starting its tool, or is bound to. *)
Still(f, r) ==
    /\ r = 0 /\ f.up = "none" /\ f.net \in Seq(Answers)
    /\ f.pc \in {"none", "done", "gone", "invoked", "closing"}
    /\ f.pc = "closing" => f.outcome # "retryable"

(* The sequence s holds x. *)
Has(s, x) == \E i \in DOMAIN s : s[i] = x

(* What a flow has emitted, or is about to receive, is true: a verdict     *)
(* comes from a tool that ran, and an expired approval from a flow that    *)
(* can no longer run.                                                      *)
FlowTrue(f, r) ==
    /\ f.pc = "ran" => r = 1
    /\ \A v \in {Verification, Unverified} : Has(f.chan, v) \/ Has(f.net, v) => r = 1
    /\ \/ Has(f.chan, Error("expired")) \/ Has(f.net, Error("expired"))
       \/ f.pc = "closing" /\ f.outcome = "expired"
       => Still(f, r)

(* The tool of task t has not run and will not. *)
Stopped(t) == t \in used /\ ui.card # t /\ Still(flow[t], ran[t])

(* What an entry or a row says of its task is true. An entry that reports  *)
(* an approval as not given is of a stopped task, a CONFIRM task that was  *)
(* not granted waits, and what the card is about is shown as waiting.      *)
Unapproved == {"denied", "cancelled", "expired"}
EntryTrue(e) ==
    /\ e.phase \in {"VERIFIED", "UNVERIFIED"} => ran[e.id] = 1
    /\ Ended(e) /\ ~e.recorded /\ ApprovalOutcome(e) \in Unapproved => Stopped(e.id)
    /\ ~Ended(e) /\ e.plan.permission = "CONFIRM" /\ ~e.granted => e.phase = "AWAITING_APPROVAL"
    /\ e.phase = "AWAITING_APPROVAL" => ~e.granted /\ e.plan.permission = "CONFIRM"
    /\ ui.card = e.id => e.phase = "AWAITING_APPROVAL"
RowTrue(r) ==
    /\ r.phase \in {"VERIFIED", "UNVERIFIED"} => ran[r.id] = 1
    /\ r.approval \in Unapproved => Stopped(r.id)

(* Flows, shown entries, queued entries and rows are all true. *)
TruthInv ==
    /\ \A t \in Tasks : FlowTrue(flow[t], ran[t])
    /\ \A i \in DOMAIN ui.tl.entries : EntryTrue(ui.tl.entries[i])
    /\ \A i \in DOMAIN aud.queue : EntryTrue(aud.queue[i])
    /\ \A r \in rows : RowTrue(r)

(* Rows of the audit table. *)
RowType == [id : Tasks, plan : Plans \cup {NoPlan}, phase : TerminalPhases,
            approval : {"not_required", "approved", "denied", "cancelled", "expired"},
            at : Nat \ {0}]

(* A row, or a queued entry, and an ended entry say the same. *)
Agree(r, e) == Ended(e) /\ r.phase = e.phase /\ r.at = e.at

(* The table has one row for a task, which is not the active one; a task   *)
(* with a row or a recorded entry has been tried, and what is shown of it  *)
(* agrees with the row. Before the table is loaded nothing has been tried. *)
TableInv ==
    /\ aud = [pc |-> aud.pc, queue |-> aud.queue, tried |-> aud.tried]
    /\ IsFiniteSet(rows) /\ rows \subseteq RowType
    /\ \A r \in rows : r.id \in used /\ r.id # ui.tl.active
    /\ \A r, s \in rows : r.id = s.id => r = s
    /\ \A i \in DOMAIN ui.tl.entries :
         LET e == ui.tl.entries[i] IN
         /\ e.recorded => e.id \in aud.tried
         /\ \A r \in rows : r.id = e.id => e.id \in aud.tried /\ Agree(r, e)
    /\ aud.pc = "loading" => aud.queue = <<>> /\ aud.tried = {}

(* What the observer has in hand has ended, was not tried, has no row, and *)
(* agrees with what is still shown of it.                                  *)
QueueInv ==
    /\ aud.queue \in Seq(GoodEntries)
    /\ \A i, j \in DOMAIN aud.queue : aud.queue[i].id = aud.queue[j].id => i = j
    /\ \A i \in DOMAIN aud.queue :
         LET q == aud.queue[i] IN
         /\ Ended(q) /\ ~q.recorded /\ q.id \in used \ aud.tried /\ q.id # ui.tl.active
         /\ \A r \in rows : r.id # q.id
         /\ \A k \in DOMAIN ui.tl.entries : ui.tl.entries[k].id = q.id => Agree(q, ui.tl.entries[k])

(* The inductive invariant of the history. *)
HistInv == ShownInv /\ ApprovalCardIsLive /\ TruthInv /\ TableInv /\ QueueInv

-----------------------------------------------------------------------------
(* Entries.                                                                *)

(* Fields of an entry that has not ended. *)
LEMMA ActiveEntry ==
    ASSUME NEW e \in GoodEntries, ~Ended(e)
    PROVE  /\ e \in EntryType /\ e.at = 0 /\ e.why = "" /\ e.recorded = FALSE
           /\ e.phase \in Phases /\ e.id \in Tasks /\ e.plan \in Plans \cup {NoPlan}
           /\ e.attempt \in Nat /\ e.sequence \in Int
           /\ e.ready \in BOOLEAN /\ e.result \in BOOLEAN /\ e.granted \in BOOLEAN
<1>1. e \in EntryType /\ e.at = 0 /\ e.why = ""
  BY DEF GoodEntries
<1>2. e.recorded \in BOOLEAN /\ ~e.recorded
  BY DEF GoodEntries, EntryType
<1> QED BY <1>1, <1>2 DEF EntryType

(* The entry g is e but for its phase, why it ended and its progress. *)
Redone(e, g, phase, why) ==
    /\ g \in EntryType /\ g.id = e.id /\ g.plan = e.plan /\ g.at = e.at /\ g.granted = e.granted
    /\ g.recorded = e.recorded /\ g.phase = phase /\ g.why = why

(* The updates that events make. *)
LEMMA EntryUpdates ==
    ASSUME NEW e \in EntryType, NEW phase \in Phases, NEW why \in Reasons, NEW n \in Nat
    PROVE  /\ Redone(e, [e EXCEPT !.phase = phase], phase, e.why)
           /\ Redone(e, [e EXCEPT !.phase = phase, !.why = why], phase, why)
           /\ Redone(e, [e EXCEPT !.phase = phase, !.attempt = n, !.ready = FALSE], phase, e.why)
           /\ Redone(e, [e EXCEPT !.ready = TRUE], e.phase, e.why)
           /\ Redone(e, [e EXCEPT !.phase = phase, !.sequence = n], phase, e.why)
           /\ Redone(e, [e EXCEPT !.result = TRUE], e.phase, e.why)
<1>1. Redone(e, [e EXCEPT !.phase = phase], phase, e.why)
  <2>1. PICK g : g = [e EXCEPT !.phase = phase]
    OBVIOUS
  <2>2. g \in EntryType
    BY <2>1 DEF EntryType
  <2>3. Redone(e, g, phase, e.why)
    BY <2>1, <2>2 DEF Redone, EntryType
  <2> QED BY <2>1, <2>3
<1>2. Redone(e, [e EXCEPT !.phase = phase, !.why = why], phase, why)
  <2>1. PICK g : g = [e EXCEPT !.phase = phase, !.why = why]
    OBVIOUS
  <2>2. g \in EntryType
    BY <2>1 DEF EntryType
  <2>3. Redone(e, g, phase, why)
    BY <2>1, <2>2 DEF Redone, EntryType
  <2> QED BY <2>1, <2>3
<1>3. Redone(e, [e EXCEPT !.phase = phase, !.attempt = n, !.ready = FALSE], phase, e.why)
  <2>1. PICK g : g = [e EXCEPT !.phase = phase, !.attempt = n, !.ready = FALSE]
    OBVIOUS
  <2>2. g \in EntryType
    BY <2>1 DEF EntryType
  <2>3. Redone(e, g, phase, e.why)
    BY <2>1, <2>2 DEF Redone, EntryType
  <2> QED BY <2>1, <2>3
<1>4. Redone(e, [e EXCEPT !.ready = TRUE], e.phase, e.why)
  <2>1. PICK g : g = [e EXCEPT !.ready = TRUE]
    OBVIOUS
  <2>2. g \in EntryType
    BY <2>1 DEF EntryType
  <2>3. Redone(e, g, e.phase, e.why)
    BY <2>1, <2>2 DEF Redone, EntryType
  <2> QED BY <2>1, <2>3
<1>5. Redone(e, [e EXCEPT !.phase = phase, !.sequence = n], phase, e.why)
  <2>1. PICK g : g = [e EXCEPT !.phase = phase, !.sequence = n]
    OBVIOUS
  <2>2. g \in EntryType
    <3>1. n \in Int
      OBVIOUS
    <3> QED BY <2>1, <3>1 DEF EntryType
  <2>3. Redone(e, g, phase, e.why)
    BY <2>1, <2>2 DEF Redone, EntryType
  <2> QED BY <2>1, <2>3
<1>6. Redone(e, [e EXCEPT !.result = TRUE], e.phase, e.why)
  <2>1. PICK g : g = [e EXCEPT !.result = TRUE]
    OBVIOUS
  <2>2. g \in EntryType
    BY <2>1 DEF EntryType
  <2>3. Redone(e, g, e.phase, e.why)
    BY <2>1, <2>2 DEF Redone, EntryType
  <2> QED BY <2>1, <2>3
<1> QED BY <1>1, <1>2, <1>3, <1>4, <1>5, <1>6

(* What applyEvent makes of the active entry. *)
Applied(e, ev) ==
    CASE ev.kind = "starting"     -> ApplyStarting(e, ev)
      [] ev.kind = "ready"        -> ApplyReady(e)
      [] ev.kind = "progress"     -> ApplyProgress(e, ev)
      [] ev.kind = "result"       -> ApplyResult(e)
      [] ev.kind = "verification" -> ApplyVerdict(e, "VERIFIED")
      [] ev.kind = "unverified"   -> ApplyVerdict(e, "UNVERIFIED")
      [] ev.kind = "error"        -> [e EXCEPT !.phase = "FAILED", !.why = ev.code]

(* The kinds of events. *)
LEMMA EventKinds ==
    ASSUME NEW ev \in Emitted
    PROVE  \/ ev.kind = "starting" /\ ev.n \in Nat
           \/ ev.kind = "ready"
           \/ ev.kind = "progress" /\ ev.n \in Nat
           \/ ev.kind = "result"
           \/ ev = Verification /\ ev.kind = "verification"
           \/ ev = Unverified /\ ev.kind = "unverified"
           \/ \E code \in {"failed", "expired"} : ev = Error(code) /\ ev.kind = "error" /\ ev.code = code
BY DEF Emitted, Answers, Ready, Unverified, Progress, ToolResult, Verification, Error

(* What events of S make of the phase of e, and of why it ended. *)
PhaseFrom(e, phase, why, S) ==
    /\ \/ phase \in TerminalPhases /\ phase # "CANCELLED"
       \/ phase = e.phase \/ "AWAITING_APPROVAL" \notin {phase, e.phase}
    /\ phase \notin TerminalPhases => why = ""
    /\ phase = "VERIFIED" => Verification \in S
    /\ phase = "UNVERIFIED" => Unverified \in S
    /\ why \in {"", "failed", "expired"} /\ (why = "expired" => Error("expired") \in S)

(* An event of S changes an entry that has not ended as PhaseFrom says. *)
LEMMA AppliedFacts ==
    ASSUME NEW e \in GoodEntries, ~Ended(e), NEW S, NEW ev \in S, ev \in Emitted, NEW g, g = Applied(e, ev)
    PROVE  \E phase, why : Redone(e, g, phase, why) /\ PhaseFrom(e, phase, why, S)
<1>1. e \in EntryType /\ e.why = "" /\ e.phase \in Phases /\ e.phase \notin TerminalPhases
  BY ActiveEntry DEF Ended
<1>2. /\ "FAILED" \in Phases /\ "PREPARING" \in Phases /\ "ACCEPTED" \in Phases
      /\ "COMPLETED_UNVERIFIED" \in Phases /\ "VERIFIED" \in Phases /\ "UNVERIFIED" \in Phases
      /\ "failed" \in Reasons /\ "expired" \in Reasons
  BY DEF Phases, Reasons, TerminalPhases
<1>3. PhaseFrom(e, "FAILED", "", S) /\ PhaseFrom(e, e.phase, "", S)
  BY <1>1 DEF PhaseFrom, TerminalPhases
<1>4. \A phase \in {"PREPARING", "ACCEPTED", "COMPLETED_UNVERIFIED"} :
        e.phase # "AWAITING_APPROVAL" => PhaseFrom(e, phase, "", S)
  BY DEF PhaseFrom, TerminalPhases
<1>5. Redone(e, FailSequence(e), "FAILED", "")
  BY <1>1, <1>2, EntryUpdates DEF FailSequence
<1>6. CASE ev.kind = "starting" /\ ev.n \in Nat
  <2>1. g = ApplyStarting(e, ev)
    BY <1>6 DEF Applied
  <2>2. \/ g = FailSequence(e)
        \/ g = [e EXCEPT !.phase = "PREPARING", !.attempt = ev.n, !.ready = FALSE]
           /\ e.phase # "AWAITING_APPROVAL"
    BY <2>1 DEF ApplyStarting
  <2>3. Redone(e, [e EXCEPT !.phase = "PREPARING", !.attempt = ev.n, !.ready = FALSE], "PREPARING", "")
    BY <1>1, <1>2, <1>6, EntryUpdates
  <2> QED BY <1>3, <1>4, <1>5, <2>2, <2>3
<1>7. CASE ev.kind = "ready"
  <2>1. g = ApplyReady(e)
    BY <1>7 DEF Applied
  <2>2. g = FailSequence(e) \/ g = [e EXCEPT !.ready = TRUE]
    BY <2>1 DEF ApplyReady
  <2>3. Redone(e, [e EXCEPT !.ready = TRUE], e.phase, "")
    BY <1>1, <1>2, EntryUpdates
  <2> QED BY <1>3, <1>5, <2>2, <2>3
<1>8. CASE ev.kind = "progress" /\ ev.n \in Nat
  <2>1. g = ApplyProgress(e, ev)
    BY <1>8 DEF Applied
  <2>2. \/ g = FailSequence(e)
        \/ g = [e EXCEPT !.phase = "ACCEPTED", !.sequence = ev.n] /\ e.phase # "AWAITING_APPROVAL"
        \/ g = [e EXCEPT !.phase = "COMPLETED_UNVERIFIED", !.sequence = ev.n]
           /\ e.phase # "AWAITING_APPROVAL"
    BY <2>1 DEF ApplyProgress
  <2>3. /\ Redone(e, [e EXCEPT !.phase = "ACCEPTED", !.sequence = ev.n], "ACCEPTED", "")
        /\ Redone(e, [e EXCEPT !.phase = "COMPLETED_UNVERIFIED", !.sequence = ev.n],
                  "COMPLETED_UNVERIFIED", "")
    BY <1>1, <1>2, <1>8, EntryUpdates
  <2> QED BY <1>3, <1>4, <1>5, <2>2, <2>3
<1>9. CASE ev.kind = "result"
  <2>1. g = ApplyResult(e)
    BY <1>9 DEF Applied
  <2>2. g = FailSequence(e) \/ g = [e EXCEPT !.result = TRUE]
    BY <2>1 DEF ApplyResult
  <2>3. Redone(e, [e EXCEPT !.result = TRUE], e.phase, "")
    BY <1>1, <1>2, EntryUpdates
  <2> QED BY <1>3, <1>5, <2>2, <2>3
<1>10. CASE \/ ev = Verification /\ ev.kind = "verification"
            \/ ev = Unverified /\ ev.kind = "unverified"
  <2>1. PICK phase : /\ g = ApplyVerdict(e, phase)
                     /\ \/ phase = "VERIFIED" /\ Verification \in S
                        \/ phase = "UNVERIFIED" /\ Unverified \in S
    BY <1>10 DEF Applied
  <2>2. g = FailSequence(e) \/ g = [e EXCEPT !.phase = phase]
    BY <2>1 DEF ApplyVerdict
  <2>3. Redone(e, [e EXCEPT !.phase = phase], phase, "")
    BY <1>1, <1>2, <2>1, EntryUpdates
  <2>4. PhaseFrom(e, phase, "", S)
    BY <2>1 DEF PhaseFrom, TerminalPhases
  <2> QED BY <1>3, <1>5, <2>2, <2>3, <2>4
<1>11. CASE \E code \in {"failed", "expired"} : ev = Error(code) /\ ev.kind = "error" /\ ev.code = code
  <2>1. PICK code \in {"failed", "expired"} : ev = Error(code) /\ ev.kind = "error" /\ ev.code = code
    BY <1>11
  <2>2. g = [e EXCEPT !.phase = "FAILED", !.why = code]
    BY <2>1 DEF Applied
  <2>3. Redone(e, g, "FAILED", code)
    <3>1. code \in Reasons
      BY <1>2, <2>1
    <3>2. 0 \in Nat
      OBVIOUS
    <3>3. Redone(e, [e EXCEPT !.phase = "FAILED", !.why = code], "FAILED", code)
      BY <1>1, <1>2, <3>1, <3>2, EntryUpdates
    <3> QED BY <2>2, <3>3
  <2>4. PhaseFrom(e, "FAILED", code, S)
    BY <2>1 DEF PhaseFrom, TerminalPhases
  <2> QED BY <2>3, <2>4
<1> QED BY <1>6, <1>7, <1>8, <1>9, <1>10, <1>11, EventKinds

(* An entry as it is before its end is stamped. *)
Draft(g) == g \in EntryType /\ g.at = 0 /\ g.recorded = FALSE /\ (~Ended(g) => g.why = "")

(* A draft becomes an entry when its end is stamped. *)
LEMMA StampFacts ==
    ASSUME NEW g, Draft(g), NEW at \in Nat \ {0}, NEW s, s = WithTerminalTimestamp(g, at)
    PROVE  /\ s \in GoodEntries /\ s.id = g.id /\ s.plan = g.plan /\ s.phase = g.phase
           /\ s.why = g.why /\ s.granted = g.granted /\ s.recorded = FALSE
<1>1. g.at = 0 /\ g \in EntryType /\ g.phase \in Phases /\ g.why \in Reasons
      /\ g.id \in Tasks /\ g.plan \in Plans \cup {NoPlan} /\ g.granted \in BOOLEAN
      /\ g.recorded = FALSE
  BY DEF Draft, EntryType
<1>2. CASE ~Ended(g)
  <2>1. s = g
    BY <1>2 DEF WithTerminalTimestamp
  <2> QED BY <1>1, <1>2, <2>1 DEF GoodEntries, Draft
<1>3. CASE Ended(g)
  <2>1. PICK n : n = NewEntry(g.id, g.plan, g.phase, at)
    OBVIOUS
  <2>3. s = [n EXCEPT !.why = g.why, !.granted = g.granted]
    BY <1>1, <1>3, <2>1 DEF WithTerminalTimestamp
  <2>4. s = [id |-> g.id, plan |-> g.plan, phase |-> g.phase, why |-> g.why, at |-> at,
             attempt |-> 0, ready |-> FALSE, sequence |-> -1, result |-> FALSE,
             granted |-> g.granted, recorded |-> FALSE]
    BY <2>1, <2>3 DEF NewEntry
  <2>5. s \in EntryType
    BY <1>1, <2>4 DEF EntryType
  <2>6. s.id = g.id /\ s.plan = g.plan /\ s.phase = g.phase /\ s.why = g.why /\ s.at = at
        /\ s.granted = g.granted /\ s.recorded = FALSE
    BY <2>4
  <2>7. Ended(s)
    BY <1>3, <2>6 DEF Ended
  <2> QED BY <1>1, <2>5, <2>6, <2>7 DEF GoodEntries
<1> QED BY <1>2, <1>3

(* An update of an active entry is a draft. *)
LEMMA RedoneIsDraft ==
    ASSUME NEW e \in GoodEntries, ~Ended(e), NEW g, NEW phase, NEW why, Redone(e, g, phase, why),
           phase \notin TerminalPhases => why = ""
    PROVE  Draft(g)
<1>1. e.at = 0 /\ e.recorded = FALSE
  BY ActiveEntry
<1> QED BY <1>1 DEF Redone, Draft, Ended

(* The entry e is new. *)
IsNew(e, t, plan, phase, at) ==
    /\ e \in EntryType /\ e.id = t /\ e.plan = plan /\ e.phase = phase /\ e.at = at
    /\ e.why = "" /\ e.granted = FALSE /\ e.recorded = FALSE

(* A new entry. *)
LEMMA NewEntryFacts ==
    ASSUME NEW t \in Tasks, NEW plan \in Plans \cup {NoPlan}, NEW phase \in Phases, NEW at \in Nat
    PROVE  IsNew(NewEntry(t, plan, phase, at), t, plan, phase, at)
<1>0. PICK e : e = NewEntry(t, plan, phase, at)
  OBVIOUS
<1>1. /\ e.id = t /\ e.plan = plan /\ e.phase = phase /\ e.at = at /\ e.why = "" /\ e.granted = FALSE
      /\ e.recorded = FALSE
  BY <1>0 DEF NewEntry
<1>2. "" \in Reasons
  BY DEF Reasons
<1>3. PICK w \in Reasons : w = ""
  BY <1>2
<1>4. e = [id |-> t, plan |-> plan, phase |-> phase, why |-> w, at |-> at, attempt |-> 0,
            ready |-> FALSE, sequence |-> -1, result |-> FALSE, granted |-> FALSE,
            recorded |-> FALSE]
  BY <1>0, <1>3, Zenon DEF NewEntry
<1>5. e \in EntryType
  BY <1>4 DEF EntryType
<1> QED BY <1>0, <1>1, <1>5 DEF IsNew

-----------------------------------------------------------------------------
(* Timelines.                                                              *)

(* From tl to tm only the entry of t has changed, into one of G, or has    *)
(* been added; other entries may have been dropped.                        *)
Changes(tl, tm, t, G) ==
    /\ TimelineOK(tm)
    /\ \A j \in DOMAIN tm.entries :
         IF tm.entries[j].id = t THEN tm.entries[j] \in G
         ELSE \E i \in DOMAIN tl.entries : tm.entries[j] = tl.entries[i]

(* Two changes of a task's entry are one change. *)
LEMMA ChangesCompose ==
    ASSUME NEW a, NEW b, NEW c, NEW t, NEW G, NEW H, Changes(a, b, t, G), Changes(b, c, t, H)
    PROVE  Changes(a, c, t, H)
BY DEF Changes

(* The entry e is the one that tl shows of t. *)
IsEntryOf(e, tl, t) ==
    /\ \E i \in DOMAIN tl.entries : e = tl.entries[i]
    /\ e \in GoodEntries /\ e.id = t /\ (t = tl.active => ~Ended(e))

(* The entry of a task. *)
LEMMA EntryOfFacts ==
    ASSUME NEW tl, TimelineOK(tl), NEW t \in Tasks, Shown(tl, t)
    PROVE  IsEntryOf(EntryOf(tl, t), tl, t)
<1>0. PICK e : e = EntryOf(tl, t)
  OBVIOUS
<1>1. PICK i : i = CHOOSE k \in Indices(tl, t) : TRUE
  OBVIOUS
<1>2. i \in Indices(tl, t)
  BY <1>1 DEF Shown
<1>3. i \in DOMAIN tl.entries /\ tl.entries[i].id = t /\ e = tl.entries[i]
  BY <1>0, <1>1, <1>2 DEF Indices, EntryOf
<1>4. tl.entries[i] \in GoodEntries
  BY <1>3 DEF TimelineOK
<1>5. IsEntryOf(e, tl, t)
  BY <1>3, <1>4 DEF TimelineOK, IsEntryOf
<1> QED BY <1>0, <1>5

(* replaceEntry. *)
LEMMA ReplaceFacts ==
    ASSUME NEW tl, TimelineOK(tl), NEW t \in Tasks, t = tl.active, NEW x, NEW at \in Nat \ {0},
           Shown(tl, t) => Draft(x) /\ x.id = t, NEW tm, tm = Replace(tl, t, x, at)
    PROVE  /\ Changes(tl, tm, t, {s \in {WithTerminalTimestamp(x, at)} : Shown(tl, t)})
           /\ tm.active = IF Shown(tl, t) /\ ~Ended(x) THEN t ELSE NoTask
<1>1. PICK es, a : tl = [active |-> a, entries |-> es] /\ a = t /\ tl.entries = es
  BY DEF TimelineOK
<1>2. CASE ~Shown(tl, t)
  <2>1. tm = [tl EXCEPT !.active = NoTask]
    BY <1>2 DEF Replace
  <2>2. tm = [active |-> NoTask, entries |-> es] /\ tm.active = NoTask /\ tm.entries = es
    BY <1>1, <2>1
  <2>3. \A i \in DOMAIN es : es[i].id # t
    BY <1>1, <1>2 DEF Shown, Indices
  <2>4. \A i \in DOMAIN es : es[i].id \in Tasks
    <3>1. \A i \in DOMAIN es : es[i] \in GoodEntries
      BY <1>1 DEF TimelineOK
    <3> QED BY <3>1 DEF GoodEntries, EntryType
  <2>5. \A i \in DOMAIN es : Ended(es[i]) /\ es[i].id # NoTask
    BY <1>1, <2>3, <2>4, TimelineAssumption DEF TimelineOK
  <2>6. TimelineOK(tm)
    BY <1>1, <2>2, <2>5 DEF TimelineOK
  <2>7. Changes(tl, tm, t, {s \in {WithTerminalTimestamp(x, at)} : Shown(tl, t)})
    BY <1>1, <2>2, <2>3, <2>6 DEF Changes
  <2> QED BY <1>2, <2>2, <2>7
<1>3. CASE Shown(tl, t)
  <2>1. PICK s, b, fs : /\ s = WithTerminalTimestamp(x, at)
                        /\ b = IF Ended(s) THEN NoTask ELSE t
                        /\ fs = [i \in DOMAIN tl.entries |-> IF i \in Indices(tl, t) THEN s ELSE tl.entries[i]]
    OBVIOUS
  <2>2. tm = [active |-> b, entries |-> fs] /\ tm.active = b /\ tm.entries = fs
    BY <1>3, <2>1 DEF Replace
  <2>3. s \in GoodEntries /\ s.id = t /\ s.phase = x.phase
    BY <1>3, <2>1, StampFacts
  <2>4. \A i \in DOMAIN es : es[i] \in GoodEntries /\ es[i].id \in Tasks
    <3>1. \A i \in DOMAIN es : es[i] \in GoodEntries
      BY <1>1 DEF TimelineOK
    <3> QED BY <3>1 DEF GoodEntries, EntryType
  <2>5. /\ DOMAIN fs = DOMAIN es
        /\ \A i \in DOMAIN es : IF es[i].id = t THEN fs[i] = s ELSE fs[i] = es[i]
    BY <1>1, <2>1 DEF Indices
  <2>6. fs \in Seq(GoodEntries)
    <3>1. es \in Seq(GoodEntries) /\ Len(es) \in Nat /\ DOMAIN es = 1 .. Len(es)
      BY <1>1, LenProperties DEF TimelineOK
    <3>2. \A i \in DOMAIN fs : fs[i] \in GoodEntries
      BY <2>3, <2>4, <2>5
    <3>3. fs \in [1 .. Len(es) -> GoodEntries]
      BY <1>1, <2>1, <2>5, <3>1, <3>2
    <3> QED BY <3>1, <3>3, SeqDef
  <2>7. \A i \in DOMAIN fs : fs[i].id = es[i].id
    BY <2>3, <2>5
  <2>8. \A i, j \in DOMAIN fs : fs[i].id = fs[j].id => i = j
    BY <1>1, <2>5, <2>7 DEF TimelineOK
  <2>9. \A i \in DOMAIN fs : fs[i].id = b <=> ~Ended(fs[i])
    <3>1. ASSUME NEW i \in DOMAIN fs, es[i].id = t PROVE fs[i].id = b <=> ~Ended(fs[i])
      BY <2>1, <2>3, <2>5, <3>1, TimelineAssumption
    <3>2. ASSUME NEW i \in DOMAIN fs, es[i].id # t PROVE fs[i].id = b <=> ~Ended(fs[i])
      <4>1. fs[i] = es[i] /\ Ended(es[i]) /\ es[i].id \in Tasks
        BY <1>1, <2>4, <2>5, <3>2 DEF TimelineOK
      <4> QED BY <2>1, <3>2, <4>1, TimelineAssumption
    <3> QED BY <3>1, <3>2
  <2>10. TimelineOK(tm)
    BY <2>2, <2>6, <2>8, <2>9 DEF TimelineOK
  <2>11. Changes(tl, tm, t, {s})
    BY <1>1, <2>2, <2>5, <2>7, <2>10 DEF Changes
  <2>12. {s} = {q \in {WithTerminalTimestamp(x, at)} : Shown(tl, t)}
    BY <1>3, <2>1
  <2>13. Ended(s) <=> Ended(x)
    BY <2>3 DEF Ended
  <2> QED BY <1>3, <2>1, <2>2, <2>11, <2>12, <2>13, TimelineAssumption
<1> QED BY <1>2, <1>3

(* The sequence k is the end of s. *)
IsEndOf(k, s) == \E d \in Nat : \A j \in DOMAIN k : j + d \in DOMAIN s /\ k[j] = s[j + d]

(* takeLast keeps the end of a sequence. *)
LEMMA TakeLastFacts ==
    ASSUME NEW S, NEW s \in Seq(S), NEW k, k = TakeLast(s)
    PROVE  k \in Seq(S) /\ IsEndOf(k, s)
<1>1. PICK l, m : l = Len(s) /\ m = IF Len(s) > MaxItems THEN Len(s) - MaxItems + 1 ELSE 1
  OBVIOUS
<1>2. l \in Nat /\ DOMAIN s = 1 .. l /\ MaxItems \in Nat \ {0}
  BY <1>1, LenProperties, TimelineAssumption
<1>3. m \in 1 .. l + 1 /\ k = SubSeq(s, m, l)
  BY <1>1, <1>2 DEF TakeLast
<1>4. \A i \in m .. l : s[i] \in S
  BY <1>2, <1>3, ElementOfSeq
<1>5. /\ k \in Seq(S) /\ Len(k) = (IF m <= l THEN l - m + 1 ELSE 0)
      /\ \A i \in 1 .. l - m + 1 : k[i] = s[m + i - 1]
  BY <1>2, <1>3, <1>4, SubSeqProperties
<1>6. DOMAIN k = 1 .. Len(k)
  BY <1>5, LenProperties
<1>7. \A j \in DOMAIN k : j + (m - 1) \in DOMAIN s /\ k[j] = s[j + (m - 1)]
  BY <1>2, <1>3, <1>5, <1>6
<1>8. m - 1 \in Nat
  BY <1>2, <1>3
<1> QED BY <1>5, <1>7, <1>8 DEF IsEndOf

(* A good sequence of entries stays one when its older ones are dropped. *)
LEMMA AddedFacts ==
    ASSUME NEW tl, TimelineOK(tl), NEW t \in Tasks, \A i \in DOMAIN tl.entries : tl.entries[i].id # t,
           NEW e \in GoodEntries, e.id = t, NEW a, a \in {tl.active, t}, a = t <=> ~Ended(e),
           a = t => tl.active = NoTask,
           NEW tm, tm = [active |-> a, entries |-> TakeLast(Append(tl.entries, e))]
    PROVE  Changes(tl, tm, t, {e})
<1>1. PICK es, k : es = tl.entries /\ k = TakeLast(Append(es, e))
  OBVIOUS
<1>2. es \in Seq(GoodEntries) /\ Len(es) \in Nat /\ DOMAIN es = 1 .. Len(es)
  BY <1>1, LenProperties DEF TimelineOK
<1>3. PICK l : l = Len(es)
  OBVIOUS
<1>4. PICK q : q = Append(es, e)
  OBVIOUS
<1>5. /\ q \in Seq(GoodEntries) /\ DOMAIN q = 1 .. l + 1 /\ q[l + 1] = e
      /\ \A i \in 1 .. l : q[i] = es[i]
  <2>1. q \in Seq(GoodEntries) /\ Len(q) = l + 1 /\ q[l + 1] = e /\ \A i \in 1 .. l : q[i] = es[i]
    BY <1>2, <1>3, <1>4, AppendProperties
  <2> QED BY <2>1, LenProperties
<1>6. PICK d \in Nat : \A j \in DOMAIN k : j + d \in DOMAIN q /\ k[j] = q[j + d]
  <2>1. k = TakeLast(q) /\ q \in Seq(GoodEntries)
    BY <1>1, <1>4, <1>5
  <2>2. IsEndOf(k, q)
    BY <2>1, TakeLastFacts
  <2> QED BY <2>2 DEF IsEndOf
<1>7. k \in Seq(GoodEntries) /\ DOMAIN k \subseteq Nat
  <2>1. k \in Seq(GoodEntries)
    BY <1>1, <1>4, <1>5, TakeLastFacts
  <2> QED BY <2>1, LenProperties
<1>8. \A i \in 1 .. l : es[i].id # t /\ q[i].id = es[i].id
  BY <1>1, <1>2, <1>3, <1>5
<1>9. \A i, j \in 1 .. l : es[i].id = es[j].id => i = j
  BY <1>1, <1>2, <1>3 DEF TimelineOK
<1>10. \A i \in 1 .. l : es[i].id = tl.active <=> ~Ended(es[i])
  BY <1>1, <1>2, <1>3 DEF TimelineOK
<1>11. \A i \in 1 .. l + 1 : i = l + 1 \/ i \in 1 .. l
  BY <1>2, <1>3
<1>12. \A i, j \in 1 .. l + 1 : q[i].id = q[j].id => i = j
  BY <1>5, <1>8, <1>9, <1>11
<1>13. \A i \in 1 .. l + 1 : q[i].id = a <=> ~Ended(q[i])
  <2>1. \A i \in 1 .. l : es[i].id \in Tasks
    <3>1. \A i \in 1 .. l : es[i] \in GoodEntries
      BY <1>2, <1>3, ElementOfSeq
    <3> QED BY <3>1 DEF GoodEntries, EntryType
  <2>2. ASSUME NEW i \in 1 .. l PROVE q[i].id = a <=> ~Ended(q[i])
    <3>1. q[i] = es[i] /\ es[i].id # t /\ es[i].id \in Tasks /\ (es[i].id = tl.active <=> ~Ended(es[i]))
      BY <1>5, <1>8, <1>10, <2>1
    <3> QED BY <3>1, TimelineAssumption
  <2>3. q[l + 1].id = a <=> ~Ended(q[l + 1])
    BY <1>5
  <2> QED BY <1>11, <2>2, <2>3
<1>14. tm = [active |-> a, entries |-> k] /\ tm.active = a /\ tm.entries = k
  BY <1>1
<1>15. ASSUME NEW i \in DOMAIN k, NEW j \in DOMAIN k, k[i].id = k[j].id PROVE i = j
  <2>1. i + d \in 1 .. l + 1 /\ j + d \in 1 .. l + 1 /\ k[i] = q[i + d] /\ k[j] = q[j + d]
    BY <1>5, <1>6
  <2>2. i + d = j + d
    BY <1>12, <1>15, <2>1
  <2> QED BY <1>7, <2>2
<1>16. \A i \in DOMAIN k : k[i].id = a <=> ~Ended(k[i])
  BY <1>5, <1>6, <1>13
<1>17. TimelineOK(tm)
  BY <1>7, <1>14, <1>15, <1>16 DEF TimelineOK
<1>18. ASSUME NEW j \in DOMAIN k
       PROVE  IF k[j].id = t THEN k[j] = e ELSE \E i \in DOMAIN es : k[j] = es[i]
  <2>1. j + d \in 1 .. l + 1 /\ k[j] = q[j + d]
    BY <1>5, <1>6
  <2> QED BY <1>2, <1>3, <1>5, <1>8, <1>11, <2>1
<1> QED BY <1>1, <1>14, <1>17, <1>18 DEF Changes

(* start and the entry of a rejected command. *)
LEMMA StartFacts ==
    ASSUME NEW tl, TimelineOK(tl), NEW t \in Tasks, \A i \in DOMAIN tl.entries : tl.entries[i].id # t,
           tl.active # t, NEW plan \in Plans \cup {NoPlan}, NEW at \in Nat \ {0}
    PROVE  /\ tl.active = NoTask =>
                Changes(tl, Start(tl, t, plan), t, {NewEntry(t, plan, "ROUTING", 0)})
           /\ Changes(tl, RejectEntry(tl, t, plan, at), t, {NewEntry(t, plan, "FAILED", at)})
           /\ Start(tl, t, plan).active = t /\ RejectEntry(tl, t, plan, at).active = tl.active
           /\ NewEntry(t, plan, "ROUTING", 0) \in GoodEntries
           /\ NewEntry(t, plan, "FAILED", at) \in GoodEntries
<1>1. PICK e, f : e = NewEntry(t, plan, "ROUTING", 0) /\ f = NewEntry(t, plan, "FAILED", at)
  OBVIOUS
<1>2. "ROUTING" \in Phases /\ "FAILED" \in Phases /\ 0 \in Nat
  BY DEF Phases, TerminalPhases
<1>3. /\ e \in EntryType /\ e.id = t /\ e.phase = "ROUTING" /\ e.at = 0 /\ e.why = "" /\ e.recorded = FALSE
      /\ f \in EntryType /\ f.id = t /\ f.phase = "FAILED" /\ f.at = at
  <2>1. PICK p \in Phases, q \in Phases, z \in Nat : p = "ROUTING" /\ q = "FAILED" /\ z = 0
    BY <1>2
  <2>2. at \in Nat
    OBVIOUS
  <2>3. e = NewEntry(t, plan, p, z) /\ f = NewEntry(t, plan, q, at)
    BY <1>1, <2>1
  <2>4. IsNew(e, t, plan, p, z) /\ IsNew(f, t, plan, q, at)
    BY <2>2, <2>3, NewEntryFacts, Zenon
  <2> QED BY <2>1, <2>4 DEF IsNew
<1>4. e \in GoodEntries /\ f \in GoodEntries /\ ~Ended(e) /\ Ended(f)
  BY <1>3 DEF GoodEntries, Ended, TerminalPhases
<1>5. PICK a, es : tl = [active |-> a, entries |-> es] /\ tl.active = a /\ tl.entries = es
  BY DEF TimelineOK
<1>6. PICK r : r = RejectEntry(tl, t, plan, at)
  OBVIOUS
<1>7. r = [active |-> a, entries |-> TakeLast(Append(es, f))]
  BY <1>1, <1>5, <1>6 DEF RejectEntry
<1>8. Changes(tl, r, t, {f}) /\ r.active = tl.active
  BY <1>3, <1>4, <1>5, <1>7, AddedFacts
<1>9. PICK s : s = Start(tl, t, plan)
  OBVIOUS
<1>10. s = [active |-> t, entries |-> TakeLast(Append(es, e))]
  BY <1>1, <1>5, <1>9 DEF Start
<1>11. (tl.active = NoTask => Changes(tl, s, t, {e})) /\ s.active = t
  BY <1>3, <1>4, <1>5, <1>10, AddedFacts
<1> QED BY <1>1, <1>4, <1>6, <1>8, <1>9, <1>11

(* A change into one of G is a change into one of more. *)
LEMMA ChangesWider ==
    ASSUME NEW tl, NEW tm, NEW t, NEW G, NEW H, Changes(tl, tm, t, G), G \subseteq H
    PROVE  Changes(tl, tm, t, H)
BY DEF Changes

(* The entry g is the draft x with its end stamped. *)
Like(x, g) ==
    /\ g \in GoodEntries /\ g.id = x.id /\ g.plan = x.plan /\ g.phase = x.phase /\ g.why = x.why
    /\ g.granted = x.granted /\ g.recorded = FALSE

(* Every update of the active entry. *)
LEMMA UpdateFacts ==
    ASSUME NEW tl, TimelineOK(tl), NEW t \in Tasks, t = tl.active, NEW x, NEW at \in Nat \ {0},
           Shown(tl, t) => Draft(x) /\ x.id = t, NEW H,
           \A g : Shown(tl, t) /\ Like(x, g) => g \in H
    PROVE  /\ Changes(tl, Replace(tl, t, x, at), t, H)
           /\ Replace(tl, t, x, at).active = IF Shown(tl, t) /\ ~Ended(x) THEN t ELSE NoTask
<1>1. PICK tm, s : tm = Replace(tl, t, x, at) /\ s = WithTerminalTimestamp(x, at)
  OBVIOUS
<1>2. /\ Changes(tl, tm, t, {q \in {s} : Shown(tl, t)})
      /\ tm.active = IF Shown(tl, t) /\ ~Ended(x) THEN t ELSE NoTask
  BY <1>1, ReplaceFacts
<1>3. Shown(tl, t) => Like(x, s)
  BY <1>1, StampFacts DEF Like
<1>4. {q \in {s} : Shown(tl, t)} \subseteq H
  BY <1>3
<1> QED BY <1>1, <1>2, <1>4, ChangesWider

(* What events of S make of the entry of t. *)
ByEvents(e, g, S) ==
    /\ g \in GoodEntries /\ g.id = e.id /\ g.plan = e.plan /\ g.granted = e.granted /\ g.recorded = FALSE
    /\ PhaseFrom(e, g.phase, g.why, S)
FromEvents(tl, t, S) ==
    {g \in GoodEntries : \E i \in DOMAIN tl.entries : tl.entries[i].id = t /\ ByEvents(tl.entries[i], g, S)}

(* An event. *)
LEMMA OneEvent ==
    ASSUME NEW tl, TimelineOK(tl), NEW t \in Tasks, t = tl.active, NEW S, NEW ev \in S, ev \in Emitted,
           NEW at \in Nat \ {0}
    PROVE  /\ Changes(tl, ApplyEvent(tl, t, ev, at), t, FromEvents(tl, t, S))
           /\ ApplyEvent(tl, t, ev, at).active \in {t, NoTask}
<1>1. PICK e, x : e = EntryOf(tl, t) /\ x = Applied(e, ev)
  OBVIOUS
<1>2. ApplyEvent(tl, t, ev, at) = Replace(tl, t, x, at)
  BY <1>1 DEF ApplyEvent, Applied
<1>3. ASSUME Shown(tl, t)
      PROVE  Draft(x) /\ x.id = t /\ \A g : Like(x, g) => g \in FromEvents(tl, t, S)
  <2>0. IsEntryOf(e, tl, t)
    BY <1>1, <1>3, EntryOfFacts
  <2>1. PICK i \in DOMAIN tl.entries : e = tl.entries[i]
    BY <2>0 DEF IsEntryOf
  <2>2. e \in GoodEntries /\ e.id = t /\ ~Ended(e)
    BY <2>0 DEF IsEntryOf
  <2>3. PICK phase, why : Redone(e, x, phase, why) /\ PhaseFrom(e, phase, why, S)
    BY <1>1, <2>2, AppliedFacts
  <2>4. Draft(x)
    BY <2>2, <2>3, RedoneIsDraft DEF PhaseFrom
  <2>5. ASSUME NEW g, Like(x, g) PROVE g \in FromEvents(tl, t, S)
    <3>1. g.phase = phase /\ g.why = why /\ g.id = e.id /\ g.plan = e.plan /\ g.granted = e.granted
          /\ g.recorded = FALSE /\ g \in GoodEntries
      BY <2>3, <2>5 DEF Like, Redone
    <3>2. ByEvents(e, g, S)
      BY <2>3, <3>1 DEF ByEvents
    <3> QED BY <2>1, <2>2, <3>1, <3>2 DEF FromEvents
  <2> QED BY <2>2, <2>3, <2>4, <2>5 DEF Redone
<1>4. /\ Changes(tl, Replace(tl, t, x, at), t, FromEvents(tl, t, S))
      /\ Replace(tl, t, x, at).active = IF Shown(tl, t) /\ ~Ended(x) THEN t ELSE NoTask
  BY <1>3, UpdateFacts
<1> QED BY <1>2, <1>4

(* Events after events. *)
LEMMA EventsCompose ==
    ASSUME NEW a, TimelineOK(a), NEW t \in Tasks, a.active = t, NEW b, b.active = t, NEW S,
           Changes(a, b, t, FromEvents(a, t, S))
    PROVE  FromEvents(b, t, S) \subseteq FromEvents(a, t, S)
<1> SUFFICES ASSUME NEW h \in FromEvents(b, t, S) PROVE h \in FromEvents(a, t, S)
  OBVIOUS
<1>1. PICK j \in DOMAIN b.entries : b.entries[j].id = t /\ ByEvents(b.entries[j], h, S)
  BY DEF FromEvents
<1>2. PICK g : g = b.entries[j]
  OBVIOUS
<1>3. g \in FromEvents(a, t, S) /\ ~Ended(g) /\ ByEvents(g, h, S)
  BY <1>1, <1>2 DEF Changes, TimelineOK
<1>4. PICK i \in DOMAIN a.entries : a.entries[i].id = t /\ ByEvents(a.entries[i], g, S)
  BY <1>3 DEF FromEvents
<1>5. PICK e : e = a.entries[i]
  OBVIOUS
<1>6. PhaseFrom(e, g.phase, g.why, S) /\ PhaseFrom(g, h.phase, h.why, S) /\ g.phase \notin TerminalPhases
  BY <1>3, <1>4, <1>5 DEF ByEvents, Ended
<1>7. PhaseFrom(e, h.phase, h.why, S)
  BY <1>6 DEF PhaseFrom
<1>8. ByEvents(e, h, S)
  BY <1>3, <1>4, <1>5, <1>7 DEF ByEvents
<1> QED BY <1>4, <1>5, <1>8 DEF ByEvents, FromEvents

(* An entry that has not ended is what no events make of it. *)
LEMMA NoEvents ==
    ASSUME NEW tl, TimelineOK(tl), NEW t \in Tasks, t = tl.active, NEW S
    PROVE  Changes(tl, tl, t, FromEvents(tl, t, S))
<1> SUFFICES ASSUME NEW i \in DOMAIN tl.entries, tl.entries[i].id = t
             PROVE  tl.entries[i] \in FromEvents(tl, t, S)
  BY DEF Changes
<1>1. PICK e : e = tl.entries[i]
  OBVIOUS
<1>2. e \in GoodEntries /\ ~Ended(e)
  BY <1>1 DEF TimelineOK
<1>3. e.why = "" /\ e.recorded = FALSE /\ e.phase \notin TerminalPhases
  BY <1>2, ActiveEntry DEF Ended
<1>4. PhaseFrom(e, e.phase, e.why, S)
  BY <1>3 DEF PhaseFrom, TerminalPhases
<1>5. ByEvents(e, e, S)
  BY <1>2, <1>3, <1>4 DEF ByEvents
<1> QED BY <1>1, <1>2, <1>5 DEF FromEvents

-----------------------------------------------------------------------------
(* Events and the view model.                                              *)

(* Events of S about the active task t lead from u to v. *)
RunsTo(u, v, t, S) ==
    /\ SameOwners(u, v) /\ v.card = NoTask /\ v.tl.active \in {t, NoTask}
    /\ Changes(u.tl, v.tl, t, FromEvents(u.tl, t, S))

(* One more event. *)
LEMMA OneMoreEvent ==
    ASSUME NEW u, TimelineOK(u.tl), NEW t \in Tasks, u.tl.active = t, NEW S, NEW v, RunsTo(u, v, t, S),
           NEW ev \in S, ev \in Emitted, NEW at \in Nat \ {0}
    PROVE  RunsTo(u, ApplyTaskEvent(v, t, ev, at), t, S)
<1>1. CASE v.tl.active # t
  <2>1. ApplyTaskEvent(v, t, ev, at) = v
    BY <1>1 DEF ApplyTaskEvent
  <2> QED BY <2>1
<1>2. CASE v.tl.active = t
  <2>1. PICK tm, card : tm = ApplyEvent(v.tl, t, ev, at) /\ card = IF tm.active = t THEN v.card ELSE NoTask
    OBVIOUS
  <2>2. PICK w : w = ApplyTaskEvent(v, t, ev, at)
    OBVIOUS
  <2>3. w = [v EXCEPT !.tl = tm, !.card = card]
    BY <1>2, <2>1, <2>2 DEF ApplyTaskEvent
  <2>4. IsUi(v) /\ card = NoTask
    BY <2>1 DEF RunsTo, SameOwners
  <2>5. w.tl = tm /\ w.card = NoTask
    <3>1. PICK a, b, p, j : v = [tl |-> a, card |-> b, pending |-> p, job |-> j]
      BY <2>4 DEF IsUi
    <3>2. w = [tl |-> tm, card |-> card, pending |-> p, job |-> j]
      BY <2>3, <3>1
    <3> QED BY <2>4, <3>2
  <2>6. SameOwners(v, w)
    BY <2>2, <2>4, OneEventKeepsOwners
  <2>7. TimelineOK(v.tl) /\ Changes(u.tl, v.tl, t, FromEvents(u.tl, t, S))
    BY DEF RunsTo, Changes
  <2>8. Changes(v.tl, tm, t, FromEvents(v.tl, t, S)) /\ tm.active \in {t, NoTask}
    BY <1>2, <2>1, <2>7, OneEvent
  <2>9. FromEvents(v.tl, t, S) \subseteq FromEvents(u.tl, t, S)
    BY <1>2, <2>7, EventsCompose
  <2>10. Changes(u.tl, tm, t, FromEvents(u.tl, t, S))
    BY <2>7, <2>8, <2>9, ChangesWider, ChangesCompose
  <2> QED BY <2>2, <2>5, <2>6, <2>8, <2>10 DEF RunsTo, SameOwners
<1> QED BY <1>1, <1>2

(* A sequence of events about the active task. *)
LEMMA EventSequence ==
    ASSUME NEW u, IsUi(u), u.card = NoTask, TimelineOK(u.tl), NEW t \in Tasks, u.tl.active = t,
           NEW S, NEW events \in Seq(S), S \subseteq Emitted, NEW at \in Nat \ {0},
           NEW v \in ApplyTaskEvents(u, t, events, at)
    PROVE  RunsTo(u, v, t, S)
<1>1. PICK s, l : s = StatesAfter(u, t, events, at) /\ l = Len(events)
  OBVIOUS
<1>2. l \in Nat /\ Len(events) \in Nat
  BY <1>1, LenProperties
<1>3. s[0] = {u} /\ \A n \in 1 .. l : s[n] = NextStates(s[n - 1], t, events[n], at)
  BY <1>1, <1>2, AfterFacts
<1>4. PICK G : G = [n \in 0 .. l |-> {w \in s[n] : RunsTo(u, w, t, S)}]
  OBVIOUS
<1>5. u \in G[0]
  <2>1. RunsTo(u, u, t, S)
    BY NoEvents DEF RunsTo, SameOwners
  <2> QED BY <1>2, <1>3, <1>4, <2>1
<1>6. ASSUME NEW n \in 1 .. l, NEW w \in G[n - 1]
      PROVE  ApplyTaskEvent(w, t, events[n], at) \in G[n]
  <2>1. n \in 0 .. l /\ n - 1 \in 0 .. l
    BY <1>2
  <2>2. w \in s[n - 1] /\ RunsTo(u, w, t, S)
    BY <1>4, <2>1
  <2>3. events[n] \in S
    BY <1>1, ElementOfSeq
  <2>4. RunsTo(u, ApplyTaskEvent(w, t, events[n], at), t, S)
    BY <2>2, <2>3, OneMoreEvent
  <2>5. ApplyTaskEvent(w, t, events[n], at) \in s[n]
    BY <1>3, <2>2 DEF NextStates
  <2> QED BY <1>4, <2>1, <2>4, <2>5
<1>7. ApplyTaskEvents(u, t, events, at) \subseteq G[l]
  BY <1>1, <1>2, <1>5, <1>6, EventInduction
<1>8. l \in 0 .. l
  BY <1>2
<1>9. G[l] = {w \in s[l] : RunsTo(u, w, t, S)}
  BY <1>4, <1>8
<1>10. v \in G[l]
  BY <1>7
<1> QED BY <1>9, <1>10

(* The events of a task that is not active are dropped. *)
LEMMA LateEvents ==
    ASSUME NEW u, NEW t, u.tl.active # t, NEW S, NEW events \in Seq(S), NEW at,
           NEW v \in ApplyTaskEvents(u, t, events, at)
    PROVE  v = u
<1>1. Len(events) \in Nat
  BY LenProperties
<1>2. PICK G : G = [n \in 0 .. Len(events) |-> {u}]
  OBVIOUS
<1>3. u \in G[0]
  BY <1>1, <1>2
<1>4. ASSUME NEW n \in 1 .. Len(events), NEW w \in G[n - 1]
      PROVE  ApplyTaskEvent(w, t, events[n], at) \in G[n]
  <2>1. w = u /\ G[n] = {u}
    BY <1>1, <1>2
  <2> QED BY <2>1 DEF ApplyTaskEvent
<1>5. ApplyTaskEvents(u, t, events, at) \subseteq G[Len(events)]
  BY <1>1, <1>3, <1>4, EventInduction
<1> QED BY <1>1, <1>2, <1>5

-----------------------------------------------------------------------------
(* Approvals and cancellation.                                             *)

(* What the entry of t is when its phase has changed. *)
Became(tl, t, phase, why) ==
    {g \in GoodEntries : \E i \in DOMAIN tl.entries :
        /\ tl.entries[i].id = t /\ g.id = t /\ g.plan = tl.entries[i].plan
        /\ g.granted = tl.entries[i].granted /\ g.recorded = FALSE /\ g.phase = phase /\ g.why = why}

(* The phase of the active entry changes. *)
LEMMA PhaseChange ==
    ASSUME NEW tl, TimelineOK(tl), NEW t \in Tasks, t = tl.active, NEW x, NEW at \in Nat \ {0},
           NEW phase \in Phases, NEW why \in Reasons, phase \notin TerminalPhases => why = "",
           Shown(tl, t) => Redone(EntryOf(tl, t), x, phase, why)
    PROVE  /\ Changes(tl, Replace(tl, t, x, at), t, Became(tl, t, phase, why))
           /\ Replace(tl, t, x, at).active =
                IF Shown(tl, t) /\ phase \notin TerminalPhases THEN t ELSE NoTask
<1>1. ASSUME Shown(tl, t)
      PROVE  /\ Draft(x) /\ x.id = t /\ (Ended(x) <=> phase \in TerminalPhases)
             /\ \A g : Like(x, g) => g \in Became(tl, t, phase, why)
  <2>1. PICK e : e = EntryOf(tl, t)
    OBVIOUS
  <2>0. IsEntryOf(e, tl, t)
    BY <1>1, <2>1, EntryOfFacts
  <2>2. PICK i \in DOMAIN tl.entries : e = tl.entries[i]
    BY <2>0 DEF IsEntryOf
  <2>3. e \in GoodEntries /\ e.id = t /\ ~Ended(e) /\ Redone(e, x, phase, why)
    BY <1>1, <2>0, <2>1 DEF IsEntryOf
  <2>4. Draft(x)
    BY <2>3, RedoneIsDraft
  <2>5. ASSUME NEW g, Like(x, g) PROVE g \in Became(tl, t, phase, why)
    BY <2>2, <2>3, <2>5 DEF Like, Redone, Became
  <2>6. x.id = t /\ x.phase = phase
    BY <2>3 DEF Redone
  <2> QED BY <2>4, <2>5, <2>6 DEF Ended
<1> QED BY <1>1, UpdateFacts

(* An entry whose approval may be asked for. *)
Requested(e) == e.phase = "ROUTING" /\ e.plan.permission = "CONFIRM" /\ ~e.granted

(* awaitApproval of a task that has just been started. *)
LEMMA AwaitFacts ==
    ASSUME NEW tl, TimelineOK(tl), NEW t \in Tasks, t = tl.active, NEW at \in Nat \ {0}, Shown(tl, t),
           NEW e, e = EntryOf(tl, t), Requested(e)
    PROVE  /\ Changes(tl, AwaitApproval(tl, t, at), t, Became(tl, t, "AWAITING_APPROVAL", ""))
           /\ AwaitApproval(tl, t, at).active = t
<1>1. PICK x, p, w : x = [e EXCEPT !.phase = p] /\ p = "AWAITING_APPROVAL" /\ w = ""
  OBVIOUS
<1>2. AwaitApproval(tl, t, at) = Replace(tl, t, x, at)
  BY <1>1 DEF AwaitApproval, Requested
<1>3. e \in GoodEntries /\ ~Ended(e)
  BY EntryOfFacts DEF IsEntryOf
<1>4. e \in EntryType /\ e.why = ""
  BY <1>3, ActiveEntry
<1>5. p \in Phases /\ w \in Reasons /\ p \notin TerminalPhases
  BY <1>1 DEF Phases, Reasons, TerminalPhases
<1>6. Redone(e, x, p, w)
  <2>1. 0 \in Nat
    OBVIOUS
  <2>2. Redone(e, [e EXCEPT !.phase = p], p, e.why)
    BY <1>4, <1>5, <2>1, EntryUpdates
  <2> QED BY <1>1, <1>4, <2>2
<1>7. /\ Changes(tl, Replace(tl, t, x, at), t, Became(tl, t, p, w))
      /\ Replace(tl, t, x, at).active =
           IF Shown(tl, t) /\ p \notin TerminalPhases THEN t ELSE NoTask
  BY <1>1, <1>5, <1>6, PhaseChange
<1> QED BY <1>1, <1>2, <1>5, <1>7

(* denyApproval and expireApproval of a task that waits. *)
LEMMA EndApprovalFacts ==
    ASSUME NEW tl, TimelineOK(tl), NEW t \in Tasks, t = tl.active, NEW at \in Nat \ {0},
           NEW phase \in TerminalPhases, NEW why \in Reasons,
           \A i \in DOMAIN tl.entries : tl.entries[i].id = t => tl.entries[i].phase = "AWAITING_APPROVAL"
    PROVE  /\ Changes(tl, EndApproval(tl, t, phase, why, at), t, Became(tl, t, phase, why))
           /\ EndApproval(tl, t, phase, why, at).active = NoTask
<1>1. PICK e, x : /\ e = EntryOf(tl, t)
                  /\ x = IF e.phase = "AWAITING_APPROVAL" THEN [e EXCEPT !.phase = phase, !.why = why] ELSE e
  OBVIOUS
<1>2. EndApproval(tl, t, phase, why, at) = Replace(tl, t, x, at)
  BY <1>1 DEF EndApproval
<1>3. phase \in Phases
  BY DEF Phases
<1>4. ASSUME Shown(tl, t) PROVE Redone(e, x, phase, why)
  <2>0. IsEntryOf(e, tl, t)
    BY <1>1, <1>4, EntryOfFacts
  <2>1. e \in GoodEntries /\ ~Ended(e) /\ e.phase = "AWAITING_APPROVAL"
    BY <2>0 DEF IsEntryOf
  <2>2. e \in EntryType /\ 0 \in Nat
    BY <2>1, ActiveEntry
  <2>3. Redone(e, [e EXCEPT !.phase = phase, !.why = why], phase, why)
    BY <1>3, <2>2, EntryUpdates
  <2> QED BY <1>1, <2>1, <2>3
<1>5. /\ Changes(tl, Replace(tl, t, x, at), t, Became(tl, t, phase, why))
      /\ Replace(tl, t, x, at).active =
           IF Shown(tl, t) /\ phase \notin TerminalPhases THEN t ELSE NoTask
  BY <1>1, <1>3, <1>4, PhaseChange
<1> QED BY <1>2, <1>5

(* What tl shows of t waits for an approval. *)
Waits(tl, t) == \E i \in DOMAIN tl.entries : tl.entries[i].id = t /\ tl.entries[i].phase = "AWAITING_APPROVAL"

(* cancelActive. *)
LEMMA CancelFacts ==
    ASSUME NEW tl, TimelineOK(tl), NEW t \in Tasks, t = tl.active, NEW at \in Nat \ {0},
           NEW why, why = IF Waits(tl, t) THEN "cancelled" ELSE ""
    PROVE  /\ Changes(tl, CancelActive(tl, at), t, Became(tl, t, "CANCELLED", why))
           /\ CancelActive(tl, at).active = NoTask
<1>1. PICK e, p, w, x : /\ e = EntryOf(tl, t) /\ p = "CANCELLED"
                        /\ w = IF e.phase = "AWAITING_APPROVAL" THEN "cancelled" ELSE ""
                        /\ x = [e EXCEPT !.phase = p, !.why = w]
  OBVIOUS
<1>2. CancelActive(tl, at) = Replace(tl, t, x, at)
  BY <1>1 DEF CancelActive
<1>3. p \in Phases /\ w \in Reasons /\ p \in TerminalPhases /\ 0 \in Nat
  BY <1>1 DEF Phases, Reasons, TerminalPhases
<1>4. ASSUME Shown(tl, t) PROVE Redone(e, x, p, w) /\ w = why
  <2>0. IsEntryOf(e, tl, t)
    BY <1>1, <1>4, EntryOfFacts
  <2>1. e \in GoodEntries /\ ~Ended(e) /\ e.id = t
    BY <2>0 DEF IsEntryOf
  <2>2. e \in EntryType
    BY <2>1, ActiveEntry
  <2>3. Redone(e, [e EXCEPT !.phase = p, !.why = w], p, w)
    BY <1>3, <2>2, EntryUpdates
  <2>4. PICK i \in DOMAIN tl.entries : e = tl.entries[i]
    BY <2>0 DEF IsEntryOf
  <2>5. \A k \in DOMAIN tl.entries : tl.entries[k].id = t => k = i
    BY <2>1, <2>4 DEF TimelineOK
  <2>6. Waits(tl, t) <=> e.phase = "AWAITING_APPROVAL"
    BY <2>1, <2>4, <2>5 DEF Waits
  <2> QED BY <1>1, <2>3, <2>6
<1>5. /\ Changes(tl, Replace(tl, t, x, at), t, Became(tl, t, p, w))
      /\ Replace(tl, t, x, at).active =
           IF Shown(tl, t) /\ p \notin TerminalPhases THEN t ELSE NoTask
  BY <1>1, <1>3, <1>4, PhaseChange
<1>6. Became(tl, t, p, w) \subseteq Became(tl, t, "CANCELLED", why)
  <2>1. Shown(tl, t) \/ Became(tl, t, p, w) = {}
    BY DEF Became, Shown, Indices
  <2> QED BY <1>1, <1>4, <2>1
<1> QED BY <1>2, <1>3, <1>5, <1>6, ChangesWider

(* cancelActive of a timeline without an active task. *)
LEMMA CancelIdle ==
    ASSUME NEW tl, TimelineOK(tl), tl.active = NoTask, NEW at
    PROVE  CancelActive(tl, at) = tl
<1>1. ~Shown(tl, NoTask)
  <2>1. \A i \in DOMAIN tl.entries : tl.entries[i] \in GoodEntries
    BY DEF TimelineOK
  <2>2. \A i \in DOMAIN tl.entries : tl.entries[i].id # NoTask
    BY <2>1, TimelineAssumption DEF GoodEntries, EntryType
  <2> QED BY <2>2 DEF Shown, Indices
<1>2. CancelActive(tl, at) = [tl EXCEPT !.active = NoTask]
  BY <1>1 DEF CancelActive, Replace
<1>3. PICK a, es : tl = [active |-> a, entries |-> es]
  BY DEF TimelineOK
<1> QED BY <1>2, <1>3

(* completeLocalModelObservation of the active task. *)
LEMMA ObservationFacts ==
    ASSUME NEW tl, TimelineOK(tl), NEW t \in Tasks, t = tl.active, NEW at \in Nat \ {0}
    PROVE  /\ Changes(tl, CompleteObservation(tl, t, at), t, Became(tl, t, "FAILED", ""))
           /\ CompleteObservation(tl, t, at).active = NoTask
<1>1. PICK e, p, w, x : e = EntryOf(tl, t) /\ p = "FAILED" /\ w = "" /\ x = [e EXCEPT !.phase = p]
  OBVIOUS
<1>2. CompleteObservation(tl, t, at) = Replace(tl, t, x, at)
  BY <1>1 DEF CompleteObservation, FailSequence
<1>3. p \in Phases /\ w \in Reasons /\ p \in TerminalPhases /\ 0 \in Nat
  BY <1>1 DEF Phases, Reasons, TerminalPhases
<1>4. ASSUME Shown(tl, t) PROVE Redone(e, x, p, w)
  <2>0. IsEntryOf(e, tl, t)
    BY <1>1, <1>4, EntryOfFacts
  <2>1. e \in GoodEntries /\ ~Ended(e)
    BY <2>0 DEF IsEntryOf
  <2>2. e \in EntryType /\ e.why = w
    BY <1>1, <2>1, ActiveEntry
  <2>3. Redone(e, [e EXCEPT !.phase = p], p, e.why)
    BY <1>3, <2>2, EntryUpdates
  <2> QED BY <1>1, <2>2, <2>3
<1>5. /\ Changes(tl, Replace(tl, t, x, at), t, Became(tl, t, p, w))
      /\ Replace(tl, t, x, at).active =
           IF Shown(tl, t) /\ p \notin TerminalPhases THEN t ELSE NoTask
  BY <1>1, <1>3, <1>4, PhaseChange
<1> QED BY <1>1, <1>2, <1>3, <1>5

(* What the entry of t is when its approval was granted. *)
GrantedIn(tl, t) ==
    {g \in GoodEntries : \E i \in DOMAIN tl.entries :
        /\ tl.entries[i].id = t /\ g.id = t /\ g.plan = tl.entries[i].plan
        /\ g.granted = TRUE /\ g.recorded = FALSE /\ g.phase = "ROUTING"}

(* grantApproval of a task that waits. *)
LEMMA GrantFacts ==
    ASSUME NEW tl, TimelineOK(tl), NEW t \in Tasks, t = tl.active, NEW at \in Nat \ {0},
           \A i \in DOMAIN tl.entries : tl.entries[i].id = t =>
              /\ tl.entries[i].phase = "AWAITING_APPROVAL" /\ ~tl.entries[i].granted
              /\ tl.entries[i].plan.permission = "CONFIRM"
    PROVE  /\ Changes(tl, GrantApproval(tl, t, at), t, GrantedIn(tl, t))
           /\ GrantApproval(tl, t, at).active \in {t, NoTask}
<1>1. PICK e, x : /\ e = EntryOf(tl, t)
                  /\ x = IF e.phase = "AWAITING_APPROVAL" /\ e.plan.permission = "CONFIRM" /\ ~e.granted
                         THEN [e EXCEPT !.phase = "ROUTING", !.granted = TRUE] ELSE FailSequence(e)
  OBVIOUS
<1>2. GrantApproval(tl, t, at) = Replace(tl, t, x, at)
  BY <1>1 DEF GrantApproval
<1>3. ASSUME Shown(tl, t)
      PROVE  Draft(x) /\ x.id = t /\ \A g : Like(x, g) => g \in GrantedIn(tl, t)
  <2>0. IsEntryOf(e, tl, t)
    BY <1>1, <1>3, EntryOfFacts
  <2>1. PICK i \in DOMAIN tl.entries : e = tl.entries[i]
    BY <2>0 DEF IsEntryOf
  <2>2. e \in GoodEntries /\ e.id = t /\ ~Ended(e)
    BY <2>0 DEF IsEntryOf
  <2>3. e \in EntryType /\ e.at = 0 /\ e.why = "" /\ e.recorded = FALSE
    BY <2>2, ActiveEntry
  <2>4. x = [e EXCEPT !.phase = "ROUTING", !.granted = TRUE]
    BY <1>1, <2>1, <2>2
  <2>5. "ROUTING" \in Phases
    BY DEF Phases
  <2>6. x \in EntryType
    BY <2>3, <2>4, <2>5 DEF EntryType
  <2>7. /\ x.phase = "ROUTING" /\ x.granted = TRUE /\ x.id = e.id /\ x.plan = e.plan /\ x.at = e.at
        /\ x.why = e.why /\ x.recorded = e.recorded
    BY <2>3, <2>4 DEF EntryType
  <2>8. Draft(x)
    BY <2>3, <2>6, <2>7 DEF Draft
  <2>9. ASSUME NEW g, Like(x, g) PROVE g \in GrantedIn(tl, t)
    BY <2>1, <2>2, <2>7, <2>9 DEF Like, GrantedIn
  <2> QED BY <2>2, <2>7, <2>8, <2>9
<1>4. /\ Changes(tl, Replace(tl, t, x, at), t, GrantedIn(tl, t))
      /\ Replace(tl, t, x, at).active = IF Shown(tl, t) /\ ~Ended(x) THEN t ELSE NoTask
  BY <1>3, UpdateFacts
<1> QED BY <1>2, <1>4

-----------------------------------------------------------------------------
(* The steps of the agent.                                                 *)

(* A step about task t that leaves the audit alone and makes an entry of G *)
(* of the task, which is new, or active and shown.                         *)
AgentStep(t, G) ==
    /\ Changes(ui.tl, ui'.tl, t, G) /\ UNCHANGED <<aud, rows>>
    /\ used' \in {used, used \cup {t}}
    /\ ui'.tl.active \in {ui.tl.active, NoTask} \/ (ui'.tl.active = t /\ t \in used' \ used)
    /\ \A g \in G : /\ t \in used' /\ g.recorded = FALSE /\ EntryTrue(g)'
                    /\ g.phase = "AWAITING_APPROVAL" => ui'.card = t \/ Lost(t)'
                    /\ t \notin used \/ \E i \in DOMAIN ui.tl.entries :
                          ui.tl.entries[i].id = t /\ ~Ended(ui.tl.entries[i])
    /\ \A s \in Tasks : /\ Stopped(s) => Stopped(s)'
                        /\ ran[s] = 1 => ran'[s] = 1
                        /\ FlowTrue(flow'[s], ran'[s])
    /\ ui'.card \in {ui.card, NoTask} \/ (ui'.card = t /\ t \notin used)
    /\ ui'.card # NoTask => ui'.pending = ui'.card /\ ui'.tl.active = ui'.card
    /\ ui.card \in {t, NoTask} \/ ui'.card = ui.card

(* What is true of another task's entry stays true. *)
LEMMA OthersStayTrue ==
    ASSUME HistInv, NEW t, NEW G, AgentStep(t, G), NEW e \in GoodEntries, EntryTrue(e),
           e.id \in used, e.id # t \/ (Ended(e) /\ ui.card # e.id)
    PROVE  EntryTrue(e)'
<1>1. e.id \in Tasks
  BY DEF GoodEntries, EntryType
<1>2. /\ Stopped(e.id) => Stopped(e.id)'
      /\ ran[e.id] = 1 => ran'[e.id] = 1
  BY <1>1 DEF AgentStep
<1>3. ui'.card = e.id => ui.card = e.id
  BY <1>1, TimelineAssumption DEF AgentStep
<1>4. /\ e.phase \in {"VERIFIED", "UNVERIFIED"} => ran'[e.id] = 1
      /\ Ended(e) /\ ~e.recorded /\ ApprovalOutcome(e) \in Unapproved => Stopped(e.id)'
      /\ ~Ended(e) /\ e.plan.permission = "CONFIRM" /\ ~e.granted => e.phase = "AWAITING_APPROVAL"
      /\ e.phase = "AWAITING_APPROVAL" => ~e.granted /\ e.plan.permission = "CONFIRM"
      /\ ui'.card = e.id => e.phase = "AWAITING_APPROVAL"
  BY <1>2, <1>3 DEF EntryTrue
<1> QED BY <1>4 DEF EntryTrue

(* Every entry is one of G, or one that was shown before. *)
LEMMA StepEntries ==
    ASSUME HistInv, NEW t, NEW G, AgentStep(t, G), NEW j \in DOMAIN ui'.tl.entries,
           NEW e, e = ui'.tl.entries[j]
    PROVE  /\ e \in GoodEntries
           /\ \/ e.id = t /\ e \in G
              \/ e.id # t /\ \E i \in DOMAIN ui.tl.entries : e = ui.tl.entries[i]
<1>1. TimelineOK(ui'.tl) /\ Changes(ui.tl, ui'.tl, t, G)
  BY DEF AgentStep, Changes
<1>2. e \in GoodEntries
  BY <1>1 DEF TimelineOK
<1> QED BY <1>1, <1>2 DEF Changes

(* A card that was lost stays so. *)
LostStays == \A s \in Tasks : Lost(s) => Lost(s)'

(* A step of the agent keeps the timeline and the approval card in order. *)
LEMMA AgentKeepsShown ==
    ASSUME HistInv, LostStays, NEW t, NEW G, AgentStep(t, G)
    PROVE  ShownInv' /\ ApprovalCardIsLive'
<1>1. ShownInv /\ ApprovalCardIsLive
  BY DEF HistInv
<1>2. TimelineOK(ui'.tl)
  BY DEF AgentStep, Changes
<1>3. ASSUME NEW j \in DOMAIN ui'.tl.entries
      PROVE  /\ ui'.tl.entries[j].id \in used'
             /\ ui'.tl.entries[j].phase = "AWAITING_APPROVAL" =>
                   \/ ui'.tl.entries[j].id = ui'.card
                   \/ "lost" \in decided'[ui'.tl.entries[j].id]
  <2>1. PICK e : e = ui'.tl.entries[j]
    OBVIOUS
  <2>2. CASE e.id = t /\ e \in G
    <3>1. t \in used' /\ (e.phase = "AWAITING_APPROVAL" => ui'.card = t \/ "lost" \in decided'[t])
      BY <2>2 DEF AgentStep, Lost
    <3> QED BY <2>1, <2>2, <3>1
  <2>3. CASE e.id # t /\ \E i \in DOMAIN ui.tl.entries : e = ui.tl.entries[i]
    <3>1. PICK i \in DOMAIN ui.tl.entries : e = ui.tl.entries[i]
      BY <2>3
    <3>2. e.id \in used /\ (e.phase = "AWAITING_APPROVAL" => e.id = ui.card \/ Lost(e.id))
      BY <1>1, <3>1 DEF ShownInv, ApprovalCardIsLive, Entries
    <3>3. e.id # NoTask /\ e.id \in Tasks
      <4>1. e \in GoodEntries
        BY <1>1, <3>1 DEF ShownInv, TimelineOK
      <4> QED BY <4>1, TimelineAssumption DEF GoodEntries, EntryType
    <3>4. e.id \in used' /\ (e.id = ui.card => e.id = ui'.card) /\ (Lost(e.id) => "lost" \in decided'[e.id])
      BY <2>3, <3>2, <3>3 DEF AgentStep, LostStays, Lost
    <3> QED BY <2>1, <3>2, <3>4
  <2> QED BY <2>1, <2>2, <2>3, StepEntries
<1>4. ui'.tl.active \in used' \cup {NoTask}
  BY <1>1 DEF AgentStep, ShownInv
<1>5. ShownInv'
  BY <1>2, <1>3, <1>4 DEF ShownInv
<1>6. ui'.card # NoTask => ui'.pending = ui'.card /\ ui'.tl.active = ui'.card
  BY DEF AgentStep
<1>7. ASSUME NEW j \in DOMAIN ui'.tl.entries, ui'.tl.entries[j].phase = "AWAITING_APPROVAL"
      PROVE  ui'.tl.entries[j].id = ui'.tl.active
  BY <1>2, <1>7 DEF TimelineOK, Ended, TerminalPhases
<1>8. ApprovalCardIsLive'
  BY <1>3, <1>6, <1>7 DEF ApprovalCardIsLive, Entries, Lost
<1> QED BY <1>5, <1>8

(* A step of the agent keeps flows, entries and rows true. *)
LEMMA AgentKeepsTruth ==
    ASSUME HistInv, NEW t, NEW G, AgentStep(t, G)
    PROVE  TruthInv'
<1>1. TruthInv /\ ShownInv /\ QueueInv /\ TableInv /\ ApprovalCardIsLive
  BY DEF HistInv
<1>2. \A s \in Tasks : FlowTrue(flow[s], ran[s])'
  BY DEF AgentStep
<1>3. ASSUME NEW j \in DOMAIN ui'.tl.entries PROVE EntryTrue(ui.tl.entries[j])'
  <2>1. PICK e : e = ui'.tl.entries[j]
    OBVIOUS
  <2>2. EntryTrue(e)'
    <3>1. CASE e.id = t /\ e \in G
      BY <3>1 DEF AgentStep
    <3>2. CASE e.id # t /\ \E i \in DOMAIN ui.tl.entries : e = ui.tl.entries[i]
      <4>1. e \in GoodEntries /\ EntryTrue(e) /\ e.id \in used
        BY <1>1, <3>2 DEF TruthInv, ShownInv, TimelineOK
      <4> QED BY <3>2, <4>1, OthersStayTrue
    <3> QED BY <2>1, <3>1, <3>2, StepEntries
  <2> QED BY <2>1, <2>2
<1>4. ASSUME NEW k \in DOMAIN aud.queue PROVE EntryTrue(aud.queue[k])'
  <2>1. PICK q : q = aud.queue[k]
    OBVIOUS
  <2>2. q \in GoodEntries /\ EntryTrue(q) /\ q.id \in used /\ Ended(q)
    BY <1>1, <2>1 DEF QueueInv, TruthInv
  <2>3. ui.card # q.id
    BY <2>2 DEF EntryTrue, Ended, TerminalPhases
  <2>4. EntryTrue(q)'
    BY <2>2, <2>3, OthersStayTrue
  <2>5. aud' = aud
    BY DEF AgentStep
  <2> QED BY <2>1, <2>4, <2>5
<1>5. ASSUME NEW r \in rows PROVE RowTrue(r)'
  <2>1. RowTrue(r) /\ r.id \in Tasks
    BY <1>1 DEF TruthInv, TableInv, RowType
  <2>2. (Stopped(r.id) => Stopped(r.id)') /\ (ran[r.id] = 1 => ran'[r.id] = 1)
    BY <2>1 DEF AgentStep
  <2> QED BY <2>1, <2>2 DEF RowTrue
<1>6. aud' = aud /\ rows' = rows
  BY DEF AgentStep
<1> QED BY <1>2, <1>3, <1>4, <1>5, <1>6 DEF TruthInv

(* A step of the agent keeps the table and the queue in agreement with     *)
(* what is shown.                                                          *)
LEMMA AgentKeepsAudit ==
    ASSUME HistInv, NEW t, NEW G, AgentStep(t, G)
    PROVE  TableInv' /\ QueueInv'
<1>1. ShownInv /\ QueueInv /\ TableInv
  BY DEF HistInv
<1>2. aud' = aud /\ rows' = rows /\ used \subseteq used'
  BY DEF AgentStep
<1>3. ASSUME NEW g \in G
      PROVE  /\ g.recorded = FALSE /\ \A r \in rows : r.id # t
             /\ \A k \in DOMAIN aud.queue : aud.queue[k].id # t
  <2>1. g.recorded = FALSE
    BY DEF AgentStep
  <2>2. CASE t \notin used
    BY <1>1, <2>1, <2>2 DEF TableInv, QueueInv
  <2>3. CASE \E i \in DOMAIN ui.tl.entries : ui.tl.entries[i].id = t /\ ~Ended(ui.tl.entries[i])
    BY <1>1, <2>1, <2>3 DEF TableInv, QueueInv, Agree
  <2> QED BY <2>2, <2>3 DEF AgentStep
<1>4. ASSUME NEW j \in DOMAIN ui'.tl.entries, NEW e, e = ui'.tl.entries[j]
      PROVE  /\ e.recorded => e.id \in aud.tried
             /\ \A r \in rows : r.id = e.id => e.id \in aud.tried /\ Agree(r, e)
             /\ \A k \in DOMAIN aud.queue : aud.queue[k].id = e.id => Agree(aud.queue[k], e)
  <2>1. CASE e.id = t /\ e \in G
    BY <1>3, <2>1
  <2>2. CASE e.id # t /\ \E i \in DOMAIN ui.tl.entries : e = ui.tl.entries[i]
    <3>1. PICK i \in DOMAIN ui.tl.entries : e = ui.tl.entries[i]
      BY <2>2
    <3> QED BY <1>1, <3>1 DEF TableInv, QueueInv
  <2> QED BY <1>4, <2>1, <2>2, StepEntries
<1>5. \A s \in used : s # ui.tl.active => s # ui'.tl.active \/ s = NoTask
  BY DEF AgentStep
<1>6. /\ \A r \in rows : r.id \in used' /\ r.id # ui'.tl.active
      /\ \A k \in DOMAIN aud.queue : aud.queue[k].id \in used' /\ aud.queue[k].id # ui'.tl.active
  <2>1. \A r \in rows : r.id # NoTask
    BY <1>1, TimelineAssumption DEF TableInv, RowType
  <2>2. \A k \in DOMAIN aud.queue : aud.queue[k].id # NoTask
    <3>1. \A k \in DOMAIN aud.queue : aud.queue[k] \in GoodEntries
      BY <1>1 DEF QueueInv
    <3> QED BY <3>1, TimelineAssumption DEF GoodEntries, EntryType
  <2>3. \A r \in rows : r.id \in used /\ r.id # ui.tl.active
    BY <1>1 DEF TableInv
  <2>4. \A k \in DOMAIN aud.queue : aud.queue[k].id \in used /\ aud.queue[k].id # ui.tl.active
    BY <1>1 DEF QueueInv
  <2> QED BY <1>2, <1>5, <2>1, <2>2, <2>3, <2>4
<1>7. TableInv'
  BY <1>1, <1>2, <1>4, <1>6 DEF TableInv
<1>8. QueueInv'
  BY <1>1, <1>2, <1>4, <1>6 DEF QueueInv
<1> QED BY <1>7, <1>8

(* The agent's steps keep the history true. *)
LEMMA AgentSteps ==
    ASSUME HistInv, LostStays, NEW t, NEW G, AgentStep(t, G)
    PROVE  HistInv'
BY AgentKeepsShown, AgentKeepsTruth, AgentKeepsAudit DEF HistInv

-----------------------------------------------------------------------------
(* What flows emit is true.                                                *)

(* What the operations on sequences add. *)
LEMMA HasFacts ==
    /\ \A x : ~Has(<<>>, x)
    /\ \A S : \A s \in Seq(S) : \A y \in S : \A x : Has(Append(s, y), x) => Has(s, x) \/ x = y
    /\ \A S : \A s, u \in Seq(S) : \A x : Has(s \o u, x) => Has(s, x) \/ Has(u, x)
    /\ \A S : \A s \in Seq(S) : \A x : s # <<>> /\ Has(Tail(s), x) => Has(s, x)
<1>1. \A x : ~Has(<<>>, x)
  BY DEF Has
<1>2. ASSUME NEW S, NEW s \in Seq(S), NEW y \in S, NEW x, Has(Append(s, y), x)
      PROVE  Has(s, x) \/ x = y
  <2>1. PICK q : q = Append(s, y)
    OBVIOUS
  <2>2. q \in Seq(S) /\ Len(q) = Len(s) + 1 /\ q[Len(s) + 1] = y /\ \A i \in 1 .. Len(s) : q[i] = s[i]
    BY <2>1, AppendProperties
  <2>3. PICK i \in 1 .. Len(q) : q[i] = x
    BY <1>2, <2>1, <2>2, LenProperties DEF Has
  <2>4. Len(s) \in Nat /\ DOMAIN s = 1 .. Len(s)
    BY LenProperties
  <2> QED BY <2>2, <2>3, <2>4 DEF Has
<1>3. ASSUME NEW S, NEW s \in Seq(S), NEW u \in Seq(S), NEW x, Has(s \o u, x)
      PROVE  Has(s, x) \/ Has(u, x)
  <2>1. PICK q : q = s \o u
    OBVIOUS
  <2>2. /\ q \in Seq(S) /\ Len(q) = Len(s) + Len(u)
        /\ \A i \in 1 .. Len(s) + Len(u) : q[i] = IF i <= Len(s) THEN s[i] ELSE u[i - Len(s)]
    BY <2>1, ConcatProperties
  <2>3. PICK i \in 1 .. Len(q) : q[i] = x
    BY <1>3, <2>1, <2>2, LenProperties DEF Has
  <2>4. Len(s) \in Nat /\ DOMAIN s = 1 .. Len(s) /\ Len(u) \in Nat /\ DOMAIN u = 1 .. Len(u)
    BY LenProperties
  <2>5. IF i <= Len(s) THEN i \in DOMAIN s /\ s[i] = x
        ELSE i - Len(s) \in DOMAIN u /\ u[i - Len(s)] = x
    BY <2>2, <2>3, <2>4
  <2> QED BY <2>5 DEF Has
<1>4. ASSUME NEW S, NEW s \in Seq(S), NEW x, s # <<>>, Has(Tail(s), x)
      PROVE  Has(s, x)
  <2>1. PICK q : q = Tail(s)
    OBVIOUS
  <2>2. q \in Seq(S) /\ Len(q) = Len(s) - 1 /\ \A i \in 1 .. Len(q) : q[i] = s[i + 1]
    BY <1>4, <2>1, HeadTailProperties
  <2>3. PICK i \in 1 .. Len(q) : q[i] = x
    BY <1>4, <2>1, <2>2, LenProperties DEF Has
  <2>4. Len(s) \in Nat /\ DOMAIN s = 1 .. Len(s)
    BY LenProperties
  <2>5. i + 1 \in DOMAIN s /\ s[i + 1] = x
    BY <2>2, <2>3, <2>4
  <2> QED BY <2>5 DEF Has
<1> QED BY <1>1, <1>2, <1>3, <1>4

(* A flow goes on: what it emits stays true, and it stays still. *)
GoesOn(f, r, g, q) == FlowTrue(g, q) /\ (Still(f, r) => Still(g, q)) /\ (r = 1 => q = 1)

(* The events that g has beyond those of f are in N. *)
Adds(f, g, N) ==
    \A x : Has(g.chan, x) \/ Has(g.net, x) => Has(f.chan, x) \/ Has(f.net, x) \/ x \in N

(* A step that starts no tool. *)
LEMMA GoesOnQuietly ==
    ASSUME NEW f, NEW r, FlowTrue(f, r), NEW g, NEW N, Adds(f, g, N),
           Verification \in N \/ Unverified \in N \/ g.pc = "ran" => r = 1,
           Still(f, r) \/ Error("expired") \in N \/ (g.pc = "closing" /\ g.outcome = "expired") => Still(g, r)
    PROVE  GoesOn(f, r, g, r)
<1>1. \A v \in {Verification, Unverified} : Has(g.chan, v) \/ Has(g.net, v) => r = 1
  BY DEF FlowTrue, Adds
<1>2. Has(g.chan, Error("expired")) \/ Has(g.net, Error("expired")) => Still(g, r)
  BY DEF FlowTrue, Adds
<1> QED BY <1>1, <1>2 DEF FlowTrue, GoesOn

(* A step that starts the tool, of a flow that had not ended. *)
LEMMA GoesOnRunning ==
    ASSUME NEW f, NEW r, FlowTrue(f, r), ~Still(f, r), NEW g, NEW N, Adds(f, g, N),
           Error("expired") \notin N, g.pc = "closing" => f.pc = "closing" /\ g.outcome = f.outcome
    PROVE  GoesOn(f, r, g, 1)
BY DEF FlowTrue, Adds, GoesOn

(* The kinds of events differ. *)
LEMMA EventsDiffer ==
    /\ \A c : Error(c) # Verification /\ Error(c) # Unverified
    /\ Error("failed") # Error("expired")
    /\ \A v \in {Verification, Unverified, Error("expired")} :
         /\ v # Ready /\ v # ToolResult /\ \A n : v # Starting(n) /\ \A s : v # Progress(s, n)
    /\ Verification # Unverified
<1>1. \A c : Error(c).kind = "error"
  BY DEF Error
<1>2. Verification.kind = "verification" /\ Unverified.kind = "unverified" /\ Ready.kind = "ready"
      /\ ToolResult.kind = "result"
  BY DEF Verification, Unverified, Ready, ToolResult
<1>3. (\A n : Starting(n).kind = "starting") /\ \A s, n : Progress(s, n).kind = "progress"
  BY DEF Starting, Progress
<1>4. Error("failed").code = "failed" /\ Error("expired").code = "expired"
  BY DEF Error
<1> QED BY <1>1, <1>2, <1>3, <1>4

(* The fields of a flow that is over. *)
LEMMA DoneFields ==
    ASSUME NEW f, NEW r, FlowOK(f, r), NEW ev \in Emitted
    PROVE  /\ Done(f).pc = "done" /\ Done(f).up = f.up /\ Done(f).net = <<>> /\ Done(f).chan = f.chan
           /\ Gone(f).pc = "gone" /\ Gone(f).up = f.up /\ Gone(f).net = <<>> /\ Gone(f).chan = <<>>
           /\ Done(Emit(f, ev)).pc = "done" /\ Done(Emit(f, ev)).up = f.up
           /\ Done(Emit(f, ev)).net = <<>> /\ Done(Emit(f, ev)).chan = Append(f.chan, ev)
<1>1. \A h : /\ Done(h).pc = "done" /\ Done(h).up = h.up /\ Done(h).net = <<>> /\ Done(h).chan = h.chan
             /\ Gone(h).pc = "gone" /\ Gone(h).up = h.up /\ Gone(h).net = <<>> /\ Gone(h).chan = <<>>
  BY DEF Done, Gone, NoFlow
<1>2. Emit(f, ev).up = f.up /\ Emit(f, ev).chan = Append(f.chan, ev)
  BY EmitOK
<1> QED BY <1>1, <1>2

(* A flow that ends keeps its word. *)
LEMMA EndTrue ==
    ASSUME NEW f, NEW r, FlowOK(f, r), FlowTrue(f, r)
    PROVE  GoesOn(f, r, Done(f), r) /\ GoesOn(f, r, Gone(f), r)
<1>1. PICK d, g : d = Done(f) /\ g = Gone(f)
  OBVIOUS
<1>2. /\ d.pc = "done" /\ d.up = f.up /\ d.net = <<>> /\ d.chan = f.chan
      /\ g.pc = "gone" /\ g.up = f.up /\ g.net = <<>> /\ g.chan = <<>>
  BY <1>1, DoneFields, ErrorsAreEmitted
<1>3. Adds(f, d, {}) /\ Adds(f, g, {})
  BY <1>2, HasFacts DEF Adds
<1>4. <<>> \in Seq(Answers)
  BY EmptySeq
<1>5. Still(f, r) => Still(d, r) /\ Still(g, r)
  BY <1>2, <1>4 DEF Still
<1> QED BY <1>1, <1>2, <1>3, <1>5, GoesOnQuietly

(* A flow ends with an error. *)
LEMMA EndsWith ==
    ASSUME NEW f, NEW r, FlowOK(f, r), FlowTrue(f, r), NEW code \in {"failed", "expired"},
           code = "expired" => r = 0 /\ f.up = "none"
    PROVE  GoesOn(f, r, Done(Emit(f, Error(code))), r)
<1>1. PICK ev, d : ev = Error(code) /\ d = Done(Emit(f, ev))
  OBVIOUS
<1>2. ev \in Emitted
  BY <1>1, ErrorsAreEmitted
<1>3. d.pc = "done" /\ d.up = f.up /\ d.net = <<>> /\ d.chan = Append(f.chan, ev)
  BY <1>1, <1>2, DoneFields
<1>4. f.chan \in Seq(Emitted)
  BY DEF FlowOK, FlowType
<1>5. Adds(f, d, {ev})
  <2>1. \A x : Has(Append(f.chan, ev), x) => Has(f.chan, x) \/ x = ev
    BY <1>2, <1>4, HasFacts
  <2> QED BY <1>3, <2>1, HasFacts DEF Adds
<1>6. <<>> \in Seq(Answers)
  BY EmptySeq
<1>7. Still(f, r) \/ code = "expired" => Still(d, r)
  BY <1>3, <1>6 DEF Still
<1>8. Error("expired") \in {ev} => code = "expired"
  BY <1>1, EventsDiffer
<1>9. Verification \notin {ev} /\ Unverified \notin {ev}
  BY <1>1, EventsDiffer
<1>10. GoesOn(f, r, d, r)
  BY <1>3, <1>5, <1>7, <1>8, <1>9, GoesOnQuietly
<1> QED BY <1>1, <1>10

(* An attempt ends. *)
LEMMA FinishTrue ==
    ASSUME NEW f, NEW r, FlowOK(f, r), FlowTrue(f, r), NEW outcome \in Outcomes,
           outcome = "expired" => r = 0 /\ f.up = "none", outcome = "retryable" => ~Still(f, r)
    PROVE  GoesOn(f, r, Finish(f, outcome), r)
<1>1. CASE outcome = "completed"
  BY <1>1, EndTrue DEF Finish
<1>2. CASE outcome = "retryable" /\ f.attempt < MaxAttempts
  <2>1. PICK g : g = Finish(f, outcome)
    OBVIOUS
  <2>2. g = [f EXCEPT !.pc = "loop", !.attempt = @ + 1, !.invoked = FALSE, !.outcome = "none", !.net = <<>>]
    BY <1>2, <2>1 DEF Finish
  <2>3. g.pc = "loop" /\ g.net = <<>> /\ g.chan = f.chan
    BY <2>2 DEF FlowOK, FlowType
  <2>4. Adds(f, g, {})
    BY <2>3, HasFacts DEF Adds
  <2> QED BY <1>2, <2>1, <2>3, <2>4, GoesOnQuietly
<1>3. CASE ~(outcome = "completed") /\ ~(outcome = "retryable" /\ f.attempt < MaxAttempts)
  <2>1. PICK c : c = IF outcome = "expired" THEN "expired" ELSE "failed"
    OBVIOUS
  <2>2. Finish(f, outcome) = Done(Emit(f, Error(c)))
    BY <1>3, <2>1 DEF Finish
  <2> QED BY <2>1, <2>2, EndsWith
<1> QED BY <1>1, <1>2, <1>3

(* An attempt is closed. *)
LEMMA CloseTrue ==
    ASSUME NEW f, NEW r, FlowOK(f, r), FlowTrue(f, r), NEW outcome \in Outcomes,
           outcome = "expired" => r = 0 /\ f.up = "none" /\ f.net \in Seq(Answers),
           outcome = "retryable" => ~Still(f, r), NEW g \in CloseWith(f, outcome)
    PROVE  GoesOn(f, r, g, r)
<1>1. CASE g = Finish(f, outcome)
  BY <1>1, FinishTrue
<1>2. CASE g = [f EXCEPT !.pc = "closing", !.outcome = outcome]
  <2>1. /\ g.pc = "closing" /\ g.up = f.up /\ g.net = f.net /\ g.chan = f.chan
        /\ g.outcome = outcome
    BY <1>2 DEF FlowOK, FlowType
  <2>2. Adds(f, g, {})
    BY <2>1 DEF Adds
  <2>3. Still(f, r) \/ outcome = "expired" => Still(g, r)
    BY <2>1 DEF Still
  <2> QED BY <2>1, <2>2, <2>3, GoesOnQuietly
<1> QED BY <1>1, <1>2 DEF CloseWith

(* An event is passed on. *)
LEMMA EmitTrue ==
    ASSUME NEW f, NEW r, FlowOK(f, r), FlowTrue(f, r), NEW ev \in Emitted,
           ev \in {Verification, Unverified} => r = 1, ev = Error("expired") => Still(f, r)
    PROVE  GoesOn(f, r, Emit(f, ev), r)
<1>1. PICK g : g = Emit(f, ev)
  OBVIOUS
<1>2. f \in FlowType /\ f.chan \in Seq(Emitted)
  BY DEF FlowOK, FlowType
<1>3. /\ g.pc = f.pc /\ g.up = f.up /\ g.net = f.net /\ g.chan = Append(f.chan, ev)
      /\ g.outcome = f.outcome
  BY <1>1, <1>2 DEF Emit, FlowType
<1>4. Adds(f, g, {ev})
  <2>1. \A x : Has(Append(f.chan, ev), x) => Has(f.chan, x) \/ x = ev
    BY <1>2, HasFacts
  <2> QED BY <1>3, <2>1 DEF Adds
<1>5. Still(f, r) => Still(g, r)
  BY <1>3 DEF Still
<1>6. f.pc = "closing" /\ f.outcome = "expired" => Still(f, r)
  BY DEF FlowTrue
<1>7. f.pc = "ran" => r = 1
  BY DEF FlowTrue
<1> QED BY <1>1, <1>3, <1>4, <1>5, <1>6, <1>7, GoesOnQuietly

(* The head of the loop, and of the phone's flow. *)
LEMMA BeginTrue ==
    ASSUME NEW f, FlowOK(f, 0), FlowTrue(f, 0), f.up = "none", f.net = <<>>,
           ~Has(f.chan, Error("expired")), NEW g \in Begin(f) \cup PhoneBegin(f)
    PROVE  FlowTrue(g, 0)
<1>1. f \in FlowType /\ f.chan \in Seq(Emitted) /\ f.attempt \in Nat
  BY DEF FlowOK, FlowType
<1>2. CASE \E code \in {"failed", "expired"} : g = Done(Emit(f, Error(code)))
  BY <1>2, EndsWith DEF GoesOn
<1>3. CASE g = [Emit(f, Starting(f.attempt)) EXCEPT !.pc = "connecting"]
  <2>1. PICK ev, h : ev = Starting(f.attempt) /\ h = Emit(f, ev)
    OBVIOUS
  <2>2. ev \in Emitted
    BY <1>1, <2>1, ErrorsAreEmitted
  <2>3. FlowOK(h, 0) /\ h.net = f.net /\ h.chan = Append(f.chan, ev)
    BY <2>1, <2>2, EmitOK
  <2>4. g.pc = "connecting" /\ g.net = <<>> /\ g.chan = Append(f.chan, ev)
    BY <1>3, <2>1, <2>3 DEF FlowOK, FlowType
  <2>5. \A x : Has(Append(f.chan, ev), x) => Has(f.chan, x) \/ x = ev
    BY <1>1, <2>2, HasFacts
  <2>6. \A v \in {Verification, Unverified, Error("expired")} : ~Has(g.chan, v) /\ ~Has(g.net, v)
    <3>1. \A v \in {Verification, Unverified, Error("expired")} : v # ev
      BY <2>1, EventsDiffer
    <3>2. \A v \in {Verification, Unverified, Error("expired")} : ~Has(f.chan, v)
      BY DEF FlowTrue
    <3> QED BY <2>4, <2>5, <3>1, <3>2, HasFacts
  <2> QED BY <2>4, <2>6 DEF FlowTrue
<1>4. CASE g = [f EXCEPT !.pc = "execute", !.chan = <<Starting(1), Ready, Progress("accepted", 0)>>]
  <2>1. PICK a, b, c : a = Starting(1) /\ b = Ready /\ c = Progress("accepted", 0)
    OBVIOUS
  <2>2. g.pc = "execute" /\ g.net = <<>> /\ g.chan = <<a, b, c>>
    BY <1>1, <1>4, <2>1 DEF FlowType
  <2>3. \A x : Has(<<a, b, c>>, x) => x \in {a, b, c}
    BY DEF Has
  <2>4. \A v \in {Verification, Unverified, Error("expired")} : ~Has(g.chan, v) /\ ~Has(g.net, v)
    <3>1. \A v \in {Verification, Unverified, Error("expired")} : v # a /\ v # b /\ v # c
      BY <2>1, EventsDiffer
    <3> QED BY <2>2, <2>3, <3>1, HasFacts
  <2> QED BY <2>2, <2>4 DEF FlowTrue
<1> QED BY <1>2, <1>3, <1>4 DEF Begin, PhoneBegin

(* A launched flow. *)
LEMMA LaunchedTrue ==
    ASSUME NEW plan \in Plans, NEW g \in Launched(plan)
    PROVE  FlowTrue(g, 0)
<1>1. PICK f : f = [NoFlow EXCEPT !.plan = plan, !.attempt = 1]
  OBVIOUS
<1>2. NoFlow \in FlowType
  BY EmptyFlow
<1>3. f \in FlowType /\ f.up = "none" /\ f.net = <<>> /\ f.pc = "none" /\ f.chan = <<>>
  BY <1>1, <1>2 DEF FlowType, NoFlow
<1>4. <<>> \in Seq(Answers)
  BY EmptySeq
<1>5. FlowOK(f, 0) /\ FlowTrue(f, 0)
  BY <1>3, <1>4, HasFacts DEF FlowOK, FlowTrue
<1>6. g \in Begin(f) \cup PhoneBegin(f)
  BY <1>1 DEF Launched
<1> QED BY <1>3, <1>5, <1>6, BeginTrue, HasFacts

-----------------------------------------------------------------------------
(* The gateways tell the truth.                                            *)

(* The step moves the flow of t, which goes on truthfully. *)
Goes(t) ==
    \E g, q : /\ flow' = [flow EXCEPT ![t] = g] /\ ran' = [ran EXCEPT ![t] = q]
              /\ GoesOn(flow[t], ran[t], g, q)

(* A step that starts no tool. *)
LEMMA QuietlyGoes ==
    ASSUME FlowsInv, NEW t \in Tasks, NEW flows, Becomes(t, flows), UNCHANGED ran,
           \A g \in flows : GoesOn(flow[t], ran[t], g, ran[t])
    PROVE  Goes(t)
<1>1. PICK g \in flows : flow' = [flow EXCEPT ![t] = g]
  BY DEF Becomes
<1>2. ran' = [ran EXCEPT ![t] = ran[t]]
  BY DEF FlowsInv
<1> QED BY <1>1, <1>2 DEF Goes

(* Steps of an attempt without a message. *)
LEMMA AttemptsGo ==
    ASSUME FlowsInv, NEW t \in Tasks, FlowTrue(flow[t], ran[t]),
           BeginAttempt(t) \/ AttemptTimesOut(t) \/ OnOpen(t) \/ ProtocolFailure(t) \/ ConnectionEnds(t)
    PROVE  Goes(t)
<1>1. PICK f, r : f = flow[t] /\ r = ran[t]
  OBVIOUS
<1>2. FlowOK(f, r) /\ f \in FlowType /\ FlowTrue(f, r)
  BY <1>1 DEF FlowsInv, FlowOK
<1>3. GoesOn(f, r, Finish(f, "final"), r) /\ \A g \in CloseWith(f, "final") : GoesOn(f, r, g, r)
  <2>1. PICK o \in Outcomes : o = "final"
    BY DEF Outcomes
  <2>2. GoesOn(f, r, Finish(f, o), r) /\ \A g \in CloseWith(f, o) : GoesOn(f, r, g, r)
    BY <1>2, <2>1, FinishTrue, CloseTrue
  <2> QED BY <2>1, <2>2
<1>4. ASSUME f.pc \in {"loop", "connecting", "discovering"}
      PROVE  /\ r = 0 /\ f.up = "none" /\ f.net = <<>> /\ ~Still(f, r) /\ f.net \in Seq(Answers)
             /\ ~Has(f.chan, Error("expired"))
  <2>1. r = 0 /\ f.up = "none" /\ f.net = <<>>
    BY <1>2, <1>4 DEF FlowOK
  <2>2. ~Still(f, r)
    BY <1>4 DEF Still
  <2>3. <<>> \in Seq(Answers)
    BY EmptySeq
  <2> QED BY <1>2, <2>1, <2>2, <2>3 DEF FlowTrue
<1>5. CASE BeginAttempt(t)
  <2>1. f.pc = "loop" /\ Becomes(t, Begin(f)) /\ UNCHANGED ran
    BY <1>1, <1>5 DEF BeginAttempt, In
  <2>2. \A g \in Begin(f) : FlowTrue(g, r)
    BY <1>2, <1>4, <2>1, BeginTrue
  <2>3. \A g \in Begin(f) : GoesOn(f, r, g, r)
    BY <1>4, <2>1, <2>2 DEF GoesOn
  <2> QED BY <1>1, <2>1, <2>3, QuietlyGoes
<1>6. CASE AttemptTimesOut(t)
  <2>1. Becomes(t, {Finish(f, "final")}) /\ UNCHANGED ran
    BY <1>1, <1>6 DEF AttemptTimesOut
  <2> QED BY <1>1, <1>3, <2>1, QuietlyGoes
<1>7. CASE ProtocolFailure(t)
  <2>1. Becomes(t, CloseWith(f, "final")) /\ UNCHANGED ran
    BY <1>1, <1>7 DEF ProtocolFailure
  <2> QED BY <1>1, <1>3, <2>1, QuietlyGoes
<1>8. CASE OnOpen(t)
  <2>1. f.pc = "connecting" /\ UNCHANGED ran
    BY <1>1, <1>8 DEF OnOpen, In
  <2>2. Becomes(t, {[f EXCEPT !.pc = "discovering"]} \cup CloseWith(f, "retryable") \cup ApprovalExpired(t))
    BY <1>1, <1>8 DEF OnOpen
  <2>3. \A g \in CloseWith(f, "retryable") \cup CloseWith(f, "expired") : GoesOn(f, r, g, r)
    <3>1. PICK a \in Outcomes, b \in Outcomes : a = "retryable" /\ b = "expired"
      BY DEF Outcomes
    <3>2. \A g \in CloseWith(f, a) \cup CloseWith(f, b) : GoesOn(f, r, g, r)
      BY <1>2, <1>4, <2>1, <3>1, CloseTrue
    <3> QED BY <3>1, <3>2
  <2>4. ApprovalExpired(t) \subseteq CloseWith(f, "expired")
    BY <1>1 DEF ApprovalExpired
  <2>5. GoesOn(f, r, [f EXCEPT !.pc = "discovering"], r)
    <3>1. PICK g : g = [f EXCEPT !.pc = "discovering"]
      OBVIOUS
    <3>2. g.pc = "discovering" /\ g.net = f.net /\ g.chan = f.chan
      BY <1>2, <3>1 DEF FlowType
    <3>3. Adds(f, g, {})
      BY <3>2 DEF Adds
    <3>4. GoesOn(f, r, g, r)
      BY <1>2, <1>4, <2>1, <3>2, <3>3, GoesOnQuietly
    <3> QED BY <3>1, <3>4
  <2> QED BY <1>1, <2>1, <2>2, <2>3, <2>4, <2>5, QuietlyGoes
<1>9. CASE ConnectionEnds(t)
  <2>1. PICK o : o = IF f.pc = "closing" THEN f.outcome ELSE IF f.invoked THEN "final" ELSE "retryable"
    OBVIOUS
  <2>2. /\ f.pc \in InAttempt /\ UNCHANGED ran
        /\ Becomes(t, {Finish(f, o)} \cup (IF f.pc = "connecting" THEN {Finish(f, "final")} ELSE {}))
    BY <1>1, <1>9, <2>1 DEF ConnectionEnds, In
  <2>3. o \in Outcomes
    <3>1. f.outcome \in Outcomes \cup {"none"} /\ (f.pc = "closing" => f.outcome # "none")
      BY <1>2 DEF FlowOK, FlowType
    <3> QED BY <2>1, <3>1 DEF Outcomes
  <2>4. o = "expired" => r = 0 /\ f.up = "none"
    BY <1>2, <2>1 DEF FlowTrue, Still
  <2>5. o = "retryable" => ~Still(f, r)
    <3>1. CASE f.pc = "closing"
      BY <2>1, <3>1 DEF Still
    <3>2. CASE f.pc # "closing"
      <4>1. o = "retryable" => f.pc \in {"connecting", "discovering"}
        BY <1>2, <2>1, <2>2, <3>2 DEF FlowOK, InAttempt
      <4> QED BY <1>4, <4>1
    <3> QED BY <3>1, <3>2
  <2>6. GoesOn(f, r, Finish(f, o), r)
    BY <1>2, <2>3, <2>4, <2>5, FinishTrue
  <2> QED BY <1>1, <1>3, <2>2, <2>6, QuietlyGoes
<1> QED BY <1>5, <1>6, <1>7, <1>8, <1>9

(* The answer to a discovery. *)
LEMMA DiscoveryGoes ==
    ASSUME FlowsInv, NEW t \in Tasks, FlowTrue(flow[t], ran[t]), OnDiscovery(t)
    PROVE  Goes(t)
<1>1. PICK f, r : f = flow[t] /\ r = ran[t]
  OBVIOUS
<1>2. FlowOK(f, r) /\ f \in FlowType /\ FlowTrue(f, r)
  BY <1>1 DEF FlowsInv, FlowOK
<1>3. f.pc = "discovering" /\ UNCHANGED ran
  BY <1>1 DEF OnDiscovery, In
<1>4. r = 0 /\ f.up = "none" /\ f.net = <<>> /\ ~Still(f, r) /\ <<>> \in Seq(Answers)
  BY <1>2, <1>3, EmptySeq DEF FlowOK, Still
<1>5. PICK k : k = [Emit(f, Ready) EXCEPT !.pc = "invoked", !.invoked = TRUE, !.up = "invoke"]
  OBVIOUS
<1>6. Becomes(t, {k} \cup CloseWith(f, "final") \cup CloseWith(f, "retryable") \cup ApprovalExpired(t))
  BY <1>1, <1>5 DEF OnDiscovery
<1>7. \A o \in Outcomes : \A g \in CloseWith(f, o) : GoesOn(f, r, g, r)
  BY <1>2, <1>4, CloseTrue
<1>8. ApprovalExpired(t) \subseteq CloseWith(f, "expired")
  BY <1>1 DEF ApprovalExpired
<1>9. GoesOn(f, r, k, r)
  <2>1. PICK ev, h : ev = Ready /\ h = Emit(f, ev)
    OBVIOUS
  <2>2. ev \in Emitted
    BY <2>1, ErrorsAreEmitted
  <2>3. FlowOK(h, r) /\ GoesOn(f, r, h, r)
    BY <1>2, <2>1, <2>2, EmitOK, EmitTrue, EventsDiffer
  <2>4. k.pc = "invoked" /\ k.net = h.net /\ k.chan = h.chan
    BY <1>5, <2>1, <2>3 DEF FlowOK, FlowType
  <2>5. ~Still(h, r)
    <3>1. h.pc = "discovering"
      BY <1>2, <1>3, <2>1, <2>2, EmitOK
    <3> QED BY <3>1 DEF Still
  <2>6. Adds(h, k, {})
    BY <2>4 DEF Adds
  <2>7. GoesOn(h, r, k, r)
    BY <2>3, <2>4, <2>5, <2>6, GoesOnQuietly DEF GoesOn
  <2> QED BY <1>4, <2>7 DEF GoesOn
<1>10. \A g \in {k} \cup CloseWith(f, "final") \cup CloseWith(f, "retryable") \cup ApprovalExpired(t) :
         GoesOn(f, r, g, r)
  BY <1>7, <1>8, <1>9 DEF Outcomes
<1> QED BY <1>1, <1>3, <1>6, <1>10, QuietlyGoes

(* Going on is transitive. *)
LEMMA GoesOnTwice ==
    ASSUME NEW f, NEW r, NEW g, NEW h, GoesOn(f, r, g, r), GoesOn(g, r, h, r)
    PROVE  GoesOn(f, r, h, r)
BY DEF GoesOn

(* An attempt without an expired approval may be repeated. *)
LEMMA RetryTrue ==
    ASSUME NEW f, NEW r, FlowOK(f, r), FlowTrue(f, r), ~Has(f.chan, Error("expired")), f.net = <<>>,
           NEW g \in CloseWith(f, "retryable")
    PROVE  FlowTrue(g, r)
<1>1. CASE g = Done(Emit(f, Error("failed")))
  BY <1>1, EndsWith DEF GoesOn
<1>2. CASE \/ g = [f EXCEPT !.pc = "loop", !.attempt = @ + 1, !.invoked = FALSE, !.outcome = "none", !.net = <<>>]
           \/ g = [f EXCEPT !.pc = "closing", !.outcome = "retryable"]
  <2>1. /\ g.pc \in {"loop", "closing"} /\ (g.pc = "closing" => g.outcome = "retryable")
        /\ g.net = <<>> /\ g.chan = f.chan
    BY <1>2 DEF FlowOK, FlowType
  <2> QED BY <2>1, HasFacts DEF FlowTrue
<1>3. \/ g = Finish(f, "retryable") \/ g = [f EXCEPT !.pc = "closing", !.outcome = "retryable"]
  BY DEF CloseWith
<1>4. \/ Finish(f, "retryable") = Done(Emit(f, Error("failed")))
      \/ Finish(f, "retryable") =
           [f EXCEPT !.pc = "loop", !.attempt = @ + 1, !.invoked = FALSE, !.outcome = "none", !.net = <<>>]
  BY DEF Finish
<1> QED BY <1>1, <1>2, <1>3, <1>4

(* The messages of the Hub. *)
LEMMA MessagesGo ==
    ASSUME FlowsInv, NEW t \in Tasks, FlowTrue(flow[t], ran[t]), OnApprovalRequest(t) \/ OnEvent(t)
    PROVE  Goes(t)
<1>1. PICK f, r, g : f = flow[t] /\ r = ran[t] /\ g = [f EXCEPT !.net = Tail(@)]
  OBVIOUS
<1>2. FlowOK(f, r) /\ f \in FlowType /\ FlowTrue(f, r) /\ f.chan \in Seq(Emitted)
  BY <1>1 DEF FlowsInv, FlowOK, FlowType
<1>3. f.net # <<>> /\ f.pc \in {"invoked", "closing"} /\ UNCHANGED ran
  BY <1>1 DEF OnApprovalRequest, OnEvent, Connected, In
<1>4. /\ Follows(f, g, r) /\ g.up = "none" /\ g.pc = f.pc
      /\ Head(f.net).kind = "ask" => r = 0 /\ g.net = <<>>
      /\ Head(f.net).kind # "ask" => Head(f.net) \in Answers
  BY <1>1, <1>2, <1>3, TakenOK
<1>5. FlowOK(g, r) /\ g.net = Tail(f.net) /\ g.chan = f.chan /\ g.outcome = f.outcome
  BY <1>1, <1>2, <1>4 DEF Follows, FlowType
<1>6. f.net \in Seq(Answers \cup {Ask})
  BY <1>2 DEF FlowType
<1>7. Adds(f, g, {})
  <2>1. \A x : Has(Tail(f.net), x) => Has(f.net, x)
    BY <1>3, <1>6, HasFacts
  <2> QED BY <1>5, <2>1 DEF Adds
<1>8. Still(f, r) => Still(g, r)
  <2>1. f.net \in Seq(Answers) => Tail(f.net) \in Seq(Answers)
    BY <1>3, HeadTailProperties
  <2> QED BY <1>4, <1>5, <2>1 DEF Still
<1>9. GoesOn(f, r, g, r)
  <2>1. f.pc = "closing" /\ f.outcome = "expired" => Still(f, r)
    BY <1>2 DEF FlowTrue
  <2>2. g.pc # "ran"
    BY <1>3, <1>4
  <2> QED BY <1>2, <1>4, <1>5, <1>7, <1>8, <2>1, <2>2, GoesOnQuietly
<1>10. CASE OnApprovalRequest(t)
  <2>1. r = 0 /\ g.net = <<>> /\ Head(f.net).kind = "ask"
    BY <1>1, <1>4, <1>10 DEF OnApprovalRequest
  <2>2. ~Still(f, r)
    <3>1. \A a \in Answers : a.kind # "ask"
      BY DEF Answers, Progress, ToolResult, Verification, Error
    <3>2. f.net \in Seq(Answers) => Head(f.net) \in Answers
      BY <1>3, HeadTailProperties
    <3> QED BY <2>1, <3>1, <3>2 DEF Still
  <2>3. ~Has(f.chan, Error("expired"))
    BY <1>2, <2>2 DEF FlowTrue
  <2>4. PICK k : k = [g EXCEPT !.up = "approve"]
    OBVIOUS
  <2>5. PICK S : S = (IF f.pc = "invoked" THEN {k} ELSE {}) \cup
                     UNION {CloseWith(g, outcome) : outcome \in {"final", "expired", "retryable"}}
    OBVIOUS
  <2>6. Becomes(t, S)
    BY <1>1, <1>10, <2>4, <2>5 DEF OnApprovalRequest, In
  <2>7. <<>> \in Seq(Answers)
    BY EmptySeq
  <2>8. ASSUME NEW outcome \in {"final", "expired"}, NEW h \in CloseWith(g, outcome)
        PROVE  FlowTrue(h, r)
    <3>1. outcome \in Outcomes /\ outcome # "retryable"
      BY DEF Outcomes
    <3>2. GoesOn(g, r, h, r)
      BY <1>4, <1>5, <1>9, <2>1, <2>7, <2>8, <3>1, CloseTrue DEF GoesOn
    <3> QED BY <3>2 DEF GoesOn
  <2>9. \A h \in CloseWith(g, "retryable") : FlowTrue(h, r)
    BY <1>5, <1>9, <2>1, <2>3, RetryTrue DEF GoesOn
  <2>10. FlowTrue(k, r)
    <3>1. g \in FlowType
      BY <1>5 DEF FlowOK
    <3>2. k.pc = g.pc /\ k.net = <<>> /\ k.chan = g.chan /\ k.outcome = g.outcome
      BY <2>1, <2>4, <3>1 DEF FlowType
    <3>3. ~(f.pc = "closing" /\ f.outcome = "expired")
      BY <1>2, <2>2 DEF FlowTrue
    <3>4. ~Has(k.chan, Error("expired")) /\ ~Has(k.net, Error("expired"))
      BY <1>5, <2>3, <3>2, HasFacts
    <3>5. \A v \in {Verification, Unverified} : Has(k.chan, v) \/ Has(k.net, v) => r = 1
      BY <1>2, <1>5, <3>2, HasFacts DEF FlowTrue
    <3> QED BY <1>3, <1>4, <1>5, <3>2, <3>3, <3>4, <3>5 DEF FlowTrue
  <2>11. \A h \in S : FlowTrue(h, r)
    BY <2>5, <2>8, <2>9, <2>10
  <2>12. \A h \in S : GoesOn(f, r, h, r)
    BY <2>2, <2>11 DEF GoesOn
  <2> QED BY <1>1, <1>3, <2>6, <2>12, QuietlyGoes
<1>11. CASE OnEvent(t)
  <2>1. PICK ev, h : ev = Head(f.net) /\ h = Emit(g, ev)
    OBVIOUS
  <2>2. ev \in Emitted
    BY <1>1, <1>4, <1>11, <2>1 DEF OnEvent, Emitted
  <2>3. FlowOK(h, r)
    BY <1>5, <2>1, <2>2, EmitOK
  <2>4. Has(f.net, ev)
    <3>1. Len(f.net) \in Nat \ {0} /\ DOMAIN f.net = 1 .. Len(f.net)
      BY <1>3, <1>6, LenProperties, EmptySeq
    <3> QED BY <2>1, <3>1 DEF Has
  <2>5. (ev \in {Verification, Unverified} => r = 1) /\ (ev = Error("expired") => Still(g, r))
    BY <1>2, <1>8, <2>4 DEF FlowTrue
  <2>6. GoesOn(g, r, h, r)
    BY <1>5, <1>9, <2>1, <2>2, <2>5, EmitTrue DEF GoesOn
  <2>7. GoesOn(f, r, h, r)
    BY <1>9, <2>6, GoesOnTwice
  <2>8. PICK o \in Outcomes : o = "completed"
    BY DEF Outcomes
  <2>9. PICK S : S = IF ev.kind \in {"verification", "error"} THEN CloseWith(h, o) ELSE {h}
    OBVIOUS
  <2>10. Becomes(t, S)
    BY <1>1, <1>11, <2>1, <2>8, <2>9 DEF OnEvent
  <2>11. \A k \in CloseWith(h, o) : GoesOn(h, r, k, r)
    BY <2>3, <2>6, <2>8, CloseTrue DEF GoesOn
  <2>12. \A k \in S : GoesOn(f, r, k, r)
    BY <2>7, <2>9, <2>11, GoesOnTwice
  <2> QED BY <1>1, <1>3, <2>10, <2>12, QuietlyGoes
<1> QED BY <1>10, <1>11

(* The Hub's answers. *)
LEMMA HubGoes ==
    ASSUME FlowsInv, NEW t \in Tasks, FlowTrue(flow[t], ran[t]), HubRefuses(t) \/ HubAsks(t) \/ HubRuns(t)
    PROVE  Goes(t)
<1>1. PICK f, r : f = flow[t] /\ r = ran[t]
  OBVIOUS
<1>2. FlowOK(f, r) /\ f \in FlowType /\ FlowTrue(f, r)
  BY <1>1 DEF FlowsInv, FlowOK
<1>3. f.up # "none" /\ r = 0 /\ f.net = <<>> /\ ~Still(f, r) /\ ~(f.pc = "closing" /\ f.outcome = "retryable")
      /\ f.pc # "ran"
  <2>1. f.up # "none"
    BY <1>1 DEF HubRefuses, HubAsks, HubRuns
  <2>2. r = 0 /\ f.net = <<>> /\ ~(f.pc = "closing" /\ f.outcome = "retryable")
    BY <1>2, <2>1 DEF FlowOK
  <2> QED BY <1>2, <2>1, <2>2 DEF FlowTrue, Still
<1>4. ~(f.pc = "closing" /\ f.outcome = "expired")
  BY <1>2, <1>3 DEF FlowTrue
<1>5. ASSUME NEW messages, HubAnswers(t, messages), NEW S, messages \in Seq(S)
      PROVE  \E g : /\ flow' = [flow EXCEPT ![t] = g]
                    /\ g.up = "none" /\ g.pc = f.pc /\ g.outcome = f.outcome /\ g.chan = f.chan
                    /\ IF f.pc \in {"invoked", "closing"} THEN g.net = messages ELSE g.net = <<>>
  <2>1. f.net \o messages = messages
    BY <1>3, <1>5, ConcatEmptySeq
  <2>2. PICK net : net = IF f.pc \in {"invoked", "closing"} THEN messages ELSE <<>>
    OBVIOUS
  <2>3. PICK g : g = [f EXCEPT !.up = "none", !.net = net]
    OBVIOUS
  <2>4. net = IF Connected(t) THEN f.net \o messages ELSE f.net
    BY <1>1, <1>3, <2>1, <2>2 DEF Connected, In
  <2>5. flow' = [flow EXCEPT ![t] = g]
    BY <1>1, <1>5, <2>3, <2>4 DEF HubAnswers, FlowsInv, FlowType
  <2>6. g.up = "none" /\ g.net = net /\ g.pc = f.pc /\ g.outcome = f.outcome /\ g.chan = f.chan
    BY <1>2, <2>3 DEF FlowType
  <2> QED BY <2>2, <2>5, <2>6
<1>6. ran' = ran => ran' = [ran EXCEPT ![t] = r]
  BY <1>1 DEF FlowsInv
<1>7. CASE HubRefuses(t) \/ HubAsks(t)
  <2>1. PICK m : /\ HubAnswers(t, <<m>>)
                 /\ m = Ask \/ \E code \in {"failed", "expired"} : m = Error(code)
    BY <1>7 DEF HubRefuses, HubAsks
  <2>2. <<m>> \in Seq({m})
    OBVIOUS
  <2>3. PICK g : /\ flow' = [flow EXCEPT ![t] = g]
                 /\ g.up = "none" /\ g.pc = f.pc /\ g.outcome = f.outcome /\ g.chan = f.chan
                 /\ IF f.pc \in {"invoked", "closing"} THEN g.net = <<m>> ELSE g.net = <<>>
    BY <1>5, <2>1, <2>2
  <2>4. PICK N : N = IF f.pc \in {"invoked", "closing"} THEN {m} ELSE {}
    OBVIOUS
  <2>5. \A x : Has(<<m>>, x) => x = m
    BY DEF Has
  <2>6. Adds(f, g, N)
    BY <2>3, <2>4, <2>5, HasFacts DEF Adds
  <2>7. m # Verification /\ m # Unverified
    <3>1. Ask # Verification /\ Ask # Unverified
      BY DEF Ask, Verification, Unverified
    <3> QED BY <2>1, <3>1, EventsDiffer
  <2>8. Error("expired") \in N => Still(g, r)
    <3>1. ASSUME Error("expired") \in N PROVE Still(g, r)
      <4>1. m = Error("expired") /\ f.pc \in {"invoked", "closing"} /\ g.net = <<m>>
        BY <2>3, <2>4, <3>1
      <4>2. m \in Answers
        BY <4>1 DEF Answers
      <4>3. <<m>> \in Seq(Answers)
        BY <4>2
      <4> QED BY <1>3, <2>3, <4>1, <4>3 DEF Still
    <3> QED BY <3>1
  <2>9. ran' = [ran EXCEPT ![t] = r]
    BY <1>6, <1>7 DEF HubRefuses, HubAsks
  <2>10. Verification \notin N /\ Unverified \notin N
    BY <2>4, <2>7
  <2>11. GoesOn(f, r, g, r)
    BY <1>2, <1>3, <1>4, <2>3, <2>6, <2>8, <2>10, GoesOnQuietly
  <2> QED BY <1>1, <2>3, <2>9, <2>11 DEF Goes
<1>8. CASE HubRuns(t)
  <2>1. PICK m \in {ToolFails, ToolSucceeds} : HubAnswers(t, m)
    BY <1>8 DEF HubRuns
  <2>2. PICK N : N = {Progress("accepted", 0), Progress("completed", 1), ToolResult, Verification, Error("failed")}
    OBVIOUS
  <2>3. m \in Seq(N) /\ \A x : Has(m, x) => x \in N
    <3>1. PICK a, b, c, d, e : /\ a = Progress("accepted", 0) /\ b = Progress("completed", 1)
                               /\ c = ToolResult /\ d = Verification /\ e = Error("failed")
      OBVIOUS
    <3>2. N = {a, b, c, d, e} /\ (m = <<a, e>> \/ m = <<a, b, c, d>>)
      BY <2>1, <2>2, <3>1 DEF ToolFails, ToolSucceeds
    <3>3. \A x : Has(<<a, e>>, x) \/ Has(<<a, b, c, d>>, x) => x \in {a, b, c, d, e}
      BY DEF Has
    <3>4. <<a, e>> \in Seq({a, b, c, d, e}) /\ <<a, b, c, d>> \in Seq({a, b, c, d, e})
      OBVIOUS
    <3> QED BY <3>2, <3>3, <3>4
  <2>4. PICK g : /\ flow' = [flow EXCEPT ![t] = g]
                 /\ g.up = "none" /\ g.pc = f.pc /\ g.outcome = f.outcome /\ g.chan = f.chan
                 /\ IF f.pc \in {"invoked", "closing"} THEN g.net = m ELSE g.net = <<>>
    BY <1>5, <2>1, <2>3
  <2>5. Adds(f, g, N)
    BY <2>3, <2>4, HasFacts DEF Adds
  <2>6. Error("expired") \notin N
    BY <2>2, EventsDiffer
  <2>7. ran' = [ran EXCEPT ![t] = 1]
    <3>1. ran' = [ran EXCEPT ![t] = @ + 1] /\ ran[t] = 0
      BY <1>1, <1>3, <1>8 DEF HubRuns
    <3> QED BY <3>1
  <2>8. GoesOn(f, r, g, 1)
    BY <1>2, <1>3, <2>4, <2>5, <2>6, GoesOnRunning
  <2> QED BY <1>1, <2>4, <2>7, <2>8 DEF Goes
<1> QED BY <1>7, <1>8

(* A phone task. *)
LEMMA PhoneGoes ==
    ASSUME FlowsInv, NEW t \in Tasks, FlowTrue(flow[t], ran[t]), PhoneRuns(t) \/ PhoneAnswers(t)
    PROVE  Goes(t)
<1>1. PICK f, r : f = flow[t] /\ r = ran[t]
  OBVIOUS
<1>2. FlowOK(f, r) /\ f \in FlowType /\ FlowTrue(f, r)
  BY <1>1 DEF FlowsInv, FlowOK
<1>3. f.pc \in {"execute", "ran"} /\ ~Still(f, r)
  BY <1>1 DEF PhoneRuns, PhoneAnswers, In, Still
<1>4. CASE PhoneRuns(t)
  <2>1. r = 0
    BY <1>1, <1>2, <1>4 DEF PhoneRuns, In, FlowOK
  <2>2. PICK g : g = [f EXCEPT !.pc = "ran"]
    OBVIOUS
  <2>3. flow' = [flow EXCEPT ![t] = g] /\ ran' = [ran EXCEPT ![t] = 1]
    BY <1>1, <1>4, <2>1, <2>2 DEF PhoneRuns, Becomes, FlowsInv
  <2>4. g.pc = "ran" /\ g.net = f.net /\ g.chan = f.chan
    BY <1>2, <2>2 DEF FlowType
  <2>5. Adds(f, g, {})
    BY <2>4 DEF Adds
  <2>6. GoesOn(f, r, g, 1)
    BY <1>2, <1>3, <2>4, <2>5, GoesOnRunning
  <2> QED BY <1>1, <2>3, <2>6 DEF Goes
<1>5. CASE PhoneAnswers(t)
  <2>1. PICK flows : Becomes(t, flows) /\
          flows = {Done(Emit(f, Error("failed")))} \cup
                  (IF f.pc \in {"ran"}
                   THEN {Done([f EXCEPT !.chan = <<Progress("completed", 1), ToolResult, verdict>>]) :
                             verdict \in {Verification, Unverified}}
                   ELSE {})
    BY <1>1, <1>5 DEF PhoneAnswers, In
  <2>2. GoesOn(f, r, Done(Emit(f, Error("failed"))), r)
    BY <1>2, EndsWith
  <2>3. ASSUME f.pc = "ran", NEW v \in {Verification, Unverified}
        PROVE  GoesOn(f, r, Done([f EXCEPT !.chan = <<Progress("completed", 1), ToolResult, v>>]), r)
    <3>1. PICK a, b, h, d : /\ a = Progress("completed", 1) /\ b = ToolResult
                            /\ h = [f EXCEPT !.chan = <<a, b, v>>] /\ d = Done(h)
      OBVIOUS
    <3>2. h.chan = <<a, b, v>>
      BY <1>2, <3>1 DEF FlowType
    <3>3. d.pc = "done" /\ d.net = <<>> /\ d.chan = h.chan
      BY <3>1 DEF Done, NoFlow
    <3>4. \A x : Has(<<a, b, v>>, x) => x \in {a, b, v}
      BY DEF Has
    <3>5. Adds(f, d, {a, b, v})
      BY <3>2, <3>3, <3>4, HasFacts DEF Adds
    <3>6. r = 1
      BY <1>2, <2>3 DEF FlowTrue
    <3>7. Error("expired") \notin {a, b, v}
      BY <3>1, EventsDiffer
    <3>8. GoesOn(f, r, d, r)
      BY <1>2, <1>3, <3>3, <3>5, <3>6, <3>7, GoesOnQuietly
    <3> QED BY <3>1, <3>8
  <2>4. \A g \in flows : GoesOn(f, r, g, r)
    BY <2>1, <2>2, <2>3
  <2>5. UNCHANGED ran
    BY <1>5 DEF PhoneAnswers
  <2> QED BY <1>1, <2>1, <2>4, <2>5, QuietlyGoes
<1> QED BY <1>4, <1>5

(* Every step of a gateway. *)
LEMMA GatewayGoes ==
    ASSUME FlowsInv, NEW t \in Tasks, FlowTrue(flow[t], ran[t]), GatewayStep(t)
    PROVE  Goes(t)
BY AttemptsGo, DiscoveryGoes, MessagesGo, HubGoes, PhoneGoes DEF GatewayStep, FlowProceeds

-----------------------------------------------------------------------------
(* Each step of the agent is one of them.                                  *)

(* What flows emit stays true, and what has stopped stays so. *)
FlowsHold ==
    \A s \in Tasks : /\ FlowTrue(flow'[s], ran'[s]) /\ (ran[s] = 1 => ran'[s] = 1)
                     /\ Stopped(s) => Still(flow'[s], ran'[s])

(* Flows that do not move. *)
LEMMA SameFlows ==
    ASSUME HistInv, UNCHANGED <<flow, ran>>
    PROVE  FlowsHold
BY DEF HistInv, TruthInv, FlowsHold, Stopped

(* One flow moves. *)
LEMMA OneFlow ==
    ASSUME RunInv, HistInv, NEW t \in Tasks, NEW g, NEW q, flow' = [flow EXCEPT ![t] = g],
           ran' = [ran EXCEPT ![t] = q], FlowTrue(g, q), ran[t] = 1 => q = 1, Stopped(t) => Still(g, q)
    PROVE  FlowsHold
<1>1. /\ flow \in [Tasks -> FlowType] /\ ran \in [Tasks -> {0, 1}]
      /\ \A s \in Tasks : FlowTrue(flow[s], ran[s])
  BY DEF RunInv, FlowsInv, HistInv, TruthInv
<1>2. \A s \in Tasks : Stopped(s) => Still(flow[s], ran[s])
  BY DEF Stopped
<1> QED BY <1>1, <1>2 DEF FlowsHold

(* Some flows are cancelled. *)
LEMMA GoneFlows ==
    ASSUME RunInv, HistInv, NEW C, UNCHANGED ran,
           flow' = [s \in Tasks |-> IF s \in C THEN Gone(flow[s]) ELSE flow[s]]
    PROVE  FlowsHold
<1>1. \A s \in Tasks : FlowTrue(flow[s], ran[s]) /\ FlowOK(flow[s], ran[s])
  BY DEF RunInv, FlowsInv, HistInv, TruthInv
<1>2. ASSUME NEW s \in Tasks
      PROVE  FlowTrue(flow'[s], ran[s]) /\ (Still(flow[s], ran[s]) => Still(flow'[s], ran[s]))
  <2>1. GoesOn(flow[s], ran[s], Gone(flow[s]), ran[s])
    BY <1>1, EndTrue
  <2>2. flow'[s] = Gone(flow[s]) \/ flow'[s] = flow[s]
    OBVIOUS
  <2> QED BY <1>1, <2>1, <2>2 DEF GoesOn
<1>3. \A s \in Tasks : Stopped(s) => Still(flow[s], ran[s])
  BY DEF Stopped
<1> QED BY <1>2, <1>3 DEF FlowsHold

(* What has stopped stays stopped. *)
LEMMA StoppedStays ==
    ASSUME FlowsHold, NEW t, used \subseteq used',
           ui'.card \in {ui.card, NoTask} \/ (ui'.card = t /\ t \notin used)
    PROVE  \A s \in Tasks : /\ Stopped(s) => Stopped(s)'
                            /\ ran[s] = 1 => ran'[s] = 1
                            /\ FlowTrue(flow'[s], ran'[s])
<1> SUFFICES ASSUME NEW s \in Tasks, Stopped(s) PROVE Stopped(s)'
  BY DEF FlowsHold
<1>1. s \in used' /\ ui'.card # s /\ Still(flow'[s], ran'[s])
  BY TimelineAssumption DEF Stopped, FlowsHold
<1> QED BY <1>1 DEF Stopped

(* A step that leaves what is shown alone. *)
LEMMA QuietStep ==
    ASSUME HistInv, FlowsHold, UNCHANGED <<used, aud, rows>>, ui'.tl = ui.tl, ui'.card = ui.card,
           ui'.pending = ui.pending \/ ui.card = NoTask
    PROVE  AgentStep(NoTask, {})
<1>1. TimelineOK(ui.tl) /\ ApprovalCardIsLive
  BY DEF HistInv, ShownInv
<1>2. \A i \in DOMAIN ui.tl.entries : ui.tl.entries[i].id # NoTask
  <2>1. \A i \in DOMAIN ui.tl.entries : ui.tl.entries[i] \in GoodEntries
    BY <1>1 DEF TimelineOK
  <2> QED BY <2>1, TimelineAssumption DEF GoodEntries, EntryType
<1>3. Changes(ui.tl, ui'.tl, NoTask, {})
  BY <1>1, <1>2 DEF Changes
<1>4. \A s \in Tasks : /\ Stopped(s) => Stopped(s)'
                       /\ ran[s] = 1 => ran'[s] = 1
                       /\ FlowTrue(flow'[s], ran'[s])
  BY StoppedStays
<1> QED BY <1>1, <1>3, <1>4 DEF AgentStep, ApprovalCardIsLive

(* A task that waits for its approval has not begun. *)
LEMMA WaitingFacts ==
    ASSUME RunInv, HistInv, NEW t \in Tasks, Waits(ui.tl, t)
    PROVE  flow[t].pc = "none" /\ ran[t] = 0 /\ Still(flow[t], ran[t])
<1>1. ui.card = t \/ Lost(t)
  BY DEF Waits, HistInv, ApprovalCardIsLive, Entries
<1>2. flow[t].pc = "none" /\ Confirm(t)
  <2>1. CASE ui.card = t
    BY <2>1 DEF RunInv, OwnersInv
  <2>2. CASE Lost(t)
    <3>1. decided[t] # {} /\ decided[t] # {"approved"}
      BY <2>2 DEF Lost
    <3> QED BY <3>1 DEF RunInv, DecidedInv
  <2> QED BY <1>1, <2>1, <2>2
<1>3. FlowOK(flow[t], ran[t])
  BY DEF RunInv, FlowsInv
<1>4. ran[t] = 0 /\ flow[t].up = "none" /\ flow[t].net = <<>>
  BY <1>2, <1>3 DEF FlowOK, Confirm
<1> QED BY <1>2, <1>4, EmptySeq DEF Still

(* An entry of a task whose execution may begin. *)
Begun(e, t) ==
    /\ e \in GoodEntries /\ e.id = t /\ ~Ended(e) /\ e.phase # "AWAITING_APPROVAL"
    /\ e.plan.permission = "CONFIRM" => e.granted

(* Events of S, about a task that is started, granted or active. *)
LEMMA EventsStep ==
    ASSUME HistInv, FlowsHold, UNCHANGED <<aud, rows>>, NEW t \in Tasks, NEW tl, NEW E, NEW S,
           Changes(ui.tl, tl, t, E), Changes(tl, ui'.tl, t, E \cup FromEvents(tl, t, S)),
           \A e \in E : /\ Begun(e, t)
                        /\ t \notin used \/ \E i \in DOMAIN ui.tl.entries :
                               ui.tl.entries[i].id = t /\ ~Ended(ui.tl.entries[i]),
           used' \in {used, used \cup {t}}, t \in used', ui'.tl.active \in {t, NoTask},
           t \notin used \/ t = ui.tl.active,
           ui'.card = NoTask, ui.card \in {t, NoTask},
           Verification \in S \/ Unverified \in S => ran'[t] = 1,
           Error("expired") \in S => Still(flow'[t], ran'[t])
    PROVE  AgentStep(t, E \cup FromEvents(tl, t, S))
<1>1. PICK G : G = E \cup FromEvents(tl, t, S)
  OBVIOUS
<1>2. ASSUME NEW g \in G
      PROVE  \E e \in E : e.plan = g.plan /\ e.granted = g.granted /\ g.id = t /\ g.recorded = FALSE
                          /\ (g = e \/ PhaseFrom(e, g.phase, g.why, S)) /\ g \in GoodEntries
  <2>1. CASE g \in E
    <3>1. Begun(g, t)
      BY <2>1
    <3>2. g.id = t /\ g.recorded = FALSE /\ g \in GoodEntries
      BY <3>1, ActiveEntry DEF Begun
    <3> QED BY <2>1, <3>2
  <2>2. CASE g \in FromEvents(tl, t, S)
    <3>1. PICK i \in DOMAIN tl.entries : tl.entries[i].id = t /\ ByEvents(tl.entries[i], g, S)
      BY <2>2 DEF FromEvents
    <3>2. tl.entries[i] \in E
      BY <3>1 DEF Changes
    <3> QED BY <3>1, <3>2 DEF ByEvents
  <2> QED BY <1>1, <2>1, <2>2
<1>3. ASSUME NEW g \in G
      PROVE  /\ g.recorded = FALSE /\ EntryTrue(g)' /\ g.phase # "AWAITING_APPROVAL"
             /\ t \notin used \/ \E i \in DOMAIN ui.tl.entries :
                               ui.tl.entries[i].id = t /\ ~Ended(ui.tl.entries[i])
  <2>1. PICK e \in E : e.plan = g.plan /\ e.granted = g.granted /\ g.id = t /\ g.recorded = FALSE
                       /\ (g = e \/ PhaseFrom(e, g.phase, g.why, S)) /\ g \in GoodEntries
    BY <1>2
  <2>2. e.phase \notin TerminalPhases /\ e.phase # "AWAITING_APPROVAL" /\ e.why = ""
        /\ (e.plan.permission = "CONFIRM" => e.granted)
    <3>1. Begun(e, t)
      OBVIOUS
    <3> QED BY <3>1, ActiveEntry DEF Begun, Ended
  <2>3. /\ g.phase # "AWAITING_APPROVAL" /\ g.why \in {"", "failed", "expired"}
        /\ g.phase \in {"VERIFIED", "UNVERIFIED"} => ran'[t] = 1
        /\ g.why = "expired" => Still(flow'[t], ran'[t])
    BY <2>1, <2>2 DEF PhaseFrom, TerminalPhases
  <2>4. Still(flow'[t], ran'[t]) => Stopped(t)'
    BY TimelineAssumption DEF Stopped
  <2>5. ApprovalOutcome(g) \in Unapproved => g.why = "expired"
    BY <2>1, <2>2, <2>3 DEF ApprovalOutcome, Unapproved
  <2>6. /\ g.phase \in {"VERIFIED", "UNVERIFIED"} => ran'[g.id] = 1
        /\ Ended(g) /\ ~g.recorded /\ ApprovalOutcome(g) \in Unapproved => Stopped(g.id)'
        /\ ~Ended(g) /\ g.plan.permission = "CONFIRM" /\ ~g.granted => g.phase = "AWAITING_APPROVAL"
        /\ g.phase = "AWAITING_APPROVAL" => ~g.granted /\ g.plan.permission = "CONFIRM"
        /\ ui'.card = g.id => g.phase = "AWAITING_APPROVAL"
    BY <2>1, <2>2, <2>3, <2>4, <2>5, TimelineAssumption
  <2>7. EntryTrue(g)'
    BY <2>6 DEF EntryTrue
  <2> QED BY <2>1, <2>3, <2>7
<1>4. Changes(ui.tl, ui'.tl, t, G)
  BY <1>1, ChangesCompose
<1>5. \A s \in Tasks : /\ Stopped(s) => Stopped(s)'
                       /\ ran[s] = 1 => ran'[s] = 1
                       /\ FlowTrue(flow'[s], ran'[s])
  BY StoppedStays
<1>6. AgentStep(t, G)
  BY <1>3, <1>4, <1>5 DEF AgentStep
<1> QED BY <1>1, <1>6

(* takeLast keeps the last element. *)
LEMMA TakeLastKeepsLast ==
    ASSUME NEW S, NEW s \in Seq(S), NEW e \in S, NEW k, k = TakeLast(Append(s, e))
    PROVE  \E j \in DOMAIN k : k[j] = e
<1>1. PICK q, l, m : /\ q = Append(s, e) /\ l = Len(s) + 1
                     /\ m = IF l > MaxItems THEN l - MaxItems + 1 ELSE 1
  OBVIOUS
<1>2. q \in Seq(S) /\ Len(q) = l /\ q[l] = e /\ l \in Nat \ {0}
  <2>1. Len(s) \in Nat
    BY LenProperties
  <2> QED BY <1>1, <2>1, AppendProperties
<1>3. m \in 1 .. l /\ k = SubSeq(q, m, l)
  BY <1>1, <1>2, TimelineAssumption DEF TakeLast
<1>4. \A i \in m .. l : q[i] \in S
  BY <1>2, <1>3, ElementOfSeq
<1>5. k \in Seq(S) /\ Len(k) = l - m + 1 /\ \A i \in 1 .. l - m + 1 : k[i] = q[m + i - 1]
  BY <1>2, <1>3, <1>4, SubSeqProperties
<1>6. DOMAIN k = 1 .. l - m + 1
  BY <1>5, LenProperties
<1>7. l - m + 1 \in DOMAIN k /\ k[l - m + 1] = e
  BY <1>2, <1>3, <1>5, <1>6
<1> QED BY <1>7

(* A task that has just been started is shown. *)
LEMMA StartShows ==
    ASSUME NEW tl, TimelineOK(tl), NEW t \in Tasks, \A i \in DOMAIN tl.entries : tl.entries[i].id # t,
           tl.active = NoTask, NEW plan \in Plans \cup {NoPlan}, NEW e, e = NewEntry(t, plan, "ROUTING", 0),
           NEW tm, tm = Start(tl, t, plan)
    PROVE  /\ Changes(tl, tm, t, {e}) /\ tm.active = t /\ Shown(tm, t) /\ EntryOf(tm, t) = e
           /\ e \in GoodEntries /\ IsNew(e, t, plan, "ROUTING", 0) /\ ~Ended(e)
<1>1. Changes(tl, tm, t, {e}) /\ tm.active = t /\ e \in GoodEntries
  <2>1. 1 \in Nat \ {0} /\ tl.active # t
    BY TimelineAssumption
  <2> QED BY <2>1, StartFacts
<1>2. IsNew(e, t, plan, "ROUTING", 0)
  <2>1. PICK p \in Phases, z \in Nat : p = "ROUTING" /\ z = 0
    BY DEF Phases
  <2>2. IsNew(NewEntry(t, plan, p, z), t, plan, p, z)
    BY NewEntryFacts
  <2> QED BY <2>1, <2>2
<1>3. ~Ended(e)
  BY <1>2 DEF IsNew, Ended, TerminalPhases
<1>4. tm.entries = TakeLast(Append(tl.entries, e))
  BY DEF Start
<1>5. PICK j \in DOMAIN tm.entries : tm.entries[j] = e
  BY <1>1, <1>4, TakeLastKeepsLast DEF TimelineOK
<1>6. Shown(tm, t)
  BY <1>2, <1>5 DEF Shown, Indices, IsNew
<1>7. EntryOf(tm, t) = e
  <2>1. TimelineOK(tm)
    BY <1>1 DEF Changes
  <2>2. PICK x : x = EntryOf(tm, t)
    OBVIOUS
  <2>3. IsEntryOf(x, tm, t)
    BY <1>6, <2>1, <2>2, EntryOfFacts
  <2>4. x \in {e}
    BY <1>1, <2>3 DEF IsEntryOf, Changes
  <2> QED BY <2>2, <2>4
<1> QED BY <1>1, <1>2, <1>3, <1>6, <1>7

(* A task that is drawn is new, and an idle agent has no card. *)
LEMMA DrawFacts ==
    ASSUME RunInv, HistInv, NEW t \in Tasks, Draw(t)
    PROVE  /\ t \notin used /\ used' = used \cup {t} /\ t \in used'
           /\ \A i \in DOMAIN ui.tl.entries : ui.tl.entries[i].id # t
           /\ ui.tl.active # t /\ ui.card # t /\ flow[t] = NoFlow /\ ran[t] = 0
           /\ ~Busy => ui.tl.active = NoTask /\ ui.card = NoTask
<1>1. t \notin used /\ used' = used \cup {t}
  BY DEF Draw
<1>2. \A i \in DOMAIN ui.tl.entries : ui.tl.entries[i].id # t
  BY <1>1 DEF HistInv, ShownInv
<1>3. ui.tl.active # t /\ ui.card # t
  BY <1>1, TimelineAssumption DEF HistInv, ShownInv, RunInv, OwnersInv
<1>4. flow[t] = NoFlow /\ ran[t] = 0
  BY <1>1 DEF RunInv, OwnersInv
<1>5. ~Busy => ui.tl.active = NoTask /\ ui.card = NoTask
  BY DEF Busy, HistInv, ApprovalCardIsLive
<1> QED BY <1>1, <1>2, <1>3, <1>4, <1>5

(* The events in a channel. *)
EventsIn(s) == {x \in Emitted : Has(s, x)}

(* A channel holds the events that it holds, and they are emitted ones. *)
LEMMA ChannelFacts ==
    ASSUME NEW s \in Seq(Emitted)
    PROVE  s \in Seq(EventsIn(s)) /\ EventsIn(s) \subseteq Emitted
<1>1. s \in [1 .. Len(s) -> Emitted] /\ Len(s) \in Nat /\ DOMAIN s = 1 .. Len(s)
  BY LenProperties
<1>2. \A i \in 1 .. Len(s) : s[i] \in EventsIn(s)
  BY <1>1 DEF EventsIn, Has
<1>3. s \in [1 .. Len(s) -> EventsIn(s)]
  BY <1>1, <1>2
<1> QED BY <1>1, <1>3, SeqDef DEF EventsIn

(* Updates of the view model. *)
LEMMA TlField ==
    ASSUME NEW u, IsUi(u), NEW a, NEW v, v = [u EXCEPT !.tl = a]
    PROVE  IsUi(v) /\ v.tl = a /\ v.card = u.card /\ v.pending = u.pending
<1>1. PICK x, y, z, w : u = [tl |-> x, card |-> y, pending |-> z, job |-> w]
  BY DEF IsUi
<1>2. v = [tl |-> a, card |-> y, pending |-> z, job |-> w]
  BY <1>1
<1> QED BY <1>1, <1>2, UiFacts

(* An update of the job. *)
LEMMA JobField ==
    ASSUME NEW u, IsUi(u), NEW j, NEW v, v = [u EXCEPT !.job = j]
    PROVE  IsUi(v) /\ v.tl = u.tl /\ v.card = u.card /\ v.pending = u.pending
<1>1. PICK x, y, z, w : u = [tl |-> x, card |-> y, pending |-> z, job |-> w]
  BY DEF IsUi
<1>2. v = [tl |-> x, card |-> y, pending |-> z, job |-> j]
  BY <1>1
<1> QED BY <1>1, <1>2, UiFacts

(* collectTask of a task that is active in u. *)
LEMMA CollectTaskRuns ==
    ASSUME NEW u, IsUi(u), u.card = NoTask, TimelineOK(u.tl), NEW t \in Tasks, u.tl.active \in {t, NoTask},
           NEW plan \in Plans, NEW at \in Nat \ {0}, CollectTask(u, t, plan, at)
    PROVE  \E S, g : /\ ui'.card = NoTask /\ ui'.pending = u.pending /\ ui'.tl.active \in {t, NoTask}
                     /\ ui'.tl = u.tl \/ Changes(u.tl, ui'.tl, t, FromEvents(u.tl, t, S))
                     /\ Verification \notin S /\ Unverified \notin S
                     /\ Error("expired") \in S => Still(g, 0)
                     /\ FlowTrue(g, 0) /\ flow' = [flow EXCEPT ![t] = g]
<1>1. PICK f \in Launched(plan) : /\ ui' \in ApplyTaskEvents([u EXCEPT !.job = t], t, f.chan, at)
                                  /\ flow' = [flow EXCEPT ![t] = [f EXCEPT !.chan = <<>>]]
  BY DEF CollectTask
<1>2. FlowOK(f, 0) /\ FlowTrue(f, 0) /\ f \in FlowType /\ f.chan \in Seq(Emitted)
  BY LaunchedOK, LaunchedTrue DEF FlowOK, FlowType
<1>3. PICK S, g, v : S = EventsIn(f.chan) /\ g = [f EXCEPT !.chan = <<>>] /\ v = [u EXCEPT !.job = t]
  OBVIOUS
<1>4. g.pc = f.pc /\ g.up = f.up /\ g.net = f.net /\ g.outcome = f.outcome /\ g.chan = <<>>
  BY <1>2, <1>3 DEF FlowType
<1>5. Still(f, 0) => Still(g, 0)
  BY <1>4 DEF Still
<1>6. FlowTrue(g, 0)
  BY <1>2, <1>4, <1>5, HasFacts DEF FlowTrue
<1>7. Verification \notin S /\ Unverified \notin S /\ (Error("expired") \in S => Still(g, 0))
  BY <1>2, <1>3, <1>5 DEF EventsIn, FlowTrue
<1>8. f.chan \in Seq(S) /\ S \subseteq Emitted
  BY <1>2, <1>3, ChannelFacts
<1>9. IsUi(v) /\ v.card = NoTask /\ v.tl = u.tl /\ v.pending = u.pending
  BY <1>3, JobField
<1>10. CASE u.tl.active = t
  <2>1. RunsTo(v, ui', t, S)
    BY <1>1, <1>3, <1>8, <1>9, <1>10, EventSequence
  <2>2. /\ ui'.card = NoTask /\ ui'.pending = u.pending /\ ui'.tl.active \in {t, NoTask}
        /\ Changes(u.tl, ui'.tl, t, FromEvents(u.tl, t, S))
    BY <1>9, <2>1 DEF RunsTo, SameOwners
  <2> QED BY <1>1, <1>3, <1>6, <1>7, <2>2
<1>11. CASE u.tl.active # t
  <2>0. v.tl.active # t /\ ui' \in ApplyTaskEvents(v, t, f.chan, at)
    BY <1>1, <1>3, <1>9, <1>11
  <2>1. ui' = v
    BY <1>8, <2>0, LateEvents
  <2> QED BY <1>1, <1>3, <1>6, <1>7, <1>9, <2>1
<1> QED BY <1>10, <1>11

(* The flow of a new task. *)
LEMMA NewFlow ==
    ASSUME RunInv, HistInv, NEW t \in Tasks, t \notin used, NEW g, NEW q, flow' = [flow EXCEPT ![t] = g],
           ran' = [ran EXCEPT ![t] = q], FlowTrue(g, q)
    PROVE  FlowsHold
<1>1. ~Stopped(t) /\ ran[t] = 0
  BY DEF Stopped, RunInv, OwnersInv
<1>2. (ran[t] = 1 => q = 1) /\ (Stopped(t) => Still(g, q))
  BY <1>1
<1> QED BY <1>2, OneFlow

(* A rejected command. *)
LEMMA RejectHist ==
    ASSUME RunInv, HistInv, NEW t \in Tasks, RejectCommand(t)
    PROVE  \E s, G : AgentStep(s, G)
<1>1. PICK at \in Stamps, plan \in {NoPlan} \cup Routes : ui' = [ui EXCEPT !.tl = RejectEntry(@, t, plan, at)]
  BY DEF RejectCommand
<1>2. Draw(t) /\ UNCHANGED <<flow, ran, aud, rows>>
  BY DEF RejectCommand, auditVars, gatewayVars
<1>3. /\ t \notin used /\ used' = used \cup {t} /\ t \in used'
      /\ \A i \in DOMAIN ui.tl.entries : ui.tl.entries[i].id # t
      /\ ui.tl.active # t /\ ui.card # t /\ flow[t] = NoFlow /\ ran[t] = 0
  BY <1>2, DrawFacts
<1>4. plan \in Plans \cup {NoPlan} /\ at \in Nat \ {0} /\ TimelineOK(ui.tl) /\ IsUi(ui) /\ ApprovalCardIsLive
  BY RoutesAssumption, PhoneAssumption DEF HistInv, ShownInv, RunInv, OwnersInv
<1>5. PICK g, tl : g = NewEntry(t, plan, "FAILED", at) /\ tl = RejectEntry(ui.tl, t, plan, at)
  OBVIOUS
<1>6. Changes(ui.tl, tl, t, {g}) /\ tl.active = ui.tl.active
  BY <1>3, <1>4, <1>5, StartFacts
<1>7. IsNew(g, t, plan, "FAILED", at)
  <2>1. PICK p \in Phases : p = "FAILED"
    BY DEF Phases, TerminalPhases
  <2>2. IsNew(NewEntry(t, plan, p, at), t, plan, p, at)
    BY <1>4, NewEntryFacts
  <2> QED BY <1>5, <2>1, <2>2
<1>8. ui'.tl = tl /\ ui'.card = ui.card /\ ui'.pending = ui.pending
  BY <1>1, <1>4, <1>5, TlField
<1>9. Stopped(t)'
  <2>1. Still(NoFlow, 0)
    BY EmptySeq DEF NoFlow, Still
  <2> QED BY <1>2, <1>3, <1>8, <2>1 DEF Stopped
<1>10. EntryTrue(g)' /\ g.phase # "AWAITING_APPROVAL" /\ g.recorded = FALSE
  <2>1. g.phase = "FAILED" /\ Ended(g) /\ g.id = t /\ g.recorded = FALSE
    BY <1>7 DEF IsNew, Ended, TerminalPhases
  <2>2. ui'.card # g.id
    BY <1>3, <1>8, <2>1
  <2> QED BY <1>9, <2>1, <2>2 DEF EntryTrue
<1>11. FlowsHold
  BY <1>2, SameFlows
<1>12. \A s \in Tasks : /\ Stopped(s) => Stopped(s)'
                        /\ ran[s] = 1 => ran'[s] = 1
                        /\ FlowTrue(flow'[s], ran'[s])
  BY <1>3, <1>8, <1>11, StoppedStays
<1>13. AgentStep(t, {g})
  BY <1>2, <1>3, <1>4, <1>6, <1>8, <1>10, <1>12 DEF AgentStep, ApprovalCardIsLive
<1> QED BY <1>13

(* The task t has been started with the entry e. *)
Started(tl, tm, t, plan, e) ==
    /\ Changes(tl, tm, t, {e}) /\ tm.active = t /\ TimelineOK(tm) /\ Shown(tm, t) /\ EntryOf(tm, t) = e
    /\ e.plan = plan /\ e.phase = "ROUTING" /\ e.granted = FALSE
    /\ plan.permission # "CONFIRM" => Begun(e, t)

(* Starting a task adds its entry, which is shown. *)
LEMMA StartBegins ==
    ASSUME HistInv, NEW t \in Tasks, t \notin used, ui.tl.active = NoTask, NEW plan \in Plans \cup {NoPlan},
           NEW e, e = NewEntry(t, plan, "ROUTING", 0), NEW tl, tl = Start(ui.tl, t, plan)
    PROVE  Started(ui.tl, tl, t, plan, e)
<1>1. TimelineOK(ui.tl) /\ \A i \in DOMAIN ui.tl.entries : ui.tl.entries[i].id # t
  BY DEF HistInv, ShownInv
<1>2. /\ Changes(ui.tl, tl, t, {e}) /\ tl.active = t /\ Shown(tl, t) /\ EntryOf(tl, t) = e
      /\ e \in GoodEntries /\ IsNew(e, t, plan, "ROUTING", 0) /\ ~Ended(e)
  BY <1>1, StartShows
<1>3. TimelineOK(tl)
  BY <1>2 DEF Changes
<1>4. plan.permission # "CONFIRM" => Begun(e, t)
  BY <1>2 DEF IsNew, Begun
<1> QED BY <1>2, <1>3, <1>4 DEF Started, IsNew

(* executeTask is a step about its task. *)
LEMMA ExecuteHist ==
    ASSUME RunInv, HistInv, NEW t \in Tasks, ExecuteSafe(t)
    PROVE  \E s, G : AgentStep(s, G)
<1>1. PICK plan \in {p \in Routes : p.permission = "SAFE"}, at \in Stamps :
        CollectTask([ui EXCEPT !.tl = Start(@, t, plan)], t, plan, at)
  BY DEF ExecuteSafe
<1>2. ~Busy /\ Draw(t) /\ UNCHANGED <<ran, aud, rows>>
  BY DEF ExecuteSafe, auditVars
<1>3. /\ t \notin used /\ used' = used \cup {t} /\ t \in used' /\ ran[t] = 0
      /\ ui.tl.active = NoTask /\ ui.card = NoTask
  BY <1>2, DrawFacts
<1>4. /\ plan \in Plans /\ plan \in Plans \cup {NoPlan} /\ plan.permission # "CONFIRM"
      /\ at \in Nat \ {0} /\ IsUi(ui)
  BY RoutesAssumption, PhoneAssumption DEF RunInv, OwnersInv
<1>5. PICK e, tl, u : /\ e = NewEntry(t, plan, "ROUTING", 0) /\ tl = Start(ui.tl, t, plan)
                      /\ u = [ui EXCEPT !.tl = tl]
  OBVIOUS
<1>6. Changes(ui.tl, tl, t, {e}) /\ tl.active = t /\ TimelineOK(tl) /\ Begun(e, t)
  <2>1. Started(ui.tl, tl, t, plan, e)
    BY <1>3, <1>4, <1>5, StartBegins
  <2> QED BY <1>4, <2>1 DEF Started
<1>7. IsUi(u) /\ u.tl = tl /\ u.card = NoTask /\ CollectTask(u, t, plan, at)
  BY <1>1, <1>3, <1>4, <1>5, TlField
<1>8. PICK S, g : /\ ui'.card = NoTask /\ ui'.pending = u.pending /\ ui'.tl.active \in {t, NoTask}
                  /\ ui'.tl = u.tl \/ Changes(u.tl, ui'.tl, t, FromEvents(u.tl, t, S))
                  /\ Verification \notin S /\ Unverified \notin S
                  /\ Error("expired") \in S => Still(g, 0)
                  /\ FlowTrue(g, 0) /\ flow' = [flow EXCEPT ![t] = g]
  BY <1>4, <1>6, <1>7, CollectTaskRuns
<1>9. Changes(tl, ui'.tl, t, {e} \cup FromEvents(tl, t, S))
  BY <1>6, <1>7, <1>8, ChangesWider DEF Changes
<1>10. ran' = [ran EXCEPT ![t] = 0] /\ flow'[t] = g /\ ran'[t] = 0
  BY <1>2, <1>3, <1>8 DEF RunInv, FlowsInv
<1>11. FlowsHold
  BY <1>3, <1>8, <1>10, NewFlow
<1>12. AgentStep(t, {e} \cup FromEvents(tl, t, S))
  BY <1>2, <1>3, <1>6, <1>7, <1>8, <1>9, <1>10, <1>11, EventsStep
<1> QED BY <1>12

(* A recorded scan is a step about its task. *)
LEMMA ScanHist ==
    ASSUME RunInv, HistInv, NEW t \in Tasks, RecordScan(t)
    PROVE  \E s, G : AgentStep(s, G)
<1>1. PICK plan, events, S : /\ plan = Plan("PHONE", "SAFE")
                /\ events = <<Starting(1), Ready, Progress("accepted", 0), Progress("completed", 1),
                              ToolResult, Verification>>
                /\ S = Emitted \ {Error("expired")}
  OBVIOUS
<1>2. ~Busy /\ Draw(t) /\ ran' = [ran EXCEPT ![t] = 1] /\ UNCHANGED <<flow, aud, rows>>
  BY DEF RecordScan, auditVars
<1>3. PICK at \in Stamps : ui' \in ApplyTaskEvents([ui EXCEPT !.tl = Start(@, t, plan)], t, events, at)
  BY <1>1 DEF RecordScan
<1>4. /\ t \notin used /\ used' = used \cup {t} /\ t \in used' /\ ran[t] = 0 /\ flow[t] = NoFlow
      /\ ui.tl.active = NoTask /\ ui.card = NoTask
  BY <1>2, DrawFacts
<1>5. plan \in Plans \cup {NoPlan} /\ plan.permission # "CONFIRM" /\ at \in Nat \ {0} /\ IsUi(ui)
  BY <1>1, PhoneAssumption DEF RunInv, OwnersInv, Plans, Plan
<1>6. PICK e, tl, u : /\ e = NewEntry(t, plan, "ROUTING", 0) /\ tl = Start(ui.tl, t, plan)
                      /\ u = [ui EXCEPT !.tl = tl]
  OBVIOUS
<1>7. Changes(ui.tl, tl, t, {e}) /\ tl.active = t /\ TimelineOK(tl) /\ Begun(e, t)
  <2>1. Started(ui.tl, tl, t, plan, e)
    BY <1>4, <1>5, <1>6, StartBegins
  <2> QED BY <1>5, <2>1 DEF Started
<1>8. IsUi(u) /\ u.tl = tl /\ u.card = NoTask
  BY <1>4, <1>5, <1>6, TlField
<1>9. events \in Seq(S) /\ S \subseteq Emitted
  <2>1. PICK a, b, c, d, f, h : /\ a = Starting(1) /\ b = Ready /\ c = Progress("accepted", 0)
            /\ d = Progress("completed", 1) /\ f = ToolResult /\ h = Verification
    OBVIOUS
  <2>2. a \in Emitted /\ b \in Emitted /\ c \in Emitted /\ d \in Emitted /\ f \in Emitted /\ h \in Emitted
    BY <2>1, ErrorsAreEmitted
  <2>3. \A x \in {a, b, c, d, f, h} : x # Error("expired")
    BY <2>1, EventsDiffer
  <2>4. a \in S /\ b \in S /\ c \in S /\ d \in S /\ f \in S /\ h \in S
    BY <1>1, <2>2, <2>3
  <2>5. events = <<a, b, c, d, f, h>>
    BY <1>1, <2>1
  <2>6. <<a, b, c, d, f, h>> \in Seq(S)
    BY <2>4
  <2> QED BY <1>1, <2>5, <2>6
<1>10. RunsTo(u, ui', t, S)
  BY <1>3, <1>5, <1>6, <1>7, <1>8, <1>9, EventSequence
<1>11. /\ ui'.card = NoTask /\ ui'.tl.active \in {t, NoTask}
       /\ Changes(tl, ui'.tl, t, FromEvents(tl, t, S))
  BY <1>8, <1>10 DEF RunsTo, SameOwners
<1>12. Changes(tl, ui'.tl, t, {e} \cup FromEvents(tl, t, S))
  BY <1>11, ChangesWider
<1>13. ran'[t] = 1 /\ flow' = [flow EXCEPT ![t] = NoFlow] /\ Error("expired") \notin S
  BY <1>1, <1>2, <1>4 DEF RunInv, FlowsInv
<1>14. FlowTrue(NoFlow, 1)
  BY HasFacts DEF NoFlow, FlowTrue
<1>15. FlowsHold
  BY <1>2, <1>4, <1>13, <1>14, NewFlow
<1>16. AgentStep(t, {e} \cup FromEvents(tl, t, S))
  BY <1>2, <1>4, <1>7, <1>11, <1>12, <1>13, <1>15, EventsStep
<1> QED BY <1>16

(* The start of an observation is a step about its task. *)
LEMMA ObserveHist ==
    ASSUME RunInv, HistInv, NEW t \in Tasks, ObserveLocalModel(t)
    PROVE  \E s, G : AgentStep(s, G)
<1>1. ~Busy /\ Draw(t) /\ flow' = [flow EXCEPT ![t].pc = "observing"] /\ UNCHANGED <<ran, aud, rows>>
      /\ ui' = [ui EXCEPT !.tl = Start(@, t, NoPlan), !.job = t]
  BY DEF ObserveLocalModel, auditVars
<1>2. /\ t \notin used /\ used' = used \cup {t} /\ t \in used' /\ ran[t] = 0 /\ flow[t] = NoFlow
      /\ ui.tl.active = NoTask /\ ui.card = NoTask
  BY <1>1, DrawFacts
<1>3. NoPlan \in Plans \cup {NoPlan} /\ NoPlan.permission # "CONFIRM" /\ IsUi(ui)
  BY DEF RunInv, OwnersInv, NoPlan, Plan
<1>4. PICK e, tl, G, S, g : /\ e = NewEntry(t, NoPlan, "ROUTING", 0) /\ tl = Start(ui.tl, t, NoPlan)
                            /\ S = {} /\ G = {e} \cup FromEvents(tl, t, S)
                            /\ g = [NoFlow EXCEPT !.pc = "observing"]
  OBVIOUS
<1>5. Changes(ui.tl, tl, t, {e}) /\ tl.active = t /\ TimelineOK(tl) /\ Begun(e, t)
  <2>1. Started(ui.tl, tl, t, NoPlan, e)
    BY <1>2, <1>3, <1>4, StartBegins
  <2> QED BY <1>3, <2>1 DEF Started
<1>6. Changes(tl, tl, t, G)
  BY <1>4, <1>5 DEF Changes
<1>7. ui'.tl = tl /\ ui'.card = NoTask
  <2>1. PICK a, b, p, j : ui = [tl |-> a, card |-> b, pending |-> p, job |-> j]
    BY <1>3 DEF IsUi
  <2>2. ui' = [tl |-> tl, card |-> b, pending |-> p, job |-> t]
    BY <1>1, <1>4, <2>1
  <2> QED BY <1>2, <2>1, <2>2, UiFacts
<1>8. flow' = [flow EXCEPT ![t] = g] /\ ran' = [ran EXCEPT ![t] = 0]
  BY <1>1, <1>2, <1>4 DEF RunInv, FlowsInv
<1>9. FlowTrue(g, 0)
  <2>1. g.pc = "observing" /\ g.chan = <<>> /\ g.net = <<>>
    BY <1>4 DEF NoFlow
  <2> QED BY <2>1, HasFacts DEF FlowTrue
<1>10. FlowsHold
  BY <1>2, <1>8, <1>9, NewFlow
<1>11. AgentStep(t, G)
  BY <1>1, <1>2, <1>4, <1>5, <1>6, <1>7, <1>10, EventsStep
<1> QED BY <1>11

(* A request for approval is a step about its task. *)
LEMMA RequestHist ==
    ASSUME RunInv, HistInv, NEW t \in Tasks, RequestApproval(t)
    PROVE  \E s, G : AgentStep(s, G)
<1>1. ~Busy /\ Draw(t) /\ UNCHANGED <<ran, aud, rows>>
  BY DEF RequestApproval, auditVars
<1>2. /\ t \notin used /\ used' = used \cup {t} /\ t \in used' /\ ran[t] = 0 /\ flow[t] = NoFlow
      /\ ui.tl.active = NoTask /\ ui.card = NoTask
  BY <1>1, DrawFacts
<1>3. PICK plan \in {p \in Routes : p.permission = "CONFIRM"}, at \in Stamps :
        /\ ui' = [ui EXCEPT !.tl = AwaitApproval(Start(ui.tl, t, plan), t, at), !.card = t, !.pending = t]
        /\ flow' = [flow EXCEPT ![t].plan = plan]
  BY <1>2 DEF RequestApproval
<1>4. plan \in Plans \cup {NoPlan} /\ plan.permission = "CONFIRM" /\ at \in Nat \ {0} /\ IsUi(ui)
  BY RoutesAssumption, PhoneAssumption DEF RunInv, OwnersInv
<1>5. PICK e, tl, tm, G, g : /\ e = NewEntry(t, plan, "ROUTING", 0) /\ tl = Start(ui.tl, t, plan)
                             /\ tm = AwaitApproval(tl, t, at) /\ G = Became(tl, t, "AWAITING_APPROVAL", "")
                             /\ g = [NoFlow EXCEPT !.plan = plan]
  OBVIOUS
<1>6. /\ Changes(ui.tl, tl, t, {e}) /\ tl.active = t /\ TimelineOK(tl)
      /\ Shown(tl, t) /\ EntryOf(tl, t) = e
      /\ e.plan = plan /\ e.phase = "ROUTING" /\ e.granted = FALSE
  <2>1. Started(ui.tl, tl, t, plan, e)
    BY <1>2, <1>4, <1>5, StartBegins
  <2> QED BY <1>4, <2>1 DEF Started
<1>7. Changes(tl, tm, t, G) /\ tm.active = t
  <2>1. Requested(e) /\ t = tl.active /\ e = EntryOf(tl, t)
    BY <1>4, <1>6 DEF Requested
  <2>2. /\ Changes(tl, AwaitApproval(tl, t, at), t, Became(tl, t, "AWAITING_APPROVAL", ""))
        /\ AwaitApproval(tl, t, at).active = t
    BY <1>4, <1>6, <2>1, AwaitFacts
  <2> QED BY <1>5, <2>2
<1>8. ui'.tl = tm /\ ui'.card = t /\ ui'.pending = t
  <2>1. PICK a, b, p, j : ui = [tl |-> a, card |-> b, pending |-> p, job |-> j]
    BY <1>4 DEF IsUi
  <2>2. ui' = [tl |-> tm, card |-> t, pending |-> t, job |-> j]
    BY <1>3, <1>5, <2>1
  <2> QED BY <2>2, UiFacts
<1>9. flow' = [flow EXCEPT ![t] = g] /\ ran' = [ran EXCEPT ![t] = 0]
  BY <1>1, <1>2, <1>3, <1>5 DEF RunInv, FlowsInv
<1>10. FlowTrue(g, 0)
  <2>1. g.pc = "none" /\ g.chan = <<>> /\ g.net = <<>>
    BY <1>5 DEF NoFlow
  <2> QED BY <2>1, HasFacts DEF FlowTrue
<1>11. FlowsHold
  BY <1>2, <1>9, <1>10, NewFlow
<1>12. \A s \in Tasks : /\ Stopped(s) => Stopped(s)'
                        /\ ran[s] = 1 => ran'[s] = 1
                        /\ FlowTrue(flow'[s], ran'[s])
  BY <1>2, <1>8, <1>11, StoppedStays
<1>13. ASSUME NEW h \in G PROVE h.recorded = FALSE /\ EntryTrue(h)'
  <2>1. PICK i \in DOMAIN tl.entries :
          /\ tl.entries[i].id = t /\ h.id = t /\ h.plan = tl.entries[i].plan
          /\ h.granted = tl.entries[i].granted /\ h.recorded = FALSE /\ h.phase = "AWAITING_APPROVAL"
    BY <1>5, <1>13 DEF Became
  <2>2. tl.entries[i] = e
    BY <1>6, <2>1 DEF Changes
  <2>3. h.plan = plan /\ h.granted = FALSE /\ h.phase = "AWAITING_APPROVAL"
    BY <1>6, <2>1, <2>2
  <2>4. ~Ended(h)
    BY <2>3 DEF Ended, TerminalPhases
  <2>5. EntryTrue(h)'
    BY <1>4, <2>3, <2>4 DEF EntryTrue
  <2> QED BY <2>1, <2>5
<1>14. Changes(ui.tl, tm, t, G)
  BY <1>6, <1>7, ChangesCompose
<1>15. AgentStep(t, G)
  BY <1>1, <1>2, <1>7, <1>8, <1>12, <1>13, <1>14 DEF AgentStep
<1> QED BY <1>15

(* Commands. *)
LEMMA CommandHist ==
    ASSUME RunInv, HistInv, NEW t \in Tasks,
           RejectCommand(t) \/ ExecuteSafe(t) \/ RecordScan(t) \/ ObserveLocalModel(t) \/ RequestApproval(t)
    PROVE  \E s, G : AgentStep(s, G)
BY RejectHist, ExecuteHist, ScanHist, ObserveHist, RequestHist

(* One event about a task that is active in u, or has just ended. *)
LEMMA OneEventRuns ==
    ASSUME NEW u, IsUi(u), u.card = NoTask, TimelineOK(u.tl), NEW t \in Tasks, u.tl.active \in {t, NoTask},
           NEW S, S \subseteq Emitted, NEW ev \in S, NEW at \in Nat \ {0}, NEW v, v = ApplyTaskEvent(u, t, ev, at)
    PROVE  /\ IsUi(v) /\ v.card = NoTask /\ v.pending = u.pending /\ v.tl.active \in {t, NoTask}
           /\ v.tl = u.tl \/ Changes(u.tl, v.tl, t, FromEvents(u.tl, t, S))
<1>1. CASE u.tl.active = t
  <2>1. RunsTo(u, u, t, S)
    BY <1>1, NoEvents DEF RunsTo, SameOwners
  <2>2. RunsTo(u, v, t, S)
    BY <1>1, <2>1, OneMoreEvent
  <2> QED BY <2>2 DEF RunsTo, SameOwners
<1>2. CASE u.tl.active # t
  <2>1. v = u
    BY <1>2 DEF ApplyTaskEvent
  <2> QED BY <2>1
<1> QED BY <1>1, <1>2

(* The task that the card is about waits for its approval. *)
LEMMA CardFacts ==
    ASSUME RunInv, HistInv, NEW t \in Tasks, ui.card = t
    PROVE  /\ ui.pending = t /\ ui.tl.active = t /\ t \in used /\ ran[t] = 0 /\ Still(flow[t], ran[t])
           /\ flow[t].plan \in Plans /\ ~Stopped(t) /\ TimelineOK(ui.tl)
           /\ \A i \in DOMAIN ui.tl.entries : ui.tl.entries[i].id = t =>
                 /\ ui.tl.entries[i].phase = "AWAITING_APPROVAL" /\ ~ui.tl.entries[i].granted
                 /\ ui.tl.entries[i].plan.permission = "CONFIRM" /\ ~Ended(ui.tl.entries[i])
<1>1. ui.pending = t /\ ui.tl.active = t /\ TimelineOK(ui.tl) /\ t \in used /\ ~Stopped(t)
  BY TimelineAssumption DEF HistInv, ApprovalCardIsLive, ShownInv, RunInv, OwnersInv, Stopped
<1>2. flow[t].pc = "none" /\ Confirm(t) /\ FlowOK(flow[t], ran[t])
  BY DEF RunInv, OwnersInv, FlowsInv
<1>3. ran[t] = 0 /\ flow[t].up = "none" /\ flow[t].net = <<>>
  BY <1>2 DEF FlowOK, Confirm
<1>4. Still(flow[t], ran[t])
  BY <1>2, <1>3, EmptySeq DEF Still
<1>5. flow[t].plan \in Plans
  BY <1>2 DEF FlowOK, FlowType, Confirm, NoPlan, Plan
<1>6. ASSUME NEW i \in DOMAIN ui.tl.entries, ui.tl.entries[i].id = t
      PROVE  /\ ui.tl.entries[i].phase = "AWAITING_APPROVAL" /\ ~ui.tl.entries[i].granted
             /\ ui.tl.entries[i].plan.permission = "CONFIRM" /\ ~Ended(ui.tl.entries[i])
  <2>1. EntryTrue(ui.tl.entries[i])
    BY DEF HistInv, TruthInv
  <2> QED BY <1>6, <2>1 DEF EntryTrue, Ended, TerminalPhases
<1> QED BY <1>1, <1>3, <1>4, <1>5, <1>6

(* The execution of a granted task begins, or fails. *)
LEMMA ApproveHist ==
    ASSUME RunInv, HistInv, NEW t \in Tasks, Approve(t)
    PROVE  \E s, G : AgentStep(s, G)
<1>1. ui.card = t /\ UNCHANGED <<used, ran, aud, rows>>
  BY DEF Approve, auditVars
<1>0. PICK at \in Stamps :
        LET w == [Granted(t, at) EXCEPT !.pending = NoTask]
        IN \/ CollectTask(w, t, flow[t].plan, at)
           \/ ui' = ApplyTaskEvent(w, t, Error("failed"), at) /\ UNCHANGED flow
  BY DEF Approve
<1>2. PICK u :
        /\ u = [Granted(t, at) EXCEPT !.pending = NoTask]
        /\ \/ CollectTask(u, t, flow[t].plan, at)
           \/ ui' = ApplyTaskEvent(u, t, Error("failed"), at) /\ UNCHANGED flow
  BY <1>0
<1>3. /\ ui.tl.active = t /\ t \in used /\ ran[t] = 0
      /\ flow[t].plan \in Plans /\ ~Stopped(t) /\ TimelineOK(ui.tl)
      /\ \A i \in DOMAIN ui.tl.entries : ui.tl.entries[i].id = t =>
            /\ ui.tl.entries[i].phase = "AWAITING_APPROVAL" /\ ~ui.tl.entries[i].granted
            /\ ui.tl.entries[i].plan.permission = "CONFIRM" /\ ~Ended(ui.tl.entries[i])
  BY <1>1, CardFacts
<1>4. at \in Nat \ {0} /\ IsUi(ui)
  BY PhoneAssumption DEF RunInv, OwnersInv
<1>5. PICK tl, E : tl = GrantApproval(ui.tl, t, at) /\ E = GrantedIn(ui.tl, t)
  OBVIOUS
<1>6. Changes(ui.tl, tl, t, E) /\ tl.active \in {t, NoTask} /\ TimelineOK(tl)
  <2>1. Changes(ui.tl, tl, t, E) /\ tl.active \in {t, NoTask}
    BY <1>3, <1>4, <1>5, GrantFacts
  <2> QED BY <2>1 DEF Changes
<1>7. IsUi(u) /\ u.tl = tl /\ u.card = NoTask /\ u.pending = NoTask
  <2>1. PICK c : c = CloseCard(t, tl)
    OBVIOUS
  <2>2. c = [tl |-> tl, card |-> NoTask]
    BY <1>1, <2>1 DEF CloseCard
  <2>3. PICK w : w = Granted(t, at)
    OBVIOUS
  <2>4. w = [ui EXCEPT !.tl = c.tl, !.card = c.card]
    BY <1>5, <2>1, <2>3 DEF Granted
  <2>5. PICK a, b, p, j : ui = [tl |-> a, card |-> b, pending |-> p, job |-> j]
    BY <1>4 DEF IsUi
  <2>6. w = [tl |-> tl, card |-> NoTask, pending |-> p, job |-> j]
    BY <2>2, <2>4, <2>5
  <2>7. u = [tl |-> tl, card |-> NoTask, pending |-> NoTask, job |-> j]
    BY <1>2, <2>3, <2>6
  <2> QED BY <2>7, UiFacts
<1>8. ASSUME NEW e \in E
      PROVE  Begun(e, t) /\ \E i \in DOMAIN ui.tl.entries : ui.tl.entries[i].id = t /\ ~Ended(ui.tl.entries[i])
  <2>1. PICK i \in DOMAIN ui.tl.entries :
          ui.tl.entries[i].id = t /\ e.id = t /\ e.granted = TRUE /\ e.phase = "ROUTING" /\ e \in GoodEntries
    BY <1>5, <1>8 DEF GrantedIn
  <2> QED BY <1>3, <2>1 DEF Begun, Ended, TerminalPhases
<1>9. ran \in [Tasks -> {0, 1}] /\ flow \in [Tasks -> FlowType] /\ FlowTrue(flow[t], ran[t])
  BY DEF RunInv, FlowsInv, HistInv, TruthInv
<1>10. ran' = [ran EXCEPT ![t] = 0] /\ ran'[t] = 0
  BY <1>1, <1>3, <1>9
<1>11. CASE CollectTask(u, t, flow[t].plan, at)
  <2>1. PICK S, g : /\ ui'.card = NoTask /\ ui'.pending = u.pending /\ ui'.tl.active \in {t, NoTask}
                    /\ ui'.tl = u.tl \/ Changes(u.tl, ui'.tl, t, FromEvents(u.tl, t, S))
                    /\ Verification \notin S /\ Unverified \notin S
                    /\ Error("expired") \in S => Still(g, 0)
                    /\ FlowTrue(g, 0) /\ flow' = [flow EXCEPT ![t] = g]
    BY <1>3, <1>4, <1>6, <1>7, <1>11, CollectTaskRuns
  <2>2. Changes(tl, tl, t, E)
    BY <1>6 DEF Changes
  <2>3. Changes(tl, ui'.tl, t, E \cup FromEvents(tl, t, S))
    BY <1>7, <2>1, <2>2, ChangesWider
  <2>4. flow'[t] = g
    BY <1>9, <2>1
  <2>5. (ran[t] = 1 => 0 = 1) /\ (Stopped(t) => Still(g, 0))
    BY <1>3
  <2>6. FlowsHold
    BY <1>10, <2>1, <2>5, OneFlow
  <2>7. AgentStep(t, E \cup FromEvents(tl, t, S))
    BY <1>1, <1>3, <1>6, <1>7, <1>8, <1>10, <2>1, <2>3, <2>4, <2>6, EventsStep
  <2> QED BY <2>7
<1>12. CASE ui' = ApplyTaskEvent(u, t, Error("failed"), at) /\ UNCHANGED flow
  <2>1. PICK S, ev : S = {ev} /\ ev = Error("failed")
    OBVIOUS
  <2>2. ev \in S /\ S \subseteq Emitted /\ Verification \notin S /\ Unverified \notin S /\ Error("expired") \notin S
    BY <2>1, ErrorsAreEmitted, EventsDiffer
  <2>3. /\ ui'.card = NoTask /\ ui'.tl.active \in {t, NoTask}
        /\ ui'.tl = u.tl \/ Changes(u.tl, ui'.tl, t, FromEvents(u.tl, t, S))
    BY <1>4, <1>6, <1>7, <1>12, <2>1, <2>2, OneEventRuns
  <2>4. Changes(tl, tl, t, E)
    BY <1>6 DEF Changes
  <2>5. Changes(tl, ui'.tl, t, E \cup FromEvents(tl, t, S))
    BY <1>7, <2>3, <2>4, ChangesWider
  <2>6. FlowsHold
    BY <1>1, <1>12, SameFlows
  <2>7. AgentStep(t, E \cup FromEvents(tl, t, S))
    BY <1>1, <1>3, <1>6, <1>8, <2>2, <2>3, <2>5, <2>6, EventsStep
  <2> QED BY <2>7
<1> QED BY <1>2, <1>11, <1>12

(* The active task ends otherwise than by an event. *)
LEMMA EndStep ==
    ASSUME RunInv, HistInv, FlowsHold, UNCHANGED <<used, aud, rows>>, NEW t \in Tasks, t = ui.tl.active,
           NEW phase \in {"FAILED", "CANCELLED"}, NEW why \in Reasons,
           Changes(ui.tl, ui'.tl, t, Became(ui.tl, t, phase, why)), ui'.tl.active = NoTask,
           ui'.card = NoTask, Still(flow'[t], ran'[t]) \/ (why = "" /\ ~Waits(ui.tl, t))
    PROVE  AgentStep(t, Became(ui.tl, t, phase, why))
<1>1. PICK G : G = Became(ui.tl, t, phase, why)
  OBVIOUS
<1>2. /\ t \in used /\ ui.card \in {t, NoTask} /\ TimelineOK(ui.tl)
      /\ \A i \in DOMAIN ui.tl.entries : EntryTrue(ui.tl.entries[i])
  BY TimelineAssumption DEF HistInv, ShownInv, ApprovalCardIsLive, TruthInv
<1>3. Still(flow'[t], ran'[t]) => Stopped(t)'
  BY <1>2, TimelineAssumption DEF Stopped
<1>4. ASSUME NEW g \in G
      PROVE  /\ g.recorded = FALSE /\ EntryTrue(g)' /\ g.phase # "AWAITING_APPROVAL"
             /\ \E i \in DOMAIN ui.tl.entries : ui.tl.entries[i].id = t /\ ~Ended(ui.tl.entries[i])
  <2>1. PICK i \in DOMAIN ui.tl.entries :
          /\ ui.tl.entries[i].id = t /\ g.id = t /\ g.plan = ui.tl.entries[i].plan
          /\ g.granted = ui.tl.entries[i].granted /\ g.recorded = FALSE /\ g.phase = phase /\ g.why = why
    BY <1>1, <1>4 DEF Became
  <2>2. PICK e : e = ui.tl.entries[i]
    OBVIOUS
  <2>3. ~Ended(e) /\ EntryTrue(e) /\ (e.phase = "AWAITING_APPROVAL" => Waits(ui.tl, t))
    BY <1>2, <2>1, <2>2 DEF TimelineOK, Waits
  <2>4. g.phase \notin {"VERIFIED", "UNVERIFIED", "AWAITING_APPROVAL"} /\ Ended(g)
    BY <2>1 DEF Ended, TerminalPhases
  <2>5. ApprovalOutcome(g) \in Unapproved => Stopped(t)'
    <3>1. CASE Still(flow'[t], ran'[t])
      BY <1>3, <3>1
    <3>2. CASE why = "" /\ ~Waits(ui.tl, t)
      <4>1. g.plan.permission = "CONFIRM" => g.granted
        BY <2>1, <2>2, <2>3, <3>2 DEF EntryTrue
      <4>2. ApprovalOutcome(g) \notin Unapproved
        BY <2>1, <3>2, <4>1 DEF ApprovalOutcome, Unapproved
      <4> QED BY <4>2
    <3> QED BY <3>1, <3>2
  <2>6. EntryTrue(g)'
    <3>1. ui'.card # g.id
      BY <2>1, TimelineAssumption
    <3> QED BY <2>1, <2>4, <2>5, <3>1 DEF EntryTrue
  <2> QED BY <2>1, <2>2, <2>3, <2>4, <2>6
<1>5. \A s \in Tasks : /\ Stopped(s) => Stopped(s)'
                       /\ ran[s] = 1 => ran'[s] = 1
                       /\ FlowTrue(flow'[s], ran'[s])
  BY StoppedStays
<1>6. AgentStep(t, G)
  BY <1>1, <1>2, <1>4, <1>5 DEF AgentStep
<1> QED BY <1>1, <1>6

(* The approval that the card is about comes to an end. *)
LEMMA EndCardHist ==
    ASSUME RunInv, HistInv, NEW t \in Tasks, ui.card = t, UNCHANGED <<used, flow, ran, aud, rows>>,
           NEW at \in Stamps, NEW phase \in {"FAILED", "CANCELLED"},
           NEW why \in {"expired", "denied", "cancelled"},
           ui'.tl = EndApproval(ui.tl, t, phase, why, at), ui'.card = NoTask
    PROVE  \E s, G : AgentStep(s, G)
<1>1. /\ ui.tl.active = t /\ Still(flow[t], ran[t]) /\ TimelineOK(ui.tl)
      /\ \A i \in DOMAIN ui.tl.entries : ui.tl.entries[i].id = t =>
            ui.tl.entries[i].phase = "AWAITING_APPROVAL"
  BY CardFacts
<1>2. at \in Nat \ {0} /\ phase \in TerminalPhases /\ why \in Reasons
  BY PhoneAssumption DEF TerminalPhases, Reasons
<1>3. Changes(ui.tl, ui'.tl, t, Became(ui.tl, t, phase, why)) /\ ui'.tl.active = NoTask
  BY <1>1, <1>2, EndApprovalFacts
<1>4. FlowsHold
  BY SameFlows
<1>5. AgentStep(t, Became(ui.tl, t, phase, why))
  BY <1>1, <1>2, <1>3, <1>4, EndStep
<1> QED BY <1>5

(* An approval expires or is denied. *)
LEMMA SettleHist ==
    ASSUME RunInv, HistInv, NEW t \in Tasks, ExpirePending(t) \/ Deny(t)
    PROVE  \E s, G : AgentStep(s, G)
<1>1. ui.pending = t /\ UNCHANGED <<used, flow, ran, aud, rows>>
  BY DEF ExpirePending, Deny, auditVars, gatewayVars
<1>2. PICK at \in Stamps, phase \in {"FAILED", "CANCELLED"}, why \in {"expired", "denied", "cancelled"} :
        Settle(t, EndApproval(ui.tl, t, phase, why, at))
  BY DEF ExpirePending, Deny, ExpireApproval, DenyApproval
<1>3. PICK tl, c : tl = EndApproval(ui.tl, t, phase, why, at) /\ c = CloseCard(t, tl)
  OBVIOUS
<1>4. ui'.tl = c.tl /\ ui'.card = c.card
  <2>1. ui' = [ui EXCEPT !.tl = c.tl, !.card = c.card, !.pending = NoTask]
    BY <1>2, <1>3 DEF Settle
  <2>2. PICK a, b, p, j : ui = [tl |-> a, card |-> b, pending |-> p, job |-> j]
    BY DEF RunInv, OwnersInv, IsUi
  <2>3. ui' = [tl |-> c.tl, card |-> c.card, pending |-> NoTask, job |-> j]
    BY <2>1, <2>2
  <2> QED BY <2>3, UiFacts
<1>5. CASE ui.card = t
  <2>1. c = [tl |-> tl, card |-> NoTask]
    BY <1>3, <1>5 DEF CloseCard
  <2> QED BY <1>1, <1>3, <1>4, <1>5, <2>1, EndCardHist
<1>6. CASE ui.card # t
  <2>1. c = [tl |-> ui.tl, card |-> ui.card]
    BY <1>3, <1>6 DEF CloseCard
  <2>2. ui.card = NoTask
    BY <1>1, <1>6 DEF HistInv, ApprovalCardIsLive
  <2>3. AgentStep(NoTask, {})
    BY <1>1, <1>4, <2>1, <2>2, SameFlows, QuietStep
  <2> QED BY <2>3
<1> QED BY <1>5, <1>6

(* The active task, if there is one, is cancelled. *)
LEMMA CancelledHist ==
    ASSUME RunInv, HistInv, FlowsHold, UNCHANGED <<used, aud, rows>>, NEW at \in Stamps,
           ui'.tl = CancelActive(ui.tl, at), ui'.card = NoTask,
           \A t \in Tasks : Waits(ui.tl, t) => Still(flow'[t], ran'[t])
    PROVE  \E s, G : AgentStep(s, G)
<1>1. at \in Nat \ {0} /\ TimelineOK(ui.tl) /\ used \subseteq Tasks /\ ui.tl.active \in used \cup {NoTask}
  BY PhoneAssumption DEF RunInv, OwnersInv, HistInv, ShownInv
<1>2. CASE ui.tl.active = NoTask
  <2>1. ui.card = NoTask
    BY <1>2 DEF HistInv, ApprovalCardIsLive
  <2>2. ui'.tl = ui.tl
    BY <1>1, <1>2, CancelIdle
  <2>3. AgentStep(NoTask, {})
    BY <2>1, <2>2, QuietStep
  <2> QED BY <2>3
<1>3. CASE ui.tl.active # NoTask
  <2>1. PICK t \in Tasks : t = ui.tl.active
    BY <1>1, <1>3
  <2>2. PICK phase \in {"FAILED", "CANCELLED"}, why \in Reasons :
          phase = "CANCELLED" /\ why = IF Waits(ui.tl, t) THEN "cancelled" ELSE ""
    BY DEF Reasons
  <2>3. Changes(ui.tl, ui'.tl, t, Became(ui.tl, t, phase, why)) /\ ui'.tl.active = NoTask
    <3>1. PICK tl, G, v : tl = ui.tl /\ G = Became(tl, t, "CANCELLED", why) /\ v = ui'.tl
      OBVIOUS
    <3>2. TimelineOK(tl) /\ t = tl.active /\ why = IF Waits(tl, t) THEN "cancelled" ELSE ""
      BY <1>1, <2>1, <2>2, <3>1
    <3>3. Changes(tl, CancelActive(tl, at), t, Became(tl, t, "CANCELLED", why)) /\ CancelActive(tl, at).active = NoTask
      BY <1>1, <3>2, CancelFacts
    <3>4. v = CancelActive(tl, at)
      BY <3>1
    <3> QED BY <2>2, <3>1, <3>3, <3>4
  <2>4. Still(flow'[t], ran'[t]) \/ (why = "" /\ ~Waits(ui.tl, t))
    BY <2>2
  <2>5. AgentStep(t, Became(ui.tl, t, phase, why))
    BY <2>1, <2>3, <2>4, EndStep
  <2> QED BY <2>5
<1> QED BY <1>2, <1>3

(* Without a pending execution, the active task is cancelled with its job. *)
LEMMA CancelJobHist ==
    ASSUME RunInv, HistInv, ui.pending = NoTask, UNCHANGED <<used, ran, aud, rows>>, NEW at \in Stamps,
           ui' = [ui EXCEPT !.tl = CancelActive(@, at), !.card = NoTask, !.job = NoTask],
           flow' = [t \in Tasks |-> IF t = ui.job THEN Gone(flow[t]) ELSE flow[t]]
    PROVE  \E s, G : AgentStep(s, G)
<1>1. PICK tl : tl = CancelActive(ui.tl, at)
  OBVIOUS
<1>2. ui'.tl = tl /\ ui'.card = NoTask
  <2>1. PICK a, b, p, j : ui = [tl |-> a, card |-> b, pending |-> p, job |-> j]
    BY DEF RunInv, OwnersInv, IsUi
  <2>2. ui' = [tl |-> tl, card |-> NoTask, pending |-> p, job |-> NoTask]
    <3>1. ui' = [ui EXCEPT !.tl = tl, !.card = NoTask, !.job = NoTask]
      BY <1>1
    <3> QED BY <2>1, <3>1
  <2>3. PICK v : v = ui'
    OBVIOUS
  <2>4. v.tl = tl /\ v.card = NoTask
    BY <2>2, <2>3
  <2> QED BY <2>3, <2>4
<1>3. FlowsHold
  <2>1. PICK C : C = {ui.job}
    OBVIOUS
  <2>2. flow' = [s \in Tasks |-> IF s \in C THEN Gone(flow[s]) ELSE flow[s]]
    BY <2>1
  <2> QED BY <2>2, GoneFlows
<1>4. ASSUME NEW t \in Tasks, Waits(ui.tl, t) PROVE Still(flow'[t], ran'[t])
  <2>1. flow[t].pc = "none" /\ Still(flow[t], ran[t])
    BY <1>4, WaitingFacts
  <2>2. t # ui.job
    BY <2>1 DEF RunInv, OwnersInv
  <2> QED BY <2>1, <2>2
<1> QED BY <1>1, <1>2, <1>3, <1>4, CancelledHist

(* cancelActiveTask is a step about the active task. *)
LEMMA CancelHist ==
    ASSUME RunInv, HistInv, CancelTask
    PROVE  \E s, G : AgentStep(s, G)
<1>1. PICK at \in Stamps : ui' = [ui EXCEPT !.tl = CancelActive(@, at), !.card = NoTask, !.job = NoTask]
  BY DEF CancelTask
<1>2. /\ ui.pending = NoTask /\ UNCHANGED <<used, ran, aud, rows>>
      /\ flow' = [t \in Tasks |-> IF t = ui.job THEN Gone(flow[t]) ELSE flow[t]]
  BY DEF CancelTask, auditVars
<1> QED BY <1>1, <1>2, CancelJobHist

(* An operation on the link begins with the cancellation of the pending    *)
(* execution, or of the active task.                                       *)
LEMMA OperationHist ==
    ASSUME RunInv, HistInv, NEW op, LinkOperation(op)
    PROVE  \E s, G : AgentStep(s, G)
<1>1. UNCHANGED <<used, ran, aud, rows>>
  BY DEF LinkOperation, auditVars
<1>2. CASE ui.pending = NoTask
  <2>1. PICK at \in Stamps :
          /\ ui' = [ui EXCEPT !.tl = CancelActive(@, at), !.card = NoTask, !.job = NoTask]
          /\ flow' = [t \in Tasks |-> IF t = ui.job THEN Gone(flow[t]) ELSE flow[t]]
    BY <1>2, TimelineAssumption DEF LinkOperation
  <2> QED BY <1>1, <1>2, <2>1, CancelJobHist
<1>3. CASE ui.pending # NoTask
  <2>1. PICK at \in Stamps, t \in Tasks :
          /\ ui.pending = t /\ UNCHANGED flow
          /\ LET c == CloseCard(t, DenyApproval(ui.tl, t, "cancelled", at)) IN
             ui' = [ui EXCEPT !.tl = CancelActive(c.tl, at), !.card = NoTask, !.pending = NoTask]
    BY <1>3 DEF LinkOperation
  <2>2. PICK phase \in {"FAILED", "CANCELLED"}, why \in {"expired", "denied", "cancelled"} :
          phase = "CANCELLED" /\ why = "cancelled"
    OBVIOUS
  <2>3. PICK tl, c, tm : /\ tl = EndApproval(ui.tl, t, phase, why, at) /\ c = CloseCard(t, tl)
                         /\ tm = CancelActive(c.tl, at)
    OBVIOUS
  <2>4. ui'.tl = tm /\ ui'.card = NoTask
    <3>1. PICK a, b, p, j : ui = [tl |-> a, card |-> b, pending |-> p, job |-> j]
      BY DEF RunInv, OwnersInv, IsUi
    <3>2. ui' = [ui EXCEPT !.tl = tm, !.card = NoTask, !.pending = NoTask]
      BY <2>1, <2>2, <2>3 DEF DenyApproval
    <3>3. ui' = [tl |-> tm, card |-> NoTask, pending |-> NoTask, job |-> j]
      BY <3>1, <3>2
    <3> QED BY <3>3, UiFacts
  <2>5. CASE ui.card = t
    <3>1. c.tl = tl
      BY <2>3, <2>5 DEF CloseCard
    <3>2. TimelineOK(tl) /\ tl.active = NoTask
      <4>1. /\ ui.tl.active = t /\ TimelineOK(ui.tl)
            /\ \A i \in DOMAIN ui.tl.entries : ui.tl.entries[i].id = t =>
                  ui.tl.entries[i].phase = "AWAITING_APPROVAL"
        BY <2>5, CardFacts
      <4>2. at \in Nat \ {0} /\ phase \in TerminalPhases /\ why \in Reasons
        BY PhoneAssumption DEF TerminalPhases, Reasons
      <4>3. Changes(ui.tl, tl, t, Became(ui.tl, t, phase, why)) /\ tl.active = NoTask
        BY <2>3, <4>1, <4>2, EndApprovalFacts
      <4> QED BY <4>3 DEF Changes
    <3>3. tm = tl
      BY <2>3, <3>1, <3>2, CancelIdle
    <3> QED BY <1>1, <2>1, <2>3, <2>4, <2>5, <3>3, EndCardHist
  <2>6. CASE ui.card # t
    <3>1. c.tl = ui.tl
      BY <2>3, <2>6 DEF CloseCard
    <3>2. FlowsHold
      BY <1>1, <2>1, SameFlows
    <3>3. \A s \in Tasks : Waits(ui.tl, s) => Still(flow'[s], ran'[s])
      BY <1>1, <2>1, WaitingFacts
    <3> QED BY <1>1, <2>3, <2>4, <3>1, <3>2, <3>3, CancelledHist
  <2> QED BY <2>5, <2>6
<1> QED BY <1>2, <1>3

(* forgetHub cancels the active task, and not its job. *)
LEMMA ForgetHist ==
    ASSUME RunInv, HistInv, ForgetAnswers
    PROVE  \E s, G : AgentStep(s, G)
<1>1. UNCHANGED <<used, flow, ran, aud, rows>>
  BY DEF ForgetAnswers, auditVars, gatewayVars
<1>2. PICK at \in Stamps : ui' = [ui EXCEPT !.tl = CancelActive(@, at), !.card = NoTask]
  BY DEF ForgetAnswers
<1>3. PICK tl : tl = CancelActive(ui.tl, at)
  OBVIOUS
<1>4. ui'.tl = tl /\ ui'.card = NoTask
  <2>1. PICK a, b, p, j : ui = [tl |-> a, card |-> b, pending |-> p, job |-> j]
    BY DEF RunInv, OwnersInv, IsUi
  <2>2. ui' = [tl |-> tl, card |-> NoTask, pending |-> p, job |-> j]
    BY <1>2, <1>3, <2>1
  <2> QED BY <2>2, UiFacts
<1>5. FlowsHold
  BY <1>1, SameFlows
<1>6. \A t \in Tasks : Waits(ui.tl, t) => Still(flow'[t], ran'[t])
  BY <1>1, WaitingFacts
<1> QED BY <1>1, <1>3, <1>4, <1>5, <1>6, CancelledHist

(* The answer of a rotation takes the card away, and leaves its task       *)
(* waiting.                                                                *)
LEMMA RotatedHist ==
    ASSUME RunInv, HistInv, RotationAnswers
    PROVE  \E s, G : AgentStep(s, G)
<1>1. UNCHANGED <<used, flow, ran, aud, rows>> /\ CardGoes("lost")
  BY DEF RotationAnswers, auditVars, gatewayVars
<1>2. ui'.tl = ui.tl /\ ui'.card = NoTask /\ ui'.pending = ui.pending
  <2>1. PICK a, b, p, j : ui = [tl |-> a, card |-> b, pending |-> p, job |-> j]
    BY DEF RunInv, OwnersInv, IsUi
  <2>2. ui' = [tl |-> a, card |-> NoTask, pending |-> p, job |-> j]
    BY <2>1 DEF RotationAnswers
  <2> QED BY <2>1, <2>2, UiFacts
<1>3. FlowsHold
  BY <1>1, SameFlows
<1>4. CASE ui.card = NoTask
  <2>1. AgentStep(NoTask, {})
    BY <1>1, <1>2, <1>3, <1>4, QuietStep
  <2> QED BY <2>1
<1>5. CASE ui.card # NoTask
  <2>1. PICK t \in Tasks : ui.card = t
    BY <1>5 DEF RunInv, OwnersInv
  <2>2. PICK G : G = {e \in GoodEntries : e.id = t /\ \E i \in DOMAIN ui.tl.entries : e = ui.tl.entries[i]}
    OBVIOUS
  <2>3. /\ ui.tl.active = t /\ t \in used /\ TimelineOK(ui.tl)
        /\ \A i \in DOMAIN ui.tl.entries : ui.tl.entries[i].id = t =>
              /\ ui.tl.entries[i].phase = "AWAITING_APPROVAL" /\ ~ui.tl.entries[i].granted
              /\ ui.tl.entries[i].plan.permission = "CONFIRM" /\ ~Ended(ui.tl.entries[i])
    BY <2>1, CardFacts
  <2>4. Changes(ui.tl, ui'.tl, t, G)
    BY <1>2, <2>2, <2>3 DEF Changes, TimelineOK
  <2>5. Lost(t)'
    <3>1. decided'[t] = decided[t] \cup {"lost"}
      BY <1>1, <2>1 DEF CardGoes
    <3> QED BY <3>1 DEF Lost
  <2>6. ASSUME NEW g \in G
        PROVE  /\ g.recorded = FALSE /\ EntryTrue(g)'
               /\ \E i \in DOMAIN ui.tl.entries : ui.tl.entries[i].id = t /\ ~Ended(ui.tl.entries[i])
    <3>1. PICK i \in DOMAIN ui.tl.entries : g = ui.tl.entries[i] /\ g.id = t /\ g \in GoodEntries
      BY <2>2
    <3>2. ~Ended(g) /\ g.phase = "AWAITING_APPROVAL" /\ ~g.granted /\ g.plan.permission = "CONFIRM"
      BY <2>3, <3>1
    <3>3. g.recorded = FALSE
      BY <3>1, <3>2, ActiveEntry
    <3>4. ui'.card # g.id /\ g.phase \notin {"VERIFIED", "UNVERIFIED"}
      BY <1>2, <3>1, <3>2, TimelineAssumption
    <3>5. EntryTrue(g)'
      BY <3>2, <3>4 DEF EntryTrue
    <3> QED BY <3>1, <3>2, <3>3, <3>5
  <2>7. \A s \in Tasks : /\ Stopped(s) => Stopped(s)'
                         /\ ran[s] = 1 => ran'[s] = 1
                         /\ FlowTrue(flow'[s], ran'[s])
    BY <1>1, <1>2, <1>3, StoppedStays
  <2>8. AgentStep(t, G)
    BY <1>1, <1>2, <2>1, <2>3, <2>4, <2>5, <2>6, <2>7 DEF AgentStep
  <2> QED BY <2>8
<1> QED BY <1>4, <1>5

(* What happens to the Hub link is a step about one task at most. *)
LEMMA LinkHist ==
    ASSUME RunInv, HistInv, LinkActs
    PROVE  \E s, G : AgentStep(s, G)
BY OperationHist, ForgetHist, RotatedHist DEF LinkActs

(* The entries of the active task, when it has begun. *)
LEMMA ActiveBegun ==
    ASSUME RunInv, HistInv, NEW t \in Tasks, t = ui.tl.active, flow[t].pc # "none",
           NEW E, E = {e \in GoodEntries : e.id = t /\ \E i \in DOMAIN ui.tl.entries : e = ui.tl.entries[i]}
    PROVE  /\ Changes(ui.tl, ui.tl, t, E) /\ t \in used /\ ui.card = NoTask
           /\ \A e \in E : /\ Begun(e, t)
                           /\ \E i \in DOMAIN ui.tl.entries :
                                 ui.tl.entries[i].id = t /\ ~Ended(ui.tl.entries[i])
<1>1. TimelineOK(ui.tl) /\ t \in used /\ ui.card = NoTask
  <2>1. ui.card # t
    BY DEF RunInv, OwnersInv
  <2> QED BY <2>1, TimelineAssumption DEF HistInv, ShownInv, ApprovalCardIsLive
<1>2. Changes(ui.tl, ui.tl, t, E)
  BY <1>1 DEF Changes, TimelineOK
<1>3. ASSUME NEW e \in E
      PROVE  /\ Begun(e, t)
             /\ \E i \in DOMAIN ui.tl.entries : ui.tl.entries[i].id = t /\ ~Ended(ui.tl.entries[i])
  <2>1. PICK i \in DOMAIN ui.tl.entries : e = ui.tl.entries[i] /\ e.id = t /\ e \in GoodEntries
    BY <1>3
  <2>2. EntryTrue(e) /\ ~Ended(e)
    BY <1>1, <2>1 DEF HistInv, TruthInv, TimelineOK
  <2>3. e.phase # "AWAITING_APPROVAL"
    BY <2>1, WaitingFacts DEF Waits
  <2>4. Begun(e, t)
    BY <2>1, <2>2, <2>3 DEF EntryTrue, Begun
  <2> QED BY <2>1, <2>2, <2>4
<1> QED BY <1>1, <1>2, <1>3

(* A part of a channel. *)
LEMMA PartFacts ==
    ASSUME NEW s \in Seq(Emitted), NEW a \in Nat \ {0}, NEW b \in Nat, b <= Len(s), a <= b + 1,
           NEW p, p = SubSeq(s, a, b)
    PROVE  p \in Seq(EventsIn(s)) /\ \A x : Has(p, x) => Has(s, x)
<1>1. Len(s) \in Nat /\ DOMAIN s = 1 .. Len(s) /\ s \in Seq(EventsIn(s))
  BY LenProperties, ChannelFacts
<1>2. \A i \in a .. b : s[i] \in EventsIn(s)
  BY <1>1, ElementOfSeq
<1>3. /\ p \in Seq(EventsIn(s)) /\ Len(p) = (IF a <= b THEN b - a + 1 ELSE 0)
      /\ \A i \in 1 .. b - a + 1 : p[i] = s[a + i - 1]
  BY <1>1, <1>2, SubSeqProperties
<1>4. DOMAIN p = 1 .. Len(p)
  BY <1>3, LenProperties
<1>5. ASSUME NEW x, Has(p, x) PROVE Has(s, x)
  <2>1. PICK i \in DOMAIN p : p[i] = x
    BY <1>5 DEF Has
  <2>2. i \in 1 .. b - a + 1 /\ a + i - 1 \in 1 .. Len(s)
    BY <1>1, <1>3, <1>4, <2>1
  <2>3. s[a + i - 1] = x
    BY <1>3, <2>1, <2>2
  <2> QED BY <1>1, <2>2, <2>3 DEF Has
<1> QED BY <1>3, <1>5

(* The events of a flow reach the view model. *)
LEMMA CollectHist ==
    ASSUME RunInv, HistInv, NEW t \in Tasks, Collect(t)
    PROVE  \E s, G : AgentStep(s, G)
<1>1. PICK f, chan, n : /\ f = flow[t] /\ chan = f.chan
                        /\ n = IF f.plan.target = "PHONE" THEN Len(chan) ELSE 1
  OBVIOUS
<1>2. /\ f.pc # "none" /\ chan # <<>> /\ UNCHANGED <<used, ran, aud, rows>>
      /\ flow' = [flow EXCEPT ![t].chan = SubSeq(chan, n + 1, Len(chan))]
  BY <1>1 DEF Collect, Running, Live, auditVars
<1>3. PICK at \in Stamps : ui' \in ApplyTaskEvents(ui, t, SubSeq(chan, 1, n), at)
  BY <1>1 DEF Collect
<1>4. /\ FlowOK(f, ran[t]) /\ f \in FlowType /\ chan \in Seq(Emitted) /\ FlowTrue(f, ran[t])
      /\ ran \in [Tasks -> {0, 1}] /\ flow \in [Tasks -> FlowType]
  BY <1>1 DEF RunInv, FlowsInv, FlowType, HistInv, TruthInv
<1>5. at \in Nat \ {0} /\ IsUi(ui) /\ TimelineOK(ui.tl) /\ flow[t].pc # "none"
  BY <1>1, <1>2, PhoneAssumption DEF RunInv, OwnersInv, HistInv, ShownInv
<1>6. Len(chan) \in Nat \ {0} /\ n \in 1 .. Len(chan)
  <2>1. Len(chan) \in Nat \ {0}
    BY <1>2, <1>4, EmptySeq
  <2> QED BY <1>1, <2>1
<1>7. PICK S, part, rest, g : /\ S = EventsIn(chan) /\ part = SubSeq(chan, 1, n)
                              /\ rest = SubSeq(chan, n + 1, Len(chan)) /\ g = [f EXCEPT !.chan = rest]
  OBVIOUS
<1>8. part \in Seq(S) /\ S \subseteq Emitted /\ \A x : Has(rest, x) => Has(chan, x)
  <2>1. part \in Seq(S)
    <3>1. PICK a \in Nat \ {0}, b \in Nat : a = 1 /\ b = n /\ b <= Len(chan) /\ a <= b + 1
      BY <1>6
    <3>2. part = SubSeq(chan, a, b)
      BY <1>7, <3>1
    <3>3. part \in Seq(EventsIn(chan))
      BY <1>4, <3>1, <3>2, PartFacts
    <3> QED BY <1>7, <3>3
  <2>3. \A x : Has(rest, x) => Has(chan, x)
    <3>0. n + 1 \in Nat \ {0} /\ Len(chan) \in Nat /\ Len(chan) <= Len(chan) /\ n + 1 <= Len(chan) + 1
      BY <1>6
    <3>1. PICK a \in Nat \ {0}, b \in Nat : a = n + 1 /\ b = Len(chan) /\ b <= Len(chan) /\ a <= b + 1
      BY <3>0
    <3>2. rest = SubSeq(chan, a, b)
      BY <1>7, <3>1
    <3> QED BY <1>4, <3>1, <3>2, PartFacts
  <2> QED BY <1>7, <2>1, <2>3 DEF EventsIn
<1>9. /\ g.pc = f.pc /\ g.up = f.up /\ g.net = f.net /\ g.outcome = f.outcome /\ g.chan = rest
      /\ flow' = [flow EXCEPT ![t] = g] /\ flow'[t] = g /\ ran' = [ran EXCEPT ![t] = ran[t]]
  BY <1>1, <1>2, <1>4, <1>7 DEF FlowType
<1>10. Still(f, ran[t]) => Still(g, ran[t])
  BY <1>9 DEF Still
<1>11. FlowTrue(g, ran[t])
  BY <1>1, <1>4, <1>8, <1>9, <1>10 DEF FlowTrue
<1>12. FlowsHold
  <2>1. (ran[t] = 1 => ran[t] = 1) /\ (Stopped(t) => Still(g, ran[t]))
    BY <1>1, <1>10 DEF Stopped
  <2> QED BY <1>9, <1>11, <2>1, OneFlow
<1>13. CASE ui.tl.active # t
  <2>0. ui' \in ApplyTaskEvents(ui, t, part, at)
    BY <1>3, <1>7
  <2>1. ui' = ui
    BY <1>8, <1>13, <2>0, LateEvents
  <2>2. AgentStep(NoTask, {})
    BY <1>2, <1>12, <2>1, QuietStep
  <2> QED BY <2>2
<1>14. CASE ui.tl.active = t
  <2>1. PICK E : E = {e \in GoodEntries : e.id = t /\ \E i \in DOMAIN ui.tl.entries : e = ui.tl.entries[i]}
    OBVIOUS
  <2>2. /\ Changes(ui.tl, ui.tl, t, E) /\ t \in used /\ ui.card = NoTask
        /\ \A e \in E : /\ Begun(e, t)
                        /\ \E i \in DOMAIN ui.tl.entries : ui.tl.entries[i].id = t /\ ~Ended(ui.tl.entries[i])
    BY <1>5, <1>14, <2>1, ActiveBegun
  <2>3. RunsTo(ui, ui', t, S)
    BY <1>3, <1>5, <1>7, <1>8, <1>14, <2>2, EventSequence
  <2>4. /\ ui'.card = NoTask /\ ui'.tl.active \in {t, NoTask}
        /\ Changes(ui.tl, ui'.tl, t, FromEvents(ui.tl, t, S))
    BY <2>2, <2>3 DEF RunsTo, SameOwners
  <2>5. Changes(ui.tl, ui'.tl, t, E \cup FromEvents(ui.tl, t, S))
    BY <2>4, ChangesWider
  <2>6. /\ Verification \in S \/ Unverified \in S => ran'[t] = 1
        /\ Error("expired") \in S => Still(flow'[t], ran'[t])
    BY <1>1, <1>2, <1>4, <1>7, <1>9, <1>10 DEF EventsIn, FlowTrue
  <2>7. AgentStep(t, E \cup FromEvents(ui.tl, t, S))
    BY <1>2, <1>12, <1>14, <2>2, <2>4, <2>5, <2>6, EventsStep
  <2> QED BY <2>7
<1> QED BY <1>13, <1>14

(* The flow of a job ends. *)
LEMMA OverFlows ==
    ASSUME RunInv, HistInv, NEW t \in Tasks, flow' = [flow EXCEPT ![t] = Gone(@)], UNCHANGED ran
    PROVE  FlowsHold
<1>1. PICK C : C = {t}
  OBVIOUS
<1>2. flow' = [s \in Tasks |-> IF s \in C THEN Gone(flow[s]) ELSE flow[s]]
  BY <1>1 DEF RunInv, FlowsInv
<1> QED BY <1>2, GoneFlows

(* A job ends or fails. *)
LEMMA JobHist ==
    ASSUME RunInv, HistInv, NEW t \in Tasks, JobEnds(t) \/ JobFails(t)
    PROVE  \E s, G : AgentStep(s, G)
<1>1. flow[t].pc # "none" /\ UNCHANGED <<used, ran, aud, rows>>
  BY DEF JobEnds, JobFails, Running, Live, In, auditVars
<1>0. PICK at \in Stamps : JobIsOver(t, ApplyTaskEvent(ui, t, Error("failed"), at))
  BY DEF JobEnds, JobFails
<1>2. PICK v : v = ApplyTaskEvent(ui, t, Error("failed"), at) /\ JobIsOver(t, v)
  BY <1>0
<1>3. at \in Nat \ {0} /\ IsUi(ui) /\ TimelineOK(ui.tl)
  BY <1>1, PhoneAssumption DEF RunInv, OwnersInv, HistInv, ShownInv
<1>4. PICK j : ui' = [v EXCEPT !.job = j]
  BY <1>2 DEF JobIsOver
<1>5. FlowsHold
  BY <1>1, <1>2, OverFlows DEF JobIsOver
<1>6. CASE ui.tl.active # t
  <2>1. v = ui
    BY <1>2, <1>6 DEF ApplyTaskEvent
  <2>2. ui'.tl = ui.tl /\ ui'.card = ui.card /\ ui'.pending = ui.pending
    BY <1>3, <1>4, <2>1, JobField
  <2>3. AgentStep(NoTask, {})
    BY <1>1, <1>5, <2>2, QuietStep
  <2> QED BY <2>3
<1>7. CASE ui.tl.active = t
  <2>1. PICK E : E = {e \in GoodEntries : e.id = t /\ \E i \in DOMAIN ui.tl.entries : e = ui.tl.entries[i]}
    OBVIOUS
  <2>2. /\ Changes(ui.tl, ui.tl, t, E) /\ t \in used /\ ui.card = NoTask
        /\ \A e \in E : /\ Begun(e, t)
                        /\ \E i \in DOMAIN ui.tl.entries : ui.tl.entries[i].id = t /\ ~Ended(ui.tl.entries[i])
    BY <1>1, <1>7, <2>1, ActiveBegun
  <2>3. PICK S, ev : S = {ev} /\ ev = Error("failed")
    OBVIOUS
  <2>4. ev \in S /\ S \subseteq Emitted /\ Verification \notin S /\ Unverified \notin S /\ Error("expired") \notin S
    BY <2>3, ErrorsAreEmitted, EventsDiffer
  <2>5. /\ IsUi(v) /\ v.card = NoTask /\ v.pending = ui.pending /\ v.tl.active \in {t, NoTask}
        /\ v.tl = ui.tl \/ Changes(ui.tl, v.tl, t, FromEvents(ui.tl, t, S))
    BY <1>2, <1>3, <1>7, <2>2, <2>3, <2>4, OneEventRuns
  <2>6. ui'.tl = v.tl /\ ui'.card = NoTask
    BY <1>4, <2>2, <2>5, JobField
  <2>7. Changes(ui.tl, ui'.tl, t, E \cup FromEvents(ui.tl, t, S))
    BY <2>2, <2>5, <2>6, ChangesWider
  <2>8. AgentStep(t, E \cup FromEvents(ui.tl, t, S))
    BY <1>1, <1>5, <1>7, <2>2, <2>4, <2>5, <2>6, <2>7, EventsStep
  <2> QED BY <2>8
<1> QED BY <1>6, <1>7

(* The end of an observation is a step about its task. *)
LEMMA ObservedHist ==
    ASSUME RunInv, HistInv, NEW t \in Tasks, ObservationEnds(t)
    PROVE  \E s, G : AgentStep(s, G)
<1>1. flow[t].pc # "none" /\ UNCHANGED <<used, ran, aud, rows>>
  BY DEF ObservationEnds, In, auditVars
<1>0. PICK at \in Stamps : JobIsOver(t, [ui EXCEPT !.tl = CompleteObservation(@, t, at)])
  BY DEF ObservationEnds
<1>2. PICK tl, v : tl = CompleteObservation(ui.tl, t, at) /\ v = [ui EXCEPT !.tl = tl] /\ JobIsOver(t, v)
  BY <1>0
<1>3. at \in Nat \ {0} /\ IsUi(ui) /\ TimelineOK(ui.tl)
  BY <1>1, PhoneAssumption DEF RunInv, OwnersInv, HistInv, ShownInv
<1>4. PICK j : ui' = [v EXCEPT !.job = j]
  BY <1>2 DEF JobIsOver
<1>5. FlowsHold
  BY <1>1, <1>2, OverFlows DEF JobIsOver
<1>6. IsUi(v) /\ v.tl = tl /\ v.card = ui.card /\ v.pending = ui.pending
  BY <1>2, <1>3, TlField
<1>7. ui'.tl = tl /\ ui'.card = ui.card /\ ui'.pending = ui.pending
  BY <1>4, <1>6, JobField
<1>8. CASE ui.tl.active # t
  <2>1. tl = ui.tl
    BY <1>2, <1>8 DEF CompleteObservation, Replace
  <2>2. AgentStep(NoTask, {})
    BY <1>1, <1>5, <1>7, <2>1, QuietStep
  <2> QED BY <2>2
<1>9. CASE ui.tl.active = t
  <2>1. PICK phase \in {"FAILED", "CANCELLED"}, why \in Reasons : phase = "FAILED" /\ why = ""
    BY DEF Reasons
  <2>2. Changes(ui.tl, tl, t, Became(ui.tl, t, "FAILED", "")) /\ tl.active = NoTask
    BY <1>2, <1>3, <1>9, ObservationFacts
  <2>3. Changes(ui.tl, ui'.tl, t, Became(ui.tl, t, phase, why)) /\ ui'.tl.active = NoTask
    BY <1>7, <2>1, <2>2
  <2>4. ui.card = NoTask /\ ~Waits(ui.tl, t)
    BY <1>1, <1>9, ActiveBegun, WaitingFacts
  <2>5. AgentStep(t, Became(ui.tl, t, phase, why))
    BY <1>1, <1>5, <1>7, <1>9, <2>1, <2>3, <2>4, EndStep
  <2> QED BY <2>5
<1> QED BY <1>8, <1>9

(* A step of a gateway. *)
LEMMA GatewayHist ==
    ASSUME RunInv, HistInv, NEW t \in Tasks, GatewayStep(t), UNCHANGED <<ui, used, aud, rows>>
    PROVE  AgentStep(NoTask, {})
<1>1. Goes(t)
  BY GatewayGoes DEF RunInv, HistInv, TruthInv
<1>2. PICK g, q : /\ flow' = [flow EXCEPT ![t] = g] /\ ran' = [ran EXCEPT ![t] = q]
                  /\ GoesOn(flow[t], ran[t], g, q)
  BY <1>1 DEF Goes
<1>3. FlowTrue(g, q) /\ (ran[t] = 1 => q = 1) /\ (Stopped(t) => Still(g, q))
  BY <1>2 DEF GoesOn, Stopped
<1>4. FlowsHold
  BY <1>2, <1>3, OneFlow
<1> QED BY <1>4, QuietStep

-----------------------------------------------------------------------------
(* Restarts and the audit.                                                 *)

(* The process dies. *)
LEMMA DeathHist ==
    ASSUME RunInv, HistInv, ProcessDies
    PROVE  HistInv'
<1>1. /\ ui' = NoUi /\ aud' = Loading /\ UNCHANGED <<used, rows, ran>>
      /\ flow' = [t \in Tasks |-> IF Live(t) THEN Gone(flow[t]) ELSE flow[t]]
  BY DEF ProcessDies
<1>2. FlowsHold
  <2>1. PICK C : C = {t \in Tasks : Live(t)}
    OBVIOUS
  <2>2. flow' = [s \in Tasks |-> IF s \in C THEN Gone(flow[s]) ELSE flow[s]]
    BY <1>1, <2>1
  <2> QED BY <1>1, <2>2, GoneFlows
<1>3. ui'.pending = NoTask /\ ui'.card = NoTask /\ ui'.tl.active = NoTask /\ ui'.tl.entries = <<>>
      /\ ui'.tl = [active |-> NoTask, entries |-> <<>>]
  BY <1>1 DEF NoUi, EmptyTimeline
<1>4. aud'.pc = "loading" /\ aud'.queue = <<>> /\ aud'.tried = {}
      /\ aud' = [pc |-> aud'.pc, queue |-> aud'.queue, tried |-> aud'.tried]
  BY <1>1 DEF Loading
<1>5. \A s \in Tasks : /\ Stopped(s) => Stopped(s)'
                       /\ ran[s] = 1 => ran'[s] = 1
                       /\ FlowTrue(flow'[s], ran'[s])
  BY <1>1, <1>2, <1>3, StoppedStays
<1>6. <<>> \in Seq(GoodEntries) /\ DOMAIN <<>> = {}
  BY EmptySeq
<1>7. ShownInv'
  <2>1. TimelineOK(ui'.tl)
    BY <1>3, <1>6 DEF TimelineOK
  <2> QED BY <1>3, <1>6, <2>1 DEF ShownInv
<1>8. ApprovalCardIsLive'
  BY <1>3, <1>6 DEF ApprovalCardIsLive, Entries
<1>9. TruthInv'
  <2>1. ASSUME NEW r \in rows PROVE RowTrue(r)'
    <3>1. RowTrue(r) /\ r.id \in Tasks
      BY DEF HistInv, TruthInv, TableInv, RowType
    <3> QED BY <1>5, <3>1 DEF RowTrue
  <2> QED BY <1>1, <1>3, <1>4, <1>5, <1>6, <2>1 DEF TruthInv
<1>10. TableInv'
  <2>1. \A r \in rows : r.id # NoTask
    BY TimelineAssumption DEF HistInv, TableInv, RowType
  <2> QED BY <1>1, <1>3, <1>4, <1>6, <2>1 DEF HistInv, TableInv
<1>11. QueueInv'
  BY <1>4, <1>6 DEF QueueInv
<1> QED BY <1>7, <1>8, <1>9, <1>10, <1>11 DEF HistInv

(* An entry that was restored from a row. *)
Restores(r, e) ==
    /\ e \in GoodEntries /\ e.id = r.id /\ e.phase = r.phase /\ e.at = r.at /\ e.recorded = TRUE /\ Ended(e)

(* toTimelineEntry restores a row. *)
LEMMA RestoredFacts ==
    ASSUME NEW r \in RowType
    PROVE  Restores(r, RestoredEntry(r))
<1>1. r.id \in Tasks /\ r.plan \in Plans \cup {NoPlan} /\ r.phase \in TerminalPhases /\ r.at \in Nat \ {0}
  BY DEF RowType
<1>2. r.phase \in Phases /\ r.at \in Nat
  BY <1>1 DEF Phases
<1>3. PICK n, e : n = NewEntry(r.id, r.plan, r.phase, r.at) /\ e = [n EXCEPT !.recorded = TRUE]
  OBVIOUS
<1>4. IsNew(n, r.id, r.plan, r.phase, r.at)
  BY <1>1, <1>2, <1>3, NewEntryFacts
<1>5. n \in EntryType /\ n.id = r.id /\ n.phase = r.phase /\ n.at = r.at
  BY <1>4 DEF IsNew
<1>6. e \in EntryType
  BY <1>3, <1>5 DEF EntryType
<1>7. e.id = r.id /\ e.phase = r.phase /\ e.at = r.at /\ e.recorded = TRUE
  BY <1>3, <1>5 DEF EntryType
<1>8. Ended(e) /\ e.at # 0
  BY <1>1, <1>7 DEF Ended
<1>9. Restores(r, e)
  BY <1>6, <1>7, <1>8 DEF Restores, GoodEntries
<1> QED BY <1>3, <1>9 DEF RestoredEntry

(* No row is older than itself. *)
LEMMA NotOlder ==
    ASSUME NEW r \in RowType
    PROVE  ~Older(r, r)
<1>1. r.at \in Nat /\ r.id \in Nat
  BY PhoneAssumption DEF RowType
<1> QED BY <1>1 DEF Older

(* The rows in order are different ones. *)
LEMMA SortedRows ==
    ASSUME HistInv, NEW s \in Sorted(rows, Older)
    PROVE  /\ DOMAIN s = 1 .. Cardinality(rows) /\ Cardinality(rows) \in Nat
           /\ \A i \in DOMAIN s : s[i] \in rows
           /\ \A i, j \in DOMAIN s : s[i].id = s[j].id => i = j
<1>1. /\ IsFiniteSet(rows) /\ rows \subseteq RowType
      /\ \A r, q \in rows : r.id = q.id => r = q
  BY DEF HistInv, TableInv
<1>2. Cardinality(rows) \in Nat
  BY <1>1, FS_CardinalityType
<1>3. /\ s \in [1 .. Cardinality(rows) -> rows]
      /\ \A i, j \in DOMAIN s : i < j => Older(s[i], s[j])
  BY DEF Sorted
<1>4. \A r \in rows : ~Older(r, r)
  BY <1>1, NotOlder
<1>5. ASSUME NEW i \in DOMAIN s, NEW j \in DOMAIN s, s[i].id = s[j].id PROVE i = j
  <2>1. s[i] \in rows /\ s[j] \in rows /\ i \in Nat /\ j \in Nat
    BY <1>2, <1>3
  <2>2. s[i] = s[j]
    BY <1>1, <1>5, <2>1
  <2>3. ~(i < j) /\ ~(j < i)
    BY <1>3, <1>4, <2>1, <2>2
  <2> QED BY <2>1, <2>3
<1> QED BY <1>2, <1>3, <1>5

(* The rows are restored before the entries that are shown. *)
RestoredTimeline(tm) ==
    /\ TimelineOK(tm) /\ tm.active = ui.tl.active
    /\ \A j \in DOMAIN tm.entries :
         \/ \E i \in DOMAIN ui.tl.entries : tm.entries[j] = ui.tl.entries[i]
         \/ \E r \in rows : Restores(r, tm.entries[j])

(* mergeRestoredAudit restores rows. *)
LEMMA MergeFacts ==
    ASSUME HistInv, aud.pc = "loading", NEW s \in Sorted(rows, Older),
           NEW tm, tm = MergeRestored(ui.tl, [i \in DOMAIN s |-> RestoredEntry(s[i])])
    PROVE  RestoredTimeline(tm)
<1>1. TimelineOK(ui.tl) /\ aud.tried = {} /\ rows \subseteq RowType
  BY DEF HistInv, ShownInv, TableInv
<1>2. /\ DOMAIN s = 1 .. Cardinality(rows) /\ Cardinality(rows) \in Nat
      /\ \A i \in DOMAIN s : s[i] \in rows
      /\ \A i, j \in DOMAIN s : s[i].id = s[j].id => i = j
  BY SortedRows
<1>3. PICK a, es, c, rs, q, k :
        /\ a = ui.tl.active /\ es = ui.tl.entries /\ c = Cardinality(rows)
        /\ rs = [i \in DOMAIN s |-> RestoredEntry(s[i])] /\ q = rs \o es /\ k = TakeLast(q)
  OBVIOUS
<1>4. tm = [active |-> a, entries |-> k] /\ tm.active = a /\ tm.entries = k
  <2>1. PICK x, y : ui.tl = [active |-> x, entries |-> y]
    BY <1>1 DEF TimelineOK
  <2> QED BY <1>3, <2>1 DEF MergeRestored
<1>5. \A i \in 1 .. c : \E r \in rows : r = s[i] /\ Restores(r, rs[i])
  BY <1>1, <1>2, <1>3, RestoredFacts
<1>6. rs \in Seq(GoodEntries) /\ Len(rs) = c /\ c \in Nat
  <2>1. DOMAIN rs = 1 .. c /\ c \in Nat
    BY <1>2, <1>3
  <2>2. \A i \in 1 .. c : rs[i] \in GoodEntries
    BY <1>5 DEF Restores
  <2>3. rs \in [1 .. c -> GoodEntries]
    BY <1>3, <2>1, <2>2
  <2>4. rs \in Seq(GoodEntries)
    BY <2>1, <2>3, SeqDef
  <2> QED BY <2>1, <2>4, LenProperties
<1>7. es \in Seq(GoodEntries) /\ Len(es) \in Nat /\ DOMAIN es = 1 .. Len(es)
  BY <1>1, <1>3, LenProperties DEF TimelineOK
<1>8. PICK l : l = Len(es) /\ l \in Nat
  BY <1>7
<1>9. /\ q \in Seq(GoodEntries) /\ DOMAIN q = 1 .. c + l
      /\ \A i \in 1 .. c + l : q[i] = IF i <= c THEN rs[i] ELSE es[i - c]
  <2>1. /\ q \in Seq(GoodEntries) /\ Len(q) = c + l
        /\ \A i \in 1 .. c + l : q[i] = IF i <= c THEN rs[i] ELSE es[i - c]
    BY <1>3, <1>6, <1>7, <1>8, ConcatProperties
  <2> QED BY <2>1, LenProperties
<1>10. k \in Seq(GoodEntries) /\ IsEndOf(k, q)
  BY <1>3, <1>9, TakeLastFacts
<1>11. PICK d \in Nat : \A j \in DOMAIN k : j + d \in 1 .. c + l /\ k[j] = q[j + d]
  BY <1>9, <1>10 DEF IsEndOf
<1>12. DOMAIN k \subseteq Nat
  BY <1>10, LenProperties
<1>13. \A i \in 1 .. c + l : \/ i \in 1 .. c /\ q[i] = rs[i]
                             \/ i - c \in DOMAIN es /\ q[i] = es[i - c]
  BY <1>6, <1>7, <1>8, <1>9
<1>14. \A i \in 1 .. c, j \in DOMAIN es : rs[i].id # es[j].id
  <2>1. \A r \in rows, j \in DOMAIN es : r.id # es[j].id
    BY <1>1, <1>3 DEF HistInv, TableInv
  <2> QED BY <1>5, <2>1 DEF Restores
<1>15. \A i, j \in 1 .. c : rs[i].id = rs[j].id => i = j
  BY <1>2, <1>3, <1>5 DEF Restores
<1>16. \A i, j \in DOMAIN es : es[i].id = es[j].id => i = j
  BY <1>1, <1>3 DEF TimelineOK
<1>17. ASSUME NEW i \in 1 .. c + l, NEW j \in 1 .. c + l, q[i].id = q[j].id PROVE i = j
  <2>1. i \in Int /\ j \in Int /\ c \in Int
    BY <1>6, <1>8
  <2>2. CASE i \in 1 .. c /\ q[i] = rs[i]
    BY <1>13, <1>14, <1>15, <1>17, <2>2
  <2>3. CASE i - c \in DOMAIN es /\ q[i] = es[i - c]
    <3>1. j - c \in DOMAIN es /\ q[j] = es[j - c]
      BY <1>13, <1>14, <1>17, <2>3
    <3>2. i - c = j - c
      BY <1>16, <1>17, <2>3, <3>1
    <3> QED BY <2>1, <3>2
  <2> QED BY <1>13, <2>2, <2>3
<1>18. \A i \in 1 .. c + l : q[i].id = a <=> ~Ended(q[i])
  <2>1. \A i \in 1 .. c : rs[i].id # a /\ Ended(rs[i])
    <3>1. \A r \in rows : r.id # a
      BY <1>3 DEF HistInv, TableInv
    <3> QED BY <1>5, <3>1 DEF Restores
  <2>2. \A i \in DOMAIN es : es[i].id = a <=> ~Ended(es[i])
    BY <1>1, <1>3 DEF TimelineOK
  <2> QED BY <1>13, <2>1, <2>2
<1>19. \A i, j \in DOMAIN k : k[i].id = k[j].id => i = j
  <2> SUFFICES ASSUME NEW i \in DOMAIN k, NEW j \in DOMAIN k, k[i].id = k[j].id PROVE i = j
    OBVIOUS
  <2>1. i + d = j + d
    BY <1>11, <1>17
  <2> QED BY <1>12, <2>1
<1>20. \A i \in DOMAIN k : k[i].id = a <=> ~Ended(k[i])
  BY <1>11, <1>18
<1>21. TimelineOK(tm)
  BY <1>4, <1>10, <1>19, <1>20 DEF TimelineOK
<1>22. \A j \in DOMAIN k : (\E i \in DOMAIN es : k[j] = es[i]) \/ \E r \in rows : Restores(r, k[j])
  BY <1>5, <1>11, <1>13
<1> QED BY <1>3, <1>4, <1>21, <1>22 DEF RestoredTimeline

(* What is true of an entry depends on the runs and the card. *)
LEMMA SameTruth ==
    ASSUME UNCHANGED <<flow, ran, used>>, ui'.card = ui.card
    PROVE  /\ \A e : EntryTrue(e)' <=> EntryTrue(e)
           /\ \A r : RowTrue(r)' <=> RowTrue(r)
           /\ (\A t \in Tasks : FlowTrue(flow[t], ran[t])) => \A t \in Tasks : FlowTrue(flow'[t], ran'[t])
<1>1. \A t : Stopped(t)' <=> Stopped(t)
  BY DEF Stopped
<1>2. \A e : EntryTrue(e)' <=> EntryTrue(e)
  BY <1>1 DEF EntryTrue
<1>3. \A r : RowTrue(r)' <=> RowTrue(r)
  BY <1>1 DEF RowTrue
<1> QED BY <1>2, <1>3

(* The card is about the active task, which has no row. *)
LEMMA CardIsActive ==
    ASSUME HistInv
    PROVE  \A r \in rows : ui.card # r.id
BY TimelineAssumption DEF HistInv, ApprovalCardIsLive, TableInv, RowType

(* The observer's state is a record of three fields. *)
AudIs(a, pc, queue, tried) ==
    /\ a.pc = pc /\ a.queue = queue /\ a.tried = tried
    /\ a = [pc |-> a.pc, queue |-> a.queue, tried |-> a.tried]

(* The updates of the observer's state change the fields they name. *)
LEMMA AudUpdates ==
    ASSUME NEW a, NEW m, NEW n, NEW x, AudIs(a, m, n, x), NEW w, NEW q, NEW y
    PROVE  /\ AudIs([a EXCEPT !.pc = w, !.tried = y], w, n, y)
           /\ AudIs([a EXCEPT !.pc = w], w, n, x)
           /\ AudIs([a EXCEPT !.queue = q], m, q, x)
           /\ AudIs([a EXCEPT !.queue = q, !.tried = y], m, q, y)
<1>1. a = [pc |-> m, queue |-> n, tried |-> x]
  BY DEF AudIs
<1>2. /\ [a EXCEPT !.pc = w, !.tried = y] = [pc |-> w, queue |-> n, tried |-> y]
      /\ [a EXCEPT !.pc = w] = [pc |-> w, queue |-> n, tried |-> x]
      /\ [a EXCEPT !.queue = q] = [pc |-> m, queue |-> q, tried |-> x]
      /\ [a EXCEPT !.queue = q, !.tried = y] = [pc |-> m, queue |-> q, tried |-> y]
  <2>1. [a EXCEPT !.pc = w, !.tried = y] = [pc |-> w, queue |-> n, tried |-> y]
    <3>1. PICK b : b = [a EXCEPT !.pc = w, !.tried = y]
      OBVIOUS
    <3>2. b = [pc |-> w, queue |-> n, tried |-> y]
      BY <1>1, <3>1
    <3> QED BY <3>1, <3>2
  <2>2. [a EXCEPT !.pc = w] = [pc |-> w, queue |-> n, tried |-> x]
    BY <1>1
  <2>3. [a EXCEPT !.queue = q] = [pc |-> m, queue |-> q, tried |-> x]
    BY <1>1
  <2>4. [a EXCEPT !.queue = q, !.tried = y] = [pc |-> m, queue |-> q, tried |-> y]
    <3>1. PICK b : b = [a EXCEPT !.queue = q, !.tried = y]
      OBVIOUS
    <3>2. b = [pc |-> m, queue |-> q, tried |-> y]
      BY <1>1, <3>1
    <3> QED BY <3>1, <3>2
  <2> QED BY <2>1, <2>2, <2>3, <2>4
<1>3. /\ AudIs([pc |-> w, queue |-> n, tried |-> y], w, n, y)
      /\ AudIs([pc |-> w, queue |-> n, tried |-> x], w, n, x)
      /\ AudIs([pc |-> m, queue |-> q, tried |-> x], m, q, x)
      /\ AudIs([pc |-> m, queue |-> q, tried |-> y], m, q, y)
  BY DEF AudIs
<1> QED BY <1>2, <1>3

(* The table is loaded. *)
LEMMA LoadedHist ==
    ASSUME RunInv, HistInv, aud.pc = "loading", UNCHANGED <<flow, ran, used, decided, rows>>,
           NEW tm, RestoredTimeline(tm), ui'.tl = tm, ui'.card = ui.card, ui'.pending = ui.pending,
           NEW ids, ids = {r.id : r \in rows}, AudIs(aud', "watching", aud.queue, ids)
    PROVE  HistInv'
<1>1. ui'.tl = tm /\ ui'.card = ui.card /\ ui'.pending = ui.pending
  OBVIOUS
<1>2. /\ aud'.pc = "watching" /\ aud'.queue = <<>> /\ aud'.tried = {r.id : r \in rows}
      /\ aud' = [pc |-> aud'.pc, queue |-> aud'.queue, tried |-> aud'.tried]
  BY DEF HistInv, TableInv, AudIs
<1>3. TimelineOK(tm) /\ tm.active = ui.tl.active
  BY DEF RestoredTimeline
<1>4. ASSUME NEW j \in DOMAIN tm.entries, NEW e, e = tm.entries[j]
      PROVE  /\ e.id \in used /\ EntryTrue(e) /\ (e.phase = "AWAITING_APPROVAL" => e.id = ui.card \/ Lost(e.id))
             /\ e.recorded => e.id \in aud'.tried
             /\ \A r \in rows : r.id = e.id => e.id \in aud'.tried /\ Agree(r, e)
  <2>1. CASE \E i \in DOMAIN ui.tl.entries : e = ui.tl.entries[i]
    <3>1. PICK i \in DOMAIN ui.tl.entries : e = ui.tl.entries[i]
      BY <2>1
    <3>2. e.id \in used /\ EntryTrue(e) /\ (e.phase = "AWAITING_APPROVAL" => e.id = ui.card \/ Lost(e.id))
      BY <3>1 DEF HistInv, ShownInv, TruthInv, ApprovalCardIsLive, Entries
    <3>3. aud.tried = {}
      BY DEF HistInv, TableInv
    <3>4. ~e.recorded /\ \A r \in rows : r.id # e.id
      BY <3>1, <3>3 DEF HistInv, TableInv
    <3> QED BY <3>2, <3>4
  <2>2. CASE \E r \in rows : Restores(r, e)
    <3>1. PICK r \in rows : Restores(r, e)
      BY <2>2
    <3>2. r.id \in used /\ RowTrue(r) /\ ui.card # r.id /\ \A s \in rows : s.id = r.id => s = r
      BY CardIsActive DEF HistInv, TableInv, TruthInv
    <3>3. e.phase # "AWAITING_APPROVAL"
      BY <3>1 DEF Restores, Ended, TerminalPhases
    <3>4. EntryTrue(e)
      BY <3>1, <3>2, <3>3 DEF Restores, RowTrue, EntryTrue
    <3>5. e.id \in aud'.tried
      BY <1>2, <3>1 DEF Restores
    <3>6. \A s \in rows : s.id = e.id => Agree(s, e)
      BY <3>1, <3>2 DEF Restores, Agree
    <3> QED BY <3>1, <3>2, <3>3, <3>4, <3>5, <3>6 DEF Restores
  <2> QED BY <1>4, <2>1, <2>2 DEF RestoredTimeline
<1>5. /\ \A e : EntryTrue(e)' <=> EntryTrue(e)
      /\ \A r : RowTrue(r)' <=> RowTrue(r)
      /\ \A t \in Tasks : FlowTrue(flow'[t], ran'[t])
  BY <1>1, SameTruth DEF HistInv, TruthInv
<1>6. <<>> \in Seq(GoodEntries) /\ DOMAIN <<>> = {}
  BY EmptySeq
<1>7. ShownInv'
  BY <1>1, <1>3, <1>4 DEF HistInv, ShownInv
<1>8. ApprovalCardIsLive'
  <2>1. \A j \in DOMAIN tm.entries : tm.entries[j].phase = "AWAITING_APPROVAL" => tm.entries[j].id = tm.active
    BY <1>3 DEF TimelineOK, Ended, TerminalPhases
  <2>2. \A t : Lost(t)' <=> Lost(t)
    BY DEF Lost
  <2> QED BY <1>1, <1>3, <1>4, <2>1, <2>2 DEF HistInv, ApprovalCardIsLive, Entries
<1>9. TruthInv'
  <2>1. \A r \in rows : RowTrue(r)
    BY DEF HistInv, TruthInv
  <2>2. \A j \in DOMAIN ui'.tl.entries : EntryTrue(ui'.tl.entries[j])
    BY <1>1, <1>4
  <2>3. \A j \in DOMAIN ui'.tl.entries : EntryTrue(ui.tl.entries[j])'
    BY <1>5, <2>2
  <2> QED BY <1>2, <1>5, <1>6, <2>1, <2>3 DEF TruthInv
<1>10. TableInv'
  BY <1>1, <1>2, <1>3, <1>4 DEF HistInv, TableInv
<1>11. QueueInv'
  BY <1>2, <1>6 DEF QueueInv
<1> QED BY <1>7, <1>8, <1>9, <1>10, <1>11 DEF HistInv

(* The table cannot be read. *)
LEMMA UnloadedHist ==
    ASSUME HistInv, UNCHANGED <<ui, flow, ran, used, decided, rows>>,
           AudIs(aud', "watching", aud.queue, aud.tried)
    PROVE  HistInv'
<1>1. /\ aud'.pc = "watching" /\ aud'.queue = aud.queue /\ aud'.tried = aud.tried
      /\ aud' = [pc |-> aud'.pc, queue |-> aud'.queue, tried |-> aud'.tried]
  BY DEF AudIs
<1>2. /\ \A e : EntryTrue(e)' <=> EntryTrue(e)
      /\ \A r : RowTrue(r)' <=> RowTrue(r)
      /\ \A t \in Tasks : FlowTrue(flow'[t], ran'[t])
  BY SameTruth DEF HistInv, TruthInv
<1>3. TruthInv'
  BY <1>1, <1>2 DEF HistInv, TruthInv
<1>4. ShownInv' /\ ApprovalCardIsLive'
  BY DEF HistInv, ShownInv, ApprovalCardIsLive, Entries, Lost
<1>5. TableInv'
  BY <1>1 DEF HistInv, TableInv
<1>6. QueueInv'
  BY <1>1 DEF HistInv, QueueInv
<1> QED BY <1>3, <1>4, <1>5, <1>6 DEF HistInv

(* Loading the table keeps the invariant. *)
LEMMA LoadHist ==
    ASSUME RunInv, HistInv, LoadAudit
    PROVE  HistInv'
<1>0. AudIs(aud, aud.pc, aud.queue, aud.tried)
  BY DEF HistInv, TableInv, AudIs
<1>1. aud.pc = "loading" /\ UNCHANGED <<used, decided, rows, flow, ran>>
  BY DEF LoadAudit, gatewayVars
<1>2. CASE /\ \E s \in Sorted(rows, Older) :
               ui' = [ui EXCEPT !.tl = MergeRestored(@, [i \in DOMAIN s |-> RestoredEntry(s[i])])]
           /\ aud' = [aud EXCEPT !.pc = "watching", !.tried = {r.id : r \in rows}]
  <2>1. PICK s \in Sorted(rows, Older) :
          ui' = [ui EXCEPT !.tl = MergeRestored(@, [i \in DOMAIN s |-> RestoredEntry(s[i])])]
    BY <1>2
  <2>2. PICK tm : tm = MergeRestored(ui.tl, [i \in DOMAIN s |-> RestoredEntry(s[i])])
    OBVIOUS
  <2>3. RestoredTimeline(tm)
    BY <1>1, <2>2, MergeFacts
  <2>4. ui' = [ui EXCEPT !.tl = tm]
    BY <2>1, <2>2
  <2>5. ui'.tl = tm /\ ui'.card = ui.card /\ ui'.pending = ui.pending
    BY <2>4, TlField DEF RunInv, OwnersInv
  <2>6. PICK ids : ids = {r.id : r \in rows}
    OBVIOUS
  <2>7. aud' = [aud EXCEPT !.pc = "watching", !.tried = ids]
    BY <1>2, <2>6
  <2>8. AudIs(aud', "watching", aud.queue, ids)
    BY <1>0, <2>7, AudUpdates
  <2> HIDE <1>2, <2>1, <2>4, <2>7
  <2> QED BY <1>1, <2>3, <2>5, <2>6, <2>8, LoadedHist
<1>3. CASE aud' = [aud EXCEPT !.pc = "watching"] /\ UNCHANGED ui
  <2>1. AudIs(aud', "watching", aud.queue, aud.tried)
    BY <1>0, <1>3, AudUpdates
  <2> QED BY <1>1, <1>3, <2>1, UnloadedHist
<1> QED BY <1>2, <1>3 DEF LoadAudit

(* What the observer puts into its queue: entries that are shown, have     *)
(* ended and were not tried before.                                        *)
Queued(q) ==
    /\ q \in Seq(GoodEntries)
    /\ \A i, j \in DOMAIN q : q[i].id = q[j].id => i = j
    /\ \A k \in DOMAIN q : Unwritten(q[k]) /\ \E i \in DOMAIN ui.tl.entries : q[k] = ui.tl.entries[i]

(* Some positions of a sequence are finitely many numbers. *)
LEMMA SelectedPlaces ==
    ASSUME NEW S, NEW es \in Seq(S), NEW new, new \subseteq DOMAIN es
    PROVE  new \in SUBSET Nat /\ Cardinality(new) \in Nat
<1>1. Len(es) \in Nat /\ DOMAIN es = 1 .. Len(es)
  BY LenProperties
<1>2. IsFiniteSet(1 .. Len(es))
  BY <1>1, FS_Interval
<1>3. IsFiniteSet(new)
  BY <1>1, <1>2, FS_Subset
<1> QED BY <1>1, <1>3, FS_CardinalityType

(* The entries at different positions are different ones. *)
LEMMA SelectedEntries ==
    ASSUME HistInv, NEW c \in Nat, NEW s, \A i, j \in 1 .. c : s[i] = s[j] => i = j,
           \A k \in 1 .. c : s[k] \in DOMAIN ui.tl.entries /\ Unwritten(ui.tl.entries[s[k]]),
           NEW q, q = [k \in 1 .. c |-> ui.tl.entries[s[k]]]
    PROVE  Queued(q)
<1>1. PICK es : es = ui.tl.entries
  OBVIOUS
<1>2. es \in Seq(GoodEntries) /\ \A i, j \in DOMAIN es : es[i].id = es[j].id => i = j
  BY <1>1 DEF HistInv, ShownInv, TimelineOK
<1>3. DOMAIN q = 1 .. c /\ \A k \in 1 .. c : q[k] = es[s[k]] /\ s[k] \in DOMAIN es
  BY <1>1
<1>4. \A i \in DOMAIN es : es[i] \in GoodEntries
  BY <1>2
<1>5. q \in [1 .. c -> GoodEntries]
  BY <1>3, <1>4
<1>6. q \in Seq(GoodEntries)
  BY <1>5, SeqDef
<1>7. \A i, j \in DOMAIN q : q[i].id = q[j].id => i = j
  <2> SUFFICES ASSUME NEW i \in 1 .. c, NEW j \in 1 .. c, q[i].id = q[j].id PROVE i = j
    BY <1>3
  <2>1. s[i] = s[j]
    BY <1>2, <1>3
  <2> QED BY <2>1
<1>8. \A k \in DOMAIN q : Unwritten(q[k]) /\ \E i \in DOMAIN es : q[k] = es[i]
  BY <1>1, <1>3
<1> QED BY <1>1, <1>6, <1>7, <1>8 DEF Queued

(* Numbers in increasing order are different ones. *)
LEMMA IncreasingDiffer ==
    ASSUME NEW c \in Nat, NEW new \in SUBSET Nat, NEW s \in [1 .. c -> new],
           \A i, j \in 1 .. c : i < j => s[i] < s[j]
    PROVE  \A i, j \in 1 .. c : s[i] = s[j] => i = j
<1> SUFFICES ASSUME NEW i \in 1 .. c, NEW j \in 1 .. c, s[i] = s[j] PROVE i = j
  OBVIOUS
<1>1. i \in Nat /\ j \in Nat /\ s[i] \in Nat /\ s[j] \in Nat
  <2>1. s[i] \in new /\ s[j] \in new
    OBVIOUS
  <2>2. new \subseteq Nat
    OBVIOUS
  <2>3. i \in Nat /\ j \in Nat
    OBVIOUS
  <2> QED BY <2>1, <2>2, <2>3
<1>2. ~(i < j) /\ ~(j < i)
  BY <1>1
<1> QED BY <1>1, <1>2

(* The ended entries that the observer has not tried are put in its queue. *)
LEMMA QueuedHist ==
    ASSUME HistInv, aud.pc = "watching", UNCHANGED <<ui, flow, ran, used, decided, rows>>,
           NEW q, Queued(q), AudIs(aud', "watching", q, aud.tried)
    PROVE  HistInv'
<1>1. /\ aud'.pc = "watching" /\ aud'.queue = q /\ aud'.tried = aud.tried
      /\ aud' = [pc |-> aud'.pc, queue |-> aud'.queue, tried |-> aud'.tried]
  BY DEF AudIs
<1>2. /\ \A e : EntryTrue(e)' <=> EntryTrue(e)
      /\ \A r : RowTrue(r)' <=> RowTrue(r)
      /\ \A t \in Tasks : FlowTrue(flow'[t], ran'[t])
  BY SameTruth DEF HistInv, TruthInv
<1>3. ASSUME NEW k \in DOMAIN q, NEW e, e = q[k]
      PROVE  /\ Ended(e) /\ ~e.recorded /\ e.id \in used \ aud.tried /\ e.id # ui.tl.active
             /\ EntryTrue(e)
             /\ \A r \in rows : r.id # e.id
             /\ \A i \in DOMAIN ui.tl.entries : ui.tl.entries[i].id = e.id => Agree(e, ui.tl.entries[i])
  <2>1. Ended(e) /\ e.id \notin aud.tried
    BY <1>3 DEF Queued, Unwritten
  <2>2. PICK i \in DOMAIN ui.tl.entries : e = ui.tl.entries[i]
    BY <1>3 DEF Queued
  <2>3. EntryTrue(e) /\ e.id \in used
    BY <2>2 DEF HistInv, TruthInv, ShownInv
  <2>4. ~e.recorded /\ \A r \in rows : r.id # e.id
    BY <2>1, <2>2 DEF HistInv, TableInv
  <2>5. e.id # ui.tl.active /\ \A j \in DOMAIN ui.tl.entries : ui.tl.entries[j].id = e.id => j = i
    BY <2>1, <2>2 DEF HistInv, ShownInv, TimelineOK
  <2>6. \A j \in DOMAIN ui.tl.entries : ui.tl.entries[j].id = e.id => Agree(e, ui.tl.entries[j])
    BY <2>1, <2>2, <2>5 DEF Agree
  <2> QED BY <2>1, <2>3, <2>4, <2>5, <2>6
<1>4. TruthInv'
  BY <1>1, <1>2, <1>3 DEF HistInv, TruthInv
<1>5. ShownInv' /\ ApprovalCardIsLive'
  BY DEF HistInv, ShownInv, ApprovalCardIsLive, Entries, Lost
<1>6. TableInv'
  BY <1>1 DEF HistInv, TableInv
<1>7. QueueInv'
  <2>1. q \in Seq(GoodEntries) /\ \A i, j \in DOMAIN q : q[i].id = q[j].id => i = j
    BY DEF Queued
  <2> QED BY <1>1, <1>3, <2>1 DEF QueueInv
<1> QED BY <1>4, <1>5, <1>6, <1>7 DEF HistInv

(* The observer looks at the timeline. *)
LEMMA ObservedEntriesHist ==
    ASSUME HistInv, ObserveEntries
    PROVE  HistInv'
<1>1. aud.pc = "watching" /\ UNCHANGED <<ui, used, decided, rows, flow, ran>>
  BY DEF ObserveEntries, gatewayVars
<1>2. PICK new : new = {i \in DOMAIN ui.tl.entries : Unwritten(ui.tl.entries[i])}
  OBVIOUS
<1>3. PICK s : /\ s \in [1 .. Cardinality(new) -> new]
               /\ \A i, j \in DOMAIN s : i < j => s[i] < s[j]
               /\ aud' = [aud EXCEPT !.queue = [k \in DOMAIN s |-> ui.tl.entries[s[k]]]]
  <2>1. PICK s \in Sorted(new, <) : aud' = [aud EXCEPT !.queue = [k \in DOMAIN s |-> ui.tl.entries[s[k]]]]
    BY <1>2 DEF ObserveEntries
  <2>2. s \in [1 .. Cardinality(new) -> new] /\ \A i, j \in DOMAIN s : i < j => s[i] < s[j]
    BY <2>1 DEF Sorted
  <2> QED BY <2>1, <2>2
<1>4. PICK q : q = [k \in DOMAIN s |-> ui.tl.entries[s[k]]]
  OBVIOUS
<1>5. AudIs(aud', "watching", q, aud.tried)
  <2>1. AudIs(aud, "watching", aud.queue, aud.tried)
    BY <1>1 DEF HistInv, TableInv, AudIs
  <2>2. aud' = [aud EXCEPT !.queue = q]
    BY <1>3, <1>4
  <2> QED BY <2>1, <2>2, AudUpdates
<1>6. new \in SUBSET Nat /\ Cardinality(new) \in Nat
  <2>1. ui.tl.entries \in Seq(GoodEntries)
    BY DEF HistInv, ShownInv, TimelineOK
  <2> QED BY <1>2, <2>1, SelectedPlaces
<1>7. PICK c \in Nat : c = Cardinality(new)
  BY <1>6
<1>8. s \in [1 .. c -> new] /\ \A i, j \in 1 .. c : i < j => s[i] < s[j]
  BY <1>3, <1>7
<1>9. \A i, j \in 1 .. c : s[i] = s[j] => i = j
  BY <1>6, <1>8, IncreasingDiffer
<1>10. \A k \in 1 .. c : s[k] \in DOMAIN ui.tl.entries /\ Unwritten(ui.tl.entries[s[k]])
  BY <1>2, <1>8
<1>11. q = [k \in 1 .. c |-> ui.tl.entries[s[k]]]
  BY <1>4, <1>8
<1>12. Queued(q)
  BY <1>9, <1>10, <1>11, SelectedEntries
<1> QED BY <1>1, <1>5, <1>12, QueuedHist

(* The record of an ended entry. *)
IsRecord(r, q) ==
    r \in RowType /\ r.id = q.id /\ r.phase = q.phase /\ r.at = q.at /\ r.approval = ApprovalOutcome(q)

(* An entry that ended has a record. *)
LEMMA RecordFacts ==
    ASSUME NEW q \in GoodEntries, Ended(q)
    PROVE  IsRecord(Record(q), q)
<1>1. /\ q.id \in Tasks /\ q.plan \in Plans \cup {NoPlan} /\ q.phase \in TerminalPhases
      /\ q.at \in Nat \ {0}
  BY DEF GoodEntries, EntryType, Ended
<1>2. PICK o : o = ApprovalOutcome(q)
  OBVIOUS
<1>3. o \in {"not_required", "approved", "denied", "cancelled", "expired"}
  BY <1>2 DEF ApprovalOutcome
<1>4. PICK r : r = Record(q)
  OBVIOUS
<1>5. r = [id |-> q.id, plan |-> q.plan, phase |-> q.phase, approval |-> o, at |-> q.at]
  BY <1>2, <1>4 DEF Record
<1>6. r \in RowType
  BY <1>1, <1>3, <1>5 DEF RowType
<1>7. r.id = q.id /\ r.phase = q.phase /\ r.at = q.at /\ r.approval = o
  BY <1>5
<1>8. IsRecord(r, q)
  BY <1>2, <1>6, <1>7 DEF IsRecord
<1> QED BY <1>4, <1>8

(* The entry g is e, or e after its record was written. *)
MarkedEntry(e, g, t) ==
    \/ g = e
    \/ /\ e.id = t /\ g.id = t /\ Ended(e) /\ Ended(g)
       /\ g.phase = e.phase /\ g.at = e.at /\ g.recorded = TRUE

(* The timeline tm is the one shown, after the record of t was written. *)
MarkedTimeline(tm, t) ==
    /\ TimelineOK(tm) /\ tm.active = ui.tl.active /\ DOMAIN tm.entries = DOMAIN ui.tl.entries
    /\ \A i \in DOMAIN tm.entries : MarkedEntry(ui.tl.entries[i], tm.entries[i], t)

(* An entry is marked. *)
LEMMA MarkEntry ==
    ASSUME NEW e \in GoodEntries, Ended(e), NEW g, g = [e EXCEPT !.recorded = TRUE]
    PROVE  g \in GoodEntries /\ MarkedEntry(e, g, e.id)
<1>1. e \in EntryType /\ e.at # 0 /\ e.phase \in TerminalPhases
  BY DEF GoodEntries, Ended
<1>2. g \in EntryType
  BY <1>1 DEF EntryType
<1>3. g.id = e.id /\ g.phase = e.phase /\ g.at = e.at /\ g.recorded = TRUE
  BY <1>1 DEF EntryType
<1>4. Ended(g)
  BY <1>1, <1>3 DEF Ended
<1> QED BY <1>1, <1>2, <1>3, <1>4 DEF GoodEntries, MarkedEntry

(* markAuditRecorded. *)
LEMMA MarkFacts ==
    ASSUME TimelineOK(ui.tl), NEW t, NEW tm, tm = MarkRecorded(ui.tl, t)
    PROVE  MarkedTimeline(tm, t)
<1>1. PICK a, es : ui.tl = [active |-> a, entries |-> es] /\ a = ui.tl.active /\ es = ui.tl.entries
  BY DEF TimelineOK
<1>2. /\ es \in Seq(GoodEntries) /\ \A i, j \in DOMAIN es : es[i].id = es[j].id => i = j
      /\ \A i \in DOMAIN es : es[i].id = a <=> ~Ended(es[i])
  BY <1>1 DEF TimelineOK
<1>3. PICK m : m = [i \in DOMAIN es |-> IF es[i].id = t /\ Ended(es[i])
                                        THEN [es[i] EXCEPT !.recorded = TRUE] ELSE es[i]]
  OBVIOUS
<1>4. tm = [active |-> a, entries |-> m]
  BY <1>1, <1>3 DEF MarkRecorded
<1>5. tm.active = a /\ tm.entries = m
  BY <1>4
<1>6. DOMAIN m = DOMAIN es
  BY <1>3
<1>7. ASSUME NEW i \in DOMAIN es PROVE m[i] \in GoodEntries /\ MarkedEntry(es[i], m[i], t)
  <2>1. PICK e : e = es[i] /\ e \in GoodEntries
    BY <1>2
  <2>2. CASE e.id = t /\ Ended(e)
    <3>1. m[i] = [e EXCEPT !.recorded = TRUE]
      BY <1>3, <2>1, <2>2
    <3> QED BY <2>1, <2>2, <3>1, MarkEntry
  <2>3. CASE ~(e.id = t /\ Ended(e))
    <3>1. m[i] = e
      BY <1>3, <2>1, <2>3
    <3> QED BY <2>1, <3>1 DEF MarkedEntry
  <2> QED BY <2>2, <2>3
<1>8. m \in Seq(GoodEntries)
  <2>1. DOMAIN es = 1 .. Len(es) /\ Len(es) \in Nat
    BY <1>2, LenProperties
  <2>2. PICK n \in Nat : n = Len(es) /\ DOMAIN m = 1 .. n
    BY <1>6, <2>1
  <2>3. m \in [1 .. n -> GoodEntries]
    BY <1>3, <1>6, <1>7, <2>2
  <2> QED BY <2>2, <2>3, SeqDef
<1>9. \A i \in DOMAIN es : m[i].id = es[i].id /\ (Ended(m[i]) <=> Ended(es[i]))
  BY <1>7 DEF MarkedEntry
<1>10. TimelineOK(tm)
  BY <1>2, <1>4, <1>5, <1>6, <1>8, <1>9 DEF TimelineOK
<1> QED BY <1>1, <1>5, <1>6, <1>7, <1>10 DEF MarkedTimeline

(* The head of a sequence is not in its tail, which has the rest. *)
LEMMA TailFacts ==
    ASSUME NEW S, NEW s \in Seq(S), s # <<>>, NEW q, q = Head(s), NEW z, z = Tail(s)
    PROVE  /\ z \in Seq(S) /\ 1 \in DOMAIN s /\ q = s[1] /\ DOMAIN z \subseteq Nat
           /\ \A i \in DOMAIN z : i + 1 \in DOMAIN s /\ i + 1 # 1 /\ z[i] = s[i + 1]
<1>1. PICK n : n = Len(s) /\ n \in Nat /\ DOMAIN s = 1 .. n
  BY LenProperties
<1>2. z \in Seq(S) /\ Len(z) = n - 1 /\ \A i \in 1 .. Len(z) : z[i] = s[i + 1]
  BY <1>1, HeadTailProperties
<1>3. DOMAIN z = 1 .. n - 1
  BY <1>2, LenProperties
<1>4. n # 0
  BY <1>1, EmptySeq
<1>5. q = s[1]
  OBVIOUS
<1> QED BY <1>1, <1>2, <1>3, <1>4, <1>5

(* What is true of an entry stays true when it is marked. *)
LEMMA MarkedTrue ==
    ASSUME NEW e, NEW g, NEW t, MarkedEntry(e, g, t), EntryTrue(e)
    PROVE  EntryTrue(g)
<1>1. CASE g = e
  BY <1>1
<1>2. CASE /\ e.id = t /\ g.id = t /\ Ended(e) /\ Ended(g)
           /\ g.phase = e.phase /\ g.at = e.at /\ g.recorded = TRUE
  <2>1. e.phase # "AWAITING_APPROVAL"
    BY <1>2 DEF Ended, TerminalPhases
  <2> QED BY <1>2, <2>1 DEF EntryTrue
<1> QED BY <1>1, <1>2 DEF MarkedEntry

(* A record is written, or cannot be written: the table gains at most the  *)
(* record, and the entry is marked at most.                                *)
LEMMA WrittenHist ==
    ASSUME HistInv, aud.queue # <<>>, UNCHANGED <<flow, ran, used, decided>>,
           NEW q, q = Head(aud.queue), NEW z, z = Tail(aud.queue), NEW ids, ids = aud.tried \cup {q.id},
           AudIs(aud', "watching", z, ids),
           NEW r, r = Record(q), rows' \subseteq rows \cup {r},
           MarkedTimeline(ui'.tl, q.id), ui'.card = ui.card, ui'.pending = ui.pending
    PROVE  HistInv'
<1>1. /\ aud'.pc = "watching" /\ aud'.queue = z /\ aud'.tried = ids
      /\ aud' = [pc |-> aud'.pc, queue |-> aud'.queue, tried |-> aud'.tried]
  BY DEF AudIs
<1>2. /\ z \in Seq(GoodEntries) /\ 1 \in DOMAIN aud.queue /\ q = aud.queue[1] /\ DOMAIN z \subseteq Nat
      /\ \A i \in DOMAIN z : i + 1 \in DOMAIN aud.queue /\ i + 1 # 1 /\ z[i] = aud.queue[i + 1]
  BY TailFacts DEF HistInv, QueueInv
<1>3. /\ q \in GoodEntries /\ Ended(q) /\ ~q.recorded /\ q.id \in used \ aud.tried /\ q.id # ui.tl.active
      /\ EntryTrue(q)
      /\ \A s \in rows : s.id # q.id
      /\ \A k \in DOMAIN ui.tl.entries : ui.tl.entries[k].id = q.id => Agree(q, ui.tl.entries[k])
  BY <1>2 DEF HistInv, QueueInv, TruthInv
<1>4. IsRecord(r, q)
  BY <1>3, RecordFacts
<1>5. RowTrue(r)
  BY <1>3, <1>4 DEF IsRecord, RowTrue, EntryTrue
<1>6. /\ \A e : EntryTrue(e)' <=> EntryTrue(e)
      /\ \A s : RowTrue(s)' <=> RowTrue(s)
      /\ \A t \in Tasks : FlowTrue(flow'[t], ran'[t])
  BY SameTruth DEF HistInv, TruthInv
<1>7. TimelineOK(ui'.tl) /\ ui'.tl.active = ui.tl.active /\ DOMAIN ui'.tl.entries = DOMAIN ui.tl.entries
  BY DEF MarkedTimeline
<1>8. ASSUME NEW i \in DOMAIN ui'.tl.entries, NEW e, e = ui.tl.entries[i], NEW g, g = ui'.tl.entries[i]
      PROVE  /\ g.id = e.id /\ g.phase = e.phase /\ g.at = e.at /\ (Ended(e) <=> Ended(g))
             /\ g.recorded => g.id \in ids
             /\ EntryTrue(g) /\ g.id \in used
             /\ g.phase = "AWAITING_APPROVAL" => g.id = ui.tl.active /\ (g.id = ui.card \/ Lost(g.id))
             /\ \A s \in rows \cup {r} : s.id = g.id => g.id \in ids /\ Agree(s, g)
             /\ \A k \in DOMAIN aud.queue : aud.queue[k].id = g.id => Agree(aud.queue[k], g)
  <2>1. MarkedEntry(e, g, q.id)
    BY <1>8 DEF MarkedTimeline
  <2>2. g.id = e.id /\ g.phase = e.phase /\ g.at = e.at /\ (Ended(e) <=> Ended(g))
        /\ (g.recorded => e.recorded \/ g.id = q.id)
    BY <2>1 DEF MarkedEntry
  <2>3. /\ EntryTrue(e) /\ e.id \in used /\ (e.recorded => e.id \in aud.tried)
        /\ e.phase = "AWAITING_APPROVAL" => e.id = ui.tl.active /\ (e.id = ui.card \/ Lost(e.id))
        /\ \A s \in rows : s.id = e.id => e.id \in aud.tried /\ Agree(s, e)
        /\ \A k \in DOMAIN aud.queue : aud.queue[k].id = e.id => Agree(aud.queue[k], e)
    BY <1>7, <1>8 DEF HistInv, TruthInv, ShownInv, TableInv, QueueInv, ApprovalCardIsLive, Entries
  <2>4. \A s : Agree(s, e) => Agree(s, g)
    BY <2>2 DEF Agree
  <2>5. r.id = g.id => g.id \in ids /\ Agree(r, g)
    <3>1. r.id = g.id => e.id = q.id /\ Agree(q, e)
      BY <1>3, <1>4, <1>7, <1>8, <2>2 DEF IsRecord
    <3> QED BY <1>4, <2>2, <3>1 DEF IsRecord, Agree
  <2>6. EntryTrue(g)
    BY <2>1, <2>3, MarkedTrue
  <2> QED BY <2>2, <2>3, <2>4, <2>5, <2>6
<1>9. ShownInv'
  BY <1>7, <1>8 DEF HistInv, ShownInv
<1>10. ApprovalCardIsLive'
  <2>1. \A t : Lost(t)' <=> Lost(t)
    BY DEF Lost
  <2> QED BY <1>7, <1>8, <2>1 DEF HistInv, ApprovalCardIsLive, Entries
<1>11. TruthInv'
  <2>1. \A s \in rows' : RowTrue(s)
    BY <1>5 DEF HistInv, TruthInv
  <2>2. \A i \in DOMAIN ui'.tl.entries : EntryTrue(ui'.tl.entries[i])
    BY <1>8
  <2>3. \A i \in DOMAIN z : EntryTrue(z[i])
    BY <1>2 DEF HistInv, TruthInv
  <2> QED BY <1>1, <1>6, <2>1, <2>2, <2>3 DEF TruthInv
<1>12. TableInv'
  <2>1. IsFiniteSet(rows') /\ rows' \subseteq RowType
    <3>1. IsFiniteSet(rows) /\ rows \subseteq RowType
      BY DEF HistInv, TableInv
    <3>2. IsFiniteSet(rows \cup {r})
      BY <3>1, FS_AddElement
    <3> QED BY <1>4, <3>1, <3>2, FS_Subset DEF IsRecord
  <2>2. \A s \in rows \cup {r} : s.id \in used /\ s.id # ui.tl.active
    BY <1>3, <1>4 DEF HistInv, TableInv, IsRecord
  <2>3. \A s, o \in rows \cup {r} : s.id = o.id => s = o
    BY <1>3, <1>4 DEF HistInv, TableInv, IsRecord
  <2>4. \A i \in DOMAIN ui'.tl.entries :
          LET g == ui'.tl.entries[i] IN
          /\ g.recorded => g.id \in ids
          /\ \A s \in rows' : s.id = g.id => g.id \in ids /\ Agree(s, g)
    BY <1>8
  <2> QED BY <1>1, <1>7, <2>1, <2>2, <2>3, <2>4 DEF TableInv
<1>13. QueueInv'
  <2>1. ASSUME NEW i \in DOMAIN z, NEW x, x = z[i]
        PROVE  /\ Ended(x) /\ ~x.recorded /\ x.id \in used \ ids /\ x.id # ui.tl.active
               /\ \A s \in rows' : s.id # x.id
               /\ \A k \in DOMAIN ui'.tl.entries : ui'.tl.entries[k].id = x.id => Agree(x, ui'.tl.entries[k])
    <3>1. i + 1 \in DOMAIN aud.queue /\ i + 1 # 1 /\ x = aud.queue[i + 1]
      BY <1>2, <2>1
    <3>2. /\ Ended(x) /\ ~x.recorded /\ x.id \in used \ aud.tried /\ x.id # ui.tl.active
          /\ \A s \in rows : s.id # x.id
      BY <3>1 DEF HistInv, QueueInv
    <3>3. x.id # q.id
      BY <1>2, <3>1 DEF HistInv, QueueInv
    <3>4. \A k \in DOMAIN ui'.tl.entries : ui'.tl.entries[k].id = x.id => Agree(x, ui'.tl.entries[k])
      BY <1>8, <3>1
    <3> QED BY <1>4, <3>2, <3>3, <3>4 DEF IsRecord
  <2>2. \A i, j \in DOMAIN z : z[i].id = z[j].id => i = j
    <3> SUFFICES ASSUME NEW i \in DOMAIN z, NEW j \in DOMAIN z, z[i].id = z[j].id PROVE i = j
      OBVIOUS
    <3>1. i + 1 = j + 1
      BY <1>2 DEF HistInv, QueueInv
    <3> QED BY <1>2, <3>1
  <2> QED BY <1>1, <1>2, <1>7, <2>1, <2>2 DEF QueueInv
<1> QED BY <1>9, <1>10, <1>11, <1>12, <1>13 DEF HistInv

(* Trimming drops rows only. *)
LEMMA TrimmedTable ==
    ASSUME NEW r
    PROVE  Newest(Insert(r)) \subseteq rows \cup {r}
<1>1. Insert(r) \subseteq rows \cup {r}
  BY DEF Insert, RowOf
<1>2. \A table : Newest(table) \subseteq table
  BY DEF Newest
<1> QED BY <1>1, <1>2

(* The observer writes the record of the entry it has in hand. *)
LEMMA WriteHist ==
    ASSUME RunInv, HistInv, WriteRecord
    PROVE  HistInv'
<1>1. aud.pc = "watching" /\ aud.queue # <<>> /\ UNCHANGED <<used, decided, flow, ran>>
  BY DEF WriteRecord, gatewayVars
<1>2. PICK q, z, r, ids : /\ q = Head(aud.queue) /\ z = Tail(aud.queue) /\ r = Record(q)
                          /\ ids = aud.tried \cup {q.id}
  OBVIOUS
<1>3. r.id = q.id
  BY <1>2 DEF Record
<1>4. AudIs(aud', "watching", z, ids)
  <2>1. AudIs(aud, "watching", aud.queue, aud.tried)
    BY <1>1 DEF HistInv, TableInv, AudIs
  <2>2. aud' = [aud EXCEPT !.queue = z, !.tried = ids]
    BY <1>2, <1>3 DEF WriteRecord
  <2> QED BY <2>1, <2>2, AudUpdates
<1>5. \/ rows' = Newest(Insert(r)) /\ ui' = [ui EXCEPT !.tl = MarkRecorded(@, q.id)]
      \/ UNCHANGED <<rows, ui>>
  BY <1>2, <1>3 DEF WriteRecord
<1>6. TimelineOK(ui.tl)
  BY DEF HistInv, ShownInv
<1>7. CASE rows' = Newest(Insert(r)) /\ ui' = [ui EXCEPT !.tl = MarkRecorded(@, q.id)]
  <2>1. PICK tm : tm = MarkRecorded(ui.tl, q.id)
    OBVIOUS
  <2>2. MarkedTimeline(tm, q.id)
    BY <1>6, <2>1, MarkFacts
  <2>3. ui' = [ui EXCEPT !.tl = tm]
    BY <1>7, <2>1
  <2>4. ui'.tl = tm /\ ui'.card = ui.card /\ ui'.pending = ui.pending
    BY <2>3, TlField DEF RunInv, OwnersInv
  <2>5. rows' \subseteq rows \cup {r}
    BY <1>7, TrimmedTable
  <2>6. MarkedTimeline(ui'.tl, q.id)
    BY <2>2, <2>4
  <2> QED BY <1>1, <1>2, <1>4, <2>4, <2>5, <2>6, WrittenHist
<1>8. CASE UNCHANGED <<rows, ui>>
  <2>1. MarkedTimeline(ui'.tl, q.id)
    BY <1>6, <1>8 DEF MarkedTimeline, MarkedEntry
  <2> QED BY <1>1, <1>2, <1>4, <1>8, <2>1, WrittenHist
<1> QED BY <1>5, <1>7, <1>8

-----------------------------------------------------------------------------
(* The history stays true.                                                 *)

(* The invariant holds of a phone that was just started. *)
LEMMA HistStarts ==
    ASSUME PhoneInit
    PROVE  HistInv
<1>1. /\ flow = [t \in Tasks |-> NoFlow] /\ ran = [t \in Tasks |-> 0]
      /\ ui = NoUi /\ used = {} /\ aud = Loading /\ rows = {}
  BY DEF PhoneInit, GatewayInit
<1>2. ui.pending = NoTask /\ ui.card = NoTask /\ ui.tl.active = NoTask /\ ui.tl.entries = <<>>
      /\ ui.tl = [active |-> NoTask, entries |-> <<>>]
  BY <1>1 DEF NoUi, EmptyTimeline
<1>3. aud.pc = "loading" /\ aud.queue = <<>> /\ aud.tried = {}
      /\ aud = [pc |-> aud.pc, queue |-> aud.queue, tried |-> aud.tried]
  BY <1>1 DEF Loading
<1>4. <<>> \in Seq(GoodEntries) /\ DOMAIN <<>> = {}
  BY EmptySeq
<1>5. \A t \in Tasks : FlowTrue(flow[t], ran[t])
  <2>1. PICK f : f = NoFlow
    OBVIOUS
  <2>2. f.pc = "none" /\ f.chan = <<>> /\ f.net = <<>>
    BY <2>1 DEF NoFlow
  <2>3. FlowTrue(f, 0)
    BY <1>4, <2>2 DEF FlowTrue, Has
  <2> QED BY <1>1, <2>1, <2>3
<1>6. ShownInv
  <2>1. TimelineOK(ui.tl)
    BY <1>2, <1>4 DEF TimelineOK
  <2> QED BY <1>2, <1>4, <2>1 DEF ShownInv
<1>7. ApprovalCardIsLive
  BY <1>2, <1>4 DEF ApprovalCardIsLive, Entries
<1>8. TruthInv
  BY <1>1, <1>2, <1>3, <1>4, <1>5 DEF TruthInv
<1>9. TableInv
  BY <1>1, <1>2, <1>3, <1>4, FS_EmptySet DEF TableInv
<1>10. QueueInv
  BY <1>3, <1>4 DEF QueueInv
<1> QED BY <1>6, <1>7, <1>8, <1>9, <1>10 DEF HistInv

(* What the user, the jobs, the timers and the gateway do is a step about  *)
(* one task; the others are the audit's and the death of the process.      *)
LEMMA StepKinds ==
    ASSUME RunInv, HistInv, PhoneNext
    PROVE  \/ \E s, G : AgentStep(s, G)
           \/ LoadAudit \/ ObserveEntries \/ WriteRecord \/ ProcessDies
<1>1. ASSUME NEW t \in Tasks, UserActs(t)
      PROVE  \E s, G : AgentStep(s, G)
  BY <1>1, CommandHist, ApproveHist, SettleHist DEF UserActs
<1>2. ASSUME NEW t \in Tasks,
             ExpirePending(t) \/ Collect(t) \/ JobEnds(t) \/ JobFails(t) \/ ObservationEnds(t)
      PROVE  \E s, G : AgentStep(s, G)
  BY <1>2, SettleHist, CollectHist, JobHist, ObservedHist
<1>3. ASSUME NEW t \in Tasks, GatewayStep(t) /\ UNCHANGED <<ui, used, decided, deaths, link, auditVars>>
      PROVE  \E s, G : AgentStep(s, G)
  <2>1. UNCHANGED <<ui, used, aud, rows>>
    BY <1>3 DEF auditVars
  <2>2. AgentStep(NoTask, {})
    BY <1>3, <2>1, GatewayHist
  <2> QED BY <2>2
<1> QED BY <1>1, <1>2, <1>3, CancelHist, LinkHist DEF PhoneNext

(* No step takes back that a card was lost. *)
LEMMA StepsKeepLost ==
    ASSUME RunInv, PhoneNext
    PROVE  LostStays
<1>1. ASSUME \A s \in Tasks : decided[s] \subseteq decided'[s] PROVE LostStays
  BY <1>1 DEF LostStays, Lost
<1>2. decided \in [Tasks -> SUBSET Ends]
  BY DEF RunInv, DecidedInv
<1>3. \A t, what : Decide(t, what) => \A s \in Tasks : decided[s] \subseteq decided'[s]
  BY <1>2 DEF Decide
<1>4. \A what : CardGoes(what) => \A s \in Tasks : decided[s] \subseteq decided'[s]
  BY DEF CardGoes
<1>5. ASSUME NEW t \in Tasks, UserActs(t) \/ ExpirePending(t) PROVE LostStays
  <2>1. CASE Approve(t) \/ Deny(t) \/ ExpirePending(t)
    BY <1>1, <1>3, <2>1 DEF Approve, Deny, ExpirePending
  <2>2. CASE UNCHANGED decided
    BY <1>1, <2>2
  <2>3. \/ UNCHANGED decided \/ Approve(t) \/ Deny(t) \/ ExpirePending(t)
    BY <1>5 DEF UserActs, RejectCommand, ExecuteSafe, RecordScan, ObserveLocalModel, RequestApproval
  <2> QED BY <2>1, <2>2, <2>3
<1>6. ASSUME NEW t \in Tasks,
             \/ Collect(t) \/ JobEnds(t) \/ JobFails(t) \/ ObservationEnds(t)
             \/ GatewayStep(t) /\ UNCHANGED <<ui, used, decided, deaths, link, auditVars>>
      PROVE  LostStays
  <2>1. UNCHANGED decided
    BY <1>6 DEF Collect, JobEnds, JobFails, ObservationEnds
  <2> QED BY <1>1, <2>1
<1>7. CASE LinkActs
  BY <1>1, <1>3, <1>4, <1>7 DEF LinkActs, LinkOperation, RotationAnswers, ForgetAnswers
<1>8. CASE CancelTask \/ LoadAudit \/ ObserveEntries \/ WriteRecord \/ ProcessDies
  <2>1. UNCHANGED decided
    BY <1>8 DEF CancelTask, LoadAudit, ObserveEntries, WriteRecord, ProcessDies
  <2> QED BY <1>1, <2>1
<1> QED BY <1>5, <1>6, <1>7, <1>8 DEF PhoneNext

(* Every step keeps the invariant. *)
LEMMA HistSteps ==
    ASSUME RunInv, HistInv, [PhoneNext]_phoneVars
    PROVE  HistInv'
<1>1. CASE UNCHANGED phoneVars
  <2>1. UNCHANGED <<ui, used, decided, aud, rows, flow, ran>>
    BY <1>1 DEF phoneVars, auditVars, gatewayVars
  <2>2. /\ \A e : EntryTrue(e)' <=> EntryTrue(e)
        /\ \A r : RowTrue(r)' <=> RowTrue(r)
        /\ \A t \in Tasks : FlowTrue(flow'[t], ran'[t])
    BY <2>1, SameTruth DEF HistInv, TruthInv
  <2>3. TruthInv'
    BY <2>1, <2>2 DEF HistInv, TruthInv
  <2>4. ShownInv' /\ ApprovalCardIsLive'
    BY <2>1 DEF HistInv, ShownInv, ApprovalCardIsLive, Entries, Lost
  <2>5. TableInv' /\ QueueInv'
    BY <2>1 DEF HistInv, TableInv, QueueInv
  <2> QED BY <2>3, <2>4, <2>5 DEF HistInv
<1>2. CASE PhoneNext
  BY <1>2, StepKinds, StepsKeepLost, AgentSteps, LoadHist, ObservedEntriesHist, WriteHist, DeathHist
<1> QED BY <1>1, <1>2

(* The inductive invariant of what the phone shows and keeps holds, for    *)
(* any tasks, routes, clock readings and sizes of the timeline and of the  *)
(* table, whatever fails and however often the process dies: a task has    *)
(* one entry, which has ended unless it is the active one; a flow that may *)
(* still emit a verdict has run its tool; what is reported as never run    *)
(* cannot run any more; and rows, queued entries and shown entries of one  *)
(* task agree.                                                             *)
THEOREM HistoryInvariant == PhoneSpec => []HistInv
<1>1. PhoneInit => HistInv
  BY HistStarts
<1>2. RunInv /\ HistInv /\ [PhoneNext]_phoneVars => HistInv'
  BY HistSteps
<1> QED BY <1>1, <1>2, RunInvariant, PTL DEF PhoneSpec

(* The approval card, the execution that waits for it and the active task  *)
(* are about one task, although they are kept in two places and the link's *)
(* answers take a card away; and only the active task is shown as waiting, *)
(* with its card, unless the answer of a rotation took it.                 *)
THEOREM ApprovalCardsAreLive == PhoneSpec => []ApprovalCardIsLive
<1>1. HistInv => ApprovalCardIsLive
  BY DEF HistInv
<1> QED BY <1>1, HistoryInvariant, PTL

(* What the timeline shows and the audit table keeps is what happened, and *)
(* a row agrees with the entry that is shown for it, across deaths of the  *)
(* process and failures of the database.                                   *)
THEOREM HistoryStaysTrue == PhoneSpec => []HistoryIsTrue
<1>1. ASSUME HistInv PROVE HistoryIsTrue
  <2>1. \A t : Stopped(t) => ran[t] = 0
    BY DEF Stopped, Still
  <2>2. /\ \A i \in DOMAIN ui.tl.entries : EntryTrue(ui.tl.entries[i])
        /\ \A r \in rows : RowTrue(r)
    BY <1>1 DEF HistInv, TruthInv
  <2>3. \A e \in EndedEntries \cup rows : e.phase \in {"VERIFIED", "UNVERIFIED"} => ran[e.id] = 1
    BY <2>2 DEF EndedEntries, Entries, EntryTrue, RowTrue
  <2>4. ASSUME NEW e \in Unrecorded, NEW r, r = Record(e), r.approval \in Unapproved
        PROVE  ran[r.id] = 0
    <3>1. PICK i \in DOMAIN ui.tl.entries : e = ui.tl.entries[i]
      BY DEF Unrecorded, EndedEntries, Entries
    <3>2. Ended(e) /\ ~e.recorded
      BY DEF Unrecorded, EndedEntries
    <3>3. r.id = e.id /\ r.approval = ApprovalOutcome(e)
      BY <2>4 DEF Record
    <3>4. Stopped(e.id)
      BY <2>2, <2>4, <3>1, <3>2, <3>3 DEF EntryTrue
    <3> QED BY <2>1, <3>3, <3>4
  <2>5. \A r \in rows : r.approval \in Unapproved => ran[r.id] = 0
    BY <2>1, <2>2 DEF RowTrue
  <2>6. \A r \in rows \cup {Record(e) : e \in Unrecorded} :
          r.approval \in {"denied", "cancelled", "expired"} => ran[r.id] = 0
    BY <2>4, <2>5 DEF Unapproved
  <2>7. \A r \in rows, e \in Entries : r.id = e.id => r.phase = e.phase /\ r.at = e.at
    BY <1>1 DEF HistInv, TableInv, Agree, Entries
  <2> QED BY <2>3, <2>6, <2>7 DEF HistoryIsTrue
<1> QED BY <1>1, HistoryInvariant, PTL

(* A step leaves what it shows of ended tasks alone, and their rows. *)
Final ==
    /\ \A e \in EndedEntries, g \in Entries' : e.id = g.id => g.phase = e.phase /\ g.at = e.at
    /\ \A r \in rows, s \in rows' : r.id = s.id => r = s

(* It is enough that an entry that is shown after the step was shown       *)
(* before, was not shown as ended, or kept its end, and that a new row is  *)
(* of a task without one.                                                  *)
LEMMA FinalFrom ==
    ASSUME HistInv,
           \A j \in DOMAIN ui'.tl.entries :
             \/ \E i \in DOMAIN ui.tl.entries :
                  LET e == ui.tl.entries[i]  g == ui'.tl.entries[j]
                  IN g.id = e.id /\ (Ended(e) => g.phase = e.phase /\ g.at = e.at)
             \/ \A i \in DOMAIN ui.tl.entries : ui.tl.entries[i].id # ui'.tl.entries[j].id,
           \A s \in rows' : s \in rows \/ \A r \in rows : r.id # s.id
    PROVE  Final
<1>1. \A i, j \in DOMAIN ui.tl.entries : ui.tl.entries[i].id = ui.tl.entries[j].id => i = j
  BY DEF HistInv, ShownInv, TimelineOK
<1>2. \A r, s \in rows : r.id = s.id => r = s
  BY DEF HistInv, TableInv
<1>3. ASSUME NEW i \in DOMAIN ui.tl.entries, NEW j \in DOMAIN ui'.tl.entries,
             Ended(ui.tl.entries[i]), ui.tl.entries[i].id = ui'.tl.entries[j].id
      PROVE  /\ ui'.tl.entries[j].phase = ui.tl.entries[i].phase
             /\ ui'.tl.entries[j].at = ui.tl.entries[i].at
  BY <1>1, <1>3
<1>4. \A e \in EndedEntries, g \in Entries' : e.id = g.id => g.phase = e.phase /\ g.at = e.at
  BY <1>3 DEF EndedEntries, Entries
<1> QED BY <1>2, <1>4 DEF Final

(* A step about one task makes an entry of it only if the task is new or   *)
(* has not ended.                                                          *)
LEMMA AgentFinal ==
    ASSUME HistInv, NEW t, NEW G, AgentStep(t, G)
    PROVE  Final
<1>1. rows' = rows
  BY DEF AgentStep
<1>2. ASSUME NEW j \in DOMAIN ui'.tl.entries
      PROVE  \/ \E i \in DOMAIN ui.tl.entries :
                  LET e == ui.tl.entries[i]  g == ui'.tl.entries[j]
                  IN g.id = e.id /\ (Ended(e) => g.phase = e.phase /\ g.at = e.at)
             \/ \A i \in DOMAIN ui.tl.entries : ui.tl.entries[i].id # ui'.tl.entries[j].id
  <2>1. PICK g : g = ui'.tl.entries[j]
    OBVIOUS
  <2>2. CASE g.id = t /\ g \in G
    <3>1. CASE t \notin used
      <4>1. \A i \in DOMAIN ui.tl.entries : ui.tl.entries[i].id \in used
        BY DEF HistInv, ShownInv
      <4> QED BY <2>1, <2>2, <3>1, <4>1
    <3>2. CASE \E i \in DOMAIN ui.tl.entries : ui.tl.entries[i].id = t /\ ~Ended(ui.tl.entries[i])
      BY <2>1, <2>2, <3>2
    <3> QED BY <2>2, <3>1, <3>2 DEF AgentStep
  <2>3. CASE g.id # t /\ \E i \in DOMAIN ui.tl.entries : g = ui.tl.entries[i]
    BY <2>1, <2>3
  <2> QED BY <2>1, <2>2, <2>3, StepEntries
<1> QED BY <1>1, <1>2, FinalFrom

(* What is restored is of tasks that are not shown. *)
LEMMA LoadFinal ==
    ASSUME RunInv, HistInv, LoadAudit
    PROVE  Final
<1>1. aud.pc = "loading" /\ UNCHANGED rows
  BY DEF LoadAudit
<1>2. aud.tried = {}
  BY <1>1 DEF HistInv, TableInv
<1>3. \A r \in rows, i \in DOMAIN ui.tl.entries : ui.tl.entries[i].id # r.id
  BY <1>2 DEF HistInv, TableInv
<1>4. CASE UNCHANGED ui
  BY <1>1, <1>4, FinalFrom
<1>5. ASSUME NEW s \in Sorted(rows, Older),
             ui' = [ui EXCEPT !.tl = MergeRestored(@, [i \in DOMAIN s |-> RestoredEntry(s[i])])]
      PROVE  RestoredTimeline(ui'.tl)
  <2>1. PICK tm : tm = MergeRestored(ui.tl, [i \in DOMAIN s |-> RestoredEntry(s[i])])
    OBVIOUS
  <2>2. RestoredTimeline(tm)
    BY <1>1, <2>1, MergeFacts
  <2>3. ui' = [ui EXCEPT !.tl = tm]
    BY <1>5, <2>1
  <2>4. ui'.tl = tm
    BY <2>3, TlField DEF RunInv, OwnersInv
  <2> QED BY <2>2, <2>4
<1>6. CASE RestoredTimeline(ui'.tl)
  <2>1. ASSUME NEW j \in DOMAIN ui'.tl.entries
        PROVE  \/ \E i \in DOMAIN ui.tl.entries : ui'.tl.entries[j] = ui.tl.entries[i]
               \/ \A i \in DOMAIN ui.tl.entries : ui.tl.entries[i].id # ui'.tl.entries[j].id
    BY <1>3, <1>6 DEF RestoredTimeline, Restores
  <2> QED BY <1>1, <2>1, FinalFrom
<1> QED BY <1>4, <1>5, <1>6 DEF LoadAudit

(* Writing a record marks the entry, and a task is written once. *)
LEMMA WriteFinal ==
    ASSUME RunInv, HistInv, WriteRecord
    PROVE  Final
<1>0. PICK q, r : q = Head(aud.queue) /\ r = Record(q)
  OBVIOUS
<1>1. q = Head(aud.queue) /\ r = Record(q) /\ r.id = q.id
  BY <1>0 DEF Record
<1>2. aud.queue # <<>>
  BY DEF WriteRecord
<1>3. \A s \in rows : s.id # r.id
  <2>1. 1 \in DOMAIN aud.queue /\ q = aud.queue[1]
    BY <1>1, <1>2, TailFacts DEF HistInv, QueueInv
  <2> QED BY <1>1, <2>1 DEF HistInv, QueueInv
<1>4. \/ rows' = Newest(Insert(r)) /\ ui' = [ui EXCEPT !.tl = MarkRecorded(@, q.id)]
      \/ UNCHANGED <<rows, ui>>
  BY <1>1 DEF WriteRecord
<1>5. CASE UNCHANGED <<rows, ui>>
  BY <1>5, FinalFrom
<1>6. CASE rows' = Newest(Insert(r)) /\ ui' = [ui EXCEPT !.tl = MarkRecorded(@, q.id)]
  <2>1. PICK tm : tm = MarkRecorded(ui.tl, q.id)
    OBVIOUS
  <2>2. MarkedTimeline(tm, q.id)
    BY <2>1, MarkFacts DEF HistInv, ShownInv
  <2>3. ui' = [ui EXCEPT !.tl = tm]
    BY <1>6, <2>1
  <2>4. ui'.tl = tm
    BY <2>3, TlField DEF RunInv, OwnersInv
  <2>5. \A j \in DOMAIN tm.entries :
          /\ j \in DOMAIN ui.tl.entries
          /\ tm.entries[j].id = ui.tl.entries[j].id /\ tm.entries[j].phase = ui.tl.entries[j].phase
          /\ tm.entries[j].at = ui.tl.entries[j].at
    BY <2>2 DEF MarkedTimeline, MarkedEntry
  <2>6. \A s \in rows' : s \in rows \/ \A o \in rows : o.id # s.id
    BY <1>3, <1>6, TrimmedTable
  <2>7. ASSUME NEW j \in DOMAIN ui'.tl.entries
        PROVE  \E i \in DOMAIN ui.tl.entries :
                  LET e == ui.tl.entries[i]  g == ui'.tl.entries[j]
                  IN g.id = e.id /\ (Ended(e) => g.phase = e.phase /\ g.at = e.at)
    BY <2>4, <2>5
  <2> QED BY <2>6, <2>7, FinalFrom
<1> QED BY <1>4, <1>5, <1>6

(* The end of a task is final: no step changes what is shown of a task     *)
(* that has ended, or its row.                                             *)
THEOREM EndsAreFinal == PhoneSpec => TerminalIsFinal
<1>1. ASSUME RunInv, HistInv, [PhoneNext]_phoneVars
      PROVE  [Final]_phoneVars
  <2>1. CASE PhoneNext
    <3>1. CASE ObserveEntries
      <4>1. UNCHANGED <<ui, rows>>
        BY <3>1 DEF ObserveEntries
      <4> QED BY <1>1, <4>1, FinalFrom
    <3>2. CASE ProcessDies
      <4>1. ui'.tl.entries = <<>> /\ UNCHANGED rows
        BY <3>2 DEF ProcessDies, NoUi, EmptyTimeline
      <4>2. DOMAIN <<>> = {}
        BY EmptySeq
      <4> QED BY <1>1, <4>1, <4>2, FinalFrom
    <3> QED BY <1>1, <2>1, <3>1, <3>2, StepKinds, AgentFinal, LoadFinal, WriteFinal
  <2> QED BY <1>1, <2>1
<1>2. RunInv /\ HistInv /\ [PhoneNext]_phoneVars => [Final]_phoneVars
  BY <1>1
<1>3. [Final]_phoneVars =>
        [/\ \A e \in EndedEntries, g \in Entries' : e.id = g.id => g.phase = e.phase /\ g.at = e.at
         /\ \A r \in rows, s \in rows' : r.id = s.id => r = s]_phoneVars
  BY DEF Final
<1> QED BY <1>2, <1>3, RunInvariant, HistoryInvariant, PTL DEF PhoneSpec, TerminalIsFinal

=============================================================================
