----------------------------- MODULE HubMessages -----------------------------
(***************************************************************************)
(* The receive loop of /ws/v1: discovery-gated invocation of tools and the *)
(* approval of CONFIRM tools (app.py from the loop on, approval.py,        *)
(* discover/preflight/invoke_prepared of registry.py).                     *)
(*                                                                         *)
(* A connection handles one message at a time.  Its handler is suspended   *)
(* while a frame is being sent and while a tool runs; between those awaits *)
(* it is atomic.  Starlette checks that the socket is open when a send     *)
(* begins, so a socket closed during a send is noticed at the next one.    *)
(***************************************************************************)
EXTENDS Integers, FiniteSets

CONSTANTS
    Conns,         \* accepted WebSockets
    Principals,    \* paired credentials and the bootstrap principal
    Keyed,         \* principals whose credential holds a valid approval key
    Logins,        \* the assignments of principals to connections
    SafeTools, ConfirmTools,
    Approvals,     \* approval ids uuid4 can return
    MaxApprovals,  \* MAX_PENDING_APPROVALS (1024)
    MaxMessages,   \* MAX_MESSAGES_PER_CONNECTION (64)
    Ttl,           \* HUB_APPROVAL_TTL_MILLIS, in ticks
    MaxTime        \* bound on the clock

None == "none"

ASSUME MessagesAssumption ==
    /\ None \notin Approvals
    /\ Keyed \subseteq Principals
    /\ Logins \subseteq [Conns -> Principals]
    /\ SafeTools \cap ConfirmTools = {}
    /\ MaxApprovals \in Nat /\ MaxMessages \in Nat /\ Ttl \in Nat /\ MaxTime \in Nat

VARIABLES
    principal,  \* connection -> whom it authenticated as, for its whole life
    ws,         \* connection -> state of its handler
    pending,    \* connection -> ids in its pending_confirm_invocations
    store,      \* approval id -> its record; ApprovalArtifactStore holds the "stored" ones
    healthy,    \* tools the last health pass found available
    signed,     \* approval ids whose record the user's phone has signed (external)
    executed,   \* approval id -> times its tool was started (history)
    now

vars == <<principal, ws, pending, store, healthy, signed, executed, now>>

Tools == SafeTools \cup ConfirmTools

(* idle: awaiting a frame; replying, asking, denying, accepting, reporting: *)
(* a send is in progress; running: the tool is.                             *)
Handler ==
    [phase : {"idle", "replying", "asking", "denying", "accepting", "running", "reporting",
              "ended"},
     open : BOOLEAN, discovered : SUBSET Tools, seen : 0 .. MaxMessages,
     tool : Tools \cup {None}, approval : Approvals \cup {None}]

Record == [status : {"unused", "stored", "consumed", "denied", "dropped"},
           principal : Principals \cup {None}, tool : Tools \cup {None}, expires : Nat]

Init ==
    /\ principal \in Logins
    /\ ws = [x \in Conns |-> [phase |-> "idle", open |-> TRUE, discovered |-> {}, seen |-> 0,
                              tool |-> None, approval |-> None]]
    /\ pending = [x \in Conns |-> {}]
    /\ store = [a \in Approvals |-> [status |-> "unused", principal |-> None, tool |-> None,
                                     expires |-> 0]]
    /\ healthy \in SUBSET Tools
    /\ signed = {}
    /\ executed = [a \in Approvals |-> 0]
    /\ now = 0

Stored == {a \in Approvals : store[a].status = "stored"}

(* _tool_permissions_for_principal: CONFIRM needs an approval key. *)
Permitted(x) == IF principal[x] \in Keyed THEN Tools ELSE SafeTools

Drop(records, ids) ==
    [a \in Approvals |-> IF a \in ids /\ records[a].status = "stored"
                         THEN [records[a] EXCEPT !.status = "dropped"] ELSE records[a]]

(* _prune_expired *)
Pruned == Drop(store, {a \in Stored : now >= store[a].expires})

(* Every message ends in a send.  On an open socket it begins, on a closed *)
(* one it raises and the finally clause discards the approvals.            *)
Send(x, w, mine, records) ==
    IF ws[x].open
    THEN /\ ws' = [ws EXCEPT ![x] = w]
         /\ pending' = [pending EXCEPT ![x] = mine]
         /\ store' = records
    ELSE /\ ws' = [ws EXCEPT ![x] = [w EXCEPT !.phase = "ended"]]
         /\ pending' = [pending EXCEPT ![x] = {}]
         /\ store' = Drop(records, mine)

-----------------------------------------------------------------------------
(* _handle_message.                                                        *)

Receiving(x) == ws[x].phase = "idle"

Accepted(x) == Receiving(x) /\ ws[x].seen < MaxMessages

(* A well-formed message with a fresh id, under the limit. *)
Heard(x) == [ws[x] EXCEPT !.seen = @ + 1, !.discovered = {}]

(* Malformed JSON, a repeated message id, or the message limit. *)
RefuseUnheard(x) ==
    /\ Receiving(x)
    /\ Send(x, [ws[x] EXCEPT !.phase = "replying", !.discovered = {}], pending[x], store)
    /\ UNCHANGED <<healthy, signed, executed, now>>

(* An error reply that changes nothing else: a type or payload the Hub     *)
(* does not accept, an undiscovered or unavailable tool, bad arguments, a  *)
(* task id on a SAFE tool, an approval response that does not validate.    *)
Refuse(x) ==
    /\ Accepted(x)
    /\ Send(x, [Heard(x) EXCEPT !.phase = "replying"], pending[x], store)
    /\ UNCHANGED <<healthy, signed, executed, now>>

Discover(x, t) ==
    /\ Accepted(x)
    /\ LET found == IF t \in healthy /\ t \in Permitted(x) THEN {t} ELSE {}
       IN Send(x, [Heard(x) EXCEPT !.phase = "replying", !.discovered = found], pending[x], store)
    /\ UNCHANGED <<healthy, signed, executed, now>>

(* preflight succeeds for a discovered tool. *)
Admits(x, t) == Accepted(x) /\ t \in ws[x].discovered /\ t \in healthy

InvokeSafe(x, t) ==
    /\ Admits(x, t) /\ t \in SafeTools
    /\ Send(x, [Heard(x) EXCEPT !.phase = "accepting", !.tool = t],
            pending[x], store)
    /\ UNCHANGED <<healthy, signed, executed, now>>

(* A CONFIRM tool is not run: an approval is issued and asked for. *)
InvokeConfirm(x, t, a) ==
    /\ Admits(x, t) /\ t \in ConfirmTools /\ principal[x] \in Keyed
    /\ store[a].status = "unused"
    /\ Cardinality({b \in Approvals : Pruned[b].status = "stored"}) < MaxApprovals
    /\ LET record == [status |-> "stored", principal |-> principal[x], tool |-> t,
                      expires |-> now + Ttl]
       IN Send(x, [Heard(x) EXCEPT !.phase = "asking"],
               pending[x] \cup {a}, [Pruned EXCEPT ![a] = record])
    /\ UNCHANGED <<healthy, signed, executed, now>>

InvokeConfirmFull(x, t) ==
    /\ Admits(x, t) /\ t \in ConfirmTools /\ principal[x] \in Keyed
    /\ Cardinality({b \in Approvals : Pruned[b].status = "stored"}) >= MaxApprovals
    /\ Send(x, [Heard(x) EXCEPT !.phase = "replying"], pending[x], Pruned)
    /\ UNCHANGED <<healthy, signed, executed, now>>

-----------------------------------------------------------------------------
(* _handle_approval_response and ApprovalArtifactStore.consume.            *)

(* Denial takes the record out of the store at once and the pending entry  *)
(* out after the reply.                                                    *)
Deny(x, a) ==
    /\ Accepted(x) /\ principal[x] \in Keyed
    /\ a \in pending[x] /\ a \in Stored
    /\ Send(x, [Heard(x) EXCEPT !.phase = "denying", !.approval = a],
            pending[x], [store EXCEPT ![a].status = "denied"])
    /\ UNCHANGED <<healthy, signed, executed, now>>

(* Slip: the proof is not verified. *)
ApproveUnproved(x, a) ==
    /\ Accepted(x) /\ principal[x] \in Keyed
    /\ a \in pending[x] /\ a \in Stored
    /\ store[a].principal = principal[x]
    /\ now < store[a].expires
    /\ Send(x, [Heard(x) EXCEPT !.phase = "accepting", !.tool = store[a].tool, !.approval = a],
            pending[x] \ {a}, [store EXCEPT ![a].status = "consumed"])
    /\ UNCHANGED <<healthy, signed, executed, now>>

(* Slip: the record is validated and left in the store and in pending. *)
ApproveNotConsumed(x, a) ==
    /\ Accepted(x) /\ principal[x] \in Keyed
    /\ a \in pending[x] /\ a \in Stored
    /\ store[a].principal = principal[x]
    /\ now < store[a].expires
    /\ a \in signed
    /\ Send(x, [Heard(x) EXCEPT !.phase = "accepting", !.tool = store[a].tool, !.approval = a],
            pending[x], store)
    /\ UNCHANGED <<healthy, signed, executed, now>>

(* The response names a pending approval of this connection, the record is *)
(* unexpired and the proof is the phone's signature over that record.  The *)
(* tool was prepared when it was invoked and is not checked again.         *)
Approve(x, a) ==
    /\ Accepted(x) /\ principal[x] \in Keyed
    /\ a \in pending[x] /\ a \in Stored
    /\ store[a].principal = principal[x]
    /\ now < store[a].expires
    /\ a \in signed
    /\ Send(x, [Heard(x) EXCEPT !.phase = "accepting", !.tool = store[a].tool, !.approval = a],
            pending[x] \ {a}, [store EXCEPT ![a].status = "consumed"])
    /\ UNCHANGED <<healthy, signed, executed, now>>

-----------------------------------------------------------------------------
(* The handler resumes.                                                    *)

SendDone(x) ==
    /\ ws[x].phase \in {"replying", "asking", "denying", "reporting"}
    /\ ws' = [ws EXCEPT ![x].phase = "idle", ![x].tool = None, ![x].approval = None]
    /\ pending' = [pending EXCEPT ![x] =
                     IF ws[x].phase = "denying" THEN @ \ {ws[x].approval} ELSE @]
    /\ UNCHANGED <<store, healthy, signed, executed, now>>

(* "accepted" has been sent: invoke_prepared starts the tool. *)
StartTool(x) ==
    /\ ws[x].phase = "accepting"
    /\ ws' = [ws EXCEPT ![x].phase = "running"]
    /\ executed' = [a \in Approvals |->
                      IF a = ws[x].approval THEN executed[a] + 1 ELSE executed[a]]
    /\ UNCHANGED <<pending, store, healthy, signed, now>>

(* Output, failure or timeout.  The frames that follow (completed, result, *)
(* verification, or one error) change no state: they are one send here.    *)
ToolReturns(x) ==
    /\ ws[x].phase = "running"
    /\ Send(x, [ws[x] EXCEPT !.phase = "reporting"], pending[x], store)
    /\ UNCHANGED <<healthy, signed, executed, now>>

(* Slip: the finally clause does not discard. *)
EndConnectionKeepsApprovals(x) ==
    /\ ws[x].phase # "ended"
    /\ ws' = [ws EXCEPT ![x].phase = "ended"]
    /\ UNCHANGED <<pending, store, healthy, signed, executed, now>>

(* The peer is gone, a send raises or an outbound message is too large.    *)
EndConnection(x) ==
    /\ ws[x].phase # "ended"
    /\ ws' = [ws EXCEPT ![x].phase = "ended"]
    /\ pending' = [pending EXCEPT ![x] = {}]
    /\ store' = Drop(store, pending[x])
    /\ UNCHANGED <<healthy, signed, executed, now>>

(* WebSocketConnectionRegistry.revoke closes the socket under the handler. *)
RevokeCloses(x) ==
    /\ ws[x].open
    /\ ws' = [ws EXCEPT ![x].open = FALSE]
    /\ UNCHANGED <<pending, store, healthy, signed, executed, now>>

-----------------------------------------------------------------------------
(* The surroundings: health pass, phone, clock, crash.                     *)

HealthPass(H) ==
    /\ healthy' = H
    /\ UNCHANGED <<ws, pending, store, signed, executed, now>>

(* The user approves on the phone that holds the key (external). *)
UserSigns(a) ==
    /\ store[a].status # "unused"
    /\ signed' = signed \cup {a}
    /\ UNCHANGED <<ws, pending, store, healthy, executed, now>>

Tick ==
    /\ now < MaxTime
    /\ now' = now + 1
    /\ UNCHANGED <<ws, pending, store, healthy, signed, executed>>

HubRestart ==
    /\ ws' = [x \in Conns |-> [ws[x] EXCEPT !.phase = "ended"]]
    /\ pending' = [x \in Conns |-> {}]
    /\ store' = Drop(store, Approvals)
    /\ UNCHANGED <<healthy, signed, executed, now>>

ConnectionStep(x) ==
    \/ RefuseUnheard(x) \/ Refuse(x)
    \/ \E t \in Tools : Discover(x, t) \/ InvokeSafe(x, t) \/ InvokeConfirmFull(x, t)
    \/ \E t \in Tools, a \in Approvals : InvokeConfirm(x, t, a)
    \/ \E a \in Approvals : Deny(x, a) \/ Approve(x, a)
    \/ SendDone(x) \/ StartTool(x) \/ ToolReturns(x) \/ EndConnection(x) \/ RevokeCloses(x)

Next ==
    /\ \/ \E x \in Conns : ConnectionStep(x)
       \/ \E H \in SUBSET Tools : HealthPass(H)
       \/ \E a \in Approvals : UserSigns(a)
       \/ Tick
       \/ HubRestart
    /\ UNCHANGED principal

Spec == Init /\ [][Next]_vars

-----------------------------------------------------------------------------
(* Properties.                                                             *)

TypeOK ==
    /\ principal \in Logins
    /\ ws \in [Conns -> Handler]
    /\ pending \in [Conns -> SUBSET Approvals]
    /\ store \in [Approvals -> Record]
    /\ healthy \in SUBSET Tools
    /\ signed \in SUBSET Approvals
    /\ executed \in [Approvals -> Nat]
    /\ now \in 0 .. MaxTime

(* One approval starts its tool at most once, and only if the phone signed *)
(* it and nobody denied it, over replays, reconnects and restarts.         *)
ApprovalStartsToolOnce ==
    \A a \in Approvals : executed[a] > 0 =>
        executed[a] = 1 /\ a \in signed /\ store[a].status = "consumed"

(* A CONFIRM tool that is accepted or running is covered by an approval of *)
(* its own: signed, taken, for this tool and this principal.               *)
Executing(x) == ws[x].phase \in {"accepting", "running"}
ConfirmToolsAreApproved ==
    \A x \in Conns : Executing(x) /\ ws[x].tool \in ConfirmTools =>
        LET a == ws[x].approval IN
        /\ a \in signed
        /\ store[a].status = "consumed"
        /\ store[a].tool = ws[x].tool
        /\ store[a].principal = principal[x]
        /\ principal[x] \in Keyed
        /\ \A y \in Conns \ {x} : Executing(y) => ws[y].approval # a

(* A record in the store is pending on exactly one connection, that        *)
(* handler still runs, and its principal has a key to sign with: no        *)
(* disconnect, revocation or crash strands one, and a principal without a  *)
(* key never gets as far as taking a place (docs/adr/0037).                *)
NoOrphanedApproval ==
    \A a \in Stored : \E x \in Conns :
        /\ a \in pending[x] /\ ws[x].phase # "ended" /\ principal[x] \in Keyed
        /\ \A y \in Conns \ {x} : a \notin pending[y]

=============================================================================
