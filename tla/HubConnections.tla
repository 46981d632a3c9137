--------------------------- MODULE HubConnections ---------------------------
(***************************************************************************)
(* Who may talk to the Hub, and how that right is withdrawn: the connect   *)
(* path of the /ws/v1 handler (app.py), the index of live sockets          *)
(* (connections.py), the authenticator (auth.py) and the HTTP handlers     *)
(* that revoke or rotate a credential (pairing_api.py).                    *)
(*                                                                         *)
(* One asyncio loop runs every handler.  A handler gives the loop up only  *)
(* where it awaits a worker thread (every credential-store call) or the    *)
(* network, so an action is the code between two such awaits, and a store  *)
(* call is an action of its own: what it read is used one step later.      *)
(***************************************************************************)
EXTENDS CredentialStore

CONSTANTS
    Conns,      \* WebSocket connection attempts
    Requests,   \* HTTP requests that revoke or rotate
    Raising     \* bound: the requests whose on_revoke may raise

VARIABLES
    conn,       \* connection attempt -> its handler
    registry,   \* credential -> sockets indexed by WebSocketConnectionRegistry
    closing,    \* sockets whose close task is scheduled and has not run
    req,        \* HTTP request -> its handler
    intents     \* credential -> "..._requested" events written to the audit log

vars == <<rows, conn, registry, closing, req, intents>>
hubVars == <<conn, registry, closing, req, intents>>

NoCredential == 0

(* new -> authenticated -> checking -> active | inactive -> serving -> ended, *)
(* where checking awaits is_active() and active/inactive is its answer;       *)
(* "aborted" is a handler that raised while its socket was still indexed.     *)
Handler == [pc : {"new", "authenticated", "checking", "active", "inactive",
                  "serving", "ended", "aborted"},
            cred : CredentialIds \cup {NoCredential}, gen : Nat, closed : BOOLEAN]

(* idle -> authed -> recorded -> committed -> closing -> done; "refused" is  *)
(* an error response the route raises itself (401, 403, 404, 409, 503),      *)
(* "failed" the 500 of an exception out of on_revoke, and "lost" a request   *)
(* cut off by a crash.                                                       *)
RequestState ==
    [pc : {"idle", "authed", "recorded", "committed", "closing", "done", "failed",
           "refused", "lost"},
     kind : {"none", "self_revoke", "admin_revoke", "rotate"},
     cred : CredentialIds \cup {NoCredential}, gen : Nat, waits : SUBSET Conns]

Init ==
    /\ StoreInit
    /\ conn = [x \in Conns |-> [pc |-> "new", cred |-> NoCredential, gen |-> 0, closed |-> FALSE]]
    /\ registry = [c \in CredentialIds |-> {}]
    /\ closing = {}
    /\ req = [r \in Requests |-> [pc |-> "idle", kind |-> "none", cred |-> NoCredential,
                                  gen |-> 0, waits |-> {}]]
    /\ intents = [c \in CredentialIds |-> 0]

(* The sockets over which a client can still reach the Hub's tools. *)
Live(x) == conn[x].pc \in {"active", "serving"} /\ ~conn[x].closed

(* A handler that has returned: its locals are gone and its socket closed. *)
Gone == [pc |-> "ended", cred |-> NoCredential, gen |-> 0, closed |-> TRUE]

Goto(x, pc) == conn' = [conn EXCEPT ![x].pc = pc]
Unregister(x) == registry' = [registry EXCEPT ![conn[x].cred] = @ \ {x}]

-----------------------------------------------------------------------------
(* Pairing a device inserts a row and may prune revoked ones.              *)

PairDevice(c) == Issue(c) /\ UNCHANGED hubVars

-----------------------------------------------------------------------------
(* The WebSocket handler, up to its receive loop.                          *)

(* authenticate_header: a worker thread looks the presented bearer up. *)
AuthenticateSocket(x, c, g) ==
    /\ conn[x].pc = "new"
    /\ Authenticates(c, g)
    /\ conn' = [conn EXCEPT ![x].pc = "authenticated", ![x].cred = c, ![x].gen = g]
    /\ UNCHANGED <<rows, registry, closing, req, intents>>

(* Unknown bearer, bootstrap bearer (no tool scope in paired mode), or a   *)
(* store error, which authenticate_token turns into None.                  *)
RejectSocket(x) ==
    /\ conn[x].pc = "new"
    /\ conn' = [conn EXCEPT ![x] = Gone]
    /\ UNCHANGED <<rows, registry, closing, req, intents>>

(* accept(), the audit record and register(); is_active() is then awaited. *)
AcceptAndRegister(x) ==
    /\ conn[x].pc = "authenticated"
    /\ registry' = [registry EXCEPT ![conn[x].cred] = @ \cup {x}]
    /\ Goto(x, "checking")
    /\ UNCHANGED <<rows, closing, req, intents>>

(* The peer is gone or the audit store refuses the event. *)
AcceptFails(x) ==
    /\ conn[x].pc = "authenticated"
    /\ conn' = [conn EXCEPT ![x] = Gone]
    /\ UNCHANGED <<rows, registry, closing, req, intents>>

(* Slip: the principal authenticated above is taken to be active still. *)
ReadIsActiveSkipped(x) ==
    /\ conn[x].pc = "checking"
    /\ Goto(x, "active")
    /\ UNCHANGED <<rows, registry, closing, req, intents>>

(* is_active on a worker thread; a store error reads as FALSE. *)
ReadIsActive(x) ==
    /\ conn[x].pc = "checking"
    /\ \/ IsActive(conn[x].cred) /\ Goto(x, "active")
       \/ Goto(x, "inactive")
    /\ UNCHANGED <<rows, registry, closing, req, intents>>

StartServing(x) ==
    /\ conn[x].pc = "active"
    /\ Goto(x, "serving")
    /\ UNCHANGED <<rows, registry, closing, req, intents>>

RefuseInactive(x) ==
    /\ conn[x].pc = "inactive"
    /\ Unregister(x)
    /\ conn' = [conn EXCEPT ![x] = Gone]
    /\ UNCHANGED <<rows, closing, req, intents>>

(* The audit record of the refusal raises: the handler is torn down before *)
(* unregister() and outside the try/finally that would call it.            *)
RefuseInactiveAuditFails(x) ==
    /\ conn[x].pc = "inactive"
    /\ conn' = [conn EXCEPT ![x].pc = "aborted", ![x].closed = TRUE]
    /\ UNCHANGED <<rows, registry, closing, req, intents>>

(* Slip: the finally clause is missing. *)
EndServingStaysRegistered(x) ==
    /\ conn[x].pc = "serving"
    /\ conn' = [conn EXCEPT ![x] = Gone]
    /\ UNCHANGED <<rows, registry, closing, req, intents>>

(* The receive loop ends (peer gone, Hub closed the socket, an error) and  *)
(* the finally clause unregisters.                                         *)
EndServing(x) ==
    /\ conn[x].pc = "serving"
    /\ Unregister(x)
    /\ conn' = [conn EXCEPT ![x] = Gone]
    /\ UNCHANGED <<rows, closing, req, intents>>

-----------------------------------------------------------------------------
(* DELETE /pairing/v1/self, POST /pairing/v1/rotate and                    *)
(* DELETE /admin/v1/credentials/{id}.                                      *)

ReqGoto(r, pc) == req' = [req EXCEPT ![r].pc = pc]

(* A device presents its own bearer; the administrator names any id.       *)
AuthenticateRequest(r, kind, c, g) ==
    /\ req[r].pc = "idle"
    /\ IF kind = "admin_revoke" THEN g = 0 ELSE Authenticates(c, g)
    /\ req' = [req EXCEPT ![r].pc = "authed", ![r].kind = kind, ![r].cred = c, ![r].gen = g]
    /\ UNCHANGED <<rows, conn, registry, closing, intents>>

(* 401 or 403. *)
RejectRequest(r) ==
    /\ req[r].pc = "idle"
    /\ ReqGoto(r, "refused")
    /\ UNCHANGED <<rows, conn, registry, closing, intents>>

(* check_store() and the fail-closed "..._requested" audit event. *)
RecordIntent(r) ==
    /\ req[r].pc = "authed"
    /\ intents' = [intents EXCEPT ![req[r].cred] = @ + 1]
    /\ ReqGoto(r, "recorded")
    /\ UNCHANGED <<rows, conn, registry, closing>>

(* Slip: the request event is best effort, like the completion event. *)
AuditUnavailableIgnored(r) ==
    /\ req[r].pc = "authed"
    /\ ReqGoto(r, "recorded")
    /\ UNCHANGED <<rows, conn, registry, closing, intents>>

AuditUnavailable(r) ==
    /\ req[r].pc = "authed"
    /\ ReqGoto(r, "refused")
    /\ UNCHANGED <<rows, conn, registry, closing, intents>>

IsRevocation(r) == req[r].kind \in {"self_revoke", "admin_revoke"}

CommitRevoke(r, t) ==
    /\ req[r].pc = "recorded" /\ IsRevocation(r)
    /\ Revoke(req[r].cred, t)
    /\ ReqGoto(r, "committed")
    /\ UNCHANGED <<conn, registry, closing, intents>>

(* Slip: UPDATE ... WHERE credential_id = ? only. *)
CommitRotateBlindly(r) ==
    /\ req[r].pc = "recorded" /\ req[r].kind = "rotate"
    /\ rows' = [rows EXCEPT ![req[r].cred].gen = req[r].gen + 1]
    /\ ReqGoto(r, "committed")
    /\ UNCHANGED <<conn, registry, closing, intents>>

CommitRotate(r) ==
    /\ req[r].pc = "recorded" /\ req[r].kind = "rotate"
    /\ Rotate(req[r].cred, req[r].gen)
    /\ ReqGoto(r, "committed")
    /\ UNCHANGED <<conn, registry, closing, intents>>

(* 503 on a store error, or 404/409 when the row no longer qualifies. *)
MutationRefused(r) ==
    /\ req[r].pc = "recorded"
    /\ ReqGoto(r, "refused")
    /\ UNCHANGED <<rows, conn, registry, closing, intents>>

(* Slip: the sockets are popped and the close coroutines never awaited. *)
CloseSessionsNotAwaited(r) ==
    /\ req[r].pc = "committed"
    /\ registry' = [registry EXCEPT ![req[r].cred] = {}]
    /\ ReqGoto(r, "closing")
    /\ UNCHANGED <<rows, conn, closing, intents>>

(* on_revoke: pop the credential's sockets and schedule one close task for *)
(* each.  The loop runs tasks in the order they were scheduled, so when    *)
(* this handler resumes every close task scheduled up to now has run, its  *)
(* own and those of an earlier request.                                    *)
CloseSessions(r) ==
    /\ req[r].pc = "committed"
    /\ closing' = closing \cup registry[req[r].cred]
    /\ registry' = [registry EXCEPT ![req[r].cred] = {}]
    /\ req' = [req EXCEPT ![r].pc = "closing", ![r].waits = closing']
    /\ UNCHANGED <<rows, conn, intents>>

(* One close task: Starlette marks the socket closed before it awaits the  *)
(* transport; an error is suppressed.                                      *)
RunClose(x) ==
    /\ x \in closing
    /\ closing' = closing \ {x}
    /\ conn' = [conn EXCEPT ![x].closed = TRUE]
    /\ UNCHANGED <<rows, registry, req, intents>>

(* Slip: the completion event is fail-closed too. *)
RespondFailClosed(r) ==
    /\ req[r].pc = "closing"
    /\ req[r].waits \cap closing = {}
    /\ ReqGoto(r, "done") \/ ReqGoto(r, "refused")
    /\ UNCHANGED <<rows, conn, registry, closing, intents>>

(* The completion event is recorded if the audit store takes it; either    *)
(* way the client gets its success response.                               *)
Respond(r) ==
    /\ req[r].pc = "closing"
    /\ req[r].waits \cap closing = {}
    /\ ReqGoto(r, "done")
    /\ UNCHANGED <<rows, conn, registry, closing, intents>>

(* The MCP half of on_revoke raises (a transport whose terminate() fails).  *)
(* gather() hands the exception on at once: the route answers 500 without   *)
(* its completion event, and the close tasks run on by themselves.          *)
RevokeRaises(r) ==
    /\ r \in Raising /\ req[r].pc = "closing"
    /\ req' = [req EXCEPT ![r].pc = "failed", ![r].waits = {}]
    /\ UNCHANGED <<rows, conn, registry, closing, intents>>

-----------------------------------------------------------------------------
(* The process dies and starts again: only the two databases survive.      *)
HubRestart ==
    /\ conn' = [x \in Conns |->
                  IF conn[x].pc \in {"new", "ended"} THEN conn[x]
                  ELSE Gone]
    /\ registry' = [c \in CredentialIds |-> {}]
    /\ closing' = {}
    /\ req' = [r \in Requests |->
                 IF req[r].pc \in {"idle", "done", "failed", "refused"} THEN req[r]
                 ELSE [req[r] EXCEPT !.pc = "lost", !.waits = {}]]
    /\ UNCHANGED <<rows, intents>>

SocketStep(x) ==
    \/ \E c \in CredentialIds, g \in 0 .. MaxGeneration : AuthenticateSocket(x, c, g)
    \/ RejectSocket(x)
    \/ AcceptAndRegister(x)
    \/ AcceptFails(x)
    \/ ReadIsActive(x)
    \/ StartServing(x)
    \/ RefuseInactive(x)
    \/ RefuseInactiveAuditFails(x)
    \/ EndServing(x)

RequestStep(r) ==
    \/ \E kind \in {"self_revoke", "admin_revoke", "rotate"}, c \in CredentialIds,
          g \in 0 .. MaxGeneration : AuthenticateRequest(r, kind, c, g)
    \/ RejectRequest(r)
    \/ RecordIntent(r)
    \/ AuditUnavailable(r)
    \/ \E t \in Stamps : CommitRevoke(r, t)
    \/ CommitRotate(r)
    \/ MutationRefused(r)
    \/ CloseSessions(r)
    \/ Respond(r)
    \/ RevokeRaises(r)

Next ==
    \/ \E c \in CredentialIds : PairDevice(c)
    \/ \E x \in Conns : SocketStep(x)
    \/ \E r \in Requests : RequestStep(r)
    \/ \E x \in Conns : RunClose(x)
    \/ HubRestart

Spec == Init /\ [][Next]_vars

(* The loop runs every task that is ready, so a scheduled close task, a    *)
(* request that has committed and a handler whose answer is in all get     *)
(* their turn.  No client is assumed to act.                               *)
Fairness ==
    /\ \A r \in Requests : WF_vars(CloseSessions(r)) /\ WF_vars(Respond(r))
    /\ \A x \in Conns : WF_vars(RunClose(x))

FairSpec == Spec /\ Fairness

-----------------------------------------------------------------------------
(* Properties.                                                             *)

TypeOK ==
    /\ StoreTypeOK
    /\ conn \in [Conns -> Handler]
    /\ registry \in [CredentialIds -> SUBSET Conns]
    /\ closing \in SUBSET Conns
    /\ req \in [Requests -> RequestState]
    /\ intents \in [CredentialIds -> Nat]

(* Once a revocation has been answered, no socket of that credential is    *)
(* open, whatever was connecting, being checked, rotating or pairing       *)
(* meanwhile ("so credential revocation is immediate", connections.py).    *)
RevokedAccessClosed ==
    \A r \in Requests, x \in Conns :
        IsRevocation(r) /\ req[r].pc = "done" /\ conn[x].cred = req[r].cred => ~Live(x)

(* Every rotation and revocation in the store was announced in the audit   *)
(* log before it was committed, across failures and restarts.              *)
Mutations(c) == rows[c].gen + IF rows[c].status \in {"revoked", "pruned"} THEN 1 ELSE 0
MutationsAreAnnounced == \A c \in CredentialIds : Mutations(c) <= intents[c]

(* A socket is indexed only under its own credential and only while its    *)
(* handler runs, the handler that an audit failure tore down excepted.     *)
NoStrayRegistration ==
    \A c \in CredentialIds : \A x \in registry[c] :
        /\ conn[x].cred = c
        /\ conn[x].pc \in {"checking", "active", "inactive", "serving", "aborted"}

(* Answers agree with the store: a request that got past its commit made    *)
(* exactly one change, and one refused by the route itself made none ("Do  *)
(* not return a false HTTP failure after changing credential state",       *)
(* _audit).  What stays open to the client is a crash, and the 500 of an   *)
(* exception out of on_revoke: that one always follows a change.           *)
Past(c, pcs) == {r \in Requests : req[r].cred = c /\ req[r].pc \in pcs}
AnswersMatchStore ==
    \A c \in CredentialIds :
        /\ Cardinality(Past(c, {"committed", "closing", "done", "failed"})) <= Mutations(c)
        /\ Mutations(c) <= Cardinality(Past(c, {"committed", "closing", "done", "failed", "lost"}))

(* A session of a revoked credential does not outlive the revocation, also *)
(* when the Hub restarts in the middle.                                    *)
RevocationReachesSessions ==
    \A x \in Conns : (conn[x].cred # NoCredential /\ conn[x].cred \notin Active) ~> ~Live(x)

(* The handlers change the credential table only through its operations.   *)
ImplementsStore == StoreSpec

(* A rotation answered with success leaves no session of a superseded      *)
(* bearer ("old live sessions are closed", docs/adr/0018).  The code does  *)
(* not guarantee it: is_active() asks about the credential, not the bearer.*)
RotationClosesOldSessions ==
    \A r \in Requests, x \in Conns :
        /\ req[r].kind = "rotate" /\ req[r].pc = "done"
        /\ conn[x].cred = req[r].cred /\ conn[x].gen <= req[r].gen
        => ~Live(x)

-----------------------------------------------------------------------------
(* The inductive invariant behind RevokedAccessClosed.                     *)

(* A handler and a request past authentication name a credential of the    *)
(* store.                                                                  *)
Named ==
    /\ \A x \in Conns : conn[x].pc \notin {"new", "ended"} => conn[x].cred \in CredentialIds
    /\ \A r \in Requests : req[r].pc \notin {"idle", "refused"} => req[r].cred \in CredentialIds

(* A socket that is being checked or served, and is not closed, can still  *)
(* be reached by whoever revokes its credential: it is indexed, or its     *)
(* close task is already scheduled.  Registering before is_active() is     *)
(* what makes this hold.                                                   *)
Tracked ==
    \A x \in Conns :
        conn[x].pc \in {"checking", "active", "serving"} /\ ~conn[x].closed =>
            x \in registry[conn[x].cred] \cup closing

(* From its commit on, a revocation's credential is inactive for good. *)
CommittedMeansInactive ==
    \A r \in Requests :
        IsRevocation(r) /\ req[r].pc \in {"committed", "closing", "done"} =>
            rows[req[r].cred].status \in {"revoked", "pruned"}

(* Once a revocation has popped the index, every socket of its credential  *)
(* that passed the check is one of those whose close task it waits for.    *)
WaitsCoverLive ==
    \A r \in Requests, x \in Conns :
        /\ IsRevocation(r) /\ req[r].pc \in {"closing", "done"}
        /\ conn[x].cred = req[r].cred /\ Live(x)
        => x \in req[r].waits

(* What a request waits for is scheduled or closed, and closed at the end. *)
WaitsClose ==
    \A r \in Requests : \A x \in req[r].waits :
        /\ req[r].pc = "closing" => x \in closing \/ conn[x].closed
        /\ req[r].pc = "done" => conn[x].closed

(* Whoever revokes a credential reaches every socket that uses it. *)
AccessInv == Tracked /\ CommittedMeansInactive /\ WaitsCoverLive /\ WaitsClose
=============================================================================
