---------------------------- MODULE McpSessions ----------------------------
(***************************************************************************)
(* Lifetime of the Hub's MCP sessions (mcp_server.py): the middleware that *)
(* counts session slots, the session manager that owns the transports and  *)
(* ends them when a credential is revoked or rotated, and the HTTP         *)
(* handlers (initialize, POST, GET, DELETE) that use both.                 *)
(*                                                                         *)
(* Code between two suspension points of the event loop is one step.  The  *)
(* bodies of _session_lock and _get_request_lock never suspend, so those   *)
(* locks are never contended.  The SDK underneath is external.             *)
(***************************************************************************)
EXTENDS Integers, FiniteSets

CONSTANTS
    Clients,           \* paired credentials
    Sessions,          \* session identifiers that will ever be drawn
    Handlers,          \* HTTP requests in progress at a time
    MaxActiveSessions, \* settings.mcp_max_active_sessions
    MaxMutations,      \* bound on revocations and rotations per credential
    NoClient

ASSUME McpAssumption ==
    /\ MaxActiveSessions \in Nat \ {0} /\ MaxMutations \in Nat
    /\ IsFiniteSet(Handlers) /\ IsFiniteSet(Sessions)
    /\ NoClient \notin Clients

VARIABLES
    cred,       \* per credential: bearer generation, active?
    sess,       \* per session: the manager's transport and its owner
    slots,      \* _active_sessions of the middleware
    old,        \* the slots whose last activity is before the idle cutoff
    pending,    \* _pending_sessions
    streaming,  \* _streaming_session_counts
    gets,       \* sessions with a _get_request_counts entry
    eventStore, \* the manager's event_store attribute, 0 is None
    stores,     \* number of replay stores made so far
    req,        \* per handler: where it is
    mut         \* per credential: a revocation or rotation request

credVars == <<cred, mut>>
slotVars == <<slots, old, pending, streaming>>
mgrVars  == <<sess, gets, eventStore, stores>>
mcpVars  == <<cred, sess, slots, old, pending, streaming, gets, eventStore, stores, req, mut>>

Idle == [pc |-> "idle", method |-> "POST", client |-> NoClient, gen |-> 0,
         sess |-> {}, ok |-> FALSE, victims |-> {}]

McpInit ==
    /\ cred = [c \in Clients |-> [gen |-> 1, active |-> TRUE]]
    /\ sess = [s \in Sessions |-> [state |-> "unused", owner |-> NoClient, gen |-> 0,
                                   timer |-> "off", store |-> 0, told |-> FALSE]]
    /\ slots = {} /\ old = {} /\ pending = 0
    /\ streaming = [s \in Sessions |-> 0]
    /\ gets = {} /\ eventStore = 0 /\ stores = 0
    /\ req = [h \in Handlers |-> Idle]
    /\ mut = [c \in Clients |-> [pc |-> "idle", victims |-> {}, made |-> 0]]

(* A bearer of credential c, as the token verifier sees it now. *)
Current(c, gen) == cred[c].active /\ cred[c].gen = gen

Live(s)  == sess[s].state = "live"
Kept(s)  == sess[s].state \in {"live", "terminated"}        \* in _server_instances
OwnedBy(c) == {s \in Sessions : Kept(s) /\ sess[s].owner = c}

Goto(h, pc) == req' = [req EXCEPT ![h].pc = pc]
Finish(h) == req' = [req EXCEPT ![h] = Idle]

Gone(ids) == [s \in Sessions |-> IF s \in ids THEN [sess[s] EXCEPT !.state = "gone", !.timer = "off", !.gen = 0]
                                 ELSE sess[s]]
FreeSlots(ids) ==
    /\ slots' = slots \ ids /\ old' = old \ ids
    /\ streaming' = [s \in Sessions |-> IF s \in ids THEN 0 ELSE streaming[s]]

(* _touch_session: the slot is as good as new, if there is one. *)
Touched(s) == old \ {s}

-----------------------------------------------------------------------------
(* The bearer is verified before the middleware runs; reading the body may *)
(* take any time after that.                                               *)
Authenticate(h, method, c, s) ==
    /\ req[h].pc = "idle" /\ cred[c].active
    /\ (method # "initialize") = (s # {}) /\ \A t \in s : sess[t].told
    /\ req' = [req EXCEPT ![h] = [Idle EXCEPT !.pc = "authenticated", !.method = method,
                                              !.client = c, !.gen = cred[c].gen, !.sess = s]]
    /\ UNCHANGED <<credVars, slotVars, mgrVars>>

-----------------------------------------------------------------------------
(* POST initialize.                                                        *)

(* Slip: sessions with an open stream are pruned as well. *)
UnprunedIgnoresStreams == slots \ old

(* _prune_idle_sessions *)
Unpruned == {s \in slots : s \notin old \/ streaming[s] > 0}

(* _reserve_session_slot, refused with 503 when every slot is taken. *)
ReserveSlot(h) ==
    /\ req[h].pc = "authenticated" /\ req[h].method = "initialize"
    /\ slots' = Unpruned /\ old' = old \cap Unpruned
    /\ IF Cardinality(Unpruned) + pending >= MaxActiveSessions
       THEN Finish(h) /\ UNCHANGED pending
       ELSE pending' = pending + 1 /\ Goto(h, "reserved")
    /\ UNCHANGED <<credVars, mgrVars, streaming>>

(* Slip: the store is installed without taking the creation lock. *)
InstallStoreUnlocked(h) ==
    /\ req[h].pc = "reserved" /\ stores < Cardinality(Sessions)
    /\ stores' = stores + 1 /\ eventStore' = stores'
    /\ Goto(h, "installed")
    /\ UNCHANGED <<credVars, slotVars, sess, gets>>

(* Under the creation lock the manager's event_store is set to a new store. *)
InstallStore(h) ==
    /\ req[h].pc = "reserved" /\ stores < Cardinality(Sessions)
    /\ \A g \in Handlers : req[g].pc \notin {"installed", "created"}
    /\ stores' = stores + 1 /\ eventStore' = stores'
    /\ Goto(h, "installed")
    /\ UNCHANGED <<credVars, slotVars, sess, gets>>

(* The SDK makes the transport, with the store it finds, and its owner. *)
CreateSession(h) ==
    /\ req[h].pc = "installed"
    /\ \E s \in Sessions :
         /\ sess[s].state = "unused"
         /\ sess' = [sess EXCEPT ![s] = [state |-> "live", owner |-> req[h].client, gen |-> req[h].gen,
                                         timer |-> "running", store |-> eventStore, told |-> FALSE]]
         /\ req' = [req EXCEPT ![h].pc = "created", ![h].sess = {s}]
    /\ UNCHANGED <<credVars, slotVars, gets, eventStore, stores>>

(* The SDK has answered; the lock is released and event_store reset. *)
InitializeAnswered(h, ok) ==
    /\ req[h].pc = "created"
    /\ req' = [req EXCEPT ![h].pc = "answered", ![h].ok = ok]
    /\ eventStore' = 0
    /\ UNCHANGED <<credVars, slotVars, sess, gets, stores>>

(* The SDK, the credential store or the task itself fails: the reservation *)
(* is released, but a session that was made is left to its idle timer.     *)
InitializeRaises(h) ==
    /\ req[h].pc \in {"installed", "created", "answered", "popped"}
    /\ Finish(h)
    /\ pending' = pending - 1
    /\ eventStore' = IF req[h].pc \in {"installed", "created"} THEN 0 ELSE eventStore
    /\ UNCHANGED <<credVars, slots, old, streaming, sess, gets, stores>>

(* terminate_client up to its first suspension: the transports are popped. *)
Pop(ids) == sess' = Gone(ids) /\ gets' = gets \ ids

(* Slip: the bearer is not looked up again. *)
RecheckBearerSkipped(h) ==
    /\ req[h].pc = "answered"
    /\ Goto(h, "checked")
    /\ UNCHANGED <<credVars, slotVars, mgrVars>>

(* authenticate_token still finds the bearer; or it does not, the store     *)
(* failing included, and every session of the client is terminated.         *)
BearerHolds(h) ==
    Current(req[h].client, req[h].gen) /\ Goto(h, "checked") /\ UNCHANGED <<sess, gets>>
BearerGone(h) ==
    /\ Pop(OwnedBy(req[h].client))
    /\ req' = [req EXCEPT ![h].pc = "popped", ![h].victims = OwnedBy(req[h].client)]

(* The bearer is authenticated again after the session exists. *)
RecheckBearer(h) ==
    /\ req[h].pc = "answered"
    /\ BearerHolds(h) \/ BearerGone(h)
    /\ UNCHANGED <<credVars, slotVars, eventStore, stores>>

(* The rest of terminate_client: the termination callback remove_sessions. *)
RecheckTerminates(h) ==
    /\ req[h].pc = "popped"
    /\ FreeSlots(req[h].victims)
    /\ Goto(h, "checked")
    /\ UNCHANGED <<credVars, pending, mgrVars>>

(* _complete_session_reservation: whatever happened to the session since,  *)
(* a 200 turns the reservation into its slot and is then sent.             *)
CompleteReservation(h) ==
    /\ req[h].pc = "checked"
    /\ pending' = pending - 1
    /\ slots' = IF req[h].ok THEN slots \cup req[h].sess ELSE slots
    /\ old' = old \ req[h].sess
    /\ sess' = [s \in Sessions |-> [sess[s] EXCEPT !.told = @ \/ (req[h].ok /\ s \in req[h].sess)]]
    /\ Finish(h)
    /\ UNCHANGED <<credVars, streaming, gets, eventStore, stores>>

-----------------------------------------------------------------------------
(* Requests that name a session.                                           *)

Usable(h, s) == Kept(s) /\ sess[s].owner = req[h].client

(* 404, or the end of a DELETE: remove_terminated_session, and             *)
(* _remove_session unless the transport turns out to be alive.             *)
CleanUp(s) ==
    IF Live(s) THEN old' = Touched(s) /\ UNCHANGED <<sess, gets, slots, streaming>>
    ELSE Pop({s}) /\ FreeSlots({s})

Post(h, s) ==
    /\ req[h].pc = "authenticated" /\ req[h].method = "POST" /\ s \in req[h].sess
    /\ Usable(h, s) /\ Live(s)
    /\ old' = Touched(s)
    /\ sess' = [sess EXCEPT ![s].timer = IF s \in gets THEN "off" ELSE "running"]
    /\ Finish(h)
    /\ UNCHANGED <<credVars, slots, pending, streaming, gets, eventStore, stores>>

Delete(h, s) ==
    /\ req[h].pc = "authenticated" /\ req[h].method = "DELETE" /\ s \in req[h].sess
    /\ Usable(h, s) /\ Live(s)
    /\ old' = Touched(s)
    /\ sess' = [sess EXCEPT ![s].state = "terminated", ![s].timer = "off"]
    /\ Goto(h, "deleted")
    /\ UNCHANGED <<credVars, slots, pending, streaming, gets, eventStore, stores>>

(* POST or DELETE for a session that is gone, ended or another's: 404. *)
NotFound(h, s) ==
    /\ req[h].pc = "authenticated" /\ req[h].method \in {"POST", "DELETE"} /\ s \in req[h].sess
    /\ ~(Usable(h, s) /\ Live(s))
    /\ CleanUp(s)
    /\ Finish(h)
    /\ UNCHANGED <<credVars, pending, eventStore, stores>>

Deleted(h, s) ==
    /\ req[h].pc = "deleted" /\ s \in req[h].sess
    /\ CleanUp(s)
    /\ Finish(h)
    /\ UNCHANGED <<credVars, pending, eventStore, stores>>

(* Slip: a second stream is let in. *)
OpenStreamTwice(h, s) ==
    /\ req[h].pc = "authenticated" /\ req[h].method = "GET" /\ s \in req[h].sess
    /\ old' = Touched(s)
    /\ streaming' = [streaming EXCEPT ![s] = @ + 1]
    /\ IF Usable(h, s) /\ Live(s)
       THEN /\ gets' = gets \cup {s}
            /\ sess' = [sess EXCEPT ![s].timer = "off"]
            /\ req' = [req EXCEPT ![h].pc = "stream", ![h].ok = TRUE]
       ELSE /\ req' = [req EXCEPT ![h].pc = "closed", ![h].ok = Usable(h, s) /\ Live(s)]
            /\ UNCHANGED <<sess, gets>>
    /\ UNCHANGED <<credVars, slots, pending, eventStore, stores>>

(* GET: the slot counts the stream, _begin_get_request refuses a second    *)
(* stream (409) and stops the idle timer; 404 when there is no transport.  *)
OpenStream(h, s) ==
    /\ req[h].pc = "authenticated" /\ req[h].method = "GET" /\ s \in req[h].sess
    /\ old' = Touched(s)
    /\ streaming' = [streaming EXCEPT ![s] = @ + 1]
    /\ IF Usable(h, s) /\ Live(s) /\ s \notin gets
       THEN /\ gets' = gets \cup {s}
            /\ sess' = [sess EXCEPT ![s].timer = "off"]
            /\ req' = [req EXCEPT ![h].pc = "stream", ![h].ok = TRUE]
       ELSE /\ req' = [req EXCEPT ![h].pc = "closed", ![h].ok = Usable(h, s) /\ Live(s)]
            /\ UNCHANGED <<sess, gets>>
    /\ UNCHANGED <<credVars, slots, pending, eventStore, stores>>

(* The client leaves, the lifetime of 45 s is over or the transport ended: *)
(* _finish_get_request.                                                    *)
CloseStream(h, s) ==
    /\ req[h].pc = "stream" /\ s \in req[h].sess
    /\ gets' = gets \ {s}
    /\ sess' = IF Live(s) THEN [sess EXCEPT ![s].timer = "running"] ELSE sess
    /\ Goto(h, "closed")
    /\ UNCHANGED <<credVars, slotVars, eventStore, stores>>

StreamClosed(h, s) ==
    /\ req[h].pc = "closed" /\ s \in req[h].sess
    /\ LET count == IF streaming[s] > 0 THEN streaming[s] - 1 ELSE 0 IN
       IF req[h].ok \/ Live(s)
       THEN /\ streaming' = [streaming EXCEPT ![s] = count] /\ old' = Touched(s)
            /\ UNCHANGED <<sess, gets, slots>>
       ELSE Pop({s}) /\ FreeSlots({s})
    /\ Finish(h)
    /\ UNCHANGED <<credVars, pending, eventStore, stores>>

-----------------------------------------------------------------------------
(* A request that revokes or rotates credential c: commit,                 *)
(* terminate_client, answer.                                               *)
Mutate(c, active) ==
    /\ mut[c].pc = "idle" /\ cred[c].active /\ mut[c].made < MaxMutations
    /\ cred' = [cred EXCEPT ![c] = [gen |-> @.gen + 1, active |-> active]]
    /\ mut' = [mut EXCEPT ![c].pc = "committed", ![c].made = @ + 1]
    /\ UNCHANGED <<slotVars, mgrVars, req>>

(* Slip: the sessions to end are looked up among the slots. *)
TerminateClientBySlot(c) ==
    /\ mut[c].pc = "committed"
    /\ Pop(OwnedBy(c) \cap slots)
    /\ mut' = [mut EXCEPT ![c].pc = "popped", ![c].victims = OwnedBy(c) \cap slots]
    /\ UNCHANGED <<cred, slotVars, eventStore, stores, req>>

TerminateClient(c) ==
    /\ mut[c].pc = "committed"
    /\ Pop(OwnedBy(c))
    /\ mut' = [mut EXCEPT ![c].pc = "popped", ![c].victims = OwnedBy(c)]
    /\ UNCHANGED <<cred, slotVars, eventStore, stores, req>>

(* transport.terminate() raises: the callback is skipped, the answer is an *)
(* error.                                                                  *)
TerminationRaises(c) ==
    /\ mut[c].pc = "popped"
    /\ mut' = [mut EXCEPT ![c].pc = "idle", ![c].victims = {}]
    /\ UNCHANGED <<cred, slotVars, mgrVars, req>>

TerminationCallback(c) ==
    /\ mut[c].pc = "popped"
    /\ FreeSlots(mut[c].victims)
    /\ mut' = [mut EXCEPT ![c].pc = "idle", ![c].victims = {}]
    /\ UNCHANGED <<cred, pending, mgrVars, req>>

-----------------------------------------------------------------------------
(* A minute passes without a request.  Nothing but a stream, or a client   *)
(* that sends its body slowly, takes that long.  Sessions whose timer runs *)
(* are reaped by the SDK; the middleware only sees its slots grow old.     *)
MinutePasses ==
    /\ \A h \in Handlers : req[h].pc \in {"idle", "authenticated", "stream"}
    /\ \A c \in Clients : mut[c].pc = "idle"
    /\ slots # {} \/ \E s \in Sessions : sess[s].timer = "running"
    /\ sess' = Gone({s \in Sessions : sess[s].timer = "running"})
    /\ old' = slots
    /\ UNCHANGED <<credVars, slots, pending, streaming, gets, eventStore, stores, req>>

Initializing(h) ==
    \/ ReserveSlot(h) \/ InstallStore(h) \/ CreateSession(h)
    \/ \E ok \in BOOLEAN : InitializeAnswered(h, ok)
    \/ RecheckBearer(h) \/ RecheckTerminates(h) \/ CompleteReservation(h)

UsingSession(h) ==
    \E s \in Sessions :
        \/ Post(h, s) \/ Delete(h, s) \/ NotFound(h, s) \/ Deleted(h, s)
        \/ OpenStream(h, s) \/ StreamClosed(h, s)

McpNext ==
    \/ \E h \in Handlers :
         \/ \E c \in Clients : \/ Authenticate(h, "initialize", c, {})
                               \/ \E s \in Sessions, method \in {"GET", "POST", "DELETE"} :
                                     Authenticate(h, method, c, {s})
         \/ Initializing(h) \/ InitializeRaises(h)
         \/ UsingSession(h) \/ \E s \in Sessions : CloseStream(h, s)
    \/ \E c \in Clients : \/ \E active \in BOOLEAN : Mutate(c, active)
                          \/ TerminateClient(c) \/ TerminationCallback(c) \/ TerminationRaises(c)
    \/ MinutePasses

McpSpec == McpInit /\ [][McpNext]_mcpVars

(* Requests are served and a revocation runs to its answer; nothing makes  *)
(* a client come back or a stream end.                                     *)
McpFairSpec ==
    /\ McpSpec
    /\ \A h \in Handlers : WF_mcpVars(Initializing(h)) /\ WF_mcpVars(UsingSession(h))
    /\ \A c \in Clients : WF_mcpVars(TerminateClient(c)) /\ WF_mcpVars(TerminationCallback(c))

-----------------------------------------------------------------------------
(* Properties.                                                             *)

Mutating(c) == mut[c].pc # "idle"

(* A client's session never outlives its bearer: once a revocation or a    *)
(* rotation is answered, no session made with the old bearer is alive, not *)
(* even one whose initialize request was in progress at the time.          *)
SessionsDieWithBearer ==
    \A s \in Sessions :
        Live(s) /\ sess[s].told /\ ~Current(sess[s].owner, sess[s].gen) => Mutating(sess[s].owner)

(* The middleware's slots and the manager's sessions are counted apart,    *)
(* yet every reservation belongs to a request in progress, the limit       *)
(* GOFFY_MCP_MAX_ACTIVE_SESSIONS is never exceeded, and every live session *)
(* that a client knows of holds a slot, however old its last request is.   *)
SlotsAreAccounted ==
    /\ pending = Cardinality({h \in Handlers : req[h].pc \in
                    {"reserved", "installed", "created", "answered", "popped", "checked"}})
    /\ Cardinality(slots) + pending <= MaxActiveSessions
    /\ \A s \in Sessions : Live(s) /\ sess[s].told => s \in slots

(* A live session has one stream at most, its idle timer is off exactly    *)
(* while that stream is open, and the middleware counts the stream.        *)
StreamsHoldSessions ==
    \A s \in Sessions :
        LET streams == {h \in Handlers : req[h].pc = "stream" /\ s \in req[h].sess} IN
        Live(s) => /\ Cardinality(streams) <= 1
                   /\ (streams # {}) = (sess[s].timer = "off")
                   /\ streams # {} => streaming[s] > 0

(* Two sessions never share a replay store, however their initialize       *)
(* requests interleave: a cursor of one cannot replay the other's events   *)
(* (handle_request lends its store to the SDK by an attribute of the       *)
(* shared manager).                                                        *)
ReplayStoresAreDistinct ==
    \A s, t \in Sessions : s # t /\ sess[s].store # 0 => sess[s].store # sess[t].store

(* In the end no session made with a revoked or replaced bearer is left,   *)
(* whichever of initialize, revocation and rotation comes first.           *)
RevocationEndsSessions ==
    \A s \in Sessions :
        (Live(s) /\ sess[s].told /\ ~Current(sess[s].owner, sess[s].gen)) ~> ~Live(s)

=============================================================================
