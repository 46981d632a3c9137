-------------------------- MODULE ToolListChanges --------------------------
(***************************************************************************)
(* How an MCP client learns that the Hub's tool list has changed: the      *)
(* health monitor (tool_health.py) probes the tools and replaces the       *)
(* registry's health, the notifier sends tools/list_changed to the         *)
(* sessions that have listed the tools, and each session keeps a bounded   *)
(* replay store from which a stream that reconnects with a cursor is       *)
(* caught up (mcp_server.py, BoundedMcpEventStore).                        *)
(*                                                                         *)
(* An event identifier is modelled by the event's position in the store,   *)
(* so that a cursor that was evicted is position 0; the prefix that makes  *)
(* identifiers unique per session is what makes a foreign cursor unknown.  *)
(* The transport that writes to the SSE response is the SDK's.             *)
(***************************************************************************)
EXTENDS Integers, Sequences, FiniteSets

CONSTANTS
    Tools,      \* registered tools
    SafeTools,  \* those of PermissionLevel.SAFE, the only ones MCP lists
    Sessions,   \* MCP sessions
    MaxEvents,  \* MCP_REPLAY_MAX_EVENTS
    WireSize    \* events the SSE response holds before a send blocks

ASSUME ToolListAssumption ==
    /\ SafeTools \subseteq Tools
    /\ MaxEvents \in Nat \ {0} /\ WireSize \in Nat \ {0, 1}

VARIABLES
    works,      \* the tools whose probe would succeed now
    healthy,    \* _healthy: the tools that are available
    monitor,    \* check_now: idle, probing or notifying
    unprobed,   \* tools whose probe has not answered in this pass
    up,         \* tools whose probe has answered True in this pass
    sending,    \* sessions the current notify() still has to send to
    registered, \* sessions of McpToolListNotifier
    active,     \* the manager's live sessions
    store,      \* per session: kinds of the retained events, oldest first
    stream,     \* per session: the GET stream
    replay,     \* per session: positions replay_events_after has yet to send
    wire,       \* per session: events on their way to the client
    cursor,     \* per client: the last event identifier it received
    view,       \* per client: the last listing and whether it held a cursor then
    told        \* per client: a change arrived since that listing was read

monitorVars == <<works, healthy, monitor, unprobed, up>>
streamVars  == <<store, stream, replay, wire, cursor>>
toolListVars == <<monitorVars, sending, registered, active, streamVars, view, told>>

NoCursor == -1
Evicted  == 0
NoView   == [listed |-> FALSE, tools |-> {}, primed |-> FALSE]

ToolListInit ==
    /\ works \in SUBSET Tools /\ healthy = works
    /\ monitor = "idle" /\ unprobed = {} /\ up = {}
    /\ sending = {} /\ registered = {} /\ active = Sessions
    /\ store  = [s \in Sessions |-> <<>>]
    /\ stream = [s \in Sessions |-> "none"]
    /\ replay = [s \in Sessions |-> <<>>]
    /\ wire   = [s \in Sessions |-> <<>>]
    /\ cursor = [s \in Sessions |-> NoCursor]
    /\ view   = [s \in Sessions |-> NoView]
    /\ told   = [s \in Sessions |-> FALSE]

-----------------------------------------------------------------------------
(* The replay store. *)

(* _retain_event appends an event; at the limit the oldest is evicted, which
   moves the positions that are still referred to. *)
Evicts(evs) == IF Len(evs) < MaxEvents THEN 0 ELSE 1
Retain(evs, kind) == Append(SubSeq(evs, 1 + Evicts(evs), Len(evs)), kind)
LastOf(evs, kind) == [pos |-> Len(Retain(evs, kind)), kind |-> kind]
Shift(p, by) == IF p \in {NoCursor, Evicted} THEN p ELSE p - by
ShiftAll(ps, by) == [i \in DOMAIN ps |-> [ps[i] EXCEPT !.pos = Shift(@, by)]]

(* replay_events_after: the events to send for a reconnect with the event at
   position c of the sequence evs as its cursor. *)
RequiresResync(evs, c) == c = Evicted \/ evs[c] = "change" \/ c < Len(evs)
InOrder(P) == CHOOSE q \in [1..Cardinality(P) -> P] : \A i, j \in DOMAIN q : i < j => q[i] < q[j]
ReplayAfter(evs, c) ==
    LET q == InOrder({p \in (c + 1)..Len(evs) : evs[p] = "change"})
    IN  IF c = Evicted THEN <<>> ELSE [i \in DOMAIN q |-> [pos |-> q[i], kind |-> "change"]]

-----------------------------------------------------------------------------
(* The health monitor. *)

(* A tool of the Mac starts or stops working. *)
ToolChanges(t) ==
    /\ works' = IF t \in works THEN works \ {t} ELSE works \union {t}
    /\ UNCHANGED <<healthy, monitor, unprobed, up, sending, registered, active,
                   streamVars, view, told>>

(* check_now under _check_lock: a pass begins when none is in progress. *)
StartPass ==
    /\ monitor = "idle"
    /\ monitor' = "probing" /\ unprobed' = Tools /\ up' = {}
    /\ UNCHANGED <<works, healthy, sending, registered, active, streamVars, view, told>>

(* One health probe answers, or raises or exceeds its timeout: not healthy. *)
Probe(t) ==
    /\ monitor = "probing" /\ t \in unprobed
    /\ unprobed' = unprobed \ {t}
    /\ \/ t \in works /\ up' = up \union {t}
       \/ UNCHANGED up
    /\ UNCHANGED <<works, healthy, monitor, sending, registered, active,
                   streamVars, view, told>>

(* notify(): forget sessions that are gone, then send to the others. *)
Publish(changed) ==
    /\ registered' = IF changed THEN registered \intersect active ELSE registered
    /\ sending' = IF changed THEN registered \intersect active ELSE {}
    /\ monitor' = IF sending' = {} THEN "idle" ELSE "notifying"

(* refresh_health applies the results of all the probes at once. *)
ApplyHealth ==
    /\ monitor = "probing" /\ unprobed = {}
    /\ healthy' = up
    /\ Publish(healthy' # healthy)
    /\ UNCHANGED <<works, unprobed, up, active, streamVars, view, told>>

(* Slip: a pass that raises leaves the health as it was. *)
MonitorFailsKeepsHealth ==
    /\ monitor = "probing"
    /\ unprobed' = {}
    /\ Publish(FALSE)
    /\ UNCHANGED <<works, healthy, up, active, streamVars, view, told>>

(* The pass raises: mark_all_unavailable. *)
MonitorFails ==
    /\ monitor = "probing"
    /\ healthy' = {} /\ unprobed' = {}
    /\ Publish(healthy' # healthy)
    /\ UNCHANGED <<works, up, active, streamVars, view, told>>

-----------------------------------------------------------------------------
(* The notifier. *)

Sent(s) ==
    /\ sending' = sending \ {s}
    /\ monitor' = IF sending' = {} THEN "idle" ELSE "notifying"

(* send_tool_list_changed: the event is stored and, when a stream is attached,
   written to it.  A full stream blocks the send before anything is stored. *)
Send(s) ==
    /\ s \in sending \intersect active
    /\ stream[s] = "attached" => Len(wire[s]) < WireSize
    /\ Sent(s)
    /\ LET by == Evicts(store[s])
       IN  /\ store' = [store EXCEPT ![s] = Retain(@, "change")]
           /\ cursor' = [cursor EXCEPT ![s] = Shift(@, by)]
           /\ replay' = [replay EXCEPT ![s] = ShiftAll(@, by)]
           /\ wire' = [wire EXCEPT ![s] = ShiftAll(@, by) \o
                          IF stream[s] = "attached" THEN <<LastOf(store[s], "change")>> ELSE <<>>]
    /\ UNCHANGED <<works, healthy, unprobed, up, registered, active, stream, view, told>>

(* A send blocked for MCP_NOTIFICATION_TIMEOUT_SECONDS, or to a session that
   has ended meanwhile: unregister. *)
SendFails(s) ==
    /\ s \in sending
    /\ s \in active => stream[s] = "attached" /\ Len(wire[s]) = WireSize
    /\ Sent(s)
    /\ registered' = registered \ {s}
    /\ UNCHANGED <<works, healthy, unprobed, up, active, streamVars, view, told>>

-----------------------------------------------------------------------------
(* The client and its requests. *)

(* Slip: only a session's first listing is registered before it reads the registry;
   a session the notifier has dropped stays dropped. *)
ListToolsRegistersOnce(s) ==
    /\ s \in active
    /\ registered' = IF view[s].listed THEN registered ELSE registered \union {s}
    /\ view' = [view EXCEPT ![s] = [listed |-> TRUE, tools |-> healthy \intersect SafeTools,
                                    primed |-> cursor[s] # NoCursor]]
    /\ told' = [told EXCEPT ![s] = FALSE]
    /\ UNCHANGED <<monitorVars, sending, active, streamVars>>

(* tools/list: register, then describe(); the two never suspend in between. *)
ListTools(s) ==
    /\ s \in active
    /\ registered' = registered \union {s}
    /\ view' = [view EXCEPT ![s] = [listed |-> TRUE, tools |-> healthy \intersect SafeTools,
                                    primed |-> cursor[s] # NoCursor]]
    /\ told' = [told EXCEPT ![s] = FALSE]
    /\ UNCHANGED <<monitorVars, sending, active, streamVars>>

(* The SDK's replay task has handed over its last event: it stores a priming
   event of its own and sends that. *)
Prime(s, evs, c, sent) ==
    /\ store' = [store EXCEPT ![s] = Retain(evs, "prime")]
    /\ cursor' = [cursor EXCEPT ![s] = Shift(c, Evicts(evs))]
    /\ wire' = [wire EXCEPT ![s] = ShiftAll(sent, Evicts(evs)) \o <<LastOf(evs, "prime")>>]
    /\ replay' = [replay EXCEPT ![s] = <<>>]
    /\ stream' = [stream EXCEPT ![s] = "priming"]

(* replay_events_after for cursor c on the events evs, atomic under the store's
   lock; with nothing to send the task does not suspend before it primes. *)
Replay(s, evs, c) ==
    IF RequiresResync(evs, c)
    THEN LET by == Evicts(evs)
         IN  /\ store' = [store EXCEPT ![s] = Retain(evs, "change")]
             /\ replay' = [replay EXCEPT ![s] = ShiftAll(ReplayAfter(evs, c), by)
                                                \o <<LastOf(evs, "change")>>]
             /\ cursor' = [cursor EXCEPT ![s] = Shift(@, by)]
             /\ stream' = [stream EXCEPT ![s] = "replaying"]
             /\ UNCHANGED wire
    ELSE Prime(s, evs, cursor[s], <<>>)

(* GET: a client without a cursor is given a priming event to start from. *)
OpenStream(s) ==
    /\ s \in active /\ stream[s] = "none"
    /\ IF cursor[s] = NoCursor
       THEN LET evs == Retain(store[s], "prime") IN Replay(s, evs, Len(evs))
       ELSE Replay(s, store[s], cursor[s])
    /\ UNCHANGED <<monitorVars, sending, registered, active, view, told>>

(* The replay task hands the next event to the response.  It goes on as soon as
   the response has taken it, so what it stores after the last one is stored
   before the client can have received that. *)
ReplayNext(s) ==
    /\ stream[s] = "replaying" /\ wire[s] = <<>>
    /\ IF Len(replay[s]) = 1
       THEN Prime(s, store[s], cursor[s], replay[s])
       ELSE /\ wire' = [wire EXCEPT ![s] = <<Head(replay[s])>>]
            /\ replay' = [replay EXCEPT ![s] = Tail(@)]
            /\ UNCHANGED <<store, cursor, stream>>
    /\ UNCHANGED <<monitorVars, sending, registered, active, view, told>>

(* The priming event has been taken by the response: the live tail begins. *)
Attach(s) ==
    /\ stream[s] = "priming" /\ Len(wire[s]) <= 1
    /\ stream' = [stream EXCEPT ![s] = "attached"]
    /\ UNCHANGED <<monitorVars, sending, registered, active, store, replay, wire,
                   cursor, view, told>>

Receive(s) ==
    /\ wire[s] # <<>>
    /\ cursor' = [cursor EXCEPT ![s] = Head(wire[s]).pos]
    /\ told' = [told EXCEPT ![s] = @ \/ Head(wire[s]).kind = "change"]
    /\ wire' = [wire EXCEPT ![s] = Tail(@)]
    /\ UNCHANGED <<monitorVars, sending, registered, active, store, stream, replay, view>>

(* Slip: a stream that has caught up is left open for ever. *)
CloseStreamUnrotated(s) ==
    /\ stream[s] \in {"replaying", "priming"}
    /\ stream' = [stream EXCEPT ![s] = "none"]
    /\ replay' = [replay EXCEPT ![s] = <<>>]
    /\ wire' = [wire EXCEPT ![s] = <<>>]
    /\ UNCHANGED <<monitorVars, sending, registered, active, store, cursor, view, told>>

(* enforce_stream_lifetime closes the stream after 45 s, or the connection is
   lost: what was on its way to the client is lost with it. *)
CloseStream(s) ==
    /\ stream[s] # "none"
    /\ stream' = [stream EXCEPT ![s] = "none"]
    /\ replay' = [replay EXCEPT ![s] = <<>>]
    /\ wire' = [wire EXCEPT ![s] = <<>>]
    /\ UNCHANGED <<monitorVars, sending, registered, active, store, cursor, view, told>>

(* DELETE, idle expiry or revocation: the session and its store are gone. *)
EndSession(s) ==
    /\ s \in active
    /\ active' = active \ {s} /\ registered' = registered \ {s}
    /\ store' = [store EXCEPT ![s] = <<>>] /\ stream' = [stream EXCEPT ![s] = "none"]
    /\ replay' = [replay EXCEPT ![s] = <<>>] /\ wire' = [wire EXCEPT ![s] = <<>>]
    /\ cursor' = [cursor EXCEPT ![s] = NoCursor] /\ view' = [view EXCEPT ![s] = NoView]
    /\ told' = [told EXCEPT ![s] = FALSE]
    /\ UNCHANGED <<monitorVars, sending>>

-----------------------------------------------------------------------------
ToolListNext ==
    \/ \E t \in Tools : ToolChanges(t) \/ Probe(t)
    \/ StartPass \/ ApplyHealth \/ MonitorFails
    \/ \E s \in Sessions :
          \/ Send(s) \/ SendFails(s)
          \/ ListTools(s) \/ OpenStream(s) \/ ReplayNext(s) \/ Attach(s)
          \/ Receive(s) \/ CloseStream(s) \/ EndSession(s)

ToolListSpec == ToolListInit /\ [][ToolListNext]_toolListVars

(* The monitor's loop keeps running and each of its waits is bounded by a
   timeout; a client reconnects when its stream is closed, and a connection
   that is opened again and again in the end lasts long enough to carry an
   event; the Hub closes every stream after its lifetime. *)
ToolListFairSpec ==
    /\ ToolListSpec
    /\ WF_toolListVars(StartPass \/ ApplyHealth \/ MonitorFails \/ (\E t \in Tools : Probe(t)))
    /\ \A s \in Sessions :
          /\ WF_toolListVars(Send(s) \/ SendFails(s))
          /\ WF_toolListVars(OpenStream(s)) /\ SF_toolListVars(ReplayNext(s))
          /\ WF_toolListVars(Attach(s)) /\ SF_toolListVars(Receive(s))
          /\ WF_toolListVars(stream[s] = "attached" /\ CloseStream(s))

-----------------------------------------------------------------------------
Stale(s) == view[s].primed /\ view[s].tools # healthy \intersect SafeTools

(* The change is still on its way: being sent, replayed, or on the wire. *)
Coming(s) ==
    \/ s \in sending
    \/ \E i \in DOMAIN replay[s] : replay[s][i].kind = "change"
    \/ \E i \in DOMAIN wire[s] : wire[s][i].kind = "change"

(* What a reconnect of the client will do, whichever of the events on the
   wire it still receives. *)
Recoverable(s) ==
    \A c \in {cursor[s]} \union {wire[s][i].pos : i \in DOMAIN wire[s]} :
        RequiresResync(store[s], c)

(* A client that opened its stream and then listed the tools never trusts an
   outdated listing unnoticed: whenever the SAFE tools it listed differ from the
   available ones, it has been told, or the signal is under way, or the cursor
   it will reconnect with makes the Hub send one.  This is what registering
   before the listing, the priming events and the resynchronisation of
   replay_events_after are for (ADR 0012). *)
NoMissedChange ==
    \A s \in active : Stale(s) => told[s] \/ Coming(s) \/ Recoverable(s)

(* The same as a promise: a listing that is outdated is found out, through
   stalls, lost connections, evicted cursors and dropped registrations, because
   the Hub closes every stream after 45 seconds and the next one resynchronises. *)
StaleListingIsNoticed ==
    \A s \in Sessions : Stale(s) ~> (~Stale(s) \/ told[s])

(* A tool that has stopped working for good is in the end no longer offered,
   even when passes of the monitor fail half-way (check_now). *)
BrokenToolsDisappear ==
    \A t \in Tools : <>[](t \notin works) => <>[](t \notin healthy)
=============================================================================
