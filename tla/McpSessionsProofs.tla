-------------------------- MODULE McpSessionsProofs --------------------------
(* Proofs about the lifetime of MCP sessions, for any number of clients    *)
(* and any finite number of sessions and handlers.                         *)
EXTENDS McpSessions, FiniteSetTheorems, TLAPS

-----------------------------------------------------------------------------
(* The inductive invariant.                                                *)

Session == [state : {"unused", "live", "terminated", "gone"}, owner : Clients \cup {NoClient},
            gen : Nat, timer : {"off", "running"}, store : Nat, told : BOOLEAN]

Request == [pc : {"idle", "authenticated", "reserved", "installed", "created", "answered",
                  "popped", "checked", "deleted", "stream", "closed"},
            method : {"initialize", "GET", "POST", "DELETE"},
            client : Clients \cup {NoClient}, gen : Nat, sess : SUBSET Sessions,
            ok : BOOLEAN, victims : SUBSET Sessions]

Mutation == [pc : {"idle", "committed", "popped"}, victims : SUBSET Sessions, made : Nat]

McpTypeOK ==
    /\ cred \in [Clients -> [gen : Nat, active : BOOLEAN]]
    /\ sess \in [Sessions -> Session]
    /\ slots \in SUBSET Sessions /\ old \in SUBSET slots
    /\ pending \in Int
    /\ streaming \in [Sessions -> Nat]
    /\ gets \in SUBSET Sessions
    /\ eventStore \in Nat /\ stores \in Nat
    /\ req \in [Handlers -> Request]
    /\ mut \in [Clients -> Mutation]

(* An identifier is named only after it was drawn, and a session that was  *)
(* popped or whose initialize request runs is what the request takes it    *)
(* to be.                                                                  *)
Used(s) == sess[s].state # "unused"
Making(h) == req[h].pc \in {"created", "answered", "popped", "checked"}
NamedAreUsed == \A h \in Handlers : \A s \in req[h].sess : Used(s)
PoppedAreDead ==
    /\ \A h \in Handlers : \A s \in req[h].victims : Used(s) /\ ~Live(s)
    /\ \A c \in Clients : \A s \in mut[c].victims : Used(s) /\ ~Live(s)
UnusedAreUnknown ==
    \A s \in Sessions : ~Used(s) => ~sess[s].told /\ s \notin gets /\ streaming[s] = 0
LiveAreOwned ==
    \A s \in Sessions : /\ Live(s) => sess[s].owner \in Clients
                        /\ sess[s].timer = "running" => Live(s)
SlotsAreTold == \A s \in slots : sess[s].told
MakersOwn ==
    \A h \in Handlers :
        /\ req[h].pc # "idle" => req[h].client \in Clients
        /\ Making(h) => \A s \in req[h].sess :
             /\ sess[s].owner = req[h].client
             /\ Live(s) => sess[s].gen = req[h].gen /\ req[h].pc # "popped"
Handed ==
    /\ NamedAreUsed /\ PoppedAreDead /\ UnusedAreUnknown /\ LiveAreOwned
    /\ SlotsAreTold /\ MakersOwn

(* A session that a client knows, or is about to be told, is of a current  *)
(* bearer, or the request that replaced the bearer has still to look for   *)
(* it.  The second check of initialize is what makes this hold.            *)
Vouched(s) == sess[s].told \/ \E h \in Handlers : req[h].pc = "checked" /\ s \in req[h].sess
BearerInv ==
    \A s \in Sessions : Live(s) /\ Vouched(s) =>
        Current(sess[s].owner, sess[s].gen) \/ mut[sess[s].owner].pc = "committed"

(* One initialize request at a time lends its store to the SDK, and no     *)
(* session has that store yet.                                             *)
Lending(h) == req[h].pc \in {"installed", "created"}
StoreInv ==
    /\ \A g, h \in Handlers : Lending(g) /\ Lending(h) => g = h
    /\ \A s \in Sessions : sess[s].store <= stores
    /\ \A h \in Handlers : req[h].pc = "installed" =>
         /\ eventStore = stores
         /\ \A s \in Sessions : sess[s].store # eventStore
    /\ ReplayStoresAreDistinct

(* A live session is in the table of streams exactly while one is open,    *)
(* its timer is off exactly then, and the middleware has counted every     *)
(* stream that it has not seen closed.                                     *)
Streams(s) == {h \in Handlers : req[h].pc = "stream" /\ s \in req[h].sess}
Watching(s) == {h \in Handlers : req[h].pc \in {"stream", "closed"} /\ s \in req[h].sess}
StreamHeld(s) ==
    /\ \A g, h \in Streams(s) : g = h
    /\ (s \in gets) <=> (Streams(s) # {})
    /\ (s \in gets) <=> (sess[s].timer = "off")
    /\ streaming[s] = Cardinality(Watching(s))
NamesOne(h) == \A s, t \in req[h].sess : s = t
StreamInv ==
    /\ \A h \in Handlers : NamesOne(h)
    /\ \A s \in Sessions : Live(s) => StreamHeld(s)

(* Reservations belong to requests, and the slot of a live session grows   *)
(* old only while a stream is counted for it, so it is not pruned.         *)
Reserving == {h \in Handlers : req[h].pc \in {"reserved", "installed", "created", "answered",
                                              "popped", "checked"}}
SlotInv ==
    /\ pending = Cardinality(Reserving)
    /\ Cardinality(slots) + pending <= MaxActiveSessions
    /\ \A s \in Sessions : Live(s) /\ sess[s].told =>
         s \in slots /\ (s \in old => streaming[s] > 0)

McpInv == Handed /\ BearerInv /\ StoreInv /\ StreamInv /\ SlotInv

-----------------------------------------------------------------------------
(* Types, and what a step may do to a session.                             *)

(* What ending a set of sessions does to each session. *)
LEMMA GoneTyped ==
    ASSUME McpTypeOK, NEW ids
    PROVE  /\ Gone(ids) \in [Sessions -> Session]
           /\ \A s \in Sessions :
                /\ Gone(ids)[s].owner = sess[s].owner /\ Gone(ids)[s].store = sess[s].store
                /\ Gone(ids)[s].told = sess[s].told
                /\ s \notin ids => Gone(ids)[s] = sess[s]
                /\ s \in ids => Gone(ids)[s].state = "gone" /\ Gone(ids)[s].timer = "off"
<1>1. \A s \in Sessions : sess[s] \in Session
  BY DEF McpTypeOK
<1>2. \A s \in Sessions : [sess[s] EXCEPT !.state = "gone", !.timer = "off", !.gen = 0] \in Session
  BY <1>1 DEF Session
<1>3. \A s \in Sessions : Gone(ids)[s] = IF s \in ids
        THEN [sess[s] EXCEPT !.state = "gone", !.timer = "off", !.gen = 0] ELSE sess[s]
  BY DEF Gone
<1>4. Gone(ids) \in [Sessions -> Session]
  BY <1>1, <1>2 DEF Gone
<1> QED BY <1>1, <1>3, <1>4 DEF Session

(* Freeing slots keeps the middleware's tables well typed. *)
LEMMA FreeSlotsTyped ==
    ASSUME McpTypeOK, NEW ids, FreeSlots(ids)
    PROVE  slots' \in SUBSET Sessions /\ old' \in SUBSET slots' /\ streaming' \in [Sessions -> Nat]
BY DEF McpTypeOK, FreeSlots

(* The clean-up of an ended transport keeps the tables well typed. *)
LEMMA CleanUpTyped ==
    ASSUME McpTypeOK, NEW s \in Sessions, CleanUp(s), UNCHANGED pending
    PROVE  /\ sess' \in [Sessions -> Session] /\ gets' \in SUBSET Sessions
           /\ slots' \in SUBSET Sessions /\ old' \in SUBSET slots'
           /\ streaming' \in [Sessions -> Nat]
<1>1. CASE Live(s)
  BY <1>1 DEF CleanUp, Touched, McpTypeOK
<1>2. CASE ~Live(s)
  BY <1>2, GoneTyped, FreeSlotsTyped DEF CleanUp, Pop, McpTypeOK
<1> QED BY <1>1, <1>2

(* A request that moves on or finishes stays typed. *)
LEMMA RequestTyped ==
    ASSUME McpTypeOK, NEW h \in Handlers
    PROVE  /\ req[h] \in Request /\ Idle \in Request
           /\ Finish(h) => req' \in [Handlers -> Request]
           /\ \A pc \in {"idle", "authenticated", "reserved", "installed", "created", "answered",
                          "popped", "checked", "deleted", "stream", "closed"} :
                Goto(h, pc) => req' \in [Handlers -> Request]
<1>1. req[h] \in Request /\ Idle \in Request
  BY DEF McpTypeOK, Idle, Request
<1>2. Finish(h) => req' \in [Handlers -> Request]
  BY <1>1 DEF Finish, McpTypeOK
<1>3. ASSUME NEW pc \in {"idle", "authenticated", "reserved", "installed", "created", "answered",
                          "popped", "checked", "deleted", "stream", "closed"}, Goto(h, pc)
      PROVE  req' \in [Handlers -> Request]
  <2>1. [req[h] EXCEPT !.pc = pc] \in Request
    BY <1>1 DEF Request
  <2>2. req' = [req EXCEPT ![h] = [req[h] EXCEPT !.pc = pc]]
    BY <1>3 DEF Goto
  <2> QED BY <2>1, <2>2 DEF McpTypeOK
<1> QED BY <1>1, <1>2, <1>3

(* The steps of an initialize request keep the types. *)
LEMMA InitializeTyped ==
    ASSUME McpTypeOK, NEW h \in Handlers, Initializing(h) \/ InitializeRaises(h)
    PROVE  McpTypeOK'
<1>a. req[h] \in Request /\ Idle \in Request
  BY RequestTyped
<1>b. sess \in [Sessions -> Session]
  BY DEF McpTypeOK
<1>1. CASE ReserveSlot(h)
  <2>1. req' \in [Handlers -> Request]
    BY <1>1, RequestTyped DEF ReserveSlot
  <2>2. slots' \in SUBSET Sessions /\ old' \in SUBSET slots' /\ pending' \in Int
    BY <1>1 DEF ReserveSlot, Unpruned, McpTypeOK
  <2>3. UNCHANGED <<cred, mut, sess, gets, eventStore, stores, streaming>>
    BY <1>1 DEF ReserveSlot, credVars, mgrVars
  <2> QED BY <2>1, <2>2, <2>3 DEF McpTypeOK
<1>2. CASE InstallStore(h)
  <2>1. req' \in [Handlers -> Request]
    BY <1>2, RequestTyped DEF InstallStore
  <2>2. stores' \in Nat /\ eventStore' \in Nat
    BY <1>2 DEF InstallStore, McpTypeOK
  <2> QED BY <1>2, <2>1, <2>2 DEF InstallStore, McpTypeOK, credVars, slotVars
<1>3. CASE CreateSession(h)
  <2>1. PICK s \in Sessions :
          /\ sess' = [sess EXCEPT ![s] = [state |-> "live", owner |-> req[h].client,
                                          gen |-> req[h].gen, timer |-> "running",
                                          store |-> eventStore, told |-> FALSE]]
          /\ req' = [req EXCEPT ![h].pc = "created", ![h].sess = {s}]
    BY <1>3 DEF CreateSession
  <2>2. [state |-> "live", owner |-> req[h].client, gen |-> req[h].gen, timer |-> "running",
         store |-> eventStore, told |-> FALSE] \in Session
    BY <1>a DEF Session, Request, McpTypeOK
  <2>3. [req[h] EXCEPT !.pc = "created", !.sess = {s}] \in Request
    BY <1>a DEF Request
  <2>4. req' = [req EXCEPT ![h] = [req[h] EXCEPT !.pc = "created", !.sess = {s}]]
    BY <2>1 DEF McpTypeOK
  <2>5. sess' \in [Sessions -> Session] /\ req' \in [Handlers -> Request]
    BY <1>b, <2>1, <2>2, <2>3, <2>4 DEF McpTypeOK
  <2> QED BY <1>3, <2>5 DEF CreateSession, McpTypeOK, credVars, slotVars
<1>4. ASSUME NEW ok \in BOOLEAN, InitializeAnswered(h, ok)
      PROVE  McpTypeOK'
  <2>1. [req[h] EXCEPT !.pc = "answered", !.ok = ok] \in Request
    BY <1>a DEF Request
  <2>2. req' = [req EXCEPT ![h] = [req[h] EXCEPT !.pc = "answered", !.ok = ok]]
    BY <1>4 DEF InitializeAnswered, McpTypeOK
  <2>3. req' \in [Handlers -> Request]
    BY <2>1, <2>2 DEF McpTypeOK
  <2> QED BY <1>4, <2>3 DEF InitializeAnswered, McpTypeOK, credVars, slotVars
<1>5. CASE RecheckBearer(h)
  <2>1. CASE BearerHolds(h)
    <3>1. req' \in [Handlers -> Request]
      BY <1>5, <2>1, RequestTyped DEF RecheckBearer, BearerHolds, BearerGone
    <3> QED BY <1>5, <2>1, <3>1 DEF RecheckBearer, BearerHolds, McpTypeOK, credVars,
                                        slotVars
  <2>2. CASE BearerGone(h)
    <3> DEFINE V == OwnedBy(req[h].client)
    <3>1. V \subseteq Sessions
      BY DEF OwnedBy
    <3>2. /\ sess' = Gone(V) /\ gets' = gets \ V
          /\ req' = [req EXCEPT ![h].pc = "popped", ![h].victims = V]
      BY <1>5, <2>2 DEF RecheckBearer, BearerHolds, BearerGone, Pop
    <3> HIDE DEF V
    <3>3. [req[h] EXCEPT !.pc = "popped", !.victims = V] \in Request
      BY <1>a, <3>1 DEF Request
    <3>4. req' = [req EXCEPT ![h] = [req[h] EXCEPT !.pc = "popped", !.victims = V]]
      BY <3>2 DEF McpTypeOK
    <3>5. req' \in [Handlers -> Request] /\ sess' \in [Sessions -> Session]
      BY <3>2, <3>3, <3>4, GoneTyped DEF McpTypeOK
    <3>6. gets' \in SUBSET Sessions
      BY <3>2 DEF McpTypeOK
    <3> QED BY <1>5, <3>5, <3>6 DEF RecheckBearer, McpTypeOK, credVars, slotVars
  <2> QED BY <1>5, <2>1, <2>2 DEF RecheckBearer
<1>6. CASE RecheckTerminates(h)
  <2>1. req' \in [Handlers -> Request]
    BY <1>6, RequestTyped DEF RecheckTerminates
  <2> QED BY <1>6, <2>1, FreeSlotsTyped DEF RecheckTerminates, McpTypeOK, credVars, mgrVars
<1>7. CASE CompleteReservation(h)
  <2>1. req' \in [Handlers -> Request]
    BY <1>7, RequestTyped DEF CompleteReservation
  <2>2. sess' \in [Sessions -> Session]
    <3>1. \A s \in Sessions :
            [sess[s] EXCEPT !.told = sess[s].told \/ (req[h].ok /\ s \in req[h].sess)] \in Session
      BY <1>a, <1>b DEF Session, Request
    <3>2. sess' = [s \in Sessions |->
            [sess[s] EXCEPT !.told = sess[s].told \/ (req[h].ok /\ s \in req[h].sess)]]
      BY <1>7 DEF CompleteReservation
    <3> QED BY <3>1, <3>2
  <2>3. slots' \in SUBSET Sessions /\ old' \in SUBSET slots' /\ pending' \in Int
    BY <1>7, <1>a DEF CompleteReservation, McpTypeOK, Request
  <2> QED BY <1>7, <2>1, <2>2, <2>3 DEF CompleteReservation, McpTypeOK, credVars
<1>8. CASE InitializeRaises(h)
  <2>1. req' \in [Handlers -> Request]
    BY <1>8, RequestTyped DEF InitializeRaises
  <2>2. pending' \in Int /\ eventStore' \in Nat
    BY <1>8 DEF InitializeRaises, McpTypeOK
  <2> QED BY <1>8, <2>1, <2>2 DEF InitializeRaises, McpTypeOK, credVars
<1> QED BY <1>1, <1>2, <1>3, <1>4, <1>5, <1>6, <1>7, <1>8 DEF Initializing

(* The steps of requests to an existing session keep the types. *)
LEMMA UseTyped ==
    ASSUME McpTypeOK, NEW h \in Handlers, NEW s \in Sessions,
           \/ Post(h, s) \/ Delete(h, s) \/ NotFound(h, s) \/ Deleted(h, s)
           \/ OpenStream(h, s) \/ StreamClosed(h, s) \/ CloseStream(h, s)
    PROVE  McpTypeOK'
<1>a. req[h] \in Request /\ Idle \in Request
  BY RequestTyped
<1>b. sess \in [Sessions -> Session] /\ sess[s] \in Session
  BY DEF McpTypeOK
<1>1. CASE Post(h, s)
  <2>1. req' \in [Handlers -> Request]
    BY <1>1, RequestTyped DEF Post
  <2>2. sess' \in [Sessions -> Session]
    BY <1>1, <1>b DEF Post, Session
  <2>3. old' \in SUBSET slots
    BY <1>1 DEF Post, Touched, McpTypeOK
  <2> QED BY <1>1, <2>1, <2>2, <2>3 DEF Post, McpTypeOK, credVars
<1>2. CASE Delete(h, s)
  <2>1. req' \in [Handlers -> Request]
    BY <1>2, RequestTyped DEF Delete
  <2>2. sess' \in [Sessions -> Session]
    BY <1>2, <1>b DEF Delete, Session
  <2>3. old' \in SUBSET slots
    BY <1>2 DEF Delete, Touched, McpTypeOK
  <2> QED BY <1>2, <2>1, <2>2, <2>3 DEF Delete, McpTypeOK, credVars
<1>3. CASE NotFound(h, s) \/ Deleted(h, s)
  <2>1. req' \in [Handlers -> Request]
    BY <1>3, RequestTyped DEF NotFound, Deleted
  <2>2. CleanUp(s) /\ UNCHANGED <<cred, mut, pending, eventStore, stores>>
    BY <1>3 DEF NotFound, Deleted, credVars
  <2> QED BY <2>1, <2>2, CleanUpTyped DEF McpTypeOK
<1>4. CASE OpenStream(h, s)
  <2>1. PICK pc \in {"stream", "closed"}, ok \in BOOLEAN :
          req' = [req EXCEPT ![h].pc = pc, ![h].ok = ok]
    <3>1. (Usable(h, s) /\ Live(s)) \in BOOLEAN
      BY DEF Usable, Kept, Live
    <3> QED BY <1>4, <3>1 DEF OpenStream
  <2>2. [req[h] EXCEPT !.pc = pc, !.ok = ok] \in Request
    BY <1>a DEF Request
  <2>3. req' = [req EXCEPT ![h] = [req[h] EXCEPT !.pc = pc, !.ok = ok]]
    BY <2>1 DEF McpTypeOK
  <2>4. req' \in [Handlers -> Request]
    BY <2>2, <2>3 DEF McpTypeOK
  <2>5. sess' \in [Sessions -> Session]
    <3>1. [sess EXCEPT ![s].timer = "off"] \in [Sessions -> Session]
      BY <1>b DEF Session
    <3> QED BY <1>4, <1>b, <3>1 DEF OpenStream
  <2>6. /\ old' \in SUBSET slots /\ gets' \in SUBSET Sessions
        /\ streaming' \in [Sessions -> Nat]
    BY <1>4 DEF OpenStream, Touched, McpTypeOK
  <2> QED BY <1>4, <2>4, <2>5, <2>6 DEF OpenStream, McpTypeOK, credVars
<1>5. CASE CloseStream(h, s)
  <2>1. req' \in [Handlers -> Request]
    BY <1>5, RequestTyped DEF CloseStream
  <2>2. sess' \in [Sessions -> Session]
    BY <1>5, <1>b DEF CloseStream, Session
  <2>3. gets' \in SUBSET Sessions
    BY <1>5 DEF CloseStream, McpTypeOK
  <2> QED BY <1>5, <2>1, <2>2, <2>3 DEF CloseStream, McpTypeOK, credVars, slotVars
<1>6. CASE StreamClosed(h, s)
  <2>1. req' \in [Handlers -> Request]
    BY <1>6, RequestTyped DEF StreamClosed
  <2>2. CASE req[h].ok \/ Live(s)
    <3>1. streaming' \in [Sessions -> Nat] /\ old' \in SUBSET slots
      BY <1>6, <2>2 DEF StreamClosed, McpTypeOK, Touched
    <3> QED BY <1>6, <2>1, <2>2, <3>1 DEF StreamClosed, McpTypeOK, credVars
  <2>3. CASE ~(req[h].ok \/ Live(s))
    <3>1. Pop({s}) /\ FreeSlots({s})
      BY <1>6, <2>3 DEF StreamClosed
    <3>2. sess' \in [Sessions -> Session] /\ gets' \in SUBSET Sessions
      BY <3>1, GoneTyped DEF Pop, McpTypeOK
    <3> QED BY <1>6, <2>1, <3>1, <3>2, FreeSlotsTyped DEF StreamClosed, McpTypeOK, credVars
  <2> QED BY <2>2, <2>3
<1> QED BY <1>1, <1>2, <1>3, <1>4, <1>5, <1>6

(* Every step keeps the types. *)
LEMMA McpTypeStep ==
    ASSUME McpTypeOK, [McpNext]_mcpVars
    PROVE  McpTypeOK'
<1>1. ASSUME NEW h \in Handlers, NEW c \in Clients, NEW s \in SUBSET Sessions,
             NEW method \in {"initialize", "GET", "POST", "DELETE"}, Authenticate(h, method, c, s)
      PROVE  McpTypeOK'
  <2>1. [Idle EXCEPT !.pc = "authenticated", !.method = method, !.client = c,
                     !.gen = cred[c].gen, !.sess = s] \in Request
    BY DEF McpTypeOK, Idle, Request
  <2>2. req' \in [Handlers -> Request]
    BY <1>1, <2>1 DEF Authenticate, McpTypeOK
  <2> QED BY <1>1, <2>2 DEF Authenticate, McpTypeOK, credVars, slotVars, mgrVars
<1>2. ASSUME NEW c \in Clients, NEW active \in BOOLEAN, Mutate(c, active)
      PROVE  McpTypeOK'
  <2>1. cred' \in [Clients -> [gen : Nat, active : BOOLEAN]]
    BY <1>2 DEF Mutate, McpTypeOK
  <2>2. mut' \in [Clients -> Mutation]
    BY <1>2 DEF Mutate, McpTypeOK, Mutation
  <2> QED BY <1>2, <2>1, <2>2 DEF Mutate, McpTypeOK, slotVars, mgrVars
<1>3. ASSUME NEW c \in Clients, TerminateClient(c)
      PROVE  McpTypeOK'
  <2> DEFINE V == OwnedBy(c)
  <2>1. /\ V \subseteq Sessions /\ sess' = Gone(V) /\ gets' = gets \ V
        /\ mut' = [mut EXCEPT ![c].pc = "popped", ![c].victims = V]
    BY <1>3 DEF TerminateClient, Pop, OwnedBy
  <2> HIDE DEF V
  <2>2. mut' \in [Clients -> Mutation]
    <3>1. [mut[c] EXCEPT !.pc = "popped", !.victims = V] \in Mutation
      BY <2>1 DEF McpTypeOK, Mutation
    <3>2. mut' = [mut EXCEPT ![c] = [mut[c] EXCEPT !.pc = "popped", !.victims = V]]
      BY <2>1 DEF McpTypeOK
    <3> QED BY <3>1, <3>2 DEF McpTypeOK
  <2>3. sess' \in [Sessions -> Session] /\ gets' \in SUBSET Sessions
    BY <2>1, GoneTyped DEF McpTypeOK
  <2> QED BY <1>3, <2>2, <2>3 DEF TerminateClient, McpTypeOK, slotVars
<1>4. ASSUME NEW c \in Clients, TerminationRaises(c) \/ TerminationCallback(c)
      PROVE  McpTypeOK'
  <2>1. mut' \in [Clients -> Mutation]
    <3>1. [mut[c] EXCEPT !.pc = "idle", !.victims = {}] \in Mutation
      BY DEF McpTypeOK, Mutation
    <3>2. mut' = [mut EXCEPT ![c] = [mut[c] EXCEPT !.pc = "idle", !.victims = {}]]
      BY <1>4 DEF TerminationRaises, TerminationCallback, McpTypeOK
    <3> QED BY <3>1, <3>2 DEF McpTypeOK
  <2> QED BY <1>4, <2>1, FreeSlotsTyped DEF TerminationRaises, TerminationCallback, McpTypeOK,
                                            slotVars, mgrVars
<1>5. CASE MinutePasses
  BY <1>5, GoneTyped DEF MinutePasses, McpTypeOK, credVars
<1>6. CASE UNCHANGED mcpVars
  BY <1>6 DEF mcpVars, McpTypeOK
<1>7. ASSUME NEW h \in Handlers, NEW c \in Clients,
             \/ Authenticate(h, "initialize", c, {})
             \/ \E s \in Sessions, method \in {"GET", "POST", "DELETE"} :
                  Authenticate(h, method, c, {s})
      PROVE  McpTypeOK'
  BY <1>1, <1>7
<1> QED BY <1>2, <1>3, <1>4, <1>5, <1>6, <1>7, InitializeTyped, UseTyped DEF McpNext, UsingSession

(* Only CreateSession brings a session to life: every other step leaves    *)
(* owner and store alone, and the bearer of a session that stays alive.    *)
Ages ==
    \A s \in Sessions :
        /\ sess'[s].owner = sess[s].owner /\ sess'[s].store = sess[s].store
        /\ Used(s)' <=> Used(s)
        /\ Live(s)' => Live(s) /\ sess'[s].gen = sess[s].gen
Told == \A s \in Sessions : sess'[s].told = sess[s].told

(* Ending sessions revives none. *)
LEMMA GoneAges ==
    ASSUME McpTypeOK, NEW ids, \A s \in ids \cap Sessions : Used(s), sess' = Gone(ids)
    PROVE  Ages /\ Told /\ \A s \in Sessions : s \in ids => ~Live(s)'
BY GoneTyped DEF Ages, Told, Used, Live

(* Neither does cleaning up after one. *)
LEMMA CleanUpAges ==
    ASSUME McpTypeOK, NEW s \in Sessions, Used(s), CleanUp(s)
    PROVE  Ages /\ Told
<1>1. CASE Live(s)
  BY <1>1 DEF CleanUp, Ages, Told, Used, Live
<1>2. CASE ~Live(s)
  BY <1>2, GoneAges DEF CleanUp, Pop
<1> QED BY <1>1, <1>2

(* Only creation makes a session, only its completion tells a client. *)
LEMMA SessionsAge ==
    ASSUME McpTypeOK, Handed, [McpNext]_mcpVars
    PROVE  /\ Ages \/ \E h \in Handlers : CreateSession(h)
           /\ Told \/ \E h \in Handlers : CreateSession(h) \/ CompleteReservation(h)
<1>0. ASSUME UNCHANGED sess PROVE Ages /\ Told
  BY <1>0 DEF Ages, Told, Used, Live
<1>1. ASSUME NEW h \in Handlers, Initializing(h) \/ InitializeRaises(h),
             ~CreateSession(h), ~CompleteReservation(h)
      PROVE  Ages /\ Told
  <2>1. CASE RecheckBearer(h)
    <3>1. CASE BearerHolds(h)
      BY <1>0, <2>1, <3>1 DEF RecheckBearer, BearerHolds, BearerGone
    <3>2. CASE BearerGone(h)
      <4>1. sess' = Gone(OwnedBy(req[h].client))
        BY <2>1, <3>2 DEF RecheckBearer, BearerHolds, BearerGone, Pop
      <4>2. \A s \in OwnedBy(req[h].client) : Used(s)
        BY DEF OwnedBy, Kept, Used
      <4> QED BY <4>1, <4>2, GoneAges
    <3> QED BY <2>1, <3>1, <3>2 DEF RecheckBearer
  <2>2. CASE ReserveSlot(h) \/ InstallStore(h) \/ (\E ok \in BOOLEAN : InitializeAnswered(h, ok))
             \/ RecheckTerminates(h) \/ InitializeRaises(h)
    BY <1>0, <2>2 DEF ReserveSlot, InstallStore, InitializeAnswered, RecheckTerminates,
                      InitializeRaises, mgrVars
  <2> QED BY <1>1, <2>1, <2>2 DEF Initializing
<1>2. ASSUME NEW h \in Handlers, CompleteReservation(h)
      PROVE  Ages
  <2>1. \A s \in Sessions : sess'[s] =
          [sess[s] EXCEPT !.told = sess[s].told \/ (req[h].ok /\ s \in req[h].sess)]
    BY <1>2 DEF CompleteReservation
  <2>2. ASSUME NEW s \in Sessions
        PROVE  /\ sess'[s].owner = sess[s].owner /\ sess'[s].store = sess[s].store
               /\ sess'[s].state = sess[s].state /\ sess'[s].gen = sess[s].gen
    <3>1. PICK b : sess'[s] = [sess[s] EXCEPT !.told = b]
      BY <2>1
    <3> QED BY <3>1 DEF McpTypeOK, Session
  <2> QED BY <2>2 DEF Ages, Used, Live
<1>3. ASSUME NEW h \in Handlers, NEW s \in Sessions,
             \/ Post(h, s) \/ Delete(h, s) \/ NotFound(h, s) \/ Deleted(h, s)
             \/ OpenStream(h, s) \/ StreamClosed(h, s) \/ CloseStream(h, s)
      PROVE  Ages /\ Told
  <2>0. Used(s)
    BY <1>3 DEF Post, Delete, NotFound, Deleted, OpenStream, StreamClosed, CloseStream, Handed,
               NamedAreUsed
  <2>1. CASE Post(h, s)
    BY <2>1 DEF Post, Ages, Told, Used, Live, McpTypeOK, Session
  <2>2. CASE Delete(h, s)
    BY <2>2 DEF Delete, Ages, Told, Used, Live, McpTypeOK, Session
  <2>3. CASE NotFound(h, s) \/ Deleted(h, s)
    BY <2>0, <2>3, CleanUpAges DEF NotFound, Deleted
  <2>4. CASE OpenStream(h, s)
    <3>1. sess' = sess \/ sess' = [sess EXCEPT ![s].timer = "off"]
      BY <2>4 DEF OpenStream
    <3>2. \A t \in Sessions :
            /\ sess'[t].owner = sess[t].owner /\ sess'[t].store = sess[t].store
            /\ sess'[t].state = sess[t].state /\ sess'[t].gen = sess[t].gen
            /\ sess'[t].told = sess[t].told
      BY <3>1 DEF McpTypeOK, Session
    <3> QED BY <3>2 DEF Ages, Told, Used, Live
  <2>5. CASE CloseStream(h, s)
    <3>1. sess' = sess \/ sess' = [sess EXCEPT ![s].timer = "running"]
      BY <2>5 DEF CloseStream
    <3>2. \A t \in Sessions :
            /\ sess'[t].owner = sess[t].owner /\ sess'[t].store = sess[t].store
            /\ sess'[t].state = sess[t].state /\ sess'[t].gen = sess[t].gen
            /\ sess'[t].told = sess[t].told
      BY <3>1 DEF McpTypeOK, Session
    <3> QED BY <3>2 DEF Ages, Told, Used, Live
  <2>6. CASE StreamClosed(h, s)
    <3>1. sess' = sess \/ sess' = Gone({s})
      BY <2>6 DEF StreamClosed, Pop
    <3> QED BY <1>0, <2>0, <3>1, GoneAges
  <2> QED BY <1>3, <2>1, <2>2, <2>3, <2>4, <2>5, <2>6
<1>4. ASSUME NEW c \in Clients, TerminateClient(c)
      PROVE  Ages /\ Told
  <2>1. \A s \in OwnedBy(c) : Used(s)
    BY DEF OwnedBy, Kept, Used
  <2> QED BY <1>4, <2>1, GoneAges DEF TerminateClient, Pop
<1>5. CASE MinutePasses
  <2>1. \A s \in {t \in Sessions : sess[t].timer = "running"} : Used(s)
    BY DEF Handed, LiveAreOwned, Live, Used
  <2> QED BY <1>5, <2>1, GoneAges DEF MinutePasses
<1>6. ASSUME NEW h \in Handlers, NEW c \in Clients, NEW s, NEW method, Authenticate(h, method, c, s)
      PROVE  Ages /\ Told
  BY <1>0, <1>6 DEF Authenticate, mgrVars
<1>7. ASSUME NEW c \in Clients,
             TerminationRaises(c) \/ TerminationCallback(c) \/ \E active \in BOOLEAN : Mutate(c, active)
      PROVE  Ages /\ Told
  BY <1>0, <1>7 DEF TerminationRaises, TerminationCallback, Mutate, mgrVars
<1>8. CASE UNCHANGED mcpVars
  BY <1>0, <1>8 DEF mcpVars
<1> QED BY <1>1, <1>2, <1>3, <1>4, <1>5, <1>6, <1>7, <1>8 DEF McpNext, UsingSession

-----------------------------------------------------------------------------
(* What a step may do to the requests and the tables.                      *)

(* Goto changes one handler's program point. *)
LEMMA GotoFacts ==
    ASSUME McpTypeOK, NEW h \in Handlers, NEW pc, Goto(h, pc)
    PROVE  /\ \A g \in Handlers \ {h} : req'[g] = req[g]
           /\ req'[h].pc = pc /\ req'[h].client = req[h].client /\ req'[h].gen = req[h].gen
           /\ req'[h].sess = req[h].sess /\ req'[h].victims = req[h].victims
           /\ req'[h].ok = req[h].ok
BY DEF Goto, McpTypeOK, Request

(* Finish makes one handler idle. *)
LEMMA FinishFacts ==
    ASSUME McpTypeOK, NEW h \in Handlers, Finish(h)
    PROVE  /\ \A g \in Handlers \ {h} : req'[g] = req[g]
           /\ req'[h].pc = "idle" /\ req'[h].sess = {} /\ req'[h].victims = {}
BY DEF Finish, McpTypeOK, Idle

(* Opening a stream changes one handler's program point. *)
LEMMA OpenStreamFacts ==
    ASSUME McpTypeOK, NEW h \in Handlers, NEW s \in Sessions, OpenStream(h, s)
    PROVE  /\ \A g \in Handlers \ {h} : req'[g] = req[g]
           /\ req[h].pc = "authenticated" /\ req'[h].pc \in {"stream", "closed"}
           /\ req'[h].client = req[h].client /\ req'[h].gen = req[h].gen
           /\ req'[h].sess = req[h].sess /\ req'[h].victims = req[h].victims
<1>1. PICK pc \in {"stream", "closed"}, ok \in BOOLEAN :
        req' = [req EXCEPT ![h].pc = pc, ![h].ok = ok]
  <2>1. (Usable(h, s) /\ Live(s)) \in BOOLEAN
    BY DEF Usable, Kept, Live
  <2> QED BY <2>1 DEF OpenStream
<1>2. req[h].pc = "authenticated"
  BY DEF OpenStream
<1> QED BY <1>1, <1>2 DEF McpTypeOK, Request

(* A request in progress goes on for the same client, bearer and session.  *)
Continues(g) ==
    /\ req'[g].sess \subseteq req[g].sess /\ req'[g].victims \subseteq req[g].victims
    /\ req'[g].pc # "idle" =>
         req[g].pc # "idle" /\ req'[g].client = req[g].client /\ req'[g].gen = req[g].gen
    /\ Making(g)' => Making(g)
    /\ req'[g].pc = "popped" => req[g].pc = "popped"

Authenticates(h) ==
    \E c \in Clients : \/ Authenticate(h, "initialize", c, {})
                       \/ \E s \in Sessions, method \in {"GET", "POST", "DELETE"} :
                            Authenticate(h, method, c, {s})

(* A request keeps its client, bearer and sessions until it is done. *)
LEMMA RequestsContinue ==
    ASSUME McpTypeOK, [McpNext]_mcpVars
    PROVE  \/ \A g \in Handlers : Continues(g)
           \/ \E h \in Handlers : CreateSession(h) \/ RecheckBearer(h) \/ Authenticates(h)
<1>1. ASSUME UNCHANGED req PROVE \A g \in Handlers : Continues(g)
  BY <1>1 DEF Continues, Making
<1>2. ASSUME NEW h \in Handlers, Finish(h) PROVE \A g \in Handlers : Continues(g)
  BY <1>2, FinishFacts DEF Continues, Making
<1>3. ASSUME NEW h \in Handlers, NEW pc, Goto(h, pc), req[h].pc # "idle",
             pc \in {"created", "answered", "popped", "checked"} => Making(h),
             pc # "popped"
      PROVE  \A g \in Handlers : Continues(g)
  BY <1>3, GotoFacts DEF Continues, Making
<1>4. ASSUME NEW h \in Handlers, NEW s \in Sessions, OpenStream(h, s)
      PROVE  \A g \in Handlers : Continues(g)
  BY <1>4, OpenStreamFacts DEF Continues, Making
<1>5. ASSUME NEW h \in Handlers, NEW ok \in BOOLEAN, InitializeAnswered(h, ok)
      PROVE  \A g \in Handlers : Continues(g)
  <2>1. /\ \A g \in Handlers \ {h} : req'[g] = req[g]
        /\ req'[h].pc = "answered" /\ req'[h].client = req[h].client
        /\ req'[h].gen = req[h].gen
        /\ req'[h].sess = req[h].sess /\ req'[h].victims = req[h].victims
    BY <1>5 DEF InitializeAnswered, McpTypeOK, Request
  <2>2. req[h].pc = "created"
    BY <1>5 DEF InitializeAnswered
  <2> QED BY <2>1, <2>2 DEF Continues, Making
<1>6. ASSUME NEW h \in Handlers,
             ReserveSlot(h) \/ InstallStore(h) \/ RecheckTerminates(h) \/ CompleteReservation(h)
             \/ InitializeRaises(h)
      PROVE  \A g \in Handlers : Continues(g)
  <2>1. CASE Finish(h)
    BY <1>2, <2>1
  <2>2. CASE ~Finish(h)
    BY <1>3, <1>6, <2>2 DEF ReserveSlot, InstallStore, RecheckTerminates, CompleteReservation,
                            InitializeRaises, Making
  <2> QED BY <2>1, <2>2
<1>7. ASSUME NEW h \in Handlers, NEW s \in Sessions,
             \/ Post(h, s) \/ Delete(h, s) \/ NotFound(h, s) \/ Deleted(h, s)
             \/ StreamClosed(h, s) \/ CloseStream(h, s)
      PROVE  \A g \in Handlers : Continues(g)
  <2>1. CASE Finish(h)
    BY <1>2, <2>1
  <2>2. CASE ~Finish(h)
    BY <1>3, <1>7, <2>2 DEF Post, Delete, NotFound, Deleted, StreamClosed, CloseStream
  <2> QED BY <2>1, <2>2
<1>8. ASSUME NEW c \in Clients,
             \/ TerminateClient(c) \/ TerminationRaises(c) \/ TerminationCallback(c)
             \/ \E active \in BOOLEAN : Mutate(c, active)
      PROVE  \A g \in Handlers : Continues(g)
  BY <1>1, <1>8 DEF TerminateClient, TerminationRaises, TerminationCallback, Mutate
<1>9. CASE MinutePasses \/ UNCHANGED mcpVars
  BY <1>1, <1>9 DEF MinutePasses, mcpVars
<1> QED BY <1>4, <1>5, <1>6, <1>7, <1>8, <1>9 DEF McpNext, UsingSession, Initializing,
                                                 Authenticates

(* Slots are added by CompleteReservation only, victims by TerminateClient *)
(* only, streams to named sessions only; a timer runs for live sessions.   *)
Tables ==
    /\ slots' \subseteq slots \/ \E h \in Handlers : CompleteReservation(h)
    /\ \A s \in Sessions : ~Used(s) =>
         (s \in gets' => s \in gets) /\ streaming'[s] \in {0, streaming[s]}
    /\ \A s \in Sessions : sess'[s].timer = "running" => Live(s)'
    /\ \A c \in Clients : mut'[c].victims \subseteq mut[c].victims \/ TerminateClient(c)

(* What freeing slots does to the middleware's tables. *)
LEMMA FreeSlotsFacts ==
    ASSUME McpTypeOK, NEW ids, FreeSlots(ids)
    PROVE  /\ slots' = slots \ ids /\ old' = old \ ids
           /\ \A s \in Sessions : streaming'[s] = IF s \in ids THEN 0 ELSE streaming[s]
BY DEF FreeSlots, McpTypeOK

(* How one step may change the tables of slots, streams and timers. *)
LEMMA TablesStep ==
    ASSUME McpTypeOK, Handed, [McpNext]_mcpVars
    PROVE  Tables
<1> DEFINE Timers == \A s \in Sessions : sess'[s].timer = "running" => Live(s)'
           Free == \A s \in Sessions : streaming'[s] \in {0, streaming[s]}
<1>a. \A s \in Sessions : sess[s].timer = "running" => Live(s)
  BY DEF Handed, LiveAreOwned
<1>b. ASSUME UNCHANGED sess PROVE Timers
  BY <1>a, <1>b DEF Live
<1>c. ASSUME NEW ids, sess' = Gone(ids) PROVE Timers
  BY <1>a, <1>c, GoneTyped DEF Live
<1>d. ASSUME NEW ids, FreeSlots(ids) PROVE slots' \subseteq slots /\ Free
  BY <1>d, FreeSlotsFacts
<1> HIDE DEF Timers, Free
<1>e. ASSUME slots' \subseteq slots, UNCHANGED streaming \/ Free, gets' \subseteq gets, Timers,
             UNCHANGED mut
      PROVE  Tables
  BY <1>e DEF Tables, Timers, Free
<1>1. ASSUME NEW h \in Handlers, Initializing(h) \/ InitializeRaises(h)
      PROVE  Tables
  <2>1. CASE ReserveSlot(h)
    <3>1. slots' \subseteq slots /\ UNCHANGED <<streaming, gets, sess, mut>>
      BY <2>1 DEF ReserveSlot, Unpruned, credVars, mgrVars
    <3> QED BY <1>b, <1>e, <3>1
  <2>2. CASE InstallStore(h) \/ (\E ok \in BOOLEAN : InitializeAnswered(h, ok)) \/ InitializeRaises(h)
    <3>1. UNCHANGED <<slots, streaming, gets, sess, mut>>
      BY <2>2 DEF InstallStore, InitializeAnswered, InitializeRaises, credVars, slotVars
    <3> QED BY <1>b, <1>e, <3>1
  <2>3. CASE CreateSession(h)
    <3>1. PICK s \in Sessions :
            sess' = [sess EXCEPT ![s] = [state |-> "live", owner |-> req[h].client,
                                         gen |-> req[h].gen, timer |-> "running",
                                         store |-> eventStore, told |-> FALSE]]
      BY <2>3 DEF CreateSession
    <3>2. sess'[s].state = "live" /\ \A t \in Sessions \ {s} : sess'[t] = sess[t]
      BY <3>1 DEF McpTypeOK
    <3>3. Timers
      BY <1>a, <3>2 DEF Timers, Live
    <3> QED BY <1>e, <2>3, <3>3 DEF CreateSession, credVars, slotVars
  <2>4. CASE RecheckBearer(h)
    <3>1. /\ UNCHANGED <<slots, streaming, mut>> /\ gets' \subseteq gets
          /\ sess' = sess \/ sess' = Gone(OwnedBy(req[h].client))
      BY <2>4 DEF RecheckBearer, BearerHolds, BearerGone, Pop, credVars, slotVars
    <3> QED BY <1>b, <1>c, <1>e, <3>1
  <2>5. CASE RecheckTerminates(h)
    BY <1>b, <1>d, <1>e, <2>5 DEF RecheckTerminates, credVars, mgrVars
  <2>6. CASE CompleteReservation(h)
    <3>1. \A s \in Sessions : sess'[s].timer = sess[s].timer /\ sess'[s].state = sess[s].state
      <4> TAKE s \in Sessions
      <4>1. PICK b : sess'[s] = [sess[s] EXCEPT !.told = b]
        BY <2>6 DEF CompleteReservation
      <4> QED BY <4>1 DEF McpTypeOK, Session
    <3> QED BY <1>a, <2>6, <3>1 DEF Tables, CompleteReservation, credVars, Live
  <2> QED BY <1>1, <2>1, <2>2, <2>3, <2>4, <2>5, <2>6 DEF Initializing
<1>2. ASSUME NEW h \in Handlers, NEW s \in Sessions,
             \/ Post(h, s) \/ Delete(h, s) \/ NotFound(h, s) \/ Deleted(h, s)
             \/ OpenStream(h, s) \/ StreamClosed(h, s) \/ CloseStream(h, s)
      PROVE  Tables
  <2>0. Used(s)
    BY <1>2 DEF Post, Delete, NotFound, Deleted, OpenStream, StreamClosed, CloseStream, Handed,
               NamedAreUsed
  <2>1. CASE Post(h, s)
    <3>1. PICK timer : sess' = [sess EXCEPT ![s].timer = timer]
      BY <2>1 DEF Post
    <3>2. Timers
      <4>1. \A t \in Sessions : sess'[t].state = sess[t].state
        BY <3>1 DEF McpTypeOK, Session
      <4>2. \A t \in Sessions \ {s} : sess'[t] = sess[t]
        BY <3>1 DEF McpTypeOK
      <4>3. Live(s)
        BY <2>1 DEF Post
      <4> QED BY <1>a, <4>1, <4>2, <4>3 DEF Timers, Live
    <3> QED BY <1>e, <2>1, <3>2 DEF Post, credVars
  <2>2. CASE Delete(h, s)
    <3>1. Timers
      <4>1. sess'[s].timer = "off" /\ \A t \in Sessions \ {s} : sess'[t] = sess[t]
        BY <2>2 DEF Delete, McpTypeOK, Session
      <4> QED BY <1>a, <4>1 DEF Timers, Live
    <3> QED BY <1>e, <2>2, <3>1 DEF Delete, credVars
  <2>3. CASE NotFound(h, s) \/ Deleted(h, s)
    <3>1. CleanUp(s) /\ UNCHANGED mut
      BY <2>3 DEF NotFound, Deleted, credVars
    <3>2. CASE Live(s)
      BY <1>b, <1>e, <3>1, <3>2 DEF CleanUp
    <3>3. CASE ~Live(s)
      <4>1. sess' = Gone({s}) /\ gets' \subseteq gets /\ FreeSlots({s})
        BY <3>1, <3>3 DEF CleanUp, Pop
      <4> QED BY <1>c, <1>d, <1>e, <3>1, <4>1
    <3> QED BY <3>2, <3>3
  <2>4. CASE OpenStream(h, s)
    <3>1. sess' = sess \/ sess' = [sess EXCEPT ![s].timer = "off"]
      BY <2>4 DEF OpenStream
    <3>2. Timers
      BY <1>a, <3>1 DEF Timers, Live, McpTypeOK, Session
    <3>3. /\ \A t \in Sessions \ {s} : streaming'[t] = streaming[t]
          /\ gets' \subseteq gets \cup {s} /\ UNCHANGED <<slots, mut>>
      BY <2>4 DEF OpenStream, McpTypeOK, credVars
    <3> QED BY <2>0, <3>2, <3>3 DEF Tables, Timers
  <2>5. CASE CloseStream(h, s)
    <3>1. sess' = sess \/ (Live(s) /\ sess' = [sess EXCEPT ![s].timer = "running"])
      BY <2>5 DEF CloseStream
    <3>2. Timers
      BY <1>a, <3>1 DEF Timers, Live, McpTypeOK, Session
    <3> QED BY <1>e, <2>5, <3>2 DEF CloseStream, credVars, slotVars
  <2>6. CASE StreamClosed(h, s)
    <3>1. UNCHANGED mut
      BY <2>6 DEF StreamClosed, credVars
    <3>2. CASE req[h].ok \/ Live(s)
      <4>1. /\ \A t \in Sessions \ {s} : streaming'[t] = streaming[t]
            /\ UNCHANGED <<sess, gets, slots>>
        BY <2>6, <3>2 DEF StreamClosed, McpTypeOK
      <4> QED BY <1>b, <2>0, <3>1, <4>1 DEF Tables, Timers
    <3>3. CASE ~(req[h].ok \/ Live(s))
      <4>1. sess' = Gone({s}) /\ gets' \subseteq gets /\ FreeSlots({s})
        BY <2>6, <3>3 DEF StreamClosed, Pop
      <4> QED BY <1>c, <1>d, <1>e, <3>1, <4>1
    <3> QED BY <3>2, <3>3
  <2> QED BY <1>2, <2>1, <2>2, <2>3, <2>4, <2>5, <2>6
<1>3. ASSUME NEW c \in Clients, TerminateClient(c)
      PROVE  Tables
  <2>1. \A d \in Clients : mut'[d].victims \subseteq mut[d].victims \/ TerminateClient(d)
    <3> TAKE d \in Clients
    <3>1. CASE d = c
      BY <1>3, <3>1
    <3>2. CASE d # c
      BY <1>3, <3>2 DEF TerminateClient, McpTypeOK
    <3> QED BY <3>1, <3>2
  <2>2. Timers /\ gets' \subseteq gets /\ UNCHANGED <<slots, streaming>>
    BY <1>3, <1>c DEF TerminateClient, Pop, slotVars
  <2> QED BY <2>1, <2>2 DEF Tables, Timers
<1>4. ASSUME NEW c \in Clients, TerminationRaises(c) \/ TerminationCallback(c)
      PROVE  Tables
  <2>1. \A d \in Clients : mut'[d].victims \subseteq mut[d].victims
    BY <1>4 DEF TerminationRaises, TerminationCallback, McpTypeOK, Mutation
  <2>2. CASE TerminationRaises(c)
    BY <1>b, <2>1, <2>2 DEF TerminationRaises, slotVars, mgrVars, Tables, Timers
  <2>3. CASE TerminationCallback(c)
    <3>1. slots' \subseteq slots /\ Free
      BY <1>d, <2>3 DEF TerminationCallback
    <3> QED BY <1>b, <2>1, <2>3, <3>1 DEF TerminationCallback, mgrVars, Tables, Timers, Free
  <2> QED BY <1>4, <2>2, <2>3
<1>5. ASSUME NEW c \in Clients, NEW active \in BOOLEAN, Mutate(c, active)
      PROVE  Tables
  <2>1. \A d \in Clients : mut'[d].victims \subseteq mut[d].victims
    BY <1>5 DEF Mutate, McpTypeOK, Mutation
  <2> QED BY <1>5, <1>b, <2>1 DEF Mutate, slotVars, mgrVars, Tables, Timers
<1>6. CASE MinutePasses
  BY <1>6, <1>c, <1>e DEF MinutePasses, credVars
<1>7. ASSUME NEW h \in Handlers, Authenticates(h)
      PROVE  Tables
  BY <1>7, <1>b, <1>e DEF Authenticates, Authenticate, credVars, slotVars, mgrVars
<1>8. CASE UNCHANGED mcpVars
  BY <1>8, <1>b, <1>e DEF mcpVars
<1> QED BY <1>1, <1>2, <1>3, <1>4, <1>5, <1>6, <1>7, <1>8 DEF McpNext, UsingSession, Authenticates

-----------------------------------------------------------------------------
(* Identifiers are handed on: each part of the invariant, one step later.  *)

(* The sessions a client's termination popped are dead, by whoever did it. *)
LEMMA VictimsAreDead ==
    ASSUME McpTypeOK, Handed, [McpNext]_mcpVars, Ages
    PROVE  \A c \in Clients : \A s \in mut'[c].victims : Used(s)' /\ ~Live(s)'
<1> TAKE c \in Clients
<1>1. mut'[c].victims \subseteq Sessions /\ mut[c].victims \subseteq Sessions
  BY McpTypeStep DEF McpTypeOK, Mutation
<1>2. CASE mut'[c].victims \subseteq mut[c].victims
  BY <1>1, <1>2 DEF Handed, PoppedAreDead, Ages
<1>3. CASE TerminateClient(c)
  <2>1. mut'[c].victims = OwnedBy(c) /\ sess' = Gone(OwnedBy(c))
    BY <1>3 DEF TerminateClient, Pop, McpTypeOK, Mutation
  <2>2. \A s \in OwnedBy(c) : Used(s) /\ s \in Sessions
    BY DEF OwnedBy, Kept, Used
  <2> QED BY <2>1, <2>2, GoneAges DEF Ages
<1> QED BY <1>2, <1>3, TablesStep DEF Tables

(* Every step keeps the sessions that handlers and tables name known. *)
LEMMA HandedStep ==
    ASSUME McpTypeOK, Handed, [McpNext]_mcpVars
    PROVE  Handed'
<1>a. McpTypeOK' /\ Tables
  BY McpTypeStep, TablesStep
<1>b. \A g \in Handlers : /\ req[g].sess \subseteq Sessions /\ req[g].victims \subseteq Sessions
                          /\ req'[g].sess \subseteq Sessions /\ req'[g].victims \subseteq Sessions
  BY <1>a DEF McpTypeOK, Request
<1>c. slots \subseteq Sessions /\ slots' \subseteq Sessions
  BY <1>a DEF McpTypeOK
<1>1. ASSUME NEW h \in Handlers, CreateSession(h)
      PROVE  Handed'
  <2>1. PICK s \in Sessions :
          /\ sess[s].state = "unused"
          /\ sess' = [sess EXCEPT ![s] = [state |-> "live", owner |-> req[h].client,
                                          gen |-> req[h].gen, timer |-> "running",
                                          store |-> eventStore, told |-> FALSE]]
          /\ req' = [req EXCEPT ![h].pc = "created", ![h].sess = {s}]
    BY <1>1 DEF CreateSession
  <2>2. /\ \A t \in Sessions \ {s} : sess'[t] = sess[t]
        /\ sess'[s].state = "live" /\ sess'[s].owner = req[h].client
        /\ sess'[s].gen = req[h].gen /\ ~sess'[s].told
    BY <2>1 DEF McpTypeOK
  <2>3. /\ \A g \in Handlers \ {h} : req'[g] = req[g]
        /\ req'[h].pc = "created" /\ req'[h].client = req[h].client /\ req'[h].gen = req[h].gen
        /\ req'[h].sess = {s} /\ req'[h].victims = req[h].victims
    BY <2>1 DEF McpTypeOK, Request
  <2>4. req[h].pc # "idle" /\ UNCHANGED <<slots, streaming, gets, mut>>
    BY <1>1 DEF CreateSession, credVars, slotVars
  <2>5. ~Used(s)
    BY <2>1 DEF Used
  <2>6. \A t \in Sessions : t # s => (Used(t)' <=> Used(t)) /\ (Live(t)' <=> Live(t))
    BY <2>2 DEF Used, Live
  <2>7. Used(s)'
    BY <2>2 DEF Used
  <2>8. NamedAreUsed'
    BY <1>b, <2>3, <2>6, <2>7 DEF Handed, NamedAreUsed
  <2>9. PoppedAreDead'
    <3>1. \A g \in Handlers : req'[g].victims = req[g].victims
      BY <2>3
    <3>2. \A c \in Clients : mut[c].victims \subseteq Sessions
      BY DEF McpTypeOK, Mutation
    <3> QED BY <1>b, <2>4, <2>5, <2>6, <3>1, <3>2 DEF Handed, PoppedAreDead
  <2>10. UnusedAreUnknown'
    BY <2>2, <2>4, <2>6, <2>7 DEF Handed, UnusedAreUnknown
  <2>11. LiveAreOwned'
    <3>1. req[h].client \in Clients
      BY <2>4 DEF Handed, MakersOwn
    <3> QED BY <1>a, <2>2, <2>6, <3>1 DEF Handed, LiveAreOwned, Tables
  <2>12. SlotsAreTold'
    <3>1. s \notin slots
      BY <2>5 DEF Handed, SlotsAreTold, UnusedAreUnknown
    <3> QED BY <1>c, <2>2, <2>4, <3>1 DEF Handed, SlotsAreTold
  <2>13. MakersOwn'
    <3>1. \A g \in Handlers : s \notin req[g].sess
      BY <2>5 DEF Handed, NamedAreUsed
    <3> QED BY <1>b, <2>2, <2>3, <2>4, <2>6, <3>1 DEF Handed, MakersOwn, Making
  <2> QED BY <2>8, <2>9, <2>10, <2>11, <2>12, <2>13 DEF Handed
<1>2. ASSUME Ages, UnusedAreUnknown', SlotsAreTold',
             \A g \in Handlers : /\ req'[g].sess \subseteq req[g].sess
                                 /\ \A s \in req'[g].victims : Used(s)' /\ ~Live(s)',
             MakersOwn'
      PROVE  Handed'
  <2>1. NamedAreUsed'
    BY <1>2, <1>b DEF Handed, NamedAreUsed, Ages
  <2>2. PoppedAreDead'
    BY <1>2, VictimsAreDead DEF PoppedAreDead
  <2>3. LiveAreOwned'
    BY <1>2, <1>a DEF Handed, LiveAreOwned, Ages, Tables
  <2> QED BY <1>2, <2>1, <2>2, <2>3 DEF Handed
<1>3. ASSUME Ages, Told
      PROVE  UnusedAreUnknown' /\ (slots' \subseteq slots => SlotsAreTold')
  <2>1. UnusedAreUnknown'
    BY <1>3, <1>a DEF Handed, UnusedAreUnknown, Ages, Told, Tables
  <2> QED BY <1>3, <1>c, <2>1 DEF Handed, SlotsAreTold, Told
<1>4. ASSUME Ages, \A g \in Handlers : Continues(g)
      PROVE  /\ MakersOwn'
             /\ \A g \in Handlers : /\ req'[g].sess \subseteq req[g].sess
                                    /\ \A s \in req'[g].victims : Used(s)' /\ ~Live(s)'
  <2>1. MakersOwn'
    BY <1>4, <1>b DEF Handed, MakersOwn, Continues, Ages, Making
  <2> QED BY <1>4, <1>b, <2>1 DEF Continues, Handed, PoppedAreDead, Ages
<1>5. ASSUME NEW h \in Handlers, CompleteReservation(h)
      PROVE  Handed'
  <2>1. Ages /\ \A g \in Handlers : Continues(g)
    <3>1. \A g \in Handlers : ~(CreateSession(g) \/ RecheckBearer(g) \/ Authenticates(g))
      <4>1. req'[h].pc = "idle" /\ req[h].pc = "checked" /\ \A g \in Handlers \ {h} : req'[g] = req[g]
        BY <1>5, FinishFacts DEF CompleteReservation
      <4> TAKE g \in Handlers
      <4>2. CASE g = h
        BY <4>1, <4>2 DEF CreateSession, RecheckBearer, BearerHolds, BearerGone,
                            Authenticates, Authenticate
      <4>3. CASE g # h
        <5>1. req'[g] = req[g]
          BY <4>1, <4>3
        <5>2. ~CreateSession(g)
          BY <5>1 DEF CreateSession, McpTypeOK, Request
        <5>3. ~RecheckBearer(g)
          BY <5>1 DEF RecheckBearer, BearerHolds, BearerGone, Goto, McpTypeOK, Request
        <5>4. ~Authenticates(g)
          <6>1. ASSUME NEW c, NEW ids, NEW method, Authenticate(g, method, c, ids) PROVE FALSE
            <7>1. req'[g].pc = "authenticated" /\ req[g].pc = "idle"
              BY <6>1 DEF Authenticate, Idle, McpTypeOK
            <7> QED BY <5>1, <7>1
          <6> QED BY <6>1 DEF Authenticates
        <5> QED BY <5>2, <5>3, <5>4
      <4> QED BY <4>2, <4>3
    <3> QED BY <3>1, SessionsAge, RequestsContinue
  <2>2. \A s \in Sessions : sess'[s].told <=> sess[s].told \/ (req[h].ok /\ s \in req[h].sess)
    <3> TAKE s \in Sessions
    <3>1. PICK b : /\ b = (sess[s].told \/ (req[h].ok /\ s \in req[h].sess))
                   /\ sess'[s] = [sess[s] EXCEPT !.told = b]
      BY <1>5 DEF CompleteReservation
    <3>2. sess'[s].told = b
      BY <3>1 DEF McpTypeOK, Session
    <3> QED BY <3>1, <3>2
  <2>3. SlotsAreTold'
    <3>1. \A s \in slots' : s \in slots \/ (req[h].ok /\ s \in req[h].sess)
      BY <1>5 DEF CompleteReservation
    <3> QED BY <1>c, <2>2, <3>1 DEF Handed, SlotsAreTold
  <2>4. UnusedAreUnknown'
    BY <1>a, <2>1, <2>2 DEF Handed, UnusedAreUnknown, NamedAreUsed, Ages, Tables
  <2> QED BY <1>2, <1>4, <2>1, <2>3, <2>4
<1>6. ASSUME NEW h \in Handlers, RecheckBearer(h), Ages, Told, slots' \subseteq slots
      PROVE  Handed'
  <2>1. CASE BearerHolds(h)
    <3>1. \A g \in Handlers : Continues(g)
      BY <1>6, <2>1, GotoFacts DEF RecheckBearer, BearerHolds, BearerGone, Continues, Making
    <3> QED BY <1>2, <1>3, <1>4, <1>6, <3>1
  <2>2. CASE BearerGone(h)
    <3> DEFINE V == OwnedBy(req[h].client)
    <3>1. /\ sess' = Gone(V) /\ req' = [req EXCEPT ![h].pc = "popped", ![h].victims = V]
          /\ req[h].pc = "answered"
      BY <1>6, <2>2 DEF RecheckBearer, BearerHolds, BearerGone, Pop
    <3>2. \A s \in Sessions : Kept(s) /\ sess[s].owner = req[h].client => s \in V
      BY DEF OwnedBy
    <3>3. V \subseteq Sessions /\ \A s \in V : Used(s)
      BY DEF OwnedBy, Kept, Used
    <3> HIDE DEF V
    <3>4. /\ \A g \in Handlers \ {h} : req'[g] = req[g]
          /\ req'[h].pc = "popped" /\ req'[h].client = req[h].client /\ req'[h].gen = req[h].gen
          /\ req'[h].sess = req[h].sess /\ req'[h].victims = V
      BY <3>1 DEF McpTypeOK, Request
    <3>5. \A s \in V : Used(s)' /\ ~Live(s)'
      BY <1>6, <3>1, <3>3, GoneAges DEF Ages
    <3>6. \A g \in Handlers : \A s \in req'[g].victims : Used(s)' /\ ~Live(s)'
      BY <1>6, <1>b, <3>4, <3>5 DEF Handed, PoppedAreDead, Ages
    <3>7. \A s \in req[h].sess : ~Live(s)'
      <4> TAKE s \in req[h].sess
      <4>1. sess[s].owner = req[h].client
        BY <3>1 DEF Handed, MakersOwn, Making
      <4>2. Live(s) => s \in V
        BY <1>b, <3>2, <4>1 DEF Live, Kept
      <4> QED BY <1>6, <1>b, <3>5, <4>2 DEF Ages
    <3>8. MakersOwn'
      <4>1. Making(h) /\ \A g \in Handlers \ {h} : Making(g)' <=> Making(g)
        BY <3>1, <3>4 DEF Making
      <4>2. ASSUME NEW g \in Handlers \ {h}, NEW s \in req[g].sess, Making(g)
            PROVE  /\ sess'[s].owner = req[g].client
                   /\ Live(s)' => sess'[s].gen = req[g].gen /\ req[g].pc # "popped"
        BY <1>6, <1>b, <4>2 DEF Handed, MakersOwn, Ages
      <4>3. \A s \in req[h].sess : sess'[s].owner = req[h].client
        BY <1>6, <1>b, <4>1 DEF Handed, MakersOwn, Ages
      <4>4. \A g \in Handlers : req'[g].pc # "idle" => req'[g].client \in Clients
        BY <3>1, <3>4 DEF Handed, MakersOwn
      <4> QED BY <3>4, <3>7, <4>1, <4>2, <4>3, <4>4 DEF MakersOwn
    <3>9. \A g \in Handlers : req'[g].sess \subseteq req[g].sess
      BY <3>4
    <3> QED BY <1>2, <1>3, <1>6, <3>6, <3>8, <3>9
  <2> QED BY <1>6, <2>1, <2>2 DEF RecheckBearer
<1>7. ASSUME NEW h \in Handlers, Authenticates(h)
      PROVE  Handed'
  <2>1. PICK c \in Clients, ids \in SUBSET Sessions, method \in {"initialize", "GET", "POST", "DELETE"} :
          Authenticate(h, method, c, ids)
    BY <1>7 DEF Authenticates
  <2>2. /\ \A g \in Handlers \ {h} : req'[g] = req[g]
        /\ req'[h].pc = "authenticated" /\ req'[h].client = c
        /\ req'[h].sess = ids /\ req'[h].victims = {}
    BY <2>1 DEF Authenticate, McpTypeOK, Idle
  <2>3. UNCHANGED <<sess, slots, streaming, gets, mut>> /\ \A s \in ids : sess[s].told
    BY <2>1 DEF Authenticate, credVars, slotVars, mgrVars
  <2>4. \A s \in Sessions : (Used(s)' <=> Used(s)) /\ (Live(s)' <=> Live(s))
    BY <2>3 DEF Used, Live
  <2>5. NamedAreUsed'
    <3>1. \A s \in ids : Used(s)
      BY <2>3 DEF Handed, UnusedAreUnknown
    <3> QED BY <1>b, <2>2, <2>4, <3>1 DEF Handed, NamedAreUsed
  <2>6. PoppedAreDead'
    <3>1. \A d \in Clients : mut[d].victims \subseteq Sessions
      BY DEF McpTypeOK, Mutation
    <3>2. \A g \in Handlers : req'[g].victims \subseteq req[g].victims
      BY <2>2
    <3> QED BY <1>b, <2>3, <2>4, <3>1, <3>2 DEF Handed, PoppedAreDead
  <2>7. UnusedAreUnknown' /\ LiveAreOwned' /\ SlotsAreTold'
    BY <2>3, <2>4 DEF Handed, UnusedAreUnknown, LiveAreOwned, SlotsAreTold
  <2>8. MakersOwn'
    <3>1. ~Making(h)' /\ \A g \in Handlers \ {h} : Making(g)' <=> Making(g)
      BY <2>2 DEF Making
    <3>2. ASSUME NEW g \in Handlers \ {h}, NEW s \in req[g].sess, Making(g)
          PROVE  /\ sess'[s].owner = req[g].client
                 /\ Live(s)' => sess'[s].gen = req[g].gen /\ req[g].pc # "popped"
      BY <1>b, <2>3, <2>4, <3>2 DEF Handed, MakersOwn
    <3>3. \A g \in Handlers : req'[g].pc # "idle" => req'[g].client \in Clients
      BY <2>2 DEF Handed, MakersOwn
    <3> QED BY <2>2, <3>1, <3>2, <3>3 DEF MakersOwn
  <2> QED BY <2>5, <2>6, <2>7, <2>8 DEF Handed
<1>8. CASE \A h \in Handlers : ~CreateSession(h) /\ ~CompleteReservation(h)
  <2>1. Ages /\ Told /\ slots' \subseteq slots
    BY <1>8, <1>a, SessionsAge DEF Tables
  <2>2. CASE \A g \in Handlers : Continues(g)
    BY <1>2, <1>3, <1>4, <2>1, <2>2
  <2> QED BY <1>6, <1>7, <1>8, <2>1, <2>2, RequestsContinue
<1> QED BY <1>1, <1>5, <1>8

-----------------------------------------------------------------------------
(* How a request moves.                                                    *)

Moves(g) ==
    \/ req'[g].pc = req[g].pc /\ req'[g].sess = req[g].sess
    \/ /\ req[g].pc \in {"idle", "authenticated", "deleted"}
       /\ req'[g].pc \in {"idle", "authenticated", "deleted"}
    \/ ReserveSlot(g) /\ req[g].pc = "authenticated" /\ req'[g].pc = "reserved"
    \/ InstallStore(g) /\ req[g].pc = "reserved" /\ req'[g].pc = "installed"
    \/ CreateSession(g) /\ req[g].pc = "installed" /\ req'[g].pc = "created"
    \/ /\ req[g].pc = "created" /\ req'[g].pc = "answered" /\ req'[g].sess = req[g].sess
    \/ /\ RecheckBearer(g) /\ req[g].pc = "answered" /\ req'[g].sess = req[g].sess
       /\ \/ req'[g].pc = "popped"
          \/ req'[g].pc = "checked" /\ Current(req[g].client, req[g].gen)
    \/ req[g].pc = "popped" /\ req'[g].pc = "checked" /\ req'[g].sess = req[g].sess
    \/ CompleteReservation(g) /\ req[g].pc = "checked" /\ req'[g].pc = "idle"
    \/ /\ InitializeRaises(g) /\ req[g].pc \in {"installed", "created", "answered", "popped"}
       /\ req'[g].pc = "idle"
    \/ /\ req[g].pc = "authenticated" /\ req'[g].pc \in {"stream", "closed"}
       /\ \E s \in Sessions : OpenStream(g, s)
    \/ /\ req[g].pc = "stream" /\ req'[g].pc = "closed" /\ \E s \in Sessions : CloseStream(g, s)
    \/ /\ req[g].pc = "closed" /\ req'[g].pc = "idle" /\ \E s \in Sessions : StreamClosed(g, s)

(* A step moves one handler at most, along the paths of the code. *)
LEMMA RequestsMove ==
    ASSUME McpTypeOK, [McpNext]_mcpVars
    PROVE  /\ \A g \in Handlers : Moves(g)
           /\ \/ UNCHANGED req
              \/ \E h \in Handlers : \A g \in Handlers \ {h} : req'[g] = req[g]
<1>1. ASSUME UNCHANGED req PROVE \A g \in Handlers : Moves(g)
  BY <1>1 DEF Moves
<1>2. ASSUME NEW h \in Handlers, Moves(h), \A g \in Handlers \ {h} : req'[g] = req[g]
      PROVE  \A g \in Handlers : Moves(g)
  BY <1>2 DEF Moves
<1>3. ASSUME NEW h \in Handlers, Initializing(h) \/ InitializeRaises(h)
      PROVE  Moves(h) /\ \A g \in Handlers \ {h} : req'[g] = req[g]
  <2>1. CASE ReserveSlot(h)
    <3>1. CASE Finish(h)
      BY <2>1, <3>1, FinishFacts DEF ReserveSlot, Moves
    <3>2. CASE ~Finish(h)
      BY <2>1, <3>2, GotoFacts DEF ReserveSlot, Moves
    <3> QED BY <3>1, <3>2
  <2>2. CASE InstallStore(h)
    BY <2>2, GotoFacts DEF InstallStore, Moves
  <2>3. CASE CreateSession(h)
    <3>1. PICK s \in Sessions : req' = [req EXCEPT ![h].pc = "created", ![h].sess = {s}]
      BY <2>3 DEF CreateSession
    <3>2. req'[h].pc = "created" /\ \A g \in Handlers \ {h} : req'[g] = req[g]
      BY <3>1 DEF McpTypeOK, Request
    <3>3. req[h].pc = "installed"
      BY <2>3 DEF CreateSession
    <3> QED BY <2>3, <3>2, <3>3 DEF Moves
  <2>4. ASSUME NEW ok \in BOOLEAN, InitializeAnswered(h, ok)
        PROVE  Moves(h) /\ \A g \in Handlers \ {h} : req'[g] = req[g]
    <3>1. /\ req[h].pc = "created"
          /\ req' = [req EXCEPT ![h].pc = "answered", ![h].ok = ok]
      BY <2>4 DEF InitializeAnswered
    <3>2. /\ req'[h].pc = "answered" /\ req'[h].sess = req[h].sess
          /\ \A g \in Handlers \ {h} : req'[g] = req[g]
      BY <3>1 DEF McpTypeOK, Request
    <3> QED BY <3>1, <3>2 DEF Moves
  <2>5. CASE RecheckBearer(h)
    <3>1. CASE BearerHolds(h)
      BY <2>5, <3>1, GotoFacts DEF RecheckBearer, BearerHolds, BearerGone, Moves
    <3>2. CASE BearerGone(h)
      <4>1. PICK v : req' = [req EXCEPT ![h].pc = "popped", ![h].victims = v]
        BY <2>5, <3>2 DEF RecheckBearer, BearerHolds, BearerGone
      <4>2. /\ req'[h].pc = "popped" /\ req'[h].sess = req[h].sess
            /\ \A g \in Handlers \ {h} : req'[g] = req[g]
        BY <4>1 DEF McpTypeOK, Request
      <4>3. req[h].pc = "answered"
        BY <2>5 DEF RecheckBearer, BearerHolds, BearerGone
      <4> QED BY <2>5, <4>2, <4>3 DEF Moves
    <3> QED BY <2>5, <3>1, <3>2 DEF RecheckBearer
  <2>6. CASE RecheckTerminates(h)
    BY <2>6, GotoFacts DEF RecheckTerminates, Moves
  <2>7. CASE CompleteReservation(h)
    <3>1. Finish(h) /\ req[h].pc = "checked"
      BY <2>7 DEF CompleteReservation
    <3> QED BY <2>7, <3>1, FinishFacts DEF Moves
  <2>8. CASE InitializeRaises(h)
    <3>1. Finish(h) /\ req[h].pc \in {"installed", "created", "answered", "popped"}
      BY <2>8 DEF InitializeRaises
    <3> QED BY <2>8, <3>1, FinishFacts DEF Moves
  <2> QED BY <1>3, <2>1, <2>2, <2>3, <2>4, <2>5, <2>6, <2>7, <2>8 DEF Initializing
<1>4. ASSUME NEW h \in Handlers, NEW s \in Sessions,
             \/ Post(h, s) \/ Delete(h, s) \/ NotFound(h, s) \/ Deleted(h, s)
             \/ OpenStream(h, s) \/ StreamClosed(h, s) \/ CloseStream(h, s)
      PROVE  Moves(h) /\ \A g \in Handlers \ {h} : req'[g] = req[g]
  <2>1. CASE Post(h, s) \/ NotFound(h, s) \/ Deleted(h, s)
    <3>1. Finish(h) /\ req[h].pc \in {"authenticated", "deleted"}
      BY <2>1 DEF Post, NotFound, Deleted
    <3> QED BY <3>1, FinishFacts DEF Moves
  <2>2. CASE Delete(h, s)
    <3>1. Goto(h, "deleted") /\ req[h].pc = "authenticated"
      BY <2>2 DEF Delete
    <3> QED BY <3>1, GotoFacts DEF Moves
  <2>3. CASE OpenStream(h, s)
    BY <2>3, OpenStreamFacts DEF Moves
  <2>4. CASE CloseStream(h, s)
    <3>1. Goto(h, "closed") /\ req[h].pc = "stream"
      BY <2>4 DEF CloseStream
    <3> QED BY <2>4, <3>1, GotoFacts DEF Moves
  <2>5. CASE StreamClosed(h, s)
    <3>1. Finish(h) /\ req[h].pc = "closed"
      BY <2>5 DEF StreamClosed
    <3> QED BY <2>5, <3>1, FinishFacts DEF Moves
  <2> QED BY <1>4, <2>1, <2>2, <2>3, <2>4, <2>5
<1>5. ASSUME NEW h \in Handlers, Authenticates(h)
      PROVE  Moves(h) /\ \A g \in Handlers \ {h} : req'[g] = req[g]
  <2>1. PICK c \in Clients, ids \in SUBSET Sessions, method \in {"initialize", "GET", "POST", "DELETE"} :
          Authenticate(h, method, c, ids)
    BY <1>5 DEF Authenticates
  <2>2. /\ \A g \in Handlers \ {h} : req'[g] = req[g]
        /\ req[h].pc = "idle" /\ req'[h].pc = "authenticated"
    BY <2>1 DEF Authenticate, McpTypeOK, Idle
  <2> QED BY <2>2 DEF Moves
<1>6. ASSUME NEW c \in Clients,
             \/ TerminateClient(c) \/ TerminationRaises(c) \/ TerminationCallback(c)
             \/ \E active \in BOOLEAN : Mutate(c, active)
      PROVE  UNCHANGED req
  BY <1>6 DEF TerminateClient, TerminationRaises, TerminationCallback, Mutate
<1>7. CASE MinutePasses \/ UNCHANGED mcpVars
  BY <1>1, <1>7 DEF MinutePasses, mcpVars
<1> QED BY <1>1, <1>2, <1>3, <1>4, <1>5, <1>6, <1>7 DEF McpNext, UsingSession, Authenticates

-----------------------------------------------------------------------------
(* Bearers and replay stores.                                              *)

(* A session that stays alive keeps its current bearer, or its owner's     *)
(* termination is still to come.                                           *)
LEMMA BearersStep ==
    ASSUME McpTypeOK, [McpNext]_mcpVars, NEW s \in Sessions, NEW c \in Clients,
           Live(s), Live(s)', sess[s].owner = c, NEW gen \in Nat,
           Current(c, gen) \/ mut[c].pc = "committed"
    PROVE  Current(c, gen)' \/ mut'[c].pc = "committed"
<1>1. ASSUME UNCHANGED <<cred, mut>> PROVE Current(c, gen)' \/ mut'[c].pc = "committed"
  BY <1>1 DEF Current
<1>2. ASSUME NEW d \in Clients, NEW active \in BOOLEAN, Mutate(d, active)
      PROVE  Current(c, gen)' \/ mut'[c].pc = "committed"
  <2>1. CASE d = c
    BY <1>2, <2>1 DEF Mutate, McpTypeOK, Mutation
  <2>2. CASE d # c
    BY <1>2, <2>2 DEF Mutate, McpTypeOK, Mutation, Current
  <2> QED BY <2>1, <2>2
<1>3. ASSUME NEW d \in Clients, TerminateClient(d)
      PROVE  Current(c, gen)' \/ mut'[c].pc = "committed"
  <2>1. d # c
    <3>1. s \in OwnedBy(c)
      BY DEF OwnedBy, Kept, Live
    <3>2. d = c => ~Live(s)'
      BY <1>3, <3>1, GoneTyped DEF TerminateClient, Pop, Live
    <3> QED BY <3>2
  <2>2. mut'[c] = mut[c] /\ UNCHANGED cred
    BY <1>3, <2>1 DEF TerminateClient, McpTypeOK
  <2> QED BY <2>2 DEF Current
<1>4. ASSUME NEW d \in Clients, TerminationRaises(d) \/ TerminationCallback(d)
      PROVE  Current(c, gen)' \/ mut'[c].pc = "committed"
  <2>1. /\ mut[d].pc = "popped" /\ UNCHANGED cred
        /\ \A e \in Clients \ {d} : mut'[e] = mut[e]
    BY <1>4 DEF TerminationRaises, TerminationCallback, McpTypeOK
  <2> QED BY <2>1 DEF Current
<1>5. ASSUME NEW h \in Handlers, Initializing(h) \/ InitializeRaises(h)
      PROVE  UNCHANGED <<cred, mut>>
  BY <1>5 DEF Initializing, ReserveSlot, InstallStore, CreateSession, InitializeAnswered,
              RecheckBearer, BearerHolds, BearerGone, RecheckTerminates, CompleteReservation,
              InitializeRaises, credVars
<1>6. ASSUME NEW h \in Handlers, NEW t \in Sessions,
             \/ Post(h, t) \/ Delete(h, t) \/ NotFound(h, t) \/ Deleted(h, t)
             \/ OpenStream(h, t) \/ StreamClosed(h, t) \/ CloseStream(h, t)
      PROVE  UNCHANGED <<cred, mut>>
  BY <1>6 DEF Post, Delete, NotFound, Deleted, OpenStream, StreamClosed, CloseStream, credVars
<1>7. ASSUME NEW h \in Handlers, Authenticates(h)
      PROVE  UNCHANGED <<cred, mut>>
  BY <1>7 DEF Authenticates, Authenticate, credVars
<1>8. MinutePasses \/ UNCHANGED mcpVars => UNCHANGED <<cred, mut>>
  BY DEF MinutePasses, mcpVars, credVars
<1> QED BY <1>1, <1>2, <1>3, <1>4, <1>5, <1>6, <1>7, <1>8 DEF McpNext, UsingSession, Authenticates

(* Every step keeps what is known of the bearers behind sessions. *)
LEMMA BearerStep ==
    ASSUME McpTypeOK, Handed, BearerInv, [McpNext]_mcpVars
    PROVE  BearerInv'
<1>a. McpTypeOK' /\ \A g \in Handlers : Moves(g)
  BY McpTypeStep, RequestsMove
<1>b. \A g \in Handlers : req[g].sess \subseteq Sessions /\ req'[g].sess \subseteq Sessions
  BY <1>a DEF McpTypeOK, Request
<1>1. SUFFICES ASSUME NEW s \in Sessions, Live(s)', Vouched(s)'
      PROVE  Current(sess[s].owner, sess[s].gen)' \/ mut'[sess'[s].owner].pc = "committed"
  BY DEF BearerInv
<1>2. ~\E h \in Handlers : CreateSession(h) /\ ~Live(s)
  <2> SUFFICES ASSUME NEW h \in Handlers, CreateSession(h), ~Live(s)
               PROVE  FALSE
    OBVIOUS
  <2>1. PICK t \in Sessions :
          /\ sess[t].state = "unused"
          /\ sess' = [sess EXCEPT ![t] = [state |-> "live", owner |-> req[h].client,
                                          gen |-> req[h].gen, timer |-> "running",
                                          store |-> eventStore, told |-> FALSE]]
          /\ req' = [req EXCEPT ![h].pc = "created", ![h].sess = {t}]
    BY DEF CreateSession
  <2>2. /\ \A u \in Sessions \ {t} : sess'[u] = sess[u]
        /\ sess'[t].told = FALSE
    BY <2>1 DEF McpTypeOK
  <2>3. s = t
    BY <1>1, <2>2 DEF Live
  <2>4. PICK g \in Handlers : req'[g].pc = "checked" /\ s \in req'[g].sess
    BY <1>1, <2>2, <2>3 DEF Vouched
  <2>5. g # h /\ req'[g] = req[g]
    <3>1. req'[h].pc = "created" /\ \A f \in Handlers \ {h} : req'[f] = req[f]
      BY <2>1 DEF McpTypeOK, Request
    <3> QED BY <2>4, <3>1
  <2> QED BY <2>1, <2>3, <2>4, <2>5 DEF Handed, NamedAreUsed, Used
<1>3. Live(s) /\ sess'[s].owner = sess[s].owner /\ sess'[s].gen = sess[s].gen
  <2>1. CASE Ages
    BY <1>1, <2>1 DEF Ages
  <2>2. ASSUME NEW h \in Handlers, CreateSession(h)
        PROVE  Live(s) /\ sess'[s] = sess[s]
    <3>1. PICK t \in Sessions : sess[t].state = "unused" /\ \A u \in Sessions \ {t} : sess'[u] = sess[u]
      BY <2>2 DEF CreateSession, McpTypeOK
    <3> QED BY <1>1, <1>2, <2>2, <3>1 DEF Live
  <2> QED BY <2>1, <2>2, SessionsAge
<1>4. sess[s].owner \in Clients /\ sess[s].gen \in Nat
  BY <1>3 DEF Handed, LiveAreOwned, McpTypeOK, Session
<1>5. Current(sess[s].owner, sess[s].gen) \/ mut[sess[s].owner].pc = "committed"
  <2>1. CASE Vouched(s)
    BY <1>3, <2>1 DEF BearerInv
  <2>2. CASE ~Vouched(s)
    <3>1. CASE sess'[s].told
      <4>1. ~sess[s].told
        BY <2>2 DEF Vouched
      <4>2. PICK h \in Handlers : CreateSession(h) \/ CompleteReservation(h)
        BY <3>1, <4>1, SessionsAge DEF Told
      <4>3. CASE CreateSession(h)
        <5>1. PICK t \in Sessions :
                /\ sess[t].state = "unused" /\ \A u \in Sessions \ {t} : sess'[u] = sess[u]
          BY <4>3 DEF CreateSession, McpTypeOK
        <5> QED BY <1>3, <3>1, <4>1, <5>1 DEF Live
      <4>4. CASE CompleteReservation(h)
        <5>1. PICK b : /\ b = (sess[s].told \/ (req[h].ok /\ s \in req[h].sess))
                       /\ sess'[s] = [sess[s] EXCEPT !.told = b]
          BY <4>4 DEF CompleteReservation
        <5>2. b
          BY <3>1, <5>1 DEF McpTypeOK, Session
        <5>3. req[h].pc = "checked" /\ s \in req[h].sess
          BY <4>1, <4>4, <5>1, <5>2 DEF CompleteReservation
        <5> QED BY <2>2, <5>3 DEF Vouched
      <4> QED BY <4>2, <4>3, <4>4
    <3>2. CASE ~sess'[s].told
      <4>1. PICK g \in Handlers : req'[g].pc = "checked" /\ s \in req'[g].sess
        BY <1>1, <3>2 DEF Vouched
      <4>2. ~(req[g].pc = "checked" /\ s \in req[g].sess)
        BY <2>2 DEF Vouched
      <4>3. \/ /\ req[g].pc = "answered" /\ s \in req[g].sess
               /\ Current(req[g].client, req[g].gen)
            \/ req[g].pc = "popped" /\ s \in req[g].sess
        BY <1>a, <4>1, <4>2 DEF Moves
      <4>4. Making(g)
        BY <4>3 DEF Making
      <4>5. sess[s].owner = req[g].client /\ sess[s].gen = req[g].gen /\ req[g].pc # "popped"
        BY <1>3, <4>3, <4>4 DEF Handed, MakersOwn
      <4> QED BY <4>3, <4>5
    <3> QED BY <3>1, <3>2
  <2> QED BY <2>1, <2>2
<1> QED
  <2>1. PICK d \in Clients : d = sess[s].owner
    BY <1>4
  <2>2. PICK m \in Nat : m = sess[s].gen
    BY <1>4
  <2>3. Current(d, m)' \/ mut'[d].pc = "committed"
    BY <1>1, <1>3, <1>5, <2>1, <2>2, BearersStep
  <2> QED BY <1>3, <2>1, <2>2, <2>3 DEF Current

(* The shared attribute changes when a request starts or stops lending.    *)
LEMMA StoresMove ==
    ASSUME McpTypeOK, [McpNext]_mcpVars
    PROVE  \/ UNCHANGED <<eventStore, stores>>
           \/ \E h \in Handlers : InstallStore(h)
           \/ UNCHANGED stores /\ \E h \in Handlers : Lending(h) /\ ~Lending(h)'
<1>1. ASSUME NEW h \in Handlers, Initializing(h), ~InstallStore(h)
      PROVE  \/ UNCHANGED <<eventStore, stores>>
             \/ UNCHANGED stores /\ Lending(h) /\ ~Lending(h)'
  <2>1. ASSUME NEW ok \in BOOLEAN, InitializeAnswered(h, ok)
        PROVE  UNCHANGED stores /\ Lending(h) /\ ~Lending(h)'
    <3>1. req'[h].pc = "answered"
      BY <2>1 DEF InitializeAnswered, McpTypeOK, Request
    <3> QED BY <2>1, <3>1 DEF InitializeAnswered, Lending
  <2> QED BY <1>1, <2>1 DEF Initializing, ReserveSlot, CreateSession, RecheckBearer,
                BearerHolds, BearerGone,
                            RecheckTerminates, CompleteReservation, mgrVars
<1>2. ASSUME NEW h \in Handlers, InitializeRaises(h)
      PROVE  \/ UNCHANGED <<eventStore, stores>>
             \/ UNCHANGED stores /\ Lending(h) /\ ~Lending(h)'
  <2>1. req'[h].pc = "idle"
    BY <1>2, FinishFacts DEF InitializeRaises
  <2> QED BY <1>2, <2>1 DEF InitializeRaises, Lending
<1>3. ASSUME NEW h \in Handlers, NEW s \in Sessions,
             \/ Post(h, s) \/ Delete(h, s) \/ NotFound(h, s) \/ Deleted(h, s)
             \/ OpenStream(h, s) \/ StreamClosed(h, s) \/ CloseStream(h, s)
      PROVE  UNCHANGED <<eventStore, stores>>
  BY <1>3 DEF Post, Delete, NotFound, Deleted, OpenStream, StreamClosed, CloseStream
<1>4. ASSUME NEW h \in Handlers, Authenticates(h)
      PROVE  UNCHANGED <<eventStore, stores>>
  BY <1>4 DEF Authenticates, Authenticate, mgrVars
<1>5. ASSUME NEW c \in Clients,
             \/ TerminateClient(c) \/ TerminationRaises(c) \/ TerminationCallback(c)
             \/ \E active \in BOOLEAN : Mutate(c, active)
      PROVE  UNCHANGED <<eventStore, stores>>
  BY <1>5 DEF TerminateClient, TerminationRaises, TerminationCallback, Mutate, mgrVars
<1>6. MinutePasses \/ UNCHANGED mcpVars => UNCHANGED <<eventStore, stores>>
  BY DEF MinutePasses, mcpVars
<1> QED BY <1>1, <1>2, <1>3, <1>4, <1>5, <1>6 DEF McpNext, UsingSession, Authenticates

(* Every step keeps the replay stores apart. *)
LEMMA StoreStep ==
    ASSUME McpTypeOK, Handed, StoreInv, [McpNext]_mcpVars
    PROVE  StoreInv'
<1>a. stores \in Nat /\ eventStore \in Nat /\ \A s \in Sessions : sess[s].store \in Nat
  BY DEF McpTypeOK, Session
<1>b. \A g \in Handlers : Moves(g)
  BY RequestsMove
<1>c. \A g \in Handlers : Lending(g)' => Lending(g) \/ InstallStore(g)
  BY <1>b DEF Moves, Lending
<1>d. \A g \in Handlers : req'[g].pc = "installed" => req[g].pc = "installed" \/ InstallStore(g)
  BY <1>b DEF Moves
<1>1. ASSUME NEW h \in Handlers, InstallStore(h)
      PROVE  StoreInv'
  <2>1. /\ stores' = stores + 1 /\ eventStore' = stores + 1 /\ UNCHANGED sess
        /\ \A g \in Handlers : ~Lending(g)
        /\ \A g \in Handlers \ {h} : req'[g] = req[g]
    BY <1>1, GotoFacts DEF InstallStore, Lending
  <2>2. \A g \in Handlers : Lending(g)' => g = h
    BY <2>1 DEF Lending
  <2>3. ReplayStoresAreDistinct'
    BY <2>1 DEF StoreInv, ReplayStoresAreDistinct
  <2> QED BY <1>a, <2>1, <2>2, <2>3 DEF StoreInv
<1>2. CASE \A g \in Handlers : ~InstallStore(g)
  <2>1. \A g, h \in Handlers : Lending(g)' /\ Lending(h)' => g = h
    BY <1>2, <1>c DEF StoreInv
  <2>2. UNCHANGED stores
    BY <1>2, StoresMove
  <2>3. \A g \in Handlers : req'[g].pc = "installed" => req[g].pc = "installed" /\ UNCHANGED eventStore
    <3> SUFFICES ASSUME NEW g \in Handlers, req'[g].pc = "installed"
                 PROVE  req[g].pc = "installed" /\ UNCHANGED eventStore
      OBVIOUS
    <3>1. req[g].pc = "installed" /\ Lending(g) /\ Lending(g)'
      BY <1>2, <1>d DEF Lending
    <3>2. ~\E h \in Handlers : Lending(h) /\ ~Lending(h)'
      BY <3>1 DEF StoreInv
    <3> QED BY <1>2, <3>1, <3>2, StoresMove
  <2>4. ASSUME NEW h \in Handlers, CreateSession(h)
        PROVE  StoreInv'
    <3>1. PICK s \in Sessions :
            sess' = [sess EXCEPT ![s] = [state |-> "live", owner |-> req[h].client,
                                         gen |-> req[h].gen, timer |-> "running",
                                         store |-> eventStore, told |-> FALSE]]
      BY <2>4 DEF CreateSession
    <3>2. sess'[s].store = eventStore /\ \A t \in Sessions \ {s} : sess'[t] = sess[t]
      BY <3>1 DEF McpTypeOK
    <3>3. req[h].pc = "installed" /\ req'[h].pc = "created"
      BY <2>4 DEF CreateSession, McpTypeOK, Request
    <3>4. eventStore = stores /\ \A t \in Sessions : sess[t].store # eventStore
      BY <3>3 DEF StoreInv
    <3>5. \A g \in Handlers : req'[g].pc # "installed"
      <4>1. \A g \in Handlers : req'[g].pc = "installed" => g = h
        BY <2>3, <3>3 DEF StoreInv, Lending
      <4> QED BY <3>3, <4>1
    <3>6. ReplayStoresAreDistinct'
      BY <3>2, <3>4 DEF StoreInv, ReplayStoresAreDistinct
    <3>7. \A t \in Sessions : sess'[t].store <= stores'
      BY <1>a, <2>2, <3>2, <3>4 DEF StoreInv
    <3> QED BY <2>1, <3>5, <3>6, <3>7 DEF StoreInv
  <2>5. CASE Ages
    <3>1. \A s \in Sessions : sess'[s].store = sess[s].store
      BY <2>5 DEF Ages
    <3>2. ReplayStoresAreDistinct'
      BY <3>1 DEF StoreInv, ReplayStoresAreDistinct
    <3> QED BY <2>1, <2>2, <2>3, <3>1, <3>2 DEF StoreInv
  <2> QED BY <2>4, <2>5, SessionsAge
<1> QED BY <1>1, <1>2

-----------------------------------------------------------------------------
(* Streams.                                                                *)

(* The handlers of a session's streams are finitely many. *)
LEMMA WatchersAreFinite ==
    ASSUME NEW s
    PROVE  /\ IsFiniteSet(Watching(s)) /\ Cardinality(Watching(s)) \in Nat
           /\ IsFiniteSet(Watching(s)') /\ Cardinality(Watching(s)') \in Nat
<1>1. Watching(s) \subseteq Handlers /\ Watching(s)' \subseteq Handlers
  BY DEF Watching
<1> QED BY <1>1, FS_Subset, FS_CardinalityType, McpAssumption

(* A handler names one session at most, before and after a step. *)
LEMMA NamesOneStep ==
    ASSUME McpTypeOK, [McpNext]_mcpVars, \A h \in Handlers : NamesOne(h)
    PROVE  \A h \in Handlers : NamesOne(h)'
<1>1. CASE \A g \in Handlers : Continues(g)
  BY <1>1 DEF Continues, NamesOne
<1>2. ASSUME NEW h \in Handlers, CreateSession(h)
      PROVE  \A g \in Handlers : NamesOne(g)'
  <2>1. PICK s \in Sessions : req' = [req EXCEPT ![h].pc = "created", ![h].sess = {s}]
    BY <1>2 DEF CreateSession
  <2>2. req'[h].sess = {s} /\ \A g \in Handlers \ {h} : req'[g] = req[g]
    BY <2>1 DEF McpTypeOK, Request
  <2> QED BY <2>2 DEF NamesOne
<1>3. ASSUME NEW h \in Handlers, RecheckBearer(h)
      PROVE  \A g \in Handlers : NamesOne(g)'
  <2>1. PICK pc, victims : \/ req' = [req EXCEPT ![h].pc = pc]
                           \/ req' = [req EXCEPT ![h].pc = pc, ![h].victims = victims]
    BY <1>3 DEF RecheckBearer, BearerHolds, BearerGone, Goto
  <2>2. \A g \in Handlers : req'[g].sess = req[g].sess
    BY <2>1 DEF McpTypeOK, Request
  <2> QED BY <2>2 DEF NamesOne
<1>4. ASSUME NEW h \in Handlers, Authenticates(h)
      PROVE  \A g \in Handlers : NamesOne(g)'
  <2>1. PICK c \in Clients, ids \in SUBSET Sessions, method \in {"initialize", "GET", "POST", "DELETE"} :
          Authenticate(h, method, c, ids) /\ (ids = {} \/ \E s \in Sessions : ids = {s})
    BY <1>4 DEF Authenticates
  <2>2. req'[h].sess = ids /\ \A g \in Handlers \ {h} : req'[g] = req[g]
    BY <2>1 DEF Authenticate, McpTypeOK, Idle
  <2>3. \A s, t \in ids : s = t
    BY <2>1
  <2> QED BY <2>2, <2>3 DEF NamesOne
<1> QED BY <1>1, <1>2, <1>3, <1>4, RequestsContinue

(* A live session whose tables, timer and requests stay, stays held.       *)
LEMMA HeldStays ==
    ASSUME NEW s \in Sessions, StreamHeld(s), sess'[s].timer = sess[s].timer,
           (s \in gets') <=> (s \in gets), streaming'[s] = streaming[s],
           Streams(s)' = Streams(s), Watching(s)' = Watching(s)
    PROVE  StreamHeld(s)'
BY DEF StreamHeld

(* Only the steps of a GET request move streams.                           *)
Streaming(h, s) == OpenStream(h, s) \/ CloseStream(h, s) \/ StreamClosed(h, s)

(* Without a step of a stream, the streams stay as they are. *)
LEMMA WatchersStay ==
    ASSUME McpTypeOK, [McpNext]_mcpVars,
           \A h \in Handlers : \A s \in Sessions : ~Streaming(h, s)
    PROVE  \A s : Streams(s)' = Streams(s) /\ Watching(s)' = Watching(s)
<1>1. \A g \in Handlers : \/ req'[g].pc = req[g].pc /\ req'[g].sess = req[g].sess
                          \/ req[g].pc \notin {"stream", "closed"} /\ req'[g].pc \notin {"stream", "closed"}
  BY RequestsMove DEF Moves, Streaming
<1> QED BY <1>1 DEF Streams, Watching

(* Steps outside the GET requests: a session that is alive afterwards is   *)
(* not among the popped ones, so its tables and timer are untouched.       *)
LEMMA TablesStay ==
    ASSUME McpTypeOK, Handed, [McpNext]_mcpVars, NEW s \in Sessions, Live(s), Live(s)',
           \A h \in Handlers : \A t \in Sessions : ~Streaming(h, t)
    PROVE  /\ (s \in gets') <=> (s \in gets)
           /\ streaming'[s] = streaming[s]
           /\ \/ sess'[s].timer = sess[s].timer
              \/ sess'[s].timer = IF s \in gets THEN "off" ELSE "running"
<1> DEFINE Stay == /\ (s \in gets') <=> (s \in gets)
                   /\ streaming'[s] = streaming[s]
                   /\ sess'[s].timer = sess[s].timer
<1>a. ASSUME NEW ids, sess' = Gone(ids)
      PROVE  s \notin ids /\ sess'[s] = sess[s]
  BY <1>a, GoneTyped DEF Live
<1>1. ASSUME NEW h \in Handlers, Initializing(h) \/ InitializeRaises(h)
      PROVE  Stay
  <2>1. CASE ReserveSlot(h) \/ InstallStore(h) \/ (\E ok \in BOOLEAN : InitializeAnswered(h, ok))
             \/ InitializeRaises(h)
    BY <2>1 DEF ReserveSlot, InstallStore, InitializeAnswered, InitializeRaises, slotVars, mgrVars
  <2>2. CASE CreateSession(h)
    <3>1. PICK t \in Sessions : sess[t].state = "unused" /\ \A u \in Sessions \ {t} : sess'[u] = sess[u]
      BY <2>2 DEF CreateSession, McpTypeOK
    <3> QED BY <2>2, <3>1 DEF CreateSession, slotVars, Live
  <2>3. CASE RecheckBearer(h)
    <3>1. CASE BearerHolds(h)
      BY <2>3, <3>1 DEF RecheckBearer, BearerHolds, BearerGone, slotVars
    <3>2. CASE BearerGone(h)
      BY <1>a, <2>3, <3>2 DEF RecheckBearer, BearerHolds, BearerGone, Pop, slotVars
    <3> QED BY <2>3, <3>1, <3>2 DEF RecheckBearer
  <2>4. CASE RecheckTerminates(h)
    <3>1. s \notin req[h].victims
      BY DEF Handed, PoppedAreDead
    <3> QED BY <2>4, <3>1, FreeSlotsFacts DEF RecheckTerminates, mgrVars
  <2>5. CASE CompleteReservation(h)
    <3>1. PICK b : sess'[s] = [sess[s] EXCEPT !.told = b]
      BY <2>5 DEF CompleteReservation
    <3>2. sess'[s].timer = sess[s].timer
      BY <3>1 DEF McpTypeOK, Session
    <3> QED BY <2>5, <3>2 DEF CompleteReservation
  <2> QED BY <1>1, <2>1, <2>2, <2>3, <2>4, <2>5 DEF Initializing
<1>2. ASSUME NEW h \in Handlers, NEW t \in Sessions, Post(h, t)
      PROVE  /\ (s \in gets') <=> (s \in gets)
             /\ streaming'[s] = streaming[s]
             /\ \/ sess'[s].timer = sess[s].timer
                \/ sess'[s].timer = IF s \in gets THEN "off" ELSE "running"
  <2>1. PICK timer : /\ timer = IF t \in gets THEN "off" ELSE "running"
                     /\ sess' = [sess EXCEPT ![t].timer = timer]
    BY <1>2 DEF Post
  <2>2. sess'[t].timer = timer /\ \A u \in Sessions \ {t} : sess'[u] = sess[u]
    BY <2>1 DEF McpTypeOK, Session
  <2> QED BY <1>2, <2>1, <2>2 DEF Post
<1>3. ASSUME NEW h \in Handlers, NEW t \in Sessions, Delete(h, t)
      PROVE  Stay
  <2>1. sess'[t].state = "terminated" /\ \A u \in Sessions \ {t} : sess'[u] = sess[u]
    BY <1>3 DEF Delete, McpTypeOK, Session
  <2>2. s # t
    BY <2>1 DEF Live
  <2> QED BY <1>3, <2>1, <2>2 DEF Delete
<1>4. ASSUME NEW h \in Handlers, NEW t \in Sessions, NotFound(h, t) \/ Deleted(h, t)
      PROVE  Stay
  <2>1. CleanUp(t)
    BY <1>4 DEF NotFound, Deleted
  <2>2. CASE Live(t)
    BY <2>1, <2>2 DEF CleanUp
  <2>3. CASE ~Live(t)
    BY <1>a, <2>1, <2>3, FreeSlotsFacts DEF CleanUp, Pop
  <2> QED BY <2>2, <2>3
<1>5. ASSUME NEW c \in Clients,
             \/ TerminateClient(c) \/ TerminationRaises(c) \/ TerminationCallback(c)
             \/ \E active \in BOOLEAN : Mutate(c, active)
      PROVE  Stay
  <2>1. CASE TerminateClient(c)
    BY <1>a, <2>1 DEF TerminateClient, Pop, slotVars
  <2>2. CASE TerminationCallback(c)
    <3>1. s \notin mut[c].victims
      BY DEF Handed, PoppedAreDead
    <3> QED BY <2>2, <3>1, FreeSlotsFacts DEF TerminationCallback, mgrVars
  <2>3. CASE TerminationRaises(c) \/ \E active \in BOOLEAN : Mutate(c, active)
    BY <2>3 DEF TerminationRaises, Mutate, slotVars, mgrVars
  <2> QED BY <1>5, <2>1, <2>2, <2>3
<1>6. CASE MinutePasses
  BY <1>a, <1>6 DEF MinutePasses
<1>7. ASSUME NEW h \in Handlers, Authenticates(h)
      PROVE  Stay
  BY <1>7 DEF Authenticates, Authenticate, slotVars, mgrVars
<1>8. CASE UNCHANGED mcpVars
  BY <1>8 DEF mcpVars
<1> QED BY <1>1, <1>2, <1>3, <1>4, <1>5, <1>6, <1>7, <1>8 DEF McpNext, UsingSession, Authenticates,
                                                              Streaming

(* Every step keeps streams, timers and stream counts in step. *)
LEMMA StreamStep ==
    ASSUME McpTypeOK, Handed, StreamInv, [McpNext]_mcpVars
    PROVE  StreamInv'
<1>a. \A h \in Handlers : NamesOne(h)'
  BY NamesOneStep DEF StreamInv
<1>b. SUFFICES ASSUME NEW s \in Sessions, Live(s)'
               PROVE  StreamHeld(s)'
  BY <1>a DEF StreamInv
<1>c. streaming[s] \in Nat /\ streaming \in [Sessions -> Nat]
  BY DEF McpTypeOK
<1>1. CASE ~Live(s)
  <2>1. PICK h \in Handlers : CreateSession(h)
    BY <1>b, <1>1, SessionsAge DEF Ages
  <2>2. PICK t \in Sessions :
          /\ sess[t].state = "unused"
          /\ sess' = [sess EXCEPT ![t] = [state |-> "live", owner |-> req[h].client,
                                          gen |-> req[h].gen, timer |-> "running",
                                          store |-> eventStore, told |-> FALSE]]
          /\ req' = [req EXCEPT ![h].pc = "created", ![h].sess = {t}]
    BY <2>1 DEF CreateSession
  <2>3. sess'[t].timer = "running" /\ \A u \in Sessions \ {t} : sess'[u] = sess[u]
    BY <2>2 DEF McpTypeOK
  <2>4. s = t /\ ~Used(s)
    BY <1>b, <1>1, <2>2, <2>3 DEF Live, Used
  <2>5. s \notin gets' /\ streaming'[s] = 0
    BY <2>1, <2>4 DEF CreateSession, slotVars, Handed, UnusedAreUnknown
  <2>6. \A g \in Handlers : ~(req'[g].pc \in {"stream", "closed"} /\ s \in req'[g].sess)
    <3>1. req'[h].pc = "created" /\ \A g \in Handlers \ {h} : req'[g] = req[g]
      BY <2>2 DEF McpTypeOK, Request
    <3>2. \A g \in Handlers : s \notin req[g].sess
      BY <2>4 DEF Handed, NamedAreUsed
    <3> QED BY <3>1, <3>2
  <2>7. Streams(s)' = {} /\ Watching(s)' = {}
    BY <2>6 DEF Streams, Watching
  <2> QED BY <2>3, <2>4, <2>5, <2>7, FS_EmptySet DEF StreamHeld
<1>2. CASE Live(s)
  <2>0. StreamHeld(s)
    BY <1>2 DEF StreamInv
  <2>1. CASE \A h \in Handlers : \A t \in Sessions : ~Streaming(h, t)
    <3>1. Streams(s)' = Streams(s) /\ Watching(s)' = Watching(s)
      BY <2>1, WatchersStay
    <3> QED BY <1>b, <1>2, <2>0, <2>1, <3>1, TablesStay DEF StreamHeld
  <2>2. ASSUME NEW h \in Handlers, NEW t \in Sessions, t # s, t \in req[h].sess,
               \A g \in Handlers \ {h} : req'[g] = req[g], req'[h].sess \subseteq req[h].sess
        PROVE  Streams(s)' = Streams(s) /\ Watching(s)' = Watching(s)
    <3>1. s \notin req[h].sess /\ s \notin req'[h].sess
      BY <2>2 DEF StreamInv, NamesOne
    <3> QED BY <2>2, <3>1 DEF Streams, Watching
  <2>3. ASSUME NEW h \in Handlers, NEW t \in Sessions, OpenStream(h, t)
        PROVE  StreamHeld(s)'
    <3>1. /\ \A g \in Handlers \ {h} : req'[g] = req[g]
          /\ req'[h].pc \in {"stream", "closed"} /\ req'[h].sess = req[h].sess
      BY <2>3, OpenStreamFacts
    <3>2. req[h].pc = "authenticated" /\ t \in req[h].sess
      BY <2>3 DEF OpenStream
    <3>3. /\ streaming'[t] = streaming[t] + 1
          /\ \A u \in Sessions \ {t} : streaming'[u] = streaming[u]
      BY <2>3, <1>c DEF OpenStream
    <3>4. CASE t # s
      <4>1. (s \in gets' <=> s \in gets) /\ sess'[s] = sess[s]
        BY <2>3, <3>4 DEF OpenStream, McpTypeOK
      <4> QED BY <2>0, <2>2, <3>1, <3>2, <3>3, <3>4, <4>1, HeldStays
    <3>5. CASE t = s
      <4>1. Watching(s)' = Watching(s) \cup {h} /\ h \notin Watching(s)
        BY <3>1, <3>2, <3>5 DEF Watching
      <4>2. streaming'[s] = Cardinality(Watching(s)')
        <5>1. Cardinality(Watching(s)') = Cardinality(Watching(s)) + 1
          BY <4>1, WatchersAreFinite, FS_AddElement
        <5> QED BY <2>0, <3>3, <3>5, <5>1 DEF StreamHeld
      <4>3. CASE Usable(h, t) /\ Live(t) /\ t \notin gets
        <5>1. /\ gets' = gets \cup {t} /\ sess' = [sess EXCEPT ![t].timer = "off"]
              /\ req' = [req EXCEPT ![h].pc = "stream", ![h].ok = TRUE]
          BY <2>3, <4>3 DEF OpenStream
        <5>2. sess'[s].timer = "off" /\ s \in gets' /\ req'[h].pc = "stream"
          BY <3>5, <5>1 DEF McpTypeOK, Session, Request
        <5>3. Streams(s) = {}
          BY <2>0, <3>5, <4>3 DEF StreamHeld
        <5>4. Streams(s)' = {h}
          BY <3>1, <3>2, <3>5, <5>2, <5>3 DEF Streams
        <5> QED BY <4>2, <5>2, <5>4 DEF StreamHeld
      <4>4. CASE ~(Usable(h, t) /\ Live(t) /\ t \notin gets)
        <5>1. PICK b : /\ UNCHANGED <<sess, gets>>
                       /\ req' = [req EXCEPT ![h].pc = "closed", ![h].ok = b]
          BY <2>3, <4>4 DEF OpenStream
        <5>2. req'[h].pc = "closed"
          BY <5>1 DEF McpTypeOK, Request
        <5>3. Streams(s)' = Streams(s)
          BY <3>1, <3>2, <5>2 DEF Streams
        <5> QED BY <2>0, <4>2, <5>1, <5>3 DEF StreamHeld
      <4> QED BY <4>3, <4>4
    <3> QED BY <3>4, <3>5
  <2>4. ASSUME NEW h \in Handlers, NEW t \in Sessions, CloseStream(h, t)
        PROVE  StreamHeld(s)'
    <3>1. /\ \A g \in Handlers \ {h} : req'[g] = req[g]
          /\ req'[h].pc = "closed" /\ req'[h].sess = req[h].sess
          /\ req[h].pc = "stream" /\ t \in req[h].sess
          /\ gets' = gets \ {t} /\ UNCHANGED streaming
      BY <2>4, GotoFacts DEF CloseStream, slotVars
    <3>2. CASE t # s
      <4>1. sess'[s] = sess[s]
        BY <2>4, <3>2 DEF CloseStream, McpTypeOK
      <4> QED BY <2>0, <2>2, <3>1, <3>2, <4>1, HeldStays
    <3>3. CASE t = s
      <4>1. sess'[s].timer = "running"
        BY <1>2, <2>4, <3>3 DEF CloseStream, McpTypeOK, Session
      <4>2. Watching(s)' = Watching(s)
        BY <3>1 DEF Watching
      <4>3. h \in Streams(s)
        BY <3>1, <3>3 DEF Streams
      <4>4. Streams(s)' = {}
        <5>1. Streams(s)' \subseteq Streams(s) \ {h}
          BY <3>1 DEF Streams
        <5> QED BY <2>0, <4>3, <5>1 DEF StreamHeld
      <4> QED BY <2>0, <3>1, <3>3, <4>1, <4>2, <4>4 DEF StreamHeld
    <3> QED BY <3>2, <3>3
  <2>5. ASSUME NEW h \in Handlers, NEW t \in Sessions, StreamClosed(h, t)
        PROVE  StreamHeld(s)'
    <3>1. /\ \A g \in Handlers \ {h} : req'[g] = req[g]
          /\ req'[h].pc = "idle" /\ req'[h].sess = {}
          /\ req[h].pc = "closed" /\ t \in req[h].sess
      BY <2>5, FinishFacts DEF StreamClosed
    <3>2. CASE req[h].ok \/ Live(t)
      <4>1. /\ UNCHANGED <<sess, gets>>
            /\ streaming' = [streaming EXCEPT ![t] = IF streaming[t] > 0 THEN streaming[t] - 1 ELSE 0]
        BY <2>5, <3>2 DEF StreamClosed
      <4>2. CASE t # s
        <5>1. streaming'[s] = streaming[s]
          BY <1>c, <4>1, <4>2
        <5>2. Streams(s)' = Streams(s) /\ Watching(s)' = Watching(s)
          BY <2>2, <3>1, <4>2
        <5> QED BY <2>0, <4>1, <5>1, <5>2, HeldStays
      <4>3. CASE t = s
        <5>1. Streams(s)' = Streams(s)
          BY <3>1 DEF Streams
        <5>2. Watching(s)' = Watching(s) \ {h} /\ h \in Watching(s)
          BY <3>1, <4>3 DEF Watching
        <5>3. Cardinality(Watching(s)') = Cardinality(Watching(s)) - 1
          BY <5>2, WatchersAreFinite, FS_RemoveElement
        <5>4. streaming[s] = Cardinality(Watching(s)) /\ streaming[s] > 0
          BY <2>0, <5>3, WatchersAreFinite DEF StreamHeld
        <5>5. streaming'[s] = Cardinality(Watching(s)')
          BY <1>c, <4>1, <4>3, <5>3, <5>4
        <5> QED BY <2>0, <4>1, <5>1, <5>5 DEF StreamHeld
      <4> QED BY <4>2, <4>3
    <3>3. CASE ~(req[h].ok \/ Live(t))
      <4>1. sess' = Gone({t}) /\ gets' = gets \ {t} /\ FreeSlots({t}) /\ t # s
        BY <1>2, <2>5, <3>3 DEF StreamClosed, Pop
      <4>2. sess'[s] = sess[s] /\ streaming'[s] = streaming[s]
        BY <4>1, GoneTyped, FreeSlotsFacts
      <4>3. Streams(s)' = Streams(s) /\ Watching(s)' = Watching(s)
        BY <2>2, <3>1, <4>1
      <4> QED BY <2>0, <4>1, <4>2, <4>3, HeldStays
    <3> QED BY <3>2, <3>3
  <2> QED BY <2>1, <2>3, <2>4, <2>5 DEF Streaming
<1> QED BY <1>1, <1>2

-----------------------------------------------------------------------------
(* Slots.                                                                  *)

(* A session with an open stream is counted by the middleware.             *)
LEMMA HeldIsCounted ==
    ASSUME NEW s \in Sessions, StreamHeld(s), sess[s].timer = "off"
    PROVE  streaming[s] > 0
<1>1. PICK h : h \in Streams(s)
  BY DEF StreamHeld
<1>2. h \in Watching(s)
  BY <1>1 DEF Streams, Watching
<1>3. Cardinality(Watching(s)) # 0
  BY <1>2, WatchersAreFinite, FS_EmptySet
<1> QED BY <1>3, WatchersAreFinite DEF StreamHeld

(* A live session that has a slot keeps it, and its slot grows old only    *)
(* under a stream.                                                         *)
LEMMA SlotsStay ==
    ASSUME McpTypeOK, Handed, StreamInv, [McpNext]_mcpVars,
           NEW s \in Sessions, Live(s), Live(s)', s \in slots, s \in old => streaming[s] > 0
    PROVE  s \in slots' /\ (s \in old' => streaming'[s] > 0)
<1> DEFINE Stay == s \in slots' /\ (s \in old' => streaming'[s] > 0)
<1>a. streaming \in [Sessions -> Nat]
  BY DEF McpTypeOK
<1>b. ASSUME slots' = slots, old' \subseteq old, UNCHANGED streaming PROVE Stay
  BY <1>b
<1>c. ASSUME NEW ids, FreeSlots(ids), s \notin ids PROVE Stay
  BY <1>c, FreeSlotsFacts
<1>d. ASSUME NEW ids, sess' = Gone(ids) PROVE s \notin ids
  BY <1>d, GoneTyped DEF Live
<1>1. ASSUME NEW h \in Handlers, Initializing(h) \/ InitializeRaises(h)
      PROVE  Stay
  <2>1. CASE ReserveSlot(h)
    BY <2>1 DEF ReserveSlot, Unpruned
  <2>2. CASE InstallStore(h) \/ CreateSession(h) \/ (\E ok \in BOOLEAN : InitializeAnswered(h, ok))
             \/ RecheckBearer(h) \/ InitializeRaises(h)
    BY <2>2, <1>b DEF InstallStore, CreateSession, InitializeAnswered, RecheckBearer,
                BearerHolds, BearerGone,
                      InitializeRaises, slotVars
  <2>3. CASE RecheckTerminates(h)
    <3>1. s \notin req[h].victims
      BY DEF Handed, PoppedAreDead
    <3> QED BY <1>c, <2>3, <3>1 DEF RecheckTerminates
  <2>4. CASE CompleteReservation(h)
    BY <2>4 DEF CompleteReservation
  <2> QED BY <1>1, <2>1, <2>2, <2>3, <2>4 DEF Initializing
<1>2. ASSUME NEW h \in Handlers, NEW t \in Sessions,
             Post(h, t) \/ Delete(h, t) \/ NotFound(h, t) \/ Deleted(h, t)
      PROVE  Stay
  <2>1. CASE Post(h, t) \/ Delete(h, t)
    BY <1>b, <2>1 DEF Post, Delete, Touched
  <2>2. CASE NotFound(h, t) \/ Deleted(h, t)
    <3>1. CleanUp(t)
      BY <2>2 DEF NotFound, Deleted
    <3>2. CASE Live(t)
      BY <1>b, <3>1, <3>2 DEF CleanUp, Touched
    <3>3. CASE ~Live(t)
      <4>1. FreeSlots({t}) /\ s \notin {t}
        BY <3>1, <3>3 DEF CleanUp
      <4> QED BY <1>c, <4>1
    <3> QED BY <3>2, <3>3
  <2> QED BY <1>2, <2>1, <2>2
<1>3. ASSUME NEW h \in Handlers, NEW t \in Sessions, OpenStream(h, t)
      PROVE  Stay
  BY <1>3, <1>a DEF OpenStream, Touched
<1>4. ASSUME NEW h \in Handlers, NEW t \in Sessions, CloseStream(h, t)
      PROVE  Stay
  BY <1>4, <1>b DEF CloseStream, slotVars
<1>5. ASSUME NEW h \in Handlers, NEW t \in Sessions, StreamClosed(h, t)
      PROVE  Stay
  <2>1. CASE req[h].ok \/ Live(t)
    <3>1. /\ old' = old \ {t} /\ UNCHANGED slots
          /\ \A u \in Sessions \ {t} : streaming'[u] = streaming[u]
      BY <1>5, <1>a, <2>1 DEF StreamClosed, Touched
    <3> QED BY <3>1
  <2>2. CASE ~(req[h].ok \/ Live(t))
    <3>1. FreeSlots({t}) /\ s \notin {t}
      BY <1>5, <2>2 DEF StreamClosed
    <3> QED BY <1>c, <3>1
  <2> QED BY <2>1, <2>2
<1>6. ASSUME NEW c \in Clients,
             \/ TerminateClient(c) \/ TerminationRaises(c) \/ TerminationCallback(c)
             \/ \E active \in BOOLEAN : Mutate(c, active)
      PROVE  Stay
  <2>1. s \notin mut[c].victims
    BY DEF Handed, PoppedAreDead
  <2>2. CASE TerminationCallback(c)
    BY <1>c, <2>1, <2>2 DEF TerminationCallback
  <2>3. CASE ~TerminationCallback(c)
    BY <1>6, <1>b, <2>3 DEF TerminateClient, TerminationRaises, Mutate, slotVars
  <2> QED BY <2>2, <2>3
<1>7. CASE MinutePasses
  <2>1. s \notin {t \in Sessions : sess[t].timer = "running"}
    BY <1>7, <1>d DEF MinutePasses
  <2>2. sess[s].timer = "off"
    BY <2>1 DEF McpTypeOK, Session
  <2>3. streaming[s] > 0
    BY <2>2, HeldIsCounted DEF StreamInv
  <2> QED BY <1>7, <2>3 DEF MinutePasses
<1>8. ASSUME NEW h \in Handlers, Authenticates(h)
      PROVE  Stay
  BY <1>8, <1>b DEF Authenticates, Authenticate, slotVars
<1>9. CASE UNCHANGED mcpVars
  BY <1>9, <1>b DEF mcpVars
<1> QED BY <1>1, <1>2, <1>3, <1>4, <1>5, <1>6, <1>7, <1>8, <1>9
        DEF McpNext, UsingSession, Authenticates

(* Reservations are made and given back by three steps only.               *)
LEMMA PendingMoves ==
    ASSUME McpTypeOK, [McpNext]_mcpVars
    PROVE  \/ UNCHANGED pending
           \/ \E h \in Handlers : ReserveSlot(h) \/ CompleteReservation(h) \/ InitializeRaises(h)
<1>1. ASSUME NEW h \in Handlers, Initializing(h), ~ReserveSlot(h), ~CompleteReservation(h)
      PROVE  UNCHANGED pending
  BY <1>1 DEF Initializing, InstallStore, CreateSession, InitializeAnswered, RecheckBearer,
                BearerHolds, BearerGone,
              RecheckTerminates, slotVars
<1>2. ASSUME NEW h \in Handlers, NEW s \in Sessions,
             \/ Post(h, s) \/ Delete(h, s) \/ NotFound(h, s) \/ Deleted(h, s)
             \/ OpenStream(h, s) \/ StreamClosed(h, s) \/ CloseStream(h, s)
      PROVE  UNCHANGED pending
  BY <1>2 DEF Post, Delete, NotFound, Deleted, OpenStream, StreamClosed, CloseStream, slotVars
<1>3. ASSUME NEW h \in Handlers, Authenticates(h)
      PROVE  UNCHANGED pending
  BY <1>3 DEF Authenticates, Authenticate, slotVars
<1>4. ASSUME NEW c \in Clients,
             \/ TerminateClient(c) \/ TerminationRaises(c) \/ TerminationCallback(c)
             \/ \E active \in BOOLEAN : Mutate(c, active)
      PROVE  UNCHANGED pending
  BY <1>4 DEF TerminateClient, TerminationRaises, TerminationCallback, Mutate, slotVars
<1>5. MinutePasses \/ UNCHANGED mcpVars => UNCHANGED pending
  BY DEF MinutePasses, mcpVars
<1> QED BY <1>1, <1>2, <1>3, <1>4, <1>5 DEF McpNext, UsingSession, Authenticates

(* Every step keeps the slots accounted for. *)
LEMMA SlotStep ==
    ASSUME McpTypeOK, Handed, StreamInv, SlotInv, [McpNext]_mcpVars
    PROVE  SlotInv'
<1>a. /\ IsFiniteSet(Reserving) /\ Cardinality(Reserving) \in Nat
      /\ IsFiniteSet(slots) /\ Cardinality(slots) \in Nat /\ MaxActiveSessions \in Nat
  <2>1. Reserving \subseteq Handlers /\ slots \subseteq Sessions
    BY DEF Reserving, McpTypeOK
  <2> QED BY <2>1, FS_Subset, FS_CardinalityType, McpAssumption
<1>b. \A S \in SUBSET slots : Cardinality(S) \in Nat /\ Cardinality(S) <= Cardinality(slots)
  BY <1>a, FS_Subset, FS_CardinalityType
<1>c. \A g \in Handlers : Moves(g)
  BY RequestsMove
<1>1. ASSUME NEW s \in Sessions, Live(s)', sess'[s].told
      PROVE  s \in slots' /\ (s \in old' => streaming'[s] > 0)
  <2>1. CASE Live(s) /\ sess[s].told
    BY <1>1, <2>1, SlotsStay DEF SlotInv
  <2>2. ASSUME NEW h \in Handlers, CreateSession(h)
        PROVE  Live(s) /\ sess[s].told
    <3>1. PICK t \in Sessions :
            /\ sess'[t].told = FALSE
            /\ \A u \in Sessions \ {t} : sess'[u] = sess[u]
      BY <2>2 DEF CreateSession, McpTypeOK
    <3> QED BY <1>1, <3>1 DEF Live
  <2>3. ASSUME NEW h \in Handlers, CompleteReservation(h), ~sess[s].told
        PROVE  s \in slots' /\ s \notin old'
    <3>1. PICK b : /\ b = (sess[s].told \/ (req[h].ok /\ s \in req[h].sess))
                   /\ sess'[s] = [sess[s] EXCEPT !.told = b]
      BY <2>3 DEF CompleteReservation
    <3>2. b
      BY <1>1, <3>1 DEF McpTypeOK, Session
    <3> QED BY <2>3, <3>1, <3>2 DEF CompleteReservation
  <2>4. CASE ~sess[s].told
    <3>1. ~Told
      BY <1>1, <2>4 DEF Told
    <3> QED BY <2>2, <2>3, <2>4, <3>1, SessionsAge
  <2>5. CASE ~Live(s)
    <3>1. ~Ages
      BY <1>1, <2>5 DEF Ages
    <3> QED BY <2>2, <2>5, <3>1, SessionsAge
  <2> QED BY <2>1, <2>4, <2>5
<1>2. ASSUME NEW h \in Handlers, ReserveSlot(h)
      PROVE  pending' = Cardinality(Reserving') /\ Cardinality(slots') + pending' <= MaxActiveSessions
  <2>1. slots' = Unpruned /\ Unpruned \in SUBSET slots /\ req[h].pc = "authenticated"
    BY <1>2 DEF ReserveSlot, Unpruned
  <2>2. CASE Cardinality(Unpruned) + pending >= MaxActiveSessions
    <3>1. Finish(h) /\ UNCHANGED pending
      BY <1>2, <2>2 DEF ReserveSlot
    <3>2. req'[h].pc = "idle" /\ \A g \in Handlers \ {h} : req'[g] = req[g]
      BY <3>1, FinishFacts
    <3>3. Reserving' = Reserving
      BY <2>1, <3>2 DEF Reserving
    <3> QED BY <1>a, <1>b, <2>1, <3>1, <3>3 DEF SlotInv
  <2>3. CASE ~(Cardinality(Unpruned) + pending >= MaxActiveSessions)
    <3>1. Goto(h, "reserved") /\ pending' = pending + 1
      BY <1>2, <2>3 DEF ReserveSlot
    <3>2. req'[h].pc = "reserved" /\ \A g \in Handlers \ {h} : req'[g] = req[g]
      BY <3>1, GotoFacts
    <3>3. Reserving' = Reserving \cup {h} /\ h \notin Reserving
      BY <2>1, <3>2 DEF Reserving
    <3>4. Cardinality(Reserving') = Cardinality(Reserving) + 1
      BY <1>a, <3>3, FS_AddElement
    <3> QED BY <1>a, <1>b, <2>1, <2>3, <3>1, <3>4 DEF SlotInv
  <2> QED BY <2>2, <2>3
<1>3. ASSUME NEW h \in Handlers, CompleteReservation(h) \/ InitializeRaises(h)
      PROVE  pending' = Cardinality(Reserving') /\ Cardinality(slots') + pending' <= MaxActiveSessions
  <2>1. /\ Finish(h) /\ pending' = pending - 1
        /\ req[h].pc \in {"installed", "created", "answered", "popped", "checked"}
    BY <1>3 DEF CompleteReservation, InitializeRaises
  <2>2. req'[h].pc = "idle" /\ \A g \in Handlers \ {h} : req'[g] = req[g]
    BY <2>1, FinishFacts
  <2>3. Reserving' = Reserving \ {h} /\ h \in Reserving
    BY <2>1, <2>2 DEF Reserving
  <2>4. Cardinality(Reserving') = Cardinality(Reserving) - 1
    BY <1>a, <2>3, FS_RemoveElement
  <2>5. Cardinality(slots') \in Nat /\ Cardinality(slots') <= Cardinality(slots) + 1
    <3>1. CASE slots' = slots
      BY <1>a, <3>1
    <3>2. CASE slots' # slots
      <4>1. slots' = slots \cup req[h].sess
        BY <1>3, <3>2 DEF CompleteReservation, InitializeRaises
      <4>2. PICK s : s \in req[h].sess
        BY <3>2, <4>1
      <4>3. slots' = slots \cup {s}
        BY <4>1, <4>2 DEF StreamInv, NamesOne
      <4>4. Cardinality(slots \cup {s}) \in {Cardinality(slots), Cardinality(slots) + 1}
        BY <1>a, FS_AddElement
      <4> QED BY <1>a, <4>3, <4>4
    <3> QED BY <3>1, <3>2
  <2> QED BY <1>a, <2>1, <2>4, <2>5 DEF SlotInv
<1>4. ASSUME \A h \in Handlers : ~ReserveSlot(h) /\ ~CompleteReservation(h) /\ ~InitializeRaises(h)
      PROVE  pending' = Cardinality(Reserving') /\ Cardinality(slots') + pending' <= MaxActiveSessions
  <2>1. \A g \in Handlers : (g \in Reserving') <=> (g \in Reserving)
    BY <1>4, <1>c DEF Moves, Reserving
  <2>2. Reserving' = Reserving
    <3>1. Reserving' \subseteq Handlers /\ Reserving \subseteq Handlers
      BY DEF Reserving
    <3> QED BY <2>1, <3>1
  <2>3. UNCHANGED pending /\ slots' \in SUBSET slots
    BY <1>4, PendingMoves, TablesStep DEF Tables
  <2> QED BY <1>a, <1>b, <2>2, <2>3 DEF SlotInv
<1>5. pending' = Cardinality(Reserving') /\ Cardinality(slots') + pending' <= MaxActiveSessions
  BY <1>2, <1>3, <1>4 DEF SlotInv
<1> QED BY <1>1, <1>5 DEF SlotInv

-----------------------------------------------------------------------------
(* The theorems.                                                           *)

(* The invariant holds before the first request. *)
LEMMA McpStarts ==
    ASSUME McpInit
    PROVE  McpTypeOK /\ McpInv
<1>1. /\ \A s \in Sessions : /\ sess[s].state = "unused" /\ sess[s].owner = NoClient
                             /\ sess[s].timer = "off" /\ sess[s].store = 0 /\ ~sess[s].told
      /\ \A h \in Handlers : req[h].pc = "idle" /\ req[h].sess = {} /\ req[h].victims = {}
      /\ \A c \in Clients : mut[c].pc = "idle" /\ mut[c].victims = {}
      /\ \A s \in Sessions : streaming[s] = 0
  BY DEF McpInit, Idle
<1>2. slots = {} /\ old = {} /\ pending = 0 /\ gets = {} /\ eventStore = 0 /\ stores = 0
  BY DEF McpInit
<1>3. McpTypeOK
  BY DEF McpInit, McpTypeOK, Session, Request, Mutation, Idle
<1>4. Handed
  BY <1>1, <1>2 DEF Handed, NamedAreUsed, PoppedAreDead, UnusedAreUnknown, LiveAreOwned,
                    SlotsAreTold, MakersOwn, Making, Live
<1>5. BearerInv /\ StoreInv /\ StreamInv
  BY <1>1, <1>2 DEF BearerInv, StoreInv, StreamInv, Live, Lending, ReplayStoresAreDistinct, NamesOne
<1>6. SlotInv
  <2>1. Reserving = {}
    BY <1>1 DEF Reserving
  <2> QED BY <1>1, <1>2, <2>1, FS_EmptySet, McpAssumption DEF SlotInv, Live
<1> QED BY <1>3, <1>4, <1>5, <1>6 DEF McpInv

(* The manager's and the middleware's tables, the requests and the         *)
(* credential changes keep their types, and the invariant above holds in   *)
(* every reachable state.                                                  *)
THEOREM McpInvariant == McpSpec => [](McpTypeOK /\ McpInv)
<1>1. McpInit => McpTypeOK /\ McpInv
  BY McpStarts
<1>2. McpTypeOK /\ McpInv /\ [McpNext]_mcpVars => (McpTypeOK /\ McpInv)'
  <2> SUFFICES ASSUME McpTypeOK, McpInv, [McpNext]_mcpVars
               PROVE  McpTypeOK' /\ McpInv'
    OBVIOUS
  <2> QED BY McpTypeStep, HandedStep, BearerStep, StoreStep, StreamStep, SlotStep DEF McpInv
<1> QED BY <1>1, <1>2, PTL DEF McpSpec

(* A session a client knows never outlives its bearer: when a revocation   *)
(* or rotation is answered, whatever initialize requests were in progress, *)
(* no session of the old bearer is alive (terminate_client and the second  *)
(* authentication of initialize).                                          *)
THEOREM SessionsEndWithBearer == McpSpec => []SessionsDieWithBearer
<1>1. McpTypeOK /\ McpInv => SessionsDieWithBearer
  <2> SUFFICES ASSUME McpTypeOK, McpInv, NEW s \in Sessions, Live(s), sess[s].told,
                      ~Current(sess[s].owner, sess[s].gen)
               PROVE  Mutating(sess[s].owner)
    BY DEF SessionsDieWithBearer
  <2>1. mut[sess[s].owner].pc = "committed"
    BY DEF McpInv, BearerInv, Vouched
  <2> QED BY <2>1 DEF Mutating
<1> QED BY <1>1, McpInvariant, PTL

(* No two sessions ever share a replay store, however initialize requests  *)
(* interleave between installing a store and creating the transport.       *)
THEOREM ReplayStoresStayApart == McpSpec => []ReplayStoresAreDistinct
<1>1. McpTypeOK /\ McpInv => ReplayStoresAreDistinct
  BY DEF McpInv, StoreInv
<1> QED BY <1>1, McpInvariant, PTL

(* A live session has at most one stream, its idle timer is off exactly    *)
(* then, and the middleware counts that stream.                            *)
THEOREM StreamsKeepSessions == McpSpec => []StreamsHoldSessions
<1>1. McpTypeOK /\ McpInv => StreamsHoldSessions
  <2> SUFFICES ASSUME McpTypeOK, McpInv, NEW s \in Sessions, Live(s)
               PROVE  /\ Cardinality(Streams(s)) <= 1
                      /\ (Streams(s) # {}) = (sess[s].timer = "off")
                      /\ Streams(s) # {} => streaming[s] > 0
    BY DEF StreamsHoldSessions, Streams
  <2>1. StreamHeld(s)
    BY DEF McpInv, StreamInv
  <2>2. Cardinality(Streams(s)) <= 1
    <3>1. CASE Streams(s) = {}
      BY <3>1, FS_EmptySet
    <3>2. ASSUME NEW h \in Streams(s)
          PROVE  Cardinality(Streams(s)) <= 1
      <4>1. Streams(s) = {h}
        BY <2>1, <3>2 DEF StreamHeld
      <4>2. Cardinality({h}) = 1
        BY FS_Singleton
      <4> QED BY <4>1, <4>2
    <3> QED BY <3>1, <3>2
  <2>3. (Streams(s) # {}) <=> (sess[s].timer = "off")
    BY <2>1 DEF StreamHeld
  <2> QED BY <2>1, <2>2, <2>3, HeldIsCounted
<1> QED BY <1>1, McpInvariant, PTL

(* Every reservation is a request in progress, the session limit is never  *)
(* exceeded, and a live session known to its client keeps its slot, for    *)
(* any limit, any number of requests and sessions.                         *)
THEOREM SlotsStayAccounted == McpSpec => []SlotsAreAccounted
<1>1. McpTypeOK /\ McpInv => SlotsAreAccounted
  BY DEF McpInv, SlotInv, SlotsAreAccounted, Reserving
<1> QED BY <1>1, McpInvariant, PTL

=============================================================================
