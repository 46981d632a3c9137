-------------------------- MODULE HubMessagesProofs --------------------------
(* Proofs about the receive loop and the approvals, for any number of      *)
(* connections, principals, tools and approval ids and every limit.        *)
EXTENDS HubMessages, TLAPS

-----------------------------------------------------------------------------
(* The inductive invariant.                                                *)

(* A handler that is not executing or denying holds no approval. *)
QuietHandlers ==
    \A x \in Conns : ws[x].phase \in {"idle", "replying", "asking"} => ws[x].approval = None

(* What an executing handler has taken: an approval that is signed and     *)
(* consumed, of its tool and its principal, and that it has not used until *)
(* "accepted" was sent.  Only a SAFE tool runs without one.                *)
Covered(x) ==
    LET a == ws[x].approval IN
    /\ a \in signed
    /\ store[a].status = "consumed"
    /\ store[a].tool = ws[x].tool
    /\ store[a].principal = principal[x]
    /\ principal[x] \in Keyed
    /\ ws[x].phase = "accepting" => executed[a] = 0
TakenIsCovered ==
    \A x \in Conns : Executing(x) =>
        /\ ws[x].approval # None => Covered(x)
        /\ ws[x].tool \in ConfirmTools => ws[x].approval # None

(* No two handlers have taken the same approval. *)
TakenOnce ==
    \A x, y \in Conns :
        Executing(x) /\ Executing(y) /\ x # y /\ ws[x].approval # None =>
            ws[x].approval # ws[y].approval

(* A denial takes the record first and the pending entry later. *)
DenialTakesRecord ==
    \A x \in Conns : ws[x].phase = "denying" /\ ws[x].approval \in Approvals =>
        store[ws[x].approval].status \notin {"unused", "stored"}

(* A pending entry belongs to one running connection with a key, and names *)
(* an approval that was issued.                                            *)
PendingIsOwned ==
    \A x \in Conns : \A a \in pending[x] :
        /\ ws[x].phase # "ended" /\ principal[x] \in Keyed
        /\ store[a].status # "unused"
        /\ \A y \in Conns \ {x} : a \notin pending[y]

(* Every stored record is pending somewhere. *)
StoredIsPending == \A a \in Stored : \E x \in Conns : a \in pending[x]

ApprovalInv ==
    /\ QuietHandlers /\ TakenIsCovered /\ TakenOnce /\ ApprovalStartsToolOnce
    /\ DenialTakesRecord /\ PendingIsOwned /\ StoredIsPending

-----------------------------------------------------------------------------
(* Operators of the model.                                                 *)

(* Discarding approvals changes nothing but the status of stored records.  *)
LEMMA DropFacts ==
    ASSUME NEW records \in [Approvals -> Record], NEW ids
    PROVE  /\ Drop(records, ids) \in [Approvals -> Record]
           /\ \A a \in Approvals :
                /\ Drop(records, ids)[a].tool = records[a].tool
                /\ Drop(records, ids)[a].principal = records[a].principal
                /\ records[a].status # "stored" => Drop(records, ids)[a] = records[a]
                /\ records[a].status = "stored" =>
                     Drop(records, ids)[a].status = IF a \in ids THEN "dropped" ELSE "stored"
BY DEF Drop, Record

(* A send leaves the handler either where the code meant it to be, or      *)
(* ended with its approvals discarded.                                     *)
SendOutcome(x, w, mine, records, h) ==
    /\ ws' = [ws EXCEPT ![x] = h]
    /\ h.tool = w.tool /\ h.approval = w.approval
    /\ \/ /\ h.phase = w.phase
          /\ pending' = [pending EXCEPT ![x] = mine]
          /\ store' = records
       \/ /\ h.phase = "ended"
          /\ pending' = [pending EXCEPT ![x] = {}]
          /\ store' = Drop(records, mine)

(* A send ends in the handler's next phase or in its clean-up. *)
LEMMA SendFacts ==
    ASSUME TypeOK, NEW x \in Conns, NEW w \in Handler, NEW mine \in SUBSET Approvals,
           NEW records \in [Approvals -> Record], Send(x, w, mine, records)
    PROVE  \E h \in Handler : SendOutcome(x, w, mine, records, h)
<1>1. CASE ws[x].open
  BY <1>1 DEF Send, SendOutcome
<1>2. CASE ~ws[x].open
  <2> DEFINE h == [w EXCEPT !.phase = "ended"]
  <2>1. h \in Handler /\ h.tool = w.tool /\ h.approval = w.approval /\ h.phase = "ended"
    BY DEF Handler
  <2>2. /\ ws' = [ws EXCEPT ![x] = h]
        /\ pending' = [pending EXCEPT ![x] = {}]
        /\ store' = Drop(records, mine)
    BY <1>2 DEF Send
  <2>3. SendOutcome(x, w, mine, records, h)
    BY <2>1, <2>2 DEF SendOutcome
  <2> HIDE DEF h
  <2> QED BY <2>1, <2>3
<1> QED BY <1>1, <1>2

(* Counting a message keeps what the handler is about. *)
LEMMA HeardFacts ==
    ASSUME TypeOK, NEW x \in Conns, Accepted(x)
    PROVE  Heard(x) \in Handler /\ Heard(x).tool = ws[x].tool
           /\ Heard(x).approval = ws[x].approval
<1>1. ws[x] \in Handler /\ ws[x].seen \in 0 .. MaxMessages /\ ws[x].seen < MaxMessages
  BY DEF TypeOK, Handler, Accepted
<1>2. ws[x].seen + 1 \in 0 .. MaxMessages
  BY <1>1, MessagesAssumption
<1> QED BY <1>1, <1>2 DEF Handler, Heard

(* Pruning expired records touches stored records only. *)
LEMMA PrunedFacts ==
    ASSUME TypeOK
    PROVE  /\ Pruned \in [Approvals -> Record]
           /\ \A a \in Approvals :
                /\ store[a].status # "stored" => Pruned[a] = store[a]
                /\ store[a].status = "stored" => Pruned[a].status \in {"stored", "dropped"}
BY DropFacts DEF TypeOK, Pruned

-----------------------------------------------------------------------------
(* Type correctness.                                                       *)

(* A send keeps the types when what it is given is typed. *)
LEMMA SendTyped ==
    ASSUME TypeOK, NEW x \in Conns, NEW w \in Handler, NEW mine \in SUBSET Approvals,
           NEW records \in [Approvals -> Record], Send(x, w, mine, records),
           UNCHANGED <<principal, healthy, signed, executed, now>>
    PROVE  TypeOK'
<1>0. PICK h \in Handler : SendOutcome(x, w, mine, records, h)
  BY SendFacts
<1>1. /\ ws' = [ws EXCEPT ![x] = h]
      /\ h.tool = w.tool /\ h.approval = w.approval
      /\ \/ /\ h.phase = w.phase
            /\ pending' = [pending EXCEPT ![x] = mine]
            /\ store' = records
         \/ /\ h.phase = "ended"
            /\ pending' = [pending EXCEPT ![x] = {}]
            /\ store' = Drop(records, mine)
  BY <1>0 DEF SendOutcome
<1>2. Drop(records, mine) \in [Approvals -> Record]
  BY DropFacts
<1> QED BY <1>1, <1>2 DEF TypeOK

(* Every step keeps the types. *)
LEMMA TypeStep ==
    ASSUME TypeOK, [Next]_vars
    PROVE  TypeOK'
<1>1. CASE UNCHANGED vars
  BY <1>1 DEF TypeOK, vars
<1>2. ASSUME NEW x \in Conns, ConnectionStep(x), UNCHANGED principal
      PROVE  TypeOK'
  <2>a. /\ ws[x] \in Handler /\ pending[x] \in SUBSET Approvals
        /\ store \in [Approvals -> Record] /\ principal[x] \in Principals
    BY MessagesAssumption DEF TypeOK
  <2>1. CASE RefuseUnheard(x)
    <3>1. [ws[x] EXCEPT !.phase = "replying", !.discovered = {}] \in Handler
      BY <2>a DEF Handler
    <3> QED BY <1>2, <2>a, <2>1, <3>1, SendTyped DEF RefuseUnheard
  <2>2. CASE Refuse(x)
    <3>1. [Heard(x) EXCEPT !.phase = "replying"] \in Handler
      BY <2>2, HeardFacts DEF Refuse, Handler
    <3> QED BY <1>2, <2>a, <2>2, <3>1, SendTyped DEF Refuse
  <2>3. ASSUME NEW t \in Tools, Discover(x, t)
        PROVE  TypeOK'
    <3> DEFINE found == IF t \in healthy /\ t \in Permitted(x) THEN {t} ELSE {}
    <3>1. [Heard(x) EXCEPT !.phase = "replying", !.discovered = found] \in Handler
      BY <2>3, HeardFacts DEF Discover, Handler
    <3> QED BY <1>2, <2>a, <2>3, <3>1, SendTyped DEF Discover
  <2>4. ASSUME NEW t \in Tools, InvokeSafe(x, t)
        PROVE  TypeOK'
    <3>1. [Heard(x) EXCEPT !.phase = "accepting", !.tool = t] \in Handler
      BY <2>4, HeardFacts DEF InvokeSafe, Admits, Handler
    <3> QED BY <1>2, <2>a, <2>4, <3>1, SendTyped DEF InvokeSafe
  <2>5. ASSUME NEW t \in Tools, InvokeConfirmFull(x, t)
        PROVE  TypeOK'
    <3>1. [Heard(x) EXCEPT !.phase = "replying"] \in Handler
      BY <2>5, HeardFacts DEF InvokeConfirmFull, Admits, Handler
    <3> QED BY <1>2, <2>a, <2>5, <3>1, SendTyped, PrunedFacts DEF InvokeConfirmFull
  <2>6. ASSUME NEW t \in Tools, NEW a \in Approvals, InvokeConfirm(x, t, a)
        PROVE  TypeOK'
    <3> DEFINE record == [status |-> "stored", principal |-> principal[x], tool |-> t,
                          expires |-> now + Ttl]
    <3>1. [Heard(x) EXCEPT !.phase = "asking"] \in Handler
      BY <2>6, HeardFacts DEF InvokeConfirm, Admits, Handler
    <3>2. record \in Record
      BY <2>a, MessagesAssumption DEF Record, TypeOK
    <3>3. [Pruned EXCEPT ![a] = record] \in [Approvals -> Record]
      BY <3>2, PrunedFacts
    <3> QED BY <1>2, <2>a, <2>6, <3>1, <3>3, SendTyped DEF InvokeConfirm
  <2>7. ASSUME NEW a \in Approvals, Deny(x, a)
        PROVE  TypeOK'
    <3>1. [Heard(x) EXCEPT !.phase = "denying", !.approval = a] \in Handler
      BY <2>7, HeardFacts DEF Deny, Handler
    <3>2. [store EXCEPT ![a].status = "denied"] \in [Approvals -> Record]
      BY <2>a DEF Record
    <3> QED BY <1>2, <2>a, <2>7, <3>1, <3>2, SendTyped DEF Deny
  <2>8. ASSUME NEW a \in Approvals, Approve(x, a)
        PROVE  TypeOK'
    <3>1. [Heard(x) EXCEPT !.phase = "accepting", !.tool = store[a].tool, !.approval = a]
            \in Handler
      BY <2>8, <2>a, HeardFacts DEF Approve, Handler, Record
    <3>2. [store EXCEPT ![a].status = "consumed"] \in [Approvals -> Record]
      BY <2>a DEF Record
    <3> QED BY <1>2, <2>a, <2>8, <3>1, <3>2, SendTyped DEF Approve
  <2>9. CASE SendDone(x)
    <3>1. [ws[x] EXCEPT !.phase = "idle", !.tool = None, !.approval = None] \in Handler
      BY <2>a DEF Handler
    <3>2. ws' = [ws EXCEPT ![x] = [ws[x] EXCEPT !.phase = "idle", !.tool = None,
                                                !.approval = None]]
      BY <2>a, <2>9 DEF SendDone, TypeOK, Handler
    <3> QED BY <1>2, <2>9, <3>1, <3>2 DEF SendDone, TypeOK
  <2>10. CASE StartTool(x)
    <3>1. ws' \in [Conns -> Handler]
      BY <2>10 DEF StartTool, TypeOK, Handler
    <3> QED BY <1>2, <2>10, <3>1 DEF StartTool, TypeOK
  <2>11. CASE ToolReturns(x)
    <3>1. [ws[x] EXCEPT !.phase = "reporting"] \in Handler
      BY <2>a DEF Handler
    <3> QED BY <1>2, <2>a, <2>11, <3>1, SendTyped DEF ToolReturns
  <2>12. CASE EndConnection(x)
    <3>1. ws' \in [Conns -> Handler]
      BY <2>12 DEF EndConnection, TypeOK, Handler
    <3>2. store' \in [Approvals -> Record]
      BY <2>a, <2>12, DropFacts DEF EndConnection
    <3> QED BY <1>2, <2>12, <3>1, <3>2 DEF EndConnection, TypeOK
  <2>13. CASE RevokeCloses(x)
    <3>1. ws' \in [Conns -> Handler]
      BY <2>13 DEF RevokeCloses, TypeOK, Handler
    <3> QED BY <1>2, <2>13, <3>1 DEF RevokeCloses, TypeOK
  <2> QED
    BY <1>2, <2>1, <2>2, <2>3, <2>4, <2>5, <2>6, <2>7, <2>8, <2>9, <2>10, <2>11, <2>12, <2>13
    DEF ConnectionStep
<1>3. ASSUME NEW H \in SUBSET Tools, HealthPass(H), UNCHANGED principal
      PROVE  TypeOK'
  BY <1>3 DEF HealthPass, TypeOK
<1>4. ASSUME NEW a \in Approvals, UserSigns(a), UNCHANGED principal
      PROVE  TypeOK'
  BY <1>4 DEF UserSigns, TypeOK
<1>5. CASE Tick /\ UNCHANGED principal
  <2>1. now' \in 0 .. MaxTime
    BY <1>5, MessagesAssumption DEF Tick, TypeOK
  <2> QED BY <1>5, <2>1 DEF Tick, TypeOK
<1>6. CASE HubRestart /\ UNCHANGED principal
  <2>1. ws' \in [Conns -> Handler]
    <3>1. \A x \in Conns : [ws[x] EXCEPT !.phase = "ended"] \in Handler
      BY DEF TypeOK, Handler
    <3> QED BY <1>6, <3>1 DEF HubRestart
  <2>2. store' \in [Approvals -> Record]
    BY <1>6, DropFacts DEF HubRestart, TypeOK
  <2> QED BY <1>6, <2>1, <2>2 DEF HubRestart, TypeOK
<1> QED BY <1>1, <1>2, <1>3, <1>4, <1>5, <1>6 DEF Next

(* The receive loop keeps its types: handlers, pending sets and records    *)
(* stay in the shapes app.py and approval.py give them.                    *)
THEOREM MessagesTypeCorrect == Spec => []TypeOK
<1>1. Init => TypeOK
  BY MessagesAssumption DEF Init, TypeOK, Handler, Record
<1> QED BY <1>1, TypeStep, PTL DEF Spec

-----------------------------------------------------------------------------
(* The approvals.                                                          *)

(* What the code must see to before it sends: the new state of the handler *)
(* holds no approval it has not taken, taken and discarded records stay    *)
(* so, and the connection's pending set covers its stored records.         *)
HandlerReady(x, w, records) ==
    /\ w.phase # "ended"
    /\ w.phase \in {"replying", "asking"} => w.approval = None
    /\ w.phase = "denying" /\ w.approval \in Approvals =>
         records[w.approval].status \notin {"unused", "stored"}
    /\ w.phase \in {"accepting", "running"} =>
         /\ w.tool \in ConfirmTools => w.approval # None
         /\ w.approval # None =>
              LET a == w.approval IN
              /\ a \in signed
              /\ records[a].status = "consumed"
              /\ records[a].tool = w.tool
              /\ records[a].principal = principal[x]
              /\ principal[x] \in Keyed
              /\ executed[a] = 0
              /\ \A y \in Conns \ {x} : Executing(y) => ws[y].approval # a
RecordsReady(x, mine, records) ==
    \A a \in Approvals :
        /\ store[a].status \notin {"unused", "stored"} => records[a] = store[a]
        /\ records[a].status = "unused" => store[a].status = "unused"
        /\ records[a].status = "stored" => a \in mine \/ (a \in Stored /\ a \notin pending[x])
PendingReady(x, mine, records) ==
    \A a \in mine :
        /\ principal[x] \in Keyed
        /\ records[a].status # "unused"
        /\ \A y \in Conns \ {x} : a \notin pending[y]

(* A send that was prepared like this keeps the invariant, whether it      *)
(* begins or finds the socket closed.                                      *)
LEMMA SendKeepsInv ==
    ASSUME TypeOK, ApprovalInv, NEW x \in Conns, NEW w \in Handler,
           NEW mine \in SUBSET Approvals, NEW records \in [Approvals -> Record],
           Send(x, w, mine, records), UNCHANGED <<principal, signed, executed>>,
           w.phase # "idle",
           HandlerReady(x, w, records), RecordsReady(x, mine, records),
           PendingReady(x, mine, records)
    PROVE  ApprovalInv'
<1>0. PICK h \in Handler : SendOutcome(x, w, mine, records, h)
  BY SendFacts
<1>1. /\ ws' = [ws EXCEPT ![x] = h]
      /\ h.tool = w.tool /\ h.approval = w.approval
      /\ \/ /\ h.phase = w.phase
            /\ pending' = [pending EXCEPT ![x] = mine]
            /\ store' = records
         \/ /\ h.phase = "ended"
            /\ pending' = [pending EXCEPT ![x] = {}]
            /\ store' = Drop(records, mine)
  BY <1>0 DEF SendOutcome
<1>2. /\ ws'[x] = h
      /\ \A y \in Conns \ {x} : ws'[y] = ws[y] /\ pending'[y] = pending[y]
      /\ \A y \in Conns : ws[y] \in Handler /\ ws'[y] \in Handler
  BY <1>1 DEF TypeOK
<1>3. /\ pending'[x] \subseteq mine
      /\ h.phase # "ended" => h.phase = w.phase /\ store' = records /\ pending'[x] = mine
      /\ h.phase = "ended" => pending'[x] = {}
  <2>1. w.phase # "ended"
    BY DEF HandlerReady
  <2> QED BY <1>1, <2>1 DEF TypeOK
<1>4. /\ store' \in [Approvals -> Record]
      /\ \A a \in Approvals :
           /\ records[a].status # "stored" => store'[a] = records[a]
           /\ store'[a].status = "stored" => records[a].status = "stored"
           /\ store'[a].status = "stored" /\ a \in mine => h.phase # "ended"
           /\ store'[a].status = "unused" => records[a].status = "unused"
  <2>1. CASE store' = records /\ h.phase = w.phase
    BY <2>1 DEF HandlerReady
  <2>2. CASE store' = Drop(records, mine)
    <3>1. /\ Drop(records, mine) \in [Approvals -> Record]
          /\ \A a \in Approvals :
               /\ records[a].status # "stored" => Drop(records, mine)[a] = records[a]
               /\ records[a].status = "stored" =>
                    Drop(records, mine)[a].status = IF a \in mine THEN "dropped" ELSE "stored"
      BY DropFacts
    <3> QED BY <2>2, <3>1
  <2> QED BY <1>1, <2>1, <2>2
<1>5. QuietHandlers'
  BY <1>1, <1>2, <1>3 DEF ApprovalInv, QuietHandlers, HandlerReady
<1>6. \A a \in Approvals : store[a].status = "consumed" => store'[a] = store[a]
  BY <1>4 DEF RecordsReady
<1>7. TakenIsCovered'
  <2> SUFFICES ASSUME NEW y \in Conns, Executing(y)'
               PROVE  /\ ws'[y].approval # None => Covered(y)'
                      /\ ws'[y].tool \in ConfirmTools => ws'[y].approval # None
    BY DEF TakenIsCovered
  <2>1. CASE y = x
    BY <1>1, <1>2, <1>3, <2>1 DEF HandlerReady, Executing, Covered
  <2>2. CASE y # x
    <3>1. /\ Executing(y) /\ ws'[y] = ws[y]
          /\ ws[y].approval # None => ws[y].approval \in Approvals
      BY <1>2, <2>2 DEF Executing, Handler
    <3>2. /\ ws[y].approval # None => Covered(y)
          /\ ws[y].tool \in ConfirmTools => ws[y].approval # None
      BY <3>1 DEF ApprovalInv, TakenIsCovered
    <3> QED BY <1>6, <3>1, <3>2 DEF Covered
  <2> QED BY <2>1, <2>2
<1>8. TakenOnce'
  BY <1>1, <1>2, <1>3 DEF ApprovalInv, TakenOnce, HandlerReady, Executing
<1>9. ApprovalStartsToolOnce'
  BY <1>6 DEF ApprovalInv, ApprovalStartsToolOnce
<1>10. DenialTakesRecord'
  BY <1>1, <1>2, <1>3, <1>4 DEF ApprovalInv, DenialTakesRecord, HandlerReady, RecordsReady
<1>11. PendingIsOwned'
  BY <1>1, <1>2, <1>3, <1>4
  DEF ApprovalInv, PendingIsOwned, HandlerReady, RecordsReady, PendingReady, TypeOK
<1>12. StoredIsPending'
  <2> SUFFICES ASSUME NEW a \in Approvals, store'[a].status = "stored"
               PROVE  \E y \in Conns : a \in pending'[y]
    BY DEF StoredIsPending, Stored
  <2>1. CASE a \in mine
    BY <1>3, <1>4, <2>1
  <2>2. CASE a \in Stored /\ a \notin pending[x]
    BY <1>2, <2>2 DEF ApprovalInv, StoredIsPending
  <2> QED BY <1>4, <2>1, <2>2 DEF RecordsReady
<1> QED BY <1>5, <1>7, <1>8, <1>9, <1>10, <1>11, <1>12 DEF ApprovalInv

(* A reply that leaves the approvals alone, or only prunes expired ones.   *)
LEMMA RepliesAreReady ==
    ASSUME TypeOK, ApprovalInv, NEW x \in Conns
    PROVE  /\ RecordsReady(x, pending[x], store) /\ PendingReady(x, pending[x], store)
           /\ RecordsReady(x, pending[x], Pruned) /\ PendingReady(x, pending[x], Pruned)
<1>1. pending[x] \in SUBSET Approvals /\ store \in [Approvals -> Record]
  BY DEF TypeOK
<1>2. RecordsReady(x, pending[x], store) /\ PendingReady(x, pending[x], store)
  BY <1>1 DEF ApprovalInv, RecordsReady, PendingReady, PendingIsOwned, Stored
<1>3. /\ Pruned \in [Approvals -> Record]
      /\ \A a \in Approvals :
           /\ store[a].status # "stored" => Pruned[a] = store[a]
           /\ store[a].status = "stored" => Pruned[a].status \in {"stored", "dropped"}
  BY PrunedFacts
<1>4. RecordsReady(x, pending[x], Pruned) /\ PendingReady(x, pending[x], Pruned)
  BY <1>1, <1>2, <1>3 DEF RecordsReady, PendingReady, Stored
<1> QED BY <1>2, <1>4

(* A step of one connection keeps the invariant, action by action. *)
LEMMA ConnectionKeepsInv ==
    ASSUME TypeOK, ApprovalInv, NEW x \in Conns, ConnectionStep(x), UNCHANGED principal
    PROVE  ApprovalInv'
<1>a. /\ ws[x] \in Handler /\ pending[x] \in SUBSET Approvals
      /\ store \in [Approvals -> Record] /\ principal[x] \in Principals
  BY MessagesAssumption DEF TypeOK
<1>b. Receiving(x) => ws[x].approval = None
  BY DEF Receiving, ApprovalInv, QuietHandlers
<1>c. Accepted(x) => /\ Heard(x) \in Handler /\ Heard(x).tool = ws[x].tool
                     /\ Heard(x).approval = None
  BY <1>b, HeardFacts DEF Accepted
<1>1. CASE RefuseUnheard(x)
  <2> DEFINE w == [ws[x] EXCEPT !.phase = "replying", !.discovered = {}]
  <2>1. w \in Handler /\ w.phase = "replying" /\ w.approval = None
    BY <1>a, <1>b, <1>1 DEF Handler, RefuseUnheard
  <2>2. Send(x, w, pending[x], store) /\ UNCHANGED <<signed, executed>>
    BY <1>1 DEF RefuseUnheard
  <2> HIDE DEF w
  <2>3. HandlerReady(x, w, store)
    BY <2>1 DEF HandlerReady
  <2> QED BY <1>a, <2>1, <2>2, <2>3, RepliesAreReady, SendKeepsInv
<1>2. CASE Refuse(x)
  <2> DEFINE w == [Heard(x) EXCEPT !.phase = "replying"]
  <2>1. w \in Handler /\ w.phase = "replying" /\ w.approval = None
    BY <1>c, <1>2 DEF Handler, Refuse
  <2>2. Send(x, w, pending[x], store) /\ UNCHANGED <<signed, executed>>
    BY <1>2 DEF Refuse
  <2> HIDE DEF w
  <2>3. HandlerReady(x, w, store)
    BY <2>1 DEF HandlerReady
  <2> QED BY <1>a, <2>1, <2>2, <2>3, RepliesAreReady, SendKeepsInv
<1>3. ASSUME NEW t \in Tools, Discover(x, t)
      PROVE  ApprovalInv'
  <2> DEFINE found == IF t \in healthy /\ t \in Permitted(x) THEN {t} ELSE {}
             w == [Heard(x) EXCEPT !.phase = "replying", !.discovered = found]
  <2>1. w \in Handler /\ w.phase = "replying" /\ w.approval = None
    BY <1>c, <1>3 DEF Handler, Discover
  <2>2. Send(x, w, pending[x], store) /\ UNCHANGED <<signed, executed>>
    BY <1>3 DEF Discover
  <2> HIDE DEF w
  <2>3. HandlerReady(x, w, store)
    BY <2>1 DEF HandlerReady
  <2> QED BY <1>a, <2>1, <2>2, <2>3, RepliesAreReady, SendKeepsInv
<1>4. ASSUME NEW t \in Tools, InvokeSafe(x, t)
      PROVE  ApprovalInv'
  <2> DEFINE w == [Heard(x) EXCEPT !.phase = "accepting", !.tool = t]
  <2>1. w \in Handler /\ w.phase = "accepting" /\ w.approval = None /\ w.tool = t
    BY <1>c, <1>4 DEF Handler, InvokeSafe, Admits
  <2>2. Send(x, w, pending[x], store) /\ UNCHANGED <<signed, executed>>
    BY <1>4 DEF InvokeSafe
  <2>3. t \notin ConfirmTools
    BY <1>4, MessagesAssumption DEF InvokeSafe
  <2> HIDE DEF w
  <2>4. HandlerReady(x, w, store)
    BY <2>1, <2>3 DEF HandlerReady
  <2> QED BY <1>a, <2>1, <2>2, <2>4, RepliesAreReady, SendKeepsInv
<1>5. ASSUME NEW t \in Tools, InvokeConfirmFull(x, t)
      PROVE  ApprovalInv'
  <2> DEFINE w == [Heard(x) EXCEPT !.phase = "replying"]
  <2>1. w \in Handler /\ w.phase = "replying" /\ w.approval = None
    BY <1>c, <1>5 DEF Handler, InvokeConfirmFull, Admits
  <2>2. Send(x, w, pending[x], Pruned) /\ UNCHANGED <<signed, executed>>
    BY <1>5 DEF InvokeConfirmFull
  <2> HIDE DEF w
  <2>3. HandlerReady(x, w, Pruned)
    BY <2>1 DEF HandlerReady
  <2> QED BY <1>a, <2>1, <2>2, <2>3, RepliesAreReady, PrunedFacts, SendKeepsInv
<1>6. ASSUME NEW t \in Tools, NEW a \in Approvals, InvokeConfirm(x, t, a)
      PROVE  ApprovalInv'
  <2> DEFINE w == [Heard(x) EXCEPT !.phase = "asking"]
             record == [status |-> "stored", principal |-> principal[x], tool |-> t,
                        expires |-> now + Ttl]
             records == [Pruned EXCEPT ![a] = record]
             mine == pending[x] \cup {a}
  <2>1. w \in Handler /\ w.phase = "asking" /\ w.approval = None
    BY <1>c, <1>6 DEF Handler, InvokeConfirm, Admits
  <2>2. /\ Send(x, w, mine, records) /\ UNCHANGED <<signed, executed>>
        /\ principal[x] \in Keyed /\ store[a].status = "unused"
    BY <1>6 DEF InvokeConfirm
  <2>3. record \in Record /\ record.status = "stored"
    BY <1>a, MessagesAssumption DEF Record, TypeOK
  <2>4. /\ records \in [Approvals -> Record] /\ records[a].status = "stored"
        /\ \A b \in Approvals \ {a} : records[b] = Pruned[b]
    BY <2>3, PrunedFacts
  <2>5. \A y \in Conns : a \notin pending[y]
    BY <2>2 DEF ApprovalInv, PendingIsOwned
  <2>6. mine \in SUBSET Approvals /\ pending[x] \subseteq mine /\ a \in mine
    BY <1>a
  <2>7. \A b \in mine : b = a \/ b \in pending[x]
    OBVIOUS
  <2> HIDE DEF w, records, mine
  <2>8. HandlerReady(x, w, records)
    BY <2>1 DEF HandlerReady
  <2>9. RecordsReady(x, mine, records)
    BY <2>2, <2>4, <2>6, RepliesAreReady DEF RecordsReady
  <2>10. PendingReady(x, mine, records)
    BY <1>a, <2>2, <2>4, <2>5, <2>7, RepliesAreReady DEF PendingReady
  <2> QED BY <2>1, <2>2, <2>4, <2>6, <2>8, <2>9, <2>10, SendKeepsInv
<1>7. ASSUME NEW a \in Approvals, Deny(x, a)
      PROVE  ApprovalInv'
  <2> DEFINE w == [Heard(x) EXCEPT !.phase = "denying", !.approval = a]
             records == [store EXCEPT ![a].status = "denied"]
  <2>1. w \in Handler /\ w.phase = "denying" /\ w.approval = a
    BY <1>c, <1>7 DEF Handler, Deny
  <2>2. /\ Send(x, w, pending[x], records) /\ UNCHANGED <<signed, executed>>
        /\ a \in pending[x] /\ store[a].status = "stored"
    BY <1>7 DEF Deny, Stored
  <2>3. /\ records \in [Approvals -> Record] /\ records[a].status = "denied"
        /\ \A b \in Approvals \ {a} : records[b] = store[b]
    BY <1>a DEF Record
  <2> HIDE DEF w, records
  <2>4. HandlerReady(x, w, records)
    BY <2>1, <2>3 DEF HandlerReady
  <2>5. RecordsReady(x, pending[x], records)
    BY <2>2, <2>3, RepliesAreReady DEF RecordsReady
  <2>6. PendingReady(x, pending[x], records)
    BY <1>a, <2>3, RepliesAreReady DEF PendingReady
  <2> QED BY <1>a, <2>1, <2>2, <2>3, <2>4, <2>5, <2>6, SendKeepsInv
<1>8. ASSUME NEW a \in Approvals, Approve(x, a)
      PROVE  ApprovalInv'
  <2> DEFINE w == [Heard(x) EXCEPT !.phase = "accepting", !.tool = store[a].tool,
                                   !.approval = a]
             records == [store EXCEPT ![a].status = "consumed"]
             mine == pending[x] \ {a}
  <2>1. w \in Handler /\ w.phase = "accepting" /\ w.approval = a /\ w.tool = store[a].tool
    BY <1>a, <1>c, <1>8 DEF Handler, Record, Approve
  <2>2. /\ Send(x, w, mine, records) /\ UNCHANGED <<signed, executed>>
        /\ a \in pending[x] /\ store[a].status = "stored" /\ a \in signed
        /\ store[a].principal = principal[x] /\ principal[x] \in Keyed
    BY <1>8 DEF Approve, Stored
  <2>3. /\ records \in [Approvals -> Record] /\ records[a].status = "consumed"
        /\ records[a].tool = store[a].tool /\ records[a].principal = store[a].principal
        /\ \A b \in Approvals \ {a} : records[b] = store[b]
    BY <1>a DEF Record
  <2>4. mine \in SUBSET Approvals /\ mine \subseteq pending[x] /\ a \notin mine
        /\ \A b \in pending[x] : b = a \/ b \in mine
    BY <1>a
  <2>5. executed[a] = 0
    BY <2>2 DEF ApprovalInv, ApprovalStartsToolOnce, TypeOK
  <2>6. \A y \in Conns \ {x} : Executing(y) => ws[y].approval # a
    BY <2>2, MessagesAssumption DEF ApprovalInv, TakenIsCovered, Covered
  <2> HIDE DEF w, records, mine
  <2>7. HandlerReady(x, w, records)
    BY <2>1, <2>2, <2>3, <2>5, <2>6, MessagesAssumption DEF HandlerReady
  <2>8. RecordsReady(x, mine, records)
    BY <2>2, <2>3, <2>4, RepliesAreReady DEF RecordsReady
  <2>9. PendingReady(x, mine, records)
    BY <1>a, <2>3, <2>4, RepliesAreReady DEF PendingReady
  <2> QED BY <2>1, <2>2, <2>3, <2>4, <2>7, <2>8, <2>9, SendKeepsInv
<1>9. CASE ToolReturns(x)
  <2> DEFINE w == [ws[x] EXCEPT !.phase = "reporting"]
  <2>1. w \in Handler /\ w.phase = "reporting"
    BY <1>a DEF Handler
  <2>2. Send(x, w, pending[x], store) /\ UNCHANGED <<signed, executed>>
    BY <1>9 DEF ToolReturns
  <2> HIDE DEF w
  <2>3. HandlerReady(x, w, store)
    BY <2>1 DEF HandlerReady
  <2> QED BY <1>a, <2>1, <2>2, <2>3, RepliesAreReady, SendKeepsInv
<1>10. CASE SendDone(x)
  <2>1. /\ ws' = [ws EXCEPT ![x] = [ws[x] EXCEPT !.phase = "idle", !.tool = None,
                                                !.approval = None]]
        /\ ws[x].phase \notin {"ended", "accepting", "running"}
    BY <1>a, <1>10 DEF SendDone, TypeOK, Handler
  <2>2. /\ ws'[x].phase = "idle" /\ ws'[x].approval = None
        /\ \A y \in Conns \ {x} : ws'[y] = ws[y] /\ pending'[y] = pending[y]
        /\ pending'[x] \subseteq pending[x]
        /\ \A a \in pending[x] \ pending'[x] :
             ws[x].phase = "denying" /\ ws[x].approval = a
        /\ UNCHANGED <<store, signed, executed>>
    <3>1. ws'[x].phase = "idle" /\ ws'[x].approval = None
      BY <1>a, <2>1 DEF TypeOK, Handler
    <3>2. \A y \in Conns \ {x} : ws'[y] = ws[y]
      BY <2>1 DEF TypeOK
    <3>3. pending' = [pending EXCEPT ![x] =
                        IF ws[x].phase = "denying" THEN pending[x] \ {ws[x].approval}
                        ELSE pending[x]]
      BY <1>10 DEF SendDone
    <3>4. UNCHANGED <<store, signed, executed>>
      BY <1>10 DEF SendDone
    <3> QED BY <3>1, <3>2, <3>3, <3>4 DEF TypeOK
  <2>3. QuietHandlers' /\ TakenOnce' /\ DenialTakesRecord' /\ ApprovalStartsToolOnce'
    BY <2>2 DEF ApprovalInv, QuietHandlers, TakenOnce, DenialTakesRecord, Executing,
                ApprovalStartsToolOnce
  <2>4. TakenIsCovered'
    BY <2>2 DEF ApprovalInv, TakenIsCovered, Covered, Executing
  <2>5. PendingIsOwned'
    BY <2>1, <2>2 DEF ApprovalInv, PendingIsOwned
  <2>6. StoredIsPending'
    <3>1. ws[x].phase = "denying" /\ ws[x].approval \in Approvals =>
            ws[x].approval \notin Stored
      BY DEF ApprovalInv, DenialTakesRecord, Stored
    <3>2. Stored' = Stored /\ Stored \subseteq Approvals
      BY <2>2 DEF Stored
    <3> QED BY <2>2, <3>1, <3>2 DEF ApprovalInv, StoredIsPending
  <2> QED BY <2>3, <2>4, <2>5, <2>6 DEF ApprovalInv
<1>11. CASE StartTool(x)
  <2> DEFINE b == ws[x].approval
  <2>1. /\ ws[x].phase = "accepting" /\ ws'[x].phase = "running"
        /\ ws'[x].approval = b /\ ws'[x].tool = ws[x].tool
        /\ \A y \in Conns \ {x} : ws'[y] = ws[y]
        /\ UNCHANGED <<pending, store, signed>>
    BY <1>a, <1>11 DEF StartTool, TypeOK, Handler
  <2>2. /\ \A a \in Approvals \ {b} : executed'[a] = executed[a]
        /\ b \in Approvals => executed'[b] = executed[b] + 1
    BY <1>11 DEF StartTool
  <2>3. b \in Approvals => /\ b # None /\ b \in signed
                           /\ store[b].status = "consumed" /\ executed[b] = 0
    BY <2>1, MessagesAssumption DEF ApprovalInv, TakenIsCovered, Covered, Executing
  <2>4. \A y \in Conns : ws[y].approval \in Approvals \cup {None}
    BY DEF TypeOK, Handler
  <2>5. QuietHandlers' /\ TakenOnce' /\ DenialTakesRecord' /\ PendingIsOwned'
    BY <2>1 DEF ApprovalInv, QuietHandlers, TakenOnce, DenialTakesRecord, PendingIsOwned,
                Executing
  <2>6. StoredIsPending'
    BY <2>1 DEF ApprovalInv, StoredIsPending, Stored
  <2>7. ApprovalStartsToolOnce'
    BY <2>1, <2>2, <2>3 DEF ApprovalInv, ApprovalStartsToolOnce
  <2>8. TakenIsCovered'
    <3> SUFFICES ASSUME NEW y \in Conns, Executing(y)'
                 PROVE  /\ ws'[y].approval # None => Covered(y)'
                        /\ ws'[y].tool \in ConfirmTools => ws'[y].approval # None
      BY DEF TakenIsCovered
    <3>1. /\ ws[y].approval # None => Covered(y)
          /\ ws[y].tool \in ConfirmTools => ws[y].approval # None
      BY <2>1 DEF ApprovalInv, TakenIsCovered, Executing
    <3>2. CASE y = x
      BY <2>1, <3>1, <3>2 DEF Covered
    <3>3. CASE y # x
      <4>1. Executing(x) /\ Executing(y) /\ ws'[y] = ws[y]
        BY <2>1, <3>3 DEF Executing
      <4>2. ws[y].approval # None => ws[y].approval \in Approvals \ {b}
        BY <2>4, <3>3, <4>1 DEF ApprovalInv, TakenOnce
      <4> QED BY <2>1, <2>2, <3>1, <4>1, <4>2 DEF Covered
    <3> QED BY <3>2, <3>3
  <2> QED BY <2>5, <2>6, <2>7, <2>8 DEF ApprovalInv
<1>12. CASE EndConnection(x)
  <2>1. /\ ws'[x].phase = "ended"
        /\ \A y \in Conns \ {x} : ws'[y] = ws[y] /\ pending'[y] = pending[y]
        /\ pending'[x] = {}
        /\ store' = Drop(store, pending[x])
        /\ UNCHANGED <<signed, executed>>
    BY <1>a, <1>12 DEF EndConnection, TypeOK, Handler
  <2>2. \A a \in Approvals :
          /\ store[a].status # "stored" => store'[a] = store[a]
          /\ store[a].status = "stored" =>
               store'[a].status = IF a \in pending[x] THEN "dropped" ELSE "stored"
    BY <1>a, <2>1, DropFacts
  <2> HIDE DEF Drop
  <2>3. \A y \in Conns : ws[y].approval \in Approvals \cup {None}
    BY DEF TypeOK, Handler
  <2>4. QuietHandlers' /\ TakenOnce'
    BY <2>1 DEF ApprovalInv, QuietHandlers, TakenOnce, Executing
  <2>5. DenialTakesRecord' /\ ApprovalStartsToolOnce'
    BY <2>1, <2>2 DEF ApprovalInv, DenialTakesRecord, ApprovalStartsToolOnce
  <2>6. TakenIsCovered'
    BY <2>1, <2>2, <2>3 DEF ApprovalInv, TakenIsCovered, Covered, Executing
  <2>7. PendingIsOwned'
    BY <2>1, <2>2 DEF ApprovalInv, PendingIsOwned, TypeOK
  <2>8. StoredIsPending'
    BY <2>1, <2>2 DEF ApprovalInv, StoredIsPending, Stored
  <2> QED BY <2>4, <2>5, <2>6, <2>7, <2>8 DEF ApprovalInv
<1>13. CASE RevokeCloses(x)
  <2>1. /\ \A y \in Conns : /\ ws'[y].phase = ws[y].phase /\ ws'[y].tool = ws[y].tool
                            /\ ws'[y].approval = ws[y].approval
        /\ UNCHANGED <<pending, store, signed, executed>>
    BY <1>13 DEF RevokeCloses, TypeOK, Handler
  <2>2. /\ QuietHandlers' /\ TakenOnce' /\ DenialTakesRecord' /\ ApprovalStartsToolOnce'
        /\ PendingIsOwned'
    BY <2>1 DEF ApprovalInv, QuietHandlers, TakenOnce, DenialTakesRecord, PendingIsOwned,
                ApprovalStartsToolOnce, Executing
  <2>3. StoredIsPending'
    BY <2>1 DEF ApprovalInv, StoredIsPending, Stored
  <2>4. TakenIsCovered'
    BY <2>1 DEF ApprovalInv, TakenIsCovered, Covered, Executing
  <2> QED BY <2>2, <2>3, <2>4 DEF ApprovalInv
<1> QED
  BY <1>1, <1>2, <1>3, <1>4, <1>5, <1>6, <1>7, <1>8, <1>9, <1>10, <1>11, <1>12, <1>13
  DEF ConnectionStep

(* Every step keeps the invariant; a restart ends all handlers. *)
LEMMA ApprovalStep ==
    ASSUME TypeOK, ApprovalInv, [Next]_vars
    PROVE  ApprovalInv'
<1>1. CASE UNCHANGED vars
  BY <1>1 DEF vars, ApprovalInv, QuietHandlers, TakenIsCovered, Covered, TakenOnce, Executing,
              ApprovalStartsToolOnce, DenialTakesRecord, PendingIsOwned, StoredIsPending, Stored
<1>2. ASSUME NEW x \in Conns, ConnectionStep(x), UNCHANGED principal
      PROVE  ApprovalInv'
  BY <1>2, ConnectionKeepsInv
<1>3. CASE /\ \/ \E H \in SUBSET Tools : HealthPass(H)
              \/ \E a \in Approvals : UserSigns(a)
              \/ Tick
           /\ UNCHANGED principal
  <2>1. UNCHANGED <<principal, ws, pending, store, executed>> /\ signed \subseteq signed'
    BY <1>3 DEF HealthPass, UserSigns, Tick
  <2> QED BY <2>1 DEF ApprovalInv, QuietHandlers, TakenIsCovered, Covered, TakenOnce,
                      Executing, ApprovalStartsToolOnce, DenialTakesRecord, PendingIsOwned,
                      StoredIsPending, Stored
<1>4. CASE HubRestart /\ UNCHANGED principal
  <2>1. /\ \A x \in Conns : ws'[x].phase = "ended" /\ pending'[x] = {}
        /\ UNCHANGED <<signed, executed>>
    BY <1>4 DEF HubRestart, TypeOK, Handler
  <2>2. \A a \in Approvals : /\ store[a].status # "stored" => store'[a] = store[a]
                            /\ store'[a].status # "stored"
    BY <1>4, DropFacts DEF HubRestart, TypeOK
  <2>3. ApprovalStartsToolOnce'
    BY <2>1, <2>2 DEF ApprovalInv, ApprovalStartsToolOnce
  <2> QED BY <2>1, <2>2, <2>3 DEF ApprovalInv, QuietHandlers, TakenIsCovered, TakenOnce,
             Executing, DenialTakesRecord, PendingIsOwned, StoredIsPending, Stored
<1> QED BY <1>1, <1>2, <1>3, <1>4 DEF Next

(* The invariant holds when no connection was ever open. *)
LEMMA InitApproval == Init => ApprovalInv
BY DEF Init, ApprovalInv, QuietHandlers, TakenIsCovered, TakenOnce, Executing,
       ApprovalStartsToolOnce, DenialTakesRecord, PendingIsOwned, StoredIsPending, Stored

(* Pending sets, records, handler phases and executions stay in step, from *)
(* start to any restart (ws_v1, ApprovalArtifactStore).                    *)
THEOREM ApprovalsInvariant == Spec => [](TypeOK /\ ApprovalInv)
<1>1. Init => TypeOK /\ ApprovalInv
  BY InitApproval, MessagesAssumption DEF Init, TypeOK, Handler, Record
<1>2. TypeOK /\ ApprovalInv /\ [Next]_vars => (TypeOK /\ ApprovalInv)'
  BY TypeStep, ApprovalStep
<1> QED BY <1>1, <1>2, PTL DEF Spec

(* One approval starts its tool at most once and only when it was signed   *)
(* and not denied, whatever is replayed, closed or restarted.              *)
THEOREM ApprovalStartsOnce == Spec => []ApprovalStartsToolOnce
<1>1. ApprovalInv => ApprovalStartsToolOnce
  BY DEF ApprovalInv
<1> QED BY <1>1, ApprovalsInvariant, PTL

(* A CONFIRM tool only runs on a signed, taken approval of its own, of its *)
(* principal and for that tool.                                            *)
THEOREM ConfirmToolsNeedApproval == Spec => []ConfirmToolsAreApproved
<1>1. TypeOK /\ ApprovalInv => ConfirmToolsAreApproved
  BY DEF ApprovalInv, ConfirmToolsAreApproved, TakenIsCovered, Covered, TakenOnce, Executing
<1> QED BY <1>1, ApprovalsInvariant, PTL

(* No disconnect, closed socket, denial or crash strands a record in the   *)
(* approval store: a live connection with a key can still answer it.       *)
THEOREM ApprovalsAreOwned == Spec => []NoOrphanedApproval
<1>1. TypeOK /\ ApprovalInv => NoOrphanedApproval
  BY DEF ApprovalInv, NoOrphanedApproval, StoredIsPending, PendingIsOwned, TypeOK
<1> QED BY <1>1, ApprovalsInvariant, PTL

=============================================================================
