--------------------------- MODULE HubAccessProofs ---------------------------
(* Proofs about who gets into the Hub: the credential table, pairing and   *)
(* the connections that revocation and rotation act on, for any number of  *)
(* credentials, challenges, connections and requests, every limit and      *)
(* every lifetime.                                                         *)
EXTENDS PairingService, HubConnections, FiniteSetTheorems, TLAPS

-----------------------------------------------------------------------------
(* The credential table.                                                   *)

(* The table is typed after one step of any operation. *)
LEMMA StoreTypeStep ==
    ASSUME StoreTypeOK, [StoreNext]_rows
    PROVE  StoreTypeOK'
<1> USE IdsAssumption, LimitsAssumption DEF StoreTypeOK, Row
<1>1. ASSUME NEW c \in CredentialIds, Issue(c)
      PROVE  StoreTypeOK'
  <2>1. PICK D \in SUBSET Revoked : InsertRow(c, D)
    BY <1>1 DEF Issue
  <2>2. D \subseteq CredentialIds
    BY DEF Revoked
  <2> QED BY <2>1, <2>2 DEF InsertRow
<1>2. ASSUME NEW c \in CredentialIds, NEW t \in Stamps, Revoke(c, t)
      PROVE  StoreTypeOK'
  BY <1>2 DEF Revoke
<1>3. ASSUME NEW c \in CredentialIds, NEW g \in 0 .. MaxGeneration, Rotate(c, g)
      PROVE  StoreTypeOK'
  BY <1>3 DEF Rotate
<1>4. CASE UNCHANGED rows
  BY <1>4
<1> QED BY <1>1, <1>2, <1>3, <1>4 DEF StoreNext

(* Type correctness of the table under every sequence of issue(), revoke() *)
(* and rotate().                                                           *)
THEOREM StoreTypeCorrect == StoreSpec => []StoreTypeOK
<1>1. StoreInit => StoreTypeOK
  BY DEF StoreInit, StoreTypeOK, Row
<1> QED BY <1>1, StoreTypeStep, PTL DEF StoreSpec

-----------------------------------------------------------------------------
(* Effect of the three operations on the two sets the limits speak of.     *)

(* An insert adds its row to the active ones and removes what it prunes. *)
LEMMA IssueSets ==
    ASSUME StoreTypeOK, NEW c \in CredentialIds, NEW D \in SUBSET Revoked,
           rows[c].status = "unused", InsertRow(c, D)
    PROVE  /\ Active' = Active \cup {c}
           /\ Revoked' = Revoked \ D
           /\ c \notin Stored
BY DEF StoreTypeOK, Row, InsertRow, Active, Revoked, Stored

(* A revocation moves its row from the active to the revoked ones. *)
LEMMA RevokeSets ==
    ASSUME StoreTypeOK, NEW c \in CredentialIds, NEW t \in Stamps, Revoke(c, t)
    PROVE  /\ c \in Active
           /\ Active' = Active \ {c}
           /\ Stored' = Stored
BY DEF StoreTypeOK, Row, Revoke, IsActive, Active, Revoked, Stored

(* A rotation leaves both sets alone. *)
LEMMA RotateSets ==
    ASSUME StoreTypeOK, NEW c \in CredentialIds, NEW g \in 0 .. MaxGeneration, Rotate(c, g)
    PROVE  Active' = Active /\ Stored' = Stored
BY DEF StoreTypeOK, Row, Rotate, Authenticates, IsActive, Active, Revoked, Stored

(* The rows are disjointly active and revoked. *)
LEMMA StoredCardinality ==
    ASSUME IsFiniteSet(Stored)
    PROVE  /\ IsFiniteSet(Active) /\ IsFiniteSet(Revoked)
           /\ Cardinality(Active) \in Nat /\ Cardinality(Revoked) \in Nat
           /\ Cardinality(Stored) = Cardinality(Active) + Cardinality(Revoked)
<1>1. Active \subseteq Stored /\ Revoked \subseteq Stored
  BY DEF Stored
<1>2. IsFiniteSet(Active) /\ IsFiniteSet(Revoked)
  BY <1>1, FS_Subset
<1>3. Active \cap Revoked = {}
  BY DEF Active, Revoked
<1>4. Cardinality(Active \cup Revoked)
        = Cardinality(Active) + Cardinality(Revoked) - Cardinality(Active \cap Revoked)
  BY <1>2, FS_Union
<1>5. Cardinality(Active \cap Revoked) = 0
  BY <1>3, FS_EmptySet
<1>6. Cardinality(Active) \in Nat /\ Cardinality(Revoked) \in Nat
  BY <1>2, FS_CardinalityType
<1>7. Stored = Active \cup Revoked
  BY DEF Stored
<1>8. Cardinality(Stored) = Cardinality(Active) + Cardinality(Revoked)
  BY <1>4, <1>5, <1>6, <1>7
<1> QED BY <1>2, <1>6, <1>8

(* One issue() keeps the bounds: when the table is full, fewer than        *)
(* MaxActive of its rows are active, so a revoked one is there to prune.   *)
LEMMA IssueKeepsBounds ==
    ASSUME StoreTypeOK, CapacityBounds, NEW c \in CredentialIds, Issue(c)
    PROVE  CapacityBounds'
<1> USE LimitsAssumption
<1>1. PICK D \in SUBSET Revoked : IsPruneSet(D) /\ InsertRow(c, D)
  BY DEF Issue
<1>2. /\ Active' = Active \cup {c}
      /\ Revoked' = Revoked \ D
      /\ c \notin Stored
  BY <1>1, IssueSets DEF Issue
<1>3. /\ IsFiniteSet(Active) /\ IsFiniteSet(Revoked)
      /\ Cardinality(Active) \in Nat /\ Cardinality(Revoked) \in Nat
      /\ Cardinality(Stored) = Cardinality(Active) + Cardinality(Revoked)
  BY StoredCardinality DEF CapacityBounds
<1>4. IsFiniteSet(D) /\ Cardinality(D) \in Nat
  BY <1>3, FS_Subset, FS_CardinalityType
<1>5. IsFiniteSet(Active') /\ Cardinality(Active') = Cardinality(Active) + 1
  <2>1. c \notin Active
    BY <1>2 DEF Stored
  <2> QED BY <1>2, <1>3, <2>1, FS_AddElement
<1>6. /\ IsFiniteSet(Revoked')
      /\ Cardinality(Revoked') = Cardinality(Revoked) - Cardinality(D)
      /\ Cardinality(Revoked') \in Nat
  <2>1. Revoked \cap D = D
    OBVIOUS
  <2>2. /\ IsFiniteSet(Revoked \ D)
        /\ Cardinality(Revoked \ D) = Cardinality(Revoked) - Cardinality(Revoked \cap D)
    BY <1>3, <1>4, FS_Difference
  <2> QED BY <1>2, <2>1, <2>2, FS_CardinalityType
<1>7. IsFiniteSet(Stored')
  BY <1>5, <1>6, FS_Union DEF Stored
<1>8. Cardinality(Stored') = Cardinality(Active') + Cardinality(Revoked')
  <2>1. Active' \cap Revoked' = {}
    BY DEF Active, Revoked
  <2>2. Cardinality(Active' \cup Revoked')
          = Cardinality(Active') + Cardinality(Revoked') - Cardinality(Active' \cap Revoked')
    BY <1>5, <1>6, FS_Union
  <2>3. Cardinality(Active' \cap Revoked') = 0
    BY <2>1, FS_EmptySet
  <2>4. Cardinality(Active') \in Nat
    BY <1>3, <1>5
  <2>5. Stored' = Active' \cup Revoked'
    BY DEF Stored
  <2> QED BY <1>6, <2>2, <2>3, <2>4, <2>5
<1>9. Cardinality(Active) < MaxActive
  BY DEF Issue
<1>10. Cardinality(Stored') <= MaxRetained
  <2>1. CASE Cardinality(Stored) < MaxRetained
    BY <1>3, <1>4, <1>5, <1>6, <1>8, <2>1
  <2>2. CASE Cardinality(Stored) = MaxRetained
    <3>1. DeleteCount = 1
      BY <1>3, <2>2 DEF DeleteCount
    <3>2. Cardinality(Revoked) >= 1
      BY <1>3, <1>9, <2>2
    <3>3. Cardinality(D) = 1
      BY <1>1, <1>3, <3>1, <3>2 DEF IsPruneSet
    <3> QED BY <1>3, <1>5, <1>6, <1>8, <2>2, <3>3
  <2> QED BY <1>3, <2>1, <2>2 DEF CapacityBounds
<1> QED BY <1>3, <1>5, <1>7, <1>9, <1>10 DEF CapacityBounds

(* Every operation of the table keeps the limits. *)
LEMMA BoundsStep ==
    ASSUME StoreTypeOK, CapacityBounds, [StoreNext]_rows
    PROVE  CapacityBounds'
<1> USE LimitsAssumption
<1>1. ASSUME NEW c \in CredentialIds, Issue(c)
      PROVE  CapacityBounds'
  BY <1>1, IssueKeepsBounds
<1>2. ASSUME NEW c \in CredentialIds, NEW t \in Stamps, Revoke(c, t)
      PROVE  CapacityBounds'
  <2>1. c \in Active /\ Active' = Active \ {c} /\ Stored' = Stored
    BY <1>2, RevokeSets
  <2>2. IsFiniteSet(Active) /\ Cardinality(Active) \in Nat
    BY StoredCardinality DEF CapacityBounds
  <2>3. Cardinality(Active') = Cardinality(Active) - 1
    BY <2>1, <2>2, FS_RemoveElement
  <2> QED BY <2>1, <2>2, <2>3 DEF CapacityBounds
<1>3. ASSUME NEW c \in CredentialIds, NEW g \in 0 .. MaxGeneration, Rotate(c, g)
      PROVE  CapacityBounds'
  BY <1>3, RotateSets DEF CapacityBounds
<1>4. CASE UNCHANGED rows
  BY <1>4 DEF CapacityBounds, Stored, Active, Revoked
<1> QED BY <1>1, <1>2, <1>3, <1>4 DEF StoreNext

(* Both limits of the table hold for ever, whatever MaxActive <= MaxRetained *)
(* are: _prune_revoked always makes room for the row issue() inserts.        *)
THEOREM StoreStaysWithinLimits == StoreSpec => []CapacityBounds
<1>1. StoreInit => CapacityBounds
  <2> SUFFICES ASSUME StoreInit PROVE CapacityBounds
    OBVIOUS
  <2>1. Active = LegacyIds /\ Revoked = {}
    BY IdsAssumption DEF StoreInit, Active, Revoked
  <2>2. Stored = LegacyIds
    BY <2>1 DEF Stored
  <2>3. Cardinality(LegacyIds) \in Nat
    BY IdsAssumption, FS_CardinalityType
  <2> QED BY <2>1, <2>2, <2>3, IdsAssumption, LimitsAssumption DEF CapacityBounds
<1>2. StoreInit => StoreTypeOK
  BY DEF StoreInit, StoreTypeOK, Row
<1> QED BY <1>1, <1>2, StoreTypeStep, BoundsStep, PTL DEF StoreSpec

-----------------------------------------------------------------------------
(* A revoked credential and a superseded bearer never work again, over any *)
(* sequence of issue(), revoke() and rotate().                             *)
THEOREM DeadStaysDead == StoreSpec => DeadBearersStayDead
<1>1. ASSUME StoreTypeOK, StoreNext,
             NEW c \in CredentialIds, NEW g \in 0 .. MaxGeneration, Dead(c, g)
      PROVE  Dead(c, g)'
  <2> USE <1>1, LimitsAssumption DEF StoreTypeOK, Row, Dead
  <2>1. ASSUME NEW d \in CredentialIds, Issue(d)
        PROVE  Dead(c, g)'
    <3>1. PICK D \in SUBSET Revoked : InsertRow(d, D)
      BY <2>1 DEF Issue
    <3>2. c # d
      BY <2>1 DEF Issue
    <3> QED BY <3>1, <3>2 DEF InsertRow
  <2>2. ASSUME NEW d \in CredentialIds, NEW t \in Stamps, Revoke(d, t)
        PROVE  Dead(c, g)'
    BY <2>2 DEF Revoke
  <2>3. ASSUME NEW d \in CredentialIds, NEW h \in 0 .. MaxGeneration, Rotate(d, h)
        PROVE  Dead(c, g)'
    <3>1. CASE c = d
      BY <2>3, <3>1 DEF Rotate, Authenticates, IsActive
    <3>2. CASE c # d
      BY <2>3, <3>2 DEF Rotate
    <3> QED BY <3>1, <3>2
  <2> QED BY <2>1, <2>2, <2>3 DEF StoreNext
<1>2. StoreTypeOK /\ StoreNext =>
        \A c \in CredentialIds, g \in 0 .. MaxGeneration : Dead(c, g) => Dead(c, g)'
  BY <1>1
<1> QED BY <1>2, StoreTypeCorrect, PTL DEF StoreSpec, DeadBearersStayDead

(* _prune_revoked deletes the oldest revoked rows only, and only from a    *)
(* full table: revocation history is kept as long as there is room.        *)
THEOREM PruneIsOldestFirst == StoreSpec => PruneDropsOldest
<1> DEFINE Fair(c) ==
      c \in Stored /\ rows'[c].status = "pruned" =>
        /\ c \in Revoked
        /\ Cardinality(Stored) = MaxRetained
        /\ \A d \in CredentialIds :
             d \in Revoked /\ rows'[d].status = "revoked" => RevokedBefore(c, d)
<1>1. ASSUME StoreTypeOK, CapacityBounds, StoreNext, NEW c \in CredentialIds
      PROVE  Fair(c)
  <2> SUFFICES ASSUME c \in Stored, rows'[c].status = "pruned"
               PROVE  /\ c \in Revoked
                      /\ Cardinality(Stored) = MaxRetained
                      /\ \A d \in CredentialIds :
                           d \in Revoked /\ rows'[d].status = "revoked" => RevokedBefore(c, d)
    OBVIOUS
  <2>0. rows[c].status \in {"active", "revoked"}
    BY DEF Stored, Active, Revoked
  <2>1. PICK e \in CredentialIds : Issue(e)
    BY <1>1, <2>0 DEF StoreNext, StoreTypeOK, Row, Revoke, Rotate, Authenticates, IsActive
  <2>2. PICK D \in SUBSET Revoked : IsPruneSet(D) /\ InsertRow(e, D)
    BY <2>1 DEF Issue
  <2>3. c \in D
    BY <1>1, <2>0, <2>1, <2>2 DEF InsertRow, Issue, StoreTypeOK, Row
  <2>4. c \in Revoked
    BY <2>3
  <2>5. Cardinality(Stored) = MaxRetained
    <3>1. /\ IsFiniteSet(Revoked) /\ Cardinality(Revoked) \in Nat
          /\ Cardinality(Stored) \in Nat
      BY <1>1, StoredCardinality, FS_CardinalityType DEF CapacityBounds
    <3>2. IsFiniteSet(D) /\ Cardinality(D) \in Nat
      BY <3>1, FS_Subset, FS_CardinalityType
    <3>3. Cardinality(D) # 0
      BY <2>3, <3>2, FS_EmptySet
    <3>4. DeleteCount # 0
      BY <2>2, <3>1, <3>2, <3>3 DEF IsPruneSet
    <3>5. ~(Cardinality(Stored) < MaxRetained)
      BY <3>4 DEF DeleteCount
    <3> QED BY <1>1, <3>1, <3>5, LimitsAssumption DEF CapacityBounds
  <2>6. ASSUME NEW d \in CredentialIds, d \in Revoked, rows'[d].status = "revoked"
        PROVE  RevokedBefore(c, d)
    <3>1. d \notin D
      BY <1>1, <2>1, <2>2, <2>6 DEF InsertRow, Issue, StoreTypeOK, Row, Revoked
    <3> QED BY <2>2, <2>3, <2>6, <3>1 DEF IsPruneSet
  <2> QED BY <2>4, <2>5, <2>6
<1>2. StoreTypeOK /\ CapacityBounds /\ StoreNext => \A c \in CredentialIds : Fair(c)
  BY <1>1
<1> QED BY <1>2, StoreTypeCorrect, StoreStaysWithinLimits, PTL DEF StoreSpec, PruneDropsOldest

-----------------------------------------------------------------------------
(* The inductive invariant behind OneCredentialPerChallenge.               *)

(* The redemptions that took a challenge and were not refused since. *)
Takers == {p \in Redeemers : redeem[p].pc \in {"issuing", "issued", "done", "lost"}}

Issuing == {p \in Redeemers : redeem[p].pc = "issuing"}

(* Whoever takes a challenge takes it alone and for good. *)
TakenChallenges ==
    /\ \A p \in Takers : /\ redeem[p].challenge \in Challenges
                         /\ pending[redeem[p].challenge].status = "gone"
    /\ \A p, q \in Takers : p # q => redeem[p].challenge # redeem[q].challenge

(* A credential was inserted by one redemption that had taken a challenge, *)
(* and one that still waits for its insert has none.                       *)
WonCredentials ==
    /\ \A p \in Winners : /\ p \in Takers \ Issuing
                          /\ redeem[p].cred \in CredentialIds
                          /\ rows[redeem[p].cred].status # "unused"
    /\ \A p, q \in Winners : p # q => redeem[p].cred # redeem[q].cred
    /\ \A c \in Minted : \E p \in Winners : redeem[p].cred = c

(* Every credential, inserted or about to be, has an event of its own. *)
AnnouncedFirst ==
    /\ IsFiniteSet(Minted) /\ IsFiniteSet(Issuing)
    /\ Cardinality(Minted) + Cardinality(Issuing) <= requested

PairingInv == TakenChallenges /\ WonCredentials /\ AnnouncedFirst

-----------------------------------------------------------------------------
(* The store under the pairing service.                                    *)

(* The service changes the credential table only through its operations. *)
LEMMA PairingStepsAreStoreSteps ==
    ASSUME [PairingNext]_pairingVars
    PROVE  [StoreNext]_rows
<1>1. ASSUME NEW p \in Redeemers, NEW c \in CredentialIds, IssueCredential(p, c)
      PROVE  StoreNext
  BY <1>1 DEF IssueCredential, StoreNext
<1>2. ASSUME NEW c \in CredentialIds, NEW t \in Stamps, RevokeCredential(c, t)
      PROVE  StoreNext
  BY <1>2 DEF RevokeCredential, StoreNext
<1> QED
  BY <1>1, <1>2 DEF PairingNext, pairingVars, BeginChallenge, BeginBusy, RedeemStep,
     RedeemRefused, RedeemBadKey, RedeemInvalid, RedeemWrongToken, RedeemRightToken,
     IssueFails, RespondRedeemed, Tick, PairingRestart

(* The pairing service implements the credential store: whatever races or  *)
(* crashes, the table changes only by issue() and revoke().                *)
THEOREM PairingImplementsStore == PairingSpec => StoreSpec
<1>1. PairingInit => StoreInit
  BY DEF PairingInit
<1> QED BY <1>1, PairingStepsAreStoreSteps, PTL DEF PairingSpec, StoreSpec

(* Both limits of the table hold while devices pair. *)
THEOREM PairingKeepsLimits == PairingSpec => []CapacityBounds
BY PairingImplementsStore, StoreStaysWithinLimits, PTL

(* What issue() and revoke() do to the used ids: one is added, by issue(). *)
LEMMA IssueMints ==
    ASSUME StoreTypeOK, NEW c \in CredentialIds, Issue(c)
    PROVE  /\ Minted' \subseteq Minted \cup {c}
           /\ c \notin Minted
           /\ rows[c].status = "unused" /\ rows'[c].status # "unused"
           /\ \A d \in CredentialIds : rows[d].status # "unused" => rows'[d].status # "unused"
<1>1. PICK D \in SUBSET Revoked : InsertRow(c, D)
  BY DEF Issue
<1>2. c \notin D
  BY DEF Issue, Revoked
<1>3. /\ rows'[c].status = "active"
      /\ \A d \in CredentialIds \ {c} : rows'[d].status \in {"pruned", rows[d].status}
      /\ \A d \in CredentialIds \ {c} : rows[d].status = "unused" => rows'[d] = rows[d]
  <2>1. rows'[c].status = "active"
    BY <1>1, <1>2 DEF InsertRow
  <2>2. ASSUME NEW d \in CredentialIds \ {c}
        PROVE  rows'[d] = IF d \in D THEN [rows[d] EXCEPT !.status = "pruned"] ELSE rows[d]
    BY <1>1 DEF InsertRow
  <2> QED BY <2>1, <2>2 DEF StoreTypeOK, Row, Revoked
<1>4. c \notin Minted /\ rows[c].status = "unused"
  BY DEF Issue, Minted
<1>5. \A d \in CredentialIds : rows[d].status # "unused" => rows'[d].status # "unused"
  BY <1>3
<1>6. Minted' \subseteq Minted \cup {c}
  BY <1>3 DEF Minted
<1> QED BY <1>3, <1>4, <1>5, <1>6

(* A revocation neither makes nor unmakes a credential. *)
LEMMA RevokeMintsNothing ==
    ASSUME StoreTypeOK, NEW c \in CredentialIds, NEW t \in Stamps, Revoke(c, t)
    PROVE  /\ Minted' = Minted
           /\ \A d \in CredentialIds : rows[d].status # "unused" => rows'[d].status # "unused"
<1>1. \A d \in CredentialIds : rows'[d].status = IF d = c THEN "revoked" ELSE rows[d].status
  BY DEF Revoke, StoreTypeOK, Row
<1>2. rows[c].status = "active"
  BY DEF Revoke, IsActive
<1>3. \A d \in CredentialIds : rows[d].status = "unused" <=> rows'[d].status = "unused"
  BY <1>1, <1>2
<1> QED BY <1>3 DEF Minted

-----------------------------------------------------------------------------
(* Types.                                                                  *)

(* Every step keeps the types. *)
LEMMA PairingTypeStep ==
    ASSUME PairingTypeOK, [PairingNext]_pairingVars
    PROVE  PairingTypeOK'
<1>0. StoreTypeOK'
  BY PairingStepsAreStoreSteps, StoreTypeStep DEF PairingTypeOK
<1> USE <1>0, PairingAssumption
<1>a. \A p \in Redeemers : redeem[p] \in Redemption
  BY DEF PairingTypeOK
<1>b. \A k \in Challenges : pending[k] \in Challenge
  BY DEF PairingTypeOK
<1>c. now \in Nat
  BY DEF PairingTypeOK
<1>d. PruneExpired \in [Challenges -> Challenge]
  <2>1. \A k \in Challenges : [pending[k] EXCEPT !.status = "gone"] \in Challenge
    BY <1>b DEF Challenge
  <2> QED BY <1>b, <2>1 DEF PruneExpired
<1>1. ASSUME NEW k \in Challenges, BeginChallenge(k)
      PROVE  PairingTypeOK'
  <2>1. PICK shown \in BOOLEAN :
          pending' = [PruneExpired EXCEPT ![k] =
                        [status |-> "pending", expires |-> now + Ttl, failed |-> 0,
                         disclosed |-> shown]]
    BY <1>1 DEF BeginChallenge
  <2>2. [status |-> "pending", expires |-> now + Ttl, failed |-> 0, disclosed |-> shown]
          \in Challenge
    BY <1>c DEF Challenge
  <2>3. pending' \in [Challenges -> Challenge]
    BY <1>d, <2>1, <2>2
  <2> QED BY <1>1, <2>3 DEF BeginChallenge, PairingTypeOK
<1>2. CASE BeginBusy
  BY <1>2, <1>d DEF BeginBusy, PairingTypeOK
<1>3. ASSUME NEW p \in Redeemers, RedeemStep(p)
      PROVE  PairingTypeOK'
  <2>1. CASE RedeemRefused(p) \/ RedeemBadKey(p) \/ IssueFails(p) \/ RespondRedeemed(p)
    <3>1. redeem' \in [Redeemers -> Redemption]
      BY <1>a, <2>1 DEF RedeemRefused, RedeemBadKey, IssueFails, RespondRedeemed,
                        PairingTypeOK, Redemption
    <3> QED BY <2>1, <3>1 DEF RedeemRefused, RedeemBadKey, IssueFails, RespondRedeemed,
                              PairingTypeOK
  <2>2. ASSUME NEW k \in Challenges,
               RedeemInvalid(p, k) \/ RedeemWrongToken(p, k) \/ RedeemRightToken(p, k)
        PROVE  PairingTypeOK'
    <3>1. redeem' \in [Redeemers -> Redemption]
      <4>1. [redeem[p] EXCEPT !.pc = "refused", !.challenge = k] \in Redemption
        BY <1>a DEF Redemption
      <4>2. [redeem[p] EXCEPT !.pc = "issuing", !.challenge = k] \in Redemption
        BY <1>a DEF Redemption
      <4>3. \/ redeem' = [redeem EXCEPT ![p] = [redeem[p] EXCEPT !.pc = "refused", !.challenge = k]]
            \/ redeem' = [redeem EXCEPT ![p] = [redeem[p] EXCEPT !.pc = "issuing", !.challenge = k]]
        BY <2>2 DEF RedeemInvalid, RedeemWrongToken, RedeemRightToken, PairingTypeOK
      <4> QED BY <4>1, <4>2, <4>3 DEF PairingTypeOK
    <3>2. CASE RedeemInvalid(p, k) \/ RedeemRightToken(p, k)
      <4>1. pending' \in [Challenges -> Challenge]
        BY <1>b, <3>2 DEF RedeemInvalid, RedeemRightToken, PairingTypeOK, Challenge
      <4> QED BY <3>1, <3>2, <4>1 DEF RedeemInvalid, RedeemRightToken, PairingTypeOK
    <3>3. CASE RedeemWrongToken(p, k)
      <4> DEFINE s == IF pending[k].failed + 1 >= MaxFailures THEN "gone" ELSE pending[k].status
      <4>1. pending' = [pending EXCEPT ![k] = [pending[k] EXCEPT !.failed = pending[k].failed + 1,
                                                                 !.status = s]]
        BY <3>3 DEF RedeemWrongToken, PairingTypeOK, Challenge
      <4>2. s \in {"unused", "pending", "gone"} /\ pending[k].failed + 1 \in Nat
        BY <1>b DEF Challenge
      <4> HIDE DEF s
      <4>3. [pending[k] EXCEPT !.failed = pending[k].failed + 1, !.status = s] \in Challenge
        BY <1>b, <4>2 DEF Challenge
      <4>4. pending' \in [Challenges -> Challenge]
        BY <4>1, <4>3 DEF PairingTypeOK
      <4>5. UNCHANGED now /\ requested' = requested + 1
        BY <3>3 DEF RedeemWrongToken
      <4> QED BY <3>1, <4>4, <4>5 DEF PairingTypeOK
    <3> QED BY <2>2, <3>2, <3>3
  <2>3. ASSUME NEW c \in CredentialIds, IssueCredential(p, c)
        PROVE  PairingTypeOK'
    <3>1. [redeem[p] EXCEPT !.pc = "issued", !.cred = c] \in Redemption
      BY <1>a DEF Redemption
    <3>2. redeem' = [redeem EXCEPT ![p] = [redeem[p] EXCEPT !.pc = "issued", !.cred = c]]
      BY <2>3 DEF IssueCredential, PairingTypeOK
    <3> QED BY <2>3, <3>1, <3>2 DEF IssueCredential, PairingTypeOK
  <2> QED BY <1>3, <2>1, <2>2, <2>3 DEF RedeemStep
<1>4. ASSUME NEW c \in CredentialIds, NEW t \in Stamps, RevokeCredential(c, t)
      PROVE  PairingTypeOK'
  BY <1>4 DEF RevokeCredential, PairingTypeOK
<1>5. CASE Tick
  <2>1. now' \in 0 .. MaxTime
    BY <1>5 DEF Tick, PairingTypeOK
  <2> QED BY <1>5, <2>1 DEF Tick, PairingTypeOK
<1>6. CASE PairingRestart
  <2>1. \A k \in Challenges : [pending[k] EXCEPT !.status = "gone"] \in Challenge
    BY <1>b DEF Challenge
  <2>2. \A p \in Redeemers : [redeem[p] EXCEPT !.pc = "lost"] \in Redemption
    BY <1>a DEF Redemption
  <2>3. pending' \in [Challenges -> Challenge]
    BY <1>b, <1>6, <2>1 DEF PairingRestart
  <2>4. redeem' \in [Redeemers -> Redemption]
    BY <1>a, <1>6, <2>2 DEF PairingRestart
  <2> QED BY <1>6, <2>3, <2>4 DEF PairingRestart, PairingTypeOK
<1>7. CASE UNCHANGED pairingVars
  BY <1>7 DEF pairingVars, PairingTypeOK
<1> QED BY <1>1, <1>2, <1>3, <1>4, <1>5, <1>6, <1>7 DEF PairingNext

(* The service starts well typed. *)
LEMMA PairingInitTyped == PairingInit => PairingTypeOK
BY PairingAssumption DEF PairingInit, PairingTypeOK, StoreInit, StoreTypeOK, Row, Challenge,
   Redemption

(* Challenges and redemptions keep their types. *)
THEOREM PairingTypeCorrect == PairingSpec => []PairingTypeOK
BY PairingInitTyped, PairingTypeStep, PTL DEF PairingSpec

-----------------------------------------------------------------------------
(* Challenges.                                                             *)

(* A challenge that is gone never comes back. *)
LEMMA GoneStaysGone ==
    ASSUME PairingTypeOK, [PairingNext]_pairingVars, NEW k \in Challenges,
           pending[k].status = "gone"
    PROVE  pending'[k].status = "gone"
<1>1. ASSUME NEW j \in Challenges, BeginChallenge(j)
      PROVE  pending'[k].status = "gone"
  <2>1. j # k
    BY <1>1 DEF BeginChallenge
  <2>2. pending'[k] = PruneExpired[k]
    BY <1>1, <2>1 DEF BeginChallenge, PruneExpired
  <2> QED BY <2>2 DEF PruneExpired, Pending
<1>2. CASE BeginBusy
  BY <1>2 DEF BeginBusy, PruneExpired, Pending
<1>3. ASSUME NEW p \in Redeemers, RedeemStep(p)
      PROVE  pending'[k].status = "gone"
  <2>1. ASSUME NEW j \in Challenges, RedeemInvalid(p, j)
        PROVE  pending'[k].status = "gone"
    BY <2>1 DEF RedeemInvalid, PairingTypeOK, Challenge
  <2>2. ASSUME NEW j \in Challenges, RedeemWrongToken(p, j)
        PROVE  pending'[k].status = "gone"
    <3>1. j # k
      BY <2>2 DEF RedeemWrongToken, Unexpired, Pending
    <3> QED BY <2>2, <3>1 DEF RedeemWrongToken, PairingTypeOK
  <2>3. ASSUME NEW j \in Challenges, RedeemRightToken(p, j)
        PROVE  pending'[k].status = "gone"
    BY <2>3 DEF RedeemRightToken, PairingTypeOK, Challenge
  <2> QED BY <1>3, <2>1, <2>2, <2>3 DEF RedeemStep, RedeemRefused, RedeemBadKey,
             IssueCredential, IssueFails, RespondRedeemed
<1>4. CASE PairingRestart
  BY <1>4 DEF PairingRestart, Pending
<1> QED BY <1>1, <1>2, <1>3, <1>4 DEF PairingNext, pairingVars, RevokeCredential, Tick

(* The four things a step of a redemption can do to it. *)
Refuses(p) ==
    /\ redeem[p].pc \in {"idle", "issuing"} /\ redeem'[p].pc = "refused"
    /\ redeem'[p].cred = redeem[p].cred /\ UNCHANGED rows
    /\ requested' \in {requested, requested + 1}
Takes(p, k) ==
    /\ redeem[p].pc = "idle" /\ redeem'[p].pc = "issuing"
    /\ redeem'[p].cred = redeem[p].cred /\ UNCHANGED rows
    /\ requested' = requested + 1
    /\ redeem'[p].challenge = k
    /\ pending[k].status = "pending" /\ pending'[k].status = "gone"
Inserts(p, c) ==
    /\ redeem[p].pc = "issuing" /\ redeem'[p].pc = "issued"
    /\ redeem'[p].challenge = redeem[p].challenge
    /\ redeem'[p].cred = c /\ Issue(c)
    /\ UNCHANGED requested
Answers(p) ==
    /\ redeem[p].pc = "issued" /\ redeem'[p].pc = "done"
    /\ redeem'[p].challenge = redeem[p].challenge
    /\ redeem'[p].cred = redeem[p].cred /\ UNCHANGED <<rows, requested>>
LeavesOthers(p) == \A q \in Redeemers \ {p} : redeem'[q] = redeem[q]

(* A redemption's step refuses, takes a challenge, inserts or answers. *)
LEMMA RedeemEffect ==
    ASSUME PairingTypeOK, NEW p \in Redeemers, RedeemStep(p)
    PROVE  /\ LeavesOthers(p)
           /\ \/ Refuses(p) \/ Answers(p)
              \/ \E k \in Challenges : Takes(p, k)
              \/ \E c \in CredentialIds : Inserts(p, c)
<1> USE DEF LeavesOthers
<1>a. redeem \in [Redeemers -> Redemption] /\ redeem[p] \in Redemption
  BY DEF PairingTypeOK
<1>1. CASE RedeemRefused(p) \/ RedeemBadKey(p) \/ IssueFails(p)
  BY <1>a, <1>1 DEF RedeemRefused, RedeemBadKey, IssueFails, Redemption, Refuses
<1>2. ASSUME NEW k \in Challenges, RedeemInvalid(p, k) \/ RedeemWrongToken(p, k)
      PROVE  LeavesOthers(p) /\ Refuses(p)
  BY <1>a, <1>2 DEF RedeemInvalid, RedeemWrongToken, Redemption, Refuses
<1>3. ASSUME NEW k \in Challenges, RedeemRightToken(p, k)
      PROVE  LeavesOthers(p) /\ Takes(p, k)
  <2>1. pending[k].status = "pending" /\ pending'[k].status = "gone"
    BY <1>3 DEF RedeemRightToken, Unexpired, Pending, PairingTypeOK, Challenge
  <2> QED BY <1>a, <1>3, <2>1 DEF RedeemRightToken, Redemption, Takes
<1>4. ASSUME NEW c \in CredentialIds, IssueCredential(p, c)
      PROVE  LeavesOthers(p) /\ Inserts(p, c)
  BY <1>a, <1>4 DEF IssueCredential, Redemption, Inserts
<1>5. CASE RespondRedeemed(p)
  BY <1>a, <1>5 DEF RespondRedeemed, Redemption, Answers
<1> QED BY <1>1, <1>2, <1>3, <1>4, <1>5 DEF RedeemStep

-----------------------------------------------------------------------------
(* One step keeps the invariant.                                           *)

(* Each of the four keeps the invariant. *)
LEMMA RedeemKeepsInv ==
    ASSUME PairingTypeOK, PairingInv, NEW p \in Redeemers, RedeemStep(p)
    PROVE  PairingInv'
<1>a. LeavesOthers(p)
  BY RedeemEffect
<1>b. \A k \in Challenges : pending[k].status = "gone" => pending'[k].status = "gone"
  BY GoneStaysGone DEF PairingNext
<1>c. /\ IsFiniteSet(Minted) /\ Cardinality(Minted) \in Nat
      /\ IsFiniteSet(Issuing) /\ Cardinality(Issuing) \in Nat
      /\ requested \in Nat /\ Cardinality(Minted) + Cardinality(Issuing) <= requested
  BY FS_CardinalityType DEF PairingInv, AnnouncedFirst, PairingTypeOK
<1> USE DEF LeavesOthers
<1>1. CASE Refuses(p)
  <2>1. p \notin Winners /\ Winners' = Winners /\ Takers' = Takers \ {p} /\ Minted' = Minted
    <3>1. p \notin Winners
      BY <1>1 DEF Refuses, PairingInv, WonCredentials, Takers, Issuing
    <3>2. Winners' = Winners
      BY <1>a, <1>1, <3>1 DEF Refuses, Winners
    <3>3. Takers' = Takers \ {p}
      BY <1>a, <1>1 DEF Refuses, Takers
    <3>4. Minted' = Minted
      BY <1>1 DEF Refuses, Minted
    <3> QED BY <3>1, <3>2, <3>3, <3>4
  <2>2. Issuing' = Issuing \ {p}
    BY <1>a, <1>1 DEF Refuses, Issuing
  <2>3. TakenChallenges'
    BY <1>a, <1>b, <2>1 DEF PairingInv, TakenChallenges, Takers
  <2>4. WonCredentials'
    BY <1>a, <1>1, <2>1, <2>2 DEF PairingInv, WonCredentials, Refuses, Winners
  <2>5. AnnouncedFirst'
    <3>1. IsFiniteSet(Issuing') /\ Cardinality(Issuing') <= Cardinality(Issuing)
      BY <1>c, <2>2, FS_Subset
    <3>2. Cardinality(Issuing') \in Nat
      BY <3>1, FS_CardinalityType
    <3>3. requested' \in Nat /\ requested <= requested'
      BY <1>c, <1>1 DEF Refuses
    <3> QED BY <1>c, <2>1, <3>1, <3>2, <3>3 DEF AnnouncedFirst
  <2> QED BY <2>3, <2>4, <2>5 DEF PairingInv
<1>2. ASSUME NEW k \in Challenges, Takes(p, k)
      PROVE  PairingInv'
  <2>1. p \notin Winners /\ p \notin Takers /\ p \notin Issuing
    BY <1>2 DEF Takes, PairingInv, WonCredentials, Takers, Issuing
  <2>2. Winners' = Winners /\ Takers' = Takers \cup {p} /\ Minted' = Minted
    <3>1. Winners' = Winners
      BY <1>a, <1>2, <2>1 DEF Takes, Winners
    <3>2. Takers' = Takers \cup {p}
      BY <1>a, <1>2 DEF Takes, Takers
    <3>3. Minted' = Minted
      BY <1>2 DEF Takes, Minted
    <3> QED BY <3>1, <3>2, <3>3
  <2>3. Issuing' = Issuing \cup {p}
    BY <1>a, <1>2 DEF Takes, Issuing
  <2>4. TakenChallenges'
    <3>1. \A q \in Takers : q # p /\ redeem'[q] = redeem[q] /\ redeem[q].challenge # k
      BY <1>a, <1>2, <2>1 DEF Takes, PairingInv, TakenChallenges, Takers
    <3>2. redeem'[p].challenge = k /\ pending'[k].status = "gone"
      BY <1>2 DEF Takes
    <3> QED BY <1>b, <2>2, <3>1, <3>2 DEF PairingInv, TakenChallenges
  <2>5. WonCredentials'
    BY <1>a, <1>2, <2>1, <2>2, <2>3 DEF PairingInv, WonCredentials, Takes, Winners
  <2>6. AnnouncedFirst'
    <3>1. IsFiniteSet(Issuing') /\ Cardinality(Issuing') = Cardinality(Issuing) + 1
      BY <1>c, <2>1, <2>3, FS_AddElement
    <3>2. requested' = requested + 1
      BY <1>2 DEF Takes
    <3> QED BY <1>c, <2>2, <3>1, <3>2 DEF AnnouncedFirst
  <2> QED BY <2>4, <2>5, <2>6 DEF PairingInv
<1>3. ASSUME NEW c \in CredentialIds, Inserts(p, c)
      PROVE  PairingInv'
  <2>1. /\ Minted' \subseteq Minted \cup {c} /\ c \notin Minted
        /\ rows[c].status = "unused" /\ rows'[c].status # "unused"
        /\ \A d \in CredentialIds : rows[d].status # "unused" => rows'[d].status # "unused"
    BY <1>3, IssueMints DEF Inserts, PairingTypeOK
  <2>2. p \in Issuing /\ p \notin Winners /\ c # 0
    BY <1>3, IdsAssumption DEF Inserts, Issuing, PairingInv, WonCredentials
  <2>3. Winners' = Winners \cup {p} /\ Takers' = Takers /\ Issuing' = Issuing \ {p}
    <3>1. Winners' = Winners \cup {p}
      BY <1>a, <1>3, <2>2 DEF Inserts, Winners
    <3>2. Takers' = Takers
      BY <1>a, <1>3 DEF Inserts, Takers
    <3>3. Issuing' = Issuing \ {p}
      BY <1>a, <1>3 DEF Inserts, Issuing
    <3> QED BY <3>1, <3>2, <3>3
  <2>4. TakenChallenges'
    <3>1. \A q \in Takers : redeem'[q].challenge = redeem[q].challenge
      BY <1>a, <1>3 DEF Inserts, Takers
    <3> QED BY <1>b, <2>3, <3>1 DEF PairingInv, TakenChallenges
  <2>5. WonCredentials'
    <3>1. \A q \in Winners : q # p /\ redeem'[q] = redeem[q] /\ redeem[q].cred # c
      BY <1>a, <2>1, <2>2 DEF PairingInv, WonCredentials, Winners
    <3>2. redeem'[p].cred = c /\ p \in Takers
      BY <1>3 DEF Inserts, Takers
    <3>3. ASSUME NEW q \in Winners'
          PROVE  /\ q \in Takers' \ Issuing' /\ redeem'[q].cred \in CredentialIds
                 /\ rows'[redeem'[q].cred].status # "unused"
      BY <2>1, <2>3, <3>1, <3>2 DEF PairingInv, WonCredentials
    <3>4. ASSUME NEW q \in Winners', NEW r \in Winners', q # r
          PROVE  redeem'[q].cred # redeem'[r].cred
      BY <2>3, <3>1, <3>2, <3>4 DEF PairingInv, WonCredentials
    <3>5. ASSUME NEW d \in Minted'
          PROVE  \E q \in Winners' : redeem'[q].cred = d
      BY <2>1, <2>3, <3>1, <3>2 DEF PairingInv, WonCredentials
    <3> QED BY <3>3, <3>4, <3>5 DEF WonCredentials
  <2>6. AnnouncedFirst'
    <3>1. IsFiniteSet(Issuing') /\ Cardinality(Issuing') = Cardinality(Issuing) - 1
      BY <1>c, <2>2, <2>3, FS_RemoveElement
    <3>2. IsFiniteSet(Minted \cup {c}) /\ Cardinality(Minted \cup {c}) = Cardinality(Minted) + 1
      BY <1>c, <2>1, FS_AddElement
    <3>3. IsFiniteSet(Minted') /\ Cardinality(Minted') <= Cardinality(Minted) + 1
      BY <2>1, <3>2, FS_Subset
    <3>4. Cardinality(Minted') \in Nat
      BY <3>3, FS_CardinalityType
    <3>5. requested' = requested
      BY <1>3 DEF Inserts
    <3> QED BY <1>c, <3>1, <3>3, <3>4, <3>5 DEF AnnouncedFirst
  <2> QED BY <2>4, <2>5, <2>6 DEF PairingInv
<1>4. CASE Answers(p)
  <2>1. Winners' = Winners /\ Takers' = Takers /\ Minted' = Minted /\ Issuing' = Issuing
    <3>1. Winners' = Winners
      BY <1>a, <1>4 DEF Answers, Winners
    <3>2. Takers' = Takers
      BY <1>a, <1>4 DEF Answers, Takers
    <3>3. Minted' = Minted
      BY <1>4 DEF Answers, Minted
    <3>4. Issuing' = Issuing
      BY <1>a, <1>4 DEF Answers, Issuing
    <3> QED BY <3>1, <3>2, <3>3, <3>4
  <2>2. \A q \in Redeemers : /\ redeem'[q].challenge = redeem[q].challenge
                            /\ redeem'[q].cred = redeem[q].cred
    BY <1>a, <1>4 DEF Answers
  <2>3. TakenChallenges'
    BY <1>b, <2>1, <2>2 DEF PairingInv, TakenChallenges, Takers
  <2>4. WonCredentials'
    BY <1>4, <2>1, <2>2 DEF PairingInv, WonCredentials, Winners, Answers
  <2>5. AnnouncedFirst'
    BY <1>4, <2>1 DEF PairingInv, AnnouncedFirst, Answers
  <2> QED BY <2>3, <2>4, <2>5 DEF PairingInv
<1> QED BY <1>1, <1>2, <1>3, <1>4, RedeemEffect

(* Every step keeps the invariant. *)
LEMMA PairingInvStep ==
    ASSUME PairingTypeOK, PairingInv, [PairingNext]_pairingVars
    PROVE  PairingInv'
<1>a. \A k \in Challenges : pending[k].status = "gone" => pending'[k].status = "gone"
  BY GoneStaysGone
<1>1. CASE UNCHANGED <<rows, redeem, requested>>
  <2>1. Winners' = Winners /\ Takers' = Takers /\ Minted' = Minted /\ Issuing' = Issuing
    BY <1>1 DEF Winners, Takers, Minted, Issuing
  <2> QED BY <1>a, <1>1, <2>1 DEF PairingInv, TakenChallenges, WonCredentials, AnnouncedFirst
<1>2. ASSUME NEW p \in Redeemers, RedeemStep(p)
      PROVE  PairingInv'
  BY <1>2, RedeemKeepsInv
<1>3. ASSUME NEW c \in CredentialIds, NEW t \in Stamps, RevokeCredential(c, t)
      PROVE  PairingInv'
  <2>1. /\ Minted' = Minted
        /\ \A d \in CredentialIds : rows[d].status # "unused" => rows'[d].status # "unused"
    BY <1>3, RevokeMintsNothing DEF RevokeCredential, PairingTypeOK
  <2>2. UNCHANGED <<pending, redeem, requested>>
    BY <1>3 DEF RevokeCredential
  <2>3. Winners' = Winners /\ Takers' = Takers /\ Issuing' = Issuing
    BY <2>2 DEF Winners, Takers, Issuing
  <2> QED BY <2>1, <2>2, <2>3 DEF PairingInv, TakenChallenges, WonCredentials, AnnouncedFirst
<1>4. CASE PairingRestart
  <2>1. /\ \A p \in Redeemers : /\ redeem'[p].challenge = redeem[p].challenge
                                /\ redeem'[p].cred = redeem[p].cred
        /\ \A p \in Redeemers : redeem'[p].pc =
             IF redeem[p].pc \in {"issuing", "issued"} THEN "lost" ELSE redeem[p].pc
        /\ UNCHANGED <<rows, requested>>
    BY <1>4 DEF PairingRestart, PairingTypeOK, Redemption
  <2>2. Winners' = Winners /\ Takers' = Takers /\ Minted' = Minted /\ Issuing' = {}
    <3>1. Winners' = Winners
      BY <2>1 DEF Winners
    <3>2. Takers' = Takers
      BY <2>1 DEF Takers
    <3>3. Minted' = Minted
      BY <2>1 DEF Minted
    <3>4. Issuing' = {}
      BY <2>1 DEF Issuing
    <3> QED BY <3>1, <3>2, <3>3, <3>4
  <2>3. TakenChallenges'
    BY <1>a, <2>1, <2>2 DEF PairingInv, TakenChallenges, Takers
  <2>4. WonCredentials'
    BY <2>1, <2>2 DEF PairingInv, WonCredentials, Winners
  <2>5. AnnouncedFirst'
    <3>1. /\ Cardinality(Minted) \in Nat /\ Cardinality(Issuing) \in Nat
          /\ requested \in Nat /\ Cardinality(Minted) + Cardinality(Issuing) <= requested
      BY FS_CardinalityType DEF PairingInv, AnnouncedFirst, PairingTypeOK
    <3>2. IsFiniteSet(Issuing') /\ Cardinality(Issuing') = 0
      BY <2>2, FS_EmptySet
    <3> QED BY <2>1, <2>2, <3>1, <3>2 DEF PairingInv, AnnouncedFirst
  <2> QED BY <2>3, <2>4, <2>5 DEF PairingInv
<1> QED BY <1>1, <1>2, <1>3, <1>4 DEF PairingNext, pairingVars, BeginChallenge, BeginBusy, Tick

(* The invariant holds before the first challenge. *)
LEMMA PairingInitInv == PairingInit => PairingInv
<1> SUFFICES ASSUME PairingInit PROVE PairingInv
  OBVIOUS
<1>1. Takers = {} /\ Winners = {} /\ Issuing = {} /\ Minted = {}
  BY IdsAssumption DEF PairingInit, StoreInit, Takers, Winners, Issuing, Minted
<1>2. IsFiniteSet({}) /\ Cardinality({}) = 0
  BY FS_EmptySet
<1> QED BY <1>1, <1>2 DEF PairingInit, PairingInv, TakenChallenges, WonCredentials,
                          AnnouncedFirst

(* One challenge buys at most one credential, for any number of devices    *)
(* racing for it and any failure between the pop and the insert, and every *)
(* credential was paid for and announced (complete() of pairing.py).       *)
THEOREM ChallengeBuysOneCredential == PairingSpec => []OneCredentialPerChallenge
<1>1. PairingTypeOK /\ PairingInv => OneCredentialPerChallenge
  <2> SUFFICES ASSUME PairingTypeOK, PairingInv PROVE OneCredentialPerChallenge
    OBVIOUS
  <2>1. Cardinality(Minted) <= requested
    <3>1. /\ Cardinality(Minted) \in Nat /\ Cardinality(Issuing) \in Nat
          /\ requested \in Nat /\ Cardinality(Minted) + Cardinality(Issuing) <= requested
      BY FS_CardinalityType DEF PairingInv, AnnouncedFirst, PairingTypeOK
    <3> QED BY <3>1
  <2>2. \A p \in Winners : redeem[p].challenge \in Challenges \ Pending
    BY DEF PairingInv, WonCredentials, TakenChallenges, Pending
  <2> QED BY <2>1, <2>2 DEF PairingInv, WonCredentials, TakenChallenges,
                            OneCredentialPerChallenge
<1> QED BY <1>1, PairingInitTyped, PairingInitInv, PairingTypeStep, PairingInvStep, PTL
        DEF PairingSpec

(* A spent, expired or guessed-to-death challenge is never redeemable      *)
(* again, and no redemption of it starts after that.                       *)
THEOREM SpentStaysSpent == PairingSpec => SpentChallengesStaySpent
<1> DEFINE For(k) == {p \in Redeemers : redeem[p].pc = "issuing" /\ redeem[p].challenge = k}
           Spent(k) == pending[k].status = "gone" =>
              /\ pending'[k].status = "gone"
              /\ {p \in Redeemers : redeem'[p].pc = "issuing" /\ redeem'[p].challenge = k}
                   \subseteq For(k)
<1>1. ASSUME PairingTypeOK, [PairingNext]_pairingVars, NEW k \in Challenges
      PROVE  Spent(k)
  <2> SUFFICES ASSUME pending[k].status = "gone",
                      NEW p \in Redeemers, redeem'[p].pc = "issuing", redeem'[p].challenge = k
               PROVE  redeem[p].pc = "issuing" /\ redeem[p].challenge = k
    BY <1>1, GoneStaysGone
  <2>1. ASSUME NEW q \in Redeemers, RedeemStep(q)
        PROVE  redeem[p].pc = "issuing" /\ redeem[p].challenge = k
    BY <1>1, <2>1, RedeemEffect DEF LeavesOthers, Refuses, Takes, Inserts, Answers
  <2>2. CASE PairingRestart
    BY <1>1, <2>2 DEF PairingRestart, PairingTypeOK, Redemption
  <2>3. CASE UNCHANGED redeem
    BY <2>3
  <2> QED BY <1>1, <2>1, <2>2, <2>3 DEF PairingNext, pairingVars, BeginChallenge, BeginBusy,
             RevokeCredential, Tick
<1>2. PairingTypeOK /\ [PairingNext]_pairingVars => \A k \in Challenges : Spent(k)
  BY <1>1
<1> QED BY <1>2, PairingTypeCorrect, PTL DEF PairingSpec, SpentChallengesStaySpent

-----------------------------------------------------------------------------
(* The store under the handlers.                                           *)

(* Every step of the Hub is a step of the store or leaves it alone. *)
LEMMA HubStepsAreStoreSteps ==
    ASSUME TypeOK, Named, [Next]_vars
    PROVE  [StoreNext]_rows
<1>1. ASSUME NEW c \in CredentialIds, PairDevice(c)
      PROVE  StoreNext
  BY <1>1 DEF PairDevice, StoreNext
<1>2. ASSUME NEW x \in Conns, SocketStep(x)
      PROVE  UNCHANGED rows
  BY <1>2 DEF SocketStep, AuthenticateSocket, RejectSocket, AcceptAndRegister, AcceptFails,
              ReadIsActive, StartServing, RefuseInactive, RefuseInactiveAuditFails, EndServing
<1>3. ASSUME NEW r \in Requests, RequestStep(r)
      PROVE  [StoreNext]_rows
  <2>1. ASSUME NEW t \in Stamps, CommitRevoke(r, t)
        PROVE  StoreNext
    <3>1. req[r].cred \in CredentialIds
      BY <2>1 DEF Named, CommitRevoke
    <3> QED BY <2>1, <3>1 DEF CommitRevoke, StoreNext
  <2>2. ASSUME CommitRotate(r)
        PROVE  StoreNext
    <3>1. req[r].cred \in CredentialIds
      BY <2>2 DEF Named, CommitRotate
    <3>2. req[r].gen \in 0 .. MaxGeneration
      BY <2>2, LimitsAssumption DEF TypeOK, RequestState, CommitRotate, Rotate
    <3> QED BY <2>2, <3>1, <3>2 DEF CommitRotate, StoreNext
  <2>3. CASE \/ \E kind \in {"self_revoke", "admin_revoke", "rotate"}, c \in CredentialIds,
                  g \in 0 .. MaxGeneration : AuthenticateRequest(r, kind, c, g)
             \/ RejectRequest(r) \/ RecordIntent(r) \/ AuditUnavailable(r)
             \/ MutationRefused(r) \/ CloseSessions(r) \/ Respond(r) \/ RevokeRaises(r)
    BY <2>3 DEF AuthenticateRequest, RejectRequest, RecordIntent, AuditUnavailable,
                MutationRefused, CloseSessions, Respond, RevokeRaises
  <2> QED BY <1>3, <2>1, <2>2, <2>3 DEF RequestStep
<1>4. ASSUME NEW x \in Conns, RunClose(x)
      PROVE  UNCHANGED rows
  BY <1>4 DEF RunClose
<1>5. CASE HubRestart
  BY <1>5 DEF HubRestart
<1>6. CASE UNCHANGED vars
  BY <1>6 DEF vars
<1> QED BY <1>1, <1>2, <1>3, <1>4, <1>5, <1>6 DEF Next

-----------------------------------------------------------------------------
(* Types.                                                                  *)

(* Every step keeps the types, and a handler names a credential. *)
LEMMA TypeStep ==
    ASSUME TypeOK, Named, [Next]_vars
    PROVE  TypeOK' /\ Named'
<1>0. StoreTypeOK'
  <2>1. [StoreNext]_rows
    BY HubStepsAreStoreSteps
  <2> QED BY <2>1, StoreTypeStep DEF TypeOK
<1> USE <1>0
<1>1. ASSUME NEW c \in CredentialIds, PairDevice(c)
      PROVE  TypeOK' /\ Named'
  BY <1>1 DEF PairDevice, hubVars, TypeOK, Named
<1>2. ASSUME NEW x \in Conns, SocketStep(x)
      PROVE  TypeOK' /\ Named'
  <2>1. ASSUME NEW c \in CredentialIds, NEW g \in 0 .. MaxGeneration,
               AuthenticateSocket(x, c, g)
        PROVE  TypeOK' /\ Named'
    <3> DEFINE h == [conn[x] EXCEPT !.pc = "authenticated", !.cred = c, !.gen = g]
    <3>0. conn[x] \in Handler /\ g \in Nat
      BY LimitsAssumption DEF TypeOK
    <3>1. h \in Handler
      BY <3>0 DEF Handler
    <3>2. conn' = [conn EXCEPT ![x] = h]
      BY <2>1 DEF AuthenticateSocket, TypeOK
    <3>3. h.cred \in CredentialIds
      BY DEF TypeOK, Handler
    <3> HIDE DEF h
    <3>4. conn' \in [Conns -> Handler]
      BY <3>1, <3>2 DEF TypeOK
    <3>5. Named'
      BY <2>1, <3>2, <3>3 DEF AuthenticateSocket, Named, TypeOK
    <3> QED BY <2>1, <3>4, <3>5 DEF AuthenticateSocket, TypeOK
  <2>2. CASE RejectSocket(x)
    <3>1. conn' \in [Conns -> Handler]
      BY <2>2 DEF Gone, NoCredential, RejectSocket, TypeOK, Handler
    <3>2. Named'
      BY <2>2 DEF Gone, NoCredential, RejectSocket, Named, TypeOK, Handler
    <3> QED BY <2>2, <3>1, <3>2 DEF RejectSocket, TypeOK
  <2>3. CASE AcceptAndRegister(x)
    <3>1. conn' \in [Conns -> Handler]
      BY <2>3 DEF AcceptAndRegister, Goto, TypeOK, Handler
    <3>2. Named'
      BY <2>3 DEF AcceptAndRegister, Goto, Named, TypeOK, Handler
    <3>3. registry' \in [CredentialIds -> SUBSET Conns]
      BY <2>3 DEF AcceptAndRegister, TypeOK
    <3> QED BY <2>3, <3>1, <3>2, <3>3 DEF AcceptAndRegister, TypeOK
  <2>4. CASE AcceptFails(x)
    <3>1. conn' \in [Conns -> Handler]
      BY <2>4 DEF Gone, NoCredential, AcceptFails, TypeOK, Handler
    <3>2. Named'
      BY <2>4 DEF Gone, NoCredential, AcceptFails, Named, TypeOK, Handler
    <3> QED BY <2>4, <3>1, <3>2 DEF AcceptFails, TypeOK
  <2>5. CASE ReadIsActive(x)
    <3>1. conn' \in [Conns -> Handler]
      BY <2>5 DEF ReadIsActive, Goto, TypeOK, Handler
    <3>2. Named'
      BY <2>5 DEF ReadIsActive, Goto, Named, TypeOK, Handler
    <3> QED BY <2>5, <3>1, <3>2 DEF ReadIsActive, TypeOK
  <2>6. CASE StartServing(x)
    <3>1. conn' \in [Conns -> Handler]
      BY <2>6 DEF StartServing, Goto, TypeOK, Handler
    <3>2. Named'
      BY <2>6 DEF StartServing, Goto, Named, TypeOK, Handler
    <3> QED BY <2>6, <3>1, <3>2 DEF StartServing, TypeOK
  <2>7. CASE RefuseInactive(x)
    <3>1. conn' \in [Conns -> Handler]
      BY <2>7 DEF Gone, NoCredential, RefuseInactive, TypeOK, Handler
    <3>2. Named'
      BY <2>7 DEF Gone, NoCredential, RefuseInactive, Named, TypeOK, Handler
    <3>3. registry' \in [CredentialIds -> SUBSET Conns]
      BY <2>7 DEF Gone, NoCredential, RefuseInactive, Unregister, TypeOK
    <3> QED BY <2>7, <3>1, <3>2, <3>3 DEF RefuseInactive, TypeOK
  <2>8. CASE RefuseInactiveAuditFails(x)
    <3>1. conn' \in [Conns -> Handler]
      BY <2>8 DEF RefuseInactiveAuditFails, TypeOK, Handler
    <3>2. Named'
      BY <2>8 DEF RefuseInactiveAuditFails, Named, TypeOK, Handler
    <3> QED BY <2>8, <3>1, <3>2 DEF RefuseInactiveAuditFails, TypeOK
  <2>9. CASE EndServing(x)
    <3>1. conn' \in [Conns -> Handler]
      BY <2>9 DEF Gone, NoCredential, EndServing, TypeOK, Handler
    <3>2. Named'
      BY <2>9 DEF Gone, NoCredential, EndServing, Named, TypeOK, Handler
    <3>3. registry' \in [CredentialIds -> SUBSET Conns]
      BY <2>9 DEF Gone, NoCredential, EndServing, Unregister, TypeOK
    <3> QED BY <2>9, <3>1, <3>2, <3>3 DEF EndServing, TypeOK
  <2> QED BY <1>2, <2>1, <2>2, <2>3, <2>4, <2>5, <2>6, <2>7, <2>8, <2>9 DEF SocketStep
<1>3. ASSUME NEW r \in Requests, RequestStep(r)
      PROVE  TypeOK' /\ Named'
  <2>1. ASSUME NEW kind \in {"self_revoke", "admin_revoke", "rotate"},
               NEW c \in CredentialIds, NEW g \in 0 .. MaxGeneration,
               AuthenticateRequest(r, kind, c, g)
        PROVE  TypeOK' /\ Named'
    <3> DEFINE q == [req[r] EXCEPT !.pc = "authed", !.kind = kind, !.cred = c, !.gen = g]
    <3>0. req[r] \in RequestState /\ g \in Nat
      BY LimitsAssumption DEF TypeOK
    <3>1. q \in RequestState
      BY <3>0 DEF RequestState
    <3>2. req' = [req EXCEPT ![r] = q]
      BY <2>1 DEF AuthenticateRequest, TypeOK
    <3>3. q.cred \in CredentialIds
      BY DEF TypeOK, RequestState
    <3> HIDE DEF q
    <3>4. req' \in [Requests -> RequestState]
      BY <3>1, <3>2 DEF TypeOK
    <3>5. Named'
      BY <2>1, <3>2, <3>3 DEF AuthenticateRequest, Named, TypeOK
    <3> QED BY <2>1, <3>4, <3>5 DEF AuthenticateRequest, TypeOK
  <2>2. CASE RejectRequest(r)
    <3>1. req' \in [Requests -> RequestState]
      BY <2>2 DEF RejectRequest, ReqGoto, TypeOK, RequestState
    <3>2. Named'
      BY <2>2 DEF RejectRequest, ReqGoto, Named, TypeOK, RequestState
    <3> QED BY <2>2, <3>1, <3>2 DEF RejectRequest, TypeOK
  <2>3. CASE AuditUnavailable(r)
    <3>1. req' \in [Requests -> RequestState]
      BY <2>3 DEF AuditUnavailable, ReqGoto, TypeOK, RequestState
    <3>2. Named'
      BY <2>3 DEF AuditUnavailable, ReqGoto, Named, TypeOK, RequestState
    <3> QED BY <2>3, <3>1, <3>2 DEF AuditUnavailable, TypeOK
  <2>4. CASE MutationRefused(r)
    <3>1. req' \in [Requests -> RequestState]
      BY <2>4 DEF MutationRefused, ReqGoto, TypeOK, RequestState
    <3>2. Named'
      BY <2>4 DEF MutationRefused, ReqGoto, Named, TypeOK, RequestState
    <3> QED BY <2>4, <3>1, <3>2 DEF MutationRefused, TypeOK
  <2>5. CASE Respond(r) \/ RevokeRaises(r)
    <3>1. req' \in [Requests -> RequestState]
      BY <2>5 DEF Respond, RevokeRaises, ReqGoto, TypeOK, RequestState
    <3>2. Named'
      BY <2>5 DEF Respond, RevokeRaises, ReqGoto, Named, TypeOK, RequestState
    <3> QED BY <2>5, <3>1, <3>2 DEF Respond, RevokeRaises, TypeOK
  <2>6. CASE CommitRotate(r)
    <3>1. req' \in [Requests -> RequestState]
      BY <2>6 DEF CommitRotate, ReqGoto, TypeOK, RequestState
    <3>2. Named'
      BY <2>6 DEF CommitRotate, ReqGoto, Named, TypeOK, RequestState
    <3> QED BY <2>6, <3>1, <3>2 DEF CommitRotate, TypeOK
  <2>7. ASSUME NEW t \in Stamps, CommitRevoke(r, t)
        PROVE  TypeOK' /\ Named'
    <3>1. req' \in [Requests -> RequestState]
      BY <2>7 DEF CommitRevoke, ReqGoto, TypeOK, RequestState
    <3>2. Named'
      BY <2>7 DEF CommitRevoke, ReqGoto, Named, TypeOK, RequestState
    <3> QED BY <2>7, <3>1, <3>2 DEF CommitRevoke, TypeOK
  <2>8. CASE RecordIntent(r)
    <3>1. req' \in [Requests -> RequestState]
      BY <2>8 DEF RecordIntent, ReqGoto, TypeOK, RequestState
    <3>2. Named'
      BY <2>8 DEF RecordIntent, ReqGoto, Named, TypeOK, RequestState
    <3>3. req[r].cred \in CredentialIds
      BY <2>8 DEF RecordIntent, Named
    <3>4. intents' \in [CredentialIds -> Nat]
      BY <2>8, <3>3 DEF RecordIntent, TypeOK
    <3> QED BY <2>8, <3>1, <3>2, <3>4 DEF RecordIntent, TypeOK
  <2>9. CASE CloseSessions(r)
    <3>1. req[r].cred \in CredentialIds
      BY <2>9 DEF CloseSessions, Named
    <3>2. closing' \in SUBSET Conns
      BY <2>9, <3>1 DEF CloseSessions, TypeOK
    <3>3. req' \in [Requests -> RequestState]
      <4> DEFINE q == [req[r] EXCEPT !.pc = "closing", !.waits = closing']
      <4>1. req[r] \in RequestState
        BY DEF TypeOK
      <4>2. q \in RequestState
        BY <3>2, <4>1 DEF RequestState
      <4>3. req' = [req EXCEPT ![r] = q]
        BY <2>9 DEF CloseSessions, TypeOK
      <4> HIDE DEF q
      <4> QED BY <4>2, <4>3 DEF TypeOK
    <3>4. Named'
      BY <2>9, <3>1 DEF CloseSessions, Named, TypeOK, RequestState
    <3> QED BY <2>9, <3>2, <3>3, <3>4 DEF CloseSessions, TypeOK
  <2> QED BY <1>3, <2>1, <2>2, <2>3, <2>4, <2>5, <2>6, <2>7, <2>8, <2>9 DEF RequestStep
<1>4. ASSUME NEW x \in Conns, RunClose(x)
      PROVE  TypeOK' /\ Named'
  <2>1. conn' \in [Conns -> Handler]
    BY <1>4 DEF RunClose, TypeOK, Handler
  <2>2. Named'
    BY <1>4 DEF RunClose, Named, TypeOK, Handler
  <2> QED BY <1>4, <2>1, <2>2 DEF RunClose, TypeOK
<1>5. CASE HubRestart
  <2>1. conn' \in [Conns -> Handler]
    BY <1>5 DEF Gone, NoCredential, HubRestart, Handler, TypeOK
  <2>2. req' \in [Requests -> RequestState]
    BY <1>5 DEF Gone, NoCredential, HubRestart, RequestState, TypeOK
  <2>3. \A x \in Conns : (conn[x].pc \notin {"new", "ended"} => conn[x].cred \in CredentialIds)'
    BY <1>5 DEF Gone, NoCredential, HubRestart, Named, TypeOK, Handler
  <2>4. \A r \in Requests :
          (req[r].pc \notin {"idle", "refused"} => req[r].cred \in CredentialIds)'
    BY <1>5 DEF Gone, NoCredential, HubRestart, Named, TypeOK, RequestState
  <2>5. Named'
    BY <2>3, <2>4 DEF Named
  <2> QED BY <1>5, <2>1, <2>2, <2>5 DEF HubRestart, TypeOK
<1>6. CASE UNCHANGED vars
  BY <1>6 DEF vars, TypeOK, Named
<1> QED BY <1>1, <1>2, <1>3, <1>4, <1>5, <1>6 DEF Next

(* The Hub starts well typed. *)
LEMMA InitTyped == Init => TypeOK /\ Named
BY DEF Init, TypeOK, Named, StoreInit, StoreTypeOK, Row, Handler, RequestState, NoCredential

(* Every handler, request and index entry keeps its type. *)
THEOREM HubTypeCorrect == Spec => []TypeOK
<1>1. Spec => [](TypeOK /\ Named)
  BY InitTyped, TypeStep, PTL DEF Spec
<1> QED BY <1>1, PTL

(* The Hub's handlers implement the credential store: whatever is          *)
(* interleaved, the table changes only by its own operations.              *)
THEOREM HubImplementsStore == Spec => ImplementsStore
<1>1. Spec => [](TypeOK /\ Named)
  BY InitTyped, TypeStep, PTL DEF Spec
<1>2. Init => StoreInit
  BY DEF Init
<1> QED BY <1>1, <1>2, HubStepsAreStoreSteps, PTL DEF Spec, ImplementsStore, StoreSpec

(* The limits proved of the store hold in the running Hub. *)
THEOREM HubStoreWithinLimits == Spec => []CapacityBounds
BY HubImplementsStore, StoreStaysWithinLimits, PTL DEF ImplementsStore

-----------------------------------------------------------------------------
(* Revocation reaches every session.                                       *)

(* A socket is indexed before it is checked, and leaves the index only when *)
(* its handler ends or its close task is scheduled.                         *)
LEMMA TrackedStep ==
    ASSUME TypeOK, Named, Tracked, [Next]_vars
    PROVE  Tracked'
<1>1. ASSUME NEW c \in CredentialIds, PairDevice(c)
      PROVE  Tracked'
  BY <1>1 DEF PairDevice, hubVars, Tracked, Named, TypeOK, Handler
<1>2. ASSUME NEW x \in Conns, SocketStep(x)
      PROVE  Tracked'
  <2>1. ASSUME NEW c \in CredentialIds, NEW g \in 0 .. MaxGeneration,
               AuthenticateSocket(x, c, g)
        PROVE  Tracked'
    BY <2>1 DEF AuthenticateSocket, Tracked, Named, TypeOK, Handler
  <2>2. CASE RejectSocket(x)
    BY <2>2 DEF Gone, NoCredential, RejectSocket, Tracked, Named, TypeOK, Handler
  <2>3. CASE AcceptAndRegister(x)
    BY <2>3 DEF AcceptAndRegister, Goto, Tracked, Named, TypeOK, Handler
  <2>4. CASE AcceptFails(x)
    BY <2>4 DEF Gone, NoCredential, AcceptFails, Tracked, Named, TypeOK, Handler
  <2>5. CASE ReadIsActive(x)
    BY <2>5 DEF ReadIsActive, Goto, Tracked, Named, TypeOK, Handler
  <2>6. CASE StartServing(x)
    BY <2>6 DEF StartServing, Goto, Tracked, Named, TypeOK, Handler
  <2>7. CASE RefuseInactive(x)
    BY <2>7 DEF Gone, NoCredential, RefuseInactive, Unregister, Tracked, Named, TypeOK, Handler
  <2>8. CASE RefuseInactiveAuditFails(x)
    BY <2>8 DEF RefuseInactiveAuditFails, Tracked, Named, TypeOK, Handler
  <2>9. CASE EndServing(x)
    BY <2>9 DEF Gone, NoCredential, EndServing, Unregister, Tracked, Named, TypeOK, Handler
  <2> QED BY <1>2, <2>1, <2>2, <2>3, <2>4, <2>5, <2>6, <2>7, <2>8, <2>9 DEF SocketStep
<1>3. ASSUME NEW r \in Requests, RequestStep(r)
      PROVE  Tracked'
  <2>1. ASSUME NEW kind \in {"self_revoke", "admin_revoke", "rotate"},
               NEW c \in CredentialIds, NEW g \in 0 .. MaxGeneration,
               AuthenticateRequest(r, kind, c, g)
        PROVE  Tracked'
    BY <2>1 DEF AuthenticateRequest, Tracked, Named, TypeOK, Handler
  <2>2. ASSUME NEW t \in Stamps, CommitRevoke(r, t)
        PROVE  Tracked'
    BY <2>2 DEF CommitRevoke, ReqGoto, Tracked, Named, TypeOK, Handler
  <2>3. CASE RejectRequest(r)
    BY <2>3 DEF RejectRequest, ReqGoto, Tracked, Named, TypeOK, Handler
  <2>4. CASE RecordIntent(r)
    BY <2>4 DEF RecordIntent, ReqGoto, Tracked, Named, TypeOK, Handler
  <2>5. CASE AuditUnavailable(r)
    BY <2>5 DEF AuditUnavailable, ReqGoto, Tracked, Named, TypeOK, Handler
  <2>6. CASE CommitRotate(r)
    BY <2>6 DEF CommitRotate, ReqGoto, Tracked, Named, TypeOK, Handler
  <2>7. CASE MutationRefused(r)
    BY <2>7 DEF MutationRefused, ReqGoto, Tracked, Named, TypeOK, Handler
  <2>8. CASE CloseSessions(r)
    BY <2>8 DEF CloseSessions, Tracked, Named, TypeOK, Handler
  <2>9. CASE Respond(r) \/ RevokeRaises(r)
    BY <2>9 DEF Respond, RevokeRaises, ReqGoto, Tracked, Named, TypeOK, Handler
  <2> QED BY <1>3, <2>1, <2>2, <2>3, <2>4, <2>5, <2>6, <2>7, <2>8, <2>9 DEF RequestStep
<1>4. ASSUME NEW x \in Conns, RunClose(x)
      PROVE  Tracked'
  BY <1>4 DEF RunClose, Tracked, Named, TypeOK, Handler
<1>5. CASE HubRestart
  BY <1>5 DEF Gone, NoCredential, HubRestart, Tracked, Named, TypeOK, Handler
<1>6. CASE UNCHANGED vars
  BY <1>6 DEF vars, Tracked, Named, TypeOK, Handler
<1> QED BY <1>1, <1>2, <1>3, <1>4, <1>5, <1>6 DEF Next

(* Handlers of sockets and close tasks touch neither store nor requests. *)
LEMMA SocketsLeaveRequests ==
    ASSUME NEW x \in Conns, SocketStep(x) \/ RunClose(x)
    PROVE  UNCHANGED <<rows, req, intents>>
BY DEF SocketStep, AuthenticateSocket, RejectSocket, AcceptAndRegister, AcceptFails,
       ReadIsActive, StartServing, RefuseInactive, RefuseInactiveAuditFails, EndServing, RunClose

(* A row that is revoked or pruned stays so: issue() takes unused ids only. *)
LEMMA InactiveIsFinal ==
    ASSUME StoreTypeOK, [StoreNext]_rows, NEW c \in CredentialIds,
           rows[c].status \in {"revoked", "pruned"}
    PROVE  rows'[c].status \in {"revoked", "pruned"}
<1>1. ASSUME NEW d \in CredentialIds, Issue(d)
      PROVE  rows'[c].status \in {"revoked", "pruned"}
  BY <1>1 DEF Issue, InsertRow, StoreTypeOK, Row
<1>2. ASSUME NEW d \in CredentialIds, NEW t \in Stamps, Revoke(d, t)
      PROVE  rows'[c].status \in {"revoked", "pruned"}
  BY <1>2 DEF Revoke, StoreTypeOK, Row
<1>3. ASSUME NEW d \in CredentialIds, NEW g \in 0 .. MaxGeneration, Rotate(d, g)
      PROVE  rows'[c].status \in {"revoked", "pruned"}
  BY <1>3 DEF Rotate, StoreTypeOK, Row
<1> QED BY <1>1, <1>2, <1>3 DEF StoreNext

(* A request that is past its commit in this step was so before, or has    *)
(* just revoked its own credential.                                        *)
LEMMA InactiveStep ==
    ASSUME TypeOK, Named, CommittedMeansInactive, [Next]_vars
    PROVE  CommittedMeansInactive'
<1> SUFFICES ASSUME NEW q \in Requests, IsRevocation(q)',
                    req'[q].pc \in {"committed", "closing", "done"}
             PROVE  rows'[req'[q].cred].status \in {"revoked", "pruned"}
  BY DEF CommittedMeansInactive
<1> DEFINE WasPast == /\ IsRevocation(q) /\ req[q].pc \in {"committed", "closing", "done"}
                      /\ req'[q].cred = req[q].cred
<1>1. ASSUME WasPast
      PROVE  rows'[req'[q].cred].status \in {"revoked", "pruned"}
  <2>1. /\ req[q].cred \in CredentialIds
        /\ rows[req[q].cred].status \in {"revoked", "pruned"}
    BY <1>1 DEF CommittedMeansInactive, Named
  <2>2. [StoreNext]_rows
    BY HubStepsAreStoreSteps
  <2> QED BY <1>1, <2>1, <2>2, InactiveIsFinal DEF TypeOK
<1>2. ASSUME NEW r \in Requests, RequestStep(r)
      PROVE  WasPast \/ \E t \in Stamps : CommitRevoke(q, t)
  <2>1. ASSUME NEW kind \in {"self_revoke", "admin_revoke", "rotate"},
               NEW c \in CredentialIds, NEW g \in 0 .. MaxGeneration,
               AuthenticateRequest(r, kind, c, g)
        PROVE  WasPast
    BY <2>1 DEF AuthenticateRequest, IsRevocation, TypeOK, RequestState
  <2>2. ASSUME NEW t \in Stamps, CommitRevoke(r, t)
        PROVE  WasPast \/ r = q
    BY <2>2 DEF CommitRevoke, ReqGoto, IsRevocation, TypeOK, RequestState
  <2>3. CASE CommitRotate(r)
    BY <2>3 DEF CommitRotate, ReqGoto, IsRevocation, TypeOK, RequestState
  <2>4. CASE RejectRequest(r) \/ RecordIntent(r) \/ AuditUnavailable(r) \/ MutationRefused(r)
    BY <2>4 DEF RejectRequest, RecordIntent, AuditUnavailable, MutationRefused, ReqGoto,
                IsRevocation, TypeOK, RequestState
  <2>5. CASE CloseSessions(r)
    BY <2>5 DEF CloseSessions, IsRevocation, TypeOK, RequestState
  <2>6. CASE Respond(r) \/ RevokeRaises(r)
    BY <2>6 DEF Respond, RevokeRaises, ReqGoto, IsRevocation, TypeOK, RequestState
  <2> QED BY <1>2, <2>1, <2>2, <2>3, <2>4, <2>5, <2>6 DEF RequestStep
<1>3. ASSUME NEW t \in Stamps, CommitRevoke(q, t)
      PROVE  rows'[req'[q].cred].status \in {"revoked", "pruned"}
  <2>1. req[q].cred \in CredentialIds
    BY <1>3 DEF CommitRevoke, Named
  <2> QED BY <1>3, <2>1 DEF CommitRevoke, Revoke, ReqGoto, TypeOK, StoreTypeOK, Row, RequestState
<1>4. CASE \E c \in CredentialIds : PairDevice(c)
  BY <1>1, <1>4 DEF PairDevice, hubVars, IsRevocation
<1>5. CASE \E x \in Conns : SocketStep(x) \/ RunClose(x)
  BY <1>1, <1>5, SocketsLeaveRequests DEF IsRevocation
<1>6. CASE HubRestart
  BY <1>1, <1>6 DEF Gone, NoCredential, HubRestart, IsRevocation, TypeOK, RequestState
<1>7. CASE UNCHANGED vars
  BY <1>1, <1>7 DEF vars, IsRevocation
<1> QED BY <1>1, <1>2, <1>3, <1>4, <1>5, <1>6, <1>7 DEF Next

(* A socket becomes live only through is_active() answering TRUE, and that  *)
(* answer is impossible for a credential whose revocation has committed.    *)
LEMMA CoverStep ==
    ASSUME TypeOK, Named, Tracked, CommittedMeansInactive, WaitsCoverLive, [Next]_vars
    PROVE  WaitsCoverLive'
<1> SUFFICES ASSUME NEW q \in Requests, NEW y \in Conns,
                    IsRevocation(q)', req'[q].pc \in {"closing", "done"},
                    conn'[y].cred = req'[q].cred, Live(y)'
             PROVE  y \in req'[q].waits
  BY DEF WaitsCoverLive
<1>1. ASSUME NEW x \in Conns, SocketStep(x), UNCHANGED req
      PROVE  Live(y) /\ conn'[y].cred = conn[y].cred
  <2> USE DEF Live, TypeOK, Handler
  <2>1. ASSUME NEW c \in CredentialIds, NEW g \in 0 .. MaxGeneration,
               AuthenticateSocket(x, c, g)
        PROVE  Live(y) /\ conn'[y].cred = conn[y].cred
    BY <2>1 DEF AuthenticateSocket
  <2>2. CASE ReadIsActive(x)
    <3>1. rows[req[q].cred].status \in {"revoked", "pruned"}
      BY <1>1 DEF CommittedMeansInactive, IsRevocation
    <3>2. PICK pc \in {"active", "inactive"} :
            /\ conn' = [conn EXCEPT ![x].pc = pc]
            /\ pc = "active" => IsActive(conn[x].cred)
      BY <2>2 DEF ReadIsActive, Goto
    <3>3. conn'[y].cred = conn[y].cred
      BY <3>2
    <3>4. CASE y = x
      BY <1>1, <3>1, <3>2, <3>3, <3>4 DEF IsActive
    <3>5. CASE y # x
      BY <3>2, <3>5
    <3> QED BY <3>3, <3>4, <3>5
  <2>3. CASE StartServing(x)
    BY <2>3 DEF StartServing, Goto
  <2>4. CASE AcceptAndRegister(x)
    BY <2>4 DEF AcceptAndRegister, Goto
  <2>5. CASE RejectSocket(x) \/ AcceptFails(x) \/ RefuseInactive(x)
             \/ RefuseInactiveAuditFails(x) \/ EndServing(x)
    BY <2>5 DEF Gone, NoCredential, RejectSocket, AcceptFails, RefuseInactive,
                RefuseInactiveAuditFails, EndServing
  <2> QED BY <1>1, <2>1, <2>2, <2>3, <2>4, <2>5 DEF SocketStep
<1>2. CASE \E x \in Conns : SocketStep(x)
  BY <1>1, <1>2, SocketsLeaveRequests DEF WaitsCoverLive, IsRevocation
<1>3. ASSUME NEW r \in Requests, RequestStep(r)
      PROVE  y \in req'[q].waits
  <2> USE DEF IsRevocation, Live, TypeOK, RequestState
  <2>1. ASSUME NEW kind \in {"self_revoke", "admin_revoke", "rotate"},
               NEW c \in CredentialIds, NEW g \in 0 .. MaxGeneration,
               AuthenticateRequest(r, kind, c, g)
        PROVE  y \in req'[q].waits
    BY <2>1 DEF AuthenticateRequest, WaitsCoverLive
  <2>2. ASSUME NEW t \in Stamps, CommitRevoke(r, t)
        PROVE  y \in req'[q].waits
    BY <2>2 DEF CommitRevoke, ReqGoto, WaitsCoverLive
  <2>3. CASE CommitRotate(r) \/ RejectRequest(r) \/ RecordIntent(r) \/ AuditUnavailable(r)
             \/ MutationRefused(r)
    BY <2>3 DEF CommitRotate, RejectRequest, RecordIntent, AuditUnavailable, MutationRefused,
                ReqGoto, WaitsCoverLive
  <2>4. CASE CloseSessions(r) /\ r # q
    BY <2>4 DEF CloseSessions, WaitsCoverLive
  <2>5. CASE CloseSessions(q)
    <3>1. req'[q].waits = closing \cup registry[req[q].cred]
      BY <2>5 DEF CloseSessions
    <3>2. Live(y) /\ conn[y].cred = req[q].cred
      BY <2>5 DEF CloseSessions
    <3> QED BY <3>1, <3>2 DEF Tracked
  <2>6. CASE Respond(r)
    BY <2>6 DEF Respond, ReqGoto, WaitsCoverLive
  <2>7. CASE RevokeRaises(r)
    <3>1. r # q
      BY <2>7 DEF RevokeRaises
    <3>2. UNCHANGED conn /\ req'[q] = req[q]
      BY <2>7, <3>1 DEF RevokeRaises
    <3> QED BY <3>2 DEF WaitsCoverLive
  <2> QED BY <1>3, <2>1, <2>2, <2>3, <2>4, <2>5, <2>6, <2>7 DEF RequestStep
<1>4. ASSUME NEW x \in Conns, RunClose(x)
      PROVE  y \in req'[q].waits
  BY <1>4 DEF RunClose, WaitsCoverLive, IsRevocation, Live, TypeOK, Handler
<1>5. CASE \E c \in CredentialIds : PairDevice(c)
  BY <1>5 DEF PairDevice, hubVars, WaitsCoverLive, IsRevocation, Live
<1>6. CASE HubRestart
  BY <1>6 DEF Gone, NoCredential, HubRestart, Live, TypeOK, Handler
<1>7. CASE UNCHANGED vars
  BY <1>7 DEF vars, WaitsCoverLive, IsRevocation, Live
<1> QED BY <1>2, <1>3, <1>4, <1>5, <1>6, <1>7 DEF Next

(* A closed socket stays closed, so what was waited for stays closed. *)
LEMMA CloseStep ==
    ASSUME TypeOK, Named, WaitsClose, [Next]_vars
    PROVE  WaitsClose'
<1> SUFFICES ASSUME NEW q \in Requests, NEW y \in req'[q].waits
             PROVE  /\ req'[q].pc = "closing" => y \in closing' \/ conn'[y].closed
                    /\ req'[q].pc = "done" => conn'[y].closed
  BY DEF WaitsClose
<1>0. y \in Conns
  <2>1. TypeOK'
    BY TypeStep
  <2> QED BY <2>1 DEF TypeOK, RequestState
<1>1. ASSUME NEW x \in Conns, SocketStep(x)
      PROVE  closing' = closing /\ (conn[y].closed => conn'[y].closed)
  <2> USE <1>0 DEF TypeOK, Handler
  <2>1. ASSUME NEW c \in CredentialIds, NEW g \in 0 .. MaxGeneration,
               AuthenticateSocket(x, c, g)
        PROVE  closing' = closing /\ (conn[y].closed => conn'[y].closed)
    BY <2>1 DEF AuthenticateSocket
  <2>2. CASE AcceptAndRegister(x)
    BY <2>2 DEF AcceptAndRegister, Goto
  <2>3. CASE ReadIsActive(x)
    BY <2>3 DEF ReadIsActive, Goto
  <2>4. CASE StartServing(x)
    BY <2>4 DEF StartServing, Goto
  <2>5. CASE RejectSocket(x) \/ AcceptFails(x) \/ RefuseInactive(x)
             \/ RefuseInactiveAuditFails(x) \/ EndServing(x)
    BY <2>5 DEF Gone, NoCredential, RejectSocket, AcceptFails, RefuseInactive,
                RefuseInactiveAuditFails, EndServing
  <2> QED BY <1>1, <2>1, <2>2, <2>3, <2>4, <2>5 DEF SocketStep
<1>2. CASE \E x \in Conns : SocketStep(x)
  BY <1>1, <1>2, SocketsLeaveRequests DEF WaitsClose
<1>3. ASSUME NEW r \in Requests, RequestStep(r)
      PROVE  /\ req'[q].pc = "closing" => y \in closing' \/ conn'[y].closed
             /\ req'[q].pc = "done" => conn'[y].closed
  <2> USE DEF WaitsClose, TypeOK, RequestState
  <2>1. ASSUME NEW kind \in {"self_revoke", "admin_revoke", "rotate"},
               NEW c \in CredentialIds, NEW g \in 0 .. MaxGeneration,
               AuthenticateRequest(r, kind, c, g)
        PROVE  /\ req'[q].pc = "closing" => y \in closing' \/ conn'[y].closed
               /\ req'[q].pc = "done" => conn'[y].closed
    BY <2>1 DEF AuthenticateRequest
  <2>2. ASSUME NEW t \in Stamps, CommitRevoke(r, t)
        PROVE  /\ req'[q].pc = "closing" => y \in closing' \/ conn'[y].closed
               /\ req'[q].pc = "done" => conn'[y].closed
    BY <2>2 DEF CommitRevoke, ReqGoto
  <2>3. CASE CommitRotate(r) \/ RejectRequest(r) \/ RecordIntent(r) \/ AuditUnavailable(r)
             \/ MutationRefused(r)
    BY <2>3 DEF CommitRotate, RejectRequest, RecordIntent, AuditUnavailable, MutationRefused,
                ReqGoto
  <2>4. CASE CloseSessions(r)
    BY <2>4 DEF CloseSessions
  <2>5. CASE Respond(r) \/ RevokeRaises(r)
    BY <2>5 DEF Respond, RevokeRaises, ReqGoto
  <2> QED BY <1>3, <2>1, <2>2, <2>3, <2>4, <2>5 DEF RequestStep
<1>4. ASSUME NEW x \in Conns, RunClose(x)
      PROVE  /\ req'[q].pc = "closing" => y \in closing' \/ conn'[y].closed
             /\ req'[q].pc = "done" => conn'[y].closed
  BY <1>0, <1>4 DEF RunClose, WaitsClose, TypeOK, Handler
<1>5. CASE \E c \in CredentialIds : PairDevice(c)
  BY <1>5 DEF PairDevice, hubVars, WaitsClose
<1>6. CASE HubRestart
  BY <1>0, <1>6 DEF Gone, NoCredential, HubRestart, WaitsClose, TypeOK, Handler, RequestState
<1>7. CASE UNCHANGED vars
  BY <1>7 DEF vars, WaitsClose
<1> QED BY <1>2, <1>3, <1>4, <1>5, <1>6, <1>7 DEF Next

(* Whoever revokes a credential reaches every socket that uses it, at every *)
(* interleaving of connecting, checking, serving, revoking, rotating,       *)
(* pairing and restarting.                                                  *)
THEOREM RevocationReachesAll == Spec => []AccessInv
<1>1. Init => AccessInv
  BY DEF Init, AccessInv, Tracked, CommittedMeansInactive, WaitsCoverLive, WaitsClose,
         IsRevocation, Live
<1>2. TypeOK /\ Named /\ AccessInv /\ [Next]_vars => AccessInv'
  BY TrackedStep, InactiveStep, CoverStep, CloseStep DEF AccessInv
<1> QED BY <1>1, <1>2, InitTyped, TypeStep, PTL DEF Spec

(* An answered revocation leaves no open socket of its credential. *)
THEOREM RevocationIsImmediate == Spec => []RevokedAccessClosed
<1>1. TypeOK /\ AccessInv => RevokedAccessClosed
  BY DEF AccessInv, WaitsCoverLive, WaitsClose, RevokedAccessClosed, Live
<1> QED BY <1>1, RevocationReachesAll, HubTypeCorrect, PTL

-----------------------------------------------------------------------------
(* The index of live sockets.                                              *)

(* Whatever ends a handler takes its socket out of the index, or tears the *)
(* handler down with the socket closed.                                    *)
LEMMA RegistrationStep ==
    ASSUME TypeOK, Named, NoStrayRegistration, [Next]_vars
    PROVE  NoStrayRegistration'
<1> SUFFICES ASSUME NEW d \in CredentialIds, NEW y \in registry'[d]
             PROVE  /\ conn'[y].cred = d
                    /\ conn'[y].pc \in {"checking", "active", "inactive", "serving", "aborted"}
  BY DEF NoStrayRegistration
<1> DEFINE Goal == /\ conn'[y].cred = d
                   /\ conn'[y].pc \in {"checking", "active", "inactive", "serving", "aborted"}
<1>0. y \in Conns
  <2>1. TypeOK'
    BY TypeStep
  <2> QED BY <2>1 DEF TypeOK
<1>1. ASSUME registry'[d] \subseteq registry[d], conn'[y].cred = conn[y].cred,
             conn'[y].pc = conn[y].pc
      PROVE  Goal
  BY <1>1 DEF NoStrayRegistration
<1>2. ASSUME NEW x \in Conns, SocketStep(x)
      PROVE  Goal
  <2> USE <1>0 DEF NoStrayRegistration, TypeOK, Handler
  <2>1. ASSUME NEW c \in CredentialIds, NEW g \in 0 .. MaxGeneration,
               AuthenticateSocket(x, c, g)
        PROVE  Goal
    BY <2>1 DEF AuthenticateSocket
  <2>2. CASE AcceptAndRegister(x)
    BY <2>2 DEF AcceptAndRegister, Goto, Named
  <2>3. CASE RejectSocket(x) \/ AcceptFails(x)
    BY <2>3 DEF Gone, NoCredential, RejectSocket, AcceptFails
  <2>4. CASE ReadIsActive(x) \/ StartServing(x)
    BY <2>4 DEF ReadIsActive, StartServing, Goto
  <2>5. CASE RefuseInactive(x) \/ EndServing(x)
    <3>1. /\ registry' = [registry EXCEPT ![conn[x].cred] = @ \ {x}]
          /\ conn' = [conn EXCEPT ![x] = Gone]
          /\ conn[x].cred \in CredentialIds
      BY <2>5 DEF Gone, NoCredential, RefuseInactive, EndServing, Unregister, Named
    <3>2. y \in registry[d] /\ y # x
      BY <3>1
    <3> QED BY <3>1, <3>2
  <2>6. CASE RefuseInactiveAuditFails(x)
    BY <2>6 DEF RefuseInactiveAuditFails
  <2> QED BY <1>2, <2>1, <2>2, <2>3, <2>4, <2>5, <2>6 DEF SocketStep
<1>3. ASSUME NEW r \in Requests, RequestStep(r)
      PROVE  conn' = conn /\ registry'[d] \subseteq registry[d]
  BY <1>3 DEF RequestStep, AuthenticateRequest, RejectRequest, RecordIntent, AuditUnavailable,
              CommitRevoke, CommitRotate, MutationRefused, CloseSessions, Respond, RevokeRaises,
              TypeOK
<1>4. ASSUME NEW x \in Conns, RunClose(x)
      PROVE  Goal
  BY <1>0, <1>1, <1>4 DEF RunClose, TypeOK, Handler
<1>5. CASE (\E c \in CredentialIds : PairDevice(c)) \/ UNCHANGED vars
  BY <1>1, <1>5 DEF PairDevice, hubVars, vars
<1>6. CASE HubRestart
  BY <1>6 DEF Gone, NoCredential, HubRestart
<1> QED BY <1>1, <1>2, <1>3, <1>4, <1>5, <1>6 DEF Next

(* The index holds no socket under another credential and none of a        *)
(* handler that has ended, at every interleaving and over restarts.        *)
THEOREM IndexIsExact == Spec => []NoStrayRegistration
<1>1. Init => NoStrayRegistration
  BY DEF Init, NoStrayRegistration
<1> QED BY <1>1, InitTyped, TypeStep, RegistrationStep, PTL DEF Spec

-----------------------------------------------------------------------------
(* Counting: requests, announcements and changes of a credential.          *)

Asked(c) == Past(c, {"authed", "recorded", "committed", "closing", "done", "failed", "lost"})
Recorded(c) == Past(c, {"recorded"})
Committed(c) == Past(c, {"committed", "closing", "done", "failed"})
MayHaveCommitted(c) == Past(c, {"committed", "closing", "done", "failed", "lost"})

(* A row that was never issued was never rotated. *)
UnusedIsFresh == \A c \in CredentialIds : rows[c].status = "unused" => rows[c].gen = 0

(* Each announcement pays for one change, and a request that has announced *)
(* and not yet committed still has its announcement to spend.              *)
Counted ==
    \A c \in CredentialIds :
        /\ IsFiniteSet(Asked(c))
        /\ Mutations(c) + Cardinality(Recorded(c)) <= intents[c]
        /\ Cardinality(Committed(c)) <= Mutations(c)
        /\ Mutations(c) <= Cardinality(MayHaveCommitted(c))

CountInv == UnusedIsFresh /\ Counted

(* What the store's operations do to the number of changes of a row. *)
LEMMA IssueCounts ==
    ASSUME StoreTypeOK, UnusedIsFresh, NEW d \in CredentialIds, Issue(d)
    PROVE  UnusedIsFresh' /\ \A c \in CredentialIds : Mutations(c)' = Mutations(c)
<1>1. PICK D \in SUBSET Revoked : InsertRow(d, D)
  BY DEF Issue
<1>2. d \notin D /\ rows[d].status = "unused" /\ rows[d].gen = 0
  BY DEF Issue, Revoked, UnusedIsFresh
<1>3. rows'[d].status = "active" /\ rows'[d].gen = 0
  BY <1>1, <1>2 DEF InsertRow
<1>4. ASSUME NEW c \in CredentialIds \ {d}
      PROVE  /\ rows'[c].gen = rows[c].gen
             /\ \/ rows'[c].status = rows[c].status
                \/ rows[c].status = "revoked" /\ rows'[c].status = "pruned"
  <2>1. rows'[c] = IF c \in D THEN [rows[c] EXCEPT !.status = "pruned"] ELSE rows[c]
    BY <1>1 DEF InsertRow
  <2> QED BY <2>1 DEF StoreTypeOK, Row, Revoked
<1>5. UnusedIsFresh'
  BY <1>3, <1>4 DEF UnusedIsFresh
<1>6. ASSUME NEW c \in CredentialIds
      PROVE  Mutations(c)' = Mutations(c)
  BY <1>2, <1>3, <1>4 DEF Mutations
<1> QED BY <1>5, <1>6

(* revoke() is one mutation of its row and of no other. *)
LEMMA RevokeCounts ==
    ASSUME StoreTypeOK, UnusedIsFresh, NEW d \in CredentialIds, NEW t \in Stamps, Revoke(d, t)
    PROVE  /\ UnusedIsFresh' /\ Mutations(d)' = Mutations(d) + 1
           /\ \A c \in CredentialIds \ {d} : Mutations(c)' = Mutations(c)
<1>1. /\ rows[d].status = "active" /\ rows'[d].status = "revoked" /\ rows'[d].gen = rows[d].gen
      /\ rows[d].gen \in Nat
      /\ \A c \in CredentialIds \ {d} : rows'[c] = rows[c]
  BY DEF Revoke, IsActive, StoreTypeOK, Row
<1> QED BY <1>1 DEF UnusedIsFresh, Mutations

(* rotate() is one mutation of its row and of no other. *)
LEMMA RotateCounts ==
    ASSUME StoreTypeOK, UnusedIsFresh, NEW d \in CredentialIds, NEW g, Rotate(d, g)
    PROVE  /\ UnusedIsFresh' /\ Mutations(d)' = Mutations(d) + 1
           /\ \A c \in CredentialIds \ {d} : Mutations(c)' = Mutations(c)
<1>1. /\ rows[d].status = "active" /\ rows'[d].status = "active"
      /\ rows'[d].gen = rows[d].gen + 1 /\ rows[d].gen \in Nat
      /\ \A c \in CredentialIds \ {d} : rows'[c] = rows[c]
  BY DEF Rotate, Authenticates, IsActive, StoreTypeOK, Row
<1> QED BY <1>1 DEF UnusedIsFresh, Mutations

(* One request changes state and keeps its credential. *)
Moves(r) ==
    /\ \A q \in Requests \ {r} : req'[q] = req[q]
    /\ req'[r].cred = req[r].cred

(* What a move of one request does to a set of requests by state. *)
LEMMA PastMove ==
    ASSUME NEW r \in Requests, Moves(r), NEW c, NEW pcs
    PROVE  /\ req[r].cred # c => Past(c, pcs)' = Past(c, pcs)
           /\ (req[r].pc \in pcs <=> req'[r].pc \in pcs) => Past(c, pcs)' = Past(c, pcs)
           /\ req[r].cred = c /\ req[r].pc \in pcs /\ req'[r].pc \notin pcs =>
                r \in Past(c, pcs) /\ Past(c, pcs)' = Past(c, pcs) \ {r}
           /\ req[r].cred = c /\ req[r].pc \notin pcs /\ req'[r].pc \in pcs =>
                r \notin Past(c, pcs) /\ Past(c, pcs)' = Past(c, pcs) \cup {r}
BY DEF Past, Moves

(* Continuing a request, and popping the index, are such moves. *)
LEMMA RequestMoves ==
    ASSUME TypeOK, NEW r \in Requests
    PROVE  /\ \A pc : ReqGoto(r, pc) => Moves(r) /\ req'[r].pc = pc
           /\ CloseSessions(r) => Moves(r) /\ req'[r].pc = "closing"
           /\ RevokeRaises(r) => Moves(r) /\ req'[r].pc = "failed"
BY DEF ReqGoto, CloseSessions, RevokeRaises, Moves, TypeOK, RequestState

(* The sets that are counted are finite: only finitely many requests have  *)
(* been answered the question who they are.                                *)
LEMMA CountedSets ==
    ASSUME NEW c, IsFiniteSet(Asked(c))
    PROVE  /\ IsFiniteSet(Recorded(c)) /\ Cardinality(Recorded(c)) \in Nat
           /\ IsFiniteSet(Committed(c)) /\ Cardinality(Committed(c)) \in Nat
           /\ IsFiniteSet(MayHaveCommitted(c)) /\ Cardinality(MayHaveCommitted(c)) \in Nat
<1>1. /\ Recorded(c) \subseteq Asked(c) /\ Committed(c) \subseteq Asked(c)
      /\ MayHaveCommitted(c) \subseteq Asked(c)
  BY DEF Recorded, Committed, MayHaveCommitted, Asked, Past
<1> QED BY <1>1, FS_Subset, FS_CardinalityType

CountedFor(c) ==
    /\ IsFiniteSet(Asked(c))
    /\ Mutations(c) + Cardinality(Recorded(c)) <= intents[c]
    /\ Cardinality(Committed(c)) <= Mutations(c)
    /\ Mutations(c) <= Cardinality(MayHaveCommitted(c))

(* The number of mutations of a row is a natural number. *)
LEMMA MutationsType ==
    ASSUME StoreTypeOK, NEW c \in CredentialIds
    PROVE  Mutations(c) \in Nat
<1>1. rows[c].gen \in Nat
  BY DEF StoreTypeOK, Row
<1> QED BY <1>1 DEF Mutations

(* A request that only moves on, without announcing or committing. *)
LEMMA MoveCounts ==
    ASSUME TypeOK, Counted, NEW r \in Requests, Moves(r), UNCHANGED <<rows, intents>>,
           \/ req[r].pc \in {"idle", "authed", "recorded"} /\ req'[r].pc = "refused"
           \/ req[r].pc = "committed" /\ req'[r].pc = "closing"
           \/ req[r].pc = "closing" /\ req'[r].pc \in {"done", "failed"}
    PROVE  Counted'
<1> SUFFICES ASSUME NEW c \in CredentialIds PROVE CountedFor(c)'
  BY DEF Counted, CountedFor
<1>1. CountedFor(c)
  BY DEF Counted, CountedFor
<1>2. /\ Committed(c)' = Committed(c) /\ MayHaveCommitted(c)' = MayHaveCommitted(c)
  BY PastMove DEF Committed, MayHaveCommitted
<1>3. Asked(c)' \subseteq Asked(c) /\ Recorded(c)' \subseteq Recorded(c)
  <2>1. Asked(c)' \subseteq Asked(c)
    BY PastMove DEF Asked
  <2>2. Recorded(c)' \subseteq Recorded(c)
    BY PastMove DEF Recorded
  <2> QED BY <2>1, <2>2
<1>4. IsFiniteSet(Asked(c)')
  BY <1>1, <1>3, FS_Subset DEF CountedFor
<1>5. /\ IsFiniteSet(Recorded(c)) /\ Cardinality(Recorded(c)) \in Nat
      /\ Mutations(c) \in Nat /\ intents[c] \in Nat
  BY <1>1, CountedSets, MutationsType DEF CountedFor, TypeOK
<1>6. Cardinality(Recorded(c)') <= Cardinality(Recorded(c)) /\ Cardinality(Recorded(c)') \in Nat
  BY <1>3, <1>5, FS_Subset, FS_CardinalityType
<1>7. Mutations(c)' = Mutations(c)
  BY DEF Mutations
<1>8. Mutations(c)' + Cardinality(Recorded(c)') <= intents'[c]
  BY <1>1, <1>5, <1>6, <1>7 DEF CountedFor
<1> QED BY <1>1, <1>2, <1>4, <1>7, <1>8 DEF CountedFor

(* A request that commits: the change it makes was announced by itself. *)
LEMMA CommitCounts ==
    ASSUME TypeOK, Counted, NEW r \in Requests, Moves(r), UNCHANGED intents,
           req[r].cred \in CredentialIds,
           req[r].pc = "recorded", req'[r].pc = "committed",
           \A c \in CredentialIds :
              Mutations(c)' = IF c = req[r].cred THEN Mutations(c) + 1 ELSE Mutations(c)
    PROVE  Counted'
<1> SUFFICES ASSUME NEW c \in CredentialIds PROVE CountedFor(c)'
  BY DEF Counted, CountedFor
<1>1. CountedFor(c)
  BY DEF Counted, CountedFor
<1>2. /\ IsFiniteSet(Recorded(c)) /\ Cardinality(Recorded(c)) \in Nat
      /\ IsFiniteSet(Committed(c)) /\ Cardinality(Committed(c)) \in Nat
      /\ IsFiniteSet(MayHaveCommitted(c)) /\ Cardinality(MayHaveCommitted(c)) \in Nat
      /\ Mutations(c) \in Nat /\ intents[c] \in Nat
  BY <1>1, CountedSets, MutationsType DEF CountedFor, TypeOK
<1>3. Asked(c)' = Asked(c)
  BY PastMove DEF Asked
<1>4. CASE c # req[r].cred
  <2>1. /\ Committed(c)' = Committed(c) /\ MayHaveCommitted(c)' = MayHaveCommitted(c)
        /\ Recorded(c)' = Recorded(c)
    BY <1>4, PastMove DEF Committed, MayHaveCommitted, Recorded
  <2>2. Mutations(c)' = Mutations(c)
    BY <1>4
  <2> QED BY <1>1, <1>3, <2>1, <2>2 DEF CountedFor
<1>5. CASE c = req[r].cred
  <2>1. r \notin Committed(c) /\ Committed(c)' = Committed(c) \cup {r}
    BY <1>5, PastMove DEF Committed
  <2>2. r \notin MayHaveCommitted(c) /\ MayHaveCommitted(c)' = MayHaveCommitted(c) \cup {r}
    BY <1>5, PastMove DEF MayHaveCommitted
  <2>3. r \in Recorded(c) /\ Recorded(c)' = Recorded(c) \ {r}
    BY <1>5, PastMove DEF Recorded
  <2>4. /\ Cardinality(Committed(c)') = Cardinality(Committed(c)) + 1
        /\ Cardinality(MayHaveCommitted(c)') = Cardinality(MayHaveCommitted(c)) + 1
        /\ Cardinality(Recorded(c)') = Cardinality(Recorded(c)) - 1
    <3>1. Cardinality(Committed(c)') = Cardinality(Committed(c)) + 1
      BY <1>2, <2>1, FS_AddElement
    <3>2. Cardinality(MayHaveCommitted(c)') = Cardinality(MayHaveCommitted(c)) + 1
      BY <1>2, <2>2, FS_AddElement
    <3>3. Cardinality(Recorded(c)') = Cardinality(Recorded(c)) - 1
      BY <1>2, <2>3, FS_RemoveElement
    <3> QED BY <3>1, <3>2, <3>3
  <2>5. Mutations(c)' = Mutations(c) + 1
    BY <1>5
  <2> QED BY <1>1, <1>2, <1>3, <2>4, <2>5 DEF CountedFor
<1> QED BY <1>4, <1>5

(* A request that announces itself. *)
LEMMA AnnounceCounts ==
    ASSUME TypeOK, Counted, Named, NEW r \in Requests, RecordIntent(r)
    PROVE  Counted'
<1> SUFFICES ASSUME NEW c \in CredentialIds PROVE CountedFor(c)'
  BY DEF Counted, CountedFor
<1>1. CountedFor(c)
  BY DEF Counted, CountedFor
<1>2. /\ Moves(r) /\ req[r].pc = "authed" /\ req'[r].pc = "recorded" /\ UNCHANGED rows
      /\ req[r].cred \in CredentialIds
  BY RequestMoves DEF RecordIntent, Named
<1>3. /\ IsFiniteSet(Recorded(c)) /\ Cardinality(Recorded(c)) \in Nat
      /\ Mutations(c) \in Nat /\ intents[c] \in Nat
  BY <1>1, CountedSets, MutationsType DEF CountedFor, TypeOK
<1>4. /\ Asked(c)' = Asked(c) /\ Committed(c)' = Committed(c)
      /\ MayHaveCommitted(c)' = MayHaveCommitted(c)
  BY <1>2, PastMove DEF Asked, Committed, MayHaveCommitted
<1>5. Mutations(c)' = Mutations(c)
  BY <1>2 DEF Mutations
<1>6. Mutations(c)' + Cardinality(Recorded(c)') <= intents'[c]
  <2>1. CASE c # req[r].cred
    <3>1. Recorded(c)' = Recorded(c) /\ intents'[c] = intents[c]
      BY <1>2, <2>1, PastMove DEF Recorded, RecordIntent, TypeOK
    <3> QED BY <1>1, <1>5, <3>1 DEF CountedFor
  <2>2. CASE c = req[r].cred
    <3>1. r \notin Recorded(c) /\ Recorded(c)' = Recorded(c) \cup {r}
      BY <1>2, <2>2, PastMove DEF Recorded
    <3>2. Cardinality(Recorded(c)') = Cardinality(Recorded(c)) + 1
      BY <1>3, <3>1, FS_AddElement
    <3>3. intents'[c] = intents[c] + 1
      BY <2>2 DEF RecordIntent, TypeOK
    <3> QED BY <1>1, <1>3, <1>5, <3>2, <3>3 DEF CountedFor
  <2> QED BY <2>1, <2>2
<1> QED BY <1>1, <1>4, <1>5, <1>6 DEF CountedFor

(* A request that learns its credential is counted nowhere yet. *)
LEMMA AuthenticateCounts ==
    ASSUME TypeOK, Counted, NEW r \in Requests,
           NEW kind \in {"self_revoke", "admin_revoke", "rotate"}, NEW d \in CredentialIds,
           NEW g \in 0 .. MaxGeneration, AuthenticateRequest(r, kind, d, g)
    PROVE  Counted'
<1> SUFFICES ASSUME NEW c \in CredentialIds PROVE CountedFor(c)'
  BY DEF Counted, CountedFor
<1>1. CountedFor(c)
  BY DEF Counted, CountedFor
<1>2. /\ req[r].pc = "idle" /\ req'[r].pc = "authed" /\ UNCHANGED <<rows, intents>>
      /\ \A q \in Requests \ {r} : req'[q] = req[q]
  BY DEF AuthenticateRequest, TypeOK, RequestState
<1>3. Recorded(c)' = Recorded(c)
  BY <1>2 DEF Recorded, Past
<1>4. Committed(c)' = Committed(c)
  BY <1>2 DEF Committed, Past
<1>5. MayHaveCommitted(c)' = MayHaveCommitted(c)
  BY <1>2 DEF MayHaveCommitted, Past
<1>6. IsFiniteSet(Asked(c)')
  <2>1. Asked(c)' \subseteq Asked(c) \cup {r}
    BY <1>2 DEF Asked, Past
  <2>2. IsFiniteSet(Asked(c) \cup {r})
    BY <1>1, FS_AddElement DEF CountedFor
  <2> QED BY <2>1, <2>2, FS_Subset
<1>7. Mutations(c)' = Mutations(c)
  BY <1>2 DEF Mutations
<1> QED BY <1>1, <1>2, <1>3, <1>4, <1>5, <1>6, <1>7 DEF CountedFor

(* Every step keeps the counts of announced and committed requests. *)
LEMMA CountStep ==
    ASSUME TypeOK, Named, CountInv, [Next]_vars
    PROVE  CountInv'
<1> USE DEF CountInv
<1>1. ASSUME NEW d \in CredentialIds, PairDevice(d)
      PROVE  CountInv'
  <2>1. UnusedIsFresh' /\ \A c \in CredentialIds : Mutations(c)' = Mutations(c)
    BY <1>1, IssueCounts DEF PairDevice, TypeOK
  <2>2. UNCHANGED <<req, intents>>
    BY <1>1 DEF PairDevice, hubVars
  <2>3. \A c \in CredentialIds : CountedFor(c) => CountedFor(c)'
    BY <2>1, <2>2 DEF CountedFor, Asked, Recorded, Committed, MayHaveCommitted, Past
  <2> QED BY <2>1, <2>3 DEF Counted, CountedFor
<1>2. CASE UNCHANGED <<rows, req, intents>>
  BY <1>2 DEF UnusedIsFresh, Counted, Asked, Recorded, Committed, MayHaveCommitted, Past,
              Mutations
<1>3. ASSUME NEW r \in Requests, RequestStep(r)
      PROVE  CountInv'
  <2>1. ASSUME NEW kind \in {"self_revoke", "admin_revoke", "rotate"},
               NEW c \in CredentialIds, NEW g \in 0 .. MaxGeneration,
               AuthenticateRequest(r, kind, c, g)
        PROVE  CountInv'
    BY <2>1, AuthenticateCounts DEF AuthenticateRequest, UnusedIsFresh
  <2>2. CASE RejectRequest(r) \/ AuditUnavailable(r) \/ MutationRefused(r) \/ CloseSessions(r)
             \/ Respond(r) \/ RevokeRaises(r)
    <3>1. /\ Moves(r) /\ UNCHANGED <<rows, intents>>
          /\ \/ req[r].pc \in {"idle", "authed", "recorded"} /\ req'[r].pc = "refused"
             \/ req[r].pc = "committed" /\ req'[r].pc = "closing"
             \/ req[r].pc = "closing" /\ req'[r].pc \in {"done", "failed"}
      BY <2>2, RequestMoves DEF RejectRequest, AuditUnavailable, MutationRefused, CloseSessions,
                                Respond, RevokeRaises
    <3>2. Counted'
      BY <3>1, MoveCounts
    <3> QED BY <3>1, <3>2 DEF UnusedIsFresh
  <2>3. CASE RecordIntent(r)
    BY <2>3, AnnounceCounts DEF RecordIntent, UnusedIsFresh
  <2>4. ASSUME NEW t \in Stamps, CommitRevoke(r, t)
        PROVE  CountInv'
    <3>1. PICK d \in CredentialIds : d = req[r].cred
      BY <2>4 DEF CommitRevoke, Named
    <3>2. /\ Moves(r) /\ UNCHANGED intents
          /\ req[r].pc = "recorded" /\ req'[r].pc = "committed"
      BY <2>4, RequestMoves DEF CommitRevoke
    <3>3. /\ UnusedIsFresh' /\ Mutations(d)' = Mutations(d) + 1
          /\ \A c \in CredentialIds \ {d} : Mutations(c)' = Mutations(c)
      BY <2>4, <3>1, RevokeCounts DEF CommitRevoke, TypeOK
    <3>4. \A c \in CredentialIds :
            Mutations(c)' = IF c = req[r].cred THEN Mutations(c) + 1 ELSE Mutations(c)
      BY <3>1, <3>3
    <3> QED BY <3>1, <3>2, <3>3, <3>4, CommitCounts
  <2>5. CASE CommitRotate(r)
    <3>1. PICK d \in CredentialIds : d = req[r].cred
      BY <2>5 DEF CommitRotate, Named
    <3>2. /\ Moves(r) /\ UNCHANGED intents
          /\ req[r].pc = "recorded" /\ req'[r].pc = "committed"
      BY <2>5, RequestMoves DEF CommitRotate
    <3>3. PICK g \in Nat : Rotate(d, g)
      BY <2>5, <3>1 DEF CommitRotate, TypeOK, RequestState
    <3>4. /\ UnusedIsFresh' /\ Mutations(d)' = Mutations(d) + 1
          /\ \A c \in CredentialIds \ {d} : Mutations(c)' = Mutations(c)
      BY <3>3, RotateCounts DEF TypeOK
    <3>5. \A c \in CredentialIds :
            Mutations(c)' = IF c = req[r].cred THEN Mutations(c) + 1 ELSE Mutations(c)
      BY <3>1, <3>4
    <3> QED BY <3>1, <3>2, <3>4, <3>5, CommitCounts
  <2> QED BY <1>3, <2>1, <2>2, <2>3, <2>4, <2>5 DEF RequestStep
<1>4. CASE HubRestart
  <2>1. /\ \A r \in Requests : /\ req'[r].cred = req[r].cred
                               /\ req'[r].pc = IF req[r].pc \in {"idle", "done", "failed",
                                                                 "refused"} THEN req[r].pc ELSE "lost"
        /\ UNCHANGED <<rows, intents>>
    BY <1>4 DEF HubRestart, TypeOK, RequestState
  <2>2. ASSUME NEW c \in CredentialIds
        PROVE  CountedFor(c)'
    <3>1. CountedFor(c)
      BY DEF Counted, CountedFor
    <3>2. /\ IsFiniteSet(Recorded(c)) /\ Cardinality(Recorded(c)) \in Nat
          /\ IsFiniteSet(Committed(c)) /\ Cardinality(Committed(c)) \in Nat
          /\ IsFiniteSet(MayHaveCommitted(c)) /\ Cardinality(MayHaveCommitted(c)) \in Nat
          /\ Mutations(c) \in Nat /\ intents[c] \in Nat
      BY <3>1, CountedSets, MutationsType DEF CountedFor, TypeOK
    <3>3. Asked(c)' = Asked(c)
      <4>1. \A r \in Requests : req[r].pc \in {"idle", "authed", "recorded", "committed",
                                              "closing", "done", "failed", "refused", "lost"}
        BY DEF TypeOK, RequestState
      <4> QED BY <2>1, <4>1 DEF Asked, Past
    <3>4. Recorded(c)' = {}
      BY <2>1 DEF Recorded, Past
    <3>5. Committed(c)' \subseteq Committed(c)
      BY <2>1 DEF Committed, Past
    <3>6. MayHaveCommitted(c) \subseteq MayHaveCommitted(c)'
      BY <2>1 DEF MayHaveCommitted, Past
    <3>7. IsFiniteSet(MayHaveCommitted(c)') /\ Cardinality(MayHaveCommitted(c)') \in Nat
      <4>1. MayHaveCommitted(c)' \subseteq Asked(c)
        BY <3>3 DEF MayHaveCommitted, Asked, Past
      <4> QED BY <3>1, <4>1, FS_Subset, FS_CardinalityType DEF CountedFor
    <3>8. Cardinality(Recorded(c)') = 0
      BY <3>4, FS_EmptySet
    <3>9. Cardinality(Committed(c)') <= Cardinality(Committed(c))
          /\ Cardinality(Committed(c)') \in Nat
      BY <3>2, <3>5, FS_Subset, FS_CardinalityType
    <3>10. Cardinality(MayHaveCommitted(c)) <= Cardinality(MayHaveCommitted(c)')
      BY <3>6, <3>7, FS_Subset
    <3>11. Mutations(c)' = Mutations(c)
      BY <2>1 DEF Mutations
    <3> QED BY <2>1, <3>1, <3>2, <3>3, <3>7, <3>8, <3>9, <3>10, <3>11 DEF CountedFor
  <2>3. Counted'
    BY <2>2 DEF Counted, CountedFor
  <2> QED BY <2>1, <2>3 DEF UnusedIsFresh
<1> QED BY <1>1, <1>2, <1>3, <1>4, SocketsLeaveRequests DEF Next, vars

(* Nothing is announced, committed or mutated at the start. *)
LEMMA InitCounted == Init => CountInv
<1> SUFFICES ASSUME Init PROVE CountInv
  OBVIOUS
<1>1. UnusedIsFresh
  BY DEF Init, StoreInit, UnusedIsFresh
<1>2. ASSUME NEW c \in CredentialIds
      PROVE  CountedFor(c)
  <2>1. Asked(c) = {} /\ Recorded(c) = {} /\ Committed(c) = {} /\ MayHaveCommitted(c) = {}
    BY DEF Init, Asked, Recorded, Committed, MayHaveCommitted, Past
  <2>2. Mutations(c) = 0 /\ intents[c] = 0
    BY DEF Init, StoreInit, Mutations
  <2>3. IsFiniteSet({}) /\ Cardinality({}) = 0
    BY FS_EmptySet
  <2> QED BY <2>1, <2>2, <2>3 DEF CountedFor
<1> QED BY <1>1, <1>2 DEF CountInv, Counted, CountedFor

(* Every change of a credential is paid for by its own announcement and    *)
(* belongs to one request that has committed or was cut off by a crash.    *)
THEOREM ChangesAreCounted == Spec => [](TypeOK /\ CountInv)
BY InitTyped, InitCounted, TypeStep, CountStep, PTL DEF Spec

(* Every rotation and revocation was announced in the audit log first.     *)
THEOREM ChangesAreAnnounced == Spec => []MutationsAreAnnounced
<1>1. TypeOK /\ CountInv => MutationsAreAnnounced
  <2> SUFFICES ASSUME TypeOK, CountInv, NEW c \in CredentialIds
               PROVE  Mutations(c) <= intents[c]
    BY DEF MutationsAreAnnounced
  <2>1. /\ IsFiniteSet(Asked(c))
        /\ Mutations(c) + Cardinality(Recorded(c)) <= intents[c]
    BY DEF CountInv, Counted
  <2>2. Cardinality(Recorded(c)) \in Nat /\ Mutations(c) \in Nat /\ intents[c] \in Nat
    BY <2>1, CountedSets, MutationsType DEF TypeOK
  <2> QED BY <2>1, <2>2
<1> QED BY <1>1, ChangesAreCounted, PTL

(* A success answer, and the 500 of an exception out of on_revoke, stand   *)
(* for exactly one change of the credential and an error answer of the     *)
(* route for none, crashes apart.                                          *)
THEOREM AnswersAreTrue == Spec => []AnswersMatchStore
<1>1. CountInv => AnswersMatchStore
  BY DEF CountInv, Counted, AnswersMatchStore, Committed, MayHaveCommitted
<1> QED BY <1>1, ChangesAreCounted, PTL
=============================================================================
