--------------------------- MODULE PairingService ---------------------------
(***************************************************************************)
(* Pairing a device: an administrator begins a challenge, a device redeems *)
(* it for a credential (pairing.py, the challenge and redeem handlers of   *)
(* pairing_api.py).  Challenges live in memory, credentials in the store.  *)
(*                                                                         *)
(* complete() decides under its lock and then awaits the worker thread     *)
(* that inserts the row, so a redemption is two steps and a crash, another *)
(* redemption or a revocation can come between them.                       *)
(***************************************************************************)
EXTENDS CredentialStore

CONSTANTS
    Challenges,    \* challenge ids that begin() can mint
    Redeemers,     \* POST /pairing/v1/redeem requests
    MaxPending,    \* MAX_PENDING_CHALLENGES (3)
    MaxFailures,   \* MAX_CHALLENGE_FAILURES (5)
    Ttl,           \* challenge_ttl_seconds, in ticks
    MaxTime        \* bound on the clock

ASSUME PairingAssumption ==
    /\ MaxPending \in Nat /\ MaxFailures \in Nat \ {0}
    /\ Ttl \in Nat \ {0} /\ MaxTime \in Nat

VARIABLES
    pending,    \* challenge -> its _PendingChallenge; failed survives for the properties
    redeem,     \* request -> its handler
    now,
    requested   \* "challenge.redeem_requested" events in the audit log

pairingVars == <<rows, pending, redeem, now, requested>>

Challenge == [status : {"unused", "pending", "gone"}, expires : Nat, failed : Nat,
              disclosed : BOOLEAN]

(* issuing: the challenge is taken and the insert awaited; issued: the row is *)
(* committed and the answer not sent yet.                                     *)
Redemption == [pc : {"idle", "issuing", "issued", "done", "refused", "lost"},
               challenge : Challenges \cup {"none"}, cred : CredentialIds \cup {0}]

PairingInit ==
    /\ StoreInit
    /\ pending = [k \in Challenges |-> [status |-> "unused", expires |-> 0, failed |-> 0,
                                        disclosed |-> FALSE]]
    /\ redeem = [p \in Redeemers |-> [pc |-> "idle", challenge |-> "none", cred |-> 0]]
    /\ now = 0
    /\ requested = 0

Pending == {k \in Challenges : pending[k].status = "pending"}
Expired(k) == now >= pending[k].expires
Unexpired == {k \in Pending : ~Expired(k)}

-----------------------------------------------------------------------------
(* begin()                                                                 *)

PruneExpired ==
    [k \in Challenges |->
       IF k \in Pending \ Unexpired THEN [pending[k] EXCEPT !.status = "gone"] ELSE pending[k]]

(* The fail-closed audit event follows begin(): when it cannot be written  *)
(* the administrator gets an error and never sees the token, and the       *)
(* challenge holds its place until it expires.                             *)
BeginChallenge(k) ==
    /\ pending[k].status = "unused"
    /\ Cardinality(Unexpired) < MaxPending
    /\ \E shown \in BOOLEAN :
         pending' = [PruneExpired EXCEPT ![k] =
                       [status |-> "pending", expires |-> now + Ttl, failed |-> 0,
                        disclosed |-> shown]]
    /\ UNCHANGED <<rows, redeem, now, requested>>

BeginBusy ==
    /\ Cardinality(Unexpired) >= MaxPending
    /\ pending' = PruneExpired
    /\ UNCHANGED <<rows, redeem, now, requested>>

-----------------------------------------------------------------------------
(* The redeem handler and complete().                                      *)

(* The body is malformed or the audit store is not ready. *)
RedeemRefused(p) ==
    /\ redeem[p].pc = "idle"
    /\ redeem' = [redeem EXCEPT ![p].pc = "refused"]
    /\ UNCHANGED <<rows, pending, now, requested>>

(* The request is announced, then its approval key does not decode. *)
RedeemBadKey(p) ==
    /\ redeem[p].pc = "idle"
    /\ redeem' = [redeem EXCEPT ![p].pc = "refused"]
    /\ requested' = requested + 1
    /\ UNCHANGED <<rows, pending, now>>

(* Unknown, taken or expired; an expired one is dropped. *)
RedeemInvalid(p, k) ==
    /\ redeem[p].pc = "idle"
    /\ k \notin Unexpired
    /\ pending' = [pending EXCEPT ![k].status = IF @ = "pending" THEN "gone" ELSE @]
    /\ redeem' = [redeem EXCEPT ![p].pc = "refused", ![p].challenge = k]
    /\ requested' = requested + 1
    /\ UNCHANGED <<rows, now>>

RedeemWrongToken(p, k) ==
    /\ redeem[p].pc = "idle"
    /\ k \in Unexpired
    /\ pending' = [pending EXCEPT
                     ![k].failed = @ + 1,
                     ![k].status = IF pending[k].failed + 1 >= MaxFailures THEN "gone" ELSE @]
    /\ redeem' = [redeem EXCEPT ![p].pc = "refused", ![p].challenge = k]
    /\ requested' = requested + 1
    /\ UNCHANGED <<rows, now>>

(* Slip: the challenge is dropped only when the credential has been issued. *)
RedeemRightTokenKept(p, k) ==
    /\ redeem[p].pc = "idle"
    /\ k \in Unexpired /\ pending[k].disclosed
    /\ redeem' = [redeem EXCEPT ![p].pc = "issuing", ![p].challenge = k]
    /\ requested' = requested + 1
    /\ UNCHANGED <<rows, pending, now>>

(* The challenge is taken before the insert, so it is spent even if the    *)
(* insert fails.                                                           *)
RedeemRightToken(p, k) ==
    /\ redeem[p].pc = "idle"
    /\ k \in Unexpired /\ pending[k].disclosed
    /\ pending' = [pending EXCEPT ![k].status = "gone"]
    /\ redeem' = [redeem EXCEPT ![p].pc = "issuing", ![p].challenge = k]
    /\ requested' = requested + 1
    /\ UNCHANGED <<rows, now>>

IssueCredential(p, c) ==
    /\ redeem[p].pc = "issuing"
    /\ Issue(c)
    /\ redeem' = [redeem EXCEPT ![p].pc = "issued", ![p].cred = c]
    /\ UNCHANGED <<pending, now, requested>>

(* Slip: a failed insert is retried by a new attempt of the same request. *)
IssueFailsRetried(p) ==
    /\ redeem[p].pc \in {"issuing", "issued"}
    /\ redeem' = [redeem EXCEPT ![p].pc = "issuing"]
    /\ UNCHANGED <<rows, pending, now, requested>>

(* Capacity, metadata or store error: nothing was inserted. *)
IssueFails(p) ==
    /\ redeem[p].pc = "issuing"
    /\ redeem' = [redeem EXCEPT ![p].pc = "refused"]
    /\ UNCHANGED <<rows, pending, now, requested>>

(* The completion event is best effort. *)
RespondRedeemed(p) ==
    /\ redeem[p].pc = "issued"
    /\ redeem' = [redeem EXCEPT ![p].pc = "done"]
    /\ UNCHANGED <<rows, pending, now, requested>>

-----------------------------------------------------------------------------
RevokeCredential(c, t) == Revoke(c, t) /\ UNCHANGED <<pending, redeem, now, requested>>

Tick ==
    /\ now < MaxTime
    /\ now' = now + 1
    /\ UNCHANGED <<rows, pending, redeem, requested>>

(* Challenges and handlers die with the process, the two databases do not. *)
PairingRestart ==
    /\ pending' = [k \in Challenges |->
                     IF k \in Pending THEN [pending[k] EXCEPT !.status = "gone"] ELSE pending[k]]
    /\ redeem' = [p \in Redeemers |->
                    IF redeem[p].pc \in {"issuing", "issued"}
                    THEN [redeem[p] EXCEPT !.pc = "lost"] ELSE redeem[p]]
    /\ UNCHANGED <<rows, now, requested>>

RedeemStep(p) ==
    \/ RedeemRefused(p)
    \/ RedeemBadKey(p)
    \/ \E k \in Challenges :
         RedeemInvalid(p, k) \/ RedeemWrongToken(p, k) \/ RedeemRightToken(p, k)
    \/ \E c \in CredentialIds : IssueCredential(p, c)
    \/ IssueFails(p)
    \/ RespondRedeemed(p)

PairingNext ==
    \/ \E k \in Challenges : BeginChallenge(k)
    \/ BeginBusy
    \/ \E p \in Redeemers : RedeemStep(p)
    \/ \E c \in CredentialIds, t \in Stamps : RevokeCredential(c, t)
    \/ Tick
    \/ PairingRestart

PairingSpec == PairingInit /\ [][PairingNext]_pairingVars

-----------------------------------------------------------------------------
(* Properties.                                                             *)

PairingTypeOK ==
    /\ StoreTypeOK
    /\ pending \in [Challenges -> Challenge]
    /\ redeem \in [Redeemers -> Redemption]
    /\ now \in 0 .. MaxTime
    /\ requested \in Nat

Minted == {c \in CredentialIds \ LegacyIds : rows[c].status # "unused"}
Winners == {p \in Redeemers : redeem[p].cred # 0}

(* A challenge buys at most one credential, however many devices redeem it *)
(* at once and whatever fails or crashes between the pop and the insert,   *)
(* and no credential exists that no redemption paid for or that was not    *)
(* announced in the audit log first.                                       *)
OneCredentialPerChallenge ==
    /\ \A p, q \in Winners :
         p # q => redeem[p].challenge # redeem[q].challenge /\ redeem[p].cred # redeem[q].cred
    /\ \A c \in Minted : \E p \in Winners : redeem[p].cred = c
    /\ \A p \in Winners : redeem[p].challenge \in Challenges \ Pending
    /\ Cardinality(Minted) <= requested

(* A challenge that was spent, expired or guessed to death never becomes   *)
(* redeemable again, and no redemption of it starts after that.            *)
SpentChallengesStaySpent ==
    [][\A k \in Challenges : pending[k].status = "gone" =>
          /\ pending'[k].status = "gone"
          /\ {p \in Redeemers : redeem'[p].pc = "issuing" /\ redeem'[p].challenge = k}
               \subseteq {p \in Redeemers : redeem[p].pc = "issuing" /\ redeem[p].challenge = k}
      ]_pairingVars
=============================================================================
