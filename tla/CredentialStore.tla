--------------------------- MODULE CredentialStore ---------------------------
(***************************************************************************)
(* The SQLite table of paired credentials (credentials.py).  Every         *)
(* operation runs in one BEGIN IMMEDIATE transaction on a worker thread,   *)
(* so each one is one atomic step.                                         *)
(*                                                                         *)
(* A row is abstracted to what authentication and retention tell apart: is *)
(* it active, how often its bearer was rotated, when it was revoked and    *)
(* whether it holds an approval key.  A bearer is a pair of a credential   *)
(* and the generation it was minted for; two bearers never collide, since  *)
(* they are 32 random bytes compared by SHA-256 digest.                    *)
(***************************************************************************)
EXTENDS Naturals, FiniteSets

CONSTANTS
    CredentialIds,   \* UUIDs the id factory can return; their order is the text order of SQL
    LegacyIds,       \* active rows of a schema-1 database, migrated without an approval key
    MaxActive,       \* MAX_ACTIVE_CREDENTIALS (32)
    MaxRetained,     \* MAX_RETAINED_CREDENTIALS (64)
    MaxGeneration,   \* bound on the rotations of one credential
    Stamps           \* revoked_at timestamps; the clock may step back

ASSUME IdsAssumption ==
    /\ CredentialIds \subseteq Nat \ {0}
    /\ LegacyIds \subseteq CredentialIds
    /\ IsFiniteSet(LegacyIds)

ASSUME LimitsAssumption ==
    /\ MaxActive \in Nat
    /\ MaxRetained \in Nat
    /\ MaxActive <= MaxRetained
    /\ Cardinality(LegacyIds) <= MaxActive
    /\ MaxGeneration \in Nat
    /\ Stamps \subseteq Nat

VARIABLE rows

Row == [status : {"unused", "active", "revoked", "pruned"},
        gen : Nat, revokedAt : Nat, key : BOOLEAN]

StoreInit ==
    rows = [c \in CredentialIds |->
              [status |-> IF c \in LegacyIds THEN "active" ELSE "unused",
               gen |-> 0, revokedAt |-> 0, key |-> FALSE]]

Active == {c \in CredentialIds : rows[c].status = "active"}
Revoked == {c \in CredentialIds : rows[c].status = "revoked"}
Stored == Active \cup Revoked

-----------------------------------------------------------------------------
(* Queries.                                                                *)

IsActive(c) == rows[c].status = "active"

Authenticates(c, g) == IsActive(c) /\ rows[c].gen = g

(* ORDER BY revoked_at, credential_id *)
RevokedBefore(c, d) ==
    \/ rows[c].revokedAt < rows[d].revokedAt
    \/ rows[c].revokedAt = rows[d].revokedAt /\ c < d

(* Slip: off by one, the row about to be inserted is not counted. *)
DeleteCountOffByOne ==
    IF Cardinality(Stored) < MaxRetained THEN 0 ELSE Cardinality(Stored) - MaxRetained

DeleteCount ==
    IF Cardinality(Stored) < MaxRetained
    THEN 0 ELSE Cardinality(Stored) - MaxRetained + 1

(* The rows that the DELETE of _prune_revoked removes. *)
IsPruneSet(D) ==
    /\ Cardinality(D) = IF DeleteCount <= Cardinality(Revoked)
                        THEN DeleteCount ELSE Cardinality(Revoked)
    /\ \A c \in D, d \in Revoked \ D : RevokedBefore(c, d)

-----------------------------------------------------------------------------
(* Operations.                                                             *)

InsertRow(c, D) ==
    rows' = [i \in CredentialIds |->
               CASE i = c    -> [status |-> "active", gen |-> 0,
                                 revokedAt |-> 0, key |-> TRUE]
                 [] i \in D  -> [rows[i] EXCEPT !.status = "pruned"]
                 [] OTHER    -> rows[i]]

Issue(c) ==
    /\ rows[c].status = "unused"
    /\ Cardinality(Active) < MaxActive
    /\ \E D \in SUBSET Revoked : IsPruneSet(D) /\ InsertRow(c, D)

(* The clock is read before the transaction opens, so stamps may commit    *)
(* out of order.                                                           *)
Revoke(c, t) ==
    /\ IsActive(c)
    /\ rows' = [rows EXCEPT ![c].status = "revoked", ![c].revokedAt = t]

(* Slip: INSERT OR REPLACE instead of UPDATE clears revoked_at. *)
RotateByReplace(c, g) ==
    /\ rows[c].status \in {"active", "revoked"} /\ rows[c].gen = g
    /\ g < MaxGeneration
    /\ rows' = [rows EXCEPT ![c].gen = g + 1, ![c].status = "active"]

(* Compare-and-swap on the presented bearer's digest. *)
Rotate(c, g) ==
    /\ Authenticates(c, g)
    /\ g < MaxGeneration
    /\ rows' = [rows EXCEPT ![c].gen = g + 1]

StoreNext ==
    \E c \in CredentialIds :
        \/ Issue(c)
        \/ \E t \in Stamps : Revoke(c, t)
        \/ \E g \in 0 .. MaxGeneration : Rotate(c, g)

StoreSpec == StoreInit /\ [][StoreNext]_rows

-----------------------------------------------------------------------------
(* Properties.                                                             *)

(* Every row keeps the shape the STRICT table gives it. *)
StoreTypeOK == rows \in [CredentialIds -> Row]

(* issue() keeps the table within both limits: pruning always finds enough *)
(* revoked rows, so the listing's LIMIT never hides a stored credential.   *)
CapacityBounds ==
    /\ IsFiniteSet(Stored)
    /\ Cardinality(Active) <= MaxActive
    /\ Cardinality(Stored) <= MaxRetained

(* A bearer that was valid once and is not valid now. *)
Dead(c, g) ==
    /\ rows[c].status # "unused"
    /\ rows[c].status # "active" \/ g < rows[c].gen

(* No sequence of issue, revoke and rotate makes a dead bearer valid again. *)
DeadBearersStayDead ==
    [][\A c \in CredentialIds, g \in 0 .. MaxGeneration : Dead(c, g) => Dead(c, g)']_rows

(* _prune_revoked deletes only revoked rows, only when the table is full,  *)
(* and never a row revoked later than one it keeps.                        *)
PruneDropsOldest ==
    [][\A c \in CredentialIds :
         c \in Stored /\ rows'[c].status = "pruned" =>
            /\ c \in Revoked
            /\ Cardinality(Stored) = MaxRetained
            /\ \A d \in CredentialIds :
                 d \in Revoked /\ rows'[d].status = "revoked" => RevokedBefore(c, d)]_rows

=============================================================================
