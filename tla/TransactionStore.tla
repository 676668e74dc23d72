--------------------------- MODULE TransactionStore ---------------------------
(***************************************************************************)
(* What the store of transactions promises to its callers, whatever it     *)
(* does with indexes, reservations and sweeps: a transaction is stored at  *)
(* most once per idempotency key, is final once and for all, is removed    *)
(* only when final, and is never stored after a client has been told that  *)
(* its key belongs to no transaction.                                      *)
(***************************************************************************)
CONSTANTS
  Ids,        \* ids of transactions, one per request and the ones stored before
  Keys,       \* idempotency keys
  NoKey,      \* no idempotency key was sent
  KeyOf,      \* the key of the request that has the id
  Initial     \* the ids stored at the start

VARIABLES
  phase,      \* per id: Unborn, Void, Active, Final or Removed
  bound       \* per key: the ids stored since the key was last forgotten

vars == <<phase, bound>>

Init ==
  /\ phase = [i \in Ids |-> IF i \in Initial THEN "Active" ELSE "Unborn"]
  /\ bound = [k \in Keys |-> {}]

\* A request's transaction is stored: the first one of its key.
Store(i) ==
  /\ phase[i] = "Unborn"
  /\ phase' = [phase EXCEPT ![i] = "Active"]
  /\ IF KeyOf[i] = NoKey
     THEN bound' = bound
     ELSE /\ bound[KeyOf[i]] = {}
          /\ bound' = [bound EXCEPT ![KeyOf[i]] = {i}]

\* A client is told that there is no transaction for its key.
Deny(i) ==
  /\ phase[i] = "Unborn"
  /\ phase' = [phase EXCEPT ![i] = "Void"]
  /\ UNCHANGED bound

Finish(i) ==
  /\ phase[i] = "Active"
  /\ phase' = [phase EXCEPT ![i] = "Final"]
  /\ UNCHANGED bound

\* Final transactions are removed, several at once.
Remove(S) ==
  /\ S # {}
  /\ \A i \in S : phase[i] = "Final"
  /\ phase' = [i \in Ids |-> IF i \in S THEN "Removed" ELSE phase[i]]
  /\ UNCHANGED bound

\* The reservation of a key expires; the key may be used anew.
Forget(k) ==
  /\ bound' = [bound EXCEPT ![k] = {}]
  /\ UNCHANGED phase

Next ==
  \/ \E i \in Ids : Store(i) \/ Deny(i) \/ Finish(i)
  \/ \E S \in SUBSET Ids : Remove(S)
  \/ \E k \in Keys : Forget(k)

Spec == Init /\ [][Next]_vars
=============================================================================
