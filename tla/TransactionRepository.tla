------------------------- MODULE TransactionRepository -------------------------
(***************************************************************************)
(* The Redis transaction repository of one relayer, with the callers that  *)
(* make its operations overlap: creation under an idempotency key, the     *)
(* partial updates of job handlers, the migration of legacy status sets,   *)
(* and the cleanup cron.  Redis executes one command, script or atomic     *)
(* pipeline at a time; an operation is one action per round trip.          *)
(***************************************************************************)
EXTENDS Naturals, FiniteSets

CONSTANTS
  Requests,     \* create requests; the id of a request's transaction is the request
  Legacy,       \* transactions stored by an older version, in the legacy status sets
  Keys,         \* idempotency keys
  KeyOf,        \* the key a request carries, or None
  BodyOf,       \* the fingerprint of a request's body
  Workers,      \* job handlers
  Nonces,       \* nonces handlers may store
  Written,      \* the statuses handlers write
  None,
  MaxFaults     \* bound on failed round trips and crashes

Ids == Requests \cup Legacy

NonFinal == {"Pending", "Sent", "Submitted", "Mined"}
Final == {"Confirmed", "Failed", "Expired", "Canceled"}
Statuses == NonFinal \cup Final

Record == [status : Statuses, nonce : Nonces \cup {None}]

ASSUME RepositoryAssumption ==
  /\ KeyOf \in [Ids -> Keys \cup {None}]
  /\ None \notin Ids /\ None \notin Keys /\ None \notin Nonces /\ None \notin Statuses
  /\ None \notin Record
  /\ MaxFaults \in Nat
  /\ Requests \cap Legacy = {}
  /\ Written \subseteq Statuses

VARIABLES
  body,         \* per id: the stored record, or None; the reverse lookup lives and dies with it
  byStatus,     \* the sorted sets of ids per status
  legacy,       \* the unordered sets per status of older versions
  byNonce,      \* the nonce index
  byCreated,    \* the sorted set of all ids of the relayer
  keys,         \* per idempotency key: the reserved id, or None
  monitored,    \* ids a status check job was queued for
  rq,           \* per request: where it is, and the reservation a replay has read
  late,         \* reservations older than the in-flight window
  up,           \* per worker: the update whose indexes are still to be written
  mg,           \* the migration of a legacy set
  cl,           \* the cleanup cron
  faults,
  bound, denied, born   \* history: what clients may rely on

vars == <<body, byStatus, legacy, byNonce, byCreated, keys, monitored, rq, late, up,
          mg, cl, faults, bound, denied, born>>

indexes == <<byStatus, legacy, byNonce, byCreated>>
history == <<bound, denied, born>>

Rest == [at |-> "rest"]

Init ==
  /\ body = [i \in Ids |-> IF i \in Legacy THEN [status |-> "Pending", nonce |-> None]
                           ELSE None]
  /\ byStatus = [s \in Statuses |-> {}]
  /\ legacy = [s \in Statuses |-> IF s = "Pending" THEN Legacy ELSE {}]
  /\ byNonce = [n \in Nonces |-> None]
  /\ byCreated = Legacy
  /\ keys = [k \in Keys |-> None]
  /\ monitored = Legacy
  /\ rq = [q \in Requests |-> [at |-> "reserve", seen |-> None]]
  /\ late = {}
  /\ up = [w \in Workers |-> Rest]
  /\ mg = Rest
  /\ cl = Rest
  /\ faults = 0
  /\ bound = [k \in Keys |-> {}]
  /\ denied = {}
  /\ born = Legacy

Stored(i) == body[i] # None
Active(i) == Stored(i) /\ body[i].status \in NonFinal

\* A round trip fails, or the process that makes it dies.
Fault == faults < MaxFaults /\ faults' = faults + 1

Answered == [at |-> "answered", seen |-> None]

Goto(q, at) == rq' = [rq EXCEPT ![q].at = at]

-----------------------------------------------------------------------------
(* The script of partial_update: apply a patch to the stored record and    *)
(* move the status indexes with it.                                        *)

Mut_Patched(r, patch) ==
  [status |-> IF patch.status = None THEN r.status ELSE patch.status,
   nonce |-> IF patch.nonce = None THEN r.nonce ELSE patch.nonce]

\* A status is not applied to a final record.
Patched(r, patch) ==
  IF r.status \in Final /\ patch.status # None
  THEN r
  ELSE [status |-> IF patch.status = None THEN r.status ELSE patch.status,
        nonce |-> IF patch.nonce = None THEN r.nonce ELSE patch.nonce]

MoveStatus(i, old, new) ==
  IF old = new
  THEN UNCHANGED <<byStatus, legacy>>
  ELSE LET left == {old} \cup (IF new \in Final THEN NonFinal ELSE {})
       IN /\ byStatus' = [s \in Statuses |-> IF s = new THEN byStatus[s] \cup {i}
                                             ELSE IF s \in left THEN byStatus[s] \ {i}
                                             ELSE byStatus[s]]
          /\ legacy' = [s \in Statuses |-> IF s \in left THEN legacy[s] \ {i}
                                           ELSE legacy[s]]

PatchScript(i, patch) ==
  LET new == Patched(body[i], patch)
  IN /\ body' = [body EXCEPT ![i] = new]
     /\ MoveStatus(i, body[i].status, new.status)

\* update_indexes without the status indexes: the nonce index and the list.
AuxiliaryIndexes(i, old, new) ==
  /\ byCreated' = byCreated \cup {i}
  /\ byNonce' = [n \in Nonces |-> IF n = new.nonce THEN i
                                  ELSE IF n = old.nonce THEN None
                                  ELSE byNonce[n]]
-----------------------------------------------------------------------------
(* A create request: reserve the key, store the record, index it, queue    *)
(* its jobs; on failure release the key.                                   *)

\* The key is reserved by SET NX EX; a request without a key starts to create.
Reserve(q) ==
  /\ rq[q].at = "reserve"
  /\ IF KeyOf[q] = None
     THEN Goto(q, "create") /\ UNCHANGED keys
     ELSE IF keys[KeyOf[q]] = None
     THEN keys' = [keys EXCEPT ![KeyOf[q]] = q] /\ Goto(q, "create")
     ELSE Goto(q, "replay") /\ UNCHANGED keys
  /\ UNCHANGED <<body, indexes, monitored, late, up, mg, cl, faults, history>>

Mut_ReplayRecord(q) ==
  /\ rq[q].at = "replay"
  /\ rq' = [rq EXCEPT ![q] = [at |-> "lookup", seen |-> KeyOf[q]]]
  /\ UNCHANGED <<body, indexes, keys, monitored, late, up, mg, cl, faults, history>>

\* A repeated request reads the reservation.  Gone is answered with a conflict, one
\* made for another body with a refusal.
ReplayRecord(q) ==
  /\ rq[q].at = "replay"
  /\ LET i == keys[KeyOf[q]]
     IN rq' = [rq EXCEPT ![q] =
          IF i = None \/ BodyOf[i] # BodyOf[q]
          THEN Answered
          ELSE [at |-> "lookup", seen |-> i]]
  /\ UNCHANGED <<body, indexes, keys, monitored, late, up, mg, cl, faults, history>>

\* Then it looks for the transaction and returns it; a missing one is a conflict inside
\* the window, and after it the client is told that there is none.
ReplayLookup(q) ==
  LET i == rq[q].seen
      gone == ~Stored(i) /\ i \in late
  IN /\ rq[q].at = "lookup"
     /\ rq' = [rq EXCEPT ![q] = Answered]
     /\ denied' = IF gone THEN denied \cup {i} ELSE denied
     /\ UNCHANGED <<body, indexes, keys, monitored, late, up, mg, cl, faults, bound, born>>

\* create: the record and its reverse lookup in one pipeline.
CreateRecord(q) ==
  /\ rq[q].at = "create"
  /\ body' = [body EXCEPT ![q] = [status |-> "Pending", nonce |-> None]]
  /\ born' = born \cup {q}
  /\ bound' = IF KeyOf[q] = None THEN bound
              ELSE [bound EXCEPT ![KeyOf[q]] = @ \cup {q}]
  /\ Goto(q, "index")
  /\ UNCHANGED <<indexes, keys, monitored, late, up, mg, cl, faults, denied>>

\* then the indexes, in another.
CreateIndexes(q) ==
  /\ rq[q].at = "index"
  /\ byStatus' = [byStatus EXCEPT !["Pending"] = @ \cup {q}]
  /\ byCreated' = byCreated \cup {q}
  /\ Goto(q, "monitor")
  /\ UNCHANGED <<body, legacy, byNonce, keys, monitored, late, up, mg, cl, faults, history>>

QueueStatusCheck(q) ==
  /\ rq[q].at = "monitor"
  /\ monitored' = monitored \cup {q}
  /\ Goto(q, "request")
  /\ UNCHANGED <<body, indexes, keys, late, up, mg, cl, faults, history>>

QueueRequest(q) ==
  /\ rq[q].at = "request"
  /\ Goto(q, "answered")
  /\ UNCHANGED <<body, indexes, keys, monitored, late, up, mg, cl, faults, history>>

\* One of these fails: a status check that cannot be queued makes the transaction Failed.
CreateFails(q) ==
  /\ rq[q].at \in {"create", "index", "monitor", "request"}
  /\ Fault
  /\ Goto(q, IF rq[q].at = "monitor" THEN "fail" ELSE "release")
  /\ UNCHANGED <<body, indexes, keys, monitored, late, up, mg, cl, history>>

MarkFailed(q) ==
  /\ rq[q].at = "fail"
  /\ \/ /\ PatchScript(q, [status |-> "Failed", nonce |-> None])
        /\ UNCHANGED faults
     \/ /\ Fault
        /\ UNCHANGED <<body, byStatus, legacy>>
  /\ Goto(q, "release")
  /\ UNCHANGED <<byNonce, byCreated, keys, monitored, late, up, mg, cl, history>>

\* The key is released only if it is still this request's and nothing was stored.
ReleaseKey(q) ==
  /\ rq[q].at = "release"
  /\ keys' = [k \in Keys |-> IF k = KeyOf[q] /\ keys[k] = q /\ ~Stored(q) THEN None
                             ELSE keys[k]]
  /\ Goto(q, "answered")
  /\ UNCHANGED <<body, indexes, monitored, late, up, mg, cl, faults, history>>

Creating(q) ==
  rq[q].at \in {"reserve", "create", "index", "monitor", "request", "fail", "release"}

\* The process dies in the middle of a request.
RequestCrash(q) ==
  /\ Creating(q) /\ rq[q].at # "reserve"
  /\ Fault
  /\ Goto(q, "answered")
  /\ UNCHANGED <<body, indexes, keys, monitored, late, up, mg, cl, history>>

\* The in-flight window ends: it outlasts the request that made the reservation.
WindowEnds(q) ==
  /\ ~Creating(q) /\ q \notin late
  /\ KeyOf[q] # None /\ keys[KeyOf[q]] = q
  /\ late' = late \cup {q}
  /\ UNCHANGED <<body, indexes, keys, monitored, rq, up, mg, cl, faults, history>>

\* The time to live of a key is no shorter than the window.
KeyExpires(k) ==
  /\ keys[k] \in late
  /\ keys' = [keys EXCEPT ![k] = None]
  /\ bound' = [bound EXCEPT ![k] = {}]
  /\ UNCHANGED <<body, indexes, monitored, rq, late, up, mg, cl, faults, denied, born>>
-----------------------------------------------------------------------------
(* partial_update by a job handler: the script, then the other indexes.    *)

\* A handler may hold a stale view of the record, so any status may be written.
\* A nonce is stored once, and never one that an active transaction has (EvmNonce).
Patches(i) ==
  [status : Written, nonce : {None}]
    \cup {[status |-> None, nonce |-> n] :
            n \in {m \in Nonces : /\ Active(i) /\ body[i].nonce = None
                                  /\ \A j \in Ids : Active(j) => body[j].nonce # m}}

UpdateRecord(w, i) ==
  /\ up[w] = Rest
  /\ i \in monitored /\ Stored(i)
  /\ \E patch \in Patches(i) :
       /\ PatchScript(i, patch)
       /\ up' = [up EXCEPT ![w] = [at |-> "index", id |-> i, old |-> body[i],
                                   new |-> Patched(body[i], patch)]]
  /\ UNCHANGED <<byNonce, byCreated, keys, monitored, rq, late, mg, cl, faults, history>>

UpdateIndexes(w) ==
  /\ up[w] # Rest
  /\ AuxiliaryIndexes(up[w].id, up[w].old, up[w].new)
  /\ up' = [up EXCEPT ![w] = Rest]
  /\ UNCHANGED <<body, byStatus, legacy, keys, monitored, rq, late, mg, cl, faults, history>>

\* The index pipeline fails, or the worker dies before it.
UpdateFails(w) ==
  /\ up[w] # Rest
  /\ Fault
  /\ up' = [up EXCEPT ![w] = Rest]
  /\ UNCHANGED <<body, indexes, keys, monitored, rq, late, mg, cl, history>>
-----------------------------------------------------------------------------
(* ensure_status_sorted_set: move a legacy set into the sorted set.        *)

MigrateScan(s) ==
  /\ mg = Rest
  /\ legacy[s] # {}
  /\ mg' = [at |-> "fetch", status |-> s, ids |-> legacy[s]]
  /\ UNCHANGED <<body, indexes, keys, monitored, rq, late, up, cl, faults, history>>

MigrateFetch ==
  /\ mg.at = "fetch"
  /\ mg' = [mg EXCEPT !.at = "write", !.ids = {i \in @ : Stored(i)}]
  /\ UNCHANGED <<body, indexes, keys, monitored, rq, late, up, cl, faults, history>>

Mut_MigrateWrite ==
  /\ mg.at = "write"
  /\ legacy' = [legacy EXCEPT ![mg.status] = {}]
  /\ mg' = Rest
  /\ UNCHANGED <<body, byStatus, byNonce, byCreated, keys, monitored, rq, late, up, cl, faults,
                 history>>

MigrateWrite ==
  /\ mg.at = "write"
  /\ byStatus' = [byStatus EXCEPT ![mg.status] = @ \cup mg.ids]
  /\ legacy' = [legacy EXCEPT ![mg.status] = {}]
  /\ mg' = Rest
  /\ UNCHANGED <<body, byNonce, byCreated, keys, monitored, rq, late, up, cl, faults, history>>
-----------------------------------------------------------------------------
(* The cleanup cron: repair the status indexes, then delete what expired.  *)

\* Over an hour old: the request that created it has long ended.
Aged(i) == i \in Requests => ~Creating(i)

\* delete_at has passed, hours after the last operation on the record.
Expired(i) ==
  /\ Aged(i)
  /\ \A w \in Workers : up[w] # Rest => up[w].id # i
  /\ mg # Rest => i \notin mg.ids

ReconcileScan(s) ==
  /\ cl = Rest
  /\ LET ids == {i \in byStatus[s] : Aged(i)}
     IN /\ ids # {}
        /\ cl' = [at |-> "fetch", status |-> s, ids |-> ids]
  /\ UNCHANGED <<body, indexes, keys, monitored, rq, late, up, mg, faults, history>>

\* Ids without a record are dropped; of non-final indexes, ids with a final record move.
ReconcileFetch ==
  /\ cl.at = "fetch"
  /\ LET gone == {i \in cl.ids : ~Stored(i)}
         final == {i \in cl.ids : cl.status \in NonFinal /\ Stored(i)
                                    /\ body[i].status \in Final}
     IN cl' = IF gone \cup final = {} THEN Rest
              ELSE [at |-> "repair", status |-> cl.status, ids |-> gone \cup final,
                    to |-> [i \in final |-> body[i].status]]
  /\ UNCHANGED <<body, indexes, keys, monitored, rq, late, up, mg, faults, history>>

ReconcileWrite ==
  /\ cl.at = "repair"
  /\ byStatus' = [s \in Statuses |->
       (IF s = cl.status THEN byStatus[s] \ cl.ids ELSE byStatus[s])
         \cup {i \in DOMAIN cl.to : cl.to[i] = s}]
  /\ legacy' = [legacy EXCEPT ![cl.status] = @ \ cl.ids]
  /\ cl' = Rest
  /\ UNCHANGED <<body, byNonce, byCreated, keys, monitored, rq, late, up, mg, faults, history>>

\* A page of a final index: the records on it that are final and expired.
CleanupPage(s) ==
  /\ cl = Rest
  /\ LET ids == {i \in byStatus[s] : Stored(i) /\ body[i].status \in Final /\ Expired(i)}
     IN /\ ids # {}
        /\ cl' = [at |-> "delete", ids |-> ids, nonces |-> {body[i].nonce : i \in ids}]
  /\ UNCHANGED <<body, indexes, keys, monitored, rq, late, up, mg, faults, history>>

\* delete_by_requests: records, reverse lookups and every index, in one pipeline.
CleanupDelete ==
  /\ cl.at = "delete"
  /\ body' = [i \in Ids |-> IF i \in cl.ids THEN None ELSE body[i]]
  /\ byStatus' = [s \in Statuses |-> byStatus[s] \ cl.ids]
  /\ legacy' = [s \in Statuses |-> legacy[s] \ cl.ids]
  /\ byNonce' = [n \in Nonces |-> IF n \in cl.nonces THEN None ELSE byNonce[n]]
  /\ byCreated' = byCreated \ cl.ids
  /\ cl' = Rest
  /\ UNCHANGED <<keys, monitored, rq, late, up, mg, faults, history>>

\* The cron dies, or a round trip of it fails.
CleanupFails ==
  /\ cl # Rest
  /\ Fault
  /\ cl' = Rest
  /\ UNCHANGED <<body, indexes, keys, monitored, rq, late, up, mg, history>>
-----------------------------------------------------------------------------
Request(q) ==
  \/ Reserve(q) \/ ReplayRecord(q) \/ ReplayLookup(q)
  \/ CreateRecord(q) \/ CreateIndexes(q) \/ QueueStatusCheck(q) \/ QueueRequest(q)
  \/ MarkFailed(q) \/ ReleaseKey(q)

Reconcile(s) == ReconcileScan(s) \/ ReconcileFetch \/ ReconcileWrite
Cleanup(s) == CleanupPage(s) \/ CleanupDelete
Migrate(s) == MigrateScan(s) \/ MigrateFetch \/ MigrateWrite

Next ==
  \/ \E q \in Requests : Request(q) \/ CreateFails(q) \/ RequestCrash(q) \/ WindowEnds(q)
  \/ \E k \in Keys : KeyExpires(k)
  \/ \E w \in Workers, i \in Ids : UpdateRecord(w, i)
  \/ \E w \in Workers : UpdateIndexes(w) \/ UpdateFails(w)
  \/ \E s \in Statuses : Migrate(s) \/ Reconcile(s)
  \/ \E s \in Final : Cleanup(s)
  \/ CleanupFails

Spec == Init /\ [][Next]_vars
-----------------------------------------------------------------------------
\* Types; in particular a reservation, and what a replay reads of it, is the id of a request.
TypeOK ==
  /\ body \in [Ids -> Record \cup {None}]
  /\ byStatus \in [Statuses -> SUBSET Ids]
  /\ legacy \in [Statuses -> SUBSET Ids]
  /\ byNonce \in [Nonces -> Ids \cup {None}]
  /\ byCreated \subseteq Ids
  /\ keys \in [Keys -> Requests \cup {None}]
  /\ monitored \subseteq Ids
  /\ late \subseteq Requests
  /\ \A q \in Requests : rq[q].seen \in Requests \cup {None}
  /\ \A w \in Workers : up[w] # Rest => up[w].id \in Ids
  /\ faults \in 0..MaxFaults

\* Recovery (the rewinds of the nonce and sequence counters, the hand-over of a lane)
\* finds the active transactions through find_by_status: no sweep, migration or update,
\* however they overlap, hides a monitored active transaction from the index of its status.
MonitoredIsListed ==
  \A i \in monitored :
    Active(i) => i \in byStatus[body[i].status] \cup legacy[body[i].status]

\* What callers may rely on: the abstract store, seen through the history variables.
Phase(i) ==
  IF Active(i) THEN "Active"
  ELSE IF Stored(i) THEN "Final"
  ELSE IF i \in born THEN "Removed"
  ELSE IF i \in denied THEN "Void"
  ELSE "Unborn"

Store == INSTANCE TransactionStore
           WITH NoKey <- None, Initial <- Legacy, phase <- [i \in Ids |-> Phase(i)]

\* Reservations, replays, crashes and releases, updates and deletions taken together
\* store at most one transaction per key, keep final statuses, delete only final records,
\* and never store a transaction after a replay has answered that there is none.
ImplementsStore == Store!Spec

\* What get_nonce_occupancy is documented to return: a nonce that an active transaction
\* has is not reported as empty once no update is under way.
ActiveNonceIndexed ==
  (\A w \in Workers : up[w] = Rest) =>
    \A i \in Ids : Active(i) /\ body[i].nonce # None => byNonce[body[i].nonce] # None
=============================================================================
