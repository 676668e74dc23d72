---------------------- MODULE TransactionRepositoryProofs ----------------------
(***************************************************************************)
(* Proofs about TransactionRepository, for any number of requests, keys,   *)
(* workers and faults: its types, the indexes that recovery reads, and the *)
(* implementation of TransactionStore.                                     *)
(***************************************************************************)
EXTENDS TransactionRepository, TLAPS

(* Where a request, an update, a migration and a sweep can be.             *)
RequestPCs ==
  {"reserve", "replay", "lookup", "create", "index", "monitor", "request", "fail",
   "release", "answered"}

UpdateRuns == {Rest} \cup [at : {"index"}, id : Ids, old : Record, new : Record]

MigrationRuns ==
  {Rest} \cup [at : {"fetch", "write"}, status : Statuses, ids : SUBSET Ids]

SweepOK ==
  \/ cl = Rest
  \/ cl \in [at : {"fetch"}, status : Statuses, ids : SUBSET Ids]
  \/ \E D \in SUBSET Ids :
       cl \in [at : {"repair"}, status : Statuses, ids : SUBSET Ids, to : [D -> Statuses]]
  \/ /\ cl \in [at : {"delete"}, ids : SUBSET Ids, nonces : SUBSET (Nonces \cup {None})]
     /\ cl.ids # {}

\* The types of the operations under way and of the history.
RunsOK ==
  /\ rq \in [Requests -> [at : RequestPCs, seen : Requests \cup {None}]]
  /\ \A q \in Requests : rq[q].at = "lookup" => rq[q].seen \in Requests
  /\ \A q \in Requests : rq[q].at = "replay" => KeyOf[q] # None
  /\ up \in [Workers -> UpdateRuns]
  /\ mg \in MigrationRuns
  /\ SweepOK
  /\ bound \in [Keys -> SUBSET Ids]
  /\ denied \subseteq Requests
  /\ born \subseteq Ids

\* What is stored was created, and what a request that is still running has created is
\* stored: nothing deletes a record while its request runs.
BornStored ==
  /\ \A i \in Ids : Stored(i) => i \in born
  /\ \A q \in Requests : Creating(q) /\ q \in born => Stored(q)
  /\ \A q \in Requests : rq[q].at \in {"reserve", "create"} => q \notin born
  /\ \A q \in Requests : rq[q].at \in {"index", "monitor", "request", "fail"} => q \in born

\* A request about to create holds its key; a key is bound to its holder only.
KeyHeld ==
  /\ \A q \in Requests : rq[q].at = "create" /\ KeyOf[q] # None => keys[KeyOf[q]] = q
  /\ \A k \in Keys : \A i \in bound[k] : i \in born /\ keys[k] = i

\* The in-flight window outlasts the request, and only after it is there a denial.
LateEnded ==
  /\ \A q \in late : ~Creating(q)
  /\ denied \subseteq late

\* What a sweep has read still holds when it writes.
SweepFresh ==
  /\ cl # Rest => \A i \in cl.ids : Aged(i)
  /\ cl.at = "repair" => \A i \in cl.ids : ~Active(i)
  /\ cl.at = "delete" => \A i \in cl.ids : Stored(i) /\ body[i].status \in Final

StoreInv == BornStored /\ KeyHeld /\ LateEnded /\ SweepFresh

\* A legacy set only shrinks, and a migration under way has all of it that is stored.
MigrationComplete ==
  /\ \A s \in Statuses : legacy[s] \subseteq Legacy
  /\ mg # Rest => \A i \in legacy[mg.status] : Stored(i) => i \in mg.ids

Listed(i) == Active(i) => i \in byStatus[body[i].status] \cup legacy[body[i].status]

\* No handler touches a transaction whose request has not queued its status check.
NotYetMonitored ==
  /\ \A q \in Requests :
       rq[q].at \in {"reserve", "create", "index", "monitor"} => q \notin monitored
  /\ \A q \in Requests : rq[q].at = "index" => body[q].status = "Pending"
  /\ \A q \in Requests : rq[q].at = "monitor" => Listed(q)

ListedInv == MigrationComplete /\ NotYetMonitored /\ MonitoredIsListed
-----------------------------------------------------------------------------
\* The steps of Next, one by one.
LEMMA NextCases ==
    ASSUME Next
    PROVE  \/ \E q \in Requests :
                \/ Reserve(q) \/ ReplayRecord(q) \/ ReplayLookup(q) \/ CreateRecord(q)
                \/ CreateIndexes(q) \/ QueueStatusCheck(q) \/ QueueRequest(q)
                \/ MarkFailed(q) \/ ReleaseKey(q) \/ CreateFails(q) \/ RequestCrash(q)
                \/ WindowEnds(q)
           \/ \E k \in Keys : KeyExpires(k)
           \/ \E w \in Workers, i \in Ids : UpdateRecord(w, i)
           \/ \E w \in Workers : UpdateIndexes(w) \/ UpdateFails(w)
           \/ \E s \in Statuses : MigrateScan(s) \/ ReconcileScan(s)
           \/ \E s \in Final : CleanupPage(s)
           \/ MigrateFetch \/ MigrateWrite
           \/ ReconcileFetch \/ ReconcileWrite \/ CleanupDelete \/ CleanupFails
BY DEF Next, Request, Reconcile, Cleanup, Migrate

\* A request that moves leaves the others where they are.
LEMMA GotoEffect ==
    ASSUME RunsOK, NEW q \in Requests, NEW at \in RequestPCs \ {"lookup"}, Goto(q, at),
           at = "replay" => KeyOf[q] # None
    PROVE  /\ rq' \in [Requests -> [at : RequestPCs, seen : Requests \cup {None}]]
           /\ rq'[q].at = at /\ rq'[q].seen = rq[q].seen
           /\ \A p \in Requests \ {q} : rq'[p] = rq[p]
           /\ \A p \in Requests : rq'[p].at = "replay" => KeyOf[p] # None
           /\ \A p \in Requests : rq'[p].at = "lookup" => rq'[p].seen \in Requests
BY DEF RunsOK, Goto

\* The patch of a record is a record; a final one keeps its status.
LEMMA PatchedRecord ==
    ASSUME NEW r \in Record, NEW patch, patch.status \in Statuses \cup {None},
           patch.nonce \in Nonces \cup {None}
    PROVE  /\ Patched(r, patch) \in Record
           /\ r.status \in Final => Patched(r, patch).status = r.status
<1>1. r.status \in Statuses /\ r.nonce \in Nonces \cup {None}
  BY DEF Record
<1>2. (IF patch.status = None THEN r.status ELSE patch.status) \in Statuses
  BY <1>1
<1>3. (IF patch.nonce = None THEN r.nonce ELSE patch.nonce) \in Nonces \cup {None}
  BY <1>1
<1> QED
  BY <1>1, <1>2, <1>3 DEF Patched, Record

\* Every patch of a handler is one.
LEMMA PatchesPatch ==
    ASSUME NEW i, NEW patch \in Patches(i)
    PROVE  patch.status \in Statuses \cup {None} /\ patch.nonce \in Nonces \cup {None}
BY RepositoryAssumption DEF Patches

\* The move of one id between the status sets: it is listed where it goes, no other id
\* is touched, and the legacy sets only shrink.
LEMMA MoveStatusEffect ==
    ASSUME TypeOK, NEW i \in Ids, NEW old \in Statuses, NEW new \in Statuses,
           MoveStatus(i, old, new)
    PROVE  /\ byStatus' \in [Statuses -> SUBSET Ids]
           /\ legacy' \in [Statuses -> SUBSET Ids]
           /\ \A s \in Statuses : legacy'[s] \subseteq legacy[s]
           /\ \A s \in Statuses, j \in Ids \ {i} :
                /\ j \in byStatus'[s] <=> j \in byStatus[s]
                /\ j \in legacy'[s] <=> j \in legacy[s]
           /\ old # new => i \in byStatus'[new]
           /\ old = new => byStatus' = byStatus /\ legacy' = legacy
<1>1. CASE old = new
  BY <1>1 DEF MoveStatus, TypeOK
<1>2. CASE old # new
  BY <1>2 DEF MoveStatus, TypeOK
<1> QED
  BY <1>1, <1>2

\* A fault stays within its bound.
LEMMA FaultBound ==
    ASSUME TypeOK, Fault
    PROVE  faults' \in 0 .. MaxFaults
BY RepositoryAssumption DEF TypeOK, Fault
-----------------------------------------------------------------------------
(* Types.                                                                  *)

Types == TypeOK /\ RunsOK

\* The variables start with their types.
LEMMA TypesInit == Init => Types
<1> SUFFICES ASSUME Init PROVE Types
  OBVIOUS
<1>1. Ids = Requests \cup Legacy /\ "Pending" \in Statuses
  BY DEF Ids, Statuses, NonFinal
<1>2. [status |-> "Pending", nonce |-> None] \in Record
  BY <1>1 DEF Record
<1>3. TypeOK
  BY <1>1, <1>2, RepositoryAssumption DEF Init, TypeOK, Rest
<1>4. RunsOK
  BY <1>1 DEF Init, RunsOK, SweepOK, UpdateRuns, MigrationRuns, RequestPCs
<1> QED
  BY <1>3, <1>4 DEF Types

\* A patch script keeps the types of what it writes.
LEMMA PatchScriptTypes ==
    ASSUME Types, NEW i \in Ids, Stored(i), NEW patch,
           patch.status \in Statuses \cup {None}, patch.nonce \in Nonces \cup {None},
           PatchScript(i, patch)
    PROVE  /\ body[i] \in Record /\ Patched(body[i], patch) \in Record
           /\ body' \in [Ids -> Record \cup {None}]
           /\ body' = [body EXCEPT ![i] = Patched(body[i], patch)]
           /\ MoveStatus(i, body[i].status, Patched(body[i], patch).status)
           /\ body[i].status \in Statuses /\ Patched(body[i], patch).status \in Statuses
           /\ byStatus' \in [Statuses -> SUBSET Ids]
           /\ legacy' \in [Statuses -> SUBSET Ids]
<1>1. body[i] \in Record
  BY DEF Types, TypeOK, Stored
<1>2. Patched(body[i], patch) \in Record
  BY <1>1, PatchedRecord
<1>3. body[i].status \in Statuses /\ Patched(body[i], patch).status \in Statuses
  BY <1>1, <1>2 DEF Record
<1>4. MoveStatus(i, body[i].status, Patched(body[i], patch).status)
  BY DEF PatchScript
<1> QED
  BY <1>1, <1>2, <1>3, <1>4, MoveStatusEffect DEF Types, TypeOK, PatchScript

\* Each step of a request keeps the types.
LEMMA RequestTypes ==
    ASSUME Types, NEW q \in Requests,
           \/ Reserve(q) \/ ReplayRecord(q) \/ ReplayLookup(q) \/ CreateRecord(q)
           \/ CreateIndexes(q) \/ QueueStatusCheck(q) \/ QueueRequest(q)
           \/ ReleaseKey(q) \/ CreateFails(q) \/ RequestCrash(q) \/ WindowEnds(q)
    PROVE  Types'
<1> USE DEF Types, indexes, history
<1>0. q \in Ids /\ KeyOf[q] \in Keys \cup {None}
  BY RepositoryAssumption DEF Ids
<1>a. ASSUME NEW at \in RequestPCs \ {"lookup"}, Goto(q, at),
             at = "replay" => KeyOf[q] # None
      PROVE  /\ rq' \in [Requests -> [at : RequestPCs, seen : Requests \cup {None}]]
             /\ \A p \in Requests : rq'[p].at = "lookup" => rq'[p].seen \in Requests
             /\ \A p \in Requests : rq'[p].at = "replay" => KeyOf[p] # None
             /\ \A p \in Requests : rq'[p].seen \in Requests \cup {None}
  BY <1>a, GotoEffect DEF RunsOK
<1>b. /\ {"reserve", "create", "replay", "index", "monitor", "request", "fail", "release",
          "answered"} \subseteq RequestPCs \ {"lookup"}
      /\ "Pending" \in Statuses
  BY DEF RequestPCs, Statuses, NonFinal
<1>1. CASE Reserve(q)
  <2>1. Goto(q, "create") \/ (Goto(q, "replay") /\ KeyOf[q] # None)
    BY <1>1 DEF Reserve
  <2>2. keys' \in [Keys -> Requests \cup {None}]
    BY <1>1, <1>0 DEF Reserve, TypeOK
  <2> QED
    BY <1>1, <1>a, <1>b, <2>1, <2>2 DEF Reserve, TypeOK, RunsOK, SweepOK
<1>2. CASE ReplayRecord(q)
  <2> DEFINE i == keys[KeyOf[q]]
  <2>1. CASE i = None \/ BodyOf[i] # BodyOf[q]
    <3>1. rq' = [rq EXCEPT ![q] = Answered]
      BY <1>2, <2>1 DEF ReplayRecord
    <3> QED
      BY <1>2, <3>1 DEF ReplayRecord, TypeOK, RunsOK, SweepOK, Answered, RequestPCs
  <2>2. CASE ~(i = None \/ BodyOf[i] # BodyOf[q])
    <3>1. rq' = [rq EXCEPT ![q] = [at |-> "lookup", seen |-> i]]
      BY <1>2, <2>2 DEF ReplayRecord
    <3>2. KeyOf[q] \in Keys
      BY <1>2, <1>0 DEF ReplayRecord, RunsOK
    <3>3. i \in Requests
      BY <2>2, <3>2 DEF TypeOK
    <3> QED
      BY <1>2, <3>1, <3>3 DEF ReplayRecord, TypeOK, RunsOK, SweepOK, RequestPCs
  <2> QED
    BY <2>1, <2>2
<1>3. CASE ReplayLookup(q)
  BY <1>3 DEF ReplayLookup, TypeOK, RunsOK, SweepOK, Answered, RequestPCs
<1>4. CASE CreateRecord(q)
  <2>1. [status |-> "Pending", nonce |-> None] \in Record
    BY <1>b DEF Record
  <2>2. bound' \in [Keys -> SUBSET Ids]
    BY <1>4, <1>0 DEF CreateRecord, RunsOK
  <2> QED
    BY <1>4, <1>0, <1>a, <1>b, <2>1, <2>2 DEF CreateRecord, TypeOK, RunsOK, SweepOK
<1>5. CASE CreateIndexes(q)
  BY <1>5, <1>0, <1>a, <1>b DEF CreateIndexes, TypeOK, RunsOK, SweepOK
<1>6. CASE QueueStatusCheck(q) \/ QueueRequest(q)
  BY <1>6, <1>0, <1>a, <1>b DEF QueueStatusCheck, QueueRequest, TypeOK, RunsOK, SweepOK
<1>7. CASE ReleaseKey(q)
  BY <1>7, <1>0, <1>a, <1>b DEF ReleaseKey, TypeOK, RunsOK, SweepOK
<1>8. CASE CreateFails(q)
  BY <1>8, <1>a, <1>b, FaultBound DEF CreateFails, TypeOK, RunsOK, SweepOK
<1>9. CASE RequestCrash(q)
  BY <1>9, <1>a, <1>b, FaultBound DEF RequestCrash, TypeOK, RunsOK, SweepOK
<1>10. CASE WindowEnds(q)
  BY <1>10 DEF WindowEnds, TypeOK, RunsOK, SweepOK
<1> QED
  BY <1>1, <1>2, <1>3, <1>4, <1>5, <1>6, <1>7, <1>8, <1>9, <1>10

\* A status check that could not be queued: the patch keeps the types.
LEMMA MarkFailedTypes ==
    ASSUME Types, NEW q \in Requests, Stored(q), MarkFailed(q)
    PROVE  Types'
<1>1. q \in Ids /\ "Failed" \in Statuses \cup {None}
  BY DEF Ids, Statuses, Final
<1>2. /\ rq' \in [Requests -> [at : RequestPCs, seen : Requests \cup {None}]]
      /\ \A p \in Requests : rq'[p].at = "lookup" => rq'[p].seen \in Requests
      /\ \A p \in Requests : rq'[p].at = "replay" => KeyOf[p] # None
      /\ \A p \in Requests : rq'[p].seen \in Requests \cup {None}
  <2>1. Goto(q, "release") /\ "release" \in RequestPCs \ {"lookup"}
    BY DEF MarkFailed, RequestPCs
  <2> QED
    BY <2>1, GotoEffect DEF Types, RunsOK
<1>3. /\ body' \in [Ids -> Record \cup {None}]
      /\ byStatus' \in [Statuses -> SUBSET Ids]
      /\ legacy' \in [Statuses -> SUBSET Ids]
      /\ faults' \in 0 .. MaxFaults
  <2> DEFINE patch == [status |-> "Failed", nonce |-> None]
  <2>1. CASE PatchScript(q, patch) /\ UNCHANGED faults
    <3>1. patch.status \in Statuses \cup {None} /\ patch.nonce \in Nonces \cup {None}
      BY <1>1
    <3> HIDE DEF patch
    <3> QED
      BY <2>1, <3>1, <1>1, PatchScriptTypes DEF Types, TypeOK
  <2>2. CASE Fault /\ UNCHANGED <<body, byStatus, legacy>>
    BY <2>2, FaultBound DEF Types, TypeOK
  <2> QED
    BY <2>1, <2>2 DEF MarkFailed
<1> QED
  BY <1>2, <1>3 DEF MarkFailed, Types, TypeOK, RunsOK, SweepOK, history

\* Each step of a handler's update keeps the types.
LEMMA UpdateTypes ==
    ASSUME Types, NEW w \in Workers,
           (\E i \in Ids : UpdateRecord(w, i)) \/ UpdateIndexes(w) \/ UpdateFails(w)
    PROVE  Types'
<1> USE DEF Types, indexes, history
<1>1. ASSUME NEW i \in Ids, UpdateRecord(w, i)
      PROVE  Types'
  <2>1. PICK patch \in Patches(i) :
          /\ PatchScript(i, patch)
          /\ up' = [up EXCEPT ![w] = [at |-> "index", id |-> i, old |-> body[i],
                                      new |-> Patched(body[i], patch)]]
    BY <1>1 DEF UpdateRecord
  <2>2. Stored(i)
    BY <1>1 DEF UpdateRecord
  <2>3. /\ body[i] \in Record /\ Patched(body[i], patch) \in Record
        /\ body' \in [Ids -> Record \cup {None}]
        /\ byStatus' \in [Statuses -> SUBSET Ids]
        /\ legacy' \in [Statuses -> SUBSET Ids]
    BY <2>1, <2>2, PatchesPatch, PatchScriptTypes
  <2>4. up' \in [Workers -> UpdateRuns]
    BY <2>1, <2>3 DEF RunsOK, UpdateRuns
  <2>5. \A v \in Workers : up'[v] # Rest => up'[v].id \in Ids
    BY <2>1 DEF TypeOK, RunsOK
  <2> QED
    BY <1>1, <2>3, <2>4, <2>5 DEF UpdateRecord, TypeOK, RunsOK, SweepOK
<1>2. CASE UpdateIndexes(w)
  <2>1. up[w].id \in Ids
    BY <1>2 DEF UpdateIndexes, TypeOK
  <2>2. byNonce' \in [Nonces -> Ids \cup {None}] /\ byCreated' \subseteq Ids
    BY <1>2, <2>1 DEF UpdateIndexes, AuxiliaryIndexes, TypeOK
  <2>3. up' \in [Workers -> UpdateRuns] /\ \A v \in Workers : up'[v] # Rest => up'[v].id \in Ids
    BY <1>2 DEF UpdateIndexes, TypeOK, RunsOK, UpdateRuns
  <2> QED
    BY <1>2, <2>2, <2>3 DEF UpdateIndexes, TypeOK, RunsOK, SweepOK
<1>3. CASE UpdateFails(w)
  <2>1. up' \in [Workers -> UpdateRuns] /\ \A v \in Workers : up'[v] # Rest => up'[v].id \in Ids
    BY <1>3 DEF UpdateFails, TypeOK, RunsOK, UpdateRuns
  <2> QED
    BY <1>3, <2>1, FaultBound DEF UpdateFails, TypeOK, RunsOK, SweepOK
<1> QED
  BY <1>1, <1>2, <1>3

\* So do the expiry of a key and the migration.
LEMMA MigrateTypes ==
    ASSUME Types, \/ \E k \in Keys : KeyExpires(k)
                  \/ \E s \in Statuses : MigrateScan(s)
                  \/ MigrateFetch \/ MigrateWrite
    PROVE  Types'
<1> USE DEF Types, indexes, history
<1>1. ASSUME NEW k \in Keys, KeyExpires(k)
      PROVE  Types'
  BY <1>1 DEF KeyExpires, TypeOK, RunsOK, SweepOK
<1>2. ASSUME NEW s \in Statuses, MigrateScan(s)
      PROVE  Types'
  <2>1. mg' \in MigrationRuns
    BY <1>2 DEF MigrateScan, MigrationRuns, TypeOK
  <2> QED
    BY <1>2, <2>1 DEF MigrateScan, TypeOK, RunsOK, SweepOK
<1>3. CASE MigrateFetch
  <2>1. mg \in [at : {"fetch", "write"}, status : Statuses, ids : SUBSET Ids]
    BY <1>3 DEF MigrateFetch, RunsOK, MigrationRuns, Rest
  <2>2. mg' \in MigrationRuns
    BY <1>3, <2>1 DEF MigrateFetch, MigrationRuns
  <2> QED
    BY <1>3, <2>2 DEF MigrateFetch, TypeOK, RunsOK, SweepOK
<1>4. CASE MigrateWrite
  <2>1. mg \in [at : {"fetch", "write"}, status : Statuses, ids : SUBSET Ids]
    BY <1>4 DEF MigrateWrite, RunsOK, MigrationRuns, Rest
  <2> QED
    BY <1>4, <2>1 DEF MigrateWrite, TypeOK, RunsOK, SweepOK, MigrationRuns
<1> QED
  BY <1>1, <1>2, <1>3, <1>4

\* What a sweep holds, by where it is.
LEMMA SweepCases ==
    ASSUME Types
    PROVE  /\ cl # Rest => cl.at \in {"fetch", "repair", "delete"} /\ cl.ids \in SUBSET Ids
           /\ cl.at \in {"fetch", "repair"} => cl.status \in Statuses
           /\ cl.at \in {"fetch", "repair", "delete"} => cl # Rest
           /\ cl.at = "repair" =>
                DOMAIN cl.to \in SUBSET Ids /\ \A i \in DOMAIN cl.to : cl.to[i] \in Statuses
           /\ cl.at = "delete" => cl.ids # {}
<1>1. CASE cl = Rest
  BY <1>1 DEF Rest
<1>2. CASE cl \in [at : {"fetch"}, status : Statuses, ids : SUBSET Ids]
  BY <1>2 DEF Rest
<1>3. ASSUME NEW D \in SUBSET Ids,
             cl \in [at : {"repair"}, status : Statuses, ids : SUBSET Ids, to : [D -> Statuses]]
      PROVE  /\ cl.at = "repair" /\ cl # Rest /\ cl.ids \in SUBSET Ids /\ cl.status \in Statuses
             /\ DOMAIN cl.to \in SUBSET Ids /\ \A i \in DOMAIN cl.to : cl.to[i] \in Statuses
  BY <1>3 DEF Rest
<1>4. CASE /\ cl \in [at : {"delete"}, ids : SUBSET Ids, nonces : SUBSET (Nonces \cup {None})]
           /\ cl.ids # {}
  BY <1>4 DEF Rest
<1> QED
  BY <1>1, <1>2, <1>3, <1>4 DEF Types, RunsOK, SweepOK

\* Each step of the cleanup cron keeps the types.
LEMMA SweepTypes ==
    ASSUME Types, \/ \E s \in Statuses : ReconcileScan(s)
                  \/ \E s \in Final : CleanupPage(s)
                  \/ ReconcileFetch \/ ReconcileWrite \/ CleanupDelete \/ CleanupFails
    PROVE  Types'
<1> USE DEF Types, indexes, history
<1>1. ASSUME NEW s \in Statuses, ReconcileScan(s)
      PROVE  Types'
  <2>1. cl' \in [at : {"fetch"}, status : Statuses, ids : SUBSET Ids]
    BY <1>1 DEF ReconcileScan, TypeOK
  <2> QED
    BY <1>1, <2>1 DEF ReconcileScan, TypeOK, RunsOK, SweepOK
<1>2. ASSUME NEW s \in Final, CleanupPage(s)
      PROVE  Types'
  <2> DEFINE ids == {i \in byStatus[s] : Stored(i) /\ body[i].status \in Final /\ Expired(i)}
  <2>1. ids # {} /\ cl' = [at |-> "delete", ids |-> ids, nonces |-> {body[i].nonce : i \in ids}]
    BY <1>2 DEF CleanupPage
  <2>2. ids \in SUBSET Ids
    BY DEF TypeOK, Statuses
  <2>3. \A i \in ids : body[i].nonce \in Nonces \cup {None}
    BY <2>2 DEF TypeOK, Record, Stored
  <2>4. {body[i].nonce : i \in ids} \in SUBSET (Nonces \cup {None})
    BY <2>3
  <2>5. /\ cl' \in [at : {"delete"}, ids : SUBSET Ids, nonces : SUBSET (Nonces \cup {None})]
        /\ cl'.ids # {}
    <3> HIDE DEF ids
    <3> QED
      BY <2>1, <2>2, <2>4
  <2> QED
    BY <1>2, <2>5 DEF CleanupPage, TypeOK, RunsOK, SweepOK
<1>3. CASE ReconcileFetch
  <2> DEFINE gone == {i \in cl.ids : ~Stored(i)}
             final == {i \in cl.ids : cl.status \in NonFinal /\ Stored(i)
                                       /\ body[i].status \in Final}
             to == [i \in final |-> body[i].status]
  <2>1. cl.ids \in SUBSET Ids /\ cl.status \in Statuses
    BY <1>3, SweepCases DEF ReconcileFetch
  <2>2. gone \cup final \in SUBSET Ids /\ final \in SUBSET Ids
    BY <2>1
  <2>3. to \in [final -> Statuses]
    BY DEF Statuses
  <2>4. \/ cl' = Rest
        \/ cl' = [at |-> "repair", status |-> cl.status, ids |-> gone \cup final, to |-> to]
    BY <1>3 DEF ReconcileFetch
  <2>5. SweepOK'
    <3> HIDE DEF gone, final, to
    <3> QED
      BY <2>1, <2>2, <2>3, <2>4 DEF SweepOK
  <2> QED
    BY <1>3, <2>5 DEF ReconcileFetch, TypeOK, RunsOK
<1>4. CASE ReconcileWrite
  <2>1. /\ cl.status \in Statuses /\ DOMAIN cl.to \in SUBSET Ids
    BY <1>4, SweepCases DEF ReconcileWrite
  <2>2. byStatus' \in [Statuses -> SUBSET Ids] /\ legacy' \in [Statuses -> SUBSET Ids]
    BY <1>4, <2>1 DEF ReconcileWrite, TypeOK
  <2> QED
    BY <1>4, <2>2 DEF ReconcileWrite, TypeOK, RunsOK, SweepOK
<1>5. CASE CleanupDelete
  BY <1>5 DEF CleanupDelete, TypeOK, RunsOK, SweepOK
<1>6. CASE CleanupFails
  BY <1>6, FaultBound DEF CleanupFails, TypeOK, RunsOK, SweepOK
<1> QED
  BY <1>1, <1>2, <1>3, <1>4, <1>5, <1>6
-----------------------------------------------------------------------------
(* The facts behind TransactionStore.                                      *)

\* A patch leaves the other records alone, deletes none and revives none.
LEMMA PatchKeeps ==
    ASSUME Types, NEW i \in Ids, Stored(i), NEW patch,
           patch.status \in Statuses \cup {None}, patch.nonce \in Nonces \cup {None},
           PatchScript(i, patch)
    PROVE  /\ \A j \in Ids : Stored(j)' <=> Stored(j)
           /\ \A j \in Ids \ {i} : body'[j] = body[j]
           /\ \A j \in Ids : Stored(j) /\ body[j].status \in Final
                               => body'[j].status = body[j].status
           /\ \A j \in Ids : Active(j)' => Active(j)
<1>1. /\ body' = [body EXCEPT ![i] = Patched(body[i], patch)]
      /\ body[i] \in Record /\ Patched(body[i], patch) \in Record
      /\ body[i].status \in Final => Patched(body[i], patch).status = body[i].status
  BY PatchScriptTypes, PatchedRecord
<1>2. DOMAIN body = Ids
  BY DEF Types, TypeOK
<1>3. \A r \in Record : r # None /\ r.status \in NonFinal \cup Final
  BY RepositoryAssumption DEF Record, Statuses
<1>4. NonFinal \cap Final = {}
  BY DEF NonFinal, Final
<1> HIDE DEF NonFinal, Final
<1> QED
  BY <1>1, <1>2, <1>3, <1>4 DEF Stored, Active

\* The facts hold at the start.
LEMMA StoreInit == Init => StoreInv
<1> SUFFICES ASSUME Init PROVE StoreInv
  OBVIOUS
<1>1. Requests \cap Legacy = {} /\ Ids = Requests \cup Legacy
  BY RepositoryAssumption DEF Ids
<1>2. \A q \in Requests : rq[q].at = "reserve" /\ q \notin born
  BY <1>1 DEF Init
<1>3. \A i \in Ids : Stored(i) => i \in born
  BY <1>1 DEF Init, Stored
<1> QED
  BY <1>2, <1>3 DEF Init, StoreInv, BornStored, KeyHeld, LateEnded, SweepFresh, Rest

\* A request that moves on after its record is stored, or ends, and does nothing else to
\* the store.
LEMMA StoreMove ==
    ASSUME Types, StoreInv, NEW q \in Requests, rq[q].at # "reserve", Creating(q),
           NEW at \in RequestPCs \ {"reserve", "replay", "lookup", "create"}, Goto(q, at),
           at \in {"index", "monitor", "request", "fail"} => q \in born,
           UNCHANGED <<body, keys, late, cl, bound, denied, born>>
    PROVE  StoreInv'
<1>1. /\ rq'[q].at = at
      /\ \A p \in Requests \ {q} : rq'[p] = rq[p]
  BY GotoEffect DEF Types
<1>2. \A p \in Requests : Creating(p)' => Creating(p)
  BY <1>1 DEF Creating
<1>3. BornStored'
  BY <1>1, <1>2 DEF StoreInv, BornStored, Stored, RequestPCs
<1>4. KeyHeld' /\ LateEnded'
  BY <1>1, <1>2 DEF StoreInv, KeyHeld, LateEnded, Types, TypeOK
<1>5. SweepFresh'
  BY <1>2 DEF StoreInv, SweepFresh, Aged, Stored, Active
<1> QED
  BY <1>3, <1>4, <1>5 DEF StoreInv

\* Each step of a request keeps the facts.
LEMMA StoreRequest ==
    ASSUME Types, StoreInv, NEW q \in Requests,
           \/ Reserve(q) \/ ReplayRecord(q) \/ ReplayLookup(q) \/ CreateRecord(q)
           \/ CreateIndexes(q) \/ QueueStatusCheck(q) \/ QueueRequest(q)
           \/ MarkFailed(q) \/ ReleaseKey(q) \/ CreateFails(q) \/ RequestCrash(q)
           \/ WindowEnds(q)
    PROVE  StoreInv'
<1>0. q \in Ids /\ KeyOf[q] \in Keys \cup {None} /\ None \notin Ids
  BY RepositoryAssumption DEF Ids
<1>1. CASE Reserve(q)
  <2>1. /\ \A p \in Requests \ {q} : rq'[p] = rq[p]
        /\ rq'[q].at \in {"create", "replay"}
        /\ rq'[q].at = "create" => KeyOf[q] = None \/ keys'[KeyOf[q]] = q
    BY <1>1, <1>0, GotoEffect DEF Reserve, Types, TypeOK, RunsOK, RequestPCs
  <2>2. \A p \in Requests : Creating(p)' => Creating(p)
    BY <1>1, <2>1 DEF Creating, Reserve
  <2>3. \A k \in Keys : keys[k] # None => keys'[k] = keys[k]
    BY <1>1 DEF Reserve, Types, TypeOK
  <2>4. \A k \in Keys : \A i \in bound[k] : keys[k] # None
    BY <1>0 DEF StoreInv, KeyHeld, Types, RunsOK
  <2>5. BornStored'
    BY <1>1, <2>1, <2>2 DEF Reserve, StoreInv, BornStored, Stored, history
  <2>6. KeyHeld'
    <3>1. ASSUME NEW p \in Requests, rq'[p].at = "create", KeyOf[p] # None
          PROVE  keys'[KeyOf[p]] = p
      <4>1. KeyOf[p] \in Keys /\ p # None
        BY <3>1, RepositoryAssumption DEF Ids
      <4> QED
        BY <3>1, <4>1, <2>1, <2>3 DEF StoreInv, KeyHeld
    <3> QED
      BY <1>1, <2>3, <2>4, <3>1 DEF Reserve, StoreInv, KeyHeld, history
  <2>7. LateEnded' /\ SweepFresh'
    BY <1>1, <2>2 DEF Reserve, StoreInv, LateEnded, SweepFresh, Aged, Stored, Active, history,
                      Types, TypeOK
  <2> QED
    BY <2>5, <2>6, <2>7 DEF StoreInv
<1>2. CASE ReplayRecord(q) \/ ReplayLookup(q)
  <2>1. /\ \A p \in Requests \ {q} : rq'[p] = rq[p]
        /\ rq[q].at \in {"replay", "lookup"} /\ rq'[q].at \in {"lookup", "answered"}
        /\ UNCHANGED <<body, keys, late, cl, bound, born>>
    BY <1>2 DEF ReplayRecord, ReplayLookup, Answered, history, Types, RunsOK
  <2>2. \A p \in Requests : Creating(p)' => Creating(p)
    BY <2>1 DEF Creating
  <2>3. denied' \subseteq late
    BY <1>2 DEF ReplayRecord, ReplayLookup, StoreInv, LateEnded, history
  <2> QED
    BY <2>1, <2>2, <2>3 DEF StoreInv, BornStored, KeyHeld, LateEnded, SweepFresh, Aged, Stored,
                            Active, Types, TypeOK
<1>3. CASE CreateRecord(q)
  <2>1. /\ \A p \in Requests \ {q} : rq'[p] = rq[p]
        /\ rq[q].at = "create" /\ rq'[q].at = "index"
        /\ UNCHANGED <<keys, late, cl, denied>>
        /\ born' = born \cup {q}
    BY <1>3, GotoEffect DEF CreateRecord, Types, RequestPCs
  <2>2. /\ \A p \in Requests : Creating(p)' => Creating(p)
        /\ Creating(q)
    BY <2>1 DEF Creating
  <2>3. /\ \A i \in Ids \ {q} : body'[i] = body[i]
        /\ body'[q] = [status |-> "Pending", nonce |-> None]
        /\ body'[q] # None
    <3>1. [status |-> "Pending", nonce |-> None] \in Record
      BY DEF Record, Statuses, NonFinal
    <3> QED
      BY <1>3, <1>0, <3>1, RepositoryAssumption DEF CreateRecord, Types, TypeOK
  <2>4. BornStored'
    BY <2>1, <2>2, <2>3 DEF StoreInv, BornStored, Stored, Ids
  <2>5. KeyHeld'
    <3>1. \A k \in Keys : \A i \in bound'[k] : i \in bound[k] \/ (i = q /\ k = KeyOf[q])
      BY <1>3 DEF CreateRecord, Types, RunsOK
    <3> QED
      BY <2>1, <3>1, <1>0, RepositoryAssumption DEF StoreInv, KeyHeld, Types, RunsOK
  <2>6. LateEnded'
    BY <2>1, <2>2 DEF StoreInv, LateEnded, Types, TypeOK
  <2>7. SweepFresh'
    <3>1. cl # Rest => q \notin cl.ids
      BY <2>2 DEF StoreInv, SweepFresh, Aged
    <3>2. cl # Rest => cl.ids \subseteq Ids
      BY SweepCases
    <3>3. cl.at \in {"repair", "delete"} => cl # Rest
      BY SweepCases
    <3> QED
      BY <2>1, <2>2, <2>3, <3>1, <3>2, <3>3 DEF StoreInv, SweepFresh, Aged, Stored, Active
  <2> QED
    BY <2>4, <2>5, <2>6, <2>7 DEF StoreInv
<1>4. CASE CreateIndexes(q) \/ QueueStatusCheck(q) \/ QueueRequest(q)
  <2>1. \E at \in {"monitor", "request", "answered"} : Goto(q, at)
    BY <1>4 DEF CreateIndexes, QueueStatusCheck, QueueRequest
  <2>2. rq[q].at \in {"index", "monitor", "request"}
    BY <1>4 DEF CreateIndexes, QueueStatusCheck, QueueRequest
  <2>3. UNCHANGED <<body, keys, late, cl, bound, denied, born>>
    BY <1>4 DEF CreateIndexes, QueueStatusCheck, QueueRequest, history
  <2>4. q \in born /\ Creating(q)
    BY <2>2 DEF StoreInv, BornStored, Creating
  <2> QED
    BY <2>1, <2>2, <2>3, <2>4, StoreMove DEF RequestPCs
<1>5. CASE CreateFails(q)
  <2>1. /\ \/ Goto(q, "fail") /\ rq[q].at = "monitor"
           \/ Goto(q, "release")
        /\ rq[q].at \in {"create", "index", "monitor", "request"}
        /\ UNCHANGED <<body, keys, late, cl, bound, denied, born>>
    BY <1>5 DEF CreateFails, history
  <2>2. Creating(q) /\ (rq[q].at = "monitor" => q \in born)
    BY <2>1 DEF StoreInv, BornStored, Creating
  <2> QED
    BY <2>1, <2>2, StoreMove DEF RequestPCs
<1>6. CASE RequestCrash(q)
  BY <1>6, StoreMove DEF RequestCrash, RequestPCs, history
<1>7. CASE MarkFailed(q)
  <2>1. /\ \A p \in Requests \ {q} : rq'[p] = rq[p]
        /\ rq[q].at = "fail" /\ rq'[q].at = "release"
        /\ UNCHANGED <<keys, late, cl, bound, denied, born>>
    BY <1>7, GotoEffect DEF MarkFailed, Types, RequestPCs, history
  <2>2. \A p \in Requests : Creating(p)' => Creating(p)
    BY <2>1 DEF Creating
  <2>3. Stored(q)
    BY <2>1 DEF StoreInv, BornStored, Creating
  <2>4. /\ \A j \in Ids : Stored(j)' <=> Stored(j)
        /\ \A j \in Ids : Stored(j) /\ body[j].status \in Final
                               => body'[j].status = body[j].status
        /\ \A j \in Ids : Active(j)' => Active(j)
    <3> DEFINE patch == [status |-> "Failed", nonce |-> None]
    <3>1. patch.status \in Statuses \cup {None} /\ patch.nonce \in Nonces \cup {None}
      BY DEF Statuses, Final
    <3>2. PatchScript(q, patch) \/ UNCHANGED body
      BY <1>7 DEF MarkFailed
    <3> HIDE DEF patch
    <3>3. CASE PatchScript(q, patch)
      BY <3>1, <3>3, <2>3, <1>0, PatchKeeps
    <3>4. CASE UNCHANGED body
      BY <3>4 DEF Stored, Active
    <3> QED
      BY <3>2, <3>3, <3>4
  <2>5. BornStored'
    BY <2>1, <2>2, <2>4 DEF StoreInv, BornStored, Ids
  <2>6. KeyHeld' /\ LateEnded'
    BY <2>1, <2>2 DEF StoreInv, KeyHeld, LateEnded, Types, TypeOK
  <2>7. SweepFresh'
    BY <2>1, <2>2, <2>4, SweepCases DEF StoreInv, SweepFresh, Aged
  <2> QED
    BY <2>5, <2>6, <2>7 DEF StoreInv
<1>8. CASE ReleaseKey(q)
  <2>1. /\ \A p \in Requests \ {q} : rq'[p] = rq[p]
        /\ rq[q].at = "release" /\ rq'[q].at = "answered"
        /\ UNCHANGED <<body, late, cl, bound, denied, born>>
    BY <1>8, GotoEffect DEF ReleaseKey, Types, RequestPCs, history
  <2>2. \A p \in Requests : Creating(p)' => Creating(p)
    BY <2>1 DEF Creating
  <2>3. \A k \in Keys : keys'[k] # keys[k] => keys[k] = q /\ q \notin born
    BY <1>8, <2>1 DEF ReleaseKey, StoreInv, BornStored, Creating, Types, TypeOK
  <2>4. KeyHeld'
    <3>1. ASSUME NEW p \in Requests, rq'[p].at = "create", KeyOf[p] # None
          PROVE  keys'[KeyOf[p]] = p
      <4>1. KeyOf[p] \in Keys /\ p # q /\ rq[p].at = "create"
        BY <3>1, <2>1, RepositoryAssumption DEF Ids
      <4> QED
        BY <3>1, <4>1, <2>3 DEF StoreInv, KeyHeld
    <3>2. \A k \in Keys : \A i \in bound[k] : i \in born /\ keys'[k] = i
      BY <2>3 DEF StoreInv, KeyHeld
    <3> QED
      BY <2>1, <3>1, <3>2 DEF KeyHeld
  <2>5. BornStored' /\ LateEnded' /\ SweepFresh'
    BY <2>1, <2>2 DEF StoreInv, BornStored, LateEnded, SweepFresh, Aged, Stored, Active, Types,
                      TypeOK
  <2> QED
    BY <2>4, <2>5 DEF StoreInv
<1>9. CASE WindowEnds(q)
  BY <1>9 DEF WindowEnds, StoreInv, BornStored, KeyHeld, LateEnded, SweepFresh, Aged, Stored,
              Active, Creating, history
<1> QED
  BY <1>1, <1>2, <1>3, <1>4, <1>5, <1>6, <1>7, <1>8, <1>9

\* So does every other step.
LEMMA StoreOther ==
    ASSUME Types, StoreInv,
           \/ \E k \in Keys : KeyExpires(k)
           \/ \E w \in Workers, i \in Ids : UpdateRecord(w, i)
           \/ \E w \in Workers : UpdateIndexes(w) \/ UpdateFails(w)
           \/ \E s \in Statuses : MigrateScan(s) \/ ReconcileScan(s)
           \/ \E s \in Final : CleanupPage(s)
           \/ MigrateFetch \/ MigrateWrite
           \/ ReconcileFetch \/ ReconcileWrite \/ CleanupDelete \/ CleanupFails
    PROVE  StoreInv'
<1>1. ASSUME NEW k \in Keys, KeyExpires(k)
      PROVE  StoreInv'
  <2>1. /\ UNCHANGED <<body, rq, late, cl, denied, born>>
        /\ \A j \in Keys \ {k} : keys'[j] = keys[j] /\ bound'[j] = bound[j]
        /\ bound'[k] = {} /\ keys[k] \in late
    BY <1>1 DEF KeyExpires, Types, TypeOK, RunsOK
  <2>2. \A q \in Requests : rq[q].at = "create" /\ KeyOf[q] # None => KeyOf[q] # k
    BY <2>1 DEF StoreInv, LateEnded, KeyHeld, Creating
  <2>3. KeyHeld'
    BY <2>1, <2>2, RepositoryAssumption DEF StoreInv, KeyHeld, Ids
  <2> QED
    BY <2>1, <2>3 DEF StoreInv, BornStored, LateEnded, SweepFresh, Aged, Stored, Active, Creating
<1>2. ASSUME NEW w \in Workers, NEW i \in Ids, UpdateRecord(w, i)
      PROVE  StoreInv'
  <2>1. Stored(i) /\ UNCHANGED <<keys, rq, late, cl, bound, denied, born>>
    BY <1>2 DEF UpdateRecord, history
  <2>2. /\ \A j \in Ids : Stored(j)' <=> Stored(j)
        /\ \A j \in Ids : Stored(j) /\ body[j].status \in Final
                               => body'[j].status = body[j].status
        /\ \A j \in Ids : Active(j)' => Active(j)
    <3>1. PICK patch \in Patches(i) : PatchScript(i, patch)
      BY <1>2 DEF UpdateRecord
    <3> QED
      BY <2>1, <3>1, PatchesPatch, PatchKeeps
  <2>3. BornStored' /\ KeyHeld' /\ LateEnded'
    BY <2>1, <2>2 DEF StoreInv, BornStored, KeyHeld, LateEnded, Creating, Ids
  <2>4. SweepFresh'
    BY <2>1, <2>2, SweepCases DEF StoreInv, SweepFresh, Aged, Creating
  <2> QED
    BY <2>3, <2>4 DEF StoreInv
<1>3. CASE \/ \E w \in Workers : UpdateIndexes(w) \/ UpdateFails(w)
           \/ \E s \in Statuses : MigrateScan(s)
           \/ MigrateFetch \/ MigrateWrite
  <2>1. UNCHANGED <<body, rq, keys, late, cl, bound, denied, born>>
    BY <1>3 DEF UpdateIndexes, UpdateFails, MigrateScan, MigrateFetch, MigrateWrite, history
  <2> QED
    BY <2>1 DEF StoreInv, BornStored, KeyHeld, LateEnded, SweepFresh, Aged, Stored, Active, Creating
<1>4. CASE \/ \E s \in Statuses : ReconcileScan(s)
           \/ \E s \in Final : CleanupPage(s)
           \/ ReconcileFetch \/ ReconcileWrite \/ CleanupFails
  <2>1. UNCHANGED <<body, rq, keys, late, bound, denied, born>>
    BY <1>4 DEF ReconcileScan, CleanupPage, ReconcileFetch, ReconcileWrite, CleanupFails, history
  <2>2. BornStored' /\ KeyHeld' /\ LateEnded'
    BY <2>1 DEF StoreInv, BornStored, KeyHeld, LateEnded, Stored, Creating
  <2>3. SweepFresh'
    <3>1. ASSUME NEW s \in Statuses, ReconcileScan(s)
          PROVE  SweepFresh'
      <4>1. cl'.at = "fetch" /\ \A i \in cl'.ids : Aged(i)
        BY <3>1 DEF ReconcileScan
      <4> QED
        BY <2>1, <4>1 DEF SweepFresh, Aged, Creating
    <3>2. ASSUME NEW s \in Final, CleanupPage(s)
          PROVE  SweepFresh'
      <4>1. /\ cl'.at = "delete"
            /\ \A i \in cl'.ids : Aged(i) /\ Stored(i) /\ body[i].status \in Final
        BY <3>2 DEF CleanupPage, Expired
      <4> QED
        BY <2>1, <4>1 DEF SweepFresh, Aged, Creating, Stored
    <3>3. CASE ReconcileFetch
      <4> DEFINE gone == {i \in cl.ids : ~Stored(i)}
                 final == {i \in cl.ids : cl.status \in NonFinal /\ Stored(i)
                                           /\ body[i].status \in Final}
      <4>1. \/ cl' = Rest
            \/ cl' = [at |-> "repair", status |-> cl.status, ids |-> gone \cup final,
                      to |-> [i \in final |-> body[i].status]]
        BY <3>3 DEF ReconcileFetch
      <4>2. \A i \in gone \cup final : i \in cl.ids /\ ~Active(i)
        BY DEF Active, NonFinal, Final
      <4>3. cl # Rest
        BY <3>3 DEF ReconcileFetch, Rest
      <4>4. \/ cl' = Rest
            \/ cl'.at = "repair" /\ \A i \in cl'.ids : i \in cl.ids /\ ~Active(i)
        <5> HIDE DEF gone, final
        <5> QED
          BY <4>1, <4>2
      <4> QED
        BY <2>1, <4>3, <4>4 DEF StoreInv, SweepFresh, Aged, Creating, Active, Stored, Rest
    <3>4. CASE ReconcileWrite \/ CleanupFails
      BY <3>4 DEF ReconcileWrite, CleanupFails, SweepFresh, Rest
    <3> QED
      BY <1>4, <3>1, <3>2, <3>3, <3>4
  <2> QED
    BY <2>2, <2>3 DEF StoreInv
<1>5. CASE CleanupDelete
  <2>1. /\ UNCHANGED <<rq, keys, late, bound, denied, born>>
        /\ cl' = Rest
        /\ \A i \in Ids : Stored(i)' => Stored(i)
        /\ \A i \in Ids : Stored(i) /\ ~Stored(i)' => Aged(i)
    BY <1>5, SweepCases DEF CleanupDelete, StoreInv, SweepFresh, history, Stored
  <2>2. \A q \in Requests : Creating(q)' <=> Creating(q)
    BY <2>1 DEF Creating
  <2>3. BornStored'
    BY <2>1, <2>2 DEF StoreInv, BornStored, Aged, Ids
  <2> QED
    BY <2>1, <2>2, <2>3 DEF StoreInv, KeyHeld, LateEnded, SweepFresh, Rest, Types, TypeOK
<1> QED
  BY <1>1, <1>2, <1>3, <1>4, <1>5

\* Types and facts are kept by every step.
LEMMA StoreStep == Types /\ StoreInv /\ [Next]_vars => Types' /\ StoreInv'
<1> SUFFICES ASSUME Types, StoreInv, [Next]_vars
             PROVE  Types' /\ StoreInv'
  OBVIOUS
<1>1. CASE Next
  <2>1. ASSUME NEW q \in Requests, MarkFailed(q)
        PROVE  Types'
    <3>1. Stored(q)
      BY <2>1 DEF MarkFailed, StoreInv, BornStored, Creating
    <3> QED
      BY <2>1, <3>1, MarkFailedTypes
  <2>2. Types'
    BY <1>1, <2>1, NextCases, RequestTypes, UpdateTypes, MigrateTypes, SweepTypes
  <2>3. StoreInv'
    BY <1>1, NextCases, StoreRequest, StoreOther
  <2> QED
    BY <2>2, <2>3
<1>2. CASE UNCHANGED vars
  <2>1. Types'
    BY <1>2 DEF vars, Types, TypeOK, RunsOK, SweepOK
  <2>2. StoreInv'
    BY <1>2 DEF vars, StoreInv, BornStored, KeyHeld, LateEnded, SweepFresh, Aged, Stored, Active,
                Creating
  <2> QED
    BY <2>1, <2>2
<1> QED
  BY <1>1, <1>2

\* The records, the indexes, the reservations and the operations under way keep their
\* types; in particular a reservation is always the id of a request (transaction_redis.rs,
\* idempotency.rs).
THEOREM TypeCorrect == Spec => []TypeOK
<1>1. Init => Types /\ StoreInv
  BY TypesInit, StoreInit
<1>2. Types => TypeOK
  BY DEF Types
<1> QED
  BY <1>1, <1>2, StoreStep, PTL DEF Spec
-----------------------------------------------------------------------------
(* The indexes that recovery reads.                                        *)

\* What is listed at the start.
LEMMA ListedInit == Init => ListedInv
<1> SUFFICES ASSUME Init PROVE ListedInv
  OBVIOUS
<1>1. Requests \cap Legacy = {} /\ Ids = Requests \cup Legacy /\ "Pending" \in Statuses
  BY RepositoryAssumption DEF Ids, Statuses, NonFinal
<1>2. MigrationComplete
  BY <1>1 DEF Init, MigrationComplete
<1>3. NotYetMonitored
  BY <1>1 DEF Init, NotYetMonitored
<1>4. MonitoredIsListed
  BY <1>1 DEF Init, MonitoredIsListed, Active, Stored
<1> QED
  BY <1>2, <1>3, <1>4 DEF ListedInv

\* A migration under way has a status and ids.
LEMMA MigrationCases ==
    ASSUME Types
    PROVE  mg # Rest => mg.status \in Statuses /\ mg.ids \in SUBSET Ids
BY DEF Types, RunsOK, MigrationRuns

\* A patch keeps listed what is listed, and legacy sets only shrink.
LEMMA PatchListed ==
    ASSUME Types, NEW i \in Ids, Stored(i), NEW patch,
           patch.status \in Statuses \cup {None}, patch.nonce \in Nonces \cup {None},
           PatchScript(i, patch)
    PROVE  /\ \A j \in Ids : Listed(j) => Listed(j)'
           /\ \A s \in Statuses : legacy'[s] \subseteq legacy[s]
<1> DEFINE old == body[i].status
           new == Patched(body[i], patch).status
<1>1. /\ body' = [body EXCEPT ![i] = Patched(body[i], patch)]
      /\ old \in Statuses /\ new \in Statuses
      /\ MoveStatus(i, old, new)
  BY PatchScriptTypes
<1>2. body'[i].status = new /\ \A j \in Ids \ {i} : body'[j] = body[j]
  BY <1>1 DEF Types, TypeOK
<1>3. /\ \A s \in Statuses : legacy'[s] \subseteq legacy[s]
      /\ \A s \in Statuses, j \in Ids \ {i} :
                /\ j \in byStatus'[s] <=> j \in byStatus[s]
                /\ j \in legacy'[s] <=> j \in legacy[s]
      /\ old # new => i \in byStatus'[new]
      /\ old = new => byStatus' = byStatus /\ legacy' = legacy
  <2> HIDE DEF old, new
  <2> QED
    BY <1>1, MoveStatusEffect DEF Types
<1>4. \A j \in Ids : Active(j) => body[j].status \in Statuses
  BY DEF Active, Stored, Statuses
<1>5. \A j \in Ids : Active(j)' => Active(j)
  BY PatchKeeps
<1>6. ASSUME NEW j \in Ids, Listed(j), j # i
      PROVE  Listed(j)'
  BY <1>2, <1>3, <1>4, <1>5, <1>6 DEF Listed
<1>7. ASSUME Listed(i)
      PROVE  Listed(i)'
  BY <1>2, <1>3, <1>5, <1>7 DEF Listed
<1> QED
  BY <1>3, <1>6, <1>7

\* Steps that touch neither records nor status sets.
LEMMA ListedFrame ==
    ASSUME ListedInv, UNCHANGED <<body, byStatus, legacy, monitored, mg>>,
           \A p \in Requests :
             /\ rq'[p].at \in {"index", "monitor"} => rq'[p].at = rq[p].at
             /\ rq'[p].at \in {"reserve", "create"} => rq[p].at \in {"reserve", "create"}
    PROVE  ListedInv'
<1>1. MigrationComplete'
  BY DEF ListedInv, MigrationComplete, Stored
<1>2. NotYetMonitored'
  BY DEF ListedInv, NotYetMonitored, Listed, Active, Stored
<1>3. MonitoredIsListed'
  BY DEF ListedInv, MonitoredIsListed, Active, Stored
<1> QED
  BY <1>1, <1>2, <1>3 DEF ListedInv

\* The other steps of a request.
LEMMA ListedRequest ==
    ASSUME Types, StoreInv, ListedInv, NEW q \in Requests,
           \/ Reserve(q) \/ ReplayRecord(q) \/ ReplayLookup(q) \/ CreateRecord(q)
           \/ CreateIndexes(q) \/ QueueStatusCheck(q) \/ QueueRequest(q)
           \/ MarkFailed(q) \/ ReleaseKey(q) \/ CreateFails(q) \/ RequestCrash(q)
           \/ WindowEnds(q)
    PROVE  ListedInv'
<1>0. q \in Ids /\ q \notin Legacy /\ "Pending" \in Statuses
  BY RepositoryAssumption DEF Ids, Statuses, NonFinal
<1>1. CASE Reserve(q) \/ QueueRequest(q) \/ ReleaseKey(q) \/ CreateFails(q) \/ RequestCrash(q)
  <2>1. UNCHANGED <<body, byStatus, legacy, monitored, mg>>
    BY <1>1 DEF Reserve, QueueRequest, ReleaseKey, CreateFails, RequestCrash, indexes
  <2>2. PICK at \in {"create", "replay", "fail", "release", "answered"} :
          Goto(q, at) /\ (at = "replay" => KeyOf[q] # None)
            /\ (at = "create" => rq[q].at = "reserve")
    BY <1>1 DEF Reserve, QueueRequest, ReleaseKey, CreateFails, RequestCrash
  <2>3. rq'[q].at = at /\ \A p \in Requests \ {q} : rq'[p] = rq[p]
    BY <2>2, GotoEffect DEF Types, RequestPCs
  <2> QED
    BY <2>1, <2>2, <2>3, ListedFrame
<1>2. CASE ReplayRecord(q) \/ ReplayLookup(q)
  <2>1. /\ \A p \in Requests \ {q} : rq'[p] = rq[p]
        /\ rq'[q].at \in {"lookup", "answered"}
        /\ UNCHANGED <<body, byStatus, legacy, monitored, mg>>
    BY <1>2 DEF ReplayRecord, ReplayLookup, Answered, indexes, Types, RunsOK
  <2> QED
    BY <2>1, ListedFrame
<1>3. CASE WindowEnds(q)
  BY <1>3, ListedFrame DEF WindowEnds, indexes
<1>4. CASE CreateRecord(q)
  <2>1. /\ \A p \in Requests \ {q} : rq'[p] = rq[p]
        /\ rq[q].at = "create" /\ rq'[q].at = "index"
        /\ UNCHANGED <<byStatus, legacy, monitored, mg>>
    BY <1>4, GotoEffect DEF CreateRecord, Types, RequestPCs, indexes
  <2>2. /\ \A i \in Ids \ {q} : body'[i] = body[i]
        /\ body'[q].status = "Pending"
    BY <1>4, <1>0 DEF CreateRecord, Types, TypeOK
  <2>3. q \notin monitored
    BY <2>1 DEF ListedInv, NotYetMonitored
  <2>4. MigrationComplete'
    <3>1. \A i \in Ids \ {q} : Stored(i)' <=> Stored(i)
      BY <2>2 DEF Stored
    <3> QED
      BY <2>1, <3>1, <1>0, MigrationCases DEF ListedInv, MigrationComplete, Ids
  <2>5. NotYetMonitored'
    <3>1. \A p \in Requests \ {q} : Listed(p)' <=> Listed(p)
      BY <2>1, <2>2 DEF Listed, Active, Stored, Ids
    <3> QED
      BY <2>1, <2>2, <2>3, <3>1 DEF ListedInv, NotYetMonitored, Ids
  <2>6. MonitoredIsListed'
    BY <2>1, <2>2, <2>3 DEF ListedInv, MonitoredIsListed, Active, Stored, Types, TypeOK
  <2> QED
    BY <2>4, <2>5, <2>6 DEF ListedInv
<1>5. CASE CreateIndexes(q)
  <2>1. /\ \A p \in Requests \ {q} : rq'[p] = rq[p]
        /\ rq[q].at = "index" /\ rq'[q].at = "monitor"
        /\ UNCHANGED <<body, legacy, monitored, mg>>
    BY <1>5, GotoEffect DEF CreateIndexes, Types, RequestPCs
  <2>2. /\ \A s \in Statuses : byStatus[s] \subseteq byStatus'[s]
        /\ q \in byStatus'["Pending"]
    BY <1>5, <1>0 DEF CreateIndexes, Types, TypeOK
  <2>3. \A i \in Ids : Active(i) => body[i].status \in Statuses
    BY DEF Active, Statuses
  <2>4. \A i \in Ids : Listed(i) => Listed(i)'
    BY <2>1, <2>2, <2>3 DEF Listed, Active, Stored
  <2>5. body[q].status = "Pending" /\ q \notin monitored
    BY <2>1 DEF ListedInv, NotYetMonitored
  <2>6. Listed(q)'
    BY <2>1, <2>2, <2>5 DEF Listed
  <2>7. NotYetMonitored'
    BY <2>1, <2>4, <2>5, <2>6 DEF ListedInv, NotYetMonitored, Ids
  <2>8. MonitoredIsListed'
    BY <2>1, <2>4 DEF ListedInv, MonitoredIsListed, Listed, Types, TypeOK
  <2> QED
    BY <2>1, <2>7, <2>8 DEF ListedInv, MigrationComplete, Stored
<1>6. CASE QueueStatusCheck(q)
  <2>1. /\ \A p \in Requests \ {q} : rq'[p] = rq[p]
        /\ rq[q].at = "monitor" /\ rq'[q].at = "request"
        /\ monitored' = monitored \cup {q}
        /\ UNCHANGED <<body, byStatus, legacy, mg>>
    BY <1>6, GotoEffect DEF QueueStatusCheck, Types, RequestPCs, indexes
  <2>2. NotYetMonitored'
    BY <2>1 DEF ListedInv, NotYetMonitored, Listed, Active, Stored
  <2>3. MonitoredIsListed'
    BY <2>1 DEF ListedInv, NotYetMonitored, MonitoredIsListed, Listed, Active, Stored
  <2> QED
    BY <2>1, <2>2, <2>3 DEF ListedInv, MigrationComplete, Stored
<1>7. CASE MarkFailed(q)
  <2>1. /\ \A p \in Requests \ {q} : rq'[p] = rq[p]
        /\ rq[q].at = "fail" /\ rq'[q].at = "release"
        /\ UNCHANGED <<monitored, mg>>
    BY <1>7, GotoEffect DEF MarkFailed, Types, RequestPCs
  <2>2. Stored(q)
    BY <2>1 DEF StoreInv, BornStored, Creating
  <2>3. /\ \A j \in Ids : Stored(j)' <=> Stored(j)
        /\ \A j \in Ids \ {q} : body'[j] = body[j]
        /\ \A j \in Ids : Listed(j) => Listed(j)'
        /\ \A s \in Statuses : legacy'[s] \subseteq legacy[s]
    <3> DEFINE patch == [status |-> "Failed", nonce |-> None]
    <3>1. patch.status \in Statuses \cup {None} /\ patch.nonce \in Nonces \cup {None}
      BY DEF Statuses, Final
    <3>2. PatchScript(q, patch) \/ UNCHANGED <<body, byStatus, legacy>>
      BY <1>7 DEF MarkFailed
    <3> HIDE DEF patch
    <3>3. CASE PatchScript(q, patch)
      BY <3>1, <3>3, <2>2, <1>0, PatchKeeps, PatchListed
    <3>4. CASE UNCHANGED <<body, byStatus, legacy>>
      BY <3>4 DEF Stored, Active, Listed
    <3> QED
      BY <3>2, <3>3, <3>4
  <2>4. MigrationComplete'
    BY <2>1, <2>3, MigrationCases DEF ListedInv, MigrationComplete, Types, TypeOK
  <2>5. NotYetMonitored'
    BY <2>1, <2>3 DEF ListedInv, NotYetMonitored, Ids
  <2>6. MonitoredIsListed'
    BY <2>1, <2>3 DEF ListedInv, MonitoredIsListed, Listed, Types, TypeOK
  <2> QED
    BY <2>4, <2>5, <2>6 DEF ListedInv
<1> QED
  BY <1>1, <1>2, <1>3, <1>4, <1>5, <1>6, <1>7

\* The steps of handlers, of the migration and of the cron.
LEMMA ListedOther ==
    ASSUME Types, StoreInv, ListedInv,
           \/ \E k \in Keys : KeyExpires(k)
           \/ \E w \in Workers, i \in Ids : UpdateRecord(w, i)
           \/ \E w \in Workers : UpdateIndexes(w) \/ UpdateFails(w)
           \/ \E s \in Statuses : MigrateScan(s) \/ ReconcileScan(s)
           \/ \E s \in Final : CleanupPage(s)
           \/ MigrateFetch \/ MigrateWrite
           \/ ReconcileFetch \/ ReconcileWrite \/ CleanupDelete \/ CleanupFails
    PROVE  ListedInv'
<1>0. \A i \in Ids : Active(i) => body[i].status \in Statuses
  BY DEF Active, Statuses
<1>1. CASE \/ \E k \in Keys : KeyExpires(k)
           \/ \E w \in Workers : UpdateIndexes(w) \/ UpdateFails(w)
           \/ \E s \in Statuses : ReconcileScan(s)
           \/ \E s \in Final : CleanupPage(s)
           \/ ReconcileFetch \/ CleanupFails
  <2>1. UNCHANGED <<body, byStatus, legacy, monitored, mg, rq>>
    BY <1>1 DEF KeyExpires, UpdateIndexes, UpdateFails, ReconcileScan, CleanupPage,
                ReconcileFetch, CleanupFails, indexes
  <2> QED
    BY <2>1, ListedFrame
<1>2. ASSUME NEW w \in Workers, NEW i \in Ids, UpdateRecord(w, i)
      PROVE  ListedInv'
  <2>1. Stored(i) /\ i \in monitored /\ UNCHANGED <<monitored, mg, rq>>
    BY <1>2 DEF UpdateRecord
  <2>2. /\ \A j \in Ids : Stored(j)' <=> Stored(j)
        /\ \A j \in Ids \ {i} : body'[j] = body[j]
        /\ \A j \in Ids : Listed(j) => Listed(j)'
        /\ \A s \in Statuses : legacy'[s] \subseteq legacy[s]
    <3>1. PICK patch \in Patches(i) : PatchScript(i, patch)
      BY <1>2 DEF UpdateRecord
    <3> QED
      BY <2>1, <3>1, PatchesPatch, PatchKeeps, PatchListed
  <2>3. MigrationComplete'
    BY <2>1, <2>2, MigrationCases DEF ListedInv, MigrationComplete, Types, TypeOK
  <2>4. NotYetMonitored'
    BY <2>1, <2>2 DEF ListedInv, NotYetMonitored, Ids
  <2>5. MonitoredIsListed'
    BY <2>1, <2>2 DEF ListedInv, MonitoredIsListed, Listed, Types, TypeOK
  <2> QED
    BY <2>3, <2>4, <2>5 DEF ListedInv
<1>3. CASE (\E s \in Statuses : MigrateScan(s)) \/ MigrateFetch
  <2>1. UNCHANGED <<body, byStatus, legacy, monitored, rq>>
    BY <1>3 DEF MigrateScan, MigrateFetch, indexes
  <2>2. MigrationComplete'
    <3>1. ASSUME NEW s \in Statuses, MigrateScan(s)
          PROVE  MigrationComplete'
      BY <2>1, <3>1 DEF MigrateScan, ListedInv, MigrationComplete
    <3>2. CASE MigrateFetch
      <4>1. mg # Rest /\ mg \in [at : {"fetch", "write"}, status : Statuses, ids : SUBSET Ids]
        BY <3>2 DEF MigrateFetch, Rest, Types, RunsOK, MigrationRuns
      <4>2. mg'.status = mg.status /\ mg'.ids = {i \in mg.ids : Stored(i)}
        BY <3>2, <4>1 DEF MigrateFetch
      <4> QED
        BY <2>1, <4>1, <4>2 DEF ListedInv, MigrationComplete, Stored
    <3> QED
      BY <1>3, <3>1, <3>2
  <2>3. NotYetMonitored'
    BY <2>1 DEF ListedInv, NotYetMonitored, Listed, Active, Stored
  <2>4. MonitoredIsListed'
    BY <2>1 DEF ListedInv, MonitoredIsListed, Active, Stored
  <2> QED
    BY <2>2, <2>3, <2>4 DEF ListedInv
<1>4. CASE MigrateWrite
  <2>1. UNCHANGED <<body, monitored, rq>> /\ mg' = Rest
    BY <1>4 DEF MigrateWrite
  <2>2. mg # Rest /\ mg.status \in Statuses
    BY <1>4, MigrationCases DEF MigrateWrite, Rest
  <2>3. /\ \A s \in Statuses : byStatus[s] \subseteq byStatus'[s] /\ legacy'[s] \subseteq legacy[s]
        /\ \A s \in Statuses \ {mg.status} : legacy'[s] = legacy[s]
        /\ mg.ids \subseteq byStatus'[mg.status]
    BY <1>4, <2>2 DEF MigrateWrite, Types, TypeOK
  <2>4. ASSUME NEW i \in Ids, Listed(i)
        PROVE  Listed(i)'
    BY <1>0, <2>1, <2>2, <2>3, <2>4 DEF ListedInv, MigrationComplete, Listed, Active, Stored
  <2>5. MigrationComplete'
    BY <2>1, <2>3 DEF ListedInv, MigrationComplete
  <2>6. NotYetMonitored'
    BY <2>1, <2>4 DEF ListedInv, NotYetMonitored, Ids
  <2>7. MonitoredIsListed'
    BY <2>1, <2>4 DEF ListedInv, MonitoredIsListed, Listed, Types, TypeOK
  <2> QED
    BY <2>5, <2>6, <2>7 DEF ListedInv
<1>5. CASE ReconcileWrite
  <2>1. UNCHANGED <<body, monitored, rq, mg>>
    BY <1>5 DEF ReconcileWrite
  <2>2. cl.status \in Statuses /\ \A i \in cl.ids : ~Active(i)
    BY <1>5, SweepCases DEF ReconcileWrite, StoreInv, SweepFresh
  <2>3. \A s \in Statuses :
          /\ byStatus[s] \ cl.ids \subseteq byStatus'[s]
          /\ legacy'[s] \subseteq legacy[s] /\ legacy[s] \ cl.ids \subseteq legacy'[s]
    BY <1>5, <2>2 DEF ReconcileWrite, Types, TypeOK
  <2>4. ASSUME NEW i \in Ids, Listed(i)
        PROVE  Listed(i)'
    BY <1>0, <2>1, <2>2, <2>3, <2>4 DEF Listed, Active, Stored
  <2>5. MigrationComplete'
    BY <2>1, <2>3, MigrationCases DEF ListedInv, MigrationComplete, Stored
  <2>6. NotYetMonitored'
    BY <2>1, <2>4 DEF ListedInv, NotYetMonitored, Ids
  <2>7. MonitoredIsListed'
    BY <2>1, <2>4 DEF ListedInv, MonitoredIsListed, Listed, Types, TypeOK
  <2> QED
    BY <2>5, <2>6, <2>7 DEF ListedInv
<1>6. CASE CleanupDelete
  <2>1. UNCHANGED <<monitored, rq, mg>>
    BY <1>6 DEF CleanupDelete
  <2>2. /\ \A i \in cl.ids \cap Ids : ~Stored(i)'
        /\ \A i \in Ids \ cl.ids : body'[i] = body[i]
        /\ \A s \in Statuses : byStatus'[s] = byStatus[s] \ cl.ids
        /\ \A s \in Statuses : legacy'[s] = legacy[s] \ cl.ids
    BY <1>6 DEF CleanupDelete, Stored
  <2>3. ASSUME NEW i \in Ids, Listed(i)
        PROVE  Listed(i)'
    BY <1>0, <2>2, <2>3 DEF Listed, Active, Stored
  <2>4. MigrationComplete'
    BY <2>1, <2>2, MigrationCases DEF ListedInv, MigrationComplete, Stored, Types, TypeOK
  <2>5. NotYetMonitored'
    <3>1. \A i \in cl.ids : Aged(i)
      BY <1>6, SweepCases DEF CleanupDelete, StoreInv, SweepFresh
    <3>2. \A q \in Requests : rq[q].at = "index" => body'[q] = body[q]
      BY <2>2, <3>1 DEF Aged, Creating, Ids
    <3> QED
      BY <2>1, <2>3, <3>2 DEF ListedInv, NotYetMonitored, Ids
  <2>6. MonitoredIsListed'
    BY <2>1, <2>3 DEF ListedInv, MonitoredIsListed, Listed, Types, TypeOK
  <2> QED
    BY <2>4, <2>5, <2>6 DEF ListedInv
<1> QED
  BY <1>1, <1>2, <1>3, <1>4, <1>5, <1>6

\* An active transaction whose status check was queued is never hidden from find_by_status:
\* migrations, sweeps and updates of any number of handlers may overlap in any order.
THEOREM MonitoredListed == Spec => []MonitoredIsListed
<1>1. Init => Types /\ StoreInv /\ ListedInv
  BY TypesInit, StoreInit, ListedInit
<1>2. Types /\ StoreInv /\ ListedInv /\ [Next]_vars => ListedInv'
  <2> SUFFICES ASSUME Types, StoreInv, ListedInv, [Next]_vars
               PROVE  ListedInv'
    OBVIOUS
  <2>1. CASE Next
    BY <2>1, NextCases, ListedRequest, ListedOther
  <2>2. CASE UNCHANGED vars
    BY <2>2, ListedFrame DEF vars
  <2> QED
    BY <2>1, <2>2
<1>3. ListedInv => MonitoredIsListed
  BY DEF ListedInv
<1> QED
  BY <1>1, <1>2, <1>3, StoreStep, PTL DEF Spec
-----------------------------------------------------------------------------
(* The repository implements TransactionStore.                             *)

phase == [i \in Ids |-> Phase(i)]

\* Initial states map to initial states.
LEMMA RefinesInit == Init => Store!Init
<1> SUFFICES ASSUME Init PROVE Store!Init
  OBVIOUS
<1>1. Requests \cap Legacy = {} /\ Ids = Requests \cup Legacy
  BY RepositoryAssumption DEF Ids
<1>2. [status |-> "Pending", nonce |-> None] # None
  <2>1. [status |-> "Pending", nonce |-> None] \in Record
    BY DEF Record, Statuses, NonFinal
  <2> QED
    BY <2>1, RepositoryAssumption
<1>3. \A i \in Ids : Phase(i) = IF i \in Legacy THEN "Active" ELSE "Unborn"
  BY <1>1, <1>2 DEF Init, Phase, Active, Stored, NonFinal
<1> QED
  BY <1>3 DEF Store!Init, Init

\* A step that leaves records, history and keys alone is a stutter.
LEMMA RefinesStutter ==
    ASSUME UNCHANGED <<body, bound, denied, born>>
    PROVE  UNCHANGED Store!vars
BY DEF Store!vars, Phase, Active, Stored

\* A patch finishes one transaction or changes no phase.
LEMMA RefinesPatch ==
    ASSUME Types, StoreInv, NEW i \in Ids, Stored(i), NEW patch,
           patch.status \in Statuses \cup {None}, patch.nonce \in Nonces \cup {None},
           PatchScript(i, patch), UNCHANGED history
    PROVE  [Store!Next]_(Store!vars)
<1>1. /\ \A j \in Ids : Stored(j)' <=> Stored(j)
      /\ \A j \in Ids \ {i} : body'[j] = body[j]
      /\ \A j \in Ids : Active(j)' => Active(j)
  BY PatchKeeps
<1>2. UNCHANGED <<bound, denied, born>>
  BY DEF history
<1>3. \A j \in Ids \ {i} : Phase(j)' = Phase(j)
  BY <1>1, <1>2 DEF Phase, Active, Stored
<1>4. CASE Active(i)' <=> Active(i)
  <2>1. Phase(i)' = Phase(i)
    BY <1>1, <1>2, <1>4 DEF Phase
  <2> QED
    BY <1>2, <1>3, <2>1 DEF Store!vars
<1>5. CASE Active(i) /\ ~Active(i)'
  <2>1. Phase(i) = "Active" /\ Phase(i)' = "Final"
    BY <1>1, <1>5 DEF Phase
  <2>2. phase' = [phase EXCEPT ![i] = "Final"]
    BY <1>3, <2>1 DEF phase
  <2>3. Store!Finish(i)
    BY <1>2, <2>1, <2>2 DEF Store!Finish, phase
  <2> QED
    BY <2>3 DEF Store!Next
<1> QED
  BY <1>1, <1>4, <1>5

\* Each step of a request is a step of the store, or a stutter.
LEMMA RefinesRequest ==
    ASSUME Types, StoreInv, NEW q \in Requests,
           \/ Reserve(q) \/ ReplayRecord(q) \/ ReplayLookup(q) \/ CreateRecord(q)
           \/ CreateIndexes(q) \/ QueueStatusCheck(q) \/ QueueRequest(q)
           \/ MarkFailed(q) \/ ReleaseKey(q) \/ CreateFails(q) \/ RequestCrash(q)
           \/ WindowEnds(q)
    PROVE  [Store!Next]_(Store!vars)
<1>0. q \in Ids /\ KeyOf[q] \in Keys \cup {None}
  BY RepositoryAssumption DEF Ids
<1>1. CASE \/ Reserve(q) \/ ReplayRecord(q) \/ CreateIndexes(q) \/ QueueStatusCheck(q)
           \/ QueueRequest(q) \/ ReleaseKey(q) \/ CreateFails(q) \/ RequestCrash(q)
           \/ WindowEnds(q)
  <2>1. UNCHANGED <<body, bound, denied, born>>
    BY <1>1 DEF Reserve, ReplayRecord, CreateIndexes, QueueStatusCheck, QueueRequest, ReleaseKey,
                CreateFails, RequestCrash, WindowEnds, history
  <2> QED
    BY <2>1, RefinesStutter
<1>2. CASE ReplayLookup(q)
  <2>1. rq[q].seen \in Ids
    BY <1>2 DEF ReplayLookup, Types, RunsOK, Ids
  <2>2. PICK i \in Ids :
          /\ UNCHANGED <<body, bound, born>>
          /\ denied' = denied \/ (denied' = denied \cup {i} /\ ~Stored(i))
    BY <1>2, <2>1 DEF ReplayLookup
  <2>3. CASE denied' = denied
    BY <2>2, <2>3, RefinesStutter
  <2>4. CASE denied' = denied \cup {i} /\ ~Stored(i)
    <3>1. \A j \in Ids \ {i} : Phase(j)' = Phase(j)
      BY <2>2, <2>4 DEF Phase, Active, Stored
    <3>2. CASE i \in born \/ i \in denied
      <4>1. Phase(i)' = Phase(i)
        BY <2>2, <2>4, <3>2 DEF Phase, Active, Stored
      <4> QED
        BY <2>2, <3>1, <4>1 DEF Store!vars
    <3>3. CASE i \notin born /\ i \notin denied
      <4>1. Phase(i) = "Unborn" /\ Phase(i)' = "Void"
        BY <2>2, <2>4, <3>3 DEF Phase, Active, Stored
      <4>2. phase' = [phase EXCEPT ![i] = "Void"]
        BY <3>1, <4>1 DEF phase
      <4>3. Store!Deny(i)
        BY <2>1, <2>2, <4>1, <4>2 DEF Store!Deny, phase
      <4> QED
        BY <2>1, <4>3 DEF Store!Next
    <3> QED
      BY <3>2, <3>3
  <2> QED
    BY <2>2, <2>3, <2>4
<1>3. CASE CreateRecord(q)
  <2>1. q \notin born /\ ~Stored(q) /\ q \notin denied
    BY <1>3, <1>0 DEF CreateRecord, StoreInv, BornStored, LateEnded, Creating
  <2>2. /\ \A j \in Ids \ {q} : body'[j] = body[j]
        /\ body'[q] = [status |-> "Pending", nonce |-> None]
        /\ body'[q] # None
        /\ born' = born \cup {q} /\ denied' = denied
    <3>1. [status |-> "Pending", nonce |-> None] \in Record
      BY DEF Record, Statuses, NonFinal
    <3> QED
      BY <1>3, <1>0, <3>1, RepositoryAssumption DEF CreateRecord, Types, TypeOK
  <2>3. \A j \in Ids \ {q} : Phase(j)' = Phase(j)
    BY <2>2 DEF Phase, Active, Stored
  <2>4. Phase(q) = "Unborn"
    BY <2>1 DEF Phase, Active
  <2>5. Phase(q)' = "Active"
    BY <2>2 DEF Phase, Active, Stored, NonFinal
  <2>6. phase' = [phase EXCEPT ![q] = "Active"]
    BY <2>3, <2>5 DEF phase
  <2>7. IF KeyOf[q] = None
        THEN bound' = bound
        ELSE bound[KeyOf[q]] = {} /\ bound' = [bound EXCEPT ![KeyOf[q]] = {q}]
    <3>1. CASE KeyOf[q] = None
      BY <1>3, <3>1 DEF CreateRecord
    <3>2. CASE KeyOf[q] # None
      <4>1. KeyOf[q] \in Keys /\ keys[KeyOf[q]] = q
        BY <1>3, <1>0, <3>2 DEF CreateRecord, StoreInv, KeyHeld
      <4>2. bound[KeyOf[q]] = {}
        BY <2>1, <4>1 DEF StoreInv, KeyHeld
      <4> QED
        BY <1>3, <3>2, <4>1, <4>2 DEF CreateRecord
    <3> QED
      BY <3>1, <3>2
  <2>8. Store!Store(q)
    BY <1>0, <2>4, <2>6, <2>7 DEF Store!Store, phase
  <2> QED
    BY <1>0, <2>8 DEF Store!Next
<1>4. CASE MarkFailed(q)
  <2> DEFINE patch == [status |-> "Failed", nonce |-> None]
  <2>1. patch.status \in Statuses \cup {None} /\ patch.nonce \in Nonces \cup {None}
    BY DEF Statuses, Final
  <2>2. (PatchScript(q, patch) \/ UNCHANGED body) /\ UNCHANGED <<bound, denied, born>>
    BY <1>4 DEF MarkFailed, history
  <2>3. Stored(q)
    BY <1>4 DEF MarkFailed, StoreInv, BornStored, Creating
  <2> HIDE DEF patch
  <2>4. CASE PatchScript(q, patch)
    BY <1>0, <2>1, <2>2, <2>3, <2>4, RefinesPatch DEF history
  <2>5. CASE UNCHANGED body
    BY <2>2, <2>5, RefinesStutter
  <2> QED
    BY <2>2, <2>4, <2>5
<1> QED
  BY <1>1, <1>2, <1>3, <1>4

\* So is every other step.
LEMMA RefinesOther ==
    ASSUME Types, StoreInv,
           \/ \E k \in Keys : KeyExpires(k)
           \/ \E w \in Workers, i \in Ids : UpdateRecord(w, i)
           \/ \E w \in Workers : UpdateIndexes(w) \/ UpdateFails(w)
           \/ \E s \in Statuses : MigrateScan(s) \/ ReconcileScan(s)
           \/ \E s \in Final : CleanupPage(s)
           \/ MigrateFetch \/ MigrateWrite
           \/ ReconcileFetch \/ ReconcileWrite \/ CleanupDelete \/ CleanupFails
    PROVE  [Store!Next]_(Store!vars)
<1>1. ASSUME NEW k \in Keys, KeyExpires(k)
      PROVE  [Store!Next]_(Store!vars)
  <2>1. \A i \in Ids : Phase(i)' = Phase(i)
    BY <1>1 DEF KeyExpires, Phase, Active, Stored
  <2>2. Store!Forget(k)
    BY <1>1, <2>1 DEF KeyExpires, Store!Forget
  <2> QED
    BY <2>2 DEF Store!Next
<1>2. ASSUME NEW w \in Workers, NEW i \in Ids, UpdateRecord(w, i)
      PROVE  [Store!Next]_(Store!vars)
  <2>1. PICK patch \in Patches(i) : PatchScript(i, patch)
    BY <1>2 DEF UpdateRecord
  <2> QED
    BY <1>2, <2>1, PatchesPatch, RefinesPatch DEF UpdateRecord
<1>3. CASE \/ \E w \in Workers : UpdateIndexes(w) \/ UpdateFails(w)
           \/ \E s \in Statuses : MigrateScan(s) \/ ReconcileScan(s)
           \/ \E s \in Final : CleanupPage(s)
           \/ MigrateFetch \/ MigrateWrite
           \/ ReconcileFetch \/ ReconcileWrite \/ CleanupFails
  <2>1. UNCHANGED <<body, bound, denied, born>>
    BY <1>3 DEF UpdateIndexes, UpdateFails, MigrateScan, ReconcileScan, CleanupPage, MigrateFetch,
                MigrateWrite, ReconcileFetch, ReconcileWrite, CleanupFails, history
  <2> QED
    BY <2>1, RefinesStutter
<1>4. CASE CleanupDelete
  <2>1. /\ cl.ids \in SUBSET Ids /\ cl.ids # {}
        /\ \A i \in cl.ids : Stored(i) /\ body[i].status \in Final
    BY <1>4, SweepCases DEF CleanupDelete, StoreInv, SweepFresh
  <2>2. UNCHANGED <<bound, denied, born>>
    BY <1>4 DEF CleanupDelete, history
  <2>3. \A i \in cl.ids : Phase(i) = "Final" /\ Phase(i)' = "Removed"
    <3>1. \A i \in cl.ids : ~Active(i) /\ i \in born /\ ~Stored(i)'
      BY <1>4, <2>1 DEF CleanupDelete, StoreInv, BornStored, Stored, Active, NonFinal, Final
    <3> QED
      BY <2>1, <2>2, <3>1 DEF Phase, Active
  <2>4. \A i \in Ids \ cl.ids : Phase(i)' = Phase(i)
    BY <1>4, <2>2 DEF CleanupDelete, Phase, Active, Stored
  <2>5. phase' = [i \in Ids |-> IF i \in cl.ids THEN "Removed" ELSE phase[i]]
    BY <2>3, <2>4 DEF phase
  <2>6. Store!Remove(cl.ids)
    BY <2>1, <2>2, <2>3, <2>5 DEF Store!Remove, phase
  <2> QED
    BY <2>1, <2>6 DEF Store!Next
<1> QED
  BY <1>1, <1>2, <1>3, <1>4

\* Idempotent creation, updates, crashes, expiring keys and deletions taken together keep
\* what TransactionStore promises: one transaction per key, final statuses for ever, only
\* final records deleted, and none stored after a replay was told that there is none.
THEOREM RefinesStore == Spec => ImplementsStore
<1>1. Init => Types /\ StoreInv
  BY TypesInit, StoreInit
<1>2. Types /\ StoreInv /\ [Next]_vars => [Store!Next]_(Store!vars)
  <2> SUFFICES ASSUME Types, StoreInv, [Next]_vars
               PROVE  [Store!Next]_(Store!vars)
    OBVIOUS
  <2>1. CASE Next
    BY <2>1, NextCases, RefinesRequest, RefinesOther
  <2>2. CASE UNCHANGED vars
    BY <2>2, RefinesStutter DEF vars
  <2> QED
    BY <2>1, <2>2
<1> QED
  BY <1>1, <1>2, StoreStep, RefinesInit, PTL DEF Spec, ImplementsStore, Store!Spec
=============================================================================
