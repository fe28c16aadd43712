--------------------------- MODULE DistKVCluster ----------------------------
(***************************************************************************)
(* DistKV as a whole: one Master, worker processes with their registration *)
(* loops, and engines that read and write objects through                  *)
(* DistKvObjectStore (kv_cache/distkv_store.rs).                           *)
(*                                                                         *)
(* An engine runs one get_object or put_object at a time; between any two  *)
(* of its steps the Master, the workers and the other engines may move.  A *)
(* call to the Master is one action: the Master handles it under its lock, *)
(* and a lost response is the same as the caller failing right after.  A   *)
(* write to a remote worker is a message of its own, since it may arrive   *)
(* after its sender has given up or died.                                  *)
(***************************************************************************)
EXTENDS DistKVMaster

CONSTANTS
  Engines,
  LocalWorker,        \* LocalWorker[e]: the worker in the engine's process
  Capacity,           \* Capacity[w]: the bytes worker w is started with
  MaxGeneration,      \* bound: generations a worker store has slots for
  Miss,               \* the answer Ok(None)
  MaxCrashes,         \* bound: crashes of worker processes
  MaxMasterRestarts,  \* bound: restarts of the Master
  MaxDeletes          \* bound: DELETE requests by an operator

ASSUME ClusterAssumption ==
  /\ LocalWorker \in [Engines -> Workers \cup {NoWorker}]
  /\ Capacity \in [Workers -> Capacities]
  /\ MaxGeneration \in Nat
  /\ MaxGeneration >= MaxPuts

VARIABLES
  store,            \* store[w]: the WorkerStore of worker w
  committed_index,  \* committed_index[w]: the committed index beside it
  agent,      \* agent[w]: epoch the worker heartbeats with, 0 = registering
  op,         \* op[e]: what engine e is in the middle of
  wire,       \* writes on their way to a remote worker
  answer,     \* answer[e]: <<key, put>> of the bytes last returned, or Miss
  crashes,    \* worker crashes so far
  restarts,   \* Master restarts so far
  deleted     \* history: puts whose bytes an operator deleted

INSTANCE WorkerNode

nodeVars == <<store, committed_index>>

clusterVars == <<masterVars, nodeVars, agent, op, wire, answer, crashes, restarts, deleted>>
procVars == <<agent, crashes, restarts, deleted>>

Pcs == {"idle", "get_local", "get_route", "get_fetch", "put_write", "put_sent",
        "put_commit", "mark"}

Idle == [pc |-> "idle", key |-> NoWorker, worker |-> NoWorker, generation |-> 0,
         put_id |-> 0, size_bytes |-> 0]

(* The put an engine is working on, as the Master's response described it. *)
TicketOf(e) ==
  CHOOSE t \in tickets : t.put_id = op[e].put_id

OnOwnWorker(e) == op[e].worker = LocalWorker[e]

Finish(e) == op' = [op EXCEPT ![e] = Idle]

Goto(e, pc) == op' = [op EXCEPT ![e].pc = pc]

-----------------------------------------------------------------------------
(* get_object.                                                             *)

(* Local first: with a worker of its own the engine looks its key up in    *)
(* the committed index; otherwise it goes on to ask for a route.           *)
GetStart(e, k) ==
  LET w == LocalWorker[e]
      generation == IF w = NoWorker THEN 0 ELSE committed_index[w][k]
  IN
  /\ op[e] = Idle
  /\ op' = [op EXCEPT ![e] =
       [Idle EXCEPT !.pc = IF generation > 0 THEN "get_local" ELSE "get_route",
                    !.key = k, !.worker = w, !.generation = generation]]
  /\ UNCHANGED <<masterVars, nodeVars, procVars, wire, answer>>

(* The second lock of try_get_committed: the bytes of that generation.     *)
GetLocal(e) ==
  LET k == op[e].key
      bytes == GetBytes(op[e].worker, k, op[e].generation)
  IN
  /\ op[e].pc = "get_local"
  /\ IF bytes.put_id # 0
     THEN answer' = [answer EXCEPT ![e] = <<k, bytes.put_id>>] /\ Finish(e)
     ELSE UNCHANGED answer /\ Goto(e, "get_route")
  /\ UNCHANGED <<masterVars, nodeVars, procVars, wire>>

GetRouteFound(e) ==
  LET k == op[e].key IN
  /\ op[e].pc = "get_route"
  /\ GetRoute(k)
  /\ op' = [op EXCEPT ![e] =
       [@ EXCEPT !.pc = "get_fetch", !.worker = objects[k].worker_id,
                 !.generation = objects[k].generation, !.put_id = objects[k].put_id]]
  /\ UNCHANGED <<nodeVars, procVars, wire, answer>>

GetRouteNone(e) ==
  /\ op[e].pc = "get_route"
  /\ ~HasRoute(op[e].key)
  /\ answer' = [answer EXCEPT ![e] = Miss]
  /\ Finish(e)
  /\ UNCHANGED <<masterVars, nodeVars, procVars, wire>>

(* The bytes of the routed generation: in process from the engine's own    *)
(* worker, where a hit is then marked, or from the worker's GET handler.   *)
GetFetch(e) ==
  LET k == op[e].key
      bytes == GetBytes(op[e].worker, k, op[e].generation)
  IN
  /\ op[e].pc = "get_fetch"
  /\ answer' = [answer EXCEPT ![e] =
       IF bytes.put_id = 0 THEN Miss ELSE <<k, bytes.put_id>>]
  /\ IF bytes.put_id # 0 /\ OnOwnWorker(e) THEN Goto(e, "mark") ELSE Finish(e)
  /\ UNCHANGED <<masterVars, nodeVars, procVars, wire>>

-----------------------------------------------------------------------------
(* put_object.                                                             *)

PutStartCall(e, k, size, w) ==
  /\ op[e] = Idle
  /\ PutStart(k, size, LocalWorker[e], w)
  /\ op' = [op EXCEPT ![e] =
       [pc |-> "put_write", key |-> k, worker |-> w, generation |-> NextGeneration(k),
        put_id |-> puts + 1, size_bytes |-> size]]
  /\ UNCHANGED <<nodeVars, procVars, wire, answer>>

PutStartFails(e, k, size) ==
  /\ op[e] = Idle
  /\ PutStartRejected(k, size, LocalWorker[e])
  /\ UNCHANGED <<nodeVars, procVars, op, wire, answer>>

BytesOf(e) == [put_id |-> op[e].put_id, len |-> op[e].size_bytes]

(* Mutant of PutWriteLocal: the object is marked before it is committed.   *)
MarkWithWrite(e) ==
  /\ op[e].pc = "put_write"
  /\ OnOwnWorker(e)
  /\ IF PutFits(op[e].worker, op[e].key, op[e].generation, op[e].size_bytes)
     THEN /\ PutBytes(op[e].worker, op[e].key, op[e].generation, BytesOf(e))
          /\ MarkCommitted(op[e].worker, op[e].key, op[e].generation)
          /\ Goto(e, "put_commit")
     ELSE UNCHANGED nodeVars /\ Finish(e)
  /\ UNCHANGED <<masterVars, procVars, wire, answer>>

(* The Master placed the object on the engine's own worker.                *)
PutWriteLocal(e) ==
  /\ op[e].pc = "put_write"
  /\ OnOwnWorker(e)
  /\ IF PutFits(op[e].worker, op[e].key, op[e].generation, op[e].size_bytes)
     THEN /\ PutBytes(op[e].worker, op[e].key, op[e].generation, BytesOf(e))
          /\ Goto(e, "put_commit")
     ELSE UNCHANGED store /\ Finish(e)
  /\ UNCHANGED <<masterVars, committed_index, procVars, wire, answer>>

PutWriteSend(e) ==
  /\ op[e].pc = "put_write"
  /\ ~OnOwnWorker(e)
  /\ wire' = wire \cup {[from |-> e, worker |-> op[e].worker, key |-> op[e].key,
                         generation |-> op[e].generation, bytes |-> BytesOf(e)]}
  /\ Goto(e, "put_sent")
  /\ UNCHANGED <<masterVars, nodeVars, procVars, answer>>

(* Whether the sender of m still waits for its response.                   *)
Awaited(m) == op[m.from].pc = "put_sent" /\ op[m.from].put_id = m.bytes.put_id

(* The worker's PUT handler; a write that does not fit is an error.        *)
DeliverWrite(m) ==
  LET fits == PutFits(m.worker, m.key, m.generation, m.bytes.len) IN
  /\ wire' = wire \ {m}
  /\ IF fits THEN PutBytes(m.worker, m.key, m.generation, m.bytes) ELSE UNCHANGED store
  /\ op' = IF ~Awaited(m) THEN op
           ELSE [op EXCEPT ![m.from] = IF fits THEN [@ EXCEPT !.pc = "put_commit"] ELSE Idle]
  /\ UNCHANGED <<masterVars, committed_index, procVars, answer>>

LoseWrite(m) ==
  /\ wire' = wire \ {m}
  /\ op' = IF Awaited(m) THEN [op EXCEPT ![m.from] = Idle] ELSE op
  /\ UNCHANGED <<masterVars, nodeVars, procVars, answer>>

PutCommitCall(e) ==
  /\ op[e].pc = "put_commit"
  /\ PutCommit(TicketOf(e))
  /\ IF OnOwnWorker(e) THEN Goto(e, "mark") ELSE Finish(e)
  /\ UNCHANGED <<nodeVars, procVars, wire, answer>>

PutCommitFails(e) ==
  /\ op[e].pc = "put_commit"
  /\ ~(/\ objects[op[e].key].state = "Writing"
       /\ objects[op[e].key].put_id = op[e].put_id)
  /\ Finish(e)
  /\ UNCHANGED <<masterVars, nodeVars, procVars, wire, answer>>

(* Last step of a put to, or a get from, the engine's own worker.          *)
Mark(e) ==
  /\ op[e].pc = "mark"
  /\ MarkCommitted(op[e].worker, op[e].key, op[e].generation)
  /\ Finish(e)
  /\ UNCHANGED <<masterVars, store, procVars, wire, answer>>

(* A call fails (connection refused or reset, response lost), or the       *)
(* engine dies where it stands; nothing is undone.                         *)
OpFails(e) ==
  /\ op[e] # Idle
  /\ Finish(e)
  /\ UNCHANGED <<masterVars, nodeVars, procVars, wire, answer>>

-----------------------------------------------------------------------------
(* Worker processes: distkv/registration.rs.                               *)

(* register: the response carries the epoch; when it is lost the worker    *)
(* stays in the retry loop.                                                *)
WorkerRegisters(w) ==
  /\ agent[w] = 0
  /\ RegisterWorker(w, Capacity[w])
  /\ agent' \in {agent, [agent EXCEPT ![w] = workers'[w].epoch]}
  /\ UNCHANGED <<nodeVars, op, wire, answer, crashes, restarts, deleted>>

(* heartbeat_once, accepted; a lost response counts as a rejection.        *)
WorkerHeartbeats(w) ==
  /\ agent[w] > 0
  /\ Heartbeat(w, agent[w])
  /\ agent' \in {agent, [agent EXCEPT ![w] = 0]}
  /\ UNCHANGED <<nodeVars, op, wire, answer, crashes, restarts, deleted>>

(* heartbeat_once, rejected or lost: the worker goes back to registering   *)
(* with all its bytes still in the store.                                  *)
HeartbeatFails(w) ==
  /\ agent[w] > 0
  /\ agent' = [agent EXCEPT ![w] = 0]
  /\ UNCHANGED <<masterVars, nodeVars, op, wire, answer, crashes, restarts, deleted>>

(* A worker process dies and is started again, and with it the engine it   *)
(* is co-located with.                                                     *)
WorkerCrashes(w) ==
  /\ crashes < MaxCrashes
  /\ crashes' = crashes + 1
  /\ WipeNode(w)
  /\ agent' = [agent EXCEPT ![w] = 0]
  /\ op' = [e \in Engines |-> IF LocalWorker[e] = w THEN Idle ELSE op[e]]
  /\ UNCHANGED <<masterVars, wire, answer, restarts, deleted>>

OperatorDeletes(w, k, generation) ==
  /\ Cardinality(deleted) < MaxDeletes
  /\ DeleteGeneration(w, k, generation)
  /\ deleted' = deleted \cup {GetBytes(w, k, generation).put_id}
  /\ UNCHANGED <<masterVars, agent, crashes, restarts, op, wire, answer>>

(* The Master is a process with its state in memory.  put_ids are uuids,   *)
(* so they stay fresh across the restart; generations and epochs do not.   *)
MasterRestarts ==
  /\ restarts < MaxMasterRestarts
  /\ restarts' = restarts + 1
  /\ workers' = [w \in Workers |-> UnknownWorker]
  /\ objects' = [k \in Keys |-> AbsentObject]
  /\ routed' = [k \in Keys |-> 0]
  /\ stray' = {}
  /\ UNCHANGED <<now, puts, tickets, acked, misfreed, nodeVars, agent, op, wire, answer, crashes, deleted>>

ClockMoves(t) ==
  /\ t # now
  /\ SetClock(t)
  /\ UNCHANGED <<nodeVars, procVars, op, wire, answer>>

-----------------------------------------------------------------------------
ClusterInit ==
  /\ MasterInit
  /\ NodeInit
  /\ agent = [w \in Workers |-> 0]
  /\ op = [e \in Engines |-> Idle]
  /\ wire = {}
  /\ answer = [e \in Engines |-> Miss]
  /\ crashes = 0
  /\ restarts = 0
  /\ deleted = {}

EngineStep(e) ==
  \/ \E k \in Keys : GetStart(e, k)
  \/ GetLocal(e)
  \/ GetRouteFound(e)
  \/ GetRouteNone(e)
  \/ GetFetch(e)
  \/ \E k \in Keys, size \in Sizes, w \in Workers : PutStartCall(e, k, size, w)
  \/ \E k \in Keys, size \in Sizes : PutStartFails(e, k, size)
  \/ PutWriteLocal(e)
  \/ PutWriteSend(e)
  \/ PutCommitCall(e)
  \/ PutCommitFails(e)
  \/ Mark(e)
  \/ OpFails(e)

WorkerStep(w) ==
  \/ WorkerRegisters(w)
  \/ WorkerHeartbeats(w)
  \/ HeartbeatFails(w)
  \/ WorkerCrashes(w)
  \/ \E k \in Keys, g \in 1..MaxGeneration : OperatorDeletes(w, k, g)

ClusterNext ==
  \/ \E e \in Engines : EngineStep(e)
  \/ \E m \in wire : DeliverWrite(m)
  \/ \E m \in wire : LoseWrite(m)
  \/ \E w \in Workers : WorkerStep(w)
  \/ MasterRestarts
  \/ \E t \in 0..MaxNow : ClockMoves(t)

ClusterSpec == ClusterInit /\ [][ClusterNext]_clusterVars

-----------------------------------------------------------------------------
(* Properties.                                                             *)

ClusterTypeOK ==
  /\ MasterTypeOK
  /\ NodeTypeOK
  /\ agent \in [Workers -> 0..MaxEpoch]
  /\ \A e \in Engines :
       /\ op[e].pc \in Pcs
       /\ op[e].worker \in Workers \cup {NoWorker}
       /\ op[e].generation \in 0..MaxGeneration
       /\ op[e].put_id \in 0..MaxPuts
  /\ \A m \in wire : m.from \in Engines /\ m.bytes.put_id \in 1..MaxPuts

(* Implementation of the object store's contract: whatever interleaving of *)
(* engines, heartbeats, crashes and late writes, get_object answers with   *)
(* committed bytes of its key or with a miss.                              *)
AckedPuts == {<<t.key, t.put_id>> : t \in {u \in tickets : u.put_id \in acked}}

Contract == INSTANCE KvObjectStore WITH
  Puts <- 1..MaxPuts, committed <- AckedPuts, answer <- answer

ImplementsObjectStore == Contract!Spec

(* simulator.rs:14-16: "a fetch on a routed generation returns either the  *)
(* exact committed bytes or a clean miss".  A route in a reader's hand     *)
(* names one put; its slot holds the bytes of that put or none, however    *)
(* long the reader waits.                                                  *)
FetchIsExactOrMiss ==
  \A e \in Engines : op[e].pc = "get_fetch" =>
    GetBytes(op[e].worker, op[e].key, op[e].generation).put_id \in {0, op[e].put_id}

(* distkv_store.rs:41-43: "Only committed-index entries qualify, so staged *)
(* writes never leak as a hit".  The bytes behind an entry of the index    *)
(* are those of a put the Master acknowledged.                             *)
IndexNeverServesStaged ==
  \A w \in Workers, k \in Keys :
    LET g == committed_index[w][k] IN
    g > 0 /\ HasBytes(w, k, g) => GetBytes(w, k, g).put_id \in acked

(* I2 seen from the data: while a worker lives in the incarnation it       *)
(* registered, every object the Master routes to it is there in full,      *)
(* unless an operator deleted it.                                          *)
RouteServes ==
  \A k \in Keys : HasRoute(k) =>
    LET w == objects[k].worker_id IN
    agent[w] = objects[k].worker_epoch /\ objects[k].put_id \notin deleted =>
      GetBytes(w, k, objects[k].generation).put_id = objects[k].put_id
=============================================================================
