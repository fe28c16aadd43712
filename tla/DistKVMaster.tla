---------------------------- MODULE DistKVMaster ----------------------------
(***************************************************************************)
(* The Master of DistKV: src/src/distkv/master.rs.                         *)
(*                                                                         *)
(* The Master owns metadata only: for every worker its capacity, the bytes *)
(* reserved on it, its epoch and the time of its last heartbeat; for every *)
(* key the generation, the put that wrote it and where it was placed.      *)
(* Every method of MasterState runs under one mutex (distkv/http.rs), so   *)
(* each is one action here.  A call that fails without changing the state  *)
(* is a stuttering step and has no action.                                 *)
(*                                                                         *)
(* Abstractions.  A worker id stands for its address too.  A put_id is the *)
(* position of the put among all puts: a fresh uuid.  HashMap entries that *)
(* do not exist are epoch 0 (worker) and generation 0 (object): the code   *)
(* starts both counters at 1.  Leases are handed out and never consulted   *)
(* again by any code, so a route carries none.                             *)
(***************************************************************************)
EXTENDS Integers, FiniteSetsExt, Functions

CONSTANTS
  Workers,            \* worker ids
  Keys,               \* object keys
  Sizes,              \* object sizes in bytes
  Capacities,         \* capacities a worker may register with
  NoWorker,           \* None: no preferred worker, no placement
  HEARTBEAT_TIMEOUT,  \* HEARTBEAT_TIMEOUT_MS, in clock ticks
  MaxNow,             \* bound: the clock stays in 0..MaxNow
  MaxEpoch,           \* bound: registrations of one worker
  MaxPuts             \* bound: puts that get a placement

ASSUME MasterAssumption ==
  /\ IsFiniteSet(Keys)
  /\ Sizes \subseteq Nat
  /\ Capacities \subseteq Nat
  /\ NoWorker \notin Workers
  /\ HEARTBEAT_TIMEOUT \in Nat
  /\ MaxNow \in Nat
  /\ MaxEpoch \in Nat
  /\ MaxPuts \in Nat

VARIABLES
  now,      \* the wall clock the Master reads
  workers,  \* workers[w]: the Master's WorkerMeta
  objects,  \* objects[k]: the Master's ObjectMeta
  puts,     \* puts that got a put_id so far: the source of fresh uuids
  tickets,  \* put_start responses out in the world; each may be committed
            \* late, repeatedly or never
  acked,    \* history: put_ids whose put_commit returned Ok
  routed,   \* history: routed[k] is the last generation get_route returned
  stray,    \* history: keys whose reservation was given back by a rejected
            \* put_start while the object still says reserved
  misfreed  \* history: some put_start gave bytes back that it did not hold

masterVars == <<now, workers, objects, puts, tickets, acked, routed, stray, misfreed>>

-----------------------------------------------------------------------------
(* Types.                                                                  *)

WorkerMeta ==
  [capacity_bytes : Nat, used_bytes : Nat, epoch : Nat,
   last_heartbeat : Nat, status : {"Alive", "Dead"}]

ObjectMeta ==
  [generation : Nat, state : {"Absent", "Writing", "Complete"}, put_id : Nat,
   size_bytes : Nat, worker_id : Workers \cup {NoWorker}, worker_epoch : Nat,
   reserved : BOOLEAN]

Ticket ==
  [key : Keys, put_id : Nat, generation : Nat, worker_id : Workers,
   worker_epoch : Nat, size_bytes : Nat]

UnknownWorker ==
  [capacity_bytes |-> 0, used_bytes |-> 0, epoch |-> 0,
   last_heartbeat |-> 0, status |-> "Dead"]

AbsentObject ==
  [generation |-> 0, state |-> "Absent", put_id |-> 0, size_bytes |-> 0,
   worker_id |-> NoWorker, worker_epoch |-> 0, reserved |-> FALSE]

-----------------------------------------------------------------------------
(* Operators on a worker's record.                                         *)

(* Mutant of SaturatingSub: plain subtraction.                             *)
PlainSub(a, b) == a - b

SaturatingSub(a, b) == IF a >= b THEN a - b ELSE 0

(* Mutant of FreeBytes: what is reserved is not taken off.                 *)
AllBytes(w) == w.capacity_bytes

FreeBytes(w) == SaturatingSub(w.capacity_bytes, w.used_bytes)

WorkerIsAlive(w) ==
  /\ w.epoch > 0
  /\ w.status = "Alive"
  /\ SaturatingSub(now, w.last_heartbeat) <= HEARTBEAT_TIMEOUT

-----------------------------------------------------------------------------
(* Mutants of RegisterWorker: a re-registration that keeps what was        *)
(* reserved, and one that keeps the epoch.                                 *)
RegisterKeepingUsed(w, capacity) ==
  /\ workers[w].epoch < MaxEpoch
  /\ workers' = [workers EXCEPT ![w] =
       [@ EXCEPT !.capacity_bytes = capacity, !.epoch = @ + 1,
                 !.last_heartbeat = now, !.status = "Alive"]]
  /\ UNCHANGED <<now, objects, puts, tickets, acked, routed, stray, misfreed>>

RegisterKeepingEpoch(w, capacity) ==
  /\ workers' = [workers EXCEPT ![w] =
       [capacity_bytes |-> capacity, used_bytes |-> 0,
        epoch |-> IF @.epoch = 0 THEN 1 ELSE @.epoch,
        last_heartbeat |-> now, status |-> "Alive"]]
  /\ UNCHANGED <<now, objects, puts, tickets, acked, routed, stray, misfreed>>

(* register_worker: a first registration is epoch 1; every later one bumps *)
(* the epoch, forgets what was reserved, and counts as a heartbeat.        *)
RegisterWorker(w, capacity) ==
  /\ workers[w].epoch < MaxEpoch
  /\ workers' = [workers EXCEPT ![w] =
       [capacity_bytes |-> capacity, used_bytes |-> 0, epoch |-> @.epoch + 1,
        last_heartbeat |-> now, status |-> "Alive"]]
  /\ UNCHANGED <<now, objects, puts, tickets, acked, routed, stray, misfreed>>

(* heartbeat: accepted only at the current epoch; revives a Dead worker.   *)
HeartbeatAccepted(w, epoch) ==
  /\ workers[w].epoch > 0
  /\ workers[w].epoch = epoch

(* Mutant of Heartbeat: it does not note when the worker was last heard.   *)
HeartbeatForgetsTime(w, epoch) ==
  /\ HeartbeatAccepted(w, epoch)
  /\ workers' = [workers EXCEPT ![w].status = "Alive"]
  /\ UNCHANGED <<now, objects, puts, tickets, acked, routed, stray, misfreed>>

Heartbeat(w, epoch) ==
  /\ HeartbeatAccepted(w, epoch)
  /\ workers' = [workers EXCEPT ![w].last_heartbeat = now, ![w].status = "Alive"]
  /\ UNCHANGED <<now, objects, puts, tickets, acked, routed, stray, misfreed>>

(* mark_worker_dead: a library call, no handler of the Master reaches it.  *)
MarkWorkerDead(w) ==
  /\ workers[w].epoch > 0
  /\ workers' = [workers EXCEPT ![w].status = "Dead"]
  /\ UNCHANGED <<now, objects, puts, tickets, acked, routed, stray, misfreed>>

-----------------------------------------------------------------------------
(* Mutant of Released: the previous generation keeps its bytes.            *)
NothingReleased(k) == workers

(* put_start.  First the reservation of the key's previous generation is   *)
(* given back to the worker it names, whatever that worker's epoch is now; *)
(* the object keeps its reserved flag.  Then a worker is chosen.           *)
Released(k) ==
  LET obj == objects[k] IN
  [w \in Workers |->
     IF obj.reserved /\ obj.worker_id = w /\ workers[w].epoch > 0
     THEN [workers[w] EXCEPT !.used_bytes = SaturatingSub(@, obj.size_bytes)]
     ELSE workers[w]]

Fits(w, size) == WorkerIsAlive(w) /\ FreeBytes(w) >= size

(* The preferred worker when it is usable, else any alive worker with the  *)
(* most free bytes (a tie goes to the iteration order of a HashMap).       *)
Candidates(ws, size, preferred) ==
  LET fitting == {w \in Workers : Fits(ws[w], size)} IN
  IF preferred \in fitting THEN {preferred}
  ELSE {w \in fitting : \A v \in fitting : FreeBytes(ws[v]) <= FreeBytes(ws[w])}

(* Mutants of NextGeneration: the slot of a put that never committed is    *)
(* used again; the count starts over when the worker registered anew.      *)
GenerationOfLastCommit(k) ==
  IF objects[k].state = "Writing" THEN objects[k].generation
  ELSE objects[k].generation + 1

GenerationInEpoch(k) ==
  IF /\ objects[k].worker_id \in Workers
     /\ objects[k].worker_epoch # workers[objects[k].worker_id].epoch
  THEN 1
  ELSE objects[k].generation + 1

NextGeneration(k) == objects[k].generation + 1

NewTicket(k, size, w) ==
  [key |-> k, put_id |-> puts + 1, generation |-> NextGeneration(k),
   worker_id |-> w, worker_epoch |-> workers[w].epoch, size_bytes |-> size]

(* What the release gave back was not (any more) part of used_bytes.       *)
ReleasesTooMuch(k) ==
  /\ objects[k].reserved
  /\ k \in stray \/ objects[k].worker_epoch # workers[objects[k].worker_id].epoch

PutStart(k, size, preferred, w) ==
  /\ puts < MaxPuts
  /\ w \in Candidates(Released(k), size, preferred)
  /\ workers' = [Released(k) EXCEPT ![w].used_bytes = @ + size]
  /\ objects' = [objects EXCEPT ![k] =
       [generation |-> NextGeneration(k), state |-> "Writing", put_id |-> puts + 1,
        size_bytes |-> size, worker_id |-> w, worker_epoch |-> workers[w].epoch,
        reserved |-> TRUE]]
  /\ puts' = puts + 1
  /\ tickets' = tickets \cup {NewTicket(k, size, w)}
  /\ stray' = stray \ {k}
  /\ misfreed' = (misfreed \/ ReleasesTooMuch(k))
  /\ UNCHANGED <<now, acked, routed>>

(* The early return of put_start: no worker fits, but the release has      *)
(* already happened.                                                       *)
PutStartRejected(k, size, preferred) ==
  /\ Candidates(Released(k), size, preferred) = {}
  /\ workers' = Released(k)
  /\ stray' = IF objects[k].reserved THEN stray \cup {k} ELSE stray
  /\ misfreed' = (misfreed \/ ReleasesTooMuch(k))
  /\ UNCHANGED <<now, objects, puts, tickets, acked, routed>>

(* Mutant of PutCommit: any ticket of the key completes what is written.   *)
CommitAnyPut(t) ==
  /\ objects[t.key].state = "Writing"
  /\ objects' = [objects EXCEPT ![t.key].state = "Complete"]
  /\ acked' = acked \cup {t.put_id}
  /\ UNCHANGED <<now, workers, puts, tickets, routed, stray, misfreed>>

(* put_commit: only the put that is being written may complete the object. *)
PutCommit(t) ==
  /\ objects[t.key].state = "Writing"
  /\ objects[t.key].put_id = t.put_id
  /\ objects' = [objects EXCEPT ![t.key].state = "Complete"]
  /\ acked' = acked \cup {t.put_id}
  /\ UNCHANGED <<now, workers, puts, tickets, routed, stray, misfreed>>

(* Mutant of HasRoute: objects still being written are routed to.          *)
RoutesWhileWriting(k) ==
  LET obj == objects[k] IN
  /\ obj.worker_id \in Workers
  /\ WorkerIsAlive(workers[obj.worker_id])
  /\ workers[obj.worker_id].epoch = obj.worker_epoch

(* get_route: what the Master answers for a key, if anything.              *)
HasRoute(k) ==
  LET obj == objects[k] IN
  /\ obj.state = "Complete"
  /\ obj.worker_id \in Workers
  /\ WorkerIsAlive(workers[obj.worker_id])
  /\ workers[obj.worker_id].epoch = obj.worker_epoch

GetRoute(k) ==
  /\ HasRoute(k)
  /\ routed' = [routed EXCEPT ![k] = objects[k].generation]
  /\ UNCHANGED <<now, workers, objects, puts, tickets, acked, stray, misfreed>>

(* The clock is SystemTime::now: it advances, and may be set back.         *)
SetClock(t) ==
  /\ now' = t
  /\ UNCHANGED <<workers, objects, puts, tickets, acked, routed, stray, misfreed>>

-----------------------------------------------------------------------------
MasterInit ==
  /\ now = 0
  /\ workers = [w \in Workers |-> UnknownWorker]
  /\ objects = [k \in Keys |-> AbsentObject]
  /\ puts = 0
  /\ tickets = {}
  /\ acked = {}
  /\ routed = [k \in Keys |-> 0]
  /\ stray = {}
  /\ misfreed = FALSE

(* The callers of the Master: any worker, any client, in any order; commit *)
(* and heartbeat requests may be stale or repeated.                        *)
MasterNext ==
  \/ \E w \in Workers, c \in Capacities : RegisterWorker(w, c)
  \/ \E w \in Workers, e \in 1..MaxEpoch : Heartbeat(w, e)
  \/ \E w \in Workers : MarkWorkerDead(w)
  \/ \E k \in Keys, s \in Sizes, p \in Workers \cup {NoWorker}, w \in Workers :
        PutStart(k, s, p, w)
  \/ \E k \in Keys, s \in Sizes, p \in Workers \cup {NoWorker} :
        PutStartRejected(k, s, p)
  \/ \E t \in tickets : PutCommit(t)
  \/ \E k \in Keys : GetRoute(k)
  \/ \E t \in 0..MaxNow : SetClock(t)

MasterSpec == MasterInit /\ [][MasterNext]_masterVars

-----------------------------------------------------------------------------
(* Properties.                                                             *)

(* Every variable of the Master keeps the type its Rust struct declares.   *)
MasterTypeOK ==
  /\ now \in Nat
  /\ workers \in [Workers -> WorkerMeta]
  /\ objects \in [Keys -> ObjectMeta]
  /\ puts \in Nat
  /\ tickets \subseteq Ticket
  /\ acked \subseteq Nat
  /\ routed \in [Keys -> Nat]
  /\ stray \subseteq Keys
  /\ misfreed \in BOOLEAN

(* The bytes the Master accounts to a worker never exceed the capacity the *)
(* worker last registered with, through overwrites, rejected puts and      *)
(* re-registrations with a smaller capacity.                               *)
UsedWithinCapacity ==
  \A w \in Workers : workers[w].used_bytes <= workers[w].capacity_bytes

(* Keys that hold a reservation on the current incarnation of w.           *)
ReservedOn(w) ==
  {k \in Keys : /\ objects[k].reserved
                /\ objects[k].worker_id = w
                /\ objects[k].worker_epoch = workers[w].epoch}

SizeSum(ks) == SumFunctionOnSet([k \in Keys |-> objects[k].size_bytes], ks)

(* The Master never accounts for bytes no key holds: whatever was reserved *)
(* for an overwritten generation is given back, so no capacity leaks.      *)
NoPhantomReservation ==
  \A w \in Workers : workers[w].used_bytes <= SizeSum(ReservedOn(w))

(* master.rs:12, I6 CapacityAccounting: "reservations never exceed a       *)
(* worker's capacity".                                                     *)
CapacityAccounting ==
  \A w \in Workers : SizeSum(ReservedOn(w)) <= workers[w].capacity_bytes

(* What is true of I6: until a put_start gives back bytes twice (after a   *)
(* rejected put_start of the same key) or gives back bytes of an earlier   *)
(* epoch, used_bytes is exactly the sum of the reservations that hold.     *)
LedgerExact ==
  ~misfreed => \A w \in Workers :
                 workers[w].used_bytes = SizeSum(ReservedOn(w) \ stray)

(* Two puts never share a (key, generation) slot of the worker stores, nor *)
(* a put_id: a generation is never handed out again, however puts of the   *)
(* key are abandoned, rejected or committed.                               *)
OneSlotPerPut ==
  \A t, u \in tickets :
    \/ t = u
    \/ t.put_id # u.put_id /\ (t.key = u.key => t.generation # u.generation)

(* I1 and I4: a Complete object was completed by the put that wrote it and *)
(* by no stale ticket, and its metadata is the placement that put was told *)
(* to write to.                                                            *)
CompleteWasAcked ==
  \A k \in Keys : objects[k].state = "Complete" =>
    /\ objects[k].put_id \in acked
    /\ \E t \in tickets :
         /\ t.key = k
         /\ t.put_id = objects[k].put_id
         /\ t.generation = objects[k].generation
         /\ t.worker_id = objects[k].worker_id
         /\ t.worker_epoch = objects[k].worker_epoch

(* I3 and I4 as a property of steps: a put is acknowledged at most once,   *)
(* and only while no later put of its key has been given a placement.      *)
AckedOnceAndNewest ==
  [][\A t \in tickets : PutCommit(t) =>
       /\ t.put_id \notin acked
       /\ \A u \in tickets : u.key = t.key => u.put_id <= t.put_id]_masterVars

(* The generations get_route hands out for a key never go back: a reader   *)
(* that follows two routes never moves to an older object.                 *)
RoutesNeverGoBack == [][\A k \in Keys : routed'[k] >= routed[k]]_masterVars
=============================================================================
