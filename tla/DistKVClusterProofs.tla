------------------------ MODULE DistKVClusterProofs -------------------------
(***************************************************************************)
(* Proofs about DistKV as a whole, for any sets of engines, workers, keys  *)
(* and sizes and any number of crashes, restarts and deletions.            *)
(*                                                                         *)
(* Every step of the cluster is a step of the Master, leaves the Master    *)
(* alone, or restarts it.  What the engines, messages and stores hold is   *)
(* tied to the tickets the Master has issued.  The parts of ClusterInv up  *)
(* to IndexAcked survive a restart of the Master; OneLife is what holds    *)
(* until the first restart.                                                *)
(***************************************************************************)
EXTENDS DistKVCluster, DistKVMasterProofs

Bytes == [put_id : Nat, len : Nat]

OpRecord ==
  [pc : Pcs, key : Keys \cup {NoWorker}, worker : Workers \cup {NoWorker},
   generation : 0..MaxGeneration, put_id : 0..MaxPuts, size_bytes : Nat]

Message ==
  [from : Engines, worker : Workers, key : Keys, generation : 1..MaxGeneration,
   bytes : Bytes]

(* The counters stay within the bounds of the model, and a generation      *)
(* never runs ahead of the puts, also after a restart starts it over.      *)
BoundsInv ==
  /\ puts <= MaxPuts
  /\ \A w \in Workers : workers[w].epoch <= MaxEpoch
  /\ \A k \in Keys : objects[k].generation <= puts
  /\ \A t \in tickets : t.generation \in 1..MaxGeneration

ShapeInv ==
  /\ agent \in [Workers -> 0..MaxEpoch]
  /\ op \in [Engines -> OpRecord]
  /\ wire \subseteq Message
  /\ restarts \in Nat

(* Some ticket told put p to write generation g of k to worker w.          *)
Placed(p, k, g, w) ==
  \E t \in tickets : t.put_id = p /\ t.key = k /\ t.generation = g /\ t.worker_id = w

(* Generation g of k is one some acknowledged put was told to write.       *)
AckedAt(k, g) ==
  \E t \in tickets : t.key = k /\ t.generation = g /\ t.put_id \in acked

BytesPlaced ==
  \A w \in Workers, k \in Keys, g \in 1..MaxGeneration :
    HasBytes(w, k, g) => Placed(GetBytes(w, k, g).put_id, k, g, w)

MessagePlaced(m) == Placed(m.bytes.put_id, m.key, m.generation, m.worker)

WirePlaced == \A m \in wire : MessagePlaced(m)

(* What an engine is in the middle of follows a ticket.                    *)
OpPlaced(o) ==
  /\ o.pc # "idle" => o.key \in Keys
  /\ o.pc \in {"put_write", "put_sent", "put_commit", "get_fetch", "mark"} =>
       Placed(o.put_id, o.key, o.generation, o.worker)
  /\ o.pc \in {"get_fetch", "mark"} => o.put_id \in acked
  /\ o.pc = "get_local" => AckedAt(o.key, o.generation) /\ o.worker \in Workers

OpsPlaced == \A e \in Engines : OpPlaced(op[e])

IndexAcked ==
  \A w \in Workers, k \in Keys :
    committed_index[w][k] > 0 => AckedAt(k, committed_index[w][k])

EpochsPast == \A t \in tickets : t.worker_epoch \in 1..workers[t.worker_id].epoch

(* A write that was or may still be committed is in its slot, as long as   *)
(* its worker lives in the incarnation it was placed in.                   *)
MustHold(t) ==
  /\ \/ t.put_id \in acked
     \/ \E e \in Engines : op[e].pc = "put_commit" /\ op[e].put_id = t.put_id
  /\ agent[t.worker_id] = t.worker_epoch
  /\ t.put_id \notin deleted

Landed ==
  \A t \in tickets : MustHold(t) =>
    GetBytes(t.worker_id, t.key, t.generation).put_id = t.put_id

OneLife == restarts = 0 => SlotInv /\ EpochsPast /\ Landed

ClusterInv ==
  /\ CoreInv
  /\ BoundsInv
  /\ ShapeInv
  /\ NodeTypeOK
  /\ StoreUsedExact
  /\ BytesPlaced
  /\ WirePlaced
  /\ OpsPlaced
  /\ IndexAcked
  /\ OneLife

-----------------------------------------------------------------------------
(* The memory of a worker: each operation keeps its tables well typed and  *)
(* its used_bytes exact.                                                   *)

LEMMA SlotsFinite == IsFiniteSet(Slots)
<1>1. IsFiniteSet(Keys) /\ IsFiniteSet(1..MaxGeneration)
  BY MasterAssumption, ClusterAssumption, FS_Interval
<1> QED
  BY <1>1, FS_Product DEF Slots

(* What one slot's length is replaced by, the sum over the slots gains.    *)
LEMMA StoreSlotChanged ==
  ASSUME NodeTypeOK, StoreUsedExact,
         NEW w \in Workers, NEW s \in Slots, NEW b \in Bytes, NEW used \in Nat,
         used = store[w].used_bytes - store[w].objects[s].len + b.len,
         used <= Capacity[w],
         store' = [store EXCEPT ![w].objects[s] = b, ![w].used_bytes = used],
         committed_index' \in [Workers -> [Keys -> 0..MaxGeneration]]
  PROVE  NodeTypeOK' /\ StoreUsedExact'
<1>1. store \in [Workers -> [objects : [Slots -> Bytes], used_bytes : Nat]]
  BY DEF NodeTypeOK, Bytes
<1>2. store' \in [Workers -> [objects : [Slots -> Bytes], used_bytes : Nat]]
  BY <1>1
<1>3. ASSUME NEW v \in Workers
      PROVE  /\ store'[v].used_bytes =
                  SumFunctionOnSet([x \in Slots |-> store'[v].objects[x].len], Slots)
             /\ store'[v].used_bytes <= Capacity[v]
  <2>1. CASE v # w
    BY <1>1, <2>1 DEF StoreUsedExact
  <2>2. CASE v = w
    <3> DEFINE f == [x \in Slots |-> store[w].objects[x].len]
               g == [x \in Slots |-> store'[w].objects[x].len]
    <3>1. /\ store'[w].objects = [store[w].objects EXCEPT ![s] = b]
          /\ store'[w].used_bytes = used
      BY <1>1
    <3>2. store[w].objects \in [Slots -> Bytes]
      BY <1>1
    <3>3. /\ \A x \in Slots : f[x] \in Nat /\ g[x] \in Nat
          /\ \A x \in Slots \ {s} : f[x] = g[x]
          /\ f[s] = store[w].objects[s].len
          /\ g[s] = b.len
      <4>1. \A x \in Slots : store[w].objects[x] \in Bytes
        BY <3>2
      <4>2. /\ \A x \in Slots \ {s} : store'[w].objects[x] = store[w].objects[x]
            /\ store'[w].objects[s] = b
        BY <3>1, <3>2
      <4>3. \A x \in Slots : store'[w].objects[x] \in Bytes
        BY <4>1, <4>2
      <4>4. /\ \A x \in Slots : f[x] = store[w].objects[x].len
            /\ \A x \in Slots : g[x] = store'[w].objects[x].len
        OBVIOUS
      <4> HIDE DEF f, g
      <4>5. \A y \in Bytes : y.len \in Nat
        BY DEF Bytes
      <4>6. \A x \in Slots : f[x] \in Nat /\ g[x] \in Nat
        BY <4>1, <4>3, <4>4, <4>5
      <4> QED
        BY <4>2, <4>4, <4>6
    <3>4. store[w].used_bytes = SumFunctionOnSet(f, Slots)
      BY DEF StoreUsedExact
    <3> HIDE DEF f, g
    <3>5. SumFunctionOnSet(g, Slots) = SumFunctionOnSet(f, Slots) - f[s] + g[s]
      BY <3>3, SlotsFinite, SumOneChanged
    <3>6. store'[w].used_bytes = SumFunctionOnSet(g, Slots)
      BY <3>1, <3>3, <3>4, <3>5
    <3> QED
      BY <2>2, <3>1, <3>6 DEF g
  <2> QED
    BY <2>1, <2>2
<1> QED
  BY <1>2, <1>3 DEF NodeTypeOK, StoreUsedExact, Bytes

(* A slot holds no more than its whole store does.                         *)
LEMMA SlotWithinUsed ==
  ASSUME NodeTypeOK, StoreUsedExact, NEW w \in Workers, NEW s \in Slots
  PROVE  /\ store[w].objects[s] \in Bytes
         /\ store[w].used_bytes \in Nat
         /\ store[w].objects[s].len <= store[w].used_bytes
<1> DEFINE f == [x \in Slots |-> store[w].objects[x].len]
<1>1. store[w].objects \in [Slots -> Bytes] /\ store[w].used_bytes \in Nat
  BY DEF NodeTypeOK, Bytes
<1>2. \A x \in Slots : f[x] \in Nat
  BY <1>1 DEF Bytes
<1>3. store[w].used_bytes = SumFunctionOnSet(f, Slots)
  BY DEF StoreUsedExact
<1>4. f[s] = store[w].objects[s].len
  OBVIOUS
<1> HIDE DEF f
<1>5. f[s] <= SumFunctionOnSet(f, Slots)
  BY <1>2, SlotsFinite, SumAtLeast
<1> QED
  BY <1>1, <1>3, <1>4, <1>5

LEMMA PutBytesNode ==
  ASSUME NodeTypeOK, StoreUsedExact, NEW w \in Workers, NEW k \in Keys,
         NEW g \in 1..MaxGeneration, NEW b \in Bytes,
         PutBytes(w, k, g, b), UNCHANGED committed_index
  PROVE  NodeTypeOK' /\ StoreUsedExact'
<1>1. <<k, g>> \in Slots
  BY DEF Slots
<1> DEFINE used == store[w].used_bytes - store[w].objects[<<k, g>>].len + b.len
<1>2. used \in Nat
  BY <1>1, SlotWithinUsed DEF Bytes
<1>3. /\ used <= Capacity[w]
      /\ store' = [store EXCEPT ![w].objects[<<k, g>>] = b, ![w].used_bytes = used]
  BY DEF PutBytes, PutFits, NewUsed, GetBytes
<1>4. committed_index' \in [Workers -> [Keys -> 0..MaxGeneration]]
  BY DEF NodeTypeOK
<1> QED
  BY <1>1, <1>2, <1>3, <1>4, StoreSlotChanged

LEMMA DeleteNode ==
  ASSUME NodeTypeOK, StoreUsedExact, NEW w \in Workers, NEW k \in Keys,
         NEW g \in 1..MaxGeneration, DeleteGeneration(w, k, g)
  PROVE  NodeTypeOK' /\ StoreUsedExact'
<1>1. <<k, g>> \in Slots /\ NoBytes \in Bytes /\ NoBytes.len = 0
  BY DEF Slots, NoBytes, Bytes
<1> DEFINE used == store[w].used_bytes - store[w].objects[<<k, g>>].len
<1>2. /\ used \in Nat
      /\ used = store[w].used_bytes - store[w].objects[<<k, g>>].len + NoBytes.len
      /\ used <= store[w].used_bytes
      /\ store[w].used_bytes >= store[w].objects[<<k, g>>].len
  BY <1>1, SlotWithinUsed DEF Bytes
<1>3. store \in [Workers -> [objects : [Slots -> Bytes], used_bytes : Nat]]
  BY DEF NodeTypeOK, Bytes
<1>4. store' = [store EXCEPT ![w].objects[<<k, g>>] = NoBytes, ![w].used_bytes = used]
  BY <1>2, <1>3 DEF DeleteGeneration, GetBytes
<1>5. Capacity[w] \in Nat /\ store[w].used_bytes <= Capacity[w]
  BY MasterAssumption, ClusterAssumption DEF StoreUsedExact
<1>6. used <= Capacity[w]
  BY <1>2, <1>5, SlotWithinUsed, <1>1
<1>7. committed_index' \in [Workers -> [Keys -> 0..MaxGeneration]]
  BY DEF NodeTypeOK, DeleteGeneration
<1> HIDE DEF used
<1> QED
  BY <1>1, <1>2, <1>4, <1>6, <1>7, StoreSlotChanged

(* An empty store uses nothing.                                            *)
LEMMA NewStoreExact ==
  /\ NewStore \in [objects : [Slots -> Bytes], used_bytes : Nat]
  /\ NewStore.used_bytes = 0
  /\ SumFunctionOnSet([s \in Slots |-> NewStore.objects[s].len], Slots) = 0
<1>1. NewStore \in [objects : [Slots -> Bytes], used_bytes : Nat]
  BY DEF NewStore, NoBytes, Bytes
<1> DEFINE f == [s \in Slots |-> NewStore.objects[s].len]
<1>2. \A s \in Slots : f[s] = 0
  BY DEF NewStore, NoBytes
<1> HIDE DEF f
<1>3. SumFunctionOnSet(f, Slots) = 0
  BY <1>2, SlotsFinite, SumOfZeros
<1> QED
  BY <1>1, <1>3 DEF f, NewStore

LEMMA WipeNodeKeeps ==
  ASSUME NodeTypeOK, StoreUsedExact, NEW w \in Workers, WipeNode(w)
  PROVE  NodeTypeOK' /\ StoreUsedExact'
<1>1. Capacity[w] \in Nat /\ 0 \in 0..MaxGeneration
  <2>1. Capacity[w] \in Capacities /\ MaxGeneration \in Nat
    BY ClusterAssumption
  <2>2. Capacity[w] \in Nat
    BY <2>1, MasterAssumption
  <2> QED
    BY <2>1, <2>2
<1>2. NodeTypeOK'
  BY <1>1, NewStoreExact DEF NodeTypeOK, WipeNode, NewIndex, Bytes
<1>3. \A v \in Workers : store'[v] = IF v = w THEN NewStore ELSE store[v]
  BY DEF NodeTypeOK, WipeNode
<1>4. StoreUsedExact'
  <2> SUFFICES ASSUME NEW v \in Workers
               PROVE  /\ store'[v].used_bytes =
                           SumFunctionOnSet([s \in Slots |-> store'[v].objects[s].len], Slots)
                      /\ store'[v].used_bytes <= Capacity[v]
    BY DEF StoreUsedExact
  <2>1. CASE v = w
    <3>1. store'[v] = NewStore
      BY <1>3, <2>1
    <3> QED
      BY <1>1, <2>1, <3>1, NewStoreExact
  <2>2. CASE v # w
    <3>1. store'[v] = store[v]
      BY <1>3, <2>2
    <3> QED
      BY <3>1 DEF StoreUsedExact
  <2> QED
    BY <2>1, <2>2
<1> QED
  BY <1>2, <1>4

LEMMA MarkCommittedNode ==
  ASSUME NodeTypeOK, StoreUsedExact, NEW w \in Workers, NEW k \in Keys,
         NEW g \in 0..MaxGeneration, MarkCommitted(w, k, g), UNCHANGED store
  PROVE  NodeTypeOK' /\ StoreUsedExact'
BY DEF NodeTypeOK, StoreUsedExact, MarkCommitted

-----------------------------------------------------------------------------
(* What a step of the cluster is to the Master.                            *)

(* The ticket an engine commits is the one its put was given.              *)
LEMMA TicketFound ==
  ASSUME CoreInv, OpsPlaced, NEW e \in Engines, op[e].pc = "put_commit"
  PROVE  /\ TicketOf(e) \in tickets
         /\ TicketOf(e).put_id = op[e].put_id
         /\ TicketOf(e).key = op[e].key
         /\ TicketOf(e).generation = op[e].generation
         /\ TicketOf(e).worker_id = op[e].worker
<1>1. PICK t \in tickets : /\ t.put_id = op[e].put_id /\ t.key = op[e].key
                          /\ t.generation = op[e].generation /\ t.worker_id = op[e].worker
  BY DEF OpsPlaced, OpPlaced, Placed
<1>2. TicketOf(e) \in tickets /\ TicketOf(e).put_id = op[e].put_id
  BY <1>1 DEF TicketOf
<1>3. TicketOf(e) = t
  BY <1>1, <1>2 DEF CoreInv, PutIdsUnique
<1> QED
  BY <1>1, <1>3

LEMMA StepOfMaster ==
  ASSUME ClusterInv, [ClusterNext]_clusterVars
  PROVE  [MasterNext]_masterVars \/ MasterRestarts
<1>1. CASE \E e \in Engines : EngineStep(e)
  <2>1. PICK e \in Engines : EngineStep(e)
    BY <1>1
  <2>2. op[e] \in OpRecord /\ (op[e].pc # "idle" => op[e].key \in Keys)
    BY DEF ClusterInv, ShapeInv, OpsPlaced, OpPlaced
  <2>3. LocalWorker[e] \in Workers \cup {NoWorker}
    BY ClusterAssumption
  <2>4. CASE GetRouteFound(e)
    BY <2>2, <2>4 DEF GetRouteFound, MasterNext
  <2>5. CASE \E k \in Keys, size \in Sizes, w \in Workers : PutStartCall(e, k, size, w)
    BY <2>3, <2>5 DEF PutStartCall, MasterNext
  <2>6. CASE \E k \in Keys, size \in Sizes : PutStartFails(e, k, size)
    BY <2>3, <2>6 DEF PutStartFails, MasterNext
  <2>7. CASE PutCommitCall(e)
    BY <2>7, TicketFound DEF PutCommitCall, MasterNext, ClusterInv
  <2>8. CASE UNCHANGED masterVars
    BY <2>8
  <2> QED
    BY <2>1, <2>4, <2>5, <2>6, <2>7, <2>8 DEF EngineStep, GetStart, GetLocal, GetRouteNone,
       GetFetch, PutWriteLocal, PutWriteSend, PutCommitFails, Mark, OpFails
<1>2. CASE \E m \in wire : DeliverWrite(m) \/ LoseWrite(m)
  BY <1>2 DEF DeliverWrite, LoseWrite
<1>3. CASE \E w \in Workers : WorkerStep(w)
  <2>1. PICK w \in Workers : WorkerStep(w)
    BY <1>3
  <2>2. CASE WorkerRegisters(w)
    <3>1. Capacity[w] \in Capacities
      BY ClusterAssumption
    <3> QED
      BY <2>2, <3>1 DEF WorkerRegisters, MasterNext
  <2>3. CASE WorkerHeartbeats(w)
    <3>1. agent[w] \in 1..MaxEpoch
      BY <2>3, MasterAssumption DEF WorkerHeartbeats, ClusterInv, ShapeInv
    <3> QED
      BY <2>3, <3>1 DEF WorkerHeartbeats, MasterNext
  <2>4. CASE UNCHANGED masterVars
    BY <2>4
  <2> QED
    BY <2>1, <2>2, <2>3, <2>4 DEF WorkerStep, HeartbeatFails, WorkerCrashes, OperatorDeletes
<1>4. CASE \E t \in 0..MaxNow : ClockMoves(t)
  BY <1>4 DEF ClockMoves, MasterNext
<1>5. CASE UNCHANGED clusterVars
  BY <1>5 DEF clusterVars
<1> QED
  BY <1>1, <1>2, <1>3, <1>4, <1>5 DEF ClusterNext

(* A new Master knows nothing; only the put_ids it issues are still fresh. *)
LEMMA RestartInv ==
  ASSUME CoreInv, MasterRestarts
  PROVE  CoreInv'
<1>1. MasterTypeOK'
  BY DEF CoreInv, MasterTypeOK, MasterRestarts, WorkerMeta, ObjectMeta, UnknownWorker,
         AbsentObject
<1>2. UsedWithinCapacity'
  BY DEF MasterRestarts, UsedWithinCapacity, UnknownWorker
<1>3. TicketsIssued' /\ PutIdsUnique'
  BY DEF CoreInv, MasterRestarts, TicketsIssued, PutIdsUnique
<1>4. ObjectsHaveTickets' /\ ObjectsAreNewest'
  BY DEF MasterRestarts, ObjectsHaveTickets, ObjectsAreNewest, AbsentObject
<1>5. AckedMatchesState'
  BY DEF CoreInv, MasterRestarts, AckedMatchesState, AbsentObject
<1>6. RoutedNotNewer'
  BY DEF MasterRestarts, RoutedNotNewer, AbsentObject
<1> QED
  BY <1>1, <1>2, <1>3, <1>4, <1>5, <1>6 DEF CoreInv

(* Tickets and acknowledgements are never taken back.                      *)
LEMMA HistoryGrows ==
  ASSUME [MasterNext]_masterVars \/ MasterRestarts
  PROVE  tickets \subseteq tickets' /\ acked \subseteq acked'
BY DEF MasterNext, masterVars, MasterRestarts, RegisterWorker, Heartbeat, MarkWorkerDead,
       PutStart, PutStartRejected, PutCommit, GetRoute, SetClock

LEMMA BoundsKept ==
  ASSUME CoreInv, BoundsInv, [MasterNext]_masterVars \/ MasterRestarts
  PROVE  BoundsInv'
<1>1. /\ puts \in Nat /\ MaxPuts \in Nat /\ MaxEpoch \in Nat /\ MaxGeneration \in Nat
      /\ MaxGeneration >= MaxPuts
  BY MasterAssumption, ClusterAssumption DEF CoreInv, MasterTypeOK
<1>2. /\ \A w \in Workers : workers[w].epoch \in Nat
      /\ \A k \in Keys : objects[k].generation \in Nat
      /\ objects \in [Keys -> ObjectMeta]
      /\ workers \in [Workers -> WorkerMeta]
  BY DEF CoreInv, MasterTypeOK, WorkerMeta, ObjectMeta
<1>3. CASE /\ UNCHANGED <<puts, tickets>>
           /\ \A w \in Workers : workers'[w].epoch <= MaxEpoch
           /\ \A k \in Keys : objects'[k].generation = objects[k].generation
  BY <1>3 DEF BoundsInv
<1>4. ASSUME NEW k \in Keys, NEW s \in Sizes, NEW p, NEW w \in Workers, PutStart(k, s, p, w)
      PROVE  BoundsInv'
  <2>1. PICK new : new = NewTicket(k, s, w)
    OBVIOUS
  <2>2. new.generation = objects[k].generation + 1
    BY <2>1 DEF NewTicket, NextGeneration
  <2>3. /\ puts < MaxPuts /\ puts' = puts + 1
        /\ tickets' = tickets \cup {new}
        /\ objects'[k].generation = objects[k].generation + 1
        /\ \A j \in Keys : j # k => objects'[j] = objects[j]
    BY <1>2, <1>4, <2>1 DEF PutStart, NextGeneration
  <2>4. \A v \in Workers : workers'[v].epoch <= MaxEpoch
    <3> SUFFICES ASSUME NEW v \in Workers PROVE workers'[v].epoch <= MaxEpoch
      OBVIOUS
    <3>1. Released(k) \in [Workers -> WorkerMeta] /\ Released(k)[v].epoch = workers[v].epoch
      BY ReleasedShape DEF CoreInv
    <3>2. workers'[v].epoch = Released(k)[v].epoch
      BY <1>4, <3>1 DEF PutStart, WorkerMeta
    <3> QED
      BY <3>1, <3>2 DEF BoundsInv
  <2>5. puts' <= MaxPuts
    BY <1>1, <2>3
  <2>6. \A j \in Keys : objects'[j].generation <= puts'
    BY <1>1, <1>2, <2>3 DEF BoundsInv
  <2>7. new.generation \in 1..MaxGeneration
    BY <1>1, <1>2, <2>2, <2>3 DEF BoundsInv
  <2> QED
    BY <2>3, <2>4, <2>5, <2>6, <2>7 DEF BoundsInv
<1>5. CASE \E w \in Workers, c \in Capacities : RegisterWorker(w, c)
  <2>1. \A w \in Workers : workers'[w].epoch <= MaxEpoch
    BY <1>1, <1>2, <1>5 DEF RegisterWorker, BoundsInv, WorkerMeta
  <2> QED
    BY <1>3, <1>5, <2>1 DEF RegisterWorker
<1>6. CASE \E k \in Keys, s \in Sizes, p \in Workers \cup {NoWorker} :
             PutStartRejected(k, s, p)
  BY <1>3, <1>6, ReleasedShape DEF PutStartRejected, BoundsInv, CoreInv
<1>7. CASE \E w \in Workers, e \in 1..MaxEpoch : Heartbeat(w, e)
  BY <1>2, <1>3, <1>7 DEF Heartbeat, BoundsInv, WorkerMeta
<1>8. CASE \E w \in Workers : MarkWorkerDead(w)
  BY <1>2, <1>3, <1>8 DEF MarkWorkerDead, BoundsInv, WorkerMeta
<1>9. CASE \E t \in tickets : PutCommit(t)
  BY <1>2, <1>3, <1>9 DEF PutCommit, BoundsInv, CoreInv, MasterTypeOK, Ticket, ObjectMeta
<1>10. CASE MasterRestarts
  BY <1>1, <1>10 DEF MasterRestarts, BoundsInv, UnknownWorker, AbsentObject
<1>11. CASE UNCHANGED <<workers, objects, puts, tickets>>
  BY <1>3, <1>11 DEF BoundsInv
<1> QED
  BY <1>4, <1>5, <1>6, <1>7, <1>8, <1>9, <1>10, <1>11
     DEF MasterNext, masterVars, GetRoute, SetClock


-----------------------------------------------------------------------------
(* Engines.                                                                *)

LEMMA PlacedStays ==
  ASSUME tickets \subseteq tickets', NEW p, NEW k, NEW g, NEW w, Placed(p, k, g, w)
  PROVE  Placed(p, k, g, w)'
BY DEF Placed

LEMMA AckedAtStays ==
  ASSUME tickets \subseteq tickets', acked \subseteq acked', NEW k, NEW g, AckedAt(k, g)
  PROVE  AckedAt(k, g)'
BY DEF AckedAt

LEMMA OpPlacedStays ==
  ASSUME tickets \subseteq tickets', acked \subseteq acked', NEW o, OpPlaced(o)
  PROVE  OpPlaced(o)'
BY PlacedStays, AckedAtStays DEF OpPlaced

LEMMA IdlePlaced == Idle \in OpRecord /\ Idle.pc = "idle" /\ OpPlaced(Idle)'
BY MasterAssumption, ClusterAssumption DEF Idle, OpRecord, Pcs, OpPlaced

(* One engine moves on to an operation that a ticket covers.               *)
LEMMA OpsReplaced ==
  ASSUME ShapeInv, OpsPlaced, tickets \subseteq tickets', acked \subseteq acked',
         NEW e \in Engines, NEW o \in OpRecord, OpPlaced(o)',
         op' = [op EXCEPT ![e] = o]
  PROVE  op' \in [Engines -> OpRecord] /\ OpsPlaced'
<1>1. op' \in [Engines -> OpRecord]
  BY DEF ShapeInv
<1>2. ASSUME NEW f \in Engines PROVE OpPlaced(op[f])'
  <2>1. PICK n : n = op'[f]
    OBVIOUS
  <2>2. n = o \/ n = op[f]
    BY <2>1 DEF ShapeInv
  <2>3. n = op[f] => OpPlaced(n)
    BY DEF OpsPlaced
  <2>4. OpPlaced(n)'
    BY <2>2, <2>3, OpPlacedStays
  <2> QED
    BY <2>1, <2>4 DEF OpPlaced
<1> QED
  BY <1>1, <1>2 DEF OpsPlaced

(* Finishing, or moving on to a step with no claim of its own.             *)
LEMMA OpsFinish ==
  ASSUME ShapeInv, OpsPlaced, tickets \subseteq tickets', acked \subseteq acked',
         NEW e \in Engines, Finish(e)
  PROVE  op' \in [Engines -> OpRecord] /\ OpsPlaced'
BY IdlePlaced, OpsReplaced DEF Finish

LEMMA OpsGoto ==
  ASSUME ShapeInv, OpsPlaced, tickets \subseteq tickets', acked \subseteq acked',
         NEW e \in Engines, NEW pc \in Pcs, Goto(e, pc), op[e].key \in Keys,
         \/ pc = "get_route"
         \/ /\ pc \in {"put_sent", "put_commit", "mark"}
            /\ op[e].pc \in {"put_write", "put_sent", "put_commit", "get_fetch"}
            /\ pc = "mark" => op[e].put_id \in acked'
  PROVE  op' \in [Engines -> OpRecord] /\ OpsPlaced'
<1>1. PICK c : c = op[e]
  OBVIOUS
<1>2. c \in OpRecord /\ OpPlaced(c)
  BY <1>1 DEF ShapeInv, OpsPlaced
<1>3. PICK o : o = [c EXCEPT !.pc = pc]
  OBVIOUS
<1>4. o \in OpRecord /\ o.pc = pc /\ o.key = c.key /\ o.put_id = c.put_id
      /\ o.generation = c.generation /\ o.worker = c.worker
  BY <1>2, <1>3 DEF OpRecord
<1>5. OpPlaced(o)'
  BY <1>1, <1>2, <1>4, PlacedStays DEF OpPlaced
<1>6. op' = [op EXCEPT ![e] = o]
  BY <1>1, <1>3 DEF Goto, ShapeInv
<1> QED
  BY <1>4, <1>5, <1>6, OpsReplaced

LEMMA OpsSame ==
  ASSUME ShapeInv, OpsPlaced, tickets \subseteq tickets', acked \subseteq acked',
         op' \in [Engines -> OpRecord],
         \A e \in Engines : op'[e] \in {op[e], Idle}
  PROVE  OpsPlaced'
<1> SUFFICES ASSUME NEW f \in Engines PROVE OpPlaced(op[f])'
  BY DEF OpsPlaced
<1>1. PICK n : n = op'[f]
  OBVIOUS
<1>2. OpPlaced(n)'
  <2>1. CASE n = op[f]
    BY <2>1, OpPlacedStays DEF OpsPlaced
  <2>2. CASE n = Idle
    BY <2>2 DEF Idle, OpPlaced
  <2> QED
    BY <1>1, <2>1, <2>2
<1> QED
  BY <1>1, <1>2 DEF OpPlaced


(* get_object and put_object start from Idle.                              *)
LEMMA GetStartOps ==
  ASSUME ClusterInv, tickets \subseteq tickets', acked \subseteq acked',
         NEW e \in Engines, NEW k \in Keys, GetStart(e, k)
  PROVE  op' \in [Engines -> OpRecord] /\ OpsPlaced'
<1>1. PICK w : w = LocalWorker[e]
  OBVIOUS
<1>2. PICK g : g = IF w = NoWorker THEN 0 ELSE committed_index[w][k]
  OBVIOUS
<1>3. PICK o : o = [Idle EXCEPT !.pc = IF g > 0 THEN "get_local" ELSE "get_route",
                                !.key = k, !.worker = w, !.generation = g]
  OBVIOUS
<1>4. op' = [op EXCEPT ![e] = o]
  BY <1>1, <1>2, <1>3 DEF GetStart
<1>5. /\ w \in Workers \cup {NoWorker} /\ MaxGeneration \in Nat /\ MaxPuts \in Nat
      /\ NoWorker \notin Workers
  BY <1>1, MasterAssumption, ClusterAssumption
<1>6. g \in 0..MaxGeneration
  BY <1>2, <1>5 DEF ClusterInv, NodeTypeOK
<1>7. o = [pc |-> IF g > 0 THEN "get_local" ELSE "get_route", key |-> k, worker |-> w,
           generation |-> g, put_id |-> 0, size_bytes |-> 0]
  BY <1>3 DEF Idle
<1>8. o \in OpRecord
  BY <1>5, <1>6, <1>7 DEF OpRecord, Pcs
<1>9. g > 0 => w \in Workers /\ AckedAt(k, g)
  BY <1>2, <1>5 DEF ClusterInv, IndexAcked
<1>10. OpPlaced(o)'
  BY <1>7, <1>9, AckedAtStays DEF OpPlaced
<1> QED
  BY <1>4, <1>8, <1>10, OpsReplaced DEF ClusterInv

LEMMA PutStartOps ==
  ASSUME ClusterInv, BoundsInv', tickets \subseteq tickets', acked \subseteq acked',
         NEW e \in Engines, NEW k \in Keys, NEW s \in Sizes, NEW w \in Workers,
         PutStartCall(e, k, s, w)
  PROVE  op' \in [Engines -> OpRecord] /\ OpsPlaced'
<1>1. PICK t : t = NewTicket(k, s, w)
  OBVIOUS
<1>2. PICK o : o = [pc |-> "put_write", key |-> k, worker |-> w,
                    generation |-> t.generation, put_id |-> t.put_id, size_bytes |-> s]
  OBVIOUS
<1>3. /\ t.generation = NextGeneration(k) /\ t.put_id = puts + 1
      /\ t.key = k /\ t.worker_id = w
  BY <1>1 DEF NewTicket
<1>4. op' = [op EXCEPT ![e] = o]
  BY <1>2, <1>3 DEF PutStartCall
<1>5. t \in tickets' /\ puts' = puts + 1
  BY <1>1 DEF PutStartCall, PutStart
<1>6. /\ t.generation \in 1..MaxGeneration /\ t.put_id \in 1..MaxPuts
      /\ MaxGeneration \in Nat /\ MaxPuts \in Nat
  BY <1>3, <1>5, MasterAssumption, ClusterAssumption
     DEF BoundsInv, ClusterInv, CoreInv, MasterTypeOK
<1>7. s \in Nat
  BY MasterAssumption
<1>8. o \in OpRecord
  BY <1>2, <1>6, <1>7 DEF OpRecord, Pcs
<1>9. Placed(t.put_id, k, t.generation, w)'
  BY <1>3, <1>5 DEF Placed
<1>10. OpPlaced(o)'
  BY <1>2, <1>9 DEF OpPlaced
<1> QED
  BY <1>4, <1>8, <1>10, OpsReplaced DEF ClusterInv

(* A route is to an acknowledged put's placement.                          *)
LEMMA GetRouteOps ==
  ASSUME ClusterInv, tickets \subseteq tickets', acked \subseteq acked',
         NEW e \in Engines, GetRouteFound(e)
  PROVE  op' \in [Engines -> OpRecord] /\ OpsPlaced'
<1>1. PICK c : c = op[e]
  OBVIOUS
<1>2. c \in OpRecord /\ c.pc = "get_route" /\ c.key \in Keys
  BY <1>1 DEF ClusterInv, ShapeInv, OpsPlaced, OpPlaced, GetRouteFound
<1>3. PICK k \in Keys : k = c.key
  BY <1>2
<1>4. HasRoute(k)
  BY <1>1, <1>3 DEF GetRouteFound, GetRoute
<1>5. objects[k].state = "Complete" /\ objects[k].put_id \in acked
  BY <1>4 DEF HasRoute, ClusterInv, CoreInv, AckedMatchesState
<1>6. PICK t \in tickets : IsTicketOf(t, k)
  BY <1>5 DEF ClusterInv, CoreInv, ObjectsHaveTickets
<1>7. PICK o : o = [c EXCEPT !.pc = "get_fetch", !.worker = t.worker_id,
                             !.generation = t.generation, !.put_id = t.put_id]
  OBVIOUS
<1>8. op' = [op EXCEPT ![e] = o]
  BY <1>1, <1>3, <1>6, <1>7 DEF GetRouteFound, IsTicketOf
<1>9. /\ t \in Ticket /\ t.generation \in 1..MaxGeneration /\ t.put_id \in 1..puts
      /\ puts <= MaxPuts /\ puts \in Nat
  BY DEF ClusterInv, CoreInv, MasterTypeOK, BoundsInv, TicketsIssued
<1>10. /\ t.worker_id \in Workers /\ t.generation \in 0..MaxGeneration
       /\ t.put_id \in 0..MaxPuts
  BY <1>9, MasterAssumption, ClusterAssumption DEF Ticket
<1>11. /\ o \in OpRecord /\ o.pc = "get_fetch" /\ o.key = k /\ o.worker = t.worker_id
       /\ o.generation = t.generation /\ o.put_id = t.put_id
  BY <1>2, <1>3, <1>7, <1>10 DEF OpRecord, Pcs
<1>12. Placed(t.put_id, k, t.generation, t.worker_id)
  BY <1>6 DEF Placed, IsTicketOf
<1>13. OpPlaced(o)'
  BY <1>5, <1>6, <1>11, <1>12, PlacedStays DEF OpPlaced, IsTicketOf
<1> QED
  BY <1>8, <1>11, <1>13, OpsReplaced DEF ClusterInv

(* The answer to a write, or its loss, moves only the engine that waits.   *)
LEMMA WriteEndsOps ==
  ASSUME ClusterInv, tickets \subseteq tickets', acked \subseteq acked',
         NEW m \in wire, DeliverWrite(m) \/ LoseWrite(m)
  PROVE  op' \in [Engines -> OpRecord] /\ OpsPlaced'
<1>1. PICK e : e = m.from
  OBVIOUS
<1>2. e \in Engines
  BY <1>1 DEF ClusterInv, ShapeInv, Message
<1>3. op[e] \in OpRecord /\ (op[e].pc = "put_sent" => op[e].key \in Keys)
  BY <1>2 DEF ClusterInv, ShapeInv, OpsPlaced, OpPlaced
<1>4. CASE op' = op
  BY <1>4, OpsSame DEF ClusterInv, ShapeInv
<1>5. CASE Finish(e)
  BY <1>2, <1>5, OpsFinish DEF ClusterInv
<1>6. CASE op[e].pc = "put_sent" /\ Goto(e, "put_commit")
  <2>1. "put_commit" \in Pcs
    BY DEF Pcs
  <2> QED
    BY <1>2, <1>3, <1>6, <2>1, OpsGoto DEF ClusterInv
<1>7. op' = op \/ Finish(e) \/ (op[e].pc = "put_sent" /\ Goto(e, "put_commit"))
  BY <1>1, <1>2, <1>3 DEF DeliverWrite, LoseWrite, Awaited, Finish, Goto, ClusterInv, ShapeInv
<1> QED
  BY <1>4, <1>5, <1>6, <1>7

LEMMA OpsStep ==
  ASSUME ClusterInv, CoreInv', BoundsInv', tickets \subseteq tickets', acked \subseteq acked',
         [ClusterNext]_clusterVars
  PROVE  op' \in [Engines -> OpRecord] /\ OpsPlaced'
<1>0. ShapeInv /\ OpsPlaced /\ op \in [Engines -> OpRecord]
  BY DEF ClusterInv, ShapeInv
<1>1. CASE \E e \in Engines : EngineStep(e)
  <2>1. PICK e \in Engines : EngineStep(e)
    BY <1>1
  <2>2. op[e] \in OpRecord /\ (op[e].pc # "idle" => op[e].key \in Keys)
    BY <1>0 DEF OpsPlaced, OpPlaced
  <2>3. CASE \E k \in Keys : GetStart(e, k)
    BY <2>3, GetStartOps
  <2>4. CASE GetRouteFound(e)
    BY <2>4, GetRouteOps
  <2>5. CASE \E k \in Keys, size \in Sizes, w \in Workers : PutStartCall(e, k, size, w)
    BY <2>5, PutStartOps
  <2>6. CASE Finish(e)
    BY <1>0, <2>6, OpsFinish
  <2>7. CASE op' = op
    BY <1>0, <2>7, OpsSame
  <2>8. CASE op[e].pc = "get_local" /\ Goto(e, "get_route")
    BY <1>0, <2>2, <2>8, OpsGoto DEF Pcs
  <2>9. CASE op[e].pc = "put_write" /\ (Goto(e, "put_sent") \/ Goto(e, "put_commit"))
    BY <1>0, <2>2, <2>9, OpsGoto DEF Pcs
  <2>10. CASE op[e].pc = "get_fetch" /\ Goto(e, "mark")
    <3>1. op[e].put_id \in acked'
      BY <1>0, <2>10 DEF OpsPlaced, OpPlaced
    <3> QED
      BY <1>0, <2>2, <2>10, <3>1, OpsGoto DEF Pcs
  <2>11. CASE PutCommitCall(e)
    <3>1. op[e].pc = "put_commit" /\ (Goto(e, "mark") \/ Finish(e))
      BY <2>11 DEF PutCommitCall
    <3>2. op[e].put_id \in acked'
      BY <2>11, <3>1, TicketFound DEF ClusterInv, PutCommitCall, PutCommit
    <3> QED
      BY <1>0, <2>2, <2>6, <3>1, <3>2, OpsGoto DEF Pcs
  <2> QED
    BY <2>1, <2>3, <2>4, <2>5, <2>6, <2>7, <2>8, <2>9, <2>10, <2>11 DEF EngineStep, GetLocal,
       GetRouteNone, GetFetch, PutStartFails, PutWriteLocal, PutWriteSend, PutCommitFails,
       Mark, OpFails
<1>2. CASE \E m \in wire : DeliverWrite(m) \/ LoseWrite(m)
  BY <1>2, WriteEndsOps
<1>3. CASE \E w \in Workers : WorkerCrashes(w)
  <2>1. \A e \in Engines : op'[e] \in {op[e], Idle}
    BY <1>0, <1>3 DEF WorkerCrashes
  <2>2. op' \in [Engines -> OpRecord]
    BY <1>0, <1>3, IdlePlaced DEF WorkerCrashes
  <2> QED
    BY <1>0, <2>1, <2>2, OpsSame
<1>4. CASE op' = op
  BY <1>0, <1>4, OpsSame
<1> QED
  BY <1>1, <1>2, <1>3, <1>4 DEF ClusterNext, clusterVars, WorkerStep, WorkerRegisters,
     WorkerHeartbeats, HeartbeatFails, OperatorDeletes, MasterRestarts, ClockMoves

-----------------------------------------------------------------------------
(* Stores, indexes and messages.                                           *)

LEMMA PlacedTyped ==
  ASSUME CoreInv, BoundsInv, NEW p, NEW k, NEW g, NEW w, Placed(p, k, g, w)
  PROVE  k \in Keys /\ g \in 1..MaxGeneration /\ w \in Workers /\ p \in Nat \ {0}
<1>1. PICK t \in tickets : t.put_id = p /\ t.key = k /\ t.generation = g /\ t.worker_id = w
  BY DEF Placed
<1>2. t \in Ticket /\ t.put_id \in 1..puts /\ puts \in Nat
  BY DEF CoreInv, MasterTypeOK, TicketsIssued
<1>3. t.generation \in 1..MaxGeneration
  BY DEF BoundsInv
<1> QED
  BY <1>1, <1>2, <1>3 DEF Ticket

(* What each operation does to the slots of the stores.                    *)
LEMMA PutBytesSlots ==
  ASSUME NodeTypeOK, NEW w \in Workers, NEW k \in Keys, NEW g \in 1..MaxGeneration, NEW b,
         PutBytes(w, k, g, b)
  PROVE  /\ GetBytes(w, k, g)' = b
         /\ \A v \in Workers, j \in Keys, h \in 1..MaxGeneration :
              v # w \/ j # k \/ h # g => GetBytes(v, j, h)' = GetBytes(v, j, h)
<1>1. <<k, g>> \in Slots
  BY DEF Slots
<1>2. GetBytes(w, k, g)' = b
  BY <1>1 DEF NodeTypeOK, PutBytes, GetBytes
<1>3. ASSUME NEW v \in Workers, NEW j \in Keys, NEW h \in 1..MaxGeneration,
             v # w \/ j # k \/ h # g
      PROVE  GetBytes(v, j, h)' = GetBytes(v, j, h)
  <2>1. <<j, h>> \in Slots
    BY DEF Slots
  <2>2. CASE v # w
    BY <2>1, <2>2 DEF NodeTypeOK, PutBytes, GetBytes
  <2>3. CASE v = w /\ <<j, h>> # <<k, g>>
    <3>1. store'[w].objects = [store[w].objects EXCEPT ![<<k, g>>] = b]
      BY DEF NodeTypeOK, PutBytes
    <3>2. store'[w].objects[<<j, h>>] = store[w].objects[<<j, h>>]
      BY <2>1, <2>3, <3>1 DEF NodeTypeOK
    <3> QED
      BY <2>3, <3>2 DEF GetBytes
  <2> QED
    BY <1>3, <2>2, <2>3
<1> QED
  BY <1>2, <1>3

LEMMA DeleteSlots ==
  ASSUME NodeTypeOK, NEW w \in Workers, NEW k \in Keys, NEW g \in 1..MaxGeneration,
         DeleteGeneration(w, k, g)
  PROVE  /\ GetBytes(w, k, g)' = NoBytes
         /\ \A v \in Workers, j \in Keys, h \in 1..MaxGeneration :
              v # w \/ j # k \/ h # g => GetBytes(v, j, h)' = GetBytes(v, j, h)
<1>1. <<k, g>> \in Slots
  BY DEF Slots
<1>2. GetBytes(w, k, g)' = NoBytes
  BY <1>1 DEF NodeTypeOK, DeleteGeneration, GetBytes
<1>3. ASSUME NEW v \in Workers, NEW j \in Keys, NEW h \in 1..MaxGeneration,
             v # w \/ j # k \/ h # g
      PROVE  GetBytes(v, j, h)' = GetBytes(v, j, h)
  <2>1. <<j, h>> \in Slots
    BY DEF Slots
  <2>2. CASE v # w
    BY <2>1, <2>2 DEF NodeTypeOK, DeleteGeneration, GetBytes
  <2>3. CASE v = w /\ <<j, h>> # <<k, g>>
    <3>1. store'[w].objects = [store[w].objects EXCEPT ![<<k, g>>] = NoBytes]
      BY DEF NodeTypeOK, DeleteGeneration
    <3>2. store'[w].objects[<<j, h>>] = store[w].objects[<<j, h>>]
      BY <2>1, <2>3, <3>1 DEF NodeTypeOK
    <3> QED
      BY <2>3, <3>2 DEF GetBytes
  <2> QED
    BY <1>3, <2>2, <2>3
<1> QED
  BY <1>2, <1>3

LEMMA WipeSlots ==
  ASSUME NodeTypeOK, NEW w \in Workers, WipeNode(w)
  PROVE  \A v \in Workers, j \in Keys, h \in 1..MaxGeneration :
           /\ v = w => GetBytes(v, j, h)' = NoBytes
           /\ v # w => GetBytes(v, j, h)' = GetBytes(v, j, h)
BY DEF NodeTypeOK, WipeNode, NewStore, Slots, GetBytes

(* The five ways a step of the cluster touches the memory of workers.      *)
NodeChange ==
  \/ UNCHANGED nodeVars
  \/ \E w \in Workers, k \in Keys, g \in 1..MaxGeneration, b \in Bytes :
       PutBytes(w, k, g, b) /\ UNCHANGED committed_index /\ Placed(b.put_id, k, g, w)
  \/ \E w \in Workers, k \in Keys, g \in 1..MaxGeneration : DeleteGeneration(w, k, g)
  \/ \E w \in Workers : WipeNode(w)
  \/ \E w \in Workers, k \in Keys, g \in 0..MaxGeneration :
       MarkCommitted(w, k, g) /\ UNCHANGED store /\ AckedAt(k, g)

(* The bytes an engine is about to write are those of its put's ticket.    *)
LEMMA WritePlaced ==
  ASSUME ClusterInv, NEW e \in Engines, op[e].pc = "put_write"
  PROVE  /\ BytesOf(e) \in Bytes
         /\ op[e].key \in Keys /\ op[e].worker \in Workers
         /\ op[e].generation \in 1..MaxGeneration
         /\ Placed(BytesOf(e).put_id, op[e].key, op[e].generation, op[e].worker)
<1>1. op[e] \in OpRecord /\ MaxPuts \in Nat
  BY MasterAssumption DEF ClusterInv, ShapeInv
<1>2. BytesOf(e) \in Bytes /\ BytesOf(e).put_id = op[e].put_id
  BY <1>1 DEF BytesOf, Bytes, OpRecord
<1>3. Placed(op[e].put_id, op[e].key, op[e].generation, op[e].worker)
  BY DEF ClusterInv, OpsPlaced, OpPlaced
<1> QED
  BY <1>2, <1>3, PlacedTyped DEF ClusterInv

LEMMA NodeStep ==
  ASSUME ClusterInv, [ClusterNext]_clusterVars
  PROVE  NodeChange
<1>1. CASE \E e \in Engines : EngineStep(e)
  <2>1. PICK e \in Engines : EngineStep(e)
    BY <1>1
  <2>2. CASE PutWriteLocal(e)
    BY <2>2, WritePlaced DEF PutWriteLocal, NodeChange, nodeVars
  <2>3. CASE Mark(e)
    <3>1. Placed(op[e].put_id, op[e].key, op[e].generation, op[e].worker)
          /\ op[e].put_id \in acked
      BY <2>3 DEF Mark, ClusterInv, OpsPlaced, OpPlaced
    <3>2. AckedAt(op[e].key, op[e].generation)
      BY <3>1 DEF Placed, AckedAt
    <3>3. /\ op[e].key \in Keys /\ op[e].worker \in Workers
          /\ op[e].generation \in 0..MaxGeneration
      BY <3>1, PlacedTyped DEF ClusterInv
    <3> QED
      BY <2>3, <3>2, <3>3 DEF Mark, NodeChange
  <2>4. CASE UNCHANGED nodeVars
    BY <2>4 DEF NodeChange
  <2> QED
    BY <2>1, <2>2, <2>3, <2>4 DEF EngineStep, GetStart, GetLocal, GetRouteFound, GetRouteNone,
       GetFetch, PutStartCall, PutStartFails, PutWriteSend, PutCommitCall, PutCommitFails, OpFails
<1>2. CASE \E m \in wire : DeliverWrite(m)
  <2>1. PICK m \in wire : DeliverWrite(m)
    BY <1>2
  <2>2. m \in Message /\ Placed(m.bytes.put_id, m.key, m.generation, m.worker)
    BY DEF ClusterInv, ShapeInv, WirePlaced, MessagePlaced
  <2>3. /\ m.worker \in Workers /\ m.key \in Keys /\ m.generation \in 1..MaxGeneration
        /\ m.bytes \in Bytes
    BY <2>2 DEF Message
  <2> QED
    BY <2>1, <2>2, <2>3 DEF DeliverWrite, NodeChange, nodeVars
<1>3. CASE \E w \in Workers : WorkerCrashes(w) \/ \E k \in Keys, g \in 1..MaxGeneration : OperatorDeletes(w, k, g)
  BY <1>3 DEF WorkerCrashes, OperatorDeletes, NodeChange
<1>4. CASE UNCHANGED nodeVars
  BY <1>4 DEF NodeChange
<1> QED
  BY <1>1, <1>2, <1>3, <1>4 DEF ClusterNext, clusterVars, LoseWrite, WorkerStep,
     WorkerRegisters, WorkerHeartbeats, HeartbeatFails, MasterRestarts, ClockMoves

LEMMA NodeKept ==
  ASSUME NodeTypeOK, StoreUsedExact, NodeChange
  PROVE  NodeTypeOK' /\ StoreUsedExact'
<1>1. CASE UNCHANGED nodeVars
  BY <1>1 DEF nodeVars, NodeTypeOK, StoreUsedExact
<1> QED
  BY <1>1, PutBytesNode, DeleteNode, WipeNodeKeeps, MarkCommittedNode DEF NodeChange

LEMMA BytesKept ==
  ASSUME NodeTypeOK, BytesPlaced, NodeChange, tickets \subseteq tickets'
  PROVE  BytesPlaced'
<1> SUFFICES ASSUME NEW v \in Workers, NEW j \in Keys, NEW h \in 1..MaxGeneration,
                    GetBytes(v, j, h)'.put_id # 0
             PROVE  Placed(GetBytes(v, j, h).put_id, j, h, v)'
  BY DEF BytesPlaced, HasBytes
<1>1. PICK n : n = GetBytes(v, j, h)'
  OBVIOUS
<1>2. n = GetBytes(v, j, h) \/ n.put_id = 0 \/ Placed(n.put_id, j, h, v)
  <2>1. CASE UNCHANGED nodeVars
    BY <1>1, <2>1 DEF nodeVars, GetBytes
  <2>2. ASSUME NEW w \in Workers, NEW k \in Keys, NEW g \in 1..MaxGeneration, NEW b \in Bytes,
               PutBytes(w, k, g, b), Placed(b.put_id, k, g, w)
        PROVE  n = GetBytes(v, j, h) \/ Placed(n.put_id, j, h, v)
    BY <1>1, <2>2, PutBytesSlots
  <2>3. ASSUME NEW w \in Workers, NEW k \in Keys, NEW g \in 1..MaxGeneration,
               DeleteGeneration(w, k, g)
        PROVE  n = GetBytes(v, j, h) \/ n.put_id = 0
    BY <1>1, <2>3, DeleteSlots DEF NoBytes
  <2>4. ASSUME NEW w \in Workers, WipeNode(w)
        PROVE  n = GetBytes(v, j, h) \/ n.put_id = 0
    BY <1>1, <2>4, WipeSlots DEF NoBytes
  <2>5. CASE UNCHANGED store
    BY <1>1, <2>5 DEF GetBytes
  <2> QED
    BY <2>1, <2>2, <2>3, <2>4, <2>5 DEF NodeChange
<1>3. n = GetBytes(v, j, h) => n.put_id = 0 \/ Placed(n.put_id, j, h, v)
  BY DEF BytesPlaced, HasBytes
<1>4. Placed(n.put_id, j, h, v)'
  BY <1>1, <1>2, <1>3, PlacedStays
<1> QED
  BY <1>1, <1>4 DEF Placed

LEMMA IndexKept ==
  ASSUME NodeTypeOK, IndexAcked, NodeChange, tickets \subseteq tickets', acked \subseteq acked'
  PROVE  IndexAcked'
<1> SUFFICES ASSUME NEW v \in Workers, NEW j \in Keys, committed_index'[v][j] > 0
             PROVE  AckedAt(j, committed_index[v][j])'
  BY DEF IndexAcked
<1>1. PICK n : n = committed_index'[v][j]
  OBVIOUS
<1>2. n = committed_index[v][j] \/ n = 0 \/ AckedAt(j, n)
  <2>1. CASE UNCHANGED committed_index
    BY <1>1, <2>1
  <2>2. ASSUME NEW w \in Workers, WipeNode(w)
        PROVE  n = committed_index[v][j] \/ n = 0
    BY <1>1, <2>2 DEF WipeNode, NewIndex, NodeTypeOK
  <2>3. ASSUME NEW w \in Workers, NEW k \in Keys, NEW g \in 0..MaxGeneration,
               MarkCommitted(w, k, g), AckedAt(k, g)
        PROVE  n = committed_index[v][j] \/ AckedAt(j, n)
    BY <1>1, <2>3 DEF MarkCommitted, NodeTypeOK
  <2> QED
    BY <2>1, <2>2, <2>3 DEF NodeChange, nodeVars, DeleteGeneration
<1>3. AckedAt(j, n)
  BY <1>1, <1>2 DEF IndexAcked
<1>4. AckedAt(j, n)'
  BY <1>3, AckedAtStays
<1> QED
  BY <1>1, <1>4 DEF AckedAt

LEMMA WireKept ==
  ASSUME ClusterInv, [ClusterNext]_clusterVars, tickets \subseteq tickets'
  PROVE  wire' \subseteq Message /\ WirePlaced'
<1> SUFFICES ASSUME NEW m \in wire' PROVE m \in Message /\ MessagePlaced(m)'
  BY DEF WirePlaced
<1>1. m \in wire => m \in Message /\ MessagePlaced(m)
  BY DEF ClusterInv, ShapeInv, WirePlaced
<1>2. CASE \E e \in Engines : PutWriteSend(e)
  <2>1. PICK e \in Engines : PutWriteSend(e)
    BY <1>2
  <2>2. PICK n : n = [from |-> e, worker |-> op[e].worker, key |-> op[e].key,
                      generation |-> op[e].generation, bytes |-> BytesOf(e)]
    OBVIOUS
  <2>3. wire' = wire \cup {n} /\ op[e].pc = "put_write"
    BY <2>1, <2>2 DEF PutWriteSend
  <2>4. n \in Message /\ MessagePlaced(n)
    BY <2>2, <2>3, WritePlaced DEF Message, MessagePlaced
  <2>5. m \in Message /\ MessagePlaced(m)
    BY <1>1, <2>3, <2>4
  <2> QED
    BY <2>5, PlacedStays DEF MessagePlaced
<1>3. CASE wire' \subseteq wire
  BY <1>1, <1>3, PlacedStays DEF MessagePlaced
<1> QED
  BY <1>2, <1>3 DEF ClusterNext, clusterVars, EngineStep, GetStart, GetLocal, GetRouteFound,
     GetRouteNone, GetFetch, PutStartCall, PutStartFails, PutWriteLocal, PutCommitCall,
     PutCommitFails, Mark, OpFails, DeliverWrite, LoseWrite, WorkerStep, WorkerRegisters,
     WorkerHeartbeats, HeartbeatFails, WorkerCrashes, OperatorDeletes, MasterRestarts, ClockMoves

LEMMA ProcsKept ==
  ASSUME ClusterInv, CoreInv', BoundsInv', [ClusterNext]_clusterVars
  PROVE  agent' \in [Workers -> 0..MaxEpoch] /\ restarts' \in Nat
<1>1. agent \in [Workers -> 0..MaxEpoch] /\ restarts \in Nat /\ MaxEpoch \in Nat
  BY MasterAssumption DEF ClusterInv, ShapeInv
<1>2. CASE \E w \in Workers : WorkerRegisters(w)
  <2>1. PICK w \in Workers : WorkerRegisters(w)
    BY <1>2
  <2>2. workers'[w].epoch \in Nat /\ workers'[w].epoch <= MaxEpoch
    BY DEF CoreInv, MasterTypeOK, WorkerMeta, BoundsInv
  <2>3. workers'[w].epoch \in 0..MaxEpoch
    BY <1>1, <2>2
  <2> QED
    BY <1>1, <2>1, <2>3 DEF WorkerRegisters
<1>3. CASE \E w \in Workers : WorkerHeartbeats(w) \/ HeartbeatFails(w) \/ WorkerCrashes(w)
  BY <1>1, <1>3 DEF WorkerHeartbeats, HeartbeatFails, WorkerCrashes
<1>4. CASE MasterRestarts
  BY <1>1, <1>4 DEF MasterRestarts
<1>5. CASE UNCHANGED <<agent, restarts>>
  BY <1>1, <1>5
<1> QED
  BY <1>2, <1>3, <1>4, <1>5 DEF ClusterNext, clusterVars, procVars, EngineStep, GetStart, GetLocal,
     GetRouteFound, GetRouteNone, GetFetch, PutStartCall, PutStartFails, PutWriteLocal,
     PutWriteSend, PutCommitCall, PutCommitFails, Mark, OpFails, DeliverWrite, LoseWrite,
     WorkerStep, OperatorDeletes, ClockMoves

-----------------------------------------------------------------------------
(* The life of one Master.                                                 *)

(* A put is placed only on a registered worker.                            *)
LEMMA EpochsNext ==
  ASSUME CoreInv, EpochsPast, [MasterNext]_masterVars
  PROVE  EpochsPast'
<1>1. /\ workers \in [Workers -> WorkerMeta]
      /\ \A w \in Workers : workers[w].epoch \in Nat
      /\ \A t \in tickets : t \in Ticket /\ t.worker_id \in Workers /\ t.worker_epoch \in Nat
  BY DEF CoreInv, MasterTypeOK, WorkerMeta, Ticket
<1>2. CASE /\ tickets' = tickets
           /\ \A w \in Workers : workers'[w].epoch = workers[w].epoch
                                 \/ workers'[w].epoch = workers[w].epoch + 1
  BY <1>1, <1>2 DEF EpochsPast
<1>3. ASSUME NEW k \in Keys, NEW s \in Sizes, NEW p, NEW w \in Workers, PutStart(k, s, p, w)
      PROVE  EpochsPast'
  <2>1. PICK new : new = NewTicket(k, s, w)
    OBVIOUS
  <2>2. new.worker_id = w /\ new.worker_epoch = workers[w].epoch
    BY <2>1 DEF NewTicket
  <2>3. /\ Released(k) \in [Workers -> WorkerMeta]
        /\ \A v \in Workers : Released(k)[v].epoch = workers[v].epoch
    BY ReleasedShape DEF CoreInv
  <2>4. \A v \in Workers : workers'[v].epoch = workers[v].epoch
    BY <1>3, <2>3 DEF PutStart, WorkerMeta
  <2>5. workers[w].epoch > 0
    BY <1>3, <2>3 DEF PutStart, Candidates, Fits, WorkerIsAlive
  <2>6. tickets' = tickets \cup {new}
    BY <1>3, <2>1 DEF PutStart
  <2> QED
    BY <1>1, <2>2, <2>4, <2>5, <2>6 DEF EpochsPast
<1>4. CASE \E w \in Workers, c \in Capacities : RegisterWorker(w, c)
  <2>1. \A w \in Workers : workers'[w].epoch = workers[w].epoch
                           \/ workers'[w].epoch = workers[w].epoch + 1
    BY <1>1, <1>4 DEF RegisterWorker, WorkerMeta
  <2> QED
    BY <1>2, <1>4, <2>1 DEF RegisterWorker
<1>5. CASE \E k \in Keys, s \in Sizes, p \in Workers \cup {NoWorker} :
             PutStartRejected(k, s, p)
  BY <1>2, <1>5, ReleasedShape DEF PutStartRejected, CoreInv
<1>6. CASE \E w \in Workers, e \in 1..MaxEpoch : Heartbeat(w, e)
  BY <1>1, <1>2, <1>6 DEF Heartbeat, WorkerMeta
<1>7. CASE \E w \in Workers : MarkWorkerDead(w)
  BY <1>1, <1>2, <1>7 DEF MarkWorkerDead, WorkerMeta
<1>8. CASE UNCHANGED <<workers, tickets>>
  BY <1>2, <1>8
<1> QED
  BY <1>3, <1>4, <1>5, <1>6, <1>7, <1>8 DEF MasterNext, masterVars, PutCommit, GetRoute, SetClock

(* Where the tickets' slots and epochs lie.                                *)
LEMMA TicketTyped ==
  ASSUME CoreInv, BoundsInv, EpochsPast, NEW t \in tickets
  PROVE  /\ t.key \in Keys /\ t.generation \in 1..MaxGeneration /\ t.worker_id \in Workers
         /\ t.put_id \in 1..puts /\ puts \in Nat
         /\ t.worker_epoch # 0 /\ t.worker_epoch <= workers[t.worker_id].epoch
         /\ t.worker_epoch \in Nat /\ workers[t.worker_id].epoch \in Nat
<1>1. t \in Ticket /\ t.put_id \in 1..puts /\ puts \in Nat
  BY DEF CoreInv, MasterTypeOK, TicketsIssued
<1>2. t.worker_epoch \in 1..workers[t.worker_id].epoch /\ t.generation \in 1..MaxGeneration
  BY DEF BoundsInv, EpochsPast
<1>3. t.key \in Keys /\ t.worker_id \in Workers /\ t.worker_epoch \in Nat
  BY <1>1 DEF Ticket
<1>4. workers[t.worker_id].epoch \in Nat
  BY <1>3 DEF CoreInv, MasterTypeOK, WorkerMeta
<1> QED
  BY <1>1, <1>2, <1>3, <1>4

(* Steps that leave the stores alone and claim nothing new.                *)
LEMMA LandedUndisturbed ==
  ASSUME CoreInv, BoundsInv, EpochsPast, Landed,
         UNCHANGED <<store, tickets>>, deleted \subseteq deleted',
         \A w \in Workers : agent'[w] \in {agent[w], 0} \/ agent'[w] = workers[w].epoch + 1,
         \A p \in acked' : p \in acked \/ \E f \in Engines : op[f].pc = "put_commit" /\ op[f].put_id = p,
         \A e \in Engines : op'[e].pc = "put_commit" => op'[e] = op[e]
  PROVE  Landed'
<1> SUFFICES ASSUME NEW t \in tickets, MustHold(t)'
             PROVE  GetBytes(t.worker_id, t.key, t.generation)'.put_id = t.put_id
  BY DEF Landed
<1>1. /\ t.worker_id \in Workers /\ t.worker_epoch # 0
      /\ t.worker_epoch # workers[t.worker_id].epoch + 1
  BY TicketTyped
<1>2. MustHold(t)
  BY <1>1 DEF MustHold
<1> QED
  BY <1>2 DEF Landed, GetBytes

(* A write lands in the slot of its own ticket and of no other.            *)
LEMMA LandedByWrite ==
  ASSUME CoreInv, BoundsInv, EpochsPast, Landed, SlotInv, NodeTypeOK,
         NEW w \in Workers, NEW k \in Keys, NEW g \in 1..MaxGeneration, NEW b \in Bytes,
         PutBytes(w, k, g, b), Placed(b.put_id, k, g, w),
         UNCHANGED <<tickets, acked, agent, deleted>>,
         \A e \in Engines : op'[e].pc = "put_commit" =>
           op'[e] = op[e] \/ op'[e].put_id = b.put_id
  PROVE  Landed'
<1> SUFFICES ASSUME NEW t \in tickets, MustHold(t)'
             PROVE  GetBytes(t.worker_id, t.key, t.generation)'.put_id = t.put_id
  BY DEF Landed
<1>1. PICK u \in tickets : /\ u.put_id = b.put_id /\ u.key = k
                           /\ u.generation = g /\ u.worker_id = w
  BY DEF Placed
<1>2. CASE t.put_id = b.put_id
  <2>1. t = u
    BY <1>1, <1>2 DEF CoreInv, PutIdsUnique
  <2> QED
    BY <1>1, <2>1, PutBytesSlots
<1>3. CASE t.put_id # b.put_id
  <2>1. t.key # k \/ t.generation # g
    BY <1>1, <1>3 DEF SlotInv
  <2>2. GetBytes(t.worker_id, t.key, t.generation)' = GetBytes(t.worker_id, t.key, t.generation)
    BY <2>1, TicketTyped, PutBytesSlots
  <2>3. MustHold(t)
    BY <1>3 DEF MustHold
  <2> QED
    BY <2>2, <2>3 DEF Landed
<1> QED
  BY <1>2, <1>3

(* A put that was only just placed has written nothing yet.                *)
LEMMA LandedByPutStart ==
  ASSUME ClusterInv, EpochsPast, Landed,
         NEW e \in Engines, NEW k \in Keys, NEW s \in Sizes, NEW w \in Workers,
         PutStartCall(e, k, s, w)
  PROVE  Landed'
<1> SUFFICES ASSUME NEW t \in tickets', MustHold(t)'
             PROVE  GetBytes(t.worker_id, t.key, t.generation)'.put_id = t.put_id
  BY DEF Landed
<1>1. /\ UNCHANGED <<store, agent, deleted, acked>>
      /\ tickets' = tickets \cup {NewTicket(k, s, w)}
      /\ \A f \in Engines : op'[f].pc = "put_commit" => op'[f] = op[f]
  BY DEF PutStartCall, nodeVars, procVars, PutStart, ClusterInv, ShapeInv
<1>2. MustHold(t)
  BY <1>1 DEF MustHold
<1>3. puts \in Nat /\ acked \subseteq 1..puts
  BY DEF ClusterInv, CoreInv, MasterTypeOK, AckedMatchesState
<1>4. ASSUME NEW f \in Engines, op[f].pc = "put_commit" PROVE op[f].put_id \in 1..puts
  BY <1>4, TicketFound DEF ClusterInv, CoreInv, TicketsIssued
<1>5. t.put_id # puts + 1
  BY <1>2, <1>3, <1>4 DEF MustHold
<1>6. t \in tickets
  BY <1>1, <1>5 DEF NewTicket
<1> QED
  BY <1>1, <1>2, <1>6 DEF Landed, GetBytes

LEMMA LandedByDelete ==
  ASSUME CoreInv, BoundsInv, EpochsPast, Landed, NodeTypeOK,
         NEW w \in Workers, NEW k \in Keys, NEW g \in 1..MaxGeneration, OperatorDeletes(w, k, g)
  PROVE  Landed'
<1> SUFFICES ASSUME NEW t \in tickets, MustHold(t)'
             PROVE  GetBytes(t.worker_id, t.key, t.generation)'.put_id = t.put_id
  BY DEF Landed, OperatorDeletes, masterVars
<1>1. MustHold(t) /\ t.put_id # GetBytes(w, k, g).put_id
  BY DEF MustHold, OperatorDeletes, masterVars
<1>2. GetBytes(t.worker_id, t.key, t.generation).put_id = t.put_id
  BY <1>1 DEF Landed
<1>3. t.worker_id # w \/ t.key # k \/ t.generation # g
  BY <1>1, <1>2
<1>4. GetBytes(t.worker_id, t.key, t.generation)' = GetBytes(t.worker_id, t.key, t.generation)
  BY <1>3, TicketTyped, DeleteSlots DEF OperatorDeletes
<1> QED
  BY <1>2, <1>4

LEMMA LandedByCrash ==
  ASSUME CoreInv, BoundsInv, EpochsPast, Landed, NodeTypeOK, ShapeInv,
         NEW w \in Workers, WorkerCrashes(w)
  PROVE  Landed'
<1> SUFFICES ASSUME NEW t \in tickets, MustHold(t)'
             PROVE  GetBytes(t.worker_id, t.key, t.generation)'.put_id = t.put_id
  BY DEF Landed, WorkerCrashes, masterVars
<1>1. /\ agent'[w] = 0
      /\ \A v \in Workers : v # w => agent'[v] = agent[v]
      /\ \A e \in Engines : op'[e].pc = "put_commit" => op'[e] = op[e]
  BY DEF WorkerCrashes, ShapeInv, Idle
<1>2. t.worker_id # w
  BY <1>1, TicketTyped DEF MustHold
<1>3. MustHold(t)
  BY <1>1, <1>2, TicketTyped DEF MustHold, WorkerCrashes, masterVars
<1>4. GetBytes(t.worker_id, t.key, t.generation)' = GetBytes(t.worker_id, t.key, t.generation)
  BY <1>2, TicketTyped, WipeSlots DEF WorkerCrashes
<1> QED
  BY <1>3, <1>4 DEF Landed

LEMMA LandedStep ==
  ASSUME ClusterInv, SlotInv, EpochsPast, Landed, [ClusterNext]_clusterVars, ~MasterRestarts
  PROVE  Landed'
<1>0. /\ CoreInv /\ BoundsInv /\ NodeTypeOK /\ ShapeInv /\ OpsPlaced
      /\ op \in [Engines -> OpRecord] /\ agent \in [Workers -> 0..MaxEpoch]
  BY DEF ClusterInv, ShapeInv
<1>1. CASE /\ UNCHANGED <<store, tickets, acked, agent, deleted>>
           /\ \A e \in Engines : op'[e].pc = "put_commit" => op'[e] = op[e]
  BY <1>0, <1>1, LandedUndisturbed
<1>2. CASE \E e \in Engines : EngineStep(e)
  <2>1. PICK e \in Engines : EngineStep(e)
    BY <1>2
  <2>2. ASSUME Finish(e) \/ Goto(e, "get_route") \/ Goto(e, "mark") \/ Goto(e, "put_sent")
               \/ \E k \in Keys : GetStart(e, k)
        PROVE  \A f \in Engines : op'[f].pc = "put_commit" => op'[f] = op[f]
    <3>1. CASE Finish(e)
      BY <1>0, <3>1 DEF Finish, Idle
    <3>2. ASSUME NEW pc, pc # "put_commit", Goto(e, pc)
          PROVE  \A f \in Engines : op'[f].pc = "put_commit" => op'[f] = op[f]
      BY <1>0, <3>2 DEF Goto, OpRecord
    <3>3. ASSUME NEW k \in Keys, GetStart(e, k)
          PROVE  \A f \in Engines : op'[f].pc = "put_commit" => op'[f] = op[f]
      BY <1>0, <3>3 DEF GetStart, Idle
    <3> QED
      BY <2>2, <3>1, <3>2, <3>3
  <2>3. CASE \E k \in Keys, size \in Sizes, w \in Workers : PutStartCall(e, k, size, w)
    BY <2>3, LandedByPutStart
  <2>4. CASE /\ PutWriteLocal(e)
             /\ ~PutFits(op[e].worker, op[e].key, op[e].generation, op[e].size_bytes)
    BY <1>1, <2>4, <2>2 DEF PutWriteLocal, masterVars, procVars
  <2>5. CASE /\ PutWriteLocal(e)
             /\ PutFits(op[e].worker, op[e].key, op[e].generation, op[e].size_bytes)
    <3>1. /\ PutBytes(op[e].worker, op[e].key, op[e].generation, BytesOf(e))
          /\ Goto(e, "put_commit")
          /\ op[e].pc = "put_write"
          /\ UNCHANGED <<tickets, acked, agent, deleted>>
      BY <2>5 DEF PutWriteLocal, masterVars, procVars
    <3>2. \A f \in Engines : op'[f].pc = "put_commit" =>
            op'[f] = op[f] \/ op'[f].put_id = BytesOf(e).put_id
      BY <1>0, <3>1 DEF Goto, BytesOf, OpRecord
    <3> QED
      BY <1>0, <3>1, <3>2, WritePlaced, LandedByWrite
  <2>6. CASE PutCommitCall(e)
    <3>1. /\ op[e].pc = "put_commit"
          /\ UNCHANGED <<store, tickets, agent, deleted>>
          /\ acked' = acked \cup {TicketOf(e).put_id}
      BY <2>6 DEF PutCommitCall, PutCommit, nodeVars, procVars
    <3>2. TicketOf(e).put_id = op[e].put_id
      BY <1>0, <3>1, TicketFound
    <3>3. \A f \in Engines : op'[f].pc = "put_commit" => op'[f] = op[f]
      BY <2>6, <2>2 DEF PutCommitCall
    <3> QED
      BY <1>0, <3>1, <3>2, <3>3, LandedUndisturbed
  <2>7. CASE GetRouteFound(e) \/ \E k \in Keys, size \in Sizes : PutStartFails(e, k, size)
    <3>1. UNCHANGED <<store, tickets, acked, agent, deleted>>
      BY <2>7 DEF GetRouteFound, PutStartFails, GetRoute, PutStartRejected, nodeVars, procVars
    <3>2. \A f \in Engines : op'[f].pc = "put_commit" => op'[f] = op[f]
      BY <1>0, <2>7 DEF GetRouteFound, PutStartFails, OpRecord
    <3> QED
      BY <1>1, <3>1, <3>2
  <2>8. CASE UNCHANGED <<masterVars, store, procVars>>
             /\ (Finish(e) \/ Goto(e, "get_route") \/ Goto(e, "mark") \/ Goto(e, "put_sent")
                 \/ \E k \in Keys : GetStart(e, k))
    BY <1>1, <2>8, <2>2 DEF masterVars, procVars
  <2>9. CASE UNCHANGED <<masterVars, store, procVars, op>>
    BY <1>1, <2>9 DEF masterVars, procVars
  <2> QED
    BY <2>1, <2>3, <2>4, <2>5, <2>6, <2>7, <2>8, <2>9 DEF EngineStep, GetStart, GetLocal,
       GetRouteNone, GetFetch, PutWriteSend, PutCommitFails, Mark, OpFails, nodeVars
<1>3. CASE \E m \in wire : DeliverWrite(m)
  <2>1. PICK m \in wire : DeliverWrite(m)
    BY <1>3
  <2>2. /\ m.from \in Engines /\ m.worker \in Workers /\ m.key \in Keys
        /\ m.generation \in 1..MaxGeneration /\ m.bytes \in Bytes
        /\ Placed(m.bytes.put_id, m.key, m.generation, m.worker)
    BY DEF ClusterInv, ShapeInv, Message, WirePlaced, MessagePlaced
  <2>3. UNCHANGED <<tickets, acked, agent, deleted>>
    BY <2>1 DEF DeliverWrite, masterVars, procVars
  <2>4. CASE PutFits(m.worker, m.key, m.generation, m.bytes.len)
    <3>1. PutBytes(m.worker, m.key, m.generation, m.bytes)
      BY <2>1, <2>4 DEF DeliverWrite
    <3>2. op' = op \/ (Awaited(m) /\ op' = [op EXCEPT ![m.from] = [@ EXCEPT !.pc = "put_commit"]])
      BY <2>1, <2>4 DEF DeliverWrite
    <3>3. \A f \in Engines : op'[f].pc = "put_commit" =>
            op'[f] = op[f] \/ op'[f].put_id = m.bytes.put_id
      BY <1>0, <2>2, <3>2 DEF Awaited, OpRecord
    <3> QED
      BY <1>0, <2>2, <2>3, <3>1, <3>3, LandedByWrite
  <2>5. CASE ~PutFits(m.worker, m.key, m.generation, m.bytes.len)
    <3>1. UNCHANGED store /\ (op' = op \/ op' = [op EXCEPT ![m.from] = Idle])
      BY <2>1, <2>5 DEF DeliverWrite
    <3>2. \A f \in Engines : op'[f].pc = "put_commit" => op'[f] = op[f]
      BY <1>0, <2>2, <3>1 DEF Idle
    <3> QED
      BY <1>1, <2>3, <3>1, <3>2
  <2> QED
    BY <2>4, <2>5
<1>4. CASE \E m \in wire : LoseWrite(m)
  <2>1. PICK m \in wire : LoseWrite(m)
    BY <1>4
  <2>2. op' = op \/ op' = [op EXCEPT ![m.from] = Idle]
    BY <2>1 DEF LoseWrite
  <2>3. \A f \in Engines : op'[f].pc = "put_commit" => op'[f] = op[f]
    BY <1>0, <2>2 DEF Idle
  <2> QED
    BY <1>1, <2>1, <2>3 DEF LoseWrite, masterVars, nodeVars, procVars
<1>5. CASE \E w \in Workers : WorkerStep(w)
  <2>1. PICK w \in Workers : WorkerStep(w)
    BY <1>5
  <2>2. CASE WorkerRegisters(w)
    <3>1. UNCHANGED <<store, tickets, acked, deleted, op>>
      BY <2>2 DEF WorkerRegisters, RegisterWorker, nodeVars
    <3>2. workers'[w].epoch = workers[w].epoch + 1
      BY <1>0, <2>2 DEF WorkerRegisters, RegisterWorker, CoreInv, MasterTypeOK
    <3>3. \A v \in Workers : agent'[v] = agent[v] \/ agent'[v] = workers[v].epoch + 1
      BY <1>0, <2>2, <3>2 DEF WorkerRegisters
    <3> QED
      BY <1>0, <3>1, <3>3, LandedUndisturbed
  <2>3. CASE WorkerHeartbeats(w) \/ HeartbeatFails(w)
    <3>1. UNCHANGED <<store, tickets, acked, deleted, op>>
      BY <2>3 DEF WorkerHeartbeats, Heartbeat, HeartbeatFails, masterVars, nodeVars
    <3>2. \A v \in Workers : agent'[v] \in {agent[v], 0}
      BY <1>0, <2>3 DEF WorkerHeartbeats, HeartbeatFails
    <3> QED
      BY <1>0, <3>1, <3>2, LandedUndisturbed
  <2>4. CASE WorkerCrashes(w)
    BY <1>0, <2>4, LandedByCrash
  <2>5. CASE \E k \in Keys, g \in 1..MaxGeneration : OperatorDeletes(w, k, g)
    BY <1>0, <2>5, LandedByDelete
  <2> QED
    BY <2>1, <2>2, <2>3, <2>4, <2>5 DEF WorkerStep
<1>6. CASE \E t \in 0..MaxNow : ClockMoves(t)
  BY <1>1, <1>6 DEF ClockMoves, SetClock, nodeVars, procVars
<1>7. CASE UNCHANGED clusterVars
  BY <1>1, <1>7 DEF clusterVars, masterVars, nodeVars
<1> QED
  BY <1>2, <1>3, <1>4, <1>5, <1>6, <1>7 DEF ClusterNext

LEMMA OneLifeKept ==
  ASSUME ClusterInv, [ClusterNext]_clusterVars
  PROVE  OneLife'
<1> SUFFICES ASSUME restarts' = 0 PROVE (SlotInv /\ EpochsPast /\ Landed)'
  BY DEF OneLife
<1>1. restarts = 0 /\ ~MasterRestarts
  <2>1. restarts \in Nat
    BY DEF ClusterInv, ShapeInv
  <2>2. ~MasterRestarts
    BY <2>1 DEF MasterRestarts
  <2>3. restarts' = restarts
    BY <2>2 DEF ClusterNext, clusterVars, procVars, EngineStep, GetStart, GetLocal,
       GetRouteFound, GetRouteNone, GetFetch, PutStartCall, PutStartFails, PutWriteLocal,
       PutWriteSend, PutCommitCall, PutCommitFails, Mark, OpFails, DeliverWrite, LoseWrite,
       WorkerStep, WorkerRegisters, WorkerHeartbeats, HeartbeatFails, WorkerCrashes,
       OperatorDeletes, ClockMoves
  <2> QED
    BY <2>2, <2>3
<1>2. SlotInv /\ EpochsPast /\ Landed /\ CoreInv
  BY <1>1 DEF ClusterInv, OneLife
<1>3. [MasterNext]_masterVars
  BY <1>1, StepOfMaster
<1> QED
  BY <1>1, <1>2, <1>3, SlotNext, EpochsNext, LandedStep

LEMMA ClusterInitInv == ClusterInit => ClusterInv
<1> SUFFICES ASSUME ClusterInit PROVE ClusterInv
  OBVIOUS
<1>1. CoreInv
  BY InitInv DEF ClusterInit
<1>2. BoundsInv
  BY MasterAssumption DEF ClusterInit, MasterInit, BoundsInv, UnknownWorker, AbsentObject
<1>3. ShapeInv /\ OpsPlaced
  BY MasterAssumption, ClusterAssumption
     DEF ClusterInit, ShapeInv, OpsPlaced, OpPlaced, Idle, OpRecord, Pcs
<1>4. NodeTypeOK
  BY NewStoreExact, ClusterAssumption
     DEF ClusterInit, NodeInit, NodeTypeOK, NewIndex, Bytes
<1>5. StoreUsedExact
  <2>1. \A w \in Workers : store[w] = NewStore /\ Capacity[w] \in Nat
    BY MasterAssumption, ClusterAssumption DEF ClusterInit, NodeInit
  <2> QED
    BY <2>1, NewStoreExact DEF StoreUsedExact
<1>6. BytesPlaced
  BY DEF ClusterInit, NodeInit, NewStore, NoBytes, Slots, BytesPlaced, HasBytes, GetBytes
<1>7. WirePlaced
  BY DEF ClusterInit, WirePlaced
<1>8. IndexAcked
  BY DEF ClusterInit, NodeInit, NewIndex, IndexAcked
<1>9. OneLife
  BY DEF ClusterInit, MasterInit, OneLife, SlotInv, EpochsPast, Landed
<1> QED
  BY <1>1, <1>2, <1>3, <1>4, <1>5, <1>6, <1>7, <1>8, <1>9 DEF ClusterInv

LEMMA ClusterNextInv == ClusterInv /\ [ClusterNext]_clusterVars => ClusterInv'
<1> SUFFICES ASSUME ClusterInv, [ClusterNext]_clusterVars PROVE ClusterInv'
  OBVIOUS
<1>1. [MasterNext]_masterVars \/ MasterRestarts
  BY StepOfMaster
<1>2. tickets \subseteq tickets' /\ acked \subseteq acked'
  BY <1>1, HistoryGrows
<1>3. CoreInv' /\ BoundsInv'
  BY <1>1, NextInv, RestartInv, BoundsKept DEF ClusterInv
<1>4. NodeTypeOK' /\ StoreUsedExact' /\ BytesPlaced' /\ IndexAcked'
  BY <1>2, NodeStep, NodeKept, BytesKept, IndexKept DEF ClusterInv
<1>5. op' \in [Engines -> OpRecord] /\ OpsPlaced'
  BY <1>2, <1>3, OpsStep
<1>6. wire' \subseteq Message /\ WirePlaced'
  BY <1>2, WireKept
<1>7. ShapeInv'
  BY <1>3, <1>5, <1>6, ProcsKept DEF ShapeInv
<1>8. OneLife'
  BY OneLifeKept
<1> QED
  BY <1>3, <1>4, <1>5, <1>6, <1>7, <1>8 DEF ClusterInv

(* ClusterInv holds in every reachable state of the cluster, across any    *)
(* number of restarts of the Master.                                       *)
THEOREM ClusterInvariance == ClusterSpec => []ClusterInv
BY ClusterInitInv, ClusterNextInv, PTL DEF ClusterSpec

-----------------------------------------------------------------------------
(* The slot of a ticket holds its put's bytes or none, while one Master    *)
(* lives: no other put was ever told to write there.                       *)
LEMMA SlotHoldsItsPut ==
  ASSUME CoreInv, BoundsInv, SlotInv, BytesPlaced,
         NEW t \in tickets, NEW w \in Workers, HasBytes(w, t.key, t.generation)
  PROVE  GetBytes(w, t.key, t.generation).put_id = t.put_id
<1>1. t.key \in Keys /\ t.generation \in 1..MaxGeneration
  BY DEF CoreInv, MasterTypeOK, Ticket, BoundsInv
<1>2. Placed(GetBytes(w, t.key, t.generation).put_id, t.key, t.generation, w)
  BY <1>1 DEF BytesPlaced
<1> QED
  BY <1>2 DEF Placed, SlotInv

LEMMA FetchIsExact ==
  ASSUME ClusterInv, restarts = 0, NEW e \in Engines, op[e].pc = "get_fetch"
  PROVE  GetBytes(op[e].worker, op[e].key, op[e].generation).put_id \in {0, op[e].put_id}
<1>1. PICK t \in tickets : /\ t.put_id = op[e].put_id /\ t.key = op[e].key
                           /\ t.generation = op[e].generation /\ t.worker_id = op[e].worker
  BY DEF ClusterInv, OpsPlaced, OpPlaced, Placed
<1>2. t.worker_id \in Workers
  BY DEF ClusterInv, CoreInv, MasterTypeOK, Ticket
<1> QED
  BY <1>1, <1>2, SlotHoldsItsPut DEF ClusterInv, OneLife, HasBytes

(* Bytes at a generation that was acknowledged are those of an             *)
(* acknowledged put.                                                       *)
LEMMA AckedSlotServesAcked ==
  ASSUME ClusterInv, restarts = 0, NEW w \in Workers, NEW k, NEW g,
         AckedAt(k, g), HasBytes(w, k, g)
  PROVE  /\ GetBytes(w, k, g).put_id \in acked
         /\ <<k, GetBytes(w, k, g).put_id>> \in AckedPuts
<1>1. PICK t \in tickets : t.key = k /\ t.generation = g /\ t.put_id \in acked
  BY DEF AckedAt
<1>2. GetBytes(w, k, g).put_id = t.put_id
  BY <1>1, SlotHoldsItsPut DEF ClusterInv, OneLife
<1> QED
  BY <1>1, <1>2 DEF AckedPuts

(* Type correctness of the whole cluster, with every counter in bounds.    *)
THEOREM ClusterTypeCorrect == ClusterSpec => []ClusterTypeOK
<1>1. ClusterInv => ClusterTypeOK
  <2> SUFFICES ASSUME ClusterInv PROVE ClusterTypeOK
    OBVIOUS
  <2>1. /\ MasterTypeOK /\ NodeTypeOK /\ agent \in [Workers -> 0..MaxEpoch]
    BY DEF ClusterInv, CoreInv, ShapeInv
  <2>2. \A e \in Engines : op[e] \in OpRecord
    BY DEF ClusterInv, ShapeInv
  <2>3. ASSUME NEW m \in wire PROVE m.from \in Engines /\ m.bytes.put_id \in 1..MaxPuts
    <3>1. m.from \in Engines
      BY DEF ClusterInv, ShapeInv, Message
    <3>2. PICK t \in tickets : t.put_id = m.bytes.put_id
      BY DEF ClusterInv, WirePlaced, MessagePlaced, Placed
    <3>3. t.put_id \in 1..puts /\ puts \in Nat /\ puts <= MaxPuts /\ MaxPuts \in Nat
      BY MasterAssumption DEF ClusterInv, CoreInv, TicketsIssued, MasterTypeOK, BoundsInv
    <3> QED
      BY <3>1, <3>2, <3>3
  <2> QED
    BY <2>1, <2>2, <2>3 DEF ClusterTypeOK, OpRecord
<1> QED
  BY <1>1, ClusterInvariance, PTL

(* A worker's used_bytes is the bytes its store holds, never more than its *)
(* capacity.                                                               *)
THEOREM StoresAreExact == ClusterSpec => []StoreUsedExact
<1>1. ClusterInv => StoreUsedExact
  BY DEF ClusterInv
<1> QED
  BY <1>1, ClusterInvariance, PTL

(* No put is acknowledged twice, or after a newer put of its key, even     *)
(* when the Master restarts in between: I3 and I4 of master.rs need only   *)
(* that put_ids are fresh.                                                 *)
THEOREM CommitOnceAcrossRestarts == ClusterSpec => AckedOnceAndNewest
<1> DEFINE Ok == \A t \in tickets : PutCommit(t) => CommitIsFresh(t)
<1>1. ClusterInv /\ [ClusterNext]_clusterVars => [Ok]_masterVars
  BY CommitsAreFresh DEF ClusterInv
<1>2. ClusterSpec => [][Ok]_masterVars
  BY <1>1, ClusterInvariance, PTL DEF ClusterSpec
<1> QED
  BY <1>2 DEF AckedOnceAndNewest, CommitIsFresh

(* A fetch on a routed generation is exact or a miss, as long as the       *)
(* Master has not restarted.                                               *)
THEOREM FetchesAreExact == ClusterSpec => [](restarts = 0 => FetchIsExactOrMiss)
<1>1. ClusterInv => (restarts = 0 => FetchIsExactOrMiss)
  BY FetchIsExact DEF FetchIsExactOrMiss
<1> QED
  BY <1>1, ClusterInvariance, PTL

(* The committed index never leads to bytes of a put that was not          *)
(* acknowledged, as long as the Master has not restarted.                  *)
THEOREM IndexIsCommitted == ClusterSpec => [](restarts = 0 => IndexNeverServesStaged)
<1>1. ClusterInv => (restarts = 0 => IndexNeverServesStaged)
  BY AckedSlotServesAcked DEF IndexNeverServesStaged, ClusterInv, IndexAcked
<1> QED
  BY <1>1, ClusterInvariance, PTL

(* What the Master routes to a live incarnation is there, unless it was    *)
(* deleted, as long as the Master has not restarted.                       *)
THEOREM RoutesAreServed == ClusterSpec => [](restarts = 0 => RouteServes)
<1>1. ClusterInv => (restarts = 0 => RouteServes)
  <2> SUFFICES ASSUME ClusterInv, restarts = 0, NEW k \in Keys, HasRoute(k),
                      agent[objects[k].worker_id] = objects[k].worker_epoch,
                      objects[k].put_id \notin deleted
               PROVE  GetBytes(objects[k].worker_id, k, objects[k].generation).put_id
                        = objects[k].put_id
    BY DEF RouteServes
  <2>1. objects[k].state = "Complete" /\ objects[k].put_id \in acked
    BY DEF HasRoute, ClusterInv, CoreInv, AckedMatchesState
  <2>2. PICK t \in tickets : IsTicketOf(t, k)
    BY <2>1 DEF ClusterInv, CoreInv, ObjectsHaveTickets
  <2>3. MustHold(t)
    BY <2>1, <2>2 DEF IsTicketOf, MustHold
  <2> QED
    BY <2>2, <2>3 DEF ClusterInv, OneLife, Landed, IsTicketOf
<1> QED
  BY <1>1, ClusterInvariance, PTL

-----------------------------------------------------------------------------
(* The refinement: every step of the cluster commits one put, answers one  *)
(* get_object with a committed put of its key or a miss, or changes        *)
(* neither.                                                                *)

LEMMA InitOfContract == ClusterInit => Contract!Init
BY DEF ClusterInit, MasterInit, AckedPuts, Contract!Init

(* Only an accepted commit adds to the acknowledged puts.                  *)
LEMMA AckedPutsGrow ==
  ASSUME ClusterInv, [MasterNext]_masterVars
  PROVE  \/ AckedPuts' = AckedPuts
         \/ \E k \in Keys, p \in 1..MaxPuts : AckedPuts' = AckedPuts \cup {<<k, p>>}
<1>1. CASE UNCHANGED <<tickets, acked>>
  BY <1>1 DEF AckedPuts
<1>2. ASSUME NEW k \in Keys, NEW s \in Sizes, NEW p, NEW w \in Workers, PutStart(k, s, p, w)
      PROVE  AckedPuts' = AckedPuts
  <2>1. NewTicket(k, s, w).put_id \notin acked
    BY DEF NewTicket, ClusterInv, CoreInv, MasterTypeOK, AckedMatchesState
  <2> QED
    BY <1>2, <2>1 DEF PutStart, AckedPuts
<1>3. ASSUME NEW t \in tickets, PutCommit(t)
      PROVE  /\ t.key \in Keys /\ t.put_id \in 1..MaxPuts
             /\ AckedPuts' = AckedPuts \cup {<<t.key, t.put_id>>}
  <2>1. t \in Ticket /\ t.put_id \in 1..puts /\ puts \in Nat /\ puts <= MaxPuts /\ MaxPuts \in Nat
    BY MasterAssumption DEF ClusterInv, CoreInv, MasterTypeOK, TicketsIssued, BoundsInv
  <2>2. \A u \in tickets : u.put_id = t.put_id => u = t
    BY DEF ClusterInv, CoreInv, PutIdsUnique
  <2>3. tickets' = tickets /\ acked' = acked \cup {t.put_id}
    BY <1>3 DEF PutCommit
  <2> QED
    BY <2>1, <2>2, <2>3 DEF AckedPuts, Ticket
<1> QED
  BY <1>1, <1>2, <1>3 DEF MasterNext, masterVars, RegisterWorker, Heartbeat, MarkWorkerDead,
     PutStartRejected, GetRoute, SetClock

(* An answer is bytes of an acknowledged put of the key, or a miss.        *)
LEMMA AnswersAreCommitted ==
  ASSUME ClusterInv, restarts = 0, NEW e \in Engines,
         GetLocal(e) \/ GetRouteNone(e) \/ GetFetch(e)
  PROVE  \/ UNCHANGED answer
         \/ \E a \in AckedPuts \cup {Miss} : answer' = [answer EXCEPT ![e] = a]
<1>1. CASE GetLocal(e)
  <2>1. AckedAt(op[e].key, op[e].generation) /\ op[e].worker \in Workers
    BY <1>1 DEF GetLocal, ClusterInv, OpsPlaced, OpPlaced
  <2> QED
    BY <1>1, <2>1, AckedSlotServesAcked DEF GetLocal, HasBytes
<1>2. CASE GetRouteNone(e)
  BY <1>2 DEF GetRouteNone
<1>3. CASE GetFetch(e)
  <2>1. /\ Placed(op[e].put_id, op[e].key, op[e].generation, op[e].worker)
        /\ op[e].put_id \in acked
        /\ op[e].pc = "get_fetch"
    BY <1>3 DEF GetFetch, ClusterInv, OpsPlaced, OpPlaced
  <2>2. <<op[e].key, op[e].put_id>> \in AckedPuts
    BY <2>1 DEF Placed, AckedPuts
  <2>3. GetBytes(op[e].worker, op[e].key, op[e].generation).put_id \in {0, op[e].put_id}
    BY <2>1, FetchIsExact
  <2> QED
    BY <1>3, <2>2, <2>3 DEF GetFetch
<1> QED
  BY <1>1, <1>2, <1>3

LEMMA StepOfContract ==
  ASSUME ClusterInv, restarts = 0, [ClusterNext]_clusterVars, ~MasterRestarts
  PROVE  [Contract!Next]_<<AckedPuts, answer>>
<1>1. CASE \E e \in Engines : GetLocal(e) \/ GetRouteNone(e) \/ GetFetch(e)
  <2>1. PICK e \in Engines : GetLocal(e) \/ GetRouteNone(e) \/ GetFetch(e)
    BY <1>1
  <2>2. AckedPuts' = AckedPuts
    BY <2>1 DEF GetLocal, GetRouteNone, GetFetch, masterVars, AckedPuts
  <2>3. \/ UNCHANGED answer
        \/ \E a \in AckedPuts \cup {Miss} : answer' = [answer EXCEPT ![e] = a]
    BY <2>1, AnswersAreCommitted
  <2> QED
    BY <2>2, <2>3 DEF Contract!Next, Contract!Answer
<1>2. CASE UNCHANGED answer
  <2>1. [MasterNext]_masterVars
    BY StepOfMaster
  <2>2. \/ AckedPuts' = AckedPuts
        \/ \E k \in Keys, p \in 1..MaxPuts : AckedPuts' = AckedPuts \cup {<<k, p>>}
    BY <2>1, AckedPutsGrow
  <2> QED
    BY <1>2, <2>2 DEF Contract!Next, Contract!Commit
<1> QED
  BY <1>1, <1>2 DEF ClusterNext, clusterVars, EngineStep, GetStart, GetRouteFound,
     PutStartCall, PutStartFails, PutWriteLocal, PutWriteSend, PutCommitCall, PutCommitFails,
     Mark, OpFails, DeliverWrite, LoseWrite, WorkerStep, WorkerRegisters, WorkerHeartbeats,
     HeartbeatFails, WorkerCrashes, OperatorDeletes, ClockMoves

(* The cluster implements the object store its engines rely on, while one  *)
(* Master lives.                                                           *)
THEOREM Implementation ==
  ClusterSpec /\ [](restarts = 0) => ImplementsObjectStore
<1>1. ClusterInv /\ restarts = 0 /\ (restarts = 0)' /\ [ClusterNext]_clusterVars
        => [Contract!Next]_<<AckedPuts, answer>>
  BY StepOfContract DEF MasterRestarts
<1> QED
  BY <1>1, InitOfContract, ClusterInvariance, PTL
     DEF ClusterSpec, ImplementsObjectStore, Contract!Spec
=============================================================================
