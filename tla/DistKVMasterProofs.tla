------------------------- MODULE DistKVMasterProofs -------------------------
(***************************************************************************)
(* Proofs about the Master, for any sets of workers, keys, sizes and       *)
(* capacities and any bounds.                                              *)
(*                                                                         *)
(* The inductive invariant has two parts.  CoreInv is what a Master that   *)
(* restarts with empty tables still keeps, because put_ids are never       *)
(* issued twice: module DistKVClusterProofs uses it across restarts.       *)
(* SlotInv is about generations, which start over in a new Master; it      *)
(* holds as long as one Master lives.                                      *)
(***************************************************************************)
EXTENDS DistKVMaster, FoldTheorems, TLAPS

(* Every ticket's put_id has been issued, and to no other ticket.          *)
TicketsIssued == \A t \in tickets : t.put_id \in 1..puts

PutIdsUnique == \A t, u \in tickets : t.put_id = u.put_id => t = u

(* The object of a key is the placement that its ticket describes.         *)
IsTicketOf(t, k) ==
  /\ t.key = k
  /\ t.put_id = objects[k].put_id
  /\ t.generation = objects[k].generation
  /\ t.worker_id = objects[k].worker_id
  /\ t.worker_epoch = objects[k].worker_epoch

ObjectsHaveTickets ==
  \A k \in Keys : objects[k].state # "Absent" => \E t \in tickets : IsTicketOf(t, k)

(* An object the Master knows is that of the newest put of its key.        *)
ObjectsAreNewest ==
  \A k \in Keys : objects[k].state # "Absent" =>
    \A t \in tickets : t.key = k => t.put_id <= objects[k].put_id

AckedMatchesState ==
  /\ acked \subseteq 1..puts
  /\ \A k \in Keys : /\ objects[k].state = "Writing" => objects[k].put_id \notin acked
                     /\ objects[k].state = "Complete" => objects[k].put_id \in acked

RoutedNotNewer == \A k \in Keys : routed[k] <= objects[k].generation

CoreInv ==
  /\ MasterTypeOK
  /\ UsedWithinCapacity
  /\ TicketsIssued
  /\ PutIdsUnique
  /\ ObjectsHaveTickets
  /\ ObjectsAreNewest
  /\ AckedMatchesState
  /\ RoutedNotNewer

(* No ticket has a generation its object has not reached, and no two       *)
(* tickets of a key share one.                                             *)
SlotInv ==
  /\ \A t \in tickets : t.generation <= objects[t.key].generation
  /\ \A t, u \in tickets : t.key = u.key /\ t.generation = u.generation => t = u

-----------------------------------------------------------------------------
(* Saturating subtraction of naturals is a natural no larger than what it  *)
(* starts from.                                                            *)
LEMMA SaturatingSubBound ==
  ASSUME NEW a \in Nat, NEW b \in Nat
  PROVE  SaturatingSub(a, b) \in Nat /\ SaturatingSub(a, b) <= a
BY DEF SaturatingSub

(* The release at the head of put_start keeps the workers' records well    *)
(* typed, lowers no capacity or epoch and raises no used_bytes.            *)
LEMMA ReleasedShape ==
  ASSUME MasterTypeOK, NEW k \in Keys
  PROVE  /\ Released(k) \in [Workers -> WorkerMeta]
         /\ \A w \in Workers :
              /\ Released(k)[w].used_bytes <= workers[w].used_bytes
              /\ Released(k)[w].capacity_bytes = workers[w].capacity_bytes
              /\ Released(k)[w].epoch = workers[w].epoch
<1>1. objects[k].size_bytes \in Nat
  BY DEF MasterTypeOK, ObjectMeta
<1> SUFFICES ASSUME NEW w \in Workers
             PROVE  /\ Released(k)[w] \in WorkerMeta
                    /\ Released(k)[w].used_bytes <= workers[w].used_bytes
                    /\ Released(k)[w].capacity_bytes = workers[w].capacity_bytes
                    /\ Released(k)[w].epoch = workers[w].epoch
  BY DEF Released
<1>2. workers[w] \in WorkerMeta
  BY DEF MasterTypeOK
<1>3. workers[w].used_bytes \in Nat
  BY <1>2 DEF WorkerMeta
<1> DEFINE less == SaturatingSub(workers[w].used_bytes, objects[k].size_bytes)
<1>4. less \in Nat /\ less <= workers[w].used_bytes
  BY <1>1, <1>3, SaturatingSubBound
<1>5. Released(k)[w] = [workers[w] EXCEPT !.used_bytes = less]
      \/ Released(k)[w] = workers[w]
  BY DEF Released
<1> HIDE DEF less
<1> QED
  BY <1>2, <1>3, <1>4, <1>5 DEF WorkerMeta

(* A worker chosen by put_start has room for the object.                   *)
LEMMA CandidateFits ==
  ASSUME NEW ws, NEW size, NEW preferred, NEW w \in Candidates(ws, size, preferred)
  PROVE  w \in Workers /\ FreeBytes(ws[w]) >= size
BY DEF Candidates, Fits
-----------------------------------------------------------------------------
(* Initially nothing is registered, stored or issued.                      *)
LEMMA InitInv == MasterInit => CoreInv
<1> SUFFICES ASSUME MasterInit PROVE CoreInv
  OBVIOUS
<1> USE DEF MasterInit
<1>1. MasterTypeOK
  BY MasterAssumption
     DEF MasterTypeOK, WorkerMeta, ObjectMeta, UnknownWorker, AbsentObject
<1>2. UsedWithinCapacity
  BY DEF UsedWithinCapacity, UnknownWorker
<1>3. TicketsIssued /\ PutIdsUnique
  BY DEF TicketsIssued, PutIdsUnique
<1>4. ObjectsHaveTickets /\ ObjectsAreNewest
  BY DEF ObjectsHaveTickets, ObjectsAreNewest, AbsentObject
<1>5. AckedMatchesState
  BY DEF AckedMatchesState, AbsentObject
<1>6. RoutedNotNewer
  BY DEF RoutedNotNewer, AbsentObject
<1> QED
  BY <1>1, <1>2, <1>3, <1>4, <1>5, <1>6 DEF CoreInv

(* A step that changes only workers keeps the invariant when it keeps the  *)
(* workers well typed and within capacity.                                 *)
LEMMA WorkersOnly ==
  ASSUME CoreInv,
         UNCHANGED <<objects, puts, tickets, acked, routed>>,
         now' \in Nat, stray' \subseteq Keys, misfreed' \in BOOLEAN,
         workers' \in [Workers -> WorkerMeta],
         UsedWithinCapacity'
  PROVE  CoreInv'
<1>1. MasterTypeOK'
  BY DEF CoreInv, MasterTypeOK
<1>2. TicketsIssued' /\ PutIdsUnique' /\ ObjectsHaveTickets' /\ ObjectsAreNewest'
  BY DEF CoreInv, TicketsIssued, PutIdsUnique, ObjectsHaveTickets, ObjectsAreNewest,
         IsTicketOf
<1>3. AckedMatchesState' /\ RoutedNotNewer'
  BY DEF CoreInv, AckedMatchesState, RoutedNotNewer
<1> QED
  BY <1>1, <1>2, <1>3 DEF CoreInv

LEMMA RegisterWorkerInv ==
  ASSUME CoreInv, NEW w \in Workers, NEW c \in Capacities, RegisterWorker(w, c)
  PROVE  CoreInv'
<1>1. c \in Nat /\ now \in Nat /\ workers \in [Workers -> WorkerMeta]
  BY MasterAssumption DEF CoreInv, MasterTypeOK
<1>2. workers' \in [Workers -> WorkerMeta]
  BY <1>1 DEF RegisterWorker, WorkerMeta
<1>3. UsedWithinCapacity'
  BY <1>1 DEF CoreInv, UsedWithinCapacity, RegisterWorker, WorkerMeta
<1> QED
  BY <1>2, <1>3, WorkersOnly DEF RegisterWorker, CoreInv, MasterTypeOK

LEMMA HeartbeatInv ==
  ASSUME CoreInv, NEW w \in Workers, NEW e \in 1..MaxEpoch, Heartbeat(w, e)
  PROVE  CoreInv'
<1>1. now \in Nat /\ workers \in [Workers -> WorkerMeta]
  BY DEF CoreInv, MasterTypeOK
<1>2. workers' \in [Workers -> WorkerMeta]
  BY <1>1 DEF Heartbeat, WorkerMeta
<1>3. UsedWithinCapacity'
  BY <1>1 DEF CoreInv, UsedWithinCapacity, Heartbeat, WorkerMeta
<1> QED
  BY <1>2, <1>3, WorkersOnly DEF Heartbeat, CoreInv, MasterTypeOK

LEMMA MarkWorkerDeadInv ==
  ASSUME CoreInv, NEW w \in Workers, MarkWorkerDead(w)
  PROVE  CoreInv'
<1>1. workers \in [Workers -> WorkerMeta]
  BY DEF CoreInv, MasterTypeOK
<1>2. workers' \in [Workers -> WorkerMeta]
  BY <1>1 DEF MarkWorkerDead, WorkerMeta
<1>3. UsedWithinCapacity'
  BY <1>1 DEF CoreInv, UsedWithinCapacity, MarkWorkerDead, WorkerMeta
<1> QED
  BY <1>2, <1>3, WorkersOnly DEF MarkWorkerDead, CoreInv, MasterTypeOK

LEMMA PutStartRejectedInv ==
  ASSUME CoreInv, NEW k \in Keys, NEW s, NEW p, PutStartRejected(k, s, p)
  PROVE  CoreInv'
<1>1. MasterTypeOK
  BY DEF CoreInv
<1>2. workers' \in [Workers -> WorkerMeta]
  BY <1>1, ReleasedShape DEF PutStartRejected
<1>3. UsedWithinCapacity'
  <2> SUFFICES ASSUME NEW w \in Workers
               PROVE  workers'[w].used_bytes <= workers'[w].capacity_bytes
    BY DEF UsedWithinCapacity
  <2>1. workers[w] \in WorkerMeta /\ workers'[w] \in WorkerMeta
    BY <1>1, <1>2 DEF MasterTypeOK
  <2>2. /\ workers'[w].used_bytes <= workers[w].used_bytes
        /\ workers'[w].capacity_bytes = workers[w].capacity_bytes
    BY <1>1, ReleasedShape DEF PutStartRejected
  <2>3. workers[w].used_bytes <= workers[w].capacity_bytes
    BY DEF CoreInv, UsedWithinCapacity
  <2> QED
    BY <2>1, <2>2, <2>3 DEF WorkerMeta
<1>4. stray' \subseteq Keys /\ misfreed' \in BOOLEAN
  <2>1. stray' \subseteq Keys
    BY <1>1 DEF PutStartRejected, MasterTypeOK
  <2>2. misfreed' \in BOOLEAN
    BY DEF PutStartRejected
  <2> QED
    BY <2>1, <2>2
<1> QED
  BY <1>2, <1>3, <1>4, WorkersOnly DEF PutStartRejected, CoreInv, MasterTypeOK
(* put_start adds one ticket, newer than all others of its key, and makes  *)
(* the object its image; the chosen worker had room for it.                *)
LEMMA PutStartInv ==
  ASSUME CoreInv, NEW k \in Keys, NEW s \in Sizes, NEW p, NEW w \in Workers,
         PutStart(k, s, p, w)
  PROVE  CoreInv'
<1>0. PICK new : new = NewTicket(k, s, w)
  OBVIOUS
<1>1. /\ MasterTypeOK /\ s \in Nat /\ puts \in Nat
      /\ objects[k] \in ObjectMeta /\ workers[w] \in WorkerMeta
  BY MasterAssumption DEF CoreInv, MasterTypeOK
<1>2. /\ tickets' = tickets \cup {new}
      /\ puts' = puts + 1
      /\ UNCHANGED <<now, acked, routed>>
  BY <1>0 DEF PutStart
<1>3. objects' = [objects EXCEPT ![k] =
        [generation |-> objects[k].generation + 1, state |-> "Writing",
         put_id |-> puts + 1, size_bytes |-> s, worker_id |-> w,
         worker_epoch |-> workers[w].epoch, reserved |-> TRUE]]
  BY DEF PutStart, NextGeneration
<1>4. new = [key |-> k, put_id |-> puts + 1, generation |-> objects[k].generation + 1,
             worker_id |-> w, worker_epoch |-> workers[w].epoch, size_bytes |-> s]
  BY <1>0 DEF NewTicket, NextGeneration
<1>5. /\ Released(k) \in [Workers -> WorkerMeta]
      /\ \A v \in Workers : /\ Released(k)[v].used_bytes <= workers[v].used_bytes
                            /\ Released(k)[v].capacity_bytes = workers[v].capacity_bytes
  BY <1>1, ReleasedShape
<1>6. workers' = [Released(k) EXCEPT ![w].used_bytes = @ + s]
  BY DEF PutStart
<1>7. FreeBytes(Released(k)[w]) >= s
  BY CandidateFits DEF PutStart
<1>8. workers' \in [Workers -> WorkerMeta]
  BY <1>1, <1>5, <1>6 DEF WorkerMeta
<1>9. UsedWithinCapacity'
  <2> SUFFICES ASSUME NEW v \in Workers
               PROVE  workers'[v].used_bytes <= workers'[v].capacity_bytes
    BY DEF UsedWithinCapacity
  <2>1. Released(k)[v] \in WorkerMeta /\ workers[v] \in WorkerMeta
    BY <1>1, <1>5 DEF MasterTypeOK
  <2>2. Released(k)[v].used_bytes <= Released(k)[v].capacity_bytes
    BY <1>5, <2>1 DEF CoreInv, UsedWithinCapacity, WorkerMeta
  <2>3. CASE v = w
    <3>1. Released(k)[w].used_bytes + s <= Released(k)[w].capacity_bytes
      BY <1>1, <1>7, <2>1, <2>2, <2>3 DEF FreeBytes, SaturatingSub, WorkerMeta
    <3> QED
      BY <1>5, <1>6, <2>1, <2>3, <3>1 DEF WorkerMeta
  <2>4. CASE v # w
    BY <1>5, <1>6, <2>2, <2>4
  <2> QED
    BY <2>3, <2>4
<1>10. MasterTypeOK'
  <2>1. objects' \in [Keys -> ObjectMeta]
    BY <1>1, <1>3 DEF MasterTypeOK, ObjectMeta, WorkerMeta
  <2>2. new \in Ticket
    BY <1>1, <1>4 DEF Ticket, ObjectMeta, WorkerMeta
  <2>3. stray' \subseteq Keys
    BY <1>1 DEF PutStart, MasterTypeOK
  <2>4. misfreed' \in BOOLEAN
    BY DEF PutStart
  <2> QED
    BY <1>1, <1>2, <1>8, <2>1, <2>2, <2>3, <2>4 DEF MasterTypeOK
<1>11. \A t \in tickets : t \in Ticket /\ objects[t.key] \in ObjectMeta
  BY <1>1 DEF MasterTypeOK, Ticket
<1>12. TicketsIssued' /\ PutIdsUnique'
  <2>1. \A t \in tickets : t.put_id \in 1..puts /\ t.put_id # new.put_id
    BY <1>1, <1>4 DEF CoreInv, TicketsIssued
  <2> QED
    BY <1>1, <1>2, <1>4, <2>1 DEF CoreInv, TicketsIssued, PutIdsUnique
<1>13. ObjectsAreNewest'
  <2> SUFFICES ASSUME NEW j \in Keys, objects'[j].state # "Absent",
                      NEW t \in tickets', t.key = j
               PROVE  t.put_id <= objects'[j].put_id
    BY DEF ObjectsAreNewest
  <2>1. CASE j = k
    <3>1. objects'[j].put_id = puts + 1
      BY <1>1, <1>3, <2>1 DEF MasterTypeOK
    <3>2. t.put_id \in 1 .. puts + 1
      BY <1>1, <1>2, <1>12 DEF TicketsIssued
    <3> QED
      BY <1>1, <3>1, <3>2
  <2>2. CASE j # k
    <3>1. objects'[j] = objects[j]
      BY <1>1, <1>3, <2>2 DEF MasterTypeOK
    <3>2. t \in tickets
      BY <1>2, <1>4, <2>2
    <3> QED
      BY <3>1, <3>2 DEF CoreInv, ObjectsAreNewest
  <2> QED
    BY <2>1, <2>2
<1>14. ObjectsHaveTickets'
  <2> SUFFICES ASSUME NEW j \in Keys, objects'[j].state # "Absent"
               PROVE  \E t \in tickets' : IsTicketOf(t, j)'
    BY DEF ObjectsHaveTickets
  <2>1. CASE j = k
    <3>1. IsTicketOf(new, k)'
      BY <1>1, <1>3, <1>4 DEF IsTicketOf, MasterTypeOK
    <3> QED
      BY <1>2, <2>1, <3>1
  <2>2. CASE j # k
    <3>1. objects'[j] = objects[j]
      BY <1>1, <1>3, <2>2 DEF MasterTypeOK
    <3>2. PICK t \in tickets : IsTicketOf(t, j)
      BY <3>1 DEF CoreInv, ObjectsHaveTickets
    <3>3. IsTicketOf(t, j)'
      BY <3>1, <3>2 DEF IsTicketOf
    <3> QED
      BY <1>2, <3>3
  <2> QED
    BY <2>1, <2>2
<1>15. AckedMatchesState'
  <2>1. acked' \subseteq 1..puts' /\ puts + 1 \notin acked'
    BY <1>1, <1>2 DEF CoreInv, AckedMatchesState
  <2>2. objects'[k].state = "Writing" /\ objects'[k].put_id = puts + 1
    BY <1>1, <1>3 DEF MasterTypeOK
  <2>3. \A j \in Keys : j # k => objects'[j] = objects[j]
    BY <1>1, <1>3 DEF MasterTypeOK
  <2> QED
    BY <1>2, <2>1, <2>2, <2>3 DEF CoreInv, AckedMatchesState
<1>16. RoutedNotNewer'
  <2>1. routed \in [Keys -> Nat] /\ objects \in [Keys -> ObjectMeta]
    BY <1>1 DEF MasterTypeOK
  <2> QED
    BY <1>2, <1>3, <2>1 DEF CoreInv, RoutedNotNewer, ObjectMeta
<1> QED
  BY <1>9, <1>10, <1>12, <1>13, <1>14, <1>15, <1>16 DEF CoreInv

(* A commit that is accepted is that of the object's own ticket, so the    *)
(* put_id it acknowledges belongs to no other Writing object.              *)
LEMMA PutCommitInv ==
  ASSUME CoreInv, NEW t \in tickets, PutCommit(t)
  PROVE  CoreInv'
<1>1. /\ MasterTypeOK /\ t \in Ticket /\ t.key \in Keys
      /\ objects \in [Keys -> ObjectMeta]
      /\ objects' = [objects EXCEPT ![t.key].state = "Complete"]
      /\ acked' = acked \cup {t.put_id}
      /\ objects[t.key].state = "Writing"
      /\ objects[t.key].put_id = t.put_id
      /\ UNCHANGED <<now, workers, puts, tickets, routed, stray, misfreed>>
  BY DEF CoreInv, MasterTypeOK, Ticket, PutCommit
<1>2. MasterTypeOK'
  <2>1. objects' \in [Keys -> ObjectMeta]
    BY <1>1 DEF ObjectMeta
  <2>2. acked' \subseteq Nat
    BY <1>1 DEF MasterTypeOK, Ticket
  <2> QED
    BY <1>1, <2>1, <2>2 DEF MasterTypeOK
<1>3. \A k \in Keys : /\ objects'[k].put_id = objects[k].put_id
                      /\ objects'[k].generation = objects[k].generation
                      /\ objects'[k].worker_id = objects[k].worker_id
                      /\ objects'[k].worker_epoch = objects[k].worker_epoch
                      /\ k # t.key => objects'[k].state = objects[k].state
  BY <1>1 DEF ObjectMeta
<1>4. UsedWithinCapacity' /\ TicketsIssued' /\ PutIdsUnique'
  BY <1>1 DEF CoreInv, UsedWithinCapacity, TicketsIssued, PutIdsUnique
<1>5. ObjectsAreNewest'
  BY <1>1, <1>3 DEF CoreInv, ObjectsAreNewest
<1>6. ObjectsHaveTickets'
  <2> SUFFICES ASSUME NEW k \in Keys, objects'[k].state # "Absent"
               PROVE  \E u \in tickets' : IsTicketOf(u, k)'
    BY DEF ObjectsHaveTickets
  <2>1. objects[k].state # "Absent"
    BY <1>1, <1>3
  <2>2. PICK u \in tickets : IsTicketOf(u, k)
    BY <2>1 DEF CoreInv, ObjectsHaveTickets
  <2>3. IsTicketOf(u, k)'
    BY <1>1, <1>3, <2>2 DEF IsTicketOf
  <2> QED
    BY <1>1, <2>3
<1>7. AckedMatchesState'
  <2>1. acked' \subseteq 1..puts'
    BY <1>1 DEF CoreInv, AckedMatchesState, TicketsIssued
  <2>2. objects'[t.key].state = "Complete" /\ objects'[t.key].put_id \in acked'
    BY <1>1, <1>3
  <2>3. ASSUME NEW k \in Keys, k # t.key
        PROVE  /\ objects'[k].state = "Writing" => objects'[k].put_id \notin acked'
               /\ objects'[k].state = "Complete" => objects'[k].put_id \in acked'
    <3>1. /\ objects[k].state = "Writing" => objects[k].put_id \notin acked
          /\ objects[k].state = "Complete" => objects[k].put_id \in acked
      BY DEF CoreInv, AckedMatchesState
    <3>2. objects[k].state = "Writing" => objects[k].put_id # t.put_id
      <4> SUFFICES ASSUME objects[k].state = "Writing" PROVE objects[k].put_id # t.put_id
        OBVIOUS
      <4>1. PICK u \in tickets : IsTicketOf(u, k)
        BY DEF CoreInv, ObjectsHaveTickets
      <4>2. u # t
        BY <4>1, <2>3 DEF IsTicketOf
      <4>3. u.put_id # t.put_id
        BY <4>2 DEF CoreInv, PutIdsUnique
      <4> QED
        BY <4>1, <4>3 DEF IsTicketOf
    <3> QED
      BY <1>1, <1>3, <2>3, <3>1, <3>2
  <2> QED
    BY <2>1, <2>2, <2>3 DEF AckedMatchesState
<1>8. RoutedNotNewer'
  BY <1>1, <1>3 DEF CoreInv, RoutedNotNewer
<1> QED
  BY <1>2, <1>4, <1>5, <1>6, <1>7, <1>8 DEF CoreInv

LEMMA GetRouteInv ==
  ASSUME CoreInv, NEW k \in Keys, GetRoute(k)
  PROVE  CoreInv'
<1>1. MasterTypeOK'
  BY DEF CoreInv, MasterTypeOK, ObjectMeta, GetRoute
<1>2. UsedWithinCapacity' /\ TicketsIssued' /\ PutIdsUnique' /\ ObjectsHaveTickets'
      /\ ObjectsAreNewest'
  BY DEF GetRoute, CoreInv, UsedWithinCapacity, TicketsIssued, PutIdsUnique,
         ObjectsHaveTickets, ObjectsAreNewest, IsTicketOf
<1>3. AckedMatchesState'
  BY DEF GetRoute, CoreInv, AckedMatchesState
<1>4. RoutedNotNewer'
  BY DEF GetRoute, CoreInv, MasterTypeOK, ObjectMeta, RoutedNotNewer
<1> QED
  BY <1>1, <1>2, <1>3, <1>4 DEF CoreInv

LEMMA SetClockInv ==
  ASSUME CoreInv, NEW t \in 0..MaxNow, SetClock(t)
  PROVE  CoreInv'
<1>1. t \in Nat
  BY MasterAssumption
<1>2. UsedWithinCapacity'
  BY DEF SetClock, CoreInv, UsedWithinCapacity
<1> QED
  BY <1>1, <1>2, WorkersOnly DEF SetClock, CoreInv, MasterTypeOK

LEMMA StutterInv ==
  ASSUME CoreInv, UNCHANGED masterVars
  PROVE  CoreInv'
BY WorkersOnly DEF masterVars, CoreInv, MasterTypeOK, UsedWithinCapacity

(* The inductive step: one case per action of the Master.                  *)
LEMMA NextInv == CoreInv /\ [MasterNext]_masterVars => CoreInv'
<1> SUFFICES ASSUME CoreInv, [MasterNext]_masterVars PROVE CoreInv'
  OBVIOUS
<1>1. CASE \E w \in Workers, c \in Capacities : RegisterWorker(w, c)
  BY <1>1, RegisterWorkerInv
<1>2. CASE \E w \in Workers, e \in 1..MaxEpoch : Heartbeat(w, e)
  BY <1>2, HeartbeatInv
<1>3. CASE \E w \in Workers : MarkWorkerDead(w)
  BY <1>3, MarkWorkerDeadInv
<1>4. CASE \E k \in Keys, s \in Sizes, p \in Workers \cup {NoWorker}, w \in Workers :
             PutStart(k, s, p, w)
  BY <1>4, PutStartInv
<1>5. CASE \E k \in Keys, s \in Sizes, p \in Workers \cup {NoWorker} :
             PutStartRejected(k, s, p)
  BY <1>5, PutStartRejectedInv
<1>6. CASE \E t \in tickets : PutCommit(t)
  BY <1>6, PutCommitInv
<1>7. CASE \E k \in Keys : GetRoute(k)
  BY <1>7, GetRouteInv
<1>8. CASE \E t \in 0..MaxNow : SetClock(t)
  BY <1>8, SetClockInv
<1>9. CASE UNCHANGED masterVars
  BY <1>9, StutterInv
<1> QED
  BY <1>1, <1>2, <1>3, <1>4, <1>5, <1>6, <1>7, <1>8, <1>9 DEF MasterNext
-----------------------------------------------------------------------------
(* The ledger: used_bytes against the sizes of the objects that hold a     *)
(* reservation.                                                            *)
SizesOf(objs) == [k \in Keys |-> objs[k].size_bytes]

(* A reservation was made in an incarnation its worker has registered.     *)
ReservedInPast ==
  \A k \in Keys : objects[k].reserved =>
    /\ objects[k].worker_id \in Workers
    /\ objects[k].worker_epoch \in 1 .. workers[objects[k].worker_id].epoch

LedgerInv == ReservedInPast /\ NoPhantomReservation /\ LedgerExact

(* The sum of sizes with one key set apart.                                *)
LEMMA SizesApart ==
  ASSUME NEW objs \in [Keys -> ObjectMeta], NEW A \in SUBSET Keys, NEW k
  PROVE  /\ SumFunctionOnSet(SizesOf(objs), A \ {k}) \in Nat
         /\ k \in A => SumFunctionOnSet(SizesOf(objs), A) =
                         SumFunctionOnSet(SizesOf(objs), A \ {k}) + objs[k].size_bytes
         /\ k \notin A => SumFunctionOnSet(SizesOf(objs), A) =
                            SumFunctionOnSet(SizesOf(objs), A \ {k})
<1>1. IsFiniteSet(A)
  BY MasterAssumption, FS_Subset
<1>2. \A j \in A : SizesOf(objs)[j] = objs[j].size_bytes /\ objs[j].size_bytes \in Nat
  BY DEF SizesOf, ObjectMeta
<1> DEFINE f == SizesOf(objs)
<1>3. \A j \in A : f[j] \in Nat
  BY <1>2
<1>4. k \in A => f[k] = objs[k].size_bytes
  BY <1>2
<1> HIDE DEF f
<1>5. /\ SumFunctionOnSet(f, A \ {k}) \in Nat
      /\ k \in A => SumFunctionOnSet(f, A) = SumFunctionOnSet(f, A \ {k}) + f[k]
      /\ k \notin A => SumFunctionOnSet(f, A) = SumFunctionOnSet(f, A \ {k})
  BY <1>1, <1>3, SumApart
<1> QED
  BY <1>4, <1>5 DEF f

(* The sizes of objects that do not change add up the same.                *)
LEMMA SizesOfOthers ==
  ASSUME NEW objs, NEW news, NEW A \in SUBSET Keys, \A j \in A : news[j] = objs[j]
  PROVE  SumFunctionOnSet(SizesOf(objs), A) = SumFunctionOnSet(SizesOf(news), A)
<1>1. IsFiniteSet(A)
  BY MasterAssumption, FS_Subset
<1>2. \A j \in A : SizesOf(objs)[j] = SizesOf(news)[j]
  BY DEF SizesOf
<1> QED
  BY <1>1, <1>2, SumOfEquals

(* What a put_start releases from a worker.                                *)
LEMMA ReleasedBytes ==
  ASSUME MasterTypeOK, ReservedInPast, NEW k \in Keys, NEW v \in Workers
  PROVE  Released(k)[v].used_bytes =
           IF objects[k].reserved /\ objects[k].worker_id = v
           THEN SaturatingSub(workers[v].used_bytes, objects[k].size_bytes)
           ELSE workers[v].used_bytes
<1>1. objects[k].reserved /\ objects[k].worker_id = v => workers[v].epoch > 0
  BY DEF MasterTypeOK, ReservedInPast, WorkerMeta
<1>2. workers[v] \in WorkerMeta
  BY DEF MasterTypeOK
<1> QED
  BY <1>1, <1>2 DEF Released, WorkerMeta

LEMMA PutStartLedger ==
  ASSUME MasterTypeOK, MasterTypeOK', LedgerInv,
         NEW k \in Keys, NEW s \in Sizes, NEW p, NEW w \in Workers, PutStart(k, s, p, w)
  PROVE  LedgerInv'
<1>1. /\ objects \in [Keys -> ObjectMeta] /\ objects' \in [Keys -> ObjectMeta]
      /\ workers \in [Workers -> WorkerMeta] /\ workers' \in [Workers -> WorkerMeta]
      /\ s \in Nat
  BY MasterAssumption DEF MasterTypeOK
<1>2. /\ objects'[k].reserved /\ objects'[k].worker_id = w
      /\ objects'[k].worker_epoch = workers[w].epoch /\ objects'[k].size_bytes = s
      /\ \A j \in Keys \ {k} : objects'[j] = objects[j]
  BY <1>1 DEF PutStart
<1>3. workers[w].epoch > 0
  BY <1>1, ReleasedShape DEF PutStart, Candidates, Fits, WorkerIsAlive
<1>4. /\ Released(k) \in [Workers -> WorkerMeta]
      /\ \A v \in Workers : Released(k)[v].epoch = workers[v].epoch
  BY ReleasedShape
<1>5. workers' = [Released(k) EXCEPT ![w].used_bytes = @ + s]
  BY DEF PutStart
<1>6. \A v \in Workers :
        /\ workers'[v].epoch = workers[v].epoch
        /\ workers'[v].used_bytes = Released(k)[v].used_bytes + (IF v = w THEN s ELSE 0)
  BY <1>1, <1>4, <1>5 DEF WorkerMeta
<1>7. ReservedInPast'
  BY <1>1, <1>2, <1>3, <1>6 DEF LedgerInv, ReservedInPast, WorkerMeta
<1>8. \A v \in Workers :
        /\ ReservedOn(v) \in SUBSET Keys /\ ReservedOn(v)' \in SUBSET Keys
        /\ ReservedOn(v) \ {k} = ReservedOn(v)' \ {k}
        /\ k \in ReservedOn(v)' <=> v = w
        /\ k \in ReservedOn(v) => objects[k].reserved /\ objects[k].worker_id = v
  BY <1>2, <1>6 DEF ReservedOn
<1>9. NoPhantomReservation'
  <2> SUFFICES ASSUME NEW v \in Workers
               PROVE  workers'[v].used_bytes <= SizeSum(ReservedOn(v))'
    BY DEF NoPhantomReservation
  <2>1. PICK rest : rest = SumFunctionOnSet(SizesOf(objects), ReservedOn(v) \ {k})
    OBVIOUS
  <2>2. /\ rest \in Nat
        /\ SizeSum(ReservedOn(v)) = rest + (IF k \in ReservedOn(v) THEN objects[k].size_bytes ELSE 0)
    <3>1. SizeSum(ReservedOn(v)) = SumFunctionOnSet(SizesOf(objects), ReservedOn(v))
      BY DEF SizeSum, SizesOf
    <3> QED
      BY <1>1, <1>8, <2>1, <3>1, SizesApart
  <2>3. SizeSum(ReservedOn(v))' = rest + (IF v = w THEN s ELSE 0)
    <3>1. SizeSum(ReservedOn(v))' = SumFunctionOnSet(SizesOf(objects'), ReservedOn(v)')
      BY DEF SizeSum, SizesOf
    <3>2. rest = SumFunctionOnSet(SizesOf(objects'), ReservedOn(v)' \ {k})
      <4>1. ReservedOn(v) \ {k} = ReservedOn(v)' \ {k} /\ ReservedOn(v) \ {k} \in SUBSET Keys
        BY <1>8
      <4>2. \A j \in ReservedOn(v) \ {k} : objects'[j] = objects[j]
        BY <1>2, <4>1
      <4> QED
        BY <2>1, <4>1, <4>2, SizesOfOthers
    <3> QED
      BY <1>1, <1>2, <1>8, <3>1, <3>2, SizesApart
  <2>4. workers[v].used_bytes <= SizeSum(ReservedOn(v))
    BY DEF LedgerInv, NoPhantomReservation
  <2>5. Released(k)[v].used_bytes <= rest
    BY <1>1, <1>8, <2>2, <2>4, ReleasedBytes DEF LedgerInv, SaturatingSub, WorkerMeta, ObjectMeta
  <2> QED
    BY <1>1, <1>4, <1>6, <2>2, <2>3, <2>5 DEF WorkerMeta
<1>10. LedgerExact'
  <2> SUFFICES ASSUME ~misfreed', NEW v \in Workers
               PROVE  workers'[v].used_bytes = SizeSum(ReservedOn(v) \ stray)'
    BY DEF LedgerExact
  <2>1. PICK A : A = ReservedOn(v) \ stray
    OBVIOUS
  <2>2. PICK B : B = ReservedOn(v)' \ stray'
    OBVIOUS
  <2>3. PICK rest : rest = SumFunctionOnSet(SizesOf(objects), A \ {k})
    OBVIOUS
  <2>4. /\ A \in SUBSET Keys /\ B \in SUBSET Keys /\ A \ {k} = B \ {k}
        /\ k \in B <=> v = w
    BY <1>8, <2>1, <2>2 DEF PutStart
  <2>5. ~misfreed /\ ~ReleasesTooMuch(k)
    BY DEF PutStart
  <2>6. k \in A <=> objects[k].reserved /\ objects[k].worker_id = v
    BY <2>1, <2>5 DEF ReleasesTooMuch, ReservedOn
  <2>7. /\ rest \in Nat
        /\ SizeSum(ReservedOn(v) \ stray) = rest + (IF k \in A THEN objects[k].size_bytes ELSE 0)
    <3>1. SizeSum(ReservedOn(v) \ stray) = SumFunctionOnSet(SizesOf(objects), A)
      BY <2>1 DEF SizeSum, SizesOf
    <3> QED
      BY <1>1, <2>3, <2>4, <3>1, SizesApart
  <2>8. SizeSum(ReservedOn(v) \ stray)' = rest + (IF v = w THEN s ELSE 0)
    <3>1. SizeSum(ReservedOn(v) \ stray)' = SumFunctionOnSet(SizesOf(objects'), B)
      BY <2>2 DEF SizeSum, SizesOf
    <3>2. rest = SumFunctionOnSet(SizesOf(objects'), B \ {k})
      <4>1. A \ {k} \in SUBSET Keys /\ \A j \in A \ {k} : objects'[j] = objects[j]
        BY <1>2, <2>4
      <4> QED
        BY <2>3, <2>4, <4>1, SizesOfOthers
    <3> QED
      BY <1>1, <1>2, <2>4, <3>1, <3>2, SizesApart
  <2>9. workers[v].used_bytes = SizeSum(ReservedOn(v) \ stray)
    BY <2>5 DEF LedgerInv, LedgerExact
  <2>10. Released(k)[v].used_bytes = rest
    BY <1>1, <2>6, <2>7, <2>9, ReleasedBytes DEF LedgerInv, SaturatingSub, WorkerMeta, ObjectMeta
  <2> QED
    BY <1>6, <2>7, <2>8, <2>10
<1> QED
  BY <1>7, <1>9, <1>10 DEF LedgerInv

(* A registration starts an epoch no reservation was made in.              *)
LEMMA RegisterWorkerLedger ==
  ASSUME MasterTypeOK, LedgerInv, NEW w \in Workers, NEW c \in Nat, RegisterWorker(w, c)
  PROVE  LedgerInv'
<1>1. /\ objects \in [Keys -> ObjectMeta] /\ workers \in [Workers -> WorkerMeta]
      /\ UNCHANGED <<objects, stray, misfreed>>
      /\ workers'[w].epoch = workers[w].epoch + 1 /\ workers'[w].used_bytes = 0
      /\ \A v \in Workers : v # w => workers'[v] = workers[v]
  BY DEF MasterTypeOK, RegisterWorker
<1>2. ReservedInPast'
  BY <1>1 DEF LedgerInv, ReservedInPast, WorkerMeta
<1>3. ReservedOn(w)' = {}
  BY <1>1 DEF LedgerInv, ReservedInPast, ReservedOn, WorkerMeta, ObjectMeta
<1>4. \A v \in Workers : v # w => ReservedOn(v)' = ReservedOn(v)
  BY <1>1 DEF ReservedOn
<1>5. SumFunctionOnSet(SizesOf(objects), {}) = 0
  BY FS_EmptySet, SumOfZeros
<1>6. NoPhantomReservation'
  <2>1. SizeSum(ReservedOn(w))' = 0
    BY <1>1, <1>3, <1>5 DEF SizeSum, SizesOf
  <2>2. \A v \in Workers : v # w => SizeSum(ReservedOn(v))' = SizeSum(ReservedOn(v))
    BY <1>1, <1>4 DEF SizeSum
  <2> QED
    BY <1>1, <2>1, <2>2 DEF LedgerInv, NoPhantomReservation
<1>7. LedgerExact'
  <2>1. SizeSum(ReservedOn(w) \ stray)' = 0
    <3>1. (ReservedOn(w) \ stray)' = {}
      BY <1>3
    <3> QED
      BY <1>1, <1>5, <3>1 DEF SizeSum, SizesOf
  <2>2. \A v \in Workers : v # w =>
          SizeSum(ReservedOn(v) \ stray)' = SizeSum(ReservedOn(v) \ stray)
    BY <1>1, <1>4 DEF SizeSum
  <2> QED
    BY <1>1, <2>1, <2>2 DEF LedgerInv, LedgerExact
<1> QED
  BY <1>2, <1>6, <1>7 DEF LedgerInv

(* A rejected put_start keeps the objects and lowers one used_bytes.       *)
LEMMA PutStartRejectedLedger ==
  ASSUME MasterTypeOK, LedgerInv, NEW k \in Keys, NEW s, NEW p, PutStartRejected(k, s, p)
  PROVE  LedgerInv'
<1>1. /\ objects \in [Keys -> ObjectMeta] /\ workers \in [Workers -> WorkerMeta]
      /\ objects' = objects /\ workers' = Released(k)
  BY DEF MasterTypeOK, PutStartRejected
<1>2. \A v \in Workers : /\ workers'[v].used_bytes <= workers[v].used_bytes
                          /\ workers'[v].epoch = workers[v].epoch
                          /\ workers'[v].used_bytes \in Nat
  BY <1>1, ReleasedShape DEF WorkerMeta
<1>3. ReservedInPast' /\ \A v \in Workers : ReservedOn(v)' = ReservedOn(v)
  BY <1>1, <1>2 DEF LedgerInv, ReservedInPast, ReservedOn
<1>4. \A v \in Workers : ReservedOn(v) \in SUBSET Keys
  BY DEF ReservedOn
<1>5. NoPhantomReservation'
  <2> SUFFICES ASSUME NEW v \in Workers
               PROVE  workers'[v].used_bytes <= SizeSum(ReservedOn(v))'
    BY DEF NoPhantomReservation
  <2>1. SizeSum(ReservedOn(v))' = SizeSum(ReservedOn(v)) /\ SizeSum(ReservedOn(v)) \in Nat
    <3>1. SizeSum(ReservedOn(v)) = SumFunctionOnSet(SizesOf(objects), ReservedOn(v))
      BY DEF SizeSum, SizesOf
    <3>2. IsFiniteSet(ReservedOn(v))
      BY <1>4, MasterAssumption, FS_Subset
    <3>3. \A j \in ReservedOn(v) : SizesOf(objects)[j] \in Nat
      BY <1>1, <1>4 DEF SizesOf, ObjectMeta
    <3>4. SizeSum(ReservedOn(v)) \in Nat
      BY <3>1, <3>2, <3>3, SumIsNatural
    <3>5. SizeSum(ReservedOn(v))' = SizeSum(ReservedOn(v))
      BY <1>1, <1>3 DEF SizeSum
    <3> QED
      BY <3>4, <3>5
  <2>2. workers[v].used_bytes <= SizeSum(ReservedOn(v)) /\ workers[v].used_bytes \in Nat
    BY <1>1 DEF LedgerInv, NoPhantomReservation, WorkerMeta
  <2> QED
    BY <1>2, <2>1, <2>2
<1>6. LedgerExact'
  <2> SUFFICES ASSUME ~misfreed', NEW v \in Workers
               PROVE  workers'[v].used_bytes = SizeSum(ReservedOn(v) \ stray)'
    BY DEF LedgerExact
  <2>1. ~misfreed /\ ~ReleasesTooMuch(k)
    BY DEF PutStartRejected
  <2>2. PICK A : A = ReservedOn(v) \ stray
    OBVIOUS
  <2>3. k \in A <=> objects[k].reserved /\ objects[k].worker_id = v
    BY <2>1, <2>2 DEF ReleasesTooMuch, ReservedOn
  <2>4. (ReservedOn(v) \ stray)' = A \ {k} /\ A \in SUBSET Keys
    BY <1>3, <1>4, <2>2, <2>3 DEF PutStartRejected
  <2>5. SizeSum(ReservedOn(v) \ stray)' = SumFunctionOnSet(SizesOf(objects), A \ {k})
    BY <1>1, <2>4 DEF SizeSum, SizesOf
  <2>6. workers[v].used_bytes = SumFunctionOnSet(SizesOf(objects), A)
    BY <2>1, <2>2 DEF LedgerInv, LedgerExact, SizeSum, SizesOf
  <2>7. /\ SumFunctionOnSet(SizesOf(objects), A \ {k}) \in Nat
        /\ k \in A => SumFunctionOnSet(SizesOf(objects), A) =
                         SumFunctionOnSet(SizesOf(objects), A \ {k}) + objects[k].size_bytes
        /\ k \notin A => SumFunctionOnSet(SizesOf(objects), A) =
                            SumFunctionOnSet(SizesOf(objects), A \ {k})
    BY <1>1, <2>4, SizesApart
  <2>8. objects[k].size_bytes \in Nat
    BY <1>1 DEF ObjectMeta
  <2> QED
    BY <1>1, <2>3, <2>5, <2>6, <2>7, <2>8, ReleasedBytes DEF LedgerInv, SaturatingSub
<1> QED
  BY <1>3, <1>5, <1>6 DEF LedgerInv

(* The other calls of the Master touch neither side of the ledger.         *)
LEMMA LedgerUntouched ==
  ASSUME LedgerInv, UNCHANGED <<stray, misfreed>>,
         \A v \in Workers : /\ workers'[v].used_bytes = workers[v].used_bytes
                            /\ workers'[v].epoch = workers[v].epoch,
         \A k \in Keys : /\ objects'[k].reserved = objects[k].reserved
                         /\ objects'[k].worker_id = objects[k].worker_id
                         /\ objects'[k].worker_epoch = objects[k].worker_epoch
                         /\ objects'[k].size_bytes = objects[k].size_bytes
  PROVE  LedgerInv'
<1>1. ReservedInPast' /\ \A v \in Workers : ReservedOn(v)' = ReservedOn(v)
  BY DEF LedgerInv, ReservedInPast, ReservedOn
<1>2. [k \in Keys |-> objects'[k].size_bytes] = [k \in Keys |-> objects[k].size_bytes]
  OBVIOUS
<1>3. NoPhantomReservation'
  <2>1. \A v \in Workers : SizeSum(ReservedOn(v))' = SizeSum(ReservedOn(v))
    BY <1>1, <1>2 DEF SizeSum
  <2> QED
    BY <2>1 DEF LedgerInv, NoPhantomReservation
<1>4. LedgerExact'
  <2>1. \A v \in Workers : SizeSum(ReservedOn(v) \ stray)' = SizeSum(ReservedOn(v) \ stray)
    BY <1>1, <1>2 DEF SizeSum
  <2> QED
    BY <2>1 DEF LedgerInv, LedgerExact
<1> QED
  BY <1>1, <1>3, <1>4 DEF LedgerInv

LEMMA LedgerNext ==
  ASSUME CoreInv, CoreInv', LedgerInv, [MasterNext]_masterVars
  PROVE  LedgerInv'
<1>1. MasterTypeOK /\ MasterTypeOK'
  BY DEF CoreInv
<1>2. CASE \E w \in Workers, c \in Capacities : RegisterWorker(w, c)
  BY <1>1, <1>2, RegisterWorkerLedger, MasterAssumption
<1>3. CASE \E k \in Keys, s \in Sizes, p \in Workers \cup {NoWorker}, w \in Workers :
             PutStart(k, s, p, w)
  BY <1>1, <1>3, PutStartLedger
<1>4. CASE \E k \in Keys, s \in Sizes, p \in Workers \cup {NoWorker} :
             PutStartRejected(k, s, p)
  BY <1>1, <1>4, PutStartRejectedLedger
<1>5. CASE \E w \in Workers, e \in 1..MaxEpoch : Heartbeat(w, e)
  BY <1>1, <1>5, LedgerUntouched DEF Heartbeat, MasterTypeOK, WorkerMeta
<1>6. CASE \E w \in Workers : MarkWorkerDead(w)
  BY <1>1, <1>6, LedgerUntouched DEF MarkWorkerDead, MasterTypeOK, WorkerMeta
<1>7. CASE \E t \in tickets : PutCommit(t)
  BY <1>1, <1>7, LedgerUntouched DEF PutCommit, MasterTypeOK, ObjectMeta
<1>8. CASE UNCHANGED <<workers, objects, stray, misfreed>>
  BY <1>8, LedgerUntouched
<1> QED
  BY <1>2, <1>3, <1>4, <1>5, <1>6, <1>7, <1>8 DEF MasterNext, masterVars, GetRoute, SetClock

-----------------------------------------------------------------------------
(* Only put_start issues a generation, and it issues the next one.         *)
LEMMA SlotNext ==
  ASSUME CoreInv, SlotInv, [MasterNext]_masterVars
  PROVE  SlotInv'
<1>1. /\ objects \in [Keys -> ObjectMeta]
      /\ \A t \in tickets : t \in Ticket /\ objects[t.key].generation \in Nat
  BY DEF CoreInv, MasterTypeOK, Ticket, ObjectMeta
<1>2. CASE /\ tickets' = tickets
           /\ \A k \in Keys : objects'[k].generation = objects[k].generation
  BY <1>1, <1>2 DEF SlotInv, Ticket
<1>3. ASSUME NEW k \in Keys, NEW s \in Sizes, NEW p, NEW w \in Workers, PutStart(k, s, p, w)
      PROVE  SlotInv'
  <2>1. PICK new : new = NewTicket(k, s, w)
    OBVIOUS
  <2>2. new.key = k /\ new.generation = objects[k].generation + 1
    BY <2>1 DEF NewTicket, NextGeneration
  <2>3. /\ objects'[k].generation = objects[k].generation + 1
        /\ \A j \in Keys : j # k => objects'[j] = objects[j]
        /\ tickets' = tickets \cup {new}
    BY <1>1, <1>3, <2>1 DEF PutStart, NextGeneration
  <2>4. \A t \in tickets : t.key = k => t.generation # new.generation
    BY <1>1, <2>2 DEF SlotInv, Ticket
  <2>5. \A t \in tickets : t.generation <= objects'[t.key].generation
    BY <1>1, <2>3 DEF SlotInv, Ticket
  <2>6. new.generation <= objects'[new.key].generation
    BY <1>1, <2>2, <2>3 DEF ObjectMeta
  <2> QED
    BY <2>2, <2>3, <2>4, <2>5, <2>6 DEF SlotInv
<1>4. CASE \E t \in tickets : PutCommit(t)
  BY <1>1, <1>2, <1>4 DEF PutCommit, Ticket, ObjectMeta
<1> QED
  BY <1>2, <1>3, <1>4 DEF MasterNext, masterVars, RegisterWorker, Heartbeat,
     MarkWorkerDead, PutStartRejected, GetRoute, SetClock

(* CoreInv and SlotInv hold in every reachable state of the Master.        *)
THEOREM Invariance == MasterSpec => [](CoreInv /\ SlotInv)
<1>1. MasterInit => SlotInv
  BY DEF MasterInit, SlotInv
<1>2. CoreInv /\ SlotInv /\ [MasterNext]_masterVars => SlotInv'
  BY SlotNext
<1> QED
  BY <1>1, <1>2, InitInv, NextInv, PTL DEF MasterSpec

(* Type correctness of the Master's state for every value of the constants. *)
THEOREM TypeCorrect == MasterSpec => []MasterTypeOK
<1>1. CoreInv => MasterTypeOK
  BY DEF CoreInv
<1> QED
  BY <1>1, Invariance, PTL

(* The Master's accounting of a worker never exceeds its capacity.         *)
THEOREM CapacityBound == MasterSpec => []UsedWithinCapacity
<1>1. CoreInv => UsedWithinCapacity
  BY DEF CoreInv
<1> QED
  BY <1>1, Invariance, PTL

(* The ledger holds in every reachable state of the Master.                *)
THEOREM LedgerInvariance == MasterSpec => []LedgerInv
<1>1. MasterInit => LedgerInv
  <2> SUFFICES ASSUME MasterInit PROVE LedgerInv
    OBVIOUS
  <2>1. ReservedInPast /\ \A w \in Workers : ReservedOn(w) = {} /\ ReservedOn(w) \ stray = {}
    BY DEF MasterInit, AbsentObject, ReservedInPast, ReservedOn
  <2>2. SizeSum({}) = 0
    BY FS_EmptySet, SumOfZeros DEF SizeSum
  <2> QED
    BY <2>1, <2>2 DEF LedgerInv, NoPhantomReservation, LedgerExact, MasterInit, UnknownWorker
<1>2. CoreInv /\ CoreInv' /\ LedgerInv /\ [MasterNext]_masterVars => LedgerInv'
  BY LedgerNext
<1> QED
  BY <1>1, <1>2, Invariance, PTL DEF MasterSpec

(* No capacity leaks: the bytes accounted to a worker never exceed the     *)
(* sizes of the objects that hold a reservation on it.                     *)
THEOREM NoLeak == MasterSpec => []NoPhantomReservation
<1>1. LedgerInv => NoPhantomReservation
  BY DEF LedgerInv
<1> QED
  BY <1>1, LedgerInvariance, PTL

(* Until a put_start gives back bytes that are not held, used_bytes is     *)
(* exact: what is true of I6 of master.rs.                                 *)
THEOREM LedgerIsExact == MasterSpec => []LedgerExact
<1>1. LedgerInv => LedgerExact
  BY DEF LedgerInv
<1> QED
  BY <1>1, LedgerInvariance, PTL

(* No two puts of the Master's life are told to write to the same slot.    *)
THEOREM SlotsAreUnique == MasterSpec => []OneSlotPerPut
<1>1. CoreInv /\ SlotInv => OneSlotPerPut
  BY DEF CoreInv, PutIdsUnique, SlotInv, OneSlotPerPut
<1> QED
  BY <1>1, Invariance, PTL

(* A readable object was committed by the very put that placed it: the     *)
(* promises I1 and I4 of master.rs.                                        *)
THEOREM NoDirtyNorStaleCommit == MasterSpec => []CompleteWasAcked
<1>1. CoreInv => CompleteWasAcked
  BY DEF CoreInv, CompleteWasAcked, AckedMatchesState, ObjectsHaveTickets, IsTicketOf
<1> QED
  BY <1>1, Invariance, PTL

(* The commit of t acknowledges a put for the first time, and none of its  *)
(* key is newer.                                                           *)
CommitIsFresh(t) ==
  /\ t.put_id \notin acked
  /\ \A u \in tickets : u.key = t.key => u.put_id <= t.put_id

LEMMA CommitsAreFresh ==
  ASSUME CoreInv, NEW t \in tickets, PutCommit(t)
  PROVE  CommitIsFresh(t)
<1>1. t.key \in Keys
  BY DEF CoreInv, MasterTypeOK, Ticket
<1> QED
  BY <1>1 DEF CommitIsFresh, CoreInv, PutCommit, AckedMatchesState, ObjectsAreNewest

(* A put is acknowledged at most once, and never after a newer put of its  *)
(* key was placed: the promises I3 and I4 of master.rs.                    *)
THEOREM CommitOnceAndNewest == MasterSpec => AckedOnceAndNewest
<1> DEFINE Ok == \A t \in tickets : PutCommit(t) => CommitIsFresh(t)
<1>1. CoreInv /\ [MasterNext]_masterVars => [Ok]_masterVars
  BY CommitsAreFresh
<1>2. MasterSpec => [][Ok]_masterVars
  BY <1>1, Invariance, PTL DEF MasterSpec
<1> QED
  BY <1>2 DEF AckedOnceAndNewest, CommitIsFresh

(* The generations the Master routes readers to never go back.             *)
THEOREM RoutesMonotone == MasterSpec => RoutesNeverGoBack
<1> DEFINE Ok == \A k \in Keys : routed'[k] >= routed[k]
<1>1. CoreInv /\ MasterNext => Ok
  <2> SUFFICES ASSUME CoreInv, MasterNext, NEW k \in Keys
               PROVE  routed'[k] >= routed[k]
    OBVIOUS
  <2>1. /\ routed \in [Keys -> Nat]
        /\ objects[k].generation \in Nat
        /\ routed[k] <= objects[k].generation
    BY DEF CoreInv, MasterTypeOK, ObjectMeta, RoutedNotNewer
  <2>2. CASE \E j \in Keys : GetRoute(j)
    BY <2>1, <2>2 DEF GetRoute
  <2>3. CASE UNCHANGED routed
    BY <2>1, <2>3
  <2> QED
    BY <2>2, <2>3 DEF MasterNext, RegisterWorker, Heartbeat, MarkWorkerDead, PutStart,
       PutStartRejected, PutCommit, SetClock
<1>2. CoreInv /\ [MasterNext]_masterVars => [Ok]_masterVars
  BY <1>1
<1> QED
  BY <1>2, Invariance, PTL DEF RoutesNeverGoBack, MasterSpec
=============================================================================
