----------------------------- MODULE NodeProofs -----------------------------
(***************************************************************************)
(* Proofs about the two loops that keep a node's process in service: the   *)
(* registration of its worker, and the threads and locks of its handlers.  *)
(* Neither reads the state of the other.                                   *)
(*                                                                         *)
(* Registration.  A worker in its heartbeat loop is alive to the Master at *)
(* every instant, for every number of workers and every choice of the      *)
(* interval, the timeout and the round trip that satisfies                 *)
(* RegistrationAssumption.                                                 *)
(* That is not inductive: that the Master heard a worker recently enough   *)
(* follows from when the worker's present phase ends.  RegInv says when    *)
(* that is, both from now (Deadline) and from the last heartbeat the       *)
(* Master noted (HeardInTime).                                             *)
(* And a worker registers again only because of faults: PaidInv counts the *)
(* registrations that are on their way together with those that were made. *)
(*                                                                         *)
(* Threads and locks.  An engine is held by one generation, of its own     *)
(* node, and a generation waits for the worker of another node only.  So   *)
(* a group of nodes that wait for each other has two nodes at least, with  *)
(* Threads blocked handlers and a generation each: it takes                *)
(* 2 * (Threads + 1) requests.  Once there it is there for ever.           *)
(***************************************************************************)
EXTENDS WorkerRegistration, ServingNodes, FiniteSetTheorems, TLAPS

(* The phase of the loop of w ends neither in the past nor too far ahead.  *)
Deadline(w) ==
  /\ phase[w] \notin {"registering", "stopped"} => now <= until[w]
  /\ phase[w] = "sleeping" => until[w] <= now + HEARTBEAT_INTERVAL
  /\ phase[w] \in {"registered", "beating", "accepted"} => until[w] <= now + RoundTrip

(* ... and soon after the last heartbeat of a worker that is in sync.      *)
HeardInTime(w) ==
  InSync(w) =>
    /\ phase[w] \in {"registered", "accepted"} =>
         until[w] <= workers[w].last_heartbeat + RoundTrip
    /\ phase[w] = "sleeping" =>
         until[w] <= workers[w].last_heartbeat + RoundTrip + HEARTBEAT_INTERVAL
    /\ phase[w] = "beating" =>
         until[w] <= workers[w].last_heartbeat + 2 * RoundTrip + HEARTBEAT_INTERVAL

(* What the Master knows of w: no heartbeat from the future, and nobody    *)
(* has declared a registered worker dead.                                  *)
Recorded(w) ==
  /\ workers[w].last_heartbeat <= now
  /\ workers[w].epoch > 0 => workers[w].status = "Alive"

RegTypes ==
  /\ now \in Nat
  /\ workers \in [Workers -> WorkerMeta]
  /\ phase \in [Workers -> Phases]
  /\ epoch \in [Workers -> Nat]
  /\ until \in [Workers -> Nat]

InTime(w) == Deadline(w) /\ HeardInTime(w) /\ Recorded(w)

RegInv == RegTypes /\ \A w \in Workers : InTime(w)

-----------------------------------------------------------------------------
(* The constants are naturals, and a sleep with the round trips around it  *)
(* fits in the timeout.                                                    *)
LEMMA Constants ==
  /\ HEARTBEAT_INTERVAL \in Nat
  /\ RoundTrip \in Nat
  /\ HEARTBEAT_TIMEOUT \in Nat
  /\ HEARTBEAT_INTERVAL + 2 * RoundTrip <= HEARTBEAT_TIMEOUT
BY MasterAssumption, RegistrationAssumption

(* The fields of a worker's record that the argument is about.             *)
LEMMA RecordFields ==
  ASSUME RegTypes, NEW w \in Workers
  PROVE  /\ workers[w].epoch \in Nat
         /\ workers[w].last_heartbeat \in Nat
         /\ now \in Nat /\ until[w] \in Nat /\ epoch[w] \in Nat
         /\ phase[w] \in Phases
BY DEF RegTypes, WorkerMeta

(* The invariant holds at the start.                                       *)
LEMMA RegInitInv == RegInit => RegInv
BY Constants DEF RegInit, MasterInit, RegInv, RegTypes, InTime, Deadline, HeardInTime,
  Recorded, InSync, UnknownWorker, WorkerMeta, Phases

(* A worker that a step does not touch stays in time.                      *)
LEMMA Untouched ==
  ASSUME NEW v \in Workers, InTime(v), now' = now, workers'[v] = workers[v],
         phase'[v] = phase[v], epoch'[v] = epoch[v], until'[v] = until[v]
  PROVE  InTime(v)'
BY DEF InTime, Deadline, HeardInTime, Recorded, InSync

(* A worker sent back to registering, or stopped, is trivially in time.    *)
LEMMA BackToRegistering ==
  ASSUME NEW v \in Workers, InTime(v), now' = now, workers'[v] = workers[v],
         phase'[v] \in {"registering", "stopped"}
  PROVE  InTime(v)'
BY DEF InTime, Deadline, HeardInTime, Recorded

(* The Master registers w, now: its record is of this instant.             *)
LEMMA RegisterWorkerRecord ==
  ASSUME RegTypes, NEW w \in Workers, NEW c \in Capacities, RegisterWorker(w, c)
  PROVE  /\ workers' \in [Workers -> WorkerMeta]
         /\ now' = now
         /\ workers'[w].epoch = workers[w].epoch + 1
         /\ workers'[w].last_heartbeat = now
         /\ workers'[w].status = "Alive"
         /\ \A v \in Workers \ {w} : workers'[v] = workers[v]
<1>1. workers[w].epoch \in Nat /\ now \in Nat /\ c \in Nat
  BY RecordFields, MasterAssumption DEF RegTypes
<1>2. DOMAIN workers = Workers
  BY DEF RegTypes
<1>3. [capacity_bytes |-> c, used_bytes |-> 0, epoch |-> workers[w].epoch + 1,
       last_heartbeat |-> now, status |-> "Alive"] \in WorkerMeta
  BY <1>1 DEF WorkerMeta
<1>4. QED
  BY <1>1, <1>2, <1>3 DEF RegisterWorker, RegTypes

(* The Master takes a heartbeat of w, now.                                 *)
LEMMA HeartbeatRecord ==
  ASSUME RegTypes, NEW w \in Workers, NEW e, Heartbeat(w, e)
  PROVE  /\ workers' \in [Workers -> WorkerMeta]
         /\ now' = now
         /\ workers'[w].epoch = workers[w].epoch
         /\ workers'[w].last_heartbeat = now
         /\ workers'[w].status = "Alive"
         /\ \A v \in Workers \ {w} : workers'[v] = workers[v]
<1>1. workers[w] \in WorkerMeta /\ now \in Nat
  BY DEF RegTypes
<1>2. workers' = [workers EXCEPT ![w] =
         [workers[w] EXCEPT !.last_heartbeat = now, !.status = "Alive"]]
  BY DEF Heartbeat, RegTypes
<1>3. [workers[w] EXCEPT !.last_heartbeat = now, !.status = "Alive"] \in WorkerMeta
  BY <1>1 DEF WorkerMeta
<1>4. /\ [workers[w] EXCEPT !.last_heartbeat = now, !.status = "Alive"].last_heartbeat = now
      /\ [workers[w] EXCEPT !.last_heartbeat = now, !.status = "Alive"].status = "Alive"
      /\ [workers[w] EXCEPT !.last_heartbeat = now, !.status = "Alive"].epoch = workers[w].epoch
  BY <1>1 DEF WorkerMeta
<1>5. QED
  BY <1>2, <1>3, <1>4 DEF Heartbeat, RegTypes

-----------------------------------------------------------------------------
(* One lemma per action.                                                   *)

LEMMA MasterRegistersInv ==
  ASSUME RegInv, NEW w \in Workers, NEW c \in Capacities, MasterRegisters(w, c)
  PROVE  RegInv'
<1> USE DEF RegInv
<1>1. RegisterWorker(w, c)
  BY DEF MasterRegisters
<1>2. /\ phase' = [phase EXCEPT ![w] = "registered"]
      /\ epoch' = [epoch EXCEPT ![w] = workers[w].epoch + 1]
      /\ until' = [until EXCEPT ![w] = now + RoundTrip]
  BY DEF MasterRegisters
<1>3. RegTypes'
  BY <1>1, <1>2, RegisterWorkerRecord, RecordFields, Constants DEF RegTypes, Phases
<1>4. InTime(w)'
  BY <1>1, <1>2, RegisterWorkerRecord, RecordFields, Constants
  DEF InTime, Deadline, HeardInTime, Recorded, RegTypes
<1>5. ASSUME NEW v \in Workers \ {w} PROVE InTime(v)'
  BY <1>1, <1>2, RegisterWorkerRecord, Untouched DEF RegTypes
<1>6. QED
  BY <1>3, <1>4, <1>5

LEMMA FallAsleepInv ==
  ASSUME RegInv, NEW w \in Workers, FallAsleep(w)
  PROVE  RegInv'
<1> USE DEF RegInv
<1>1. /\ phase[w] \in {"registered", "accepted"}
      /\ phase' = [phase EXCEPT ![w] = "sleeping"]
      /\ until' = [until EXCEPT ![w] = now + HEARTBEAT_INTERVAL]
      /\ now' = now /\ workers' = workers /\ epoch' = epoch
  BY DEF FallAsleep, masterVars
<1>2. RegTypes'
  BY <1>1, Constants DEF RegTypes, Phases
<1>3. InTime(w)'
  BY <1>1, RecordFields, Constants
  DEF InTime, Deadline, HeardInTime, Recorded, RegTypes, InSync
<1>4. ASSUME NEW v \in Workers \ {w} PROVE InTime(v)'
  BY <1>1, Untouched DEF RegTypes
<1>5. QED
  BY <1>2, <1>3, <1>4

LEMMA WakeUpInv ==
  ASSUME RegInv, NEW w \in Workers, WakeUp(w)
  PROVE  RegInv'
<1> USE DEF RegInv
<1>1. /\ phase[w] = "sleeping"
      /\ phase' = [phase EXCEPT ![w] = "beating"]
      /\ until' = [until EXCEPT ![w] = now + RoundTrip]
      /\ now' = now /\ workers' = workers /\ epoch' = epoch
  BY DEF WakeUp, masterVars
<1>2. RegTypes'
  BY <1>1, Constants DEF RegTypes, Phases
<1>3. InTime(w)'
  BY <1>1, RecordFields, Constants
  DEF InTime, Deadline, HeardInTime, Recorded, RegTypes, InSync
<1>4. ASSUME NEW v \in Workers \ {w} PROVE InTime(v)'
  BY <1>1, Untouched DEF RegTypes
<1>5. QED
  BY <1>2, <1>3, <1>4

LEMMA MasterAcceptsInv ==
  ASSUME RegInv, NEW w \in Workers, MasterAccepts(w)
  PROVE  RegInv'
<1> USE DEF RegInv
<1>1. /\ phase[w] = "beating"
      /\ Heartbeat(w, epoch[w])
      /\ phase' = [phase EXCEPT ![w] = "accepted"]
      /\ epoch' = epoch /\ until' = until
  BY DEF MasterAccepts
<1>2. RegTypes'
  BY <1>1, HeartbeatRecord DEF RegTypes, Phases
<1>3. InTime(w)'
  BY <1>1, HeartbeatRecord, RecordFields, Constants
  DEF InTime, Deadline, HeardInTime, Recorded, RegTypes
<1>4. ASSUME NEW v \in Workers \ {w} PROVE InTime(v)'
  BY <1>1, HeartbeatRecord, Untouched DEF RegTypes
<1>5. QED
  BY <1>2, <1>3, <1>4

LEMMA MasterRefusesInv ==
  ASSUME RegInv, NEW w \in Workers, MasterRefuses(w)
  PROVE  RegInv'
<1> USE DEF RegInv
<1>1. /\ phase[w] = "beating"
      /\ phase' = [phase EXCEPT ![w] = "rejected"]
      /\ now' = now /\ workers' = workers /\ epoch' = epoch /\ until' = until
  BY DEF MasterRefuses, masterVars
<1>2. RegTypes'
  BY <1>1 DEF RegTypes, Phases
<1>3. InTime(w)'
  BY <1>1 DEF InTime, Deadline, HeardInTime, Recorded, RegTypes
<1>4. ASSUME NEW v \in Workers \ {w} PROVE InTime(v)'
  BY <1>1, Untouched DEF RegTypes
<1>5. QED
  BY <1>2, <1>3, <1>4

(* The steps that send w back to registering or stop it, and touch nothing *)
(* else the invariant speaks of.                                           *)
LEMMA StartsOverInv ==
  ASSUME RegInv, NEW w \in Workers, NEW p \in {"registering", "stopped"},
         phase' = [phase EXCEPT ![w] = p],
         now' = now, workers' = workers, epoch' = epoch, until' = until
  PROVE  RegInv'
<1> USE DEF RegInv
<1>1. RegTypes'
  BY DEF RegTypes, Phases
<1>2. InTime(w)'
  BY BackToRegistering DEF RegTypes
<1>3. ASSUME NEW v \in Workers \ {w} PROVE InTime(v)'
  BY Untouched DEF RegTypes
<1>4. QED
  BY <1>1, <1>2, <1>3

(* A late registration may bring w back in sync by accident, after the     *)
(* Master restarted: it also counts as a heartbeat of this instant.        *)
LEMMA LateRegisterInv ==
  ASSUME RegInv, NEW w \in Workers, NEW c \in Capacities, LateRegister(w, c)
  PROVE  RegInv'
<1> USE DEF RegInv
<1>1. /\ RegisterWorker(w, c)
      /\ phase' = phase /\ epoch' = epoch /\ until' = until
  BY DEF LateRegister
<1>2. RegTypes'
  BY <1>1, RegisterWorkerRecord DEF RegTypes
<1>3. InTime(w)'
  BY <1>1, RegisterWorkerRecord, RecordFields, Constants
  DEF InTime, Deadline, HeardInTime, Recorded, RegTypes
<1>4. ASSUME NEW v \in Workers \ {w} PROVE InTime(v)'
  BY <1>1, RegisterWorkerRecord, Untouched DEF RegTypes
<1>5. QED
  BY <1>2, <1>3, <1>4

(* A restarted Master knows nobody: nobody is in sync with it.             *)
LEMMA MasterForgetsInv ==
  ASSUME RegInv, MasterForgets
  PROVE  RegInv'
<1> USE DEF RegInv
<1>1. /\ workers' = [w \in Workers |-> UnknownWorker]
      /\ now' = now /\ phase' = phase /\ epoch' = epoch /\ until' = until
  BY DEF MasterForgets
<1>2. RegTypes'
  BY <1>1 DEF RegTypes, UnknownWorker, WorkerMeta
<1>3. ASSUME NEW v \in Workers PROVE InTime(v)'
  BY <1>1, RecordFields DEF InTime, Deadline, HeardInTime, Recorded, InSync, UnknownWorker
<1>4. QED
  BY <1>2, <1>3

(* Time passes no end of a phase.                                          *)
LEMMA TickInv ==
  ASSUME RegInv, Tick
  PROVE  RegInv'
<1> USE DEF RegInv
<1>1. /\ \A w \in Workers : phase[w] \notin {"registering", "stopped"} => now < until[w]
      /\ now' = now + 1
      /\ workers' = workers /\ phase' = phase /\ epoch' = epoch /\ until' = until
  BY DEF Tick, SetClock, loopVars
<1>2. RegTypes'
  BY <1>1 DEF RegTypes
<1>3. ASSUME NEW v \in Workers PROVE InTime(v)'
  BY <1>1, RecordFields, Constants DEF InTime, Deadline, HeardInTime, Recorded, InSync
<1>4. QED
  BY <1>2, <1>3

(* Every step preserves the invariant.                                     *)
LEMMA RegNextInv == RegInv /\ [RegNext]_regVars => RegInv'
<1> SUFFICES ASSUME RegInv, [RegNext]_regVars PROVE RegInv'
  OBVIOUS
<1>1. ASSUME NEW w \in Workers, LoopStep(w) PROVE RegInv'
  <2>1. CASE \E c \in Capacities : MasterRegisters(w, c)
    BY <2>1, MasterRegistersInv
  <2>2. CASE FallAsleep(w)
    BY <2>2, FallAsleepInv
  <2>3. CASE WakeUp(w)
    BY <2>3, WakeUpInv
  <2>4. CASE MasterAccepts(w)
    BY <2>4, MasterAcceptsInv
  <2>5. CASE MasterRefuses(w)
    BY <2>5, MasterRefusesInv
  <2>6. CASE RegisterAgain(w)
    BY <2>6, StartsOverInv DEF RegisterAgain, masterVars
  <2>7. QED
    BY <1>1, <2>1, <2>2, <2>3, <2>4, <2>5, <2>6 DEF LoopStep
<1>2. ASSUME NEW w \in Workers, RequestFails(w) PROVE RegInv'
  BY <1>2, StartsOverInv DEF RequestFails, masterVars
<1>3. ASSUME NEW w \in Workers, RegisterBodyFails(w) PROVE RegInv'
  BY <1>3, StartsOverInv DEF RegisterBodyFails, masterVars
<1>4. ASSUME NEW w \in Workers, NEW c \in Capacities, LateRegister(w, c) PROVE RegInv'
  BY <1>4, LateRegisterInv
<1>5. ASSUME NEW w \in Workers, LateRegisterLost(w) PROVE RegInv'
  <2>1. now' = now /\ workers' = workers /\ phase' = phase /\ epoch' = epoch /\ until' = until
    BY <1>5 DEF LateRegisterLost, masterVars
  <2>2. QED
    BY <2>1, Untouched DEF RegInv, RegTypes
<1>6. CASE MasterForgets
  BY <1>6, MasterForgetsInv
<1>7. CASE Tick
  BY <1>7, TickInv
<1>8. CASE UNCHANGED regVars
  <2>1. now' = now /\ workers' = workers /\ phase' = phase /\ epoch' = epoch /\ until' = until
    BY <1>8 DEF regVars, masterVars, loopVars
  <2>2. QED
    BY <2>1, Untouched DEF RegInv, RegTypes
<1>9. QED
  BY <1>1, <1>2, <1>3, <1>4, <1>5, <1>6, <1>7, <1>8 DEF RegNext

(* Every reachable state satisfies the invariant.                          *)
THEOREM RegInvariance == RegSpec => []RegInv
<1>1. QED
  BY RegInitInv, RegNextInv, PTL DEF RegSpec

(* HealthyNeverDead holds in every reachable state: for a worker in sync   *)
(* and past registration, now <= until <= last_heartbeat + timeout.        *)
THEOREM HealthyWorkersAreAlive == RegSpec => []HealthyNeverDead
<1>1. RegInv => HealthyNeverDead
  <2> SUFFICES ASSUME RegInv, NEW w \in Workers, InSync(w),
                      phase[w] \in {"registered", "sleeping", "beating", "accepted"}
               PROVE  WorkerIsAlive(workers[w])
    BY DEF HealthyNeverDead
  <2> DEFINE heard == workers[w].last_heartbeat
  <2>1. heard \in Nat /\ now \in Nat /\ until[w] \in Nat
    BY RecordFields DEF RegInv
  <2>2. heard <= now /\ now <= until[w] /\ workers[w].status = "Alive"
    BY DEF RegInv, InTime, Deadline, Recorded, InSync
  <2>3. \/ until[w] <= heard + RoundTrip
        \/ until[w] <= heard + RoundTrip + HEARTBEAT_INTERVAL
        \/ until[w] <= heard + 2 * RoundTrip + HEARTBEAT_INTERVAL
    BY DEF RegInv, InTime, HeardInTime
  <2>4. now - heard <= HEARTBEAT_TIMEOUT
    BY <2>1, <2>2, <2>3, Constants
  <2>5. SaturatingSub(now, heard) <= HEARTBEAT_TIMEOUT
    BY <2>1, <2>2, <2>4 DEF SaturatingSub
  <2>6. QED
    BY <2>2, <2>5 DEF WorkerIsAlive, InSync
<1>2. QED
  BY RegInvariance, <1>1, PTL

(* A registration of w is on its way: the loop is about to register, or it *)
(* will be refused when it next heartbeats.                                *)
OwesRegistration(w) == phase[w] \in {"registering", "rejected"} \/ ~InSync(w)

(* Past and pending registrations of w are paid for by faults, a late      *)
(* request being good for its own and for the one that answers it.         *)
Paid(w) ==
  LET counted == workers[w].epoch + 2 * late[w] IN
  /\ counted <= 1 + 2 * faults
  /\ OwesRegistration(w) => counted <= 2 * faults

PaidTypes == late \in [Workers -> Nat] /\ faults \in Nat

PaidInv == PaidTypes /\ \A w \in Workers : Paid(w)

LEMMA PaidInitInv == RegInit => PaidInv
BY DEF RegInit, MasterInit, PaidInv, PaidTypes, Paid, OwesRegistration, InSync, UnknownWorker

(* A step that changes nothing Paid reads of a worker.                     *)
LEMMA PaidUntouched ==
  ASSUME NEW v \in Workers, Paid(v), workers'[v].epoch = workers[v].epoch,
         late'[v] = late[v], epoch'[v] = epoch[v], phase'[v] = phase[v], faults' = faults
  PROVE  Paid(v)'
BY DEF Paid, OwesRegistration, InSync

(* The loop registers its worker only when it owes that: the loop and the  *)
(* Master then agree on the epoch, and nothing is owed.                    *)
LEMMA MasterRegistersPaid ==
  ASSUME RegTypes, PaidInv, NEW w \in Workers, NEW c \in Capacities, MasterRegisters(w, c)
  PROVE  PaidInv'
<1>1. /\ RegisterWorker(w, c)
      /\ phase[w] = "registering"
      /\ phase' = [phase EXCEPT ![w] = "registered"]
      /\ epoch' = [epoch EXCEPT ![w] = workers[w].epoch + 1]
      /\ late' = late /\ faults' = faults
  BY DEF MasterRegisters
<1>2. /\ workers'[w].epoch = workers[w].epoch + 1
      /\ \A v \in Workers \ {w} : workers'[v] = workers[v]
  BY <1>1, RegisterWorkerRecord
<1>3. workers[w].epoch \in Nat /\ late[w] \in Nat /\ faults \in Nat
  BY RecordFields DEF PaidInv, PaidTypes
<1>4. PaidTypes'
  BY <1>1 DEF PaidInv, PaidTypes
<1>5. workers[w].epoch + 2 * late[w] <= 2 * faults
  BY <1>1 DEF PaidInv, Paid, OwesRegistration
<1>6. epoch'[w] = workers'[w].epoch /\ workers'[w].epoch > 0 /\ phase'[w] = "registered"
  BY <1>1, <1>2, <1>3 DEF RegTypes
<1>7. ~OwesRegistration(w)'
  BY <1>6 DEF OwesRegistration, InSync
<1>8. Paid(w)'
  BY <1>1, <1>2, <1>3, <1>5, <1>7 DEF Paid
<1>9. ASSUME NEW v \in Workers \ {w} PROVE Paid(v)'
  <2>1. /\ workers'[v].epoch = workers[v].epoch
        /\ epoch'[v] = epoch[v] /\ phase'[v] = phase[v]
    BY <1>1, <1>2 DEF RegTypes
  <2>2. QED
    BY <1>1, <2>1, PaidUntouched DEF PaidInv
<1>10. QED
  BY <1>4, <1>8, <1>9 DEF PaidInv

(* The loop goes on without having registered: it owes no more than before.*)
LEMMA LoopGoesOnPaid ==
  ASSUME RegTypes, PaidInv, NEW w \in Workers, NEW p \in Phases,
         phase' = [phase EXCEPT ![w] = p],
         p \in {"registering", "rejected"} => OwesRegistration(w),
         \A v \in Workers : workers'[v].epoch = workers[v].epoch,
         epoch' = epoch, late' = late, faults' = faults
  PROVE  PaidInv'
<1>1. PaidTypes'
  BY DEF PaidInv, PaidTypes
<1>2. phase'[w] = p /\ \A v \in Workers \ {w} : phase'[v] = phase[v]
  BY DEF RegTypes
<1>3. InSync(w)' <=> InSync(w)
  BY DEF InSync
<1>4. OwesRegistration(w)' => OwesRegistration(w)
  BY <1>2, <1>3 DEF OwesRegistration
<1>5. Paid(w)'
  BY <1>4 DEF Paid, PaidInv
<1>6. ASSUME NEW v \in Workers \ {w} PROVE Paid(v)'
  BY <1>2, PaidUntouched DEF PaidInv
<1>7. QED
  BY <1>1, <1>5, <1>6 DEF PaidInv

(* A fault pays for two: the request that may arrive late with its answer, *)
(* or the registration the loop falls back to.                             *)
LEMMA RequestFailsPaid ==
  ASSUME RegTypes, PaidInv, NEW w \in Workers, RequestFails(w)
  PROVE  PaidInv'
<1>1. /\ faults' = faults + 1
      /\ phase' = [phase EXCEPT ![w] = "registering"]
      /\ late' = IF phase[w] = "registering" THEN [late EXCEPT ![w] = @ + 1] ELSE late
      /\ workers' = workers /\ epoch' = epoch
  BY DEF RequestFails, masterVars
<1>2. PaidTypes'
  BY <1>1 DEF PaidInv, PaidTypes
<1>3. ASSUME NEW v \in Workers PROVE Paid(v)'
  <2>1. workers[v].epoch \in Nat /\ late[v] \in Nat /\ faults \in Nat
    BY RecordFields DEF PaidInv, PaidTypes
  <2>2. \/ late'[v] = late[v]
        \/ late'[v] = late[v] + 1 /\ OwesRegistration(v)
    BY <1>1 DEF OwesRegistration, PaidInv, PaidTypes
  <2>3. QED
    BY <1>1, <2>1, <2>2 DEF Paid, PaidInv
<1>4. QED
  BY <1>2, <1>3 DEF PaidInv

(* The loop ends on an error: it owes nothing that it did not owe, and a   *)
(* fault more has been.                                                    *)
LEMMA BodyFailsPaid ==
  ASSUME RegTypes, PaidInv, NEW w \in Workers, RegisterBodyFails(w)
  PROVE  PaidInv'
<1>1. /\ faults' = faults + 1 /\ phase' = [phase EXCEPT ![w] = "stopped"]
      /\ workers' = workers /\ epoch' = epoch /\ late' = late
  BY DEF RegisterBodyFails, masterVars
<1>2. PaidTypes'
  BY <1>1 DEF PaidInv, PaidTypes
<1>3. ASSUME NEW v \in Workers PROVE Paid(v)'
  <2>1. workers[v].epoch \in Nat /\ late[v] \in Nat /\ faults \in Nat
    BY RecordFields DEF PaidInv, PaidTypes
  <2>2. workers[v].epoch + 2 * late[v] <= 1 + 2 * faults
    BY DEF PaidInv, Paid
  <2>3. QED
    BY <1>1, <2>1, <2>2 DEF Paid
<1>4. QED
  BY <1>2, <1>3 DEF PaidInv

(* The request that arrives late was paid for, and so is the answer.       *)
LEMMA LateRegisterPaid ==
  ASSUME RegTypes, PaidInv, NEW w \in Workers, NEW c \in Capacities, LateRegister(w, c)
  PROVE  PaidInv'
<1>1. /\ RegisterWorker(w, c) /\ late[w] > 0
      /\ late' = [late EXCEPT ![w] = @ - 1]
      /\ phase' = phase /\ epoch' = epoch /\ faults' = faults
  BY DEF LateRegister
<1>2. /\ workers'[w].epoch = workers[w].epoch + 1
      /\ \A v \in Workers \ {w} : workers'[v] = workers[v]
  BY <1>1, RegisterWorkerRecord
<1>3. workers[w].epoch \in Nat /\ late[w] \in Nat /\ faults \in Nat
  BY RecordFields DEF PaidInv, PaidTypes
<1>4. PaidTypes'
  BY <1>1 DEF PaidInv, PaidTypes
<1>5. late'[w] = late[w] - 1
  BY <1>1 DEF PaidInv, PaidTypes
<1>6. Paid(w)'
  BY <1>1, <1>2, <1>3, <1>5 DEF Paid, PaidInv
<1>7. ASSUME NEW v \in Workers \ {w} PROVE Paid(v)'
  <2>1. late'[v] = late[v] /\ workers'[v].epoch = workers[v].epoch
    BY <1>1, <1>2 DEF PaidInv, PaidTypes
  <2>2. QED
    BY <1>1, <2>1, PaidUntouched DEF PaidInv
<1>8. QED
  BY <1>4, <1>6, <1>7 DEF PaidInv

LEMMA LateRegisterLostPaid ==
  ASSUME RegTypes, PaidInv, NEW w \in Workers, LateRegisterLost(w)
  PROVE  PaidInv'
<1>1. /\ late[w] > 0 /\ late' = [late EXCEPT ![w] = @ - 1]
      /\ workers' = workers /\ phase' = phase /\ epoch' = epoch /\ faults' = faults
  BY DEF LateRegisterLost, masterVars
<1>2. PaidTypes'
  BY <1>1 DEF PaidInv, PaidTypes
<1>3. ASSUME NEW v \in Workers PROVE Paid(v)'
  <2>1. workers[v].epoch \in Nat /\ late[v] \in Nat /\ faults \in Nat
    BY RecordFields DEF PaidInv, PaidTypes
  <2>2. late'[v] \in Nat /\ late'[v] <= late[v]
    BY <1>1, <2>1 DEF PaidInv, PaidTypes
  <2>3. OwesRegistration(v)' <=> OwesRegistration(v)
    BY <1>1 DEF OwesRegistration, InSync
  <2>4. QED
    BY <1>1, <2>1, <2>2, <2>3 DEF Paid, PaidInv
<1>4. QED
  BY <1>2, <1>3 DEF PaidInv

(* A restarted Master counts from zero, and every loop owes it a           *)
(* registration.                                                           *)
LEMMA MasterForgetsPaid ==
  ASSUME RegTypes, PaidInv, MasterForgets
  PROVE  PaidInv'
<1>1. /\ workers' = [w \in Workers |-> UnknownWorker]
      /\ faults' = faults + 1 /\ late' = late
  BY DEF MasterForgets
<1>2. PaidTypes'
  BY <1>1 DEF PaidInv, PaidTypes
<1>3. ASSUME NEW v \in Workers PROVE Paid(v)'
  <2>1. workers[v].epoch \in Nat /\ late[v] \in Nat /\ faults \in Nat
    BY RecordFields DEF PaidInv, PaidTypes
  <2>2. workers'[v].epoch = 0
    BY <1>1 DEF UnknownWorker
  <2>3. workers[v].epoch + 2 * late[v] <= 1 + 2 * faults
    BY DEF PaidInv, Paid
  <2>4. QED
    BY <1>1, <2>1, <2>2, <2>3 DEF Paid
<1>4. QED
  BY <1>2, <1>3 DEF PaidInv

LEMMA PaidNextInv == RegInv /\ PaidInv /\ [RegNext]_regVars => PaidInv'
<1> SUFFICES ASSUME RegTypes, PaidInv, [RegNext]_regVars PROVE PaidInv'
  BY DEF RegInv
<1>1. ASSUME NEW w \in Workers, LoopStep(w) PROVE PaidInv'
  <2>1. CASE \E c \in Capacities : MasterRegisters(w, c)
    BY <2>1, MasterRegistersPaid
  <2>2. CASE FallAsleep(w)
    BY <2>2, LoopGoesOnPaid DEF FallAsleep, masterVars, Phases
  <2>3. CASE WakeUp(w)
    BY <2>3, LoopGoesOnPaid DEF WakeUp, masterVars, Phases
  <2>4. CASE MasterAccepts(w)
    <3>1. \A v \in Workers : workers'[v].epoch = workers[v].epoch
      BY <2>4, HeartbeatRecord DEF MasterAccepts
    <3>2. QED
      BY <2>4, <3>1, LoopGoesOnPaid DEF MasterAccepts, Phases
  <2>5. CASE MasterRefuses(w)
    <3>1. OwesRegistration(w)
      BY <2>5 DEF MasterRefuses, HeartbeatAccepted, OwesRegistration, InSync
    <3>2. QED
      BY <2>5, <3>1, LoopGoesOnPaid DEF MasterRefuses, masterVars, Phases
  <2>6. CASE RegisterAgain(w)
    <3>1. OwesRegistration(w)
      BY <2>6 DEF RegisterAgain, OwesRegistration
    <3>2. QED
      BY <2>6, <3>1, LoopGoesOnPaid DEF RegisterAgain, masterVars, Phases
  <2>7. QED
    BY <1>1, <2>1, <2>2, <2>3, <2>4, <2>5, <2>6 DEF LoopStep
<1>2. ASSUME NEW w \in Workers, RequestFails(w) PROVE PaidInv'
  BY <1>2, RequestFailsPaid
<1>3. ASSUME NEW w \in Workers, RegisterBodyFails(w) PROVE PaidInv'
  BY <1>3, BodyFailsPaid
<1>4. ASSUME NEW w \in Workers, NEW c \in Capacities, LateRegister(w, c) PROVE PaidInv'
  BY <1>4, LateRegisterPaid
<1>5. ASSUME NEW w \in Workers, LateRegisterLost(w) PROVE PaidInv'
  BY <1>5, LateRegisterLostPaid
<1>6. CASE MasterForgets
  BY <1>6, MasterForgetsPaid
<1>7. CASE Tick \/ UNCHANGED regVars
  <2>1. workers' = workers /\ phase' = phase /\ epoch' = epoch /\ late' = late /\ faults' = faults
    BY <1>7 DEF Tick, SetClock, regVars, masterVars, loopVars
  <2>2. QED
    BY <2>1, PaidUntouched DEF PaidInv, PaidTypes
<1>8. QED
  BY <1>1, <1>2, <1>3, <1>4, <1>5, <1>6, <1>7 DEF RegNext

(* registration.rs:6-7: a worker re-registers only because of faults, and  *)
(* twice for each at most, whatever the number of workers, the bounds on   *)
(* time and faults, and the order in which late requests arrive.           *)
THEOREM RegistrationsAreProvoked == RegSpec => []ReregistersOnlyAfterFaults
<1>1. RegInv /\ PaidInv => ReregistersOnlyAfterFaults
  <2> SUFFICES ASSUME RegTypes, PaidInv, NEW w \in Workers
               PROVE  workers[w].epoch <= 1 + 2 * faults
    BY DEF RegInv, ReregistersOnlyAfterFaults
  <2>1. workers[w].epoch \in Nat /\ late[w] \in Nat /\ faults \in Nat
    BY RecordFields DEF PaidInv, PaidTypes
  <2>2. workers[w].epoch + 2 * late[w] <= 1 + 2 * faults
    BY DEF PaidInv, Paid
  <2>3. QED
    BY <2>1, <2>2
<1>2. QED
  BY <1>1, PaidInitInv, PaidNextInv, RegInvariance, PTL DEF RegSpec

-----------------------------------------------------------------------------
(* Threads and locks.                                                      *)

(* A generation waits for another node, never for its own.                 *)
AwaitsElsewhere == \A r \in Requests : AwaitsPeer(r) => peer[r] # at[r]

ServingInv == ServingTypeOK /\ AwaitsElsewhere

LEMMA ServingInitInv == ServingInit => ServingInv
<1> SUFFICES ASSUME ServingInit PROVE ServingInv
  OBVIOUS
<1>1. \A r \in Requests : status[r] = "unsent"
  BY DEF ServingInit
<1>2. \A r \in Requests, n \in Nodes : engine[n] # r
  BY ServingAssumption DEF ServingInit
<1>3. /\ status \in [Requests -> Statuses] /\ at \in [Requests -> Nodes]
      /\ peer \in [Requests -> Nodes] /\ engine \in [Nodes -> Requests \cup {NoRequest}]
  BY DEF ServingInit, Statuses
<1> QED
  BY <1>1, <1>2, <1>3 DEF ServingInv, ServingTypeOK, AwaitsElsewhere, AwaitsPeer, Generating

(* A step that moves r from one status to another and neither takes nor    *)
(* gives back an engine.                                                   *)
LEMMA MoveInv ==
  ASSUME ServingInv, NEW r \in Requests, NEW p \in Statuses, Goto(r, p),
         status[r] \in Generating <=> p \in Generating,
         NEW n \in Nodes, peer' \in {peer, [peer EXCEPT ![r] = n]},
         p \in {"fetching", "publishing"} => n # at[r] /\ peer' = [peer EXCEPT ![r] = n],
         UNCHANGED <<at, engine>>
  PROVE  ServingInv'
<1>1. /\ status \in [Requests -> Statuses] /\ at \in [Requests -> Nodes]
      /\ peer \in [Requests -> Nodes] /\ engine \in [Nodes -> Requests \cup {NoRequest}]
      /\ \A q \in Requests, m \in Nodes : engine[m] = q <=> at[q] = m /\ status[q] \in Generating
  BY DEF ServingInv, ServingTypeOK
<1>2. /\ status'[r] = p /\ status' \in [Requests -> Statuses]
      /\ \A q \in Requests \ {r} : status'[q] = status[q] /\ peer'[q] = peer[q]
      /\ peer' \in [Requests -> Nodes]
  BY <1>1 DEF Goto
<1>3. \A q \in Requests : status'[q] \in Generating <=> status[q] \in Generating
  BY <1>2
<1>4. ServingTypeOK'
  BY <1>1, <1>2, <1>3 DEF ServingTypeOK
<1>5. AwaitsElsewhere'
  <2> SUFFICES ASSUME NEW q \in Requests, AwaitsPeer(q)' PROVE peer'[q] # at[q]
    BY DEF AwaitsElsewhere
  <2>1. CASE q = r
    <3>1. p \in {"fetching", "publishing"}
      BY <1>2, <2>1 DEF AwaitsPeer
    <3> QED
      BY <1>1, <2>1, <3>1
  <2>2. CASE q # r
    <3>1. AwaitsPeer(q)
      BY <1>2, <2>2 DEF AwaitsPeer
    <3> QED
      BY <1>2, <2>2, <3>1 DEF ServingInv, AwaitsElsewhere
  <2> QED
    BY <2>1, <2>2
<1> QED
  BY <1>4, <1>5 DEF ServingInv

(* The engine is taken by a generation of its node when it is free.        *)
LEMMA StartInv ==
  ASSUME ServingInv, NEW r \in Requests, StartGeneration(r)
  PROVE  ServingInv'
<1>1. /\ status \in [Requests -> Statuses] /\ at \in [Requests -> Nodes]
      /\ peer \in [Requests -> Nodes] /\ engine \in [Nodes -> Requests \cup {NoRequest}]
      /\ \A q \in Requests, m \in Nodes : engine[m] = q <=> at[q] = m /\ status[q] \in Generating
  BY DEF ServingInv, ServingTypeOK
<1>2. /\ status' = [status EXCEPT ![r] = "prefill"] /\ engine' = [engine EXCEPT ![at[r]] = r]
      /\ at' = at /\ peer' = peer
      /\ engine[at[r]] = NoRequest /\ status[r] = "spawned"
  BY DEF StartGeneration, Goto, EngineFree
<1>3. "prefill" \in Statuses /\ "prefill" \in Generating /\ "prefill" \notin {"fetching", "publishing"}
  BY DEF Statuses, Generating
<1>4. \A q \in Requests : at[q] = at[r] => status[q] \notin Generating
  BY <1>1, <1>2, ServingAssumption
<1>5. ASSUME NEW q \in Requests, NEW m \in Nodes
      PROVE  engine'[m] = q <=> at'[q] = m /\ status'[q] \in Generating
  <2>1. CASE q = r
    <3>1. m # at[r] => engine[m] # r
      BY <1>1
    <3> QED
      BY <1>1, <1>2, <1>3, <2>1, <3>1
  <2>2. CASE q # r
    <3>1. CASE m = at[r]
      BY <1>1, <1>2, <1>4, <2>2, <3>1
    <3>2. CASE m # at[r]
      BY <1>1, <1>2, <2>2, <3>2
    <3> QED
      BY <3>1, <3>2
  <2> QED
    BY <2>1, <2>2
<1>6. ServingTypeOK'
  BY <1>1, <1>2, <1>3, <1>5 DEF ServingTypeOK
<1>7. AwaitsElsewhere'
  BY <1>1, <1>2, <1>3 DEF ServingInv, AwaitsElsewhere, AwaitsPeer
<1> QED
  BY <1>6, <1>7 DEF ServingInv

(* ... and given back at the end.                                          *)
LEMMA ReleaseInv ==
  ASSUME ServingInv, NEW r \in Requests, status[r] \in Generating, Release(r)
  PROVE  ServingInv'
<1>1. /\ status \in [Requests -> Statuses] /\ at \in [Requests -> Nodes]
      /\ peer \in [Requests -> Nodes] /\ engine \in [Nodes -> Requests \cup {NoRequest}]
      /\ \A q \in Requests, m \in Nodes : engine[m] = q <=> at[q] = m /\ status[q] \in Generating
  BY DEF ServingInv, ServingTypeOK
<1>2. /\ status' = [status EXCEPT ![r] = "answered"]
      /\ engine' = [engine EXCEPT ![at[r]] = NoRequest]
      /\ peer' = [peer EXCEPT ![r] = at[r]] /\ at' = at
  BY DEF Release, Goto
<1>3. "answered" \in Statuses /\ "answered" \notin Generating
      /\ "answered" \notin {"fetching", "publishing"}
  BY DEF Statuses, Generating
<1>4. engine[at[r]] = r
  BY <1>1
<1>5. ASSUME NEW q \in Requests, NEW m \in Nodes
      PROVE  engine'[m] = q <=> at'[q] = m /\ status'[q] \in Generating
  <2>1. CASE m = at[r]
    <3>1. q # r => ~(at[q] = m /\ status[q] \in Generating)
      BY <1>1, <1>4, <2>1
    <3> QED
      BY <1>1, <1>2, <1>3, <2>1, <3>1, ServingAssumption
  <2>2. CASE m # at[r]
    <3>1. engine'[m] = engine[m]
      BY <1>1, <1>2, <2>2
    <3>2. q # r => status'[q] = status[q]
      BY <1>1, <1>2
    <3> QED
      BY <1>1, <1>2, <2>2, <3>1, <3>2
  <2> QED
    BY <2>1, <2>2
<1>6. ServingTypeOK'
  BY <1>1, <1>2, <1>3, <1>5 DEF ServingTypeOK
<1>7. AwaitsElsewhere'
  BY <1>1, <1>2, <1>3 DEF ServingInv, AwaitsElsewhere, AwaitsPeer
<1> QED
  BY <1>6, <1>7 DEF ServingInv

LEMMA ServingStep == ServingInv /\ [ServingNext]_servingVars => ServingInv'
<1> SUFFICES ASSUME ServingInv, [ServingNext]_servingVars PROVE ServingInv'
  OBVIOUS
<1>1. CASE UNCHANGED servingVars
  BY <1>1 DEF servingVars, ServingInv, ServingTypeOK, AwaitsElsewhere, AwaitsPeer
<1>2. \A r \in Requests : at[r] \in Nodes
  BY DEF ServingInv, ServingTypeOK
<1>3. ASSUME NEW r \in Requests, Send(r) \/ StartHandler(r) PROVE ServingInv'
  <2>1. /\ \/ status[r] = "unsent" /\ Goto(r, "sent")
           \/ status[r] = "sent" /\ Goto(r, "locking")
        /\ UNCHANGED <<at, peer, engine>>
    BY <1>3 DEF Send, StartHandler
  <2> QED
    BY <1>2, <2>1, MoveInv DEF Statuses, Generating
<1>4. ASSUME NEW r \in Requests, ListModels(r) \/ SpawnGeneration(r) PROVE ServingInv'
  <2>1. /\ status[r] = "locking" /\ (Goto(r, "answered") \/ Goto(r, "spawned"))
        /\ UNCHANGED <<at, peer, engine>>
    BY <1>4 DEF ListModels, SpawnGeneration
  <2> QED
    BY <1>2, <2>1, MoveInv DEF Statuses, Generating
<1>5. ASSUME NEW r \in Requests, NEW n \in Nodes, FetchFromWorker(r, n) \/ Publish(r, n)
      PROVE ServingInv'
  <2>1. /\ \/ status[r] = "prefill" /\ Goto(r, "fetching")
           \/ status[r] = "decode" /\ Goto(r, "publishing")
        /\ n # at[r] /\ peer' = [peer EXCEPT ![r] = n]
        /\ UNCHANGED <<at, engine>>
    BY <1>5 DEF FetchFromWorker, Publish
  <2> QED
    BY <2>1, MoveInv DEF Statuses, Generating
<1>6. ASSUME NEW r \in Requests, PrefillAlone(r) \/ FetchAnswered(r) PROVE ServingInv'
  <2>1. /\ status[r] \in {"prefill", "fetching"} /\ Goto(r, "decode")
        /\ peer' \in {peer, [peer EXCEPT ![r] = at[r]]}
        /\ UNCHANGED <<at, engine>>
    BY <1>6 DEF PrefillAlone, FetchAnswered
  <2> QED
    BY <1>2, <2>1, MoveInv DEF Statuses, Generating
<1>7. ASSUME NEW r \in Requests, EndGeneration(r) \/ PublishAnswered(r) PROVE ServingInv'
  <2>1. status[r] \in Generating /\ Release(r)
    BY <1>7 DEF EndGeneration, PublishAnswered, Generating
  <2> QED
    BY <2>1, ReleaseInv
<1> QED
  BY <1>1, <1>3, <1>4, <1>5, <1>6, <1>7, StartInv DEF ServingNext, NodeStep

(* The variables keep their types, and the holder of an engine is the one  *)
(* generation that runs on its node: api/chat.rs:120.                      *)
THEOREM EngineIsExclusive == ServingSpec => []ServingTypeOK
<1>1. ServingInv => ServingTypeOK
  BY DEF ServingInv
<1> QED
  BY <1>1, ServingInitInv, ServingStep, PTL DEF ServingSpec

-----------------------------------------------------------------------------
(* What stands in the way of a node's worker is a full runtime.            *)
LEMMA SilentIsFull ==
  ASSUME IsFiniteSet(Requests), NEW n \in Nodes, ~WorkerAnswers(n)
  PROVE  /\ IsFiniteSet(Blocked(n)) /\ Cardinality(Blocked(n)) \in Nat
         /\ Cardinality(Blocked(n)) >= Threads
<1>1. Blocked(n) \subseteq Requests
  BY DEF Blocked
<1>2. IsFiniteSet(Blocked(n)) /\ Cardinality(Blocked(n)) \in Nat
  BY <1>1, FS_Subset, FS_CardinalityType
<1>3. Cardinality(Blocked(n)) >= Threads
  BY <1>2, ServingAssumption DEF WorkerAnswers, HasFreeThread
<1> QED
  BY <1>2, <1>3

(* Two full runtimes and two generations that wait are that many requests. *)
LEMMA FullNodes ==
  ASSUME IsFiniteSet(Requests),
         NEW n \in Nodes, NEW m \in Nodes, n # m, ~WorkerAnswers(n), ~WorkerAnswers(m),
         NEW r \in Requests, NEW q \in Requests, r # q, AwaitsPeer(r), AwaitsPeer(q)
  PROVE  Cardinality(Requests) >= 2 * (Threads + 1)
<1> DEFINE B == Blocked(n) \cup Blocked(m)
           C == B \cup {r}
           D == C \cup {q}
<1>1. /\ IsFiniteSet(Blocked(n)) /\ Cardinality(Blocked(n)) \in Nat
      /\ Cardinality(Blocked(n)) >= Threads
      /\ IsFiniteSet(Blocked(m)) /\ Cardinality(Blocked(m)) \in Nat
      /\ Cardinality(Blocked(m)) >= Threads
  BY SilentIsFull
<1>2. Blocked(n) \cap Blocked(m) = {} /\ B \subseteq Requests
  BY DEF Blocked
<1>3. r \notin B /\ q \notin B
  BY DEF Blocked, AwaitsPeer
<1>4. IsFiniteSet(B) /\ Cardinality(B) = Cardinality(Blocked(n)) + Cardinality(Blocked(m))
  <2>1. /\ IsFiniteSet(B)
        /\ Cardinality(B) = Cardinality(Blocked(n)) + Cardinality(Blocked(m))
                            - Cardinality(Blocked(n) \cap Blocked(m))
    BY ONLY <1>1, FS_Union
  <2>2. Cardinality(Blocked(n) \cap Blocked(m)) = 0
    BY ONLY <1>2, FS_EmptySet
  <2> QED
    BY ONLY <1>1, <2>1, <2>2
<1> HIDE DEF B
<1>5. IsFiniteSet(C) /\ Cardinality(C) = Cardinality(B) + 1
  BY <1>3, <1>4, FS_AddElement
<1>6. q \notin C
  BY <1>3
<1>7. D \subseteq Requests
  BY <1>2
<1> HIDE DEF C
<1>8. IsFiniteSet(D) /\ Cardinality(D) = Cardinality(C) + 1
  BY <1>5, <1>6, FS_AddElement
<1>9. Cardinality(Requests) \in Nat /\ Cardinality(D) <= Cardinality(Requests)
  BY <1>7, FS_CardinalityType, FS_Subset
<1>10. Threads \in Nat
  BY ServingAssumption
<1> QED
  BY ONLY <1>1, <1>4, <1>5, <1>8, <1>9, <1>10

LEMMA MutualWaitTakes ==
  ASSUME ServingInv, IsFiniteSet(Requests), NEW W \in SUBSET Nodes, MutualWait(W)
  PROVE  Cardinality(Requests) >= 2 * (Threads + 1)
<1>1. /\ at \in [Requests -> Nodes]
      /\ \A q \in Requests, m \in Nodes : engine[m] = q <=> at[q] = m /\ status[q] \in Generating
      /\ \A q \in Requests : AwaitsPeer(q) => peer[q] # at[q]
  BY DEF ServingInv, ServingTypeOK, AwaitsElsewhere
<1>2. \A n \in W : /\ n \in Nodes /\ ~WorkerAnswers(n)
                   /\ \E q \in Requests : engine[n] = q /\ AwaitsPeer(q) /\ peer[q] \in W
  BY DEF MutualWait
<1>3. PICK n \in W : TRUE
  BY DEF MutualWait
<1>4. PICK r \in Requests : engine[n] = r /\ AwaitsPeer(r) /\ peer[r] \in W
  BY <1>2
<1>5. PICK m \in W : m = peer[r]
  BY <1>4
<1>6. at[r] = n /\ m # n
  BY <1>1, <1>2, <1>4, <1>5
<1>7. PICK q \in Requests : engine[m] = q /\ AwaitsPeer(q)
  BY <1>2
<1>8. at[q] = m
  BY <1>1, <1>2, <1>7
<1>9. r # q
  BY <1>6, <1>8
<1> QED
  BY <1>2, <1>4, <1>6, <1>7, <1>9, FullNodes

(* api/chat.rs:30: with fewer than 2 * (Threads + 1) requests no group of  *)
(* nodes waits for itself, however many nodes and threads there are.       *)
THEOREM FewNeverWaitForEachOther ==
  ASSUME IsFiniteSet(Requests), Cardinality(Requests) < 2 * (Threads + 1)
  PROVE  ServingSpec => []NoMutualWait
<1>1. ServingInv => NoMutualWait
  <2> SUFFICES ASSUME ServingInv, NEW W \in SUBSET Nodes, MutualWait(W) PROVE FALSE
    BY DEF NoMutualWait
  <2>1. Cardinality(Requests) >= 2 * (Threads + 1)
    BY MutualWaitTakes
  <2>2. Cardinality(Requests) \in Nat /\ Threads \in Nat
    BY FS_CardinalityType, ServingAssumption
  <2> QED
    BY ONLY <2>1, <2>2, Cardinality(Requests) < 2 * (Threads + 1)
<1> QED
  BY <1>1, ServingInitInv, ServingStep, PTL DEF ServingSpec

-----------------------------------------------------------------------------
(* While a group of nodes waits for itself, an engine of the group is not  *)
(* given back and a handler that is blocked there stays blocked.           *)
LEMMA MutualWaitKept ==
  ASSUME ServingInv, NEW W \in SUBSET Nodes, MutualWait(W), IsFiniteSet(Requests), [ServingNext]_servingVars
  PROVE  MutualWait(W)'
<1>1. /\ status \in [Requests -> Statuses] /\ at \in [Requests -> Nodes]
      /\ peer \in [Requests -> Nodes] /\ engine \in [Nodes -> Requests \cup {NoRequest}]
      /\ \A q \in Requests, m \in Nodes : engine[m] = q <=> at[q] = m /\ status[q] \in Generating
  BY DEF ServingInv, ServingTypeOK
<1>2. /\ W # {}
      /\ \A n \in W : /\ n \in Nodes /\ ~WorkerAnswers(n)
                      /\ \E q \in Requests : engine[n] = q /\ AwaitsPeer(q) /\ peer[q] \in W
  BY DEF MutualWait
<1>3. \A n \in W : engine[n] # NoRequest
  BY <1>2, ServingAssumption
<1>4. at' = at
  BY DEF ServingNext, NodeStep, Send, StartHandler, ListModels, SpawnGeneration, StartGeneration,
         FetchFromWorker, PrefillAlone, FetchAnswered, Publish, EndGeneration, PublishAnswered,
         Release, servingVars
(* A generation of the group that waits goes on waiting.                   *)
<1>5. ASSUME NEW n \in W, NEW q \in Requests, engine[n] = q, AwaitsPeer(q), peer[q] \in W
      PROVE  engine'[n] = q /\ AwaitsPeer(q)' /\ peer'[q] \in W
  <2>1. at[q] = n /\ n \in Nodes /\ status[q] \in {"fetching", "publishing"} /\ ~WorkerAnswers(peer[q])
    BY <1>1, <1>2, <1>5 DEF AwaitsPeer
  <2>2. CASE UNCHANGED servingVars
    BY <1>5, <2>2 DEF servingVars, AwaitsPeer
  <2>3. ASSUME NEW s \in Requests, NEW p, Goto(s, p), s # q,
               \A m \in Nodes \ {at[s]} : engine'[m] = engine[m],
               at[s] = n => engine'[n] = engine[n],
               peer'[q] = peer[q]
        PROVE  engine'[n] = q /\ AwaitsPeer(q)' /\ peer'[q] \in W
    <3>1. status'[q] = status[q]
      BY <1>1, <2>3 DEF Goto
    <3>2. engine'[n] = engine[n]
      BY <2>1, <2>3
    <3> QED
      BY <1>5, <2>1, <2>3, <3>1, <3>2 DEF AwaitsPeer
  <2>4. ASSUME NEW s \in Requests, Send(s) \/ StartHandler(s) \/ ListModels(s) \/ SpawnGeneration(s)
                                   \/ PrefillAlone(s)
        PROVE  engine'[n] = q /\ AwaitsPeer(q)' /\ peer'[q] \in W
    <3>1. /\ s # q /\ engine' = engine /\ peer' = peer
          /\ \E p \in {"sent", "locking", "answered", "spawned", "decode"} : Goto(s, p)
      BY <2>1, <2>4 DEF Send, StartHandler, ListModels, SpawnGeneration, PrefillAlone
    <3> QED
      BY <2>3, <3>1
  <2>5. ASSUME NEW s \in Requests, StartGeneration(s)
        PROVE  engine'[n] = q /\ AwaitsPeer(q)' /\ peer'[q] \in W
    <3>1. /\ s # q /\ engine' = [engine EXCEPT ![at[s]] = s] /\ peer' = peer
          /\ Goto(s, "prefill") /\ at[s] # n
      BY <1>3, <2>1, <2>5 DEF StartGeneration, EngineFree
    <3>2. \A m \in Nodes \ {at[s]} : engine'[m] = engine[m]
      BY <1>1, <3>1
    <3> QED
      BY <2>3, <3>1, <3>2
  <2>6. ASSUME NEW s \in Requests, NEW m \in Nodes, FetchFromWorker(s, m) \/ Publish(s, m)
        PROVE  engine'[n] = q /\ AwaitsPeer(q)' /\ peer'[q] \in W
    <3>1. /\ s # q /\ engine' = engine /\ peer' = [peer EXCEPT ![s] = m]
          /\ \E p \in {"fetching", "publishing"} : Goto(s, p)
      BY <2>1, <2>6 DEF FetchFromWorker, Publish
    <3>2. peer'[q] = peer[q]
      BY <1>1, <3>1
    <3> QED
      BY <2>3, <3>1, <3>2
  <2>7. ASSUME NEW s \in Requests, FetchAnswered(s)
        PROVE  engine'[n] = q /\ AwaitsPeer(q)' /\ peer'[q] \in W
    <3>1. /\ s # q /\ engine' = engine /\ peer' = [peer EXCEPT ![s] = at[s]] /\ Goto(s, "decode")
      BY <2>1, <2>7 DEF FetchAnswered
    <3>2. peer'[q] = peer[q]
      BY <1>1, <3>1
    <3> QED
      BY <2>3, <3>1, <3>2
  <2>8. ASSUME NEW s \in Requests, EndGeneration(s) \/ PublishAnswered(s)
        PROVE  engine'[n] = q /\ AwaitsPeer(q)' /\ peer'[q] \in W
    <3>1. /\ s # q /\ status[s] \in Generating
          /\ engine' = [engine EXCEPT ![at[s]] = NoRequest]
          /\ peer' = [peer EXCEPT ![s] = at[s]] /\ Goto(s, "answered")
      BY <2>1, <2>8 DEF EndGeneration, PublishAnswered, Release, Generating
    <3>2. at[s] # n
      BY <1>1, <1>5, <2>1, <3>1
    <3>3. peer'[q] = peer[q] /\ \A m \in Nodes \ {at[s]} : engine'[m] = engine[m]
      BY <1>1, <3>1
    <3> QED
      BY <2>3, <3>1, <3>2, <3>3
  <2> QED
    BY <2>2, <2>4, <2>5, <2>6, <2>7, <2>8 DEF ServingNext, NodeStep
(* A handler that is blocked in the group stays blocked.                   *)
<1>6. ASSUME NEW n \in W PROVE ~WorkerAnswers(n)'
  <2>1. n \in Nodes /\ engine[n] # NoRequest /\ ~WorkerAnswers(n)
    BY <1>2, <1>3
  <2>2. ASSUME NEW q \in Requests, at[q] = n, status[q] = "locking" PROVE status'[q] = "locking"
    <3>1. CASE UNCHANGED servingVars
      BY <2>2, <3>1 DEF servingVars
    <3>2. ASSUME NEW s \in Requests, NEW p, s # q, Goto(s, p) PROVE status'[q] = "locking"
      BY <1>1, <2>2, <3>2 DEF Goto
    <3>3. ASSUME NEW s \in Requests, Send(s) \/ NodeStep(s)
          PROVE  s # q /\ \E p \in Statuses : Goto(s, p)
      BY <2>1, <2>2, <3>3
         DEF NodeStep, Send, StartHandler, ListModels, SpawnGeneration, StartGeneration,
             FetchFromWorker, PrefillAlone, FetchAnswered, Publish, EndGeneration,
             PublishAnswered, Release, EngineFree, Statuses
    <3> QED
      BY <3>1, <3>2, <3>3 DEF ServingNext
  <2>3. Blocked(n) \subseteq Blocked(n)'
    BY <1>4, <2>2 DEF Blocked
  <2>4. IsFiniteSet(Blocked(n)') /\ Cardinality(Blocked(n)') \in Nat
    <3>1. Blocked(n)' \subseteq Requests
      BY DEF Blocked
    <3> QED
      BY <3>1, FS_Subset, FS_CardinalityType
  <2>5. Cardinality(Blocked(n)) <= Cardinality(Blocked(n)')
    BY <2>3, <2>4, FS_Subset
  <2>6. Cardinality(Blocked(n)) \in Nat /\ Cardinality(Blocked(n)) >= Threads /\ Colocated
    BY <2>1, SilentIsFull DEF WorkerAnswers
  <2>7. Cardinality(Blocked(n)') >= Threads
    BY ONLY <2>4, <2>5, <2>6, ServingAssumption
  <2> QED
    BY <2>4, <2>6, <2>7, ServingAssumption DEF WorkerAnswers, HasFreeThread
<1>7. ASSUME NEW n \in W
      PROVE  \E q \in Requests : engine'[n] = q /\ AwaitsPeer(q)' /\ peer'[q] \in W
  BY <1>2, <1>5
<1> QED
  BY <1>2, <1>6, <1>7 DEF MutualWait

(* A mutual wait is for ever: no thread times out, and no request can make *)
(* the runtimes or the engines of the group free again.                    *)
THEOREM MutualWaitIsForEver ==
  ASSUME IsFiniteSet(Requests), NEW W \in SUBSET Nodes
  PROVE  ServingSpec => [](MutualWait(W) => []MutualWait(W))
<1>1. ServingInv /\ MutualWait(W) /\ [ServingNext]_servingVars => MutualWait(W)'
  BY MutualWaitKept
<1> QED
  BY <1>1, ServingInitInv, ServingStep, PTL DEF ServingSpec
=============================================================================
