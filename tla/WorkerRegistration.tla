------------------------- MODULE WorkerRegistration -------------------------
(***************************************************************************)
(* The registration loop of a worker, run_registration of                  *)
(* distkv/registration.rs (also the main loop of bin/flour-worker.rs),     *)
(* against the Master, in real time.                                       *)
(*                                                                         *)
(* A worker registers until the Master answers, then sleeps                *)
(* HEARTBEAT_INTERVAL between heartbeats; any heartbeat that is not        *)
(* answered with success sends it back to registering.  A request and its  *)
(* response are two steps, and a request whose sender saw an error may     *)
(* still reach the Master later.  The loop sets no deadline on a request;  *)
(* RoundTrip is an assumption on the network: a response, or an error,     *)
(* arrives within that time.                                               *)
(***************************************************************************)
EXTENDS DistKVMaster

CONSTANTS
  HEARTBEAT_INTERVAL,
  RoundTrip,     \* assumed bound on a request and its response
  MaxFaults      \* bound: failed requests and Master restarts

ASSUME RegistrationAssumption ==
  /\ HEARTBEAT_INTERVAL \in Nat
  /\ RoundTrip \in Nat
  /\ HEARTBEAT_INTERVAL + 2 * RoundTrip <= HEARTBEAT_TIMEOUT

VARIABLES
  phase,   \* phase[w]: where the loop of worker w stands
  epoch,   \* epoch[w]: the epoch it heartbeats with, 0 before the first
  until,   \* until[w]: when the phase ends (sleeping) or must have ended
  late,    \* late[w]: failed register requests that may still arrive
  faults   \* faults so far

loopVars == <<phase, epoch, until, late, faults>>
regVars == <<masterVars, loopVars>>

Phases ==
  {"registering",  \* in the retry loop of register
   "registered",   \* the Master has registered it, the response is on its way
   "sleeping",
   "beating",      \* a heartbeat is on its way to the Master
   "accepted",     \* the Master accepted it, the response is on its way
   "rejected",     \* the Master refused it, the response is on its way
   "stopped"}      \* the loop has returned an error

-----------------------------------------------------------------------------
(* Mutant of MasterRegisters: the loop keeps the epoch of its first        *)
(* registration (no `epoch =` at registration.rs:78).                      *)
KeepsFirstEpoch(w, capacity) ==
  /\ phase[w] = "registering"
  /\ RegisterWorker(w, capacity)
  /\ phase' = [phase EXCEPT ![w] = "registered"]
  /\ epoch' = [epoch EXCEPT ![w] = IF @ = 0 THEN workers[w].epoch + 1 ELSE @]
  /\ until' = [until EXCEPT ![w] = now + RoundTrip]
  /\ UNCHANGED <<late, faults>>

MasterRegisters(w, capacity) ==
  /\ phase[w] = "registering"
  /\ RegisterWorker(w, capacity)
  /\ phase' = [phase EXCEPT ![w] = "registered"]
  /\ epoch' = [epoch EXCEPT ![w] = workers[w].epoch + 1]
  /\ until' = [until EXCEPT ![w] = now + RoundTrip]
  /\ UNCHANGED <<late, faults>>

(* register returned, or a heartbeat succeeded: sleep until the next one.  *)
FallAsleep(w) ==
  /\ phase[w] \in {"registered", "accepted"}
  /\ phase' = [phase EXCEPT ![w] = "sleeping"]
  /\ until' = [until EXCEPT ![w] = now + HEARTBEAT_INTERVAL]
  /\ UNCHANGED <<masterVars, epoch, late, faults>>

(* At the end of time a sleeper wakes up early: MaxNow bounds the model,   *)
(* not the worker.                                                         *)
WakeUp(w) ==
  /\ phase[w] = "sleeping"
  /\ now >= until[w] \/ now = MaxNow
  /\ phase' = [phase EXCEPT ![w] = "beating"]
  /\ until' = [until EXCEPT ![w] = now + RoundTrip]
  /\ UNCHANGED <<masterVars, epoch, late, faults>>

MasterAccepts(w) ==
  /\ phase[w] = "beating"
  /\ Heartbeat(w, epoch[w])
  /\ phase' = [phase EXCEPT ![w] = "accepted"]
  /\ UNCHANGED <<epoch, until, late, faults>>

MasterRefuses(w) ==
  /\ phase[w] = "beating"
  /\ ~HeartbeatAccepted(w, epoch[w])
  /\ phase' = [phase EXCEPT ![w] = "rejected"]
  /\ UNCHANGED <<masterVars, epoch, until, late, faults>>

(* Mutant of RegisterAgain: it keeps its epoch and waits for the next      *)
(* heartbeat.                                                              *)
SleepAgain(w) ==
  /\ phase[w] = "rejected"
  /\ phase' = [phase EXCEPT ![w] = "sleeping"]
  /\ until' = [until EXCEPT ![w] = now + HEARTBEAT_INTERVAL]
  /\ UNCHANGED <<masterVars, epoch, late, faults>>

RegisterAgain(w) ==
  /\ phase[w] = "rejected"
  /\ phase' = [phase EXCEPT ![w] = "registering"]
  /\ UNCHANGED <<masterVars, epoch, until, late, faults>>

(* A request or a response is lost: the worker sees an error.              *)
RequestFails(w) ==
  /\ faults < MaxFaults
  /\ phase[w] \in {"registering", "registered", "beating", "accepted"}
  /\ faults' = faults + 1
  /\ phase' = [phase EXCEPT ![w] = "registering"]
  /\ late' = IF phase[w] = "registering" THEN [late EXCEPT ![w] = @ + 1] ELSE late
  /\ UNCHANGED <<masterVars, epoch, until>>

(* The Master registered the worker and its response arrives, but its body *)
(* cannot be read or decoded: `resp.json().await?` returns from register   *)
(* and with it from the loop.                                              *)
RegisterBodyFails(w) ==
  /\ faults < MaxFaults
  /\ phase[w] = "registered"
  /\ faults' = faults + 1
  /\ phase' = [phase EXCEPT ![w] = "stopped"]
  /\ UNCHANGED <<masterVars, epoch, until, late>>

(* A register request the worker gave up on reaches the Master after all.  *)
LateRegister(w, capacity) ==
  /\ late[w] > 0
  /\ RegisterWorker(w, capacity)
  /\ late' = [late EXCEPT ![w] = @ - 1]
  /\ UNCHANGED <<phase, epoch, until, faults>>

LateRegisterLost(w) ==
  /\ late[w] > 0
  /\ late' = [late EXCEPT ![w] = @ - 1]
  /\ UNCHANGED <<masterVars, phase, epoch, until, faults>>

(* "the Master restarted and forgot us" (registration.rs:7).               *)
MasterForgets ==
  /\ faults < MaxFaults
  /\ faults' = faults + 1
  /\ workers' = [w \in Workers |-> UnknownWorker]
  /\ objects' = [k \in Keys |-> AbsentObject]
  /\ UNCHANGED <<now, puts, tickets, acked, routed, stray, misfreed, phase, epoch, until, late>>

(* Time passes, but not past the end of a sleep or of a round trip.        *)
Tick ==
  /\ now < MaxNow
  /\ \A w \in Workers : phase[w] \notin {"registering", "stopped"} => now < until[w]
  /\ SetClock(now + 1)
  /\ UNCHANGED loopVars

-----------------------------------------------------------------------------
RegInit ==
  /\ MasterInit
  /\ phase = [w \in Workers |-> "registering"]
  /\ epoch = [w \in Workers |-> 0]
  /\ until = [w \in Workers |-> 0]
  /\ late = [w \in Workers |-> 0]
  /\ faults = 0

LoopStep(w) ==
  \/ \E c \in Capacities : MasterRegisters(w, c)
  \/ FallAsleep(w)
  \/ WakeUp(w)
  \/ MasterAccepts(w)
  \/ MasterRefuses(w)
  \/ RegisterAgain(w)

RegNext ==
  \/ \E w \in Workers : LoopStep(w)
  \/ \E w \in Workers : RequestFails(w)
  \/ \E w \in Workers : RegisterBodyFails(w)
  \/ \E w \in Workers, c \in Capacities : LateRegister(w, c)
  \/ \E w \in Workers : LateRegisterLost(w)
  \/ MasterForgets
  \/ Tick

RegSpec == RegInit /\ [][RegNext]_regVars

(* The loop keeps running and the network keeps carrying its requests:     *)
(* nothing is assumed of failures, late requests or the Master's restarts. *)
RegFairSpec ==
  RegSpec /\ WF_regVars(Tick) /\ \A w \in Workers : WF_regVars(LoopStep(w))

-----------------------------------------------------------------------------
(* Properties.                                                             *)

InSync(w) == workers[w].epoch > 0 /\ epoch[w] = workers[w].epoch

(* registration.rs:13-14: the heartbeat interval is chosen "so a healthy   *)
(* worker is never marked dead".  A worker that holds the Master's epoch   *)
(* and is in its heartbeat loop is alive to the Master at every instant,   *)
(* whatever the phase of the round trip.                                   *)
HealthyNeverDead ==
  \A w \in Workers :
    InSync(w) /\ phase[w] \in {"registered", "sleeping", "beating", "accepted"} =>
      WorkerIsAlive(workers[w])

(* registration.rs:6-7: the worker re-registers only when a heartbeat is   *)
(* not answered with success.  A registration clears the Master's ledger   *)
(* for the worker and unroutes all it holds, so none may be spontaneous: a *)
(* fault brings about two at most, that of the request that arrives late   *)
(* and the one with which the loop answers it.                             *)
ReregistersOnlyAfterFaults ==
  \A w \in Workers : workers[w].epoch <= 1 + 2 * faults

(* registration.rs:6-7: the worker re-registers, "adopting the new epoch", *)
(* whenever it is refused.  Once failures stop, every worker whose loop    *)
(* still runs ends up known to the Master under the epoch it heartbeats    *)
(* with, for good, however late registrations, lost responses and restarts *)
(* were interleaved.                                                       *)
EventuallyInSync ==
  <>[](\A w \in Workers : InSync(w) \/ phase[w] = "stopped")
=============================================================================
