---------------------------- MODULE ServingNodes ----------------------------
(***************************************************************************)
(* The threads and locks of serving nodes: the HTTP handlers of api/chat.rs*)
(* and api/models.rs around Engine::generate, in processes that may also   *)
(* embed a DistKV worker (main.rs, --colocated-worker).                    *)
(*                                                                         *)
(* A node has one engine behind one std Mutex and a runtime with a fixed   *)
(* number of threads, which run every async handler: those of the API and, *)
(* with an embedded worker, those of the worker's data path.  A handler    *)
(* that waits for the Mutex blocks its thread.  The generation itself runs *)
(* on the blocking pool, large enough here, and holds the engine to its    *)
(* end, its remote reads and writes included; no HTTP client sets a        *)
(* deadline.  Nodes and the network do not fail in this module, and the    *)
(* Master, a process of its own, always answers.                           *)
(***************************************************************************)
EXTENDS Naturals, FiniteSets

CONSTANTS
  Nodes,
  Requests,   \* API requests that may be sent
  Threads,    \* threads of each node's runtime
  Colocated,  \* whether the workers are embedded in the nodes
  NoRequest

ASSUME ServingAssumption ==
  /\ Threads \in Nat \ {0}
  /\ Colocated \in BOOLEAN
  /\ NoRequest \notin Requests

VARIABLES
  status,  \* status[r]: where request r stands
  at,      \* at[r]: the node it is sent to
  peer,    \* peer[r]: the node its engine waits for; its own when for none
  engine   \* engine[n]: the request that holds the engine of n

servingVars == <<status, at, peer, engine>>

Statuses ==
  {"unsent",
   "sent",        \* in the node's socket
   "locking",     \* its handler wants the engine, for the model id
   "spawned",     \* its generation wants the engine
   "prefill",
   "fetching",    \* the prefill waits for a worker's answer
   "decode",
   "publishing",  \* the publish waits for a worker's answer
   "answered"}

Generating == {"prefill", "fetching", "decode", "publishing"}

(* Threads of n that are blocked on the engine's Mutex.                    *)
Blocked(n) == {r \in Requests : at[r] = n /\ status[r] = "locking"}

HasFreeThread(n) == Cardinality(Blocked(n)) < Threads

EngineFree(n) == engine[n] = NoRequest

Goto(r, p) == status' = [status EXCEPT ![r] = p]

-----------------------------------------------------------------------------
Send(r) ==
  /\ status[r] = "unsent"
  /\ Goto(r, "sent")
  /\ UNCHANGED <<at, peer, engine>>

(* The runtime gives the request a thread.                                 *)
StartHandler(r) ==
  /\ status[r] = "sent"
  /\ HasFreeThread(at[r])
  /\ Goto(r, "locking")
  /\ UNCHANGED <<at, peer, engine>>

(* list_models: the model id is the answer.                                *)
ListModels(r) ==
  /\ status[r] = "locking"
  /\ EngineFree(at[r])
  /\ Goto(r, "answered")
  /\ UNCHANGED <<at, peer, engine>>

(* chat_completions: the engine is locked for its model id, and released;  *)
(* the generation is then spawned, and the thread is free to serve others. *)
SpawnGeneration(r) ==
  /\ status[r] = "locking"
  /\ EngineFree(at[r])
  /\ Goto(r, "spawned")
  /\ UNCHANGED <<at, peer, engine>>

(* Mutant of StartGeneration: the engine is not locked for the whole call. *)
StartUnlocked(r) ==
  /\ status[r] = "spawned"
  /\ engine' = [engine EXCEPT ![at[r]] = r]
  /\ Goto(r, "prefill")
  /\ UNCHANGED <<at, peer>>

StartGeneration(r) ==
  /\ status[r] = "spawned"
  /\ EngineFree(at[r])
  /\ engine' = [engine EXCEPT ![at[r]] = r]
  /\ Goto(r, "prefill")
  /\ UNCHANGED <<at, peer>>

(* Mutant of FetchFromWorker: a route to the worker in its own process is  *)
(* followed over HTTP too.                                                 *)
FetchFromAnyWorker(r, n) ==
  /\ status[r] = "prefill"
  /\ Goto(r, "fetching")
  /\ peer' = [peer EXCEPT ![r] = n]
  /\ UNCHANGED <<at, engine>>

(* KvSession::prefill asks the worker of another node for a bundle ...     *)
FetchFromWorker(r, n) ==
  /\ status[r] = "prefill"
  /\ n # at[r]
  /\ Goto(r, "fetching")
  /\ peer' = [peer EXCEPT ![r] = n]
  /\ UNCHANGED <<at, engine>>

(* ... or needs none: no route, or one to the worker in its own process.   *)
PrefillAlone(r) ==
  /\ status[r] = "prefill"
  /\ Goto(r, "decode")
  /\ UNCHANGED <<at, peer, engine>>

(* Mutant of WorkerAnswers: the data path waits for the engine too.        *)
AnswersWhenEngineIdle(n) == EngineFree(n) /\ HasFreeThread(n)

(* An embedded worker answers on a thread of its node.                     *)
WorkerAnswers(n) == Colocated => HasFreeThread(n)

FetchAnswered(r) ==
  /\ status[r] = "fetching"
  /\ WorkerAnswers(peer[r])
  /\ Goto(r, "decode")
  /\ peer' = [peer EXCEPT ![r] = at[r]]
  /\ UNCHANGED <<at, engine>>

(* Decoding is over and the bundle goes to the worker of another node.     *)
Publish(r, n) ==
  /\ status[r] = "decode"
  /\ n # at[r]
  /\ Goto(r, "publishing")
  /\ peer' = [peer EXCEPT ![r] = n]
  /\ UNCHANGED <<at, engine>>

Release(r) ==
  /\ Goto(r, "answered")
  /\ engine' = [engine EXCEPT ![at[r]] = NoRequest]
  /\ peer' = [peer EXCEPT ![r] = at[r]]
  /\ UNCHANGED at

(* Nothing to publish elsewhere, or generate failed before.                *)
EndGeneration(r) ==
  /\ status[r] \in {"prefill", "decode"}
  /\ Release(r)

PublishAnswered(r) ==
  /\ status[r] = "publishing"
  /\ WorkerAnswers(peer[r])
  /\ Release(r)

-----------------------------------------------------------------------------
ServingInit ==
  /\ status = [r \in Requests |-> "unsent"]
  /\ at \in [Requests -> Nodes]
  /\ peer = at
  /\ engine = [n \in Nodes |-> NoRequest]

(* Steps that belong to the nodes: they keep running.                      *)
NodeStep(r) ==
  \/ StartHandler(r)
  \/ ListModels(r)
  \/ SpawnGeneration(r)
  \/ StartGeneration(r)
  \/ \E n \in Nodes : FetchFromWorker(r, n)
  \/ PrefillAlone(r)
  \/ FetchAnswered(r)
  \/ \E n \in Nodes : Publish(r, n)
  \/ EndGeneration(r)
  \/ PublishAnswered(r)

ServingNext ==
  \/ \E r \in Requests : Send(r)
  \/ \E r \in Requests : NodeStep(r)

ServingSpec == ServingInit /\ [][ServingNext]_servingVars

(* Threads are scheduled, a Mutex that stays free is taken, and every call *)
(* that can be answered is.  Clients promise nothing.                      *)
ServingFairSpec ==
  ServingSpec /\ \A r \in Requests : WF_servingVars(NodeStep(r))

-----------------------------------------------------------------------------
(* Properties.                                                             *)

(* The variables keep their types, and the holder of an engine is the one  *)
(* generation that runs on its node.                                       *)
ServingTypeOK ==
  /\ status \in [Requests -> Statuses]
  /\ at \in [Requests -> Nodes]
  /\ peer \in [Requests -> Nodes]
  /\ engine \in [Nodes -> Requests \cup {NoRequest}]
  /\ \A r \in Requests, n \in Nodes :
       engine[n] = r <=> at[r] = n /\ status[r] \in Generating

(* r keeps the engine it holds until a worker has answered.                *)
AwaitsPeer(r) == status[r] \in {"fetching", "publishing"}

(* Nodes whose engines are all held until another of them answers, and of  *)
(* which none can.  Nothing will ever change there: a thread comes free    *)
(* only with the engine.                                                   *)
MutualWait(W) ==
  /\ W # {}
  /\ \A n \in W :
       /\ ~WorkerAnswers(n)
       /\ \E r \in Requests : engine[n] = r /\ AwaitsPeer(r) /\ peer[r] \in W

(* api/chat.rs:30, the Mutex that an async handler waits for on a runtime  *)
(* thread: with fewer than 2 * (Threads + 1) requests there is never a     *)
(* group of nodes that wait for each other.                                *)
NoMutualWait == \A W \in SUBSET Nodes : ~MutualWait(W)

(* engine.rs:270-272: "a failure is logged and ignored so inference is     *)
(* never blocked on the remote cache".  Every request that is sent is      *)
(* answered, as long as nodes and network keep running.                    *)
EveryRequestAnswered ==
  \A r \in Requests : status[r] = "sent" ~> status[r] = "answered"
=============================================================================
