----------------------------- MODULE WorkerNode -----------------------------
(***************************************************************************)
(* The memory of a worker process: the WorkerStore of distkv/worker.rs and *)
(* the committed index of LocalKvHandle, kv_cache/local.rs, that an engine *)
(* in the same process reads through.                                      *)
(*                                                                         *)
(* Each has its own mutex, so an action here is one critical section.  The *)
(* bytes of an object are named by the put that wrote them, with their     *)
(* length; put 0 is "no entry".                                            *)
(***************************************************************************)
EXTENDS Integers, FiniteSetsExt, Functions

CONSTANTS
  Workers,
  Keys,
  Capacity,       \* Capacity[w]: the bytes worker w is started with
  MaxGeneration   \* bound: generations of a slot

VARIABLES
  store,           \* store[w]: the WorkerStore
  committed_index  \* committed_index[w][k]: generation, 0 when none

Slots == Keys \X (1..MaxGeneration)

NoBytes == [put_id |-> 0, len |-> 0]

NewStore == [objects |-> [s \in Slots |-> NoBytes], used_bytes |-> 0]

NewIndex == [k \in Keys |-> 0]

NodeInit ==
  /\ store = [w \in Workers |-> NewStore]
  /\ committed_index = [w \in Workers |-> NewIndex]

-----------------------------------------------------------------------------
GetBytes(w, k, generation) == store[w].objects[<<k, generation>>]

HasBytes(w, k, generation) == GetBytes(w, k, generation).put_id # 0

(* Mutants of NewUsed: the bytes that are replaced stay counted; the new   *)
(* ones are never counted.                                                 *)
UsedWithReplaced(w, k, generation, len) == store[w].used_bytes + len

UsedWithoutNew(w, k, generation, len) ==
  store[w].used_bytes - GetBytes(w, k, generation).len

(* used_bytes once the slot holds len bytes instead of what it holds now.  *)
NewUsed(w, k, generation, len) ==
  store[w].used_bytes - GetBytes(w, k, generation).len + len

PutFits(w, k, generation, len) == NewUsed(w, k, generation, len) <= Capacity[w]

(* put_bytes that succeeds; one that does not fit changes nothing.         *)
PutBytes(w, k, generation, bytes) ==
  /\ PutFits(w, k, generation, bytes.len)
  /\ store' = [store EXCEPT
       ![w].objects[<<k, generation>>] = bytes,
       ![w].used_bytes = NewUsed(w, k, generation, bytes.len)]

(* delete_generation: only the DELETE handler calls it, and no client of   *)
(* this repository sends that request.                                     *)
DeleteGeneration(w, k, generation) ==
  /\ HasBytes(w, k, generation)
  /\ store' = [store EXCEPT
       ![w].objects[<<k, generation>>] = NoBytes,
       ![w].used_bytes = IF @ >= GetBytes(w, k, generation).len
                         THEN @ - GetBytes(w, k, generation).len ELSE 0]
  /\ UNCHANGED committed_index

(* mark_committed: an insert, whatever generation was there.               *)
MarkCommitted(w, k, generation) ==
  committed_index' = [committed_index EXCEPT ![w][k] = generation]

(* The process dies and comes back with nothing: all of it is memory.      *)
WipeNode(w) ==
  /\ store' = [store EXCEPT ![w] = NewStore]
  /\ committed_index' = [committed_index EXCEPT ![w] = NewIndex]

-----------------------------------------------------------------------------
(* The worker's tables hold what their Rust types say.                     *)
NodeTypeOK ==
  /\ store \in [Workers -> [objects : [Slots -> [put_id : Nat, len : Nat]],
                           used_bytes : Nat]]
  /\ committed_index \in [Workers -> [Keys -> 0..MaxGeneration]]

(* used_bytes is always the number of bytes the store holds, and that is   *)
(* within its capacity: overwriting a slot, rejecting a write and deleting *)
(* never lose count, so `used_bytes - prev_len` cannot underflow.          *)
StoreUsedExact ==
  \A w \in Workers :
    /\ store[w].used_bytes =
         SumFunctionOnSet([s \in Slots |-> store[w].objects[s].len], Slots)
    /\ store[w].used_bytes <= Capacity[w]
=============================================================================
