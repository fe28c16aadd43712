--------------------------- MODULE KvObjectStore ----------------------------
(***************************************************************************)
(* What an object store of KV bundles promises an engine: the trait of     *)
(* src/src/kv_cache/object_store.rs with the contract its users rely on.   *)
(*                                                                         *)
(* It is a cache: it may miss at any time, and it need not answer with the *)
(* newest object.  What it may never do is answer with bytes that were not *)
(* committed under the key that was asked for: bytes still being written,  *)
(* abandoned, or written by the put of something else.                     *)
(***************************************************************************)
CONSTANTS
  Engines,  \* the callers
  Keys,     \* object keys
  Puts,     \* identities of puts; the bytes of a put are named by it
  Miss      \* Ok(None)

VARIABLES
  committed,  \* pairs <<key, put>> whose put_object was committed
  answer      \* answer[e]: the key and value of the last get_object of e

Init ==
  /\ committed = {}
  /\ answer = [e \in Engines |-> Miss]

Commit(k, p) ==
  /\ committed' = committed \cup {<<k, p>>}
  /\ UNCHANGED answer

Answer(e, a) ==
  /\ a \in committed \cup {Miss}
  /\ answer' = [answer EXCEPT ![e] = a]
  /\ UNCHANGED committed

Next ==
  \/ \E k \in Keys, p \in Puts : Commit(k, p)
  \/ \E e \in Engines : \E a \in committed \cup {Miss} : Answer(e, a)

Spec == Init /\ [][Next]_<<committed, answer>>
=============================================================================
