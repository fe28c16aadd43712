-------------------------------- MODULE Chat --------------------------------
(***************************************************************************)
(* A chat completion from the request to the last byte of its answer:      *)
(* chat_completions of api/chat.rs with the types of api/openai.rs, the    *)
(* loop of Engine::generate (engine.rs) on the blocking pool, the          *)
(* unbounded channel between the two, and a client that may leave.         *)
(*                                                                         *)
(* Three parties act for a request: its handler, its generation, which     *)
(* holds the engine's Mutex from before the prefill to its end, and the    *)
(* body of the response, which the server polls while the client is there. *)
(* The KV side of a generation is module KvSession; here a prefill or a    *)
(* forward pass succeeds or fails.  Which threads these run on is module   *)
(* ServingNodes.  Serialising a chunk does not fail.                       *)
(***************************************************************************)
EXTENDS Sampling

CONSTANTS
  Requests,    \* names of requests
  Bodies,      \* Bodies[r]: what its client may send, a ChatCompletionRequest
  LogitRows,   \* rows of logits the network may produce
  Text(_),     \* decode of one token: its characters
  EosTokens,   \* eos_token_id
  Prompt,      \* the tokens of the rendered and encoded messages
  Defaults,    \* SamplingParams::default()
  MaxPanics,   \* bound: generations that panic
  NoRequest

OptionalNat == {None} \cup Nat

(* What serde accepts: top_p is a fraction, its weight a natural number.   *)
ChatCompletionRequest ==
  [messages : Nat, stream : BOOLEAN, include_usage : BOOLEAN, temperature : OptionalNat,
   top_p : {None} \cup (Nat \X Nat), top_k : OptionalNat, max_tokens : OptionalNat,
   stop : {None} \cup SUBSET Seq(STRING)]

SamplingParams ==
  [temperature : Nat, top_p : {None} \cup (Nat \X Nat), top_k : OptionalNat, max_tokens : Nat]

ASSUME ChatAssumption ==
  /\ \A r \in Requests : Bodies[r] \subseteq ChatCompletionRequest
  /\ LogitRows \subseteq [Tokens -> {NaN} \cup Int]
  /\ NaN \notin Int /\ None \notin Nat
  /\ Defaults \in SamplingParams
  /\ Prompt \in Seq(Tokens)
  /\ EosTokens \subseteq Tokens
  /\ NoRequest \notin Requests
  /\ MaxPanics \in Nat

VARIABLES
  body,      \* body[r]: what was sent
  client,    \* client[r]: "new", "waiting", "reading", "answered" or "left"
  received,  \* received[r]: the events or the answer the client has got
  task,      \* task[r]: where the generation of r stands
  next,      \* the token just sampled, and from what
  generated, \* generated[r]: the tokens passed to on_token, in order
  stopped,   \* stopped[r]: the token that completed a stop string, if any
  channel,   \* channel[r]: pieces sent and not yet received
  result,    \* result[r]: what the generation returned
  engine,    \* the request whose generation holds the Mutex
  poisoned,  \* whether the Mutex is poisoned
  panics

clientVars == <<body, client, received>>
loopVars == <<next, generated, stopped, result>>
lockVars == <<engine, poisoned, panics>>
chatVars == <<clientVars, task, loopVars, channel, lockVars>>

Holding == {"sample", "deliver", "publish"}

-----------------------------------------------------------------------------
(* SamplingParams::from: the fields that are there, else the defaults.     *)
OrElse(field, default) == IF field = None THEN default ELSE field

Params(r) ==
  [temperature |-> OrElse(body[r].temperature, Defaults.temperature),
   top_p |-> OrElse(body[r].top_p, Defaults.top_p),
   top_k |-> OrElse(body[r].top_k, Defaults.top_k),
   max_tokens |-> OrElse(body[r].max_tokens, Defaults.max_tokens),
   stop |-> OrElse(body[r].stop, {})]

TextOf(tokens) == FlattenSeq([i \in DOMAIN tokens |-> Text(tokens[i])])

EndsWith(text, s) == IsSuffix(s, text)

(* A stop string is at the end of what was generated with piece t.         *)
Stops(r, t) ==
  \E s \in Params(r).stop : s # << >> /\ EndsWith(TextOf(Append(generated[r], t)), s)

NotYet == [kind |-> "none"]
Failed == [kind |-> "failed"]
Stats(reason, n) == [kind |-> "ok", finish_reason |-> reason, completion_tokens |-> n]

(* Chunks and bodies of answers, reduced to what tells them apart.         *)
RoleChunk == [type |-> "role"]
DeltaChunk(t) == [type |-> "delta", token |-> t]
FinishChunk(stats) == [type |-> "finish", finish_reason |-> stats.finish_reason]
UsageChunk(stats) == [type |-> "usage", completion_tokens |-> stats.completion_tokens]
DoneMark == [type |-> "[DONE]"]
Answer(tokens, stats) ==
  [type |-> "answer", tokens |-> tokens, finish_reason |-> stats.finish_reason,
   completion_tokens |-> stats.completion_tokens]
ErrorAnswer(status) == [type |-> "error", status |-> status]

Goto(r, where) == task' = [task EXCEPT ![r] = where]

Receives(r, event) == received' = [received EXCEPT ![r] = Append(@, event)]

Becomes(r, state) == client' = [client EXCEPT ![r] = state]

-----------------------------------------------------------------------------
(* The handler.                                                            *)

Send(r, b) ==
  /\ client[r] = "new"
  /\ Becomes(r, "waiting")
  /\ body' = [body EXCEPT ![r] = b]
  /\ UNCHANGED <<received, task, loopVars, channel, lockVars>>

Answers(r, answer) ==
  /\ Receives(r, answer)
  /\ Becomes(r, "answered")
  /\ UNCHANGED <<body, task, loopVars, channel, lockVars>>

RefuseEmpty(r) ==
  /\ client[r] = "waiting" /\ task[r] = "none"
  /\ body[r].messages = 0
  /\ Answers(r, ErrorAnswer(400))

(* From here to the spawn the handler does not await: a client that leaves *)
(* does not stop it.                                                       *)
StartHandler(r) ==
  /\ client[r] = "waiting" /\ task[r] = "none"
  /\ body[r].messages # 0
  /\ Goto(r, "locking")
  /\ UNCHANGED <<clientVars, loopVars, channel, lockVars>>

(* The engine is locked for its model id and released; then the generation *)
(* is spawned and, for a stream, the response begins.                      *)
SpawnGeneration(r) ==
  /\ task[r] = "locking"
  /\ ~poisoned /\ engine = NoRequest
  /\ Goto(r, "spawned")
  /\ IF body[r].stream /\ client[r] = "waiting" THEN Becomes(r, "reading")
     ELSE UNCHANGED client
  /\ UNCHANGED <<body, received, loopVars, channel, lockVars>>

-----------------------------------------------------------------------------
(* The generation.                                                         *)

(* Mutant of LockEngine: the Mutex is not waited for.                      *)
LockTwice(r) ==
  /\ task[r] = "spawned"
  /\ ~poisoned
  /\ engine' = r
  /\ Goto(r, "sample")
  /\ UNCHANGED <<clientVars, loopVars, channel, poisoned, panics>>

(* The engine is locked and the prefill runs.                              *)
LockEngine(r) ==
  /\ task[r] = "spawned"
  /\ ~poisoned /\ engine = NoRequest
  /\ engine' = r
  /\ Goto(r, "sample")
  /\ UNCHANGED <<clientVars, loopVars, channel, poisoned, panics>>

(* The handler answers 500; the generation returns an error.               *)
EngineIsPoisoned(r) ==
  /\ task[r] \in {"locking", "spawned"}
  /\ poisoned
  /\ Goto(r, "ended")
  /\ result' = [result EXCEPT ![r] = Failed]
  /\ UNCHANGED <<clientVars, next, generated, stopped, channel, lockVars>>

(* Mutant of Ends: the guard is leaked.                                    *)
EndsLocked(r) == Goto(r, "ended") /\ UNCHANGED engine

(* generate ends: on_token, the sender of the channel, is dropped, then    *)
(* the guard of the Mutex, and the join handle becomes ready.              *)
Ends(r) ==
  /\ Goto(r, "ended")
  /\ engine' = NoRequest

(* `?` on the prefill or on the last forward pass, before the next token   *)
(* is sampled, or on the decoding of a token.                              *)
GenerateFails(r) ==
  /\ \/ task[r] = "sample"
     \/ task[r] = "deliver" /\ next.token \notin EosTokens
  /\ Ends(r)
  /\ result' = [result EXCEPT ![r] = Failed]
  /\ next' = NotYet
  /\ UNCHANGED <<clientVars, generated, stopped, channel, poisoned, panics>>

LeaveLoop(r, reason, completion_tokens) ==
  /\ Goto(r, "publish")
  /\ result' = [result EXCEPT ![r] = Stats(reason, completion_tokens)]

(* The budget of take(max_tokens) is used up.                              *)
StopAtLength(r) ==
  /\ task[r] = "sample"
  /\ Len(generated[r]) = Params(r).max_tokens
  /\ LeaveLoop(r, "length", Len(generated[r]))
  /\ UNCHANGED <<clientVars, next, generated, stopped, channel, lockVars>>

(* Penalty and sampling of the next token.                                 *)
Sample(r) ==
  /\ task[r] = "sample"
  /\ Len(generated[r]) < Params(r).max_tokens
  /\ \E row \in LogitRows :
       LET logits == Penalised(row, Prompt \o generated[r]) IN
       \E t \in Samples(logits, Params(r)) :
         next' = [kind |-> "sampled", logits |-> logits, token |-> t]
  /\ Goto(r, "deliver")
  /\ UNCHANGED <<clientVars, generated, stopped, result, channel, lockVars>>

(* An end-of-sequence token is neither counted nor emitted.                *)
StopAtEos(r) ==
  /\ task[r] = "deliver"
  /\ next.token \in EosTokens
  /\ next' = NotYet
  /\ LeaveLoop(r, "stop", Len(generated[r]))
  /\ UNCHANGED <<clientVars, generated, stopped, channel, lockVars>>

(* Mutant of StopAtString: its token is left out of the count.             *)
StopUncounted(r) ==
  /\ task[r] = "deliver"
  /\ next.token \notin EosTokens
  /\ Stops(r, next.token)
  /\ stopped' = [stopped EXCEPT ![r] = <<next.token>>]
  /\ next' = NotYet
  /\ LeaveLoop(r, "stop", Len(generated[r]))
  /\ UNCHANGED <<clientVars, generated, channel, lockVars>>

(* The token that completes a stop string is counted but not emitted.      *)
StopAtString(r) ==
  /\ task[r] = "deliver"
  /\ next.token \notin EosTokens
  /\ Stops(r, next.token)
  /\ stopped' = [stopped EXCEPT ![r] = <<next.token>>]
  /\ next' = NotYet
  /\ LeaveLoop(r, "stop", Len(generated[r]) + 1)
  /\ UNCHANGED <<clientVars, generated, channel, lockVars>>

(* on_token: the handler's closure sends the piece to the response, or, if *)
(* not a stream, appends it to the text.  Then the token runs through the  *)
(* network, be it the last of the budget.                                  *)
Emit(r) ==
  /\ task[r] = "deliver"
  /\ next.token \notin EosTokens
  /\ ~Stops(r, next.token)
  /\ generated' = [generated EXCEPT ![r] = Append(@, next.token)]
  /\ channel' = IF client[r] = "reading"
                THEN [channel EXCEPT ![r] = Append(@, next.token)]
                ELSE channel
  /\ next' = NotYet
  /\ Goto(r, "sample")
  /\ UNCHANGED <<clientVars, stopped, result, lockVars>>

(* publish_best_effort returns, however it ends.                           *)
Publish(r) ==
  /\ task[r] = "publish"
  /\ Ends(r)
  /\ UNCHANGED <<clientVars, loopVars, channel, poisoned, panics>>

(* A panic while the Mutex is held: it ends the task and poisons the Mutex.*)
Panic(r) ==
  /\ task[r] \in Holding
  /\ panics < MaxPanics
  /\ panics' = panics + 1
  /\ poisoned' = TRUE
  /\ Ends(r)
  /\ next' = NotYet
  /\ result' = [result EXCEPT ![r] = Failed]
  /\ UNCHANGED <<clientVars, generated, stopped, channel>>

-----------------------------------------------------------------------------
(* The body of the response.                                               *)

(* Mutant of Closing: [DONE] is sent in any case.                          *)
ClosingAnyhow(r) ==
  IF result[r].kind # "ok" THEN <<DoneMark>>
  ELSE <<FinishChunk(result[r])>>
         \o (IF body[r].include_usage THEN <<UsageChunk(result[r])>> ELSE << >>)
         \o <<DoneMark>>

(* The events that follow the join of a generation.                        *)
Closing(r) ==
  IF result[r].kind # "ok" THEN << >>
  ELSE <<FinishChunk(result[r])>>
         \o (IF body[r].include_usage THEN <<UsageChunk(result[r])>> ELSE << >>)
         \o <<DoneMark>>

(* How many closing events the client has.                             *)
ClosingSent(r) ==
  Cardinality({i \in DOMAIN received[r] : received[r][i].type \notin {"role", "delta"}})

StreamRole(r) ==
  /\ client[r] = "reading"
  /\ received[r] = << >>
  /\ Receives(r, RoleChunk)
  /\ UNCHANGED <<body, client, task, loopVars, channel, lockVars>>

StreamDelta(r) ==
  /\ client[r] = "reading"
  /\ received[r] # << >>
  /\ channel[r] # << >>
  /\ Receives(r, DeltaChunk(Head(channel[r])))
  /\ channel' = [channel EXCEPT ![r] = Tail(@)]
  /\ UNCHANGED <<body, client, task, loopVars, lockVars>>

(* Mutant of Joined: the channel is not drained first.                     *)
JoinedUndrained(r) == received[r] # << >> /\ task[r] = "ended"

(* recv returns None, no sender being left, and the handle is joined.      *)
Joined(r) == received[r] # << >> /\ channel[r] = << >> /\ task[r] = "ended"

StreamClosing(r) ==
  /\ client[r] = "reading"
  /\ Joined(r)
  /\ ClosingSent(r) < Len(Closing(r))
  /\ Receives(r, Closing(r)[ClosingSent(r) + 1])
  /\ UNCHANGED <<body, client, task, loopVars, channel, lockVars>>

StreamEnds(r) ==
  /\ client[r] = "reading"
  /\ Joined(r)
  /\ ClosingSent(r) = Len(Closing(r))
  /\ Becomes(r, "answered")
  /\ UNCHANGED <<body, received, task, loopVars, channel, lockVars>>

(* Not a stream: the handler awaited the generation.                       *)
AnswerWhole(r) ==
  /\ client[r] = "waiting"
  /\ task[r] = "ended"
  /\ Answers(r, IF result[r].kind = "ok" THEN Answer(generated[r], result[r])
                ELSE ErrorAnswer(500))

(* The connection goes away: the response, or the handler that awaits the  *)
(* generation, is dropped; the generation is not.                          *)
ClientLeaves(r) ==
  /\ client[r] \in {"waiting", "reading"}
  /\ Becomes(r, "left")
  /\ channel' = [channel EXCEPT ![r] = << >>]
  /\ UNCHANGED <<body, received, task, loopVars, lockVars>>

-----------------------------------------------------------------------------
ChatInit ==
  /\ body = [r \in Requests |-> None]
  /\ client = [r \in Requests |-> "new"]
  /\ received = [r \in Requests |-> << >>]
  /\ task = [r \in Requests |-> "none"]
  /\ next = NotYet
  /\ generated = [r \in Requests |-> << >>]
  /\ stopped = [r \in Requests |-> << >>]
  /\ channel = [r \in Requests |-> << >>]
  /\ result = [r \in Requests |-> NotYet]
  /\ engine = NoRequest
  /\ poisoned = FALSE
  /\ panics = 0

HandlerStep(r) ==
  \/ RefuseEmpty(r)
  \/ StartHandler(r)
  \/ SpawnGeneration(r)
  \/ AnswerWhole(r)

GenerationStep(r) ==
  \/ LockEngine(r)
  \/ EngineIsPoisoned(r)
  \/ GenerateFails(r)
  \/ StopAtLength(r)
  \/ Sample(r)
  \/ StopAtEos(r)
  \/ StopAtString(r)
  \/ Emit(r)
  \/ Publish(r)

StreamStep(r) ==
  \/ StreamRole(r)
  \/ StreamDelta(r)
  \/ StreamClosing(r)
  \/ StreamEnds(r)

ServerStep(r) == HandlerStep(r) \/ GenerationStep(r) \/ StreamStep(r)

ChatNext ==
  \E r \in Requests :
    \/ \E b \in Bodies[r] : Send(r, b)
    \/ ServerStep(r)
    \/ Panic(r)
    \/ ClientLeaves(r)

ChatSpec == ChatInit /\ [][ChatNext]_chatVars

(* Threads are scheduled, a Mutex that stays free is taken, every pass     *)
(* through the network and every publish ends, and the server polls the    *)
(* response of a client that is there.  Clients promise nothing.           *)
ChatFairSpec == ChatSpec /\ \A r \in Requests : WF_chatVars(ServerStep(r))

-----------------------------------------------------------------------------
(* Properties.                                                             *)

(* The variables keep their types, and the Mutex is held by the one        *)
(* generation that is between its lock and its end.                        *)
ChatTypeOK ==
  /\ \A r \in Requests : body[r] \in Bodies[r] \cup {None}
  /\ client \in [Requests -> {"new", "waiting", "reading", "answered", "left"}]
  /\ task \in [Requests -> {"none", "locking", "spawned", "ended"} \cup Holding]
  /\ \A r \in Requests : {generated[r], stopped[r], channel[r]} \subseteq Seq(Tokens)
  /\ \A r \in Requests : (task[r] \in Holding) <=> (engine = r)

Deltas(r) == [i \in DOMAIN generated[r] |-> DeltaChunk(generated[r][i])]

(* chat.rs:53-114: at any moment, wherever the client leaves and whatever  *)
(* fails, a stream is a prefix of the role, the pieces in the order they   *)
(* were generated and, once all of them are out and the generation has     *)
(* succeeded, its one finish chunk, the usage if asked for, and [DONE].    *)
StreamIsPrefix ==
  \A r \in Requests :
    body[r] # None /\ body[r].stream /\ task[r] \notin {"none", "locking"} =>
      \/ IsPrefix(received[r],
                  <<RoleChunk>> \o Deltas(r)
                    \o (IF task[r] = "ended" THEN Closing(r) ELSE << >>))
      \/ received[r] = <<ErrorAnswer(500)>> /\ poisoned

(* chat.rs:108-113: a stream that ends without [DONE] is how a failure is  *)
(* told; a client that stayed can rely on it in both directions, and one   *)
(* that gets [DONE] has every piece that was generated.                    *)
DoneIffComplete ==
  \A r \in Requests :
    client[r] = "answered" /\ received[r] # << >> /\ received[r][1] = RoleChunk =>
      /\ (Last(received[r]) = DoneMark) <=> (result[r].kind = "ok")
      /\ result[r].kind = "ok" =>
           received[r] = <<RoleChunk>> \o Deltas(r) \o Closing(r)

CountOf(type, r) == Cardinality({i \in DOMAIN received[r] : received[r][i].type = type})

(* engine.rs:215-252: the usage a client reads is the number of pieces it  *)
(* got, plus the one token a stop string swallowed; it is within           *)
(* max_tokens, and "length" is said exactly when the budget is used up     *)
(* with nothing swallowed.                                                 *)
UsageMatchesPieces ==
  \A r \in Requests : \A i \in DOMAIN received[r] :
    LET event == received[r][i]
        pieces == IF event.type = "answer" THEN Len(event.tokens) ELSE CountOf("delta", r) IN
    /\ event.type \in {"usage", "answer"} =>
         /\ event.completion_tokens = pieces + Len(stopped[r])
         /\ event.completion_tokens <= Params(r).max_tokens
    /\ event.type \in {"finish", "answer"} =>
         (event.finish_reason = "length" <=> pieces = Params(r).max_tokens)

(* sampling.rs:58-77: a sampled token is one that the options allow: among *)
(* the top_k heaviest up to ties, with less than top_p of the weight above *)
(* it, never one whose probability vanished; and the largest logit where   *)
(* the options leave no choice.  Only the two edge tokens are exempt.      *)
SampledWithinOptions ==
  next # NotYet =>
    LET r == engine
        options == Params(r) IN
    IF Forced(next.logits, options) THEN next.token = ArgMax(next.logits)
    ELSE InNucleus(next.logits, options, next.token) \/ next.token \in {0, VocabSize - 1}

(* Every client that stays is answered, and every generation ends and lets *)
(* go of the engine, also one whose client has left.                       *)
EveryRequestEnds ==
  \A r \in Requests :
    (client[r] = "waiting") ~>
      (client[r] \in {"answered", "left"} /\ task[r] \in {"none", "ended"})
=============================================================================
