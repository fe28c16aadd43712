------------------------------- MODULE MCChat -------------------------------
(* A small instance of chat completions for TLC: four tokens, "a", "x",    *)
(* "y" and the end of the sequence.                                        *)
EXTENDS Chat

CONSTANTS r1, r2

SomeText(t) == CASE t = 0 -> <<"a">> [] t = 1 -> <<"x">> [] t = 2 -> <<"y">> [] OTHER -> << >>

Row(l0, l1, l2, l3) == [t \in 0..3 |-> <<l0, l1, l2, l3>>[t + 1]]

(* One token stands out; a tie; not all are numbers.                       *)
SomeRows == {Row(6, 2, 4, -6), Row(2, 8, 0, 8), Row(NaN, 2, 2, 0)}

(* Halves with every step away from the top, and underflows.               *)
SomeWeight(gap, temperature) == IF gap > 4 * temperature THEN 0 ELSE 2^(4 - gap \div temperature)

SomePrompt == <<1>>

SomeDefaults ==
  [temperature |-> 1, top_p |-> None, top_k |-> None, max_tokens |-> 1]

Minimal ==
  [messages |-> 1, stream |-> FALSE, include_usage |-> FALSE, temperature |-> None,
   top_p |-> None, top_k |-> None, max_tokens |-> None, stop |-> None]

Stream == [Minimal EXCEPT !.stream = TRUE]

SomeBodies ==
  (r1 :> {[Minimal EXCEPT !.messages = 0],
          [Stream EXCEPT !.include_usage = TRUE, !.max_tokens = 2, !.top_k = 2,
                         !.stop = {<<"x", "y">>}]})
  @@
  (r2 :> {[Minimal EXCEPT !.temperature = 0],
          [Stream EXCEPT !.temperature = 2, !.top_p = <<1, 2>>,
                         !.stop = {<<"y">>, << >>}]})
=============================================================================
