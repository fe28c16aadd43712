---------------------------- MODULE MCKvSession -----------------------------
(* Small instances of a request's life for TLC: blocks of two tokens, a    *)
(* pool of four blocks.                                                    *)
EXTENDS KvSession

CONSTANTS tok_a, tok_b

(* A prompt too short to have a reusable prefix, and three that share      *)
(* their first block: one block-aligned, one that ends in the second block *)
(* and one a token longer than three blocks.                               *)
ShortAndLong ==
  {<<tok_a>>,
   <<tok_a, tok_a, tok_a, tok_a>>,
   <<tok_a, tok_a, tok_b>>,
   <<tok_a, tok_a, tok_b, tok_b, tok_a, tok_a, tok_b>>}

(* Two prompts with nothing in common.                                     *)
Unrelated == {<<tok_a, tok_a, tok_b>>, <<tok_b, tok_a, tok_b, tok_b, tok_a>>}
=============================================================================
