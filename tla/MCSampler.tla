----------------------------- MODULE MCSampler -----------------------------
(* Three tokens, of which two are kept; logits of both signs, equal ones,  *)
(* and ones far enough apart for the lesser to underflow.                  *)
EXTENDS Sampler

MCLogits == {<<>>} \cup [1 .. 3 -> {-2, 0, 4}]
\* Times in nanoseconds; the second one draws a threshold of 1.
MCSeeds  == {{60}, {25, 30, 59, 60}, {14, 24, 49, 60}}
=============================================================================
