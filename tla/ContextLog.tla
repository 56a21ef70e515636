---------------------------- MODULE ContextLog ----------------------------
(***************************************************************************)
(* What the forward pass promises to the code that calls it, with no cache *)
(* in sight: a log of the tokens the model has been given since the last   *)
(* reset, and logits that are computed from that log, all of it and        *)
(* nothing else.                                                           *)
(***************************************************************************)
EXTENDS Integers, Sequences

CONSTANTS Token,     \* the vocabulary
          Capacity   \* how many tokens the context can hold

VARIABLES log,       \* the tokens of the context, oldest first
          basis      \* the tokens the most recent logits were computed from

clvars == <<log, basis>>

IsExtension(new, old) ==
    /\ Len(old) < Len(new)
    /\ \A i \in 1..Len(old) : new[i] = old[i]

CLInit ==
    /\ log = <<>>
    /\ basis = <<>>

\* One pass of the model: the context grows, within its capacity, and the
\* logits answer the whole of it.
Extend ==
    /\ log' \in Seq(Token)
    /\ IsExtension(log', log)
    /\ Len(log') <= Capacity
    /\ basis' = log'

\* The context is forgotten. Logits already handed out stay what they are.
Clear ==
    /\ log' = <<>>
    /\ UNCHANGED basis

CLNext == Extend \/ Clear

CLSpec == CLInit /\ [][CLNext]_clvars
=============================================================================
