------------------------------ MODULE Sampler ------------------------------
(***************************************************************************)
(* src/logits.rs: sample_token, as the generation loop calls it for the    *)
(* tokens of one reply, with the random state and the recent tokens it     *)
(* carries from call to call.                                              *)
(*                                                                         *)
(* Floats are integers here. The penalty and the temperature act on them   *)
(* as on floats; exp of a difference to the greatest logit becomes a       *)
(* decreasing power of two that is zero from Underflow on, as exp is in    *)
(* f32 from about 104 on; probabilities stay fractions of their sum.       *)
(* Where f32 rounds, a comparison of equals may go either way.             *)
(***************************************************************************)
EXTENDS Integers, Sequences, SequencesExt, FiniteSets, FiniteSetsExt

CONSTANTS
    Logits,      \* the logits a forward pass may return, a set of sequences
    Temps,       \* 2 * temperature, as the command line may set it
    TopPs,       \* 100 * top_p, likewise
    TopK,        \* top_k
    Penalty,     \* repeat_penalty
    Window,      \* how many tokens the loop keeps for the penalty
    Underflow,
    Seeds,       \* what rng_seed_from_time may return
    Width,       \* bits of the random state: 64
    MaxCalls

ASSUME SamplerAssumption ==
    /\ TopK \in Nat \ {0} /\ Penalty \in Nat \ {0} /\ Width \in Nat
    /\ Seeds \subseteq (SUBSET (0 .. Width - 1)) \ {{}}
    /\ Underflow \in Nat \ {0} /\ Window \in Nat \ {0} /\ MaxCalls \in Nat
    /\ Logits \subseteq Seq(Int) /\ Temps \subseteq Int /\ TopPs \subseteq Int
-----------------------------------------------------------------------------
(* xorshift64. A word is the set of its bits that are 1.                   *)

Bits == 0 .. Width - 1

Shl(x, n) == {b + n : b \in x} \cap Bits
Shr(x, n) == {b - n : b \in x} \cap Bits
Xor(x, y) == (x \cup y) \ (x \cap y)

\* Mutant: the last shift is assigned, not xored.
Xorshift_ShiftOnly(x) ==
    LET x1 == Xor(x, Shl(x, 13))
        x2 == Xor(x1, Shr(x1, 7))
    IN Shl(x2, 17)

Xorshift(x) ==
    LET x1 == Xor(x, Shl(x, 13))
        x2 == Xor(x1, Shr(x1, 7))
    IN Xor(x2, Shl(x2, 17))

\* r as f32 / u64::MAX as f32 in sixteenths: what the four leading bits
\* say, or one more, since the conversion rounds.
Grid == 16
Leading(x) == LET bit(b) == IF b \in x THEN 1 ELSE 0
              IN  8 * bit(Width - 1) + 4 * bit(Width - 2) + 2 * bit(Width - 3) + bit(Width - 4)
Thresholds(x) == {Leading(x), Leading(x) + 1}
-----------------------------------------------------------------------------
(* The steps of sample_token, on a sequence of logits; id i is element i+1 *)

Lessened_Divided(x) == x \div Penalty  \* mutant: what is negative rises
Lessened(x) == IF x > 0 THEN x \div Penalty ELSE x * Penalty

\* apply_repeat_penalty: once for every time the token occurs.
Penalised(logits, ids) ==
    LET after[n \in 0 .. Len(ids)] ==
            IF n = 0 THEN logits
            ELSE [after[n - 1] EXCEPT ![ids[n] + 1] = Lessened(@)]
    IN  after[Len(ids)]

Heated(logits, temp) == [i \in DOMAIN logits |-> (2 * logits[i]) \div temp]

\* Mutant: the comparison is the other way round.
Orders_Ascending(logits) ==
    LET k == Min({TopK, Len(logits)})
    IN {s \in [1 .. k -> 0 .. Len(logits) - 1] :
            /\ IsInjective(s)
            /\ \A i \in 1 .. k - 1 : logits[s[i] + 1] <= logits[s[i + 1] + 1]
            /\ \A id \in (0 .. Len(logits) - 1) \ Range(s) : logits[id + 1] >= logits[s[k] + 1]}

\* The k greatest in descending order, equals in any order: both sorts are
\* unstable.
Orders(logits) ==
    LET k == Min({TopK, Len(logits)})
    IN {s \in [1 .. k -> 0 .. Len(logits) - 1] :
            /\ IsInjective(s)
            /\ \A i \in 1 .. k - 1 : logits[s[i] + 1] >= logits[s[i + 1] + 1]
            /\ \A id \in (0 .. Len(logits) - 1) \ Range(s) : logits[id + 1] <= logits[s[k] + 1]}

Power[n \in 0 .. Underflow] == IF n = 0 THEN 1 ELSE 2 * Power[n - 1]

\* The softmax of a token, in units of the least that is not zero.
Weight(logits, order, i) ==
    LET d == logits[order[1] + 1] - logits[order[i] + 1]
    IN IF d < Underflow THEN Power[Underflow - 1 - d] ELSE 0

\* The sums of the first 0, 1, 2, ... of them.
Mass(logits, order) ==
    LET sum[n \in 0 .. Len(order)] ==
            IF n = 0 THEN 0 ELSE sum[n - 1] + Weight(logits, order, n)
    IN  sum

\* Mutant: the token that reaches top_p is left out.
Cutoff_Exclusive(logits, order, topP, slack) ==
    LET reached == {n \in DOMAIN order :
            100 * Mass(logits, order)[n] - slack >= topP * Mass(logits, order)[Len(order)]}
    IN IF reached = {} THEN Len(order) ELSE Max({1, Min(reached) - 1})

\* How many the nucleus keeps; slack 1 where the sum was rounded down.
Cutoff(logits, order, topP, slack) ==
    LET reached == {n \in DOMAIN order :
            100 * Mass(logits, order)[n] - slack >= topP * Mass(logits, order)[Len(order)]}
    IN IF reached = {} THEN Len(order) ELSE Min(reached)

\* Mutant: where no token is found the last one is returned.
Drawn_Last(logits, order, threshold, slack) ==
    LET reached == {n \in DOMAIN order :
            threshold * Mass(logits, order)[Len(order)] <= Grid * Mass(logits, order)[n] - slack}
    IN IF reached = {} THEN order[Len(order)] ELSE order[Min(reached)]

\* The first token whose cumulated probability reaches the threshold; the
\* top one if none does.
Drawn(logits, order, threshold, slack) ==
    LET reached == {n \in DOMAIN order :
            threshold * Mass(logits, order)[Len(order)] <= Grid * Mass(logits, order)[n] - slack}
    IN IF reached = {} THEN order[1] ELSE order[Min(reached)]
-----------------------------------------------------------------------------
VARIABLES
    temp, topP,  \* the configuration
    rng,         \* rng_state
    recent,      \* recent_tokens of the loop
    given,       \* the logits of the last call
    logits,      \* and what it made of them
    looked,      \* the recent tokens it was given
    kept,        \* indices, when it draws
    drawn,       \* the token it returned, if any
    error,       \* or the error
    calls

vars == <<temp, topP, rng, recent, given, logits, looked, kept, drawn, error, calls>>

Errors  == {"InvalidTemperature", "InvalidTopP", "EmptyLogits"}
NoToken == -1
Ok      == "Ok"
Ids(l)  == 0 .. Len(l) - 1

TypeOK ==
    /\ temp \in Temps /\ topP \in TopPs
    /\ rng \in SUBSET Bits
    /\ given \in Logits \cup {<<>>} /\ Len(logits) = Len(given)
    /\ error \in {Ok} \cup Errors
    /\ drawn \in {NoToken} \cup Ids(given) /\ kept \in Seq(Ids(given))
    /\ Len(recent) <= Window
    /\ calls \in 0 .. MaxCalls

Init ==
    /\ temp \in Temps /\ topP \in TopPs
    /\ rng \in Seeds
    /\ recent = <<>> /\ looked = <<>>
    /\ given = <<>> /\ logits = <<>> /\ kept = <<>>
    /\ drawn = NoToken /\ error = Ok /\ calls = 0

\* validate.
Invalid == IF temp <= 0 THEN {"InvalidTemperature"}
           ELSE IF topP <= 0 \/ topP > 100 THEN {"InvalidTopP"}
           ELSE {}

\* Every call of a reply has the same vocabulary.
Returned(l) == calls = 0 \/ Len(l) = Len(given)

\* An error ends the loop.
Rejects(l) ==
    /\ error = Ok /\ calls < MaxCalls /\ Returned(l)
    /\ Invalid # {} \/ l = <<>>
    /\ drawn' = NoToken
    /\ error' = IF Invalid # {} THEN CHOOSE err \in Invalid : TRUE ELSE "EmptyLogits"
    /\ given' = l /\ logits' = l /\ kept' = <<>> /\ looked' = recent
    /\ calls' = calls + 1
    /\ UNCHANGED <<temp, topP, rng, recent>>

\* Mutant: the oldest stays.
Remember_All(ids, id) == Append(ids, id)

\* recent_tokens.push, and the oldest out: the loop, before its next call.
Remember(ids, id) == IF Len(ids) < Window THEN Append(ids, id) ELSE Append(Tail(ids), id)

SampleToken(l) ==
    /\ error = Ok /\ calls < MaxCalls /\ Returned(l)
    /\ Invalid = {} /\ l # <<>>
    /\ given' = l /\ looked' = recent
    /\ logits' = Heated(Penalised(l, recent), temp)
    /\ \E order \in Orders(logits'), slack \in {0, 1} :
           kept' = SubSeq(order, 1, Cutoff(logits', order, topP, slack))
    /\ rng' = Xorshift(rng)
    /\ \E threshold \in Thresholds(rng'), slack \in {0, 1} :
           drawn' = Drawn(logits', kept', threshold, slack)
    /\ recent' = Remember(recent, drawn')
    /\ calls' = calls + 1
    /\ UNCHANGED <<temp, topP, error>>

\* The reply is complete.
Done == (error # Ok \/ calls = MaxCalls) /\ UNCHANGED vars

Next == (\E l \in Logits : Rejects(l) \/ SampleToken(l)) \/ Done

Spec == Init /\ [][Next]_vars
-----------------------------------------------------------------------------
(* Properties *)

Sampled == drawn # NoToken

\* "Penalise in the direction that reduces probability": a token that was
\* used does not overtake one that was not, whatever their signs and however
\* often it was used (logits.rs:158-171).
PenaltyNeverPromotes ==
    Sampled =>
        \A used \in Range(looked), fresh \in Ids(given) \ Range(looked) :
            given[used + 1] <= given[fresh + 1] => logits[used + 1] <= logits[fresh + 1]

\* What is drawn from is closed upwards: no token left out is likelier than
\* one kept, through top-k, its unstable sorts, and the nucleus; and the most
\* likely token is always kept (logits.rs:205-233).
KeptAreLikeliest ==
    Sampled =>
        /\ kept # <<>> /\ IsInjective(kept) /\ Len(kept) <= TopK
        /\ \A out \in Ids(given) \ Range(kept), in \in Range(kept) :
               logits[out + 1] <= logits[in + 1]

\* The nucleus is the smallest that reaches top_p: without its last token
\* the mass is short of it, with it it is not, unless all of the k were
\* needed, in the order that top-k has sorted them in (logits.rs:223-233).
NucleusIsSmallest ==
    Sampled =>
        \E order \in Orders(logits) :
            LET n == Len(kept)
                sum == Mass(logits, order)
                enough == topP * sum[Len(order)]
            IN  /\ IsPrefix(kept, order)
                /\ n > 1 => 100 * sum[n - 1] <= enough
                /\ n < Len(order) => 100 * sum[n] >= enough

\* A token whose probability is zero is never drawn, even where the rounding
\* of the sums leaves the threshold above all of them: what comes back then is
\* the top token (logits.rs:240-251).
NeverDrawsZero ==
    Sampled =>
        \E i \in DOMAIN kept : kept[i] = drawn /\ Weight(logits, kept, i) > 0

\* The random state never becomes 0, where xorshift would stay and the
\* sampler would return the top token ever after (logits.rs:258-265).
RngNeverZero == rng # {}
=============================================================================
