--------------------------- MODULE Generation ---------------------------
(***************************************************************************)
(* src/generate.rs: run_generation_inner, the loop that every entry point  *)
(* of the program shares, over the ForwardPass it drives. One call of it   *)
(* is several steps: each call into ForwardPass, the sampler or stdout can *)
(* fail, and leaves the cache as the steps before it made it.              *)
(*                                                                         *)
(* The module has no Next of its own: a driver (Chat, Oneshot) starts a    *)
(* call with Call and goes on when it has returned.                        *)
(***************************************************************************)
EXTENDS ForwardPass

CONSTANTS Sampled,   \* the tokens the sampler may draw
          Eos,       \* tok.is_eos
          Silent,    \* the tokens tok.decode_one has no text for
          Window     \* how many emitted tokens the repeat penalty looks back on

ASSUME SampledAssumption == Sampled \subseteq Token
ASSUME WindowAssumption == Window \in Nat \ {0}

VARIABLES
    pc,             \* where run_generation_inner stands; "idle": not running
    ret,            \* what its last call returned
    turnIds,        \* its argument turn_ids
    quiet,          \* its argument quiet
    limit,          \* cfg.max_new_tokens
    samplingValid,  \* the configuration and the vocabulary let sample_token succeed
    nextToken,      \* the token sampled last
    generated,      \* tokens decoded in this call
    recent,         \* recent_tokens
    shown,          \* the tokens whose text this call has put out (stdout or text)
    used            \* kv.head when the capacity check read it

callvars == <<turnIds, quiet, limit, used>>
loopvars == <<nextToken, generated, recent, shown>>
genvars  == <<pc, ret, samplingValid, callvars, loopvars>>

Errors == {"EmptyPrompt", "ContextFull", "Engine", "Sampling", "Io"}

GenTypeOK ==
    /\ pc \in {"idle", "entry", "prefill", "sample", "check", "decode"}
    /\ ret \in {"Ok"} \cup Errors
    /\ turnIds \in Seq(Token)
    /\ quiet \in BOOLEAN
    /\ limit \in Nat
    /\ samplingValid \in BOOLEAN
    /\ nextToken \in Sampled \cup {NoToken}
    /\ generated \in 0..limit
    /\ recent \in Seq(Sampled)
    /\ shown \in Seq(Sampled)
    /\ used \in 0..NCtx

GenInit ==
    /\ pc = "idle"
    /\ ret = "Ok"
    /\ turnIds = <<>>
    /\ quiet = FALSE
    /\ limit = 0
    /\ samplingValid \in BOOLEAN
    /\ nextToken = NoToken
    /\ generated = 0
    /\ recent = <<>>
    /\ shown = <<>>
    /\ used = 0

\* A driver calls run_generation_inner.
Call(ids, q, n) ==
    /\ pc = "idle"
    /\ pc' = "entry"
    /\ turnIds' = ids
    /\ quiet' = q
    /\ limit' = n
    /\ generated' = 0
    /\ recent' = <<>>
    /\ shown' = <<>>
    /\ UNCHANGED <<ret, samplingValid, nextToken, used>>

Return(r) ==
    /\ pc' = "idle"
    /\ ret' = r
    /\ nextToken' = NoToken
    /\ UNCHANGED <<samplingValid, callvars, generated, recent, shown>>
-----------------------------------------------------------------------------
Fits_OffByOne(ids) == head + Len(ids) <= NCtx + 1  \* mutant
Fits(ids) == head + Len(ids) <= NCtx

\* The empty-prompt and capacity checks, before anything is touched.
Enter ==
    /\ pc = "entry"
    /\ turnIds # <<>>
    /\ Fits(turnIds)
    /\ used' = head
    /\ pc' = "prefill"
    /\ UNCHANGED <<ret, samplingValid, turnIds, quiet, limit, loopvars, fpvars>>

\* EmptyPrompt or ContextFull. The callers never pass an empty prompt: the
\* chat template and BOS see to that.
Refuse ==
    /\ pc = "entry"
    /\ ~(turnIds # <<>> /\ Fits(turnIds))
    /\ Return(IF turnIds = <<>> THEN "EmptyPrompt" ELSE "ContextFull")
    /\ UNCHANGED fpvars

PrefillTurn ==
    /\ pc = "prefill"
    /\ Prefill(turnIds)
    /\ pc' = "sample"
    /\ UNCHANGED <<ret, samplingValid, callvars, loopvars>>

\* Mutant: a failed prefill is ignored.
PrefillError_Ignored ==
    /\ pc = "prefill"
    /\ PrefillFails
    /\ pc' = "sample"
    /\ UNCHANGED <<ret, samplingValid, callvars, loopvars>>

\* Mutant: a failed prefill is tried again.
PrefillError_Retried ==
    /\ pc = "prefill"
    /\ PrefillFails
    /\ pc' = "entry"
    /\ UNCHANGED <<ret, samplingValid, callvars, loopvars>>

PrefillError ==
    /\ pc = "prefill"
    /\ PrefillFails
    /\ Return("Engine")

\* sample_token: which token it draws is left open. Whether it refuses the
\* configuration (or empty logits) is the same for every token of a call.
Sample ==
    /\ pc = "sample"
    /\ samplingValid
    /\ nextToken' \in Sampled
    /\ pc' = "check"
    /\ UNCHANGED <<ret, samplingValid, callvars, generated, recent, shown, fpvars>>

SampleError ==
    /\ pc = "sample"
    /\ ~samplingValid
    /\ Return("Sampling")
    /\ UNCHANGED fpvars

\* Mutant: the end of the text is a token like any other.
Stops_PastEos == generated >= limit \/ head >= NCtx

\* The head of the loop: end of text, enough tokens, or a full cache.
Stops == \/ nextToken \in Eos
         \/ generated >= limit
         \/ head >= NCtx

Finish ==
    /\ pc = "check"
    /\ Stops
    /\ Return("Ok")
    /\ UNCHANGED fpvars

\* Mutant: the oldest token goes before the window is full.
Remember_TooShort(t) ==
    LET r == Append(recent, t)
    IN  IF Len(r) >= Window THEN Tail(r) ELSE r

\* recent_tokens.push, and the oldest one out when there are too many.
Remember(t) ==
    LET r == Append(recent, t)
    IN  IF Len(r) > Window THEN Tail(r) ELSE r

Emit ==
    /\ pc = "check"
    /\ ~Stops
    /\ shown' = IF nextToken \in Silent THEN shown ELSE Append(shown, nextToken)
    /\ recent' = Remember(nextToken)
    /\ pc' = "decode"
    /\ UNCHANGED <<ret, samplingValid, callvars, nextToken, generated, fpvars>>

\* write_all or flush on stdout failed; in quiet mode there is no stdout.
EmitError ==
    /\ pc = "check"
    /\ ~Stops
    /\ ~quiet
    /\ nextToken \notin Silent
    /\ Return("Io")
    /\ UNCHANGED fpvars

DecodeNext ==
    /\ pc = "decode"
    /\ Decode(nextToken)
    /\ generated' = generated + 1
    /\ pc' = "sample"
    /\ UNCHANGED <<ret, samplingValid, callvars, nextToken, recent, shown>>

\* Mutant: a failed decode is ignored.
DecodeError_Ignored ==
    /\ pc = "decode"
    /\ DecodeFails
    /\ generated' = generated + 1
    /\ pc' = "sample"
    /\ UNCHANGED <<ret, samplingValid, callvars, nextToken, recent, shown>>

DecodeError ==
    /\ pc = "decode"
    /\ DecodeFails
    /\ Return("Engine")

GenStep ==
    \/ Enter \/ Refuse
    \/ PrefillTurn \/ PrefillError
    \/ Sample \/ SampleError
    \/ Finish \/ Emit \/ EmitError
    \/ DecodeNext \/ DecodeError
-----------------------------------------------------------------------------
(* Properties of every driver *)

\* What of s has a text, in its order.
Printable(s) ==
    LET among[n \in 0..Len(s)] ==
            IF n = 0 THEN <<>>
            ELSE IF s[n] \in Silent THEN among[n-1] ELSE Append(among[n-1], s[n])
    IN  among[Len(s)]

\* The tokens the cache holds past the prompt of the current call.
Reply == SubSeq(Tokens(cache, head), used + Len(turnIds) + 1, head)

InLoop == pc \in {"sample", "check", "decode"}

\* The reply with the token that is out and not yet decoded.
Uttered == IF pc = "decode" THEN Append(Reply, nextToken) ELSE Reply

\* The last Window elements of s.
LookBack(s) == SubSeq(s, IF Len(s) > Window THEN Len(s) - Window + 1 ELSE 1, Len(s))

\* While a reply is generated, the cache is the history, then the prompt,
\* then the reply so far; what the user has been shown is what the model
\* has in its context, except for the one token that is shown just before
\* it is decoded. The emit-then-decode order, the loop's three guards and
\* the sampler's token all have to agree for that (generate.rs:186-208).
ShownIsCached ==
    InLoop =>
        /\ \A i \in 1..Len(turnIds) : cache[used + i - 1].tok = turnIds[i]
        /\ shown = Printable(Uttered)

\* The repeat penalty looks back on the last Window tokens of this reply:
\* none of the prompt, none of an earlier turn, and no gap (generate.rs:201).
PenaltyLooksBack == InLoop => recent = LookBack(Uttered)

\* forward() and execute_decode() have a full-cache check of their own
\* (graph.rs:584, graph.rs:453), but the loop never runs into it: the check
\* at generate.rs:156 is still true when prefill is called, and the one at
\* generate.rs:189 when decode_one is called.
NeverOverrun ==
    /\ pc = "prefill" => head + Len(turnIds) <= NCtx
    /\ pc = "decode"  => head < NCtx

\* The loop keeps to the contract of ForwardPass, whatever order messages,
\* resets and failures come in: it prefills prompts only, and it never decodes
\* on an empty cache, where the mask would hide nothing and the rows of an
\* earlier conversation would be read (graph.rs:466-471, generate.rs:170-204).
UsesForwardPass == FPSpec

\* A row's rotary position is its index: "each turn's tokens are appended via
\* prefill() starting at the current kv.head" (generate.rs:5-7). Prefill
\* counts its positions from 0 and decode_one from head, so the two agree
\* only when the prefill began on an empty cache.
PositionsFollowRows == \A r \in 0..(head - 1) : cache[r].pos = r
=============================================================================
