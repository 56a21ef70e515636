--------------------------- MODULE Oneshot_proofs ---------------------------
(***************************************************************************)
(* Proofs about Oneshot for every vocabulary, cache size, prompt and       *)
(* number of speed runs: types, the use it makes of ForwardPass, and what  *)
(* resetting before every call buys: positions that follow the rows, and   *)
(* replies that depend on their own prompt alone. Every step brings the    *)
(* drivers nearer to their end.                                            *)
(***************************************************************************)
EXTENDS Oneshot, Generation_proofs

USE NCtxAssumption

\* Where the driver and the loop stand relative to each other. A call begins
\* on an empty cache, so its capacity check reads head = 0 and everything in
\* the cache was put there by this call.
DriverInv ==
    /\ stage \notin {"generating", "regressing", "speeding"} => pc = "idle"
    /\ stage = "speeding" => run <= SPEED_RUNS
    /\ pc \in {"entry", "prefill"} => head = 0
    /\ InLoop => used = 0
    /\ PositionsFollowRows

OneshotInv == FPInv /\ TypeOK /\ CallInv /\ LoopInv /\ DriverInv
-----------------------------------------------------------------------------
LEMMA OneshotInitEstablishesInv == Init => OneshotInv
<1> SUFFICES ASSUME Init PROVE OneshotInv
  OBVIOUS
<1>1. FPInv
  BY InitEstablishesInv DEF Init
<1>2. GenTypeOK /\ CallInv
  BY GenInitEstablishesInv DEF Init
<1>3. head = 0 /\ pc = "idle" /\ run = 1 /\ stage \in {"generate", "regression"}
      /\ prompt \in UserPrompts
  BY DEF Init, FPInit, GenInit
<1>4. DriverInv
  BY <1>3 DEF DriverInv, InLoop, PositionsFollowRows
<1>5. LoopInv
  BY <1>3, IdleHasLoopInv
<1>6. run \in 1..(SPEED_RUNS + 1)
  BY <1>3, OneshotAssumption
<1> QED
  BY <1>1, <1>2, <1>3, <1>4, <1>5, <1>6 DEF OneshotInv, TypeOK, FPInv
-----------------------------------------------------------------------------
\* Every step of the drivers is a step ForwardPass allows, or leaves it alone.
LEMMA OneshotStepUsesForwardPass ==
    ASSUME OneshotInv, [Next]_vars
    PROVE  [FPNext]_fpvars
<1>1. CASE Generate \/ GenerateRejects \/ GenerateOk \/ Regression \/ RegressionPass
           \/ SpeedRun \/ SpeedDone
  BY <1>1 DEF Generate, GenerateRejects, GenerateOk, Regression, RegressionPass, SpeedRun,
              SpeedDone, ResetAndCall, FPNext
<1>2. CASE GenerateError \/ RegressionFail \/ SpeedRunDone
  BY <1>2 DEF GenerateError, RegressionFail, SpeedRunDone
<1>3. CASE Generating
  BY <1>3, GenStepUsesForwardPass DEF Generating, OneshotInv, TypeOK
<1>4. CASE Exited \/ UNCHANGED vars
  BY <1>4 DEF Exited, vars
<1> QED
  BY <1>1, <1>2, <1>3, <1>4 DEF Next, Work

\* reset_kv and a call on a prompt the driver knows.
LEMMA ResetAndCallKeepsInv ==
    ASSUME OneshotInv, NEW ids \in Prompts, NEW q \in BOOLEAN, NEW n \in Nat,
           ResetAndCall(ids, q, n)
    PROVE  /\ GenTypeOK' /\ CallInv' /\ LoopInv'
           /\ head' = 0 /\ pc' = "entry" /\ PositionsFollowRows'
<1>1. ResetKV /\ Call(ids, q, n) /\ GenTypeOK /\ CallInv
  BY DEF ResetAndCall, OneshotInv, TypeOK
<1>2. GenTypeOK' /\ CallInv' /\ LoopInv'
  BY <1>1, CallKeepsInv, CallKeepsLoop
<1>3. head' = 0 /\ pc' = "entry"
  BY <1>1 DEF ResetKV, Call
<1> QED
  BY <1>2, <1>3 DEF PositionsFollowRows

\* A step of the driver between two calls: the cache is reset or left alone.
LEMMA BetweenCallsKeepsInv ==
    ASSUME OneshotInv, pc = "idle", ResetKV \/ UNCHANGED fpvars,
           UNCHANGED <<pc, ret, callvars, loopvars>>, samplingValid' \in BOOLEAN
    PROVE  /\ GenTypeOK' /\ CallInv' /\ LoopInv'
           /\ pc' = "idle" /\ PositionsFollowRows'
<1>1. GenTypeOK' /\ CallInv' /\ pc' = "idle"
  BY DEF OneshotInv, TypeOK, callvars, loopvars, GenTypeOK, CallInv
<1>2. LoopInv'
  BY <1>1, IdleKeepsLoop
<1>3. CASE ResetKV
  BY <1>1, <1>2, <1>3 DEF ResetKV, PositionsFollowRows
<1>4. CASE UNCHANGED fpvars
  BY <1>1, <1>2, <1>4 DEF fpvars, PositionsFollowRows, OneshotInv, DriverInv
<1> QED
  BY <1>3, <1>4

\* A step of the loop: prefill writes positions 0, 1, ... on an empty cache,
\* decode_one the index of the row.
LEMMA GeneratingKeepsDriver ==
    ASSUME OneshotInv, Generating
    PROVE  DriverInv'
<1>1. /\ head \in 0..NCtx /\ cache \in [Rows -> Cell] /\ DriverInv
      /\ stage \in {"generating", "regressing", "speeding"} /\ UNCHANGED <<stage, run>>
  BY DEF Generating, OneshotInv, FPInv, FPTypeOK, drivervars
<1>2. /\ pc \in {"entry", "prefill"} => head = 0
      /\ pc \in {"sample", "check", "decode"} => used = 0
      /\ \A r \in 0..(head - 1) : cache[r].pos = r
      /\ stage = "speeding" => run <= SPEED_RUNS
  BY <1>1 DEF DriverInv, InLoop, PositionsFollowRows
<1> SUFFICES /\ pc' \in {"entry", "prefill"} => head' = 0
             /\ pc' \in {"sample", "check", "decode"} => used' = 0
             /\ \A r \in 0..(head' - 1) : cache'[r].pos = r
  BY <1>1, <1>2 DEF DriverInv, InLoop, PositionsFollowRows
<1>3. CASE Enter
  BY <1>2, <1>3 DEF Enter, fpvars
<1>4. CASE Refuse \/ SampleError \/ Finish \/ EmitError
  BY <1>2, <1>4 DEF Refuse, SampleError, Finish, EmitError, Return, fpvars
<1>5. CASE PrefillError \/ DecodeError
  BY <1>2, <1>5 DEF PrefillError, DecodeError, PrefillFails, DecodeFails, Return
<1>6. CASE Sample \/ Emit
  BY <1>2, <1>6 DEF Sample, Emit, fpvars, callvars
<1>7. CASE PrefillTurn
  <2>1. /\ Prefill(turnIds) /\ pc = "prefill" /\ pc' = "sample" /\ used' = used
        /\ turnIds \in Seq(Token)
    BY <1>7 DEF PrefillTurn, callvars, OneshotInv, TypeOK, GenTypeOK
  <2>2. head = 0 /\ used = 0
    BY <2>1, <1>2 DEF OneshotInv, CallInv
  <2>3. /\ Len(turnIds) \in Nat /\ Len(turnIds) <= NCtx
        /\ head' = Len(turnIds) /\ cache' = PrefillWrites(turnIds)
    BY <2>1, <2>2, LenProperties DEF Prefill
  <2>4. ASSUME NEW r \in 0..(head' - 1)
        PROVE  cache'[r].pos = r
    <3>1. r \in Rows /\ r \in PrefillRows(Len(turnIds)) /\ r - head = r
      BY <2>2, <2>3, <2>4 DEF Rows, PrefillRows
    <3> QED
      BY <3>1, <2>3 DEF PrefillWrites
  <2> QED
    BY <2>1, <2>2, <2>4
<1>8. CASE DecodeNext
  <2>1. /\ head < NCtx /\ head' = head + 1 /\ pc = "decode" /\ pc' = "sample" /\ used' = used
        /\ cache' = [cache EXCEPT ![head] = [tok |-> nextToken, pos |-> head]]
    BY <1>8 DEF DecodeNext, Decode, callvars
  <2>2. ASSUME NEW r \in 0..(head' - 1)
        PROVE  cache'[r].pos = r
    <3>1. r \in Rows /\ head \in Rows /\ (r = head \/ r \in 0..(head - 1))
      BY <2>1, <2>2, <1>1 DEF Rows
    <3> QED
      BY <3>1, <2>1, <1>1, <1>2
  <2> QED
    BY <2>1, <2>2, <1>2
<1> QED
  BY <1>3, <1>4, <1>5, <1>6, <1>7, <1>8 DEF Generating, GenStep

LEMMA OneshotNextKeepsInv == OneshotInv /\ [Next]_vars => OneshotInv'
<1> SUFFICES ASSUME OneshotInv, [Next]_vars PROVE OneshotInv'
  OBVIOUS
<1>1. FPInv' /\ FPTypeOK'
  BY OneshotStepUsesForwardPass, NextKeepsInv DEF OneshotInv, FPInv
<1>2. /\ FPInv /\ FPTypeOK /\ GenTypeOK /\ CallInv /\ LoopInv /\ DriverInv
      /\ run \in 1..(SPEED_RUNS + 1) /\ prompt \in UserPrompts /\ SPEED_RUNS \in Nat
  BY OneshotAssumption DEF OneshotInv, TypeOK
<1>3. /\ prompt \in Prompts /\ RegressionIds \in Prompts /\ SpeedIds \in Prompts
      /\ MaxNew \in Nat /\ RegressionNew \in Nat /\ SpeedNew \in Nat
  BY <1>2, OneshotAssumption
<1> SUFFICES /\ GenTypeOK' /\ CallInv' /\ LoopInv' /\ DriverInv'
             /\ stage' \in {"generate", "generating", "regression", "regressing",
                            "speed", "speeding", "exited"}
             /\ run' \in 1..(SPEED_RUNS + 1) /\ prompt' \in UserPrompts
  BY <1>1 DEF OneshotInv, TypeOK
<1>4. CASE Generate \/ Regression \/ SpeedRun
  <2>1. /\ stage' \in {"generating", "regressing", "speeding"}
        /\ UNCHANGED <<run, prompt>>
        /\ stage' = "speeding" => run <= SPEED_RUNS
    BY <1>4 DEF Generate, Regression, SpeedRun
  <2>2. /\ GenTypeOK' /\ CallInv' /\ LoopInv'
        /\ head' = 0 /\ pc' = "entry" /\ PositionsFollowRows'
    BY <1>3, <1>4, ResetAndCallKeepsInv DEF Generate, Regression, SpeedRun
  <2> QED
    BY <2>1, <2>2, <1>2 DEF DriverInv, InLoop
<1>5. CASE GenerateRejects \/ GenerateOk \/ GenerateError \/ RegressionPass \/ RegressionFail
           \/ SpeedRunDone \/ SpeedDone
  <2>1. /\ pc = "idle" /\ (ResetKV \/ UNCHANGED fpvars)
        /\ UNCHANGED <<pc, ret, callvars, loopvars>> /\ samplingValid' \in BOOLEAN
    BY <1>2, <1>5 DEF GenerateRejects, GenerateOk, GenerateError, RegressionPass,
                      RegressionFail, SpeedRunDone, SpeedDone, genvars, GenTypeOK, DriverInv
  <2>2. /\ GenTypeOK' /\ CallInv' /\ LoopInv'
        /\ pc' = "idle" /\ PositionsFollowRows'
    BY <2>1, BetweenCallsKeepsInv
  <2>3. /\ stage' \in {"speed", "exited"} /\ prompt' = prompt
        /\ run' = run \/ (run' = run + 1 /\ stage = "speeding")
    BY <1>5 DEF GenerateRejects, GenerateOk, GenerateError, RegressionPass,
                RegressionFail, SpeedRunDone, SpeedDone
  <2>4. run' \in 1..(SPEED_RUNS + 1)
    BY <2>3, <1>2 DEF DriverInv
  <2> QED
    BY <2>2, <2>3, <2>4, <1>2 DEF DriverInv, InLoop
<1>6. CASE Generating
  <2>1. GenTypeOK' /\ CallInv'
    BY <1>2, <1>6, GenStepKeepsInv DEF Generating
  <2>2. DriverInv'
    BY <1>6, GeneratingKeepsDriver
  <2>3. LoopInv'
    BY <2>1, <1>1, <1>2, <1>6, GenStepKeepsLoop DEF Generating
  <2> QED
    BY <2>1, <2>2, <2>3, <1>2, <1>6 DEF Generating, drivervars
<1>7. CASE Exited \/ UNCHANGED vars
  <2>1. UNCHANGED <<fpvars, genvars, drivervars>>
    BY <1>7 DEF Exited, vars
  <2>2. GenTypeOK' /\ CallInv'
    BY <2>1, <1>2 DEF genvars, callvars, loopvars, fpvars, GenTypeOK, CallInv, Fits
  <2>3. LoopInv'
    BY <2>1, <1>2 DEF genvars, callvars, loopvars, fpvars, LoopInv, InLoop, ShownIsCached,
                      PenaltyLooksBack, Uttered, Reply
  <2>4. DriverInv'
    BY <2>1, <1>2 DEF genvars, callvars, fpvars, drivervars, DriverInv, InLoop,
                      PositionsFollowRows
  <2> QED
    BY <2>1, <2>2, <2>3, <2>4 DEF drivervars, OneshotInv, TypeOK
<1> QED
  BY <1>4, <1>5, <1>6, <1>7 DEF Next, Work

THEOREM OneshotInvHolds == Spec => []OneshotInv
<1> QED
  BY OneshotInitEstablishesInv, OneshotNextKeepsInv, PTL DEF Spec

\* The state of the drivers is well typed; in particular the benchmark makes at
\* most SPEED_RUNS speed runs.
THEOREM OneshotTypes == Spec => []TypeOK
<1>1. OneshotInv => TypeOK
  BY DEF OneshotInv
<1> QED
  BY <1>1, OneshotInvHolds, PTL

\* The drivers use the forward pass as ForwardPass allows.
THEOREM OneshotUsesForwardPass == Spec => UsesForwardPass
<1>1. Init => FPInit
  BY DEF Init
<1>2. OneshotInv /\ [Next]_vars => [FPNext]_fpvars
  BY OneshotStepUsesForwardPass
<1> QED
  BY <1>1, <1>2, OneshotInvHolds, PTL DEF Spec, FPSpec, UsesForwardPass

\* Hence attention reads no row of the previous run, and the context of a run
\* is a log.
THEOREM OneshotImplementsContextLog == Spec => ImplementsContextLog
<1> QED
  BY OneshotUsesForwardPass, ForwardPassImplementsContextLog, PTL DEF UsesForwardPass

\* The full-cache checks inside forward() and execute_decode() are never met.
THEOREM OneshotNeverOverruns == Spec => []NeverOverrun
<1>1. OneshotInv => NeverOverrun
  BY CallInvNeverOverruns DEF OneshotInv
<1> QED
  BY <1>1, OneshotInvHolds, PTL

\* Rotary positions are row indices in --prompt and --bench: what the chat's
\* follow-up turns break holds where every call starts on an empty cache.
THEOREM OneshotPositionsFollowRows == Spec => []PositionsFollowRows
<1>1. OneshotInv => PositionsFollowRows
  BY DEF OneshotInv, DriverInv
<1> QED
  BY <1>1, OneshotInvHolds, PTL

\* The logits a token is sampled from are those of the prompt and the reply so
\* far, whatever became of the call before.
THEOREM OneshotAnswersItsPromptOnly == Spec => []AnswersItsPromptOnly
<1>1. OneshotInv => AnswersItsPromptOnly
  <2> SUFFICES ASSUME OneshotInv, pc \in {"sample", "check", "decode"}
               PROVE  used = 0 /\ basis = turnIds \o Reply
    BY DEF AnswersItsPromptOnly
  <2>1. /\ InLoop /\ used = 0 /\ FPInv /\ GenTypeOK
        /\ head = used + Len(turnIds) + generated /\ basis = Tokens(cache, head)
        /\ \A i \in 1..Len(turnIds) : cache[used + i - 1].tok = turnIds[i]
    BY DEF OneshotInv, TypeOK, DriverInv, LoopInv, ShownIsCached, InLoop
  <2>2. turnIds \in Seq(Token) /\ Len(turnIds) \in Nat /\ generated \in Nat /\ head \in Nat
    BY <2>1, LenProperties DEF GenTypeOK, FPInv, FPTypeOK
  <2>3. /\ Reply \in Seq(Token) /\ Len(Reply) = generated
        /\ \A i \in 1..generated : Reply[i] = cache[used + Len(turnIds) + i - 1].tok
    BY <2>1, ReplyRows
  <2>4. /\ Len(turnIds \o Reply) = Len(turnIds) + generated
        /\ \A i \in 1..(Len(turnIds) + generated) :
               (turnIds \o Reply)[i] = IF i <= Len(turnIds) THEN turnIds[i]
                                       ELSE Reply[i - Len(turnIds)]
        /\ turnIds \o Reply \in Seq(Token)
    BY <2>2, <2>3, ConcatProperties
  <2>5. /\ Len(Tokens(cache, head)) = head
        /\ \A i \in 1..head : Tokens(cache, head)[i] = cache[i-1].tok
    BY <2>2, TokensLen
  <2>6. ASSUME NEW i \in 1..head
        PROVE  (turnIds \o Reply)[i] = Tokens(cache, head)[i]
    <3>1. (turnIds \o Reply)[i] = IF i <= Len(turnIds) THEN turnIds[i]
                                  ELSE Reply[i - Len(turnIds)]
      BY <2>1, <2>2, <2>4, <2>6
    <3>2. CASE i <= Len(turnIds)
      BY <3>1, <3>2, <2>1, <2>2, <2>5, <2>6
    <3>3. CASE ~(i <= Len(turnIds))
      <4>1. /\ i - Len(turnIds) \in 1..generated
            /\ used + Len(turnIds) + (i - Len(turnIds)) - 1 = i - 1
        BY <3>3, <2>1, <2>2, <2>6
      <4> QED
        BY <4>1, <3>1, <3>3, <2>3, <2>5, <2>6
    <3> QED
      BY <3>2, <3>3
  <2>7. turnIds \o Reply = Tokens(cache, head)
    <3>1. Tokens(cache, head) \in Seq(Token)
      <4>1. head \in 0..NCtx /\ RowsHoldTokens
        BY <2>1 DEF FPInv, FPTypeOK
      <4>2. \A i \in 1..head : cache[i-1].tok \in Token
        BY <4>1, BelowHead DEF RowsHoldTokens
      <4> QED
        BY <4>2, <2>2, TokensIsSeq
    <3>2. Len(turnIds \o Reply) = Len(Tokens(cache, head))
      BY <2>1, <2>2, <2>4, <2>5
    <3> QED
      BY <3>1, <3>2, <2>4, <2>5, <2>6, SeqEqual
  <2> QED
    BY <2>1, <2>7
<1> QED
  BY <1>1, OneshotInvHolds, PTL

\* What is put out is what is in the context.
THEOREM OneshotShownIsCached == Spec => []ShownIsCached
<1>1. OneshotInv => ShownIsCached
  BY DEF OneshotInv, LoopInv
<1> QED
  BY <1>1, OneshotInvHolds, PTL
-----------------------------------------------------------------------------
(* The drivers come nearer to their end with every step                    *)

\* The steps of n speed runs.
Rounds(n) == n * (3 * SpeedNew + 8)

\* A bound on the steps that are left. A run that fails counts like one that
\* succeeds.
WorkLeft ==
    CASE stage = "generate"   -> 3 * MaxNew + 7
      [] stage = "generating" -> CallLeft + 1
      [] stage = "regression" -> Rounds(SPEED_RUNS + 1 - run) + 3 * RegressionNew + 8
      [] stage = "regressing" -> Rounds(SPEED_RUNS + 1 - run) + CallLeft + 2
      [] stage = "speed"      -> Rounds(SPEED_RUNS + 1 - run) + 1
      [] stage = "speeding"   -> Rounds(SPEED_RUNS - run) + CallLeft + 2
      [] stage = "exited"     -> 0

LEMMA RoundsNat ==
    ASSUME NEW n \in Nat
    PROVE  Rounds(n) \in Nat /\ Rounds(n + 1) = Rounds(n) + (3 * SpeedNew + 8)
<1>1. PICK k \in Nat : k = 3 * SpeedNew + 8
  BY OneshotAssumption
<1>2. n * k \in Nat /\ (n + 1) * k = n * k + k
  BY ONLY n \in Nat, k \in Nat
<1> QED
  BY <1>1, <1>2 DEF Rounds

\* What the steps are counted from.
LEMMA WorkNumbers ==
    ASSUME OneshotInv
    PROVE  /\ MaxNew \in Nat /\ RegressionNew \in Nat /\ SpeedNew \in Nat
           /\ CallLeft \in Nat /\ (pc = "idle" => CallLeft = 0)
           /\ Rounds(SPEED_RUNS + 1 - run) \in Nat
           /\ run <= SPEED_RUNS =>
                  /\ Rounds(SPEED_RUNS - run) \in Nat
                  /\ Rounds(SPEED_RUNS + 1 - run) = Rounds(SPEED_RUNS - run) + (3 * SpeedNew + 8)
           /\ stage \in {"generate", "generating", "regression", "regressing",
                         "speed", "speeding", "exited"}
           /\ stage = "speeding" => run <= SPEED_RUNS
<1>1. /\ MaxNew \in Nat /\ RegressionNew \in Nat /\ SpeedNew \in Nat /\ SPEED_RUNS \in Nat
      /\ run \in 1..(SPEED_RUNS + 1) /\ GenTypeOK
      /\ stage \in {"generate", "generating", "regression", "regressing",
                    "speed", "speeding", "exited"}
      /\ stage = "speeding" => run <= SPEED_RUNS
  BY OneshotAssumption DEF OneshotInv, TypeOK, DriverInv
<1>2. CallLeft \in Nat
  <2>1. limit \in Nat /\ CallLeft \in 0..(3 * limit + 5)
    BY <1>1, CallLeftBounded DEF GenTypeOK
  <2> QED
    BY <2>1
<1>3. pc = "idle" => CallLeft = 0
  BY DEF CallLeft
<1>4. SPEED_RUNS + 1 - run \in Nat
  BY <1>1
<1>5. ASSUME run <= SPEED_RUNS
      PROVE  SPEED_RUNS - run \in Nat /\ SPEED_RUNS + 1 - run = (SPEED_RUNS - run) + 1
  BY <1>1, <1>5
<1> QED
  BY <1>1, <1>2, <1>3, <1>4, <1>5, RoundsNat

LEMMA WorkLeftNat == OneshotInv => WorkLeft \in Nat
<1> SUFFICES ASSUME OneshotInv PROVE WorkLeft \in Nat
  OBVIOUS
<1>1. PICK r \in Nat, c \in Nat : r = Rounds(SPEED_RUNS + 1 - run) /\ c = CallLeft
  BY WorkNumbers
<1>2. MaxNew \in Nat /\ RegressionNew \in Nat
      /\ stage \in {"generate", "generating", "regression", "regressing",
                    "speed", "speeding", "exited"}
  BY WorkNumbers
<1>3. stage = "speeding" => Rounds(SPEED_RUNS - run) \in Nat
  BY WorkNumbers
<1> QED
  BY <1>1, <1>2, <1>3 DEF WorkLeft

LEMMA WorkStepLeaves ==
    ASSUME OneshotInv, Work
    PROVE  WorkLeft' < WorkLeft
<1>1. PICK r \in Nat, c \in Nat : r = Rounds(SPEED_RUNS + 1 - run) /\ c = CallLeft
  BY WorkNumbers
<1>2. PICK m \in Nat, g \in Nat, s \in Nat : m = MaxNew /\ g = RegressionNew /\ s = SpeedNew
  BY WorkNumbers
<1>3. ASSUME NEW n \in Nat, NEW ids, NEW q, ResetAndCall(ids, q, n)
      PROVE  CallLeft' = 3 * n + 5
  <2>1. pc' = "entry" /\ limit' = n /\ generated' = 0
    BY <1>3 DEF ResetAndCall, Call
  <2> QED
    BY <2>1 DEF CallLeft
<1>4. CASE Generate
  <2>1. CallLeft' = 3 * m + 5 /\ stage = "generate" /\ stage' = "generating"
    BY <1>2, <1>3, <1>4 DEF Generate
  <2>2. WorkLeft = 3 * m + 7 /\ WorkLeft' = (3 * m + 5) + 1
    BY <2>1, <1>2 DEF WorkLeft
  <2> QED
    BY ONLY <2>2, m \in Nat
<1>5. CASE GenerateRejects \/ GenerateOk \/ GenerateError \/ RegressionFail \/ SpeedDone
  <2>1. stage \in {"generate", "generating", "regressing", "speed"} /\ stage' = "exited"
    BY <1>5 DEF GenerateRejects, GenerateOk, GenerateError, RegressionFail, SpeedDone
  <2>2. WorkLeft' = 0
    BY <2>1 DEF WorkLeft
  <2>3. WorkLeft > 0
    BY <2>1, <1>1, <1>2 DEF WorkLeft
  <2> QED
    BY <2>2, <2>3
<1>6. CASE Regression
  <2>1. CallLeft' = 3 * g + 5 /\ stage = "regression" /\ stage' = "regressing" /\ run' = run
    BY <1>2, <1>3, <1>6 DEF Regression
  <2>2. WorkLeft = r + 3 * g + 8 /\ WorkLeft' = r + (3 * g + 5) + 2
    BY <2>1, <1>1, <1>2 DEF WorkLeft, Rounds
  <2> QED
    BY ONLY <2>2, g \in Nat, r \in Nat
<1>7. CASE RegressionPass
  <2>1. stage = "regressing" /\ stage' = "speed" /\ run' = run
    BY <1>7 DEF RegressionPass
  <2>2. WorkLeft = r + c + 2 /\ WorkLeft' = r + 1
    BY <2>1, <1>1 DEF WorkLeft, Rounds
  <2> QED
    BY ONLY <2>2, c \in Nat, r \in Nat
<1>8. CASE SpeedRun
  <2>1. CallLeft' = 3 * s + 5 /\ stage = "speed" /\ stage' = "speeding" /\ run' = run
        /\ run <= SPEED_RUNS
    BY <1>2, <1>3, <1>8 DEF SpeedRun
  <2>2. PICK p \in Nat : p = Rounds(SPEED_RUNS - run) /\ r = p + (3 * s + 8)
    BY <2>1, <1>1, <1>2, WorkNumbers
  <2>3. WorkLeft = r + 1 /\ WorkLeft' = p + (3 * s + 5) + 2
    BY <2>1, <2>2, <1>1 DEF WorkLeft, Rounds
  <2> QED
    BY ONLY <2>2, <2>3, p \in Nat, s \in Nat
<1>9. CASE SpeedRunDone
  <2>1. stage = "speeding" /\ stage' = "speed" /\ run' = run + 1 /\ run <= SPEED_RUNS
    BY <1>9, WorkNumbers DEF SpeedRunDone
  <2>2. PICK p \in Nat : p = Rounds(SPEED_RUNS - run)
    BY <2>1, WorkNumbers
  <2>3. SPEED_RUNS + 1 - (run + 1) = SPEED_RUNS - run
    BY OneshotAssumption DEF OneshotInv, TypeOK
  <2>4. WorkLeft = p + c + 2
    BY <2>1, <2>2, <1>1 DEF WorkLeft
  <2>5. WorkLeft' = p + 1
    BY <2>1, <2>2, <2>3 DEF WorkLeft, Rounds
  <2> QED
    BY ONLY <2>4, <2>5, c \in Nat, p \in Nat
<1>10. CASE Generating
  <2>1. CallLeft' \in Int /\ CallLeft' < CallLeft
    BY <1>10, GenStepLeaves DEF Generating, OneshotInv, TypeOK
  <2>2. PICK d \in Int : d = CallLeft'
    BY <2>1
  <2>3. d < c
    BY <2>1, <2>2, <1>1
  <2>4. UNCHANGED <<stage, run>> /\ stage \in {"generating", "regressing", "speeding"}
    BY <1>10 DEF Generating, drivervars
  <2>5. CASE stage = "generating"
    <3>1. WorkLeft = c + 1 /\ WorkLeft' = d + 1
      BY <2>2, <2>4, <2>5, <1>1 DEF WorkLeft
    <3> QED
      BY ONLY <2>3, <3>1, c \in Nat, d \in Int
  <2>6. CASE stage = "regressing"
    <3>1. WorkLeft = r + c + 2 /\ WorkLeft' = r + d + 2
      BY <2>2, <2>4, <2>6, <1>1 DEF WorkLeft, Rounds
    <3> QED
      BY ONLY <2>3, <3>1, c \in Nat, d \in Int, r \in Nat
  <2>7. CASE stage = "speeding"
    <3>1. PICK p \in Nat : p = Rounds(SPEED_RUNS - run)
      BY <2>7, WorkNumbers
    <3>2. WorkLeft = p + c + 2 /\ WorkLeft' = p + d + 2
      BY <2>2, <2>4, <2>7, <3>1, <1>1 DEF WorkLeft, Rounds
    <3> QED
      BY ONLY <2>3, <3>2, c \in Nat, d \in Int, p \in Nat
  <2> QED
    BY <2>4, <2>5, <2>6, <2>7
<1> QED
  BY <1>4, <1>5, <1>6, <1>7, <1>8, <1>9, <1>10 DEF Work

\* No step of run_prompt or run_bench goes back, failed runs included.
WorkAdvances == [][WorkLeft' < WorkLeft]_vars

\* A single prompt takes at most 3 * MaxNew + 7 steps and the benchmark at
\* most Rounds(SPEED_RUNS) + 3 * RegressionNew + 8, whatever fails: every step
\* brings a natural number down, and nothing is tried again. That the steps
\* are taken at all is the fairness Terminates assumes.
THEOREM OneshotAdvances ==
    Spec => /\ WorkLeft = IF stage = "generate" THEN 3 * MaxNew + 7
                          ELSE Rounds(SPEED_RUNS) + 3 * RegressionNew + 8
            /\ [](WorkLeft \in Nat)
            /\ WorkAdvances
<1>1. Init => WorkLeft = IF stage = "generate" THEN 3 * MaxNew + 7
                         ELSE Rounds(SPEED_RUNS) + 3 * RegressionNew + 8
  <2> SUFFICES ASSUME Init
               PROVE  WorkLeft = IF stage = "generate" THEN 3 * MaxNew + 7
                                 ELSE Rounds(SPEED_RUNS) + 3 * RegressionNew + 8
    OBVIOUS
  <2>1. run = 1 /\ stage \in {"generate", "regression"} /\ SPEED_RUNS + 1 - 1 = SPEED_RUNS
    BY OneshotAssumption DEF Init
  <2> QED
    BY <2>1 DEF WorkLeft
<1>2. OneshotInv /\ [Next]_vars => [WorkLeft' < WorkLeft]_vars
  BY WorkStepLeaves DEF Next, Exited
<1> QED
  BY <1>1, <1>2, WorkLeftNat, OneshotInitEstablishesInv, OneshotNextKeepsInv, PTL
     DEF Spec, WorkAdvances
=============================================================================
