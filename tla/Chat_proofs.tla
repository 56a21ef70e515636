---------------------------- MODULE Chat_proofs ----------------------------
(***************************************************************************)
(* Proofs about Chat for every vocabulary, cache size, set of messages and *)
(* bound on the reply: types, the use it makes of ForwardPass (and, with   *)
(* Generation_proofs, the log the conversation lives in), the checks the   *)
(* loop can rely on, what is shown and looked back on, the system prompt   *)
(* at the start of the cache, the conversation it implements, and that     *)
(* every step of a turn brings it nearer to its end.                       *)
(***************************************************************************)
EXTENDS Chat, Generation_proofs

USE NCtxAssumption

\* Where the driver and the loop stand relative to each other, and what the
\* conversation is made of. A prompt about to be prefilled into an empty cache
\* is a first turn's: the session counts turns only if the cache holds them.
\* The cache never holds the first row of a template without the second.
ConversationInv ==
    /\ at # "turn" => pc = "idle"
    /\ at = "turn" /\ pc = "idle" /\ ret = "Ok" => head > 0
    /\ pc \in {"entry", "prefill"} /\ head = 0 =>
           Len(turnIds) > 1 /\ turnIds[1] = BOS /\ turnIds[2] = SYS
    /\ head # 1
    /\ at = "turn" => limit = MaxNew
    /\ SystemPromptFirst

ChatInv == FPInv /\ TypeOK /\ CallInv /\ LoopInv /\ ConversationInv
-----------------------------------------------------------------------------
\* The two templates: a first turn begins with BOS and the system prompt.
LEMMA Templates ==
    ASSUME NEW m \in Messages
    PROVE  /\ ChatTokens(m) \in Prompts /\ FollowupTokens(m) \in Prompts
           /\ Len(ChatTokens(m)) > 1
           /\ ChatTokens(m)[1] = BOS /\ ChatTokens(m)[2] = SYS
<1>1. /\ m \in Seq(Token) /\ {BOS, SYS, USR, EOT, AST} \subseteq Token
      /\ ChatTokens(m) \in Prompts /\ FollowupTokens(m) \in Prompts
  BY ChatAssumption
<1> DEFINE s == <<BOS, SYS>>
           f == FollowupTokens(m)
<1>2. s \in Seq(Token) /\ Len(s) = 2 /\ s[1] = BOS /\ s[2] = SYS
  BY <1>1
<1>3. f \in Seq(Token) /\ Len(f) \in Nat
  BY <1>1, PromptsAssumption, LenProperties
<1> HIDE DEF s, f
<1>4. /\ Len(s \o f) = 2 + Len(f)
      /\ \A i \in 1..(2 + Len(f)) : (s \o f)[i] = IF i <= 2 THEN s[i] ELSE f[i - 2]
  <2>1. /\ Len(s \o f) = Len(s) + Len(f)
        /\ \A i \in 1..(Len(s) + Len(f)) :
               (s \o f)[i] = IF i <= Len(s) THEN s[i] ELSE f[i - Len(s)]
    BY <1>2, <1>3, ConcatProperties, Zenon
  <2> QED
    BY <1>2, <2>1, Zenon
<1>5. 1 \in 1..(2 + Len(f)) /\ 2 \in 1..(2 + Len(f)) /\ 2 + Len(f) > 1
  BY <1>3
<1>6. (s \o f)[1] = BOS /\ (s \o f)[2] = SYS
  BY <1>2, <1>4, <1>5
<1> QED
  BY <1>1, <1>4, <1>5, <1>6 DEF ChatTokens, s, f

LEMMA ChatInitEstablishesInv == Init => ChatInv
<1> SUFFICES ASSUME Init PROVE ChatInv
  OBVIOUS
<1>1. FPInv
  BY InitEstablishesInv DEF Init
<1>2. GenTypeOK /\ CallInv
  BY GenInitEstablishesInv DEF Init
<1>3. head = 0 /\ pc = "idle" /\ turnCount = 0 /\ at = "prompt"
  BY DEF Init, FPInit, GenInit
<1>4. ConversationInv
  BY <1>3 DEF ConversationInv, SystemPromptFirst
<1>5. LoopInv
  BY <1>3, IdleHasLoopInv
<1> QED
  BY <1>1, <1>2, <1>3, <1>4, <1>5 DEF ChatInv, TypeOK, FPInv
-----------------------------------------------------------------------------
\* Every step of the chat is a step ForwardPass allows, or leaves it alone.
LEMMA StepUsesForwardPass ==
    ASSUME ChatInv, [Next]_vars
    PROVE  [FPNext]_fpvars
<1>1. ASSUME NEW m \in Messages, Submit(m) PROVE UNCHANGED fpvars
  BY <1>1 DEF Submit
<1>2. CASE Generating
  BY <1>2, GenStepUsesForwardPass DEF Generating, ChatInv, TypeOK
<1>3. CASE TurnOk \/ TurnError \/ Leave
  BY <1>3 DEF TurnOk, TurnError, Leave
<1>4. CASE Reset
  BY <1>4 DEF Reset, FPNext
<1>5. CASE Exited \/ UNCHANGED vars
  BY <1>5 DEF Exited, vars
<1> QED
  BY <1>1, <1>2, <1>3, <1>4, <1>5 DEF Next, Turn

\* One step of the loop, seen from the conversation.
LEMMA GeneratingKeepsConversation ==
    ASSUME ChatInv, Generating, GenTypeOK', CallInv'
    PROVE  ConversationInv'
<1>1. /\ head \in 0..NCtx /\ at = "turn" /\ at' = at /\ turnCount' = turnCount
      /\ cache \in [Rows -> Cell] /\ head # 1 /\ SystemPromptFirst
  BY DEF Generating, ChatInv, ConversationInv, FPInv, FPTypeOK
<1>9. limit' = MaxNew
  <2>1. limit' = limit
    BY DEF Generating, GenStep, Enter, Refuse, PrefillTurn, PrefillError, Sample,
           SampleError, Finish, Emit, EmitError, DecodeNext, DecodeError, Return, callvars
  <2> QED
    BY <2>1, <1>1 DEF ChatInv, ConversationInv
<1> USE <1>9 DEF ConversationInv, SystemPromptFirst
<1>2. CASE Enter
  BY <1>1, <1>2 DEF Enter, fpvars, ChatInv
<1>3. CASE Refuse
  BY <1>1, <1>3 DEF Refuse, Return, fpvars, ChatInv
<1>4. CASE PrefillTurn
  <2>1. /\ turnIds \in Seq(Token) /\ turnIds # <<>>
        /\ head + Len(turnIds) <= NCtx
        /\ cache' = PrefillWrites(turnIds)
        /\ head' = head + Len(turnIds)
        /\ pc' = "sample"
    BY <1>4 DEF PrefillTurn, Prefill, ChatInv, TypeOK, GenTypeOK
  <2>2. /\ Len(turnIds) \in Nat \ {0}
        /\ \A r \in 0..(head - 1) : cache'[r] = cache[r]
    BY <2>1, PrefillRowsLemma DEF ChatInv, FPInv
  <2>3. head' > 0 /\ head' # 1 /\ cache'[0].tok = BOS /\ cache'[1].tok = SYS
    <3>1. CASE head = 0
      <4>1. Len(turnIds) > 1 /\ turnIds[1] = BOS /\ turnIds[2] = SYS
        BY <3>1, <1>4 DEF PrefillTurn, ChatInv
      <4>2. /\ 0 \in Rows /\ 1 \in Rows
            /\ 0 \in PrefillRows(Len(turnIds)) /\ 1 \in PrefillRows(Len(turnIds))
        BY <3>1, <4>1, <2>1, <2>2 DEF Rows, PrefillRows
      <4>3. cache'[0].tok = turnIds[0 - head + 1] /\ cache'[1].tok = turnIds[1 - head + 1]
        BY <4>2, <2>1 DEF PrefillWrites
      <4>4. 0 - head + 1 = 1 /\ 1 - head + 1 = 2
        BY <3>1
      <4> QED
        BY <3>1, <4>1, <4>3, <4>4, <2>1, <2>2
    <3>2. CASE head # 0
      <4>1. 0 \in 0..(head - 1) /\ 1 \in 0..(head - 1) /\ head > 1
        BY <3>2, <1>1
      <4> QED
        BY <4>1, <1>1, <2>1, <2>2
    <3> QED
      BY <3>1, <3>2
  <2> QED
    BY <2>1, <2>3, <1>1
<1>5. CASE PrefillError \/ DecodeError
  BY <1>1, <1>5 DEF PrefillError, DecodeError, PrefillFails, DecodeFails, Return,
                    Errors, ChatInv
<1>6. CASE Sample \/ SampleError \/ Emit \/ EmitError
  BY <1>1, <1>6 DEF Sample, SampleError, Emit, EmitError, Return, fpvars, ChatInv
<1>7. CASE Finish
  <2>1. head > 0
    BY <1>7 DEF Finish, ChatInv, CallInv
  <2> QED
    BY <2>1, <1>1, <1>7 DEF Finish, Return, fpvars
<1>8. CASE DecodeNext
  <2>1. /\ head > 1 /\ head < NCtx /\ head' = head + 1
        /\ cache' = [cache EXCEPT ![head] = [tok |-> nextToken, pos |-> head]]
        /\ pc' = "sample"
    BY <1>1, <1>8 DEF DecodeNext, Decode, ChatInv, CallInv
  <2>2. head' > 0 /\ head' # 1 /\ cache'[0] = cache[0] /\ cache'[1] = cache[1]
    BY <2>1, <1>1 DEF Rows
  <2> QED
    BY <2>1, <2>2, <1>1
<1> QED
  BY <1>2, <1>3, <1>4, <1>5, <1>6, <1>7, <1>8 DEF Generating, GenStep

LEMMA ChatNextKeepsInv == ChatInv /\ [Next]_vars => ChatInv'
<1> SUFFICES ASSUME ChatInv, [Next]_vars PROVE ChatInv'
  OBVIOUS
<1>1. FPInv' /\ FPTypeOK'
  BY StepUsesForwardPass, NextKeepsInv DEF ChatInv, FPInv
<1>2. FPInv /\ FPTypeOK /\ GenTypeOK /\ CallInv /\ LoopInv /\ ConversationInv
  BY DEF ChatInv, TypeOK
<1> SUFFICES GenTypeOK' /\ CallInv' /\ LoopInv' /\ ConversationInv'
             /\ at' \in {"prompt", "turn", "exited"} /\ turnCount' \in Nat
  BY <1>1 DEF ChatInv, TypeOK
<1>3. ASSUME NEW m \in Messages, Submit(m)
      PROVE  /\ GenTypeOK' /\ CallInv' /\ LoopInv' /\ ConversationInv'
             /\ at' \in {"prompt", "turn", "exited"} /\ turnCount' \in Nat
  <2>1. TurnTokens(m) \in Prompts /\ MaxNew \in Nat
    BY Templates, ChatAssumption DEF TurnTokens
  <2>2. GenTypeOK' /\ CallInv' /\ LoopInv'
    BY <2>1, <1>2, <1>3, CallKeepsInv, CallKeepsLoop DEF Submit
  <2>3. head = 0 => turnCount = 0
    BY DEF ChatInv, TypeOK, ConversationInv, SystemPromptFirst
  <2>4. head = 0 => /\ Len(TurnTokens(m)) > 1
                    /\ TurnTokens(m)[1] = BOS /\ TurnTokens(m)[2] = SYS
    BY <2>3, Templates DEF TurnTokens
  <2>5. /\ turnIds' = TurnTokens(m) /\ pc' = "entry" /\ at' = "turn" /\ limit' = MaxNew
        /\ head' = head /\ cache' = cache /\ turnCount' = turnCount
    BY <1>3 DEF Submit, Call, fpvars
  <2>6. ConversationInv'
    BY <2>4, <2>5, <1>2 DEF ConversationInv, SystemPromptFirst
  <2> QED
    BY <2>2, <2>5, <2>6 DEF ChatInv, TypeOK
<1>4. CASE Generating
  <2>1. GenTypeOK' /\ CallInv'
    BY <1>2, <1>4, GenStepKeepsInv DEF Generating
  <2>2. ConversationInv'
    BY <2>1, <1>4, GeneratingKeepsConversation
  <2>3. LoopInv'
    BY <2>1, <1>1, <1>2, <1>4, GenStepKeepsLoop DEF Generating
  <2> QED
    BY <2>1, <2>2, <2>3, <1>4 DEF Generating, ChatInv, TypeOK
<1>5. CASE TurnOk
  <2>1. GenTypeOK' /\ CallInv'
    BY <1>2, <1>5, IdleKeepsInv DEF TurnOk
  <2>2. turnCount' \in Nat /\ head' > 0 /\ at' = "prompt" /\ pc' = "idle"
        /\ head' = head /\ cache' = cache
    BY <1>2, <1>5 DEF TurnOk, fpvars, genvars, ConversationInv, ChatInv, TypeOK
  <2>3. LoopInv'
    BY <2>2, IdleKeepsLoop
  <2> QED
    BY <2>1, <2>2, <2>3, <1>2 DEF ConversationInv, SystemPromptFirst
<1>6. CASE TurnError \/ Leave \/ Exited \/ UNCHANGED vars
  <2>1. /\ UNCHANGED <<fpvars, genvars, turnCount>>
        /\ at' = at \/ (at' \in {"prompt", "exited"} /\ pc = "idle")
    BY <1>2, <1>6 DEF TurnError, Leave, Exited, vars, ConversationInv
  <2>2. GenTypeOK' /\ CallInv'
    BY <2>1, <1>2 DEF genvars, callvars, loopvars, fpvars, GenTypeOK, CallInv, Fits
  <2>3. LoopInv'
    BY <2>1, <1>2 DEF genvars, callvars, loopvars, fpvars, LoopInv, InLoop, ShownIsCached,
                      PenaltyLooksBack, Uttered, Reply
  <2> QED
    BY <2>1, <2>2, <2>3, <1>2 DEF genvars, callvars, fpvars, ConversationInv,
                            SystemPromptFirst, ChatInv, TypeOK
<1>7. CASE Reset
  <2>1. pc = "idle"
    BY <1>2, <1>7 DEF Reset, ConversationInv
  <2>2. GenTypeOK' /\ CallInv'
    BY <2>1, <1>2, <1>7, IdleKeepsInv DEF Reset
  <2>3. head' = 0 /\ turnCount' = 0 /\ at' = at /\ at = "prompt" /\ pc' = "idle"
    BY <2>1, <1>7 DEF Reset, ResetKV, genvars
  <2>4. LoopInv'
    BY <2>3, IdleKeepsLoop
  <2> QED
    BY <2>2, <2>3, <2>4 DEF ConversationInv, SystemPromptFirst
<1> QED
  BY <1>3, <1>4, <1>5, <1>6, <1>7 DEF Next, Turn

THEOREM ChatInvHolds == Spec => []ChatInv
<1> QED
  BY ChatInitEstablishesInv, ChatNextKeepsInv, PTL DEF Spec

\* The state of the chat is well typed; in particular generated stays within
\* cfg.max_new_tokens and kv.head within n_ctx.
THEOREM ChatTypes == Spec => []TypeOK
<1>1. ChatInv => TypeOK
  BY DEF ChatInv
<1> QED
  BY <1>1, ChatInvHolds, PTL

\* The chat uses the forward pass as ForwardPass allows: it prefills prompts of
\* the templates only and never decodes on an empty cache.
THEOREM ChatUsesForwardPass == Spec => UsesForwardPass
<1>1. Init => FPInit
  BY DEF Init
<1>2. ChatInv /\ [Next]_vars => [FPNext]_fpvars
  BY StepUsesForwardPass
<1> QED
  BY <1>1, <1>2, ChatInvHolds, PTL DEF Spec, FPSpec, UsesForwardPass

\* Hence a conversation is a log that only grows at its end until /reset, and
\* each token is sampled from logits computed from the whole of it.
THEOREM ChatImplementsContextLog == Spec => ImplementsContextLog
<1> QED
  BY ChatUsesForwardPass, ForwardPassImplementsContextLog, PTL DEF UsesForwardPass

\* The full-cache checks inside forward() and execute_decode() are never met.
THEOREM ChatNeverOverruns == Spec => []NeverOverrun
<1>1. ChatInv => NeverOverrun
  BY CallInvNeverOverruns DEF ChatInv
<1> QED
  BY <1>1, ChatInvHolds, PTL

\* What the user has seen is what the model has in its context: while a reply
\* is generated, the rows behind the history are the prompt and then exactly
\* the tokens shown (and the silent ones), for every interleaving of failures.
THEOREM ChatShownIsCached == Spec => []ShownIsCached
<1>1. ChatInv => ShownIsCached
  BY DEF ChatInv, LoopInv
<1> QED
  BY <1>1, ChatInvHolds, PTL

\* The repeat penalty sees the last Window tokens of this reply and no other.
THEOREM ChatPenaltyLooksBack == Spec => []PenaltyLooksBack
<1>1. ChatInv => PenaltyLooksBack
  BY DEF ChatInv, LoopInv
<1> QED
  BY <1>1, ChatInvHolds, PTL

\* A conversation that is not empty begins with BOS and the system prompt.
THEOREM ChatSystemPromptFirst == Spec => []SystemPromptFirst
<1>1. ChatInv => SystemPromptFirst
  BY DEF ChatInv, ConversationInv
<1> QED
  BY <1>1, ChatInvHolds, PTL
-----------------------------------------------------------------------------
(* The conversation *)

\* The mapped stage in every state of a turn.
LEMMA Stages ==
    /\ pc \in {"entry", "prefill"} => TurnStage = "asked"
    /\ pc \in {"sample", "check", "decode"} => TurnStage = "answering"
    /\ pc = "idle" /\ ret = "Ok" => TurnStage = "answered"
    /\ pc = "idle" /\ ret # "Ok" => TurnStage = "failed"
<1> QED
  BY DEF TurnStage, InLoop

LEMMA StagesNext ==
    /\ pc' \in {"entry", "prefill"} => TurnStage' = "asked"
    /\ pc' \in {"sample", "check", "decode"} => TurnStage' = "answering"
    /\ pc' = "idle" /\ ret' = "Ok" => TurnStage' = "answered"
    /\ pc' = "idle" /\ ret' # "Ok" => TurnStage' = "failed"
<1> QED
  BY DEF TurnStage, InLoop

\* The steps of a call: the message is read with the prefill, a word is spoken
\* with each decode, and every way out before the end of the reply is a failure
\* that leaves the conversation as it is.
LEMMA GeneratingTalks ==
    ASSUME ChatInv, Generating
    PROVE  Talk!CNext \/ UNCHANGED Talk!cvars
<1>1. /\ at = "turn" /\ at' = "turn" /\ turnCount' = turnCount /\ limit = MaxNew
      /\ FPInv /\ CallInv /\ GenTypeOK /\ head \in Nat /\ head <= NCtx
  BY DEF Generating, ChatInv, ConversationInv, TypeOK, FPInv, FPTypeOK
<1>2. Len(Tokens(cache, head)) = head
  BY <1>1, TokensLen
<1>3. CASE Enter
  <2>1. TurnStage = "asked" /\ TurnStage' = "asked"
    BY <1>3, Stages, StagesNext DEF Enter
  <2> QED
    BY <2>1, <1>1, <1>3 DEF Enter, fpvars, loopvars, Talk!cvars
<1>4. CASE Refuse \/ PrefillError \/ SampleError \/ EmitError \/ DecodeError
  <2>1. /\ UNCHANGED <<cache, head, turnIds, generated>>
        /\ pc \in {"entry", "prefill", "sample", "check", "decode"}
        /\ pc' = "idle" /\ ret' # "Ok"
    BY <1>4 DEF Refuse, PrefillError, SampleError, EmitError, DecodeError, PrefillFails,
                DecodeFails, Return, fpvars, callvars
  <2>2. TurnStage \in {"asked", "answering"} /\ TurnStage' = "failed"
    BY <2>1, Stages, StagesNext
  <2>3. Talk!Fail
    BY <2>1, <2>2, <1>1 DEF Talk!Fail
  <2> QED
    BY <2>3 DEF Talk!CNext
<1>5. CASE PrefillTurn
  <2>1. /\ turnIds \in Seq(Token) /\ Prefill(turnIds)
        /\ pc = "prefill" /\ pc' = "sample" /\ UNCHANGED <<turnIds, generated>>
        /\ head + Len(turnIds) <= NCtx
    BY <1>1, <1>5 DEF PrefillTurn, GenTypeOK, callvars, loopvars, Prefill
  <2>2. Tokens(cache', head') = Tokens(cache, head) \o turnIds
    BY <2>1, <1>1, PrefillLog
  <2>3. TurnStage = "asked" /\ TurnStage' = "answering"
    BY <2>1, Stages, StagesNext
  <2>4. Talk!Read
    BY <2>1, <2>2, <2>3, <1>1, <1>2 DEF Talk!Read
  <2> QED
    BY <2>4 DEF Talk!CNext
<1>6. CASE Sample \/ Emit
  <2>1. /\ UNCHANGED <<cache, head, turnIds, generated>>
        /\ pc \in {"sample", "check", "decode"} /\ pc' \in {"sample", "check", "decode"}
    BY <1>6 DEF Sample, Emit, fpvars, callvars
  <2>2. TurnStage = "answering" /\ TurnStage' = "answering"
    BY <2>1, Stages, StagesNext
  <2> QED
    BY <2>1, <2>2, <1>1 DEF Talk!cvars
<1>7. CASE Finish
  <2>1. /\ UNCHANGED <<cache, head, turnIds, generated>>
        /\ pc = "check" /\ pc' = "idle" /\ ret' = "Ok"
    BY <1>7 DEF Finish, Return, fpvars, callvars
  <2>2. TurnStage = "answering" /\ TurnStage' = "answered"
    BY <2>1, Stages, StagesNext
  <2>3. Talk!Answer
    BY <2>1, <2>2, <1>1 DEF Talk!Answer
  <2> QED
    BY <2>3 DEF Talk!CNext
<1>8. CASE DecodeNext
  <2>1. /\ pc = "decode" /\ Decode(nextToken) /\ generated' = generated + 1
        /\ pc' = "sample" /\ turnIds' = turnIds
    BY <1>8 DEF DecodeNext, callvars
  <2>2. /\ nextToken \in Sampled \ Eos /\ nextToken \in Token
        /\ head > 0 /\ head < NCtx /\ generated < MaxNew
    BY <2>1, <1>1, SampledAssumption DEF CallInv
  <2>3. Tokens(cache', head') = Append(Tokens(cache, head), nextToken)
    BY <2>1, <2>2, <1>1, DecodeLog
  <2>4. TurnStage = "answering" /\ TurnStage' = "answering"
    BY <2>1, Stages, StagesNext
  <2>5. Talk!Speak(nextToken)
    BY <2>1, <2>2, <2>3, <2>4, <1>1, <1>2 DEF Talk!Speak
  <2> QED
    BY <2>2, <2>5 DEF Talk!CNext
<1> QED
  BY <1>3, <1>4, <1>5, <1>6, <1>7, <1>8 DEF Generating, GenStep

LEMMA NextTalks == ChatInv /\ [Next]_vars => [Talk!CNext]_(Talk!cvars)
<1> SUFFICES ASSUME ChatInv, [Next]_vars
             PROVE  Talk!CNext \/ UNCHANGED Talk!cvars
  OBVIOUS
<1>1. ASSUME NEW m \in Messages, Submit(m)
      PROVE  Talk!CNext
  <2>1. /\ at = "prompt" /\ at' = "turn" /\ pc' = "entry"
        /\ turnIds' = TurnTokens(m) /\ generated' = 0
        /\ UNCHANGED <<cache, head, turnCount>>
    BY <1>1 DEF Submit, Call, fpvars
  <2>2. TurnStage' = "asked"
    BY <2>1, StagesNext
  <2>3. Talk!Say(m)
    BY <2>1, <2>2 DEF Talk!Say, TurnTokens
  <2> QED
    BY <2>3 DEF Talk!CNext
<1>2. CASE Generating
  BY <1>2, GeneratingTalks
<1>3. CASE TurnOk
  <2>1. /\ at = "turn" /\ at' = "prompt" /\ turnCount' = turnCount + 1
        /\ UNCHANGED <<cache, head, turnIds, generated>>
    BY <1>3 DEF TurnOk, fpvars, genvars, callvars, loopvars
  <2>2. TurnStage = "answered"
    BY <1>3, Stages DEF TurnOk
  <2>3. Talk!Prompt
    BY <2>1, <2>2 DEF Talk!Prompt
  <2> QED
    BY <2>3 DEF Talk!CNext
<1>4. CASE TurnError
  <2>1. /\ at = "turn" /\ at' = "prompt" /\ turnCount' = turnCount
        /\ UNCHANGED <<cache, head, turnIds, generated>>
    BY <1>4 DEF TurnError, fpvars, genvars, callvars, loopvars
  <2>2. TurnStage = "failed"
    BY <1>4, Stages DEF TurnError, Errors
  <2>3. Talk!Prompt
    BY <2>1, <2>2 DEF Talk!Prompt
  <2> QED
    BY <2>3 DEF Talk!CNext
<1>5. CASE Reset
  <2>1. /\ at = "prompt" /\ at' = at /\ turnCount' = 0 /\ head' = 0
        /\ UNCHANGED <<turnIds, generated>>
    BY <1>5 DEF Reset, ResetKV, genvars, callvars, loopvars
  <2>2. Tokens(cache', head') = <<>>
    BY <2>1 DEF Tokens
  <2>3. Talk!Forget
    BY <2>1, <2>2 DEF Talk!Forget
  <2> QED
    BY <2>3 DEF Talk!CNext
<1>6. CASE Leave
  <2>1. Talk!Quit
    BY <1>6 DEF Leave, Talk!Quit, fpvars, genvars, callvars, loopvars
  <2> QED
    BY <2>1 DEF Talk!CNext
<1>7. CASE Exited \/ UNCHANGED vars
  <2>1. UNCHANGED <<at, turnCount, pc, ret, cache, head, turnIds, generated>>
    BY <1>7 DEF Exited, vars, fpvars, genvars, callvars, loopvars
  <2>2. TurnStage' = TurnStage
    BY <2>1 DEF TurnStage, InLoop
  <2> QED
    BY <2>1, <2>2 DEF Talk!cvars
<1> QED
  BY <1>1, <1>2, <1>3, <1>4, <1>5, <1>6, <1>7 DEF Next, Turn

\* The chat implements the conversation its user is promised.
THEOREM ChatHoldsConversation == Spec => HoldsConversation
<1>1. Init => Talk!CInit
  <2> SUFFICES ASSUME Init PROVE Talk!CInit
    OBVIOUS
  <2>1. at = "prompt" /\ turnCount = 0 /\ head = 0 /\ turnIds = <<>> /\ generated = 0
    BY DEF Init, FPInit, GenInit
  <2>2. Tokens(cache, head) = <<>>
    BY <2>1 DEF Tokens
  <2> QED
    BY <2>1, <2>2 DEF Talk!CInit
<1> QED
  BY <1>1, NextTalks, ChatInvHolds, PTL DEF Spec, HoldsConversation, Talk!CSpec
-----------------------------------------------------------------------------
(* A turn comes nearer to its end with every step                          *)

TurnLeft == IF at = "turn" THEN CallLeft + 1 ELSE 0

\* No step of a turn goes back: the loop of generate.rs cannot spin.
TurnAdvances == [][at = "turn" => TurnLeft' < TurnLeft]_vars

\* From the message to the next prompt a turn takes at most 3 * MaxNew + 6
\* steps, whatever fails and wherever: every step of it brings a number of
\* that range down. That it takes them at all is the fairness TurnEnds assumes.
THEOREM ChatTurnAdvances == Spec => [](TurnLeft \in 0..(3 * MaxNew + 6)) /\ TurnAdvances
<1>1. ChatInv => TurnLeft \in 0..(3 * MaxNew + 6)
  <2> SUFFICES ASSUME ChatInv PROVE TurnLeft \in 0..(3 * MaxNew + 6)
    OBVIOUS
  <2>1. MaxNew \in Nat /\ (at = "turn" => limit = MaxNew) /\ GenTypeOK
    BY ChatAssumption DEF ChatInv, TypeOK, ConversationInv
  <2>2. CallLeft \in 0..(3 * limit + 5)
    BY <2>1, CallLeftBounded
  <2> HIDE DEF CallLeft
  <2> QED
    BY <2>1, <2>2 DEF TurnLeft
<1>2. ChatInv /\ [Next]_vars => [at = "turn" => TurnLeft' < TurnLeft]_vars
  <2> SUFFICES ASSUME ChatInv, Next, at = "turn" PROVE TurnLeft' < TurnLeft
    OBVIOUS
  <2>1. GenTypeOK
    BY DEF ChatInv, TypeOK
  <2>2. CallLeft \in Nat
    <3>1. limit \in Nat /\ CallLeft \in 0..(3 * limit + 5)
      BY <2>1, CallLeftBounded DEF GenTypeOK
    <3> QED
      BY <3>1
  <2>3. CASE Generating
    <3>1. CallLeft' \in Int /\ CallLeft' < CallLeft /\ at' = "turn"
      BY <2>1, <2>3, GenStepLeaves DEF Generating
    <3>2. TurnLeft = CallLeft + 1 /\ TurnLeft' = CallLeft' + 1
      BY <3>1 DEF TurnLeft
    <3>3. PICK a \in Int, b \in Int : a = CallLeft' /\ b = CallLeft
      BY <3>1, <2>2
    <3>4. a < b /\ TurnLeft = b + 1 /\ TurnLeft' = a + 1
      BY <3>1, <3>2, <3>3
    <3> QED
      BY ONLY <3>4, a \in Int, b \in Int
  <2>4. CASE TurnOk \/ TurnError
    <3>1. at' = "prompt"
      BY <2>4 DEF TurnOk, TurnError
    <3>2. TurnLeft' = 0 /\ TurnLeft = CallLeft + 1
      BY <3>1 DEF TurnLeft
    <3> QED
      BY <3>2, <2>2
  <2> QED
    BY <2>3, <2>4 DEF Next, Turn, Submit, Reset, Leave, Exited
<1> QED
  BY <1>1, <1>2, ChatInitEstablishesInv, ChatNextKeepsInv, PTL DEF Spec, TurnAdvances
=============================================================================
