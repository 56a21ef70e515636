------------------------------ MODULE Oneshot ------------------------------
(***************************************************************************)
(* The non-interactive drivers of the generation loop: run_prompt with     *)
(* generate (--prompt) and run_bench (--bench). Both mean every call to    *)
(* start on an empty cache.                                                *)
(***************************************************************************)
EXTENDS Generation

CONSTANTS UserPrompts,    \* what the --prompt text may tokenise to
          RegressionIds,  \* the chat tokens of REGRESSION_PROMPT
          SpeedIds,       \* the tokens of SPEED_PROMPT
          ContextLen,     \* cfg.context_len
          MaxNew,         \* cfg.max_new_tokens
          RegressionNew,  \* max_new_tokens of the regression run
          SpeedNew,       \* max_new_tokens of a speed run
          SPEED_RUNS

ASSUME OneshotAssumption ==
    /\ {ContextLen, MaxNew, RegressionNew, SpeedNew, SPEED_RUNS} \subseteq Nat
    /\ UserPrompts \cup {RegressionIds, SpeedIds} \subseteq Prompts

VARIABLES
    stage,    \* where the driver stands
    run,      \* the speed run in progress, SPEED_RUNS + 1 when all are done
    prompt    \* what --prompt tokenised to

drivervars == <<stage, run, prompt>>
vars == <<fpvars, genvars, drivervars>>

TypeOK ==
    /\ FPTypeOK
    /\ GenTypeOK
    /\ stage \in {"generate", "generating", "regression", "regressing",
                  "speed", "speeding", "exited"}
    /\ run \in 1..(SPEED_RUNS + 1)
    /\ prompt \in UserPrompts

Init ==
    /\ FPInit
    /\ GenInit
    /\ stage \in {"generate", "regression"}
    /\ run = 1
    /\ prompt \in UserPrompts

\* Mutant: the call goes on where the last one stopped.
ResetAndCall_NoReset(ids, q, n) == Call(ids, q, n) /\ UNCHANGED fpvars

\* fwd.reset_kv() and then run_generation on ids.
ResetAndCall(ids, q, n) == ResetKV /\ Call(ids, q, n)
-----------------------------------------------------------------------------
(* --prompt: generate *)

Acceptable(ids) == ids # <<>> /\ Len(ids) < ContextLen

Generate ==
    /\ stage = "generate"
    /\ Acceptable(prompt)
    /\ ResetAndCall(prompt, FALSE, MaxNew)
    /\ stage' = "generating"
    /\ UNCHANGED <<run, prompt>>

\* EmptyPrompt, before the first reset (a text that is not blank has a token),
\* or ContextLengthExceeded, behind it; run_prompt exits.
GenerateRejects ==
    /\ stage = "generate"
    /\ ~Acceptable(prompt)
    /\ IF prompt = <<>> THEN UNCHANGED fpvars ELSE ResetKV
    /\ stage' = "exited"
    /\ UNCHANGED <<genvars, run, prompt>>

\* The reset "after" is reached only when run_generation succeeded.
GenerateOk ==
    /\ stage = "generating"
    /\ pc = "idle"
    /\ ret = "Ok"
    /\ ResetKV
    /\ stage' = "exited"
    /\ UNCHANGED <<genvars, run, prompt>>

GenerateError ==
    /\ stage = "generating"
    /\ pc = "idle"
    /\ ret \in Errors
    /\ stage' = "exited"
    /\ UNCHANGED <<fpvars, genvars, run, prompt>>
-----------------------------------------------------------------------------
(* --bench: run_bench *)

Regression ==
    /\ stage = "regression"
    /\ ResetAndCall(RegressionIds, TRUE, RegressionNew)
    /\ stage' = "regressing"
    /\ UNCHANGED <<run, prompt>>

\* The reply mentions Paris, and the speed runs begin. They sample with the
\* temperature of cfg, which may be refused where the regression's 0.01 was not.
RegressionPass ==
    /\ stage = "regressing"
    /\ pc = "idle"
    /\ ret = "Ok"
    /\ ResetKV
    /\ samplingValid' \in BOOLEAN
    /\ stage' = "speed"
    /\ UNCHANGED <<pc, ret, callvars, loopvars, run, prompt>>

\* It does not, or the call failed: run_bench returns, the cache as it is.
RegressionFail ==
    /\ stage = "regressing"
    /\ pc = "idle"
    /\ stage' = "exited"
    /\ UNCHANGED <<fpvars, genvars, run, prompt>>

\* Mutant: one run more than SPEED_RUNS.
SpeedRun_OneMore ==
    /\ stage = "speed"
    /\ run <= SPEED_RUNS + 1
    /\ ResetAndCall(SpeedIds, TRUE, SpeedNew)
    /\ stage' = "speeding"
    /\ UNCHANGED <<run, prompt>>

SpeedRun ==
    /\ stage = "speed"
    /\ run <= SPEED_RUNS
    /\ ResetAndCall(SpeedIds, TRUE, SpeedNew)
    /\ stage' = "speeding"
    /\ UNCHANGED <<run, prompt>>

\* Mutant: a run that failed is repeated.
SpeedRunDone_Retry ==
    /\ stage = "speeding"
    /\ pc = "idle"
    /\ run' = IF ret = "Ok" THEN run + 1 ELSE run
    /\ stage' = "speed"
    /\ UNCHANGED <<fpvars, genvars, prompt>>

\* A run that failed is reported, and the next one starts all the same.
SpeedRunDone ==
    /\ stage = "speeding"
    /\ pc = "idle"
    /\ run' = run + 1
    /\ stage' = "speed"
    /\ UNCHANGED <<fpvars, genvars, prompt>>

SpeedDone ==
    /\ stage = "speed"
    /\ run > SPEED_RUNS
    /\ ResetKV
    /\ stage' = "exited"
    /\ UNCHANGED <<genvars, run, prompt>>
-----------------------------------------------------------------------------
Generating ==
    /\ stage \in {"generating", "regressing", "speeding"}
    /\ GenStep
    /\ UNCHANGED drivervars

Exited ==
    /\ stage = "exited"
    /\ UNCHANGED vars

Work ==
    \/ Generate \/ GenerateRejects \/ GenerateOk \/ GenerateError
    \/ Regression \/ RegressionPass \/ RegressionFail
    \/ SpeedRun \/ SpeedRunDone \/ SpeedDone
    \/ Generating

Next == Work \/ Exited

Spec == Init /\ [][Next]_vars

\* The program runs on one thread and waits for no input.
FairSpec == Spec /\ WF_vars(Work)
-----------------------------------------------------------------------------
(* Properties *)

\* A reply depends on its own prompt alone: the logits a token is sampled
\* from are those of the prompt and the reply so far, whatever became of the
\* call before (generate.rs:234, main.rs:299, 326, 340).
AnswersItsPromptOnly ==
    pc \in {"sample", "check", "decode"} =>
        /\ used = 0
        /\ basis = turnIds \o Reply

\* The program comes to its end; no failure makes it retry for ever.
Terminates == <>(stage = "exited")
=============================================================================
