------------------------------- MODULE Chat -------------------------------
(***************************************************************************)
(* src/main.rs run_chat, with Session and generate_turn of generate.rs:    *)
(* the interactive conversation over the generation loop.                  *)
(***************************************************************************)
EXTENDS Generation

CONSTANTS Messages,  \* what the user may type, as token sequences
          BOS,       \* T_BOS
          SYS,       \* the system turn, its header and its end
          USR,       \* the header of a user turn
          EOT,       \* T_EOT
          AST,       \* the header of an assistant turn
          MaxNew     \* cfg.max_new_tokens

\* build_chat_tokens and build_followup_chat_tokens.
FollowupTokens(m) == <<USR>> \o m \o <<EOT, AST>>
ChatTokens(m)     == <<BOS, SYS>> \o FollowupTokens(m)

ASSUME ChatAssumption ==
    /\ MaxNew \in Nat
    /\ EOT \in Eos
    /\ {BOS, SYS, USR, EOT, AST} \subseteq Token
    /\ Messages \subseteq Seq(Token)
    /\ \A m \in Messages : {ChatTokens(m), FollowupTokens(m)} \subseteq Prompts

VARIABLES
    at,          \* "prompt": reading a line; "turn": in generate_turn; "exited"
    turnCount    \* session.turn_count

vars == <<fpvars, genvars, at, turnCount>>

TypeOK ==
    /\ FPTypeOK
    /\ GenTypeOK
    /\ at \in {"prompt", "turn", "exited"}
    /\ turnCount \in Nat

Init ==
    /\ FPInit
    /\ GenInit
    /\ at = "prompt"
    /\ turnCount = 0

\* generate_turn: the template depends on session.turn_count alone.
TurnTokens(m) == IF turnCount = 0 THEN ChatTokens(m) ELSE FollowupTokens(m)

Submit(m) ==
    /\ at = "prompt"
    /\ Call(TurnTokens(m), FALSE, MaxNew)
    /\ at' = "turn"
    /\ UNCHANGED <<fpvars, turnCount>>

\* The call has returned: only a complete turn is recorded.
TurnOk ==
    /\ at = "turn"
    /\ pc = "idle"
    /\ ret = "Ok"
    /\ turnCount' = turnCount + 1
    /\ at' = "prompt"
    /\ UNCHANGED <<fpvars, genvars>>

\* ContextFull and every other error print a message and nothing else.
TurnError ==
    /\ at = "turn"
    /\ pc = "idle"
    /\ ret \in Errors
    /\ at' = "prompt"
    /\ UNCHANGED <<fpvars, genvars, turnCount>>

\* Mutant: the session goes on after the cache was reset.
Reset_SessionStays ==
    /\ at = "prompt"
    /\ ResetKV
    /\ UNCHANGED <<genvars, at, turnCount>>

\* "/reset".
Reset ==
    /\ at = "prompt"
    /\ ResetKV
    /\ turnCount' = 0
    /\ UNCHANGED <<genvars, at>>

\* "/quit", "/exit", end of file or a read error.
Leave ==
    /\ at = "prompt"
    /\ at' = "exited"
    /\ UNCHANGED <<fpvars, genvars, turnCount>>

Exited ==
    /\ at = "exited"
    /\ UNCHANGED vars

Generating == at = "turn" /\ GenStep /\ UNCHANGED <<at, turnCount>>

\* What the program does by itself once a message has been submitted.
Turn == Generating \/ TurnOk \/ TurnError

Next ==
    \/ \E m \in Messages : Submit(m)
    \/ Turn
    \/ Reset
    \/ Leave
    \/ Exited

Spec == Init /\ [][Next]_vars

\* A turn runs on the program's only thread and waits for nobody.
FairSpec == Spec /\ WF_vars(Turn)
-----------------------------------------------------------------------------
(* Properties *)

\* The conversation in the cache begins with BOS and the system prompt, and
\* once a turn is recorded the cache is never empty: session.turn_count and
\* kv.head are reset together (main.rs:252-257) and a turn is only counted
\* after its tokens are in the cache (main.rs:266).
SystemPromptFirst ==
    /\ turnCount > 0 => head > 0
    /\ head > 0 => cache[0].tok = BOS /\ cache[1].tok = SYS

\* A message is always answered, refused or failed, and the prompt returns.
TurnEnds == at = "turn" ~> at = "prompt"

\* Where a turn stands, seen by the user.
TurnStage ==
    CASE pc \in {"entry", "prefill"} -> "asked"
      [] InLoop -> "answering"
      [] pc = "idle" /\ ret = "Ok" -> "answered"
      [] OTHER -> "failed"

\* A turn is a call of the loop; the conversation is the cache below its head.
Talk == INSTANCE Conversation WITH
    Said <- Messages, First <- ChatTokens, Followup <- FollowupTokens,
    Words <- Sampled \ Eos, Longest <- MaxNew, Capacity <- NCtx,
    stage <- IF at = "turn" THEN TurnStage ELSE at,
    turns <- turnCount, log <- Tokens(cache, head),
    pending <- turnIds, spoken <- generated

\* The chat is a conversation, turn by turn: what is in the cache is what was
\* said, whatever was refused or failed in between; a turn is counted when its
\* reply is complete, and only then; and /reset clears the cache and the count
\* together (main.rs:228-275, generate.rs:141-216). It describes the code where
\* EndOfReplyCached and OldTurnsMakeRoom, below, state what is written about it.
HoldsConversation == Talk!CSpec

\* generate.rs:5-7: "each turn's tokens are appended via prefill() starting at
\* the current kv.head": a follow-up's rotary positions go on from there.
PositionsContinue == turnCount > 0 => PositionsFollowRows

\* generate.rs:322-325: a follow-up is "Appended to the existing KV cache, which
\* already holds everything before this point (including the model's previous
\* EOT from its last reply)": behind a reply that neither its length nor the
\* cache has cut, and so the model has ended, its end token is in the cache.
EndOfReplyCached ==
    /\ at = "prompt" /\ turnCount > 0
    /\ ret = "Ok" /\ generated < limit /\ head < NCtx
    => cache[head - 1].tok \in Eos

\* README.md:27: "when context fills, drops oldest turns and re-prefills from
\* the system prompt, seamlessly": behind a turn that was answered, a message is
\* refused only if it would not even fit behind the system prompt alone.
OldTurnsMakeRoom ==
    at = "turn" /\ pc = "idle" /\ turnCount > 0 /\ ret = "ContextFull" =>
        \A m \in Messages : turnIds = FollowupTokens(m) => Len(ChatTokens(m)) > NCtx

\* generate.rs:255-257: "The first turn includes BOS + system prompt;
\* follow-ups are just the user message + assistant header".
OneSystemPrompt == \A r \in 1..(head - 1) : cache[r].tok # BOS
=============================================================================
