--------------------------- MODULE Conversation ---------------------------
(***************************************************************************)
(* What the chat promises its user, turn by turn, without caches, passes   *)
(* or positions: a message is read whole or not at all, the first one of a *)
(* conversation behind the system prompt; the reply follows it token by    *)
(* token, never longer than allowed and never with an end-of-text token in *)
(* it; a turn counts when its reply is complete; and only /reset forgets.  *)
(***************************************************************************)
EXTENDS Naturals, Sequences

CONSTANTS Said,            \* what the user may say
          First(_),        \* a message as the first of a conversation
          Followup(_),     \* and as a later one
          Words,           \* what a reply may consist of
          Longest,         \* tokens of a reply
          Capacity         \* tokens of a conversation

VARIABLES
    stage,    \* "prompt", "asked", "answering", "answered", "failed", "exited"
    turns,    \* the turns that count
    log,      \* the conversation so far
    pending,  \* the message, as it will be read
    spoken    \* tokens of the reply so far

cvars == <<stage, turns, log, pending, spoken>>

CInit ==
    /\ stage = "prompt" /\ turns = 0
    /\ log = <<>> /\ pending = <<>> /\ spoken = 0

Say(m) ==
    /\ stage = "prompt"
    /\ stage' = "asked"
    /\ pending' = IF turns = 0 THEN First(m) ELSE Followup(m)
    /\ spoken' = 0
    /\ UNCHANGED <<turns, log>>

Read ==
    /\ stage = "asked"
    /\ Len(log) + Len(pending) <= Capacity
    /\ log' = log \o pending
    /\ stage' = "answering"
    /\ UNCHANGED <<turns, pending, spoken>>

Speak(w) ==
    /\ stage = "answering"
    /\ spoken < Longest /\ Len(log) < Capacity
    /\ log' = Append(log, w)
    /\ spoken' = spoken + 1
    /\ UNCHANGED <<stage, turns, pending>>

Answer ==
    /\ stage = "answering"
    /\ stage' = "answered"
    /\ UNCHANGED <<turns, log, pending, spoken>>

\* What has been read and said stays.
Fail ==
    /\ stage \in {"asked", "answering"}
    /\ stage' = "failed"
    /\ UNCHANGED <<turns, log, pending, spoken>>

Prompt ==
    /\ stage \in {"answered", "failed"}
    /\ stage' = "prompt"
    /\ turns' = IF stage = "answered" THEN turns + 1 ELSE turns
    /\ UNCHANGED <<log, pending, spoken>>

Forget ==
    /\ stage = "prompt"
    /\ log' = <<>> /\ turns' = 0
    /\ UNCHANGED <<stage, pending, spoken>>

Quit ==
    /\ stage = "prompt"
    /\ stage' = "exited"
    /\ UNCHANGED <<turns, log, pending, spoken>>

CNext ==
    \/ \E m \in Said : Say(m)
    \/ Read
    \/ \E w \in Words : Speak(w)
    \/ Answer \/ Fail \/ Prompt \/ Forget \/ Quit

CSpec == CInit /\ [][CNext]_cvars
=============================================================================
