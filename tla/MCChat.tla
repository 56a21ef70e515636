------------------------------ MODULE MCChat ------------------------------
(* One short and one long message; the sampler draws a word, the end of    *)
(* the turn, or a special token that has no text.                          *)
EXTENDS Chat

CONSTANTS word, pad

MCToken    == {BOS, SYS, USR, EOT, AST, word, pad}
MCSampled  == {word, pad, EOT}
MCMessages == {<<word>>, <<word, word>>}
MCPrompts  == {ChatTokens(m) : m \in MCMessages}
                \cup {FollowupTokens(m) : m \in MCMessages}
=============================================================================
