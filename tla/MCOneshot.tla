----------------------------- MODULE MCOneshot -----------------------------
(* Prompts from empty to longer than the cache, the regression prompt with *)
(* its template, a speed prompt without one.                               *)
EXTENDS Oneshot

CONSTANTS bos, sys, word, pad, eot

MCToken       == {bos, sys, word, pad, eot}
MCSampled     == {word, pad, eot}
MCRegression  == <<bos, sys, word>>
MCSpeed       == <<bos, word>>
MCUserPrompts == {<<>>, <<word>>, <<bos, sys, word, word>>,
                  <<bos, word, word, word, word, word, word>>,
                  <<bos, word, word, word, word, word, word, word>>}
MCPrompts     == MCUserPrompts \cup {MCRegression, MCSpeed}
=============================================================================
