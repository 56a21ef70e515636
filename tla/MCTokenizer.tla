---------------------------- MODULE MCTokenizer ----------------------------
(* Four vocabularies over h, e, l, space (U+0120 in GPT-2's encoding),     *)
(* newline (U+010A) and the two bytes of U+00E9, and texts over these.     *)
EXTENDS Tokenizer

h == 104
e == 101
l == 108
o == 111
z == 122

Tok(s, type)  == [text |-> s, type |-> type]
Normal(texts) == [k \in DOMAIN texts |-> Tok(texts[k], 1)]

Singles == << <<h>>, <<e>>, <<l>>, UTF8(288), UTF8(266), UTF8(195), UTF8(169) >>

\* The tokenizer of the program's tests, its types included.
Minimal == [
    vocab  |-> <<Tok(<<60, 62>>, 2)>> \o
               Normal(<< <<h>>, <<e>>, <<l>>, <<o>>, <<h, e>>, <<h, e, l>>,
                         <<h, e, l, l>>, <<h, e, l, l, o>>, <<32>> >>),
    merges |-> << << <<h>>, <<e>> >>, << <<h, e>>, <<l>> >>,
                  << <<h, e, l>>, <<l>> >>, << <<h, e, l, l>>, <<o>> >> >>]

\* A complete vocabulary whose best merge competes with the longest match.
Competing == [
    vocab  |-> <<Tok(<<60, 62>>, 3)>> \o
               Normal(Singles \o << <<h, e>>, <<e, l>>, <<l, l>>, UTF8(288) \o <<h>> >>),
    merges |-> << << <<e>>, <<l>> >>, << <<h>>, <<e>> >>, << <<l>>, <<l>> >>,
                  << UTF8(288), <<h>> >> >>]

\* Two tokens with one text, two rules for one pair, and a rule whose result
\* is no token.
Doubled == [
    vocab  |-> Normal(Singles \o << <<h, e>>, <<h, e>>, <<l>>, <<l, l>>, <<l, l, l>>,
                                <<l, l, l, l, l>> >>),
    merges |-> << << <<e>>, <<l>> >>, << <<h>>, <<e>> >>,
                  << <<l>>, <<l>> >>, << <<h, e>>, <<l>> >>, << <<l, l>>, <<l>> >>,
                  << <<l, l, l>>, <<l, l>> >> >>]

\* Not complete: no newline, no e; byte tokens for some bytes, one of them
\* the first byte of the space's encoding.
WithBytes == [
    vocab  |-> Normal(<< <<h>>, <<l>> >>)
               \o <<Tok(<<1>>, 6), Tok(<<2>>, 6), Tok(<<196>>, 6), Tok(<<e>>, 2)>>,
    merges |-> << << <<l>>, <<l>> >> >>]

MCTokenizers == {Minimal, Competing, Doubled, WithBytes}

\* Every text of up to three bytes, and a longer one; and a text with its
\* first unknown byte behind the last entry of the table, which is short.
MCInputTexts ==
    UNION {[1 .. n -> {h, e, l, 32, 10}] : n \in 0 .. 3}
    \cup {<<h, e, l, l, o>>, <<h, e, l, l, 32, h, e>>, <<l, l, l, l>>, <<l, l, l, l, l>>, <<195, 169>>,
          <<h, 195, 169>>, <<h, h, h, h, h, z>>}
=============================================================================
