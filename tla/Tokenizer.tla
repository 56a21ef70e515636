----------------------------- MODULE Tokenizer -----------------------------
(***************************************************************************)
(* src/tokenizer.rs: one call of encode, on one of the vocabularies a      *)
(* model file may bring. The text is first written in GPT-2's encoding,    *)
(* one character per byte; initial_tokenise then cuts that into tokens,    *)
(* the longest match first, and bpe_merge joins neighbours until no merge  *)
(* rule applies. decode_one reads a token back.                            *)
(*                                                                         *)
(* A tokenizer t is built by from_gguf_parts from                          *)
(*   t.vocab   a sequence of [text, type], the text of a token in bytes    *)
(*             ("<0x41>" is <<65>>); the id of a token is its index less 1 *)
(*   t.merges  a sequence of <<left text, right text>>                     *)
(***************************************************************************)
EXTENDS Integers, Sequences, SequencesExt, FiniteSets

CONSTANTS Tokenizers,  \* the tokenizers there may be
          InputTexts,  \* and the texts to encode, in bytes
          MaxMatch,    \* bytes of the longest match tried: 64
          Table,       \* entries of byte_to_token: 256
          BOS, EOS, EOT, PAD

Byte  == 0 .. 255
Entry == [text : Seq(Byte), type : Nat]

\* A token's text is a String of the file, and so UTF-8, in which no text
\* ends with the first byte of a longer character; or it is a single byte.
ASSUME TokenizersAssumption ==
    \A t \in Tokenizers :
        /\ t.vocab \in Seq(Entry) /\ Len(t.vocab) > 0
        /\ \A k \in DOMAIN t.vocab :
               Len(t.vocab[k].text) > 1 => t.vocab[k].text[Len(t.vocab[k].text)] < 192
        /\ t.merges \in Seq(Seq(Byte) \X Seq(Byte))
ASSUME TextsAssumption == InputTexts \subseteq Seq(Byte)
ASSUME MaxMatchAssumption == MaxMatch \in Nat \ {0, 1} /\ Table \in Nat
-----------------------------------------------------------------------------
(* The tables                                                              *)

Ids(t)      == 0 .. Len(t.vocab) - 1
Text(t, id) == t.vocab[id + 1].text
Type(t, id) == t.vocab[id + 1].type

\* token_to_id: of two tokens with one text the later stays.
HasToken(t, s) == \E id \in Ids(t) : Text(t, id) = s
IdOf(t, s) == CHOOSE id \in Ids(t) :
                  /\ Text(t, id) = s
                  /\ \A other \in Ids(t) : Text(t, other) = s => other <= id

\* merge_rank: the rules whose two sides are tokens, by the ids of these; of
\* two rules for one pair the later counts.
RulesFor(t, l, r) ==
    {k \in DOMAIN t.merges : LET left == t.merges[k][1]  right == t.merges[k][2] IN
        /\ HasToken(t, left) /\ IdOf(t, left) = l
        /\ HasToken(t, right) /\ IdOf(t, right) = r}
Ranked(t, l, r) == RulesFor(t, l, r) # {}
Rank(t, l, r)   == CHOOSE k \in RulesFor(t, l, r) : \A j \in RulesFor(t, l, r) : j <= k

\* byte_to_token: byte tokens, and single bytes that are not normal tokens;
\* again the last. A byte without one gets 0 (the look-up of "<0xNN>" finds
\* nothing: such a string became its byte).
ByteTokens(t, b) ==
    {id \in Ids(t) : /\ \/ Type(t, id) = 6
                        \/ Len(Text(t, id)) = 1 /\ Type(t, id) # 1
                     /\ Text(t, id)[1] = b}

ByteToken(t, b) ==
    IF ByteTokens(t, b) = {} THEN 0
    ELSE CHOOSE id \in ByteTokens(t, b) : \A other \in ByteTokens(t, b) : other <= id

\* bytes_to_gpt2_unicode: printable bytes stand for themselves, the others
\* for the code points from 256 on; all of them are below 0x800.
Printable(b) == b \in (33 .. 126) \cup (161 .. 172) \cup (174 .. 255)
CodePoint(b) == IF Printable(b) THEN b
                ELSE 256 + Cardinality({c \in 0 .. b - 1 : ~Printable(c)})
UTF8(cp)     == IF cp < 128 THEN <<cp>> ELSE <<192 + (cp \div 64), 128 + (cp % 64)>>
Encoded(s)   == FlattenSeq([k \in DOMAIN s |-> UTF8(CodePoint(s[k]))])

\* gpt2_char_len.
CharLen(first) == IF first < 128 THEN 1 ELSE IF first < 224 THEN 2 ELSE 3

\* orig_byte_at: which byte of the text, counted from 0, the character at
\* position p of its encoding b comes from; 0 if no character begins there.
OrigByteAt(s, b, p) ==
    LET start[k \in 0 .. Len(s) - 1] ==
            IF k = 0 THEN 0 ELSE start[k - 1] + CharLen(b[start[k - 1] + 1])
        here == {k \in 0 .. Len(s) - 1 : start[k] = p}
    IN IF here = {} THEN 0 ELSE CHOOSE k \in here : TRUE
-----------------------------------------------------------------------------
(* encode                                                                  *)

VARIABLES
    tok,     \* the tokenizer
    text,    \* the text
    addBos,
    bytes,   \* gpt2_bytes
    stage,   \* "cut", "merge", "done" or "panicked"
    pos,     \* i of initial_tokenise
    work,    \* working, then ids of bpe_merge
    ids,     \* the result
    ends,    \* history variable: where in bytes each token of work ends
    fell     \* history variable: the byte fallback was taken

vars == <<tok, text, addBos, bytes, stage, pos, work, ids, ends, fell>>
input == <<tok, text, addBos, bytes>>

TypeOK ==
    /\ tok \in Tokenizers /\ text \in InputTexts /\ addBos \in BOOLEAN
    /\ stage \in {"cut", "merge", "done", "panicked"}
    /\ pos \in Nat
    /\ work \in Seq(Ids(tok))
    /\ ends \in Seq(Nat) /\ Len(ends) = Len(work)
    /\ ids \in Seq(Ids(tok) \cup {BOS})
    /\ fell \in BOOLEAN

Init ==
    /\ tok \in Tokenizers /\ text \in InputTexts /\ addBos \in BOOLEAN
    /\ bytes = Encoded(text)
    /\ stage = "cut" /\ pos = 0
    /\ work = <<>> /\ ids = <<>>
    /\ ends = <<>> /\ fell = FALSE

\* The lengths at which a token matches here.
Piece(len) == SubSeq(bytes, pos + 1, pos + len)
\* Mutant: the last byte is left out.
Matches_BeforeLast == {len \in 1 .. MaxMatch : pos + len < Len(bytes) /\ HasToken(tok, Piece(len))}
Matches == {len \in 1 .. MaxMatch : pos + len <= Len(bytes) /\ HasToken(tok, Piece(len))}
\* Mutant: the loop over the lengths is not reversed.
Longest_Shortest == CHOOSE len \in Matches : \A other \in Matches : len <= other
Longest == CHOOSE len \in Matches : \A other \in Matches : other <= len

\* Mutant: a match is passed by only its first character.
Match_OneCharacter ==
    /\ stage = "cut" /\ pos < Len(bytes)
    /\ Matches # {}
    /\ work' = Append(work, IdOf(tok, Piece(Longest)))
    /\ pos' = pos + CharLen(bytes[pos + 1])
    /\ ends' = Append(ends, pos')
    /\ UNCHANGED <<input, stage, ids, fell>>

Match ==
    /\ stage = "cut" /\ pos < Len(bytes)
    /\ Matches # {}
    /\ work' = Append(work, IdOf(tok, Piece(Longest)))
    /\ pos' = pos + Longest
    /\ ends' = Append(ends, pos')
    /\ UNCHANGED <<input, stage, ids, fell>>

\* Mutant: the position stays where nothing matched.
Fallback_StaysThere ==
    /\ stage = "cut" /\ pos < Len(bytes)
    /\ Matches = {}
    /\ OrigByteAt(text, bytes, pos) < Table
    /\ fell' = TRUE
    /\ UNCHANGED <<input, stage, pos, work, ends, ids>>

\* The table is indexed by what orig_byte_at returns, the position of the
\* byte and not the byte.
Fallback ==
    /\ stage = "cut" /\ pos < Len(bytes)
    /\ Matches = {}
    /\ OrigByteAt(text, bytes, pos) < Table
    /\ work' = Append(work, ByteToken(tok, OrigByteAt(text, bytes, pos)))
    /\ pos' = pos + CharLen(bytes[pos + 1])
    /\ ends' = Append(ends, pos')
    /\ fell' = TRUE
    /\ UNCHANGED <<input, stage, ids>>

\* An index behind the table.
FallbackPanics ==
    /\ stage = "cut" /\ pos < Len(bytes)
    /\ Matches = {}
    /\ OrigByteAt(text, bytes, pos) >= Table
    /\ stage' = "panicked"
    /\ UNCHANGED <<input, pos, work, ids, ends, fell>>

CutDone ==
    /\ stage = "cut" /\ pos >= Len(bytes)
    /\ stage' = "merge"
    /\ UNCHANGED <<input, pos, work, ids, ends, fell>>

\* The pair bpe_merge picks: the lowest rank, of equals the leftmost.
Pairs(t, w) == {i \in 1 .. Len(w) - 1 : Ranked(t, w[i], w[i + 1])}
RankAt(t, w, i) == Rank(t, w[i], w[i + 1])
BestPair(t, w) ==
    CHOOSE i \in Pairs(t, w) : \A j \in Pairs(t, w) :
        \/ RankAt(t, w, i) < RankAt(t, w, j)
        \/ RankAt(t, w, i) = RankAt(t, w, j) /\ i <= j

MergedText(t, w, i) == Text(t, w[i]) \o Text(t, w[i + 1])

\* Element i becomes x and element i + 1 goes.
Joined(s, i, x) == [k \in 1 .. Len(s) - 1 |-> IF k < i THEN s[k] ELSE IF k = i THEN x ELSE s[k + 1]]

Mergeable(t, w) == Pairs(t, w) # {} /\ HasToken(t, MergedText(t, w, BestPair(t, w)))
MergeOnce(t, w) ==
    Joined(w, BestPair(t, w), IdOf(t, MergedText(t, w, BestPair(t, w))))

Merge ==
    /\ stage = "merge"
    /\ Mergeable(tok, work)
    /\ work' = MergeOnce(tok, work)
    /\ LET i == BestPair(tok, work) IN ends' = Joined(ends, i, ends[i + 1])
    /\ UNCHANGED <<input, stage, pos, ids, fell>>

\* No rule applies, or the best one makes something that is no token.
MergeDone ==
    /\ stage = "merge"
    /\ ~Mergeable(tok, work)
    /\ ids' = (IF addBos THEN <<BOS>> ELSE <<>>) \o work
    /\ stage' = "done"
    /\ UNCHANGED <<input, pos, work, ends, fell>>

Encode == Match \/ Fallback \/ FallbackPanics \/ CutDone \/ Merge \/ MergeDone

Returned == stage \in {"done", "panicked"} /\ UNCHANGED vars

Next == Encode \/ Returned

Spec     == Init /\ [][Next]_vars
FairSpec == Spec /\ WF_vars(Encode)
-----------------------------------------------------------------------------
(* decode_one, in bytes; the texts here are valid UTF-8                    *)

Control(t, id) == Type(t, id) = 3

\* str::replace of a character, here the two bytes of old, which differ, so
\* that its occurrences do not overlap.
Replaced(s, old, new) ==
    LET occurs(p) == p \in 1 .. Len(s) - 1 /\ s[p] = old[1] /\ s[p + 1] = old[2]
    IN FlattenSeq([p \in DOMAIN s |->
           IF occurs(p) THEN <<>> ELSE IF occurs(p - 1) THEN new ELSE <<s[p]>>])

\* U+0120 becomes a space, then U+010A a newline.
Shown(s) == Replaced(Replaced(s, UTF8(288), <<32>>), UTF8(266), <<10>>)

\* Mutant: the newline is forgotten.
DecodeOne_NoNewline(t, id) ==
    IF id \in Ids(t) \ {BOS, EOS, EOT, PAD} /\ ~Control(t, id)
    THEN Replaced(Text(t, id), UTF8(288), <<32>>) ELSE <<>>

\* None is the empty text here.
DecodeOne(t, id) ==
    IF id \in Ids(t) \ {BOS, EOS, EOT, PAD} /\ ~Control(t, id)
    THEN Shown(Text(t, id)) ELSE <<>>

Streamed(t, w) == FlattenSeq([k \in DOMAIN w |-> DecodeOne(t, w[k])])
-----------------------------------------------------------------------------
(* Properties *)

\* Every character of the text has a token.
Complete == \A k \in DOMAIN text : HasToken(tok, UTF8(CodePoint(text[k])))

Start(at, k) == IF k = 1 THEN 0 ELSE at[k - 1]

\* Nothing is lost, doubled or moved: as long as no fallback was taken, each
\* token stands for the piece of the text between the end of the one before
\* and its own, through every merge (tokenizer.rs:228-239, 270-279).
TokensCoverText ==
    ~fell =>
        /\ \A k \in DOMAIN work :
               /\ Start(ends, k) < ends[k] /\ ends[k] <= Len(bytes)
               /\ Text(tok, work[k]) = SubSeq(bytes, Start(ends, k) + 1, ends[k])
        /\ pos = IF work = <<>> THEN 0 ELSE ends[Len(work)]
        /\ stage \in {"merge", "done"} => pos = Len(bytes)

\* With a token for every character the fallback is never needed, however
\* the longest matches cut the text: they never end inside a character, and
\* encode cannot panic (tokenizer.rs:230-245).
CompleteNeedsNoFallback == Complete => ~fell /\ stage # "panicked"

\* Printable ASCII, spaces and newlines come back as they were, token by
\* token, from a complete vocabulary, unless the text spells a token that is
\* not shown (tokenizer.rs:203-210).
PlainRoundTrip ==
    /\ stage = "done" /\ Complete
    /\ \A k \in DOMAIN work : work[k] \notin {BOS, EOS, EOT, PAD} /\ ~Control(tok, work[k])
    /\ \A k \in DOMAIN text : text[k] \in (32 .. 126) \cup {10}
    => Streamed(tok, ids) = text

\* The merge rules change nothing: where the longest match has cut, no rule
\* makes a token any more, unless tokens are longer than the match may be or
\* a fallback came in between. The result is the greedy one (tokenizer.rs:231,
\* 258-276).
MergesAddNothing ==
    /\ stage = "merge" /\ ~fell
    /\ \A id \in Ids(tok) : Len(Text(tok, id)) <= MaxMatch
    => ~Mergeable(tok, work)

\* encode returns, whatever tables the model file has.
EncodeReturns == <>(stage \in {"done", "panicked"})
=============================================================================
