-------------------------- MODULE TokenizerReference --------------------------
(***************************************************************************)
(* What the tokenizer is meant to compute, defined without its loops: the  *)
(* Qwen3 regular expression as the matches of its alternatives, the merges *)
(* applied rank by rank, and the added tokens read off the text. The       *)
(* properties compare Tokenizer.tla with these definitions.                *)
(***************************************************************************)
EXTENDS Tokenizer

-----------------------------------------------------------------------------
(* The regular expression                                                  *)
(*   (?i:'s|'t|'re|'ve|'m|'ll|'d) | [^\r\n\p{L}\p{N}]?[\p{L}\p{M}]+ |      *)
(*   \p{N} | <space>?[^\s\p{L}\p{M}\p{N}]+[\r\n]* | \s*[\r\n]+ |           *)
(*   \s+(?!\S) | \s+                                                       *)
(* The first n code points of r are matched by an alternative.             *)

Spaces(r, n) == \A i \in 1 .. n : Kind(r, i) = "whitespace"

ContractionTails == {<<115>>, <<116>>, <<114, 101>>, <<118, 101>>, <<109>>, <<108, 108>>, <<100>>}

MatchesContraction(r, n) ==
  r[1] = 39 /\ [i \in 1 .. n - 1 |-> Lower(r[i + 1])] \in ContractionTails

MatchesWord(r, n) ==
  \E opt \in {0, 1} :
    /\ opt < n
    /\ opt = 1 => ~IsNewline(r, 1) /\ Kind(r, 1) \notin {"letter", "number"}
    /\ \A i \in opt + 1 .. n : Kind(r, i) \in {"letter", "mark"}

MatchesNumber(r, n) == n = 1 /\ Kind(r, 1) = "number"

MatchesSymbols(r, n) ==
  \E opt \in {0, 1} : \E end \in opt + 1 .. n :
    /\ opt = 1 => r[1] = 32
    /\ \A i \in opt + 1 .. end :
         Kind(r, i) \notin {"whitespace", "letter", "mark", "number"}
    /\ \A i \in end + 1 .. n : IsNewline(r, i)

MatchesLineBreaks(r, n) == Spaces(r, n) /\ IsNewline(r, n)
MatchesTrailing(r, n) == Spaces(r, n) /\ (n = Len(r) \/ Kind(r, n + 1) = "whitespace")

\* The lengths that each alternative can match at the front of r.
Matches(r) ==
  << {n \in DOMAIN r : MatchesContraction(r, n)}, {n \in DOMAIN r : MatchesWord(r, n)},
     {n \in DOMAIN r : MatchesNumber(r, n)}, {n \in DOMAIN r : MatchesSymbols(r, n)},
     {n \in DOMAIN r : MatchesLineBreaks(r, n)}, {n \in DOMAIN r : MatchesTrailing(r, n)},
     {n \in DOMAIN r : Spaces(r, n)} >>

\* The first alternative that matches takes as much as it can.
MatchLength(r) ==
  LET matching == {k \in DOMAIN Matches(r) : Matches(r)[k] # {}}
  IN  IF matching = {} THEN 1 ELSE Max(Matches(r)[Min(matching)])

From(s, i) == SubSeq(s, i, Len(s))

\* The words of r from place i on, for each i.
Words(r) ==
  Scan([i \in DOMAIN r |->
          <<codepoints_to_utf8(SubSeq(r, i, i + MatchLength(From(r, i)) - 1))>>],
       [i \in DOMAIN r |-> i + MatchLength(From(r, i))])

RegexSplit(r) == Words(r)[1]

\* pre_tokenize() splits every well-formed segment as the regular expression
\* quoted in its comments does, although it is written as nested scans with
\* look-ahead: the words of the model's training are the words it is fed.
PiecesMatchRegex ==
  (pc = "pre_tokenize" /\ rest = <<>> /\ WellFormed(Head(segments).text))
    => pieces = RegexSplit(utf8_to_codepoints(Head(segments).text))

-----------------------------------------------------------------------------
(* The merges, rank by rank: each replaces every occurrence of its pair,   *)
(* from left to right, before the next is looked at.                       *)

Meets(w, pair, i) == i < Len(w) /\ <<w[i], w[i + 1]>> = pair

\* What a sweep makes of w from place i on, for each i.
SweepFrom(w, pair) ==
  Scan([i \in DOMAIN w |-> IF Meets(w, pair, i) THEN <<w[i] \o w[i + 1]>> ELSE <<w[i]>>],
       [i \in DOMAIN w |-> IF Meets(w, pair, i) THEN i + 2 ELSE i + 1])

Sweep(w, pair) == SweepFrom(w, pair)[1]

\* A place of the list that a later one repeats is not the pair's rank.
SweepRank(w, rank) ==
  IF merges[File.merges[rank]] = rank THEN Sweep(w, File.merges[rank]) ELSE w

\* What is left of w after the sweeps of the ranks up to each.
SweptTo(w) ==
  LET after[rank \in 0 .. Len(File.merges)] ==
        IF rank = 0 THEN w ELSE SweepRank(after[rank - 1], rank)
  IN  after

RankSweep(w) == SweptTo(w)[Len(File.merges)]

\* A merge list as training produces it: what a pair is made of was merged
\* before it, however it was merged.
TrainedMerges ==
  \A pair \in DOMAIN merges : \A part \in Range(pair) :
    LET makers == {made \in DOMAIN merges : made[1] \o made[2] = part}
    IN  /\ Len(part) = 1 \/ makers # {}
        /\ \A made \in makers : merges[made] < merges[pair]

ASSUME MergesAssumption == TrainedMerges

\* bpe(), which searches the whole word again after each single merge and
\* takes the leftmost pair of least rank, ends with the tokens that the merges
\* give when applied one after the other over the whole word.
WordsMatchRankSweep ==
  (pc = "bpe" /\ Mergeable(word) = {})
    => word = RankSweep(byte_encode(Head(pieces)))

-----------------------------------------------------------------------------
(* The added tokens of a text, leftmost and longest first.                 *)

AddedAt(s, i) == {t \in added_tokens : IsPrefix(t.content, From(s, i))}

LongestAt(s, i) ==
  CHOOSE t \in AddedAt(s, i) : \A u \in AddedAt(s, i) : Len(u.content) <= Len(t.content)

Behind(s) ==
  [i \in DOMAIN s |-> IF AddedAt(s, i) = {} THEN i + 1 ELSE i + Len(LongestAt(s, i).content)]

\* The ids of the added tokens of s from place i on, for each i.
AddedFrom(s) ==
  Scan([i \in DOMAIN s |-> IF AddedAt(s, i) = {} THEN <<>> ELSE <<LongestAt(s, i).id>>],
       Behind(s))

AddedIds == {t.id : t \in added_tokens}

\* The ids of the added tokens follow those of the vocabulary.
AddedIdsAreNew == \A t \in DOMAIN vocab : vocab[t] \notin AddedIds

ASSUME NewIdsAssumption == AddedIdsAreNew

\* "Added tokens already present in the input are always recognized
\* atomically" (qwen_tokenizer.h): the ids hold one id for each of them, in
\* order, and none that the text does not contain.
AddedTokensAreAtomic == pc = "done" => Only(ids, AddedIds) = AddedFrom(text)[1]

\* Every byte and every merged token has an id, and an id of its own.
VocabularyIsComplete ==
  /\ \A b \in Byte : <<build_bytes_to_unicode(b)>> \in DOMAIN vocab
  /\ \A pair \in DOMAIN merges : pair[1] \o pair[2] \in DOMAIN vocab
  /\ IsInjective(vocab)

ASSUME CompleteAssumption == VocabularyIsComplete

\* The content of an added token is text, and no two have the same id.
AddedTokensAreText ==
  \A t \in added_tokens :
    /\ WellFormed(t.content)
    /\ \A u \in added_tokens : u.id = t.id => u = t

ASSUME ContentAssumption == AddedTokensAreText

\* The text from place i on without the added tokens that decoding skips.
VisibleFrom(s, skip) ==
  Scan([i \in DOMAIN s |->
          IF AddedAt(s, i) = {} THEN <<s[i]>>
          ELSE IF skip /\ LongestAt(s, i).special THEN <<>>
          ELSE LongestAt(s, i).content],
       Behind(s))

\* What is decoded from the ids of a well-formed text is the text itself, or
\* the text without its special tokens when they are to be skipped: cutting,
\* splitting, byte encoding, merging and the way back lose and invent nothing.
TextComesBack ==
  (pc = "done" /\ WellFormed(text)) => output.text = VisibleFrom(text, output.skip)[1]

-----------------------------------------------------------------------------
\* Each code point that the table of unicode_utils.cc lists as a number is a
\* word of its own, as \p{N} of the regular expression says.
NumbersStandAlone ==
  (pc = "pre_tokenize" /\ rest = <<>>) =>
    \A i \in DOMAIN pieces :
      LET cps == utf8_to_codepoints(pieces[i])
      IN  (\E k \in DOMAIN cps : is_in_ranges(cps[k], NumberRanges)) => Len(cps) = 1
=============================================================================
