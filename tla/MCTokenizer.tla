----------------------------- MODULE MCTokenizer ------------------------------
(***************************************************************************)
(* Every text of up to four characters over an alphabet with one character *)
(* of each category that the regular expression distinguishes, some longer *)
(* ones, and some byte strings that are not well formed.                    *)
(***************************************************************************)
EXTENDS TokenizerReference

\* ' s L 1 space newline ! and a combining accent
Characters == {<<39>>, <<115>>, <<76>>, <<49>>, <<32>>, <<10>>, <<33>>, <<204, 129>>}

\* A surrogate, NUL, a stray byte, a cut and a broken sequence.
Malformed == { <<237, 160, 128, 115>>, <<115, 0, 115>>, <<255, 115>>,
               <<115, 195>>, <<195, 33, 115>> }

\* "'Re!", "'ve's", "ssssLss", " \t\n  !", "!!s!!!!", and a Chinese character
\* between a comma and a digit.
Longer == { <<39, 82, 101, 33>>, <<39, 118, 101, 39, 115>>,
            <<115, 115, 115, 115, 76, 115, 115>>, <<32, 9, 10, 32, 32, 33>>,
            <<33, 33, 115, 33, 33, 33, 33>>, <<44, 228, 184, 173, 49>> }

MCTexts ==
  {FlattenSeq(t) : t \in UNION {[1 .. n -> Characters] : n \in 0 .. 4}}
    \cup Malformed \cup Longer

\* An Arabic-Indic digit next to a letter and next to another one.
MCDigitTexts == {<<49, 49>>, <<115, 217, 161>>, <<217, 161, 217, 162>>}

\* As code points: the byte of a space is 288, of a newline 266.
S == <<115>>   L == <<76>>   Q == <<39>>   E == <<33>>   Space == <<288>>

MCMerges == << <<S, S>>, <<S, L>>, <<Space, S>>, <<L, L>>, <<S \o S, S \o L>>,
               <<Space \o S, S>>, <<S \o S, S>>, <<Q, S>> >>

\* The bytes, each with its value as id, then the merged tokens.
MCVocab ==
  LET symbols == {<<build_bytes_to_unicode(b)>> : b \in Byte}
      Made(i) == MCMerges[i][1] \o MCMerges[i][2]
      made == {Made(i) : i \in DOMAIN MCMerges}
  IN  [t \in symbols \cup made |->
         IF t \in made THEN 255 + CHOOSE i \in DOMAIN MCMerges : Made(i) = t
         ELSE CHOOSE b \in build_unicode_to_bytes(t[1]) : TRUE]

\* "!!" is special and the beginning of the ordinary token "!!s".
MCFile ==
  [vocab |-> MCVocab, merges |-> MCMerges,
   added_tokens |-> << [content |-> E \o E, id |-> 300, special |-> TRUE],
                       [content |-> E \o E \o S, id |-> 301, special |-> FALSE],
                       [content |-> <<>>, id |-> 302, special |-> TRUE] >>]
=============================================================================
