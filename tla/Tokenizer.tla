------------------------------ MODULE Tokenizer -------------------------------
(***************************************************************************)
(* QwenTokenizer (src/tokenizer/qwen_tokenizer.cc): encode() cuts a text   *)
(* at the added tokens, splits what lies between into words by a hand      *)
(* written version of the Qwen3 regular expression, and merges the bytes   *)
(* of each word into tokens of the vocabulary; decode() turns the ids back *)
(* into text. A behaviour encodes one text and decodes the result, with    *)
(* the tables load() has built. A text is a sequence of bytes; a token of  *)
(* the vocabulary is a sequence of code points, one for each of its bytes. *)
(***************************************************************************)
EXTENDS Unicode, FiniteSetsExt

CONSTANTS
  File,      \* tokenizer.json: [vocab, merges, added_tokens]
  Texts      \* the byte strings that may be encoded

Byte == 0 .. 255

ASSUME FileAssumption ==
  /\ Texts \subseteq Seq(Byte)
  /\ File.merges \in Seq(Range(File.merges))
  /\ \A t \in Range(File.added_tokens) : t.content \in Seq(Byte) /\ t.id \in Int

VARIABLES
  pc,        \* the loop encode() is in
  text,      \* the text being encoded
  segments,  \* the segments cut so far; the first is removed when it is done
  cut,       \* split_special_tokens: how many bytes have been cut
  rest,      \* pre_tokenize: the code points not yet in a piece
  pieces,    \* the words of the segment; the first is removed when it is done
  word,      \* bpe: the tokens of the first piece
  ids,       \* the result of encode()
  output     \* the result of decode(), and whether it skipped special tokens

vars == <<pc, text, segments, cut, rest, pieces, word, ids, output>>

NoOutput == [text |-> <<>>, skip |-> FALSE]

-----------------------------------------------------------------------------
(* The tables. Printable bytes stand for themselves, the 68 others for the *)
(* code points from 256 on, in their order.                                *)

Unprintable == 0 .. 32 \cup 127 .. 160 \cup {173}

build_bytes_to_unicode(b) ==
  IF b \notin Unprintable THEN b
  ELSE 256 + Cardinality({x \in Unprintable : x < b})

\* The bytes that a code point stands for: one, or none.
build_unicode_to_bytes(cp) ==
  {b \in (IF cp < 256 THEN {cp} \ Unprintable ELSE Unprintable) :
     build_bytes_to_unicode(b) = cp}

byte_encode(piece) == [i \in DOMAIN piece |-> <<build_bytes_to_unicode(piece[i])>>]

vocab == File.vocab
id_to_token == AntiFunction(vocab)

\* The rank of a pair is its last place in the list.
merges == [pair \in Range(File.merges) |->
             Max({i \in DOMAIN File.merges : File.merges[i] = pair})]

\* Tokens without content or with a negative id are left out.
added_tokens == {t \in Range(File.added_tokens) : t.content # <<>> /\ t.id >= 0}

-----------------------------------------------------------------------------
(* split_special_tokens(): the longest added token at each byte.           *)

Unread == SubSeq(text, cut + 1, Len(text))

\* As Longest, with the comparison of lengths turned round.
Shortest(tokens) ==
  CHOOSE t \in tokens : \A u \in tokens : Len(t.content) <= Len(u.content)

Longest(tokens) ==
  CHOOSE t \in tokens : \A u \in tokens : Len(u.content) <= Len(t.content)

AddedHere == {t \in added_tokens : IsPrefix(t.content, Unread)}

CutAt == IF AddedHere = {} THEN {} ELSE {Longest(AddedHere)}

Special(t) == [text |-> t.content, is_special |-> TRUE, id |-> t.id]
Plain(s) == [text |-> s, is_special |-> FALSE, id |-> -1]

CutAdded ==
  /\ pc = "split" /\ Unread # <<>>
  /\ \E t \in CutAt :
       /\ segments' = Append(segments, Special(t))
       /\ cut' = cut + Len(t.content)
  /\ UNCHANGED <<pc, text, rest, pieces, word, ids, output>>

CutByte ==
  /\ pc = "split" /\ Unread # <<>> /\ CutAt = {}
  /\ segments' =
       IF segments # <<>> /\ ~Last(segments).is_special
       THEN Append(Front(segments), Plain(Append(Last(segments).text, Head(Unread))))
       ELSE Append(segments, Plain(<<Head(Unread)>>))
  /\ cut' = cut + 1
  /\ UNCHANGED <<pc, text, rest, pieces, word, ids, output>>

EndSplit ==
  /\ pc = "split" /\ Unread = <<>>
  /\ pc' = "segment"
  /\ UNCHANGED <<text, segments, cut, rest, pieces, word, ids, output>>

-----------------------------------------------------------------------------
(* encode(): the loop over the segments.                                   *)

TakeSpecial ==
  /\ pc = "segment" /\ segments # <<>> /\ Head(segments).is_special
  /\ ids' = Append(ids, Head(segments).id)
  /\ segments' = Tail(segments)
  /\ UNCHANGED <<pc, text, cut, rest, pieces, word, output>>

TakePlain ==
  /\ pc = "segment" /\ segments # <<>> /\ ~Head(segments).is_special
  /\ rest' = utf8_to_codepoints(Head(segments).text)
  /\ pc' = "pre_tokenize"
  /\ UNCHANGED <<text, segments, cut, pieces, word, ids, output>>

-----------------------------------------------------------------------------
(* pre_tokenize(): the branches of its loop, each as the number of code    *)
(* points it takes from the front of r, 0 when it does not apply.          *)

Kind(r, i) == IF i \in DOMAIN r THEN codepoint_flags(r[i]) ELSE "undefined"
IsWordPart(r, i) == Kind(r, i) \in {"letter", "mark"}
IsNewline(r, i) == i \in DOMAIN r /\ r[i] \in {10, 13}

\* How many places in a row, counted from "from", are in the set.
Span(r, from, places) == Max({n \in 0 .. Len(r) : from .. from + n - 1 \subseteq places})

OfKind(r, kinds) == {i \in DOMAIN r : Kind(r, i) \in kinds}

Lower(cp) == IF cp \in 65 .. 90 THEN cp + 32 ELSE cp

\* 's, 't, 'm, 'd and 're, 've, 'll
Contraction(r) ==
  IF r[1] # 39 \/ Len(r) < 2 THEN 0
  ELSE IF Lower(r[2]) \in {115, 116, 109, 100} THEN 2
  ELSE IF Len(r) > 2
          /\ <<Lower(r[2]), Lower(r[3])>> \in {<<114, 101>>, <<118, 101>>, <<108, 108>>}
  THEN 3 ELSE 0

Word(r) ==
  IF IsNewline(r, 1) \/ Kind(r, 1) = "number" THEN 0
  ELSE IF IsWordPart(r, 1) \/ IsWordPart(r, 2)
  THEN 1 + Span(r, 2, OfKind(r, {"letter", "mark"})) ELSE 0

Number(r) == IF Kind(r, 1) = "number" THEN 1 ELSE 0

Symbols(r) ==
  LET first == IF r[1] = 32 THEN 2 ELSE 1
      count == Span(r, first, OfKind(r, {"symbol"}))
      after == first + count
  IN  IF Kind(r, first) # "symbol" THEN 0
      ELSE after - 1 + Span(r, after, {i \in DOMAIN r : IsNewline(r, i)})

SpaceRun(r) == Span(r, 1, OfKind(r, {"whitespace"}))

LineBreaks(r) == Max({0} \cup {i \in 1 .. SpaceRun(r) : IsNewline(r, i)})

\* As AllButOneSpace, without asking whether something follows the spaces.
AllButOneSpaceAnywhere(r) == IF SpaceRun(r) > 1 THEN SpaceRun(r) - 1 ELSE 0

AllButOneSpace(r) ==
  IF SpaceRun(r) > 1 /\ SpaceRun(r) < Len(r) THEN SpaceRun(r) - 1 ELSE 0

\* A code point no branch wants is a piece of its own.
Branches(r) == <<Contraction(r), Word(r), Number(r), Symbols(r),
                 LineBreaks(r), AllButOneSpace(r), SpaceRun(r), 1>>

Take(branch) ==
  LET lengths == Branches(rest)
      n == lengths[branch]
  IN  /\ pc = "pre_tokenize" /\ rest # <<>>
      /\ n > 0 /\ \A b \in 1 .. branch - 1 : lengths[b] = 0
      /\ pieces' = Append(pieces, codepoints_to_utf8(SubSeq(rest, 1, n)))
      /\ rest' = SubSeq(rest, n + 1, Len(rest))
      /\ UNCHANGED <<pc, text, segments, cut, word, ids, output>>

TakeContraction == Take(1)
TakeWord == Take(2)
TakeNumber == Take(3)
TakeSymbols == Take(4)
TakeLineBreaks == Take(5)
TakeAllButOneSpace == Take(6)
TakeSpaces == Take(7)
TakeUnmatched == Take(8)

EndPreTokenize ==
  /\ pc = "pre_tokenize" /\ rest = <<>>
  /\ pc' = "piece"
  /\ UNCHANGED <<text, segments, cut, rest, pieces, word, ids, output>>

-----------------------------------------------------------------------------
(* encode(): the loop over the pieces of a segment, and bpe().             *)

StartPiece ==
  /\ pc = "piece" /\ pieces # <<>>
  /\ word' = byte_encode(Head(pieces))
  /\ pc' = "bpe"
  /\ UNCHANGED <<text, segments, cut, rest, pieces, ids, output>>

\* The places where two neighbours can be merged.
Mergeable(w) == {i \in 1 .. Len(w) - 1 : <<w[i], w[i + 1]>> \in DOMAIN merges}

Rank(w, i) == merges[<<w[i], w[i + 1]>>]

\* As BestPair, with <= where the search has <: the rightmost pair is kept.
LastBestPair(w) ==
  Max({i \in Mergeable(w) : \A j \in Mergeable(w) : Rank(w, i) <= Rank(w, j)})

\* The leftmost of the pairs of least rank.
BestPair(w) ==
  Min({i \in Mergeable(w) : \A j \in Mergeable(w) : Rank(w, i) <= Rank(w, j)})

MergedAt(w, i) == SubSeq(w, 1, i - 1) \o <<w[i] \o w[i + 1]>> \o SubSeq(w, i + 2, Len(w))

Merge ==
  /\ pc = "bpe" /\ Mergeable(word) # {}
  /\ word' = MergedAt(word, BestPair(word))
  /\ UNCHANGED <<pc, text, segments, cut, rest, pieces, ids, output>>

\* The elements of s that are in S.
Only(s, S) == FlattenSeq([i \in DOMAIN s |-> IF s[i] \in S THEN <<s[i]>> ELSE <<>>])

\* Tokens that are not in the vocabulary are dropped.
Known(w) == Only(w, DOMAIN vocab)

EndPiece ==
  /\ pc = "bpe" /\ Mergeable(word) = {}
  /\ ids' = ids \o [i \in DOMAIN Known(word) |-> vocab[Known(word)[i]]]
  /\ word' = <<>>
  /\ pieces' = Tail(pieces)
  /\ pc' = "piece"
  /\ UNCHANGED <<text, segments, cut, rest, output>>

EndSegment ==
  /\ pc = "piece" /\ pieces = <<>>
  /\ segments' = Tail(segments)
  /\ pc' = "segment"
  /\ UNCHANGED <<text, cut, rest, pieces, word, ids, output>>

-----------------------------------------------------------------------------
(* decode(): added tokens by their content, unless they are special and    *)
(* skipped; ids that are in neither table are ignored.                     *)

BytesOf(token) ==
  FlattenSeq([i \in DOMAIN token |-> SetToSeq(build_unicode_to_bytes(token[i]))])

DecodedId(id, skip) ==
  IF \E t \in added_tokens : t.id = id
  THEN LET t == CHOOSE t \in added_tokens : t.id = id
       IN  IF skip /\ t.special THEN <<>> ELSE t.content
  ELSE IF id \in DOMAIN id_to_token THEN BytesOf(id_to_token[id]) ELSE <<>>

\* As Decoded, without writing out the collected bytes before an added token.
DecodedUnflushed(tokens, skip) ==
  LET Added(id) == \E t \in added_tokens : t.id = id
      Bytes(some) == FlattenSeq([i \in DOMAIN some |-> DecodedId(some[i], skip)])
  IN  Bytes(SelectSeq(tokens, Added)) \o Bytes(SelectSeq(tokens, LAMBDA id : ~Added(id)))

Decoded(tokens, skip) ==
  FlattenSeq([i \in DOMAIN tokens |-> DecodedId(tokens[i], skip)])

Decode ==
  /\ pc = "segment" /\ segments = <<>>
  /\ \E skip \in BOOLEAN : output' = [text |-> Decoded(ids, skip), skip |-> skip]
  /\ pc' = "done"
  /\ UNCHANGED <<text, segments, cut, rest, pieces, word, ids>>

-----------------------------------------------------------------------------
Init ==
  /\ pc = "split"
  /\ text \in Texts
  /\ cut = 0
  /\ segments = <<>> /\ rest = <<>> /\ pieces = <<>> /\ word = <<>>
  /\ ids = <<>> /\ output = NoOutput

Next ==
  \/ CutAdded \/ CutByte \/ EndSplit
  \/ TakeSpecial \/ TakePlain
  \/ TakeContraction \/ TakeWord \/ TakeNumber \/ TakeSymbols
  \/ TakeLineBreaks \/ TakeAllButOneSpace \/ TakeSpaces \/ TakeUnmatched
  \/ EndPreTokenize \/ StartPiece \/ Merge \/ EndPiece \/ EndSegment
  \/ Decode

Spec == Init /\ [][Next]_vars
=============================================================================
