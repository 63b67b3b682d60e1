------------------------------- MODULE Unicode -------------------------------
(***************************************************************************)
(* src/tokenizer/unicode_utils.cc: UTF-8 in both directions and the        *)
(* categories of code points that the pre-tokenizer distinguishes. A byte  *)
(* string is a sequence of numbers below 256, a code point is a number.    *)
(***************************************************************************)
EXTENDS Integers, Sequences, SequencesExt

\* What a loop that starts at place i of a text collects: item[i], and what it
\* collects from place next[i] on. It ends behind the last place.
Scan(item, next) ==
  LET from[i \in 1 .. Len(item) + 1] ==
        IF i > Len(item) THEN <<>> ELSE item[i] \o from[next[i]]
  IN  from

\* k_ranges, by kind.
LetterRanges ==
  { <<65, 90>>, <<97, 122>>, <<192, 214>>, <<216, 246>>, <<248, 255>>,
    <<256, 591>>, <<592, 687>>, <<880, 1023>>, <<1024, 1279>>,
    <<1280, 1327>>, <<1328, 1423>>, <<1424, 1535>>, <<1536, 1791>>,
    <<2304, 2431>>, <<2432, 2559>>, <<2944, 3071>>, <<3072, 3199>>,
    <<3200, 3327>>, <<3584, 3711>>, <<3712, 3839>>, <<3840, 4095>>,
    <<4256, 4351>>, <<4352, 4607>>, <<13312, 19903>>, <<19968, 40959>>,
    <<131072, 173791>>, <<173824, 177983>>, <<177984, 178207>>,
    <<178208, 183983>>, <<183984, 191471>>, <<63744, 64255>>,
    <<194560, 195103>>, <<44032, 55215>>, <<12352, 12447>>,
    <<12448, 12543>>, <<12784, 12799>>, <<12544, 12591>>, <<12704, 12735>>,
    <<40960, 42127>>, <<5024, 5119>>, <<4608, 4991>> }

NumberRanges ==
  { <<48, 57>>, <<1632, 1641>>, <<1776, 1785>>, <<1984, 1993>>,
    <<2406, 2415>>, <<2534, 2543>>, <<2918, 2927>>, <<3046, 3055>>,
    <<3174, 3183>>, <<3302, 3311>>, <<3430, 3439>>, <<3664, 3673>>,
    <<3792, 3801>>, <<3872, 3881>>, <<65296, 65305>> }

MarkRanges == { <<768, 879>>, <<6832, 6911>>, <<7616, 7679>> }

\* k_whitespace.
Whitespace == 9 .. 13 \cup {32, 133, 160, 5760, 6158} \cup 8192 .. 8202
                \cup {8232, 8233, 8239, 8287, 12288}

is_in_ranges(cp, ranges) == \E r \in ranges : r[1] <= cp /\ cp <= r[2]

\* Every code point but a surrogate is defined.
IsDefined(cp) == cp < 1114112 /\ ~(55296 <= cp /\ cp <= 57343)

\* The categories are tried in this order and the first that fits is kept.
codepoint_flags(cp) ==
  IF cp \in Whitespace THEN "whitespace"
  ELSE IF is_in_ranges(cp, LetterRanges) THEN "letter"
  ELSE IF is_in_ranges(cp, NumberRanges) THEN "number"
  ELSE IF is_in_ranges(cp, MarkRanges) THEN "mark"
  ELSE IF IsDefined(cp) THEN "symbol" ELSE "undefined"

-----------------------------------------------------------------------------
(* UTF-8.                                                                  *)

utf8_sequence_length(c) ==
  CASE 192 <= c /\ c < 224 -> 2
    [] 224 <= c /\ c < 240 -> 3
    [] 240 <= c /\ c < 248 -> 4
    [] OTHER -> 1

IsContinuation(c) == 128 <= c /\ c < 192

\* The code point of one sequence; 0 when it is to be skipped. A sequence cut
\* off by the end of the string counts with the bits that are there.
CodepointOf(lead, tail) ==
  LET len == utf8_sequence_length(lead)
      high == lead % <<128, 64, 32, 16>>[len]
      low(k) == tail[k] % 64
  IN  CASE len = 1 -> IF lead < 128 THEN lead ELSE 0
        [] len > 1 /\ \E i \in DOMAIN tail : ~IsContinuation(tail[i]) -> 0
        [] OTHER ->
             CASE Len(tail) = 0 -> high
               [] Len(tail) = 1 -> (64 * high) + low(1)
               [] Len(tail) = 2 -> (4096 * high) + (64 * low(1)) + low(2)
               [] Len(tail) = 3 ->
                    (262144 * high) + (4096 * low(1)) + (64 * low(2)) + low(3)

utf8_to_codepoints(s) ==
  LET End(i) == Min({Len(s), i + utf8_sequence_length(s[i]) - 1})
      Cp(i)  == CodepointOf(s[i], SubSeq(s, i + 1, End(i)))
  IN  Scan([i \in DOMAIN s |-> IF Cp(i) = 0 THEN <<>> ELSE <<Cp(i)>>],
           [i \in DOMAIN s |-> End(i) + 1])[1]

Continuation(cp, place) == 128 + ((cp \div place) % 64)

Utf8(cp) ==
  CASE cp < 128   -> <<cp>>
    [] 128 <= cp /\ cp < 2048 -> <<192 + cp \div 64, Continuation(cp, 1)>>
    [] 2048 <= cp /\ cp < 65536 ->
         <<224 + cp \div 4096, Continuation(cp, 64), Continuation(cp, 1)>>
    [] OTHER -> <<240 + cp \div 262144, Continuation(cp, 4096),
                  Continuation(cp, 64), Continuation(cp, 1)>>

codepoints_to_utf8(cps) == FlattenSeq([i \in DOMAIN cps |-> Utf8(cps[i])])

\* Text as the callers produce it: the encoding of code points that are
\* defined and not NUL, which stands for "skip" in the decoder.
WellFormed(s) ==
  LET cps == utf8_to_codepoints(s)
  IN  /\ codepoints_to_utf8(cps) = s
      /\ \A i \in DOMAIN cps : IsDefined(cps[i])
=============================================================================
