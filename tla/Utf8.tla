-------------------------------- MODULE Utf8 --------------------------------
(***************************************************************************)
(* UTF-8 in fc (fc/src/utf8.cpp and the functions of fc/src/utf8 it        *)
(* calls).  octets is a text that grows byte by byte, whatever the bytes.  *)
(***************************************************************************)
EXTENDS Integers, Sequences, SequencesExt

CONSTANTS Octets,     \* the bytes of the texts
          CodePoints, \* the code points that are encoded
          MaxOctets   \* bound on the length of a text

ASSUME Utf8Assumption == Octets \subseteq 0..255 /\ CodePoints \subseteq Nat /\ MaxOctets \in Nat

VARIABLE octets

is_trail(b) == b \div 64 = 2
is_surrogate(cp) == cp \in 55296..57343
is_code_point_valid(cp) == cp <= 1114111 /\ ~is_surrogate(cp)

\* 0 for a byte that cannot lead
sequence_length(lead) ==
    CASE lead < 128 -> 1
      [] lead \div 32 = 6 -> 2
      [] lead \div 16 = 14 -> 3
      [] lead \div 8 = 30 -> 4
      [] OTHER -> 0

is_overlong_sequence(cp, length) ==
    \/ cp < 128 /\ length # 1
    \/ cp \in 128..2047 /\ length # 2
    \/ cp \in 2048..65535 /\ length # 3

\* get_sequence_1 to 4: the bits of the lead byte, then six of each that follows
code_point(t, i, length) ==
    LET lead == t[i] % (IF length = 1 THEN 128 ELSE 2 ^ (7 - length))
    IN  FoldLeft(LAMBDA cp, b : cp * 64 + (b % 64), lead, SubSeq(t, i + 1, i + length - 1))

\* increase_safely, for each byte that follows: the first one missing or no trail byte decides
truncated(t, i, length) ==
    LET bad == {k \in i + 1..i + length - 1 : k > Len(t) \/ ~is_trail(t[k])}
        first == CHOOSE k \in bad : \A j \in bad : k <= j
    IN  CASE bad = {} -> "UTF8_OK"
          [] bad # {} /\ first > Len(t) -> "NOT_ENOUGH_ROOM"
          [] OTHER -> "INCOMPLETE_SEQUENCE"

checked(cp, length) ==
    CASE ~is_code_point_valid(cp) -> "INVALID_CODE_POINT"
      [] is_overlong_sequence(cp, length) -> "OVERLONG_SEQUENCE"
      [] OTHER -> "UTF8_OK"

\* the verdict on the sequence that begins at i, and where the next one begins: at i again
\* after a failure
validated(t, i, length, verdict) ==
    IF verdict # "UTF8_OK" THEN [verdict |-> verdict, next |-> i, cp |-> 0]
    ELSE [verdict |-> checked(code_point(t, i, length), length),
          next |-> IF checked(code_point(t, i, length), length) = "UTF8_OK" THEN i + length ELSE i,
          cp |-> code_point(t, i, length)]
validate_next(t, i) ==
    IF sequence_length(t[i]) = 0 THEN [verdict |-> "INVALID_LEAD", next |-> i, cp |-> 0]
    ELSE validated(t, i, sequence_length(t[i]), truncated(t, i, sequence_length(t[i])))

RECURSIVE find_invalid(_, _)
find_invalid(t, i) ==
    IF i > Len(t) \/ validate_next(t, i).verdict # "UTF8_OK" THEN i
    ELSE find_invalid(t, validate_next(t, i).next)

is_utf8(t) == find_invalid(t, 1) = Len(t) + 1

\* from the invalid byte at i on: it is left out, and what is valid after it is kept
RECURSIVE pruned(_, _)
pruned(t, i) ==
    IF i > Len(t) THEN << >>
    ELSE LET bad == find_invalid(t, i + 1) IN SubSeq(t, i + 1, bad - 1) \o pruned(t, bad)
prune_invalid_utf8(t) == SubSeq(t, 1, find_invalid(t, 1) - 1) \o pruned(t, find_invalid(t, 1))

\* utf8::unchecked::append, the bytes of any number, and utf8::append, which throws if the
\* number is no code point and then writes nothing
unchecked_append(cp) ==
    CASE cp < 128 -> <<cp>>
      [] cp \in 128..2047 -> <<192 + cp \div 64, 128 + (cp % 64)>>
      [] cp \in 2048..65535 -> <<224 + cp \div 4096, 128 + ((cp \div 64) % 64), 128 + (cp % 64)>>
      [] OTHER -> <<240 + cp \div 262144, 128 + ((cp \div 4096) % 64), 128 + ((cp \div 64) % 64), 128 + (cp % 64)>>
append(cp) == IF is_code_point_valid(cp) THEN unchecked_append(cp) ELSE << >>

\* utf8::next throws where validate_next fails
next(t, i) == validate_next(t, i)

\* decodeUtf8 and encodeUtf8; an exception leaves the storage with what was there before it
RECURSIVE utf8to32(_, _)
utf8to32(t, i) ==
    IF i > Len(t) \/ next(t, i).verdict # "UTF8_OK" THEN << >>
    ELSE <<next(t, i).cp>> \o utf8to32(t, next(t, i).next)
utf32to8(cps) == FlattenSeq([i \in DOMAIN cps |-> append(cps[i])])
decodeUtf8(t) == utf8to32(t, 1)
encodeUtf8(cps) == utf32to8(cps)

\* one replacement mark for a byte that cannot lead, or for a bad sequence up to the next byte
\* that is no trail; a text that ends within a sequence makes it throw
skipped(t, i, verdict) ==
    IF verdict = "INVALID_LEAD" THEN i + 1
    ELSE CHOOSE k \in i + 1..Len(t) + 1 :
             /\ \A j \in i + 1..k - 1 : is_trail(t[j])
             /\ k = Len(t) + 1 \/ ~is_trail(t[k])
RECURSIVE replaced(_, _)
replaced(t, i) ==
    IF i > Len(t) THEN {<< >>}
    ELSE CASE validate_next(t, i).verdict = "UTF8_OK" ->
                {SubSeq(t, i, validate_next(t, i).next - 1) \o r : r \in replaced(t, validate_next(t, i).next)}
           [] validate_next(t, i).verdict = "NOT_ENOUGH_ROOM" -> {}
           [] OTHER -> {append(65533) \o r : r \in replaced(t, skipped(t, i, validate_next(t, i).verdict))}
replace_invalid(t) == replaced(t, 1)

\* prior: back to the byte that is no trail, and from there forward, in the text that ends before i
RECURSIVE lead_before(_, _)
lead_before(t, i) ==
    CASE i = 1 -> 0
      [] ~is_trail(t[i - 1]) -> i - 1
      [] OTHER -> lead_before(t, i - 1)
prior(t, i) ==
    IF lead_before(t, i) = 0 THEN [verdict |-> "INVALID_LEAD", next |-> i, cp |-> 0]
    ELSE next(SubSeq(t, 1, i - 1), lead_before(t, i))
RECURSIVE backwards(_, _)
backwards(t, i) ==
    IF prior(t, i).verdict # "UTF8_OK" THEN << >>
    ELSE backwards(t, lead_before(t, i)) \o <<prior(t, i).cp>>

RECURSIVE distance(_, _)
distance(t, i) == IF i > Len(t) THEN 0 ELSE 1 + distance(t, next(t, i).next)

\* code points above 65535 are two words of UTF-16, a lead and a trail surrogate
utf8to16(cps) ==
    FlattenSeq([i \in DOMAIN cps |->
        IF cps[i] > 65535 THEN <<cps[i] \div 1024 + 55232, (cps[i] % 1024) + 56320>> ELSE <<cps[i]>>])
\* an exception ends it, at a surrogate that is alone
RECURSIVE utf16to8(_, _)
utf16to8(words, i) ==
    IF i > Len(words) THEN << >>
    ELSE CASE words[i] \in 55296..56319 ->
                IF i < Len(words) /\ words[i + 1] \in 56320..57343
                THEN append((words[i] - 55296) * 1024 + (words[i + 1] - 56320) + 65536)
                     \o utf16to8(words, i + 2)
                ELSE << >>
           [] words[i] \in 56320..57343 -> << >>
           [] OTHER -> append(words[i]) \o utf16to8(words, i + 1)

-----------------------------------------------------------------------------
Utf8Init == octets = << >>

\* another byte, or the bytes of a number, code point or not
Utf8Next ==
    \/ \E b \in Octets : Len(octets) < MaxOctets /\ octets' = Append(octets, b)
    \/ \E cp \in CodePoints : Len(octets) < 2 /\ octets' = octets \o unchecked_append(cp)

\* A text is accepted exactly if it is the encoding of valid code points, one way only: what is
\* decoded is encoded to the same bytes, nothing is accepted that is cut off, overlong or a
\* surrogate, and a valid text reads the same forwards, backwards and by way of UTF-16.  Pruning
\* and replacing yield a valid text and leave a valid one alone.
Utf8Exact ==
    /\ is_utf8(octets) <=> encodeUtf8(decodeUtf8(octets)) = octets
    /\ \A i \in DOMAIN decodeUtf8(octets) : is_code_point_valid(decodeUtf8(octets)[i])
    /\ \A cp \in CodePoints :
           /\ is_utf8(unchecked_append(cp)) = is_code_point_valid(cp)
           /\ is_code_point_valid(cp) => decodeUtf8(octets \o append(cp))
                  = decodeUtf8(octets) \o (IF is_utf8(octets) THEN <<cp>> ELSE << >>)
    /\ is_utf8(prune_invalid_utf8(octets))
    /\ \A t \in replace_invalid(octets) : is_utf8(t)
    /\ is_utf8(octets) =>
           /\ prune_invalid_utf8(octets) = octets
           /\ replace_invalid(octets) = {octets}
           /\ backwards(octets, Len(octets) + 1) = decodeUtf8(octets)
           /\ distance(octets, 1) = Len(decodeUtf8(octets))
           /\ utf16to8(utf8to16(decodeUtf8(octets)), 1) = octets

=============================================================================
