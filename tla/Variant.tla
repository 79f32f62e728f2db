------------------------------ MODULE Variant -------------------------------
(***************************************************************************)
(* fc::variant and the dictionaries of fc (fc/src/variant.cpp,             *)
(* fc/src/variant_object.cpp): the dynamic values in which every request,  *)
(* answer and operation of the client travels.  A variant is a record      *)
(* with its type_id and its content; the entries of an object are a        *)
(* sequence of <<key, value>>.  Where entries live in memory, and who      *)
(* shares them, is the business of module Codec.  Before them, the text    *)
(* conversions that they and the parsers use.                              *)
(***************************************************************************)
EXTENDS Integers, Sequences, FiniteSets, SequencesExt

-----------------------------------------------------------------------------
(***************************************************************************)
(* The text conversions of fc (fc/src/string.cpp and fc/src/crypto: hex,   *)
(* base36, base58, base64).  A text is a TLA+ string, read through Len,    *)
(* SubSeq and \o; a byte is a number of 0..255.  The words of the machine  *)
(* are scaled: a 64-bit word has WordBits = 8 bits here (8 mod 7 is 64     *)
(* mod 7, which is what the variable length integers depend on) and a      *)
(* 32-bit word has HalfBits bits.                                          *)
(* A double is a number of tenths, written with one digit after the point. *)
(* Thrown stands for any exception, Eof for an fc::eof_exception.          *)
(***************************************************************************)

CONSTANTS Thrown, Eof, WordBits, HalfBits

ASSUME WordsAssumption == HalfBits < WordBits /\ WordBits % 7 = 1

WordSize  == 2 ^ WordBits
INT64_MAX == (WordSize \div 2) - 1
INT64_MIN == -(WordSize \div 2)
INT32_MAX == 2 ^ (HalfBits - 1) - 1
UINT32_MAX == 2 ^ HalfBits - 1

\* static_cast between the signed and the unsigned word.
AsUnsigned(n) == n % WordSize
AsSigned(n)   == IF n > INT64_MAX THEN n - WordSize ELSE n

-----------------------------------------------------------------------------
(* Characters.  "\f" stands for every control character other than tab,    *)
(* new line and carriage return, and holds the place of the back quote,    *)
(* which no TLA+ string can contain.                                       *)

CharAt(s, i) == SubSeq(s, i, i)
CharsOf(s)   == {CharAt(s, i) : i \in 1 .. Len(s)}

Digits    == "0123456789"
Lower     == "abcdefghijklmnopqrstuvwxyz"
Upper     == "ABCDEFGHIJKLMNOPQRSTUVWXYZ"
Printable == " !\"#$%&'(" \o ")*+,-./" \o Digits \o ":;<=>?@" \o Upper \o "[\\]^_\f"
                \o Lower \o "{|}~"

IsDigit(c) == c \in CharsOf(Digits)
IsAlnum(c) == c \in CharsOf(Digits \o Lower \o Upper)
IsSpace(c) == c \in {" ", "\t", "\n", "\r", "\f"}

IndexIn(alphabet, c) == CHOOSE i \in 1 .. Len(alphabet) : CharAt(alphabet, i) = c
Ord(c)  == CASE c = "\t" -> 9 [] c = "\n" -> 10 [] c = "\f" -> 12 [] c = "\r" -> 13
             [] OTHER -> 31 + IndexIn(Printable, c)
Char(b) == CASE b = 9 -> "\t" [] b = 10 -> "\n" [] b = 12 -> "\f" [] b = 13 -> "\r"
             [] OTHER -> CharAt(Printable, b - 31)

\* The end of the run of characters for which none is outside S, from position i.
RECURSIVE SpanEnd(_, _, _)
SpanEnd(s, i, S) == IF i > Len(s) \/ CharAt(s, i) \notin S THEN i ELSE SpanEnd(s, i + 1, S)

Joined(texts)  == FoldLeft(LAMBDA a, b : a \o b, "", texts)
BytesOf(s)     == [i \in 1 .. Len(s) |-> Ord(CharAt(s, i))]
TextOf(bytes)  == Joined([i \in DOMAIN bytes |-> Char(bytes[i])])

-----------------------------------------------------------------------------
(* Numbers and their text.                                                 *)

\* The number with these digits in a base, most significant first.
ValueOf(digits, base) == FoldLeft(LAMBDA a, d : base * a + d, 0, digits)
RECURSIVE DigitsOf(_, _)
DigitsOf(n, base) == IF n = 0 THEN <<>> ELSE Append(DigitsOf(n \div base, base), n % base)

to_string(n) ==
  LET ds == DigitsOf(IF n < 0 THEN -n ELSE n, 10)
  IN  (IF n < 0 THEN "-" ELSE "")
        \o (IF n = 0 THEN "0" ELSE Joined([i \in DOMAIN ds |-> CharAt(Digits, ds[i] + 1)]))

\* boost::lexical_cast of a whole number: an optional sign and digits to the end of
\* the text.
Signed(s)    == s # "" /\ CharAt(s, 1) \in {"+", "-"}
Unsigned(s)  == IF Signed(s) THEN SubSeq(s, 2, Len(s)) ELSE s
IsWhole(s)   == Unsigned(s) # "" /\ CharsOf(Unsigned(s)) \subseteq CharsOf(Digits)
Magnitude(s) == ValueOf([i \in 1 .. Len(s) |-> IndexIn(Digits, CharAt(s, i)) - 1], 10)
Negative(s)  == s # "" /\ CharAt(s, 1) = "-"

to_int64(s) ==
  IF ~IsWhole(s) THEN Thrown
  ELSE LET n == IF Negative(s) THEN -Magnitude(Unsigned(s)) ELSE Magnitude(Unsigned(s))
       IN  IF n \in INT64_MIN .. INT64_MAX THEN n ELSE Thrown

\* A minus sign is accepted and wraps around.
to_uint64(s) ==
  IF ~IsWhole(s) \/ Magnitude(Unsigned(s)) >= WordSize THEN Thrown
  ELSE IF Negative(s) THEN AsUnsigned(-Magnitude(Unsigned(s))) ELSE Magnitude(Unsigned(s))

\* Doubles, in tenths; more than one digit after the point does not occur here.
double_to_string(x) ==
  LET a == IF x < 0 THEN -x ELSE x
  IN  (IF x < 0 THEN "-" ELSE "") \o to_string(a \div 10) \o "." \o to_string(a % 10)

to_double(s) ==
  LET u    == Unsigned(s)
      dots == {i \in 1 .. Len(u) : CharAt(u, i) = "."}
      dot  == IF dots = {} THEN Len(u) + 1 ELSE CHOOSE i \in dots : \A j \in dots : i <= j
      whole == SubSeq(u, 1, dot - 1)
      part  == SubSeq(u, dot + 1, Len(u))
      size  == 10 * Magnitude(whole) + (IF part = "" THEN 0 ELSE Magnitude(CharAt(part, 1)))
  IN  IF whole \o part = "" \/ ~(CharsOf(whole \o part) \subseteq CharsOf(Digits)) THEN Thrown
      ELSE IF Negative(s) THEN -size ELSE size

-----------------------------------------------------------------------------
(* Bytes and their text.                                                   *)

HexDigits == "0123456789abcdef"
Base36    == Digits \o Lower
Base58    == "123456789" \o "ABCDEFGHJKLMNPQRSTUVWXYZ" \o "abcdefghijkmnopqrstuvwxyz"
Base64    == Upper \o Lower \o Digits \o "+/"

to_hex(bytes) ==
  Joined([i \in DOMAIN bytes |-> CharAt(HexDigits, (bytes[i] \div 16) + 1)
                                   \o CharAt(HexDigits, (bytes[i] % 16) + 1)])

HexValue(c) == IF c \in CharsOf("ABCDEF") THEN 9 + IndexIn("ABCDEF", c)
               ELSE IndexIn(HexDigits, c) - 1
\* An odd last digit is the high half of its byte; len bytes are written at most.
from_hex(s, len) ==
  LET n == IF (Len(s) + 1) \div 2 < len THEN (Len(s) + 1) \div 2 ELSE len
      used == SubSeq(s, 1, 2 * n)
  IN  IF ~(CharsOf(used) \subseteq CharsOf(HexDigits \o "ABCDEF")) THEN Thrown
      ELSE [i \in 1 .. n |-> 16 * HexValue(CharAt(s, 2 * i - 1))
                               + (IF 2 * i > Len(s) THEN 0 ELSE HexValue(CharAt(s, 2 * i)))]

\* Positional notation; every leading zero byte is one leading zero character.
LeadingZeros(bytes) ==
  CHOOSE n \in 0 .. Len(bytes) :
    /\ \A i \in 1 .. n : bytes[i] = 0
    /\ n < Len(bytes) => bytes[n + 1] # 0
Zeros(n) == [i \in 1 .. n |-> 0]

EncodeBase(bytes, alphabet) ==
  LET ds == Zeros(LeadingZeros(bytes)) \o DigitsOf(ValueOf(bytes, 256), Len(alphabet))
  IN  Joined([i \in DOMAIN ds |-> CharAt(alphabet, ds[i] + 1)])

DecodeBase(digits, base) == Zeros(LeadingZeros(digits)) \o DigitsOf(ValueOf(digits, base), 256)

to_base36(bytes) == EncodeBase(bytes, Base36)
\* Capital letters are accepted; any other character counts as no digit at all, but
\* takes its position.
from_base36(s) ==
  LET zeros == SpanEnd(s, 1, {"0"}) - 1
      Digit(c) == IF c \in CharsOf(Upper) THEN 9 + IndexIn(Upper, c)
                  ELSE IF c \in CharsOf(Base36) THEN IndexIn(Base36, c) - 1 ELSE 0
  IN  Zeros(zeros) \o DigitsOf(ValueOf([i \in 1 .. Len(s) |-> Digit(CharAt(s, i))], 36), 256)

to_base58(bytes) == EncodeBase(bytes, Base58)
\* White space is skipped at both ends; any other character is refused.
from_base58(s) ==
  LET first == SpanEnd(s, 1, {" ", "\t", "\n", "\r", "\f"})
      last  == SpanEnd(s, first, CharsOf(Base58))
      body  == SubSeq(s, first, last - 1)
  IN  IF \E i \in last .. Len(s) : ~IsSpace(CharAt(s, i)) THEN Thrown
      ELSE DecodeBase([i \in 1 .. Len(body) |-> IndexIn(Base58, CharAt(body, i)) - 1], 58)

\* Three bytes are four characters of six bits; a rest is filled up with "=".
base64_encode(bytes) ==
  LET groups == (Len(bytes) + 2) \div 3
      At(i)  == IF i <= Len(bytes) THEN bytes[i] ELSE 0
      Quad(g) == LET n == 65536 * At(3 * g - 2) + 256 * At(3 * g - 1) + At(3 * g)
                 IN  <<n \div 262144, (n \div 4096) % 64, (n \div 64) % 64, n % 64>>
      Sign(i) == IF i > Len(bytes) + groups THEN "="
                 ELSE CharAt(Base64, Quad((i + 3) \div 4)[((i - 1) % 4) + 1] + 1)
  IN  Joined([i \in 1 .. 4 * groups |-> Sign(i)])

\* Decoding ends at the first character outside the alphabet.
base64_decode(s) ==
  LET end   == SpanEnd(s, 1, CharsOf(Base64)) - 1
      At(i) == IF i <= end THEN IndexIn(Base64, CharAt(s, i)) - 1 ELSE 255 % 64
      Byte(i) == LET g == (i + 2) \div 3
                     n == 262144 * At(4 * g - 3) + 4096 * At(4 * g - 2)
                            + 64 * At(4 * g - 1) + At(4 * g)
                 IN  <<n \div 65536, (n \div 256) % 256, n % 256>>[((i - 1) % 3) + 1]
  IN  [i \in 1 .. end - (end + 3) \div 4 |-> Byte(i)]

-----------------------------------------------------------------------------
(* What a reader found in a stream, and the position after it.             *)

Read(value, at) == [v |-> value, at |-> at]
Raised(e)       == Read(e, 0)
Failure(r)      == r.v = Thrown \/ r.v = Eof

\* What was read, converted.
Typed(r, F(_)) ==
  IF Failure(r) THEN r
  ELSE LET v == F(r.v) IN IF v = Thrown THEN Raised(Thrown) ELSE Read(v, r.at)

-----------------------------------------------------------------------------
(* Variants.                                                               *)

Null      == [t |-> "null"]
Int64(n)  == [t |-> "int64", n |-> n]
UInt64(n) == [t |-> "uint64", n |-> n]
Double(x) == [t |-> "double", x |-> x]
Bool(b)   == [t |-> "bool", b |-> b]
String(s) == [t |-> "string", s |-> s]
Array(a)  == [t |-> "array", a |-> a]
Object(o) == [t |-> "object", o |-> o]
Blob(d)   == [t |-> "blob", d |-> d]

\* enum type_id, in the order of its numbers.
TypeIds == <<"null", "int64", "uint64", "double", "bool", "string", "array", "object", "blob">>

-----------------------------------------------------------------------------
(* Conversions.                                                            *)

\* int64_t( double ) and uint64_t( double ) cut off what is after the point; out of
\* range they are undefined, and do not occur here.
Truncated(x) == IF x < 0 THEN -((-x) \div 10) ELSE x \div 10

as_int64(v) ==
  CASE v.t = "string" -> to_int64(v.s)
    [] v.t = "double" -> Truncated(v.x)
    [] v.t = "int64"  -> v.n
    [] v.t = "uint64" -> AsSigned(v.n)
    [] v.t = "bool"   -> IF v.b THEN 1 ELSE 0
    [] v.t = "null"   -> 0
    [] OTHER -> Thrown

as_uint64(v) ==
  CASE v.t = "string" -> to_uint64(v.s)
    [] v.t = "double" -> AsUnsigned(Truncated(v.x))
    [] v.t = "int64"  -> AsUnsigned(v.n)
    [] v.t = "uint64" -> v.n
    [] v.t = "bool"   -> IF v.b THEN 1 ELSE 0
    [] v.t = "null"   -> 0
    [] OTHER -> Thrown

as_double(v) ==
  CASE v.t = "string" -> to_double(v.s)
    [] v.t = "double" -> v.x
    [] v.t \in {"int64", "uint64"} -> 10 * v.n
    [] v.t = "bool"   -> IF v.b THEN 10 ELSE 0
    [] v.t = "null"   -> 0
    [] OTHER -> Thrown

as_bool(v) ==
  CASE v.t = "string" -> IF v.s \in {"true", "false"} THEN v.s = "true" ELSE Thrown
    [] v.t = "double" -> v.x # 0
    [] v.t \in {"int64", "uint64"} -> v.n # 0
    [] v.t = "bool"   -> v.b
    [] v.t = "null"   -> FALSE
    [] OTHER -> Thrown

\* A blob ends with an extra "=", by which as_blob knows it from a text.
as_string(v) ==
  CASE v.t = "string" -> v.s
    [] v.t = "double" -> double_to_string(v.x)
    [] v.t \in {"int64", "uint64"} -> to_string(v.n)
    [] v.t = "bool"   -> IF v.b THEN "true" ELSE "false"
    [] v.t = "blob"   -> IF v.d = <<>> THEN "" ELSE base64_encode(v.d) \o "="
    [] v.t = "null"   -> ""
    [] OTHER -> Thrown

\* The bytes of a number are those of its word, one here.
as_blob(v) ==
  CASE v.t = "null" -> <<>>
    [] v.t = "blob" -> v.d
    [] v.t = "string" -> IF v.s # "" /\ CharAt(v.s, Len(v.s)) = "=" THEN base64_decode(v.s)
                         ELSE BytesOf(v.s)
    [] v.t \in {"int64", "uint64"} -> <<AsUnsigned(v.n)>>
    [] v.t = "double" -> <<AsUnsigned(v.x)>>
    [] v.t = "bool" -> <<IF v.b THEN 1 ELSE 0>>
    [] OTHER -> Thrown

-----------------------------------------------------------------------------
(* Operators: the first of string, double, int64 and uint64 that one of    *)
(* the operands has decides in which type they are compared.               *)

Some(t, a, b) == t \in {a.t, b.t}
Common(a, b) ==
  CASE Some("string", a, b) -> <<as_string(a), as_string(b)>>
    [] Some("double", a, b) -> <<as_double(a), as_double(b)>>
    [] Some("int64", a, b)  -> <<as_int64(a), as_int64(b)>>
    [] Some("uint64", a, b) -> <<as_uint64(a), as_uint64(b)>>
    [] OTHER -> <<>>
Failed(pair) == \E i \in DOMAIN pair : pair[i] = Thrown

\* Neither equal nor unequal when no operand has one of the four types.
Alike(pair)  == IF Failed(pair) THEN Thrown ELSE pair # <<>> /\ pair[1] = pair[2]
Unlike(pair) == IF Failed(pair) THEN Thrown ELSE pair # <<>> /\ pair[1] # pair[2]
equals(a, b)  == Alike(Common(a, b))
differs(a, b) == Unlike(Common(a, b))

-----------------------------------------------------------------------------
(* The entries of a dictionary.                                            *)

\* The first entry with the key, or 0.
find(o, key) ==
  LET at == {i \in DOMAIN o : o[i][1] = key}
  IN  IF at = {} THEN 0 ELSE CHOOSE i \in at : \A j \in at : i <= j

get(o, key) == IF find(o, key) = 0 THEN Thrown ELSE o[find(o, key)][2]

set(o, key, value) ==
  IF find(o, key) = 0 THEN Append(o, <<key, value>>) ELSE [o EXCEPT ![find(o, key)][2] = value]

\* operator()( key, value ) does not look for the key.
append(o, key, value) == Append(o, <<key, value>>)

\* operator()( object )
merged(o, other) == FoldLeft(LAMBDA acc, e : set(acc, e[1], e[2]), o, other)

erase(o, key) == IF find(o, key) = 0 THEN o ELSE RemoveAt(o, find(o, key))

=============================================================================
