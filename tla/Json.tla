-------------------------------- MODULE Json --------------------------------
(***************************************************************************)
(* JSON text (fc/src/io/json.cpp, fc/include/fc/io/json_relaxed.hpp).  The *)
(* parsers read a text from a position and return what they found and the  *)
(* position after it; Thrown and Eof in place of a value are exceptions.   *)
(* The exotic parsers are not compiled in, so the relaxed grammar is       *)
(* reached through variants_from_string only, and never in strict mode.    *)
(* The characters 0x00 and 0x04 do not occur.  The tilde, which no text    *)
(* holds otherwise, stands for 0x0b and with it for the control characters *)
(* that have no escape of one letter; \f is like \b.                       *)
(***************************************************************************)
EXTENDS Variant

\* peek() throws at the end of the stream.
Peek(s, i) == IF i > Len(s) THEN Eof ELSE CharAt(s, i)

White      == {" ", "\t", "\n", "\r"}
TokenChars == CharsOf(Digits \o Lower \o Upper \o "_-.:/")
RelaxedChars == CharsOf(Digits \o Lower \o Upper \o "_-.+/")

skip_white_space(s, i) == SpanEnd(s, i, White)

\* What follows a backslash; an unknown escape is the character itself.
parseEscape(s, i) ==
  LET c == Peek(s, i + 1)
  IN  CASE c = Eof -> Raised(Eof)
        [] c = "t" -> Read("\t", i + 2)
        [] c = "n" -> Read("\n", i + 2)
        [] c = "r" -> Read("\r", i + 2)
        [] OTHER   -> Read(c, i + 2)

-----------------------------------------------------------------------------
(* Strings and tokens.  token is what has been read so far.                *)

RECURSIVE stringBody(_, _, _)
stringBody(s, i, token) ==
  LET c == Peek(s, i)
      More(r) == IF Failure(r) THEN r ELSE stringBody(s, r.at, token \o r.v)
  IN  CASE c = Eof  -> Raised(Eof)
        [] c = "\\" -> More(parseEscape(s, i))
        [] c = "\"" -> Read(token, i + 1)
        [] OTHER    -> stringBody(s, i + 1, token \o c)

stringFromStream(s, i) ==
  CASE Peek(s, i) = Eof  -> Raised(Eof)
    [] Peek(s, i) = "\"" -> stringBody(s, i + 1, "")
    [] OTHER -> Raised(Thrown)

\* The end of the text ends a token, even after a backslash.
RECURSIVE stringFromToken(_, _, _)
stringFromToken(s, i, token) ==
  LET c == Peek(s, i)
      More(r) == IF Failure(r) THEN Read(token, Len(s) + 1)
                 ELSE stringFromToken(s, r.at, token \o r.v)
  IN  CASE c = Eof  -> Read(token, i)
        [] c = "\\" -> More(parseEscape(s, i))
        [] c \in {"\t", " ", "\n"} -> Read(token, i + 1)
        [] c \in TokenChars -> stringFromToken(s, i + 1, token \o c)
        [] OTHER    -> Read(token, i)

\* The relaxed token also swallows the comma or the colon behind it.
RECURSIVE tokenFromStream(_, _, _)
tokenFromStream(s, i, token) ==
  LET c == Peek(s, i)
      More(r) == IF Failure(r) THEN Read(token, Len(s) + 1)
                 ELSE tokenFromStream(s, r.at, token \o r.v)
  IN  CASE c = Eof  -> Read(token, i)
        [] c = "\\" -> More(parseEscape(s, i))
        [] c \in {"\t", " ", ",", ":", "\n"} -> Read(token, i + 1)
        [] c \in RelaxedChars -> tokenFromStream(s, i + 1, token \o c)
        [] OTHER    -> Read(token, i)

\* A string in quotes q, tripled or not, with escapes or (raw) without.
RECURSIVE quotedBody(_, _, _, _, _, _)
quotedBody(s, i, q, triple, escapes, token) ==
  LET c == Peek(s, i)
      Next(j, more) == quotedBody(s, j, q, triple, escapes, token \o more)
      More(r) == IF Failure(r) THEN r ELSE Next(r.at, r.v)
  IN  CASE c = Eof -> Raised(Eof)
        [] c = q /\ ~triple -> Read(token, i + 1)
        [] c = q /\ triple ->
             IF Peek(s, i + 1) = Eof \/ (Peek(s, i + 1) = q /\ Peek(s, i + 2) = Eof)
             THEN Raised(Eof)
             ELSE IF Peek(s, i + 1) # q THEN Next(i + 1, q)
             ELSE IF Peek(s, i + 2) # q THEN Next(i + 2, q \o q)
             ELSE Read(token, i + 3)
        [] c = "\\" /\ escapes -> More(parseEscape(s, i))
        [] c \in {"\r", "\n"} /\ ~triple -> Raised(Thrown)
        [] OTHER -> Next(i + 1, c)

quoteStringFromStream(s, i, escapes) ==
  LET q == CharAt(s, i)
  IN  CASE Peek(s, i + 1) = Eof -> Raised(Eof)
        [] Peek(s, i + 1) # q   -> quotedBody(s, i + 1, q, FALSE, escapes, "")
        [] Peek(s, i + 2) = q   -> quotedBody(s, i + 3, q, TRUE, escapes, "")
        [] OTHER -> Read("", i + 2)

relaxedString(s, i) ==
  LET c == Peek(s, i)
  IN  CASE c = Eof -> Raised(Eof)
        [] c \in {"\"", "'"} -> quoteStringFromStream(s, i, TRUE)
        [] c \in {"r", "R"} ->
             CASE Peek(s, i + 1) = Eof -> Raised(Eof)
               [] Peek(s, i + 1) \in {"\"", "'"} -> quoteStringFromStream(s, i + 1, FALSE)
               [] OTHER -> tokenFromStream(s, i + 1, c)
        [] c \in RelaxedChars -> tokenFromStream(s, i, "")
        [] OTHER -> Raised(Thrown)

-----------------------------------------------------------------------------
(* Numbers and words.                                                      *)

\* A number whose text could not be converted is an exception.
Checked(v, at) == IF Thrown \in {v[f] : f \in DOMAIN v} THEN Raised(Thrown) ELSE Read(v, at)

Dots(u) == Cardinality({i \in 1 .. Len(u) : CharAt(u, i) = "."})

\* A sign, digits and at most one point; letters behind them make it a string.
Number(body) ==
  CASE Dots(body) = 1 -> Double(to_double(body))
    [] Dots(body) = 0 /\ Negative(body) -> Int64(to_int64(body))
    [] OTHER -> UInt64(to_uint64(body))
numberRead(s, body, end) ==
  IF Dots(body) > 1 THEN Raised(Thrown)
  ELSE IF Peek(s, end) # Eof /\ IsAlnum(Peek(s, end))
  THEN Typed(stringFromToken(s, end, body), String)
  ELSE IF body \in {"-", ".", "-."} THEN Raised(Thrown)
  ELSE Checked(Number(body), end)
numberUpTo(s, i, end) == numberRead(s, SubSeq(s, i, end - 1), end)
number_from_stream(s, i) ==
  numberUpTo(s, i, SpanEnd(s, IF Peek(s, i) = "-" THEN i + 1 ELSE i, CharsOf(Digits \o ".")))

Word(w) == CASE w = "null" -> Null [] w = "true" -> Bool(TRUE) [] w = "false" -> Bool(FALSE)
             [] OTHER -> String(w)

\* Anything but the three words is a string, with the rest of its token.
wordRead(s, str, end) ==
  IF str \in {"null", "true", "false"} \/ end > Len(s) THEN Read(Word(str), end)
  ELSE Typed(stringFromToken(s, end, str), String)
wordUpTo(s, i, end) == wordRead(s, SubSeq(s, i, end - 1), end)
token_from_stream(s, i) == wordUpTo(s, i, SpanEnd(s, i, CharsOf("nulltruefalse")))

wordFromStream(s, i) == Typed(tokenFromStream(s, i, ""), Word)

\* CharValueTable: the letters have values up to 35 whatever the base is.
c2v(c) == IF c \in CharsOf(Upper) THEN 9 + IndexIn(Upper, c) ELSE IndexIn(Base36, c) - 1

parseInt(token, start, base) ==
  LET body == SubSeq(token, start, Len(token))
      n    == ValueOf([i \in 1 .. Len(body) |-> c2v(CharAt(body, i))], base)
  IN  IF body = "" \/ \E c \in CharsOf(body) : ~IsAlnum(c) THEN Thrown
      ELSE IF n >= WordSize \/ (Negative(token) /\ n > INT64_MAX + 1) THEN Thrown
      ELSE IF Negative(token) THEN Int64(-n) ELSE UInt64(n)

maybeParseInt(token, start, base) ==
  LET v == parseInt(token, start, base) IN IF v = Thrown THEN String(token) ELSE v

\* digits e [sign] digits
Exponent(token, at) ==
  LET sign == IF Peek(token, at + 1) \in {"+", "-"} THEN 1 ELSE 0
      rest == SubSeq(token, at + 1 + sign, Len(token))
      mant == Magnitude(Unsigned(SubSeq(token, 1, at - 1)))
      size == IF Peek(token, at + 1) = "-" THEN (10 * mant) \div 10 ^ Magnitude(rest)
              ELSE (10 * mant) * 10 ^ Magnitude(rest)
  IN  IF rest = "" \/ ~(CharsOf(rest) \subseteq CharsOf(Digits)) THEN String(token)
      ELSE Double(IF Negative(token) THEN -size ELSE size)

\* A token that begins like a number.  A zero and a letter choose the base; the binary
\* one skips a digit.  A point makes it a string.
parseNumberOrStr(token) ==
  LET i    == IF Signed(token) THEN 2 ELSE 1
      c    == Peek(token, i)
      mark == Peek(token, i + 1)
      end  == SpanEnd(token, i + 1, CharsOf(Digits))
  IN  CASE c = Eof -> Thrown
        [] c = "0" /\ mark = Eof -> UInt64(0)
        [] c = "0" /\ mark \in {"b", "B"} -> IF i + 2 > Len(token) THEN Thrown
                                             ELSE maybeParseInt(token, i + 3, 2)
        [] c = "0" /\ mark \in {"o", "O"} -> maybeParseInt(token, i + 2, 8)
        [] c = "0" /\ mark \in {"x", "X"} -> maybeParseInt(token, i + 2, 16)
        [] ~IsDigit(c) -> IF c \in RelaxedChars THEN String(token) ELSE Thrown
        [] end > Len(token) -> parseInt(token, i, 10)
        [] CharAt(token, end) \in {"e", "E"} -> Exponent(token, end)
        [] CharAt(token, end) \in RelaxedChars -> String(token)
        [] OTHER -> Thrown

numberFromStream(s, i) == Typed(tokenFromStream(s, i, ""), parseNumberOrStr)

-----------------------------------------------------------------------------
(* Values.  relaxed chooses the grammar; depth is max_depth.               *)

NumberChars == CharsOf(Digits \o "-.")

RECURSIVE variant_from_stream(_, _, _, _), objectBody(_, _, _, _, _), arrayBody(_, _, _, _, _)

\* objectFromStreamBase after the brace: commas are skipped like white space, and the
\* end of the text is a parse error.
valueRead(s, o, key, r, depth, relaxed) ==
  IF Failure(r) THEN Raised(Thrown) ELSE objectBody(s, r.at, append(o, key, r.v), depth, relaxed)
keyRead(s, o, key, colon, depth, relaxed) ==
  IF Failure(key) \/ Peek(s, colon) # ":" THEN Raised(Thrown)
  ELSE valueRead(s, o, key.v, variant_from_stream(s, colon + 1, depth, relaxed), depth, relaxed)
entryRead(s, o, key, depth, relaxed) ==
  keyRead(s, o, key, skip_white_space(s, key.at), depth, relaxed)
objectBody(s, at, o, depth, relaxed) ==
  LET i == SpanEnd(s, at, White \cup {","})
  IN  CASE Peek(s, i) = Eof -> Raised(Thrown)
        [] Peek(s, i) = "}" -> Read(Object(o), i + 1)
        [] OTHER -> entryRead(s, o, IF relaxed THEN relaxedString(s, i) ELSE stringFromStream(s, i),
                              depth, relaxed)

\* arrayFromStreamBase after the bracket: the end of the text stays an eof_exception.
itemRead(s, a, r, depth, relaxed) ==
  IF Failure(r) THEN r ELSE arrayBody(s, r.at, Append(a, r.v), depth, relaxed)
arrayBody(s, at, a, depth, relaxed) ==
  LET i == SpanEnd(s, at, White \cup {","})
  IN  CASE Peek(s, i) = Eof -> Raised(Eof)
        [] Peek(s, i) = "]" -> Read(Array(a), i + 1)
        [] OTHER -> itemRead(s, a, variant_from_stream(s, i, depth, relaxed), depth, relaxed)

strictRead(s, i, c) ==
  CASE c = "\"" -> Typed(stringFromStream(s, i), String)
    [] c \in NumberChars -> number_from_stream(s, i)
    [] c \in {"n", "t", "f"} -> token_from_stream(s, i)
    [] OTHER -> Raised(Thrown)
relaxedRead(s, i, c) ==
  CASE c = "\"" -> Typed(relaxedString(s, i), String)
    [] c \in NumberChars \cup {"+"} -> numberFromStream(s, i)
    [] c \in RelaxedChars \ (NumberChars \cup {"+"}) -> wordFromStream(s, i)
    [] OTHER -> Raised(Thrown)
variantRead(s, i, c, depth, relaxed) ==
  CASE c = Eof -> Raised(Eof)
    [] c = "{" -> objectBody(s, i + 1, <<>>, depth - 1, relaxed)
    [] c = "[" -> arrayBody(s, i + 1, <<>>, depth - 1, relaxed)
    [] OTHER -> IF relaxed THEN relaxedRead(s, i, c) ELSE strictRead(s, i, c)
variantAt(s, i, depth, relaxed) == variantRead(s, i, Peek(s, i), depth, relaxed)
variant_from_stream(s, at, depth, relaxed) ==
  IF depth = 0 THEN Raised(Thrown) ELSE variantAt(s, skip_white_space(s, at), depth, relaxed)

from_string(s, depth) == variant_from_stream(s, 1, depth, FALSE).v

\* The parser's exceptions leave is_valid.
atEnd(s, r) == IF Failure(r) THEN r.v ELSE r.at > Len(s)
is_valid(s, depth) == IF s = "" THEN FALSE ELSE atEnd(s, variant_from_stream(s, 1, depth, FALSE))

\* Values up to the end of the text, which may come inside of the last one.
RECURSIVE variantsFrom(_, _, _, _)
nextRead(s, r, depth, found) ==
  CASE r.v = Eof -> found
    [] r.v = Thrown -> Thrown
    [] OTHER -> variantsFrom(s, r.at, depth, Append(found, r.v))
variantsFrom(s, i, depth, found) == nextRead(s, variant_from_stream(s, i, depth, TRUE), depth, found)
variants_from_string(s, depth) == variantsFrom(s, 1, depth, <<>>)

-----------------------------------------------------------------------------
(* Writing.                                                                *)

VT == "~"

\* the backslash is written as it is
Escaped_loose(c) ==
  CASE c = "\f" -> "\\f" [] c = "\n" -> "\\n" [] c = "\r" -> "\\r" [] c = "\t" -> "\\t"
    [] c = "\"" -> "\\\"" [] c = VT -> "\\u000b" [] OTHER -> c

Escaped(c) ==
  CASE c = "\f" -> "\\f" [] c = "\n" -> "\\n" [] c = "\r" -> "\\r" [] c = "\t" -> "\\t"
    [] c = "\\" -> "\\\\" [] c = "\"" -> "\\\"" [] c = VT -> "\\u000b" [] OTHER -> c

escape_string(s) == "\"" \o Joined([i \in 1 .. Len(s) |-> Escaped(CharAt(s, i))]) \o "\""

\* Parts between commas; an exception in one of them is an exception of the whole.
Listed(open, parts, close) ==
  IF \E i \in DOMAIN parts : parts[i] = Thrown THEN Thrown
  ELSE open \o Joined([i \in DOMAIN parts |-> (IF i = 1 THEN "" ELSE ",") \o parts[i]]) \o close

Quoted(s) == "\"" \o s \o "\""
Member(key, text) == IF text = Thrown THEN Thrown ELSE escape_string(key) \o ":" \o text

\* stringify: output_formatting is stringify_large_ints_and_doubles, the default.
RECURSIVE to_stream(_, _, _)
to_stream(v, stringify, depth) ==
  CASE depth = 0 -> Thrown
    [] depth > 0 /\ v.t = "null" -> "null"
    [] depth > 0 /\ v.t = "int64" ->
         IF stringify /\ (v.n > INT32_MAX \/ v.n < -INT32_MAX - 1) THEN Quoted(as_string(v))
         ELSE as_string(v)
    [] depth > 0 /\ v.t = "uint64" ->
         IF stringify /\ v.n > UINT32_MAX THEN Quoted(as_string(v)) ELSE as_string(v)
    [] depth > 0 /\ v.t = "double" -> IF stringify THEN Quoted(as_string(v)) ELSE as_string(v)
    [] depth > 0 /\ v.t = "bool" -> as_string(v)
    [] depth > 0 /\ v.t \in {"string", "blob"} -> escape_string(as_string(v))
    [] depth > 0 /\ v.t = "array" ->
         Listed("[", [i \in DOMAIN v.a |-> to_stream(v.a[i], stringify, depth - 1)], "]")
    [] depth > 0 /\ v.t = "object" ->
         Listed("{", [i \in DOMAIN v.o |->
                       Member(v.o[i][1], to_stream(v.o[i][2], stringify, depth - 1))], "}")

\* pretty_print goes through the text once.  first: a line break is due before the next
\* item; quote, escape: inside a string, after a backslash.  The escape is closed by a
\* second backslash, a quote, a bracket, a comma and the letter n, and by nothing else.
Spaces(n) == Joined([i \in 1 .. n |-> " "])
Break(p)  == IF p.first THEN [p EXCEPT !.out = @ \o "\n" \o Spaces(2 * p.level), !.first = FALSE]
             ELSE p
Put(p, t) == [p EXCEPT !.out = @ \o t]
Cleared(p) == [p EXCEPT !.escape = FALSE]

PrettyStep(p, c, prev) ==
  CASE c = "\\" -> [Put(p, c) EXCEPT !.escape = ~p.escape /\ p.quote]
    [] c = ":" -> Put(p, IF p.quote THEN ":" ELSE ": ")
    [] c = "\"" -> Cleared([Put(Break(p), c) EXCEPT !.quote = IF p.escape THEN @ ELSE ~@])
    [] c \in {"{", "[", ",", "}", "]"} /\ p.quote -> Cleared(Put(p, c))
    [] c \in {"{", "["} /\ ~p.quote -> [Put(p, c) EXCEPT !.level = @ + 1, !.first = TRUE]
    [] c = "," /\ ~p.quote -> [Put(p, c) EXCEPT !.first = TRUE]
    [] c \in {"}", "]"} /\ ~p.quote ->
         [p EXCEPT !.out = @ \o (IF prev \in {"[", "{"} THEN "" ELSE "\n")
                             \o (IF p.first THEN "" ELSE Spaces(2 * (p.level - 1))) \o c,
                   !.level = @ - 1, !.first = FALSE]
    [] c = "n" -> Put(Break(IF p.quote THEN Cleared(p) ELSE p), c)
    [] OTHER -> Put(Break(p), c)

RECURSIVE prettyFrom(_, _, _)
prettyFrom(s, i, p) ==
  IF i > Len(s) THEN p.out
  ELSE prettyFrom(s, i + 1, PrettyStep(p, CharAt(s, i), IF i = 1 THEN "" ELSE CharAt(s, i - 1)))
pretty_print(s) ==
  prettyFrom(s, 1, [level |-> 0, first |-> FALSE, quote |-> FALSE, escape |-> FALSE, out |-> ""])
=============================================================================
