------------------------------- MODULE Codec --------------------------------
(***************************************************************************)
(* Documents and values on their way between memory, JSON text and bytes.  *)
(*                                                                         *)
(* A variant_object is a handle to a vector of entries that its copies     *)
(* share (_key_value, a shared_ptr); a mutable_variant_object, the draft,  *)
(* owns its vector (a unique_ptr).  docs maps each handle to the vector in *)
(* heap that it shares.  packet is the last value of a C++ type that was   *)
(* handed to a conversion, with its type and the max_depth of the call.    *)
(***************************************************************************)
EXTENDS Json, Serial

CONSTANTS
  Handles,      \* the variant_objects of the program
  Keys, Values, \* what is put into the draft
  Samples,      \* <<type, value>> of C++ values
  Depths,       \* the max_depth they are converted with
  Depth,        \* the max_depth of documents
  MaxEntries    \* bound: entries in the draft and in all the vectors together

VARIABLES heap, docs, draft, packet

vars == <<heap, docs, draft, packet>>

Cells == 1 .. Cardinality(Handles)
None  == [d |-> -1]

Init ==
  /\ docs = CHOOSE f \in [Handles -> Cells] : \A h, g \in Handles : f[h] = f[g] => h = g
  /\ heap = [c \in Cells |-> <<>>]
  /\ draft = <<>>
  /\ packet = None

Entries(h) == heap[docs[h]]

\* h gets a vector of its own; one that nobody refers to any more is freed.
Repointed(h, entries) ==
  LET free == CHOOSE c \in Cells : \A g \in Handles \ {h} : docs[g] # c
  IN  /\ docs' = [docs EXCEPT ![h] = free]
      /\ heap' = [c \in Cells |-> IF c = free THEN entries
                                  ELSE IF \E g \in Handles \ {h} : docs[g] = c THEN heap[c] ELSE <<>>]

Bounded == Len(draft') + FoldFunction(LAMBDA es, n : Len(es) + n, 0, heap') <= MaxEntries

-----------------------------------------------------------------------------
(* mutable_variant_object.                                                 *)

Set(key, value) ==
  /\ draft' = set(draft, key, value)
  /\ UNCHANGED <<heap, docs, packet>>

AppendEntry(key, value) ==
  /\ draft' = append(draft, key, value)
  /\ UNCHANGED <<heap, docs, packet>>

Erase(key) ==
  /\ draft' = erase(draft, key)
  /\ UNCHANGED <<heap, docs, packet>>

Merge(h) ==
  /\ draft' = merged(draft, Entries(h))
  /\ UNCHANGED <<heap, docs, packet>>

\* mutable_variant_object::operator=( const variant_object& )
DraftFrom(h) ==
  /\ draft' = Entries(h)
  /\ UNCHANGED <<heap, docs, packet>>

-----------------------------------------------------------------------------
(* variant_object.                                                         *)

\* operator=( const variant_object& ): h shares the vector of g.
Share(h, g) ==
  /\ docs' = [docs EXCEPT ![h] = docs[g]]
  /\ heap' = [c \in Cells |-> IF \E i \in Handles : docs'[i] = c THEN heap[c] ELSE <<>>]
  /\ UNCHANGED <<draft, packet>>

\* operator=( mutable_variant_object&& )
MoveDraft(h) ==
  /\ Repointed(h, draft)
  /\ draft' = <<>>
  /\ UNCHANGED packet

\* operator=( const mutable_variant_object& ) copies into the vector h refers to.
AssignDraft(h) ==
  /\ heap' = [heap EXCEPT ![docs[h]] = draft]
  /\ UNCHANGED <<docs, draft, packet>>

-----------------------------------------------------------------------------
(* Saving a document and loading it again.                                 *)

Document(h) == Object(Entries(h))

\* json::to_string and from_string
ReloadText(h, stringify) ==
  LET t == to_stream(Document(h), stringify, Depth)
      v == IF t = Thrown THEN Thrown ELSE from_string(t, Depth)
  IN  /\ v # Thrown /\ v # Eof /\ v.t = "object"
      /\ Repointed(h, v.o)
      /\ UNCHANGED <<draft, packet>>

\* raw::pack and unpack
ReloadRaw(h) ==
  LET b == packed(Prim("variant"), Document(h), Depth)
      v == IF b = Thrown THEN Thrown ELSE unpacked(Prim("variant"), b, Depth)
  IN  /\ v # Thrown /\ v.t = "object"
      /\ Repointed(h, v.o)
      /\ UNCHANGED <<draft, packet>>

\* A value of a C++ type is packed, or made a variant.
Convert(sample, d) ==
  /\ packet' = [T |-> sample[1], v |-> sample[2], d |-> d]
  /\ UNCHANGED <<heap, docs, draft>>

\* A program that works on documents and one that converts values are looked at one at a
\* time: the two share nothing.
Next ==
  \/ /\ packet = None
     /\ \/ \E key \in Keys, value \in Values : Set(key, value) \/ AppendEntry(key, value)
        \/ \E key \in Keys : Erase(key)
        \/ \E h \in Handles : Merge(h) \/ DraftFrom(h) \/ MoveDraft(h) \/ AssignDraft(h)
        \/ \E h, g \in Handles : h # g /\ Share(h, g)
        \/ \E h \in Handles, stringify \in BOOLEAN : ReloadText(h, stringify)
        \/ \E h \in Handles : ReloadRaw(h)
     /\ Bounded
  \/ /\ draft = <<>> /\ \A h \in Handles : Entries(h) = <<>>
     /\ \E sample \in Samples, d \in Depths : Convert(sample, d)

Spec == Init /\ [][Next]_vars

-----------------------------------------------------------------------------
(* Properties.                                                             *)

\* The same value, by operator== of variants where that is defined.
RECURSIVE Same(_, _)
Same(a, b) ==
  CASE a.t = "array" -> /\ b.t = "array" /\ Len(a.a) = Len(b.a)
                        /\ \A i \in DOMAIN a.a : Same(a.a[i], b.a[i])
    [] a.t = "object" -> /\ b.t = "object" /\ Len(a.o) = Len(b.o)
                         /\ \A i \in DOMAIN a.o : a.o[i][1] = b.o[i][1] /\ Same(a.o[i][2], b.o[i][2])
    [] a.t \in {"null", "bool"} -> a = b
    [] OTHER -> b.t \notin {"null", "bool", "array", "object"} /\ equals(a, b)

\* escape_string writes escapes that parseEscape does not know: what comes back in place of
\* such a control character is the rest of its escape.
Unescaped(s) ==
  Joined([i \in 1 .. Len(s) |-> CASE CharAt(s, i) = "\f" -> "f" [] CharAt(s, i) = VT -> "u000b"
                                  [] OTHER -> CharAt(s, i)])
RECURSIVE Readable(_)
Readable(v) ==
  CASE v.t = "string" -> String(Unescaped(v.s))
    [] v.t = "array"  -> Array([i \in DOMAIN v.a |-> Readable(v.a[i])])
    [] v.t = "object" -> Object([i \in DOMAIN v.o |-> <<Unescaped(v.o[i][1]), Readable(v.o[i][2])>>])
    [] OTHER -> v

RoundTrips(v, text, stringify) ==
  LET back == from_string(text \o " ", Depth)
  IN  /\ is_valid(text, Depth) = TRUE
      /\ is_valid(text \o " ", Depth) = FALSE
      /\ back # Thrown /\ back # Eof /\ Same(Readable(v), back)
      /\ stringify => variants_from_string(text, Depth) = <<back>>

\* A document that can be written as JSON can be read back with the same limit on its
\* depth, by both grammars, with equal values under the same keys in the same order, except
\* that a control character other than tab and line ends comes back as the letters of its
\* escape; its text is valid and ends where the value ends.  Pretty printing changes the
\* layout and nothing else, but for strings with an escape that it does not know the end of.
DocumentsRead ==
  \A h \in Handles, stringify \in BOOLEAN :
    LET t == to_stream(Document(h), stringify, Depth)
        escapes == \E i \in 1 .. Len(t) - 1 : SubSeq(t, i, i + 1) \in {"\\t", "\\f", "\\u"}
    IN  t # Thrown => /\ RoundTrips(Document(h), t, stringify)
                      /\ stringify /\ ~escapes => RoundTrips(Document(h), pretty_print(t), TRUE)

\* A document that can be packed can be unpacked within the same depth, and is the one
\* that was packed, except that entries with one key have become one entry.
DocumentsUnpack ==
  \A h \in Handles :
    LET b == packed(Prim("variant"), Document(h), Depth)
    IN  b # Thrown => unpacked(Prim("variant"), b, Depth) = Object(merged(<<>>, Entries(h)))

\* A value that can be packed is unpacked again with one level more, from its own bytes and
\* no others: what follows is left alone and every shorter input is refused.
ValuesUnpack ==
  packet # None =>
    LET b == pack(packet.T, packet.v, packet.d)
    IN  b # Thrown =>
          /\ unpack(packet.T, b \o <<129>>, 1, packet.d + 1) = Read(packet.v, Len(b) + 1)
          /\ \A n \in 0 .. Len(b) - 1 : unpack(packet.T, SubSeq(b, 1, n), 1, packet.d + 1) = Refused

\* The texts of bytes (hexadecimal, base 36, base 58 and the text of a blob) are read back
\* as the bytes they were made from, leading zeros included.
AlphabetsInvert ==
  packet # None =>
    LET b == pack(packet.T, packet.v, packet.d)
    IN  b # Thrown /\ Len(b) \in 1 .. 3 =>
          /\ from_hex(to_hex(b), Len(b)) = b
          /\ from_base36(to_base36(b)) = b
          /\ from_base58(to_base58(b)) = b
          /\ as_blob(String(as_string(Blob(b)))) = b

\* Packed bytes give back the documents and values they were made from, and end where they end;
\* the texts of bytes give back the bytes.
PackedRoundTrip == DocumentsUnpack /\ ValuesUnpack /\ AlphabetsInvert

\* A value survives the way through a variant and JSON text, in both formattings, when it is
\* read with one level more than its variant was made with: a member that is an optional is
\* written without the level of the optional, and no sample has two of them in one path.
\* The texts with one of the control characters come back as they do in a document.
ValuesRead ==
  packet # None =>
    LET j == to_variant(packet.T, packet.v, packet.d)
        Text(stringify) == to_stream(j, stringify, packet.d + 1)
        Parsed(text) == from_string(text, packet.d + 1)
        Expected == IF Readable(j) = j THEN packet.v
                    ELSE from_variant(packet.T, Readable(j), packet.d + 1)
        Reads(p) == p \notin {Thrown, Eof} /\ from_variant(packet.T, p, packet.d + 1) = Expected
    IN  j # Thrown => \A stringify \in BOOLEAN :
                        Text(stringify) # Thrown => Reads(Parsed(Text(stringify)))

\* What is written as JSON text is read back as what it was, the control characters without an
\* escape that the parser knows apart: documents, and values of C++ types through their variants.
TextRoundTrip == DocumentsRead /\ ValuesRead

=============================================================================
