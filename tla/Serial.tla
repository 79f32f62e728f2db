------------------------------- MODULE Serial -------------------------------
(***************************************************************************)
(* The serialisation of C++ types: to and from variants (variant.hpp,      *)
(* reflect/variant.hpp, static_variant.hpp, ext.hpp) and to and from bytes *)
(* (raw.hpp, raw_variant.hpp, flat.hpp, ext.hpp), which is what is hashed, *)
(* signed and stored.                                                      *)
(*                                                                         *)
(* A type is a record with a kind k.  Sequences stand for vectors; sorted  *)
(* sequences for sets, and of pairs for maps; <<>> and <<v>> for an        *)
(* optional; the sequence of its members for a struct and (of optionals)   *)
(* for an extension; <<which, value>> for a static_variant; the position   *)
(* of its name for an enum.  d is the remaining max_depth.                 *)
(***************************************************************************)
EXTENDS Variant

CONSTANT MaxAlloc     \* MAX_ARRAY_ALLOC_SIZE, in elements

Prim(k)         == [k |-> k]
VectorOf(e)     == [k |-> "vector", e |-> e]
SetOf(e)        == [k |-> "set", e |-> e]
PairOf(a, b)    == [k |-> "pair", a |-> a, b |-> b]
MapOf(a, b)     == [k |-> "map", e |-> PairOf(a, b)]
OptionalOf(e)   == [k |-> "optional", e |-> e]
RefTo(e)        == [k |-> "ref", e |-> e]
StructOf(f)     == [k |-> "struct", f |-> f]
ExtensionOf(f)  == [k |-> "extension", f |-> f]
OneOf(f)        == [k |-> "static_variant", f |-> f]
EnumOf(names)   == [k |-> "enum", names |-> names]

\* T()
RECURSIVE Default(_)
Default(T) ==
  CASE T.k \in {"uint64", "int64", "unsigned_int"} -> 0
    [] T.k = "bool" -> FALSE
    [] T.k = "string" -> ""
    [] T.k \in {"bytes", "vector", "set", "flat_set", "map", "optional"} -> <<>>
    [] T.k = "variant" -> Null
    [] T.k = "pair" -> <<Default(T.a), Default(T.b)>>
    [] T.k = "ref" -> Default(T.e)
    [] T.k = "struct" -> [i \in DOMAIN T.f |-> Default(T.f[i][2])]
    [] T.k = "extension" -> [i \in DOMAIN T.f |-> <<>>]
    [] T.k = "static_variant" -> <<0, Default(T.f[1])>>
    [] T.k = "enum" -> 1

AnyThrown(seq) == \E i \in DOMAIN seq : seq[i] = Thrown
Unless(seq, value) == IF AnyThrown(seq) THEN Thrown ELSE value

\* insert of an ordered container; the key of a map is the first of the pair.
KeyOf(T, x) == IF T.k = "map" THEN x[1] ELSE x
inserted(T, c, x) ==
  IF \E i \in DOMAIN c : KeyOf(T, c[i]) = KeyOf(T, x) THEN c
  ELSE LET n == Cardinality({i \in DOMAIN c : KeyOf(T, c[i]) < KeyOf(T, x)})
       IN  SubSeq(c, 1, n) \o <<x>> \o SubSeq(c, n + 1, Len(c))
Collected(T, items) ==
  IF T.k = "vector" THEN items ELSE FoldLeft(LAMBDA c, x : inserted(T, c, x), <<>>, items)

-----------------------------------------------------------------------------
(* to_variant.                                                             *)

RECURSIVE to_variant(_, _, _)

list_to_variant(T, v, d) ==
  LET items == [i \in DOMAIN v |-> to_variant(T.e, v[i], d - 1)]
  IN  IF d = 0 THEN Thrown ELSE Unless(items, Array(items))

pair_to_variant(T, v, d) ==
  LET two == <<to_variant(T.a, v[1], d - 1), to_variant(T.b, v[2], d - 1)>>
  IN  IF d = 0 THEN Thrown ELSE Unless(two, Array(two))

optional_to_variant(T, v, d) ==
  IF d = 0 THEN Thrown ELSE IF v = <<>> THEN Null ELSE to_variant(T.e, v[1], d - 1)

\* Members that are optional and empty are left out.
Present(T, v) == SelectSeq([i \in DOMAIN T.f |-> i],
                           LAMBDA i : T.f[i][2].k # "optional" \/ v[i] # <<>>)
struct_to_variant(T, v, d) ==
  LET Member(i) == IF T.f[i][2].k = "optional" THEN to_variant(T.f[i][2].e, v[i][1], d - 1)
                   ELSE to_variant(T.f[i][2], v[i], d - 1)
      fields == [j \in DOMAIN Present(T, v) |-> Member(Present(T, v)[j])]
  IN  IF d = 0 THEN Thrown
      ELSE Unless(fields, Object([j \in DOMAIN fields |-> <<T.f[Present(T, v)[j]][1], fields[j]>>]))

static_variant_to_variant(T, v, d) ==
  LET content == to_variant(T.f[v[1] + 1], v[2], d - 1)
  IN  IF d = 0 \/ content = Thrown THEN Thrown ELSE Array(<<Int64(v[1]), content>>)

\* The members are converted as the optionals that they are, one level deeper.
extension_to_variant(T, v, d) ==
  LET some   == SelectSeq([i \in DOMAIN T.f |-> i], LAMBDA i : v[i] # <<>>)
      fields == [j \in DOMAIN some |-> optional_to_variant(OptionalOf(T.f[some[j]][2]), v[some[j]], d - 1)]
  IN  IF d = 0 THEN Thrown
      ELSE Unless(fields, Object([j \in DOMAIN some |-> <<T.f[some[j]][1], fields[j]>>]))

to_variant(T, v, d) ==
  CASE T.k \in {"uint64", "unsigned_int"} -> UInt64(v)
    [] T.k = "int64" -> Int64(v)
    [] T.k = "bool" -> Bool(v)
    [] T.k = "string" -> String(v)
    [] T.k = "bytes" -> String(to_hex(v))
    [] T.k = "variant" -> v
    [] T.k = "enum" -> String(T.names[v])
    [] T.k = "ref" -> IF d = 0 THEN Thrown ELSE to_variant(T.e, v, d - 1)
    [] T.k \in {"vector", "set", "flat_set", "map"} -> list_to_variant(T, v, d)
    [] T.k = "pair" -> pair_to_variant(T, v, d)
    [] T.k = "optional" -> optional_to_variant(T, v, d)
    [] T.k = "struct" -> struct_to_variant(T, v, d)
    [] T.k = "static_variant" -> static_variant_to_variant(T, v, d)
    [] T.k = "extension" -> extension_to_variant(T, v, d)

-----------------------------------------------------------------------------
(* from_variant, into a T().                                               *)

RECURSIVE from_variant(_, _, _)

list_from_variant(T, v, d) ==
  LET items == [i \in DOMAIN v.a |-> from_variant(T.e, v.a[i], d - 1)]
  IN  IF d = 0 \/ v.t # "array" THEN Thrown ELSE Unless(items, Collected(T, items))

\* What the array does not have stays as it was.
pair_from_variant(T, v, d) ==
  LET two == <<IF Len(v.a) > 0 THEN from_variant(T.a, v.a[1], d - 1) ELSE Default(T.a),
               IF Len(v.a) > 1 THEN from_variant(T.b, v.a[2], d - 1) ELSE Default(T.b)>>
  IN  IF d = 0 \/ v.t # "array" THEN Thrown ELSE Unless(two, two)

optional_from_variant(T, v, d) ==
  LET one == <<from_variant(T.e, v, d - 1)>>
  IN  IF v.t = "null" THEN <<>> ELSE IF d = 0 THEN Thrown ELSE Unless(one, one)

struct_from_variant(T, v, d) ==
  LET Member(i) == IF find(v.o, T.f[i][1]) = 0 THEN Default(T.f[i][2])
                   ELSE from_variant(T.f[i][2], get(v.o, T.f[i][1]), d - 1)
      members == [i \in DOMAIN T.f |-> Member(i)]
  IN  IF d = 0 \/ v.t # "object" THEN Thrown ELSE Unless(members, members)

\* An array of less than two leaves the variant as it was.
static_variant_from_variant(T, v, d) ==
  LET Chosen(w) == IF w = Thrown \/ w \notin 0 .. Len(T.f) - 1 THEN Thrown
                   ELSE LET one == from_variant(T.f[w + 1], v.a[2], d - 1)
                        IN  IF one = Thrown THEN Thrown ELSE <<w, one>>
  IN  IF d = 0 \/ v.t # "array" THEN Thrown
      ELSE IF Len(v.a) < 2 THEN Default(T) ELSE Chosen(as_uint64(v.a[1]))

\* Every entry of the object must be a known member.
extension_from_variant(T, v, d) ==
  LET Member(i) == IF find(v.o, T.f[i][1]) = 0 THEN <<>>
                   ELSE optional_from_variant(OptionalOf(T.f[i][2]), get(v.o, T.f[i][1]), d - 1)
      members == [i \in DOMAIN T.f |-> Member(i)]
      known   == Cardinality({i \in DOMAIN T.f : find(v.o, T.f[i][1]) # 0})
  IN  CASE v.t = "null" -> Default(T)
        [] v.t = "array" -> IF v.a = <<>> THEN Default(T) ELSE Thrown
        [] v.t = "object" -> IF d = 0 \/ known # Len(v.o) THEN Thrown ELSE Unless(members, members)
        [] OTHER -> Thrown

enum_from_variant(T, v) ==
  LET named == {i \in DOMAIN T.names : v.t = "string" /\ T.names[i] = v.s}
      n == as_int64(v)
  IN  IF named # {} THEN CHOOSE i \in named : TRUE
      ELSE IF n = Thrown THEN Thrown ELSE IF n + 1 \in DOMAIN T.names THEN n + 1 ELSE Thrown

bytes_from_variant(v) ==
  LET s == as_string(v) IN IF s = Thrown THEN Thrown ELSE from_hex(s, Len(s) \div 2)

from_variant(T, v, d) ==
  CASE T.k \in {"uint64", "unsigned_int"} -> as_uint64(v)
    [] T.k = "int64" -> as_int64(v)
    [] T.k = "bool" -> as_bool(v)
    [] T.k = "string" -> as_string(v)
    [] T.k = "bytes" -> bytes_from_variant(v)
    [] T.k = "variant" -> v
    [] T.k = "enum" -> enum_from_variant(T, v)
    [] T.k = "ref" -> IF d = 0 THEN Thrown ELSE from_variant(T.e, v, d - 1)
    [] T.k \in {"vector", "set", "flat_set", "map"} -> list_from_variant(T, v, d)
    [] T.k = "pair" -> pair_from_variant(T, v, d)
    [] T.k = "optional" -> optional_from_variant(T, v, d)
    [] T.k = "struct" -> struct_from_variant(T, v, d)
    [] T.k = "static_variant" -> static_variant_from_variant(T, v, d)
    [] T.k = "extension" -> extension_from_variant(T, v, d)

-----------------------------------------------------------------------------
(* pack: the bytes.  A number of 64 bits is one byte here.                 *)

Flattened(parts) == Unless(parts, FlattenSeq(parts))

\* Seven bits to a byte, the lowest first; the eighth tells that more follow.
RECURSIVE pack_unsigned_int(_)
pack_unsigned_int(n) == IF n < 128 THEN <<n>> ELSE <<128 + (n % 128)>> \o pack_unsigned_int(n \div 128)

\* What is neither reflected nor a class passes through if_reflected and if_class.
pack_word(n, d) == IF d < 2 THEN Thrown ELSE <<AsUnsigned(n)>>
pack_bool(v, d) == IF d < 1 THEN Thrown ELSE pack_word(IF v THEN 1 ELSE 0, d - 1)
pack_bytes(v, d)  == IF d < 1 THEN Thrown ELSE pack_unsigned_int(Len(v)) \o v
pack_string(v, d) == IF d < 1 THEN Thrown ELSE pack_unsigned_int(Len(v)) \o BytesOf(v)

RECURSIVE pack(_, _, _)

pack_list(T, v, d) ==
  IF d < 1 THEN Thrown
  ELSE Flattened(<<pack_unsigned_int(Len(v))>> \o [i \in DOMAIN v |-> pack(T.e, v[i], d - 1)])

pack_pair(T, v, d) ==
  IF d < 1 THEN Thrown ELSE Flattened(<<pack(T.a, v[1], d - 1), pack(T.b, v[2], d - 1)>>)

pack_optional(T, v, d) ==
  IF d < 1 THEN Thrown
  ELSE Flattened(<<pack_bool(v # <<>>, d - 1)>> \o [i \in DOMAIN v |-> pack(T.e, v[i], d - 1)])

\* if_reflected, if_enum and the visitor each take a level.
pack_struct(T, v, d) ==
  IF d < 4 THEN Thrown ELSE Flattened([i \in DOMAIN T.f |-> pack(T.f[i][2], v[i], d - 4)])
pack_enum(v, d) == IF d < 3 THEN Thrown ELSE pack_word(v - 1, d - 3)

pack_static_variant(T, v, d) ==
  IF d < 2 THEN Thrown
  ELSE Flattened(<<pack_unsigned_int(v[1]), pack(T.f[v[1] + 1], v[2], d - 2)>>)

\* The number of members that are set, then each with its position.
pack_extension(T, v, d) ==
  LET some == SelectSeq([i \in DOMAIN T.f |-> i], LAMBDA i : v[i] # <<>>)
  IN  IF d < 2 THEN Thrown
      ELSE Flattened(<<pack_unsigned_int(Len(some))>>
             \o [j \in DOMAIN some |->
                  Flattened(<<pack_unsigned_int(some[j] - 1),
                              pack(T.f[some[j]][2], v[some[j]][1], d - 2)>>)])

pack_object(o, d) ==
  IF d < 1 THEN Thrown
  ELSE Flattened(<<pack_unsigned_int(Len(o))>>
         \o [i \in DOMAIN o |-> Flattened(<<pack_string(o[i][1], d - 1),
                                            pack(Prim("variant"), o[i][2], d - 1)>>)])

\* variant_packer: it has no function for a blob, and takes a level of its own.
TypeByte(v) == (CHOOSE i \in DOMAIN TypeIds : TypeIds[i] = v.t) - 1
Content(v, d) ==
  CASE v.t = "null" -> <<>>
    [] v.t \in {"int64", "uint64"} -> pack_word(v.n, d)
    [] v.t = "double" -> pack_word(v.x, d)
    [] v.t = "bool" -> pack_bool(v.b, d)
    [] v.t = "string" -> pack_string(v.s, d)
    [] v.t = "array" -> pack_list(VectorOf(Prim("variant")), v.a, d)
    [] v.t = "object" -> pack_object(v.o, d)
    [] v.t = "blob" -> Thrown

pack_variant(v, d) ==
  IF d < 2 THEN Thrown ELSE Flattened(<<pack_word(TypeByte(v), d - 1), Content(v, d - 2)>>)

pack(T, v, d) ==
  CASE T.k \in {"uint64", "int64"} -> pack_word(v, d)
    [] T.k = "unsigned_int" -> pack_unsigned_int(v)
    [] T.k = "bool" -> pack_bool(v, d)
    [] T.k = "string" -> pack_string(v, d)
    [] T.k = "bytes" -> pack_bytes(v, d)
    [] T.k = "variant" -> pack_variant(v, d)
    [] T.k = "enum" -> pack_enum(v, d)
    [] T.k = "ref" -> IF d < 1 THEN Thrown ELSE pack(T.e, v, d - 1)
    [] T.k \in {"vector", "set", "flat_set", "map"} -> pack_list(T, v, d)
    [] T.k = "pair" -> pack_pair(T, v, d)
    [] T.k = "optional" -> pack_optional(T, v, d)
    [] T.k = "struct" -> pack_struct(T, v, d)
    [] T.k = "static_variant" -> pack_static_variant(T, v, d)
    [] T.k = "extension" -> pack_extension(T, v, d)

-----------------------------------------------------------------------------
(* unpack: what the bytes b hold from position i on.                       *)

Refused == Raised(Thrown)

\* by is the number of bits read so far.  A value that does not fit is refused.
RECURSIVE varint(_, _, _, _)
\* the last byte may hold no bit at all
varint_short(b, i, by, v) ==
  IF i > Len(b) \/ by >= WordBits - 1 THEN Refused
  ELSE IF b[i] >= 128 THEN varint(b, i + 1, by + 7, v + (b[i] - 128) * 2 ^ by)
  ELSE Read(v + b[i] * 2 ^ by, i + 1)

varint(b, i, by, v) ==
  IF i > Len(b) \/ by >= WordBits THEN Refused
  ELSE IF by = WordBits - 1 /\ b[i] > 1 THEN Refused
  ELSE IF b[i] >= 128 THEN varint(b, i + 1, by + 7, v + (b[i] - 128) * 2 ^ by)
  ELSE Read(v + b[i] * 2 ^ by, i + 1)

unpack_unsigned_int(b, i) == varint(b, i, 0, 0)

unpack_word(b, i, d) == IF d < 2 \/ i > Len(b) THEN Refused ELSE Read(b[i], i + 1)

ToBool(n) == IF n > 1 THEN Thrown ELSE n = 1
unpack_bool(b, i, d) == IF d < 1 THEN Refused ELSE Typed(unpack_word(b, i, d - 1), ToBool)

Sized(b, size) == IF Failure(size) \/ size.v >= MaxAlloc \/ size.at + size.v - 1 > Len(b) THEN Refused
                  ELSE Read(SubSeq(b, size.at, size.at + size.v - 1), size.at + size.v)
unpack_bytes(b, i, d)  == IF d < 1 THEN Refused ELSE Sized(b, unpack_unsigned_int(b, i))
\* Through a vector of char, one level deeper than it was packed.
unpack_string(b, i, d) == IF d < 1 THEN Refused ELSE Typed(unpack_bytes(b, i, d - 1), TextOf)

RECURSIVE unpack(_, _, _, _)

\* Values of these types, one behind the other.
RECURSIVE inTurn(_, _, _, _, _)
inTurn(types, b, i, d, found) ==
  LET More(r) == IF Failure(r) THEN Refused
                 ELSE inTurn(Tail(types), b, r.at, d, Append(found, r.v))
  IN  IF types = <<>> THEN Read(found, i) ELSE More(unpack(Head(types), b, i, d))

\* Every container but std::set limits what it allocates.
unpack_list(T, b, i, d) ==
  LET Items(size) ==
        IF Failure(size) \/ (T.k # "set" /\ size.v >= MaxAlloc) THEN Refused
        ELSE inTurn([n \in 1 .. size.v |-> T.e], b, size.at, d - 1, <<>>)
  IN  IF d < 1 THEN Refused
      ELSE Typed(Items(unpack_unsigned_int(b, i)), LAMBDA items : Collected(T, items))

unpack_pair(T, b, i, d) == IF d < 1 THEN Refused ELSE inTurn(<<T.a, T.b>>, b, i, d - 1, <<>>)

unpack_optional(T, b, i, d) ==
  LET Value(flag) == IF Failure(flag) THEN Refused
                     ELSE inTurn(IF flag.v THEN <<T.e>> ELSE <<>>, b, flag.at, d - 1, <<>>)
  IN  IF d < 1 THEN Refused ELSE Value(unpack_bool(b, i, d - 1))

unpack_struct(T, b, i, d) ==
  IF d < 4 THEN Refused ELSE inTurn([n \in DOMAIN T.f |-> T.f[n][2]], b, i, d - 4, <<>>)

\* Any number is taken for an enumerator; one outside of the names is undefined and
\* does not occur here.
unpack_enum(b, i, d) ==
  IF d < 3 THEN Refused ELSE Typed(unpack_word(b, i, d - 3), LAMBDA n : n + 1)

unpack_static_variant(T, b, i, d) ==
  LET Chosen(w) == IF Failure(w) \/ w.v >= Len(T.f) THEN Refused
                   ELSE Typed(unpack(T.f[w.v + 1], b, w.at, d - 2), LAMBDA x : <<w.v, x>>)
  IN  IF d < 2 THEN Refused ELSE Chosen(unpack_unsigned_int(b, i))

\* The members come in the order of the struct: n members have been passed, left are to
\* come, and next is the position of the next one.  Others left over are refused.
RECURSIVE members(_, _, _, _, _, _)
members(T, b, next, left, d, found) ==
  LET n == Len(found)
      More(r) == CASE Failure(r) -> Refused
                   [] ~Failure(r) /\ left = 1 -> members(T, b, Read(0, r.at), 0, d, Append(found, <<r.v>>))
                   [] OTHER -> members(T, b, unpack_unsigned_int(b, r.at), left - 1, d, Append(found, <<r.v>>))
  IN  CASE Failure(next) -> Refused
        [] ~Failure(next) /\ n = Len(T.f) -> IF left > 0 THEN Refused ELSE Read(found, next.at)
        [] ~Failure(next) /\ n < Len(T.f) /\ left > 0 /\ next.v = n -> More(unpack(T.f[n + 1][2], b, next.at, d))
        [] OTHER -> members(T, b, next, left, d, Append(found, <<>>))
unpack_extension(T, b, i, d) ==
  LET Rest(count) == CASE Failure(count) -> Refused
                       [] ~Failure(count) /\ count.v = 0 -> members(T, b, Read(0, count.at), 0, d - 2, <<>>)
                       [] OTHER -> members(T, b, unpack_unsigned_int(b, count.at), count.v, d - 2, <<>>)
  IN  IF d < 2 THEN Refused ELSE Rest(unpack_unsigned_int(b, i))

\* Through a mutable object: of entries with the same key one is kept, with the last value.
EntryType == PairOf(Prim("string"), Prim("variant"))
unpack_object(b, i, d) ==
  LET Entries(size) == IF Failure(size) THEN Refused
                       ELSE inTurn(FlattenSeq([n \in 1 .. size.v |-> <<EntryType.a, EntryType.b>>]),
                                   b, size.at, d - 1, <<>>)
      AsObject(es) == Object(merged(<<>>, [n \in 1 .. Len(es) \div 2 |-> <<es[2 * n - 1], es[2 * n]>>]))
  IN  IF d < 1 THEN Refused ELSE Typed(Entries(unpack_unsigned_int(b, i)), AsObject)

unpack_variant(b, i, d) ==
  LET Value(t) ==
        CASE Failure(t) -> Refused
          [] ~Failure(t) /\ t.v = 0 -> Read(Null, t.at)
          [] ~Failure(t) /\ t.v = 1 -> Typed(unpack_word(b, t.at, d - 1), LAMBDA n : Int64(AsSigned(n)))
          [] ~Failure(t) /\ t.v = 2 -> Typed(unpack_word(b, t.at, d - 1), UInt64)
          [] ~Failure(t) /\ t.v = 3 -> Typed(unpack_word(b, t.at, d - 1), LAMBDA n : Double(AsSigned(n)))
          [] ~Failure(t) /\ t.v = 4 -> Typed(unpack_bool(b, t.at, d - 1), Bool)
          [] ~Failure(t) /\ t.v = 5 -> Typed(unpack_string(b, t.at, d - 1), String)
          [] ~Failure(t) /\ t.v = 6 -> Typed(unpack_list(VectorOf(Prim("variant")), b, t.at, d - 1), Array)
          [] ~Failure(t) /\ t.v = 7 -> unpack_object(b, t.at, d - 1)
          [] OTHER -> Refused
  IN  IF d < 1 THEN Refused ELSE Value(unpack_word(b, i, d - 1))

unpack(T, b, i, d) ==
  CASE T.k = "uint64" -> unpack_word(b, i, d)
    [] T.k = "int64" -> Typed(unpack_word(b, i, d), AsSigned)
    [] T.k = "unsigned_int" -> unpack_unsigned_int(b, i)
    [] T.k = "bool" -> unpack_bool(b, i, d)
    [] T.k = "string" -> unpack_string(b, i, d)
    [] T.k = "bytes" -> unpack_bytes(b, i, d)
    [] T.k = "variant" -> unpack_variant(b, i, d)
    [] T.k = "enum" -> unpack_enum(b, i, d)
    [] T.k = "ref" -> IF d < 1 THEN Refused ELSE unpack(T.e, b, i, d - 1)
    [] T.k \in {"vector", "set", "flat_set", "map"} -> unpack_list(T, b, i, d)
    [] T.k = "pair" -> unpack_pair(T, b, i, d)
    [] T.k = "optional" -> unpack_optional(T, b, i, d)
    [] T.k = "struct" -> unpack_struct(T, b, i, d)
    [] T.k = "static_variant" -> unpack_static_variant(T, b, i, d)
    [] T.k = "extension" -> unpack_extension(T, b, i, d)

\* pack and unpack of a whole vector of bytes take a level too; bytes left over are
\* ignored, and no bytes at all are a T().
packed(T, v, d) == IF d < 1 THEN Thrown ELSE pack(T, v, d - 1)
unpacked(T, b, d) == IF d < 1 THEN Thrown ELSE IF b = <<>> THEN Default(T)
                     ELSE unpack(T, b, 1, d - 1).v
=============================================================================
