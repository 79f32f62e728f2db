------------------------------ MODULE MCCodec -------------------------------
(* The documents and the values of module Codec's runs.                    *)
EXTENDS Codec

\* Numbers on both sides of what is written without quotes, a number with a point, texts
\* with the characters that JSON escapes (one of them so that the parser does not know it
\* again) or that look like its structure, bytes, and nested values.
MCValues ==
  { Null, Int64(-9), UInt64(255), Double(-15), String("a\\\"n,:{"), String("\tnull\f1"), Blob(<<0, 255>>),
    Array(<<UInt64(15), Array(<<>>), String(""), Bool(TRUE), String("]")>>),
    Object(<< <<"k", Object(<<>>)>>, <<"k:", Bool(FALSE)>> >>) }
MCDepths  == 0 .. 9

U == Prim("uint64")
I == Prim("int64")
S == Prim("string")
Account  == StructOf(<< <<"id", U>>, <<"name", S>>, <<"memo", OptionalOf(S)>> >>)
Options  == ExtensionOf(<< <<"x", U>>, <<"y", Account>>, <<"z", I>> >>)
Choice   == OneOf(<<U, S, Account>>)

MCSamples ==
  { <<U, 0>>, <<U, 15>>, <<U, 16>>, <<U, 255>>, <<I, -128>>, <<I, -8>>, <<I, 127>>,
    <<Prim("unsigned_int"), 127>>, <<Prim("unsigned_int"), 128>>, <<Prim("unsigned_int"), 255>>,
    <<Prim("bool"), TRUE>>, <<S, "">>, <<S, "a\"1">>, <<S, "\f~">>,
    <<VectorOf(S), <<"~", "\r\n">> >>,
    <<Prim("bytes"), <<0, 0>> >>, <<Prim("bytes"), <<255, 10>> >>,
    <<Prim("variant"), String("b")>>, <<Prim("variant"), Array(<<UInt64(15), Bool(TRUE)>>)>>,
    <<EnumOf(<<"full", "lite">>), 2>>, <<RefTo(U), 200>>,
    <<VectorOf(U), <<>> >>, <<VectorOf(U), <<9, 9, 200>> >>, <<VectorOf(S), <<"x", "y">> >>,
    <<SetOf(U), <<3, 200>> >>, <<[k |-> "flat_set", e |-> I], <<-1, 5>> >>,
    <<MapOf(U, S), << <<1, "z">>, <<2, "">> >> >>,
    <<OptionalOf(I), <<>> >>, <<OptionalOf(I), <<-1>> >>, <<PairOf(U, Prim("bool")), <<0, FALSE>> >>,
    <<Account, <<7, "bob", <<>> >> >>, <<Account, <<0, "", <<"hi">> >> >>,
    <<Choice, <<1, "m">> >>, <<Choice, <<2, <<1, "n", <<>> >> >> >>,
    <<Options, << <<>>, <<>>, <<>> >> >>, <<Options, << <<4>>, <<>>, <<-4>> >> >>,
    <<Options, << <<>>, << <<5, "al", <<>> >> >>, <<>> >> >>,
    <<VectorOf(Choice), << <<0, 1>>, <<1, "q">> >> >> }
=============================================================================
