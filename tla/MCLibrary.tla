----------------------------- MODULE MCLibrary -----------------------------
(***************************************************************************)
(* The parts of fc and of the object database that have nothing in common  *)
(* but the programs that use them, side by side: a behaviour is one of one *)
(* part, the others rest in an initial state.                              *)
(***************************************************************************)
EXTENDS Words, Utf8, Names, Streams, Rpc, JsonConnection, Holders, Indexes,
        Bloom, RateLimit, Digests, UndoSessions

VARIABLE part

word_vars == <<x, exact, s, amount>>

more_vars == <<bloom_vars, rate_vars, digest_vars, undo_vars>>

\* Two texts with line ends of both kinds: one starts with empty lines.
MCInputs == {<<1, 13, 10, 2, 3>>, <<10, 10, 1, 2, 3, 4>>}

MCBlocks == {<<1>>, <<2, 3>>, <<4, 5, 6>>}

\* Bytes on both sides of every limit of UTF-8, and numbers around every limit of code points.
MCOctets == {65, 128, 144, 159, 191, 193, 194, 224, 237, 240, 244, 245}

MCCodePoints == {0, 127, 128, 2047, 2048, 55295, 55296, 57343, 57344, 65535, 65536,
                 1114111, 1114112}

\* All small numbers, and those around the limits of quarters and halves.
MCOperands == 0 .. 12 \cup {15, 16, 17, 31, 32, 63, 64, 65, 100, 127, 128, 129, 191, 239, 240,
                           241, 254, 255}

MCBeginnings ==
  {[kind |-> "address", tokens |-> t] :
     t \in {<<>>, <<Http, Colon, Slash, Slash>>, <<HTTPS, Colon, Slash, Slash, Word>>}}
  \cup {[kind |-> "id", tokens |-> t] : t \in {<<>>, <<1, Dot, 2>>}}
  \cup {[kind |-> "key", tokens |-> t] : t \in {<<Prefix>>, <<Word>>}}

MCAlphabet ==
  [address |-> {Colon, Slash, At, Question, Hash, Open, Close, Word, Http, Ip, 0, 7, 65543},
   id      |-> {Dot, Colon, Word, 1, 2, 15, 16, 256, 257},
   key     |-> {Word, 0, 1, 2, 3}]

bloom_parameters(m, k, seed) ==
  [min_m |-> m, min_k |-> k, minimum_size |-> 4, maximum_size |-> 8,
   minimum_hashes |-> 2, maximum_hashes |-> 4, seed |-> seed]

\* Two seeds for one size, a size and a number of hashes that are cut down, and parameters that are
\* refused.
MCParameters == {bloom_parameters(5, 2, 1), bloom_parameters(5, 2, 9),
                 bloom_parameters(20, 6, 1), bloom_parameters(1, 1, 0)}

MCSalts == <<10, 5, 3>>

Init ==
  /\ part \in {"words", "utf8", "names", "streams", "rpc", "json", "holders", "indexes",
               "bloom", "rate", "digests", "undo"}
  /\ WordsInit /\ Utf8Init /\ NamesInit /\ StreamsInit
  /\ RpcInit /\ JsonInit /\ HoldersInit /\ IndexesInit /\ BloomInit /\ RateInit
  /\ DigestsInit /\ UndoInit
  /\ part # "streams" => input = <<10, 10, 1, 2, 3, 4>>
  /\ part # "holders" => holder_kind = "variant"
  /\ part # "indexes" => index_kind = "generic"
  /\ part # "bloom" => filter[1].salt_count_ = 4 /\ filter[2].salt_count_ = 4
  /\ part # "digests" => matter = "memo"
  /\ part # "rate" => direction = "read" /\ rate = 2

Next ==
  \/ /\ part = "words" /\ WordsNext
     /\ UNCHANGED <<part, octets, text, stream_vars, rpc_vars, json_vars, holder_vars, index_vars,
                    more_vars>>
  \/ /\ part = "utf8" /\ Utf8Next
     /\ UNCHANGED <<part, word_vars, text, stream_vars, rpc_vars, json_vars, holder_vars, index_vars,
                    more_vars>>
  \/ /\ part = "names" /\ NamesNext
     /\ UNCHANGED <<part, word_vars, octets, stream_vars, rpc_vars, json_vars, holder_vars, index_vars,
                    more_vars>>
  \/ /\ part = "streams" /\ StreamsNext
     /\ UNCHANGED <<part, word_vars, octets, text, rpc_vars, json_vars, holder_vars, index_vars,
                    more_vars>>
  \/ /\ part = "rpc" /\ RpcNext
     /\ UNCHANGED <<part, word_vars, octets, text, stream_vars, json_vars, holder_vars, index_vars,
                    more_vars>>
  \/ /\ part = "json" /\ JsonNext
     /\ UNCHANGED <<part, word_vars, octets, text, stream_vars, rpc_vars, holder_vars, index_vars,
                    more_vars>>
  \/ /\ part = "holders" /\ HoldersNext
     /\ UNCHANGED <<part, word_vars, octets, text, stream_vars, rpc_vars, json_vars, index_vars,
                    more_vars>>
  \/ /\ part = "indexes" /\ IndexesNext
     /\ UNCHANGED <<part, word_vars, octets, text, stream_vars, rpc_vars, json_vars, holder_vars,
                    more_vars>>
  \/ /\ part = "bloom" /\ BloomNext
     /\ UNCHANGED <<part, word_vars, octets, text, stream_vars, rpc_vars, json_vars, holder_vars,
                    index_vars, rate_vars, digest_vars, undo_vars>>
  \/ /\ part = "rate" /\ RateNext
     /\ UNCHANGED <<part, word_vars, octets, text, stream_vars, rpc_vars, json_vars, holder_vars,
                    index_vars, bloom_vars, digest_vars, undo_vars>>
  \/ /\ part = "digests" /\ DigestsNext
     /\ UNCHANGED <<part, word_vars, octets, text, stream_vars, rpc_vars, json_vars, holder_vars,
                    index_vars, bloom_vars, rate_vars, undo_vars>>
  \/ /\ part = "undo" /\ UndoNext
     /\ UNCHANGED <<part, word_vars, octets, text, stream_vars, rpc_vars, json_vars, holder_vars,
                    index_vars, bloom_vars, rate_vars, digest_vars>>

Spec == Init /\ [][Next]_<<part, word_vars, octets, text, stream_vars, rpc_vars, json_vars,
                         holder_vars, index_vars, more_vars>>

-----------------------------------------------------------------------------
\* What is computed, decoded or named is exact: 128-bit numbers and checked amounts are what
\* arithmetic says (Words), a text is accepted if and only if it is valid UTF-8 (Utf8), names are
\* read as they are written (Names), a filter knows its keys (Bloom), what is hashed and signed
\* tells what it was (Digests), and a limited call is listed until it starts, with all that is
\* moved paid for (RateLimit).
ValuesExact ==
  /\ part = "words" => WordsExact
  /\ part = "utf8" => Utf8Exact
  /\ part = "names" => NamesExact
  /\ part = "bloom" => FiltersFind
  /\ part = "digests" => DigestsExact
  /\ part = "rate" => RateHeld
=============================================================================
