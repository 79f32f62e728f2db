------------------------------- MODULE Streams -------------------------------
(***************************************************************************)
(* fc's byte streams: a buffered reader over a stream that delivers as     *)
(* many bytes as it likes, a buffered writer over one that accepts as many *)
(* as it likes, the loops read, write and getline that are built on them,  *)
(* and datastream with its two passes, one that counts and one that writes *)
(* into a buffer of the counted size.                                      *)
(*                                                                         *)
(* minimum_read_size (1024) and the write buffer of flush (2048) are       *)
(* constants; a byte is a number, Newline and Return are two of them.      *)
(***************************************************************************)
EXTENDS Integers, Sequences, SequencesExt

CONSTANTS Inputs,             \* what a source may hold
          minimum_read_size,
          write_buffer_size,
          Blocks,             \* what is written in one call
          MaxWritten,         \* bytes written to a stream
          SizeBits            \* width of the int32_t in datastream::write

ASSUME StreamsAssumption ==
  /\ minimum_read_size \in Nat \ {0}
  /\ write_buffer_size \in Nat \ {0}
  /\ Inputs \subseteq Seq(Nat) /\ Blocks \subseteq Seq(Nat)

VARIABLES input,     \* what the source held at first
          source,    \* what it still holds
          rdbuf,     \* _rdbuf of the buffered_istream
          reading,   \* the operation under way: its kind, length, bytes
          consumed,  \* the bytes that finished operations took
          lines,     \* what getline returned
          sink,      \* what the underlying ostream accepted
          wrbuf,     \* _rdbuf of the buffered_ostream
          output,    \* what was written
          data       \* the datastreams: counted size, buffer, position

stream_vars == <<input, source, rdbuf, reading, consumed, lines, sink, wrbuf,
                 output, data>>

Newline == 10

Return == 13

Idle == [op |-> "idle", len |-> 0, got |-> <<>>]

StreamsInit ==
  /\ input \in Inputs
  /\ source = input
  /\ rdbuf = <<>>
  /\ reading = Idle
  /\ consumed = <<>>
  /\ lines = <<>>
  /\ sink = <<>>
  /\ wrbuf = <<>>
  /\ output = <<>>
  /\ data = [size |-> 0, buf |-> <<>>, end |-> 0, read |-> 0, pass |-> 1,
             blocks |-> <<>>]

-----------------------------------------------------------------------------
(* Input.                                                                  *)

take(s, n) == SubSeq(s, 1, n)

drop(s, n) == SubSeq(s, n + 1, Len(s))

least(a, b) == IF a <= b THEN a ELSE b

\* istream::readsome of a stringstream: some bytes, or eof when there are
\* none; n is how many the source hands over.
some(len) == 1 .. least(len, Len(source))

\* buffered_istream::readsome: what the buffer has, else directly into a
\* large target, else through a temporary one whose surplus is kept.
from_rdbuf(len) ==
  /\ rdbuf # <<>>
  /\ reading' = [reading EXCEPT !.got = @ \o take(rdbuf, least(len, Len(rdbuf)))]
  /\ rdbuf' = drop(rdbuf, least(len, Len(rdbuf)))
  /\ UNCHANGED source

directly(len) ==
  /\ rdbuf = <<>> /\ len > minimum_read_size
  /\ \E n \in some(len) :
       /\ reading' = [reading EXCEPT !.got = @ \o take(source, n)]
       /\ source' = drop(source, n)
  /\ UNCHANGED rdbuf

\* The surplus starts one byte late.
through_tmp_skip(len) ==
  /\ rdbuf = <<>> /\ len <= minimum_read_size
  /\ \E n \in some(minimum_read_size) :
       /\ reading' = [reading EXCEPT !.got = @ \o take(source, least(n, len))]
       /\ rdbuf' = IF n > len THEN drop(take(source, n), len + 1) ELSE rdbuf
       /\ source' = drop(source, n)

through_tmp(len) ==
  /\ rdbuf = <<>> /\ len <= minimum_read_size
  /\ \E n \in some(minimum_read_size) :
       /\ reading' = [reading EXCEPT !.got = @ \o take(source, least(n, len))]
       /\ rdbuf' = IF n > len THEN drop(take(source, n), len) ELSE rdbuf
       /\ source' = drop(source, n)

readsome(len) == from_rdbuf(len) \/ directly(len) \/ through_tmp(len)

\* peek fills the buffer and takes nothing.
peek ==
  /\ reading = Idle
  /\ rdbuf = <<>>
  /\ \E n \in some(minimum_read_size) :
       /\ rdbuf' = take(source, n)
       /\ source' = drop(source, n)
  /\ UNCHANGED <<input, reading, consumed, lines, sink, wrbuf, output, data>>

\* An operation starts: read and get ask for len bytes, getline for a line.
start_reading(op, len) ==
  /\ reading = Idle
  /\ rdbuf \o source # <<>>
  /\ reading' = [op |-> op, len |-> len, got |-> <<>>]
  /\ UNCHANGED <<input, source, rdbuf, consumed, lines, sink, wrbuf, output, data>>

\* The next round of the loop in istream::read.
istream_read ==
  /\ reading.op = "read" /\ Len(reading.got) < reading.len
  /\ readsome(reading.len - Len(reading.got))
  /\ UNCHANGED <<input, consumed, lines, sink, wrbuf, output, data>>

read_returns ==
  /\ reading.op = "read" /\ Len(reading.got) = reading.len
  /\ consumed' = consumed \o reading.got
  /\ reading' = Idle
  /\ UNCHANGED <<input, source, rdbuf, lines, sink, wrbuf, output, data>>

line_ended == reading.got # <<>> /\ Last(reading.got) = Newline

\* What a getline makes of the bytes of a line.
without_returns(s) == SelectSeq(s, LAMBDA c : c # Return)

\* getline reads byte by byte up to the end of the line and drops returns;
\* one byte is never read directly.
getline ==
  /\ reading.op = "getline" /\ ~line_ended
  /\ from_rdbuf(1) \/ through_tmp(1)
  /\ UNCHANGED <<input, consumed, lines, sink, wrbuf, output, data>>

getline_returns ==
  /\ reading.op = "getline" /\ line_ended
  /\ lines' = Append(lines, without_returns(Front(reading.got)))
  /\ consumed' = consumed \o reading.got
  /\ reading' = Idle
  /\ UNCHANGED <<input, source, rdbuf, sink, wrbuf, output, data>>

\* The source has no more: eof_exception, and what the loop had read is gone
\* with it.
eof ==
  /\ reading # Idle
  /\ rdbuf = <<>> /\ source = <<>>
  /\ \/ reading.op = "read" /\ Len(reading.got) < reading.len
     \/ reading.op = "getline" /\ ~line_ended
  /\ consumed' = consumed \o reading.got
  /\ reading' = Idle
  /\ UNCHANGED <<input, source, rdbuf, lines, sink, wrbuf, output, data>>

-----------------------------------------------------------------------------
(* Output.                                                                 *)

\* The streambuf grows as needed, so the first sputn takes everything.
writesome(b) ==
  /\ Len(output) + Len(b) <= MaxWritten
  /\ wrbuf' = wrbuf \o b
  /\ output' = output \o b
  /\ UNCHANGED <<input, source, rdbuf, reading, consumed, lines, sink, data>>

\* One block of flush; ostream::write repeats writesome until it is through.
flush_block ==
  /\ wrbuf # <<>>
  /\ \E n \in 1 .. least(write_buffer_size, Len(wrbuf)) :
       /\ sink' = sink \o take(wrbuf, n)
       /\ wrbuf' = drop(wrbuf, n)
  /\ UNCHANGED <<input, source, rdbuf, reading, consumed, lines, output, data>>

-----------------------------------------------------------------------------
(* datastream.                                                             *)

\* (int32_t)s
as_int(s) == LET m == s % (2 ^ SizeBits)
             IN IF m >= 2 ^ (SizeBits - 1) THEN m - 2 ^ SizeBits ELSE m

\* No block is so long that its length becomes another number.
ASSUME SizesFit == \A b \in Blocks : as_int(Len(b)) = Len(b)

\* datastream<size_t>: the first pass counts.
size_pass(b) ==
  /\ data.pass = 1 /\ data.size + Len(b) <= MaxWritten
  /\ data' = [data EXCEPT !.size = @ + Len(b), !.blocks = Append(@, b)]
  /\ UNCHANGED <<input, source, rdbuf, reading, consumed, lines, sink, wrbuf, output>>

allocate ==
  /\ data.pass = 1
  /\ data' = [data EXCEPT !.pass = 2, !.end = data.size]
  /\ UNCHANGED <<input, source, rdbuf, reading, consumed, lines, sink, wrbuf, output>>

\* datastream<char*>: the second pass writes, here the next of the blocks.
write_pass ==
  /\ data.pass = 2 /\ data.blocks # <<>>
  /\ data' = IF data.end - Len(data.buf) >= as_int(Len(Head(data.blocks)))
             THEN [data EXCEPT !.buf = @ \o Head(data.blocks), !.blocks = Tail(@)]
             ELSE [data EXCEPT !.pass = 4]
  /\ UNCHANGED <<input, source, rdbuf, reading, consumed, lines, sink, wrbuf, output>>

\* Reading from the buffer: bytes come out, or the range error is thrown.
read_pass(n) ==
  /\ data.pass \in {2, 3} /\ data.blocks = <<>>
  /\ data' = IF data.end - data.read >= n
             THEN [data EXCEPT !.pass = 3, !.read = @ + n]
             ELSE [data EXCEPT !.pass = 4]
  /\ UNCHANGED <<input, source, rdbuf, reading, consumed, lines, sink, wrbuf, output>>

-----------------------------------------------------------------------------
ReaderNext ==
  \/ peek \/ istream_read \/ read_returns \/ getline \/ getline_returns \/ eof
  \/ \E len \in 1 .. minimum_read_size + 1 : start_reading("read", len)
  \/ start_reading("getline", 0)

WriterNext == flush_block \/ \E b \in Blocks : writesome(b)

DataNext ==
  \/ allocate \/ write_pass
  \/ \E b \in Blocks : size_pass(b)
  \/ \E n \in 1 .. 2 : read_pass(n)

\* The three have nothing in common, so each is followed by itself.
StreamsNext ==
  \/ ReaderNext /\ output = <<>> /\ data.size = 0
  \/ WriterNext /\ source = input /\ reading = Idle /\ data.size = 0
  \/ DataNext /\ source = input /\ reading = Idle /\ output = <<>>

StreamsSpec == StreamsInit /\ [][StreamsNext]_stream_vars

-----------------------------------------------------------------------------
(* Properties.                                                             *)

\* What a reader of the whole input has for the rest of the line from i on: j ends the line.
RestOfLine(l, i, j) ==
  /\ input[j] = Newline /\ \A k \in i .. j - 1 : input[k] # Newline
  /\ l = without_returns(SubSeq(input, i, j - 1))

BytesKept == consumed \o reading.got \o rdbuf \o source = input

LinesRead == \A l \in ToSet(lines) : \E j \in DOMAIN input : \E i \in 1 .. j : RestOfLine(l, i, j)

DatastreamFits ==
  /\ data.pass \in {2, 3} => Len(data.buf) <= data.end
  /\ data.pass \in {2, 3} /\ data.blocks = <<>> =>
       Len(data.buf) = data.end /\ data.read <= data.end
  /\ data.blocks # <<>> => data.pass # 4

\* However the bytes are cut up on the way, a reader has them all, once and
\* in order: those taken, those of the operation under way, those buffered
\* and those still in the source make up the input; each line getline returned
\* is the rest of a line of the input.  The sink and the write buffer together
\* hold what was written.  A datastream whose size was counted takes every
\* block, ends full, and is never read past its end.
StreamsWhole == BytesKept /\ LinesRead /\ sink \o wrbuf = output /\ DatastreamFits

-----------------------------------------------------------------------------
(* The inductive invariant.                                                *)

StreamsTypeOK ==
  /\ {input, source, rdbuf, consumed, sink, wrbuf, output} \subseteq Seq(Nat)
  /\ reading \in [op : {"idle", "read", "getline"}, len : Nat, got : Seq(Nat)]
  /\ lines \in Seq({without_returns(s) : s \in Seq(Nat)})
  /\ data \in [size : Nat, buf : Seq(Nat), end : Nat, read : Nat, pass : 1 .. 4,
               blocks : Seq(Blocks)]

\* A line under way has no newline but at its end.
LineUnderWay ==
  reading.op = "getline" => \A k \in 1 .. Len(reading.got) - 1 : reading.got[k] # Newline

\* The blocks fill a buffer from some position on up to total: ends tells where each one ends.
Fills(blocks, from, total) ==
  \E ends \in [0 .. Len(blocks) -> Nat] :
    /\ ends[0] = from /\ ends[Len(blocks)] = total
    /\ \A i \in 0 .. Len(blocks) : ends[i] <= total
    /\ \A i \in 1 .. Len(blocks) : ends[i] = ends[i - 1] + Len(blocks[i])

\* The blocks still to be written fill what is left of the buffer.
Counted ==
  /\ data.pass = 1 => Fills(data.blocks, Len(data.buf), data.size) /\ data.read = 0
  /\ data.pass = 2 => Fills(data.blocks, Len(data.buf), data.end) /\ data.read = 0
  /\ data.pass = 3 => data.blocks = <<>> /\ Len(data.buf) = data.end /\ data.read <= data.end
  /\ data.pass = 4 => data.blocks = <<>>
=============================================================================
