------------------------------- MODULE Holders -------------------------------
(***************************************************************************)
(* The three types of fc that construct and destroy their contents by      *)
(* hand: optional and static_variant, which hold a value in their own      *)
(* storage, and variant, which holds a string, an array, an object or a    *)
(* blob by a bare pointer.  Some holders of one kind are constructed,      *)
(* assigned, written through a reference, moved, emptied and destroyed in  *)
(* any order; copying may fail for want of memory.                         *)
(*                                                                         *)
(* A blob is what no case of variant's switches names: clear does not      *)
(* delete it, and a copy has the pointer of the original.  A failed        *)
(* assignment leaves a static_variant with the tag of a value it does not  *)
(* have: it is "torn", and its destructor destroys what is not there.      *)
(*                                                                         *)
(* storage is what has been constructed in a holder and not destroyed, a   *)
(* sequence of at most one value unless something was constructed twice;   *)
(* ptr is variant's pointer, heap what the pointers lead to.               *)
(***************************************************************************)
EXTENDS Integers, Sequences

CONSTANTS Slots,         \* the holders of a program
          Cells,         \* the heap
          PlainValues,   \* values a variant holds itself
          PointedValues, \* values a variant keeps on the heap
          BlobValues     \* blobs, which it keeps on the heap and never deletes

VARIABLES holder_kind,   \* which of the three types the holders are
          holders,
          heap,          \* allocated values
          expected       \* what the program that uses them put there

holder_vars == <<holder_kind, holders, heap, expected>>

HeldValues == PlainValues \cup PointedValues \cup BlobValues

\* What a holder, a cell or a program has instead of a value, and what it has
\* when a destructor runs twice or is of the wrong type.
Marks == {"nothing", "moved", "torn", "free", "twice", "wrong", "type"}

\* "a" and "b" are the values of the default constructors.
ASSUME HoldersAssumption ==
  /\ "a" \in PlainValues /\ "b" \in PointedValues
  /\ PlainValues \cap PointedValues = {} /\ BlobValues \cap (PlainValues \cup PointedValues) = {}
  /\ HeldValues \cap Marks = {}

type_of(v) == IF v \in PlainValues THEN "plain"
              ELSE IF v \in BlobValues THEN "blob" ELSE "pointer"

Fresh == [alive |-> FALSE, tag |-> "empty", storage |-> <<>>, ptr |-> 0]

HoldersInit ==
  /\ holder_kind \in {"optional", "static_variant", "variant"}
  /\ holders = [h \in Slots |-> Fresh]
  /\ heap = [c \in Cells |-> "free"]
  /\ expected = [h \in Slots |-> "nothing"]

\* Placement new and an explicit destructor.
construct(s, v) == [s EXCEPT !.storage = Append(@, v)]

destruct(s) == [s EXCEPT !.storage = IF @ = <<>> THEN <<"twice", "twice">> ELSE Tail(@)]

\* What is left in a value that was moved from.
moved_from(s) == [s EXCEPT !.storage = IF @ = <<>> THEN @ ELSE <<"moved">>]

\* The result of an operation on a holder s, with o the other operand.
Outcome(s, o, cells) == [s |-> s, o |-> o, heap |-> cells]

-----------------------------------------------------------------------------
(* optional: the tag is "valid" or "empty".                                *)

reset(s) == IF s.tag = "valid" THEN [destruct(s) EXCEPT !.tag = "empty"] ELSE s

optional_of(v) == [construct(Fresh, v) EXCEPT !.alive = TRUE, !.tag = "valid"]

optional_copy(o) ==
  [(IF o.tag = "valid" THEN construct(Fresh, o.storage[1]) ELSE Fresh)
     EXCEPT !.alive = TRUE, !.tag = o.tag]

\* operator=( U&& ): the old value goes first.
optional_assign(s, v) == [construct(reset(s), v) EXCEPT !.tag = "valid"]

optional_copy_assign(s, o) ==
  CASE s.tag = "valid" /\ o.tag = "valid" -> [s EXCEPT !.storage = o.storage]
    [] s.tag = "empty" /\ o.tag = "valid" ->
         [construct(s, o.storage[1]) EXCEPT !.tag = "valid"]
    [] OTHER -> reset(s)

\* A move empties the source, except into an empty target.
optional_move_assign(s, o) ==
  CASE s.tag = "valid" /\ o.tag = "valid" ->
         <<[s EXCEPT !.storage = o.storage], reset(o)>>
    [] s.tag = "empty" /\ o.tag = "valid" ->
         <<optional_assign(s, o.storage[1]), moved_from(o)>>
    [] OTHER -> <<reset(s), o>>

-----------------------------------------------------------------------------
(* static_variant: the tag is the type of what the storage holds.          *)

init(s, v) == [construct(s, v) EXCEPT !.tag = type_of(v), !.alive = TRUE]

\* storage_ops::del of the type the tag names.
del(s) == IF s.storage # <<>> /\ s.storage[1] # "moved" /\ type_of(s.storage[1]) # s.tag
          THEN [s EXCEPT !.storage = <<"wrong", "type">>]
          ELSE destruct(s)

static_variant_assign(s, v) == init(del(s), v)

\* The type of the other is visited, a value that was moved from included.
copied_from(s, o) == [construct(s, o.storage[1]) EXCEPT !.tag = o.tag, !.alive = TRUE]

\* The tag is set before the value is constructed, which fails.
torn(s, v) == [del(s) EXCEPT !.tag = type_of(v)]

\* A value of the type the number stands for, built by its default constructor.
default_of(w) == IF w = 0 THEN "a" ELSE "b"

set_which(s, w) == init(del(s), default_of(w))

-----------------------------------------------------------------------------
(* variant: the tag is "null", "plain", "pointer" or "blob".               *)

\* new finds memory.
fits(v, cells) == type_of(v) # "plain" => \E c \in Cells : cells[c] = "free"

copy_fits(o, cells) == o.tag = "pointer" => \E c \in Cells : cells[c] = "free"

room(cells) == CHOOSE c \in Cells : cells[c] = "free"

freed(cells, p) == [cells EXCEPT ![p] = IF @ = "free" THEN "twice" ELSE "free"]

\* clear deletes strings, arrays and objects.
after_clear(s, cells) == IF s.tag = "pointer" THEN freed(cells, s.ptr) ELSE cells

cleared(s) == [s EXCEPT !.tag = "null"]

\* A new value: a pointer to a new cell, or the value itself.
variant_of(s, v, cells) ==
  IF type_of(v) = "plain"
  THEN Outcome([s EXCEPT !.alive = TRUE, !.tag = "plain", !.storage = <<v>>], s, cells)
  ELSE Outcome([s EXCEPT !.alive = TRUE, !.tag = type_of(v), !.ptr = room(cells)], s,
               [cells EXCEPT ![room(cells)] = v])

\* All of the bytes are copied, the pointer with them.
variant_copy_bytes(s, o, cells) == Outcome(o, s, cells)

\* A copy of the string, the array or the object, memcpy for all others.
variant_copy(s, o, cells) ==
  IF o.tag = "pointer" THEN variant_of(s, cells[o.ptr], cells)
  ELSE Outcome(o, s, cells)

\* The bytes move, and the source is null.
variant_move(o) == <<o, [o EXCEPT !.tag = "null"]>>

value_of(s, cells) ==
  CASE holder_kind = "optional" -> IF s.tag = "valid" THEN s.storage[1] ELSE "nothing"
    [] holder_kind = "static_variant" -> s.storage[1]
    [] OTHER -> CASE s.tag \in {"pointer", "blob"} -> cells[s.ptr]
                  [] s.tag = "plain" -> s.storage[1]
                  [] OTHER -> "nothing"

-----------------------------------------------------------------------------
(* The operations, for all three.  A torn holder can only be destroyed,    *)
(* and its place is not used again.                                        *)

living(h) == holders[h].alive /\ expected[h] # "torn"

vacant(h) == ~holders[h].alive /\ expected[h] # "torn"

becomes(h, s) ==
  /\ holders' = [holders EXCEPT ![h] = s]
  /\ UNCHANGED <<holder_kind, heap>>

default_construct(h) ==
  /\ vacant(h)
  /\ becomes(h, CASE holder_kind = "optional" -> [Fresh EXCEPT !.alive = TRUE]
                  [] holder_kind = "static_variant" -> init(Fresh, default_of(0))
                  [] OTHER -> [Fresh EXCEPT !.alive = TRUE, !.tag = "null"])
  /\ expected' = [expected EXCEPT ![h] = IF holder_kind = "static_variant"
                                         THEN default_of(0) ELSE "nothing"]

construct_from(h, v) ==
  /\ vacant(h)
  /\ IF holder_kind = "variant"
     THEN LET r == variant_of(Fresh, v, heap)
          IN /\ fits(v, heap)
             /\ holders' = [holders EXCEPT ![h] = r.s]
             /\ heap' = r.heap
             /\ UNCHANGED holder_kind
     ELSE becomes(h, IF holder_kind = "optional" THEN optional_of(v) ELSE init(Fresh, v))
  /\ expected' = [expected EXCEPT ![h] = v]

copy_construct(h, g) ==
  /\ vacant(h) /\ living(g)
  /\ IF holder_kind = "variant"
     THEN LET r == variant_copy(Fresh, holders[g], heap)
          IN /\ copy_fits(holders[g], heap)
             /\ holders' = [holders EXCEPT ![h] = r.s]
             /\ heap' = r.heap
             /\ UNCHANGED holder_kind
     ELSE becomes(h, IF holder_kind = "optional" THEN optional_copy(holders[g])
                     ELSE copied_from(Fresh, holders[g]))
  /\ expected' = [expected EXCEPT ![h] = expected[g]]

move_construct(h, g) ==
  /\ vacant(h) /\ living(g)
  /\ holders' =
       CASE holder_kind = "optional" ->
              [holders EXCEPT ![h] = optional_copy(holders[g]), ![g] = reset(@)]
         [] holder_kind = "static_variant" ->
              [holders EXCEPT ![h] = copied_from(Fresh, holders[g]), ![g] = moved_from(@)]
         [] OTHER -> [holders EXCEPT ![h] = variant_move(holders[g])[1],
                                     ![g] = variant_move(@)[2]]
  /\ expected' = [expected EXCEPT ![h] = expected[g], ![g] = "moved"]
  /\ UNCHANGED <<holder_kind, heap>>

\* A variant is moved from a new one, which is there before the old value goes:
\* when that fails nothing changes.
assign(h, v) ==
  /\ living(h)
  /\ IF holder_kind = "variant"
     THEN LET r == variant_of(Fresh, v, heap)
          IN /\ fits(v, heap)
             /\ holders' = [holders EXCEPT ![h] = r.s]
             /\ heap' = after_clear(holders[h], r.heap)
             /\ UNCHANGED holder_kind
     ELSE becomes(h, IF holder_kind = "optional" THEN optional_assign(holders[h], v)
                     ELSE static_variant_assign(holders[h], v))
  /\ expected' = [expected EXCEPT ![h] = v]

\* Assignment to itself returns at once.
copy_assign(h, g) ==
  /\ living(h) /\ living(g)
  /\ CASE h = g -> UNCHANGED <<holders, heap, holder_kind>>
       [] h # g /\ holder_kind = "variant" ->
            LET r == variant_copy(cleared(holders[h]), holders[g],
                                  after_clear(holders[h], heap))
            IN /\ copy_fits(holders[g], after_clear(holders[h], heap))
               /\ holders' = [holders EXCEPT ![h] = r.s]
               /\ heap' = r.heap
               /\ UNCHANGED holder_kind
       [] OTHER -> becomes(h, IF holder_kind = "optional"
                              THEN optional_copy_assign(holders[h], holders[g])
                              ELSE copied_from(del(holders[h]), holders[g]))
  /\ expected' = [expected EXCEPT ![h] = expected[g]]

move_assign(h, g) ==
  /\ living(h) /\ living(g) /\ h # g
  /\ holders' =
       CASE holder_kind = "optional" ->
              [holders EXCEPT ![h] = optional_move_assign(@, holders[g])[1],
                              ![g] = optional_move_assign(holders[h], @)[2]]
         [] holder_kind = "static_variant" ->
              [holders EXCEPT ![h] = copied_from(del(@), holders[g]), ![g] = moved_from(@)]
         [] OTHER -> [holders EXCEPT ![h] = variant_move(holders[g])[1],
                                     ![g] = variant_move(@)[2]]
  /\ heap' = IF holder_kind = "variant" THEN after_clear(holders[h], heap) ELSE heap
  /\ expected' = [expected EXCEPT ![h] = expected[g], ![g] = "moved"]
  /\ UNCHANGED holder_kind

\* reset, clear, and set_which for the type that is never empty.
empty(h, w) ==
  /\ living(h)
  /\ holders' = [holders EXCEPT ![h] =
                   CASE holder_kind = "optional" -> reset(@)
                     [] holder_kind = "static_variant" -> set_which(@, w)
                     [] OTHER -> cleared(@)]
  /\ heap' = IF holder_kind = "variant" THEN after_clear(holders[h], heap) ELSE heap
  /\ expected' = [expected EXCEPT ![h] = IF holder_kind = "static_variant"
                                         THEN default_of(w) ELSE "nothing"]
  /\ UNCHANGED holder_kind

\* The new value cannot be had, and the old one is gone already.
assign_throws(h, v) ==
  /\ living(h) /\ holder_kind # "variant"
  /\ becomes(h, IF holder_kind = "optional" THEN reset(holders[h]) ELSE torn(holders[h], v))
  /\ expected' = [expected EXCEPT ![h] = IF holder_kind = "optional" THEN "nothing" ELSE "torn"]

\* A variant is cleared before the other's value is copied.
copy_assign_throws(h, g) ==
  /\ living(h) /\ living(g) /\ holder_kind = "variant" /\ holders[g].tag = "pointer"
  /\ holders' = [holders EXCEPT ![h] = cleared(@)]
  /\ heap' = after_clear(holders[h], heap)
  /\ expected' = [expected EXCEPT ![h] = "nothing"]
  /\ UNCHANGED holder_kind

\* A new value, of the same type, through the reference that get_array, get_object
\* or get_blob returns.
write(h, v) ==
  /\ living(h) /\ holder_kind = "variant"
  /\ holders[h].tag \in {"pointer", "blob"} /\ type_of(v) = holders[h].tag
  /\ heap' = [heap EXCEPT ![holders[h].ptr] = v]
  /\ expected' = [expected EXCEPT ![h] = v]
  /\ UNCHANGED <<holders, holder_kind>>

destroy(h) ==
  /\ holders[h].alive
  /\ holders' = [holders EXCEPT ![h] =
                   [(CASE holder_kind = "optional" -> reset(@)
                       [] holder_kind = "static_variant" -> del(@)
                       [] OTHER -> Fresh) EXCEPT !.alive = FALSE, !.tag = "empty"]]
  /\ heap' = IF holder_kind = "variant" THEN after_clear(holders[h], heap) ELSE heap
  /\ expected' = [expected EXCEPT ![h] = IF @ = "torn" THEN "torn" ELSE "nothing"]
  /\ UNCHANGED holder_kind

HoldersNext ==
  \E h \in Slots :
    \/ default_construct(h) \/ destroy(h)
    \/ \E v \in HeldValues : construct_from(h, v) \/ assign(h, v) \/ assign_throws(h, v) \/ write(h, v)
    \/ \E g \in Slots \ {h} : \/ copy_construct(h, g) \/ copy_assign_throws(h, g)
                               \/ move_construct(h, g) \/ move_assign(h, g)
    \/ \E g \in Slots : copy_assign(h, g)
    \/ \E w \in 0 .. 1 : empty(h, w)

HoldersSpec == HoldersInit /\ [][HoldersNext]_holder_vars

-----------------------------------------------------------------------------
(* Properties.                                                             *)

\* Every value that a holder constructs is destroyed once and no value is
\* destroyed that was not constructed: a holder has a value in its storage
\* exactly when it is to have one, and the cells with a string, an array or an
\* object are exactly those the living variants point at, each at its own, so
\* that writing to one or destroying it does not change another; and every living
\* holder has the value that was put there last, or none when it was moved away.
\* Two things are not so.  A static_variant is torn by an assignment that fails
\* (static_variant.hpp:188), and of it nothing is said.  The blobs of variants are
\* never deleted (variant.cpp:176) and copies share them: a living variant leads to
\* a blob, and not always to the one that was put there.
LifetimesMatched ==
  /\ \A h \in Slots : expected[h] # "torn" =>
       /\ holders[h].alive =>
            \/ value_of(holders[h], heap) = expected[h]
            \/ expected[h] = "moved" /\ value_of(holders[h], heap) = "nothing"
            \/ holder_kind = "variant" /\ {expected[h], value_of(holders[h], heap)} \subseteq BlobValues
       /\ holder_kind # "variant" =>
            /\ Len(holders[h].storage) =
                 IF holders[h].alive /\ (holder_kind = "optional" => holders[h].tag = "valid")
                 THEN 1 ELSE 0
  /\ LET pointing == {h \in Slots : holders[h].alive /\ holders[h].tag = "pointer"}
     IN /\ {c \in Cells : heap[c] \notin BlobValues \cup {"free"}} =
             {holders[h].ptr : h \in IF holder_kind = "variant" THEN pointing ELSE {}}
        /\ holder_kind = "variant" =>
             \A g, h \in pointing : holders[g].ptr = holders[h].ptr => g = h
=============================================================================
