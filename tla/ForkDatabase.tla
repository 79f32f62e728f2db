----------------------------- MODULE ForkDatabase -----------------------------
(***************************************************************************)
(* The fork database and the block database of the chain library           *)
(* (fork_database.cpp, block_database.cpp).                                *)
(*                                                                         *)
(* A block is the sequence of the bodies from the first block to this one, *)
(* which is what its id stands for: previous is its Front and its number   *)
(* its length.  The genesis state has the empty id.                        *)
(***************************************************************************)
EXTENDS Naturals, Sequences, SequencesExt, FiniteSetsExt

NoBlock == << >>
num(b) == Len(b)
previous(b) == Front(b)
MaxOf(x, y) == IF x > y THEN x ELSE y
MinOf(x, y) == IF x < y THEN x ELSE y
Monus(x, y) == MaxOf(x - y, 0)

-----------------------------------------------------------------------------
(***************************************************************************)
(* The fork database.  index has, of every block, whether its weak pointer *)
(* to the previous one is valid; head is the head item or none, which may  *)
(* be another item than the one of its id in the index.                    *)
(***************************************************************************)
fork_item(b, linked) == [id |-> b, linked |-> linked]
fork_database == [index |-> [b \in {} |-> TRUE], head |-> {}, max |-> 1024, thrown |-> FALSE]

fork_head(f) == CHOOSE h \in f.head : TRUE
has_head(f, b) == \E h \in f.head : h.id = b

\* the items S are destroyed, and with them what points to them
fork_erased(f, S) ==
    [f EXCEPT !.index = [b \in DOMAIN @ \ S |-> @[b] /\ previous(b) \notin S],
              !.head = {[h EXCEPT !.linked = @ /\ previous(h.id) \notin S] : h \in @}]

fork_below(f, n) == {b \in DOMAIN f.index : num(b) < n}

fork_set_max_size(f, n) ==
    IF f.head = {} THEN [f EXCEPT !.max = n]
    ELSE fork_erased([f EXCEPT !.max = n], fork_below(f, Monus(num(fork_head(f).id), n)))

fork_pop_block(f) ==
    IF \E h \in f.head : h.linked
    THEN [f EXCEPT !.head = {fork_item(previous(h.id), f.index[previous(h.id)]) : h \in @}]
    ELSE [f EXCEPT !.thrown = TRUE]

fork_start_block(f, b) ==
    [f EXCEPT !.index = [x \in DOMAIN @ \cup {b} |-> IF x \in DOMAIN @ THEN @[x] ELSE FALSE],
              !.head = {fork_item(b, FALSE)}]

\* the new item in the index, as the head if it is higher, in which case old ones go
fork_inserted(f, item) ==
    LET f1 == [f EXCEPT !.index = [x \in DOMAIN @ \cup {item.id} |->
                                      IF x \in DOMAIN @ THEN @[x] ELSE item.linked]]
        f2 == [f1 EXCEPT !.head = {item}]
    IN  IF f.head = {} THEN f2
        ELSE IF num(item.id) <= num(fork_head(f).id) THEN f1
        ELSE fork_erased(f2, fork_below(f2, num(item.id) - MinOf(f.max, num(item.id))))

fork_push_block(f, b) ==
    LET links == previous(b) # NoBlock
    IN  IF f.head = {} THEN fork_inserted(f, fork_item(b, FALSE))
        ELSE IF \/ num(b) <= Monus(num(fork_head(f).id), f.max)
                \/ links /\ previous(b) \notin DOMAIN f.index
        THEN [f EXCEPT !.thrown = TRUE]
        ELSE fork_inserted(f, fork_item(b, links))

\* The block leaves the index; the head goes back with it if it can
fork_remove(f, b) ==
    LET f1 == fork_erased(f, {b} \cap DOMAIN f.index)
    IN  IF ~has_head(f, b) THEN f1
        ELSE IF \E h \in f1.head : h.linked THEN fork_pop_block(f1)
        ELSE [f1 EXCEPT !.head = {}]

fork_set_head(f, b) == [f EXCEPT !.head = {fork_item(b, f.index[b])}]

\* nothing is ever put into the index of unlinked blocks
is_known_block(f, b) == b \in DOMAIN f.index

fetch_block(f, b) == {b} \cap DOMAIN f.index

fetch_blocks_by_number(f, n) == {b \in DOMAIN f.index : num(b) = n}

\* the part of b down to number n, newest first
branch(b, n) == [i \in 1..(num(b) + 1 - n) |-> SubSeq(b, 1, num(b) + 1 - i)]

common(b, c) == Max({n \in 0..MinOf(num(b), num(c)) : SubSeq(b, 1, n) = SubSeq(c, 1, n)})

\* The two branches down to the blocks that have the same previous one.  It walks by the
\* pointers, and throws if one of them is gone
fetch_branch_from(f, b, c) ==
    LET last == MinOf(common(b, c), MinOf(num(b), num(c)) - 1) + 1
        walked == {x \in Range(branch(b, last)) \cup Range(branch(c, last)) : num(x) > last}
    IN  [first |-> branch(b, last), second |-> branch(c, last),
         thrown |-> ~({b, c} \cup walked \subseteq DOMAIN f.index /\ \A x \in walked : f.index[x])]

-----------------------------------------------------------------------------
(***************************************************************************)
(* The block database: the file of the blocks, appended to, and the index  *)
(* file with the position and the id of the block of each number.  Both    *)
(* are written through a buffer that the next seek empties, so that what   *)
(* was written last is not on the disk yet: unsaved says of which file.    *)
(* A position is the number of blocks in front of it.                      *)
(***************************************************************************)
index_entry(pos, b) == [pos |-> pos, id |-> b, empty |-> FALSE]
no_entry == [pos |-> 0, id |-> NoBlock, empty |-> TRUE]
block_database == [blocks |-> << >>, index |-> << >>, before |-> << >>, unsaved |-> FALSE]

\* entries of numbers that were skipped are zeroes
store(bd, b) ==
    LET e == index_entry(Len(bd.blocks), b)
        n == MaxOf(Len(bd.index), num(b))
    IN  [blocks |-> Append(bd.blocks, b),
         index |-> [i \in 1..n |-> IF i = num(b) THEN e
                                   ELSE IF i <= Len(bd.index) THEN bd.index[i] ELSE no_entry],
         before |-> bd.index, unsaved |-> TRUE]

\* the process ends without close: each file may or may not have got what was written last
block_database_crash(bd, lose_block, lose_index) ==
    [bd EXCEPT !.blocks = IF lose_block /\ bd.unsaved THEN Front(@) ELSE @,
               !.index = IF lose_index /\ bd.unsaved THEN bd.before ELSE @,
               !.before = << >>, !.unsaved = FALSE]

block_database_close(bd) == [bd EXCEPT !.before = << >>, !.unsaved = FALSE]

readable(bd, e) == ~e.empty /\ e.pos < Len(bd.blocks) /\ bd.blocks[e.pos + 1] = e.id

fetch_by_number(bd, n) ==
    IF n \in DOMAIN bd.index /\ readable(bd, bd.index[n]) THEN {bd.index[n].id} ELSE {}

\* the three ways to ask for a block by its id or for the id of a number
contains_block(bd, b) ==
  /\ b # NoBlock /\ num(b) \in DOMAIN bd.index
  /\ bd.index[num(b)] = index_entry(bd.index[num(b)].pos, b)

fetch_block_id(bd, n) == IF n \in DOMAIN bd.index /\ bd.index[n].id # NoBlock THEN {bd.index[n].id} ELSE {}

fetch_optional(bd, b) == fetch_by_number(bd, num(b)) \cap {b}

\* the last entry whose block can be read; the index file is cut behind it
last_index_entry(bd) ==
    LET good == {n \in DOMAIN bd.index : readable(bd, bd.index[n])}
    IN  [bd EXCEPT !.index = IF good = {} THEN << >> ELSE SubSeq(@, 1, Max(good))]

block_database_remove(bd, n) ==
    IF n \in DOMAIN bd.index THEN [bd EXCEPT !.index[n].empty = TRUE] ELSE bd

=============================================================================
