----------------------------- MODULE UndoDatabase -----------------------------
(***************************************************************************)
(* The object database with its undo history (src/bcx/libbcx/db).          *)
(*                                                                         *)
(* An object id is <<type, n>>.  A store s has the objects, the next id of *)
(* every index, and the undo database: a stack of undo states (the newest  *)
(* last), how many of them belong to active sessions, whether it is        *)
(* disabled and its maximum size.  thrown says that an assertion has       *)
(* failed; whoever catches the exception resets it.                        *)
(***************************************************************************)
EXTENDS Naturals, Sequences, SequencesExt

\* what is needed to go back: the values of objects that were modified or removed, the ids of
\* new ones, and the next ids of the indexes that got some
undo_state == [old_values |-> << >>, new_ids |-> {}, removed |-> << >>, old_index_next_ids |-> << >>]

object_database(objects, next_ids) ==
    [obj |-> objects, next |-> next_ids, stack |-> << >>, active |-> 0, disabled |-> FALSE,
     max |-> 256, thrown |-> FALSE]

\* f without the keys S, and f with g where f is not defined
Without(f, S) == [k \in DOMAIN f \ S |-> f[k]]
Extended(f, g) == [k \in DOMAIN f \cup DOMAIN g |-> IF k \in DOMAIN f THEN f[k] ELSE g[k]]
Only(k, v) == [x \in {k} |-> v]

assert(s, p) == [s EXCEPT !.thrown = @ \/ ~p]
size(s) == Len(s.stack)

-----------------------------------------------------------------------------
(***************************************************************************)
(* What an undo state remembers of a change.                               *)
(***************************************************************************)
created(u, id) ==
    [u EXCEPT !.old_index_next_ids = Extended(@, Only(id[1], id[2])), !.new_ids = @ \cup {id}]

modified(u, id, value) ==
    IF id \in u.new_ids THEN u ELSE [u EXCEPT !.old_values = Extended(@, Only(id, value))]

deleted(u, id, value) ==
    IF id \in u.new_ids THEN [u EXCEPT !.new_ids = @ \ {id}]
    ELSE IF id \in DOMAIN u.old_values
    THEN [u EXCEPT !.removed = Extended(Only(id, u.old_values[id]), @),
                   !.old_values = Without(@, {id})]
    ELSE [u EXCEPT !.removed = Extended(@, Only(id, value))]

\* the newest undo state, and the stack with another one in its place; a change outside of any
\* session gets a state of its own
head(s) == IF s.stack = << >> THEN undo_state ELSE Last(s.stack)
with_head(s, u) ==
    IF s.disabled THEN s
    ELSE [s EXCEPT !.stack = (IF @ = << >> THEN @ ELSE Front(@)) \o <<u>>]

on_create(s, id) == with_head(s, created(head(s), id))
on_modify(s, id) == with_head(s, modified(head(s), id, s.obj[id]))
on_remove(s, id) == with_head(s, deleted(head(s), id, s.obj[id]))

-----------------------------------------------------------------------------
(***************************************************************************)
(* primary_index.                                                          *)
(***************************************************************************)
create(s, type, value) ==
    on_create([s EXCEPT !.obj = Extended(@, Only(<<type, s.next[type]>>, value)), !.next[type] = @ + 1],
              <<type, s.next[type]>>)

modify(s, id, value) ==
    IF id \notin DOMAIN s.obj THEN assert(s, FALSE) ELSE [on_modify(s, id) EXCEPT !.obj[id] = value]

remove(s, id) ==
    IF id \notin DOMAIN s.obj THEN assert(s, FALSE)
    ELSE [on_remove(s, id) EXCEPT !.obj = Without(@, {id})]

-----------------------------------------------------------------------------
(***************************************************************************)
(* Sessions.                                                               *)
(***************************************************************************)
\* The oldest states go when there are more than max of them.  A session of a disabled undo
\* database asserts as soon as it ends
start_undo_session(s, force_enable) ==
    LET kept == IF size(s) > s.max THEN SubSeq(s.stack, size(s) - s.max + 1, size(s)) ELSE s.stack
    IN  IF s.disabled /\ ~force_enable THEN assert(s, FALSE)
        ELSE [s EXCEPT !.stack = Append(kept, undo_state), !.active = @ + 1, !.disabled = FALSE]

\* get_object and insert throw where an object is missing or already there
rewindable(obj, u) ==
    /\ DOMAIN u.old_values \cup u.new_ids \subseteq DOMAIN obj
    /\ DOMAIN u.removed \cap DOMAIN obj \subseteq u.new_ids

rewound(obj, u) == Extended(u.removed, Extended(u.old_values, Without(obj, u.new_ids)))

can_rewind(s) == s.stack # << >> /\ rewindable(s.obj, Last(s.stack))

rewind(s) ==
    LET u == Last(s.stack)
    IN  IF can_rewind(s)
        THEN [s EXCEPT !.obj = rewound(@, u), !.next = Extended(u.old_index_next_ids, @),
                       !.stack = Front(@)]
        ELSE assert(s, FALSE)

\* The session is given up, and the undo database is enabled afterwards.
\* Where the way back throws it stays disabled, and the session active
undo(s) ==
    IF s.disabled \/ s.active = 0 THEN assert(s, FALSE)
    ELSE IF can_rewind(s) THEN [rewind(s) EXCEPT !.active = @ - 1, !.disabled = FALSE]
    ELSE [assert(s, FALSE) EXCEPT !.disabled = TRUE]

\* what the newer state says of an object wins
composed_newest(a, b) ==
    [old_values |-> Without(Extended(b.old_values, a.old_values), DOMAIN b.removed),
     new_ids |-> (a.new_ids \cup b.new_ids) \ DOMAIN b.removed,
     removed |-> Extended(Without(b.removed, a.new_ids), a.removed),
     old_index_next_ids |-> Extended(a.old_index_next_ids, b.old_index_next_ids)]

\* two states as one, a before b
composed(a, b) ==
    LET new == a.new_ids \cup b.new_ids
        old == Extended(a.old_values, Without(b.old_values, a.new_ids))
        gone == DOMAIN b.removed
    IN  [old_values |-> Without(old, gone \ new),
         new_ids |-> new \ gone,
         removed |-> Extended([id \in (gone \ new) \cap DOMAIN old |-> old[id]],
                              Extended(Without(b.removed, new), a.removed)),
         old_index_next_ids |-> Extended(a.old_index_next_ids, b.old_index_next_ids)]

\* the session becomes part of the one around it
merge(s) ==
    IF s.active = 1 /\ size(s) = 1 THEN [s EXCEPT !.stack = << >>, !.active = 0]
    ELSE IF s.active = 0 \/ size(s) < 2 THEN assert(s, FALSE)
    ELSE [s EXCEPT !.stack = Append(SubSeq(@, 1, size(s) - 2), composed(@[size(s) - 1], @[size(s)])),
                   !.active = @ - 1]

commit(s) == IF s.active = 0 THEN assert(s, FALSE) ELSE [s EXCEPT !.active = @ - 1]

\* goes back behind the last committed session
pop_commit(s) ==
    IF s.active > 0 THEN assert(s, FALSE) ELSE [rewind(s) EXCEPT !.disabled = FALSE]

=============================================================================
