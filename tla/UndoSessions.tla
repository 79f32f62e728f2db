---------------------------- MODULE UndoSessions ----------------------------
(***************************************************************************)
(* The undo database in use: objects are created, modified and removed     *)
(* inside and outside of sessions, sessions are opened within each other,  *)
(* undone, merged into the one around them or committed, and committed     *)
(* ones are popped again (src/bcx/libbcx/db/undo_database.cpp).            *)
(*                                                                         *)
(* past is what the objects and the next ids were when the undo states of  *)
(* the stack began; the program does not have it.  The undo database is    *)
(* enabled here: while it is disabled it records nothing.                  *)
(***************************************************************************)
EXTENDS UndoDatabase

CONSTANTS Types,         \* types of objects
          Values,        \* what an object may be
          MaxNext,       \* objects created of one type
          MaxStack       \* undo states on the stack

VARIABLES db, past

undo_vars == <<db, past>>

ASSUME UndoSessionsAssumption == MaxStack \in Nat /\ MaxNext \in Nat

Ids == Types \X Nat
Snapshot == [obj |-> db.obj, next |-> db.next]

UndoInit ==
    /\ db = object_database(<< >>, [t \in Types |-> 0])
    /\ past = << >>

\* the first change outside of any session begins an undo state
Changes(s) ==
    /\ db' = s
    /\ past' = IF db.stack = << >> THEN <<Snapshot>> ELSE past

CreateObject(t, v) == db.next[t] < MaxNext /\ Changes(create(db, t, v))
ModifyObject(id, v) == Changes(modify(db, id, v))
RemoveObject(id) == Changes(remove(db, id))

\* The states that go when the stack is too long belong to no open session: chain::database has
\* one session open at most or raises the maximum before it opens another.
StartSession ==
    /\ size(db) < MaxStack /\ db.active <= db.max
    /\ db' = start_undo_session(db, FALSE)
    /\ past' = Append(IF size(db) > db.max THEN SubSeq(past, size(db) - db.max + 1, size(db))
                      ELSE past, Snapshot)

\* the session is left by an exception, or undone
Undo ==
    /\ db.active > 0
    /\ db' = undo(db)
    /\ past' = Front(past)

Merge ==
    /\ db.active > 0
    /\ db' = merge(db)
    /\ past' = Front(past)

Commit ==
    /\ db.active > 0
    /\ db' = commit(db)
    /\ UNCHANGED past

PopCommit ==
    /\ db.active = 0 /\ db.stack # << >>
    /\ db' = pop_commit(db)
    /\ past' = Front(past)

SetMaxSize(n) ==
    /\ n >= db.active
    /\ db' = [db EXCEPT !.max = n]
    /\ UNCHANGED past

UndoNext ==
    \/ \E t \in Types, v \in Values : CreateObject(t, v)
    \/ \E id \in DOMAIN db.obj : RemoveObject(id) \/ \E v \in Values : ModifyObject(id, v)
    \/ StartSession \/ Undo \/ Merge \/ Commit \/ PopCommit
    \/ \E n \in 1..MaxStack : SetMaxSize(n)

UndoSpec == UndoInit /\ [][UndoNext]_undo_vars

-----------------------------------------------------------------------------
\* Going back never fails, and it restores the objects and the next ids that there were when
\* the newest undo state began: whatever was created, modified and removed since, in that
\* session and in those merged into it, in whatever order.
SessionsUndo ==
    /\ ~db.thrown
    /\ db.stack # << >> =>
         LET s == rewind(db)
         IN  ~s.thrown /\ s.obj = past[Len(past)].obj /\ s.next = past[Len(past)].next

-----------------------------------------------------------------------------
(***************************************************************************)
(* The inductive invariant.                                                *)
(***************************************************************************)
Partial(D, V) == UNION {[S -> V] : S \in SUBSET D}
Objects == Partial(Ids, Values)
NextIds == [Types -> Nat]
Snapshots == [obj : Objects, next : NextIds]
UndoStates == [old_values : Objects, new_ids : SUBSET Ids, removed : Objects,
               old_index_next_ids : Partial(Types, Nat)]

TypeOK ==
    /\ db \in [obj : Objects, next : NextIds, stack : Seq(UndoStates), active : Nat,
               disabled : {FALSE}, max : Nat, thrown : {FALSE}]
    /\ past \in Seq(Snapshots)

\* an object has an id below the next one of its type
Numbered(x) == \A id \in DOMAIN x.obj : id[2] < x.next[id[1]]

\* The undo state u tells how x became y: by the matrix of undo_database::merge every object is
\* new, modified, removed or as it was; no id is used a second time.
Tells(u, x, y) ==
    /\ u.new_ids = DOMAIN y.obj \ DOMAIN x.obj
    /\ \A id \in u.new_ids : x.next[id[1]] <= id[2]
    /\ DOMAIN u.removed = DOMAIN x.obj \ DOMAIN y.obj
    /\ DOMAIN u.old_values \subseteq DOMAIN x.obj \cap DOMAIN y.obj
    /\ \A id \in DOMAIN u.removed : u.removed[id] = x.obj[id]
    /\ \A id \in DOMAIN u.old_values : u.old_values[id] = x.obj[id]
    /\ \A id \in (DOMAIN x.obj \cap DOMAIN y.obj) \ DOMAIN u.old_values : y.obj[id] = x.obj[id]
    /\ \A t \in Types : /\ x.next[t] <= y.next[t]
                        /\ x.next[t] = IF t \in DOMAIN u.old_index_next_ids
                                       THEN u.old_index_next_ids[t] ELSE y.next[t]

\* what the state was when the undo state i + 1 began, or is now
Later(i) == IF i = Len(past) THEN Snapshot ELSE past[i + 1]

Inv ==
    /\ Len(past) = Len(db.stack) /\ db.active <= Len(db.stack)
    /\ Numbered(Snapshot)
    /\ \A i \in 1..Len(past) : Numbered(past[i]) /\ Tells(db.stack[i], past[i], Later(i))
=============================================================================
