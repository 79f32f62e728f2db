------------------------ MODULE ObjectDatabaseProofs ------------------------
(***************************************************************************)
(* Proofs about UndoSessions and Indexes: for any types, values and keys   *)
(* of objects, any number of objects and any nesting of sessions.          *)
(***************************************************************************)
EXTENDS UndoSessions, Indexes, SequenceTheorems, TLAPS

-----------------------------------------------------------------------------
(***************************************************************************)
(* Partial functions, the maps of undo_state.                              *)
(***************************************************************************)

\* A partial function has its domain in D and its values in V.
LEMMA PartialSays ==
    ASSUME NEW D, NEW V, NEW f
    PROVE  f \in Partial(D, V) <=>
             DOMAIN f \subseteq D /\ f \in [DOMAIN f -> V]
  BY DEF Partial

\* The empty map.
LEMMA EmptyMap ==
    ASSUME NEW D, NEW V
    PROVE  << >> \in Partial(D, V) /\ DOMAIN << >> = {}
<1>1. << >> \in [{} -> V] /\ DOMAIN << >> = {}
  OBVIOUS
<1> QED
  BY <1>1 DEF Partial

\* Two maps are equal when they have the same keys and values.
LEMMA SameMap ==
    ASSUME NEW D, NEW V, NEW f \in Partial(D, V), NEW g \in Partial(D, V),
           DOMAIN f = DOMAIN g, \A k \in DOMAIN f : f[k] = g[k]
    PROVE  f = g
<1>1. f \in [DOMAIN f -> V] /\ g \in [DOMAIN f -> V]
  BY PartialSays
<1> QED
  BY <1>1

\* Keys that are taken out.
LEMMA WithoutMap ==
    ASSUME NEW D, NEW V, NEW f \in Partial(D, V), NEW S
    PROVE  Without(f, S) \in Partial(D, V)
<1>1. DOMAIN f \subseteq D /\ f \in [DOMAIN f -> V]
  BY PartialSays
<1>2. Without(f, S) \in [DOMAIN f \ S -> V] /\ DOMAIN f \ S \in SUBSET D
  BY <1>1 DEF Without
<1> QED
  BY <1>2 DEF Partial

\* Keys that are added where there are none.
LEMMA ExtendedMap ==
    ASSUME NEW D, NEW V, NEW f \in Partial(D, V), NEW g \in Partial(D, V)
    PROVE  Extended(f, g) \in Partial(D, V)
<1>1. /\ DOMAIN f \subseteq D /\ f \in [DOMAIN f -> V]
      /\ DOMAIN g \subseteq D /\ g \in [DOMAIN g -> V]
  BY PartialSays
<1>2. Extended(f, g) \in [DOMAIN f \cup DOMAIN g -> V] /\ DOMAIN f \cup DOMAIN g \in SUBSET D
  BY <1>1 DEF Extended
<1> QED
  BY <1>2 DEF Partial

\* One key.
LEMMA OnlyMap ==
    ASSUME NEW D, NEW V, NEW k \in D, NEW v \in V
    PROVE  Only(k, v) \in Partial(D, V)
<1>1. Only(k, v) \in [{k} -> V] /\ {k} \in SUBSET D
  BY DEF Only
<1> QED
  BY <1>1 DEF Partial

-----------------------------------------------------------------------------
(***************************************************************************)
(* What the operations make of an undo state.                              *)
(***************************************************************************)

\* A session that has just begun.
LEMMA TellsNothing ==
    ASSUME NEW x \in Snapshots
    PROVE  undo_state \in UndoStates /\ Tells(undo_state, x, x)
<1>1. undo_state \in UndoStates
  BY EmptyMap DEF undo_state, UndoStates, Objects
<1>2. Tells(undo_state, x, x)
  BY EmptyMap DEF undo_state, Tells, Snapshots, NextIds
<1> QED
  BY <1>1, <1>2

\* Going back by an undo state restores what it tells of: nothing is missing and nothing in
\* the way.
LEMMA TellsRewound ==
    ASSUME NEW u \in UndoStates, NEW x \in Snapshots, NEW y \in Snapshots, Tells(u, x, y)
    PROVE  /\ rewindable(y.obj, u) /\ rewound(y.obj, u) = x.obj
           /\ Extended(u.old_index_next_ids, y.next) = x.next
<1>1. /\ u.old_values \in Objects /\ u.removed \in Objects /\ u.new_ids \subseteq Ids
      /\ u.old_index_next_ids \in Partial(Types, Nat)
      /\ x.obj \in Objects /\ y.obj \in Objects /\ x.next \in NextIds /\ y.next \in NextIds
  BY DEF UndoStates, Snapshots
<1>2. rewindable(y.obj, u)
  BY DEF Tells, rewindable
<1>3. rewound(y.obj, u) = x.obj
  <2> DEFINE kept == Without(y.obj, u.new_ids)
             same == Extended(u.old_values, kept)
  <2> DEFINE back == Extended(u.removed, same)
  <2>1. kept \in Objects /\ same \in Objects /\ back \in Objects
    <3>1. kept \in Objects
      BY <1>1, WithoutMap DEF Objects
    <3>2. same \in Objects
      BY <1>1, <3>1, ExtendedMap DEF Objects
    <3> QED
      BY <1>1, <3>1, <3>2, ExtendedMap DEF Objects
  <2>2. /\ DOMAIN kept = DOMAIN y.obj \ u.new_ids
        /\ \A k \in DOMAIN y.obj \ u.new_ids : kept[k] = y.obj[k]
        /\ DOMAIN same = DOMAIN u.old_values \cup DOMAIN kept
        /\ \A k \in DOMAIN u.old_values \cup DOMAIN kept :
              same[k] = IF k \in DOMAIN u.old_values THEN u.old_values[k] ELSE kept[k]
    BY DEF Without, Extended
  <2>3. /\ DOMAIN back = DOMAIN u.removed \cup DOMAIN same
        /\ \A k \in DOMAIN u.removed \cup DOMAIN same :
              back[k] = IF k \in DOMAIN u.removed THEN u.removed[k] ELSE same[k]
    BY DEF Extended
  <2> HIDE DEF kept, same, back
  <2>4. DOMAIN back = DOMAIN x.obj
    BY <2>2, <2>3 DEF Tells
  <2>5. ASSUME NEW k \in DOMAIN x.obj PROVE back[k] = x.obj[k]
    <3>1. CASE k \in DOMAIN u.removed
      BY <2>3, <3>1 DEF Tells
    <3>2. CASE k \notin DOMAIN u.removed
      <4>1. k \in DOMAIN y.obj /\ k \notin u.new_ids /\ back[k] = same[k]
        BY <2>3, <2>4, <3>2 DEF Tells
      <4>2. CASE k \in DOMAIN u.old_values
        BY <2>2, <4>1, <4>2 DEF Tells
      <4>3. CASE k \notin DOMAIN u.old_values
        BY <2>2, <4>1, <4>3 DEF Tells
      <4> QED
        BY <4>2, <4>3
    <3> QED
      BY <3>1, <3>2
  <2>6. back = x.obj
    BY <1>1, <2>1, <2>4, <2>5, SameMap DEF Objects
  <2> QED
    BY <2>6 DEF rewound, back, same, kept
<1>4. Extended(u.old_index_next_ids, y.next) = x.next
  <2>1. y.next \in Partial(Types, Nat) /\ x.next \in Partial(Types, Nat)
        /\ DOMAIN y.next = Types /\ DOMAIN x.next = Types
    BY <1>1, PartialSays DEF NextIds
  <2> DEFINE e == Extended(u.old_index_next_ids, y.next)
  <2>2. /\ e \in Partial(Types, Nat) /\ DOMAIN e = DOMAIN u.old_index_next_ids \cup Types
        /\ \A t \in DOMAIN u.old_index_next_ids \cup Types :
              e[t] = IF t \in DOMAIN u.old_index_next_ids
                     THEN u.old_index_next_ids[t] ELSE y.next[t]
    <3>1. e \in Partial(Types, Nat)
      BY <1>1, <2>1, ExtendedMap
    <3> QED
      BY <2>1, <3>1 DEF Extended
  <2>3. DOMAIN u.old_index_next_ids \subseteq Types
    BY <1>1, PartialSays
  <2> HIDE DEF e
  <2>4. DOMAIN e = DOMAIN x.next /\ \A t \in DOMAIN e : e[t] = x.next[t]
    BY <2>1, <2>2, <2>3 DEF Tells
  <2>5. e = x.next
    BY <2>1, <2>2, <2>4, SameMap
  <2> QED
    BY <2>5 DEF e
<1> QED
  BY <1>2, <1>3, <1>4

\* An object is created: its id has not been used before, so it is new, and the next id of its
\* type is remembered unless it has been.
LEMMA TellsCreate ==
    ASSUME NEW u \in UndoStates, NEW x \in Snapshots, NEW y \in Snapshots, Tells(u, x, y),
           Numbered(x), Numbered(y), NEW t \in Types, NEW v \in Values, NEW z,
           z = [obj |-> Extended(y.obj, Only(<<t, y.next[t]>>, v)), next |-> [y.next EXCEPT ![t] = @ + 1]]
    PROVE  /\ z \in Snapshots /\ Numbered(z)
           /\ created(u, <<t, y.next[t]>>) \in UndoStates
           /\ Tells(created(u, <<t, y.next[t]>>), x, z)
<1> DEFINE n == y.next[t]
           id == <<t, n>>
           w == created(u, id)
<1>1. /\ u.old_values \in Objects /\ u.removed \in Objects /\ u.new_ids \subseteq Ids
      /\ u.old_index_next_ids \in Partial(Types, Nat)
      /\ x.obj \in Objects /\ y.obj \in Objects /\ x.next \in NextIds /\ y.next \in NextIds
  BY DEF UndoStates, Snapshots
<1>2. n \in Nat /\ id \in Ids /\ id[1] = t /\ id[2] = n
  BY <1>1 DEF NextIds, Ids
<1>3. id \notin DOMAIN x.obj /\ id \notin DOMAIN y.obj
  <2>1. x.next[t] \in Nat /\ x.next[t] <= n
    BY <1>1 DEF Tells, NextIds
  <2> HIDE DEF n, id
  <2> QED
    BY <1>2, <2>1 DEF Numbered, n
<1>4. /\ z.obj \in Objects /\ DOMAIN z.obj = DOMAIN y.obj \cup {id}
      /\ \A k \in DOMAIN y.obj : z.obj[k] = y.obj[k]
  <2>1. Only(id, v) \in Objects
    BY <1>2, OnlyMap DEF Objects
  <2>2. z.obj = Extended(y.obj, Only(id, v))
    OBVIOUS
  <2> HIDE DEF id
  <2>3. z.obj \in Objects
    BY <1>1, <2>1, <2>2, ExtendedMap DEF Objects
  <2> QED
    BY <2>2, <2>3 DEF Extended, Only
<1>5. /\ z.next \in NextIds /\ z.next[t] = n + 1
      /\ \A s \in Types \ {t} : z.next[s] = y.next[s]
  BY <1>1 DEF NextIds
<1>6. z \in Snapshots
  BY <1>4, <1>5 DEF Snapshots
<1>7. Numbered(z)
  <2> SUFFICES ASSUME NEW k \in DOMAIN z.obj
               PROVE  k[2] < z.next[k[1]]
    BY DEF Numbered
  <2> HIDE DEF n, id
  <2>1. CASE k = id
    BY <1>2, <1>5, <2>1
  <2>2. CASE k # id
    <3>1. k \in DOMAIN y.obj /\ k \in Ids
      BY <1>1, <1>4, <2>2, PartialSays DEF Objects
    <3>2. k[1] \in Types /\ k[2] \in Nat /\ k[2] < y.next[k[1]]
      BY <3>1 DEF Numbered, Ids
    <3> QED
      BY <1>1, <1>2, <1>5, <3>2 DEF n, NextIds
  <2> QED
    BY <2>1, <2>2
<1>8. /\ w.old_values = u.old_values /\ w.removed = u.removed /\ w.new_ids = u.new_ids \cup {id}
      /\ w.old_index_next_ids = Extended(u.old_index_next_ids, Only(t, n))
      /\ w \in UndoStates
  <2>1. Only(t, n) \in Partial(Types, Nat)
    BY <1>2, OnlyMap
  <2>2. Extended(u.old_index_next_ids, Only(t, n)) \in Partial(Types, Nat)
    BY <1>1, <2>1, ExtendedMap
  <2>3. w = [u EXCEPT !.old_index_next_ids = Extended(@, Only(t, n)), !.new_ids = @ \cup {id}]
    BY <1>2 DEF created
  <2> HIDE DEF w, n, id
  <2> QED
    BY <1>1, <1>2, <2>2, <2>3 DEF UndoStates
<1>9. Tells(w, x, z)
  <2> HIDE DEF w, n, id
  <2>0. \A k \in w.new_ids : x.next[k[1]] <= k[2]
    <3>1. x.next[t] <= n
      BY DEF Tells, n
    <3> QED
      BY <1>2, <1>8, <3>1 DEF Tells
  <2>1. /\ w.new_ids = DOMAIN z.obj \ DOMAIN x.obj
        /\ DOMAIN w.removed = DOMAIN x.obj \ DOMAIN z.obj
        /\ DOMAIN w.old_values \subseteq DOMAIN x.obj \cap DOMAIN z.obj
    BY <1>3, <1>4, <1>8 DEF Tells
  <2>2. /\ \A k \in DOMAIN w.removed : w.removed[k] = x.obj[k]
        /\ \A k \in DOMAIN w.old_values : w.old_values[k] = x.obj[k]
        /\ \A k \in (DOMAIN x.obj \cap DOMAIN z.obj) \ DOMAIN w.old_values : z.obj[k] = x.obj[k]
    BY <1>3, <1>4, <1>8 DEF Tells
  <2>3. ASSUME NEW s \in Types
        PROVE  /\ x.next[s] <= z.next[s]
               /\ x.next[s] = IF s \in DOMAIN w.old_index_next_ids
                              THEN w.old_index_next_ids[s] ELSE z.next[s]
    <3>1. /\ DOMAIN w.old_index_next_ids = DOMAIN u.old_index_next_ids \cup {t}
          /\ \A r \in DOMAIN u.old_index_next_ids :
                w.old_index_next_ids[r] = u.old_index_next_ids[r]
          /\ t \notin DOMAIN u.old_index_next_ids => w.old_index_next_ids[t] = n
      BY <1>8 DEF Extended, Only
    <3>2. /\ x.next[s] \in Nat /\ y.next[s] \in Nat /\ x.next[s] <= y.next[s]
          /\ x.next[s] = IF s \in DOMAIN u.old_index_next_ids
                         THEN u.old_index_next_ids[s] ELSE y.next[s]
      BY <1>1 DEF Tells, NextIds
    <3> QED
      BY <1>5, <3>1, <3>2 DEF n
  <2> QED
    BY <2>0, <2>1, <2>2, <2>3 DEF Tells
<1> QED
  BY <1>6, <1>7, <1>8, <1>9

\* An object is modified: its value is remembered unless it is new or has been modified before.
LEMMA TellsModify ==
    ASSUME NEW u \in UndoStates, NEW x \in Snapshots, NEW y \in Snapshots, Tells(u, x, y),
           Numbered(y), NEW id \in DOMAIN y.obj, NEW v \in Values, NEW z,
           z = [obj |-> [y.obj EXCEPT ![id] = v], next |-> y.next]
    PROVE  /\ z \in Snapshots /\ Numbered(z)
           /\ modified(u, id, y.obj[id]) \in UndoStates
           /\ Tells(modified(u, id, y.obj[id]), x, z)
<1> DEFINE w == modified(u, id, y.obj[id])
<1>1. /\ u.old_values \in Objects /\ u.removed \in Objects /\ u.new_ids \subseteq Ids
      /\ u.old_index_next_ids \in Partial(Types, Nat)
      /\ x.obj \in Objects /\ y.obj \in Objects /\ x.next \in NextIds /\ y.next \in NextIds
  BY DEF UndoStates, Snapshots
<1>2. /\ DOMAIN y.obj \subseteq Ids /\ y.obj \in [DOMAIN y.obj -> Values]
  BY <1>1, PartialSays DEF Objects
<1>3. /\ DOMAIN z.obj = DOMAIN y.obj /\ z.next = y.next /\ z.obj \in Objects
      /\ \A k \in DOMAIN y.obj \ {id} : z.obj[k] = y.obj[k]
  <2>1. z.obj \in [DOMAIN y.obj -> Values] /\ z.next = y.next
        /\ \A k \in DOMAIN y.obj \ {id} : z.obj[k] = y.obj[k]
    BY <1>2
  <2> QED
    BY <1>2, <2>1, PartialSays DEF Objects
<1>4. z \in Snapshots /\ Numbered(z)
  BY <1>1, <1>3 DEF Snapshots, Numbered
<1>5. w \in UndoStates /\ Tells(w, x, z)
  <2>1. CASE id \in u.new_ids
    <3>1. w = u
      BY <2>1 DEF modified
    <3> HIDE DEF w
    <3> QED
      BY <1>1, <1>3, <2>1, <3>1 DEF Tells
  <2>2. CASE id \notin u.new_ids
    <3>1. Only(id, y.obj[id]) \in Objects
      BY <1>2, OnlyMap DEF Objects
    <3>2. Extended(u.old_values, Only(id, y.obj[id])) \in Objects
      BY <1>1, <3>1, ExtendedMap DEF Objects
    <3>3. w = [u EXCEPT !.old_values = Extended(@, Only(id, y.obj[id]))]
      BY <2>2 DEF modified
    <3> HIDE DEF w
    <3>4. /\ w.old_values = Extended(u.old_values, Only(id, y.obj[id]))
          /\ w.removed = u.removed /\ w.new_ids = u.new_ids
          /\ w.old_index_next_ids = u.old_index_next_ids
          /\ w \in UndoStates
      BY <1>1, <3>2, <3>3 DEF UndoStates
    <3>5. /\ DOMAIN w.old_values = DOMAIN u.old_values \cup {id}
          /\ \A k \in DOMAIN u.old_values : w.old_values[k] = u.old_values[k]
          /\ id \notin DOMAIN u.old_values => w.old_values[id] = y.obj[id]
      BY <3>4 DEF Extended, Only
    <3>6. id \in DOMAIN x.obj
      BY <2>2 DEF Tells
    <3>7. Tells(w, x, z)
      BY <1>1, <1>3, <3>4, <3>5, <3>6 DEF Tells
    <3> QED
      BY <3>4, <3>7
  <2> QED
    BY <2>1, <2>2
<1> QED
  BY <1>4, <1>5

\* An object is removed: a new one is forgotten, of a modified one the older value is kept.
LEMMA TellsRemove ==
    ASSUME NEW u \in UndoStates, NEW x \in Snapshots, NEW y \in Snapshots, Tells(u, x, y),
           Numbered(y), NEW id \in DOMAIN y.obj, NEW z, NEW S, S = {id},
           z = [obj |-> Without(y.obj, S), next |-> y.next]
    PROVE  /\ z \in Snapshots /\ Numbered(z)
           /\ deleted(u, id, y.obj[id]) \in UndoStates
           /\ Tells(deleted(u, id, y.obj[id]), x, z)
<1> DEFINE w == deleted(u, id, y.obj[id])
<1>1. /\ u.old_values \in Objects /\ u.removed \in Objects /\ u.new_ids \subseteq Ids
      /\ u.old_index_next_ids \in Partial(Types, Nat)
      /\ x.obj \in Objects /\ y.obj \in Objects /\ x.next \in NextIds /\ y.next \in NextIds
  BY DEF UndoStates, Snapshots
<1>2. DOMAIN y.obj \subseteq Ids /\ y.obj \in [DOMAIN y.obj -> Values]
  BY <1>1, PartialSays DEF Objects
<1>3. /\ DOMAIN z.obj = DOMAIN y.obj \ {id} /\ z.next = y.next /\ z.obj \in Objects
      /\ \A k \in DOMAIN y.obj \ {id} : z.obj[k] = y.obj[k]
  <2>1. z.obj = Without(y.obj, {id}) /\ z.next = y.next
    OBVIOUS
  <2>2. z.obj \in Objects
    BY <1>1, <2>1, WithoutMap DEF Objects
  <2> QED
    BY <2>1, <2>2 DEF Without
<1>4. z \in Snapshots /\ Numbered(z)
  BY <1>1, <1>3 DEF Snapshots, Numbered
<1>5. w \in UndoStates /\ Tells(w, x, z)
  <2>1. CASE id \in u.new_ids
    <3>1. w = [u EXCEPT !.new_ids = @ \ {id}]
      BY <2>1 DEF deleted
    <3> HIDE DEF w
    <3>2. /\ w.old_values = u.old_values /\ w.removed = u.removed /\ w.new_ids = u.new_ids \ {id}
          /\ w.old_index_next_ids = u.old_index_next_ids
          /\ w \in UndoStates
      BY <1>1, <3>1 DEF UndoStates
    <3>3. Tells(w, x, z)
      <4>1. id \notin DOMAIN x.obj /\ id \notin DOMAIN u.removed
        BY <2>1 DEF Tells
      <4>2. /\ w.new_ids = DOMAIN z.obj \ DOMAIN x.obj
            /\ \A k \in w.new_ids : x.next[k[1]] <= k[2]
            /\ DOMAIN w.removed = DOMAIN x.obj \ DOMAIN z.obj
            /\ DOMAIN w.old_values \subseteq DOMAIN x.obj \cap DOMAIN z.obj
        BY <1>3, <3>2, <4>1 DEF Tells
      <4>3. /\ \A k \in DOMAIN w.removed : w.removed[k] = x.obj[k]
            /\ \A k \in DOMAIN w.old_values : w.old_values[k] = x.obj[k]
            /\ \A k \in (DOMAIN x.obj \cap DOMAIN z.obj) \ DOMAIN w.old_values : z.obj[k] = x.obj[k]
        BY <1>3, <3>2 DEF Tells
      <4> QED
        BY <1>1, <1>3, <3>2, <4>2, <4>3 DEF Tells
    <3> QED
      BY <3>2, <3>3
  <2>2. CASE id \notin u.new_ids /\ id \in DOMAIN u.old_values
    <3>1. w = [u EXCEPT !.removed = Extended(Only(id, u.old_values[id]), @),
                        !.old_values = Without(@, {id})]
      BY <2>2 DEF deleted
    <3>2. u.old_values[id] \in Values
      BY <1>1, <2>2, PartialSays DEF Objects
    <3>3. Only(id, u.old_values[id]) \in Objects
      BY <1>2, <3>2, OnlyMap DEF Objects
    <3>4. Extended(Only(id, u.old_values[id]), u.removed) \in Objects
      BY <1>1, <3>3, ExtendedMap DEF Objects
    <3>5. Without(u.old_values, {id}) \in Objects
      BY <1>1, WithoutMap DEF Objects
    <3> HIDE DEF w
    <3>6. /\ w.old_values = Without(u.old_values, {id})
          /\ w.removed = Extended(Only(id, u.old_values[id]), u.removed)
          /\ w.new_ids = u.new_ids /\ w.old_index_next_ids = u.old_index_next_ids
          /\ w \in UndoStates
      BY <1>1, <3>1, <3>4, <3>5 DEF UndoStates
    <3>7. /\ DOMAIN w.old_values = DOMAIN u.old_values \ {id}
          /\ \A k \in DOMAIN u.old_values \ {id} : w.old_values[k] = u.old_values[k]
          /\ DOMAIN w.removed = DOMAIN u.removed \cup {id} /\ w.removed[id] = u.old_values[id]
          /\ \A k \in DOMAIN u.removed \ {id} : w.removed[k] = u.removed[k]
      BY <3>6 DEF Extended, Without, Only
    <3>8. Tells(w, x, z)
      <4>1. /\ w.new_ids = DOMAIN z.obj \ DOMAIN x.obj
            /\ \A k \in w.new_ids : x.next[k[1]] <= k[2]
            /\ DOMAIN w.removed = DOMAIN x.obj \ DOMAIN z.obj
            /\ DOMAIN w.old_values \subseteq DOMAIN x.obj \cap DOMAIN z.obj
        <5>1. id \in DOMAIN x.obj
          BY <2>2 DEF Tells
        <5>2. w.new_ids = DOMAIN z.obj \ DOMAIN x.obj /\ \A k \in w.new_ids : x.next[k[1]] <= k[2]
          BY <1>3, <3>6, <5>1 DEF Tells
        <5>3. DOMAIN w.removed = DOMAIN x.obj \ DOMAIN z.obj
          BY <1>3, <3>7, <5>1 DEF Tells
        <5>4. DOMAIN w.old_values \subseteq DOMAIN x.obj \cap DOMAIN z.obj
          BY <1>3, <3>7 DEF Tells
        <5> QED
          BY <5>2, <5>3, <5>4
      <4>2. /\ \A k \in DOMAIN w.removed : w.removed[k] = x.obj[k]
            /\ \A k \in DOMAIN w.old_values : w.old_values[k] = x.obj[k]
        BY <1>3, <2>2, <3>6, <3>7 DEF Tells
      <4>3. \A k \in (DOMAIN x.obj \cap DOMAIN z.obj) \ DOMAIN w.old_values : z.obj[k] = x.obj[k]
        BY <1>3, <2>2, <3>6, <3>7 DEF Tells
      <4> QED
        BY <1>1, <1>3, <3>6, <4>1, <4>2, <4>3 DEF Tells
    <3> QED
      BY <3>6, <3>8
  <2>3. CASE id \notin u.new_ids /\ id \notin DOMAIN u.old_values
    <3>1. w = [u EXCEPT !.removed = Extended(@, Only(id, y.obj[id]))]
      BY <2>3 DEF deleted
    <3>2. Only(id, y.obj[id]) \in Objects
      BY <1>2, OnlyMap DEF Objects
    <3>3. Extended(u.removed, Only(id, y.obj[id])) \in Objects
      BY <1>1, <3>2, ExtendedMap DEF Objects
    <3> HIDE DEF w
    <3>4. /\ w.removed = Extended(u.removed, Only(id, y.obj[id])) /\ w.old_values = u.old_values
          /\ w.new_ids = u.new_ids /\ w.old_index_next_ids = u.old_index_next_ids
          /\ w \in UndoStates
      BY <1>1, <3>1, <3>3 DEF UndoStates
    <3>5. id \notin DOMAIN u.removed /\ id \in DOMAIN x.obj /\ y.obj[id] = x.obj[id]
      BY <2>3 DEF Tells
    <3>6. /\ DOMAIN w.removed = DOMAIN u.removed \cup {id} /\ w.removed[id] = y.obj[id]
          /\ \A k \in DOMAIN u.removed : w.removed[k] = u.removed[k]
      BY <3>4, <3>5 DEF Extended, Only
    <3>7. Tells(w, x, z)
      <4>1. /\ w.new_ids = DOMAIN z.obj \ DOMAIN x.obj
            /\ \A k \in w.new_ids : x.next[k[1]] <= k[2]
            /\ DOMAIN w.removed = DOMAIN x.obj \ DOMAIN z.obj
            /\ DOMAIN w.old_values \subseteq DOMAIN x.obj \cap DOMAIN z.obj
        BY <1>3, <2>3, <3>4, <3>5, <3>6 DEF Tells
      <4>2. /\ \A k \in DOMAIN w.removed : w.removed[k] = x.obj[k]
            /\ \A k \in DOMAIN w.old_values : w.old_values[k] = x.obj[k]
        BY <1>3, <2>3, <3>4, <3>5, <3>6 DEF Tells
      <4>3. \A k \in (DOMAIN x.obj \cap DOMAIN z.obj) \ DOMAIN w.old_values : z.obj[k] = x.obj[k]
        BY <1>3, <2>3, <3>4, <3>5, <3>6 DEF Tells
      <4> QED
        BY <1>1, <1>3, <3>4, <4>1, <4>2, <4>3 DEF Tells
    <3> QED
      BY <3>4, <3>7
  <2> QED
    BY <2>1, <2>2, <2>3
<1> QED
  BY <1>4, <1>5

\* A session is merged into the one around it: what the two tell, one after the other, is what
\* their composition tells.  The cases of the matrix that "can't happen" do not.
LEMMA TellsComposed ==
    ASSUME NEW a \in UndoStates, NEW b \in UndoStates, NEW x \in Snapshots, NEW y \in Snapshots,
           NEW z \in Snapshots, Tells(a, x, y), Tells(b, y, z), Numbered(x), Numbered(y)
    PROVE  composed(a, b) \in UndoStates /\ Tells(composed(a, b), x, z)
<1> DEFINE new == a.new_ids \cup b.new_ids
           rest == Without(b.old_values, a.new_ids)
           old == Extended(a.old_values, rest)
           gone == DOMAIN b.removed
           moved == [id \in (gone \ new) \cap DOMAIN old |-> old[id]]
           others == Extended(Without(b.removed, new), a.removed)
           w == composed(a, b)
<1>1. /\ a.old_values \in Objects /\ a.removed \in Objects /\ a.new_ids \subseteq Ids
      /\ a.old_index_next_ids \in Partial(Types, Nat)
      /\ b.old_values \in Objects /\ b.removed \in Objects /\ b.new_ids \subseteq Ids
      /\ b.old_index_next_ids \in Partial(Types, Nat)
      /\ x.obj \in Objects /\ y.obj \in Objects /\ z.obj \in Objects
      /\ x.next \in NextIds /\ y.next \in NextIds /\ z.next \in NextIds
  BY DEF UndoStates, Snapshots
<1>2. rest \in Objects /\ old \in Objects
  <2>1. rest \in Objects
    BY <1>1, WithoutMap DEF Objects
  <2> QED
    BY <1>1, <2>1, ExtendedMap DEF Objects
<1>3. /\ DOMAIN rest = DOMAIN b.old_values \ a.new_ids
      /\ \A k \in DOMAIN rest : rest[k] = b.old_values[k]
      /\ DOMAIN old = DOMAIN a.old_values \cup DOMAIN rest
      /\ \A k \in DOMAIN a.old_values : old[k] = a.old_values[k]
      /\ \A k \in DOMAIN rest \ DOMAIN a.old_values : old[k] = rest[k]
  BY DEF Extended, Without
<1>4. moved \in Objects /\ others \in Objects
  <2>1. DOMAIN old \subseteq Ids /\ old \in [DOMAIN old -> Values]
    BY <1>2, PartialSays DEF Objects
  <2> HIDE DEF old, gone, new
  <2>2. moved \in [DOMAIN moved -> Values] /\ DOMAIN moved \subseteq Ids
    BY <2>1
  <2>3. moved \in Objects
    BY <2>2, PartialSays DEF Objects
  <2>4. Without(b.removed, new) \in Objects
    BY <1>1, WithoutMap DEF Objects
  <2> QED
    BY <1>1, <2>3, <2>4, ExtendedMap DEF Objects
<1>5. /\ w.old_values = Without(old, gone \ new) /\ w.new_ids = new \ gone
      /\ w.removed = Extended(moved, others)
      /\ w.old_index_next_ids = Extended(a.old_index_next_ids, b.old_index_next_ids)
      /\ w = [old_values |-> w.old_values, new_ids |-> w.new_ids, removed |-> w.removed,
              old_index_next_ids |-> w.old_index_next_ids]
  BY DEF composed
<1> HIDE DEF w
<1>6. w \in UndoStates
  <2>1. w.old_values \in Objects
    BY <1>2, <1>5, WithoutMap DEF Objects
  <2>2. w.removed \in Objects
    BY <1>4, <1>5, ExtendedMap DEF Objects
  <2>3. w.old_index_next_ids \in Partial(Types, Nat)
    BY <1>1, <1>5, ExtendedMap
  <2>4. w.new_ids \subseteq Ids
    BY <1>1, <1>5
  <2> QED
    BY <1>5, <2>1, <2>2, <2>3, <2>4 DEF UndoStates
<1>7. /\ DOMAIN moved = (gone \ new) \cap DOMAIN old /\ \A k \in DOMAIN moved : moved[k] = old[k]
      /\ DOMAIN others = (gone \ new) \cup DOMAIN a.removed
      /\ \A k \in gone \ new : others[k] = b.removed[k]
      /\ \A k \in DOMAIN a.removed \ (gone \ new) : others[k] = a.removed[k]
  BY DEF Extended, Without
<1> HIDE DEF old, rest, moved, others
<1>8. /\ DOMAIN w.old_values = DOMAIN old \ (gone \ new)
      /\ \A k \in DOMAIN w.old_values : w.old_values[k] = old[k]
      /\ DOMAIN w.removed = (gone \ new) \cup DOMAIN a.removed
      /\ \A k \in DOMAIN moved : w.removed[k] = moved[k]
      /\ \A k \in DOMAIN others \ DOMAIN moved : w.removed[k] = others[k]
  BY <1>5, <1>7 DEF Extended, Without
\* an id is not used again
<1>9. /\ DOMAIN x.obj \cap DOMAIN z.obj \subseteq DOMAIN y.obj
      /\ \A k \in DOMAIN z.obj \ DOMAIN x.obj : x.next[k[1]] <= k[2]
  <2>1. ASSUME NEW k \in DOMAIN z.obj \ DOMAIN y.obj
        PROVE  k \notin DOMAIN x.obj /\ x.next[k[1]] <= k[2]
    <3>1. k \in Ids
      BY <1>1, PartialSays DEF Objects
    <3>2. /\ k[1] \in Types /\ k[2] \in Nat
          /\ x.next[k[1]] \in Nat /\ y.next[k[1]] \in Nat
      BY <1>1, <3>1 DEF Ids, NextIds
    <3>3. x.next[k[1]] <= y.next[k[1]] /\ y.next[k[1]] <= k[2]
      BY <2>1, <3>2 DEF Tells
    <3> QED
      BY <3>2, <3>3 DEF Numbered
  <2>2. \A k \in DOMAIN y.obj \ DOMAIN x.obj : x.next[k[1]] <= k[2]
    BY DEF Tells
  <2> QED
    BY <2>1, <2>2
<1>10. Tells(w, x, z)
  <2>1. /\ w.new_ids = DOMAIN z.obj \ DOMAIN x.obj
        /\ \A k \in w.new_ids : x.next[k[1]] <= k[2]
    <3>1. w.new_ids = DOMAIN z.obj \ DOMAIN x.obj
      BY <1>5, <1>9 DEF Tells
    <3> QED
      BY <1>9, <3>1
  <2>2. /\ DOMAIN w.removed = DOMAIN x.obj \ DOMAIN z.obj
        /\ DOMAIN w.old_values \subseteq DOMAIN x.obj \cap DOMAIN z.obj
    BY <1>3, <1>8, <1>9 DEF Tells
  <2>3. ASSUME NEW k \in DOMAIN old \ new PROVE old[k] = x.obj[k]
    BY <1>3, <2>3 DEF Tells
  <2>4. ASSUME NEW k \in DOMAIN w.removed PROVE w.removed[k] = x.obj[k]
    <3>1. CASE k \in DOMAIN moved
      BY <1>7, <1>8, <2>3, <3>1
    <3>2. CASE k \notin DOMAIN moved /\ k \in gone \ new
      <4>1. w.removed[k] = b.removed[k] /\ k \notin DOMAIN a.old_values /\ k \in DOMAIN y.obj
        BY <1>3, <1>7, <1>8, <3>2 DEF Tells
      <4> QED
        BY <3>2, <4>1 DEF Tells
    <3>3. CASE k \notin DOMAIN moved /\ k \notin gone \ new
      <4>1. w.removed[k] = a.removed[k] /\ k \in DOMAIN a.removed
        BY <1>7, <1>8, <2>4, <3>3
      <4> QED
        BY <4>1 DEF Tells
    <3> QED
      BY <3>1, <3>2, <3>3
  <2>5. ASSUME NEW k \in DOMAIN w.old_values PROVE w.old_values[k] = x.obj[k]
    <3>1. k \in DOMAIN old \ new
      BY <1>3, <1>8, <2>2 DEF Tells
    <3> QED
      BY <1>8, <2>3, <3>1
  <2>6. ASSUME NEW k \in (DOMAIN x.obj \cap DOMAIN z.obj) \ DOMAIN w.old_values
        PROVE  z.obj[k] = x.obj[k]
    <3>1. k \in DOMAIN y.obj /\ k \notin DOMAIN a.old_values /\ k \notin DOMAIN b.old_values
      BY <1>3, <1>8, <1>9 DEF Tells
    <3> QED
      BY <3>1 DEF Tells
  <2>7. ASSUME NEW s \in Types
        PROVE  /\ x.next[s] <= z.next[s]
               /\ x.next[s] = IF s \in DOMAIN w.old_index_next_ids
                              THEN w.old_index_next_ids[s] ELSE z.next[s]
    <3>1. /\ DOMAIN w.old_index_next_ids = DOMAIN a.old_index_next_ids \cup DOMAIN b.old_index_next_ids
          /\ \A r \in DOMAIN a.old_index_next_ids :
                w.old_index_next_ids[r] = a.old_index_next_ids[r]
          /\ \A r \in DOMAIN b.old_index_next_ids \ DOMAIN a.old_index_next_ids :
                w.old_index_next_ids[r] = b.old_index_next_ids[r]
      BY <1>5 DEF Extended
    <3>2. /\ x.next[s] \in Nat /\ y.next[s] \in Nat /\ z.next[s] \in Nat
          /\ x.next[s] <= y.next[s] /\ y.next[s] <= z.next[s]
          /\ x.next[s] = IF s \in DOMAIN a.old_index_next_ids
                         THEN a.old_index_next_ids[s] ELSE y.next[s]
          /\ y.next[s] = IF s \in DOMAIN b.old_index_next_ids
                         THEN b.old_index_next_ids[s] ELSE z.next[s]
      BY <1>1 DEF Tells, NextIds
    <3> QED
      BY <3>1, <3>2
  <2> QED
    BY <2>1, <2>2, <2>4, <2>5, <2>6, <2>7 DEF Tells
<1> QED
  BY <1>6, <1>10 DEF w

-----------------------------------------------------------------------------
(***************************************************************************)
(* The invariant.                                                          *)
(***************************************************************************)

\* What the database keeps, by itself.
LEMMA DbTypes ==
    ASSUME TypeOK
    PROVE  /\ db.obj \in Objects /\ db.next \in NextIds /\ db.stack \in Seq(UndoStates)
           /\ db.active \in Nat /\ db.max \in Nat /\ ~db.disabled /\ ~db.thrown
           /\ past \in Seq(Snapshots) /\ Snapshot \in Snapshots
           /\ Snapshot.obj = db.obj /\ Snapshot.next = db.next
<1>1. /\ db.obj \in Objects /\ db.next \in NextIds /\ db.stack \in Seq(UndoStates)
      /\ db.active \in Nat /\ db.max \in Nat /\ ~db.disabled /\ ~db.thrown
      /\ past \in Seq(Snapshots)
  BY DEF TypeOK
<1>2. Snapshot.obj = db.obj /\ Snapshot.next = db.next
  BY DEF Snapshot
<1>3. Snapshot \in Snapshots
  BY <1>1 DEF Snapshot, Snapshots
<1> QED
  BY <1>1, <1>2, <1>3

\* Where the newest undo state begins: at the present if there is none.
Base == IF db.stack = << >> THEN Snapshot ELSE past[Len(past)]

\* The newest undo state tells how the present came of where it begins.
LEMMA HeadTells ==
    ASSUME TypeOK, Inv
    PROVE  /\ head(db) \in UndoStates /\ Base \in Snapshots
           /\ Numbered(Base) /\ Numbered(Snapshot) /\ Tells(head(db), Base, Snapshot)
<1>1. CASE db.stack = << >>
  <2>1. head(db) = undo_state /\ Base = Snapshot
    BY <1>1 DEF head, Base
  <2> QED
    BY <2>1, DbTypes, TellsNothing DEF Inv
<1>2. CASE db.stack # << >>
  <2>1. db.stack \in Seq(UndoStates) /\ past \in Seq(Snapshots) /\ Len(past) = Len(db.stack)
    BY DbTypes DEF Inv
  <2>2. Len(past) \in 1..Len(past) /\ Len(past) \in Nat
    BY <1>2, <2>1
  <2>3. head(db) = db.stack[Len(past)] /\ Base = past[Len(past)] /\ Later(Len(past)) = Snapshot
    BY <1>2, <2>1 DEF head, Base, Later, Last
  <2>4. head(db) \in UndoStates /\ Base \in Snapshots
    BY <2>1, <2>2, <2>3, ElementOfSeq
  <2>5. Numbered(Base) /\ Tells(head(db), Base, Snapshot) /\ Numbered(Snapshot)
    BY <2>2, <2>3 DEF Inv
  <2> QED
    BY <2>4, <2>5
<1> QED
  BY <1>1, <1>2

\* A change that the newest undo state tells of.
LEMMA ChangeStep ==
    ASSUME TypeOK, Inv, NEW u \in UndoStates, NEW z \in Snapshots, Numbered(z), Tells(u, Base, z),
           NEW s, s = [db EXCEPT !.obj = z.obj, !.next = z.next,
                                 !.stack = (IF @ = << >> THEN @ ELSE Front(@)) \o <<u>>],
           Changes(s)
    PROVE  TypeOK' /\ Inv'
<1> DEFINE n == Len(past)
<1>1. /\ db.stack \in Seq(UndoStates) /\ past \in Seq(Snapshots) /\ Len(past) = Len(db.stack)
      /\ n \in Nat /\ db.active \in Nat /\ db.active <= n
  BY DbTypes DEF Inv
<1>2. z.obj \in Objects /\ z.next \in NextIds /\ z = [obj |-> z.obj, next |-> z.next]
  BY DEF Snapshots
<1>3. db' = s
  BY DEF Changes
<1>4. ASSUME NEW q, NEW p, q \in Seq(UndoStates), p \in Seq(Snapshots),
             db'.stack = q, past' = p, Len(p) = Len(q), db.active <= Len(q),
             Len(p) > 0, q[Len(p)] = u, p[Len(p)] = Base,
             \A i \in 1..Len(p) - 1 : i < n /\ q[i] = db.stack[i] /\ p[i] = past[i] /\ p[i + 1] = past[i + 1]
      PROVE  TypeOK' /\ Inv'
  <2>1. TypeOK'
    <3>1. db' = [db EXCEPT !.obj = z.obj, !.next = z.next, !.stack = q]
      BY <1>3, <1>4 DEF TypeOK
    <3> QED
      BY <1>2, <1>4, <3>1 DEF TypeOK
  <2>2. Snapshot' = z
    BY <1>2, <1>3 DEF Snapshot, TypeOK
  <2>3. db'.active = db.active
    BY <1>3 DEF TypeOK
  <2>4. ASSUME NEW i \in 1..Len(p)
        PROVE  Numbered(p[i]) /\ Tells(q[i], p[i], Later(i)')
    <3>1. CASE i = Len(p)
      <4>1. Later(i)' = z
        BY <1>4, <2>2, <3>1 DEF Later
      <4>2. Numbered(Base)
        BY HeadTells
      <4> QED
        BY <1>4, <3>1, <4>1, <4>2
    <3>2. CASE i # Len(p)
      <4>1. i \in 1..Len(p) - 1 /\ i # Len(p)
        BY <1>4, <3>2
      <4>2. i < n /\ q[i] = db.stack[i] /\ p[i] = past[i] /\ p[i + 1] = past[i + 1]
        BY <1>4, <4>1
      <4>3. Later(i)' = past[i + 1] /\ Later(i) = past[i + 1] /\ i \in 1..n
        BY <1>1, <1>4, <4>1, <4>2 DEF Later
      <4>4. Numbered(past[i]) /\ Tells(db.stack[i], past[i], Later(i))
        BY <4>3 DEF Inv
      <4> QED
        BY <4>2, <4>3, <4>4
    <3> QED
      BY <3>1, <3>2
  <2> QED
    BY <1>4, <2>1, <2>2, <2>3, <2>4 DEF Inv
<1>5. CASE db.stack = << >>
  <2>1. db'.stack = <<u>> /\ past' = <<Snapshot>> /\ Base = Snapshot /\ n = 0
    <3>1. db'.stack = << >> \o <<u>>
      BY <1>3, <1>5 DEF TypeOK
    <3>2. << >> \o <<u>> = <<u>>
      OBVIOUS
    <3> QED
      BY <1>1, <1>5, <3>1, <3>2 DEF Changes, Base
  <2>2. Snapshot \in Snapshots
    BY DbTypes
  <2> HIDE DEF n
  <2> DEFINE q == <<u>>
             p == <<Snapshot>>
  <2>3. /\ q \in Seq(UndoStates) /\ p \in Seq(Snapshots)
        /\ Len(q) = 1 /\ Len(p) = 1 /\ q[1] = u /\ p[1] = Snapshot
        /\ db'.stack = q /\ past' = p
    BY <2>1, <2>2
  <2> HIDE DEF p, q
  <2>4. \A i \in 1..Len(p) - 1 :
           i < n /\ q[i] = db.stack[i] /\ p[i] = past[i] /\ p[i + 1] = past[i + 1]
    BY <2>3
  <2>5. db.active <= 1
    BY <1>1, <2>1
  <2>6. /\ Len(p) = Len(q) /\ db.active <= Len(q) /\ Len(p) > 0
        /\ q[Len(p)] = u /\ p[Len(p)] = Base
    BY <2>1, <2>3, <2>5
  <2> QED
    BY <1>4, <2>3, <2>4, <2>6, Zenon
<1>6. CASE db.stack # << >>
  <2> DEFINE q == Front(db.stack) \o <<u>>
  <2>1. db'.stack = q /\ past' = past /\ Base = past[n]
    BY <1>3, <1>6 DEF TypeOK, Changes, Base
  <2>2. n > 0
    BY <1>1, <1>6
  <2>3. /\ Front(db.stack) \in Seq(UndoStates) /\ Len(Front(db.stack)) = n - 1
        /\ \A i \in 1..n - 1 : Front(db.stack)[i] = db.stack[i]
    BY <1>1, <2>2 DEF Front
  <2>4. /\ q \in Seq(UndoStates) /\ Len(q) = n /\ q[n] = u
        /\ \A i \in 1..n - 1 : q[i] = db.stack[i]
    <3> HIDE DEF n
    <3> QED
      BY <1>1, <2>2, <2>3
  <2> HIDE DEF q
  <2> QED
    BY <1>1, <1>4, <2>1, <2>2, <2>4
<1> QED
  BY <1>5, <1>6

\* The operations on objects.
LEMMA CreateStep ==
    ASSUME TypeOK, Inv, NEW t \in Types, NEW v \in Values, CreateObject(t, v)
    PROVE  TypeOK' /\ Inv'
<1> DEFINE id == <<t, db.next[t]>>
           z == [obj |-> Extended(db.obj, Only(id, v)), next |-> [db.next EXCEPT ![t] = @ + 1]]
           u == created(head(db), id)
           d == [db EXCEPT !.obj = z.obj, !.next = z.next]
           s == [db EXCEPT !.obj = z.obj, !.next = z.next,
                           !.stack = (IF @ = << >> THEN @ ELSE Front(@)) \o <<u>>]
<1>1. Snapshot.obj = db.obj /\ Snapshot.next = db.next /\ Snapshot \in Snapshots
  BY DbTypes
<1>2. z \in Snapshots /\ Numbered(z) /\ u \in UndoStates /\ Tells(u, Base, z)
  BY <1>1, HeadTells, TellsCreate
<1>3. d.stack = db.stack /\ d.disabled = FALSE /\ head(d) = head(db)
  BY DEF TypeOK, head
<1>4. create(db, t, v) = with_head(d, u)
  <2>1. d = [db EXCEPT !.obj = Extended(@, Only(id, v)), !.next[t] = @ + 1]
    BY DEF TypeOK
  <2> HIDE DEF id, d, z
  <2> QED
    BY <1>3, <2>1 DEF create, on_create, id
<1>5. with_head(d, u) = s
  <2> HIDE DEF u, z
  <2> QED
    BY <1>3 DEF with_head, TypeOK
<1>6. Changes(s)
  BY <1>4, <1>5 DEF CreateObject
<1> HIDE DEF u, z
<1> QED
  BY <1>2, <1>6, ChangeStep

LEMMA ModifyStep ==
    ASSUME TypeOK, Inv, NEW id \in DOMAIN db.obj, NEW v \in Values, ModifyObject(id, v)
    PROVE  TypeOK' /\ Inv'
<1> DEFINE z == [obj |-> [db.obj EXCEPT ![id] = v], next |-> db.next]
           u == modified(head(db), id, db.obj[id])
           s == [db EXCEPT !.obj = z.obj, !.next = z.next,
                           !.stack = (IF @ = << >> THEN @ ELSE Front(@)) \o <<u>>]
<1>1. Snapshot.obj = db.obj /\ Snapshot.next = db.next /\ Snapshot \in Snapshots
  BY DbTypes
<1>2. z \in Snapshots /\ Numbered(z) /\ u \in UndoStates /\ Tells(u, Base, z)
  BY <1>1, HeadTells, TellsModify
<1>3. modify(db, id, v) = [on_modify(db, id) EXCEPT !.obj[id] = v]
  BY DEF modify
<1>4. on_modify(db, id) = [db EXCEPT !.stack = (IF @ = << >> THEN @ ELSE Front(@)) \o <<u>>]
  BY DEF on_modify, with_head, TypeOK
<1>5. modify(db, id, v) = s
  <2> HIDE DEF u
  <2> QED
    BY <1>3, <1>4 DEF TypeOK
<1>6. Changes(s)
  BY <1>5 DEF ModifyObject
<1> HIDE DEF u, z
<1> QED
  BY <1>2, <1>6, ChangeStep

LEMMA RemoveStep ==
    ASSUME TypeOK, Inv, NEW id \in DOMAIN db.obj, RemoveObject(id)
    PROVE  TypeOK' /\ Inv'
<1> DEFINE S == {id}
           z == [obj |-> Without(db.obj, S), next |-> db.next]
           u == deleted(head(db), id, db.obj[id])
           s == [db EXCEPT !.obj = z.obj, !.next = z.next,
                           !.stack = (IF @ = << >> THEN @ ELSE Front(@)) \o <<u>>]
<1>1. Snapshot.obj = db.obj /\ Snapshot.next = db.next /\ Snapshot \in Snapshots
  BY DbTypes
<1>2. z \in Snapshots /\ Numbered(z) /\ u \in UndoStates /\ Tells(u, Base, z)
  <2>1. /\ head(db) \in UndoStates /\ Base \in Snapshots /\ Numbered(Snapshot)
        /\ Tells(head(db), Base, Snapshot)
    BY HeadTells
  <2>2. /\ id \in DOMAIN Snapshot.obj
        /\ z = [obj |-> Without(Snapshot.obj, S), next |-> Snapshot.next]
        /\ u = deleted(head(db), id, Snapshot.obj[id])
    BY <1>1
  <2>3. S = {id}
    OBVIOUS
  <2> HIDE DEF z, u, S
  <2>4. /\ z \in Snapshots /\ Numbered(z)
        /\ deleted(head(db), id, Snapshot.obj[id]) \in UndoStates
        /\ Tells(deleted(head(db), id, Snapshot.obj[id]), Base, z)
    BY <1>1, <2>3, <2>1, <2>2, TellsRemove
  <2> QED
    BY <2>2, <2>4
<1>3. remove(db, id) = [on_remove(db, id) EXCEPT !.obj = Without(@, {id})]
  BY DEF remove
<1>4. on_remove(db, id) = [db EXCEPT !.stack = (IF @ = << >> THEN @ ELSE Front(@)) \o <<u>>]
  BY DEF on_remove, with_head, TypeOK
<1>5. remove(db, id) = s
  <2> HIDE DEF u
  <2> QED
    BY <1>3, <1>4 DEF TypeOK
<1>6. Changes(s)
  BY <1>5 DEF RemoveObject
<1> HIDE DEF u, z
<1> QED
  BY <1>2, <1>6, ChangeStep

\* Going back by the newest undo state: it is possible, and the state is what it was.
LEMMA RewindForm ==
    ASSUME TypeOK, Inv, db.stack # << >>
    PROVE  /\ Len(past) \in Nat \ {0} /\ past[Len(past)] \in Snapshots
           /\ can_rewind(db)
           /\ rewind(db) = [db EXCEPT !.obj = past[Len(past)].obj, !.next = past[Len(past)].next,
                                      !.stack = Front(@)]
<1> DEFINE n == Len(past)
           u == Last(db.stack)
<1>1. /\ db.stack \in Seq(UndoStates) /\ past \in Seq(Snapshots) /\ n = Len(db.stack)
      /\ n \in Nat \ {0} /\ Snapshot \in Snapshots
      /\ Snapshot.obj = db.obj /\ Snapshot.next = db.next
  BY DbTypes DEF Inv
<1>2. head(db) = u /\ Base = past[n]
  BY DEF head, Base
<1>3. u \in UndoStates /\ past[n] \in Snapshots /\ Tells(u, past[n], Snapshot)
  BY <1>2, HeadTells
<1> HIDE DEF u, n
<1>4. /\ rewindable(db.obj, u) /\ rewound(db.obj, u) = past[n].obj
      /\ Extended(u.old_index_next_ids, db.next) = past[n].next
  BY <1>1, <1>3, TellsRewound
<1>5. rewind(db) = [db EXCEPT !.obj = rewound(@, u), !.next = Extended(u.old_index_next_ids, @),
                              !.stack = Front(@)]
  BY <1>4 DEF rewind, can_rewind, u
<1>6. rewind(db) = [db EXCEPT !.obj = past[n].obj, !.next = past[n].next, !.stack = Front(@)]
  BY <1>4, <1>5 DEF TypeOK
<1>7. can_rewind(db)
  BY <1>4 DEF can_rewind, u
<1> QED
  BY <1>1, <1>3, <1>6, <1>7 DEF n

\* The newest undo state goes, and the state is what it was when it began.
LEMMA BackStep ==
    ASSUME TypeOK, Inv, db.stack # << >>, past' = Front(past),
           NEW k \in Nat, k <= Len(past) - 1,
           db' = [db EXCEPT !.obj = past[Len(past)].obj, !.next = past[Len(past)].next,
                            !.stack = Front(@), !.active = k, !.disabled = FALSE]
    PROVE  TypeOK' /\ Inv'
<1> DEFINE n == Len(past)
<1>1. /\ db.stack \in Seq(UndoStates) /\ past \in Seq(Snapshots) /\ n = Len(db.stack)
  BY DbTypes DEF Inv
<1>2. n \in Nat \ {0} /\ past[n] \in Snapshots
  BY RewindForm
<1> HIDE DEF n
<1>3. /\ Front(db.stack) \in Seq(UndoStates) /\ Len(Front(db.stack)) = n - 1
      /\ \A i \in 1..n - 1 : Front(db.stack)[i] = db.stack[i]
  BY <1>1, <1>2 DEF Front
<1>4. /\ Front(past) \in Seq(Snapshots) /\ Len(Front(past)) = n - 1
      /\ \A i \in 1..n - 1 : Front(past)[i] = past[i]
  BY <1>1, <1>2 DEF Front, n
<1>5. past[n].obj \in Objects /\ past[n].next \in NextIds
      /\ past[n] = [obj |-> past[n].obj, next |-> past[n].next]
  BY <1>2 DEF Snapshots
<1>6. TypeOK'
  <2>1. db' = [db EXCEPT !.obj = past[n].obj, !.next = past[n].next,
                         !.stack = Front(db.stack), !.active = k, !.disabled = FALSE]
    BY DEF TypeOK, n
  <2> QED
    BY <1>3, <1>4, <1>5, <2>1 DEF TypeOK
<1>7. Snapshot' = past[n] /\ db'.stack = Front(db.stack) /\ db'.active = k
  BY <1>5 DEF Snapshot, TypeOK, n
<1>8. Numbered(past[n])
  BY <1>2 DEF Inv, n
<1>9. ASSUME NEW i \in 1..n - 1
      PROVE  Numbered(past'[i]) /\ Tells(db'.stack[i], past'[i], Later(i)')
  <2>1. i \in 1..n /\ i # n /\ past'[i] = past[i] /\ db'.stack[i] = db.stack[i]
    BY <1>2, <1>3, <1>4, <1>7
  <2>2. Later(i)' = past[i + 1]
    <3>1. CASE i = n - 1
      BY <1>2, <1>4, <1>7, <3>1 DEF Later
    <3>2. CASE i # n - 1
      BY <1>2, <1>4, <3>2 DEF Later
    <3> QED
      BY <3>1, <3>2
  <2>3. Later(i) = past[i + 1]
    BY <1>2, <2>1 DEF Later, n
  <2>4. Numbered(past[i]) /\ Tells(db.stack[i], past[i], Later(i))
    BY <2>1 DEF Inv, n
  <2> QED
    BY <2>1, <2>2, <2>3, <2>4
<1> QED
  BY <1>3, <1>4, <1>6, <1>7, <1>8, <1>9 DEF Inv, n

\* One more at the end of a sequence.
LEMMA Appended ==
    ASSUME NEW S, NEW s \in Seq(S), NEW e \in S
    PROVE  /\ Append(s, e) \in Seq(S) /\ Len(Append(s, e)) = Len(s) + 1
           /\ Append(s, e)[Len(s) + 1] = e
           /\ \A i \in 1..Len(s) : Append(s, e)[i] = s[i]
  BY AppendProperties

\* A session begins; the oldest undo states may go.
LEMMA StartStep ==
    ASSUME TypeOK, Inv, StartSession
    PROVE  TypeOK' /\ Inv'
<1> DEFINE n == Len(past)
           g == IF n > db.max THEN n - db.max ELSE 0
           kept == IF n > db.max THEN SubSeq(db.stack, n - db.max + 1, n) ELSE db.stack
           left == IF n > db.max THEN SubSeq(past, n - db.max + 1, n) ELSE past
<1>1. /\ db.stack \in Seq(UndoStates) /\ past \in Seq(Snapshots) /\ n = Len(db.stack)
      /\ n \in Nat /\ db.max \in Nat /\ db.active \in Nat /\ db.active <= n
      /\ ~db.disabled /\ Snapshot \in Snapshots
  BY DbTypes DEF Inv
<1>2. db.active <= db.max
  BY DEF StartSession
<1>3. /\ db' = [db EXCEPT !.stack = Append(kept, undo_state), !.active = @ + 1, !.disabled = FALSE]
      /\ past' = Append(left, Snapshot)
  BY <1>1 DEF StartSession, start_undo_session, size
<1>4. g \in 0..n /\ db.active <= n - g
  BY <1>1, <1>2
<1>5. /\ kept \in Seq(UndoStates) /\ Len(kept) = n - g
      /\ \A i \in 1..n - g : kept[i] = db.stack[g + i]
  <2>1. CASE n > db.max
    <3> DEFINE q == db.stack
    <3>1. g = n - db.max /\ kept = SubSeq(q, g + 1, n)
      BY <2>1
    <3>2. q \in Seq(UndoStates) /\ Len(q) = n /\ n \in Nat
      BY <1>1
    <3> HIDE DEF g, kept, q, n
    <3>3. kept \in Seq(UndoStates) /\ Len(kept) = n - g /\ \A i \in 1..n - g : kept[i] = q[g + i]
      <4>1. \A i \in g + 1..n : q[i] \in UndoStates
        BY <1>4, <3>2, ElementOfSeq
      <4>2. g + 1 \in Int /\ n \in Int /\ n - (g + 1) + 1 = n - g
        BY <1>4, <3>2
      <4>3. /\ SubSeq(q, g + 1, n) \in Seq(UndoStates)
            /\ Len(SubSeq(q, g + 1, n)) = IF g + 1 <= n THEN n - (g + 1) + 1 ELSE 0
            /\ \A i \in 1..n - (g + 1) + 1 : SubSeq(q, g + 1, n)[i] = q[g + 1 + i - 1]
        BY <4>1, <4>2, SubSeqProperties
      <4>4. ASSUME NEW i \in 1..n - g PROVE kept[i] = q[g + i]
        <5>1. i \in 1..n - (g + 1) + 1 /\ g + 1 + i - 1 = g + i
          BY <1>4, <3>2, <4>2
        <5> QED
          BY <3>1, <4>3, <5>1
      <4>5. kept \in Seq(UndoStates)
        BY <3>1, <4>3
      <4>6. Len(kept) = n - g
        BY <1>4, <3>1, <3>2, <4>3
      <4> QED
        BY <4>4, <4>5, <4>6
    <3> QED
      BY <3>3 DEF q
  <2>2. CASE ~(n > db.max)
    BY <1>1, <2>2
  <2> QED
    BY <2>1, <2>2
<1>6. /\ left \in Seq(Snapshots) /\ Len(left) = n - g
      /\ \A i \in 1..n - g : left[i] = past[g + i]
  <2>1. CASE n > db.max
    <3>1. g = n - db.max /\ left = SubSeq(past, g + 1, n)
      BY <2>1
    <3> HIDE DEF g, left
    <3> QED
      BY <1>1, <1>4, <3>1
  <2>2. CASE ~(n > db.max)
    BY <1>1, <2>2
  <2> QED
    BY <2>1, <2>2
<1> HIDE DEF g, kept, left, n
<1>7. undo_state \in UndoStates /\ Tells(undo_state, Snapshot, Snapshot) /\ Numbered(Snapshot)
  BY <1>1, TellsNothing DEF Inv
<1> DEFINE q == Append(kept, undo_state)
           p == Append(left, Snapshot)
           m == n - g + 1
<1>8. /\ q \in Seq(UndoStates) /\ Len(q) = m /\ q[m] = undo_state
      /\ \A i \in 1..n - g : q[i] = db.stack[g + i]
  <2>1. Len(kept) + 1 = m /\ Len(kept) = n - g
    BY <1>1, <1>4, <1>5
  <2>2. /\ q \in Seq(UndoStates) /\ Len(q) = Len(kept) + 1 /\ q[Len(kept) + 1] = undo_state
        /\ \A i \in 1..Len(kept) : q[i] = kept[i]
    BY <1>5, <1>7, Appended
  <2> HIDE DEF q, m
  <2> QED
    BY <1>5, <2>1, <2>2
<1>9. /\ p \in Seq(Snapshots) /\ Len(p) = m /\ p[m] = Snapshot
      /\ \A i \in 1..n - g : p[i] = past[g + i]
  <2>1. Len(left) + 1 = m /\ Len(left) = n - g
    BY <1>1, <1>4, <1>6
  <2>2. /\ p \in Seq(Snapshots) /\ Len(p) = Len(left) + 1 /\ p[Len(left) + 1] = Snapshot
        /\ \A i \in 1..Len(left) : p[i] = left[i]
    BY <1>1, <1>6, Appended
  <2> HIDE DEF p, m
  <2> QED
    BY <1>6, <2>1, <2>2
<1>10. TypeOK'
  <2>1. db.active + 1 \in Nat
    BY <1>1
  <2>2. db' = [db EXCEPT !.stack = q, !.active = db.active + 1, !.disabled = FALSE] /\ past' = p
    BY <1>3 DEF TypeOK
  <2> HIDE DEF p, q
  <2> QED
    BY <1>8, <1>9, <2>1, <2>2 DEF TypeOK
<1>11. db'.stack = q /\ past' = p /\ Snapshot' = Snapshot /\ db'.active = db.active + 1
  BY <1>3 DEF TypeOK, Snapshot
<1> HIDE DEF p, q
<1>12. ASSUME NEW i \in 1..m
       PROVE  Numbered(p[i]) /\ Tells(q[i], p[i], Later(i)')
  <2>1. CASE i = m
    <3>1. Later(i)' = Snapshot
      BY <1>9, <1>11, <2>1 DEF Later
    <3> QED
      BY <1>7, <1>8, <1>9, <2>1, <3>1
  <2>2. CASE i # m
    <3>1. i \in 1..n - g /\ g + i \in 1..n
      BY <1>1, <1>4, <2>2
    <3>2. Later(i)' = p[i + 1]
      BY <1>9, <1>11, <2>2 DEF Later
    <3>3. p[i + 1] = Later(g + i)
      <4>1. CASE i = n - g
        BY <1>1, <1>4, <1>9, <4>1 DEF Later, n
      <4>2. CASE i # n - g
        <5>1. i + 1 \in 1..n - g /\ g + i # n /\ g + (i + 1) = g + i + 1
          BY <1>1, <1>4, <3>1, <4>2
        <5>2. p[i + 1] = past[g + (i + 1)]
          BY <1>9, <5>1
        <5> QED
          BY <5>1, <5>2 DEF Later, n
      <4> QED
        BY <4>1, <4>2
    <3>4. Numbered(past[g + i]) /\ Tells(db.stack[g + i], past[g + i], Later(g + i))
      BY <3>1 DEF Inv, n
    <3> QED
      BY <1>8, <1>9, <3>1, <3>2, <3>3, <3>4
  <2> QED
    BY <2>1, <2>2
<1>13. db.active + 1 <= m
  BY <1>1, <1>4
<1> QED
  BY <1>7, <1>8, <1>9, <1>10, <1>11, <1>12, <1>13 DEF Inv

\* A session is undone.
LEMMA UndoStep ==
    ASSUME TypeOK, Inv, Undo
    PROVE  TypeOK' /\ Inv'
<1>1. /\ db.active \in Nat \ {0} /\ db.active <= Len(past) /\ Len(past) = Len(db.stack)
      /\ ~db.disabled /\ db.stack \in Seq(UndoStates)
  BY DbTypes DEF Inv, Undo
<1>2. db.stack # << >>
  BY <1>1
<1>3. db' = [rewind(db) EXCEPT !.active = @ - 1, !.disabled = FALSE] /\ past' = Front(past)
  BY <1>1, <1>2, RewindForm DEF Undo, undo
<1>4. db' = [db EXCEPT !.obj = past[Len(past)].obj, !.next = past[Len(past)].next,
                       !.stack = Front(@), !.active = db.active - 1, !.disabled = FALSE]
  BY <1>2, <1>3, RewindForm DEF TypeOK
<1>5. db.active - 1 \in Nat /\ db.active - 1 <= Len(past) - 1
  BY <1>1
<1> QED
  BY <1>2, <1>3, <1>4, <1>5, BackStep

\* A committed session is popped.
LEMMA PopStep ==
    ASSUME TypeOK, Inv, PopCommit
    PROVE  TypeOK' /\ Inv'
<1>1. db.active = 0 /\ db.stack # << >> /\ past' = Front(past) /\ db' = pop_commit(db)
  BY DEF PopCommit
<1>2. db' = [rewind(db) EXCEPT !.disabled = FALSE]
  BY <1>1 DEF pop_commit
<1>3. db' = [db EXCEPT !.obj = past[Len(past)].obj, !.next = past[Len(past)].next,
                       !.stack = Front(@), !.active = 0, !.disabled = FALSE]
  BY <1>1, <1>2, RewindForm DEF TypeOK
<1>4. 0 \in Nat /\ 0 <= Len(past) - 1
  BY <1>1, RewindForm
<1> QED
  BY <1>1, <1>3, <1>4, BackStep

\* A session becomes part of the one around it.
LEMMA MergeStep ==
    ASSUME TypeOK, Inv, Merge
    PROVE  TypeOK' /\ Inv'
<1> DEFINE n == Len(past)
<1>1. /\ db.stack \in Seq(UndoStates) /\ past \in Seq(Snapshots) /\ n = Len(db.stack)
      /\ n \in Nat /\ db.active \in Nat /\ db.active > 0 /\ db.active <= n /\ Snapshot \in Snapshots
  BY DbTypes DEF Inv, Merge
<1>2. past' = Front(past) /\ db' = merge(db)
  BY DEF Merge
<1> HIDE DEF n
<1>3. n \in Nat /\ n # 0 /\ db.active # 0
  BY <1>1
<1>4. /\ Front(past) \in Seq(Snapshots) /\ Len(Front(past)) = n - 1
      /\ \A i \in 1..n - 1 : Front(past)[i] = past[i]
  BY <1>1 DEF Front, n
<1>5. CASE n = 1
  <2>1. db' = [db EXCEPT !.stack = << >>, !.active = 0]
    <3>1. db.active = 1 /\ size(db) = 1
      BY <1>1, <1>5 DEF size
    <3> QED
      BY <1>2, <3>1 DEF merge
  <2>2. TypeOK'
    <3>1. << >> \in Seq(UndoStates)
      OBVIOUS
    <3>2. past' \in Seq(Snapshots)
      BY <1>2, <1>4
    <3> QED
      BY <2>1, <3>1, <3>2 DEF TypeOK
  <2>3. Snapshot' = Snapshot /\ db'.stack = << >> /\ db'.active = 0 /\ Len(past') = 0
    BY <1>2, <1>4, <1>5, <2>1 DEF Snapshot, TypeOK
  <2> QED
    BY <2>2, <2>3 DEF Inv
<1>6. CASE n > 1
  <2> DEFINE a == db.stack[n - 1]
             b == db.stack[n]
             c == composed(a, b)
             q == Append(SubSeq(db.stack, 1, n - 2), c)
  <2>1. db' = [db EXCEPT !.stack = q, !.active = db.active - 1]
    <3>1. size(db) = n /\ ~(db.active = 1 /\ n = 1) /\ ~(db.active = 0 \/ n < 2)
      <4>1. size(db) = n
        BY <1>1 DEF size
      <4>2. ~(db.active = 1 /\ n = 1) /\ ~(db.active = 0 \/ n < 2)
        BY <1>3, <1>6
      <4> QED
        BY <4>1, <4>2
    <3>2. db' = [db EXCEPT !.stack = Append(SubSeq(@, 1, n - 2), composed(@[n - 1], @[n])),
                           !.active = @ - 1]
      BY <1>2, <3>1 DEF merge
    <3> QED
      BY <3>2
  <2>2. n - 1 \in 1..n /\ n \in 1..n /\ Later(n) = Snapshot /\ Later(n - 1) = past[n]
    BY <1>1, <1>6 DEF Later, n
  <2>3. /\ a \in UndoStates /\ b \in UndoStates /\ past[n - 1] \in Snapshots /\ past[n] \in Snapshots
    BY <1>1, <2>2, ElementOfSeq DEF n
  <2>4. /\ Numbered(past[n - 1]) /\ Numbered(past[n]) /\ Numbered(Snapshot)
        /\ Tells(a, past[n - 1], past[n]) /\ Tells(b, past[n], Snapshot)
    BY <2>2 DEF Inv, n
  <2>5. c \in UndoStates /\ Tells(c, past[n - 1], Snapshot)
    BY <1>1, <2>3, <2>4, TellsComposed
  <2> HIDE DEF a, b, c
  <2>6. /\ q \in Seq(UndoStates) /\ Len(q) = n - 1 /\ q[n - 1] = c
        /\ \A i \in 1..n - 2 : q[i] = db.stack[i]
    <3>1. /\ SubSeq(db.stack, 1, n - 2) \in Seq(UndoStates) /\ Len(SubSeq(db.stack, 1, n - 2)) = n - 2
          /\ \A i \in 1..n - 2 : SubSeq(db.stack, 1, n - 2)[i] = db.stack[i]
      BY <1>1, <1>6
    <3> QED
      BY <1>1, <1>6, <2>5, <3>1
  <2> HIDE DEF q
  <2>7. TypeOK'
    <3>1. db.active - 1 \in Nat /\ past' \in Seq(Snapshots)
      BY <1>1, <1>2, <1>4
    <3> QED
      BY <2>1, <2>6, <3>1 DEF TypeOK
  <2>8. Snapshot' = Snapshot /\ db'.stack = q /\ db'.active = db.active - 1
    BY <2>1 DEF Snapshot, TypeOK
  <2>9. ASSUME NEW i \in 1..n - 1
        PROVE  Numbered(past'[i]) /\ Tells(q[i], past'[i], Later(i)')
    <3>0. past'[i] = past[i] /\ Len(past') = n - 1 /\ i \in 1..n /\ i # n
      BY <1>1, <1>2, <1>4
    <3>1. CASE i = n - 1
      <4>1. Later(i)' = Snapshot
        BY <2>8, <3>0, <3>1 DEF Later
      <4> QED
        BY <2>4, <2>5, <2>6, <3>0, <3>1, <4>1
    <3>2. CASE i # n - 1
      <4>1. i \in 1..n - 2 /\ i + 1 \in 1..n - 1
        BY <1>1, <3>2
      <4>2. Later(i)' = past[i + 1]
        BY <1>2, <1>4, <3>0, <3>2, <4>1 DEF Later
      <4>3. Later(i) = past[i + 1]
        BY <3>0 DEF Later, n
      <4>4. Numbered(past[i]) /\ Tells(db.stack[i], past[i], Later(i))
        BY <3>0 DEF Inv, n
      <4> QED
        BY <2>6, <3>0, <4>1, <4>2, <4>3, <4>4
    <3> QED
      BY <3>1, <3>2
  <2>10. Len(past') = n - 1 /\ db.active - 1 <= n - 1
    BY <1>1, <1>2, <1>4
  <2> QED
    BY <2>4, <2>6, <2>7, <2>8, <2>9, <2>10 DEF Inv
<1> QED
  BY <1>3, <1>5, <1>6

\* What leaves the objects, the stack and past alone keeps the invariant.
LEMMA KeptStep ==
    ASSUME TypeOK, Inv, UNCHANGED past, NEW k \in Nat, k <= Len(db.stack), NEW m \in Nat,
           db' = [db EXCEPT !.active = k, !.max = m]
    PROVE  TypeOK' /\ Inv'
<1>1. TypeOK'
  BY DEF TypeOK
<1>2. Snapshot' = Snapshot /\ db'.stack = db.stack /\ db'.active = k
  BY DEF Snapshot, TypeOK
<1>3. past' = past /\ \A i \in 1..Len(past) : Later(i)' = Later(i)
  BY <1>2 DEF Later
<1>4. \A i \in 1..Len(past) : Numbered(past[i]) /\ Tells(db'.stack[i], past[i], Later(i)')
  BY <1>2, <1>3 DEF Inv
<1>5. Len(past) = Len(db'.stack) /\ db'.active <= Len(db'.stack) /\ Numbered(Snapshot')
  BY <1>2 DEF Inv
<1> QED
  BY <1>1, <1>3, <1>4, <1>5 DEF Inv

\* The state is always a list of undo states, each with what it was when it began, and every
\* one of them tells how the next came of it (undo_database.cpp).
THEOREM Invariance == UndoSpec => [](TypeOK /\ Inv)
<1>1. UndoInit => TypeOK /\ Inv
  <2> SUFFICES ASSUME UndoInit
               PROVE  TypeOK /\ Inv
    OBVIOUS
  <2>1. << >> \in Objects /\ DOMAIN << >> = {} /\ << >> \in Seq(UndoStates) /\ past \in Seq(Snapshots)
    BY EmptyMap DEF Objects, UndoInit
  <2>2. db = [obj |-> << >>, next |-> [t \in Types |-> 0], stack |-> << >>, active |-> 0,
              disabled |-> FALSE, max |-> 256, thrown |-> FALSE]
    BY DEF UndoInit, object_database
  <2>3. TypeOK
    BY <2>1, <2>2 DEF TypeOK, NextIds
  <2>4. Inv
    BY <2>1, <2>2 DEF Inv, UndoInit, Numbered, Snapshot
  <2> QED
    BY <2>3, <2>4
<1>2. TypeOK /\ Inv /\ [UndoNext]_undo_vars => (TypeOK /\ Inv)'
  <2> SUFFICES ASSUME TypeOK, Inv, [UndoNext]_undo_vars
               PROVE  TypeOK' /\ Inv'
    OBVIOUS
  <2>1. ASSUME NEW t \in Types, NEW v \in Values, CreateObject(t, v) PROVE TypeOK' /\ Inv'
    BY <2>1, CreateStep
  <2>2. ASSUME NEW id \in DOMAIN db.obj, RemoveObject(id) PROVE TypeOK' /\ Inv'
    BY <2>2, RemoveStep
  <2>3. ASSUME NEW id \in DOMAIN db.obj, NEW v \in Values, ModifyObject(id, v) PROVE TypeOK' /\ Inv'
    BY <2>3, ModifyStep
  <2>4. CASE StartSession
    BY <2>4, StartStep
  <2>5. CASE Undo
    BY <2>5, UndoStep
  <2>6. CASE Merge
    BY <2>6, MergeStep
  <2>7. CASE Commit
    <3>1. /\ db.active \in Nat \ {0} /\ db.max \in Nat /\ db.active <= Len(db.stack)
          /\ db.stack \in Seq(UndoStates)
      BY <2>7, DbTypes DEF Commit, Inv
    <3>2. db' = [db EXCEPT !.active = db.active - 1, !.max = db.max] /\ UNCHANGED past
      BY <2>7, <3>1 DEF Commit, commit, TypeOK
    <3>3. db.active - 1 \in Nat /\ db.active - 1 <= Len(db.stack)
      BY <3>1
    <3> QED
      BY <3>1, <3>2, <3>3, KeptStep
  <2>8. CASE PopCommit
    BY <2>8, PopStep
  <2>9. ASSUME NEW n \in 1..MaxStack, SetMaxSize(n) PROVE TypeOK' /\ Inv'
    <3>1. db.active \in Nat /\ db.active <= Len(db.stack) /\ n \in Nat
      BY DbTypes, UndoSessionsAssumption DEF Inv
    <3>2. db' = [db EXCEPT !.active = db.active, !.max = n] /\ UNCHANGED past
      BY <2>9 DEF SetMaxSize, TypeOK
    <3> QED
      BY <3>1, <3>2, KeptStep
  <2>10. CASE UNCHANGED undo_vars
    <3>1. db' = db /\ past' = past
      BY <2>10 DEF undo_vars
    <3> QED
      BY <3>1 DEF TypeOK, Inv, Later, Snapshot
  <2> QED
    BY <2>1, <2>2, <2>3, <2>4, <2>5, <2>6, <2>7, <2>8, <2>9, <2>10 DEF UndoNext
<1> QED
  BY <1>1, <1>2, PTL DEF UndoSpec

\* Going back never fails and restores what there was when the newest undo state began, however
\* sessions were nested, merged and committed before (undo_database::undo, pop_commit).
THEOREM UndoRestores == UndoSpec => []SessionsUndo
<1>1. TypeOK /\ Inv => SessionsUndo
  <2> SUFFICES ASSUME TypeOK, Inv
               PROVE  SessionsUndo
    OBVIOUS
  <2>1. ~db.thrown
    BY DbTypes
  <2>2. ASSUME db.stack # << >>
        PROVE  /\ ~rewind(db).thrown /\ rewind(db).obj = past[Len(past)].obj
               /\ rewind(db).next = past[Len(past)].next
    BY <2>1, <2>2, RewindForm DEF TypeOK
  <2> QED
    BY <2>1, <2>2 DEF SessionsUndo
<1> QED
  BY <1>1, Invariance, PTL
-----------------------------------------------------------------------------
(***************************************************************************)
(* The indexes.  An operation that throws leaves the secondary index and   *)
(* the observers behind; nothing but the opening of the file happens after *)
(* it, since its caller undoes it.  The invariant therefore says what is   *)
(* so until then.                                                          *)
(***************************************************************************)

\* A table has natural numbers for ids.
LEMMA TablesSay ==
    ASSUME NEW f
    PROVE  f \in Tables <=> DOMAIN f \subseteq Nat /\ f \in [DOMAIN f -> Keys]
  BY DEF Tables

\* The table without objects.
LEMMA NothingTable == Nothing \in Tables /\ DOMAIN Nothing = {}
<1>1. Nothing \in [{} -> Keys] /\ DOMAIN Nothing = {}
  BY DEF Nothing
<1> QED
  BY <1>1, TablesSay

\* An object put under an id.
LEMMA PutTable ==
    ASSUME NEW f \in Tables, NEW id \in Nat, NEW key \in Keys
    PROVE  /\ put(f, id, key) \in Tables /\ DOMAIN put(f, id, key) = DOMAIN f \cup {id}
           /\ put(f, id, key)[id] = key
           /\ \A i \in DOMAIN f \ {id} : put(f, id, key)[i] = f[i]
<1>1. DOMAIN f \subseteq Nat /\ f \in [DOMAIN f -> Keys]
  BY TablesSay
<1>2. /\ DOMAIN put(f, id, key) = DOMAIN f \cup {id}
      /\ put(f, id, key) \in [DOMAIN f \cup {id} -> Keys]
      /\ put(f, id, key)[id] = key
      /\ \A i \in DOMAIN f \ {id} : put(f, id, key)[i] = f[i]
  BY <1>1 DEF put
<1>3. put(f, id, key) \in Tables
  BY <1>1, <1>2, TablesSay
<1> QED
  BY <1>2, <1>3

\* An object taken out.
LEMMA WithoutTable ==
    ASSUME NEW f \in Tables, NEW id
    PROVE  /\ without(f, id) \in Tables /\ DOMAIN without(f, id) = DOMAIN f \ {id}
           /\ \A i \in DOMAIN f \ {id} : without(f, id)[i] = f[i]
<1>1. DOMAIN f \subseteq Nat /\ f \in [DOMAIN f -> Keys]
  BY TablesSay
<1>2. /\ DOMAIN without(f, id) = DOMAIN f \ {id}
      /\ without(f, id) \in [DOMAIN f \ {id} -> Keys]
      /\ \A i \in DOMAIN f \ {id} : without(f, id)[i] = f[i]
  BY <1>1 DEF without
<1>3. without(f, id) \in Tables
  BY <1>1, <1>2, TablesSay
<1> QED
  BY <1>2, <1>3

-----------------------------------------------------------------------------
(***************************************************************************)
(* The secondary index.                                                    *)
(***************************************************************************)

\* The index s has every object of f under its key and nothing else.
Lists(s, f) == \A k \in Keys : s[k] = {id \in DOMAIN f : f[id] = k}

\* A secondary index that is told of a new object lists it.
LEMMA ListsInserted ==
    ASSUME NEW s \in [Keys -> SUBSET Nat], NEW f \in Tables, Lists(s, f),
           NEW id \in Nat \ DOMAIN f, NEW key \in Keys
    PROVE  /\ object_inserted(s, id, key) \in [Keys -> SUBSET Nat]
           /\ Lists(object_inserted(s, id, key), put(f, id, key))
<1>1. object_inserted(s, id, key) \in [Keys -> SUBSET Nat]
  BY DEF object_inserted
<1>2. ASSUME NEW k \in Keys
      PROVE  object_inserted(s, id, key)[k] = {i \in DOMAIN put(f, id, key) : put(f, id, key)[i] = k}
  <2>1. s[k] = {i \in DOMAIN f : f[i] = k}
    BY DEF Lists
  <2>2. object_inserted(s, id, key)[k] = IF k = key THEN s[k] \cup {id} ELSE s[k]
    BY DEF object_inserted
  <2> QED
    BY <2>1, <2>2 DEF put
<1> QED
  BY <1>1, <1>2 DEF Lists

\* A secondary index that is told before an object goes does not list it any more.
LEMMA ListsRemoved ==
    ASSUME NEW s \in [Keys -> SUBSET Nat], NEW f \in Tables, Lists(s, f), NEW id \in DOMAIN f
    PROVE  /\ object_removed(s, id, f[id]) \in [Keys -> SUBSET Nat]
           /\ Lists(object_removed(s, id, f[id]), without(f, id))
<1>1. f[id] \in Keys
  BY TablesSay
<1>2. object_removed(s, id, f[id]) \in [Keys -> SUBSET Nat]
  BY <1>1 DEF object_removed
<1>3. ASSUME NEW k \in Keys
      PROVE  object_removed(s, id, f[id])[k] = {i \in DOMAIN without(f, id) : without(f, id)[i] = k}
  <2>1. s[k] = {i \in DOMAIN f : f[i] = k}
    BY DEF Lists
  <2>2. object_removed(s, id, f[id])[k] = IF k = f[id] THEN s[k] \ {id} ELSE s[k]
    BY <1>1 DEF object_removed
  <2> QED
    BY <2>1, <2>2 DEF without
<1> QED
  BY <1>2, <1>3 DEF Lists

\* One that is told before and after a change lists the object under its new key only.
LEMMA ListsModified ==
    ASSUME NEW s \in [Keys -> SUBSET Nat], NEW f \in Tables, Lists(s, f), NEW id \in DOMAIN f,
           NEW key \in Keys
    PROVE  /\ about_to_modify(s, id, f[id]) \in [Keys -> SUBSET Nat]
           /\ object_modified(about_to_modify(s, id, f[id]), id, key) \in [Keys -> SUBSET Nat]
           /\ Lists(object_modified(about_to_modify(s, id, f[id]), id, key), put(f, id, key))
<1> DEFINE r == object_removed(s, id, f[id])
           g == without(f, id)
<1>1. r \in [Keys -> SUBSET Nat] /\ Lists(r, g)
  BY ListsRemoved
<1>2. g \in Tables /\ DOMAIN g = DOMAIN f \ {id} /\ id \in Nat
  BY WithoutTable, TablesSay
<1> HIDE DEF r, g
<1>3. object_inserted(r, id, key) \in [Keys -> SUBSET Nat] /\ Lists(object_inserted(r, id, key), put(g, id, key))
  BY <1>1, <1>2, ListsInserted
<1>4. put(g, id, key) = put(f, id, key)
  BY DEF put, without, g
<1> QED
  BY <1>1, <1>3, <1>4 DEF about_to_modify, object_modified, r

-----------------------------------------------------------------------------
(***************************************************************************)
(* The invariant.                                                          *)
(***************************************************************************)

\* IndexesFollow, in the words of this module.
LEMMA FollowSays ==
    IndexesFollow <=> /\ ~failed => Lists(sindex, table) /\ observed = table
                      /\ \A id \in DOMAIN table : id < next_id
                      /\ \A id \in DOMAIN file.objects : id < file.next
  BY DEF IndexesFollow, Lists

\* Every variable of a table keeps its type, the secondary index and the observers follow it
\* unless an operation threw, and ids stay below the next one (index.hpp, primary_index).
THEOREM IndexesInvariance == IndexesSpec => [](IndexesTypeOK /\ IndexesFollow)
<1>1. IndexesInit => IndexesTypeOK /\ IndexesFollow
  <2> SUFFICES ASSUME IndexesInit
               PROVE  IndexesTypeOK /\ IndexesFollow
    OBVIOUS
  <2>1. NoFile \in [next : Int, objects : Tables] /\ NoFile.objects = Nothing
    BY NothingTable DEF NoFile
  <2>2. IndexesTypeOK
    BY <2>1, NothingTable DEF IndexesInit, IndexesTypeOK
  <2>3. IndexesFollow
    BY <2>1, NothingTable DEF IndexesInit, IndexesFollow
  <2> QED
    BY <2>2, <2>3
<1>2. IndexesTypeOK /\ IndexesFollow /\ [IndexesNext]_index_vars => (IndexesTypeOK /\ IndexesFollow)'
  <2> SUFFICES ASSUME IndexesTypeOK, IndexesFollow, [IndexesNext]_index_vars
               PROVE  IndexesTypeOK' /\ IndexesFollow'
    OBVIOUS
  <2>0. /\ table \in Tables /\ observed \in Tables /\ next_id \in Nat
        /\ sindex \in [Keys -> SUBSET Nat] /\ DOMAIN table \subseteq Nat
        /\ \A id \in DOMAIN table : id < next_id
    BY TablesSay, FollowSays DEF IndexesTypeOK
  <2>a. ~failed => Lists(sindex, table) /\ observed = table
    BY FollowSays
  <2>b. ASSUME table' \in Tables, observed' \in Tables, next_id' \in Nat,
               sindex' \in [Keys -> SUBSET Nat], failed' \in BOOLEAN,
               UNCHANGED <<index_kind, file>>,
               \A id \in DOMAIN table' : id < next_id',
               ~failed' => Lists(sindex, table)' /\ observed' = table'
        PROVE  IndexesTypeOK' /\ IndexesFollow'
    <3>1. IndexesTypeOK'
      BY <2>b DEF IndexesTypeOK
    <3>2. IndexesFollow'
      BY <2>b DEF IndexesFollow, Lists
    <3> QED
      BY <3>1, <3>2
  <2>1. ASSUME NEW key \in Keys, create_object(key) PROVE IndexesTypeOK' /\ IndexesFollow'
    <3>1. /\ ~failed /\ failed' = FALSE /\ next_id' = next_id + 1 /\ UNCHANGED <<index_kind, file>>
          /\ table' = put(table, next_id, key) /\ observed' = put(observed, next_id, key)
          /\ sindex' = object_inserted(sindex, next_id, key)
      BY <2>1 DEF create_object
    <3>2. next_id \in Nat \ DOMAIN table
      BY <2>0
    <3>3. /\ table' \in Tables /\ observed' \in Tables /\ observed' = table' /\ DOMAIN table' = DOMAIN table \cup {next_id}
          /\ sindex' \in [Keys -> SUBSET Nat] /\ Lists(sindex', table')
      BY <2>0, <2>a, <3>1, <3>2, PutTable, ListsInserted
    <3>4. next_id' \in Nat /\ \A id \in DOMAIN table' : id < next_id'
      BY <2>0, <3>1, <3>3
    <3> QED
      BY <2>b, <3>1, <3>3, <3>4
  <2>2. CASE create_throws
    BY <2>0, <2>2, <2>b DEF create_throws
  <2>3. ASSUME NEW id, NEW key \in Keys, insert_object(id, key) PROVE IndexesTypeOK' /\ IndexesFollow'
    <3>1. /\ ~failed /\ failed' = FALSE /\ next_id' = next_id /\ UNCHANGED <<index_kind, file>>
          /\ table' = put(table, id, key) /\ observed' = put(observed, id, key)
          /\ sindex' = object_inserted(sindex, id, key) /\ id \in 0..next_id - 1 \ DOMAIN table
      BY <2>3 DEF insert_object
    <3>2. id \in Nat \ DOMAIN table /\ id < next_id
      BY <2>0, <3>1
    <3>3. /\ table' \in Tables /\ observed' \in Tables /\ observed' = table' /\ DOMAIN table' = DOMAIN table \cup {id}
          /\ sindex' \in [Keys -> SUBSET Nat] /\ Lists(sindex', table')
      BY <2>0, <2>a, <3>1, <3>2, PutTable, ListsInserted
    <3>4. next_id' \in Nat /\ \A i \in DOMAIN table' : i < next_id'
      BY <2>0, <3>1, <3>2, <3>3
    <3> QED
      BY <2>b, <3>1, <3>3, <3>4
  <2>4. ASSUME NEW id, remove_object(id) PROVE IndexesTypeOK' /\ IndexesFollow'
    <3>1. /\ ~failed /\ failed' = FALSE /\ next_id' = next_id /\ UNCHANGED <<index_kind, file>>
          /\ table' = without(table, id) /\ observed' = without(observed, id)
          /\ sindex' = object_removed(sindex, id, table[id]) /\ id \in DOMAIN table
      BY <2>4 DEF remove_object
    <3>2. /\ table' \in Tables /\ observed' \in Tables /\ observed' = table' /\ DOMAIN table' = DOMAIN table \ {id}
          /\ sindex' \in [Keys -> SUBSET Nat] /\ Lists(sindex', table')
      BY <2>0, <2>a, <3>1, WithoutTable, ListsRemoved
    <3>3. next_id' \in Nat /\ \A i \in DOMAIN table' : i < next_id'
      BY <2>0, <3>1, <3>2
    <3> QED
      BY <2>b, <3>1, <3>2, <3>3
  <2>5. ASSUME NEW id, NEW key \in Keys, modify_object(id, key) PROVE IndexesTypeOK' /\ IndexesFollow'
    <3>1. /\ ~failed /\ failed' = FALSE /\ next_id' = next_id /\ UNCHANGED <<index_kind, file>>
          /\ table' = put(table, id, key) /\ observed' = put(observed, id, key)
          /\ sindex' = object_modified(about_to_modify(sindex, id, table[id]), id, key)
          /\ id \in DOMAIN table
      BY <2>5 DEF modify_object
    <3>2. /\ table' \in Tables /\ observed' \in Tables /\ observed' = table' /\ DOMAIN table' = DOMAIN table
          /\ sindex' \in [Keys -> SUBSET Nat] /\ Lists(sindex', table')
      <4>1. table' \in Tables /\ DOMAIN table' = DOMAIN table \cup {id} /\ observed' = table'
        BY <2>0, <2>a, <3>1, PutTable
      <4>2. sindex' \in [Keys -> SUBSET Nat] /\ Lists(sindex', table')
        BY <2>0, <2>a, <3>1, ListsModified
      <4> QED
        BY <3>1, <4>1, <4>2
    <3>3. next_id' \in Nat /\ \A i \in DOMAIN table' : i < next_id'
      BY <2>0, <3>1, <3>2
    <3> QED
      BY <2>b, <3>1, <3>2, <3>3
  <2>6. ASSUME NEW id, NEW key \in Keys, modify_erases(id, key) PROVE IndexesTypeOK' /\ IndexesFollow'
    <3>1. /\ ~failed /\ failed' = TRUE /\ UNCHANGED <<index_kind, file, next_id, observed>>
          /\ table' = without(table, id) /\ sindex' = about_to_modify(sindex, id, table[id])
          /\ id \in DOMAIN table
      BY <2>6 DEF modify_erases
    <3>2. table' \in Tables /\ DOMAIN table' = DOMAIN table \ {id} /\ sindex' \in [Keys -> SUBSET Nat]
      BY <2>0, <2>a, <3>1, WithoutTable, ListsModified
    <3>3. next_id' \in Nat /\ \A i \in DOMAIN table' : i < next_id'
      BY <2>0, <3>1, <3>2
    <3> QED
      BY <2>0, <2>b, <3>1, <3>2, <3>3
  <2>7. ASSUME NEW id, NEW key \in Keys, modify_throws(id, key) PROVE IndexesTypeOK' /\ IndexesFollow'
    <3>1. /\ ~failed /\ failed' = TRUE /\ UNCHANGED <<index_kind, file, next_id, observed>>
          /\ table' = put(table, id, key) /\ sindex' = about_to_modify(sindex, id, table[id])
          /\ id \in DOMAIN table
      BY <2>7 DEF modify_throws
    <3>2. table' \in Tables /\ DOMAIN table' = DOMAIN table \cup {id} /\ sindex' \in [Keys -> SUBSET Nat]
      BY <2>0, <2>a, <3>1, PutTable, ListsModified
    <3>3. next_id' \in Nat /\ \A i \in DOMAIN table' : i < next_id'
      BY <2>0, <3>1, <3>2
    <3> QED
      BY <2>0, <2>b, <3>1, <3>2, <3>3
  <2>8. CASE save
    <3>1. /\ UNCHANGED <<index_kind, table, next_id, sindex, observed, failed>>
          /\ file' = [next |-> next_id, objects |-> table]
      BY <2>8 DEF save
    <3>2. file'.next = next_id /\ file'.objects = table /\ file' \in [next : Int, objects : Tables]
      BY <2>0, <3>1
    <3>3. IndexesTypeOK'
      BY <2>0, <3>1, <3>2 DEF IndexesTypeOK
    <3> QED
      BY <2>0, <3>1, <3>2, <3>3 DEF IndexesFollow
  <2>9. CASE open_index
    <3>1. /\ file # NoFile /\ next_id' = file.next /\ table' = file.objects /\ observed' = table'
          /\ sindex' = [k \in Keys |-> {id \in DOMAIN file.objects : file.objects[id] = k}]
          /\ ~failed' /\ failed' \in BOOLEAN /\ UNCHANGED <<index_kind, file>>
      BY <2>9 DEF open_index, loaded
    <3>2. file.objects \in Tables /\ file.next \in Nat /\ DOMAIN file.objects \subseteq Nat
      BY <3>1, TablesSay DEF IndexesTypeOK
    <3>3. sindex' \in [Keys -> SUBSET Nat] /\ Lists(sindex', table')
      BY <3>1, <3>2 DEF Lists
    <3>4. \A id \in DOMAIN table' : id < next_id'
      BY <3>1 DEF IndexesFollow
    <3> QED
      BY <2>b, <3>1, <3>2, <3>3, <3>4
  <2>10. CASE UNCHANGED index_vars
    BY <2>10 DEF index_vars, IndexesTypeOK, IndexesFollow
  <2> QED
    BY <2>1, <2>2, <2>3, <2>4, <2>5, <2>6, <2>7, <2>8, <2>9, <2>10 DEF IndexesNext
<1> QED
  BY <1>1, <1>2, PTL DEF IndexesSpec

\* A secondary index has every object under its key and nowhere else, an observer knows the
\* objects as they are, no id is given twice and the file has the ids below its next one.
THEOREM SecondaryFollows == IndexesSpec => []IndexesFollow
  BY IndexesInvariance, PTL
=============================================================================
