------------------------------- MODULE Indexes -------------------------------
(***************************************************************************)
(* One table of the object database: primary_index over generic_index (an  *)
(* ordered container with a unique key) or over simple_index (a vector),   *)
(* with its secondary indexes and observers, and the file it is saved to.  *)
(*                                                                         *)
(* An object is its key.  The constructor or modifier that a caller passes *)
(* may throw.  The undo session around a failed operation is the subject   *)
(* of UndoDatabase and ChainDb; here the table is looked at before it.     *)
(***************************************************************************)
EXTENDS Integers

CONSTANTS Keys,        \* values of the unique key
          MaxIds       \* objects created

VARIABLES index_kind,  \* "generic" or "simple"
          table,       \* the objects: id -> key
          next_id,     \* _next_id
          sindex,      \* a secondary index: the ids of every key
          observed,    \* what an observer has been told: id -> key
          file,        \* the saved index: its next id and its objects
          failed       \* an operation threw and its caller has yet to undo it

index_vars == <<index_kind, table, next_id, sindex, observed, file, failed>>

Nothing == [x \in {} |-> ""]

NoFile == [next |-> -1, objects |-> Nothing]

IndexesInit ==
  /\ index_kind \in {"generic", "simple"}
  /\ table = Nothing
  /\ next_id = 0
  /\ sindex = [k \in Keys |-> {}]
  /\ observed = Nothing
  /\ file = NoFile
  /\ failed = FALSE

-----------------------------------------------------------------------------
(* The containers.                                                         *)

put(f, id, key) == [i \in DOMAIN f \cup {id} |-> IF i = id THEN key ELSE f[i]]

without(f, id) == [i \in DOMAIN f \ {id} |-> f[i]]

\* Another object has the key already; a vector asks for no key.
taken(f, id, key) ==
  index_kind = "generic" /\ \E i \in DOMAIN f \ {id} : f[i] = key

\* Secondary indexes are told of objects one by one.
object_inserted(s, id, key) == [s EXCEPT ![key] = @ \cup {id}]

object_removed(s, id, key) == [s EXCEPT ![key] = @ \ {id}]

\* The key of the changed object is read after the change.
object_modified(s, id, key) == object_inserted(s, id, key)

\* A secondary index that does not look at an object before it changes.
about_to_modify_late(s, id, key) == s

about_to_modify(s, id, key) == object_removed(s, id, key)

-----------------------------------------------------------------------------
(* primary_index.                                                          *)

create_object(key) ==
  /\ ~failed /\ next_id < MaxIds
  /\ ~taken(table, next_id, key)
  /\ table' = put(table, next_id, key)
  /\ next_id' = next_id + 1
  /\ sindex' = object_inserted(sindex, next_id, key)
  /\ observed' = put(observed, next_id, key)
  /\ UNCHANGED <<index_kind, file, failed>>

\* A key that is taken, or a constructor that throws: the container refuses
\* the object, while the vector has it in its place already, without a key.
create_throws ==
  /\ ~failed /\ next_id < MaxIds
  /\ failed' = TRUE
  /\ UNCHANGED <<index_kind, table, next_id, sindex, observed, file>>

\* Undoing a removal brings the object back under its old id.
insert_object(id, key) ==
  /\ ~failed /\ id \in 0 .. next_id - 1 \ DOMAIN table
  /\ ~taken(table, id, key)
  /\ table' = put(table, id, key)
  /\ sindex' = object_inserted(sindex, id, key)
  /\ observed' = put(observed, id, key)
  /\ UNCHANGED <<index_kind, next_id, file, failed>>

remove_object(id) ==
  /\ ~failed /\ id \in DOMAIN table
  /\ sindex' = object_removed(sindex, id, table[id])
  /\ observed' = without(observed, id)
  /\ table' = without(table, id)
  /\ UNCHANGED <<index_kind, next_id, file, failed>>

modify_object(id, key) ==
  /\ ~failed /\ id \in DOMAIN table
  /\ ~taken(table, id, key)
  /\ table' = put(table, id, key)
  /\ sindex' = object_modified(about_to_modify(sindex, id, table[id]), id, key)
  /\ observed' = put(observed, id, key)
  /\ UNCHANGED <<index_kind, next_id, file, failed>>

\* A key that is taken: the container erases the object before it says so.
modify_erases(id, key) ==
  /\ ~failed /\ id \in DOMAIN table
  /\ taken(table, id, key)
  /\ table' = without(table, id)
  /\ sindex' = about_to_modify(sindex, id, table[id])
  /\ failed' = TRUE
  /\ UNCHANGED <<index_kind, next_id, observed, file>>

\* A modifier that throws half way: the object keeps what it has got so far.
modify_throws(id, key) ==
  /\ ~failed /\ id \in DOMAIN table
  /\ ~taken(table, id, key)
  /\ table' = put(table, id, key)
  /\ sindex' = about_to_modify(sindex, id, table[id])
  /\ failed' = TRUE
  /\ UNCHANGED <<index_kind, next_id, observed, file>>

\* An object is written with its id, so that their order is of no matter.
save ==
  /\ ~failed /\ table # Nothing
  /\ file' = [next |-> next_id, objects |-> table]
  /\ UNCHANGED <<index_kind, table, next_id, sindex, observed, failed>>

\* What secondary indexes have heard of when these objects have been loaded.
loaded(objects) == [k \in Keys |-> {id \in DOMAIN objects : objects[id] = k}]

\* A new process reads the file: the next id, then objects until nothing
\* more can be read.  Secondary indexes hear of them; observers start from
\* what is there.
open_index ==
  /\ file # NoFile
  /\ next_id' = file.next
  /\ table' = file.objects
  /\ sindex' = loaded(file.objects)
  /\ observed' = table'
  /\ failed' = FALSE
  /\ UNCHANGED <<index_kind, file>>

IndexesNext ==
  \/ \E key \in Keys : create_object(key)
  \/ create_throws
  \/ \E id \in 0 .. MaxIds - 1 :
       \/ remove_object(id)
       \/ \E key \in Keys : \/ modify_object(id, key) \/ insert_object(id, key)
                            \/ modify_erases(id, key) \/ modify_throws(id, key)
  \/ save
  \/ open_index

IndexesSpec == IndexesInit /\ [][IndexesNext]_index_vars

-----------------------------------------------------------------------------
(* Properties.                                                             *)

\* Whatever order of operations led here, and also in a process that loaded
\* the table, a secondary index has every object under the key it has now and
\* nowhere else, an observer knows the objects as they are, no id is given
\* twice, and a saved file holds the ids below its next one.
IndexesFollow ==
  /\ ~failed =>
       /\ \A k \in Keys : sindex[k] = {id \in DOMAIN table : table[id] = k}
       /\ observed = table
  /\ \A id \in DOMAIN table : id < next_id
  /\ \A id \in DOMAIN file.objects : id < file.next

\* The maps and the secondary index have ids and keys in them.
Tables == UNION {[S -> Keys] : S \in SUBSET Nat}

IndexesTypeOK ==
  /\ index_kind \in {"generic", "simple"}
  /\ table \in Tables /\ observed \in Tables
  /\ next_id \in Nat
  /\ sindex \in [Keys -> SUBSET Nat]
  /\ file \in [next : Int, objects : Tables]
  /\ file # NoFile => file.next \in Nat
  /\ failed \in BOOLEAN
=============================================================================
