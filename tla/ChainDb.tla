-------------------------------- MODULE ChainDb --------------------------------
(***************************************************************************)
(* The database of the chain library as a whole: blocks and transactions   *)
(* that arrive in any order, forks and the switch between them, pending    *)
(* transactions, closing, crashing and opening again (db_block.cpp,        *)
(* db_with.hpp, db_management.cpp, and object_database.cpp for the files). *)
(*                                                                         *)
(* What an operation does to the objects is the matter of Ledger.  Here    *)
(* it creates, modifies or removes an object, proposes and approves such   *)
(* operations, or fails.  Time is counted in slots, and every slot has its *)
(* witness.                                                                *)
(***************************************************************************)
EXTENDS UndoDatabase, ForkDatabase, FiniteSets

CONSTANTS Scopes,           \* the scopes, chosen in Init
          Transactions,     \* what can be pushed or be in a block
          Bodies(_, _),     \* of a scope and a block: the bodies that may come next, of others
          Witnesses,        \* how many witnesses there are
          MaxExpiration,    \* maximum_time_until_expiration
          MaxBlockSize,     \* in transactions
          MaxUndoHistory,   \* GRAPHENE_MAX_UNDO_HISTORY: 10000
          UndoBlocks,       \* reindex keeps undo states for the last so many blocks: 50
          MaxNum,           \* the highest block there can be
          MaxSteps(_, _)    \* how often a kind of action happens in a scope

VARIABLES c,      \* the database object
          disk,   \* the files
          scope,
          steps   \* of the kinds of actions, how many there were

vars == <<c, disk, scope, steps>>

Kinds == {"block", "trx", "generate", "restart", "crash", "cut"}

ASSUME BoundsAreNatural == 
    {Witnesses, MaxExpiration, MaxBlockSize, MaxUndoHistory, UndoBlocks, MaxNum} \subseteq Nat

-----------------------------------------------------------------------------
(***************************************************************************)
(* The objects: dynamic global properties, witnesses, block summaries,     *)
(* transactions, proposals and others.                                     *)
(***************************************************************************)
DGP == <<"dgp", 0>>
witness_of(slot) == <<"witness", slot % Witnesses>>
summary_of(n) == <<"summary", n>>

genesis_objects ==
    [id \in {DGP} \cup {<<"witness", w>> : w \in 0..(Witnesses - 1)} \cup {summary_of(n) : n \in 0..MaxNum} |->
        CASE id = DGP -> [id |-> NoBlock, time |-> 0, irreversible |-> 0]
          [] id[1] = "witness" -> 0
          [] OTHER -> NoBlock]

no_ids == [t \in {"trx", "proposal", "object"} |-> 0]

\* a new database object, with these objects in it
new_database(objects, next_ids) ==
    [s |-> object_database(objects, next_ids), fork |-> fork_database, pending |-> << >>,
     session |-> FALSE, popped |-> << >>]

head_id(s) == s.obj[DGP].id
head_num(s) == num(head_id(s))
head_time(s) == s.obj[DGP].time
irreversible(s) == s.obj[DGP].irreversible

of_type(s, type) == {id \in DOMAIN s.obj : id[1] = type}
is_known_transaction(s, t) == \E id \in of_type(s, "trx") : s.obj[id] = t

\* an exception that was caught
caught(s) == [s EXCEPT !.thrown = FALSE]

-----------------------------------------------------------------------------
(***************************************************************************)
(* Transactions.  An operation is a record with a kind; transactions are   *)
(* records with operations, an expiration and the block they refer to.     *)
(***************************************************************************)
simple_operation(s, op) ==
    CASE op.kind = "create" -> create(s, "object", op.value)
      [] op.kind = "modify" -> modify(s, <<"object", op.id>>, op.value)
      [] op.kind = "remove" -> remove(s, <<"object", op.id>>)
      [] op.kind = "propose" -> create(s, "proposal", [ops |-> op.ops, fail_reason |-> FALSE])
      [] op.kind = "fail" -> assert(s, FALSE)

\* A proposal is executed in a session of its own, also where the undo database is disabled.
\* Nothing is done after an exception; that of a proposal is not one of the transaction
RECURSIVE apply_operations(_, _)
push_proposal(s, id) ==
    LET s1 == start_undo_session([s EXCEPT !.max = IF size(s) >= @ THEN size(s) + 1 ELSE @], TRUE)
        s2 == apply_operations(s1, s.obj[id].ops)
        s3 == IF s2.thrown THEN s2 ELSE remove(s2, id)
    IN  [(IF s3.thrown THEN undo(s3) ELSE merge(s3)) EXCEPT !.disabled = s.disabled]

end_proposal(s, id) ==
    IF s.thrown THEN modify(caught(s), id, [s.obj[id] EXCEPT !.fail_reason = TRUE]) ELSE s

apply_operation(s, op) ==
    LET id == <<"proposal", op.id>>
    IN  IF op.kind # "approve" THEN simple_operation(s, op)
        ELSE IF id \notin DOMAIN s.obj THEN assert(s, FALSE)
        ELSE end_proposal(push_proposal(s, id), id)

apply_operations(s, ops) ==
    IF s.thrown \/ ops = << >> THEN s ELSE apply_operations(apply_operation(s, Head(ops)), Tail(ops))

\* what is checked of a transaction before its operations: the block it refers to, its time
checked(s, t, skip) ==
    /\ "dupe" \notin skip => ~is_known_transaction(s, t)
    /\ head_num(s) > 0 => /\ "tapos" \notin skip => s.obj[summary_of(t.ref_block_num)] = t.ref_block
                          /\ t.expiration <= head_time(s) + MaxExpiration
                          /\ head_time(s) <= t.expiration

apply_transaction(s, t, skip) ==
    IF s.thrown \/ ~checked(s, t, skip) THEN assert(s, FALSE)
    ELSE apply_operations(IF "dupe" \in skip THEN s ELSE create(s, "trx", t), t.ops)

RECURSIVE apply_transactions(_, _, _)
apply_transactions(s, txs, skip) ==
    IF s.thrown \/ txs = << >> THEN s
    ELSE apply_transactions(apply_transaction(s, Head(txs), skip), Tail(txs), skip)

-----------------------------------------------------------------------------
(***************************************************************************)
(* Blocks.                                                                 *)
(***************************************************************************)
\* dgp for the head block, before the irreversible block is found; no more blocks than can be undone
update_global_dynamic_data(s, b) ==
    assert(modify(s, DGP, [s.obj[DGP] EXCEPT !.id = b, !.time = Last(b).slot]),
           num(b) - irreversible(s) < MaxUndoHistory)

update_signing_witness(s, b) == modify(s, witness_of(Last(b).slot), num(b))

\* 70 % of the witnesses have confirmed it: the first of the last confirmed blocks in order that
\* has less than 30 % of them below
update_last_irreversible_block(s) ==
    LET confirmed(w) == s.obj[<<"witness", w>>]
        offset == (3 * Witnesses) \div 10
        below(n) == Cardinality({w \in 0..(Witnesses - 1) : confirmed(w) < n})
        n == Max({confirmed(w) : w \in {v \in 0..(Witnesses - 1) : below(confirmed(v)) <= offset}})
    IN  IF n > irreversible(s) THEN modify(s, DGP, [s.obj[DGP] EXCEPT !.irreversible = n]) ELSE s

clear_expired_transactions(s) ==
    FoldSet(LAMBDA id, r : remove(r, id), s,
            {id \in of_type(s, "trx") : head_time(s) > s.obj[id].expiration})

\* validate_block_header: it is the next block, at a later time
validate_block_header(s, b) == previous(b) = head_id(s) /\ head_time(s) < Last(b).slot

\* one state less than there are reversible blocks
set_max_sizes_short(cd, n) ==
    [cd EXCEPT !.s.max = n - 2, !.fork = fork_set_max_size(@, n)]

\* how many states and forks are kept from the next session on
set_max_sizes(cd, n) == [cd EXCEPT !.s.max = n, !.fork = fork_set_max_size(@, n)]

\* The steps of _apply_block.  What it does to the sizes stays when it throws later on
apply_block(cd, b, skip) ==
    LET s0 == assert(cd.s, /\ validate_block_header(cd.s, b)
                           /\ "size" \notin skip => Len(Last(b).txs) <= MaxBlockSize)
        s1 == apply_transactions(s0, Last(b).txs, skip)
        s2 == IF s1.thrown THEN s1 ELSE update_global_dynamic_data(s1, b)
        s3 == modify(update_last_irreversible_block(update_signing_witness(s2, b)), summary_of(num(b)), b)
    IN  IF s2.thrown THEN [cd EXCEPT !.s = s2]
        ELSE set_max_sizes([cd EXCEPT !.s = clear_expired_transactions(s3)],
                           num(b) - irreversible(s1) + 1)

\* the session of a block ends: given up, or committed with the block in the block database
end_block(x, r, b) ==
    IF r.s.thrown THEN [x EXCEPT !.c = [r EXCEPT !.s = undo(@)]]
    ELSE [x EXCEPT !.c = [r EXCEPT !.s = commit(@)], !.disk.blocks = store(@, b)]

apply_and_store(x, b, skip) ==
    end_block(x, apply_block([x.c EXCEPT !.s = start_undo_session(@, FALSE)], b, skip), b)

reset_session(cd) == IF cd.session THEN [cd EXCEPT !.s = undo(@), !.session = FALSE] ELSE cd

\* the transactions of the block are forgotten
pop_block_forgetful(cd) ==
    LET c1 == reset_session(cd)
        f == fork_pop_block(c1.fork)
        s == pop_commit(c1.s)
    IN  IF cd.s.thrown THEN cd
        ELSE IF f.thrown THEN [c1 EXCEPT !.s = assert(@, FALSE)]
        ELSE [c1 EXCEPT !.fork = f, !.s = s]

pop_block(cd) ==
    LET c1 == reset_session(cd)
        f == fork_pop_block(c1.fork)
        s == pop_commit(c1.s)
    IN  IF cd.s.thrown THEN cd
        ELSE IF f.thrown THEN [c1 EXCEPT !.s = assert(@, FALSE)]
        ELSE IF s.thrown THEN [c1 EXCEPT !.fork = f, !.s = s]
        ELSE [c1 EXCEPT !.fork = f, !.s = s, !.popped = Last(head_id(c1.s)).txs \o @]

\* down to the block b, as long as nothing is thrown
RECURSIVE pop_to(_, _)
pop_to(cd, b) == IF cd.s.thrown \/ head_id(cd.s) = b THEN cd ELSE pop_to(pop_block(cd), b)

\* all of these blocks, the newest first in S, until one throws
RECURSIVE push_branch(_, _, _)
push_branch(x, S, skip) ==
    IF x.c.s.thrown \/ S = << >> THEN x
    ELSE push_branch(apply_and_store(x, Last(S), skip), Front(S), skip)

\* a block of the new branch has failed: its blocks go, and the old branch comes back
switch_back(x, branches, skip) ==
    LET applied == head_num(x.c.s)
        bad == SelectSeq(branches.first, LAMBDA b : num(b) > applied)
        f == FoldLeft(fork_remove, x.c.fork, Reverse(bad))
        c1 == pop_to([x.c EXCEPT !.s = caught(@), !.fork = fork_set_head(f, branches.second[1])],
                     previous(Last(branches.second)))
        back == push_branch([x EXCEPT !.c = c1], branches.second, skip)
    IN  [back EXCEPT !.c.s = assert(@, FALSE)]

\* a switch that failed is left where it is
end_switch_there(x, branches, skip) == x

end_switch(x, branches, skip) ==
    IF x.c.s.thrown THEN switch_back(x, branches, skip) ELSE x

switch_forks(x, b, skip) ==
    LET branches == fetch_branch_from(x.c.fork, b, head_id(x.c.s))
        popped == [x EXCEPT !.c = pop_to(@, previous(Last(branches.second)))]
    IN  IF branches.thrown THEN [x EXCEPT !.c.s = assert(@, FALSE)]
        ELSE IF popped.c.s.thrown THEN popped
        ELSE end_switch(push_branch(popped, branches.first, skip), branches, skip)

\* a block on the head that fails leaves the fork database, too
on_head(x, b) == IF x.c.s.thrown THEN [x EXCEPT !.c.fork = fork_remove(@, b)] ELSE x

\* _push_block: onto the head, as another branch, or as the head of a longer branch
push_block_only(x, b, skip) ==
    LET f == fork_push_block(x.c.fork, b)
        y == [x EXCEPT !.c.fork = f]
        new_head == fork_head(f).id
    IN  IF f.thrown THEN [x EXCEPT !.c.s = assert(@, FALSE)]
        ELSE IF previous(new_head) = head_id(x.c.s) THEN on_head(apply_and_store(y, b, skip), b)
        ELSE IF num(new_head) > head_num(x.c.s) THEN switch_forks(y, new_head, skip)
        ELSE y

\* what the others ask for: the fork database first, then the files
fetch_block_by_id(x, b) ==
    IF is_known_block(x.c.fork, b) THEN fetch_block(x.c.fork, b) ELSE fetch_optional(x.disk.blocks, b)

fetch_block_by_number(x, n) ==
    LET results == fetch_blocks_by_number(x.c.fork, n)
    IN  IF Cardinality(results) = 1 THEN results ELSE fetch_by_number(x.disk.blocks, n)

\* the blocks from the head of another branch down to the one both are on
get_block_ids_on_fork(x, b) ==
    LET branches == fetch_branch_from(x.c.fork, head_id(x.c.s), b)
    IN  branches.second \o <<previous(Last(branches.first))>>

-----------------------------------------------------------------------------
(***************************************************************************)
(* Pending transactions.                                                   *)
(***************************************************************************)
\* what a transaction has done before it fails stays
push_transaction_dirty(cd, t, skip) ==
    LET c1 == IF cd.session THEN cd ELSE [cd EXCEPT !.s = start_undo_session(@, FALSE), !.session = TRUE]
        s == apply_transaction(start_undo_session(c1.s, FALSE), t, skip)
    IN  IF s.thrown THEN [c1 EXCEPT !.s = merge(s)]
        ELSE [c1 EXCEPT !.s = merge(s), !.pending = Append(@, t)]

\* _push_transaction, which keeps its exception in s.thrown
push_transaction(cd, t, skip) ==
    LET c1 == IF cd.session THEN cd ELSE [cd EXCEPT !.s = start_undo_session(@, FALSE), !.session = TRUE]
        s == apply_transaction(start_undo_session(c1.s, FALSE), t, skip)
    IN  IF s.thrown THEN [c1 EXCEPT !.s = undo(s)]
        ELSE [c1 EXCEPT !.s = merge(s), !.pending = Append(@, t)]

\* those of txs that are not known are pushed again; exceptions are swallowed
RECURSIVE restore(_, _, _)
restore(cd, txs, skip) ==
    IF txs = << >> THEN cd
    ELSE IF is_known_transaction(cd.s, Head(txs)) THEN restore(cd, Tail(txs), skip)
    ELSE restore([push_transaction(cd, Head(txs), skip) EXCEPT !.s = caught(@)], Tail(txs), skip)

clear_pending(cd) == [reset_session(cd) EXCEPT !.pending = << >>]

\* afterwards the transactions of popped blocks are pushed again, and then the pending ones
restore_pending(x, pending, skip) ==
    LET c1 == [restore([x.c EXCEPT !.s = caught(@)], x.c.popped, skip) EXCEPT !.popped = << >>]
    IN  [x EXCEPT !.c = [restore(c1, pending, skip) EXCEPT !.s.thrown = x.c.s.thrown]]

push_block(x, b, skip) ==
    restore_pending(push_block_only([x EXCEPT !.c = clear_pending(@)], b, skip), x.c.pending, skip)

\* the pending transactions again, one by one, as many as fit; g has the store and the block's
RECURSIVE block_transactions(_, _)
block_transactions(g, txs) ==
    LET s == apply_transaction(start_undo_session(g.s, FALSE), Head(txs), {})
        next == IF Len(g.txs) = MaxBlockSize THEN g
                ELSE IF s.thrown THEN [g EXCEPT !.s = caught(undo(s))]
                ELSE [s |-> merge(s), txs |-> Append(g.txs, Head(txs))]
    IN  IF txs = << >> THEN g ELSE block_transactions(next, Tail(txs))

generate_block(x, slot) ==
    LET c1 == reset_session(x.c)
        g == block_transactions([s |-> start_undo_session(c1.s, FALSE), txs |-> << >>], c1.pending)
        y == [x EXCEPT !.c = [c1 EXCEPT !.s = undo(g.s)]]
    IN  push_block(y, Append(head_id(x.c.s), [slot |-> slot, txs |-> g.txs]), {})

-----------------------------------------------------------------------------
(***************************************************************************)
(* The files.  Of object_database there is the directory itself, the old   *)
(* one and the one that is being written; none or the saved objects.       *)
(***************************************************************************)
saved_objects(s) == [obj |-> s.obj, next |-> s.next]

no_files == [objects |-> {}, old |-> {}, tmp |-> {}, blocks |-> block_database]

\* flush up to its step n: write, move the old one away (which fails where there is one
\* already), move the new one there, remove the old one
flush(dk, s, n) ==
    LET written == [dk EXCEPT !.tmp = {saved_objects(s)}]
        moved == IF dk.objects = {} THEN written ELSE [written EXCEPT !.old = dk.objects, !.objects = {}]
        renamed == [moved EXCEPT !.objects = written.tmp, !.tmp = {}]
        stuck == dk.objects # {} /\ dk.old # {}
    IN  IF n = 0 THEN dk
        ELSE IF n = 1 \/ stuck THEN written
        ELSE IF n = 2 THEN moved
        ELSE IF n = 3 THEN renamed
        ELSE [renamed EXCEPT !.old = {}]

\* the blocks that are not irreversible yet are popped, and read again by the next open
RECURSIVE rewound_to(_, _)
rewound_to(cd, cutoff) ==
    LET y == pop_block(cd)
    IN  IF head_num(cd.s) <= cutoff THEN cd
        ELSE IF y.s.thrown THEN [y EXCEPT !.s = caught(@)]
        ELSE rewound_to([y EXCEPT !.fork = fork_remove(@, head_id(cd.s))], cutoff)

\* close, which a crash may interrupt during the flush
closed(x, n) ==
    LET cd == clear_pending(rewound_to(clear_pending(x.c), irreversible(x.c.s)))
        dk == flush(x.disk, cd.s, n)
    IN  [dk EXCEPT !.blocks = block_database_close(@)]

replay_skips == {"dupe", "tapos", "size"}

\* no block is pushed, so that none is stored or can be undone
reindex_block_skipping(x, b, skip) == [x EXCEPT !.c = apply_block(@, b, skip \cup {"dupe"})]

\* One block of reindex.  x has also the skips and the last block
reindex_block(x, b, skip) ==
    IF num(b) < Monus(num(x.last), UndoBlocks) THEN [x EXCEPT !.c = apply_block(@, b, skip)]
    ELSE push_block([x EXCEPT !.c.s.disabled = FALSE], b, skip)

\* the blocks from number i on, up to the last one or to a gap, behind which all are removed
RECURSIVE reindex_from(_, _)
reindex_from(x, i) ==
    LET at == fetch_by_number(x.disk.blocks, i)
        cut(bd) == FoldSet(LAMBDA n, r : block_database_remove(r, n), bd, (i + 1)..num(x.last))
        skip == IF head_time(x.c.s) + MaxExpiration >= Last(x.last).slot THEN x.skip \ {"dupe"} ELSE x.skip
    IN  IF x.c.s.thrown \/ i > num(x.last) THEN x
        ELSE IF at = {} THEN [x EXCEPT !.disk.blocks = cut(@)]
        ELSE reindex_from([reindex_block(x, CHOOSE b \in at : TRUE, skip) EXCEPT !.skip = skip], i + 1)

reindexed(x) == [c |-> [x.c EXCEPT !.s.disabled = FALSE], disk |-> x.disk]

reindex(x) ==
    LET bd == last_index_entry(x.disk.blocks)
        last == CHOOSE b \in fetch_by_number(bd, Len(bd.index)) : TRUE
        first == head_num(x.c.s)
        start == CHOOSE b \in fetch_by_number(bd, first) : TRUE
        c1 == IF first < Monus(num(last), UndoBlocks) THEN [x.c EXCEPT !.s.disabled = TRUE]
              ELSE IF first > 0 THEN [x.c EXCEPT !.fork = fork_start_block(@, start)]
              ELSE x.c
    IN  IF bd.index = << >> \/ num(last) <= first
        THEN [x EXCEPT !.disk.blocks = bd]
        ELSE reindexed(reindex_from([c |-> c1, disk |-> [x.disk EXCEPT !.blocks = bd],
                                     skip |-> replay_skips, last |-> last], first + 1))

\* A new process opens what is on the disk.  Ids are compared by their number first, so that the
\* last block may not be lower than the head of the objects
opened(dk) ==
    LET objects == IF dk.objects = {} THEN [obj |-> genesis_objects, next |-> no_ids]
                   ELSE CHOOSE o \in dk.objects : TRUE
        x == [c |-> new_database(objects.obj, objects.next), disk |-> dk]
        last == Len(last_index_entry(dk.blocks).index)
    IN  IF last > 0 /\ last < head_num(x.c.s) THEN [x EXCEPT !.c.s = assert(@, FALSE)] ELSE reindex(x)

-----------------------------------------------------------------------------
(***************************************************************************)
(* The actions.  A call that throws has its exception caught by whoever    *)
(* called; only open leaves a database that cannot be used.                *)
(***************************************************************************)
Init ==
    /\ scope \in Scopes
    /\ c = new_database(genesis_objects, no_ids)
    /\ disk = no_files
    /\ steps = [k \in Kinds |-> 0]

\* a database that could be opened
InUse == ~c.s.thrown

\* one more step of a kind
Counted(kind) ==
    /\ InUse
    /\ steps[kind] < MaxSteps(scope, kind)
    /\ steps' = [steps EXCEPT ![kind] = @ + 1]
    /\ scope' = scope

Becomes(x) == c' = [x.c EXCEPT !.s = caught(@)] /\ disk' = x.disk

x0 == [c |-> c, disk |-> disk]

\* What peers send: blocks on top of the ones that are known, the known ones again, and ones
\* that do not link.  Nobody builds a branch that leaves out an irreversible block, which takes
\* three witnesses of ten to sign twice
known_blocks == DOMAIN c.fork.index \cup {head_id(c.s)}
on_top(S) == UNION {{Append(b, body) : body \in Bodies(scope, b)} : b \in {y \in S : num(y) < MaxNum}}
offered_blocks ==
    {b \in (known_blocks \ {NoBlock}) \cup on_top(known_blocks) \cup on_top(on_top({head_id(c.s)})) :
        SubSeq(head_id(c.s), 1, irreversible(c.s)) = SubSeq(b, 1, MinOf(num(b), irreversible(c.s)))}

PushBlock ==
    /\ Counted("block")
    /\ \E b \in offered_blocks : Becomes(push_block(x0, b, {}))

PushTransaction ==
    /\ Counted("trx")
    /\ \E t \in Transactions : Becomes([x0 EXCEPT !.c = push_transaction(@, t, {})])

\* a witness of this node has its turn in the next slot or after one that was missed
GenerateBlock ==
    /\ Counted("generate")
    /\ head_num(c.s) < MaxNum
    /\ \E n \in 1..2 : Becomes(generate_block(x0, head_time(c.s) + n))

\* The process ends in an orderly way or crashes while it writes its objects; it crashes between
\* two calls; or in the middle of push_block, with the blocks stored that it has stored so far.
\* After a crash the last block is in none, one or both of the files.  A new process opens them
stored_by(b) ==
    LET bd == disk.blocks
        pushed == push_block(x0, b, {}).disk.blocks.blocks
    IN  {FoldLeft(store, bd, SubSeq(pushed, Len(bd.blocks) + 1, k)) : k \in (Len(bd.blocks) + 1)..Len(pushed)}

block_files(kind) == IF kind = "crash" THEN {disk.blocks} ELSE UNION {stored_by(b) : b \in offered_blocks}

files_left(kind) ==
    IF kind = "restart" THEN {closed(x0, n) : n \in 0..4}
    ELSE {[disk EXCEPT !.blocks = block_database_crash(bd, lb, li)] :
             bd \in block_files(kind), lb, li \in BOOLEAN}

Opens(x) == c' = x.c /\ disk' = x.disk

Restart ==
    \E kind \in {"restart", "crash", "cut"} :
        /\ Counted(kind)
        /\ \E dk \in files_left(kind) : Opens(opened(dk))

Next == PushBlock \/ PushTransaction \/ GenerateBlock \/ Restart

Spec == Init /\ [][Next]_vars

-----------------------------------------------------------------------------
(***************************************************************************)
(* What should be true.                                                    *)
(***************************************************************************)
EndsBy(kind) == steps'[kind] > steps[kind]
Ended == EndsBy("restart") \/ EndsBy("crash") \/ EndsBy("cut")
EndedBefore == steps["restart"] + steps["crash"] + steps["cut"] > 0

RECURSIVE apply_blocks(_, _, _, _)
apply_blocks(cd, b, n, skip) ==
    IF n = 0 THEN cd ELSE apply_block(apply_blocks(cd, b, n - 1, skip), SubSeq(b, 1, n), skip)

\* the objects after the blocks of b and then txs, of a database that saw nothing else
replayed(b, txs, skip) ==
    LET blank == [new_database(genesis_objects, no_ids) EXCEPT !.s.disabled = TRUE]
    IN  apply_transactions(apply_blocks(blank, b, num(b), skip).s, txs, skip)

\* all objects but the transactions, and the transactions, whose ids may be others because
\* replaying does not record them until it is near the last block
others(s) == [obj |-> [id \in {y \in DOMAIN s.obj : y[1] # "trx"} |-> s.obj[id]],
              next |-> [t \in {"proposal", "object"} |-> s.next[t]]]
recorded(s) == {s.obj[id] : id \in of_type(s, "trx")}

\* every block of the chain, and no other, is found by its number and by its id; a branch that the
\* fork database has leads to the chain
BlocksFound ==
    /\ \A n \in 1..head_num(c.s) :
          LET b == SubSeq(head_id(c.s), 1, n)
          IN  /\ fetch_block_by_number(x0, n) = {b}
              /\ fetch_block_by_id(x0, b) = {b}
              /\ fetch_block_id(disk.blocks, n) = {b}
              /\ contains_block(disk.blocks, b)
    /\ \A b \in DOMAIN c.fork.index :
          b # NoBlock /\ head_num(c.s) > 0 /\ ~fetch_branch_from(c.fork, head_id(c.s), b).thrown
              => IsPrefix(Last(get_block_ids_on_fork(x0, b)), head_id(c.s))

\* The objects are those of the head's chain and of the pending transactions, whatever blocks
\* came, went and failed before, in whatever order, and the blocks of that chain can be asked
\* for.  A process that has replayed its blocks may lack transactions that a switch of forks
\* brings back
StateOfChain ==
    LET r == replayed(head_id(c.s), c.pending, IF EndedBefore THEN {"dupe"} ELSE {})
    IN  InUse => /\ ~r.thrown
                 /\ others(c.s) = others(r)
                 /\ ~EndedBefore => recorded(c.s) = recorded(r)
                 /\ BlocksFound

\* the lowest block that the head is linked to in the fork database
fork_root(cd) ==
    LET at(n) == SubSeq(head_id(cd.s), 1, n)
        linked(n) == at(n) \in DOMAIN cd.fork.index /\ cd.fork.index[at(n)]
    IN  Min({n \in 0..head_num(cd.s) : \A k \in (n + 1)..head_num(cd.s) : linked(k)})

\* The undo history goes back to the irreversible block, as far as the fork database does, and
\* through the states of the blocks in between
HistoryReachesIrreversible ==
    LET s == IF c.session THEN undo(c.s) ELSE c.s
        pops == Monus(head_num(s), MaxOf(irreversible(s), fork_root(c)))
        back == [i \in 0..pops |-> FoldLeft(LAMBDA r, k : pop_commit(r), s, [k \in 1..i |-> k])]
    IN  InUse =>
        /\ s.active = 0
        /\ \A i \in 0..pops :
              /\ ~back[i].thrown
              /\ others(back[i]) = others(replayed(SubSeq(head_id(s), 1, head_num(s) - i), << >>, {"dupe"}))

\* The chain never gets shorter, nor changes to one that is no longer, also not by blocks that
\* fail or a switch that is given up
HeadNeverFalls ==
    [][\/ Ended
       \/ head_id(c'.s) = head_id(c.s)
       \/ head_num(c'.s) > head_num(c.s)]_vars

\* entries of two branches, which replaying refuses
Mixed(bd) == \E n \in 2..Len(bd.index) :
                fetch_by_number(bd, n) # {} /\ fetch_by_number(bd, n - 1) # {previous(bd.index[n].id)}

\* A new process has the objects of the chain it opens, and all transactions that could come again.
\* That chain is the one of the last process.  A crash between two calls may have lost its last
\* block, or, after a switch that was given up, the entry with which it came back, in whose place
\* is the block of the other branch; a crash in a push leaves the beginning of a chain that was
\* pushed.  Open is refused only if what a crash has left are blocks of two branches, which
\* takes a switch of forks that was given up or cut off
RestartRecovers ==
    [][Ended => LET r == replayed(head_id(c'.s), << >>, IF EndedBefore THEN {"dupe"} ELSE {})
                IN  IF c'.s.thrown THEN ~EndsBy("restart") /\ Mixed(disk'.blocks)
                    ELSE /\ \/ head_id(c'.s) = head_id(c.s)
                            \/ EndsBy("crash") /\ head_num(c.s) > 0 /\ head_id(c'.s) = previous(head_id(c.s))
                            \/ EndsBy("crash") /\ head_num(c'.s) = head_num(c.s) /\ head_id(c'.s) \in known_blocks
                            \/ EndsBy("cut") /\ \E b \in offered_blocks : IsPrefix(head_id(c'.s), b)
                         /\ others(c'.s) = others(r)
                         /\ ~EndedBefore => recorded(c'.s) = recorded(r)]_vars

\* A transaction that was pending, or in a block that is no longer part of the chain, is pending,
\* part of the chain, or cannot be applied any more; only the end of the process forgets it
TransactionsKept ==
    [][LET in_chain(b) == UNION {Range(b[i].txs) : i \in DOMAIN b}
           had == Range(c.pending) \cup in_chain(head_id(c.s))
           have == Range(c'.pending) \cup in_chain(head_id(c'.s))
       IN  ~Ended => \A t \in had \ have : apply_transaction(c'.s, t, {}).thrown]_vars

\* The purpose of a transaction_object "is to enable the detection of duplicate transactions"
\* (transaction_object.hpp:43): no transaction is in the chain twice
NoDuplicates ==
    LET b == head_id(c.s)
    IN  \A i, j \in DOMAIN b : i # j => Range(b[i].txs) \cap Range(b[j].txs) = {}

=============================================================================
