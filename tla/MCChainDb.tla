------------------------------- MODULE MCChainDb -------------------------------
(***************************************************************************)
(* Small instances of ChainDb.                                             *)
(***************************************************************************)
EXTENDS ChainDb

tx(ops, expiration, ref) ==
    [ops |-> ops, expiration |-> expiration, ref_block_num |-> num(ref), ref_block |-> ref]

op_create(v) == [kind |-> "create", value |-> v]
op_modify(n, v) == [kind |-> "modify", id |-> n, value |-> v]
op_remove(n) == [kind |-> "remove", id |-> n]
op_fail == [kind |-> "fail"]
op_propose(ops) == [kind |-> "propose", ops |-> ops]
op_approve(n) == [kind |-> "approve", id |-> n]

T1 == tx(<<op_create("a")>>, 2, NoBlock)
\* one that expires as late as it can in a block on top of the time t
fresh(t) == tx(<<op_create(t)>>, t + MaxExpiration, NoBlock)
T2 == tx(<<op_modify(0, "b")>>, 4, NoBlock)
T3 == tx(<<op_remove(0), op_create("c")>>, 4, NoBlock)
TF == tx(<<op_create("f"), op_fail>>, 4, NoBlock)

TP == tx(<<op_create("a"), op_propose(<<op_modify(0, "p")>>), op_propose(<<op_create("q"), op_fail>>)>>, 4, NoBlock)
TA == tx(<<op_approve(0)>>, 4, NoBlock)
TB == tx(<<op_approve(1), op_create("r")>>, 3, NoBlock)

MCTransactions == {T1, T2, T3, TP, TA, TB}
body(slot, txs) == [slot |-> slot, txs |-> txs]

\* Forks: branches that depend on one transaction, do not apply, or apply in the wrong order.
\* Proposals: sessions within those of pending transactions and of blocks.
\* Restart: transactions as late as they may come, and a branch without them.
\* Crashes: two branches, of which one may fail where it gets longer, and a crash at any point.
\* Duplicates: a transaction that comes again on another branch after a restart.
MCBodies(s, b) ==
    LET t == IF b = NoBlock THEN 0 ELSE Last(b).slot
        late == {body(t + 1, <<fresh(t)>>), body(t + 2, << >>)}
    IN  CASE s = "forks" -> {body(t + 1, << >>), body(t + 1, <<T1>>), body(t + 2, <<T2>>)} \cup {body(t + 1, <<TF>>) : y \in {3} \cap {num(b) + 1}}
          [] s = "proposals" -> {body(t + 1, <<TP>>), body(t + 1, <<TA>>), body(t + 2, <<T3, T1>>)}
          [] s = "restart" -> late
          [] s = "crashes" -> CASE num(b) = 1 -> {body(t + 1, << >>), body(t + 2, << >>)}
                                [] num(b) = 3 -> {body(t + 1, << >>), body(t + 1, <<TF>>)}
                                [] OTHER -> {body(t + 2, << >>)}
          [] s = "duplicates" -> late \cup {body(t + 1, <<fresh(0)>>)}

MCMaxSteps(s, k) ==
    CASE s = "forks" -> CASE k = "block" -> 5 [] OTHER -> 0
      [] s = "proposals" -> CASE k = "block" -> 3 [] k = "trx" -> 2 [] k = "generate" -> 1 [] OTHER -> 0
      [] s = "restart" -> CASE k = "block" -> 4 [] k = "restart" -> 2 [] k = "crash" -> 1 [] OTHER -> 0
      [] s = "crashes" -> CASE k = "block" -> 6 [] k \in {"crash", "cut"} -> 1 [] OTHER -> 0
      [] s = "duplicates" -> CASE k = "block" -> 4 [] k = "restart" -> 1 [] OTHER -> 0
=============================================================================
