------------------------------ MODULE Operations ------------------------------
(***************************************************************************)
(* The remaining operations (confidential transfers, assert, custom), the  *)
(* fee schedule, the generic evaluator that pays the fee around every      *)
(* operation, and the transaction.                                         *)
(*                                                                         *)
(* A commitment is [id, value]: what it hides is in the model, and         *)
(* verify_sum compares the sums.  The part of a fee for the size of the    *)
(* data is one unit for a memo and nothing for the rest.                   *)
(***************************************************************************)
EXTENDS GovernanceOps

-----------------------------------------------------------------------------
(***************************************************************************)
(* Confidential transfers.  d.blind maps the id of a commitment to its     *)
(* asset, owner and value.                                                 *)
(***************************************************************************)
commitment(id, value, owner) == [id |-> id, value |-> value, owner |-> owner]
hidden(cs) == SumOver(DOMAIN cs, LAMBDA i : cs[i].value)
sorted_commitments(cs) == \A i \in 2..Len(cs) : cs[i - 1].id < cs[i].id

transfer_to_blind_operation(fee, from, amount, outputs) ==
    [type |-> "transfer_to_blind", fee |-> fee, payer |-> from, from |-> from,
     amount |-> amount, outputs |-> outputs]

transfer_to_blind_validate(op) ==
    /\ op.amount.amount > 0
    /\ sorted_commitments(op.outputs)
    /\ \A c \in Range(op.outputs) : ~is_impossible(c.owner)
    /\ op.outputs # << >>
    /\ hidden(op.outputs) = op.amount.amount

owners_exist(d, outputs) ==
    \A c \in Range(outputs) : \A s \in DOMAIN c.owner.auths :
        s[1] = "account" => s[2] \in DOMAIN d.acct

transfer_to_blind_evaluate(d, op) ==
    /\ op.amount.asset_id \in DOMAIN d.asset
    /\ LET a == d.asset[op.amount.asset_id]
       IN  allow_confidential(a) /\ ~is_transfer_restricted(a) /\ "white_list" \notin a.flags
    /\ owners_exist(d, op.outputs)

\* the index of blinded balances is unique by commitment
create_blinded(d, a, outputs) ==
    FoldLeft(LAMBDA e, c : [Check(e, c.id \notin DOMAIN e.blind) EXCEPT
                               !.blind = Put(@, c.id, [asset |-> a, owner |-> c.owner,
                                                       value |-> c.value])],
             d, outputs)

confidential_supply(d, a, delta) ==
    [Check(d, d.dyn[a].confidential_supply + delta >= 0) EXCEPT
        !.dyn[a].confidential_supply = @ + delta]

transfer_to_blind_apply(d, op) ==
    create_blinded(confidential_supply(adjust_balance(d, op.from, Neg(op.amount)),
                                       op.amount.asset_id, op.amount.amount),
                   op.amount.asset_id, op.outputs)

\* inputs are commitments, with the owner that the operation claims for them
inputs_evaluate(d, op) ==
    \A c \in Range(op.inputs) :
        /\ c.id \in DOMAIN d.blind
        /\ d.blind[c.id].asset = op.fee.asset_id
        /\ d.blind[c.id].owner = c.owner

spend_inputs(d, inputs) ==
    FoldLeft(LAMBDA e, c : [Check(e, c.id \in DOMAIN e.blind) EXCEPT !.blind = Erase(@, c.id)],
             d, inputs)

transfer_from_blind_operation(fee, amount, to, inputs) ==
    [type |-> "transfer_from_blind", fee |-> fee, payer |-> GRAPHENE_TEMP_ACCOUNT,
     amount |-> amount, to |-> to, inputs |-> inputs]

transfer_from_blind_validate(op) ==
    /\ op.amount.amount > 0
    /\ op.inputs # << >>
    /\ op.amount.asset_id = op.fee.asset_id
    /\ sorted_commitments(op.inputs)
    /\ hidden(op.inputs) = op.fee.amount + op.amount.amount

transfer_from_blind_evaluate(d, op) == op.fee.asset_id \in DOMAIN d.asset /\ inputs_evaluate(d, op)

transfer_from_blind_apply(d, op) ==
    confidential_supply(
        spend_inputs(adjust_balance(adjust_balance(d, op.payer, op.fee), op.to, op.amount),
                     op.inputs),
        op.amount.asset_id, -(op.amount.amount + op.fee.amount))

blind_transfer_operation(fee, inputs, outputs) ==
    [type |-> "blind_transfer", fee |-> fee, payer |-> GRAPHENE_TEMP_ACCOUNT,
     inputs |-> inputs, outputs |-> outputs]

blind_transfer_validate(op) ==
    /\ sorted_commitments(op.inputs)
    /\ sorted_commitments(op.outputs)
    /\ \A c \in Range(op.outputs) : ~is_impossible(c.owner)
    /\ op.inputs # << >>
    /\ hidden(op.inputs) = hidden(op.outputs) + op.fee.amount

blind_transfer_evaluate(d, op) ==
    /\ op.fee.asset_id \in DOMAIN d.asset
    /\ owners_exist(d, op.outputs)
    /\ inputs_evaluate(d, op)

blind_transfer_apply(d, op) ==
    confidential_supply(
        create_blinded(spend_inputs(adjust_balance(d, op.payer, op.fee), op.inputs),
                       op.fee.asset_id, op.outputs),
        op.fee.asset_id, -op.fee.amount)

-----------------------------------------------------------------------------
\* a predicate names an account or an asset and what it should be called
assert_operation(fee, payer, predicates) ==
    [type |-> "assert", fee |-> fee, payer |-> payer, predicates |-> predicates]

assert_evaluate(d, op) ==
    \A p \in Range(op.predicates) :
        IF p.kind = "account_name_eq_lit"
        THEN p.account \in DOMAIN d.acct /\ d.acct[p.account].name = p.name
        ELSE p.asset \in DOMAIN d.asset /\ d.asset[p.asset].symbol = p.symbol

assert_apply(d, op) == d

custom_operation(fee, payer, required_auths) ==
    [type |-> "custom", fee |-> fee, payer |-> payer, required_auths |-> required_auths]

custom_validate(op) == op.fee.amount > 0

-----------------------------------------------------------------------------
(***************************************************************************)
(* Fees backed assets: the fees of confidential transfers go to an         *)
(* accumulator, from which maintenance buys the asset back.                *)
(***************************************************************************)
fba_is_configured(d, fba) ==
    \E a \in fba.designated_asset :
        /\ a \in DOMAIN d.asset
        /\ ~is_market_issued(d.asset[a])
        /\ d.asset[a].perms \subseteq {"charge_market_fee"}
        /\ d.asset[a].flags \subseteq {"charge_market_fee"}
        /\ Valid(d.asset[a].buyback)
        /\ LET issuer == d.acct[d.asset[a].issuer]
           IN  /\ \A s \in {issuer.owner_special, issuer.active_special} :
                      s.kind = "top_holders" /\ s.asset = a
               /\ issuer.top_n = {"owner", "active"}

pay_fba_fee(d, id, payer, core_fee) ==
    IF fba_is_configured(d, d.fba[id])
    THEN [d EXCEPT !.fba[id].accumulated_fba_fees = @ + core_fee]
    ELSE pay_fee(d, payer, core_fee)

-----------------------------------------------------------------------------
(***************************************************************************)
(* fee_schedule.                                                           *)
(***************************************************************************)
calculate_data_fee(op) == IF "memo" \in DOMAIN op THEN (IF op.memo THEN 1 ELSE 0) ELSE 0

base_fee(d, op) ==
    LET k == d.gpo.fees
    IN  CASE op.type = "account_create" ->
                 IF is_cheap_name(op.name) THEN d.gpo.basic_fee ELSE k.premium
          [] op.type = "account_upgrade" ->
                 IF op.upgrade_to_lifetime_member THEN k.lifetime ELSE k.annual
          [] op.type = "asset_create" ->
                 CASE Len(op.symbol) = 3 -> k.symbol3
                   [] Len(op.symbol) = 4 -> k.symbol4
                   [] OTHER -> k.long_symbol
          [] op.type = "assert" -> k.fee * Len(op.predicates)
          [] op.type \in {"transfer_to_blind", "blind_transfer"} ->
                 k.fee + Len(op.outputs) * k.price_per_output
          [] op.type = "balance_claim" -> 0
          [] OTHER -> k.fee + calculate_data_fee(op)

\* in the core asset
calculate_fee(d, op) == (base_fee(d, op) * d.gpo.fees.scale) \div GRAPHENE_100_PERCENT

\* what has to be paid in another asset: the least amount worth the fee.  The loop
\* looks at result * rate, which is rounded down
calculate_fee_in(core_fee, rate) ==
    CHOOSE n \in 0..core_fee * 100 :
        LET a == IF rate.base.asset_id = CORE THEN rate.quote.asset_id ELSE rate.base.asset_id
            start == mul(CoreAsset(core_fee), rate).amount
            worth(x) == mul(Asset(x, a), rate).amount
        IN  /\ n >= start
            /\ worth(n) >= core_fee
            /\ \A m \in start..n - 1 : worth(m) < core_fee

-----------------------------------------------------------------------------
(***************************************************************************)
(* The evaluators of the operations.                                       *)
(***************************************************************************)
operation_validate_flat(op) ==
    /\ op.fee.amount >= 0
    /\ CASE op.type = "transfer" -> transfer_validate(op)
         [] op.type = "override_transfer" -> override_transfer_validate(op)
         [] op.type = "vesting_balance_create" -> vesting_balance_create_validate(op)
         [] op.type = "vesting_balance_withdraw" -> vesting_balance_withdraw_validate(op)
         [] op.type = "balance_claim" -> balance_claim_validate(op)
         [] op.type = "withdraw_permission_create" -> withdraw_permission_create_validate(op)
         [] op.type = "withdraw_permission_update" -> withdraw_permission_update_validate(op)
         [] op.type = "withdraw_permission_claim" -> withdraw_permission_claim_validate(op)
         [] op.type = "withdraw_permission_delete" -> withdraw_permission_delete_validate(op)
         [] op.type = "account_create" -> account_create_validate(op)
         [] op.type = "account_update" -> account_update_validate(op)
         [] op.type = "account_whitelist" -> account_whitelist_validate(op)
         [] op.type = "limit_order_create" -> limit_order_create_validate(op)
         [] op.type = "call_order_update" -> call_order_update_validate(op)
         [] op.type = "bid_collateral" -> bid_collateral_validate(op)
         [] op.type = "asset_create" -> asset_create_validate(op)
         [] op.type = "asset_issue" -> asset_issue_validate(op)
         [] op.type = "asset_reserve" -> asset_reserve_validate(op)
         [] op.type = "asset_fund_fee_pool" -> asset_fund_fee_pool_validate(op)
         [] op.type = "asset_update" -> asset_update_validate(op)
         [] op.type = "asset_update_issuer" -> asset_update_issuer_validate(op)
         [] op.type = "asset_update_bitasset" -> asset_update_bitasset_validate(op)
         [] op.type = "asset_publish_feed" -> asset_publish_feed_validate(op)
         [] op.type = "asset_global_settle" -> asset_global_settle_validate(op)
         [] op.type = "asset_settle" -> asset_settle_validate(op)
         [] op.type = "asset_claim_fees" -> asset_claim_fees_validate(op)
         [] op.type = "asset_claim_pool" -> asset_claim_pool_validate(op)
         [] op.type = "proposal_update" -> proposal_update_validate(op)
         [] op.type = "committee_member_update_global_parameters" ->
                chain_parameters_validate(op.new_parameters)
         [] op.type = "worker_create" -> worker_create_validate(op)
         [] op.type = "transfer_to_blind" -> transfer_to_blind_validate(op)
         [] op.type = "transfer_from_blind" -> transfer_from_blind_validate(op)
         [] op.type = "blind_transfer" -> blind_transfer_validate(op)
         [] op.type = "custom" -> custom_validate(op)
         [] OTHER -> TRUE

\* the proposed operations are validated, to one level here
proposal_create_validate(op) ==
    op.ops # << >> /\ \A i \in DOMAIN op.ops : operation_validate_flat(op.ops[i])

operation_validate(op) ==
    IF op.type = "proposal_create" THEN op.fee.amount >= 0 /\ proposal_create_validate(op)
    ELSE operation_validate_flat(op)

do_evaluate(d, op, proposed) ==
    CASE op.type = "transfer" -> transfer_evaluate(d, op)
      [] op.type = "override_transfer" -> override_transfer_evaluate(d, op)
      [] op.type = "vesting_balance_create" -> vesting_balance_create_evaluate(d, op)
      [] op.type = "vesting_balance_withdraw" -> vesting_balance_withdraw_evaluate(d, op)
      [] op.type = "balance_claim" -> balance_claim_evaluate(d, op)
      [] op.type = "withdraw_permission_create" -> withdraw_permission_create_evaluate(d, op)
      [] op.type = "withdraw_permission_update" -> withdraw_permission_update_evaluate(d, op)
      [] op.type = "withdraw_permission_claim" -> withdraw_permission_claim_evaluate(d, op)
      [] op.type = "withdraw_permission_delete" -> withdraw_permission_delete_evaluate(d, op)
      [] op.type = "account_create" -> account_create_evaluate(d, op)
      [] op.type = "account_update" -> account_update_evaluate(d, op)
      [] op.type = "account_whitelist" -> account_whitelist_evaluate(d, op)
      [] op.type = "account_upgrade" -> account_upgrade_evaluate(d, op)
      [] op.type = "limit_order_create" -> limit_order_create_evaluate(d, op)
      [] op.type = "limit_order_cancel" -> limit_order_cancel_evaluate(d, op)
      [] op.type = "call_order_update" -> call_order_update_evaluate(d, op)
      [] op.type = "bid_collateral" -> bid_collateral_evaluate(d, op)
      [] op.type = "asset_create" -> asset_create_evaluate(d, op)
      [] op.type = "asset_issue" -> asset_issue_evaluate(d, op)
      [] op.type = "asset_reserve" -> asset_reserve_evaluate(d, op)
      [] op.type = "asset_fund_fee_pool" -> asset_fund_fee_pool_evaluate(d, op)
      [] op.type = "asset_update" -> asset_update_evaluate(d, op)
      [] op.type = "asset_update_issuer" -> asset_update_issuer_evaluate(d, op)
      [] op.type = "asset_update_bitasset" -> asset_update_bitasset_evaluate(d, op)
      [] op.type = "asset_update_feed_producers" -> asset_update_feed_producers_evaluate(d, op)
      [] op.type = "asset_publish_feed" -> asset_publish_feed_evaluate(d, op)
      [] op.type = "asset_global_settle" -> asset_global_settle_evaluate(d, op)
      [] op.type = "asset_settle" -> asset_settle_evaluate(d, op)
      [] op.type = "asset_claim_fees" -> asset_claim_fees_evaluate(d, op)
      [] op.type = "asset_claim_pool" -> asset_claim_pool_evaluate(d, op)
      [] op.type = "proposal_create" -> proposal_create_evaluate(d, op)
      [] op.type = "proposal_update" -> proposal_update_evaluate(d, op)
      [] op.type = "proposal_delete" -> proposal_delete_evaluate(d, op)
      [] op.type = "witness_create" -> witness_create_evaluate(d, op)
      [] op.type = "witness_update" -> witness_update_evaluate(d, op)
      [] op.type = "committee_member_create" -> committee_member_create_evaluate(d, op)
      [] op.type = "committee_member_update" -> committee_member_update_evaluate(d, op)
      [] op.type = "committee_member_update_global_parameters" ->
             update_global_parameters_evaluate(proposed)
      [] op.type = "worker_create" -> worker_create_evaluate(d, op)
      [] op.type = "transfer_to_blind" -> transfer_to_blind_evaluate(d, op)
      [] op.type = "transfer_from_blind" -> transfer_from_blind_evaluate(d, op)
      [] op.type = "blind_transfer" -> blind_transfer_evaluate(d, op)
      [] op.type = "assert" -> assert_evaluate(d, op)
      [] OTHER -> TRUE

\* all but proposal_update, which applies other operations
do_apply(d, op) ==
    CASE op.type = "transfer" -> transfer_apply(d, op)
      [] op.type = "override_transfer" -> override_transfer_apply(d, op)
      [] op.type = "vesting_balance_create" -> vesting_balance_create_apply(d, op)
      [] op.type = "vesting_balance_withdraw" -> vesting_balance_withdraw_apply(d, op)
      [] op.type = "balance_claim" -> balance_claim_apply(d, op)
      [] op.type = "withdraw_permission_create" -> withdraw_permission_create_apply(d, op)
      [] op.type = "withdraw_permission_update" -> withdraw_permission_update_apply(d, op)
      [] op.type = "withdraw_permission_claim" -> withdraw_permission_claim_apply(d, op)
      [] op.type = "withdraw_permission_delete" -> withdraw_permission_delete_apply(d, op)
      [] op.type = "account_create" -> account_create_apply(d, op)
      [] op.type = "account_update" -> account_update_apply(d, op)
      [] op.type = "account_whitelist" -> account_whitelist_apply(d, op)
      [] op.type = "account_upgrade" -> account_upgrade_apply(d, op)
      [] op.type = "limit_order_create" -> limit_order_create_apply(d, op)
      [] op.type = "limit_order_cancel" -> limit_order_cancel_apply(d, op)
      [] op.type = "call_order_update" -> call_order_update_apply(d, op)
      [] op.type = "bid_collateral" -> bid_collateral_apply(d, op)
      [] op.type = "asset_create" -> asset_create_apply(d, op)
      [] op.type = "asset_issue" -> asset_issue_apply(d, op)
      [] op.type = "asset_reserve" -> asset_reserve_apply(d, op)
      [] op.type = "asset_fund_fee_pool" -> asset_fund_fee_pool_apply(d, op)
      [] op.type = "asset_update" -> asset_update_apply(d, op)
      [] op.type = "asset_update_issuer" -> asset_update_issuer_apply(d, op)
      [] op.type = "asset_update_bitasset" -> asset_update_bitasset_apply(d, op)
      [] op.type = "asset_update_feed_producers" -> asset_update_feed_producers_apply(d, op)
      [] op.type = "asset_publish_feed" -> asset_publish_feed_apply(d, op)
      [] op.type = "asset_global_settle" -> asset_global_settle_apply(d, op)
      [] op.type = "asset_settle" -> asset_settle_apply(d, op)
      [] op.type = "asset_claim_fees" -> asset_claim_fees_apply(d, op)
      [] op.type = "asset_claim_pool" -> asset_claim_pool_apply(d, op)
      [] op.type = "proposal_create" -> proposal_create_apply(d, op)
      [] op.type = "proposal_delete" -> proposal_delete_apply(d, op)
      [] op.type = "witness_create" -> witness_create_apply(d, op)
      [] op.type = "witness_update" -> witness_update_apply(d, op)
      [] op.type = "committee_member_create" -> committee_member_create_apply(d, op)
      [] op.type = "committee_member_update" -> committee_member_update_apply(d, op)
      [] op.type = "committee_member_update_global_parameters" ->
             update_global_parameters_apply(d, op)
      [] op.type = "worker_create" -> worker_create_apply(d, op)
      [] op.type = "transfer_to_blind" -> transfer_to_blind_apply(d, op)
      [] op.type = "transfer_from_blind" -> transfer_from_blind_apply(d, op)
      [] op.type = "blind_transfer" -> blind_transfer_apply(d, op)
      [] op.type = "assert" -> assert_apply(d, op)
      [] OTHER -> d

\* evaluator::evaluate
evaluate(d, op, proposed) ==
    /\ prepare_fee(d, op.payer, op.fee)
    /\ core_fee_paid(d, op.fee) >= calculate_fee(d, op)
    /\ do_evaluate(d, op, proposed)

\* what convert_fee and pay_fee, overridden by some evaluators, do
fee_paid(d, op) ==
    LET core_fee == core_fee_paid(d, op.fee)
        d1 == convert_fee(d, op.fee)
    IN  CASE op.type = "limit_order_create" -> limit_order_create_convert_fee(d, op.fee)
          [] op.type = "asset_create" -> asset_create_pay_fee(d1, op.payer, core_fee)
          [] op.type \in {"transfer_to_blind", "transfer_from_blind", "blind_transfer"} ->
                 pay_fba_fee(d1, op.type, op.payer, core_fee)
          [] OTHER -> pay_fee(d1, op.payer, core_fee)

-----------------------------------------------------------------------------
(***************************************************************************)
(* Operations that execute proposals that execute operations, nested is    *)
(* how deep.                                                               *)
(***************************************************************************)
RECURSIVE apply_operation(_, _, _)

\* all the operations in a session of their own, or none
push_proposal(d, id, nested) ==
    LET d1 == FoldLeft(LAMBDA e, o : IF e.ok THEN apply_operation(e, o, nested + 1) ELSE e,
                       Check(d, nested < 2 * Cardinality(d.gpo.active_witnesses)), d.prop[id].ops)
    IN  IF d1.ok /\ id \in DOMAIN d1.prop THEN remove_proposal(d1, id) ELSE Check(d, FALSE)

\* a failure is written down; the proposal is tried again when it expires
try_proposal(d, id, nested) ==
    LET r == push_proposal(d, id, nested)
    IN  IF r.ok THEN r ELSE [d EXCEPT !.prop[id].failed = TRUE]

proposal_update_apply(d, op, nested) ==
    LET d1 == approved_now(d, op)
    IN  IF Valid(d1.prop[op.proposal].review) \/ ~is_authorized_to_execute(d1, op.proposal)
        THEN d1
        ELSE try_proposal(d1, op.proposal, nested)

executed(d, op, nested) ==
    IF op.type = "proposal_update" THEN proposal_update_apply(d, op, nested) ELSE do_apply(d, op)

fee_charged(d, op) == IF d.ok THEN adjust_balance(d, op.payer, Neg(op.fee)) ELSE d

\* evaluate and evaluator::apply
apply_operation(d, op, nested) ==
    IF ~evaluate(d, op, nested > 0) THEN Check(d, FALSE)
    ELSE fee_charged(executed(fee_paid(d, op), op, nested), op)

\* a transaction: a name, its operations, the keys that signed it, its expiration
Transaction(id, ops, sigs, expiration) ==
    [id |-> id, ops |-> ops, sigs |-> sigs, expiration |-> expiration]

transaction_ok(d, trx) ==
    /\ trx.ops # << >>
    /\ \A i \in DOMAIN trx.ops : operation_validate(trx.ops[i])
    /\ \A t \in d.trxs : t[1] # trx.id
    /\ verify_authority(d, trx.ops, trx.sigs, FALSE, {}, {}) = "ok"
    /\ d.dgp.head_block_number > 0
           => trx.expiration \in d.now..d.now + d.gpo.maximum_time_until_expiration

\* _apply_transaction: d.trxs has the transactions that are not expired
apply_transaction(d, trx) ==
    IF ~transaction_ok(d, trx) THEN Check(d, FALSE)
    ELSE FoldLeft(LAMBDA e, op : IF e.ok THEN apply_operation(e, op, 0) ELSE e,
                  [d EXCEPT !.trxs = @ \cup {<<trx.id, trx.expiration>>}], trx.ops)

=============================================================================
