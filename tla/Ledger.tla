-------------------------------- MODULE Ledger --------------------------------
(***************************************************************************)
(* The state machine of the chain library: transactions are pushed between *)
(* blocks, and a block brings time, expirations and maintenance.           *)
(*                                                                         *)
(* A transaction that throws changes nothing (the undo session of          *)
(* push_transaction), so only those that succeed are steps.  They are      *)
(* signed the way a wallet signs: with what minimize_required_signatures   *)
(* picks of the keys there are.                                            *)
(*                                                                         *)
(* A run looks at several scopes.  A scope has a genesis, a setup (some    *)
(* transactions and blocks that follow it) and the transactions that are   *)
(* offered in a state after the setup.                                     *)
(***************************************************************************)
EXTENDS ChainMaint

-----------------------------------------------------------------------------
(***************************************************************************)
(* The database before the first block (db_init.cpp, init_genesis), from a *)
(* genesis state: the special accounts, the core asset and the parameters, *)
(* then the initial accounts, assets, balances, witnesses, committee and   *)
(* workers, created by the operations of the chain at no fee.              *)
(***************************************************************************)

\* apply_operation, outside any transaction
apply_genesis(d, op) == apply_operation(d, op, 0)

zero_fees == [fee |-> 0, premium |-> 0, lifetime |-> 0, annual |-> 0, symbol3 |-> 0,
              symbol4 |-> 0, long_symbol |-> 0, price_per_output |-> 0,
              scale |-> GRAPHENE_100_PERCENT]

\* the parameters of the chain, at the scale of the model, with no fees
chain_parameters ==
    [block_interval |-> 1, maintenance_interval |-> 4, maintenance_skip_slots |-> 0,
     committee_proposal_review_period |-> 1, maximum_time_until_expiration |-> 4,
     maximum_proposal_lifetime |-> 6, max_feed_publishers |-> 3, max_witness |-> 5,
     max_committee |-> 5, max_authority_membership |-> 3, max_authority_depth |-> 2,
     network_percent_of_fee |-> 2000, lifetime_referrer_percent_of_fee |-> 3000,
     cashback_period |-> 4, cashback_threshold |-> 2, witness_pay_vesting |-> 2,
     count_non_member_votes |-> TRUE, allow_non_member_whitelists |-> FALSE,
     witness_pay_per_block |-> 0, worker_budget_per_day |-> 0,
     accounts_per_fee_scale |-> 1000, account_fee_scale_bitshifts |-> 1,
     fees |-> zero_fees, basic_fee |-> 0, cancel_fee |-> 0]

immutable_chain_parameters == [min_witness_count |-> 1, min_committee_member_count |-> 1]

\* accounts: of each, whether it is a lifetime member; its keys are named after its id.
\* assets: [issuer, max_supply, is_bitasset, collateral], the last a sequence of
\* [collateral, debt].  balances: [owner, asset, amount]; vesting: also [begin, duration]
genesis_state ==
    [initial_timestamp |-> 1, max_core_supply |-> 100, parameters |-> chain_parameters,
     immutable |-> immutable_chain_parameters,
     accounts |-> <<TRUE>>, assets |-> << >>, balances |-> << >>, vesting |-> << >>,
     active_witnesses |-> 1, witnesses |-> <<6>>, committee |-> << >>, workers |-> << >>]

special_account(id) ==
    LET auth == Authority(IF id = GRAPHENE_TEMP_ACCOUNT THEN 0 ELSE 1, << >>)
        of_null == id \in {GRAPHENE_NULL_ACCOUNT, GRAPHENE_PROXY_TO_SELF_ACCOUNT}
        referrer == IF id = GRAPHENE_PROXY_TO_SELF_ACCOUNT THEN GRAPHENE_NULL_ACCOUNT ELSE id
    IN  [account_object(id) EXCEPT
            !.owner = auth, !.active = auth, !.registrar = referrer, !.referrer = referrer,
            !.lifetime_referrer = referrer,
            !.network_pct = IF of_null THEN 0 ELSE @,
            !.lifetime_pct = IF of_null THEN GRAPHENE_100_PERCENT ELSE @]

global_property_object(g) ==
    [next_available_vote_id |-> 0, active_witnesses |-> {}, active_committee_members |-> {}]
        @@ [fees |-> zero_fees, basic_fee |-> 0] @@ g.parameters @@ g.immutable

dynamic_global_property_object ==
    [head_block_number |-> 0, next_maintenance_time |-> 0, last_budget_time |-> 0,
     witness_budget |-> 0, accounts_registered |-> 0, recently_missed_count |-> 0,
     current_aslot |-> 0, maintenance_flag |-> FALSE, last_irreversible_block_num |-> 0]

\* the objects that come before the operations; the committee holds all there is
initial_objects(g) ==
    LET special == GRAPHENE_COMMITTEE_ACCOUNT..GRAPHENE_PROXY_TO_SELF_ACCOUNT
        core == [asset_object(GRAPHENE_NULL_ACCOUNT) EXCEPT
                    !.symbol = <<"B", "T", "S">>, !.max_supply = g.max_core_supply, !.perms = {},
                    !.cer = {Price(CoreAsset(1), CoreAsset(1))}]
    IN  [ok |-> TRUE, now |-> g.initial_timestamp,
         bal |-> [k \in {<<GRAPHENE_COMMITTEE_ACCOUNT, CORE>>} |-> MAX_SUPPLY], flagged |-> {},
         acct |-> [id \in special |-> special_account(id)],
         stat |-> [id \in special |-> [account_statistics_object EXCEPT
                      !.core_in_balance = IF id = GRAPHENE_COMMITTEE_ACCOUNT THEN MAX_SUPPLY
                                          ELSE 0]],
         member |-> << >>, before |-> {},
         asset |-> [a \in {CORE} |-> core],
         dyn |-> [a \in {CORE} |-> [asset_dynamic_data_object EXCEPT
                                       !.current_supply = MAX_SUPPLY]],
         bit |-> << >>, vest |-> << >>, gbal |-> << >>, permit |-> << >>, limit |-> << >>,
         call |-> << >>, settle |-> << >>, bid |-> << >>, wit |-> << >>, comm |-> << >>,
         work |-> << >>, special |-> {}, buyback |-> {},
         gpo |-> global_property_object(g), pending_parameters |-> None,
         dgp |-> dynamic_global_property_object, prop |-> << >>, next_proposal |-> 0,
         approvals |-> << >>, blind |-> << >>, trxs |-> {}, schedule |-> << >>,
         fba |-> [id \in {"transfer_to_blind", "transfer_from_blind", "blind_transfer"} |->
                     [accumulated_fba_fees |-> 0, designated_asset |-> None]]]

key_authority(kind, id) == Authority(1, [k \in {<<kind, id>>} |-> 1])

\* registered by the temp account, referred by the committee, which is the default
genesis_account(d, owner, active) ==
    LET id == NextId(d.acct)
    IN  apply_genesis(d, account_create_operation(CoreAsset(0), GRAPHENE_TEMP_ACCOUNT,
            GRAPHENE_COMMITTEE_ACCOUNT, 0, [i \in 1..id + 1 |-> "c"], owner, active,
            account_options, None, None, None))

upgraded(d, id, lifetime) ==
    IF lifetime THEN apply_genesis(d, account_upgrade_operation(CoreAsset(0), id, TRUE)) ELSE d

initial_account(d, lifetime) ==
    LET id == NextId(d.acct)
    IN  upgraded(genesis_account(d, key_authority("owner", id), key_authority("active", id)),
                 id, lifetime)

\* each position of a bitasset is held by an account of its own
initial_position(d, mia, p) ==
    LET id == NextId(d.acct)
        key == key_authority("owner", id)
        call == call_order_object(id, p.collateral, p.debt,
                    call_price(Asset(p.debt, mia), CoreAsset(p.collateral), 1750), None)
    IN  [genesis_account(d, key, key) EXCEPT
            !.stat[id].total_core_in_orders = p.collateral, !.call = Insert(@, call)]

initial_asset(d, a) ==
    LET id == NextId(d.asset)
        bit == a.is_bitasset
        new == [asset_object(a.issuer) EXCEPT
                   !.symbol = [i \in 1..id + 2 |-> "A"], !.max_supply = a.max_supply,
                   !.flags = {"witness_fed_asset"}, !.market_issued = bit,
                   !.perms = @ \cup IF bit THEN {"disable_force_settle", "global_settle",
                                                 "witness_fed_asset", "committee_fed_asset"}
                                    ELSE {}]
    IN  [IF bit THEN FoldLeft(LAMBDA e, p : initial_position(e, id, p), d, a.collateral) ELSE d
         EXCEPT !.asset = Put(@, id, new),
                !.dyn = Put(@, id, asset_dynamic_data_object),
                !.bit = IF bit THEN Put(@, id, asset_bitasset_data_object) ELSE @]

\* the sum of what is handed out of an asset; the debts of a bitasset have to match it
total_supply(d, a) ==
    SumOver({b \in DOMAIN d.gbal : d.gbal[b].balance.asset_id = a},
            LAMBDA b : d.gbal[b].balance.amount)
    + IF a = CORE THEN SumOver(DOMAIN d.call, LAMBDA c : d.call[c].collateral) ELSE 0
total_debt(d, a) ==
    SumOver({c \in DOMAIN d.call : debt_type(d.call[c]) = a}, LAMBDA c : d.call[c].debt)

balance_supplies(d) ==
    LET core == total_supply(d, CORE)
        d1 == IF core > 0
              THEN adjust_balance(d, GRAPHENE_COMMITTEE_ACCOUNT,
                       CoreAsset(-get_balance(d, GRAPHENE_COMMITTEE_ACCOUNT, CORE)))
              ELSE d
    IN  [Check(d1, \A a \in DOMAIN d.bit : total_supply(d, a) = total_debt(d, a)) EXCEPT
            !.dyn = [a \in DOMAIN @ |-> [@[a] EXCEPT
                        !.current_supply = IF a = CORE /\ core = 0 THEN MAX_SUPPLY
                                           ELSE total_supply(d, a)]]]

with_accounts(d, g) == FoldLeft(initial_account, d, g.accounts)
with_assets(d, g) == FoldLeft(initial_asset, d, g.assets)

with_balances(d, g) ==
    FoldLeft(LAMBDA e, b : [e EXCEPT !.gbal =
                 Insert(@, balance_object(b.owner, Asset(b.amount, b.asset), None))],
             d, g.balances)

with_vesting_balances(d, g) ==
    FoldLeft(LAMBDA e, b : [e EXCEPT !.gbal =
                 Insert(@, balance_object(b.owner, Asset(b.amount, b.asset),
                               {linear_vesting_policy(b.begin, 0, b.duration, b.amount)}))],
             d, g.vesting)

with_witnesses(d, g) ==
    FoldLeft(LAMBDA e, a :
                 apply_genesis(e, witness_create_operation(CoreAsset(0), a, <<"block", a>>)),
             d, g.witnesses)

with_committee(d, g) ==
    FoldLeft(LAMBDA e, a : apply_genesis(e, committee_member_create_operation(CoreAsset(0), a)),
             d, g.committee)

with_workers(d, g) ==
    FoldLeft(LAMBDA e, w :
                 apply_genesis(e, worker_create_operation(CoreAsset(0), w.owner,
                     g.initial_timestamp, MAX_TIME, w.daily_pay, "vesting", 0)),
             d, g.workers)

\* the parameters and the active witnesses are set at the end
with_parameters(d, g) ==
    LET active == 1..g.active_witnesses
    IN  [Check(d, /\ Len(g.witnesses) > 0
                  /\ g.active_witnesses <= Len(g.witnesses)
                  /\ \A n \in Range(g.immutable) : n % 2 = 1)
         EXCEPT !.gpo.active_witnesses = active,
                !.gpo.fees = g.parameters.fees, !.gpo.basic_fee = g.parameters.basic_fee,
                !.schedule = [i \in active |-> i]]

init_genesis(g) ==
    with_parameters(with_workers(with_committee(with_witnesses(balance_supplies(
        with_vesting_balances(with_balances(with_assets(with_accounts(
            initial_objects(g), g), g), g), g)), g), g), g), g)

-----------------------------------------------------------------------------
(***************************************************************************)
(* Who is told about the changes of a block (db_notify.cpp): the accounts  *)
(* that its operations impact, and those that its new, changed and removed *)
(* objects are about.                                                      *)
(***************************************************************************)

accounts_in(auth) == {s[2] : s \in {t \in DOMAIN auth.auths : t[1] = "account"}}
all_accounts_in(auths) == UNION {accounts_in(a) : a \in auths}
owners_of(commitments) == {c.owner : c \in Range(commitments)}

\* mutant: a proposal is about its proposer only
operation_get_impacted_accounts_payer(op) ==
    {op.payer} \cup IF op.type = "transfer" THEN {op.to} ELSE {}

\* get_impacted_account_visitor, without the payer of the fee, who is always impacted
impacted_others(op) ==
    CASE op.type = "transfer" -> {op.to}
      [] op.type = "override_transfer" -> {op.from, op.to}
      [] op.type = "account_create" ->
             {op.referrer} \cup all_accounts_in({op.owner, op.active})
      [] op.type = "account_update" -> all_accounts_in(op.owner \cup op.active)
      [] op.type = "account_whitelist" -> {op.account_to_list}
      [] op.type = "asset_update_issuer" -> {op.new_issuer}
      [] op.type = "asset_issue" -> {op.to}
      [] op.type = "proposal_create" ->
             required_by(op.ops, required_active) \cup required_by(op.ops, required_owner)
             \cup all_accounts_in(required_by(op.ops, required_other))
      [] op.type \in {"withdraw_permission_create", "withdraw_permission_update",
                      "withdraw_permission_delete"} -> {op.authorized}
      [] op.type = "withdraw_permission_claim" -> {op.from}
      [] op.type = "vesting_balance_create" -> {op.owner}
      [] op.type = "transfer_to_blind" -> all_accounts_in(owners_of(op.outputs))
      [] op.type = "blind_transfer" ->
             all_accounts_in(owners_of(op.inputs) \cup owners_of(op.outputs))
      [] op.type = "transfer_from_blind" -> {op.to} \cup all_accounts_in(owners_of(op.inputs))
      [] OTHER -> {}

operation_get_impacted_accounts(op) == {op.payer} \cup impacted_others(op)

transaction_get_impacted_accounts(ops) ==
    UNION {operation_get_impacted_accounts(ops[i]) : i \in DOMAIN ops}

\* The accounts an object is about.  An account, its statistics and its balances are found by the
\* account in their id; kinds that are not here are about nobody.
get_relevant_accounts(kind, id, o) ==
    CASE kind \in {"acct", "stat"} -> {id}
      [] kind = "bal" -> {id[1]}
      [] kind = "asset" -> {o.issuer}
      [] kind \in {"settle", "vest"} -> {o.owner}
      [] kind \in {"comm", "wit", "work"} -> {o.account}
      [] kind = "limit" -> {o.seller}
      [] kind = "call" -> {o.borrower}
      [] kind = "bid" -> {o.bidder}
      [] kind = "prop" -> transaction_get_impacted_accounts(o.ops)
      [] kind = "permit" -> {o.from, o.authorized}
      [] kind = "blind" -> accounts_in(o.owner)

\* What head_undo has of a kind: the new objects, the old values of the changed ones, and the
\* removed ones.
head_undo(old, new) ==
    {<<i, new[i]>> : i \in DOMAIN new \ DOMAIN old}
    \cup {<<i, old[i]>> : i \in {j \in DOMAIN old : j \notin DOMAIN new \/ new[j] # old[j]}}

\* notify_changed_objects for the block that has led from d to e with the operations of a
\* transaction, whose transaction_object is new
notify_changed_objects(d, e, ops) ==
    transaction_get_impacted_accounts(ops)
    \cup UNION {UNION {get_relevant_accounts(kind, x[1], x[2]) : x \in head_undo(d[kind], e[kind])} :
                    kind \in {"acct", "stat", "bal", "asset", "settle", "comm", "wit", "limit", "call",
                              "prop", "permit", "vest", "work", "blind", "bid"}}

-----------------------------------------------------------------------------
CONSTANTS Scopes,         \* the scopes, chosen in Init
          Start(_),       \* the genesis of a scope and the steps of its setup: the
                          \* operations of a transaction, or << >> for a block
          Offered(_, _),  \* the transactions offered in a scope and a database
          Keys,           \* the keys that can sign
          MaxTime(_),     \* no block of a scope is later
          MaxMissed(_),   \* no more slots are missed before a block
          MaxPushes(_)    \* no more transactions are pushed in a scope

VARIABLES d,      \* the object database
          scope,
          setup,  \* the steps of the setup that are left
          first,  \* the balances and the basic fee after the setup
          pushed, \* how many transactions were pushed after the setup
          draws,  \* of a withdraw permission, the claims <<when, amount>> since its last update
          consent,\* the accounts whose keys have signed a transaction
          untold  \* the accounts that the last step concerned and notified nobody of

vars == <<d, scope, setup, first, pushed, draws, consent, untold>>

-----------------------------------------------------------------------------
Init ==
    /\ scope \in Scopes
    /\ d = init_genesis(Start(scope).genesis)
    /\ setup = Start(scope).steps
    /\ first = [bal |-> d.bal, basic_fee |-> d.gpo.basic_fee]
    /\ pushed = 0
    /\ draws = << >>
    /\ consent = {}
    /\ untold = {}

\* the setup goes on, and what comes after it is measured from there
SetupStep ==
    IF setup = << >> THEN UNCHANGED <<setup, first>>
    ELSE /\ setup' = Tail(setup)
         /\ first' = [bal |-> d'.bal, basic_fee |-> d'.gpo.basic_fee]

signed(ops) ==
    Transaction(<<d.now, Cardinality(d.trxs)>>, ops, minimize_required_signatures(d, ops, Keys).keys,
                d.now + d.gpo.maximum_time_until_expiration)

\* the claims of withdraw permissions, for the property WithdrawLimit
record_draws(ops) ==
    LET one(g, op) ==
            IF op.type = "withdraw_permission_claim"
            THEN Put(g, op.permit, (IF op.permit \in DOMAIN g THEN g[op.permit] ELSE << >>)
                                       \o <<<<d.now, op.amount.amount>>>>)
            ELSE IF op.type \in {"withdraw_permission_update", "withdraw_permission_delete"}
            THEN Put(g, op.permit, << >>)
            ELSE g
    IN  FoldLeft(one, draws, ops)

\* Whether keys meet the authority of an account, written down without the search of
\* sign_state: accounts named by an authority have to meet their active authority, to a depth
meets(db, auth, keys, depth) ==
    LET weight(a, sub(_)) == SumOver({s \in DOMAIN a.auths : IF s[1] = "account" THEN sub(s[2])
                                                            ELSE s \in keys},
                                     LAMBDA s : a.auths[s])
        account[k \in 0..depth, id \in DOMAIN db.acct] ==
            \/ id = GRAPHENE_TEMP_ACCOUNT
            \/ k > 0 /\ weight(db.acct[id].active, LAMBDA i : account[k - 1, i])
                            >= db.acct[id].active.threshold
    IN  weight(auth, LAMBDA i : account[depth, i]) >= auth.threshold

\* Whom a step concerns: holdings, debts, permissions and assets that came, went or changed,
\* and proposals that now wait for an approval
concerned(e, f) ==
    LET differ(S, T) == {s[1] : s \in (S \ T) \cup (T \ S)}
        stakes(x) ==
            <<{<<k[1], k[2], x.bal[k]>> : k \in DOMAIN x.bal},
              {<<x.limit[i].seller, i, x.limit[i]>> : i \in DOMAIN x.limit},
              {<<x.call[i].borrower, i, x.call[i]>> : i \in DOMAIN x.call},
              {<<x.settle[i].owner, i, x.settle[i]>> : i \in DOMAIN x.settle},
              {<<x.bid[i].bidder, i, x.bid[i]>> : i \in DOMAIN x.bid},
              {<<x.vest[i].owner, i, x.vest[i]>> : i \in DOMAIN x.vest},
              {<<x.permit[i].from, i, x.permit[i]>> : i \in DOMAIN x.permit},
              {<<x.permit[i].authorized, i, x.permit[i]>> : i \in DOMAIN x.permit},
              {<<x.asset[i].issuer, i>> : i \in DOMAIN x.asset},
              {<<a, x.acct[a].owner, x.acct[a].active>> : a \in DOMAIN x.acct}>>
        waiting(x, i) == x.prop[i].required_active \cup x.prop[i].required_owner
    IN  UNION {differ(stakes(e)[n], stakes(f)[n]) : n \in DOMAIN stakes(e)}
        \cup UNION {waiting(f, i) : i \in DOMAIN f.prop \ DOMAIN e.prop}

\* push_transaction with a transaction of these operations
Push(ops) ==
    /\ \E r \in {apply_transaction(d, signed(ops))} : r.ok /\ d' = [r EXCEPT !.before = {}]
    /\ SetupStep
    /\ draws' = record_draws(ops)
    /\ pushed' = IF setup = << >> THEN pushed + 1 ELSE 0
    /\ consent' = IF setup # << >> THEN {}
                  ELSE consent \cup {a \in DOMAIN d.acct :
                           \E auth \in {d.acct[a].active, d.acct[a].owner} :
                               meets(d, auth, signed(ops).sigs, Cardinality(DOMAIN d.acct))}
    /\ untold' = concerned(d, d') \ notify_changed_objects(d, d', ops)
    /\ scope' = scope

\* The next block, of a witness that comes missed slots late.  If an assertion fails on the way
\* there is no such block: the database is then the one with ok = FALSE, see BlockApplies
Block(missed) ==
    /\ get_slot_time(d, missed + 1) <= MaxTime(scope)
    /\ \E r \in {apply_block(d, missed)} :
           \E order \in SetToSeqs(r.gpo.active_witnesses) :
               d' = [update_witness_schedule(r, order) EXCEPT !.before = {}]
    /\ untold' = concerned(d, d') \ notify_changed_objects(d, d', << >>)
    /\ SetupStep
    /\ UNCHANGED <<scope, pushed, draws, consent>>

Next ==
    \/ \E ops \in IF setup # << >> THEN {Head(setup)} \ {<< >>}
                  ELSE IF pushed < MaxPushes(scope) THEN Offered(scope, d) ELSE {} : Push(ops)
    \/ \E missed \in IF setup # << >> THEN {0 : s \in {Head(setup)} \cap {<< >>}}
                     ELSE 0..MaxMissed(scope) : Block(missed)

Spec == Init /\ [][Next]_vars

-----------------------------------------------------------------------------
\* The parts of the database fit together: amounts are not negative, the budget issues no more
\* of the core asset than its maximum supply, and what names an account or an asset names one
\* that exists (the ids that db_debug.cpp and the get() calls of the code rely on).
TypeOK ==
    /\ pushed \in Nat
    /\ \A k \in DOMAIN d.bal : k[1] \in DOMAIN d.acct /\ k[2] \in DOMAIN d.asset /\ d.bal[k] >= 0
    /\ \A i \in DOMAIN d.limit : d.limit[i].for_sale > 0 /\ d.limit[i].seller \in DOMAIN d.acct
    /\ \A i \in DOMAIN d.call : d.call[i].debt > 0 /\ d.call[i].collateral >= 0
    /\ \A i \in DOMAIN d.settle : d.settle[i].balance.amount >= 0
    /\ \A i \in DOMAIN d.vest : d.vest[i].balance.amount >= 0
    /\ \A a \in DOMAIN d.dyn : \A f \in DOMAIN d.dyn[a] : d.dyn[a][f] >= 0
    /\ d.dyn[CORE].current_supply <= d.asset[CORE].max_supply
    /\ DOMAIN d.stat = DOMAIN d.acct /\ DOMAIN d.dyn = DOMAIN d.asset

-----------------------------------------------------------------------------
(***************************************************************************)
(* What there is of an asset.                                              *)
(***************************************************************************)
amounts(f, a, x(_)) ==
    SumOver({i \in DOMAIN f : x(f[i]).asset_id = a}, LAMBDA i : x(f[i]).amount)

in_market(a) ==
    amounts(d.limit, a, amount_for_sale) + amounts(d.limit, a, LAMBDA o : o.deferred_paid_fee)
    + amounts(d.call, a, get_collateral) + amounts(d.settle, a, LAMBDA s : s.balance)
    + amounts(d.bid, a, LAMBDA b : b.inv_swan_price.base)

in_funds(a) ==
    SumOver({m \in DOMAIN d.bit : d.bit[m].backing = a}, LAMBDA m : d.bit[m].settlement_fund)

\* the core asset of the fees that are on their way, and of the budget
in_fees ==
    SumOver(DOMAIN d.limit, LAMBDA i : d.limit[i].deferred_fee)
    + SumOver(DOMAIN d.stat, LAMBDA s : d.stat[s].pending_fees + d.stat[s].pending_vested_fees)
    + SumOver(DOMAIN d.dyn, LAMBDA a : d.dyn[a].fee_pool)
    + SumOver(DOMAIN d.fba, LAMBDA f : d.fba[f].accumulated_fba_fees)
    + d.dgp.witness_budget

\* the values that the unspent commitments hide
hidden_of(a) == SumOver({c \in DOMAIN d.blind : d.blind[c].asset = a}, LAMBDA c : d.blind[c].value)

held(a) ==
    SumOver({k \in DOMAIN d.bal : k[2] = a}, LAMBDA k : d.bal[k])
    + amounts(d.vest, a, LAMBDA v : v.balance) + amounts(d.gbal, a, LAMBDA b : b.balance)
    + in_market(a) + in_funds(a)
    + d.dyn[a].accumulated_fees + hidden_of(a)
    + IF a = CORE THEN in_fees ELSE 0

\* No operation, margin call, settlement, fee, cashback, budget or expiration makes or loses a
\* unit of any asset: all that balances, orders, positions, vesting balances, pools, pending
\* and deferred fees, settlement funds and the budget hold is the current_supply of the asset
\* (what debug_dump of db_debug.cpp sums up, with the parts it leaves out).  The confidential
\* supply is what the commitments hide, though the evaluators see only the plain amounts.
\* No part of it is negative, so that nothing is owed to nobody.
SupplyConserved ==
    /\ TypeOK
    /\ \A a \in DOMAIN d.asset : /\ held(a) = d.dyn[a].current_supply
                                 /\ hidden_of(a) = d.dyn[a].confidential_supply

\* The supply of a bitasset that is not settled is what its margin positions owe: after every
\* fill, margin call, force settlement, bid and revival (fill_call_order, execute_bid and
\* call_order_update each change only their side of it).
DebtMatchesSupply ==
    \A m \in DOMAIN d.bit :
        ~has_settlement(d.bit[m]) =>
            d.dyn[m].current_supply
                = SumOver({i \in DOMAIN d.call : debt_type(d.call[i]) = m}, LAMBDA i : d.call[i].debt)

\* After global settlement no position is left, and the settlement fund can pay every holder
\* at the settlement price, whatever asset_settle has rounded away so far.
SettlementFunded ==
    \A m \in DOMAIN d.bit :
        has_settlement(d.bit[m]) =>
            /\ \A i \in DOMAIN d.call : debt_type(d.call[i]) # m
            /\ mul(Asset(d.dyn[m].current_supply, m), d.bit[m].settlement_price).amount
                   <= d.bit[m].settlement_fund

\* Bitassets are backed by something that exists, never through more than one other bitasset,
\* and those of the committee end at the core asset, whatever backing, issuer or child was
\* changed in between (asset_evaluator.cpp checks the parents and the children of an asset).
BackingSound ==
    \A m \in DOMAIN d.bit :
        LET b == d.bit[m].backing
        IN  /\ b \in DOMAIN d.asset \ {m}
            /\ is_market_issued(d.asset[b]) => ~is_market_issued(d.asset[d.bit[b].backing])
            /\ d.asset[m].issuer = GRAPHENE_COMMITTEE_ACCOUNT => root_backing(d, b) = CORE

\* A bitasset is covered before a global settlement, by its positions, and after it, by its fund,
\* in an asset that it may be backed by.
BitassetsCovered == DebtMatchesSupply /\ SettlementFunded /\ BackingSound

\* No two orders in the book could trade with each other: apply_order, which looks at the other
\* side only for an order that is the best of its own, has matched all it can, whatever was
\* filled, culled or cancelled since.
BookUncrossed ==
    \A i, j \in DOMAIN d.limit :
        LET p == d.limit[i].sell_price
            q == d.limit[j].sell_price
        IN  p.base.asset_id = q.quote.asset_id /\ p.quote.asset_id = q.base.asset_id
                => price_less(q, Invert(p))

\* No margin call is left undone: while a position is below the maintenance collateral ratio of
\* a valid feed, no order in the book sells the asset at the squeeze price or better.
MarginCallsDone ==
    \A m \in DOMAIN d.bit :
        LET b == d.bit[m]
            called(i) == price_leq(b.current_feed.settlement_price, Invert(d.call[i].call_price))
        IN  ~has_settlement(b) /\ ~b.is_prediction_market /\ ~is_null(b.current_feed.settlement_price)
                => ~(/\ \E i \in call_orders(d, b.backing, m) : called(i)
                     /\ \E i \in limit_orders(d, m, b.backing) :
                            price_leq(max_short_squeeze_price(b.current_feed), d.limit[i].sell_price))

\* After every transaction and block the market has nothing left to do.
MarketAtRest == BookUncrossed /\ MarginCallsDone

\* What a margin call buys back is something, so that the loop over the calls ends, and no more
\* than the debt; if it is less, the position is then above its target ratio.  For any match
\* price p[1] : p[2] that the squeeze price allows and any target, though the search for the
\* amount is by rounded prices.
CoverReachesTarget ==
    \A i \in DOMAIN d.call : \A tcr \in {1000, 1900, 2500}, x \in 1..4, y \in 1..4 :
        LET c == [d.call[i] EXCEPT !.tcr = {tcr}]
            feed == d.bit[debt_type(c)].current_feed
            price == Price(Asset(x, debt_type(c)), Asset(y, collateral_type(c)))
            n == get_max_debt_to_cover(c, price, feed.settlement_price, feed.mcr)
            cover == Asset(n, debt_type(c))
        IN  /\ ~is_null(feed.settlement_price)
            /\ ~price_less(Invert(feed.settlement_price), c.call_price)
            /\ price_leq(max_short_squeeze_price(feed), price)
            /\ mul(get_debt(c), price).amount <= c.collateral
            => /\ n \in 1..c.debt
               /\ n < c.debt => cover_ok(c, MaxOf(tcr, feed.mcr), Invert(feed.settlement_price),
                                        multiply_and_round_up(cover, price), cover)

\* The statistics follow the objects they summarise: the core asset in orders and collateral is
\* what the orders and positions of the account hold, and core_in_balance is its balance unless
\* maintenance still has to copy it.  The stake of a vote is taken from them.
StatisticsFollow ==
    \A a \in DOMAIN d.stat :
        LET s == d.stat[a]
        IN  /\ s.total_core_in_orders
                   = SumOver({i \in DOMAIN d.limit : /\ d.limit[i].seller = a
                                                     /\ amount_for_sale(d.limit[i]).asset_id = CORE},
                             LAMBDA i : d.limit[i].for_sale)
                     + SumOver({i \in DOMAIN d.call : /\ d.call[i].borrower = a
                                                      /\ collateral_type(d.call[i]) = CORE},
                               LAMBDA i : d.call[i].collateral)
            /\ a \notin d.flagged => s.core_in_balance = get_balance(d, a, CORE)
            /\ s.is_voting = options_is_voting(d.acct[a].options)
            /\ s.has_cashback_vb = Valid(d.acct[a].cashback_vb)

\* Of what a withdraw permission allows per period, no more than its limit is drawn in the
\* period that runs, however the claims fall on its borders and whatever update did to it.
WithdrawLimit ==
    \A p \in DOMAIN d.permit \cap DOMAIN draws :
        LET now == SelectSeq(draws[p], LAMBDA c : c[1] >= d.permit[p].start)
        IN  SumOver(DOMAIN now, LAMBDA i : now[i][2]) <= d.permit[p].limit.amount

\* What a vesting balance lets its owner withdraw is never more than it holds, nor less than
\* nothing: coin days, which deposits, cashback that is vested at once and withdrawals all
\* change, never exceed what the balance can have earned.
VestingCovered ==
    /\ \A v \in DOMAIN d.vest : get_allowed_withdraw(d.vest[v], d.now) \in 0..d.vest[v].balance.amount
    /\ \A b \in DOMAIN d.gbal : \A p \in d.gbal[b].policy :
           linear_allowed_withdraw(p, d.gbal[b].balance.amount, d.now) \in 0..d.gbal[b].balance.amount

\* Withdrawals stay within what was granted: of a permission and of a vesting balance.
WithdrawalsLimited == WithdrawLimit /\ VestingCovered

\* account_member_index has for every key and account exactly the accounts whose authorities
\* name it, after creations, updates, maintenance and the upgrade, in which other accounts are
\* modified while the index waits for the end of the modification of the upgraded one.
MembersIndexed ==
    \A s \in DOMAIN d.member \cup UNION {get_members(d.acct[a]) : a \in DOMAIN d.acct} :
        memberships(d, s) = {a \in DOMAIN d.acct : s \in get_members(d.acct[a])}

\* required_approval_index has for every account exactly the proposals that require it, though
\* the approvals it also looks at come and go between insertion and removal.
ApprovalsIndexed ==
    \A a \in DOMAIN d.acct :
        proposals_of(d, a) = {p \in DOMAIN d.prop :
                                  a \in d.prop[p].required_active \cup d.prop[p].required_owner}

\* The fee of a cheap account is the basic fee, doubled for every accounts_per_fee_scale
\* accounts of the interval: maintenance takes back exactly what account_create has shifted.
FeeScaleUndone ==
    d.gpo.basic_fee = first.basic_fee
                          * 2 ^ (d.gpo.account_fee_scale_bitshifts
                                     * (d.dgp.accounts_registered \div d.gpo.accounts_per_fee_scale))

\* What is derived from other objects follows them: statistics, the two indexes that are kept
\* by hand, and the fee that grows with the accounts.
DerivedFollows == StatisticsFollow /\ MembersIndexed /\ ApprovalsIndexed /\ FeeScaleUndone

\* Nobody loses anything without having signed a transaction, be it by the operations of
\* others, their proposals, settlements, margin calls or fees (override_transfer by the issuer
\* is not offered for an asset that allows it).
NobodyPaysUnasked ==
    \A k \in DOMAIN first.bal :
        k[1] \notin consent => get_balance(d, k[1], k[2]) >= first.bal[k]

\* Whoever is concerned by a transaction or a block is told of it, by the operations or by the
\* objects that have changed, though an object that changes hands is announced to its old owner
\* and a proposal to the accounts its operations impact, not to those that have to approve it.
ChangesTold == untold = {}

\* The next block can always be applied: nothing that transactions have put into the database
\* makes expiration, settlement, feeds or maintenance throw, which would stop the chain.
BlockApplies == d.ok

\* What the operations ask of its accounts is met by keys, to a depth
required_met(ops, keys, depth) ==
    /\ \A a \in required_by(ops, required_owner) : meets(d, d.acct[a].owner, keys, depth)
    /\ \A a \in required_by(ops, required_active) :
           meets(d, d.acct[a].active, keys, depth) \/ meets(d, d.acct[a].owner, keys, depth)

\* verify_authority accepts no signatures that do not meet what the operations require, and
\* finds those that do within max_authority_depth, whatever order sign_state searches in and
\* whatever it has marked as used or approved on a way that failed; also where accounts name
\* each other.
AuthorityExact ==
    scope = "sign" =>
        \A ops \in Offered(scope, d), sigs \in SUBSET Keys :
            LET v == verify_authority(d, ops, sigs, FALSE, {}, {})
            IN  /\ v = "ok" => required_met(ops, sigs, Cardinality(DOMAIN d.acct))
                /\ required_met(ops, sigs, d.gpo.max_authority_depth) => v # "missing"

\* minimize_required_signatures picks, of keys that suffice, a set that is accepted and from
\* which no key can be left out, and does not throw.
SignaturesMinimal ==
    scope = "sign" =>
        \A ops \in Offered(scope, d), available \in SUBSET Keys :
            LET r == minimize_required_signatures(d, ops, available)
                accepted(keys) == verify_authority(d, ops, keys, FALSE, {}, {}) = "ok"
            IN  required_met(ops, available, d.gpo.max_authority_depth) =>
                    /\ ~r.thrown
                    /\ accepted(r.keys)
                    /\ \A keys \in SUBSET r.keys : keys # r.keys => ~accepted(keys)

\* Signing is exact: what is accepted is enough, what is enough is found, and nothing more.
SigningExact == AuthorityExact /\ SignaturesMinimal

\* The stake behind a vote, from the balances and orders themselves
stake_for(db, vote) ==
    LET voice(a) == IF db.acct[a].options.voting_account = GRAPHENE_PROXY_TO_SELF_ACCOUNT
                    THEN a ELSE db.acct[a].options.voting_account
    IN  SumOver({a \in DOMAIN db.acct : vote \in db.acct[voice(a)].options.votes},
                LAMBDA a : get_balance(db, a, CORE) + db.stat[a].total_core_in_orders
                           + SumOver(db.acct[a].cashback_vb, LAMBDA v : db.vest[v].balance.amount))

\* At maintenance the witnesses with the most stake behind them are elected, by what their
\* voters hold in that block, directly or through a proxy (as long as no fees are paid out,
\* which maintenance does between counting one account and the next).
MostVotedElected ==
    [][/\ d'.dgp.next_maintenance_time # d.dgp.next_maintenance_time
       /\ \A a \in DOMAIN d.stat : ~has_pending_fees(d.stat[a])
       => \A w \in d'.gpo.active_witnesses, v \in DOMAIN d'.wit \ d'.gpo.active_witnesses :
              stake_for(d, d'.wit[w].vote_id) >= stake_for(d, d'.wit[v].vote_id)]_vars

=============================================================================
