----------------------------- MODULE ChainObjects -----------------------------
(***************************************************************************)
(* The objects of the graphene chain library (bcx/libbcx/chain) and what   *)
(* every operation does with them: assets and prices, balances, fees,      *)
(* cashback.                                                               *)
(*                                                                         *)
(* The object database is one record, d.  An evaluator is a pair of        *)
(* operators on it: a predicate for do_evaluate and a function to the next *)
(* database for do_apply.  An exception is modelled by d.ok = FALSE: the   *)
(* session around the operation undoes everything (see Ledger).            *)
(*                                                                         *)
(* Ids are numbers, as in the code; asset 0 is the core asset.  Amounts    *)
(* are far below the 64 bits of share_type.  The time of the head block is *)
(* after the hard forks of hardfork.hpp, the last of which is of 2018.     *)
(***************************************************************************)
EXTENDS Integers, Sequences, FiniteSets, FiniteSetsExt, SequencesExt, Functions, TLC

GRAPHENE_100_PERCENT == 10000
GRAPHENE_COLLATERAL_RATIO_DENOM == 1000
GRAPHENE_COMMITTEE_ACCOUNT == 0
GRAPHENE_WITNESS_ACCOUNT == 1
GRAPHENE_RELAXED_COMMITTEE_ACCOUNT == 2
GRAPHENE_NULL_ACCOUNT == 3
GRAPHENE_TEMP_ACCOUNT == 4
GRAPHENE_PROXY_TO_SELF_ACCOUNT == 5
CORE == 0
MAX_TIME == 1000000   \* time_point_sec::maximum()
MAX_SUPPLY == 1000000 \* GRAPHENE_MAX_SHARE_SUPPLY, larger than any amount of a run

None == {}            \* an optional without a value; {x} is one with a value
Valid(o) == o # {}
Deref(o) == CHOOSE x \in o : TRUE
MaxOf(x, y) == IF x >= y THEN x ELSE y
MinOf(x, y) == IF x <= y THEN x ELSE y
DivUp(x, y) == (x + y - 1) \div y

\* FC_ASSERT inside a function that changes the database
Check(d, cond) == IF cond THEN d ELSE [d EXCEPT !.ok = FALSE]

\* a new object gets the next id of its index
NextId(f) == IF DOMAIN f = {} THEN 1 ELSE Max(DOMAIN f) + 1
Insert(f, obj) == [i \in DOMAIN f \cup {NextId(f)} |-> IF i = NextId(f) THEN obj ELSE f[i]]
Put(f, k, v) == [i \in DOMAIN f \cup {k} |-> IF i = k THEN v ELSE f[i]]
Erase(f, id) == [i \in DOMAIN f \ {id} |-> f[i]]
SumOver(S, Op(_)) == MapThenSumSet(Op, S)

-----------------------------------------------------------------------------
(***************************************************************************)
(* asset and price.                                                        *)
(***************************************************************************)
Asset(n, a) == [amount |-> n, asset_id |-> a]
Neg(x) == Asset(-x.amount, x.asset_id)
Plus(x, y) == Asset(x.amount + y.amount, x.asset_id)
Minus(x, y) == Asset(x.amount - y.amount, x.asset_id)
CoreAsset(n) == Asset(n, CORE)

Price(b, q) == [base |-> b, quote |-> q]
Invert(p) == Price(p.quote, p.base)
NullPrice == Price(Asset(0, CORE), Asset(0, CORE))
is_null(p) == p.base.asset_id = CORE /\ p.quote.asset_id = CORE
price_max(b, q) == Price(Asset(MAX_SUPPLY, b), Asset(1, q))
price_min(b, q) == Price(Asset(1, b), Asset(MAX_SUPPLY, q))

price_validate(p) ==
    /\ p.base.amount > 0
    /\ p.quote.amount > 0
    /\ p.base.asset_id # p.quote.asset_id

\* the order of prices: first the market, then the ratio
price_less(p, q) ==
    LET market(x) == <<x.base.asset_id, x.quote.asset_id>>
    IN  IF market(p) # market(q)
        THEN \/ p.base.asset_id < q.base.asset_id
             \/ p.base.asset_id = q.base.asset_id /\ p.quote.asset_id < q.quote.asset_id
        ELSE q.quote.amount * p.base.amount < p.quote.amount * q.base.amount
price_equal(p, q) == ~price_less(p, q) /\ ~price_less(q, p)
price_leq(p, q) == ~price_less(q, p)

\* asset * price rounds down, multiply_and_round_up up
mul(x, p) ==
    IF x.asset_id = p.base.asset_id
    THEN Asset((x.amount * p.quote.amount) \div p.base.amount, p.quote.asset_id)
    ELSE Asset((x.amount * p.base.amount) \div p.quote.amount, p.base.asset_id)

multiply_and_round_up(x, p) ==
    IF x.asset_id = p.base.asset_id
    THEN Asset(DivUp(x.amount * p.quote.amount, p.base.amount), p.quote.asset_id)
    ELSE Asset(DivUp(x.amount * p.base.amount, p.quote.amount), p.base.asset_id)

gcd[x \in Nat, y \in Nat] == IF y = 0 THEN x ELSE gcd[y, x % y]

\* price * ratio, a reduced fraction: no run comes near the largest supply
scale_price(p, num, den) ==
    LET n == p.base.amount * num
        m == p.quote.amount * den
        g == gcd[n, m]
    IN  IF num = den THEN p
        ELSE Price(Asset(n \div g, p.base.asset_id), Asset(m \div g, p.quote.asset_id))

\* the price at which a margin position is called: collateral / debt
call_price(debt, collateral, ratio) ==
    Invert(scale_price(Price(debt, collateral), ratio, GRAPHENE_COLLATERAL_RATIO_DENOM))

\* price_feed: settlement_price is debt / collateral
max_short_squeeze_price(feed) ==
    scale_price(feed.settlement_price, GRAPHENE_COLLATERAL_RATIO_DENOM, feed.mssr)

NullFeed == [settlement_price |-> NullPrice, core_exchange_rate |-> NullPrice,
             mcr |-> 1750, mssr |-> 1500]

feed_validate(feed) ==
    /\ ~is_null(feed.settlement_price) => price_validate(feed.settlement_price)
    /\ feed.mssr \in 1001..32000
    /\ feed.mcr \in 1001..32000

feed_is_for(feed, a) ==
    IF ~is_null(feed.settlement_price) THEN feed.settlement_price.base.asset_id = a
    ELSE is_null(feed.core_exchange_rate) \/ feed.core_exchange_rate.base.asset_id = a

-----------------------------------------------------------------------------
(***************************************************************************)
(* Assets and accounts.                                                    *)
(***************************************************************************)
Flags == {"charge_market_fee", "white_list", "override_authority",
          "transfer_restricted", "disable_force_settle", "global_settle",
          "disable_confidential", "witness_fed_asset", "committee_fed_asset"}

asset_dynamic_data_object ==
    [current_supply |-> 0, confidential_supply |-> 0, accumulated_fees |-> 0,
     fee_pool |-> 0]

asset_object(issuer) ==
    [symbol |-> <<"A", "A", "A">>, precision |-> 0, issuer |-> issuer, flags |-> {}, perms |-> {"charge_market_fee", "transfer_restricted",
                                                 "override_authority", "white_list",
                                                 "disable_confidential"},
     max_supply |-> 100, fee_percent |-> 0, max_market_fee |-> 100,
     cer |-> None, market_issued |-> FALSE, buyback |-> None]

is_market_issued(a) == a.market_issued
can_force_settle(a) == "disable_force_settle" \notin a.flags
can_global_settle(a) == "global_settle" \in a.perms
charges_market_fees(a) == "charge_market_fee" \in a.flags
is_transfer_restricted(a) == "transfer_restricted" \in a.flags
can_override(a) == "override_authority" \in a.flags
allow_confidential(a) == "disable_confidential" \notin a.flags

\* UIAs may not be prediction markets, have force settlement, or global settlements
asset_object_validate(a) ==
    ~is_market_issued(a)
        => (a.flags \cup a.perms) \cap {"disable_force_settle", "global_settle"} = {}

asset_bitasset_data_object ==
    [backing |-> CORE, feed_lifetime |-> 100, minimum_feeds |-> 1, settle_delay |-> 1,
     settle_offset |-> 0, max_settle_volume |-> 2000,
     feeds |-> << >>, current_feed |-> NullFeed, feed_time |-> 0,
     is_prediction_market |-> FALSE, force_settled_volume |-> 0,
     settlement_price |-> NullPrice, settlement_fund |-> 0,
     asset_cer_updated |-> FALSE, feed_cer_updated |-> FALSE]

has_settlement(b) == ~is_null(b.settlement_price)
need_to_update_cer(b) ==
    (b.feed_cer_updated \/ b.asset_cer_updated) /\ ~is_null(b.current_feed.core_exchange_rate)
feed_expiration_time(b) == b.feed_time + b.feed_lifetime
feed_is_expired(b, now) == feed_expiration_time(b) <= now

max_force_settlement_volume(b, current_supply) ==
    ((current_supply + b.force_settled_volume) * b.max_settle_volume)
        \div GRAPHENE_100_PERCENT

account_statistics_object ==
    [total_core_in_orders |-> 0, core_in_balance |-> 0, has_cashback_vb |-> FALSE,
     is_voting |-> FALSE, lifetime_fees_paid |-> 0, pending_fees |-> 0,
     pending_vested_fees |-> 0]
has_some_core_voting(s) ==
    s.is_voting /\ (s.total_core_in_orders > 0 \/ s.core_in_balance > 0 \/ s.has_cashback_vb)
has_pending_fees(s) == s.pending_fees > 0 \/ s.pending_vested_fees > 0
need_maintenance(s) == has_some_core_voting(s) \/ has_pending_fees(s)

\* weights of keys <<kind, n>> and of accounts <<"account", id>>, and the sum that is needed
Authority(threshold, auths) == [threshold |-> threshold, auths |-> auths]
NullAuthority == Authority(1, [k \in {<<"account", GRAPHENE_NULL_ACCOUNT>>} |-> 1])
is_impossible(auth) ==
    SumOver(DOMAIN auth.auths, LAMBDA s : auth.auths[s]) < auth.threshold

no_special_authority == [kind |-> "none"]
top_holders_special_authority(a, n) ==
    [kind |-> "top_holders", asset |-> a, num_top_holders |-> n]

account_options == [voting_account |-> GRAPHENE_PROXY_TO_SELF_ACCOUNT, votes |-> {},
                    num_witness |-> 0, num_committee |-> 0]
options_is_voting(o) == o.voting_account # GRAPHENE_PROXY_TO_SELF_ACCOUNT \/ o.votes # {}

account_object(id) ==
    [name |-> [i \in 1..id + 1 |-> "c"], membership |-> MAX_TIME,
     registrar |-> id, referrer |-> id, lifetime_referrer |-> id,
     network_pct |-> 2000, lifetime_pct |-> 8000, referrer_pct |-> 0,
     owner |-> Authority(1, [k \in {<<"owner", id>>} |-> 1]),
     active |-> Authority(1, [k \in {<<"active", id>>} |-> 1]),
     options |-> account_options, whitelisting |-> {}, blacklisting |-> {},
     whitelisted |-> {}, blacklisted |-> {}, cashback_vb |-> None,
     owner_special |-> no_special_authority, active_special |-> no_special_authority,
     top_n |-> {}, allowed_assets |-> None]

is_lifetime_member(a) == a.membership = MAX_TIME
is_basic_account(a, now) == now > a.membership
is_annual_member(a, now) == ~is_lifetime_member(a) /\ ~is_basic_account(a, now)
is_member(a, now) == ~is_basic_account(a, now)
has_special_authority(a) ==
    a.owner_special # no_special_authority \/ a.active_special # no_special_authority

\* _is_authorized_asset has lost its loops and returns false: an account with
\* allowed_assets, or any account for an asset with the white_list flag, is refused
is_authorized_asset(acct, a) == "white_list" \notin a.flags /\ ~Valid(acct.allowed_assets)

\* account_member_index: from a key or an account to the accounts whose
\* authorities name it; before is what about_to_modify last saw
get_members(a) == DOMAIN a.owner.auths \cup DOMAIN a.active.auths
memberships(d, s) == IF s \in DOMAIN d.member THEN d.member[s] ELSE {}

member_inserted(d, id) ==
    LET S == get_members(d.acct[id])
    IN  [d EXCEPT !.member = [s \in S |-> memberships(d, s) \cup {id}] @@ @]

about_to_modify(d, id) == [d EXCEPT !.before = get_members(d.acct[id])]

member_modified(d, id) ==
    LET after == get_members(d.acct[id])
        added == after \ d.before
        removed == d.before \ after
    IN  [d EXCEPT !.member = [s \in added |-> memberships(d, s) \cup {id}]
                             @@ [s \in removed |-> memberships(d, s) \ {id}] @@ @]

\* primary_index::modify with its secondary index
modify_account(d, id, a) == member_modified([about_to_modify(d, id) EXCEPT !.acct[id] = a], id)

-----------------------------------------------------------------------------
(***************************************************************************)
(* Balances.                                                               *)
(***************************************************************************)
get_balance(d, acct, a) == IF <<acct, a>> \in DOMAIN d.bal THEN d.bal[acct, a] ELSE 0

\* flagged: the core balances maintenance still has to copy to the statistics
adjust_balance(d, acct, delta) ==
    LET k == <<acct, delta.asset_id>>
        b == get_balance(d, acct, delta.asset_id) + delta.amount
    IN  IF delta.amount = 0 THEN d
        ELSE [Check(d, b >= 0) EXCEPT !.bal = Put(@, k, b),
                                      !.flagged = IF delta.asset_id = CORE THEN @ \cup {acct} ELSE @]

cdd_vesting_policy(seconds, earned, start, now) ==
    [kind |-> "cdd", vesting_seconds |-> seconds, coin_seconds_earned |-> earned,
     start_claim |-> start, last_update |-> now]

linear_vesting_policy(begin, cliff, duration, begin_balance) ==
    [kind |-> "linear", begin_timestamp |-> begin, cliff_seconds |-> cliff,
     duration_seconds |-> duration, begin_balance |-> begin_balance]

\* compute_coin_seconds_earned: never more than a whole period for the balance
compute_coin_seconds_earned(p, balance, now) ==
    MinOf(p.coin_seconds_earned + balance * (now - p.last_update),
          balance * MaxOf(p.vesting_seconds, 1))

update_coin_seconds_earned(p, balance, now) ==
    [p EXCEPT !.coin_seconds_earned = compute_coin_seconds_earned(p, balance, now),
              !.last_update = now]

deposit(v, now, n) ==
    [v EXCEPT !.policy = IF v.policy.kind = "cdd"
                         THEN update_coin_seconds_earned(@, v.balance.amount, now) ELSE @,
              !.balance.amount = @ + n]

deposit_vested(v, now, n) ==
    LET p == update_coin_seconds_earned(v.policy, v.balance.amount, now)
    IN  [v EXCEPT !.policy = [p EXCEPT !.coin_seconds_earned =
                                  @ + n * MaxOf(p.vesting_seconds, 1)],
                  !.balance.amount = @ + n]

\* into the balance ovb if it still fits, or into a new one; the result names it
deposit_lazy_vesting(d, ovb, n, seconds, owner, require_vesting) ==
    LET fits == \E v \in ovb : /\ d.vest[v].owner = owner
                               /\ d.vest[v].policy.kind = "cdd"
                               /\ d.vest[v].policy.vesting_seconds = seconds
        new == [owner |-> owner, balance |-> CoreAsset(n),
                policy |-> cdd_vesting_policy(seconds,
                               IF require_vesting THEN 0 ELSE n * seconds, 0, d.now)]
    IN  IF n = 0 THEN [db |-> d, new |-> None]
        ELSE IF fits
        THEN [db |-> [d EXCEPT !.vest[Deref(ovb)] =
                          IF require_vesting THEN deposit(@, d.now, n)
                          ELSE deposit_vested(@, d.now, n)],
              new |-> None]
        ELSE [db |-> [d EXCEPT !.vest = Insert(@, new)], new |-> {NextId(d.vest)}]

\* the accounts of the chain itself get no cashback: it goes to the reserve pool
deposit_cashback(d, acct, n, require_vesting) ==
    LET kept(r) ==
            IF Valid(r.new)
            THEN [modify_account(r.db, acct, [r.db.acct[acct] EXCEPT !.cashback_vb = r.new])
                  EXCEPT !.stat[acct].has_cashback_vb = TRUE]
            ELSE r.db
    IN  IF n = 0 THEN d
        ELSE IF acct \in 0..4
        THEN [d EXCEPT !.dyn[CORE].current_supply = @ - n]
        ELSE kept(deposit_lazy_vesting(d, d.acct[acct].cashback_vb, n, d.gpo.cashback_period,
                                       acct, require_vesting))

pay_vb_kept(r, w) == IF Valid(r.new) THEN [r.db EXCEPT !.wit[w].pay_vb = r.new] ELSE r.db

deposit_witness_pay(d, w, n) ==
    IF n = 0 THEN d
    ELSE pay_vb_kept(deposit_lazy_vesting(d, d.wit[w].pay_vb, n, d.gpo.witness_pay_vesting,
                                          d.wit[w].account, TRUE), w)

-----------------------------------------------------------------------------
(***************************************************************************)
(* Fees.                                                                   *)
(***************************************************************************)
cut_fee(n, pct) == (n * pct) \div GRAPHENE_100_PERCENT

\* core_fee_paid of prepare_fee
core_fee_paid(d, fee) ==
    IF fee.asset_id = CORE THEN fee.amount
    ELSE mul(fee, Deref(d.asset[fee.asset_id].cer)).amount

\* (an asset without a core_exchange_rate is dereferenced all the same, which is
\* undefined: no run pays a fee in such an asset)
prepare_fee(d, payer, fee) ==
    /\ fee.amount >= 0
    /\ payer \in DOMAIN d.acct
    /\ fee.asset_id \in DOMAIN d.asset
    /\ is_authorized_asset(d.acct[payer], d.asset[fee.asset_id])
    /\ fee.asset_id # CORE => /\ Valid(d.asset[fee.asset_id].cer)
                              /\ core_fee_paid(d, fee) <= d.dyn[fee.asset_id].fee_pool

convert_fee(d, fee) ==
    IF fee.asset_id = CORE THEN d
    ELSE [d EXCEPT !.dyn[fee.asset_id].accumulated_fees = @ + fee.amount,
                   !.dyn[fee.asset_id].fee_pool = @ - core_fee_paid(d, fee)]

\* account_statistics_object::pay_fee, reached by generic_evaluator::pay_fee
pay_fee(d, payer, core_fee) ==
    IF core_fee > d.gpo.cashback_threshold
    THEN [d EXCEPT !.stat[payer].pending_fees = @ + core_fee]
    ELSE [d EXCEPT !.stat[payer].pending_vested_fees = @ + core_fee]

\* the shares of a fee: the network, the lifetime referrer, the referrer and the registrar
pay_shares(d, a, total, require_vesting) ==
    LET network == cut_fee(total, a.network_pct)
        lifetime == cut_fee(total, a.lifetime_pct)
        referral == total - network - lifetime
        referrer == cut_fee(referral, a.referrer_pct)
        shares == <<<<a.lifetime_referrer, lifetime>>, <<a.referrer, referrer>>,
                    <<a.registrar, referral - referrer>>>>
    IN  FoldLeft(LAMBDA e, s : deposit_cashback(e, s[1], s[2], require_vesting),
                 [d EXCEPT !.dyn[CORE].accumulated_fees = @ + network], shares)

\* pay_out_fees in account_statistics_object::process_fees
pay_out_fees(d, acct, total, require_vesting) ==
    LET a == d.acct[acct]
        b == [a EXCEPT !.referrer = a.lifetime_referrer]
    IN  IF is_basic_account(d.acct[a.referrer], d.now)
        THEN pay_shares(modify_account(d, acct, b), b, total, require_vesting)
        ELSE pay_shares(d, a, total, require_vesting)

process_fees(d, acct) ==
    LET s == d.stat[acct]
    IN  IF ~has_pending_fees(s) THEN d
        ELSE [pay_out_fees(pay_out_fees(d, acct, s.pending_fees, TRUE),
                           acct, s.pending_vested_fees, FALSE) EXCEPT
                 !.stat[acct].lifetime_fees_paid = @ + s.pending_fees + s.pending_vested_fees,
                 !.stat[acct].pending_fees = 0,
                 !.stat[acct].pending_vested_fees = 0]

=============================================================================
