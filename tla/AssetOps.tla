------------------------------- MODULE AssetOps -------------------------------
(***************************************************************************)
(* The operations on assets (asset_evaluator.cpp): creating and updating   *)
(* them, issuing and reserving, price feeds, force and global settlement,  *)
(* and claiming fees.                                                      *)
(*                                                                         *)
(* The options of an asset and of a bitasset are fields of its record; an  *)
(* operation has a record of the new ones, and new @@ old replaces them.   *)
(* A symbol is a sequence of characters.  The evaluators also check the    *)
(* lists whitelist_authorities, blacklist_authorities and                  *)
(* whitelist_markets, which protocol/asset_ops.hpp has commented out of    *)
(* asset_options: here they are empty.                                     *)
(***************************************************************************)
EXTENDS Market

Upper == {"A", "B", "I", "T"}
Digits == {"1"}

is_valid_symbol(symbol) ==
    /\ Len(symbol) \in 3..16
    /\ SubSeq(symbol, 1, 3) # <<"B", "I", "T">>
    /\ symbol[1] \in Upper
    /\ symbol[Len(symbol)] \in Upper \cup Digits
    /\ \A i \in DOMAIN symbol : symbol[i] \in Upper \cup Digits \cup {"."}
    /\ Cardinality({i \in DOMAIN symbol : symbol[i] = "."}) <= 1

asset_options(flags, perms, max_supply, fee_percent, max_market_fee, cer) ==
    [flags |-> flags, perms |-> perms, max_supply |-> max_supply, fee_percent |-> fee_percent,
     max_market_fee |-> max_market_fee, cer |-> {cer}]

asset_options_validate(o) ==
    /\ o.max_supply \in 1..MAX_SUPPLY
    /\ o.fee_percent <= GRAPHENE_100_PERCENT
    /\ o.max_market_fee \in 0..MAX_SUPPLY
    /\ "global_settle" \notin o.flags
    /\ ~({"witness_fed_asset", "committee_fed_asset"} \subseteq o.flags)
    /\ LET cer == Deref(o.cer)
       IN  price_validate(cer) /\ CORE \in {cer.base.asset_id, cer.quote.asset_id}

bitasset_options(backing, lifetime, minimum, delay, offset, volume) ==
    [backing |-> backing, feed_lifetime |-> lifetime, minimum_feeds |-> minimum,
     settle_delay |-> delay, settle_offset |-> offset, max_settle_volume |-> volume]

bitasset_options_validate(o) ==
    /\ o.minimum_feeds > 0
    /\ o.settle_offset <= GRAPHENE_100_PERCENT
    /\ o.max_settle_volume <= GRAPHENE_100_PERCENT

\* the feeds that are alive; a time of 0 is a producer without a feed
alive_feeds(b, now) ==
    {p \in DOMAIN b.feeds : now - b.feeds[p].time < b.feed_lifetime /\ b.feeds[p].time # 0}

\* nth_element at the middle, field by field: rank Cardinality(S) \div 2 from the least
median(S, value(_), less(_, _)) ==
    LET m == CHOOSE x \in S :
                 /\ Cardinality({y \in S : less(value(y), value(x))}) <= Cardinality(S) \div 2
                 /\ Cardinality({y \in S : ~less(value(x), value(y))}) > Cardinality(S) \div 2
    IN  value(m)

update_median_feeds(b, now) ==
    LET S == alive_feeds(b, now)
        of(p) == b.feeds[p].feed
        feed == IF Cardinality(S) = 1 THEN of(Deref(S))
                ELSE [settlement_price |->
                          median(S, LAMBDA p : of(p).settlement_price, price_less),
                      mcr |-> median(S, LAMBDA p : of(p).mcr, LAMBDA x, y : x < y),
                      mssr |-> median(S, LAMBDA p : of(p).mssr, LAMBDA x, y : x < y),
                      core_exchange_rate |->
                          median(S, LAMBDA p : of(p).core_exchange_rate, price_less)]
    IN  IF Cardinality(S) < b.minimum_feeds
        THEN [b EXCEPT !.feed_cer_updated = FALSE, !.feed_time = now, !.current_feed = NullFeed]
        ELSE [b EXCEPT
                !.feed_cer_updated = @ \/ ~price_equal(b.current_feed.core_exchange_rate,
                                                       feed.core_exchange_rate),
                !.feed_time = Min({now} \cup {b.feeds[p].time : p \in S}),
                !.current_feed = feed]

\* operator== of price_feed does not look at the core exchange rate
feed_equal(f, g) ==
    /\ price_equal(f.settlement_price, g.settlement_price)
    /\ f.mcr = g.mcr
    /\ f.mssr = g.mssr

-----------------------------------------------------------------------------
(***************************************************************************)
(* Creating and updating assets.                                           *)
(***************************************************************************)
asset_create_operation(fee, issuer, symbol, precision, options, bitasset_opts, pm) ==
    [type |-> "asset_create", fee |-> fee, payer |-> issuer, issuer |-> issuer,
     symbol |-> symbol, precision |-> precision, common_options |-> options,
     bitasset_opts |-> bitasset_opts, is_prediction_market |-> pm]

asset_create_validate(op) ==
    LET cer == Deref(op.common_options.cer)
    IN  /\ is_valid_symbol(op.symbol)
        /\ asset_options_validate(op.common_options)
        /\ op.common_options.perms \cap {"disable_force_settle", "global_settle"} # {}
               => Valid(op.bitasset_opts)
        /\ op.is_prediction_market
               => Valid(op.bitasset_opts) /\ "global_settle" \in op.common_options.perms
        /\ \A o \in op.bitasset_opts : bitasset_options_validate(o)
        /\ {cer.base.asset_id, cer.quote.asset_id} = {CORE, 1}
        /\ op.precision <= 12

\* of a symbol with a dot, the asset named by what is before it
prefix_owner_ok(d, op) ==
    LET dots == {i \in DOMAIN op.symbol : op.symbol[i] = "."}
    IN  dots = {} \/ \E a \in DOMAIN d.asset :
                         /\ d.asset[a].symbol = SubSeq(op.symbol, 1, Max(dots) - 1)
                         /\ d.asset[a].issuer = op.issuer

\* the asset below a backing asset, or the backing asset itself
root_backing(d, a) == IF is_market_issued(d.asset[a]) THEN d.bit[a].backing ELSE a

asset_create_evaluate(d, op) ==
    /\ \A a \in DOMAIN d.asset : d.asset[a].symbol # op.symbol
    /\ prefix_owner_ok(d, op)
    /\ \A o \in op.bitasset_opts :
           /\ o.backing \in DOMAIN d.asset
           /\ is_market_issued(d.asset[o.backing])
                  => ~is_market_issued(d.asset[d.bit[o.backing].backing])
           /\ op.issuer = GRAPHENE_COMMITTEE_ACCOUNT => root_backing(d, o.backing) = CORE
           /\ o.feed_lifetime > d.gpo.block_interval
           /\ o.settle_delay > d.gpo.block_interval
           /\ op.is_prediction_market => op.precision = d.asset[o.backing].precision

\* half of the fee becomes the fee pool of the asset
asset_create_pay_fee(d, payer, core_fee) == pay_fee(d, payer, core_fee - core_fee \div 2)

asset_create_apply(d, op) ==
    LET id == NextId(d.asset)
        core_fee == core_fee_paid(d, op.fee)
        cer == Deref(op.common_options.cer)
        own == IF cer.base.asset_id = CORE THEN [cer EXCEPT !.quote.asset_id = id]
               ELSE [cer EXCEPT !.base.asset_id = id]
        a == [symbol |-> op.symbol, precision |-> op.precision, cer |-> {own},
              market_issued |-> Valid(op.bitasset_opts)]
             @@ op.common_options @@ asset_object(op.issuer)
        b == [is_prediction_market |-> op.is_prediction_market]
             @@ Deref(op.bitasset_opts) @@ asset_bitasset_data_object
    IN  [d EXCEPT !.asset = Put(@, id, a),
                  !.dyn = Put(@, id, [asset_dynamic_data_object EXCEPT
                                         !.fee_pool = core_fee \div 2]),
                  !.bit = IF Valid(op.bitasset_opts) THEN Put(@, id, b) ELSE @]

asset_issue_operation(fee, issuer, amount, to) ==
    [type |-> "asset_issue", fee |-> fee, payer |-> issuer, issuer |-> issuer,
     asset_to_issue |-> amount, to |-> to]

asset_issue_validate(op) ==
    op.asset_to_issue.amount \in 1..MAX_SUPPLY /\ op.asset_to_issue.asset_id # CORE

asset_issue_evaluate(d, op) ==
    LET id == op.asset_to_issue.asset_id
    IN  /\ id \in DOMAIN d.asset
        /\ op.issuer = d.asset[id].issuer
        /\ ~is_market_issued(d.asset[id])
        /\ op.to \in DOMAIN d.acct
        /\ is_authorized_asset(d.acct[op.to], d.asset[id])
        /\ d.dyn[id].current_supply + op.asset_to_issue.amount <= d.asset[id].max_supply

asset_issue_apply(d, op) ==
    [adjust_balance(d, op.to, op.asset_to_issue) EXCEPT
        !.dyn[op.asset_to_issue.asset_id].current_supply = @ + op.asset_to_issue.amount]

asset_reserve_operation(fee, payer, amount) ==
    [type |-> "asset_reserve", fee |-> fee, payer |-> payer, amount |-> amount]

asset_reserve_validate(op) == op.amount.amount \in 1..MAX_SUPPLY

asset_reserve_evaluate(d, op) ==
    LET id == op.amount.asset_id
    IN  /\ id \in DOMAIN d.asset
        /\ ~is_market_issued(d.asset[id])
        /\ is_authorized_asset(d.acct[op.payer], d.asset[id])
        /\ d.dyn[id].current_supply - op.amount.amount >= 0

asset_reserve_apply(d, op) ==
    [adjust_balance(d, op.payer, Neg(op.amount)) EXCEPT
        !.dyn[op.amount.asset_id].current_supply = @ - op.amount.amount]

asset_fund_fee_pool_operation(fee, from, asset, amount) ==
    [type |-> "asset_fund_fee_pool", fee |-> fee, payer |-> from, asset |-> asset,
     amount |-> amount]

asset_fund_fee_pool_validate(op) == op.fee.asset_id = CORE /\ op.amount > 0

asset_fund_fee_pool_evaluate(d, op) == op.asset \in DOMAIN d.asset

asset_fund_fee_pool_apply(d, op) ==
    [adjust_balance(d, op.payer, CoreAsset(-op.amount)) EXCEPT
        !.dyn[op.asset].fee_pool = @ + op.amount]

validate_new_issuer(d, id, new_issuer) ==
    /\ new_issuer \in DOMAIN d.acct
    /\ is_market_issued(d.asset[id]) /\ new_issuer = GRAPHENE_COMMITTEE_ACCOUNT
           => root_backing(d, d.bit[id].backing) = CORE

\* (new_issuer is refused since hard fork 199)
asset_update_operation(fee, issuer, asset, options) ==
    [type |-> "asset_update", fee |-> fee, payer |-> issuer, issuer |-> issuer,
     asset |-> asset, new_options |-> options]

asset_update_validate(op) ==
    /\ asset_options_validate(op.new_options)
    /\ LET cer == Deref(op.new_options.cer)
       IN  {cer.base.asset_id, cer.quote.asset_id} = {CORE, op.asset}

asset_update_evaluate(d, op) ==
    /\ op.asset \in DOMAIN d.asset
    /\ LET a == d.asset[op.asset]
           o == op.new_options
           changed == (o.flags \ a.flags) \cup (a.flags \ o.flags)
       IN  /\ asset_object_validate(o @@ a)
           /\ d.dyn[op.asset].current_supply # 0 => o.perms \subseteq a.perms
           /\ changed \subseteq a.perms
           /\ op.issuer = a.issuer

asset_update_apply(d, op) ==
    LET a == d.asset[op.asset]
        orders == {i \in DOMAIN d.settle : d.settle[i].balance.asset_id = op.asset}
        d1 == IF "disable_force_settle" \in op.new_options.flags /\ can_force_settle(a)
              THEN FoldSet(LAMBDA i, e : cancel_settle_order(e, i), d, orders)
              ELSE d
        cer_changed == a.cer # op.new_options.cer
    IN  [d1 EXCEPT !.bit = IF is_market_issued(a) /\ cer_changed
                           THEN [@ EXCEPT ![op.asset].asset_cer_updated = TRUE] ELSE @,
                   !.asset[op.asset] = op.new_options @@ a]

asset_update_issuer_operation(fee, issuer, asset, new_issuer) ==
    [type |-> "asset_update_issuer", fee |-> fee, payer |-> issuer, issuer |-> issuer,
     asset |-> asset, new_issuer |-> new_issuer]

asset_update_issuer_validate(op) == op.issuer # op.new_issuer

asset_update_issuer_evaluate(d, op) ==
    /\ op.asset \in DOMAIN d.asset
    /\ validate_new_issuer(d, op.asset, op.new_issuer)
    /\ op.issuer = d.asset[op.asset].issuer

asset_update_issuer_apply(d, op) == [d EXCEPT !.asset[op.asset].issuer = op.new_issuer]

-----------------------------------------------------------------------------
(***************************************************************************)
(* The options of bitassets, which may change what backs them.             *)
(***************************************************************************)
asset_update_bitasset_operation(fee, issuer, asset, options) ==
    [type |-> "asset_update_bitasset", fee |-> fee, payer |-> issuer, issuer |-> issuer,
     asset |-> asset, new_options |-> options]

asset_update_bitasset_validate(op) == bitasset_options_validate(op.new_options)

\* the bitassets that this one backs
check_children_of_bitasset(d, op, backing) ==
    backing # CORE =>
        \A child \in {a \in DOMAIN d.bit : d.bit[a].backing = op.asset} :
            /\ child # backing
            /\ d.asset[child].issuer # GRAPHENE_COMMITTEE_ACCOUNT
            /\ ~is_market_issued(d.asset[backing])

asset_update_bitasset_evaluate(d, op) ==
    LET a == d.asset[op.asset]
        b == d.bit[op.asset]
        new == op.new_options.backing
    IN  /\ op.asset \in DOMAIN d.asset
        /\ is_market_issued(a)
        /\ op.issuer = a.issuer
        /\ ~has_settlement(b)
        /\ new # b.backing =>
               /\ d.dyn[op.asset].current_supply = 0
               /\ new \in DOMAIN d.asset
               /\ new # op.asset
               /\ b.is_prediction_market => a.precision = d.asset[new].precision
               /\ a.issuer = GRAPHENE_COMMITTEE_ACCOUNT => root_backing(d, new) = CORE
               /\ check_children_of_bitasset(d, op, new)
               /\ is_market_issued(d.asset[new])
                      => ~is_market_issued(d.asset[d.bit[new].backing])
        /\ op.new_options.feed_lifetime > d.gpo.block_interval
        /\ op.new_options.settle_delay > d.gpo.block_interval

update_bitasset_object_options(b, options, flags, now) ==
    LET moved == options.backing # b.backing
        refeed == \/ moved
                  \/ options.minimum_feeds # b.minimum_feeds
                  \/ options.feed_lifetime # b.feed_lifetime
        fed == flags \cap {"witness_fed_asset", "committee_fed_asset"} # {}
        b1 == options @@ b
        b2 == IF ~moved THEN b1
              ELSE IF fed THEN [b1 EXCEPT !.feeds = << >>]
              ELSE [b1 EXCEPT !.feeds = [p \in DOMAIN @ |->
                                            [@[p] EXCEPT !.feed.settlement_price = NullPrice]]]
    IN  IF refeed THEN update_median_feeds(b2, now) ELSE b2

asset_update_bitasset_apply(d, op) ==
    LET b == update_bitasset_object_options(d.bit[op.asset], op.new_options,
                                            d.asset[op.asset].flags, d.now)
        d1 == [d EXCEPT !.bit[op.asset] = b]
    IN  IF feed_equal(d.bit[op.asset].current_feed, b.current_feed) THEN d1
        ELSE check_call_orders(d1, op.asset, TRUE).db

asset_update_feed_producers_operation(fee, issuer, asset, producers) ==
    [type |-> "asset_update_feed_producers", fee |-> fee, payer |-> issuer, issuer |-> issuer,
     asset |-> asset, producers |-> producers]

asset_update_feed_producers_evaluate(d, op) ==
    /\ Cardinality(op.producers) <= d.gpo.max_feed_publishers
    /\ op.asset \in DOMAIN d.asset
    /\ LET a == d.asset[op.asset]
       IN  /\ is_market_issued(a)
           /\ a.flags \cap {"witness_fed_asset", "committee_fed_asset"} = {}
           /\ a.issuer = op.issuer
    /\ op.producers \subseteq DOMAIN d.acct

asset_update_feed_producers_apply(d, op) ==
    LET feeds == [p \in op.producers |->
                      IF p \in DOMAIN d.bit[op.asset].feeds THEN d.bit[op.asset].feeds[p]
                      ELSE [time |-> 0, feed |-> NullFeed]]
        b == update_median_feeds([d.bit[op.asset] EXCEPT !.feeds = feeds], d.now)
    IN  check_call_orders([d EXCEPT !.bit[op.asset] = b], op.asset, TRUE).db

asset_publish_feed_operation(fee, publisher, asset, feed) ==
    [type |-> "asset_publish_feed", fee |-> fee, payer |-> publisher, publisher |-> publisher,
     asset |-> asset, feed |-> feed]

asset_publish_feed_validate(op) ==
    LET f == op.feed
    IN  /\ feed_validate(f)
        /\ ~is_null(f.core_exchange_rate) /\ price_validate(f.core_exchange_rate)
        /\ ~is_null(f.settlement_price)
        /\ f.settlement_price.base.asset_id = f.core_exchange_rate.base.asset_id
        /\ feed_is_for(f, op.asset)

asset_publish_feed_evaluate(d, op) ==
    LET a == d.asset[op.asset]
        b == d.bit[op.asset]
        member(id) == <<"account", op.publisher>> \in DOMAIN d.acct[id].active.auths
    IN  /\ op.asset \in DOMAIN d.asset
        /\ is_market_issued(a)
        /\ b.is_prediction_market => ~has_settlement(b)
        /\ op.feed.settlement_price.quote.asset_id = b.backing
        /\ op.feed.core_exchange_rate.quote.asset_id = CORE
        /\ IF "witness_fed_asset" \in a.flags THEN member(GRAPHENE_WITNESS_ACCOUNT)
           ELSE IF "committee_fed_asset" \in a.flags THEN member(GRAPHENE_COMMITTEE_ACCOUNT)
           ELSE op.publisher \in DOMAIN b.feeds

\* a new feed that only revives, without the margin calls it brings
feed_published_quietly(d, a, old) ==
    IF /\ has_settlement(d.bit[a])
       /\ ~is_null(d.bit[a].current_feed.settlement_price)
       /\ d.dyn[a].current_supply = 0
    THEN revive_bitasset(d, a) ELSE d

\* d has the new feed: a settled asset that is backed again is revived
feed_published(d, a, old) ==
    LET b == d.bit[a]
        supply == d.dyn[a].current_supply
        backed == price_less(Invert(call_price(Asset(supply, a), Asset(b.settlement_fund, b.backing),
                                               b.current_feed.mcr)),
                             b.current_feed.settlement_price)
    IN  IF feed_equal(old, b.current_feed) THEN d
        ELSE check_call_orders(IF /\ has_settlement(b)
                                  /\ ~is_null(b.current_feed.settlement_price)
                                  /\ supply = 0 \/ backed
                               THEN revive_bitasset(d, a) ELSE d, a, TRUE).db

asset_publish_feed_apply(d, op) ==
    LET b == d.bit[op.asset]
    IN  feed_published([d EXCEPT !.bit[op.asset] =
                           update_median_feeds([b EXCEPT !.feeds =
                               Put(@, op.publisher, [time |-> d.now, feed |-> op.feed])], d.now)],
                       op.asset, b.current_feed)

-----------------------------------------------------------------------------
(***************************************************************************)
(* Settlement and fees.                                                    *)
(***************************************************************************)
asset_global_settle_operation(fee, issuer, asset, price) ==
    [type |-> "asset_global_settle", fee |-> fee, payer |-> issuer, issuer |-> issuer,
     asset |-> asset, settle_price |-> price]

asset_global_settle_validate(op) == op.asset = op.settle_price.base.asset_id

\* call_order_index by_collateral
least_collateralized(d, S) ==
    FirstOf(S, LAMBDA i, j :
        LET p == collateralization(d.call[i])
            q == collateralization(d.call[j])
        IN  price_less(p, q) \/ (price_equal(p, q) /\ i < j))

asset_global_settle_evaluate(d, op) ==
    LET a == d.asset[op.asset]
        S == call_orders(d, d.bit[op.asset].backing, op.asset)
        c == d.call[least_collateralized(d, S)]
    IN  /\ op.asset \in DOMAIN d.asset
        /\ is_market_issued(a)
        /\ can_global_settle(a)
        /\ a.issuer = op.issuer
        /\ d.dyn[op.asset].current_supply > 0
        /\ ~has_settlement(d.bit[op.asset])
        /\ S # {}
        /\ mul(get_debt(c), op.settle_price).amount <= c.collateral

asset_global_settle_apply(d, op) == globally_settle_asset(d, op.asset, op.settle_price)

asset_settle_operation(fee, account, amount) ==
    [type |-> "asset_settle", fee |-> fee, payer |-> account, account |-> account,
     amount |-> amount]

asset_settle_validate(op) == op.amount.amount >= 0

asset_settle_evaluate(d, op) ==
    LET id == op.amount.asset_id
        b == d.bit[id]
    IN  /\ id \in DOMAIN d.asset
        /\ is_market_issued(d.asset[id])
        /\ can_force_settle(d.asset[id]) \/ has_settlement(b)
        /\ has_settlement(b) \/ (~b.is_prediction_market /\ ~is_null(b.current_feed.settlement_price))
        /\ get_balance(d, op.account, id) >= op.amount.amount

asset_settle_apply(d, op) ==
    LET id == op.amount.asset_id
        b == d.bit[id]
        whole == op.amount.amount = d.dyn[id].current_supply
        share == mul(op.amount, b.settlement_price)
        settled == IF whole THEN [share EXCEPT !.amount = b.settlement_fund] ELSE share
        pays == IF ~whole /\ settled.amount # 0
                THEN multiply_and_round_up(settled, b.settlement_price) ELSE op.amount
        d1 == Check(d, /\ settled.amount <= b.settlement_fund
                       /\ settled.amount = 0 => b.is_prediction_market)
        d2 == adjust_balance(adjust_balance(d1, op.account, Neg(pays)), op.account, settled)
    IN  IF has_settlement(b)
        THEN [d2 EXCEPT !.bit[id].settlement_fund = @ - settled.amount,
                        !.dyn[id].current_supply = @ - pays.amount]
        ELSE [adjust_balance(d, op.account, Neg(op.amount)) EXCEPT
                 !.settle = Insert(@, force_settlement_object(op.account, op.amount,
                                                              d.now + b.settle_delay))]

asset_claim_fees_operation(fee, issuer, amount) ==
    [type |-> "asset_claim_fees", fee |-> fee, payer |-> issuer, issuer |-> issuer,
     amount |-> amount]

asset_claim_fees_validate(op) == op.amount.amount > 0

asset_claim_fees_evaluate(d, op) ==
    op.amount.asset_id \in DOMAIN d.asset /\ d.asset[op.amount.asset_id].issuer = op.issuer

asset_claim_fees_apply(d, op) ==
    LET id == op.amount.asset_id
        d1 == Check(d, op.amount.amount <= d.dyn[id].accumulated_fees)
    IN  adjust_balance([d1 EXCEPT !.dyn[id].accumulated_fees = @ - op.amount.amount],
                       op.issuer, op.amount)

asset_claim_pool_operation(fee, issuer, asset, amount) ==
    [type |-> "asset_claim_pool", fee |-> fee, payer |-> issuer, issuer |-> issuer,
     asset |-> asset, amount |-> amount]

asset_claim_pool_validate(op) ==
    op.fee.asset_id # op.asset /\ op.amount.amount > 0 /\ op.amount.asset_id = CORE

asset_claim_pool_evaluate(d, op) ==
    op.asset \in DOMAIN d.asset /\ d.asset[op.asset].issuer = op.issuer

asset_claim_pool_apply(d, op) ==
    LET d1 == Check(d, op.amount.amount <= d.dyn[op.asset].fee_pool)
    IN  adjust_balance([d1 EXCEPT !.dyn[op.asset].fee_pool = @ - op.amount.amount],
                       op.issuer, op.amount)

=============================================================================
