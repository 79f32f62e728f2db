-------------------------------- MODULE Market --------------------------------
(***************************************************************************)
(* The markets of the chain library (db_market.cpp, market_object.cpp,     *)
(* market_evaluator.cpp): limit orders, margin positions (call orders),    *)
(* force settlements, collateral bids, their matching, margin calls and    *)
(* global settlement.                                                      *)
(*                                                                         *)
(* d.limit, d.call, d.settle and d.bid map the ids of the objects to them. *)
(* An index of the code is an order on these ids, its begin() is the       *)
(* FirstOf a set of them.  A loop of the code is Iterate of its body, with *)
(* a bound that its progress (an order less, a position less) respects.    *)
(***************************************************************************)
EXTENDS AccountOps

FirstOf(S, Before(_, _)) == CHOOSE x \in S : \A y \in S \ {x} : Before(x, y)

\* Step applied n times; a finished loop leaves its state alone
Iterate(Step(_), x, n) ==
    LET it[k \in 0..n] == IF k = 0 THEN x ELSE Step(it[k - 1]) IN it[n]

limit_order_object(seller, for_sale, sell_price, expiration, fee, paid) ==
    [seller |-> seller, for_sale |-> for_sale, sell_price |-> sell_price,
     expiration |-> expiration, deferred_fee |-> fee, deferred_paid_fee |-> paid]

amount_for_sale(o) == Asset(o.for_sale, o.sell_price.base.asset_id)
amount_to_receive(o) == mul(amount_for_sale(o), o.sell_price)

\* limit_order_index by_price: the greatest price first, then the oldest
limit_before(d, i, j) ==
    LET p == d.limit[i].sell_price
        q == d.limit[j].sell_price
    IN  price_less(q, p) \/ (price_equal(p, q) /\ i < j)

limit_orders(d, sell, recv) ==
    {i \in DOMAIN d.limit : /\ d.limit[i].sell_price.base.asset_id = sell
                            /\ d.limit[i].sell_price.quote.asset_id = recv}
best_limit(d, S) == FirstOf(S, LAMBDA i, j : limit_before(d, i, j))

call_order_object(borrower, collateral, debt, price, tcr) ==
    [borrower |-> borrower, collateral |-> collateral, debt |-> debt,
     call_price |-> price, tcr |-> tcr]

collateral_type(c) == c.call_price.base.asset_id
debt_type(c) == c.call_price.quote.asset_id
get_collateral(c) == Asset(c.collateral, collateral_type(c))
get_debt(c) == Asset(c.debt, debt_type(c))
collateralization(c) == Price(get_collateral(c), get_debt(c))

\* call_order_index by_price: the position that is called first
call_before(d, i, j) ==
    LET p == d.call[i].call_price
        q == d.call[j].call_price
    IN  price_less(p, q) \/ (price_equal(p, q) /\ i < j)
call_orders(d, backing, mia) ==
    {i \in DOMAIN d.call : collateral_type(d.call[i]) = backing /\ debt_type(d.call[i]) = mia}
first_call(d, S) == FirstOf(S, LAMBDA i, j : call_before(d, i, j))

force_settlement_object(owner, balance, date) ==
    [owner |-> owner, balance |-> balance, settlement_date |-> date]

\* force_settlement_index by_expiration, within one asset
settle_before(d, i, j) ==
    LET x == d.settle[i].settlement_date
        y == d.settle[j].settlement_date
    IN  x < y \/ (x = y /\ i < j)

collateral_bid_object(bidder, inv_swan_price) ==
    [bidder |-> bidder, inv_swan_price |-> inv_swan_price]

\* collateral_bid_index by_price, within one asset: the best bid first
bids_of(d, mia) == {i \in DOMAIN d.bid : d.bid[i].inv_swan_price.quote.asset_id = mia}
bid_before(d, i, j) ==
    LET p == d.bid[i].inv_swan_price
        q == d.bid[j].inv_swan_price
    IN  price_less(q, p) \/ (price_equal(p, q) /\ i < j)

-----------------------------------------------------------------------------
(***************************************************************************)
(* How much debt a margin call buys back: enough for the target collateral *)
(* ratio, found by binary search and, where rounding defeats it, by        *)
(* Fibonacci steps.  out is the answer once there is one.                  *)
(***************************************************************************)
cover_ok(c, tcr, feed, pay, cover) ==
    price_less(feed, call_price(Minus(get_debt(c), cover), Minus(get_collateral(c), pay), tcr))

\* a mean by what is paid, p for n, or by what is covered, n for p, which buys back k
mean_by_pay(c, mp, s, p, n) ==
    IF p = s.max_pay \/ n >= s.max_cover THEN [pay |-> s.max_pay, cover |-> s.max_cover]
    ELSE [pay |-> multiply_and_round_up(Asset(n, debt_type(c)), mp).amount, cover |-> n]

mean_by_cover(s, n, p, k) ==
    IF n = s.max_cover \/ p >= s.max_pay \/ k >= s.max_cover
    THEN [pay |-> s.max_pay, cover |-> s.max_cover] ELSE [pay |-> p, cover |-> k]

\* what to try next between the bounds of s, by the smaller of the two amounts
search_mean(c, mp, s) ==
    LET p == (s.min_pay + s.max_pay + 1) \div 2
        n == (s.min_cover + s.max_cover) \div 2
        q == multiply_and_round_up(Asset(n, debt_type(c)), mp).amount
        bought(x) == mul(Asset(x, collateral_type(c)), mp).amount
    IN  IF mp.base.amount < mp.quote.amount THEN mean_by_pay(c, mp, s, p, bought(p))
        ELSE mean_by_cover(s, n, q, bought(q))

\* a mean that is not between the bounds ends the search at the maximum
search_next(s, mean) ==
    IF \/ mean.pay <= s.min_pay \/ mean.cover <= s.min_cover
       \/ mean.pay > s.max_pay \/ mean.cover > s.max_cover
    THEN [pay |-> s.max_pay, cover |-> s.max_cover] ELSE mean

\* a search that stops at the first amount, whether it reaches the target or not
search_at_once(c, tcr, feed, s, m) == [s EXCEPT !.done = TRUE, !.out = m.cover]

search_at(c, tcr, feed, s, m) ==
    IF m.pay = s.max_pay /\ (s.max_is_ok \/ m.pay = c.collateral)
    THEN [s EXCEPT !.done = TRUE, !.out = m.cover]
    ELSE IF cover_ok(c, tcr, feed, Asset(m.pay, collateral_type(c)), Asset(m.cover, debt_type(c)))
    THEN IF m.pay = s.max_pay THEN [s EXCEPT !.done = TRUE, !.out = m.cover]
         ELSE [s EXCEPT !.max_pay = m.pay, !.max_cover = m.cover, !.max_is_ok = TRUE]
    ELSE IF m.pay = s.max_pay
    THEN [s EXCEPT !.done = TRUE, !.pay = m.pay, !.cover = m.cover]
    ELSE [s EXCEPT !.min_pay = m.pay, !.min_cover = m.cover]

RECURSIVE binary_search(_, _, _, _, _)
binary_search(c, tcr, feed, mp, s) ==
    IF s.done THEN s
    ELSE binary_search(c, tcr, feed, mp,
                       search_at(c, tcr, feed, s, search_next(s, search_mean(c, mp, s))))

\* one round of the search forward: n is covered for p, p0 is what was tried
search_forward_at(c, tcr, feed, s, p0, n, p) ==
    IF p0 >= c.collateral \/ n >= c.debt \/ p >= c.collateral THEN [s EXCEPT !.out = c.debt]
    ELSE IF cover_ok(c, tcr, feed, Asset(p, collateral_type(c)), Asset(n, debt_type(c)))
    THEN [s EXCEPT !.out = n]
    ELSE [s EXCEPT !.pay = p, !.cover = n, !.f2 = s.f3, !.f3 = s.f2 + s.f3]

\* the search forward, by the Fibonacci number f2
RECURSIVE search_forward(_, _, _, _, _)
search_forward(c, tcr, feed, mp, s) ==
    LET bought(p) == mul(Asset(p, collateral_type(c)), mp).amount
        paid(n) == multiply_and_round_up(Asset(n, debt_type(c)), mp).amount
        n == bought(s.pay + s.f2)
        p == paid(s.cover + s.f2)
    IN  IF s.out # -1 THEN s
        ELSE search_forward(c, tcr, feed, mp,
                 IF mp.base.amount > mp.quote.amount
                 THEN search_forward_at(c, tcr, feed, s, s.pay + s.f2, n, paid(n))
                 ELSE search_forward_at(c, tcr, feed, s, p,
                          IF s.cover + s.f2 >= c.debt THEN c.debt ELSE bought(p), p))

\* the two searches, between a first guess and a bound
search_between(c, tcr, feed, mp, pay, cover, max_pay, max_cover) ==
    IF max_pay <= pay \/ max_cover <= cover THEN c.debt
    ELSE search_forward(c, tcr, feed, mp,
             binary_search(c, tcr, feed, mp,
                 [min_pay |-> pay, min_cover |-> cover, max_pay |-> max_pay,
                  max_cover |-> max_cover, max_is_ok |-> FALSE, done |-> FALSE, out |-> -1,
                  pay |-> 0, cover |-> 0, f2 |-> 1, f3 |-> 1])).out

\* the bound: most is enough to cover
search_cover(c, tcr, feed, mp, pay, cover, most) ==
    LET p == IF most = c.debt THEN c.collateral
             ELSE MinOf(c.collateral, multiply_and_round_up(Asset(most, debt_type(c)), mp).amount)
        back == IF p = c.collateral THEN c.debt ELSE mul(Asset(p, collateral_type(c)), mp).amount
    IN  search_between(c, tcr, feed, mp, pay, cover,
                       IF back >= c.debt THEN c.collateral ELSE p, MinOf(back, c.debt))

\* a first guess, cover for pay; n and m are the numerator and the denominator of the formula
cover_from(c, tcr, feed, mp, n, m, cover, pay) ==
    IF cover.amount >= c.debt \/ pay.amount >= c.collateral THEN c.debt
    ELSE IF cover_ok(c, tcr, feed, pay, cover) THEN cover.amount
    ELSE search_cover(c, tcr, feed, mp, pay.amount, cover.amount,
             MinOf(c.debt, ((n + feed.base.amount * mp.quote.amount * tcr) \div m) + 1))

\* with the prices as collateral / debt
cover_by_formula(c, tcr, feed, mp, n, m) ==
    IF n < 0 THEN 0
    ELSE IF m <= 0 \/ n \div m >= c.debt THEN c.debt
    ELSE LET cover == mul(mul(Asset(n \div m, debt_type(c)), mp), mp)
         IN  cover_from(c, tcr, feed, mp, n, m, cover, multiply_and_round_up(cover, mp))

toward_collateral(c, p) == IF p.base.asset_id = collateral_type(c) THEN p ELSE Invert(p)

cover_for_target(c, tcr, feed, mp) ==
    cover_by_formula(c, tcr, feed, mp,
        feed.base.amount * mp.quote.amount * c.debt * tcr
            - feed.quote.amount * mp.quote.amount * c.collateral * GRAPHENE_COLLATERAL_RATIO_DENOM,
        feed.base.amount * mp.quote.amount * tcr
            - feed.quote.amount * mp.base.amount * GRAPHENE_COLLATERAL_RATIO_DENOM)

get_max_debt_to_cover(c, match_price, feed_price, mcr) ==
    IF price_less(toward_collateral(c, feed_price), c.call_price) THEN 0
    ELSE IF ~Valid(c.tcr) THEN c.debt
    ELSE cover_for_target(c, MaxOf(Deref(c.tcr), mcr), toward_collateral(c, feed_price),
                          toward_collateral(c, match_price))

-----------------------------------------------------------------------------
(***************************************************************************)
(* Cancelling and filling orders.                                          *)
(***************************************************************************)
core_in_orders(d, acct, x) ==
    IF x.asset_id = CORE THEN [d EXCEPT !.stat[acct].total_core_in_orders = @ + x.amount] ELSE d

\* by_system: with the virtual operation, for which a part of the deferred fee is kept
cancel_limit_order(d, i, by_system) ==
    LET o == d.limit[i]
        paid == o.deferred_paid_fee
        cancel_fee == IF by_system THEN MinOf(d.gpo.cancel_fee, o.deferred_fee) ELSE 0
        paid_part == IF cancel_fee = 0 THEN 0
                     ELSE DivUp(paid.amount * cancel_fee, o.deferred_fee)
        left == o.deferred_fee - cancel_fee
        d1 == IF cancel_fee > 0 THEN pay_fee(d, o.seller, cancel_fee) ELSE d
        d2 == [d1 EXCEPT !.dyn[paid.asset_id].accumulated_fees = @ + paid_part]
        d3 == adjust_balance(core_in_orders(d2, o.seller, Neg(amount_for_sale(o))),
                             o.seller, amount_for_sale(o))
        d4 == IF paid.amount = 0 THEN adjust_balance(d3, o.seller, CoreAsset(left))
              ELSE [adjust_balance(d3, o.seller, Asset(paid.amount - paid_part, paid.asset_id))
                    EXCEPT !.dyn[paid.asset_id].fee_pool = @ + left]
    IN  [d4 EXCEPT !.limit = Erase(@, i)]

cancel_settle_order(d, i) ==
    [adjust_balance(d, d.settle[i].owner, d.settle[i].balance) EXCEPT !.settle = Erase(@, i)]

cancel_bid(d, i) ==
    [adjust_balance(d, d.bid[i].bidder, d.bid[i].inv_swan_price.base) EXCEPT !.bid = Erase(@, i)]

calculate_market_fee(d, x) ==
    LET a == d.asset[x.asset_id]
    IN  IF charges_market_fees(a)
        THEN Asset(MinOf(cut_fee(x.amount, a.fee_percent), a.max_market_fee), x.asset_id)
        ELSE Asset(0, x.asset_id)

\* a market fee that is withheld and not booked
pay_market_fees_lost(d, x) == d

\* the fee goes to the issuer of what is received
pay_market_fees(d, x) ==
    [d EXCEPT !.dyn[x.asset_id].accumulated_fees = @ + calculate_market_fee(d, x).amount]

pay_order(d, receiver, receives, pays) ==
    adjust_balance(core_in_orders(d, receiver, Neg(pays)), receiver, receives)

\* the result of the functions that fill: the database, and whether the order is gone
maybe_cull_small_order(d, i) ==
    IF amount_to_receive(d.limit[i]).amount = 0
    THEN [db |-> cancel_limit_order(d, i, TRUE), filled |-> TRUE]
    ELSE [db |-> d, filled |-> FALSE]

\* the rest of fill_order, once everybody is paid
order_filled(d, i, pays, cull_if_small) ==
    LET left == [d EXCEPT !.limit[i].for_sale = @ - pays.amount,
                          !.limit[i].deferred_fee = 0,
                          !.limit[i].deferred_paid_fee.amount = 0]
    IN  IF pays = amount_for_sale(d.limit[i])
        THEN [db |-> [d EXCEPT !.limit = Erase(@, i)], filled |-> TRUE]
        ELSE IF cull_if_small THEN maybe_cull_small_order(left, i)
        ELSE [db |-> left, filled |-> FALSE]

fill_limit_order(d, i, pays, receives, cull_if_small) ==
    LET o == d.limit[i]
        d1 == pay_market_fees(Check(d, pays.amount <= o.for_sale), receives)
        d2 == pay_order(d1, o.seller, Minus(receives, calculate_market_fee(d, receives)), pays)
        pay(e) == IF o.deferred_fee > 0 THEN pay_fee(e, o.seller, o.deferred_fee) ELSE e
        d3 == [pay(d2) EXCEPT !.dyn[o.deferred_paid_fee.asset_id].accumulated_fees =
                                  @ + o.deferred_paid_fee.amount]
    IN  order_filled(d3, i, pays, cull_if_small)

fill_call_order(d, i, pays, receives) ==
    LET c == d.call[i]
        debt == c.debt - receives.amount
        collateral == Asset(c.collateral - pays.amount, collateral_type(c))
        mcr == d.bit[receives.asset_id].current_feed.mcr
        d1 == [Check(d, /\ debt_type(c) = receives.asset_id
                        /\ collateral_type(c) = pays.asset_id
                        /\ c.collateral >= pays.amount)
               EXCEPT !.dyn[receives.asset_id].current_supply = @ - receives.amount]
    IN  IF debt = 0
        THEN [db |-> [core_in_orders(core_in_orders(adjust_balance(d1, c.borrower, collateral),
                                                    c.borrower, Neg(pays)),
                                     c.borrower, Neg(collateral))
                      EXCEPT !.call = Erase(@, i)],
              filled |-> TRUE]
        ELSE [db |-> core_in_orders(
                        [d1 EXCEPT !.call[i].debt = debt,
                                   !.call[i].collateral = collateral.amount,
                                   !.call[i].call_price =
                                       call_price(Asset(debt, debt_type(c)), collateral, mcr)],
                        c.borrower, Neg(pays)),
              filled |-> FALSE]

fill_settle_order(d, i, pays, receives) ==
    LET s == d.settle[i]
        d1 == adjust_balance(pay_market_fees(d, receives), s.owner,
                             Minus(receives, calculate_market_fee(d, receives)))
    IN  [d1 EXCEPT !.settle = IF pays.amount < s.balance.amount
                              THEN [@ EXCEPT ![i].balance = Minus(@, pays)]
                              ELSE Erase(@, i)]

-----------------------------------------------------------------------------
(***************************************************************************)
(* Global settlement and its end.                                          *)
(***************************************************************************)
\* the position c pays its debt, owed, or all it has
settle_position(s, c, owed) ==
    LET pays == Asset(MinOf(owed.amount, s.db.call[c].collateral), owed.asset_id)
    IN  [db |-> fill_call_order(s.db, c, pays, get_debt(s.db.call[c])).db,
         gathered |-> s.gathered + pays.amount]

\* the positions calls, from the least collateralized on
RECURSIVE settle_positions(_, _, _)
settle_positions(s, price, calls) ==
    LET c == first_call(s.db, calls)
    IN  IF calls = {} THEN s
        ELSE settle_positions(
                 settle_position(s, c, multiply_and_round_up(get_debt(s.db.call[c]), price)),
                 price, calls \ {c})

fund_gathered(r, mia, supply) ==
    [r.db EXCEPT !.bit[mia].settlement_price =
                     Price(Asset(supply, mia), Asset(r.gathered, r.db.bit[mia].backing)),
                 !.bit[mia].settlement_fund = r.gathered,
                 !.dyn[mia].current_supply = supply]

globally_settle_asset(d, mia, price) ==
    fund_gathered(settle_positions([db |-> Check(d, ~has_settlement(d.bit[mia])), gathered |-> 0],
                                   price, call_orders(d, d.bit[mia].backing, mia)),
                  mia, d.dyn[mia].current_supply)

\* the position gets the debt that was bid for, also for the last bid, which covers the rest
execute_bid_in_full(d, i, debt, collateral_from_fund, feed) ==
    LET bid == d.bid[i]
        collateral == [bid.inv_swan_price.base EXCEPT !.amount = @ + collateral_from_fund]
        call == call_order_object(bid.bidder, collateral.amount, bid.inv_swan_price.quote.amount,
                    call_price(bid.inv_swan_price.quote, collateral, feed.mcr), None)
    IN  [core_in_orders(d, bid.bidder, collateral) EXCEPT
            !.call = Insert(@, call), !.bid = Erase(@, i)]

execute_bid(d, i, debt, collateral_from_fund, feed) ==
    LET bid == d.bid[i]
        collateral == [bid.inv_swan_price.base EXCEPT !.amount = @ + collateral_from_fund]
        call == call_order_object(bid.bidder, collateral.amount, debt,
                    call_price(Asset(debt, bid.inv_swan_price.quote.asset_id), collateral, feed.mcr),
                    None)
    IN  [core_in_orders(d, bid.bidder, collateral) EXCEPT
            !.call = Insert(@, call), !.bid = Erase(@, i)]

_cancel_bids_and_revive_mpa(d, mia) ==
    LET cancelled == FoldSet(LAMBDA i, e : cancel_bid(e, i), d, bids_of(d, mia))
    IN  [Check(cancelled, has_settlement(d.bit[mia]) /\ ~d.bit[mia].is_prediction_market)
         EXCEPT !.bit[mia].settlement_price = NullPrice, !.bit[mia].settlement_fund = 0]

\* the debt becomes a margin position of the issuer with the settlement fund as collateral
revive_bitasset(d, mia) ==
    LET b == d.bit[mia]
        supply == d.dyn[mia].current_supply
        pseudo_bid == collateral_bid_object(d.asset[mia].issuer,
                          Price(Asset(0, b.backing), Asset(supply, mia)))
        d1 == Check(d, /\ has_settlement(b)
                       /\ ~b.is_prediction_market
                       /\ ~is_null(b.current_feed.settlement_price))
        d2 == execute_bid([d1 EXCEPT !.bid = Insert(@, pseudo_bid)], NextId(d.bid),
                          supply, b.settlement_fund, b.current_feed)
    IN  _cancel_bids_and_revive_mpa(IF supply > 0 THEN d2
                                    ELSE Check(d1, b.settlement_fund = 0), mia)

-----------------------------------------------------------------------------
(***************************************************************************)
(* Matching.                                                               *)
(***************************************************************************)
\* the other order is filled, after the taker with the result taken
fill_maker(taken, maker, pays, receives) ==
    LET r == fill_limit_order(taken.db, maker, pays, receives, TRUE)
    IN  [db |-> Check(r.db, taken.filled \/ r.filled), taker |-> taken.filled, maker |-> r.filled]

\* two limit orders, the taker first; filled is bit 0 (taker) and bit 1 (maker) of the result
match_limit_limit(d, usd, core, match_price) ==
    LET u == amount_for_sale(d.limit[usd])
        c == amount_for_sale(d.limit[core])
        smaller == u.amount <= mul(c, match_price).amount
        usd_receives == IF smaller THEN mul(u, match_price)
                        ELSE multiply_and_round_up(mul(c, match_price), match_price)
        core_receives == IF smaller THEN multiply_and_round_up(usd_receives, match_price)
                         ELSE mul(c, match_price)
    IN  IF smaller /\ usd_receives.amount = 0
        THEN [db |-> d, taker |-> TRUE, maker |-> FALSE]
        ELSE fill_maker(fill_limit_order(d, usd, core_receives, usd_receives, smaller),
                        core, usd_receives, core_receives)

\* the amounts that an order for_sale and a margin call that has to buy to_buy exchange
call_exchange(for_sale, to_buy, match_price) ==
    IF to_buy.amount > for_sale.amount
    THEN [fills_limit |-> TRUE, order_receives |-> mul(for_sale, match_price),
          call_receives |-> multiply_and_round_up(mul(for_sale, match_price), match_price)]
    ELSE [fills_limit |-> FALSE, order_receives |-> multiply_and_round_up(to_buy, match_price),
          call_receives |-> to_buy]

\* the position is filled after the order with the result taken
fill_called(taken, ask, pays, receives) ==
    LET r == fill_call_order(taken.db, ask, pays, receives)
    IN  [db |-> r.db, taker |-> taken.filled, maker |-> r.filled]

\* a limit order, the taker, and a margin position that is called, exchange x
fill_limit_call(d, bid, ask, x) ==
    IF x.fills_limit /\ x.order_receives.amount = 0
    THEN [db |-> d, taker |-> TRUE, maker |-> FALSE]
    ELSE fill_called(fill_limit_order(d, bid, x.call_receives, x.order_receives, x.fills_limit),
                     ask, x.order_receives, x.call_receives)

debt_to_buy(c, match_price, feed_price, mcr) ==
    Asset(get_max_debt_to_cover(c, match_price, feed_price, mcr), debt_type(c))

match_limit_call(d, bid, ask, match_price, feed_price, mcr) ==
    fill_limit_call(d, bid, ask,
        call_exchange(amount_for_sale(d.limit[bid]),
                      debt_to_buy(d.call[ask], match_price, feed_price, mcr), match_price))

\* a margin position and a force settlement; settled is what is returned
match_call_settle(d, call, settle, match_price, max_settlement) ==
    LET c == d.call[call]
        s == d.settle[settle]
        receives == MinOf(MinOf(s.balance.amount, max_settlement.amount), c.debt)
        whole_call == receives = c.debt
        whole_settle == receives = s.balance.amount
        R(n) == Asset(n, s.balance.asset_id)
        pays0 == mul(R(receives), match_price)
        pays == IF ~whole_call THEN pays0
                ELSE IF pays0.amount = 0 THEN [pays0 EXCEPT !.amount = 1]
                ELSE multiply_and_round_up(R(receives), match_price)
        rounded == IF whole_call THEN R(receives) ELSE multiply_and_round_up(pays, match_price)
        cull(e) == IF ~whole_call /\ whole_settle /\ rounded # s.balance
                   THEN cancel_settle_order(e, settle) ELSE e
    IN  IF pays0.amount = 0 /\ ~whole_call
        THEN [db |-> IF whole_settle THEN cancel_settle_order(d, settle) ELSE d, settled |-> R(0)]
        ELSE [db |-> cull(fill_settle_order(fill_call_order(d, call, pays, rounded).db,
                                            settle, rounded, pays)),
              settled |-> rounded]

call_match_price(d, mia) == Invert(max_short_squeeze_price(d.bit[mia].current_feed))

\* the state of a loop of apply_order after the match r
matched(r) == [db |-> r.db, finished |-> r.taker]

\* the order i against the best orders, before the margin calls only those above their price
RECURSIVE match_limits(_, _, _, _, _, _)
match_limits(t, i, sell, recv, price, before) ==
    LET T == {j \in limit_orders(t.db, recv, sell) :
                  /\ ~t.finished
                  /\ price_leq(Invert(price), t.db.limit[j].sell_price)
                  /\ before => price_less(call_match_price(t.db, sell), t.db.limit[j].sell_price)}
        j == best_limit(t.db, T)
    IN  IF T = {} THEN t
        ELSE match_limits(matched(match_limit_limit(t.db, i, j, t.db.limit[j].sell_price)),
                          i, sell, recv, price, before)

\* the order i against the positions that are called
RECURSIVE match_calls(_, _, _, _)
match_calls(t, i, sell, recv) ==
    LET T == call_orders(t.db, recv, sell)
        feed == t.db.bit[sell].current_feed
    IN  IF \/ t.finished \/ T = {}
           \/ price_less(Invert(feed.settlement_price), t.db.call[first_call(t.db, T)].call_price)
        THEN t
        ELSE match_calls(matched(match_limit_call(t.db, i, first_call(t.db, T),
                                     call_match_price(t.db, sell), feed.settlement_price, feed.mcr)),
                         i, sell, recv)

sells_to_calls(d, sell, recv, price) ==
    /\ is_market_issued(d.asset[sell])
    /\ d.bit[sell].backing = recv
    /\ ~d.bit[sell].is_prediction_market
    /\ ~has_settlement(d.bit[sell])
    /\ ~is_null(d.bit[sell].current_feed.settlement_price)
    /\ price_leq(Invert(price), call_match_price(d, sell))

\* the better limit orders, the margin calls, the other limit orders
match_order(t, i, sell, recv, price) ==
    match_limits(IF ~sells_to_calls(t.db, sell, recv, price) THEN t
                 ELSE match_calls(match_limits(t, i, sell, recv, price, TRUE), i, sell, recv),
                 i, sell, recv, price, FALSE)

culled(d, i) ==
    IF i \notin DOMAIN d.limit THEN [db |-> d, filled |-> TRUE] ELSE maybe_cull_small_order(d, i)

\* the new order i, matched only if it is the best of its side
apply_order(d, i) ==
    LET p == d.limit[i].sell_price
        sell == p.base.asset_id
        recv == p.quote.asset_id
    IN  IF \E j \in limit_orders(d, sell, recv) \ {i} : ~limit_before(d, i, j)
        THEN [db |-> d, filled |-> FALSE]
        ELSE culled(match_order([db |-> d, finished |-> FALSE], i, sell, recv, p).db, i)

-----------------------------------------------------------------------------
(***************************************************************************)
(* Black swans and margin calls.  A function that may settle the asset     *)
(* returns the database and its Boolean result.                            *)
(***************************************************************************)
check_for_blackswan(d, mia, enable) ==
    LET b == d.bit[mia]
        settle_price == b.current_feed.settlement_price
        calls == call_orders(d, b.backing, mia)
        limits == limit_orders(d, mia, b.backing)
        mssp == max_short_squeeze_price(b.current_feed)
        bid == d.limit[best_limit(d, limits)].sell_price
        highest == IF limits # {} /\ price_less(mssp, bid) THEN bid ELSE mssp
        least == Invert(collateralization(d.call[first_call(d, calls)]))
    IN  IF ~is_market_issued(d.asset[mia]) THEN [db |-> d, swan |-> FALSE]
        ELSE IF has_settlement(b) THEN [db |-> d, swan |-> TRUE]
        ELSE IF is_null(settle_price) \/ calls = {} \/ price_less(least, highest)
        THEN [db |-> d, swan |-> FALSE]
        ELSE [db |-> globally_settle_asset(Check(d, enable), mia,
                         IF price_leq(least, settle_price) THEN settle_price ELSE least),
              swan |-> TRUE]

\* what the called position j and the order i exchange, in the order of check_call_orders
fill_margin_call(d, i, j, x) ==
    fill_limit_order(fill_call_order(d, j, x.order_receives, x.call_receives).db,
                     i, x.call_receives, x.order_receives, TRUE).db

RECURSIVE margin_calls(_, _, _, _)

\* the position j is called and the order i is on the other side
margin_call(d, mia, i, j, enable) ==
    LET feed == d.bit[mia].current_feed
        match_price == d.limit[i].sell_price
    IN  IF mul(get_debt(d.call[j]), match_price).amount > d.call[j].collateral
        THEN [db |-> globally_settle_asset(Check(d, enable), mia, feed.settlement_price),
              called |-> TRUE]
        ELSE margin_calls(
                 check_for_blackswan(
                     fill_margin_call(d, i, j,
                         call_exchange(amount_for_sale(d.limit[i]),
                             debt_to_buy(d.call[j], match_price, feed.settlement_price, feed.mcr),
                             match_price)),
                     mia, enable),
                 TRUE, mia, enable)

\* the loop of check_call_orders: w is the result of the look for a black swan
margin_calls(w, called, mia, enable) ==
    LET d == w.db
        b == d.bit[mia]
        calls == call_orders(d, b.backing, mia)
        limits == {i \in limit_orders(d, mia, b.backing) :
                       price_leq(max_short_squeeze_price(b.current_feed), d.limit[i].sell_price)}
    IN  IF \/ w.swan \/ calls = {} \/ limits = {}
           \/ price_less(Invert(d.call[first_call(d, calls)].call_price),
                         b.current_feed.settlement_price)
        THEN [db |-> d, called |-> called]
        ELSE margin_call(d, mia, best_limit(d, limits), first_call(d, calls), enable)

call_all(w, mia, enable) ==
    IF \/ w.swan \/ w.db.bit[mia].is_prediction_market
       \/ is_null(w.db.bit[mia].current_feed.settlement_price)
    THEN [db |-> w.db, called |-> FALSE]
    ELSE margin_calls(check_for_blackswan(w.db, mia, enable), FALSE, mia, enable)

check_call_orders(d, mia, enable) ==
    IF ~is_market_issued(d.asset[mia]) THEN [db |-> d, called |-> FALSE]
    ELSE call_all(check_for_blackswan(d, mia, enable), mia, enable)

-----------------------------------------------------------------------------
(***************************************************************************)
(* The operations of the market.                                           *)
(***************************************************************************)
limit_order_create_operation(fee, seller, sell, receive, expiration, fill_or_kill) ==
    [type |-> "limit_order_create", fee |-> fee, payer |-> seller, seller |-> seller,
     amount_to_sell |-> sell, min_to_receive |-> receive, expiration |-> expiration,
     fill_or_kill |-> fill_or_kill]

limit_order_create_validate(op) ==
    /\ op.amount_to_sell.asset_id # op.min_to_receive.asset_id
    /\ op.amount_to_sell.amount > 0
    /\ op.min_to_receive.amount > 0

limit_order_create_evaluate(d, op) ==
    /\ op.expiration >= d.now
    /\ {op.amount_to_sell.asset_id, op.min_to_receive.asset_id} \subseteq DOMAIN d.asset
    /\ \A x \in {op.amount_to_sell, op.min_to_receive} :
           is_authorized_asset(d.acct[op.seller], d.asset[x.asset_id])
    /\ get_balance(d, op.seller, op.amount_to_sell.asset_id) >= op.amount_to_sell.amount

\* the fee is kept in the order until it is filled or cancelled
limit_order_create_convert_fee(d, fee) ==
    IF fee.asset_id = CORE THEN d
    ELSE [d EXCEPT !.dyn[fee.asset_id].fee_pool = @ - core_fee_paid(d, fee)]

limit_order_create_apply(d, op) ==
    LET paid == IF op.fee.asset_id = CORE THEN CoreAsset(0) ELSE op.fee
        order == limit_order_object(op.seller, op.amount_to_sell.amount,
                     Price(op.amount_to_sell, op.min_to_receive), op.expiration,
                     core_fee_paid(d, op.fee), paid)
        d1 == adjust_balance(core_in_orders(d, op.seller, op.amount_to_sell),
                             op.seller, Neg(op.amount_to_sell))
        end(r) == Check(r.db, op.fill_or_kill => r.filled)
    IN  end(apply_order([d1 EXCEPT !.limit = Insert(@, order)], NextId(d.limit)))

limit_order_cancel_operation(fee, account, order) ==
    [type |-> "limit_order_cancel", fee |-> fee, payer |-> account, order |-> order]

limit_order_cancel_evaluate(d, op) ==
    op.order \in DOMAIN d.limit /\ d.limit[op.order].seller = op.payer

limit_order_cancel_apply(d, op) == cancel_limit_order(d, op.order, FALSE)

call_order_update_operation(fee, account, collateral, debt, tcr) ==
    [type |-> "call_order_update", fee |-> fee, payer |-> account, account |-> account,
     delta_collateral |-> collateral, delta_debt |-> debt, tcr |-> tcr]

call_order_update_validate(op) ==
    /\ op.delta_collateral.asset_id # op.delta_debt.asset_id
    /\ op.delta_collateral.amount # 0 \/ op.delta_debt.amount # 0

call_order_update_evaluate(d, op) ==
    LET mia == op.delta_debt.asset_id
    IN  /\ op.account \in DOMAIN d.acct
        /\ mia \in DOMAIN d.asset
        /\ is_market_issued(d.asset[mia])
        /\ ~has_settlement(d.bit[mia])
        /\ op.delta_collateral.asset_id = d.bit[mia].backing
        /\ IF d.bit[mia].is_prediction_market
           THEN op.delta_collateral.amount = op.delta_debt.amount
           ELSE ~is_null(d.bit[mia].current_feed.settlement_price)

\* the position of the account, and what it becomes
call_order_update_apply(d, op) ==
    LET mia == op.delta_debt.asset_id
        b == d.bit[mia]
        mine == {c \in DOMAIN d.call : /\ d.call[c].borrower = op.account
                                       /\ debt_type(d.call[c]) = mia}
        old == d.call[Deref(mine)]
        id == IF mine = {} THEN NextId(d.call) ELSE Deref(mine)
        debt == op.delta_debt.amount + IF mine = {} THEN 0 ELSE old.debt
        collateral == op.delta_collateral.amount + IF mine = {} THEN 0 ELSE old.collateral
        closed == mine # {} /\ debt = 0
        new == call_order_object(op.account, collateral, debt,
                   call_price(Asset(debt, mia), Asset(collateral, b.backing), b.current_feed.mcr),
                   op.tcr)
        d1 == adjust_balance(d, op.account, op.delta_debt)
        d2 == [d1 EXCEPT !.dyn[mia].current_supply = @ + op.delta_debt.amount]
        d3 == Check(adjust_balance(d2, op.account, Neg(op.delta_collateral)),
                    d2.dyn[mia].current_supply >= 0)
        d4 == Check(core_in_orders(d3, op.account, op.delta_collateral),
                    IF closed THEN collateral = 0 ELSE collateral > 0 /\ debt > 0)
        fine(c) == \/ /\ mine # {} /\ c.debt <= old.debt
                      /\ price_less(collateralization(old), collateralization(c))
                   \/ price_less(Invert(c.call_price), b.current_feed.settlement_price)
        end(r) == IF r.called THEN Check(r.db, id \notin DOMAIN r.db.call)
                  ELSE Check(r.db, id \in DOMAIN r.db.call /\ fine(r.db.call[id]))
    IN  IF ~d4.ok THEN d4
        ELSE IF closed THEN [d4 EXCEPT !.call = Erase(@, id)]
        ELSE IF b.is_prediction_market THEN [d4 EXCEPT !.call = Put(@, id, new)]
        ELSE end(check_call_orders([d4 EXCEPT !.call = Put(@, id, new)], mia, FALSE))

bid_collateral_operation(fee, bidder, additional, covered) ==
    [type |-> "bid_collateral", fee |-> fee, payer |-> bidder, bidder |-> bidder,
     additional_collateral |-> additional, debt_covered |-> covered]

bid_collateral_validate(op) ==
    op.debt_covered.amount = 0 \/ (op.debt_covered.amount > 0 /\ op.additional_collateral.amount > 0)

bid_of(d, op) == {i \in bids_of(d, op.debt_covered.asset_id) : d.bid[i].bidder = op.bidder}

bid_collateral_evaluate(d, op) ==
    LET mia == op.debt_covered.asset_id
        more == op.additional_collateral
    IN  /\ op.bidder \in DOMAIN d.acct
        /\ mia \in DOMAIN d.asset
        /\ is_market_issued(d.asset[mia])
        /\ has_settlement(d.bit[mia])
        /\ more.asset_id = d.bit[mia].backing
        /\ ~d.bit[mia].is_prediction_market
        /\ more.amount > 0 => get_balance(d, op.bidder, more.asset_id) >= more.amount
        /\ bid_of(d, op) = {} => op.debt_covered.amount > 0

bid_collateral_apply(d, op) ==
    LET d1 == IF bid_of(d, op) = {} THEN d ELSE cancel_bid(d, Deref(bid_of(d, op)))
        bid == collateral_bid_object(op.bidder, Price(op.additional_collateral, op.debt_covered))
    IN  IF op.debt_covered.amount = 0 THEN d1
        ELSE [adjust_balance(d1, op.bidder, Neg(op.additional_collateral)) EXCEPT
                 !.bid = Insert(@, bid)]

=============================================================================
