----------------------------- MODULE ChainMaint -----------------------------
(***************************************************************************)
(* What a block does after its transactions (db_update.cpp): the dynamic   *)
(* global properties, the pay of its witness, irreversibility, and what    *)
(* has expired: transactions, proposals, orders, feeds, permissions.       *)
(*                                                                         *)
(* The maintenance of the chain (db_maint.cpp): fees backed assets, votes, *)
(* the witnesses and the committee, parameters, bitassets and the budget;  *)
(* and the order of the steps of a block (db_block.cpp, _apply_block).     *)
(* The reforms that maintenance made once, at a hard fork that is past,    *)
(* are left out.                                                           *)
(***************************************************************************)
EXTENDS Operations

GRAPHENE_MAX_UNDO_HISTORY == 10000
GRAPHENE_RECENTLY_MISSED_COUNT_INCREMENT == 4
GRAPHENE_RECENTLY_MISSED_COUNT_DECREMENT == 3
GRAPHENE_IRREVERSIBLE_THRESHOLD == 7000

\* the ids of S, in the order of an index
InOrder(S, Before(_, _)) == SetToSortSeq(S, Before)
ForEach(d, ids, Do(_, _)) == FoldLeft(Do, d, ids)

update_global_dynamic_data(d, now, missed) ==
    LET inc == GRAPHENE_RECENTLY_MISSED_COUNT_INCREMENT
        count(n) == CASE d.dgp.head_block_number = 0 -> 0
                      [] missed > 0 -> n + inc * missed
                      [] missed = 0 /\ n > inc -> n - GRAPHENE_RECENTLY_MISSED_COUNT_DECREMENT
                      [] OTHER -> MaxOf(n - 1, 0)
        d1 == [d EXCEPT !.dgp.recently_missed_count = count(@),
                        !.dgp.head_block_number = @ + 1,
                        !.dgp.current_aslot = @ + missed + 1,
                        !.now = now]
    IN  Check(d1, d1.dgp.head_block_number - d1.dgp.last_irreversible_block_num
                      < GRAPHENE_MAX_UNDO_HISTORY)

\* get_slot_at_time is 0 for the block that has just become the head
update_signing_witness(d, w) ==
    LET pay == MinOf(d.gpo.witness_pay_per_block, d.dgp.witness_budget)
        d1 == deposit_witness_pay([d EXCEPT !.dgp.witness_budget = @ - pay], w, pay)
    IN  [d1 EXCEPT !.wit[w].last_aslot = d1.dgp.current_aslot,
                   !.wit[w].last_confirmed = d1.dgp.head_block_number]

\* the block that enough witnesses have built on
update_last_irreversible_block(d) ==
    LET confirmed == InOrder(d.gpo.active_witnesses, LAMBDA v, w :
                         \/ d.wit[v].last_confirmed < d.wit[w].last_confirmed
                         \/ d.wit[v].last_confirmed = d.wit[w].last_confirmed /\ v < w)
        offset == cut_fee(Len(confirmed), GRAPHENE_100_PERCENT - GRAPHENE_IRREVERSIBLE_THRESHOLD)
    IN  [d EXCEPT !.dgp.last_irreversible_block_num =
                      MaxOf(@, d.wit[confirmed[offset + 1]].last_confirmed)]

clear_expired_transactions(d) == [d EXCEPT !.trxs = {t \in @ : d.now <= t[2]}]

done_or_removed(d, p, pushed) == IF pushed.ok THEN pushed ELSE remove_proposal(d, p)

\* an expired proposal is executed if it is approved by now, and is gone either way
end_proposal(d, p) ==
    IF ~is_authorized_to_execute(d, p) THEN remove_proposal(d, p)
    ELSE done_or_removed(d, p, push_proposal(d, p, 0))

clear_expired_proposals(d) ==
    LET expired(e) == {p \in DOMAIN e.prop : e.prop[p].expiration <= e.now}
        first(e) == FirstOf(expired(e), LAMBDA i, j :
                        \/ e.prop[i].expiration < e.prop[j].expiration
                        \/ e.prop[i].expiration = e.prop[j].expiration /\ i < j)
    IN  Iterate(LAMBDA e : IF expired(e) = {} THEN e ELSE end_proposal(e, first(e)),
                d, Cardinality(DOMAIN d.prop))

-----------------------------------------------------------------------------
(***************************************************************************)
(* Expired orders and due settlements.                                     *)
(***************************************************************************)
clear_expired_limit_orders(d) ==
    LET expired == {i \in DOMAIN d.limit : d.limit[i].expiration <= d.now}
    IN  ForEach(d, InOrder(expired, LAMBDA i, j :
                       \/ d.limit[i].expiration < d.limit[j].expiration
                       \/ d.limit[i].expiration = d.limit[j].expiration /\ i < j),
                LAMBDA e, i : cancel_limit_order(e, i, TRUE))

RECURSIVE settle_while(_, _, _, _)

\* r is what the last match has done; one that settles nothing ends the loop
settle_next(t, i, price, max, r) ==
    IF r.settled.amount = 0
    THEN [t EXCEPT !.db = r.db, !.finished = i \in DOMAIN r.db.settle]
    ELSE settle_while([t EXCEPT !.db = r.db, !.settled = @ + r.settled.amount], i, price, max)

\* the loop over the least collateralized positions: i is due, t.settled the volume so far
settle_while(t, i, price, max) ==
    LET s == t.db.settle[i].balance
        mia == s.asset_id
    IN  IF t.settled >= max \/ i \notin DOMAIN t.db.settle THEN t
        ELSE IF s.amount = 0 THEN [t EXCEPT !.db = cancel_settle_order(@, i)]
        ELSE settle_next(t, i, price, max,
                 match_call_settle(t.db,
                     least_collateralized(t.db, call_orders(t.db, t.db.bit[mia].backing, mia)),
                     i, price, Asset(max - t.settled, mia)))

volume_settled(t, mia) == [t EXCEPT !.db.bit[mia].force_settled_volume = t.settled]

\* one due settlement, up to the volume max
settle_due_order(d, mia, i, max) ==
    LET b == d.bit[mia]
    IN  volume_settled(
            settle_while([db |-> Check(d, b.settle_offset < GRAPHENE_100_PERCENT),
                          settled |-> b.force_settled_volume, finished |-> FALSE],
                         i,
                         scale_price(b.current_feed.settlement_price, GRAPHENE_100_PERCENT,
                                     GRAPHENE_100_PERCENT - b.settle_offset),
                         max),
            mia)

\* one round of the loop over the settlements, by asset and then by date; s.mia is the asset
settle_step(s) ==
    LET d == s.db
        mia_of(i) == d.settle[i].balance.asset_id
        rest == {i \in DOMAIN d.settle : mia_of(i) >= s.mia}
        i == FirstOf(rest, LAMBDA x, y :
                 mia_of(x) < mia_of(y) \/ (mia_of(x) = mia_of(y) /\ settle_before(d, x, y)))
        mia == mia_of(i)
        b == d.bit[mia]
        max == max_force_settlement_volume(b, d.dyn[mia].current_supply)
        finished == s.finished /\ mia = s.mia
        settled(r) == [db |-> r.db, mia |-> mia, finished |-> r.finished]
    IN  IF ~d.ok \/ rest = {} THEN s
        ELSE IF has_settlement(b)
        THEN [s EXCEPT !.db = cancel_settle_order(d, i), !.mia = mia]
        ELSE IF d.settle[i].settlement_date > d.now
        THEN [s EXCEPT !.mia = mia + 1, !.finished = FALSE]
        ELSE IF is_null(b.current_feed.settlement_price)
        THEN [s EXCEPT !.db = cancel_settle_order(d, i), !.mia = mia]
        ELSE IF b.force_settled_volume >= max \/ finished
        THEN [s EXCEPT !.mia = mia + 1, !.finished = FALSE]
        ELSE settled(settle_due_order(d, mia, i, max))

clear_expired_orders(d) ==
    Iterate(settle_step, [db |-> clear_expired_limit_orders(d), mia |-> 0, finished |-> FALSE],
            2 * Cardinality(DOMAIN d.settle) + 1).db

-----------------------------------------------------------------------------
(***************************************************************************)
(* Feeds that have expired, core exchange rates, withdraw permissions.     *)
(***************************************************************************)
take_feed_cer(d, mia) ==
    [d EXCEPT !.asset[mia].cer = {d.bit[mia].current_feed.core_exchange_rate},
              !.bit[mia].asset_cer_updated = FALSE,
              !.bit[mia].feed_cer_updated = FALSE]

cer_taken(d, a, needed) == IF needed THEN take_feed_cer(d, a) ELSE d

\* d has the new feed; the decision on the core exchange rate is made before the margin calls
feed_updated(d, a, old) ==
    cer_taken(IF /\ ~is_null(d.bit[a].current_feed.settlement_price)
                 /\ ~feed_equal(d.bit[a].current_feed, old)
              THEN check_call_orders(d, a, TRUE).db ELSE d,
              a, need_to_update_cer(d.bit[a]))

update_expired_feeds(d) ==
    LET expired == {a \in DOMAIN d.bit : feed_is_expired(d.bit[a], d.now)}
        before(a, b) == LET x == feed_expiration_time(d.bit[a])
                            y == feed_expiration_time(d.bit[b])
                        IN  x < y \/ (x = y /\ a < b)
    IN  ForEach(d, InOrder(expired, before), LAMBDA e, a :
                feed_updated([e EXCEPT !.bit[a] = update_median_feeds(@, e.now)],
                             a, e.bit[a].current_feed))

update_core_exchange_rates(d) ==
    ForEach(d, InOrder({a \in DOMAIN d.bit : need_to_update_cer(d.bit[a])}, <), take_feed_cer)

update_withdraw_permissions(d) ==
    [d EXCEPT !.permit = [p \in {q \in DOMAIN @ : @[q].expiration > d.now} |-> @[p]]]

update_maintenance_flag(d, flag) == [d EXCEPT !.dgp.maintenance_flag = flag]

-----------------------------------------------------------------------------
(***************************************************************************)
(* Maintenance.                                                            *)
(***************************************************************************)

\* the core asset leaves the reserve at CYCLE_RATE / CYCLE_UNITS per unit of model time
CYCLE_RATE == 17
CYCLE_UNITS == 1024

-----------------------------------------------------------------------------
(***************************************************************************)
(* Fees backed assets.                                                     *)
(***************************************************************************)
split_fba_balance(d, id, buyback_pct, issuer_pct) ==
    LET total == d.fba[id].accumulated_fba_fees
        a == d.asset[Deref(d.fba[id].designated_asset)]
        buyback == cut_fee(total, buyback_pct)
        issuer == cut_fee(total, issuer_pct)
        network(e, n) == [e EXCEPT !.dyn[CORE].current_supply = @ - n,
                                   !.fba[id].accumulated_fba_fees = 0]
    IN  IF ~fba_is_configured(d, d.fba[id]) THEN network(d, total)
        ELSE adjust_balance(adjust_balance(network(d, total - buyback - issuer),
                                           Deref(a.buyback), CoreAsset(buyback)),
                            a.issuer, CoreAsset(issuer))

distribute_fba_balances(d) ==
    FoldLeft(LAMBDA e, id : split_fba_balance(e, id, 6000, 2000), d,
             <<"transfer_to_blind", "blind_transfer", "transfer_from_blind">>)

\* what is left of the order id is cancelled
cancel_rest(d, id) == IF id \in DOMAIN d.limit THEN cancel_limit_order(d, id, FALSE) ELSE d

\* sell all of an asset for at least one unit of the asset to buy, and cancel what is
\* left.  The fee schedule is not consulted; an exception leaves what was done before it
buyback_order(d, account, sell, buy) ==
    LET amount == Asset(get_balance(d, account, sell), sell)
        op == limit_order_create_operation(CoreAsset(0), account, amount, Asset(1, buy),
                                           MAX_TIME, FALSE)
        id == NextId(d.limit)
    IN  IF ~(prepare_fee(d, account, op.fee) /\ limit_order_create_evaluate(d, op)) THEN d
        ELSE cancel_rest(limit_order_create_apply(d, op), id)

buyback_orders(d, account, buy) ==
    ForEach(d, InOrder({a \in UNION d.acct[account].allowed_assets \ {buy} :
                            get_balance(d, account, a) > 0}, <),
            LAMBDA e, a : buyback_order(e, account, a, buy))

create_buyback_orders(d) ==
    ForEach(d, InOrder(d.buyback, <), LAMBDA e, buy :
            buyback_orders(e, Deref(e.asset[buy].buyback), buy))

-----------------------------------------------------------------------------
(***************************************************************************)
(* Votes.  A tally has the stake for every vote id, the histograms of the  *)
(* numbers of witnesses and committee members asked for, and the total.    *)
(***************************************************************************)
vote_tally(d) ==
    [votes |-> [n \in 0..d.gpo.next_available_vote_id - 1 |-> 0],
     witness |-> [n \in 0..d.gpo.max_witness \div 2 |-> 0],
     committee |-> [n \in 0..d.gpo.max_committee \div 2 |-> 0],
     total |-> 0]

tally_helper(d, t, id) ==
    LET a == d.acct[id]
        s == d.stat[id]
        opinion == IF a.options.voting_account = GRAPHENE_PROXY_TO_SELF_ACCOUNT THEN a.options
                   ELSE d.acct[a.options.voting_account].options
        stake == s.total_core_in_orders + s.core_in_balance
                 + SumOver(a.cashback_vb, LAMBDA v : d.vest[v].balance.amount)
        voted == {v[2] : v \in opinion.votes}
        count(h, n, max) ==
            [k \in DOMAIN h |-> IF n <= max /\ k = MinOf(n \div 2, Max(DOMAIN h))
                                THEN h[k] + stake ELSE h[k]]
    IN  IF ~d.gpo.count_non_member_votes /\ ~is_member(a, d.now) THEN t
        ELSE [votes |-> [n \in DOMAIN t.votes |-> t.votes[n] + IF n \in voted THEN stake ELSE 0],
              witness |-> count(t.witness, opinion.num_witness, d.gpo.max_witness),
              committee |-> count(t.committee, opinion.num_committee, d.gpo.max_committee),
              total |-> t.total + stake]

\* the balances that have changed, then the accounts that vote or owe fees, by name (here
\* by id).  The next account is found before the fees of this one are paid
perform_account_maintenance(d) ==
    LET after(e, id) == {a \in DOMAIN e.stat : a > id /\ need_maintenance(e.stat[a])}
        next(e, id) == IF after(e, id) = {} THEN None ELSE {Min(after(e, id))}
        d1 == [d EXCEPT !.stat = [a \in DOMAIN @ |->
                            IF a \in d.flagged
                            THEN [@[a] EXCEPT !.core_in_balance = get_balance(d, a, CORE)]
                            ELSE @[a]],
                        !.flagged = {}]
        counted(s, id) == IF has_some_core_voting(s.db.stat[id]) THEN tally_helper(s.db, s.tally, id)
                          ELSE s.tally
    IN  Iterate(LAMBDA s :
                    IF ~Valid(s.at) THEN s
                    ELSE [db |-> process_fees(s.db, Deref(s.at)), tally |-> counted(s, Deref(s.at)),
                          at |-> next(s.db, Deref(s.at))],
                [db |-> d1, tally |-> vote_tally(d1), at |-> next(d1, -1)],
                Cardinality(DOMAIN d.acct))

\* vote_counter: S in the order in which they are added, of <<account, votes>>.  (Below
\* 2^16 votes none of their bits is dropped)
vote_counter(S, auth) ==
    LET voted == {x \in S : x[2] > 0}
        total == SumOver(voted, LAMBDA x : x[2])
    IN  IF total = 0 THEN auth
        ELSE Authority(total \div 2 + 1,
                       [k \in {<<"account", x[1]>> : x \in voted} |->
                           Deref({x[2] : x \in {y \in voted : y[1] = k[2]}})])

\* the authority of an account that the holders of an asset control
update_top_n_authorities(d) ==
    LET holders(e, id, sa) ==
            LET S == {k[1] : k \in {x \in DOMAIN e.bal : x[2] = sa.asset /\ x[1] # id}}
                order == InOrder(S, LAMBDA x, y :
                             \/ e.bal[x, sa.asset] > e.bal[y, sa.asset]
                             \/ e.bal[x, sa.asset] = e.bal[y, sa.asset] /\ x < y)
            IN  {<<order[i], e.bal[order[i], sa.asset]>> :
                    i \in 1..MinOf(sa.num_top_holders, Len(order))}
        controlled(e, id, sa, which) ==
            LET S == holders(e, id, sa)
                a == e.acct[id]
                flagged == [a EXCEPT !.top_n = IF \E x \in S : x[2] > 0 THEN @ \cup {which}
                                               ELSE @]
            IN  IF sa.kind # "top_holders" THEN e
                ELSE modify_account(e, id,
                        IF which = "owner" THEN [flagged EXCEPT !.owner = vote_counter(S, @)]
                        ELSE [flagged EXCEPT !.active = vote_counter(S, @)])
    IN  ForEach(d, InOrder(d.special, <), LAMBDA e, id :
                controlled(controlled(e, id, e.acct[id].owner_special, "owner"),
                           id, e.acct[id].active_special, "active"))

\* how many are elected: as many as at least half of the stake that has an opinion asks for
elected_count(hist, total, least) ==
    LET target == (total - hist[0]) \div 2
        tally(n) == SumOver(1..n, LAMBDA k : hist[k])
        last == Max(DOMAIN hist)
        n == IF target <= 0 THEN 0
             ELSE Min({k \in 1..last : tally(k) > target} \cup {last})
    IN  MaxOf(2 * n + 1, least)

\* the first of the candidates, whatever their votes
sort_votable_objects_by_id(objs, tally, count) ==
    LET order == InOrder(DOMAIN objs, <)
    IN  {order[i] : i \in 1..MinOf(count, Len(order))}

\* the first count of the objs (a function with vote_id in its range), by votes
sort_votable_objects(objs, tally, count) ==
    LET votes(i) == tally.votes[objs[i].vote_id[2]]
        order == InOrder(DOMAIN objs, LAMBDA i, j :
                     \/ votes(i) > votes(j)
                     \/ votes(i) = votes(j) /\ objs[i].vote_id[2] < objs[j].vote_id[2])
    IN  {order[i] : i \in 1..MinOf(count, Len(order))}

elected_authority(objs, S, tally, auth) ==
    vote_counter({<<objs[i].account, tally.votes[objs[i].vote_id[2]]>> : i \in S}, auth)

\* only the elected ones have their votes written down
with_total_votes(objs, S, tally) ==
    [i \in DOMAIN objs |->
        IF i \in S THEN [objs[i] EXCEPT !.total_votes = tally.votes[objs[i].vote_id[2]]]
        ELSE objs[i]]

update_active_witnesses(d, tally) ==
    LET S == sort_votable_objects(d.wit, tally,
                 elected_count(tally.witness, tally.total, d.gpo.min_witness_count))
        a == d.acct[GRAPHENE_WITNESS_ACCOUNT]
    IN  modify_account([d EXCEPT !.wit = with_total_votes(@, S, tally),
                                 !.gpo.active_witnesses = S],
                       GRAPHENE_WITNESS_ACCOUNT,
                       [a EXCEPT !.active = elected_authority(d.wit, S, tally, @)])

update_active_committee_members(d, tally) ==
    LET S == sort_votable_objects(d.comm, tally,
                 elected_count(tally.committee, tally.total, d.gpo.min_committee_member_count))
        a == d.acct[GRAPHENE_COMMITTEE_ACCOUNT]
        d1 == [d EXCEPT !.comm = with_total_votes(@, S, tally),
                        !.gpo.active_committee_members = S]
        d2 == modify_account(d1, GRAPHENE_COMMITTEE_ACCOUNT,
                  [a EXCEPT !.active = elected_authority(d.comm, S, tally, @)])
    IN  IF S = {} THEN d1
        ELSE modify_account(d2, GRAPHENE_RELAXED_COMMITTEE_ACCOUNT,
                 [d2.acct[GRAPHENE_RELAXED_COMMITTEE_ACCOUNT] EXCEPT
                     !.active = d2.acct[GRAPHENE_COMMITTEE_ACCOUNT].active])

update_worker_votes(d, tally) ==
    [d EXCEPT !.work = [w \in DOMAIN @ |-> [@[w] EXCEPT
                                               !.votes_for = tally.votes[d.work[w].vote_for[2]],
                                               !.votes_against = 0]]]

-----------------------------------------------------------------------------
(***************************************************************************)
(* Parameters, bitassets, budget.                                          *)
(***************************************************************************)
update_parameters(d) ==
    LET shift == d.gpo.account_fee_scale_bitshifts
                     * (d.dgp.accounts_registered \div d.gpo.accounts_per_fee_scale)
        d1 == [d EXCEPT !.gpo.basic_fee = @ \div 2 ^ shift]
    IN  IF Valid(d.pending_parameters)
        THEN [d1 EXCEPT !.gpo = Deref(d.pending_parameters) @@ @, !.pending_parameters = None]
        ELSE d1

\* as many intervals as are needed to be after the block
update_next_maintenance_time(d) ==
    LET i == d.gpo.maintenance_interval
        t == d.dgp.next_maintenance_time
    IN  [d EXCEPT !.dgp.next_maintenance_time =
                      IF d.dgp.head_block_number = 1 THEN (d.now \div i + 1) * i
                      ELSE t + ((d.now - t) \div i + 1) * i,
                  !.dgp.accounts_registered = 0]

revived(r, mia) == _cancel_bids_and_revive_mpa(Check(r.db, r.fund = 0 /\ r.to_cover = 0), mia)

\* bids that are executed as soon as there are any
process_bids_early(d, mia) ==
    LET b == d.bit[mia]
        order == InOrder(bids_of(d, mia), LAMBDA i, j : bid_before(d, i, j))
        execute(s, k) ==
            [db |-> execute_bid(s.db, order[k], d.bid[order[k]].inv_swan_price.quote.amount, 0,
                                b.current_feed),
             to_cover |-> 0, fund |-> s.fund]
    IN  IF b.is_prediction_market \/ is_null(b.current_feed.settlement_price) \/ order = << >>
        THEN d
        ELSE revived(FoldLeft(execute, [db |-> d, to_cover |-> 0, fund |-> b.settlement_fund],
                              [k \in 1..Len(order) |-> k]), mia)

\* the bids that together cover the debt, if all of them would be safe, become positions
process_bids(d, mia) ==
    LET b == d.bit[mia]
        supply == d.dyn[mia].current_supply
        order == InOrder(bids_of(d, mia), LAMBDA i, j : bid_before(d, i, j))
        debt_in(k) == Asset(MinOf(d.bid[order[k]].inv_swan_price.quote.amount, supply), mia)
        from_fund(k) == mul(debt_in(k), b.settlement_price)
        unsafe(k) ==
            price_leq(b.current_feed.settlement_price,
                      Invert(call_price(debt_in(k),
                                        Plus(from_fund(k), d.bid[order[k]].inv_swan_price.base),
                                        b.current_feed.mcr)))
        covered(n) == SumOver(1..n, LAMBDA k : debt_in(k).amount)
        enough == {n \in 0..Len(order) : /\ covered(n) >= supply
                                         /\ \A k \in 1..n : ~unsafe(k)}
        execute(s, k) ==
            LET last == debt_in(k).amount >= s.to_cover
                debt == IF last THEN s.to_cover ELSE debt_in(k).amount
                collateral == IF last THEN s.fund ELSE from_fund(k).amount
            IN  [db |-> execute_bid(s.db, order[k], debt, collateral, b.current_feed),
                 to_cover |-> s.to_cover - debt, fund |-> s.fund - collateral]
    IN  IF b.is_prediction_market \/ is_null(b.current_feed.settlement_price) \/ enough = {}
        THEN d
        ELSE revived(FoldLeft(execute,
                              [db |-> d, to_cover |-> supply, fund |-> b.settlement_fund],
                              [k \in 1..Min(enough) |-> k]), mia)

\* the volume that was settled counts again from 0, and old feeds of witnesses or committee go
reset_bitasset(d, a) ==
    LET b == d.bit[a]
        fed == d.asset[a].flags \cap {"witness_fed_asset", "committee_fed_asset"} # {}
        recent == {p \in DOMAIN b.feeds : b.feeds[p].time >= d.now - b.feed_lifetime}
    IN  [d EXCEPT !.bit[a] = [@ EXCEPT !.force_settled_volume = 0,
                                       !.feeds = IF fed /\ b.feed_lifetime < d.now
                                                 THEN [p \in recent |-> @[p]] ELSE @]]

process_bitassets(d) ==
    ForEach(d, InOrder(DOMAIN d.bit, <), LAMBDA e, a :
            IF has_settlement(e.bit[a]) THEN process_bids(reset_bitasset(e, a), a)
            ELSE reset_bitasset(e, a))

\* what may be spent since the last budget; reserved() is what is not yet issued
total_budget(d) ==
    LET core == d.dyn[CORE]
        reserve == d.asset[CORE].max_supply - core.current_supply + core.accumulated_fees
                   + d.dgp.witness_budget
        dt == d.now - d.dgp.last_budget_time
    IN  IF d.dgp.last_budget_time = 0 \/ dt <= 0 THEN 0
        ELSE MinOf(reserve, DivUp(reserve * dt * CYCLE_RATE, CYCLE_UNITS))

\* the workers with the most votes first, as long as the budget lasts
pay_workers(d, budget) ==
    LET active == {w \in DOMAIN d.work : /\ worker_is_active(d.work[w], d.now)
                                         /\ approving_stake(d.work[w]) > 0}
        stake(w) == approving_stake(d.work[w])
        order == InOrder(active, LAMBDA v, w :
                     stake(v) > stake(w) \/ (stake(v) = stake(w) /\ v < w))
        requested(w) == (d.work[w].daily_pay * (d.now - d.dgp.last_budget_time)) \div ONE_DAY
        pay(s, w) == LET n == MinOf(s.budget, requested(w))
                     IN  IF s.budget = 0 THEN s
                         ELSE [db |-> pay_worker(s.db, w, n), budget |-> s.budget - n]
    IN  FoldLeft(pay, [db |-> d, budget |-> budget], order)

process_budget(d) ==
    LET time_to_maint == d.dgp.next_maintenance_time - d.now
        blocks_to_maint == DivUp(time_to_maint, d.gpo.block_interval)
        available == total_budget(d)
        witness == MinOf(d.gpo.witness_pay_per_block * blocks_to_maint, available)
        worker == MinOf((d.gpo.worker_budget_per_day * time_to_maint) \div ONE_DAY,
                        available - witness)
        r == pay_workers(d, worker)
        delta == witness + worker - r.budget - d.dyn[CORE].accumulated_fees
                 - d.dgp.witness_budget
    IN  [r.db EXCEPT !.dyn[CORE].current_supply = @ + delta,
                     !.dyn[CORE].accumulated_fees = 0,
                     !.dgp.witness_budget = witness,
                     !.dgp.last_budget_time = d.now]

elections(m) ==
    update_worker_votes(
        update_active_committee_members(
            update_active_witnesses(update_top_n_authorities(m.db), m.tally), m.tally),
        m.tally)

perform_chain_maintenance(d) ==
    process_budget(process_bitassets(update_next_maintenance_time(update_parameters(
        elections(perform_account_maintenance(create_buyback_orders(distribute_fba_balances(d))))))))

-----------------------------------------------------------------------------
(***************************************************************************)
(* The schedule of the witnesses, and a block.                             *)
(***************************************************************************)
get_scheduled_witness(d, slot) ==
    d.schedule[((d.dgp.current_aslot + slot) % Len(d.schedule)) + 1]

\* the slots after a maintenance are skipped
get_slot_time(d, slot) ==
    LET i == d.gpo.block_interval
        skip == IF d.dgp.maintenance_flag THEN d.gpo.maintenance_skip_slots ELSE 0
    IN  IF d.dgp.head_block_number = 0 THEN d.now + slot * i
        ELSE (d.now \div i) * i + (slot + skip) * i

update_witness_missed_blocks(d, missed) ==
    LET absent == IF missed < Len(d.schedule) THEN 1..missed ELSE {}
        times(w) == Cardinality({s \in absent : get_scheduled_witness(d, s) = w})
    IN  [d EXCEPT !.wit = [w \in DOMAIN @ |-> [@[w] EXCEPT !.total_missed = @ + times(w)]]]

\* shuffled: the order of the active witnesses that the time of the block leads to
update_witness_schedule(d, shuffled) ==
    IF d.dgp.head_block_number % Cardinality(d.gpo.active_witnesses) = 0
    THEN [d EXCEPT !.schedule = shuffled] ELSE d

after_maintenance(d, maint_needed) ==
    update_maintenance_flag(update_withdraw_permissions(update_core_exchange_rates(
        update_expired_feeds(clear_expired_orders(clear_expired_proposals(
            clear_expired_transactions(d)))))), maint_needed)

\* _apply_block after the transactions: the block of slot missed + 1, before
\* update_witness_schedule
apply_block(d, missed) ==
    LET w == get_scheduled_witness(d, missed + 1)
        now == get_slot_time(d, missed + 1)
        maint_needed == d.dgp.next_maintenance_time <= now
        d1 == update_global_dynamic_data(update_witness_missed_blocks(d, missed), now, missed)
        d2 == update_last_irreversible_block(update_signing_witness(d1, w))
    IN  after_maintenance(IF maint_needed THEN perform_chain_maintenance(d2) ELSE d2, maint_needed)

=============================================================================
