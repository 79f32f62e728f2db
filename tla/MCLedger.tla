------------------------------- MODULE MCLedger -------------------------------
(***************************************************************************)
(* The scopes of Ledger for TLC.  Accounts 6, 7, ... come from genesis and *)
(* have the keys <<"owner", id>> and <<"active", id>>; account 6 makes the *)
(* blocks.  All amounts are small, so that every rounding happens.         *)
(***************************************************************************)
EXTENDS Ledger

C(n) == CoreAsset(n)
U(n) == Asset(n, 1)  \* of the first asset after the core asset
NoFee == C(0)
One(S) == {<<op>> : op \in S}  \* transactions of one operation

MCKeys == {<<kind, id>> : kind \in {"owner", "active"}, id \in 6..8}

\* genesis, with accounts that are funded when the setup claims their balances
fund(id, a, n) == [owner |-> <<"active", id>>, asset |-> a, amount |-> n]
claim(id, b, x) == balance_claim_operation(NoFee, id, b, <<"active", id>>, x)
claims(g) == [b \in DOMAIN g.balances |->
                 <<claim(g.balances[b].owner[2], b, Asset(g.balances[b].amount, g.balances[b].asset))>>]

\* a scope starts with the claims of the balances of genesis
prepared(g, steps) == [genesis |-> g, steps |-> claims(g) \o steps]

with_fee(n) == [chain_parameters EXCEPT !.fees.fee = n, !.cancel_fee = n]

-----------------------------------------------------------------------------
\* Market: two accounts trade the core asset against one that has a market fee and can pay fees
market_genesis ==
    [genesis_state EXCEPT
        !.parameters = with_fee(1), !.accounts = <<TRUE, FALSE>>,
        !.assets = <<[issuer |-> 6, max_supply |-> 100, is_bitasset |-> FALSE, collateral |-> << >>]>>,
        !.balances = <<fund(6, 0, 14), fund(7, 0, 14), fund(7, 1, 12)>>]
market_start ==
    prepared(market_genesis,
        <<<<asset_update_operation(C(1), 6, 1,
                asset_options({"witness_fed_asset", "charge_market_fee"}, {"charge_market_fee"},
                              100, 2500, 100, Price(U(1), C(1))))>>,
          <<asset_fund_fee_pool_operation(C(1), 6, 1, 3)>>>>)
market_offered(e) ==
    One({limit_order_create_operation(C(1), 6, C(x[1]), U(x[2]), x[3], x[4]) :
             x \in {<<3, 2, 9, FALSE>>, <<5, 4, 3, FALSE>>, <<4, 3, 9, TRUE>>}}
        \cup {limit_order_create_operation(x[4], 7, U(x[1]), C(x[2]), x[3], FALSE) :
                  x \in {<<3, 4, 9, U(1)>>, <<4, 5, 3, C(1)>>, <<1, 1, 9, U(2)>>}}
        \cup {limit_order_cancel_operation(C(1), e.limit[i].seller, i) : i \in DOMAIN e.limit}
        \cup {asset_claim_fees_operation(C(1), 6, U(1)),
              asset_claim_pool_operation(C(1), 6, 1, C(1)),
              transfer_operation(C(2), 6, 7, C(2), TRUE)})

-----------------------------------------------------------------------------
\* Margin: 7 and 8 owe the asset of 6, who publishes its feed.  A unit of it is worth
\* p[2] / p[1] of the core asset
bit_asset == [issuer |-> 6, max_supply |-> 100, is_bitasset |-> TRUE, collateral |-> << >>]
bit_perms == {"charge_market_fee", "global_settle", "disable_force_settle"}
feed(p) == [settlement_price |-> Price(U(p[1]), C(p[2])), core_exchange_rate |-> Price(U(p[1]), C(p[2])),
            mcr |-> 1750, mssr |-> 1100]
publish(p) == asset_publish_feed_operation(NoFee, 6, 1, feed(p))
bit_setup(lifetime, delay, volume) ==
    <<<<asset_update_operation(NoFee, 6, 1, asset_options({}, bit_perms, 100, 0, 0, Price(U(1), C(1))))>>,
      <<asset_update_bitasset_operation(NoFee, 6, 1,
            bitasset_options(0, lifetime, 1, delay, 500, volume))>>,
      <<asset_update_feed_producers_operation(NoFee, 6, 1, {6})>>,
      <<publish(<<1, 1>>)>>>>
margin_genesis ==
    [genesis_state EXCEPT !.accounts = <<TRUE, TRUE, TRUE>>, !.assets = <<bit_asset>>,
                          !.balances = <<fund(7, 0, 20), fund(8, 0, 20)>>]
margin_start ==
    prepared(margin_genesis,
        bit_setup(3, 2, 5000)
        \o <<<<call_order_update_operation(NoFee, 7, C(10), U(5), None)>>,
             <<call_order_update_operation(NoFee, 8, C(12), U(4), {1900})>>>>)
margin_offered(e) ==
    One({publish(p) : p \in {<<4, 5>>, <<2, 3>>, <<5, 9>>}}
        \cup {limit_order_create_operation(NoFee, x[1], U(x[2]), C(x[3]), 9, FALSE) :
                  x \in {<<7, 2, 2>>, <<8, 3, 5>>}}
        \cup {limit_order_create_operation(NoFee, 8, C(3), U(2), 9, FALSE)}
        \cup {asset_settle_operation(NoFee, x[1], U(x[2])) : x \in {<<7, 4>>, <<8, 1>>}}
        \cup {call_order_update_operation(NoFee, x[1], C(x[2]), U(x[3]), x[4]) :
                  x \in {<<7, -1, -2, {2500}>>, <<8, 0, 2, None>>, <<8, -12, -4, None>>}}
        \cup {asset_global_settle_operation(NoFee, 6, 1, Price(U(2), C(3)))})

-----------------------------------------------------------------------------
\* Swan: the asset of the margin scope, globally settled; bids revive it
swan_start ==
    prepared(margin_genesis,
        bit_setup(9, 2, 5000)
        \o <<<<call_order_update_operation(NoFee, 7, C(10), U(5), None)>>,
             <<call_order_update_operation(NoFee, 8, C(7), U(3), None)>>,
             << >>,
             <<asset_global_settle_operation(NoFee, 6, 1, Price(U(3), C(5)))>>>>)
swan_offered(e) ==
    One({bid_collateral_operation(NoFee, x[1], C(x[2]), U(x[3])) :
             x \in {<<7, 3, 5>>, <<7, 1, 8>>, <<7, 0, 0>>, <<8, 6, 4>>, <<8, 9, 9>>}}
        \cup {asset_settle_operation(NoFee, x[1], U(x[2])) : x \in {<<7, 4>>, <<8, 1>>, <<8, 3>>}}
        \cup {publish(p) : p \in {<<2, 3>>, <<2, 1>>, <<1, 5>>}}
        \cup {call_order_update_operation(NoFee, 7, C(8), U(2), None)})

\* Prediction: a prediction market, where collateral and debt are the same amount
prediction_start ==
    prepared([margin_genesis EXCEPT !.assets = << >>],
        <<<<asset_create_operation(NoFee, 6, <<"A", "A", "A", "A">>, 0,
                asset_options({}, bit_perms, 100, 0, 0, Price(U(1), C(1))),
                {bitasset_options(0, 9, 1, 2, 0, 2000)}, TRUE)>>>>)
prediction_offered(e) ==
    One({call_order_update_operation(NoFee, a, C(n), U(n), None) : a \in {7, 8}, n \in {3, 4, -2}}
        \cup {asset_global_settle_operation(NoFee, 6, 1, Price(U(p[1]), C(p[2]))) : p \in {<<1, 1>>, <<3, 1>>}}
        \cup {asset_settle_operation(NoFee, a, U(n)) : a \in {7, 8}, n \in {1, 4}}
        \cup {limit_order_create_operation(NoFee, 7, U(2), C(1), 9, FALSE),
              limit_order_create_operation(NoFee, 8, C(1), U(1), 9, FALSE)})

-----------------------------------------------------------------------------
\* Permits and vesting balances, of 7, 8 and the genesis block
vesting_start ==
    prepared([genesis_state EXCEPT
                 !.accounts = <<TRUE, TRUE, TRUE>>,
                 !.balances = <<fund(7, 0, 12), fund(8, 0, 6), fund(6, 0, 5)>>,
                 !.vesting = <<[owner |-> <<"active", 6>>, asset |-> 0, amount |-> 9,
                                begin |-> 1, duration |-> 7]>>], << >>)
vesting_offered(e) ==
    One({withdraw_permission_create_operation(NoFee, 7, 8, C(4), 2, 3, 2)}
        \cup UNION {{withdraw_permission_update_operation(NoFee, p, 7, 8, C(5), 3, 2, e.now),
                     withdraw_permission_claim_operation(NoFee, p, 7, 8, C(2)),
                     withdraw_permission_claim_operation(NoFee, p, 7, 8, C(3)),
                     withdraw_permission_claim_operation(NoFee, p, 6, 8, C(2)),
                     withdraw_permission_delete_operation(NoFee, p, 7, 8)} : p \in DOMAIN e.permit}
        \cup {vesting_balance_create_operation(NoFee, 8, 6, C(3), cdd_vesting_policy_initializer(2, 3)),
              vesting_balance_create_operation(NoFee, 8, 7, C(3), linear_vesting_policy_initializer(1, 1, 4))}
        \cup {vesting_balance_withdraw_operation(NoFee, v, e.vest[v].owner, C(2)) :
                  v \in DOMAIN e.vest}
        \cup {claim(6, 4, C(n)) : n \in {2, 9}})

-----------------------------------------------------------------------------
\* Accounts: creation with referrals and rising fees, upgrades, authorities
account_fees ==
    [with_fee(3) EXCEPT !.basic_fee = 2, !.fees.premium = 6, !.fees.lifetime = 9,
                        !.accounts_per_fee_scale = 2]
account_start ==
    prepared([genesis_state EXCEPT !.parameters = account_fees, !.accounts = <<TRUE>>,
                                   !.balances = <<fund(6, 0, 60)>>],
             <<<< >>>>)
two_of(id) == Authority(2, [k \in {<<"active", 6>>, <<"account", id>>} |-> 1])
create(fee, pct, name, active) ==
    account_create_operation(C(fee), 6, 6, pct, name, key_authority("owner", 7), active,
                             account_options, None, None, None)
update(id, active, votes) ==
    account_update_operation(C(3), id, None, active, votes, None, None)
account_offered(e) ==
    LET last == Max(DOMAIN e.acct)
    IN  One({create(f, 5000, name, key_authority("active", 7)) :
                 f \in {2, 4}, name \in {<<"c", "d">>, <<"c", "d", "d">>, <<"c", "-", "c">>}}
            \cup {create(6, 0, <<"v">>, two_of(6)), transfer_operation(C(3), 6, last, C(13), FALSE)}
            \cup IF last = 6 THEN {} ELSE
                 {account_upgrade_operation(C(9), last, TRUE),
                  transfer_operation(C(3), last, 6, C(1), FALSE),
                  update(last, {two_of(6)}, None),
                  update(last, None, {[account_options EXCEPT !.votes = {<<"witness", 0>>}]}),
                  account_whitelist_operation(C(3), 6, last, {"white"})})

-----------------------------------------------------------------------------
\* Votes: witnesses, committee, workers, their budget, top holders
vote_parameters == [chain_parameters EXCEPT !.witness_pay_per_block = 1, !.worker_budget_per_day = 6]
vote_start ==
    prepared([genesis_state EXCEPT
                 !.parameters = vote_parameters, !.accounts = <<TRUE, TRUE, TRUE>>,
                 !.balances = <<fund(6, 0, 3), fund(7, 0, 4), fund(8, 0, 5)>>,
                 !.witnesses = <<6, 7>>, !.committee = <<7>>,
                 !.workers = <<[owner |-> 8, daily_pay |-> 2]>>],
             <<<< >>>>)
opinion(votes) == [account_options EXCEPT !.votes = votes]
vote(id, o) == account_update_operation(NoFee, id, None, None, {o}, None, None)
vote_offered(e) ==
    One({vote(6, opinion({<<"witness", 0>>, <<"worker", 3>>})),
         vote(7, opinion({<<"witness", 1>>, <<"committee", 2>>})),
         vote(8, [account_options EXCEPT !.voting_account = 7]),
         vote(7, [opinion({<<"witness", 0>>, <<"witness", 1>>}) EXCEPT !.num_witness = 2]),
         transfer_operation(NoFee, 8, 6, C(4), FALSE),
         account_update_operation(NoFee, 6, None, None, None, None, {top_holders_special_authority(0, 2)}),
         worker_create_operation(NoFee, 6, e.now, 8, 2, "refund", 0),
         worker_create_operation(NoFee, 7, e.now, 8, 3, "burn", 0),
         witness_create_operation(NoFee, 8, <<"block", 8>>)}
        \cup {vesting_balance_withdraw_operation(NoFee, v, e.vest[v].owner, C(1)) : v \in DOMAIN e.vest}
        \cup {vote(8, opinion({e.work[w].vote_for})) : w \in DOMAIN e.work \ {1}})

-----------------------------------------------------------------------------
\* Proposals: a transfer of 7 that 8 proposes, and parameters that the committee, 7, decides
proposal_start ==
    prepared([genesis_state EXCEPT
                 !.accounts = <<TRUE, TRUE, TRUE>>,
                 !.balances = <<fund(7, 0, 6), fund(8, 0, 6)>>, !.committee = <<7>>],
             <<<<vote(7, opinion({<<"committee", 1>>}))>>, << >>>>)
approve(who, p, add, remove) ==
    proposal_update_operation(NoFee, who, p, add, remove, {}, {}, {}, {})
proposal_offered(e) ==
    LET pay == transfer_operation(NoFee, 7, 8, C(2), FALSE)
        faster == update_global_parameters_operation(NoFee, [chain_parameters EXCEPT !.maintenance_interval = 2])
    IN  One({proposal_create_operation(NoFee, 8, <<pay>>, e.now + 2, None),
             proposal_create_operation(NoFee, 8, <<pay>>, e.now + 3, {1}),
             proposal_create_operation(NoFee, 6, <<faster>>, e.now + 2, {1}),
             proposal_create_operation(NoFee, 6, <<faster>>, e.now + 2, None)}
            \cup UNION {{approve(7, p, {7}, {}), approve(7, p, {}, {7}), approve(8, p, {8}, {}),
                         proposal_update_operation(NoFee, 8, p, {}, {}, {}, {}, {<<"active", 7>>}, {}),
                         proposal_create_operation(NoFee, 6, <<approve(8, p, {7}, {})>>, e.now + 2, None),
                         proposal_delete_operation(NoFee, 7, FALSE, p)} : p \in DOMAIN e.prop})

-----------------------------------------------------------------------------
\* Assets: bitassets on bitassets, and one that the committee may get
asset_setup(symbol, backing) ==
    asset_create_operation(NoFee, 6, symbol, 0,
        asset_options({}, bit_perms, 100, 0, 0, Price(U(1), C(1))),
        {bitasset_options(backing, 9, 1, 2, 0, 2000)}, FALSE)
asset_start ==
    prepared([genesis_state EXCEPT !.balances = <<fund(6, 0, 9)>>, !.assets =
                 <<[issuer |-> 6, max_supply |-> 9, is_bitasset |-> FALSE, collateral |-> << >>]>>],
             <<<<asset_setup(<<"A", "B", "A">>, 0)>>, <<asset_setup(<<"A", "B", "B">>, 2)>>>>)
asset_offered(e) ==
    One({asset_update_bitasset_operation(NoFee, 6, a, bitasset_options(b, 9, 1, 2, 0, 2000)) :
             a \in DOMAIN e.bit, b \in DOMAIN e.asset}
        \cup {asset_setup(<<"A", "T", "A">>, b) : b \in DOMAIN e.asset}
        \cup {asset_setup(<<"A", "B", "A", ".", "A">>, 0)}
        \cup {asset_update_issuer_operation(NoFee, 6, a, n) : a \in DOMAIN e.asset, n \in {0, 6}}
        \cup {asset_issue_operation(NoFee, 6, U(5), 6), asset_reserve_operation(NoFee, 6, U(2))})

\* Blind: the core asset in confidential transfers, with a fee
blind_start ==
    prepared([genesis_state EXCEPT !.parameters = with_fee(1), !.accounts = <<TRUE, TRUE>>,
                                   !.balances = <<fund(6, 0, 20)>>], << >>)
coin(id, n) == commitment(id, n, key_authority("active", 7))
blind_offered(e) ==
    LET coins == {<<id, e.blind[id].value>> : id \in DOMAIN e.blind}
    IN  One({transfer_to_blind_operation(C(1), 6, C(5), <<coin(1, 2), coin(2, 3)>>),
             transfer_to_blind_operation(C(1), 6, C(4), <<coin(3, 4)>>)}
            \cup {transfer_from_blind_operation(C(1), C(c[2] - 1), 7, <<coin(c[1], c[2])>>) : c \in coins}
            \cup {blind_transfer_operation(C(1), <<coin(c[1], c[2])>>, <<coin(4, 1), coin(5, c[2] - 2)>>) : c \in coins}
            \cup {blind_transfer_operation(C(1), <<coin(1, 2), coin(3, 4)>>, <<coin(6, 5)>>),
                  override_transfer_operation(C(1), 6, 7, 6, C(1))})

-----------------------------------------------------------------------------
\* Sign: authorities that name keys and each other
sign_start ==
    prepared([genesis_state EXCEPT !.accounts = <<TRUE, TRUE, TRUE>>,
                                   !.balances = <<fund(7, 0, 6)>>], << >>)
weights(threshold, S) == Authority(threshold, [s \in S |-> 1])
key(id) == <<"active", id>>
acc(id) == <<"account", id>>
sign_offered(e) ==
    One({account_update_operation(NoFee, x[1], None, {x[2]}, None, None, None) :
             x \in {<<6, weights(1, {key(6), acc(7)})>>,
                    <<7, weights(2, {key(7), acc(6), acc(8)})>>,
                    <<7, weights(1, {acc(8)})>>,
                    <<8, weights(2, {key(7), key(8), acc(6)})>>}}
        \cup {account_update_operation(NoFee, 7, {weights(1, {acc(6), <<"owner", 7>>})}, None, None, None, None),
              transfer_operation(NoFee, 7, 8, C(2), FALSE)})
        \cup {<<transfer_operation(NoFee, 7, 8, C(1), FALSE), transfer_operation(NoFee, 8, 6, C(1), FALSE)>>}

-----------------------------------------------------------------------------
MCScopes == {"sign", "market", "margin", "swan", "prediction", "vesting", "accounts", "votes", "proposals",
             "assets", "blind"}
MCStart(s) ==
    CASE s = "sign" -> sign_start
      [] s = "market" -> market_start
      [] s = "margin" -> margin_start
      [] s = "swan" -> swan_start
      [] s = "prediction" -> prediction_start
      [] s = "vesting" -> vesting_start
      [] s = "accounts" -> account_start
      [] s = "votes" -> vote_start
      [] s = "proposals" -> proposal_start
      [] s = "assets" -> asset_start
      [] s = "blind" -> blind_start
MCOffered(s, e) ==
    CASE s = "sign" -> sign_offered(e)
      [] s = "market" -> market_offered(e)
      [] s = "margin" -> margin_offered(e)
      [] s = "swan" -> swan_offered(e)
      [] s = "prediction" -> prediction_offered(e)
      [] s = "vesting" -> vesting_offered(e)
      [] s = "accounts" -> account_offered(e)
      [] s = "votes" -> vote_offered(e)
      [] s = "proposals" -> proposal_offered(e)
      [] s = "assets" -> asset_offered(e)
      [] s = "blind" -> blind_offered(e)
MCMaxTime(s) ==
    CASE s = "sign" -> 1
      [] s = "assets" -> 2
      [] s \in {"accounts", "votes", "vesting"} -> 5
      [] s = "proposals" -> 6
      [] OTHER -> 4
MCMaxMissed(s) == 0
MCMaxPushes(s) == IF s = "vesting" THEN 4 ELSE 3
=============================================================================
