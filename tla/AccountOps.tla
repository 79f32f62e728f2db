----------------------------- MODULE AccountOps -----------------------------
(***************************************************************************)
(* The operations that move balances: transfer and override_transfer,      *)
(* vesting balances, the balances of the genesis block, and withdraw       *)
(* permissions; and the operations on accounts: create, update, whitelist, *)
(* upgrade, with special authorities, buyback options and votes.           *)
(*                                                                         *)
(* An operation is a record with its type, its fee and its fields; payer   *)
(* is what fee_payer() returns.  For each operation x of the code, x       *)
(* builds the record, x_validate is its validate() without the check of    *)
(* the fee (see Operations), x_evaluate is do_evaluate of its evaluator    *)
(* and x_apply is do_apply.                                                *)
(***************************************************************************)
EXTENDS ChainObjects

transfer_operation(fee, from, to, amount, memo) ==
    [type |-> "transfer", fee |-> fee, payer |-> from, from |-> from, to |-> to,
     amount |-> amount, memo |-> memo]

transfer_validate(op) == op.from # op.to /\ op.amount.amount > 0

transfer_evaluate(d, op) ==
    /\ {op.from, op.to} \subseteq DOMAIN d.acct
    /\ op.amount.asset_id \in DOMAIN d.asset
    /\ LET a == d.asset[op.amount.asset_id]
       IN  /\ \A x \in {op.from, op.to} : is_authorized_asset(d.acct[x], a)
           /\ is_transfer_restricted(a) => a.issuer \in {op.from, op.to}
    /\ get_balance(d, op.from, op.amount.asset_id) >= op.amount.amount

transfer_apply(d, op) ==
    adjust_balance(adjust_balance(d, op.from, Neg(op.amount)), op.to, op.amount)

override_transfer_operation(fee, issuer, from, to, amount) ==
    [type |-> "override_transfer", fee |-> fee, payer |-> issuer, issuer |-> issuer,
     from |-> from, to |-> to, amount |-> amount]

override_transfer_validate(op) ==
    op.from # op.to /\ op.amount.amount > 0 /\ op.issuer # op.from

override_transfer_evaluate(d, op) ==
    /\ op.amount.asset_id \in DOMAIN d.asset
    /\ LET a == d.asset[op.amount.asset_id]
       IN  /\ can_override(a)
           /\ a.issuer = op.issuer
           /\ {op.from, op.to} \subseteq DOMAIN d.acct
           /\ \A x \in {op.from, op.to} : is_authorized_asset(d.acct[x], a)
    /\ get_balance(d, op.from, op.amount.asset_id) >= op.amount.amount

override_transfer_apply(d, op) ==
    adjust_balance(adjust_balance(d, op.from, Neg(op.amount)), op.to, op.amount)

-----------------------------------------------------------------------------
(***************************************************************************)
(* Vesting balances.                                                       *)
(***************************************************************************)
linear_allowed_withdraw(p, balance, now) ==
    LET elapsed == now - p.begin_timestamp
        vested == IF elapsed < p.duration_seconds
                  THEN (p.begin_balance * elapsed) \div p.duration_seconds
                  ELSE p.begin_balance
    IN  IF now > p.begin_timestamp /\ elapsed >= p.cliff_seconds
        THEN vested - (p.begin_balance - balance)
        ELSE 0

cdd_allowed_withdraw(p, balance, now) ==
    IF now <= p.start_claim THEN 0
    ELSE compute_coin_seconds_earned(p, balance, now) \div MaxOf(p.vesting_seconds, 1)

cdd_on_withdraw(p, balance, now, n) ==
    [update_coin_seconds_earned(p, balance, now) EXCEPT
        !.coin_seconds_earned = @ - n * MaxOf(p.vesting_seconds, 1)]

get_allowed_withdraw(v, now) ==
    IF v.policy.kind = "linear" THEN linear_allowed_withdraw(v.policy, v.balance.amount, now)
    ELSE cdd_allowed_withdraw(v.policy, v.balance.amount, now)

is_withdraw_allowed(v, now, x) ==
    x.asset_id = v.balance.asset_id /\ x.amount <= get_allowed_withdraw(v, now)

withdraw(v, now, x) ==
    [v EXCEPT !.policy = IF @.kind = "cdd"
                         THEN cdd_on_withdraw(@, v.balance.amount, now, x.amount) ELSE @,
              !.balance = Minus(@, x)]

linear_vesting_policy_initializer(begin, cliff, duration) ==
    [kind |-> "linear", begin |-> begin, cliff |-> cliff, duration |-> duration]
cdd_vesting_policy_initializer(start, seconds) ==
    [kind |-> "cdd", start |-> start, seconds |-> seconds]

init_policy(i, begin_balance, now) ==
    IF i.kind = "linear"
    THEN linear_vesting_policy(i.begin, i.cliff, i.duration, begin_balance)
    ELSE cdd_vesting_policy(i.seconds, 0, i.start, now)

vesting_balance_create_operation(fee, creator, owner, amount, policy) ==
    [type |-> "vesting_balance_create", fee |-> fee, payer |-> creator,
     creator |-> creator, owner |-> owner, amount |-> amount, policy |-> policy]

vesting_balance_create_validate(op) == op.amount.amount > 0

vesting_balance_create_evaluate(d, op) ==
    /\ op.creator \in DOMAIN d.acct
    /\ op.amount.amount > 0
    /\ get_balance(d, op.creator, op.amount.asset_id) >= op.amount.amount
    /\ ~is_transfer_restricted(d.asset[op.amount.asset_id])

vesting_balance_create_apply(d, op) ==
    [adjust_balance(d, op.creator, Neg(op.amount)) EXCEPT
        !.vest = Insert(@, [owner |-> op.owner, balance |-> op.amount,
                            policy |-> init_policy(op.policy, op.amount.amount, d.now)])]

vesting_balance_withdraw_operation(fee, vb, owner, amount) ==
    [type |-> "vesting_balance_withdraw", fee |-> fee, payer |-> owner,
     vesting_balance |-> vb, owner |-> owner, amount |-> amount]

vesting_balance_withdraw_validate(op) == op.amount.amount > 0

vesting_balance_withdraw_evaluate(d, op) ==
    /\ op.vesting_balance \in DOMAIN d.vest
    /\ op.owner = d.vest[op.vesting_balance].owner
    /\ is_withdraw_allowed(d.vest[op.vesting_balance], d.now, op.amount)

vesting_balance_withdraw_apply(d, op) ==
    adjust_balance([d EXCEPT !.vest[op.vesting_balance] = withdraw(@, d.now, op.amount)],
                   op.owner, op.amount)

-----------------------------------------------------------------------------
(***************************************************************************)
(* The balances of the genesis block: owned by a key, with an optional     *)
(* linear vesting policy.  A day is ONE_DAY units of model time.           *)
(***************************************************************************)
ONE_DAY == 4

balance_object(owner, balance, policy) ==
    [owner |-> owner, balance |-> balance, policy |-> policy, last_claim_date |-> 0]

balance_claim_operation(fee, acct, b, key, total) ==
    [type |-> "balance_claim", fee |-> fee, payer |-> acct, deposit_to_account |-> acct,
     balance_to_claim |-> b, balance_owner_key |-> key, total_claimed |-> total]

balance_claim_validate(op) == op.fee = CoreAsset(0)

balance_claim_evaluate(d, op) ==
    /\ op.balance_to_claim \in DOMAIN d.gbal
    /\ LET b == d.gbal[op.balance_to_claim]
       IN  /\ op.balance_owner_key = b.owner
           /\ op.total_claimed.asset_id = b.balance.asset_id
           /\ IF Valid(b.policy)
              THEN /\ op.total_claimed.amount
                         <= linear_allowed_withdraw(Deref(b.policy), b.balance.amount, d.now)
                   /\ d.now - b.last_claim_date >= ONE_DAY
              ELSE op.total_claimed = b.balance

balance_claim_apply(d, op) ==
    LET b == d.gbal[op.balance_to_claim]
        rest == Minus(b.balance, op.total_claimed)
        claimed == IF Valid(b.policy) /\ rest.amount > 0
                   THEN [d.gbal EXCEPT ![op.balance_to_claim].balance = rest,
                                       ![op.balance_to_claim].last_claim_date = d.now]
                   ELSE Erase(d.gbal, op.balance_to_claim)
    IN  adjust_balance([d EXCEPT !.gbal = claimed], op.deposit_to_account, op.total_claimed)

-----------------------------------------------------------------------------
(***************************************************************************)
(* Withdraw permissions.                                                   *)
(***************************************************************************)
withdraw_permission_object(op) ==
    [from |-> op.from, authorized |-> op.authorized, limit |-> op.limit,
     period |-> op.period, start |-> op.start,
     expiration |-> op.start + op.periods * op.period, claimed |-> 0]

available_this_period(p, now) ==
    IF now >= p.start + p.period THEN p.limit
    ELSE Asset(MaxOf(p.limit.amount - p.claimed, 0), p.limit.asset_id)

withdraw_permission_create_operation(fee, from, authorized, limit, period, periods, start) ==
    [type |-> "withdraw_permission_create", fee |-> fee, payer |-> from, from |-> from,
     authorized |-> authorized, limit |-> limit, period |-> period, periods |-> periods,
     start |-> start]

withdraw_permission_create_validate(op) ==
    op.from # op.authorized /\ op.limit.amount > 0 /\ op.period > 0 /\ op.periods > 0

withdraw_permission_create_evaluate(d, op) ==
    /\ {op.from, op.authorized} \subseteq DOMAIN d.acct
    /\ op.limit.asset_id \in DOMAIN d.asset
    /\ op.start > d.now
    /\ op.start + op.periods * op.period > d.now
    /\ op.period >= d.gpo.block_interval

withdraw_permission_create_apply(d, op) ==
    [d EXCEPT !.permit = Insert(@, withdraw_permission_object(op))]

withdraw_permission_update_operation(fee, permit, from, authorized, limit, period, periods, start) ==
    [type |-> "withdraw_permission_update", fee |-> fee, payer |-> from, permit |-> permit,
     from |-> from, authorized |-> authorized, limit |-> limit, period |-> period,
     periods |-> periods, start |-> start]

withdraw_permission_update_validate(op) ==
    op.limit.amount > 0 /\ op.period > 0 /\ op.from # op.authorized /\ op.periods > 0

withdraw_permission_update_evaluate(d, op) ==
    /\ op.permit \in DOMAIN d.permit
    /\ d.permit[op.permit].authorized = op.authorized
    /\ d.permit[op.permit].from = op.from
    /\ op.limit.asset_id \in DOMAIN d.asset
    /\ op.start >= d.now
    /\ op.start + op.periods * op.period > d.now
    /\ op.period >= d.gpo.block_interval

\* what was claimed in this period is kept
withdraw_permission_update_apply(d, op) ==
    [d EXCEPT !.permit[op.permit] =
        [@ EXCEPT !.start = op.start, !.expiration = op.start + op.periods * op.period,
                  !.limit = op.limit, !.period = op.period]]

withdraw_permission_claim_operation(fee, permit, from, to, amount) ==
    [type |-> "withdraw_permission_claim", fee |-> fee, payer |-> to, permit |-> permit,
     from |-> from, to |-> to, amount |-> amount]

withdraw_permission_claim_validate(op) == op.from # op.to /\ op.amount.amount > 0

\* a claim that may name another account than the one that granted the permission
withdraw_permission_claim_evaluate_anyone(d, op) ==
    /\ op.permit \in DOMAIN d.permit
    /\ LET p == d.permit[op.permit]
           available == available_this_period(p, d.now)
       IN  /\ p.expiration > d.now
           /\ p.authorized = op.to
           /\ p.start <= d.now
           /\ op.amount.asset_id = available.asset_id
           /\ op.amount.amount <= available.amount
           /\ get_balance(d, op.from, op.amount.asset_id) >= op.amount.amount

withdraw_permission_claim_evaluate(d, op) ==
    /\ op.permit \in DOMAIN d.permit
    /\ LET p == d.permit[op.permit]
           a == d.asset[op.amount.asset_id]
           available == available_this_period(p, d.now)
       IN  /\ p.expiration > d.now
           /\ p.authorized = op.to
           /\ p.from = op.from
           /\ p.start <= d.now
           /\ op.amount.asset_id = available.asset_id
           /\ op.amount.amount <= available.amount
           /\ get_balance(d, op.from, op.amount.asset_id) >= op.amount.amount
           /\ is_transfer_restricted(a) => a.issuer \in {p.authorized, p.from}
           /\ \A x \in {p.authorized, op.from} : is_authorized_asset(d.acct[x], a)

\* a claim that replaces the earlier ones of its period
withdraw_permission_claim_apply_last(d, op) ==
    LET p == d.permit[op.permit]
        periods == (d.now - p.start) \div p.period
        claimed == [p EXCEPT !.start = @ + periods * p.period, !.claimed = op.amount.amount]
    IN  adjust_balance(adjust_balance([d EXCEPT !.permit[op.permit] = claimed],
                                      op.from, Neg(op.amount)),
                       op.to, op.amount)

withdraw_permission_claim_apply(d, op) ==
    LET p == d.permit[op.permit]
        periods == (d.now - p.start) \div p.period
        claimed == [p EXCEPT !.start = @ + periods * p.period,
                             !.claimed = IF periods = 0 THEN @ + op.amount.amount
                                         ELSE op.amount.amount]
    IN  adjust_balance(adjust_balance([d EXCEPT !.permit[op.permit] = claimed],
                                      op.from, Neg(op.amount)),
                       op.to, op.amount)

withdraw_permission_delete_operation(fee, permit, from, authorized) ==
    [type |-> "withdraw_permission_delete", fee |-> fee, payer |-> from, permit |-> permit,
     from |-> from, authorized |-> authorized]

withdraw_permission_delete_validate(op) == op.from # op.authorized

withdraw_permission_delete_evaluate(d, op) ==
    /\ op.permit \in DOMAIN d.permit
    /\ d.permit[op.permit].authorized = op.authorized
    /\ d.permit[op.permit].from = op.from

withdraw_permission_delete_apply(d, op) == [d EXCEPT !.permit = Erase(@, op.permit)]

-----------------------------------------------------------------------------
(***************************************************************************)
(* Accounts.  A name is the sequence of the kinds of its characters:       *)
(* vowels "v", consonants "c", digits "d", "-" and ".".  A vote is         *)
(* <<type, instance>>.                                                     *)
(***************************************************************************)

GRAPHENE_MAX_ACCOUNT_NAME_LENGTH == 63
MAX_BUYBACK_MARKETS == 4 \* GRAPHENE_DEFAULT_MAX_BUYBACK_MARKETS

\* labels between dots: a letter first, a letter or a digit last, dashes inside
is_valid_name(name) ==
    LET n == Len(name)
        at(i) == IF i \in 1..n THEN name[i] ELSE "."
    IN  /\ n \in 1..GRAPHENE_MAX_ACCOUNT_NAME_LENGTH
        /\ at(n) # "."
        /\ \A i \in 1..n :
              /\ at(i - 1) = "." => at(i) \in {"v", "c"}
              /\ at(i + 1) = "." => at(i) # "-"

is_cheap_name(name) ==
    LET C == Range(name) IN C \cap {"d", ".", "-"} # {} \/ "v" \notin C

options_validate(o) ==
    /\ Cardinality({v \in o.votes : v[1] = "witness"}) >= o.num_witness
    /\ Cardinality({v \in o.votes : v[1] = "committee"}) >= o.num_committee

validate_special_authority(s) == s.kind = "top_holders" => s.num_top_holders > 0
evaluate_special_authority(d, s) == s.kind = "top_holders" => s.asset \in DOMAIN d.asset

buyback_account_options(a, issuer, markets) ==
    [asset_to_buy |-> a, issuer |-> issuer, markets |-> markets]

evaluate_buyback_account_options(d, b) ==
    /\ b.asset_to_buy \in DOMAIN d.asset
    /\ d.asset[b.asset_to_buy].issuer = b.issuer
    /\ ~Valid(d.asset[b.asset_to_buy].buyback)
    /\ Cardinality(b.markets) < MAX_BUYBACK_MARKETS

authority_validate(auth) == DOMAIN auth.auths # {} /\ ~is_impossible(auth)

verify_authority_accounts(d, auth) ==
    /\ Cardinality(DOMAIN auth.auths) <= d.gpo.max_authority_membership
    /\ \A s \in DOMAIN auth.auths : s[1] = "account" => s[2] \in DOMAIN d.acct

\* votes go to what can be voted for; no worker has a vote_against any more
verify_account_votes(d, o) ==
    /\ o.num_witness <= d.gpo.max_witness
    /\ o.num_committee <= d.gpo.max_committee
    /\ o.voting_account \in DOMAIN d.acct
    /\ \A v \in o.votes :
          /\ v[2] < d.gpo.next_available_vote_id
          /\ CASE v[1] = "committee" -> \E c \in DOMAIN d.comm : d.comm[c].vote_id = v
               [] v[1] = "witness" -> \E w \in DOMAIN d.wit : d.wit[w].vote_id = v
               [] v[1] = "worker" -> \E w \in DOMAIN d.work : d.work[w].vote_for = v
               [] OTHER -> FALSE

-----------------------------------------------------------------------------
account_create_operation(fee, registrar, referrer, pct, name, owner, active, options, osa, asa, buyback) ==
    [type |-> "account_create", fee |-> fee, payer |-> registrar, registrar |-> registrar,
     referrer |-> referrer, referrer_percent |-> pct, name |-> name, owner |-> owner,
     active |-> active, options |-> options, osa |-> osa, asa |-> asa, buyback |-> buyback]

account_create_validate(op) ==
    /\ is_valid_name(op.name)
    /\ op.referrer_percent <= GRAPHENE_100_PERCENT
    /\ authority_validate(op.owner)
    /\ authority_validate(op.active)
    /\ options_validate(op.options)
    /\ \A s \in op.osa \cup op.asa : validate_special_authority(s)
    /\ \A b \in op.buyback :
          /\ op.osa = None /\ op.asa = None
          /\ op.owner = NullAuthority /\ op.active = NullAuthority
          /\ b.markets # {} /\ b.asset_to_buy \notin b.markets

account_create_evaluate(d, op) ==
    /\ is_lifetime_member(d.acct[op.registrar])
    /\ op.referrer \in DOMAIN d.acct
    /\ is_member(d.acct[op.referrer], d.now)
    /\ verify_authority_accounts(d, op.owner)
    /\ verify_authority_accounts(d, op.active)
    /\ \A s \in op.osa \cup op.asa : evaluate_special_authority(d, s)
    /\ \A b \in op.buyback : evaluate_buyback_account_options(d, b)
    /\ verify_account_votes(d, op.options)
    /\ \A a \in DOMAIN d.acct : d.acct[a].name # op.name

\* every accounts_per_fee_scale-th account of the interval makes the next dearer
scale_account_fee(d) ==
    IF d.dgp.accounts_registered % d.gpo.accounts_per_fee_scale = 0
       /\ d.gpo.account_fee_scale_bitshifts # 0
    THEN [d EXCEPT !.gpo.basic_fee = @ * 2 ^ d.gpo.account_fee_scale_bitshifts]
    ELSE d

account_create_apply(d, op) ==
    LET id == NextId(d.acct)
        special(o) == IF Valid(o) THEN Deref(o) ELSE no_special_authority
        new == [account_object(id) EXCEPT
                   !.name = op.name, !.membership = 0,
                   !.registrar = op.registrar, !.referrer = op.referrer,
                   !.lifetime_referrer = d.acct[op.referrer].lifetime_referrer,
                   !.network_pct = d.gpo.network_percent_of_fee,
                   !.lifetime_pct = d.gpo.lifetime_referrer_percent_of_fee,
                   !.referrer_pct = op.referrer_percent,
                   !.owner = op.owner, !.active = op.active, !.options = op.options,
                   !.owner_special = special(op.osa), !.active_special = special(op.asa),
                   !.allowed_assets = {b.markets \cup {b.asset_to_buy} : b \in op.buyback}]
        d1 == member_inserted([d EXCEPT !.acct = Insert(@, new)], id)
        d2 == [d1 EXCEPT !.stat = Put(@, id, [account_statistics_object EXCEPT
                                                !.is_voting = options_is_voting(op.options)]),
                         !.dgp.accounts_registered = @ + 1]
        d3 == scale_account_fee(d2)
        d4 == IF Valid(op.osa) \/ Valid(op.asa)
              THEN [d3 EXCEPT !.special = @ \cup {id}] ELSE d3
    IN  IF Valid(op.buyback)
        THEN [d4 EXCEPT !.buyback = @ \cup {Deref(op.buyback).asset_to_buy},
                        !.asset[Deref(op.buyback).asset_to_buy].buyback = {id}]
        ELSE d4

-----------------------------------------------------------------------------
account_update_operation(fee, acct, owner, active, options, osa, asa) ==
    [type |-> "account_update", fee |-> fee, payer |-> acct, account |-> acct,
     owner |-> owner, active |-> active, new_options |-> options, osa |-> osa, asa |-> asa]

\* the owner authority is needed to change the owner authority
is_owner_update(op) == Valid(op.owner) \/ Valid(op.osa)

account_update_validate(op) ==
    /\ op.account \notin {GRAPHENE_TEMP_ACCOUNT, GRAPHENE_COMMITTEE_ACCOUNT}
    /\ \E o \in {op.owner, op.active, op.new_options, op.osa, op.asa} : Valid(o)
    /\ \A a \in op.owner \cup op.active : authority_validate(a)
    /\ \A o \in op.new_options : options_validate(o)
    /\ \A s \in op.osa \cup op.asa : validate_special_authority(s)

account_update_evaluate(d, op) ==
    /\ \A a \in op.owner \cup op.active : verify_authority_accounts(d, a)
    /\ \A s \in op.osa \cup op.asa : evaluate_special_authority(d, s)
    /\ op.account \in DOMAIN d.acct
    /\ \A o \in op.new_options : verify_account_votes(d, o)

\* is_voting of the statistics is turned over, not set; a change of an authority
\* takes it back from the top holders until the next maintenance.  The index of special
\* authorities is unique by account (d.special)
account_update_apply(d, op) ==
    LET a == d.acct[op.account]
        or(o, old) == IF Valid(o) THEN Deref(o) ELSE old
        new == [a EXCEPT !.owner = or(op.owner, @), !.active = or(op.active, @),
                         !.options = or(op.new_options, @),
                         !.owner_special = or(op.osa, @), !.active_special = or(op.asa, @),
                         !.top_n = IF \E o \in {op.owner, op.active, op.osa, op.asa} : Valid(o)
                                   THEN {} ELSE @]
        turns == options_is_voting(new.options) # options_is_voting(a.options)
        d1 == [d EXCEPT !.stat[op.account].is_voting = IF turns THEN ~@ ELSE @]
        before == has_special_authority(a)
        after == has_special_authority(new)
        d2 == modify_account(d1, op.account, new)
    IN  IF before /\ ~after THEN [d2 EXCEPT !.special = @ \ {op.account}]
        ELSE IF ~before /\ after
        THEN [Check(d2, op.account \notin d.special) EXCEPT !.special = @ \cup {op.account}]
        ELSE d2

-----------------------------------------------------------------------------
account_whitelist_operation(fee, authorizing, listed, listing) ==
    [type |-> "account_whitelist", fee |-> fee, payer |-> authorizing,
     authorizing_account |-> authorizing, account_to_list |-> listed, new_listing |-> listing]

account_whitelist_validate(op) == op.new_listing \subseteq {"white", "black"}

account_whitelist_evaluate(d, op) ==
    /\ op.account_to_list \in DOMAIN d.acct
    /\ ~d.gpo.allow_non_member_whitelists => is_lifetime_member(d.acct[op.authorizing_account])

account_whitelist_apply(d, op) ==
    LET list(S, kind, x) == IF kind \in op.new_listing THEN S \cup {x} ELSE S \ {x}
        by == op.authorizing_account
        who == op.account_to_list
        d1 == modify_account(d, who, [d.acct[who] EXCEPT
                                         !.whitelisting = list(@, "white", by),
                                         !.blacklisting = list(@, "black", by)])
    IN  modify_account(d1, by, [d1.acct[by] EXCEPT !.whitelisted = list(@, "white", who),
                                                   !.blacklisted = list(@, "black", who)])

-----------------------------------------------------------------------------
account_upgrade_operation(fee, acct, lifetime) ==
    [type |-> "account_upgrade", fee |-> fee, payer |-> acct, account_to_upgrade |-> acct,
     upgrade_to_lifetime_member |-> lifetime]

account_upgrade_evaluate(d, op) ==
    op.account_to_upgrade \in DOMAIN d.acct /\ ~is_lifetime_member(d.acct[op.account_to_upgrade])

\* the fees paid so far go to the old referrers, inside the modification of the
\* account, which modifies other accounts; annual memberships ended with a hard fork
account_upgrade_apply(d, op) ==
    LET id == op.account_to_upgrade
        lifetime(a) == [a EXCEPT !.membership = MAX_TIME, !.referrer = id, !.registrar = id,
                                 !.lifetime_referrer = id,
                                 !.lifetime_pct = GRAPHENE_100_PERCENT - a.network_pct]
    IN  IF op.upgrade_to_lifetime_member
        THEN member_modified([process_fees(about_to_modify(d, id), id) EXCEPT
                                 !.acct[id] = lifetime(@)], id)
        ELSE Check(d, FALSE)

=============================================================================
