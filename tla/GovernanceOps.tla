----------------------------- MODULE GovernanceOps -----------------------------
(***************************************************************************)
(* Who must sign what (protocol/transaction.cpp), the proposals, and the   *)
(* operations of witnesses, committee members and workers.                 *)
(*                                                                         *)
(* A proposal may contain any operation, another proposal_update among     *)
(* them: the operators that execute a proposal have a parameter, Apply,    *)
(* for what executes one operation of it (see Operations).                 *)
(***************************************************************************)
EXTENDS AssetOps

-----------------------------------------------------------------------------
(***************************************************************************)
(* Required authorities.                                                   *)
(***************************************************************************)
required_active(op) ==
    CASE op.type = "account_create" -> {op.payer} \cup {b.issuer : b \in op.buyback}
      [] op.type = "proposal_update" -> {op.payer} \cup op.active_add \cup op.active_remove
      [] OTHER -> {op.payer}

required_owner(op) ==
    CASE op.type = "account_update" -> IF is_owner_update(op) THEN {op.payer} ELSE {}
      [] op.type = "asset_update_issuer" -> {op.payer}
      [] op.type = "proposal_update" -> op.owner_add \cup op.owner_remove
      [] OTHER -> {}

\* authorities that belong to no account
required_other(op) ==
    LET all_of(keys) == Authority(Cardinality(keys), [k \in keys |-> 1])
    IN  CASE op.type = "balance_claim" -> {all_of({op.balance_owner_key})}
          [] op.type = "proposal_update" /\ op.key_add \cup op.key_remove # {}
                -> {all_of(op.key_add \cup op.key_remove)}
          [] op.type \in {"transfer_from_blind", "blind_transfer"}
                -> {i.owner : i \in Range(op.inputs)}
          [] OTHER -> {}

required_by(ops, Of(_)) == UNION {Of(ops[i]) : i \in DOMAIN ops}

-----------------------------------------------------------------------------
(***************************************************************************)
(* sign_state.  t has the signatures that were used, the accounts that are *)
(* approved, the weight so far, and done once a loop has returned.  Keys   *)
(* are tried before accounts; a failed check keeps what it has marked.     *)
(***************************************************************************)
sign_state(approvals) ==
    [used |-> {}, approved |-> approvals \cup {GRAPHENE_TEMP_ACCOUNT}, weight |-> 0, done |-> FALSE]

subject_rank(s) ==
    s[2] + CASE s[1] = "owner" -> 0 [] s[1] = "active" -> 1000 [] OTHER -> 2000

RECURSIVE check_authority(_, _, _, _, _)

weighed(t, x, auth) ==
    [t EXCEPT !.weight = @ + auth.auths[x],
              !.done = t.weight + auth.auths[x] >= auth.threshold]

\* r is the result for the active authority of the account that x names
account_weighed(t, x, auth, r) ==
    LET after == [t EXCEPT !.used = r.used, !.approved = r.approved]
    IN  IF r.done THEN weighed([after EXCEPT !.approved = @ \cup {x[2]}], x, auth) ELSE after

\* one key or account of an authority that is depth levels below the one that is required
check_subject(d, auth, keys, depth, t, x) ==
    IF t.done THEN t
    ELSE IF x[1] # "account"
    THEN IF x \in keys THEN weighed([t EXCEPT !.used = @ \cup {x}], x, auth) ELSE t
    ELSE IF x[2] \in t.approved THEN weighed(t, x, auth)
    ELSE account_weighed(t, x, auth,
             IF depth = d.gpo.max_authority_depth THEN [t EXCEPT !.done = FALSE]
             ELSE check_authority(d, d.acct[x[2]].active, keys, t, depth + 1))

threshold_reached(auth, t) == [t EXCEPT !.done = t.weight >= auth.threshold]

check_authority(d, auth, keys, t0, depth) ==
    threshold_reached(auth,
        FoldLeft(LAMBDA t, x : check_subject(d, auth, keys, depth, t, x),
                 [t0 EXCEPT !.weight = 0, !.done = FALSE],
                 SetToSortSeq(DOMAIN auth.auths, LAMBDA x, y : subject_rank(x) < subject_rank(y))))

\* the owner authority is tried after the active one, with what that has marked
check_owner_too(d, id, keys, r) ==
    IF r.done THEN r ELSE check_authority(d, d.acct[id].owner, keys, r, 0)

check_account(d, id, keys, t) ==
    IF id \in t.approved THEN [t EXCEPT !.done = TRUE]
    ELSE check_owner_too(d, id, keys, check_authority(d, d.acct[id].active, keys, t, 0))

\* the three loops over what a transaction requires; missing is the first kind that fails
check_required(d, ops, active, keys, owner_approvals, t0) ==
    LET step(s, r) == [t |-> r, missing |-> IF r.done THEN s.missing ELSE TRUE]
        ids(S) == SetToSortSeq(S, <)
    IN  FoldLeft(LAMBDA s, id : step(s, check_account(d, id, keys, s.t)),
            FoldLeft(LAMBDA s, id :
                         IF id \in owner_approvals THEN s
                         ELSE step(s, check_authority(d, d.acct[id].owner, keys, s.t, 0)),
                FoldSet(LAMBDA a, s : step(s, check_authority(d, a, keys, s.t, 0)),
                        [t |-> t0, missing |-> FALSE], required_by(ops, required_other)),
                ids(required_by(ops, required_owner))),
            ids(active))

\* "ok", or the kind of the exception that is thrown
verdict(s, sigs) ==
    IF s.missing THEN "missing" ELSE IF s.t.used # sigs THEN "irrelevant" ELSE "ok"

verify_authority(d, ops, sigs, allow_committee, active_approvals, owner_approvals) ==
    LET active == required_by(ops, required_active)
    IN  IF ~allow_committee /\ GRAPHENE_COMMITTEE_ACCOUNT \in active
        THEN "committee"
        ELSE verdict(check_required(d, ops, active, sigs, owner_approvals,
                                    sign_state(active_approvals \cup owner_approvals)), sigs)

\* what a wallet with these keys has to sign with (the transaction has no signature yet)
get_required_signatures(d, ops, available) ==
    check_required(d, ops, required_by(ops, required_active) \ required_by(ops, required_owner),
                   available, {}, sign_state({})).t.used

\* a key is left out whatever comes of it
without_key_unchecked(s, k, v) == [s EXCEPT !.keys = @ \ {k}]

\* one key less, if v is "ok"; an exception other than a missing authority is not caught
without_key(s, k, v) ==
    IF v = "ok" THEN [s EXCEPT !.keys = @ \ {k}] ELSE [s EXCEPT !.thrown = v # "missing"]

minimize_signatures(d, ops, S) ==
    FoldLeft(LAMBDA s, k :
                 IF s.thrown THEN s
                 ELSE without_key(s, k, verify_authority(d, ops, s.keys \ {k}, FALSE, {}, {})),
             [keys |-> S, thrown |-> FALSE],
             SetToSortSeq(S, LAMBDA x, y : subject_rank(x) < subject_rank(y)))

minimize_required_signatures(d, ops, available) ==
    minimize_signatures(d, ops, get_required_signatures(d, ops, available))

-----------------------------------------------------------------------------
(***************************************************************************)
(* Proposals.                                                              *)
(***************************************************************************)
proposal_object(op, ops) ==
    [ops |-> ops, expiration |-> op.expiration,
     review |-> {op.expiration - r : r \in op.review},
     proposer |-> op.payer,
     required_owner |-> required_by(ops, required_owner),
     required_active |-> required_by(ops, required_active) \ required_by(ops, required_owner),
     active |-> {}, owner |-> {}, keys |-> {}, failed |-> FALSE]

is_authorized_to_execute(d, id) ==
    LET p == d.prop[id]
    IN  verify_authority(d, p.ops, p.keys, TRUE, p.active, p.owner) = "ok"

\* required_approval_index: from an account to the proposals that name it; an
\* approval that comes or goes later is not followed
proposals_of(d, a) == IF a \in DOMAIN d.approvals THEN d.approvals[a] ELSE {}
approval_inserted(d, id) ==
    LET p == d.prop[id]
    IN  [d EXCEPT !.approvals = [a \in p.required_active \cup p.required_owner
                                          \cup p.active \cup p.owner
                                     |-> proposals_of(d, a) \cup {id}] @@ @]
\* a removal that forgets the accounts that have not approved
approval_removed_approved(d, id) ==
    LET p == d.prop[id]
        left(a) == IF a \in p.active \cup p.owner THEN d.approvals[a] \ {id} ELSE d.approvals[a]
    IN  [d EXCEPT !.approvals = [a \in {b \in DOMAIN d.approvals : left(b) # {}} |-> left(a)]]

approval_removed(d, id) ==
    LET p == d.prop[id]
        S == p.required_active \cup p.required_owner \cup p.active \cup p.owner
        left(a) == IF a \in S THEN d.approvals[a] \ {id} ELSE d.approvals[a]
    IN  [d EXCEPT !.approvals = [a \in {b \in DOMAIN d.approvals : left(b) # {}} |-> left(a)]]

remove_proposal(d, id) == [approval_removed(d, id) EXCEPT !.prop = Erase(@, id)]

proposal_create_operation(fee, payer, ops, expiration, review) ==
    [type |-> "proposal_create", fee |-> fee, payer |-> payer, ops |-> ops,
     expiration |-> expiration, review |-> review]

\* hardfork_visitor_1479: the proposals that the proposed operations name (a
\* proposal_create among them is looked into, to one level here)
nested_updates(ops) ==
    LET direct(o) == {o[i].proposal : i \in {j \in DOMAIN o : o[j].type \in
                                                {"proposal_update", "proposal_delete"}}}
    IN  direct(ops) \cup UNION {direct(ops[i].ops) :
                                   i \in {j \in DOMAIN ops : ops[j].type = "proposal_create"}}

proposal_create_evaluate(d, op) ==
    LET auths == required_by(op.ops, required_active) \cup required_by(op.ops, required_owner)
    IN  /\ op.expiration > d.now
        /\ op.expiration <= d.now + d.gpo.maximum_proposal_lifetime
        /\ \A r \in op.review : r < op.expiration - d.now
        /\ required_by(op.ops, required_other) = {}
        /\ GRAPHENE_COMMITTEE_ACCOUNT \in auths
               => \E r \in op.review : r >= d.gpo.committee_proposal_review_period

proposal_create_apply(d, op) ==
    LET id == d.next_proposal
        d1 == [d EXCEPT !.prop = Put(@, id, proposal_object(op, op.ops)), !.next_proposal = @ + 1]
    IN  Check(approval_inserted(d1, id), \A n \in nested_updates(op.ops) : n < id)

proposal_update_operation(fee, payer, proposal, add, remove, owner_add, owner_remove, key_add, key_remove) ==
    [type |-> "proposal_update", fee |-> fee, payer |-> payer, proposal |-> proposal,
     active_add |-> add, active_remove |-> remove, owner_add |-> owner_add,
     owner_remove |-> owner_remove, key_add |-> key_add, key_remove |-> key_remove]

proposal_update_validate(op) ==
    /\ UNION {op.active_add, op.active_remove, op.owner_add, op.owner_remove} # {}
           \/ op.key_add \cup op.key_remove # {}
    /\ op.active_add \cap op.active_remove = {}
    /\ op.owner_add \cap op.owner_remove = {}
    /\ op.key_add \cap op.key_remove = {}

in_review(p, now) == \E r \in p.review : now >= r

proposal_update_evaluate(d, op) ==
    /\ op.proposal \in DOMAIN d.prop
    /\ LET p == d.prop[op.proposal]
       IN  /\ in_review(p, d.now) => op.active_add = {} /\ op.owner_add = {}
           /\ op.active_remove \subseteq p.active
           /\ op.owner_remove \subseteq p.owner

approved_now(d, op) ==
    [d EXCEPT !.prop[op.proposal] =
        [@ EXCEPT !.active = (@ \cup op.active_add) \ op.active_remove,
                  !.owner = (@ \cup op.owner_add) \ op.owner_remove,
                  !.keys = (@ \cup op.key_add) \ op.key_remove]]

proposal_delete_operation(fee, payer, using_owner, proposal) ==
    [type |-> "proposal_delete", fee |-> fee, payer |-> payer, using_owner |-> using_owner,
     proposal |-> proposal]

proposal_delete_evaluate(d, op) ==
    /\ op.proposal \in DOMAIN d.prop
    /\ op.payer \in IF op.using_owner THEN d.prop[op.proposal].required_owner
                    ELSE d.prop[op.proposal].required_active

proposal_delete_apply(d, op) == remove_proposal(d, op.proposal)

-----------------------------------------------------------------------------
(***************************************************************************)
(* Witnesses, committee members and workers.                               *)
(***************************************************************************)
get_next_vote_id(d, type) == <<type, d.gpo.next_available_vote_id>>
vote_ids_taken(d, n) == [d EXCEPT !.gpo.next_available_vote_id = @ + n]

witness_object(acct, key, vote_id) ==
    [account |-> acct, signing_key |-> key, pay_vb |-> None, vote_id |-> vote_id,
     total_votes |-> 0, total_missed |-> 0, last_confirmed |-> 0, last_aslot |-> 0]

witness_create_operation(fee, acct, key) ==
    [type |-> "witness_create", fee |-> fee, payer |-> acct, account |-> acct, key |-> key]

witness_create_evaluate(d, op) ==
    op.account \in DOMAIN d.acct /\ is_lifetime_member(d.acct[op.account])

\* the index of witnesses is unique by account
witness_create_apply(d, op) ==
    [Check(vote_ids_taken(d, 1), \A w \in DOMAIN d.wit : d.wit[w].account # op.account) EXCEPT
        !.wit = Insert(@, witness_object(op.account, op.key, get_next_vote_id(d, "witness")))]

witness_update_operation(fee, witness, acct, key) ==
    [type |-> "witness_update", fee |-> fee, payer |-> acct, witness |-> witness,
     account |-> acct, key |-> key]

witness_update_evaluate(d, op) ==
    op.witness \in DOMAIN d.wit /\ d.wit[op.witness].account = op.account

witness_update_apply(d, op) ==
    [d EXCEPT !.wit[op.witness].signing_key = IF Valid(op.key) THEN Deref(op.key) ELSE @]

committee_member_object(acct, vote_id) ==
    [account |-> acct, vote_id |-> vote_id, total_votes |-> 0]

committee_member_create_operation(fee, acct) ==
    [type |-> "committee_member_create", fee |-> fee, payer |-> acct, account |-> acct]

committee_member_create_evaluate(d, op) ==
    op.account \in DOMAIN d.acct /\ is_lifetime_member(d.acct[op.account])

committee_member_create_apply(d, op) ==
    [Check(vote_ids_taken(d, 1), \A c \in DOMAIN d.comm : d.comm[c].account # op.account) EXCEPT
        !.comm = Insert(@, committee_member_object(op.account, get_next_vote_id(d, "committee")))]

\* (only the url changes)
committee_member_update_operation(fee, member, acct) ==
    [type |-> "committee_member_update", fee |-> fee, payer |-> acct, member |-> member,
     account |-> acct]

committee_member_update_evaluate(d, op) ==
    op.member \in DOMAIN d.comm /\ d.comm[op.member].account = op.account

committee_member_update_apply(d, op) == d

update_global_parameters_operation(fee, parameters) ==
    [type |-> "committee_member_update_global_parameters", fee |-> fee,
     payer |-> GRAPHENE_COMMITTEE_ACCOUNT, new_parameters |-> parameters]

\* (the limits on sizes and the fees are not in the model)
chain_parameters_validate(p) ==
    /\ p.network_percent_of_fee + p.lifetime_referrer_percent_of_fee <= GRAPHENE_100_PERCENT
    /\ p.block_interval > 0
    /\ p.maintenance_interval > p.block_interval
    /\ p.maintenance_interval % p.block_interval = 0
    /\ p.maximum_time_until_expiration > p.block_interval
    /\ p.maximum_proposal_lifetime - p.committee_proposal_review_period > p.block_interval

\* the parameters take effect at the next maintenance; only a proposal may change them
update_global_parameters_evaluate(proposed) == proposed

update_global_parameters_apply(d, op) == [d EXCEPT !.pending_parameters = {op.new_parameters}]

worker_object(op, for, against, worker) ==
    [account |-> op.owner, daily_pay |-> op.daily_pay, begin |-> op.begin, end |-> op.end,
     worker |-> worker, vote_for |-> for, vote_against |-> against, votes_for |-> 0,
     votes_against |-> 0]

worker_is_active(w, now) == now >= w.begin /\ now <= w.end
approving_stake(w) == w.votes_for - w.votes_against

\* kind is "refund", "vesting" or "burn"
worker_create_operation(fee, owner, begin, end, daily_pay, kind, vesting_days) ==
    [type |-> "worker_create", fee |-> fee, payer |-> owner, owner |-> owner, begin |-> begin,
     end |-> end, daily_pay |-> daily_pay, kind |-> kind, vesting_days |-> vesting_days]

worker_create_validate(op) ==
    op.end > op.begin /\ op.daily_pay > 0 /\ op.daily_pay < MAX_SUPPLY

worker_create_evaluate(d, op) ==
    /\ op.owner \in DOMAIN d.acct
    /\ is_lifetime_member(d.acct[op.owner])
    /\ op.begin >= d.now

worker_create_apply(d, op) ==
    LET vb == [owner |-> op.owner, balance |-> CoreAsset(0),
               policy |-> cdd_vesting_policy(op.vesting_days * ONE_DAY, 0, 0, d.now)]
        worker == IF op.kind = "vesting" THEN [kind |-> op.kind, balance |-> NextId(d.vest)]
                  ELSE [kind |-> op.kind, total_burned |-> 0]
        n == d.gpo.next_available_vote_id
    IN  [vote_ids_taken(d, 2) EXCEPT
            !.work = Insert(@, worker_object(op, <<"worker", n>>, <<"worker", n + 1>>, worker)),
            !.vest = IF op.kind = "vesting" THEN Insert(@, vb) ELSE @]

pay_worker(d, w, pay) ==
    CASE d.work[w].worker.kind = "refund" ->
             [d EXCEPT !.work[w].worker.total_burned = @ + pay,
                       !.dyn[CORE].current_supply = @ - pay]
      [] d.work[w].worker.kind = "vesting" ->
             [d EXCEPT !.vest[d.work[w].worker.balance] = deposit(@, d.now, pay)]
      [] OTHER ->
             adjust_balance([d EXCEPT !.work[w].worker.total_burned = @ + pay],
                            GRAPHENE_NULL_ACCOUNT, CoreAsset(pay))

=============================================================================
