---------------------------- MODULE BcxApiProofs ----------------------------
(***************************************************************************)
(* Proofs about BcxApi: for any accounts, any keys, any choice of methods, *)
(* and any number of calls at the same time.                               *)
(***************************************************************************)
EXTENDS BcxApi, SequenceTheorems, WellFoundedInduction, TLAPS

-----------------------------------------------------------------------------
(***************************************************************************)
(* The table of the methods.                                               *)
(***************************************************************************)
Queries == {"login", "api_id", "full_accounts", "account", "symbols", "nh_assets", "contract",
            "transaction", "faucet", "one", "chain_id", "signatures", "broadcast"}

\* What the proofs use of a method: one that stands for an operation ends with the
\* two requests of send_operation, others have none of these; one that takes its account
\* from an answer asks for something before; and no answer leaves the callback of one
\* that is not leaky uncalled.
Fits(m) ==
    LET d == Method(m)
        n == Len(d.steps)
    IN  /\ n \in 1..4
        /\ \A i \in 1..n : d.steps[i].q \in Queries
        /\ d.who \in {"nobody", "start", "validated", "reply", "named"}
        /\ d.who = "nobody" =>
              \A i \in 1..n : d.steps[i].q \notin {"signatures", "broadcast"}
        /\ d.who # "nobody" =>
              /\ n >= 2
              /\ d.steps[n].q = "broadcast"
              /\ d.steps[n - 1].q = "signatures"
              /\ \A i \in 1..(n - 2) :
                    d.steps[i].q \notin {"signatures", "broadcast", "login", "api_id"}
        /\ d.who \in {"validated", "reply"} => n >= 3
        /\ d.who = "validated" => m = "changePassword"
        /\ m \notin Leaky => \A i \in 1..n, r \in Replies : d.steps[i][r] \in {"go", "fail"}

\* Requests by what the proofs use of their handlers.
Asks(h) == h.q \in Queries \ {"signatures", "broadcast", "login", "api_id"}
Mild(h) == \A r \in Replies : h[r] \in {"go", "fail"}

\* The requests of the methods that stand for operations.
LEMMA Requests ==
    /\ Asks(query_get_full_accounts)
    /\ Asks(query_get_account_by_name)
    /\ Asks(query_lookup_account_names)
    /\ Asks(lookup_asset_symbols) /\ Mild(lookup_asset_symbols)
    /\ Asks(query_nh_lookup_assets) /\ Mild(query_nh_lookup_assets)
    /\ Asks(Careful("contract")) /\ Mild(Careful("contract"))
    /\ Careful("signatures").q = "signatures" /\ Mild(Careful("signatures"))
    /\ broadcast_and_read.q = "broadcast"
    /\ broadcast_transaction_with_callback.q = "broadcast"
    /\ Mild(broadcast_transaction_with_callback)
  BY DEF Asks, Mild, Queries, Replies, Handling, Careful, query_get_full_accounts,
         query_get_account_by_name, query_lookup_account_names, lookup_asset_symbols,
         query_nh_lookup_assets, broadcast_and_read, broadcast_transaction_with_callback

\* An operation that sends its transaction at once.
LEMMA SendsAtOnce ==
    ASSUME NEW m, NEW y, NEW z,
           Method(m).steps = <<y, z>>, Method(m).who = "start",
           y.q = "signatures", z.q = "broadcast", m \notin Leaky => Mild(y) /\ Mild(z)
    PROVE  Fits(m)
<1>1. Len(Method(m).steps) = 2 /\ Method(m).steps[1] = y /\ Method(m).steps[2] = z
  OBVIOUS
<1>2. \A i \in 1..2 : i = 1 \/ i = 2
  OBVIOUS
<1> QED
  BY <1>1, <1>2 DEF Fits, Queries, Mild

\* An operation that asks once before.
LEMMA SendsSecond ==
    ASSUME NEW m, NEW x, NEW y, NEW z,
           Method(m).steps = <<x, y, z>>,
           Method(m).who \in {"start", "validated", "reply", "named"},
           Method(m).who = "validated" => m = "changePassword",
           Asks(x), y.q = "signatures", z.q = "broadcast",
           m \notin Leaky => Mild(x) /\ Mild(y) /\ Mild(z)
    PROVE  Fits(m)
<1>1. /\ Len(Method(m).steps) = 3 /\ Method(m).steps[1] = x
      /\ Method(m).steps[2] = y /\ Method(m).steps[3] = z
  OBVIOUS
<1>2. \A i \in 1..3 : i = 1 \/ i = 2 \/ i = 3
  OBVIOUS
<1> QED
  BY <1>1, <1>2 DEF Fits, Queries, Asks, Mild

\* An operation that asks twice before.
LEMMA SendsThird ==
    ASSUME NEW m, NEW w, NEW x, NEW y, NEW z,
           Method(m).steps = <<w, x, y, z>>,
           Method(m).who \in {"start", "validated", "reply", "named"},
           Method(m).who = "validated" => m = "changePassword",
           Asks(w), Asks(x), y.q = "signatures", z.q = "broadcast",
           m \notin Leaky => Mild(w) /\ Mild(x) /\ Mild(y) /\ Mild(z)
    PROVE  Fits(m)
<1>1. /\ Len(Method(m).steps) = 4 /\ Method(m).steps[1] = w
      /\ Method(m).steps[2] = x /\ Method(m).steps[3] = y /\ Method(m).steps[4] = z
  OBVIOUS
<1>2. \A i \in 1..4 : i = 1 \/ i = 2 \/ i = 3 \/ i = 4
  OBVIOUS
<1> QED
  BY <1>1, <1>2 DEF Fits, Queries, Asks, Mild

\* Sequences of requests put together, as send_operation is put after the questions.
LEMMA OneThenTwo ==
    ASSUME NEW a, NEW b, NEW c
    PROVE  <<a>> \o <<b, c>> = <<a, b, c>>
<1> DEFINE S == {a, b, c}
<1>1. <<a>> \in Seq(S) /\ <<b, c>> \in Seq(S) /\ <<a, b, c>> \in Seq(S)
  OBVIOUS
<1>2. Len(<<a>> \o <<b, c>>) = 3 /\ <<a>> \o <<b, c>> \in Seq(S)
  BY <1>1
<1>3. \A i \in 1..3 : (<<a>> \o <<b, c>>)[i] = <<a, b, c>>[i]
  OBVIOUS
<1> QED
  BY <1>1, <1>2, <1>3, SeqEqual

\* Two questions and send_operation.
LEMMA TwoThenTwo ==
    ASSUME NEW a, NEW b, NEW c, NEW d
    PROVE  <<a, b>> \o <<c, d>> = <<a, b, c, d>>
<1> DEFINE S == {a, b, c, d}
<1>1. <<a, b>> \in Seq(S) /\ <<c, d>> \in Seq(S) /\ <<a, b, c, d>> \in Seq(S)
  OBVIOUS
<1>2. Len(<<a, b>> \o <<c, d>>) = 4 /\ <<a, b>> \o <<c, d>> \in Seq(S)
  BY <1>1
<1>3. \A i \in 1..4 : (<<a, b>> \o <<c, d>>)[i] = <<a, b, c, d>>[i]
  OBVIOUS
<1> QED
  BY <1>1, <1>2, <1>3, SeqEqual

\* Every method of bcxapi_p is of that form.
LEMMA MethodsFit == \A m \in AllMethods : Fits(m)
<1>1. Fits("init")
  <2>1. Method("init") = init
    BY DEF Method
  <2> QED
    BY SMTT(30), <2>1 DEF Fits, Queries, Replies, Leaky, Plain, init, query_login,
       query_api_id, Handling
<1>2. Fits("login")
  <2>1. Method("login") = login
    BY DEF Method
  <2> QED
    BY SMTT(30), <2>1 DEF Fits, Queries, Replies, Leaky, Plain, login,
       query_get_full_accounts, Handling
<1>3. Fits("changePassword")
  <2>1. Method("changePassword") = changePassword
    BY DEF Method
  <2>2. /\ changePassword.who = "validated"
        /\ changePassword.steps = <<query_get_full_accounts, Careful("signatures"), broadcast_transaction_with_callback>>
    BY OneThenTwo DEF changePassword, Plain, send_operation
  <2> QED
    BY <2>1, <2>2, Requests, SendsSecond DEF Leaky
<1>4. Fits("createAccountByAccount")
  <2>1. Method("createAccountByAccount") = createAccountByAccount
    BY DEF Method
  <2>2. /\ createAccountByAccount.who = "start"
        /\ createAccountByAccount.steps = <<Careful("signatures"), broadcast_transaction_with_callback>>
    BY DEF createAccountByAccount, Gated, send_operation
  <2> QED
    BY <2>1, <2>2, Requests, SendsAtOnce DEF Leaky
<1>5. Fits("createAccountByFaucet")
  <2>1. Method("createAccountByFaucet") = createAccountByFaucet
    BY DEF Method
  <2> QED
    BY SMTT(30), <2>1 DEF Fits, Queries, Replies, Leaky, Plain, createAccountByFaucet,
       Handling
<1>6. Fits("upgradeAccount")
  <2>1. Method("upgradeAccount") = upgradeAccount
    BY DEF Method
  <2>2. /\ upgradeAccount.who = "start"
        /\ upgradeAccount.steps = <<Careful("signatures"), broadcast_transaction_with_callback>>
    BY DEF upgradeAccount, Gated, send_operation
  <2> QED
    BY <2>1, <2>2, Requests, SendsAtOnce DEF Leaky
<1>7. Fits("transfer")
  <2>1. Method("transfer") = transfer
    BY DEF Method
  <2>2. /\ transfer.who = "start"
        /\ transfer.steps = <<query_get_full_accounts, lookup_asset_symbols, Careful("signatures"), broadcast_and_read>>
    BY TwoThenTwo DEF transfer, Gated, send_operation_and_read
  <2> QED
    BY <2>1, <2>2, Requests, SendsThird DEF Leaky
<1>8. Fits("create_asset")
  <2>1. Method("create_asset") = create_asset
    BY DEF Method
  <2>2. /\ create_asset.who = "start"
        /\ create_asset.steps = <<Careful("signatures"), broadcast_transaction_with_callback>>
    BY DEF create_asset, Gated, send_operation
  <2> QED
    BY <2>1, <2>2, Requests, SendsAtOnce DEF Leaky
<1>9. Fits("update_asset")
  <2>1. Method("update_asset") = update_asset
    BY DEF Method
  <2>2. /\ update_asset.who = "named"
        /\ update_asset.steps = <<lookup_asset_symbols, Careful("signatures"), broadcast_transaction_with_callback>>
    BY OneThenTwo DEF update_asset, Gated, send_operation
  <2> QED
    BY <2>1, <2>2, Requests, SendsSecond DEF Leaky
<1>10. Fits("issue_asset")
  <2>1. Method("issue_asset") = issue_asset
    BY DEF Method
  <2>2. /\ issue_asset.who = "start"
        /\ issue_asset.steps = <<query_get_account_by_name, lookup_asset_symbols, Careful("signatures"), broadcast_transaction_with_callback>>
    BY TwoThenTwo DEF issue_asset, Gated, send_operation
  <2> QED
    BY <2>1, <2>2, Requests, SendsThird DEF Leaky
<1>11. Fits("reserve_asset")
  <2>1. Method("reserve_asset") = reserve_asset
    BY DEF Method
  <2>2. /\ reserve_asset.who = "start"
        /\ reserve_asset.steps = <<lookup_asset_symbols, Careful("signatures"), broadcast_transaction_with_callback>>
    BY OneThenTwo DEF reserve_asset, Gated, send_operation
  <2> QED
    BY <2>1, <2>2, Requests, SendsSecond DEF Leaky
<1>12. Fits("create_contract")
  <2>1. Method("create_contract") = create_contract
    BY DEF Method
  <2>2. /\ create_contract.who = "start"
        /\ create_contract.steps = <<Careful("signatures"), broadcast_transaction_with_callback>>
    BY DEF create_contract, Gated, send_operation
  <2> QED
    BY <2>1, <2>2, Requests, SendsAtOnce DEF Leaky
<1>13. Fits("update_contract")
  <2>1. Method("update_contract") = update_contract
    BY DEF Method
  <2>2. /\ update_contract.who = "reply"
        /\ update_contract.steps = <<Careful("contract"), Careful("signatures"), broadcast_transaction_with_callback>>
    BY OneThenTwo DEF update_contract, Gated, send_operation
  <2> QED
    BY <2>1, <2>2, Requests, SendsSecond DEF Leaky
<1>14. Fits("call_contract_function")
  <2>1. Method("call_contract_function") = call_contract_function
    BY DEF Method
  <2>2. /\ call_contract_function.who = "start"
        /\ call_contract_function.steps = <<Careful("contract"), Careful("signatures"), broadcast_transaction_with_callback>>
    BY OneThenTwo DEF call_contract_function, Gated, send_operation
  <2> QED
    BY <2>1, <2>2, Requests, SendsSecond DEF Leaky
<1>15. Fits("nh_register_creator")
  <2>1. Method("nh_register_creator") = nh_register_creator
    BY DEF Method
  <2>2. /\ nh_register_creator.who = "start"
        /\ nh_register_creator.steps = <<Careful("signatures"), broadcast_transaction_with_callback>>
    BY DEF nh_register_creator, Gated, send_operation
  <2> QED
    BY <2>1, <2>2, Requests, SendsAtOnce DEF Leaky
<1>16. Fits("nh_create_world_view")
  <2>1. Method("nh_create_world_view") = nh_create_world_view
    BY DEF Method
  <2>2. /\ nh_create_world_view.who = "start"
        /\ nh_create_world_view.steps = <<Careful("signatures"), broadcast_transaction_with_callback>>
    BY DEF nh_create_world_view, Gated, send_operation
  <2> QED
    BY <2>1, <2>2, Requests, SendsAtOnce DEF Leaky
<1>17. Fits("nh_relate_world_view")
  <2>1. Method("nh_relate_world_view") = nh_relate_world_view
    BY DEF Method
  <2>2. /\ nh_relate_world_view.who = "start"
        /\ nh_relate_world_view.steps = <<Careful("signatures"), broadcast_transaction_with_callback>>
    BY DEF nh_relate_world_view, Gated, send_operation
  <2> QED
    BY <2>1, <2>2, Requests, SendsAtOnce DEF Leaky
<1>18. Fits("nh_creat_asset")
  <2>1. Method("nh_creat_asset") = nh_creat_asset
    BY DEF Method
  <2>2. /\ nh_creat_asset.who = "start"
        /\ nh_creat_asset.steps = <<query_lookup_account_names, Careful("signatures"), broadcast_and_read>>
    BY OneThenTwo DEF nh_creat_asset, Gated, send_operation_and_read
  <2> QED
    BY <2>1, <2>2, Requests, SendsSecond DEF Leaky
<1>19. Fits("nh_delete_asset")
  <2>1. Method("nh_delete_asset") = nh_delete_asset
    BY DEF Method
  <2>2. /\ nh_delete_asset.who = "reply"
        /\ nh_delete_asset.steps = <<query_nh_lookup_assets, Careful("signatures"), broadcast_transaction_with_callback>>
    BY OneThenTwo DEF nh_delete_asset, Plain, send_operation
  <2> QED
    BY <2>1, <2>2, Requests, SendsSecond DEF Leaky
<1>20. Fits("nh_transfer_asset")
  <2>1. Method("nh_transfer_asset") = nh_transfer_asset
    BY DEF Method
  <2>2. /\ nh_transfer_asset.who = "start"
        /\ nh_transfer_asset.steps = <<query_get_account_by_name, query_nh_lookup_assets, Careful("signatures"), broadcast_transaction_with_callback>>
    BY TwoThenTwo DEF nh_transfer_asset, Gated, send_operation
  <2> QED
    BY <2>1, <2>2, Requests, SendsThird DEF Leaky
<1>21. Fits("nh_lookup_assets")
  <2>1. Method("nh_lookup_assets") = nh_lookup_assets
    BY DEF Method
  <2> QED
    BY SMTT(30), <2>1 DEF Fits, Queries, Replies, Leaky, Plain, nh_lookup_assets,
       query_nh_lookup_assets, Careful, Handling
<1>22. Fits("get_contract")
  <2>1. Method("get_contract") = get_contract
    BY DEF Method
  <2> QED
    BY SMTT(30), <2>1 DEF Fits, Queries, Replies, Leaky, Plain, get_contract,
       query_get_contract, query_get_transaction_by_id, Careful, Handling
<1>23. Fits("get_full_accounts")
  <2>1. Method("get_full_accounts") = get_full_accounts
    BY DEF Method
  <2> QED
    BY SMTT(30), <2>1 DEF Fits, Queries, Replies, Leaky, Plain, get_full_accounts, Handling
<1>24. Fits("get_key_references")
  <2>1. Method("get_key_references") = get_key_references
    BY DEF Method
  <2> QED
    BY SMTT(30), <2>1 DEF Fits, Queries, Replies, Leaky, Plain, get_key_references, Handling
<1>25. Fits("get_chain_id")
  <2>1. Method("get_chain_id") = get_chain_id
    BY DEF Method
  <2> QED
    BY SMTT(30), <2>1 DEF Fits, Queries, Replies, Leaky, Plain, get_chain_id, Handling
<1>26. Fits("get_objects")
  <2>1. Method("get_objects") = get_objects
    BY DEF Method
  <2> QED
    BY SMTT(30), <2>1 DEF Fits, Queries, Replies, Leaky, Plain, get_objects, ListOf, Careful,
       Handling
<1>27. Fits("lookup_asset_symbols")
  <2>1. Method("lookup_asset_symbols") = lookup_asset_symbols_callback
    BY DEF Method
  <2> QED
    BY SMTT(30), <2>1 DEF Fits, Queries, Replies, Leaky, Plain, lookup_asset_symbols_callback,
       ListOf, Careful, Handling
<1>28. Fits("list_assets")
  <2>1. Method("list_assets") = list_assets
    BY DEF Method
  <2> QED
    BY SMTT(30), <2>1 DEF Fits, Queries, Replies, Leaky, Plain, list_assets, ListOf, Careful,
       Handling
<1>29. Fits("get_block_header")
  <2>1. Method("get_block_header") = get_block_header
    BY DEF Method
  <2> QED
    BY SMTT(30), <2>1 DEF Fits, Queries, Replies, Leaky, Plain, get_block_header, Handling
<1>30. Fits("get_block")
  <2>1. Method("get_block") = get_block
    BY DEF Method
  <2> QED
    BY SMTT(30), <2>1 DEF Fits, Queries, Replies, Leaky, Plain, get_block, Handling
<1>31. Fits("get_account_history")
  <2>1. Method("get_account_history") = get_account_history
    BY DEF Method
  <2> QED
    BY SMTT(30), <2>1 DEF Fits, Queries, Replies, Leaky, Plain, get_account_history, ListOf,
       Careful, Handling
<1>32. Fits("get_createAsset_fee")
  <2>1. Method("get_createAsset_fee") = get_createAsset_fee
    BY DEF Method
  <2> QED
    BY SMTT(30), <2>1 DEF Fits, Queries, Replies, Leaky, Plain, get_createAsset_fee, Handling
<1>33. Fits("get_transaction_by_id")
  <2>1. Method("get_transaction_by_id") = get_transaction_by_id
    BY DEF Method
  <2> QED
    BY SMTT(30), <2>1 DEF Fits, Queries, Replies, Leaky, Plain, get_transaction_by_id,
       Handling
<1> QED
  BY <1>1, <1>2, <1>3, <1>4, <1>5, <1>6, <1>7, <1>8, <1>9, <1>10, <1>11, <1>12, <1>13, <1>14,
     <1>15, <1>16, <1>17, <1>18, <1>19, <1>20, <1>21, <1>22, <1>23, <1>24, <1>25, <1>26,
     <1>27, <1>28, <1>29, <1>30, <1>31, <1>32, <1>33 DEF AllMethods

-----------------------------------------------------------------------------
(***************************************************************************)
(* Type correctness.                                                       *)
(***************************************************************************)

\* How an application uses the SDK does not change, and what depends on it neither.
LEMMA SameApplication ==
    ASSUME [Next]_vars
    PROVE  /\ app' = app
           /\ Accounts' = Accounts /\ Roles' = Roles /\ Slots' = Slots
           /\ Disciplined' = Disciplined /\ CallRecord' = CallRecord
<1>1. ASSUME UNCHANGED session PROVE app' = app
  BY <1>1 DEF session
<1>2. ASSUME UNCHANGED vars PROVE app' = app
  BY <1>1, <1>2 DEF vars
<1>3. ASSUME NEW s \in Slots, NEW m \in Methods, NEW a \in Names(m), Start(s, m, a)
      PROVE  app' = app
  BY <1>1, <1>3 DEF Start
<1>4. ASSUME NEW s \in Slots, NEW m \in Methods, StartThrows(s, m) PROVE app' = app
  BY <1>1, <1>4 DEF StartThrows
<1>5. ASSUME NEW s \in Slots, NEW r \in Replies,
             ReplyEnds(s, r) \/ ReplyLiteral(s, r) \/ ReplySignatures(s, r)
      PROVE  app' = app
  BY <1>1, <1>5 DEF ReplyEnds, ReplyLiteral, ReplySignatures
<1>6. ASSUME NEW s \in Slots, NEW r \in Replies,
             ReplyInit(s, r) \/ ReplyValidate(s, r) \/ ReplyGoesOn(s, r)
      PROVE  app' = app
  BY <1>6 DEF ReplyInit, ReplyValidate, ReplyGoesOn
<1>7. ASSUME NEW x \in asked, NEW r \in Replies, ReplyAsked(x, r) PROVE app' = app
  BY <1>7 DEF ReplyAsked
<1>8. ASSUME logout \/ TimerDgpo PROVE app' = app
  BY <1>8 DEF logout, TimerDgpo
<1>9. app' = app
  BY <1>2, <1>3, <1>4, <1>5, <1>6, <1>7, <1>8 DEF Next
<1> QED
  BY <1>9 DEF Accounts, Roles, Slots, Disciplined, CallRecord

\* What the assumption on the applications says of the one at hand.
LEMMA ApplicationType ==
    ASSUME TypeOK
    PROVE  /\ Accounts \subseteq Nat \ {0} /\ Methods \subseteq AllMethods
           /\ app.calls \in Nat /\ Disciplined \in BOOLEAN /\ NoAccount = 0
<1>1. app \in Usage
  BY BcxApiAssumption DEF TypeOK
<1> QED
  BY <1>1 DEF Usage, Accounts, Methods, Disciplined, NoAccount

\* The first of the saved active keys is one of them.
LEMMA FirstActiveType ==
    ASSUME TypeOK
    PROVE  FirstActive \subseteq {a \in Accounts : <<a, "active">> \in savedKeys}
<1> DEFINE active == {a \in Accounts : <<a, "active">> \in savedKeys}
<1>1. active \subseteq Nat
  BY ApplicationType
<1>2. CASE active = {}
  BY <1>2 DEF FirstActive
<1>3. CASE active # {}
  <2>1. \E a \in active : \A b \in active : <<b, a>> \notin OpToRel(<, Nat)
    <3> HIDE DEF active
    <3> QED
      BY <1>1, <1>3, NatLessThanWellFounded, WFMin
  <2>2. \E a \in active : \A b \in active : a <= b
    <3> HIDE DEF active
    <3>1. PICK a \in active : \A b \in active : <<b, a>> \notin OpToRel(<, Nat)
      BY <2>1
    <3>2. ASSUME NEW b \in active PROVE a <= b
      <4>1. a \in Nat /\ b \in Nat /\ <<b, a>> \in Nat \X Nat
        BY <1>1
      <4>2. ~(b < a)
        BY <3>1, <4>1 DEF OpToRel
      <4> QED
        BY <4>1, <4>2
    <3> QED
      BY <3>2
  <2> QED
    BY <2>2 DEF FirstActive
<1> QED
  BY <1>2, <1>3

\* A continuation either sends the next request of its chain or ends it.
LEMMA GoOnEffect ==
    ASSUME NEW s \in Slots, NEW c, GoOn(s, c)
    PROVE  \/ /\ IsLast(s)
              /\ call' = [call EXCEPT ![s] = [c EXCEPT !.st = "ended"]]
              /\ answers' = [answers EXCEPT ![s] = Append(@, "SUCCESS")]
           \/ /\ ~IsLast(s)
              /\ call' = [call EXCEPT ![s] = [c EXCEPT !.at = @ + 1]]
              /\ answers' = answers
  BY DEF GoOn, Answer

\* A call; one of login and changePassword is called with an account.
CallOf == {c \in CallRecord : c.m \in {"login", "changePassword"} => c.arg \in Accounts}

\* Every step keeps the types of the calls and of what they have told.
LEMMA CallTypes ==
    ASSUME TypeOK, [Next]_vars
    PROVE  /\ call' \in [Slots -> CallOf]
           /\ answers' \in [Slots -> Seq({"SUCCESS", "FAIL"})]
<1> DEFINE Told == Seq({"SUCCESS", "FAIL"})
           Good == call' \in [Slots -> CallOf] /\ answers' \in [Slots -> Told]
<1>1. call \in [Slots -> CallOf] /\ answers \in [Slots -> Told]
  BY DEF TypeOK, CallOf, LogsIn
<1>2. \A a \in Told : Append(a, "SUCCESS") \in Told /\ Append(a, "FAIL") \in Told
  OBVIOUS
<1> HIDE DEF Told
<1>3. ASSUME NEW s \in Slots, NEW c \in CallOf, call' = [call EXCEPT ![s] = c],
             \/ answers' = answers
             \/ answers' = [answers EXCEPT ![s] = Append(@, "SUCCESS")]
             \/ answers' = [answers EXCEPT ![s] = Append(@, "FAIL")]
      PROVE  Good
  BY <1>1, <1>2, <1>3
<1>4. ASSUME NEW s \in Slots, NEW st \in {"ended", "undefined"}
      PROVE  [call[s] EXCEPT !.st = st] \in CallOf
  BY <1>1 DEF CallOf, CallRecord
<1>5. ASSUME NEW s \in Slots, End(s),
             answers' = answers \/ Answer(s, "SUCCESS") \/ Answer(s, "FAIL")
      PROVE  Good
  <2>1. call' = [call EXCEPT ![s] = [call[s] EXCEPT !.st = "ended"]]
    BY <1>1, <1>5 DEF End
  <2> QED
    BY <1>3, <1>4, <1>5, <2>1 DEF Answer
<1>6. ASSUME NEW s \in Slots, NEW c \in CallOf, GoOn(s, c) PROVE Good
  <2>1. [c EXCEPT !.st = "ended"] \in CallOf /\ [c EXCEPT !.at = @ + 1] \in CallOf
    BY DEF CallOf, CallRecord
  <2> QED
    BY <1>3, <1>6, <2>1, GoOnEffect
<1>7. ASSUME NEW s \in Slots, NEW m \in Methods, NEW a \in Names(m), Start(s, m, a) PROVE Good
  <2> DEFINE by == IF Method(m).who = "start" THEN current ELSE NoAccount
             c == [NoCall EXCEPT !.m = m, !.at = 1, !.arg = a, !.by = by]
  <2>1. /\ a \in Accounts \cup {NoAccount} /\ m \in AllMethods
        /\ m \in {"login", "changePassword"} => a \in Accounts
    BY ApplicationType DEF Names
  <2>2. by \in Accounts \cup {NoAccount}
    BY DEF TypeOK
  <2> HIDE DEF by
  <2>3. [c EXCEPT !.st = "waiting"] \in CallOf /\ [c EXCEPT !.st = "ended"] \in CallOf
    BY <2>1, <2>2 DEF NoCall, CallOf, CallRecord
  <2>4. \/ call' = [call EXCEPT ![s] = [c EXCEPT !.st = "waiting"]] /\ answers' = answers
        \/ call' = [call EXCEPT ![s] = [c EXCEPT !.st = "ended"]] /\ Answer(s, "FAIL")
    BY <1>7 DEF Start, by
  <2> QED
    BY <1>3, <2>3, <2>4 DEF Answer
<1>8. ASSUME NEW s \in Slots, NEW m \in Methods, StartThrows(s, m) PROVE Good
  <2>1. m = "create_contract" /\ m \in AllMethods
    BY <1>8, ApplicationType DEF StartThrows, Throws
  <2>2. [NoCall EXCEPT !.m = m, !.at = 1, !.st = "ended"] \in CallOf
    BY <2>1 DEF NoCall, CallOf, CallRecord
  <2> QED
    BY <1>3, <1>8, <2>2 DEF StartThrows
<1>9. ASSUME NEW s \in Slots, NEW r \in Replies, ReplyEnds(s, r) PROVE Good
  <2>1. CASE Handler(s)[r] = "fail" \/ Handler(s)[r] = "silent"
    BY <1>5, <1>9, <2>1 DEF ReplyEnds
  <2>2. CASE Handler(s)[r] = "undefined"
    <3>1. call' = [call EXCEPT ![s] = [call[s] EXCEPT !.st = "undefined"]]
      BY <1>1, <1>9, <2>2 DEF ReplyEnds
    <3>2. call' \in [Slots -> CallOf]
      BY <1>1, <1>4, <3>1
    <3>3. <<"FAIL", "SUCCESS">> \in Told
      BY DEF Told
    <3>4. answers' = answers \/ answers' = [answers EXCEPT ![s] = <<"FAIL", "SUCCESS">>]
      BY <1>9, <2>2 DEF ReplyEnds
    <3> QED
      BY <1>1, <3>2, <3>3, <3>4
  <2> QED
    BY <1>9, <2>1, <2>2 DEF ReplyEnds
<1>10. ASSUME NEW s \in Slots, NEW r \in Replies, ReplyLiteral(s, r) PROVE Good
  BY <1>5, <1>10 DEF ReplyLiteral
<1>11. ASSUME NEW s \in Slots, NEW r \in Replies, ReplyInit(s, r) PROVE Good
  <2> DEFINE suc == IF Handler(s).q = "login" THEN r = "ok" ELSE call[s].suc
  <2>1. suc \in BOOLEAN
    BY <1>1 DEF CallOf, CallRecord
  <2> HIDE DEF suc
  <2>2. [call[s] EXCEPT !.suc = suc] \in CallOf
    BY <1>1, <2>1 DEF CallOf, CallRecord
  <2>3. \/ End(s) /\ (answers' = answers \/ Answer(s, "SUCCESS") \/ Answer(s, "FAIL"))
        \/ GoOn(s, [call[s] EXCEPT !.suc = suc])
    BY <1>11 DEF ReplyInit, suc
  <2> QED
    BY <1>5, <1>6, <2>2, <2>3
<1>12. ASSUME NEW s \in Slots, NEW r \in Replies, ReplyValidate(s, r) PROVE Good
  <2>1. current' \in Accounts \cup {NoAccount}
    BY <1>1, <1>12 DEF ReplyValidate, CallOf, CallRecord
  <2>2. [call[s] EXCEPT !.by = current'] \in CallOf
    BY <1>1, <2>1 DEF CallOf, CallRecord
  <2>3. \/ End(s) /\ Answer(s, "FAIL")
        \/ GoOn(s, [call[s] EXCEPT !.by = current'])
    BY <1>12 DEF ReplyValidate
  <2> QED
    BY <1>5, <1>6, <2>2, <2>3
<1>13. ASSUME NEW s \in Slots, NEW r \in Replies, ReplySignatures(s, r) PROVE Good
  <2>1. (End(s) /\ Answer(s, "FAIL")) \/ GoOn(s, call[s])
    BY <1>13 DEF ReplySignatures
  <2> QED
    BY <1>1, <1>5, <1>6, <2>1
<1>14. ASSUME NEW s \in Slots, NEW r \in Replies, ReplyGoesOn(s, r) PROVE Good
  <2>1. PICK c \in CallOf : GoOn(s, c)
    <3>1. PICK issuer \in Accounts \cup {NoAccount} :
            LET c == call[s]
                who == Method(c.m).who
            IN  GoOn(s, [c EXCEPT
                    !.by = CASE who = "reply" /\ c.at = 1 -> current
                             [] who = "named" /\ c.at = 1 -> issuer
                             [] OTHER -> @,
                    !.owner = IF Handler(s).q \in {"nh_assets", "contract"}
                              THEN current ELSE @])
      BY <1>14 DEF ReplyGoesOn
    <3>2. call[s] \in CallOf /\ current \in Accounts \cup {NoAccount}
      BY <1>1 DEF TypeOK
    <3>3. PICK by \in Accounts \cup {NoAccount}, owner \in Accounts \cup {NoAccount} :
            GoOn(s, [call[s] EXCEPT !.by = by, !.owner = owner])
      BY <3>1, <3>2 DEF CallOf, CallRecord
    <3>4. [call[s] EXCEPT !.by = by, !.owner = owner] \in CallOf
      BY <3>2 DEF CallOf, CallRecord
    <3> QED
      BY <3>3, <3>4
  <2> QED
    BY <1>6, <2>1
<1>15. ASSUME UNCHANGED <<call, answers>> PROVE Good
  BY <1>1, <1>15
<1>16. ASSUME logout \/ TimerDgpo \/ (\E x \in asked, r \in Replies : ReplyAsked(x, r))
       PROVE  Good
  BY <1>15, <1>16 DEF logout, TimerDgpo, ReplyAsked
<1>17. ASSUME UNCHANGED vars PROVE Good
  BY <1>15, <1>17 DEF vars
<1>18. Good
  BY <1>7, <1>8, <1>9, <1>10, <1>11, <1>12, <1>13, <1>14, <1>16, <1>17 DEF Next
<1> QED
  BY <1>18 DEF Told

\* Every step keeps the types of the session and of what is sent.
LEMMA SessionTypes ==
    ASSUME TypeOK, [Next]_vars
    PROVE  /\ current' \in Accounts \cup {NoAccount}
           /\ savedKeys' \subseteq Accounts \X Roles
           /\ apiIds' \in Nat
           /\ asked' \subseteq {"dgpo", "chain_id"}
           /\ known' \subseteq {"dgpo", "chain_id"}
           /\ broadcasts' \subseteq [slot : Slots, by : Accounts \cup {NoAccount}, key : Accounts]
<1> DEFINE Good == /\ current' \in Accounts \cup {NoAccount}
                   /\ savedKeys' \subseteq Accounts \X Roles
                   /\ apiIds' \in Nat
                   /\ asked' \subseteq {"dgpo", "chain_id"}
                   /\ known' \subseteq {"dgpo", "chain_id"}
                   /\ broadcasts' \subseteq [slot : Slots, by : Accounts \cup {NoAccount},
                                             key : Accounts]
<1> USE DEF TypeOK
<1>1. CASE UNCHANGED <<session, broadcasts>>
  BY <1>1 DEF session
<1>2. CASE logout \/ TimerDgpo
  BY <1>2 DEF logout, TimerDgpo
<1>3. ASSUME NEW x \in asked, NEW r \in Replies, ReplyAsked(x, r) PROVE Good
  BY <1>3 DEF ReplyAsked
<1>4. ASSUME NEW s \in Slots, NEW r \in Replies, ReplyInit(s, r) PROVE Good
  <2>1. apiIds' \in Nat /\ UNCHANGED <<current, savedKeys, known, broadcasts>>
    BY <1>4 DEF ReplyInit
  <2>2. asked' = asked \/ asked' = {"dgpo", "chain_id"}
    BY <1>4 DEF ReplyInit
  <2> QED
    BY <2>1, <2>2
<1>5. ASSUME NEW s \in Slots, NEW r \in Replies, ReplyValidate(s, r) PROVE Good
  <2>1. call[s] \in CallRecord
    OBVIOUS
  <2>2. call[s].arg \in Accounts
    BY <1>5 DEF ReplyValidate, LogsIn
  <2>3. PICK match \in SUBSET Roles : savedKeys' = savedKeys \cup ({call[s].arg} \X match)
    BY <1>5 DEF ReplyValidate
  <2>4. savedKeys' \subseteq Accounts \X Roles
    BY <2>2, <2>3
  <2>5. current' \in Accounts \cup {NoAccount}
    BY <1>5, <2>2 DEF ReplyValidate
  <2> QED
    BY <1>5, <2>4, <2>5 DEF ReplyValidate
<1>6. ASSUME NEW s \in Slots, NEW r \in Replies, ReplySignatures(s, r) PROVE Good
  <2>1. UNCHANGED <<current, savedKeys, apiIds, asked, known>>
    BY <1>6 DEF ReplySignatures, session
  <2>2. FirstActive \subseteq Accounts
    BY FirstActiveType
  <2>3. broadcasts' = broadcasts \/ \E a \in Accounts :
          broadcasts' = broadcasts \cup {[slot |-> s, by |-> call[s].by, key |-> a]}
    <3>1. \A pkeys : {k[1] : k \in pkeys \cap savedKeys} \subseteq Accounts
      OBVIOUS
    <3> QED
      BY <1>6, <2>2, <3>1 DEF ReplySignatures
  <2>4. call[s].by \in Accounts \cup {NoAccount}
    BY DEF CallRecord
  <2> QED
    BY <2>1, <2>3, <2>4
<1>7. ASSUME NEW s \in Slots, NEW r \in Replies, ReplyGoesOn(s, r) PROVE Good
  <2>1. known' \subseteq {"dgpo", "chain_id"}
    BY <1>7 DEF ReplyGoesOn
  <2> QED
    BY <1>7, <2>1 DEF ReplyGoesOn
<1> QED
  BY <1>1, <1>2, <1>3, <1>4, <1>5, <1>6, <1>7
     DEF Next, vars, Start, StartThrows, ReplyEnds, ReplyLiteral

\* The variables of bcxapi_p have their types in every state.
THEOREM TypeCorrect == Spec => []TypeOK
<1>1. Init => TypeOK
  <2> SUFFICES ASSUME Init PROVE TypeOK
    OBVIOUS
  <2>1. app \in Usage
    BY BcxApiAssumption DEF Init
  <2>2. NoCall \in CallRecord
    BY DEF NoCall, CallRecord
  <2>3. \A s \in Slots : ~LogsIn(s)
    BY DEF Init, LogsIn, NoCall
  <2> QED
    BY <2>2, <2>3 DEF Init, TypeOK
<1>2. TypeOK /\ [Next]_vars => TypeOK'
  <2> SUFFICES ASSUME TypeOK, [Next]_vars PROVE TypeOK'
    OBVIOUS
  <2>1. app' = app /\ Accounts' = Accounts /\ Roles' = Roles /\ Slots' = Slots
        /\ CallRecord' = CallRecord
    BY SameApplication
  <2>2. call' \in [Slots -> CallRecord] /\ \A s \in Slots : LogsIn(s)' => call'[s].arg \in Accounts
    BY CallTypes DEF CallOf, LogsIn
  <2> QED
    BY <2>1, <2>2, CallTypes, SessionTypes DEF TypeOK
<1> QED
  BY <1>1, <1>2, PTL DEF Spec

-----------------------------------------------------------------------------
(***************************************************************************)
(* The forms of a step: a call begins, its chain ends, it goes on to the   *)
(* next request, or its transaction is signed and sent.                    *)
(***************************************************************************)

\* Of slot s nothing is left but what it becomes.
Moved(s, c, told) ==
    /\ call' = [call EXCEPT ![s] = c]
    /\ answers' = [answers EXCEPT ![s] = told]

\* The account that was asked for is looked at: it becomes the current one.
Validates(s) ==
    /\ LogsIn(s) /\ Handler(s).q = "full_accounts"
    /\ \/ /\ current' = call[s].arg
          /\ \E match \in SUBSET Roles : savedKeys' = savedKeys \cup ({call[s].arg} \X match)
       \/ /\ current' = NoAccount
          /\ savedKeys' = savedKeys
          /\ call[s].arg \notin {k[1] : k \in savedKeys}

Begins(s, c, told) ==
    /\ call[s].st = "unused" /\ c.st \in {"waiting", "ended"}
    /\ c.m \in AllMethods /\ c.at = 1
    /\ Agrees(c, told) /\ told # <<"SUCCESS">>
    /\ Allowed(c.m, c.arg)
    /\ c.st = "waiting" /\ Method(c.m).who = "start" => c.by = current
    /\ UNCHANGED <<current, savedKeys, broadcasts>>

Finishes(s, c, told) ==
    /\ IsWaiting(s) /\ \E st \in {"ended", "undefined"} : c = [call[s] EXCEPT !.st = st]
    /\ Agrees(c, told)
    /\ told = <<"SUCCESS">> => Who(s) = "nobody"
    /\ UNCHANGED <<current, savedKeys>> \/ Validates(s)
    /\ broadcasts' = broadcasts

Continues(s, c, told) ==
    /\ IsWaiting(s) /\ c.m = call[s].m /\ c.arg = call[s].arg
    /\ Handler(s).q # "signatures"
    /\ IF IsLast(s) THEN c.st = "ended" /\ told = <<"SUCCESS">>
       ELSE c.st = "waiting" /\ c.at = call[s].at + 1 /\ told = <<>>
    /\ c.owner = IF Handler(s).q \in {"nh_assets", "contract"} THEN current ELSE call[s].owner
    /\ \/ Validates(s) /\ current' = call[s].arg /\ c.by = call[s].arg
       \/ /\ UNCHANGED <<current, savedKeys>>
          /\ ~(LogsIn(s) /\ Handler(s).q = "full_accounts")
          /\ Who(s) = "reply" /\ call[s].at = 1 => c.by = current
          /\ \/ Who(s) = "named"
             \/ Who(s) = "reply" /\ call[s].at = 1
             \/ c.by = call[s].by
    /\ broadcasts' = broadcasts

Signs(s, c, told) ==
    /\ IsWaiting(s) /\ Handler(s).q = "signatures" /\ ~IsLast(s)
    /\ c = [call[s] EXCEPT !.at = @ + 1] /\ told = <<>>
    /\ UNCHANGED <<current, savedKeys>>
    /\ \E a \in Accounts :
          /\ broadcasts' = broadcasts \cup {[slot |-> s, by |-> call[s].by, key |-> a]}
          /\ a = call[s].by \/ <<a, "active">> \in savedKeys

\* A call that waits has told nothing and is at one of the requests of its method.
LEMMA Waiting ==
    ASSUME TypeOK, CallbackFollows, NEW s \in Slots, IsWaiting(s)
    PROVE  /\ answers[s] = <<>> /\ call[s] \in CallRecord
           /\ call[s].m \in AllMethods /\ Fits(call[s].m)
           /\ Len(Steps(s)) \in 1..4 /\ call[s].at \in 1..Len(Steps(s))
           /\ Handler(s) = Steps(s)[call[s].at]
           /\ IsLast(s) <=> call[s].at = Len(Steps(s))
<1>1. /\ answers[s] = <<>> /\ call[s].m \in AllMethods
      /\ call[s].at \in 1..Len(Steps(s))
  BY DEF CallbackFollows, Agrees, IsWaiting, Steps
<1>2. Fits(call[s].m)
  BY <1>1, MethodsFit
<1>3. Len(Steps(s)) \in 1..4
  BY <1>2 DEF Fits, Steps
<1> QED
  BY <1>1, <1>2, <1>3 DEF TypeOK, Steps, Handler, IsLast

\* Where the signatures are asked for, in the last request but one, and what it says of
\* the method.
LEMMA SignsLate ==
    ASSUME TypeOK, CallbackFollows, NEW s \in Slots, IsWaiting(s)
    PROVE  /\ Handler(s).q \in Queries
           /\ Who(s) \in {"nobody", "start", "validated", "reply", "named"}
           /\ Handler(s).q = "signatures" <=>
                 Who(s) # "nobody" /\ call[s].at = Len(Steps(s)) - 1
           /\ Handler(s).q = "broadcast" <=>
                 Who(s) # "nobody" /\ call[s].at = Len(Steps(s))
           /\ Handler(s).q \in {"login", "api_id"} => Who(s) = "nobody"
           /\ Who(s) # "nobody" => Len(Steps(s)) >= 2
           /\ Who(s) \in {"validated", "reply"} => Len(Steps(s)) >= 3
           /\ Who(s) = "validated" => call[s].m = "changePassword"
           /\ call[s].m \notin Leaky =>
                 \A r \in Replies : Handler(s)[r] \in {"go", "fail"}
<1> DEFINE n == Len(Steps(s))
           i == call[s].at
<1>1. /\ Fits(call[s].m) /\ n \in 1..4 /\ i \in 1..n /\ Handler(s) = Steps(s)[i]
  BY Waiting
<1>2. /\ \A j \in 1..n : Steps(s)[j].q \in Queries
      /\ Who(s) \in {"nobody", "start", "validated", "reply", "named"}
      /\ Who(s) = "nobody" => \A j \in 1..n : Steps(s)[j].q \notin {"signatures", "broadcast"}
      /\ Who(s) # "nobody" =>
            /\ n >= 2 /\ Steps(s)[n].q = "broadcast" /\ Steps(s)[n - 1].q = "signatures"
            /\ \A j \in 1..(n - 2) :
                  Steps(s)[j].q \notin {"signatures", "broadcast", "login", "api_id"}
      /\ Who(s) \in {"validated", "reply"} => n >= 3
      /\ Who(s) = "validated" => call[s].m = "changePassword"
      /\ call[s].m \notin Leaky =>
            \A j \in 1..n, r \in Replies : Steps(s)[j][r] \in {"go", "fail"}
  BY <1>1 DEF Fits, Steps, Who
<1>3. i = n \/ i = n - 1 \/ i \in 1..(n - 2)
  BY <1>1
<1> HIDE DEF n, i
<1>4. CASE Who(s) = "nobody"
  BY <1>1, <1>2, <1>4 DEF n, i
<1>5. CASE Who(s) # "nobody"
  <2>1. n \in Nat /\ i \in Nat /\ n # n - 1
    BY <1>1
  <2>2. i \in 1..(n - 2) => i # n /\ i # n - 1
    BY <1>1
  <2> QED
    BY <1>1, <1>2, <1>3, <1>5, <2>1, <2>2 DEF n, i
<1> QED
  BY <1>4, <1>5

\* What is particular to the methods that the session depends on.
LEMMA Particular ==
    /\ Method("login").who = "nobody" /\ Len(Method("login").steps) = 1
    /\ Method("login").steps[1] = query_get_full_accounts
    /\ Method("changePassword").who = "validated" /\ Len(Method("changePassword").steps) = 3
    /\ Method("changePassword").steps[1] = query_get_full_accounts
    /\ Method("nh_transfer_asset").who = "start" /\ Len(Method("nh_transfer_asset").steps) = 4
    /\ Method("nh_transfer_asset").steps[1].q = "account"
    /\ Method("nh_transfer_asset").steps[2].q = "nh_assets"
    /\ query_get_full_accounts.q = "full_accounts"
    /\ \A r \in Replies : query_get_full_accounts[r] = "go" => r \in {"ok", "unfit"}
<1>1. /\ Method("login") = login /\ Method("changePassword") = changePassword
      /\ Method("nh_transfer_asset") = nh_transfer_asset
  BY DEF Method
<1>2. login.who = "nobody" /\ login.steps = <<query_get_full_accounts>>
  BY DEF login, Plain
<1>3. /\ changePassword.who = "validated"
      /\ changePassword.steps = <<query_get_full_accounts, Careful("signatures"),
                                  broadcast_transaction_with_callback>>
  BY OneThenTwo DEF changePassword, Plain, send_operation
<1>4. /\ nh_transfer_asset.who = "start"
      /\ nh_transfer_asset.steps = <<query_get_account_by_name, query_nh_lookup_assets,
                                     Careful("signatures"), broadcast_transaction_with_callback>>
  BY TwoThenTwo DEF nh_transfer_asset, Gated, send_operation
<1>5. /\ query_get_full_accounts.q = "full_accounts"
      /\ query_get_account_by_name.q = "account" /\ query_nh_lookup_assets.q = "nh_assets"
      /\ \A r \in Replies : query_get_full_accounts[r] = "go" => r \in {"ok", "unfit"}
  BY DEF query_get_full_accounts, query_get_account_by_name, query_nh_lookup_assets, Careful,
         Handling, Replies
<1>6. /\ Len(login.steps) = 1 /\ login.steps[1] = query_get_full_accounts
  BY <1>2
<1>7. Len(changePassword.steps) = 3 /\ changePassword.steps[1] = query_get_full_accounts
  BY <1>3
<1>8. /\ Len(nh_transfer_asset.steps) = 4
      /\ nh_transfer_asset.steps[1] = query_get_account_by_name
      /\ nh_transfer_asset.steps[2] = query_nh_lookup_assets
  BY <1>4
<1> QED
  BY <1>1, <1>2, <1>3, <1>4, <1>5, <1>6, <1>7, <1>8, Zenon

\* login and changePassword ask for the account first, and only then.
LEMMA LoginFirst ==
    ASSUME TypeOK, CallbackFollows, NEW s \in Slots, IsWaiting(s), LogsIn(s)
    PROVE  /\ Handler(s).q = "full_accounts" <=> call[s].at = 1
           /\ call[s].at = 1 =>
                 \A r \in Replies : Handler(s)[r] = "go" => r \in {"ok", "unfit"}
<1>1. /\ Len(Steps(s)) \in 1..4 /\ call[s].at \in 1..Len(Steps(s))
      /\ Handler(s) = Steps(s)[call[s].at]
  BY Waiting
<1>2. CASE call[s].m = "login"
  <2>1. call[s].at = 1 /\ Handler(s) = query_get_full_accounts
    BY <1>1, <1>2, Particular DEF Steps
  <2> QED
    BY <2>1, Particular
<1>3. CASE call[s].m = "changePassword"
  <2>1. Len(Steps(s)) = 3 /\ Who(s) = "validated" /\ Steps(s)[1] = query_get_full_accounts
    BY <1>3, Particular DEF Steps, Who
  <2>2. call[s].at = 1 \/ call[s].at = Len(Steps(s)) - 1 \/ call[s].at = Len(Steps(s))
    BY <1>1, <2>1
  <2>3. CASE call[s].at = 1
    <3>1. Handler(s) = query_get_full_accounts
      BY <1>1, <2>1, <2>3
    <3> QED
      BY <2>3, <3>1, Particular
  <2>4. CASE call[s].at # 1
    <3>1. Handler(s).q \in {"signatures", "broadcast"}
      BY <2>1, <2>2, <2>4, SignsLate
    <3> QED
      BY <2>4, <3>1
  <2> QED
    BY <2>3, <2>4
<1> QED
  BY <1>2, <1>3 DEF LogsIn

\* A call that begins.
LEMMA StartForm ==
    ASSUME TypeOK, CallbackFollows, NEW s \in Slots, NEW m \in Methods,
           (\E a \in Names(m) : Start(s, m, a)) \/ StartThrows(s, m)
    PROVE  \E c \in CallRecord, told \in Seq({"SUCCESS", "FAIL"}) :
              Moved(s, c, told) /\ Begins(s, c, told)
<1>1. call \in [Slots -> CallRecord] /\ answers \in [Slots -> Seq({"SUCCESS", "FAIL"})]
      /\ current \in Accounts \cup {NoAccount} /\ m \in AllMethods
  BY ApplicationType DEF TypeOK
<1>2. call[s].st = "unused" /\ answers[s] = <<>>
  BY DEF Start, StartThrows, CallbackFollows, Agrees
<1>3. 1 \in 1..Len(Method(m).steps)
  <2>1. Len(Method(m).steps) \in 1..4
    BY <1>1, MethodsFit DEF Fits
  <2> QED
    BY <2>1
<1>4. /\ answers = [answers EXCEPT ![s] = <<>>] /\ Append(<<>>, "FAIL") = <<"FAIL">>
      /\ <<>> \in Seq({"SUCCESS", "FAIL"}) /\ <<"FAIL">> \in Seq({"SUCCESS", "FAIL"})
  BY <1>1, <1>2
<1>5. ASSUME NEW a \in Names(m), Start(s, m, a)
      PROVE  \E c \in CallRecord, told \in Seq({"SUCCESS", "FAIL"}) :
                Moved(s, c, told) /\ Begins(s, c, told)
  <2> DEFINE by == IF Method(m).who = "start" THEN current ELSE NoAccount
             c == [NoCall EXCEPT !.m = m, !.at = 1, !.arg = a, !.by = by]
             c1 == [c EXCEPT !.st = "waiting"]
             c2 == [c EXCEPT !.st = "ended"]
  <2>1. a \in Accounts \cup {NoAccount}
    BY DEF Names
  <2>2. by \in Accounts \cup {NoAccount} /\ (Method(m).who = "start" => by = current)
    BY <1>1
  <2>3. \/ call' = [call EXCEPT ![s] = c1] /\ answers' = answers
        \/ call' = [call EXCEPT ![s] = c2] /\ Answer(s, "FAIL")
    BY <1>5 DEF Start
  <2> HIDE DEF by
  <2>4. /\ c1 \in CallRecord /\ c1.m = m /\ c1.at = 1 /\ c1.arg = a /\ c1.by = by
        /\ c1.st = "waiting"
        /\ c2 \in CallRecord /\ c2.m = m /\ c2.at = 1 /\ c2.arg = a /\ c2.st = "ended"
    BY <1>1, <2>1, <2>2 DEF NoCall, CallRecord
  <2> HIDE DEF c, c1, c2
  <2>5. Allowed(m, a) /\ UNCHANGED <<current, savedKeys, broadcasts>>
    BY <1>5 DEF Start, session
  <2>6. CASE call' = [call EXCEPT ![s] = c1] /\ answers' = answers
    <3>1. Moved(s, c1, <<>>)
      BY <1>4, <2>6 DEF Moved
    <3>2. Agrees(c1, <<>>)
      <4>1. c1.at \in 1..Len(Method(c1.m).steps)
        BY <1>3, <2>4
      <4> QED
        BY <1>1, <2>4, <4>1 DEF Agrees
    <3>3. Begins(s, c1, <<>>)
      BY <1>1, <1>2, <2>2, <2>4, <2>5, <3>2 DEF Begins
    <3> QED
      BY <1>4, <2>4, <3>1, <3>3, Zenon
  <2>7. CASE call' = [call EXCEPT ![s] = c2] /\ Answer(s, "FAIL")
    <3>1. Moved(s, c2, <<"FAIL">>)
      BY <1>2, <1>4, <2>7 DEF Moved, Answer
    <3>2. Agrees(c2, <<"FAIL">>) /\ <<"FAIL">> # <<"SUCCESS">>
      BY <1>1, <1>3, <2>4 DEF Agrees
    <3>3. Begins(s, c2, <<"FAIL">>)
      BY <1>1, <1>2, <2>4, <2>5, <3>2 DEF Begins
    <3> QED
      BY <1>4, <2>4, <3>1, <3>3, Zenon
  <2> QED
    BY <2>3, <2>6, <2>7
<1>6. ASSUME StartThrows(s, m)
      PROVE  \E c \in CallRecord, told \in Seq({"SUCCESS", "FAIL"}) :
                Moved(s, c, told) /\ Begins(s, c, told)
  <2> DEFINE c == [NoCall EXCEPT !.m = m, !.at = 1, !.st = "ended"]
  <2>1. /\ c \in CallRecord /\ c.m = m /\ c.at = 1 /\ c.arg = NoAccount /\ c.st = "ended"
    BY <1>1 DEF NoCall, CallRecord
  <2>2. /\ m \in Leaky /\ Allowed(m, NoAccount) /\ UNCHANGED <<current, savedKeys, broadcasts>>
        /\ call' = [call EXCEPT ![s] = c] /\ answers' = answers
    BY <1>6 DEF StartThrows, Throws, Leaky, session
  <2> HIDE DEF c
  <2>3. Moved(s, c, <<>>)
    BY <1>4, <2>2 DEF Moved
  <2>4. Agrees(c, <<>>)
    BY <1>1, <2>1, <2>2 DEF Agrees
  <2>5. Begins(s, c, <<>>)
    BY <1>1, <1>2, <2>1, <2>2, <2>4 DEF Begins
  <2> QED
    BY <1>4, <2>1, <2>3, <2>5, Zenon
<1> QED
  BY <1>5, <1>6

\* A chain that ends: the callback is told something, or the method is a leaky one.
LEMMA EndForm ==
    ASSUME TypeOK, CallbackFollows, NEW s \in Slots, IsWaiting(s), End(s),
           broadcasts' = broadcasts, UNCHANGED <<current, savedKeys>> \/ Validates(s),
           \/ answers' = answers /\ call[s].m \in Leaky
           \/ Answer(s, "FAIL")
           \/ Answer(s, "SUCCESS") /\ Who(s) = "nobody"
    PROVE  \E c \in CallRecord, told \in Seq({"SUCCESS", "FAIL"}) :
              Moved(s, c, told) /\ Finishes(s, c, told)
<1> DEFINE c == [call[s] EXCEPT !.st = "ended"]
<1>1. call \in [Slots -> CallRecord] /\ answers \in [Slots -> Seq({"SUCCESS", "FAIL"})]
  BY DEF TypeOK
<1>2. answers[s] = <<>> /\ call[s] \in CallRecord /\ call[s].m \in AllMethods
  BY Waiting
<1>3. /\ c \in CallRecord /\ c.m = call[s].m /\ c.st = "ended"
      /\ call' = [call EXCEPT ![s] = c]
  BY <1>1, <1>2 DEF CallRecord, End
<1>4. PICK told \in {<<>>, <<"FAIL">>, <<"SUCCESS">>} :
        /\ answers' = [answers EXCEPT ![s] = told]
        /\ told = <<>> => call[s].m \in Leaky
        /\ told = <<"SUCCESS">> => Who(s) = "nobody"
  <2>1. /\ Append(<<>>, "FAIL") = <<"FAIL">> /\ Append(<<>>, "SUCCESS") = <<"SUCCESS">>
        /\ answers = [answers EXCEPT ![s] = <<>>] /\ <<"FAIL">> # <<>> /\ <<"SUCCESS">> # <<>>
        /\ <<"FAIL">> # <<"SUCCESS">>
    BY <1>1, <1>2
  <2>2. CASE answers' = answers /\ call[s].m \in Leaky
    BY <2>1, <2>2
  <2>3. CASE Answer(s, "FAIL")
    <3>1. answers' = [answers EXCEPT ![s] = <<"FAIL">>]
      BY <1>2, <2>1, <2>3 DEF Answer
    <3> QED
      BY <2>1, <3>1
  <2>4. CASE Answer(s, "SUCCESS") /\ Who(s) = "nobody"
    <3>1. answers' = [answers EXCEPT ![s] = <<"SUCCESS">>]
      BY <1>2, <2>1, <2>4 DEF Answer
    <3> QED
      BY <2>1, <2>4, <3>1
  <2> QED
    BY <2>2, <2>3, <2>4
<1>5. told \in Seq({"SUCCESS", "FAIL"}) /\ Len(told) <= 1 /\ (told # <<>> => Len(told) = 1)
  <2>1. CASE told = <<>>
    BY <2>1
  <2>2. CASE told = <<"FAIL">>
    BY <2>2
  <2>3. CASE told = <<"SUCCESS">>
    BY <2>3
  <2> QED
    BY <1>4, <2>1, <2>2, <2>3
<1>6. \E st \in {"ended", "undefined"} : c = [call[s] EXCEPT !.st = st]
  OBVIOUS
<1> HIDE DEF c
<1>7. Agrees(c, told)
  BY <1>2, <1>3, <1>4, <1>5 DEF Agrees
<1>8. Moved(s, c, told) /\ Finishes(s, c, told)
  BY <1>3, <1>4, <1>6, <1>7 DEF Moved, Finishes
<1> QED
  BY <1>3, <1>5, <1>8

\* A continuation that runs to the next request, or to the end of its chain.
LEMMA GoOnForm ==
    ASSUME TypeOK, CallbackFollows, NEW s \in Slots, IsWaiting(s),
           NEW c \in CallRecord, GoOn(s, c),
           c.m = call[s].m, c.arg = call[s].arg, c.at = call[s].at, c.st = "waiting",
           Handler(s).q # "signatures",
           c.owner = IF Handler(s).q \in {"nh_assets", "contract"} THEN current ELSE call[s].owner,
           \/ Validates(s) /\ current' = call[s].arg /\ c.by = call[s].arg
           \/ /\ UNCHANGED <<current, savedKeys>>
              /\ ~(LogsIn(s) /\ Handler(s).q = "full_accounts")
              /\ Who(s) = "reply" /\ call[s].at = 1 => c.by = current
              /\ \/ Who(s) = "named"
                 \/ Who(s) = "reply" /\ call[s].at = 1
                 \/ c.by = call[s].by,
           broadcasts' = broadcasts
    PROVE  \E d \in CallRecord, told \in Seq({"SUCCESS", "FAIL"}) :
              Moved(s, d, told) /\ Continues(s, d, told)
<1>1. answers \in [Slots -> Seq({"SUCCESS", "FAIL"})] /\ answers[s] = <<>>
  BY Waiting DEF TypeOK
<1>2. /\ answers = [answers EXCEPT ![s] = <<>>] /\ Append(<<>>, "SUCCESS") = <<"SUCCESS">>
      /\ <<>> \in Seq({"SUCCESS", "FAIL"}) /\ <<"SUCCESS">> \in Seq({"SUCCESS", "FAIL"})
  BY <1>1
<1>3. CASE IsLast(s)
  <2> DEFINE d == [c EXCEPT !.st = "ended"]
  <2>1. /\ d \in CallRecord /\ d.m = c.m /\ d.arg = c.arg /\ d.st = "ended"
        /\ d.owner = c.owner /\ d.by = c.by
    BY DEF CallRecord
  <2>2. call' = [call EXCEPT ![s] = d] /\ answers' = [answers EXCEPT ![s] = <<"SUCCESS">>]
    BY <1>1, <1>2, <1>3, GoOnEffect
  <2> HIDE DEF d
  <2>3. Moved(s, d, <<"SUCCESS">>) /\ Continues(s, d, <<"SUCCESS">>)
    BY <1>3, <2>1, <2>2 DEF Moved, Continues
  <2> QED
    BY <1>2, <2>1, <2>3, Zenon
<1>4. CASE ~IsLast(s)
  <2> DEFINE d == [c EXCEPT !.at = @ + 1]
  <2>1. /\ d \in CallRecord /\ d.m = c.m /\ d.arg = c.arg /\ d.st = "waiting"
        /\ d.owner = c.owner /\ d.by = c.by /\ d.at = call[s].at + 1
    BY DEF CallRecord
  <2>2. call' = [call EXCEPT ![s] = d] /\ answers' = [answers EXCEPT ![s] = <<>>]
    BY <1>1, <1>2, <1>4, GoOnEffect
  <2> HIDE DEF d
  <2>3. Moved(s, d, <<>>) /\ Continues(s, d, <<>>)
    BY <1>4, <2>1, <2>2 DEF Moved, Continues
  <2> QED
    BY <1>2, <2>1, <2>3, Zenon
<1> QED
  BY <1>3, <1>4

\* An answer of the server.
Takes(s, c, told) == Finishes(s, c, told) \/ Continues(s, c, told) \/ Signs(s, c, told)

LEMMA ReplyForm ==
    ASSUME TypeOK, CallbackFollows, NEW s \in Slots, NEW r \in Replies,
           \/ ReplyEnds(s, r) \/ ReplyLiteral(s, r) \/ ReplyInit(s, r)
           \/ ReplyValidate(s, r) \/ ReplySignatures(s, r) \/ ReplyGoesOn(s, r)
    PROVE  \E c \in CallRecord, told \in Seq({"SUCCESS", "FAIL"}) :
              Moved(s, c, told) /\ Takes(s, c, told)
<1> DEFINE Good == \E c \in CallRecord, told \in Seq({"SUCCESS", "FAIL"}) :
                      Moved(s, c, told) /\ Takes(s, c, told)
<1>1. IsWaiting(s)
  BY DEF IsWaiting, ReplyEnds, ReplyLiteral, ReplyInit, ReplyValidate, ReplySignatures,
         ReplyGoesOn, Gets
<1>2. /\ answers \in [Slots -> Seq({"SUCCESS", "FAIL"})] /\ answers[s] = <<>>
      /\ call \in [Slots -> CallRecord] /\ call[s] \in CallRecord
      /\ call[s].st = "waiting" /\ call[s].m \in AllMethods
      /\ current \in Accounts \cup {NoAccount}
  BY <1>1, Waiting DEF TypeOK, IsWaiting
<1>3. call[s].m \notin Leaky => Handler(s)[r] \in {"go", "fail"}
  BY <1>1, SignsLate
<1>4. ASSUME NEW c \in CallRecord, NEW told \in Seq({"SUCCESS", "FAIL"}), Moved(s, c, told),
             Finishes(s, c, told) \/ Continues(s, c, told) \/ Signs(s, c, told)
      PROVE  Good
  BY <1>4 DEF Takes
<1>5. ASSUME End(s), broadcasts' = broadcasts, UNCHANGED <<current, savedKeys>> \/ Validates(s),
             \/ answers' = answers /\ call[s].m \in Leaky
             \/ Answer(s, "FAIL")
             \/ Answer(s, "SUCCESS") /\ Who(s) = "nobody"
      PROVE  Good
  BY <1>1, <1>4, <1>5, EndForm
<1>6. ASSUME ReplyEnds(s, r) PROVE Good
  <2>1. UNCHANGED <<current, savedKeys, broadcasts>>
    BY <1>6 DEF ReplyEnds, session
  <2>2. CASE Handler(s)[r] = "fail"
    BY <1>5, <1>6, <2>1, <2>2 DEF ReplyEnds
  <2>3. CASE Handler(s)[r] = "silent"
    BY <1>3, <1>5, <1>6, <2>1, <2>3 DEF ReplyEnds
  <2>4. CASE Handler(s)[r] = "undefined"
    <3> DEFINE c == [call[s] EXCEPT !.st = "undefined"]
    <3>1. /\ c \in CallRecord /\ c.m = call[s].m /\ c.st = "undefined"
          /\ call' = [call EXCEPT ![s] = c]
      BY <1>2, <1>6, <2>4 DEF ReplyEnds, CallRecord
    <3>2. PICK told \in {<<>>, <<"FAIL", "SUCCESS">>} :
            /\ answers' = [answers EXCEPT ![s] = told]
            /\ told # <<>> => call[s].m = "get_transaction_by_id"
      <4>1. answers = [answers EXCEPT ![s] = <<>>]
        BY <1>2
      <4> QED
        BY <1>6, <2>4, <4>1 DEF ReplyEnds
    <3>3. told \in Seq({"SUCCESS", "FAIL"}) /\ told # <<"SUCCESS">>
      <4>1. /\ <<"FAIL", "SUCCESS">> \in Seq({"SUCCESS", "FAIL"})
            /\ <<"FAIL", "SUCCESS">> # <<"SUCCESS">>
            /\ <<>> \in Seq({"SUCCESS", "FAIL"}) /\ <<>> # <<"SUCCESS">>
        OBVIOUS
      <4> QED
        BY <3>2, <4>1
    <3>4. \E st \in {"ended", "undefined"} : c = [call[s] EXCEPT !.st = st]
      OBVIOUS
    <3> HIDE DEF c
    <3>5. Agrees(c, told)
      BY <1>2, <3>1, <3>2 DEF Agrees
    <3>6. Moved(s, c, told) /\ Finishes(s, c, told)
      BY <1>1, <2>1, <3>1, <3>2, <3>3, <3>4, <3>5 DEF Moved, Finishes
    <3> QED
      BY <1>4, <3>1, <3>3, <3>6
  <2> QED
    BY <1>6, <2>2, <2>3, <2>4 DEF ReplyEnds
<1>7. ASSUME ReplyLiteral(s, r) PROVE Good
  <2>1. UNCHANGED <<current, savedKeys, answers, broadcasts>> /\ End(s) /\ call[s].m \in Leaky
    BY <1>7 DEF ReplyLiteral, session, Leaky
  <2> QED
    BY <1>5, <2>1
<1>8. ASSUME ReplyInit(s, r) PROVE Good
  <2> DEFINE suc == IF Handler(s).q = "login" THEN r = "ok" ELSE call[s].suc
             c == [call[s] EXCEPT !.suc = suc]
  <2>1. /\ UNCHANGED <<current, savedKeys, broadcasts>>
        /\ Handler(s).q \in {"login", "api_id"}
    BY <1>8 DEF ReplyInit, Gets
  <2>2. Who(s) = "nobody"
    BY <1>1, <2>1, SignsLate
  <2>3. \/ End(s) /\ (Answer(s, "SUCCESS") \/ Answer(s, "FAIL"))
        \/ End(s) /\ answers' = answers /\ Handler(s)[r] = "silent"
        \/ GoOn(s, c)
    BY <1>8 DEF ReplyInit
  <2>4. suc \in BOOLEAN
    BY <1>2 DEF CallRecord
  <2> HIDE DEF suc
  <2>5. /\ c \in CallRecord /\ c.m = call[s].m /\ c.arg = call[s].arg /\ c.at = call[s].at
        /\ c.st = "waiting" /\ c.owner = call[s].owner /\ c.by = call[s].by
    BY <1>2, <2>4 DEF CallRecord
  <2> HIDE DEF c
  <2>6. CASE GoOn(s, c)
    <3>1. \E d \in CallRecord, told \in Seq({"SUCCESS", "FAIL"}) :
              Moved(s, d, told) /\ Continues(s, d, told)
      <4>1. /\ Handler(s).q # "signatures" /\ Handler(s).q # "full_accounts"
            /\ Handler(s).q \notin {"nh_assets", "contract"}
        BY <2>1
      <4> QED
        BY <1>1, <2>1, <2>2, <2>5, <2>6, <4>1, GoOnForm
    <3> QED
      BY <1>4, <3>1
  <2> QED
    BY <1>3, <1>5, <2>1, <2>2, <2>3, <2>6
<1>9. ASSUME ReplyValidate(s, r) PROVE Good
  <2>1. /\ LogsIn(s) /\ Handler(s).q = "full_accounts" /\ Handler(s)[r] = "go"
        /\ broadcasts' = broadcasts
    BY <1>9 DEF ReplyValidate, Gets, LogsIn
  <2>2. r \in {"ok", "unfit"}
    BY <1>1, <2>1, LoginFirst
  <2>3. CASE r = "ok"
    <3>1. current' = call[s].arg
      BY <1>9, <2>3 DEF ReplyValidate
    <3>2. /\ \E match \in SUBSET Roles : savedKeys' = savedKeys \cup ({call[s].arg} \X match)
          /\ (End(s) /\ Answer(s, "FAIL")) \/ GoOn(s, [call[s] EXCEPT !.by = current'])
      BY <1>9, <2>3 DEF ReplyValidate
    <3>3. Validates(s)
      BY <2>1, <3>1, <3>2 DEF Validates
    <3> DEFINE c == [call[s] EXCEPT !.by = call[s].arg]
    <3>4. /\ c \in CallRecord /\ c.m = call[s].m /\ c.arg = call[s].arg /\ c.at = call[s].at
          /\ c.st = "waiting" /\ c.owner = call[s].owner /\ c.by = call[s].arg
      BY <1>2 DEF CallRecord
    <3>5. GoOn(s, [call[s] EXCEPT !.by = current']) => GoOn(s, c)
      BY <3>1
    <3> HIDE DEF c
    <3>6. CASE GoOn(s, c)
      <4>1. /\ Handler(s).q # "signatures" /\ Handler(s).q \notin {"nh_assets", "contract"}
        BY <2>1
      <4>2. \E d \in CallRecord, told \in Seq({"SUCCESS", "FAIL"}) :
                Moved(s, d, told) /\ Continues(s, d, told)
        BY <1>1, <2>1, <3>1, <3>3, <3>4, <3>6, <4>1, GoOnForm
      <4> QED
        BY <1>4, <4>2
    <3> QED
      BY <1>5, <2>1, <3>2, <3>3, <3>5, <3>6
  <2>4. CASE r = "unfit"
    <3>1. /\ current' = NoAccount /\ call[s].arg \notin {k[1] : k \in savedKeys}
          /\ End(s) /\ Answer(s, "FAIL")
          /\ savedKeys' = savedKeys \cup ({call[s].arg} \X {})
      BY <1>9, <2>4 DEF ReplyValidate
    <3>2. savedKeys' = savedKeys
      BY <3>1
    <3>3. Validates(s)
      BY <2>1, <3>1, <3>2 DEF Validates
    <3> QED
      BY <1>5, <2>1, <3>1, <3>3
  <2> QED
    BY <2>2, <2>3, <2>4
<1>10. ASSUME ReplySignatures(s, r) PROVE Good
  <2>1. Handler(s).q = "signatures" /\ UNCHANGED <<current, savedKeys>>
    BY <1>10 DEF ReplySignatures, Gets, session
  <2>2. PICK pkeys \in SUBSET ({call[s].by} \X {"owner", "active"}) :
          LET opk == IF pkeys = {} THEN FirstActive
                     ELSE {k[1] : k \in pkeys \cap savedKeys}
          IN  IF opk = {}
              THEN End(s) /\ Answer(s, "FAIL") /\ UNCHANGED broadcasts
              ELSE \E a \in opk :
                      /\ broadcasts' = broadcasts
                            \cup {[slot |-> s, by |-> call[s].by, key |-> a]}
                      /\ GoOn(s, call[s])
    BY <1>10 DEF ReplySignatures
  <2>3. \A k \in pkeys \cap savedKeys : k[1] = call[s].by /\ k[1] \in Accounts
    BY DEF TypeOK
  <2>4. \A a \in FirstActive : a \in Accounts /\ <<a, "active">> \in savedKeys
    BY FirstActiveType
  <2>5. \/ End(s) /\ Answer(s, "FAIL") /\ UNCHANGED broadcasts
        \/ \E a \in Accounts :
              /\ broadcasts' = broadcasts \cup {[slot |-> s, by |-> call[s].by, key |-> a]}
              /\ a = call[s].by \/ <<a, "active">> \in savedKeys
              /\ GoOn(s, call[s])
    BY <2>2, <2>3, <2>4
  <2>6. CASE \E a \in Accounts :
              /\ broadcasts' = broadcasts \cup {[slot |-> s, by |-> call[s].by, key |-> a]}
              /\ a = call[s].by \/ <<a, "active">> \in savedKeys
              /\ GoOn(s, call[s])
    <3> DEFINE c == [call[s] EXCEPT !.at = @ + 1]
    <3>1. ~IsLast(s)
      BY <1>1, <2>1, SignsLate, Waiting
    <3>2. c \in CallRecord
      <4>1. call[s] \in CallRecord
        BY <1>2
      <4> QED
        BY <4>1 DEF CallRecord
    <3>3. call' = [call EXCEPT ![s] = c] /\ answers' = answers
      BY <2>6, <3>1, GoOnEffect
    <3> HIDE DEF c
    <3>4. Moved(s, c, <<>>)
      BY <1>2, <3>3 DEF Moved
    <3>5. Signs(s, c, <<>>)
      BY <1>1, <2>1, <2>6, <3>1 DEF Signs, c
    <3>6. <<>> \in Seq({"SUCCESS", "FAIL"})
      OBVIOUS
    <3> QED
      BY <1>4, <3>2, <3>4, <3>5, <3>6
  <2> QED
    BY <1>5, <2>1, <2>5, <2>6
<1>11. ASSUME ReplyGoesOn(s, r) PROVE Good
  <2>1. /\ UNCHANGED <<current, savedKeys, broadcasts>> /\ Handler(s).q # "signatures"
        /\ ~(LogsIn(s) /\ Handler(s).q = "full_accounts")
    BY <1>11 DEF ReplyGoesOn, Gets, LogsIn
  <2>2. PICK issuer \in Accounts \cup {NoAccount} :
          LET c == call[s]
              who == Method(c.m).who
          IN  GoOn(s, [c EXCEPT
                  !.by = CASE who = "reply" /\ c.at = 1 -> current
                           [] who = "named" /\ c.at = 1 -> issuer
                           [] OTHER -> @,
                  !.owner = IF Handler(s).q \in {"nh_assets", "contract"}
                            THEN current ELSE @])
    BY <1>11 DEF ReplyGoesOn
  <2> DEFINE by == CASE Who(s) = "reply" /\ call[s].at = 1 -> current
                     [] Who(s) = "named" /\ call[s].at = 1 -> issuer
                     [] OTHER -> call[s].by
             owner == IF Handler(s).q \in {"nh_assets", "contract"}
                      THEN current ELSE call[s].owner
             c == [call[s] EXCEPT !.by = by, !.owner = owner]
  <2>3. GoOn(s, c)
    BY <1>2, <2>2 DEF Who
  <2>4. /\ by \in Accounts \cup {NoAccount} /\ owner \in Accounts \cup {NoAccount}
        /\ Who(s) = "reply" /\ call[s].at = 1 => by = current
        /\ \/ Who(s) = "named"
           \/ Who(s) = "reply" /\ call[s].at = 1
           \/ by = call[s].by
    BY <1>2 DEF CallRecord
  <2>5. owner = IF Handler(s).q \in {"nh_assets", "contract"} THEN current ELSE call[s].owner
    OBVIOUS
  <2> HIDE DEF by, owner
  <2>6. /\ c \in CallRecord /\ c.m = call[s].m /\ c.arg = call[s].arg /\ c.at = call[s].at
        /\ c.st = "waiting" /\ c.owner = owner /\ c.by = by
    BY <1>2, <2>4 DEF CallRecord
  <2> HIDE DEF c
  <2>7. \E d \in CallRecord, told \in Seq({"SUCCESS", "FAIL"}) :
            Moved(s, d, told) /\ Continues(s, d, told)
    BY <1>1, <2>1, <2>3, <2>4, <2>5, <2>6, GoOnForm
  <2> QED
    BY <1>4, <2>7
<1> QED
  BY <1>6, <1>7, <1>8, <1>9, <1>10, <1>11

\* Every step of the specification has one of these forms, or leaves the calls alone; then
\* keys can only be forgotten.
LEMMA Forms ==
    ASSUME TypeOK, CallbackFollows, [Next]_vars
    PROVE  \/ UNCHANGED <<call, answers, broadcasts, current>> /\ savedKeys' \subseteq savedKeys
           \/ \E s \in Slots, c \in CallRecord, told \in Seq({"SUCCESS", "FAIL"}) :
                 Moved(s, c, told) /\ (Begins(s, c, told) \/ Takes(s, c, told))
<1> DEFINE Good == \/ /\ UNCHANGED <<call, answers, broadcasts, current>>
                      /\ savedKeys' \subseteq savedKeys
                   \/ \E s \in Slots, c \in CallRecord, told \in Seq({"SUCCESS", "FAIL"}) :
                         Moved(s, c, told) /\ (Begins(s, c, told) \/ Takes(s, c, told))
<1>1. ASSUME NEW s \in Slots, NEW m \in Methods,
             (\E a \in Names(m) : Start(s, m, a)) \/ StartThrows(s, m)
      PROVE  Good
  BY <1>1, StartForm
<1>2. ASSUME NEW s \in Slots, NEW r \in Replies,
             \/ ReplyEnds(s, r) \/ ReplyLiteral(s, r) \/ ReplyInit(s, r)
             \/ ReplyValidate(s, r) \/ ReplySignatures(s, r) \/ ReplyGoesOn(s, r)
      PROVE  Good
  BY <1>2, ReplyForm
<1>3. ASSUME logout \/ TimerDgpo \/ (\E x \in asked, r \in Replies : ReplyAsked(x, r))
      PROVE  Good
  BY <1>3 DEF logout, TimerDgpo, ReplyAsked
<1>4. ASSUME UNCHANGED vars PROVE Good
  BY <1>4 DEF vars, session
<1> HIDE DEF Good
<1>5. Good
  BY <1>1, <1>2, <1>3, <1>4 DEF Next
<1> QED
  BY <1>5 DEF Good

-----------------------------------------------------------------------------
(***************************************************************************)
(* The inductive invariant.                                                *)
(***************************************************************************)

\* What a step of one call leaves of the others.
LEMMA OthersKept ==
    ASSUME TypeOK, NEW s \in Slots, NEW c \in CallRecord,
           NEW told \in Seq({"SUCCESS", "FAIL"}), Moved(s, c, told)
    PROVE  /\ call'[s] = c /\ answers'[s] = told
           /\ \A t \in Slots : t # s => call'[t] = call[t] /\ answers'[t] = answers[t]
  BY DEF TypeOK, Moved

\* Every step keeps what a callback is told in line with its chain.
LEMMA CallbackFollowsStep ==
    ASSUME TypeOK, CallbackFollows, [Next]_vars
    PROVE  CallbackFollows'
<1>1. Slots' = Slots
  BY SameApplication
<1>2. CASE UNCHANGED <<call, answers>>
  BY <1>1, <1>2 DEF CallbackFollows
<1>3. ASSUME NEW s \in Slots, NEW c \in CallRecord, NEW told \in Seq({"SUCCESS", "FAIL"}),
             Moved(s, c, told), Begins(s, c, told) \/ Takes(s, c, told)
      PROVE  CallbackFollows'
  <2>1. Agrees(c, told)
    <3>1. CASE Begins(s, c, told) \/ Finishes(s, c, told)
      BY <3>1 DEF Begins, Finishes
    <3>2. CASE Continues(s, c, told)
      <4>1. IsWaiting(s) /\ c.m = call[s].m
        BY <3>2 DEF Continues
      <4>2. /\ c.m \in AllMethods /\ Len(Method(c.m).steps) \in 1..4
            /\ call[s].at \in 1..Len(Method(c.m).steps)
            /\ IsLast(s) <=> call[s].at = Len(Method(c.m).steps)
        BY <4>1, Waiting DEF Steps
      <4>3. CASE IsLast(s)
        <5>1. c.st = "ended" /\ told = <<"SUCCESS">>
          BY <3>2, <4>3 DEF Continues
        <5>2. Len(told) = 1
          BY <5>1
        <5> QED
          BY <4>2, <5>1, <5>2 DEF Agrees
      <4>4. CASE ~IsLast(s)
        <5>1. c.st = "waiting" /\ c.at = call[s].at + 1 /\ told = <<>>
          BY <3>2, <4>4 DEF Continues
        <5>2. c.at \in 1..Len(Method(c.m).steps)
          BY <4>2, <4>4, <5>1
        <5> QED
          BY <4>2, <5>1, <5>2 DEF Agrees
      <4> QED
        BY <4>3, <4>4
    <3>3. CASE Signs(s, c, told)
      <4>1. IsWaiting(s) /\ ~IsLast(s) /\ c = [call[s] EXCEPT !.at = @ + 1] /\ told = <<>>
        BY <3>3 DEF Signs
      <4>2. /\ call[s] \in CallRecord /\ call[s].st = "waiting"
            /\ call[s].m \in AllMethods /\ Len(Method(call[s].m).steps) \in 1..4
            /\ call[s].at \in 1..Len(Method(call[s].m).steps)
            /\ call[s].at # Len(Method(call[s].m).steps)
        BY <4>1, Waiting DEF Steps, IsWaiting
      <4>3. c.m = call[s].m /\ c.at = call[s].at + 1 /\ c.st = "waiting"
        BY <4>1, <4>2 DEF CallRecord
      <4>4. c.at \in 1..Len(Method(c.m).steps)
        BY <4>2, <4>3
      <4> QED
        BY <4>1, <4>2, <4>3, <4>4 DEF Agrees
    <3> QED
      BY <1>3, <3>1, <3>2, <3>3 DEF Takes
  <2>2. \A t \in Slots : Agrees(call'[t], answers'[t])
    BY <1>3, <2>1, OthersKept DEF CallbackFollows
  <2> QED
    BY <1>1, <2>2 DEF CallbackFollows, Agrees
<1> QED
  BY <1>2, <1>3, Forms

\* Every step keeps the order of sending and reporting: the operation of a call that
\* waits for its confirmation has been sent, and so has one that reports SUCCESS.
LEMMA SentStep ==
    ASSUME TypeOK, CallbackFollows, SentByLast, SuccessIsSent, [Next]_vars
    PROVE  SentByLast' /\ SuccessIsSent'
<1>1. Slots' = Slots /\ broadcasts \subseteq [slot : Slots, by : Accounts \cup {NoAccount}, key : Accounts]
  BY SameApplication DEF TypeOK
<1>2. CASE UNCHANGED <<call, answers, broadcasts>>
  BY <1>1, <1>2 DEF SentByLast, SuccessIsSent, IsWaiting, Who, Steps
<1>3. ASSUME NEW s \in Slots, NEW c \in CallRecord, NEW told \in Seq({"SUCCESS", "FAIL"}),
             Moved(s, c, told), Begins(s, c, told) \/ Takes(s, c, told)
      PROVE  SentByLast' /\ SuccessIsSent'
  <2> DEFINE who == Method(c.m).who
             n == Len(Method(c.m).steps)
             Sent == \E b \in broadcasts' : b.slot = s
  <2>1. /\ call'[s] = c /\ answers'[s] = told
        /\ \A t \in Slots : t # s => call'[t] = call[t] /\ answers'[t] = answers[t]
    BY <1>3, OthersKept
  <2>2. broadcasts \subseteq broadcasts' /\ \A b \in broadcasts' : b \in broadcasts \/ b.slot = s
    <3>1. CASE broadcasts' = broadcasts
      BY <3>1
    <3>2. CASE Signs(s, c, told)
      <4>1. PICK a \in Accounts :
              broadcasts' = broadcasts \cup {[slot |-> s, by |-> call[s].by, key |-> a]}
        BY <3>2 DEF Signs
      <4>2. [slot |-> s, by |-> call[s].by, key |-> a].slot = s
        OBVIOUS
      <4> QED
        BY <4>1, <4>2
    <3> QED
      BY <1>3, <3>1, <3>2 DEF Begins, Takes, Finishes, Continues
  <2>3. /\ c.st = "waiting" /\ who # "nobody" /\ c.at = n => Sent
        /\ Sent => c.st # "unused" /\ who # "nobody" /\ (c.st = "waiting" => c.at = n)
        /\ told = <<"SUCCESS">> /\ who # "nobody" => Sent
    <3>1. CASE Begins(s, c, told)
      <4>1. c.m \in AllMethods /\ c.at = 1 /\ told # <<"SUCCESS">> /\ broadcasts' = broadcasts
        BY <3>1 DEF Begins
      <4>2. ~Sent
        BY <3>1, <4>1 DEF Begins, SentByLast
      <4>3. Fits(c.m)
        BY <4>1, MethodsFit
      <4>4. n \in 1..4 /\ (who # "nobody" => n >= 2)
        BY <4>3 DEF Fits
      <4> HIDE DEF Sent, who, n
      <4>5. c.at = 1
        BY <4>1
      <4>6. who # "nobody" => c.at # n
        BY <4>4, <4>5
      <4> QED
        BY <4>1, <4>2, <4>6
    <3>2. CASE Finishes(s, c, told)
      <4>1. PICK st \in {"ended", "undefined"} : c = [call[s] EXCEPT !.st = st]
        BY <3>2 DEF Finishes
      <4>2. c.st = st /\ c.m = call[s].m
        BY <4>1 DEF TypeOK, CallRecord
      <4>3. told = <<"SUCCESS">> => who = "nobody"
        BY <3>2, <4>2 DEF Finishes, Who
      <4>4. Sent => who # "nobody"
        BY <3>2, <4>2 DEF Finishes, SentByLast, Who
      <4> QED
        BY <4>2, <4>3, <4>4
    <3>3. CASE Continues(s, c, told)
      <4>1. /\ IsWaiting(s) /\ c.m = call[s].m /\ Handler(s).q # "signatures"
            /\ broadcasts' = broadcasts
        BY <3>3 DEF Continues
      <4>2. /\ n = Len(Steps(s)) /\ who = Who(s) /\ n \in 1..4 /\ call[s].at \in 1..n
            /\ IsLast(s) <=> call[s].at = n
        BY <4>1, Waiting DEF Steps, Who
      <4>3. Who(s) # "nobody" => call[s].at # Len(Steps(s)) - 1
        BY <4>1, SignsLate
      <4>4. /\ who # "nobody" /\ call[s].at = n => Sent
            /\ Sent => who # "nobody" /\ call[s].at = n
        BY <4>1, <4>2 DEF SentByLast
      <4>5. CASE IsLast(s)
        <5>1. c.st = "ended"
          BY <3>3, <4>5 DEF Continues
        <5> QED
          BY <4>2, <4>4, <4>5, <5>1
      <4>6. CASE ~IsLast(s)
        <5>1. c.st = "waiting" /\ c.at = call[s].at + 1 /\ told = <<>>
          BY <3>3, <4>6 DEF Continues
        <5>2. told # <<"SUCCESS">> /\ (who # "nobody" => c.at # n)
          BY <4>2, <4>3, <5>1
        <5> QED
          BY <4>2, <4>4, <4>6, <5>1, <5>2
      <4> QED
        BY <4>5, <4>6
    <3>4. CASE Signs(s, c, told)
      <4>1. /\ IsWaiting(s) /\ Handler(s).q = "signatures" /\ told = <<>>
            /\ c = [call[s] EXCEPT !.at = @ + 1]
        BY <3>4 DEF Signs
      <4>2. c.m = call[s].m /\ c.at = call[s].at + 1 /\ c.st = "waiting"
        BY <4>1 DEF TypeOK, CallRecord, IsWaiting
      <4>3. Who(s) # "nobody" /\ call[s].at = Len(Steps(s)) - 1 /\ Len(Steps(s)) \in 1..4
        BY <4>1, SignsLate, Waiting
      <4>4. who # "nobody" /\ c.at = n
        BY <4>2, <4>3 DEF Steps, Who
      <4>5. Sent
        <5>1. PICK a \in Accounts :
                broadcasts' = broadcasts \cup {[slot |-> s, by |-> call[s].by, key |-> a]}
          BY <3>4 DEF Signs
        <5>2. [slot |-> s, by |-> call[s].by, key |-> a].slot = s
          OBVIOUS
        <5> QED
          BY <5>1, <5>2
      <4> QED
        BY <4>2, <4>4, <4>5
    <3> QED
      BY <1>3, <3>1, <3>2, <3>3, <3>4 DEF Takes
  <2> HIDE DEF Sent
  <2>4. \A b \in broadcasts : b.slot \in Slots
    BY <1>1
  <2>5. ASSUME NEW t \in Slots, call'[t].st = "waiting", Method(call'[t].m).who # "nobody",
               call'[t].at = Len(Method(call'[t].m).steps)
        PROVE  \E b \in broadcasts' : b.slot = t
    <3>1. CASE t = s
      BY <2>1, <2>3, <2>5, <3>1 DEF Sent
    <3>2. CASE t # s
      <4>1. call'[t] = call[t]
        BY <2>1, <3>2
      <4>2. \E b \in broadcasts : b.slot = t
        BY <2>5, <4>1 DEF SentByLast, IsWaiting, Who, Steps
      <4> QED
        BY <2>2, <4>2
    <3> QED
      BY <3>1, <3>2
  <2>6. ASSUME NEW b \in broadcasts'
        PROVE  /\ call'[b.slot].st # "unused" /\ Method(call'[b.slot].m).who # "nobody"
               /\ call'[b.slot].st = "waiting" =>
                     call'[b.slot].at = Len(Method(call'[b.slot].m).steps)
    <3>1. CASE b.slot = s
      BY <2>1, <2>3, <3>1 DEF Sent
    <3>2. CASE b.slot # s
      <4>1. b \in broadcasts /\ b.slot \in Slots /\ call'[b.slot] = call[b.slot]
        BY <2>1, <2>2, <2>4, <3>2
      <4> QED
        BY <4>1 DEF SentByLast, IsWaiting, Who, Steps
    <3> QED
      BY <3>1, <3>2
  <2>7. ASSUME NEW t \in Slots, answers'[t] = <<"SUCCESS">>, Method(call'[t].m).who # "nobody"
        PROVE  \E b \in broadcasts' : b.slot = t
    <3>1. CASE t = s
      BY <2>1, <2>3, <2>7, <3>1 DEF Sent
    <3>2. CASE t # s
      <4>1. call'[t] = call[t] /\ answers'[t] = answers[t]
        BY <2>1, <3>2
      <4>2. \E b \in broadcasts : b.slot = t
        BY <2>7, <4>1 DEF SuccessIsSent
      <4> QED
        BY <2>2, <4>2
    <3> QED
      BY <3>1, <3>2
  <2>8. SentByLast'
    BY <1>1, <2>5, <2>6 DEF SentByLast, IsWaiting, Who, Steps
  <2>9. SuccessIsSent'
    BY <1>1, <2>7 DEF SuccessIsSent
  <2> QED
    BY <2>8, <2>9
<1> QED
  BY <1>2, <1>3, Forms

\* What a call that waits has to do with the session: login and changePassword are for
\* the account that is logged in, if any, an operation that knows its account is for the
\* current one, and so is the asset that nh_transfer_asset sends away.
InSession(c, cur, keys) ==
    /\ c.m \in {"login", "changePassword"} /\ c.at = 1 /\ keys # {} => c.arg = cur
    /\ Method(c.m).who = "start" \/ (Method(c.m).who \in {"reply", "validated"} /\ c.at > 1)
         => c.by = cur
    /\ c.m = "nh_transfer_asset" /\ c.at > 2 => c.owner = c.by

LEMMA OneSessionSays ==
    OneSession <=>
      /\ \A k \in savedKeys : k[1] = current
      /\ \A s, t \in Slots : IsWaiting(s) /\ LogsIn(s) /\ IsWaiting(t) => s = t
      /\ \A s \in Slots : IsWaiting(s) => InSession(call[s], current, savedKeys)
  BY DEF OneSession, InSession, LogsIn, Who, isLogin

\* Before its transaction is signed a call has its account, the current one, and
\* nh_transfer_asset has compared it with the owner.
LEMMA SignerKnown ==
    ASSUME TypeOK, CallbackFollows, SessionFollows, NEW s \in Slots, IsWaiting(s),
           Handler(s).q = "signatures"
    PROVE  /\ call[s].m = "changePassword" => call[s].by = call[s].arg
           /\ Disciplined =>
                 /\ Who(s) # "named" => call[s].by = current
                 /\ call[s].m = "nh_transfer_asset" => call[s].owner = call[s].by
<1>1. /\ Who(s) \in {"start", "validated", "reply", "named"}
      /\ Len(Steps(s)) \in 1..4 /\ call[s].at = Len(Steps(s)) - 1
      /\ Who(s) \in {"validated", "reply"} => Len(Steps(s)) >= 3
  BY SignsLate, Waiting
<1>2. /\ call[s].m = "changePassword" => Who(s) = "validated"
      /\ call[s].m = "nh_transfer_asset" => Who(s) = "start" /\ Len(Steps(s)) = 4
  BY Particular DEF Who, Steps
<1>3. /\ Who(s) \in {"validated", "reply"} => call[s].at > 1
      /\ call[s].m = "nh_transfer_asset" => call[s].at > 2
  BY <1>1, <1>2
<1>4. call[s].m = "changePassword" => call[s].by = call[s].arg
  BY <1>2, <1>3 DEF SessionFollows
<1>5. ASSUME Disciplined
      PROVE  /\ Who(s) # "named" => call[s].by = current
             /\ call[s].m = "nh_transfer_asset" => call[s].owner = call[s].by
  <2>1. InSession(call[s], current, savedKeys)
    BY <1>5, OneSessionSays DEF SessionFollows
  <2> QED
    BY <1>1, <1>3, <2>1 DEF InSession, Who
<1> QED
  BY <1>4, <1>5

\* What was sent for a call does not lose its account: the call is at its end.
LEMMA SentKept ==
    ASSUME TypeOK, CallbackFollows, SentByLast,
           NEW s \in Slots, NEW c \in CallRecord, NEW told \in Seq({"SUCCESS", "FAIL"}),
           Moved(s, c, told), Begins(s, c, told) \/ Takes(s, c, told),
           NEW b \in broadcasts
    PROVE  /\ call'[b.slot].m = call[b.slot].m /\ call'[b.slot].arg = call[b.slot].arg
           /\ call'[b.slot].owner = call[b.slot].owner
<1>1. b.slot \in Slots
  BY DEF TypeOK
<1>2. /\ call'[s] = c
      /\ \A t \in Slots : t # s => call'[t] = call[t]
  BY OthersKept
<1>3. CASE b.slot # s
  BY <1>1, <1>2, <1>3
<1>4. CASE b.slot = s
  <2>1. call[s].st # "unused" /\ Who(s) # "nobody" /\ (IsWaiting(s) => call[s].at = Len(Steps(s)))
    BY <1>4 DEF SentByLast
  <2>2. CASE Finishes(s, c, told)
    <3>1. PICK st \in {"ended", "undefined"} : c = [call[s] EXCEPT !.st = st]
      BY <2>2 DEF Finishes
    <3>2. c.m = call[s].m /\ c.arg = call[s].arg /\ c.owner = call[s].owner
      BY <3>1 DEF TypeOK, CallRecord
    <3> QED
      BY <1>2, <1>4, <3>2
  <2>3. CASE Continues(s, c, told)
    <3>1. IsWaiting(s)
      BY <2>3 DEF Continues
    <3>2. Handler(s).q = "broadcast"
      BY <2>1, <3>1, SignsLate
    <3>3. c.m = call[s].m /\ c.arg = call[s].arg /\ c.owner = call[s].owner
      BY <2>3, <3>2 DEF Continues
    <3> QED
      BY <1>2, <1>4, <3>3
  <2>4. CASE Signs(s, c, told)
    <3>1. c = [call[s] EXCEPT !.at = @ + 1]
      BY <2>4 DEF Signs
    <3>2. c.m = call[s].m /\ c.arg = call[s].arg /\ c.owner = call[s].owner
      BY <3>1 DEF TypeOK, CallRecord
    <3> QED
      BY <1>2, <1>4, <3>2
  <2> QED
    BY <2>1, <2>2, <2>3, <2>4 DEF Takes, Begins
<1> QED
  BY <1>3, <1>4

\* Every step keeps that changePassword is for the account whose password it checked.
LEMMA ValidatedStep ==
    ASSUME TypeOK, CallbackFollows, SessionFollows,
           NEW s \in Slots, NEW c \in CallRecord, NEW told \in Seq({"SUCCESS", "FAIL"}),
           Begins(s, c, told) \/ Takes(s, c, told)
    PROVE  c.st = "waiting" /\ c.m = "changePassword" /\ c.at > 1 => c.by = c.arg
<1> SUFFICES ASSUME c.st = "waiting", c.m = "changePassword", c.at > 1
             PROVE  c.by = c.arg
  OBVIOUS
<1>1. CASE Begins(s, c, told)
  BY <1>1 DEF Begins
<1>2. CASE Finishes(s, c, told)
  <2>1. c.st # "waiting"
    BY <1>2 DEF Finishes, TypeOK, CallRecord
  <2> QED
    BY <2>1
<1>3. CASE Continues(s, c, told)
  <2>1. IsWaiting(s) /\ call[s].m = "changePassword" /\ c.arg = call[s].arg /\ LogsIn(s)
        /\ Who(s) = "validated"
    BY <1>3, Particular DEF Continues, LogsIn, Who
  <2>2. call[s].at \in Nat /\ (Handler(s).q # "full_accounts" => call[s].at > 1)
    <3>1. Len(Steps(s)) \in 1..4 /\ call[s].at \in 1..Len(Steps(s))
      BY <2>1, Waiting
    <3> QED
      BY <2>1, <3>1, LoginFirst
  <2>3. c.by = call[s].arg \/ (Handler(s).q # "full_accounts" /\ c.by = call[s].by)
    BY <1>3, <2>1 DEF Continues
  <2> QED
    BY <2>1, <2>2, <2>3 DEF SessionFollows
<1>4. CASE Signs(s, c, told)
  <2>1. IsWaiting(s) /\ Handler(s).q = "signatures" /\ c = [call[s] EXCEPT !.at = @ + 1]
    BY <1>4 DEF Signs
  <2>2. c.m = call[s].m /\ c.arg = call[s].arg /\ c.by = call[s].by
    BY <2>1 DEF TypeOK, CallRecord
  <2> QED
    BY <2>1, <2>2, SignerKnown
<1> QED
  BY <1>1, <1>2, <1>3, <1>4 DEF Takes

\* Every step keeps the session that of every call that waits, for an application that
\* logs in and out between its other calls only.
LEMMA OneSessionStep ==
    ASSUME TypeOK, CallbackFollows, SessionFollows, Disciplined, Disciplined', Slots' = Slots,
           NEW s \in Slots, NEW c \in CallRecord, NEW told \in Seq({"SUCCESS", "FAIL"}),
           Moved(s, c, told), Begins(s, c, told) \/ Takes(s, c, told)
    PROVE  OneSession'
<1>1. /\ \A k \in savedKeys : k[1] = current
      /\ \A t, u \in Slots : IsWaiting(t) /\ LogsIn(t) /\ IsWaiting(u) => t = u
      /\ \A t \in Slots : IsWaiting(t) => InSession(call[t], current, savedKeys)
  BY OneSessionSays DEF SessionFollows
<1>2. /\ call'[s] = c
      /\ \A t \in Slots : t # s => call'[t] = call[t]
  BY OthersKept
<1>3. SUFFICES
        /\ \A k \in savedKeys' : k[1] = current'
        /\ \A t, u \in Slots :
              (call'[t].st = "waiting" /\ call'[u].st = "waiting" /\ t # u)
              => call'[t].m \notin {"login", "changePassword"}
        /\ \A t \in Slots : call'[t].st = "waiting" =>
              InSession(call'[t], current', savedKeys')
  BY DEF OneSession, InSession, LogsIn, Who, isLogin, IsWaiting
<1>4. ASSUME IsWaiting(s), Validates(s), Finishes(s, c, told) \/ Continues(s, c, told)
      PROVE  /\ \A k \in savedKeys' : k[1] = current'
             /\ \A t \in Slots : call'[t].st = "waiting" => t = s
             /\ c.st = "waiting" => InSession(c, current', savedKeys')
  <2>1. LogsIn(s) /\ Handler(s).q = "full_accounts" /\ call[s].at = 1
    BY <1>4, LoginFirst DEF Validates
  <2>2. savedKeys # {} => call[s].arg = current
    BY <1>1, <1>4, <2>1 DEF InSession, LogsIn
  <2>3. \A k \in savedKeys' : k[1] = current'
    <3>1. CASE /\ current' = call[s].arg
               /\ \E match \in SUBSET Roles : savedKeys' = savedKeys \cup ({call[s].arg} \X match)
      <4>1. \A k \in savedKeys : k[1] = call[s].arg
        BY <1>1, <2>2
      <4>2. PICK match \in SUBSET Roles : savedKeys' = savedKeys \cup ({call[s].arg} \X match)
        BY <3>1
      <4>3. \A k \in {call[s].arg} \X match : k[1] = call[s].arg
        OBVIOUS
      <4> QED
        BY <3>1, <4>1, <4>2, <4>3
    <3>2. CASE savedKeys' = savedKeys /\ call[s].arg \notin {k[1] : k \in savedKeys}
      <4>1. savedKeys = {}
        BY <1>1, <2>2, <3>2
      <4> QED
        BY <3>2, <4>1
    <3> QED
      BY <1>4, <3>1, <3>2 DEF Validates
  <2>4. \A t \in Slots : call'[t].st = "waiting" => t = s
    BY <1>1, <1>2, <1>4, <2>1 DEF IsWaiting
  <2>5. ASSUME c.st = "waiting" PROVE InSession(c, current', savedKeys')
    <3>1. Continues(s, c, told)
      <4>1. ~Finishes(s, c, told)
        BY <2>5 DEF Finishes, TypeOK, CallRecord
      <4> QED
        BY <1>4, <4>1
    <3>2. /\ c.m = call[s].m /\ c.at = call[s].at + 1 /\ c.by = call[s].arg
          /\ current' = call[s].arg
      BY <2>1, <2>5, <3>1 DEF Continues
    <3>3. c.at = 2 /\ c.m \in {"login", "changePassword"} /\ c.by = current'
      BY <2>1, <3>2 DEF LogsIn
    <3> QED
      BY <3>3 DEF InSession
  <2> QED
    BY <2>3, <2>4, <2>5
<1>5. ASSUME Begins(s, c, told), c.st = "waiting"
      PROVE  /\ InSession(c, current, savedKeys)
             /\ \A t \in Slots \ {s} : IsWaiting(t) =>
                   ~LogsIn(t) /\ c.m \notin {"login", "changePassword"}
  <2>1. /\ Allowed(c.m, c.arg) /\ c.at = 1
        /\ Method(c.m).who = "start" => c.by = current
    BY <1>5 DEF Begins
  <2>2. InSession(c, current, savedKeys)
    BY <2>1 DEF InSession, Allowed, isLogin
  <2>3. \A t \in Slots \ {s} : IsWaiting(t) => ~LogsIn(t) /\ c.m \notin {"login", "changePassword"}
    BY <2>1 DEF Allowed, Idle, IsWaiting, LogsIn
  <2> QED
    BY <2>2, <2>3
<1>6. ASSUME Continues(s, c, told), UNCHANGED <<current, savedKeys>>, ~Validates(s),
             c.st = "waiting"
      PROVE  InSession(c, current, savedKeys) /\ c.m = call[s].m /\ IsWaiting(s)
  <2>1. /\ IsWaiting(s) /\ c.m = call[s].m /\ ~IsLast(s) /\ c.at = call[s].at + 1
        /\ Handler(s).q # "signatures"
        /\ c.owner = IF Handler(s).q \in {"nh_assets", "contract"} THEN current ELSE call[s].owner
        /\ ~(LogsIn(s) /\ Handler(s).q = "full_accounts")
        /\ Who(s) = "reply" /\ call[s].at = 1 => c.by = current
        /\ \/ Who(s) = "named"
           \/ Who(s) = "reply" /\ call[s].at = 1
           \/ c.by = call[s].by
    BY <1>6 DEF Continues
  <2>2. /\ Len(Steps(s)) \in 1..4 /\ call[s].at \in 1..Len(Steps(s))
        /\ call[s].at # Len(Steps(s)) /\ Handler(s) = Steps(s)[call[s].at]
    BY <2>1, Waiting
  <2>3. InSession(call[s], current, savedKeys)
    BY <1>1, <2>1
  <2>4. Who(s) = "start" \/ (Who(s) \in {"reply", "validated"} /\ call[s].at > 1)
          => call[s].by = current
    BY <2>3 DEF InSession, Who
  <2>5. Who(s) = "validated" => call[s].at > 1
    <3>1. Who(s) = "validated" => LogsIn(s)
      BY <2>1, SignsLate DEF LogsIn
    <3>2. LogsIn(s) => call[s].at # 1
      BY <2>1, LoginFirst
    <3> QED
      BY <2>2, <3>1, <3>2
  <2>6. Who(s) \in {"start", "reply", "validated"} => c.by = current
    <3>1. call[s].at = 1 \/ call[s].at > 1
      BY <2>2
    <3> QED
      BY <2>1, <2>4, <2>5, <3>1
  <2>7. c.m = "nh_transfer_asset" /\ c.at > 2 => c.owner = current /\ Who(s) = "start"
    <3> SUFFICES ASSUME c.m = "nh_transfer_asset", c.at > 2
                 PROVE  c.owner = current /\ Who(s) = "start"
      OBVIOUS
    <3>1. /\ Len(Steps(s)) = 4 /\ Who(s) = "start" /\ Steps(s)[2].q = "nh_assets"
      BY <2>1, Particular DEF Steps, Who
    <3>2. call[s].at # Len(Steps(s)) - 1
      BY <2>1, <3>1, SignsLate
    <3>3. call[s].at = 2
      BY <2>1, <2>2, <3>1, <3>2
    <3> QED
      BY <2>1, <2>2, <3>1, <3>3
  <2>8. c.at # 1
    BY <2>1, <2>2
  <2> QED
    BY <2>1, <2>6, <2>7, <2>8 DEF InSession, Who
<1>7. ASSUME Signs(s, c, told)
      PROVE  InSession(c, current, savedKeys) /\ c.m = call[s].m /\ IsWaiting(s)
  <2>1. /\ IsWaiting(s) /\ Handler(s).q = "signatures" /\ c = [call[s] EXCEPT !.at = @ + 1]
    BY <1>7 DEF Signs
  <2>2. /\ c.m = call[s].m /\ c.at = call[s].at + 1 /\ c.by = call[s].by
        /\ c.owner = call[s].owner
    BY <2>1 DEF TypeOK, CallRecord
  <2>3. call[s].at \in Nat \ {0}
    <3>1. call[s].at \in 1..Len(Steps(s)) /\ Len(Steps(s)) \in 1..4
      BY <2>1, Waiting
    <3> QED
      BY <3>1
  <2>4. c.at # 1
    BY <2>2, <2>3
  <2> QED
    BY <2>1, <2>2, <2>4, SignerKnown DEF InSession, Who
<1>8. CASE IsWaiting(s) /\ Validates(s) /\ (Finishes(s, c, told) \/ Continues(s, c, told))
  BY <1>2, <1>4, <1>8
<1>9. CASE /\ UNCHANGED <<current, savedKeys>>
           /\ \/ Begins(s, c, told)
              \/ Finishes(s, c, told)
              \/ Continues(s, c, told) /\ ~Validates(s)
              \/ Signs(s, c, told)
  <2>1. Finishes(s, c, told) => c.st # "waiting"
    BY DEF Finishes, TypeOK, CallRecord
  <2>2. c.st = "waiting" => InSession(c, current, savedKeys)
    BY <1>5, <1>6, <1>7, <1>9, <2>1
  <2>3. \A t \in Slots : call'[t].st = "waiting" => InSession(call'[t], current', savedKeys')
    BY <1>1, <1>2, <1>9, <2>2 DEF IsWaiting
  <2>4. ASSUME NEW t \in Slots, NEW u \in Slots, t # u,
               call'[t].st = "waiting", call'[u].st = "waiting"
        PROVE  call'[t].m \notin {"login", "changePassword"}
    <3>1. CASE Begins(s, c, told)
      <4>1. CASE t = s
        <5>1. IsWaiting(u) /\ c.st = "waiting" /\ call'[t] = c
          BY <1>2, <2>4, <4>1 DEF IsWaiting
        <5> QED
          BY <1>5, <2>4, <3>1, <4>1, <5>1
      <4>2. CASE u = s
        <5>1. IsWaiting(t) /\ c.st = "waiting" /\ call'[t] = call[t]
          BY <1>2, <2>4, <4>2 DEF IsWaiting
        <5> QED
          BY <1>5, <2>4, <3>1, <4>2, <5>1 DEF LogsIn
      <4>3. CASE t # s /\ u # s
        BY <1>1, <1>2, <2>4, <4>3 DEF IsWaiting, LogsIn
      <4> QED
        BY <4>1, <4>2, <4>3
    <3>2. CASE ~Begins(s, c, told)
      <4>1. c.st = "waiting" => c.m = call[s].m /\ IsWaiting(s)
        BY <1>6, <1>7, <1>9, <2>1, <3>2
      <4>2. /\ IsWaiting(t) /\ call'[t].m = call[t].m
            /\ IsWaiting(u)
        BY <1>2, <2>4, <4>1 DEF IsWaiting
      <4> QED
        BY <1>1, <2>4, <4>2 DEF LogsIn
    <3> QED
      BY <3>1, <3>2
  <2> QED
    BY <1>1, <1>9, <2>3, <2>4
<1> QED
  BY <1>8, <1>9 DEF Takes, Begins, Finishes, Continues, Signs

\* Every step keeps SessionFollows, and with it that operations are sent in the name of
\* their accounts.
LEMMA SessionStep ==
    ASSUME TypeOK, CallbackFollows, SentByLast, SessionFollows, SentByItsAccount, [Next]_vars
    PROVE  SessionFollows' /\ SentByItsAccount'
<1>1. Slots' = Slots /\ Disciplined' = Disciplined
  BY SameApplication
<1>2. CASE UNCHANGED <<call, answers, broadcasts, current>> /\ savedKeys' \subseteq savedKeys
  <2>1. SentByItsAccount'
    BY <1>1, <1>2 DEF SentByItsAccount
  <2>2. OneSession => OneSession'
    BY <1>1, <1>2 DEF OneSession, IsWaiting, LogsIn, Who, isLogin
  <2>3. SessionFollows'
    BY <1>1, <1>2, <2>2 DEF SessionFollows, IsWaiting
  <2> QED
    BY <2>1, <2>3
<1>3. ASSUME NEW s \in Slots, NEW c \in CallRecord, NEW told \in Seq({"SUCCESS", "FAIL"}),
             Moved(s, c, told), Begins(s, c, told) \/ Takes(s, c, told)
      PROVE  SessionFollows' /\ SentByItsAccount'
  <2>1. /\ call'[s] = c
        /\ \A t \in Slots : t # s => call'[t] = call[t]
    BY <1>3, OthersKept
  <2>2. SessionFollows'
    <3>1. c.st = "waiting" /\ c.m = "changePassword" /\ c.at > 1 => c.by = c.arg
      BY <1>3, ValidatedStep
    <3>2. \A t \in Slots : call'[t].st = "waiting" /\ call'[t].m = "changePassword"
                           /\ call'[t].at > 1 => call'[t].by = call'[t].arg
      BY <2>1, <3>1 DEF SessionFollows, IsWaiting
    <3>3. Disciplined => OneSession'
      BY <1>1, <1>3, OneSessionStep
    <3> QED
      BY <1>1, <3>2, <3>3 DEF SessionFollows, IsWaiting
  <2>3. ASSUME NEW b \in broadcasts'
        PROVE  /\ call'[b.slot].m = "changePassword" => b.by = call'[b.slot].arg
               /\ Disciplined =>
                     /\ Method(call'[b.slot].m).who # "named" => b.key = b.by
                     /\ call'[b.slot].m = "nh_transfer_asset" => b.by = call'[b.slot].owner
    <3>1. CASE b \in broadcasts
      <4>1. /\ call'[b.slot].m = call[b.slot].m /\ call'[b.slot].arg = call[b.slot].arg
            /\ call'[b.slot].owner = call[b.slot].owner
        BY <1>3, <3>1, SentKept
      <4> QED
        BY <3>1, <4>1 DEF SentByItsAccount
    <3>2. CASE b \notin broadcasts
      <4>1. Signs(s, c, told)
        BY <1>3, <3>2 DEF Takes, Begins, Finishes, Continues
      <4>2. PICK a \in Accounts :
              /\ broadcasts' = broadcasts \cup {[slot |-> s, by |-> call[s].by, key |-> a]}
              /\ a = call[s].by \/ <<a, "active">> \in savedKeys
        BY <4>1 DEF Signs
      <4>3. b = [slot |-> s, by |-> call[s].by, key |-> a]
        BY <3>2, <4>2
      <4>4. b.slot = s /\ b.by = call[s].by /\ b.key = a
        BY <4>3
      <4>5. IsWaiting(s) /\ Handler(s).q = "signatures" /\ c = [call[s] EXCEPT !.at = @ + 1]
        BY <4>1 DEF Signs
      <4>6. c.m = call[s].m /\ c.arg = call[s].arg /\ c.owner = call[s].owner
        BY <4>5 DEF TypeOK, CallRecord
      <4>7. Disciplined /\ <<a, "active">> \in savedKeys => a = current
        <5>1. Disciplined => \A k \in savedKeys : k[1] = current
          BY OneSessionSays DEF SessionFollows
        <5> QED
          BY <5>1
      <4>8. /\ call[s].m = "changePassword" => call[s].by = call[s].arg
            /\ Disciplined =>
                  /\ Who(s) # "named" => call[s].by = current
                  /\ call[s].m = "nh_transfer_asset" => call[s].owner = call[s].by
        BY <4>5, SignerKnown
      <4> QED
        BY <2>1, <4>2, <4>4, <4>6, <4>7, <4>8 DEF Who
    <3> QED
      BY <3>1, <3>2
  <2>4. SentByItsAccount'
    BY <1>1, <2>3 DEF SentByItsAccount
  <2> QED
    BY <2>2, <2>4
<1> QED
  BY <1>2, <1>3, Forms

-----------------------------------------------------------------------------
\* The state keeps its types, and the session, the calls, what they have told and what
\* they have sent fit together, in every state.
THEOREM Invariance == Spec => [](TypeOK /\ Inv)
<1>1. Init => Inv
  <2> SUFFICES ASSUME Init PROVE Inv
    OBVIOUS
  <2>1. \A s \in Slots : call[s] = NoCall /\ answers[s] = <<>>
    BY DEF Init
  <2>2. NoCall.st = "unused"
    BY DEF NoCall
  <2>3. broadcasts = {} /\ savedKeys = {}
    BY DEF Init
  <2>4. CallbackFollows
    BY <2>1, <2>2 DEF CallbackFollows, Agrees
  <2>5. SentByLast /\ SuccessIsSent /\ SentByItsAccount
    <3>1. \A s \in Slots : answers[s] # <<"SUCCESS">>
      BY <2>1
    <3> QED
      BY <2>1, <2>2, <2>3, <3>1 DEF SentByLast, SuccessIsSent, SentByItsAccount, IsWaiting
  <2>6. SessionFollows
    BY <2>1, <2>2, <2>3 DEF SessionFollows, OneSession, IsWaiting
  <2> QED
    BY <2>4, <2>5, <2>6 DEF Inv
<1>2. TypeOK /\ Inv /\ [Next]_vars => Inv'
  BY CallbackFollowsStep, SentStep, SessionStep DEF Inv
<1> QED
  BY <1>1, <1>2, TypeCorrect, PTL DEF Spec

\* Every method that is not a leaky one calls its callback exactly once, whatever the
\* server answers and in whatever order, and all but one call it at most once.
THEOREM CallsBackOnce == Spec => []AnswersOnce
<1>1. TypeOK /\ Inv => AnswersOnce
  <2> SUFFICES ASSUME TypeOK, CallbackFollows, NEW s \in Slots
               PROVE  /\ call[s].m # "get_transaction_by_id" => Len(answers[s]) <= 1
                      /\ call[s].st = "ended" /\ call[s].m \notin Leaky => Len(answers[s]) = 1
    BY DEF Inv, AnswersOnce
  <2>1. Agrees(call[s], answers[s]) /\ call[s].st \in {"unused", "waiting", "ended", "undefined"}
    BY DEF CallbackFollows, TypeOK, CallRecord
  <2>2. answers[s] = <<>> => Len(answers[s]) <= 1
    OBVIOUS
  <2> QED
    BY <2>1, <2>2 DEF Agrees
<1> QED
  BY <1>1, Invariance, PTL

\* A method that stands for an operation reports SUCCESS only when its transaction was
\* signed and sent.
THEOREM SuccessMeansSent == Spec => []SuccessIsSent
<1>1. Inv => SuccessIsSent
  BY DEF Inv
<1> QED
  BY <1>1, Invariance, PTL

\* Operations are sent in the name of the accounts they belong to, and signed with their
\* keys when logins do not overlap with other calls.
THEOREM SentInItsName == Spec => []SentByItsAccount
<1>1. Inv => SentByItsAccount
  BY DEF Inv
<1> QED
  BY <1>1, Invariance, PTL

=============================================================================
