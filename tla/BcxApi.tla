-------------------------------- MODULE BcxApi --------------------------------
(***************************************************************************)
(* bcx::bcxapi_p (bcx/libbcx/bcx/bcxapi_p.cpp): the methods of the SDK as  *)
(* chains of requests, and the session they share (bcxdb).                 *)
(*                                                                         *)
(* A method sends a request through bcxws and goes on in the continuations *)
(* of its promise.  Requests of several calls wait for the server at the   *)
(* same time and are answered in any order; between two requests of one    *)
(* call anything may happen to the session.  A step of this module is one  *)
(* run of continuations: promise::Defer runs them inside resolve() and     *)
(* reject(), up to the next request.  That each request is settled exactly *)
(* once is what RequestLink says of bcxws.                                 *)
(*                                                                         *)
(* Only the shape of an answer matters:                                    *)
(*   ok     what the continuation asks for                                 *)
(*   unfit  well formed, but not acceptable: an unknown account, a list of *)
(*          the wrong length, an object of another owner                   *)
(*   null   the result null                                                *)
(*   bad    a result that fc::variant::as refuses with an fc::exception    *)
(*   rpc    an error object                                                *)
(*   net    ERROR_NET_NOT_CONNECT, an int                                  *)
(***************************************************************************)
EXTENDS Integers, Sequences, FiniteSets

CONSTANT Applications   \* the ways in which an application uses the SDK (Usage, below)

AllMethods ==
    {"init", "login", "changePassword", "createAccountByAccount",
     "createAccountByFaucet", "upgradeAccount", "transfer", "create_asset",
     "update_asset", "issue_asset", "reserve_asset", "create_contract",
     "update_contract", "call_contract_function", "nh_register_creator",
     "nh_create_world_view", "nh_relate_world_view", "nh_creat_asset",
     "nh_delete_asset", "nh_transfer_asset", "nh_lookup_assets", "get_contract",
     "get_full_accounts", "get_key_references", "get_chain_id", "get_objects",
     "lookup_asset_symbols", "list_assets", "get_block_header", "get_block",
     "get_account_history", "get_createAsset_fee", "get_transaction_by_id"}

\* How an application uses the SDK: the accounts it logs in to (numbers, in the order
\* in which savedKeys lists them), which roles they have keys for, the methods it calls,
\* how many calls there are (a bound), and whether it logs in and out only between its
\* other calls.
Usage == [accounts : SUBSET (Nat \ {0}), roles : SUBSET STRING, methods : SUBSET AllMethods,
          calls : Nat, disciplined : BOOLEAN]

ASSUME BcxApiAssumption == \A use \in Applications : use \in Usage

VARIABLES
    app,         \* how the application uses the SDK
    current,     \* _db.current_full_account, 0 when it is a default one
    savedKeys,   \* _db.savedKeys: pairs of an account and a role
    apiIds,      \* how many of the three api ids query_login has stored
    asked,       \* of "dgpo" and "chain_id", what the SDK has asked for by itself
    known,       \* of "dgpo" and "chain_id", what _db holds
    call,        \* the calls of the application
    answers,     \* what each call has told its callback
    broadcasts   \* the transactions sent: the call, its account, its signer

session == <<app, current, savedKeys, apiIds, asked, known>>
vars == <<session, call, answers, broadcasts>>

(***************************************************************************)
(* Requests.  What becomes of the chain on each shape of an answer: "go",  *)
(* the next continuation runs; "fail", some handler of the method reports  *)
(* an error; "silent", no handler takes the rejection, or the continuation *)
(* returns without resolving, and the callback is never called.            *)
(***************************************************************************)
Handling(q, ok, unfit, null, bad, rpc, net) ==
    [q |-> q, ok |-> ok, unfit |-> unfit, null |-> null, bad |-> bad,
     rpc |-> rpc, net |-> net]
Replies == {"ok", "unfit", "null", "bad", "rpc", "net"}

\* only fail([=](int error)): an error object and a bad cast find no handler
query_login == Handling("login", "go", "go", "go", "fail", "fail", "fail")
query_api_id == Handling("api_id", "go", "go", "go", "silent", "silent", "fail")
query_get_full_accounts ==
    Handling("full_accounts", "go", "go", "silent", "fail", "silent", "fail")
query_get_account_by_name ==
    Handling("account", "go", "fail", "fail", "silent", "silent", "fail")
query_lookup_account_names ==
    Handling("account", "go", "fail", "fail", "silent", "silent", "fail")

\* mutant: lookup_asset_symbols without its last fail()
lookup_asset_symbols_int_only ==
    Handling("symbols", "go", "fail", "silent", "silent", "silent", "fail")

\* these have a handler for whatever is thrown or rejected
Careful(q) == Handling(q, "go", "fail", "fail", "fail", "fail", "fail")
lookup_asset_symbols == Careful("symbols")

query_nh_lookup_assets == Careful("nh_assets")
query_get_contract == Careful("contract")
query_get_transaction_by_id == Careful("transaction")

\* as<fc::variant> takes any value
broadcast_transaction_with_callback ==
    Handling("broadcast", "go", "go", "go", "go", "fail", "fail")

\* the same, where the method reads the first of the confirmations: of a list that may
\* be empty, which is undefined; one that lacks what is read is bad
broadcast_and_read == [Careful("broadcast") EXCEPT !.unfit = "undefined"]

send_operation ==
    <<Careful("signatures"), broadcast_transaction_with_callback>>
send_operation_and_read == <<Careful("signatures"), broadcast_and_read>>

(***************************************************************************)
(* Methods.  gate: what is tested before anything is sent.  who: whose     *)
(* operation it is: of the account that is current when the method starts, *)
(* of the one that is current when the first answer comes, or of whatever  *)
(* account the answer names.                                               *)
(***************************************************************************)
Plain(steps) == [gate |-> "none", who |-> "nobody", steps |-> steps]
Gated(steps) == [gate |-> "login", who |-> "start", steps |-> steps]

init == Plain(<<query_login, query_api_id, query_api_id, query_api_id>>)
login == Plain(<<query_get_full_accounts>>)
changePassword == [Plain(<<query_get_full_accounts>> \o send_operation)
                   EXCEPT !.who = "validated"]
createAccountByAccount == Gated(send_operation)
createAccountByFaucet ==
    [Plain(<<Handling("faucet", "go", "fail", "silent", "silent", "fail", "fail")>>)
     EXCEPT !.gate = "logout"]

upgradeAccount == Gated(send_operation)
transfer == Gated(<<query_get_full_accounts, lookup_asset_symbols>>
                  \o send_operation_and_read)
create_asset == Gated(send_operation)
update_asset == [Gated(<<lookup_asset_symbols>> \o send_operation)
                 EXCEPT !.who = "named"]
issue_asset == Gated(<<query_get_account_by_name, lookup_asset_symbols>>
                     \o send_operation)
reserve_asset == Gated(<<lookup_asset_symbols>> \o send_operation)
create_contract == Gated(send_operation)
update_contract == [Gated(<<Careful("contract")>> \o send_operation)
                    EXCEPT !.who = "reply"]
call_contract_function == Gated(<<Careful("contract")>> \o send_operation)
nh_register_creator == Gated(send_operation)
nh_create_world_view == Gated(send_operation)
nh_relate_world_view == Gated(send_operation)
nh_creat_asset == Gated(<<query_lookup_account_names>> \o send_operation_and_read)
nh_delete_asset == [Plain(<<query_nh_lookup_assets>> \o send_operation)
                    EXCEPT !.who = "reply"]
nh_transfer_asset == Gated(<<query_get_account_by_name, query_nh_lookup_assets>>
                           \o send_operation)
nh_lookup_assets == Plain(<<[query_nh_lookup_assets EXCEPT !.unfit = "go"]>>)
get_contract == Plain(<<query_get_contract, query_get_transaction_by_id>>)

\* null returns without calling back; get_key_references reads the first element of
\* a list that may be empty, which is undefined
get_full_accounts ==
    Plain(<<Handling("one", "go", "fail", "silent", "fail", "fail", "fail")>>)
get_key_references ==
    [Plain(<<Handling("one", "go", "undefined", "silent", "fail", "fail", "fail")>>)
     EXCEPT !.gate = "ownerKey"]
get_chain_id ==
    Plain(<<Handling("chain_id", "go", "go", "go", "fail", "fail", "fail")>>)
ListOf == Plain(<<[Careful("one") EXCEPT !.unfit = "go"]>>)
get_objects == ListOf
lookup_asset_symbols_callback == ListOf
list_assets == ListOf
get_account_history == ListOf
get_block == Plain(<<Handling("one", "go", "go", "go", "fail", "fail", "fail")>>)

\* the handlers only log, or there are none
get_block_header ==
    Plain(<<Handling("one", "go", "go", "go", "silent", "silent", "silent")>>)
get_createAsset_fee ==
    Plain(<<Handling("one", "go", "go", "go", "silent", "silent", "silent")>>)

\* null: reports ERROR_NOT_EXIST, does not return, and reports the transaction that
\* an empty optional holds
get_transaction_by_id ==
    Plain(<<Handling("one", "go", "go", "undefined", "fail", "fail", "fail")>>)

Method(m) ==
    [init |-> init, login |-> login, changePassword |-> changePassword,
     createAccountByAccount |-> createAccountByAccount,
     createAccountByFaucet |-> createAccountByFaucet,
     upgradeAccount |-> upgradeAccount, transfer |-> transfer,
     create_asset |-> create_asset, update_asset |-> update_asset,
     issue_asset |-> issue_asset, reserve_asset |-> reserve_asset,
     create_contract |-> create_contract, update_contract |-> update_contract,
     call_contract_function |-> call_contract_function,
     nh_register_creator |-> nh_register_creator,
     nh_create_world_view |-> nh_create_world_view,
     nh_relate_world_view |-> nh_relate_world_view,
     nh_creat_asset |-> nh_creat_asset, nh_delete_asset |-> nh_delete_asset,
     nh_transfer_asset |-> nh_transfer_asset, nh_lookup_assets |-> nh_lookup_assets,
     get_contract |-> get_contract, get_full_accounts |-> get_full_accounts,
     get_key_references |-> get_key_references, get_chain_id |-> get_chain_id,
     get_objects |-> get_objects,
     lookup_asset_symbols |-> lookup_asset_symbols_callback,
     list_assets |-> list_assets, get_block_header |-> get_block_header,
     get_block |-> get_block, get_account_history |-> get_account_history,
     get_createAsset_fee |-> get_createAsset_fee,
     get_transaction_by_id |-> get_transaction_by_id][m]

-----------------------------------------------------------------------------
Accounts == app.accounts
Roles == app.roles
Methods == app.methods
Disciplined == app.disciplined
Slots == 1..app.calls
NoAccount == 0
NoCall == [m |-> "none", st |-> "unused", at |-> 0, arg |-> NoAccount,
           by |-> NoAccount, owner |-> NoAccount, suc |-> TRUE]

Init ==
    /\ app \in Applications
    /\ current = NoAccount
    /\ savedKeys = {}
    /\ apiIds = 0
    /\ asked = {}
    /\ known = {}
    /\ call = [s \in Slots |-> NoCall]
    /\ answers = [s \in Slots |-> <<>>]
    /\ broadcasts = {}

isLogin == savedKeys # {}
Idle == \A s \in Slots : call[s].st # "waiting"
Handler(s) == Method(call[s].m).steps[call[s].at]
IsLast(s) == call[s].at = Len(Method(call[s].m).steps)

Answer(s, a) == answers' = [answers EXCEPT ![s] = Append(@, a)]
End(s) == call' = [call EXCEPT ![s].st = "ended"]

\* the continuation ran: the next request of the chain, or the end of it
GoOn(s, c) ==
    IF IsLast(s)
    THEN call' = [call EXCEPT ![s] = [c EXCEPT !.st = "ended"]] /\ Answer(s, "SUCCESS")
    ELSE /\ call' = [call EXCEPT ![s] = [c EXCEPT !.at = @ + 1]]
         /\ UNCHANGED answers

(***************************************************************************)
(* The application calls a method.                                         *)
(***************************************************************************)
Passes(gate) ==
    CASE gate \in {"none", "logout"} -> TRUE
      [] gate = "login" -> isLogin
      [] gate = "ownerKey" -> \E k \in savedKeys : k[2] = "owner"

\* what the application may do at this moment
Allowed(m, a) ==
    /\ m = "createAccountByAccount" => isLogin
    /\ m = "createAccountByFaucet" => ~isLogin
    /\ Disciplined /\ m \in {"login", "changePassword"}
         => Idle /\ (isLogin => a = current)
    /\ Disciplined => \A s \in Slots :
           call[s].m \in {"login", "changePassword"} => call[s].st # "waiting"

\* the account that login and changePassword are called with
Names(m) == IF m \in {"login", "changePassword"} THEN Accounts ELSE {NoAccount}

\* create_contract asks for the first owner key of the current account with at(0); a
\* default account has none
Throws(m) == m = "create_contract" /\ isLogin /\ current = NoAccount

\* init is the first call that the model follows, or is over before
Start(s, m, a) ==
    /\ call[s].st = "unused"
    /\ \A t \in 1..(s - 1) : call[t].st # "unused"
    /\ m = "init" => s = 1
    /\ Allowed(m, a)
    /\ LET c == [NoCall EXCEPT !.m = m, !.at = 1, !.arg = a,
                     !.by = IF Method(m).who = "start" THEN current ELSE NoAccount]
       IN  IF Passes(Method(m).gate)
           THEN call' = [call EXCEPT ![s] = [c EXCEPT !.st = "waiting"]]
                /\ UNCHANGED answers
           ELSE call' = [call EXCEPT ![s] = [c EXCEPT !.st = "ended"]]
                /\ Answer(s, "FAIL")
    /\ ~Throws(m)
    /\ UNCHANGED <<session, broadcasts>>

\* the application gets the exception and the callback is never called
StartThrows(s, m) ==
    /\ call[s].st = "unused"
    /\ \A t \in 1..(s - 1) : call[t].st # "unused"
    /\ Allowed(m, NoAccount)
    /\ Throws(m)
    /\ call' = [call EXCEPT ![s] = [NoCall EXCEPT !.m = m, !.at = 1, !.st = "ended"]]
    /\ UNCHANGED <<session, answers, broadcasts>>

logout ==
    /\ isLogin
    /\ Disciplined => Idle
    /\ savedKeys' = {}
    /\ UNCHANGED <<app, current, apiIds, asked, known, call, answers, broadcasts>>

-----------------------------------------------------------------------------
(***************************************************************************)
(* Answers of the server.                                                  *)
(***************************************************************************)
Gets(s, queries) == call[s].st = "waiting" /\ Handler(s).q \in queries

\* the chain ends here
ReplyEnds(s, r) ==
    /\ call[s].st = "waiting"
    /\ call[s].m # "init"
    /\ CASE Handler(s)[r] = "fail" -> End(s) /\ Answer(s, "FAIL")
         [] Handler(s)[r] = "silent" -> End(s) /\ UNCHANGED answers
         [] Handler(s)[r] = "undefined" ->
              /\ call' = [call EXCEPT ![s].st = "undefined"]
              /\ answers' = IF call[s].m = "get_transaction_by_id"
                            THEN [answers EXCEPT ![s] = <<"FAIL", "SUCCESS">>]
                            ELSE answers
         [] OTHER -> FALSE
    /\ UNCHANGED <<session, broadcasts>>

\* createAccountByAccount settles its promise with a string literal where createAccount
\* takes a std::string.  Whether promise.hpp, which is not part of the repository, lets
\* them match is left open: if it does not, no handler is found.
ReplyLiteral(s, r) ==
    /\ call[s].st = "waiting"
    /\ call[s].m = "createAccountByAccount"
    /\ IF Handler(s).q = "signatures" THEN r # "ok" ELSE r # "rpc"
    /\ End(s)
    /\ UNCHANGED <<session, answers, broadcasts>>

\* The steps of query_login.  always() reports *suc, which is 0, SUCCESS, from the
\* beginning; then it asks for the global properties and the chain id.
ReplyInit(s, r) ==
    /\ Gets(s, {"login", "api_id"})
    /\ LET suc == IF Handler(s).q = "login" THEN r = "ok" ELSE call[s].suc
           stored == Handler(s).q = "api_id" /\ Handler(s)[r] = "go"
           always == Handler(s)[r] = "fail" \/ (Handler(s)[r] = "go" /\ IsLast(s))
           told == IF Handler(s)[r] = "fail" THEN call[s].suc ELSE suc
       IN  /\ apiIds' = IF stored THEN apiIds + 1 ELSE apiIds
           /\ CASE always -> /\ End(s)
                             /\ Answer(s, IF told THEN "SUCCESS" ELSE "FAIL")
                             /\ asked' = {"dgpo", "chain_id"}
                [] Handler(s)[r] = "silent" -> End(s) /\ UNCHANGED <<answers, asked>>
                [] OTHER -> /\ GoOn(s, [call[s] EXCEPT !.suc = suc])
                            /\ asked' = asked
    /\ UNCHANGED <<app, current, savedKeys, known, broadcasts>>

\* mutant: takes the account that was current before
ReplyValidateStale(s, r) ==
    /\ Gets(s, {"full_accounts"})
    /\ call[s].m \in {"login", "changePassword"}
    /\ Handler(s)[r] = "go"
    /\ current' = IF r = "ok" THEN call[s].arg ELSE NoAccount
    /\ \E match \in IF r = "ok" THEN SUBSET Roles ELSE {{}} :
        /\ savedKeys' = savedKeys \cup ({call[s].arg} \X match)
        /\ IF match = {} THEN End(s) /\ Answer(s, "FAIL")
           ELSE GoOn(s, [call[s] EXCEPT !.by = current])
    /\ UNCHANGED <<app, apiIds, asked, known, broadcasts>>

\* validate_password: the account becomes the current one before its keys are looked
\* at; an unknown account becomes a default one.  The keys that the password yields
\* are saved.  login reports the result; changePassword goes on if it is SUCCESS.
\* (An account whose keys are saved exists: accounts do not leave the chain.)
ReplyValidate(s, r) ==
    /\ Gets(s, {"full_accounts"})
    /\ call[s].m \in {"login", "changePassword"}
    /\ Handler(s)[r] = "go"
    /\ r = "unfit" => call[s].arg \notin {k[1] : k \in savedKeys}
    /\ current' = IF r = "ok" THEN call[s].arg ELSE NoAccount
    /\ \E match \in IF r = "ok" THEN SUBSET Roles ELSE {{}} :
        /\ savedKeys' = savedKeys \cup ({call[s].arg} \X match)
        /\ IF match = {} THEN End(s) /\ Answer(s, "FAIL")
           ELSE GoOn(s, [call[s] EXCEPT !.by = current'])
    /\ UNCHANGED <<app, apiIds, asked, known, broadcasts>>

\* get_current_private_key("active"): the first in the order of savedKeys
FirstActive ==
    LET active == {a \in Accounts : <<a, "active">> \in savedKeys}
    IN  IF active = {} THEN {} ELSE {CHOOSE a \in active : \A b \in active : a <= b}

\* mutant: goes on without a key
ReplySignaturesNoKey(s, r) ==
    /\ Gets(s, {"signatures"})
    /\ Handler(s)[r] = "go"
    /\ broadcasts' = broadcasts \cup
          {[slot |-> s, by |-> call[s].by, key |-> a] : a \in FirstActive}
    /\ GoOn(s, call[s])
    /\ UNCHANGED session

\* send_operation: the node names the keys that could sign; the transaction is signed
\* with the first of them that is saved, or with the saved active key if it named none
ReplySignatures(s, r) ==
    /\ Gets(s, {"signatures"})
    /\ Handler(s)[r] = "go"
    /\ \E pkeys \in SUBSET ({call[s].by} \X {"owner", "active"}) :
        LET opk == IF pkeys = {} THEN FirstActive
                   ELSE {k[1] : k \in pkeys \cap savedKeys}
        IN  IF opk = {}
            THEN End(s) /\ Answer(s, "FAIL") /\ UNCHANGED broadcasts
            ELSE \E a \in opk :
                    /\ broadcasts' = broadcasts
                          \cup {[slot |-> s, by |-> call[s].by, key |-> a]}
                    /\ GoOn(s, call[s])
    /\ UNCHANGED session

\* The other continuations.  update_contract, nh_delete_asset and nh_transfer_asset
\* compare the owner of the object with the account that is current now; an answer
\* with another owner is "unfit".
ReplyGoesOn(s, r) ==
    /\ Gets(s, {"full_accounts", "account", "symbols", "nh_assets", "contract",
                "transaction", "broadcast", "faucet", "one", "chain_id"})
    /\ call[s].m \notin {"login", "changePassword"} \/ Handler(s).q # "full_accounts"
    /\ Handler(s)[r] = "go"
    /\ \E issuer \in IF Method(call[s].m).who = "named" /\ call[s].at = 1
                     THEN Accounts ELSE {NoAccount} :
        LET c == call[s]
            who == Method(c.m).who
        IN  GoOn(s, [c EXCEPT
                !.by = CASE who = "reply" /\ c.at = 1 -> current
                         [] who = "named" /\ c.at = 1 -> issuer
                         [] OTHER -> @,
                !.owner = IF Handler(s).q \in {"nh_assets", "contract"}
                          THEN current ELSE @])
    /\ known' = IF call[s].m = "get_chain_id" THEN known \cup {"chain_id"} ELSE known
    /\ UNCHANGED <<app, current, savedKeys, apiIds, asked, broadcasts>>

\* what query_login and the timer of 60 s asked for
TimerDgpo ==
    /\ call[1].m = "init"
    /\ asked' = asked \cup {"dgpo"}
    /\ UNCHANGED <<app, current, savedKeys, apiIds, known, call, answers, broadcasts>>

ReplyAsked(x, r) ==
    /\ x \in asked
    /\ asked' = asked \ {x}
    /\ known' = IF r = "ok" THEN known \cup {x} ELSE known
    /\ UNCHANGED <<app, current, savedKeys, apiIds, call, answers, broadcasts>>

Next ==
    \/ \E s \in Slots, m \in Methods : \E a \in Names(m) : Start(s, m, a)
    \/ \E s \in Slots, m \in Methods : StartThrows(s, m)
    \/ logout
    \/ \E s \in Slots, r \in Replies :
          \/ ReplyEnds(s, r)
          \/ ReplyLiteral(s, r)
          \/ ReplyInit(s, r)
          \/ ReplyValidate(s, r)
          \/ ReplySignatures(s, r)
          \/ ReplyGoesOn(s, r)
    \/ TimerDgpo
    \/ \E x \in asked, r \in Replies : ReplyAsked(x, r)

Spec == Init /\ [][Next]_vars

-----------------------------------------------------------------------------
(***************************************************************************)
(* Properties.                                                             *)
(***************************************************************************)
\* The methods whose callback some answer of the server leaves uncalled: they wait
\* for a request that handles an int only, return early on null, or do nothing but
\* log; create_contract, which may throw; createAccountByAccount, which settles with a
\* literal; get_transaction_by_id, which calls back twice; and get_key_references,
\* transfer and nh_creat_asset, which read the first of a list that may be empty.
Leaky == {"init", "login", "changePassword", "createAccountByAccount",
          "createAccountByFaucet", "create_contract", "transfer",
          "issue_asset", "nh_creat_asset", "nh_transfer_asset", "get_full_accounts",
          "get_key_references", "get_block_header", "get_createAsset_fee",
          "get_transaction_by_id"}

\* Every other method calls its callback exactly once, whatever the server answers to
\* each of its requests and whatever the continuations throw; and all but
\* get_transaction_by_id call it at most once.
AnswersOnce ==
    \A s \in Slots :
        /\ call[s].m # "get_transaction_by_id" => Len(answers[s]) <= 1
        /\ call[s].st = "ended" /\ call[s].m \notin Leaky => Len(answers[s]) = 1

\* A method that stands for an operation reports SUCCESS only when a transaction with
\* it was signed and sent: not when the key has gone with a logout in between.
SuccessIsSent ==
    \A s \in Slots :
        answers[s] = <<"SUCCESS">> /\ Method(call[s].m).who # "nobody"
            => \E b \in broadcasts : b.slot = s

\* An operation is sent in the name of the account it belongs to.  changePassword changes the
\* keys of the account whose old password it has checked, although it reads the current
\* account, which other logins change at any time.  When logins do not overlap with other
\* calls, the key that signs is one of that account, none left from an earlier login, and
\* nh_transfer_asset, which reads the sender when it starts and compares the owner two
\* requests later, sends an asset away in the name of its owner.
SentByItsAccount ==
    \A b \in broadcasts :
        /\ call[b.slot].m = "changePassword" => b.by = call[b.slot].arg
        /\ Disciplined =>
              /\ Method(call[b.slot].m).who # "named" => b.key = b.by
              /\ call[b.slot].m = "nh_transfer_asset" => b.by = call[b.slot].owner

\* "bcx init:success" for the status 0 (the test program): init has found the three
\* apis of the node when it reports SUCCESS.
InitFoundApis ==
    \A s \in Slots :
        call[s].m = "init" /\ answers[s] = <<"SUCCESS">> => apiIds = 3

(***************************************************************************)
(* The inductive invariant from which they follow.                         *)
(***************************************************************************)
IsWaiting(s) == call[s].st = "waiting"
Steps(s) == Method(call[s].m).steps
Who(s) == Method(call[s].m).who
LogsIn(s) == call[s].m \in {"login", "changePassword"}

CallRecord ==
    [m : AllMethods \cup {"none"}, st : {"unused", "waiting", "ended", "undefined"}, at : Nat,
     arg : Accounts \cup {NoAccount}, by : Accounts \cup {NoAccount},
     owner : Accounts \cup {NoAccount}, suc : BOOLEAN]

TypeOK ==
    /\ app \in Applications
    /\ current \in Accounts \cup {NoAccount}
    /\ savedKeys \subseteq Accounts \X Roles
    /\ apiIds \in Nat
    /\ asked \subseteq {"dgpo", "chain_id"}
    /\ known \subseteq {"dgpo", "chain_id"}
    /\ call \in [Slots -> CallRecord]
    /\ \A s \in Slots : LogsIn(s) => call[s].arg \in Accounts
    /\ answers \in [Slots -> Seq({"SUCCESS", "FAIL"})]
    /\ broadcasts \subseteq [slot : Slots, by : Accounts \cup {NoAccount}, key : Accounts]

\* What a call has told its callback goes with where its chain is.
Agrees(c, told) ==
    /\ c.st = "unused" => told = <<>>
    /\ c.st # "unused" => c.m \in AllMethods
    /\ c.st = "waiting" => told = <<>> /\ c.at \in 1..Len(Method(c.m).steps)
    /\ c.st = "ended" => Len(told) <= 1 /\ (c.m \notin Leaky => Len(told) = 1)
    /\ c.st = "undefined" => c.m = "get_transaction_by_id" \/ told = <<>>

CallbackFollows == \A s \in Slots : Agrees(call[s], answers[s])

\* A call that waits for its confirmation, the last request, has sent its operation,
\* and no other call has.
SentByLast ==
    /\ \A s \in Slots :
          IsWaiting(s) /\ Who(s) # "nobody" /\ call[s].at = Len(Steps(s))
            => \E b \in broadcasts : b.slot = s
    /\ \A b \in broadcasts :
          /\ call[b.slot].st # "unused"
          /\ Who(b.slot) # "nobody"
          /\ IsWaiting(b.slot) => call[b.slot].at = Len(Steps(b.slot))

\* When logins do not overlap with other calls, the session is that of the account of
\* every call that waits.
OneSession ==
    /\ \A k \in savedKeys : k[1] = current
    /\ \A s, t \in Slots : IsWaiting(s) /\ LogsIn(s) /\ IsWaiting(t) => s = t
    /\ \A s \in Slots : IsWaiting(s) =>
          /\ LogsIn(s) /\ call[s].at = 1 /\ isLogin => call[s].arg = current
          /\ Who(s) = "start" \/ (Who(s) \in {"reply", "validated"} /\ call[s].at > 1)
               => call[s].by = current
          /\ call[s].m = "nh_transfer_asset" /\ call[s].at > 2
               => call[s].owner = call[s].by

SessionFollows ==
    /\ \A s \in Slots : IsWaiting(s) /\ call[s].m = "changePassword" /\ call[s].at > 1
                          => call[s].by = call[s].arg
    /\ Disciplined => OneSession

Inv == CallbackFollows /\ SentByLast /\ SuccessIsSent /\ SessionFollows /\ SentByItsAccount

=============================================================================
