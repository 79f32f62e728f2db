------------------------------ MODULE MCBcxApi ------------------------------
(***************************************************************************)
(* The applications with which TLC checks BcxApi.                          *)
(***************************************************************************)
EXTENDS BcxApi

\* every method, two calls: one may log in for the other, or be init
AnyTwo ==
    [accounts |-> {1}, roles |-> {"owner", "active"}, methods |-> AllMethods,
     calls |-> 2, disciplined |-> FALSE]

\* two accounts, logins at any time
Logins ==
    [accounts |-> {1, 2}, roles |-> {"active", "memo"},
     methods |-> {"login", "changePassword", "create_contract"},
     calls |-> 3, disciplined |-> FALSE]

\* two accounts, logins between the other calls only
Session ==
    [accounts |-> {1, 2}, roles |-> {"active", "memo"},
     methods |-> {"login", "changePassword", "upgradeAccount", "nh_transfer_asset",
                  "nh_delete_asset", "update_contract"},
     calls |-> 3, disciplined |-> TRUE]

MCApplications == {AnyTwo, Logins, Session}

InitOnly ==
    {[accounts |-> {1}, roles |-> {"active"}, methods |-> {"init"}, calls |-> 1,
      disciplined |-> FALSE]}

=============================================================================
