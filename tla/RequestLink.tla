----------------------------- MODULE RequestLink -----------------------------
(***************************************************************************)
(* What bcxws promises to its callers, without sockets, threads, queues or *)
(* timers.  The link to the server is up or down.  A request made while it *)
(* is up is accepted and later settled once; a request made while it is    *)
(* down is refused, and rejected a little later.  When the link has gone   *)
(* down it does not come up again before every accepted request has been   *)
(* settled: no request outlives the link it was made on.                   *)
(***************************************************************************)
CONSTANT Requests

VARIABLES
    up,        \* the link carries requests
    accepted,  \* requests that wait for an answer
    outcome    \* "unused", "pending", "resolved" or "rejected"

linkVars == <<up, accepted, outcome>>

Init ==
    /\ up = FALSE
    /\ accepted = {}
    /\ outcome = [r \in Requests |-> "unused"]

Accept(r) ==
    /\ up
    /\ outcome[r] = "unused"
    /\ accepted' = accepted \cup {r}
    /\ outcome' = [outcome EXCEPT ![r] = "pending"]
    /\ up' = up

Refuse(r) ==
    /\ ~up
    /\ outcome[r] = "unused"
    /\ outcome' = [outcome EXCEPT ![r] = "pending"]
    /\ UNCHANGED <<up, accepted>>

Answer(r, v) ==
    /\ r \in accepted
    /\ outcome[r] = "pending"
    /\ accepted' = accepted \ {r}
    /\ outcome' = [outcome EXCEPT ![r] = v]
    /\ up' = up

RejectRefused(r) ==
    /\ r \notin accepted
    /\ outcome[r] = "pending"
    /\ outcome' = [outcome EXCEPT ![r] = "rejected"]
    /\ UNCHANGED <<up, accepted>>

LinkUp ==
    /\ ~up
    /\ accepted = {}
    /\ up' = TRUE
    /\ UNCHANGED <<accepted, outcome>>

LinkDown ==
    /\ up
    /\ up' = FALSE
    /\ UNCHANGED <<accepted, outcome>>

Next ==
    \/ \E r \in Requests :
          \/ Accept(r)
          \/ Refuse(r)
          \/ \E v \in {"resolved", "rejected"} : Answer(r, v)
          \/ RejectRefused(r)
    \/ LinkUp
    \/ LinkDown

Spec == Init /\ [][Next]_linkVars

=============================================================================
