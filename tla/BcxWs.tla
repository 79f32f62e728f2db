-------------------------------- MODULE BcxWs --------------------------------
(***************************************************************************)
(* bcx::bcxws (bcx/libbcx/bcx/bcxws.cpp), the JSON-RPC client of the SDK,  *)
(* on top of WebSocket, driven by bcxapi_p::poolEvent, which runs the due  *)
(* timers and then the functions the websocket thread posted.              *)
(*                                                                         *)
(* A request is a promise (promise::Defer) kept under its id in            *)
(* callbackMap, and in noticeMap too when it is a broadcast.  The id is    *)
(* the number of the call: ids only have to be new and to grow, so the     *)
(* numbers that calls on a closed socket use up here, and _counter does    *)
(* not, make no difference.  All of bcxws runs on the UI thread.  The      *)
(* continuations of a promise run inside resolve() and reject(), so the    *)
(* application may call send_call between any two steps of a handler.      *)
(***************************************************************************)
EXTENDS WebSocket

VARIABLES
    counter,      \* _counter
    callbackMap,  \* the keys of callbackMap
    noticeMap,    \* the keys of noticeMap
    outcome,      \* what became of the promise of each call
    rejecting,    \* the handler that is inside _rejectAllRqeuest, or "no"
    rej,          \* the entries its first loop has still to visit
    late,         \* calls on a closed socket, each held by a timer of 10 ms
    reconnects,   \* timers of 10 s that will call init again
    netStatus     \* _onNetStatus: "unset", "set", or how it was called

bcxVars == <<counter, callbackMap, noticeMap, outcome, rejecting, rej, late,
             reconnects, netStatus>>

vars == <<sockVars, bcxVars>>

Outcomes == {"unused", "pending", "resolved", "rejected", "twice"}
NetStatuses == {"unset", "set", "CONNECT", "CLOSE", "ERROR"}

TypeOK ==
    /\ SockTypeOK
    /\ counter \in 0..MaxCalls
    /\ callbackMap \subseteq Calls
    /\ noticeMap \subseteq Calls
    /\ outcome \in [Calls -> Outcomes]
    /\ rejecting \in {"no", "error", "close"}
    /\ rej \subseteq Calls
    /\ late \subseteq Calls
    /\ reconnects \in Nat
    /\ netStatus \in NetStatuses

Init ==
    /\ SockInit
    /\ counter = 0
    /\ callbackMap = {}
    /\ noticeMap = {}
    /\ outcome = [d \in Calls |-> "unused"]
    /\ rejecting = "no"
    /\ rej = {}
    /\ late = {}
    /\ reconnects = 0
    /\ netStatus = "unset"

\* Defer::resolve and Defer::reject; settling a promise again would be a mistake
Settled(o, d, v) == [o EXCEPT ![d] = IF @ = "pending" THEN v ELSE "twice"]

-----------------------------------------------------------------------------
(***************************************************************************)
(* What the application calls.                                             *)
(***************************************************************************)
\* bcxws::init, once: bcxapi::init is the first call of the SDK
AppInit ==
    /\ ui = "app"
    /\ netStatus = "unset"
    /\ SocketInit
    /\ netStatus' = "set"
    /\ UNCHANGED <<counter, callbackMap, noticeMap, outcome, rejecting, rej,
                   late, reconnects>>

\* mutant: does not ask whether the socket is open
SendCallBlind(isBroadcast) ==
    /\ ui = "app"
    /\ ~ReadyStateLocked
    /\ counter < MaxCalls
    /\ LET d == counter + 1 IN
        /\ counter' = d
        /\ callbackMap' = callbackMap \cup {d}
        /\ noticeMap' = IF isBroadcast THEN noticeMap \cup {d} ELSE noticeMap
        /\ outcome' = [outcome EXCEPT ![d] = "pending"]
        /\ sending' = d
        /\ rej' = rej
    /\ ui' = "send"
    /\ UNCHANGED <<readyState, closeState, instances, queue, received, wsi,
                   thread, functions, batch, inits, sent, rejecting, late,
                   reconnects, netStatus>>

\* send_call, for the api type 3 by way of broadcast: the socket is open
SendCall(isBroadcast) ==
    /\ ui = "app"
    /\ ~ReadyStateLocked
    /\ counter < MaxCalls
    /\ readyState = "OPEN"
    /\ LET d == counter + 1 IN
        /\ counter' = d
        /\ callbackMap' = callbackMap \cup {d}
        /\ noticeMap' = IF isBroadcast THEN noticeMap \cup {d} ELSE noticeMap
        /\ outcome' = [outcome EXCEPT ![d] = "pending"]
        /\ sending' = d
        \* a loop over an unordered_map may or may not visit a new entry
        /\ rej' \in IF rejecting = "no" THEN {rej} ELSE {rej, rej \cup {d}}
    /\ ui' = "send"
    /\ UNCHANGED <<readyState, closeState, instances, queue, received, wsi,
                   thread, functions, batch, inits, sent, rejecting, late,
                   reconnects, netStatus>>

\* mutant: no timer for a call on a closed socket
SendCallClosedNoTimer ==
    /\ ui = "app"
    /\ ~ReadyStateLocked
    /\ counter < MaxCalls
    /\ readyState # "OPEN"
    /\ counter' = counter + 1
    /\ outcome' = [outcome EXCEPT ![counter + 1] = "pending"]
    /\ UNCHANGED <<sockVars, callbackMap, noticeMap, rejecting, rej, late,
                   reconnects, netStatus>>

\* send_call on a socket that is not open: a timer will reject the promise
SendCallClosed ==
    /\ ui = "app"
    /\ ~ReadyStateLocked
    /\ counter < MaxCalls
    /\ readyState # "OPEN"
    /\ counter' = counter + 1
    /\ outcome' = [outcome EXCEPT ![counter + 1] = "pending"]
    /\ late' = late \cup {counter + 1}
    /\ UNCHANGED <<sockVars, callbackMap, noticeMap, rejecting, rej, reconnects,
                   netStatus>>

-----------------------------------------------------------------------------
(***************************************************************************)
(* poolEvent: TimerMgr::processTimer, then the functions posted.           *)
(***************************************************************************)
Polling == ui = "app" /\ rejecting = "no"

TimerLateReject(d) ==
    /\ Polling
    /\ batch = <<>>
    /\ d \in late
    /\ late' = late \ {d}
    /\ outcome' = Settled(outcome, d, "rejected")
    /\ UNCHANGED <<sockVars, counter, callbackMap, noticeMap, rejecting, rej,
                   reconnects, netStatus>>

TimerReconnect ==
    /\ Polling
    /\ batch = <<>>
    /\ reconnects > 0
    /\ SocketInit
    /\ reconnects' = reconnects - 1
    /\ UNCHANGED <<counter, callbackMap, noticeMap, outcome, rejecting, rej,
                   late, netStatus>>

PoolTakeBatch ==
    /\ Polling
    /\ TakeBatch
    /\ UNCHANGED bcxVars

Delivers(ev) == Polling /\ batch # <<>> /\ Head(batch).ev = ev

\* mutant: only onOpen reports
NetStatusOnlyOpen(s) ==
    netStatus' = IF netStatus = "set" /\ s = "CONNECT" THEN s ELSE netStatus

\* _onNetStatus is called once, then forgotten
NetStatus(s) == netStatus' = IF netStatus = "set" THEN s ELSE netStatus

OnOpen ==
    /\ Delivers("open")
    /\ PopEvent
    /\ NetStatus("CONNECT")
    /\ UNCHANGED <<counter, callbackMap, noticeMap, outcome, rejecting, rej,
                   late, reconnects>>

\* mutant: _rejectAllRqeuest clears the maps without rejecting first
OnDownOnlyClears(ev, status) ==
    /\ Delivers(ev)
    /\ PopEvent
    /\ NetStatus(status)
    /\ rejecting' = ev
    /\ rej' = {}
    /\ UNCHANGED <<counter, callbackMap, noticeMap, outcome, late, reconnects>>

\* onClose and onError: report, then _rejectAllRqeuest, which OnRejectDone ends
OnDown(ev, status) ==
    /\ Delivers(ev)
    /\ PopEvent
    /\ NetStatus(status)
    /\ rejecting' = ev
    /\ rej' = callbackMap
    /\ UNCHANGED <<counter, callbackMap, noticeMap, outcome, late, reconnects>>

OnClose == OnDown("close", "CLOSE")
OnError == OnDown("error", "ERROR")

\* one round of the first loop of _rejectAllRqeuest
RejectOne(d) ==
    /\ ui = "app"
    /\ d \in rej
    /\ rej' = rej \ {d}
    /\ outcome' = Settled(outcome, d, "rejected")
    /\ noticeMap' = noticeMap \ {d}
    /\ UNCHANGED <<sockVars, counter, callbackMap, rejecting, late, reconnects,
                   netStatus>>

\* mutant: onError starts the timer too
RejectDoneTwoTimers ==
    /\ ui = "app"
    /\ rejecting # "no"
    /\ rej = {}
    /\ callbackMap' = {}
    /\ noticeMap' = {}
    /\ rejecting' = "no"
    /\ reconnects' = reconnects + 1
    /\ UNCHANGED <<sockVars, counter, outcome, rej, late, netStatus>>

\* mutant: onClose starts no timer
RejectDoneNoTimer ==
    /\ ui = "app"
    /\ rejecting # "no"
    /\ rej = {}
    /\ callbackMap' = {}
    /\ noticeMap' = {}
    /\ rejecting' = "no"
    /\ UNCHANGED <<sockVars, counter, outcome, rej, late, reconnects, netStatus>>

\* its second loop and the two clear(); onClose then starts the timer that connects
\* again (_autoConnect is true from init on)
RejectDone ==
    /\ ui = "app"
    /\ rejecting # "no"
    /\ rej = {}
    /\ outcome' = [d \in Calls |-> IF d \in noticeMap
                                   THEN Settled(outcome, d, "rejected")[d]
                                   ELSE outcome[d]]
    /\ callbackMap' = {}
    /\ noticeMap' = {}
    /\ rejecting' = "no"
    /\ reconnects' = IF rejecting = "close" THEN reconnects + 1 ELSE reconnects
    /\ UNCHANGED <<sockVars, counter, rej, late, netStatus>>

(***************************************************************************)
(* onMessage, by what the server sent.                                     *)
(***************************************************************************)
DeliversMessage(kinds) == Delivers("message") /\ Head(batch).kind \in kinds

\* _removeCallback
RemoveCallback(d) ==
    /\ callbackMap' = callbackMap \ {d}
    /\ noticeMap' = noticeMap \ {d}

\* _oncall: an error rejects; a result resolves, except that null only says that
\* the node accepted a broadcast, whose notice is still to come; an object with
\* neither leaves the request waiting
OnCall ==
    /\ DeliversMessage({"result", "null", "error", "other"})
    /\ PopEvent
    /\ LET d == Head(batch).id
           kind == Head(batch).kind
           waits == kind = "other" \/ (kind = "null" /\ d \in noticeMap)
       IN  IF d \in callbackMap /\ ~waits
           THEN /\ outcome' = Settled(outcome, d, IF kind = "error" THEN "rejected"
                                                                    ELSE "resolved")
                /\ RemoveCallback(d)
           ELSE UNCHANGED <<outcome, callbackMap, noticeMap>>
    /\ UNCHANGED <<counter, rejecting, rej, late, reconnects, netStatus>>

\* mutant: a notice leaves the request in callbackMap
OnNoticeKeepsCallback ==
    /\ DeliversMessage({"notice"})
    /\ PopEvent
    /\ LET d == Head(batch).id
       IN  /\ outcome' = IF d \in noticeMap THEN Settled(outcome, d, "resolved")
                                            ELSE outcome
           /\ noticeMap' = noticeMap \ {d}
    /\ UNCHANGED <<counter, callbackMap, rejecting, rej, late, reconnects,
                   netStatus>>

\* _onnotice
OnNotice ==
    /\ DeliversMessage({"notice"})
    /\ PopEvent
    /\ LET d == Head(batch).id
       IN  IF d \in noticeMap
           THEN /\ outcome' = Settled(outcome, d, "resolved")
                /\ RemoveCallback(d)
           ELSE UNCHANGED <<outcome, callbackMap, noticeMap>>
    /\ UNCHANGED <<counter, rejecting, rej, late, reconnects, netStatus>>

OnIgnored ==
    /\ DeliversMessage({"ignored"})
    /\ PopEvent
    /\ UNCHANGED bcxVars

\* fc::json::from_string or get_object throws: the exception leaves poolEvent, and
\* the functions that were still in `temp' are lost
OnBad ==
    /\ DeliversMessage({"bad"})
    /\ batch' = <<>>
    /\ UNCHANGED <<readyState, closeState, instances, queue, received, wsi,
                   thread, functions, ui, sending, inits, sent, counter,
                   callbackMap, noticeMap, outcome, rejecting, rej, late,
                   reconnects, netStatus>>

-----------------------------------------------------------------------------
\* The application decides whether and when to do these
AppNext ==
    \/ AppInit
    \/ \E b \in BOOLEAN : SendCall(b)
    \/ SendCallClosed

\* These go on by themselves as long as the application calls poolEvent
SendNext == (SendCheck \/ SendPush) /\ UNCHANGED bcxVars

OnMessage == OnCall \/ OnNotice \/ OnIgnored \/ OnBad

PoolNext ==
    \/ \E d \in Calls : TimerLateReject(d)
    \/ TimerReconnect
    \/ PoolTakeBatch
    \/ OnOpen \/ OnClose \/ OnError
    \/ \E d \in Calls : RejectOne(d)
    \/ RejectDone
    \/ OnMessage

Next ==
    \/ AppNext
    \/ SendNext
    \/ PoolNext
    \/ ThreadNext /\ UNCHANGED bcxVars

Spec == Init /\ [][Next]_vars

(***************************************************************************)
(* Fairness.  The application calls poolEvent in its main loop (the test   *)
(* program does so in every frame), and poolEvent runs every timer that is *)
(* due before it takes a batch (hence strong fairness of the timers) and   *)
(* every function of its batch.  Whether to send is the application's own  *)
(* choice.  Of the websocket thread and libwebsockets: a callback that has *)
(* begun goes on, the loop comes round to a request to connect, an attempt *)
(* to connect succeeds or fails, a connection that ended is destroyed, and *)
(* an established one is writable again and again, because                 *)
(* onClientWritable asks for it each time.                                 *)
(***************************************************************************)
Fairness ==
    /\ WF_vars(SendNext)
    /\ SF_vars(\E d \in Calls : TimerLateReject(d))
    /\ SF_vars(TimerReconnect)
    /\ WF_vars(PoolTakeBatch \/ OnOpen \/ OnClose \/ OnError \/ OnMessage
               \/ RejectDone \/ \E d \in Calls : RejectOne(d))
    /\ WF_vars(ThreadGoesOn /\ UNCHANGED bcxVars)
    /\ WF_vars(OpenRequest /\ UNCHANGED bcxVars)
    /\ WF_vars((Established \/ ConnectionError) /\ UNCHANGED bcxVars)
    /\ WF_vars(DestroyWsi /\ UNCHANGED bcxVars)
    /\ WF_vars(WritableClosing /\ UNCHANGED bcxVars)
    /\ WF_vars((WritableSend \/ WritableError) /\ UNCHANGED bcxVars)

FairSpec == Spec /\ Fairness

-----------------------------------------------------------------------------
(***************************************************************************)
(* Properties.                                                             *)
(***************************************************************************)
\* The requests that wait for the server: inside _rejectAllRqeuest those its loop
\* has not visited yet
Waiting == IF rejecting = "no" THEN callbackMap ELSE rej

\* No promise is settled a second time: not by a notice after a result, by an
\* answer after the rejection of onError or onClose, or by onClose after onError.
SettleOnce == \A d \in Calls : outcome[d] # "twice"

\* No promise is forgotten: a call that is not settled is waiting for the server,
\* or a timer that rejects it is running.  In particular clear() at the end of
\* _rejectAllRqeuest throws no promise away that a continuation has just added.
NoLostRequest == \A d \in Calls : outcome[d] = "pending" => d \in Waiting \cup late

\* No request outlives its connection: when the client waits to connect again, or
\* connects, nobody waits for an answer of the connection that is gone.
NoStrandedRequest ==
    reconnects > 0 \/ HasCreate \/ readyState = "CONNECTING" => Waiting = {}

\* A handler that rejects all requests runs on a socket that is not open, so that
\* the continuations it runs cannot insert into the map it iterates over.
NoInsertWhileRejecting == rejecting # "no" => readyState # "OPEN"

\* The ways in which the client may be alive: a running connection, a request to
\* connect, a close event on its way to the UI thread, onClose at work, a timer
NumClose(s) == Cardinality({i \in 1..Len(s) : s[i].ev = "close"})
Lives ==
    Cardinality({i \in 1..Len(queue) : IsCreate(queue[i])})
    + (IF wsi \in {"connecting", "established"} THEN 1 ELSE 0)
    + (IF thread = "closePost" THEN 1 ELSE 0)
    + NumClose(functions) + NumClose(batch)
    + (IF rejecting = "close" THEN 1 ELSE 0)
    + reconnects

\* There is never more than one of these: one broken connection starts exactly one
\* timer, one timer one connection, although onError and onClose are both called
\* and WSI_DESTROY comes after CONNECTION_ERROR.
OneConnection == Lives <= 1

\* onClientWritable never meets a request to connect, whose data it would
\* dereference: the process does not crash.
NoCrash == thread # "crashed"

\* Messages leave in the order of the calls and none leaves twice, whatever is
\* still queued when a connection breaks.
SentInOrder == \A i, j \in 1..Len(sent) : i < j => sent[i] < sent[j]

(***************************************************************************)
(* The inductive invariant from which the safety properties follow.        *)
(***************************************************************************)
\* A connection goes through these seven phases, from the last but one back to
\* the second; the last is the end of a client whose close event was lost with the
\* batch of an exception.
Idle ==
    /\ Quiet /\ rejecting = "no" /\ reconnects = 0 /\ NoCreate
    /\ thread = "none" /\ wsi = "none" /\ readyState = "CONNECTING"
    /\ Waiting = {} /\ ui = "app"

Requested ==
    /\ Quiet /\ rejecting = "no" /\ reconnects = 0
    /\ Waiting = {} /\ ui = "app"
    /\ queue # <<>>
    /\ IsCreate(queue[Len(queue)])
    /\ \A i \in 1..(Len(queue) - 1) : ~IsCreate(queue[i])
    /\ \/ Over
       \/ /\ readyState = "CONNECTING"
          /\ wsi = "none"
          /\ thread \in {"starting", "loop", "noContext"}

Running ==
    /\ rejecting # "close" /\ reconnects = 0 /\ NoCreate
    /\ ~Has(batch, "close")
    /\ ~Has(functions, "close")
    /\ \/ readyState = "CONNECTING" /\ Connecting /\ Waiting = {}
       \/ readyState = "OPEN" /\ Opened
       \/ readyState = "CLOSING" /\ Breaking
       \/ readyState = "CLOSED" /\ thread = "closePost" /\ wsi \in {"none", "dying"}
    /\ rejecting = "error" \/ Has(batch, "error") \/ Has(functions, "error")
         => \/ readyState = "CLOSING" /\ thread = "closed"
            \/ readyState = "CLOSED"

CloseOnItsWay ==
    /\ Over /\ rejecting # "close" /\ reconnects = 0 /\ NoCreate
    /\ NoneBut(batch, "close")
    /\ NoneBut(functions, "close")
    /\ \/ /\ functions # <<>>
          /\ functions[Len(functions)].ev = "close"
          /\ ~Has(batch, "close")
       \/ /\ functions = <<>>
          /\ batch # <<>>
          /\ batch[Len(batch)].ev = "close"

RejectingAll ==
    /\ Over /\ Quiet /\ rejecting = "close" /\ reconnects = 0 /\ NoCreate

TimerRunning ==
    /\ Over /\ Quiet /\ rejecting = "no" /\ reconnects = 1 /\ NoCreate
    /\ Waiting = {} /\ ui = "app"

CloseLost ==
    /\ Over /\ Quiet /\ rejecting = "no" /\ reconnects = 0 /\ NoCreate

Phases ==
    \/ Idle /\ netStatus = "unset"
    \/ /\ netStatus # "unset"
       /\ \/ Requested \/ Running \/ CloseOnItsWay
          \/ RejectingAll \/ TimerRunning \/ CloseLost

\* Every promise in a map or a timer is pending, and in one place only
Pending ==
    /\ \A d \in Waiting \cup noticeMap \cup late : outcome[d] = "pending"
    /\ late \cap (callbackMap \cup noticeMap \cup rej) = {}
    /\ \A d \in Calls : d > counter => outcome[d] = "unused" /\ d \notin callbackMap
    /\ rejecting = "no" => rej = {}

\* bcxapi never calls close(): the socket stays registered, and only the
\* websocket thread touches _closeState
NeverClosed ==
    /\ instances
    /\ closeState \in {"NONE", "ASYNC_CLOSING"}
    /\ ui \in {"app", "send", "push"}

\* The life of the client is always in one of its phases, and every promise that
\* bcxws holds is pending and held once.
Inv == Phases /\ Pending /\ NeverClosed

\* What is still to be written is in the order of the calls, and later than what
\* is written; the message the UI thread is about to queue is the last of all.
QueueInOrder ==
    \A i, j \in 1..Len(queue) :
        i < j /\ ~IsCreate(queue[i]) /\ ~IsCreate(queue[j]) => queue[i].id < queue[j].id
SentBeforeQueued ==
    \A i \in 1..Len(sent), j \in 1..Len(queue) : ~IsCreate(queue[j]) => sent[i] < queue[j].id
SendingLast ==
    ui \in {"send", "push"} =>
        /\ \A i \in 1..Len(sent) : sent[i] < sending
        /\ \A j \in 1..Len(queue) : queue[j].id < sending
IdsCounted ==
    /\ sending <= counter
    /\ \A i \in 1..Len(sent) : sent[i] <= counter
    /\ \A j \in 1..Len(queue) : queue[j].id <= counter
Ordered == SentInOrder /\ QueueInOrder /\ SentBeforeQueued /\ SendingLast /\ IdsCounted

\* A broadcast that waits for its notice is among the requests that wait.
NoticesWait == noticeMap \subseteq Waiting

\* A call that finds the connection lost, or loses it while it waits, is settled:
\* the application is not left without an answer.
DownSettles ==
    \A d \in Calls :
        outcome[d] = "pending" /\ readyState # "OPEN" ~> outcome[d] # "pending"

\* A closed socket is connected again (as often as the bound on init allows).
ClosedReconnects ==
    readyState = "CLOSED" ~> readyState = "CONNECTING" \/ inits = MaxInits

\* bcxws::init reports a status, unless libwebsockets could not create its context.
InitReports == netStatus = "set" ~> netStatus # "set" \/ thread = "noContext"

\* bcxws on its socket, its threads and its timers keeps the promise of RequestLink:
\* the link is up while the socket is open, and the accepted requests are those that
\* wait for the server.
Link == INSTANCE RequestLink
            WITH Requests <- Calls, up <- (readyState = "OPEN"), accepted <- Waiting
KeepsLink == Link!Spec

=============================================================================
