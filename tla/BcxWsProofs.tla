----------------------------- MODULE BcxWsProofs -----------------------------
(***************************************************************************)
(* Proofs about BcxWs, for every value of the bounds and every set of      *)
(* answers.                                                                *)
(***************************************************************************)
EXTENDS BcxWs, WebSocketProofs, FiniteSetTheorems

-----------------------------------------------------------------------------
(***************************************************************************)
(* Type correctness.                                                       *)
(***************************************************************************)

\* Every step of the UI thread keeps the types of all of the state.
LEMMA UiTypeOK ==
    ASSUME TypeOK, AppNext \/ SendNext \/ PoolNext
    PROVE  TypeOK'
<1> USE WebSocketAssumption DEF TypeOK, Outcomes, NetStatuses
<1>1. Calls \subseteq Nat /\ 0 \notin Calls
  BY DEF Calls
<1>2. ASSUME SocketInit PROVE SockTypeOK'
  <2>1. queue' \in Seq(WsMessages)
    BY <1>2 DEF SocketInit, SockTypeOK, WsMessages
  <2> QED
    BY <1>2, <2>1 DEF SocketInit, SockTypeOK, ThreadStates, Conns
<1>3. ASSUME PopEvent PROVE SockTypeOK'
  BY <1>3 DEF PopEvent, SockTypeOK
<1>4. ASSUME UNCHANGED sockVars PROVE SockTypeOK'
  BY <1>4 DEF sockVars, SockTypeOK
<1>5. ASSUME NEW d \in Calls, NEW v \in {"resolved", "rejected"}
      PROVE  Settled(outcome, d, v) \in [Calls -> Outcomes]
  BY DEF Settled
<1>6. counter < MaxCalls => counter + 1 \in Calls
  BY DEF Calls
<1>7. CASE AppInit
  BY <1>2, <1>7 DEF AppInit
<1>8. ASSUME NEW b \in BOOLEAN, SendCall(b) PROVE TypeOK'
  <2>1. counter' \in Calls
    BY <1>6, <1>8 DEF SendCall
  <2>2. SockTypeOK'
    BY <1>1, <1>8, <2>1 DEF SendCall, SockTypeOK, UiStates
  <2> QED
    BY <1>6, <1>8, <2>1, <2>2 DEF SendCall, Calls
<1>9. CASE SendCallClosed
  BY <1>4, <1>6, <1>9 DEF SendCallClosed, Calls
<1>10. CASE SendNext
  <2>1. CASE SendCheck /\ UNCHANGED bcxVars
    BY <2>1 DEF SendCheck, bcxVars, SockTypeOK, UiStates
  <2>2. CASE SendPush /\ UNCHANGED bcxVars
    <3>1. queue' \in Seq(WsMessages)
      BY <2>2 DEF SendPush, SockTypeOK, WsMessages
    <3> QED
      BY <2>2, <3>1 DEF SendPush, bcxVars, SockTypeOK, UiStates
  <2> QED
    BY <1>10, <2>1, <2>2 DEF SendNext
<1>11. ASSUME NEW d \in Calls, TimerLateReject(d) PROVE TypeOK'
  BY <1>4, <1>5, <1>11 DEF TimerLateReject
<1>12. CASE TimerReconnect
  BY <1>2, <1>12 DEF TimerReconnect
<1>13. CASE PoolTakeBatch
  BY <1>13 DEF PoolTakeBatch, TakeBatch, bcxVars, SockTypeOK
<1>14. CASE OnOpen
  BY <1>3, <1>14 DEF OnOpen, NetStatus
<1>15. CASE OnClose \/ OnError
  BY <1>3, <1>15 DEF OnClose, OnError, OnDown, NetStatus
<1>16. ASSUME NEW d \in Calls, RejectOne(d) PROVE TypeOK'
  BY <1>4, <1>5, <1>16 DEF RejectOne
<1>17. CASE RejectDone
  <2>1. outcome' \in [Calls -> Outcomes]
    BY <1>5, <1>17 DEF RejectDone
  <2> QED
    BY <1>4, <1>17, <2>1 DEF RejectDone
<1>18. CASE OnCall
  <2>1. outcome' \in [Calls -> Outcomes]
    BY <1>5, <1>18 DEF OnCall
  <2> QED
    BY <1>3, <1>18, <2>1 DEF OnCall, RemoveCallback
<1>19. CASE OnNotice
  <2>1. outcome' \in [Calls -> Outcomes]
    BY <1>5, <1>19 DEF OnNotice
  <2> QED
    BY <1>3, <1>19, <2>1 DEF OnNotice, RemoveCallback
<1>20. CASE OnIgnored
  BY <1>3, <1>20 DEF OnIgnored, bcxVars
<1>21. CASE OnBad
  BY <1>21 DEF OnBad, SockTypeOK
<1> QED
  BY <1>7, <1>8, <1>9, <1>10, <1>11, <1>12, <1>13, <1>14, <1>15, <1>16, <1>17,
     <1>18, <1>19, <1>20, <1>21
     DEF AppNext, PoolNext, OnMessage

\* The state of the client always has its types: in particular every id that is
\* queued, written or kept in a map is the id of a call that was made.
THEOREM TypeCorrect == Spec => []TypeOK
<1>1. Init => TypeOK
  BY WebSocketAssumption
     DEF Init, SockInit, TypeOK, SockTypeOK, States, CloseStates, WsiStates,
         ThreadStates, UiStates, Outcomes, NetStatuses
<1>2. TypeOK /\ [Next]_vars => TypeOK'
  <2> SUFFICES ASSUME TypeOK, [Next]_vars PROVE TypeOK'
    OBVIOUS
  <2>1. CASE AppNext \/ SendNext \/ PoolNext
    BY <2>1, UiTypeOK
  <2>2. CASE ThreadNext /\ UNCHANGED bcxVars
    BY <2>2, ThreadTypeOK DEF TypeOK, bcxVars
  <2>3. CASE UNCHANGED vars
    BY <2>3 DEF vars, sockVars, bcxVars, TypeOK, SockTypeOK
  <2> QED
    BY <2>1, <2>2, <2>3 DEF Next
<1> QED
  BY <1>1, <1>2, PTL DEF Spec

-----------------------------------------------------------------------------
(***************************************************************************)
(* The promises: every one that is held is pending and held once.          *)
(***************************************************************************)

\* No step settles a promise that is not pending: whatever the application, the
\* server and the websocket thread do, Pending and SettleOnce are kept.
LEMMA PendingStep ==
    ASSUME TypeOK, Pending, SettleOnce, [Next]_vars
    PROVE  Pending' /\ SettleOnce'
<1> USE DEF TypeOK, Pending, SettleOnce, Waiting
<1>1. Calls \subseteq Nat /\ \A d \in Calls : d >= 1
  BY DEF Calls
<1>2. ASSUME UNCHANGED bcxVars PROVE Pending' /\ SettleOnce'
  BY <1>2 DEF bcxVars
<1>3. ASSUME UNCHANGED <<counter, callbackMap, noticeMap, outcome, rejecting, rej, late>>
      PROVE  Pending' /\ SettleOnce'
  BY <1>3
<1>4. counter < MaxCalls => counter + 1 \in Calls
  BY WebSocketAssumption DEF Calls
<1>5. CASE AppInit
  BY <1>3, <1>5 DEF AppInit
<1>6. ASSUME NEW b \in BOOLEAN, SendCall(b) PROVE Pending' /\ SettleOnce'
  BY <1>1, <1>4, <1>6 DEF SendCall
<1>7. CASE SendCallClosed
  BY <1>1, <1>4, <1>7 DEF SendCallClosed
<1>8. CASE SendNext
  BY <1>2, <1>8 DEF SendNext
<1>9. ASSUME NEW d \in Calls, TimerLateReject(d) PROVE Pending' /\ SettleOnce'
  BY <1>1, <1>9 DEF TimerLateReject, Settled, Polling
<1>10. CASE TimerReconnect
  BY <1>3, <1>10 DEF TimerReconnect
<1>11. CASE PoolTakeBatch \/ OnIgnored
  BY <1>2, <1>11 DEF PoolTakeBatch, OnIgnored
<1>12. CASE OnOpen
  BY <1>3, <1>12 DEF OnOpen
<1>13. CASE OnClose \/ OnError
  BY <1>13 DEF OnClose, OnError, OnDown, Delivers, Polling
<1>14. ASSUME NEW d \in Calls, RejectOne(d) PROVE Pending' /\ SettleOnce'
  BY <1>1, <1>14 DEF RejectOne, Settled
<1>15. CASE RejectDone
  BY <1>1, <1>15 DEF RejectDone, Settled
<1>16. ASSUME NEW d \in callbackMap \cup noticeMap, NEW v \in {"resolved", "rejected"},
              rejecting = "no", outcome' = Settled(outcome, d, v), RemoveCallback(d),
              UNCHANGED <<counter, rejecting, rej, late>>
       PROVE  Pending' /\ SettleOnce'
  <2>1. d \in Calls /\ outcome[d] = "pending"
    BY <1>16
  <2>2. outcome' = [outcome EXCEPT ![d] = v]
    BY <1>16, <2>1 DEF Settled
  <2> QED
    BY <1>1, <1>16, <2>1, <2>2 DEF RemoveCallback
<1>17. CASE OnCall \/ OnNotice
  <2> DEFINE d == Head(batch).id
  <2>1. rejecting = "no" /\ UNCHANGED <<counter, rejecting, rej, late>>
    BY <1>17 DEF OnCall, OnNotice, DeliversMessage, Delivers, Polling
  <2>2. CASE UNCHANGED <<outcome, callbackMap, noticeMap>>
    BY <1>3, <2>1, <2>2
  <2>3. ASSUME ~UNCHANGED <<outcome, callbackMap, noticeMap>>
        PROVE  /\ d \in callbackMap \cup noticeMap
               /\ RemoveCallback(d)
               /\ \E v \in {"resolved", "rejected"} : outcome' = Settled(outcome, d, v)
    BY <1>17, <2>3 DEF OnCall, OnNotice
  <2> QED
    BY <1>16, <2>1, <2>2, <2>3
<1>18. CASE OnBad
  BY <1>3, <1>18 DEF OnBad
<1>19. CASE ThreadNext /\ UNCHANGED bcxVars
  BY <1>2, <1>19
<1>20. CASE UNCHANGED vars
  BY <1>2, <1>20 DEF vars
<1> QED
  BY <1>5, <1>6, <1>7, <1>8, <1>9, <1>10, <1>11, <1>12, <1>13, <1>14, <1>15,
     <1>16, <1>17, <1>18, <1>19, <1>20
     DEF Next, AppNext, PoolNext, OnMessage

\* No promise is ever settled twice.
THEOREM PromisesSettleOnce == Spec => []SettleOnce
<1>1. Init => Pending /\ SettleOnce
  BY DEF Init, Pending, SettleOnce, Waiting
<1>2. TypeOK /\ Pending /\ SettleOnce /\ [Next]_vars => Pending' /\ SettleOnce'
  BY PendingStep
<1> QED
  BY <1>1, <1>2, TypeCorrect, PTL DEF Spec

-----------------------------------------------------------------------------
(***************************************************************************)
(* The phases of a connection.                                             *)
(***************************************************************************)

\* Every step of the websocket thread keeps the connection in one of its phases.
LEMMA ThreadPhases ==
    ASSUME TypeOK, Phases, NeverClosed, ThreadNext, UNCHANGED bcxVars
    PROVE  Phases' /\ NeverClosed'
<1> USE DEF Phases, NeverClosed, bcxVars, Waiting, NoCreate, Over
<1>1. CASE ThreadStarted
  BY <1>1 DEF ThreadStarted, Idle, Requested, Running, CloseOnItsWay, RejectingAll,
              TimerRunning, CloseLost, Quiet, Connecting, Opened, Breaking
<1>2. CASE OpenedLock
  BY <1>2 DEF OpenedLock, Idle, Requested, Running, CloseOnItsWay, RejectingAll,
              TimerRunning, CloseLost, Quiet, Connecting, Opened, Breaking
<1>3. CASE OpenPost
  <2>1. netStatus # "unset" /\ Running /\ readyState = "OPEN"
    BY <1>3 DEF OpenPost, Idle, Requested, Running, CloseOnItsWay, RejectingAll,
              TimerRunning, CloseLost, Quiet, Connecting, Opened, Breaking
  <2>2. /\ Has(functions', "close") <=> Has(functions, "close")
        /\ Has(functions', "error") <=> Has(functions, "error")
    <3>1. functions' = Append(functions, Event("open")) /\ functions \in Seq(Events)
      BY <1>3 DEF OpenPost, Post, TypeOK, SockTypeOK
    <3>2. Event("open").ev = "open"
      BY DEF Event
    <3> QED
      BY <3>1, <3>2, HasAppend
  <2> QED
    BY <1>3, <2>1, <2>2 DEF OpenPost, Post, Running, Opened
<1>4. CASE ErrorLock
  BY <1>4 DEF ErrorLock, Idle, Requested, Running, CloseOnItsWay, RejectingAll,
              TimerRunning, CloseLost, Quiet, Connecting, Opened, Breaking
<1>5. CASE ErrorPost
  <2>1. netStatus # "unset" /\ Running /\ readyState = "CLOSING" /\ wsi \in {"none", "dying"}
    BY <1>5 DEF ErrorPost, Idle, Requested, Running, CloseOnItsWay, RejectingAll,
              TimerRunning, CloseLost, Quiet, Connecting, Opened, Breaking
  <2>2. Has(functions', "close") <=> Has(functions, "close")
    <3>1. functions' = Append(functions, Event("error")) /\ functions \in Seq(Events)
      BY <1>5 DEF ErrorPost, Post, TypeOK, SockTypeOK
    <3>2. Event("error").ev = "error"
      BY DEF Event
    <3> QED
      BY <3>1, <3>2, HasAppend
  <2> QED
    BY <1>5, <2>1, <2>2 DEF ErrorPost, Post, Running, Breaking
<1>6. CASE ClosedLock
  BY <1>6 DEF ClosedLock, Idle, Requested, Running, CloseOnItsWay, RejectingAll,
              TimerRunning, CloseLost, Quiet, Connecting, Opened, Breaking
<1>7. CASE ClosePost
  <2>1. netStatus # "unset" /\ Running /\ readyState = "CLOSED" /\ wsi \in {"none", "dying"}
    BY <1>7 DEF ClosePost, Idle, Requested, Running, CloseOnItsWay, RejectingAll,
              TimerRunning, CloseLost, Quiet, Connecting, Opened, Breaking
  <2>2. functions' = Append(functions, Event("close")) /\ functions \in Seq(Events)
    BY <1>7 DEF ClosePost, Post, TypeOK, SockTypeOK
  <2>3. functions' # <<>> /\ functions'[Len(functions')].ev = "close"
    <3>1. Len(functions') = Len(functions) + 1 /\ Len(functions) \in Nat
      BY <2>2
    <3>2. functions'[Len(functions) + 1] = Event("close")
      BY <2>2
    <3>3. Event("close").ev = "close"
      BY DEF Event
    <3> QED
      BY <2>2, <3>1, <3>2, <3>3
  <2>4. NoneBut(functions', "close") /\ NoneBut(batch, "close")
    BY <2>1, <2>2 DEF Running, Has, NoneBut, TypeOK, SockTypeOK
  <2> QED
    BY <1>7, <2>1, <2>3, <2>4 DEF ClosePost, Post, Running, CloseOnItsWay
<1>8. CASE NotifyRound
  BY <1>8 DEF NotifyRound, Idle, Requested, Running, CloseOnItsWay, RejectingAll,
              TimerRunning, CloseLost, Quiet, Connecting, Opened, Breaking
<1>9. CASE AsyncSet
  BY <1>9 DEF AsyncSet, Idle, Requested, Running, CloseOnItsWay, RejectingAll,
              TimerRunning, CloseLost, Quiet, Connecting, Opened, Breaking
<1>10. CASE AsyncLock
  BY <1>10 DEF AsyncLock, Idle, Requested, Running, CloseOnItsWay, RejectingAll,
              TimerRunning, CloseLost, Quiet, Connecting, Opened, Breaking
<1>11. CASE OpenRequest
  <2>1. netStatus # "unset" /\ Requested /\ wsi = "none"
    BY <1>11 DEF OpenRequest, HasCreate, Idle, Requested, Running, CloseOnItsWay, RejectingAll,
              TimerRunning, CloseLost
  <2>2. NoCreate'
    BY <1>11, <2>1, DropLastCreate DEF OpenRequest, Requested, TypeOK, SockTypeOK
  <2> QED
    BY <1>11, <2>1, <2>2 DEF OpenRequest, Requested, Running, Connecting, Has, Quiet
<1>12. CASE Established
  BY <1>12 DEF Established, Callback, Idle, Requested, Running, CloseOnItsWay, RejectingAll,
              TimerRunning, CloseLost, Quiet, Connecting, Opened, Breaking
<1>13. CASE ConnectionError
  BY <1>13 DEF ConnectionError, Callback, Idle, Requested, Running, CloseOnItsWay, RejectingAll,
              TimerRunning, CloseLost, Quiet, Connecting, Opened, Breaking
<1>14. CASE Disconnect
  BY <1>14 DEF Disconnect, Idle, Requested, Running, CloseOnItsWay, RejectingAll,
              TimerRunning, CloseLost, Quiet, Connecting, Opened, Breaking
<1>15. CASE DestroyWsi
  BY <1>15 DEF DestroyWsi, Callback, Idle, Requested, Running, CloseOnItsWay, RejectingAll,
              TimerRunning, CloseLost, Quiet, Connecting, Opened, Breaking
<1>16. CASE ReceivePart
  BY <1>16 DEF ReceivePart, Idle, Requested, Running, CloseOnItsWay, RejectingAll,
              TimerRunning, CloseLost, Quiet, Connecting, Opened, Breaking
<1>17. CASE Receive
  <2>1. PICK m \in ServerMessages : ReceiveFinal(m)
    BY <1>17 DEF Receive
  <2>2. netStatus # "unset" /\ Running
    BY <2>1 DEF ReceiveFinal, Idle, Requested, CloseOnItsWay, RejectingAll,
              TimerRunning, CloseLost
  <2>3. PICK e : functions' = Append(functions, e) /\ e.ev = "message"
    BY <2>1 DEF ReceiveFinal, ServerMessages, Message
  <2>4. /\ Has(functions', "close") <=> Has(functions, "close")
        /\ Has(functions', "error") <=> Has(functions, "error")
    BY <2>3, HasAppend DEF TypeOK, SockTypeOK
  <2> QED
    BY <2>1, <2>2, <2>4 DEF ReceiveFinal, Running, Connecting, Opened, Breaking
<1>18. CASE WritableClosing
  BY <1>18 DEF WritableClosing, Writable, Idle, Requested, Running, CloseOnItsWay, RejectingAll,
              TimerRunning, CloseLost, Quiet, Connecting, Opened, Breaking
<1>19. CASE WritableSend \/ WritableError
  <2>1. netStatus # "unset" /\ Running /\ wsi = "established" /\ thread = "loop" /\ readyState = "OPEN"
    BY <1>19 DEF WritableSend, WritableError, Writable, Idle, Requested, Running,
              CloseOnItsWay, RejectingAll, TimerRunning, CloseLost, Connecting, Opened, Breaking
  <2>2. NoCreate' /\ ~IsCreate(Head(queue))
    BY <1>19, <2>1, WriteNoCreate DEF Running, TypeOK
  <2> QED
    BY <1>19, <2>1, <2>2 DEF WritableSend, WritableError, Running, Opened
<1> QED
  BY <1>1, <1>2, <1>3, <1>4, <1>5, <1>6, <1>7, <1>8, <1>9, <1>10, <1>11, <1>12,
     <1>13, <1>14, <1>15, <1>16, <1>17, <1>18, <1>19
     DEF ThreadNext, ThreadGoesOn

\* Every step of the UI thread keeps the connection in one of its phases.
LEMMA UiPhases ==
    ASSUME TypeOK, Phases, NeverClosed, Pending, AppNext \/ SendNext \/ PoolNext
    PROVE  Phases' /\ NeverClosed'
<1> USE DEF Phases, NeverClosed, NoCreate, Over
<1>1. ASSUME SocketInit PROVE queue' # <<>> /\ IsCreate(queue'[Len(queue')])
                              /\ (NoCreate => \A i \in 1..(Len(queue') - 1) : ~IsCreate(queue'[i]))
  BY <1>1, InitQueues DEF TypeOK
<1>2. CASE AppInit
  <2>1. Idle
    BY <1>2 DEF AppInit
  <2> QED
    BY <1>1, <1>2, <2>1 DEF AppInit, SocketInit, Idle, Requested, Quiet, Waiting
<1>3. ASSUME NEW b \in BOOLEAN, SendCall(b) PROVE Phases' /\ NeverClosed'
  BY <1>3 DEF SendCall, Idle, Requested, Running, CloseOnItsWay, RejectingAll,
              TimerRunning, CloseLost, Opened
<1>4. CASE SendCallClosed
  BY <1>4 DEF SendCallClosed, sockVars, Idle, Requested, Running, CloseOnItsWay,
              RejectingAll, TimerRunning, CloseLost, Waiting, Quiet, Connecting, Opened, Breaking
<1>5. CASE SendNext
  <2>1. CASE SendCheck /\ UNCHANGED bcxVars
    BY <2>1 DEF SendCheck, bcxVars, Idle, Requested, Running, CloseOnItsWay,
              RejectingAll, TimerRunning, CloseLost, Waiting, Quiet, Connecting, Opened, Breaking
  <2>2. CASE SendPush /\ UNCHANGED bcxVars
    <3>1. NoCreate => NoCreate'
      BY <2>2, PushNoCreate DEF TypeOK
    <3> QED
      BY <2>2, <3>1 DEF SendPush, bcxVars, Idle, Requested, Running, CloseOnItsWay,
              RejectingAll, TimerRunning, CloseLost, Waiting, Quiet, Connecting, Opened, Breaking
  <2> QED
    BY <1>5, <2>1, <2>2 DEF SendNext
<1>6. ASSUME NEW d \in Calls, TimerLateReject(d) PROVE Phases' /\ NeverClosed'
  BY <1>6 DEF TimerLateReject, sockVars, Idle, Requested, Running, CloseOnItsWay,
              RejectingAll, TimerRunning, CloseLost, Waiting, Quiet, Connecting, Opened, Breaking
<1>7. CASE TimerReconnect
  <2>1. netStatus # "unset" /\ TimerRunning
    BY <1>7 DEF TimerReconnect, Idle, Requested, Running, CloseOnItsWay, RejectingAll, CloseLost
  <2> QED
    BY <1>1, <1>7, <2>1 DEF TimerReconnect, SocketInit, TimerRunning, Requested, Quiet, Waiting
<1>8. CASE PoolTakeBatch
  <2>1. netStatus # "unset" /\ (Running \/ CloseOnItsWay)
    BY <1>8 DEF PoolTakeBatch, TakeBatch, Idle, Requested, RejectingAll, TimerRunning,
              CloseLost, Quiet
  <2>2. \A ev : ~Has(<<>>, ev) /\ NoneBut(<<>>, ev)
    BY DEF Has, NoneBut
  <2> QED
    BY <1>8, <2>1, <2>2 DEF PoolTakeBatch, TakeBatch, bcxVars, Running, CloseOnItsWay,
              Waiting, Connecting, Opened, Breaking
<1>9. ASSUME Delivers("close")
      PROVE  /\ netStatus # "unset" /\ CloseOnItsWay
             /\ functions = <<>> /\ Tail(batch) = <<>>
  <2>1. batch \in Seq(Events) /\ batch # <<>> /\ Has(batch, "close")
    BY <1>9, HasTail DEF Delivers, TypeOK, SockTypeOK
  <2>2. netStatus # "unset" /\ CloseOnItsWay
    BY <2>1 DEF Idle, Requested, Running, RejectingAll, TimerRunning, CloseLost, Quiet
  <2> QED
    BY <1>9, <2>1, <2>2, HasTail DEF CloseOnItsWay, Delivers
<1>10. ASSUME PopEvent, ~Delivers("close"), Polling, UNCHANGED reconnects,
              netStatus # "unset" => netStatus' # "unset",
              rejecting' = "no"  \/ (rejecting' = "error" /\ Delivers("error")),
              Waiting' \subseteq Waiting
       PROVE  Phases' /\ NeverClosed'
  <2>1. batch \in Seq(Events) /\ batch # <<>> /\ batch' = Tail(batch) /\ Head(batch).ev # "close"
    BY <1>10 DEF PopEvent, Delivers, TypeOK, SockTypeOK
  <2>2. /\ \A ev : Has(batch', ev) => Has(batch, ev)
        /\ NoneBut(batch, "close") => NoneBut(batch', "close")
        /\ batch[Len(batch)].ev = "close" => batch' # <<>> /\ batch'[Len(batch')].ev = "close"
        /\ Delivers("error") => Has(batch, "error")
    BY <2>1, HasTail DEF Delivers
  <2>3. CASE netStatus # "unset" /\ Running
    BY <1>10, <2>2, <2>3 DEF PopEvent, Running, Connecting, Opened, Breaking
  <2>4. CASE netStatus # "unset" /\ CloseOnItsWay
    BY <1>10, <2>2, <2>4 DEF PopEvent, CloseOnItsWay
  <2> QED
    BY <2>1, <2>3, <2>4 DEF Idle, Requested, RejectingAll, TimerRunning, CloseLost, Quiet
<1>11. CASE OnOpen
  BY <1>10, <1>11 DEF OnOpen, NetStatus, Delivers, Polling, Waiting
<1>12. CASE OnClose
  BY <1>9, <1>12 DEF OnClose, OnDown, NetStatus, PopEvent, Idle, CloseOnItsWay, RejectingAll,
                     Quiet
<1>13. CASE OnError
  BY <1>10, <1>13 DEF OnError, OnDown, NetStatus, Delivers, Polling, Waiting
<1>14. ASSUME NEW d \in Calls, RejectOne(d) PROVE Phases' /\ NeverClosed'
  BY <1>14 DEF RejectOne, sockVars, Idle, Requested, Running, CloseOnItsWay,
              RejectingAll, TimerRunning, CloseLost, Waiting, Quiet, Connecting, Opened,
              Breaking, Pending
<1>15. CASE RejectDone
  BY <1>15 DEF RejectDone, sockVars, Idle, Requested, Running, CloseOnItsWay,
              RejectingAll, TimerRunning, CloseLost, Waiting, Quiet, Connecting, Opened, Breaking
<1>16. CASE OnCall
  BY <1>10, <1>16 DEF OnCall, DeliversMessage, Delivers, Polling, Waiting, RemoveCallback
<1>17. CASE OnNotice
  BY <1>10, <1>17 DEF OnNotice, DeliversMessage, Delivers, Polling, Waiting, RemoveCallback
<1>18. CASE OnIgnored
  BY <1>10, <1>18 DEF OnIgnored, DeliversMessage, Delivers, Polling, Waiting, bcxVars
<1>19. CASE OnBad
  <2>1. netStatus # "unset" /\ (Running \/ CloseOnItsWay)
    BY <1>19 DEF OnBad, DeliversMessage, Delivers, Idle, Requested, RejectingAll,
              TimerRunning, CloseLost, Quiet
  <2>2. \A ev : ~Has(<<>>, ev) /\ NoneBut(<<>>, ev)
    BY DEF Has, NoneBut
  <2> QED
    BY <1>19, <2>1, <2>2 DEF OnBad, DeliversMessage, Delivers, Polling, Running,
              CloseOnItsWay, CloseLost, Quiet, Waiting, Connecting, Opened, Breaking
<1> QED
  BY <1>2, <1>3, <1>4, <1>5, <1>6, <1>7, <1>8, <1>11, <1>12, <1>13, <1>14, <1>15,
     <1>16, <1>17, <1>18, <1>19
     DEF AppNext, PoolNext, OnMessage

\* Inv and the types are an inductive invariant of the client.
THEOREM Invariance == Spec => [](TypeOK /\ Inv /\ SettleOnce)
<1>1. Init => Inv /\ SettleOnce
  BY DEF Init, SockInit, Inv, Phases, Idle, Quiet, NoCreate, Waiting, Pending,
         NeverClosed, SettleOnce
<1>2. TypeOK /\ Inv /\ SettleOnce /\ [Next]_vars => Inv' /\ SettleOnce'
  <2> SUFFICES ASSUME TypeOK, Inv, SettleOnce, [Next]_vars PROVE Inv' /\ SettleOnce'
    OBVIOUS
  <2>1. Pending' /\ SettleOnce'
    BY PendingStep DEF Inv
  <2>2. CASE AppNext \/ SendNext \/ PoolNext
    BY <2>1, <2>2, UiPhases DEF Inv
  <2>3. CASE ThreadNext /\ UNCHANGED bcxVars
    BY <2>1, <2>3, ThreadPhases DEF Inv
  <2>4. CASE UNCHANGED vars
    BY <2>1, <2>4
       DEF vars, sockVars, bcxVars, Inv, Phases, Idle, Requested, Running, CloseOnItsWay,
           RejectingAll, TimerRunning, CloseLost, Over, Quiet, NoCreate, Waiting, Connecting,
           Opened, Breaking, NeverClosed
  <2> QED
    BY <2>2, <2>3, <2>4 DEF Next
<1> QED
  BY <1>1, <1>2, TypeCorrect, PTL DEF Spec

\* onError and onClose reject all requests only while the socket is not open.
THEOREM RejectsWhenDown == Spec => []NoInsertWhileRejecting
<1>1. TypeOK /\ Inv => NoInsertWhileRejecting
  BY DEF TypeOK, Inv, Phases, Idle, Requested, Running, CloseOnItsWay, RejectingAll,
         TimerRunning, CloseLost, Over, NoInsertWhileRejecting
<1> QED
  BY <1>1, Invariance, PTL

\* No request waits for the answer of a connection that is gone.
THEOREM NoRequestStranded == Spec => []NoStrandedRequest
<1>1. Inv => NoStrandedRequest
  BY DEF Inv, Phases, Idle, Requested, Running, CloseOnItsWay, RejectingAll,
         TimerRunning, CloseLost, Over, NoStrandedRequest, HasCreate, NoCreate
<1> QED
  BY <1>1, Invariance, PTL

\* The websocket thread never takes a request to connect for a message to send.
THEOREM NeverCrashes == Spec => []NoCrash
<1>1. Inv => NoCrash
  BY DEF Inv, Phases, Idle, Requested, Running, CloseOnItsWay, RejectingAll,
         TimerRunning, CloseLost, Over, Connecting, Opened, Breaking, NoCrash
<1> QED
  BY <1>1, Invariance, PTL

\* No promise is forgotten: what is not settled is in a map or in a timer.  It needs
\* RejectsWhenDown: a promise added inside _rejectAllRqeuest would be cleared away.
THEOREM NoRequestLost == Spec => []NoLostRequest
<1>1. Init => NoLostRequest
  BY DEF Init, NoLostRequest
<1>2. ASSUME TypeOK, Inv, SettleOnce, NoInsertWhileRejecting, NoLostRequest, [Next]_vars
      PROVE  NoLostRequest'
  <2> USE DEF NoLostRequest, NoInsertWhileRejecting, Waiting, TypeOK
  <2>0. Pending
    BY <1>2 DEF Inv
  <2>1. ASSUME UNCHANGED <<callbackMap, outcome, rejecting, rej, late>>
        PROVE  NoLostRequest'
    BY <1>2, <2>1
  <2>2. ASSUME NEW b \in BOOLEAN, SendCall(b) PROVE NoLostRequest'
    BY <1>2, <2>2 DEF SendCall
  <2>3. CASE SendCallClosed
    BY <1>2, <2>3 DEF SendCallClosed
  <2>4. ASSUME NEW d \in Calls, TimerLateReject(d) PROVE NoLostRequest'
    BY <1>2, <2>4 DEF TimerLateReject, Settled
  <2>5. CASE OnClose \/ OnError
    BY <1>2, <2>5 DEF OnClose, OnError, OnDown, Delivers, Polling
  <2>6. ASSUME NEW d \in Calls, RejectOne(d) PROVE NoLostRequest'
    BY <1>2, <2>0, <2>6 DEF RejectOne, Settled, Pending
  <2>7. CASE RejectDone
    BY <1>2, <2>7 DEF RejectDone, Settled
  <2>8. CASE OnCall
    BY <1>2, <2>8 DEF OnCall, Settled, RemoveCallback, DeliversMessage, Delivers, Polling
  <2>9. CASE OnNotice
    BY <1>2, <2>9 DEF OnNotice, Settled, RemoveCallback, DeliversMessage, Delivers, Polling
  <2>10. CASE AppInit \/ SendNext \/ TimerReconnect \/ PoolTakeBatch \/ OnOpen
              \/ OnIgnored \/ OnBad \/ (ThreadNext /\ UNCHANGED bcxVars) \/ UNCHANGED vars
    BY <2>1, <2>10 DEF AppInit, SendNext, TimerReconnect, PoolTakeBatch, OnOpen,
                       OnIgnored, OnBad, vars, bcxVars
  <2> QED
    BY <1>2, <2>2, <2>3, <2>4, <2>5, <2>6, <2>7, <2>8, <2>9, <2>10
       DEF Next, AppNext, PoolNext, OnMessage
<1> QED
  BY <1>1, <1>2, Invariance, RejectsWhenDown, PTL DEF Spec

-----------------------------------------------------------------------------
(***************************************************************************)
(* One connection at a time.                                               *)
(***************************************************************************)

\* A queue of events without a close event counts none, and one whose only close
\* event is its last counts one.
LEMMA CountClose ==
    ASSUME NEW s \in Seq(Events)
    PROVE  /\ ~Has(s, "close") => NumClose(s) = 0
           /\ s = <<>> => NumClose(s) = 0
           /\ s # <<>> /\ NoneBut(s, "close") /\ s[Len(s)].ev = "close" => NumClose(s) = 1
<1> DEFINE C == {i \in 1..Len(s) : s[i].ev = "close"}
<1>1. ASSUME ~Has(s, "close") PROVE NumClose(s) = 0
  <2>1. C = {}
    BY <1>1 DEF Has
  <2> QED
    BY <2>1, FS_EmptySet DEF NumClose
<1>2. ASSUME s # <<>>, NoneBut(s, "close"), s[Len(s)].ev = "close" PROVE NumClose(s) = 1
  <2>1. Len(s) \in Nat \ {0}
    BY <1>2
  <2>2. C = {Len(s)}
    BY <1>2, <2>1 DEF NoneBut
  <2> QED
    BY <2>2, FS_Singleton DEF NumClose
<1>3. ~Has(<<>>, "close")
  BY DEF Has
<1> QED
  BY <1>1, <1>2, <1>3

\* The same for the requests to connect in the queue of the websocket thread.
LEMMA CountCreate ==
    ASSUME NEW S, NEW q \in Seq(S)
    PROVE  LET C == {i \in 1..Len(q) : IsCreate(q[i])}
           IN  /\ (\A i \in 1..Len(q) : ~IsCreate(q[i])) => Cardinality(C) = 0
               /\ q # <<>> /\ IsCreate(q[Len(q)]) /\ (\A i \in 1..(Len(q) - 1) : ~IsCreate(q[i]))
                    => Cardinality(C) = 1
<1> DEFINE C == {i \in 1..Len(q) : IsCreate(q[i])}
<1>1. ASSUME \A i \in 1..Len(q) : ~IsCreate(q[i]) PROVE Cardinality(C) = 0
  <2>1. C = {}
    BY <1>1
  <2> QED
    BY <2>1, FS_EmptySet
<1>2. ASSUME q # <<>>, IsCreate(q[Len(q)]), \A i \in 1..(Len(q) - 1) : ~IsCreate(q[i])
      PROVE  Cardinality(C) = 1
  <2>1. Len(q) \in Nat \ {0}
    BY <1>2
  <2>2. C = {Len(q)}
    BY <1>2, <2>1
  <2> QED
    BY <2>2, FS_Singleton
<1> QED
  BY <1>1, <1>2

\* The client is alive in one way at most: one broken connection starts one timer,
\* one timer one connection, although onError and onClose are both called.
THEOREM OneConnectionAtATime == Spec => []OneConnection
<1>1. ASSUME TypeOK, Inv PROVE OneConnection
  <2> DEFINE creates == Cardinality({i \in 1..Len(queue) : IsCreate(queue[i])})
  <2>1. queue \in Seq(WsMessages) /\ functions \in Seq(Events) /\ batch \in Seq(Events)
    BY <1>1 DEF TypeOK, SockTypeOK
  <2>2. Quiet => NumClose(functions) = 0 /\ NumClose(batch) = 0
    BY <2>1, CountClose DEF Quiet
  <2>3. NoCreate => creates = 0
    BY <2>1, CountCreate DEF NoCreate
  <2> HIDE DEF creates
  <2>4. OneConnection <=>
          creates + (IF wsi \in {"connecting", "established"} THEN 1 ELSE 0)
          + (IF thread = "closePost" THEN 1 ELSE 0)
          + NumClose(functions) + NumClose(batch)
          + (IF rejecting = "close" THEN 1 ELSE 0) + reconnects <= 1
    BY DEF OneConnection, Lives, creates
  <2>5. CASE Idle
    BY <2>2, <2>3, <2>4, <2>5 DEF Idle
  <2>6. CASE Requested
    <3>1. creates = 1
      BY <2>1, <2>6, CountCreate DEF Requested, creates
    <3> QED
      BY <2>2, <2>4, <2>6, <3>1 DEF Requested, Over
  <2>7. CASE Running
    <3>1. NumClose(functions) = 0 /\ NumClose(batch) = 0
      BY <2>1, <2>7, CountClose DEF Running
    <3>2. thread = "closePost" => wsi \in {"none", "dying"}
      BY <2>7 DEF Running, Connecting, Opened, Breaking
    <3> QED
      BY <2>3, <2>4, <2>7, <3>1, <3>2 DEF Running
  <2>8. CASE CloseOnItsWay
    <3>1. \/ NumClose(functions) = 0 /\ NumClose(batch) = 1
          \/ NumClose(functions) = 1 /\ NumClose(batch) = 0
      BY <2>1, <2>8, CountClose DEF CloseOnItsWay
    <3> QED
      BY <2>3, <2>4, <2>8, <3>1 DEF CloseOnItsWay, Over
  <2>9. CASE RejectingAll
    BY <2>2, <2>3, <2>4, <2>9 DEF RejectingAll, Over
  <2>10. CASE TimerRunning
    BY <2>2, <2>3, <2>4, <2>10 DEF TimerRunning, Over
  <2>11. CASE CloseLost
    BY <2>2, <2>3, <2>4, <2>11 DEF CloseLost, Over
  <2> QED
    BY <1>1, <2>5, <2>6, <2>7, <2>8, <2>9, <2>10, <2>11 DEF Inv, Phases
<1> QED
  BY <1>1, Invariance, PTL

-----------------------------------------------------------------------------
(***************************************************************************)
(* Messages in the order of the calls.                                     *)
(***************************************************************************)

\* The ids of the messages, queued, written or on their way, are numbers.
LEMMA IdsAreNumbers ==
    ASSUME TypeOK
    PROVE  /\ Calls \subseteq Nat /\ counter \in Nat /\ sending \in Nat
           /\ queue \in Seq(WsMessages) /\ sent \in Seq(Calls)
           /\ \A i \in 1..Len(sent) : sent[i] \in Nat
           /\ \A j \in 1..Len(queue) : queue[j].id \in Nat
<1>1. /\ Calls \subseteq Nat /\ counter \in Nat /\ sending \in Nat
      /\ queue \in Seq(WsMessages) /\ sent \in Seq(Calls)
  BY WebSocketAssumption DEF TypeOK, SockTypeOK, Calls
<1>2. \A i \in 1..Len(sent) : sent[i] \in Calls
  BY <1>1, ElementOfSeq
<1>3. \A j \in 1..Len(queue) : queue[j] \in WsMessages
  BY <1>1, ElementOfSeq
<1>4. ASSUME NEW m \in WsMessages PROVE m.id \in Nat
  <2>1. CASE m = CreateMsg
    BY <2>1 DEF CreateMsg
  <2>2. CASE \E d \in Calls, n \in 1..MaxFrags : m = StringMsg(d, n)
    BY <1>1, <2>2 DEF StringMsg
  <2> QED
    BY <2>1, <2>2 DEF WsMessages
<1> QED
  BY <1>1, <1>2, <1>3, <1>4

\* The order of the messages depends on nothing but these variables.
LEMMA OrderedFrame ==
    ASSUME TypeOK, Ordered, UNCHANGED <<queue, sent, sending>>,
           ui' \in {"send", "push"} => ui \in {"send", "push"},
           counter' \in Nat, counter <= counter'
    PROVE  Ordered'
<1>1. /\ counter \in Nat /\ sending \in Nat
      /\ \A i \in 1..Len(sent) : sent[i] \in Nat
      /\ \A j \in 1..Len(queue) : queue[j].id \in Nat
  BY IdsAreNumbers
<1>2. SentInOrder' /\ QueueInOrder' /\ SentBeforeQueued' /\ SendingLast'
  BY DEF Ordered, SentInOrder, QueueInOrder, SentBeforeQueued, SendingLast
<1>3. IdsCounted'
  BY <1>1 DEF Ordered, IdsCounted
<1> QED
  BY <1>2, <1>3 DEF Ordered

\* Every step keeps what is queued and what is about to be queued in the order of
\* the calls: a new call has the highest id, and goes to the end of the queue.
LEMMA OrderedStep ==
    ASSUME TypeOK, TypeOK', Inv, Ordered, [Next]_vars
    PROVE  Ordered'
<1>1. /\ Calls \subseteq Nat /\ counter \in Nat /\ counter' \in Nat /\ sending \in Nat
      /\ queue \in Seq(WsMessages) /\ sent \in Seq(Calls)
  BY IdsAreNumbers DEF TypeOK
<1>2. /\ \A i \in 1..Len(sent) : sent[i] \in Nat
      /\ \A j \in 1..Len(queue) : queue[j].id \in Nat
  BY IdsAreNumbers
<1>3. ASSUME UNCHANGED <<queue, sent, sending, counter>>,
             ui' \in {"send", "push"} => ui \in {"send", "push"}
      PROVE  Ordered'
  BY <1>1, <1>3, OrderedFrame
<1>4. ASSUME SocketInit, counter' = counter PROVE Ordered'
  <2>1. queue' = Append(queue, CreateMsg) /\ UNCHANGED <<sent, sending, ui>>
    BY <1>4 DEF SocketInit
  <2>2. /\ Len(queue') = Len(queue) + 1 /\ Len(queue) \in Nat
        /\ queue'[Len(queue) + 1] = CreateMsg
        /\ \A i \in 1..Len(queue) : queue'[i] = queue[i]
    BY <1>1, <2>1
  <2>3. IsCreate(CreateMsg) /\ CreateMsg.id = 0
    BY DEF IsCreate, CreateMsg
  <2>4. ui \in {"send", "push"} => 0 < sending
    BY <1>1 DEF TypeOK, SockTypeOK
  <2>5. \A j \in 1..Len(queue') :
          \/ j \in 1..Len(queue) /\ queue'[j] = queue[j]
          \/ j = Len(queue) + 1 /\ IsCreate(queue'[j]) /\ queue'[j].id = 0
    BY <2>2, <2>3
  <2>6. QueueInOrder' /\ SentBeforeQueued' /\ SentInOrder'
    BY <2>1, <2>2, <2>5 DEF Ordered, QueueInOrder, SentBeforeQueued, SentInOrder
  <2>7. SendingLast' /\ IdsCounted'
    BY <1>1, <1>4, <2>1, <2>4, <2>5 DEF Ordered, SendingLast, IdsCounted
  <2> QED
    BY <2>6, <2>7 DEF Ordered
<1>5. ASSUME UNCHANGED <<sockVars, counter>> PROVE Ordered'
  BY <1>3, <1>5 DEF sockVars
<1>6. ASSUME PopEvent, counter' = counter PROVE Ordered'
  BY <1>3, <1>6 DEF PopEvent
<1>7. CASE AppInit \/ TimerReconnect
  BY <1>4, <1>7 DEF AppInit, TimerReconnect
<1>8. ASSUME NEW b \in BOOLEAN, SendCall(b) PROVE Ordered'
  <2>1. /\ counter' = counter + 1 /\ sending' = counter + 1 /\ ui' = "send"
        /\ UNCHANGED <<queue, sent>>
    BY <1>8 DEF SendCall
  <2>2. SentInOrder' /\ QueueInOrder' /\ SentBeforeQueued'
    BY <2>1 DEF Ordered, SentInOrder, QueueInOrder, SentBeforeQueued
  <2>3. SendingLast' /\ IdsCounted'
    BY <1>1, <1>2, <2>1 DEF Ordered, SendingLast, IdsCounted
  <2> QED
    BY <2>2, <2>3 DEF Ordered
<1>9. CASE SendCallClosed
  BY <1>1, <1>9, OrderedFrame DEF SendCallClosed, sockVars
<1>10. CASE SendNext
  <2>1. CASE SendCheck /\ UNCHANGED bcxVars
    BY <1>1, <2>1 DEF SendCheck, bcxVars, Ordered, SentInOrder, QueueInOrder, SentBeforeQueued,
                      SendingLast, IdsCounted
  <2>2. CASE SendPush /\ UNCHANGED bcxVars
    <3>1. PICK n \in 1..MaxFrags : queue' = Append(queue, StringMsg(sending, n))
      BY <2>2 DEF SendPush
    <3>2. StringMsg(sending, n).id = sending
      BY DEF StringMsg
    <3>3. /\ Len(queue') = Len(queue) + 1 /\ Len(queue) \in Nat
          /\ queue'[Len(queue) + 1] = StringMsg(sending, n)
          /\ \A i \in 1..Len(queue) : queue'[i] = queue[i]
      BY <1>1, <3>1
    <3>4. \A j \in 1..Len(queue') :
            \/ j \in 1..Len(queue) /\ queue'[j] = queue[j]
            \/ j = Len(queue) + 1 /\ queue'[j].id = sending
      BY <3>2, <3>3
    <3>5. ui = "push" /\ ui' = "app" /\ sending' = 0 /\ UNCHANGED <<sent, counter>>
      BY <2>2 DEF SendPush, bcxVars
    <3>6. QueueInOrder'
      BY <3>3, <3>4, <3>5 DEF Ordered, QueueInOrder, SendingLast
    <3>7. SentBeforeQueued' /\ SentInOrder'
      BY <3>4, <3>5 DEF Ordered, SentBeforeQueued, SendingLast, SentInOrder
    <3>8. SendingLast' /\ IdsCounted'
      BY <1>1, <3>4, <3>5 DEF Ordered, SendingLast, IdsCounted
    <3> QED
      BY <3>6, <3>7, <3>8 DEF Ordered
  <2> QED
    BY <1>10, <2>1, <2>2 DEF SendNext
<1>11. CASE PoolTakeBatch
  BY <1>3, <1>11 DEF PoolTakeBatch, TakeBatch, bcxVars
<1>12. CASE OnOpen \/ OnClose \/ OnError \/ OnCall \/ OnNotice \/ OnIgnored
  BY <1>6, <1>12 DEF OnOpen, OnClose, OnError, OnDown, OnCall, OnNotice, OnIgnored, bcxVars
<1>13. CASE OnBad
  BY <1>3, <1>13 DEF OnBad
<1>14. ASSUME NEW d \in Calls, TimerLateReject(d) \/ RejectOne(d) PROVE Ordered'
  BY <1>5, <1>14 DEF TimerLateReject, RejectOne
<1>15. CASE RejectDone
  BY <1>5, <1>15 DEF RejectDone
<1>16. CASE ThreadNext /\ UNCHANGED bcxVars
  <2>0. counter' = counter
    BY <1>16 DEF bcxVars
  <2>1. CASE OpenRequest
    <3>1. Requested
      BY <2>1 DEF OpenRequest, HasCreate, Inv, Phases, NoCreate, Idle, Requested, Running,
                  CloseOnItsWay, RejectingAll, TimerRunning, CloseLost
    <3>2. /\ Len(queue') = Len(queue) - 1 /\ Len(queue) \in Nat
          /\ \A k \in 1..(Len(queue) - 1) : queue'[k] = queue[k]
      BY <1>1, <2>1, <3>1, DropLastKeeps DEF OpenRequest, Requested
    <3>3. UNCHANGED <<sent, sending, ui>>
      BY <2>1 DEF OpenRequest
    <3> QED
      BY <1>1, <1>2, <2>0, <3>2, <3>3 DEF Ordered, SentInOrder, QueueInOrder, SentBeforeQueued,
                                          SendingLast, IdsCounted
  <2>2. ASSUME queue # <<>>, queue' = Tail(queue), UNCHANGED <<sending, ui>>,
               \/ sent' = sent
               \/ ~IsCreate(Head(queue)) /\ sent' = Append(sent, Head(queue).id)
        PROVE  Ordered'
    <3>1. /\ Len(queue') = Len(queue) - 1 /\ Len(queue) \in Nat \ {0}
          /\ \A k \in 1..(Len(queue) - 1) : queue'[k] = queue[k + 1]
          /\ Head(queue) = queue[1]
      BY <1>1, <2>2
    <3>2. QueueInOrder'
      <4> SUFFICES ASSUME NEW i \in 1..Len(queue'), NEW j \in 1..Len(queue'), i < j,
                          ~IsCreate(queue'[i]), ~IsCreate(queue'[j])
                   PROVE  queue'[i].id < queue'[j].id
        BY DEF QueueInOrder
      <4>1. i + 1 \in 1..Len(queue) /\ j + 1 \in 1..Len(queue) /\ i + 1 < j + 1
        BY <3>1
      <4>2. queue'[i] = queue[i + 1] /\ queue'[j] = queue[j + 1]
        BY <3>1
      <4> QED
        BY <4>1, <4>2 DEF Ordered, QueueInOrder
    <3>3. \A j \in 1..Len(queue') : \E k \in 1..Len(queue) : 1 < k /\ queue'[j] = queue[k]
      BY <3>1
    <3>4. CASE sent' = sent
      BY <1>1, <1>2, <2>0, <2>2, <3>2, <3>3, <3>4
         DEF Ordered, SentInOrder, SentBeforeQueued, SendingLast, IdsCounted
    <3>5. CASE ~IsCreate(Head(queue)) /\ sent' = Append(sent, Head(queue).id)
      <4>1. /\ Len(sent') = Len(sent) + 1 /\ Len(sent) \in Nat
            /\ sent'[Len(sent) + 1] = queue[1].id
            /\ \A i \in 1..Len(sent) : sent'[i] = sent[i]
        BY <1>1, <3>1, <3>5
      <4>2. \A i \in 1..Len(sent') :
              \/ i \in 1..Len(sent) /\ sent'[i] = sent[i]
              \/ i = Len(sent) + 1 /\ sent'[i] = queue[1].id
        BY <4>1
      <4>3. 1 \in 1..Len(queue) /\ ~IsCreate(queue[1])
        BY <3>1, <3>5
      <4>4. SentInOrder'
        BY <4>1, <4>2, <4>3 DEF Ordered, SentInOrder, SentBeforeQueued
      <4>5. SentBeforeQueued'
        BY <3>3, <4>2, <4>3 DEF Ordered, SentBeforeQueued, QueueInOrder
      <4>6. SendingLast' /\ IdsCounted'
        BY <2>0, <2>2, <3>3, <4>2, <4>3 DEF Ordered, SendingLast, IdsCounted
      <4> QED
        BY <3>2, <4>4, <4>5, <4>6 DEF Ordered
    <3> QED
      BY <2>2, <3>4, <3>5
  <2>3. CASE WritableError
    BY <2>2, <2>3 DEF WritableError
  <2>4. CASE WritableSend
    <3>1. CASE IsCreate(Head(queue))
      BY <1>3, <2>0, <2>4, <3>1 DEF WritableSend
    <3>2. CASE ~IsCreate(Head(queue)) /\ Head(queue).left = 1
      BY <2>2, <2>4, <3>2 DEF WritableSend
    <3>3. CASE ~IsCreate(Head(queue)) /\ Head(queue).left # 1
      <4> DEFINE m == StringMsg(Head(queue).id, Head(queue).left - 1)
      <4>1. queue' = <<m>> \o Tail(queue) /\ UNCHANGED <<sent, sending, ui>> /\ queue # <<>>
        BY <2>4, <3>3 DEF WritableSend
      <4>2. m.id = queue[1].id /\ ~IsCreate(m) /\ ~IsCreate(queue[1])
        BY <1>1, <3>3, <4>1 DEF StringMsg, IsCreate
      <4> HIDE DEF m
      <4>3. /\ Len(queue') = Len(queue) /\ Len(queue) \in Nat \ {0}
            /\ queue'[1] = m
            /\ \A j \in 1..Len(queue) : j # 1 => queue'[j] = queue[j]
        BY <1>1, <4>1
      <4>4. \A j \in 1..Len(queue) :
              queue'[j].id = queue[j].id /\ (IsCreate(queue'[j]) <=> IsCreate(queue[j]))
        BY <4>2, <4>3
      <4> QED
        BY <2>0, <4>1, <4>3, <4>4 DEF Ordered, SentInOrder, QueueInOrder, SentBeforeQueued,
                                      SendingLast, IdsCounted
    <3> QED
      BY <3>1, <3>2, <3>3
  <2>5. CASE NotifyRound
    BY <1>3, <2>0, <2>5 DEF NotifyRound
  <2>6. CASE UNCHANGED <<queue, sent, sending, ui>>
    BY <1>3, <2>0, <2>6
  <2> QED
    BY <1>16, <2>1, <2>3, <2>4, <2>5, <2>6
       DEF ThreadNext, ThreadGoesOn, ThreadStarted, OpenedLock, OpenPost, ErrorLock, ErrorPost,
           ClosedLock, ClosePost, Post, AsyncSet, AsyncLock, Established, ConnectionError,
           Disconnect, DestroyWsi, ReceivePart, Receive, ReceiveFinal, WritableClosing
<1>17. CASE UNCHANGED vars
  BY <1>5, <1>17 DEF vars, bcxVars
<1> QED
  BY <1>7, <1>8, <1>9, <1>10, <1>11, <1>12, <1>13, <1>14, <1>15, <1>16, <1>17
     DEF Next, AppNext, PoolNext, OnMessage

\* Messages leave in the order of the calls and none leaves twice.
THEOREM LeaveInOrder == Spec => []SentInOrder
<1>1. Init => Ordered
  BY DEF Init, SockInit, Ordered, SentInOrder, QueueInOrder, SentBeforeQueued, SendingLast,
         IdsCounted
<1>2. TypeOK /\ TypeOK' /\ Inv /\ Ordered /\ [Next]_vars => Ordered'
  BY OrderedStep
<1>3. Ordered => SentInOrder
  BY DEF Ordered
<1> QED
  BY <1>1, <1>2, <1>3, Invariance, PTL DEF Spec

-----------------------------------------------------------------------------
(***************************************************************************)
(* bcxws implements RequestLink.                                           *)
(***************************************************************************)

\* A broadcast that waits for its notice waits in callbackMap too: the second loop
\* of _rejectAllRqeuest never finds a promise that the first did not reject.
LEMMA NoticesWaitStep ==
    ASSUME TypeOK, Inv, NoInsertWhileRejecting, NoticesWait, [Next]_vars
    PROVE  NoticesWait'
<1> USE DEF NoticesWait, Waiting
<1>0. rejecting = "no" => rej = {}
  BY DEF Inv, Pending
<1>1. ASSUME UNCHANGED <<callbackMap, noticeMap, rejecting, rej>> PROVE NoticesWait'
  BY <1>1
<1>2. ASSUME NEW b \in BOOLEAN, SendCall(b) PROVE NoticesWait'
  BY <1>2 DEF SendCall, NoInsertWhileRejecting
<1>3. CASE OnClose \/ OnError
  BY <1>3 DEF OnClose, OnError, OnDown, Delivers, Polling, TypeOK
<1>4. ASSUME NEW d \in Calls, RejectOne(d) PROVE NoticesWait'
  BY <1>0, <1>4 DEF RejectOne
<1>5. CASE RejectDone
  BY <1>5 DEF RejectDone
<1>6. CASE OnCall
  BY <1>6 DEF OnCall, RemoveCallback, DeliversMessage, Delivers, Polling
<1>7. CASE OnNotice
  BY <1>7 DEF OnNotice, RemoveCallback, DeliversMessage, Delivers, Polling
<1>8. ASSUME NEW d \in Calls, TimerLateReject(d) PROVE NoticesWait'
  BY <1>1, <1>8 DEF TimerLateReject
<1>9. CASE AppInit \/ SendCallClosed \/ SendNext \/ TimerReconnect \/ PoolTakeBatch \/ OnOpen
           \/ OnIgnored \/ OnBad \/ (ThreadNext /\ UNCHANGED bcxVars) \/ UNCHANGED vars
  BY <1>1, <1>9 DEF AppInit, SendCallClosed, SendNext, TimerReconnect, PoolTakeBatch, OnOpen,
                    OnIgnored, OnBad, vars, bcxVars
<1> QED
  BY <1>2, <1>3, <1>4, <1>5, <1>6, <1>7, <1>8, <1>9 DEF Next, AppNext, PoolNext, OnMessage

\* A step of the websocket thread is a step of the link going up or down, or none:
\* the link goes up only when nobody waits for an answer of the last connection.
LEMMA ThreadKeepsLink ==
    ASSUME TypeOK, Inv, ThreadNext, UNCHANGED bcxVars
    PROVE  Link!LinkUp \/ Link!LinkDown \/ UNCHANGED Link!linkVars
<1>1. UNCHANGED <<Waiting, outcome>>
  BY DEF bcxVars, Waiting
<1>2. CASE UNCHANGED readyState
  BY <1>1, <1>2 DEF Link!linkVars
<1>3. CASE OpenedLock
  <2>1. readyState' = "OPEN" => Waiting = {} \/ readyState = "OPEN"
    BY <1>3 DEF OpenedLock, Inv, Phases, Idle, Requested, Running, CloseOnItsWay, RejectingAll,
                TimerRunning, CloseLost, Over, Opened, Breaking
  <2>2. readyState' = readyState \/ readyState' = "OPEN"
    BY <1>3 DEF OpenedLock
  <2> QED
    BY <1>1, <2>1, <2>2 DEF Link!LinkUp, Link!linkVars
<1>4. CASE OpenRequest
  <2>1. readyState # "OPEN" /\ readyState' # "OPEN"
    BY <1>4 DEF OpenRequest, HasCreate, NoCreate, Inv, Phases, Idle, Requested, Running,
                CloseOnItsWay, RejectingAll, TimerRunning, CloseLost, Over
  <2> QED
    BY <1>1, <2>1 DEF Link!linkVars
<1>5. CASE readyState' # "OPEN"
  BY <1>1, <1>5 DEF Link!LinkDown, Link!linkVars
<1>6. CASE ErrorLock \/ ClosedLock \/ AsyncLock
  BY <1>2, <1>5, <1>6 DEF ErrorLock, ClosedLock, AsyncLock
<1> QED
  BY <1>2, <1>3, <1>4, <1>6
     DEF ThreadNext, ThreadGoesOn, ThreadStarted, OpenPost, ErrorPost, ClosePost, Post,
         NotifyRound, AsyncSet, Established, ConnectionError, Disconnect, DestroyWsi, Callback,
         ReceivePart, Receive, ReceiveFinal, WritableClosing, WritableSend, WritableError

\* A step of the UI thread accepts, refuses or settles one request of the link, or
\* is no step of it.
LEMMA UiKeepsLink ==
    ASSUME TypeOK, Inv, NoInsertWhileRejecting, NoticesWait, AppNext \/ SendNext \/ PoolNext
    PROVE  [Link!Next]_(Link!linkVars)
<1> USE DEF Waiting
<1>0. Pending /\ outcome \in [Calls -> Outcomes]
  BY DEF Inv, TypeOK
<1>1. ASSUME UNCHANGED <<readyState, callbackMap, rejecting, rej, outcome>>
      PROVE  UNCHANGED Link!linkVars
  BY <1>1 DEF Link!linkVars
<1>2. ASSUME NEW b \in BOOLEAN, SendCall(b) PROVE Link!Next
  <2> DEFINE d == counter + 1
  <2>1. d \in Calls /\ outcome[d] = "unused"
    BY <1>0, <1>2, WebSocketAssumption DEF SendCall, Pending, TypeOK, Calls
  <2>2. Link!Accept(d)
    BY <1>2, <2>1 DEF SendCall, NoInsertWhileRejecting, Link!Accept
  <2> QED
    BY <2>1, <2>2 DEF Link!Next
<1>3. CASE SendCallClosed
  <2> DEFINE d == counter + 1
  <2>1. d \in Calls /\ outcome[d] = "unused"
    BY <1>0, <1>3, WebSocketAssumption DEF SendCallClosed, Pending, TypeOK, Calls
  <2>2. Link!Refuse(d)
    BY <1>3, <2>1 DEF SendCallClosed, sockVars, Link!Refuse
  <2> QED
    BY <2>1, <2>2 DEF Link!Next
<1>4. ASSUME NEW d \in Calls, TimerLateReject(d) PROVE Link!Next
  <2>1. outcome[d] = "pending" /\ d \notin Waiting
    BY <1>0, <1>4 DEF TimerLateReject, Pending
  <2>2. Link!RejectRefused(d)
    BY <1>0, <1>4, <2>1 DEF TimerLateReject, Settled, sockVars, Link!RejectRefused
  <2> QED
    BY <2>2 DEF Link!Next
<1>5. CASE OnClose \/ OnError
  <2>1. rejecting = "no" /\ rejecting' # "no" /\ rej' = callbackMap
    BY <1>5 DEF OnClose, OnError, OnDown, Delivers, Polling
  <2>2. UNCHANGED <<readyState, outcome>>
    BY <1>5 DEF OnClose, OnError, OnDown, PopEvent
  <2> QED
    BY <2>1, <2>2 DEF Link!linkVars
<1>6. ASSUME NEW d \in Waiting, NEW v \in {"resolved", "rejected"},
             outcome' = Settled(outcome, d, v), Waiting' = Waiting \ {d},
             UNCHANGED readyState
      PROVE  Link!Next
  <2>1. d \in Calls /\ outcome[d] = "pending"
    BY <1>0 DEF Pending, TypeOK
  <2>2. outcome' = [outcome EXCEPT ![d] = v]
    BY <1>0, <1>6, <2>1 DEF Settled
  <2>3. Link!Answer(d, v)
    BY <1>6, <2>1, <2>2 DEF Link!Answer
  <2> QED
    BY <2>1, <2>3 DEF Link!Next
<1>7. ASSUME NEW d \in Calls, RejectOne(d) PROVE Link!Next
  <2>1. d \in rej /\ rejecting # "no"
    BY <1>0, <1>7 DEF RejectOne, Pending
  <2> QED
    BY <1>6, <1>7, <2>1 DEF RejectOne, sockVars
<1>8. CASE RejectDone
  <2>1. Waiting = {} /\ Waiting' = {}
    BY <1>8 DEF RejectDone
  <2>2. noticeMap = {}
    BY <2>1 DEF NoticesWait
  <2>3. outcome' = outcome
    BY <1>0, <1>8, <2>2 DEF RejectDone
  <2> QED
    BY <1>8, <2>1, <2>3 DEF RejectDone, sockVars, Link!linkVars
<1>9. CASE OnCall \/ OnNotice
  <2> DEFINE d == Head(batch).id
  <2>1. rejecting = "no" /\ UNCHANGED <<readyState, rejecting, rej>>
    BY <1>9 DEF OnCall, OnNotice, DeliversMessage, Delivers, Polling, PopEvent
  <2>2. CASE UNCHANGED <<outcome, callbackMap, noticeMap>>
    BY <1>1, <2>1, <2>2
  <2>3. ASSUME ~UNCHANGED <<outcome, callbackMap, noticeMap>>
        PROVE  /\ d \in callbackMap
               /\ RemoveCallback(d)
               /\ \E v \in {"resolved", "rejected"} : outcome' = Settled(outcome, d, v)
    BY <1>9, <2>1, <2>3 DEF OnCall, OnNotice, NoticesWait
  <2> QED
    BY <1>6, <2>1, <2>2, <2>3 DEF RemoveCallback
<1>10. CASE AppInit \/ SendNext \/ TimerReconnect \/ PoolTakeBatch \/ OnOpen \/ OnIgnored \/ OnBad
  BY <1>1, <1>10 DEF AppInit, SocketInit, SendNext, SendCheck, SendPush, TimerReconnect,
                     PoolTakeBatch, TakeBatch, OnOpen, OnIgnored, PopEvent, OnBad, bcxVars
<1> QED
  BY <1>2, <1>3, <1>4, <1>5, <1>7, <1>8, <1>9, <1>10 DEF AppNext, PoolNext, OnMessage

\* bcxws keeps the promise of RequestLink: a request made while the link is up is
\* accepted and settled once, one made while it is down is refused and rejected, and
\* the link does not come up again before every accepted request has been settled.
THEOREM ImplementsRequestLink == Spec => KeepsLink
<1>1. Init => Link!Init
  BY DEF Init, SockInit, Waiting, Link!Init
<1>2. Init => NoticesWait
  BY DEF Init, NoticesWait
<1>3. TypeOK /\ Inv /\ NoInsertWhileRejecting /\ NoticesWait /\ [Next]_vars => NoticesWait'
  BY NoticesWaitStep
<1>4. TypeOK /\ Inv /\ NoInsertWhileRejecting /\ NoticesWait /\ [Next]_vars
        => [Link!Next]_(Link!linkVars)
  <2> SUFFICES ASSUME TypeOK, Inv, NoInsertWhileRejecting, NoticesWait, [Next]_vars
               PROVE  [Link!Next]_(Link!linkVars)
    OBVIOUS
  <2>1. CASE AppNext \/ SendNext \/ PoolNext
    BY <2>1, UiKeepsLink
  <2>2. CASE ThreadNext /\ UNCHANGED bcxVars
    BY <2>2, ThreadKeepsLink DEF Link!Next
  <2>3. CASE UNCHANGED vars
    BY <2>3 DEF vars, sockVars, bcxVars, Waiting, Link!linkVars
  <2> QED
    BY <2>1, <2>2, <2>3 DEF Next
<1> QED
  BY <1>1, <1>2, <1>3, <1>4, Invariance, RejectsWhenDown, PTL DEF Spec, KeepsLink, Link!Spec

=============================================================================
