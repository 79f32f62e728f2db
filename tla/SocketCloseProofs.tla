-------------------------- MODULE SocketCloseProofs --------------------------
(***************************************************************************)
(* Proofs about SocketClose, for every value of the bounds.                *)
(***************************************************************************)
EXTENDS SocketClose, WebSocketProofs

\* Every step of the UI thread, close() included, keeps the types.
LEMMA UiTypeOK ==
    ASSUME TypeOK,
           \/ AppInit \/ AppSend \/ CloseGoesOn \/ UiGoesOn
           \/ (CloseCheck \/ CloseSpuriousWake) /\ UNCHANGED app
    PROVE  TypeOK'
<1> USE WebSocketAssumption DEF TypeOK, app
<1>1. CASE AppInit
  <2>1. queue' \in Seq(WsMessages)
    BY <1>1 DEF AppInit, SocketInit, SockTypeOK, WsMessages
  <2> QED
    BY <1>1, <2>1 DEF AppInit, SocketInit, SockTypeOK, ThreadStates, Conns
<1>2. CASE AppSend
  <2>1. calls' \in Calls /\ calls' # 0
    BY <1>2 DEF AppSend, Calls
  <2> QED
    BY <1>2, <2>1 DEF AppSend, SockTypeOK, UiStates, Calls
<1>3. CASE (CloseCheck \/ CloseSpuriousWake) /\ UNCHANGED app
  BY <1>3 DEF CloseCheck, CloseSpuriousWake, SockTypeOK, UiStates
<1>4. CASE CloseGoesOn
  <2>1. CASE (CloseSet \/ CloseLock \/ CloseDone) /\ UNCHANGED app
    BY <2>1 DEF CloseSet, CloseLock, CloseDone, SockTypeOK, UiStates, States, CloseStates
  <2>2. CASE CloseClear /\ UNCHANGED app
    BY <2>2 DEF CloseClear, SockTypeOK, UiStates
  <2>3. CASE ReportClose
    BY <2>3 DEF ReportClose, CloseReport, SockTypeOK, UiStates
  <2> QED
    BY <1>4, <2>1, <2>2, <2>3 DEF CloseGoesOn
<1>5. CASE (SendCheck \/ TakeBatch) /\ UNCHANGED app
  BY <1>5 DEF SendCheck, TakeBatch, SockTypeOK, UiStates
<1>6. CASE SendPush /\ UNCHANGED app
  <2>1. PICK n \in 1..MaxFrags : queue' = Append(queue, StringMsg(sending, n))
    BY <1>6 DEF SendPush
  <2>2. StringMsg(sending, n) \in WsMessages
    BY <1>6 DEF SendPush, SockTypeOK, WsMessages
  <2>3. queue' \in Seq(WsMessages)
    BY <2>1, <2>2 DEF SockTypeOK
  <2> QED
    BY <1>6, <2>3 DEF SendPush, SockTypeOK, UiStates
<1>7. CASE Deliver
  BY <1>7 DEF Deliver, PopEvent, SockTypeOK
<1> QED
  BY <1>1, <1>2, <1>3, <1>4, <1>5, <1>6, <1>7 DEF UiGoesOn

\* The state of a socket whose application also closes it always has its types.
THEOREM TypeCorrect == Spec => []TypeOK
<1>1. Init => TypeOK
  <2> SUFFICES ASSUME Init PROVE TypeOK
    OBVIOUS
  <2>1. SockTypeOK
    BY WebSocketAssumption
       DEF Init, SockInit, SockTypeOK, States, CloseStates, WsiStates, ThreadStates, UiStates
  <2>2. calls \in 0..MaxCalls /\ closes \in Nat
    BY WebSocketAssumption DEF Init
  <2>3. failed \in BOOLEAN
    BY DEF Init
  <2> QED
    BY <2>1, <2>2, <2>3 DEF TypeOK
<1>2. TypeOK /\ [Next]_vars => TypeOK'
  <2> SUFFICES ASSUME TypeOK, [Next]_vars PROVE TypeOK'
    OBVIOUS
  <2>1. CASE ThreadSteps
    BY <2>1, ThreadTypeOK DEF ThreadSteps, NoteFailure, TypeOK
  <2>2. CASE UNCHANGED vars
    BY <2>2 DEF vars, sockVars, TypeOK, SockTypeOK
  <2> QED
    BY <2>1, <2>2, UiTypeOK DEF Next
<1> QED
  BY <1>1, <1>2, PTL DEF Spec

-----------------------------------------------------------------------------
\* As long as close() has not begun, every step of the websocket thread leaves the
\* socket in one of its four phases.
LEMMA ThreadLive ==
    ASSUME TypeOK, Live, Dormant \/ Requested \/ Running \/ CloseOnItsWay,
           ThreadNext, UNCHANGED closes
    PROVE  Live' /\ (Dormant' \/ Requested' \/ Running' \/ CloseOnItsWay')
<1> USE DEF Live, NoCreate, Over
<1>0. inits' = inits
  BY DEF ThreadNext, ThreadGoesOn, ThreadStarted, OpenedLock, OpenPost, ErrorLock, ErrorPost,
         ClosedLock, ClosePost, Post, NotifyRound, AsyncSet, AsyncLock, OpenRequest, Established,
         ConnectionError, Disconnect, DestroyWsi, ReceivePart, Receive, ReceiveFinal,
         WritableClosing, WritableSend, WritableError
<1>1. CASE ThreadStarted
  BY <1>1 DEF ThreadStarted, Dormant, Requested, Running, CloseOnItsWay, Quiet, Connecting,
              Opened, Breaking
<1>2. CASE OpenedLock
  BY <1>2 DEF OpenedLock, Dormant, Requested, Running, CloseOnItsWay, Quiet, Connecting,
              Opened, Breaking
<1>3. CASE ErrorLock
  BY <1>3 DEF ErrorLock, Dormant, Requested, Running, CloseOnItsWay, Quiet, Connecting,
              Opened, Breaking
<1>4. CASE ClosedLock
  BY <1>4 DEF ClosedLock, Dormant, Requested, Running, CloseOnItsWay, Quiet, Connecting,
              Opened, Breaking
<1>5. ASSUME NEW e, functions' = Append(functions, e), e.ev # "close"
      PROVE  ~Has(functions, "close") => ~Has(functions', "close")
  BY <1>5, HasAppend DEF TypeOK, SockTypeOK
<1>6. CASE OpenPost \/ ErrorPost
  <2>1. Running
    BY <1>6 DEF OpenPost, ErrorPost, Dormant, Requested, CloseOnItsWay
  <2>2. \E e : functions' = Append(functions, e) /\ e.ev # "close"
    <3>1. Event("open").ev = "open" /\ Event("error").ev = "error"
      BY DEF Event
    <3> QED
      BY <1>6, <3>1 DEF OpenPost, ErrorPost, Post
  <2>3. ~Has(functions', "close")
    BY <1>5, <2>1, <2>2 DEF Running
  <2> QED
    BY <1>6, <2>1, <2>3 DEF OpenPost, ErrorPost, Post, Running, Connecting, Opened, Breaking
<1>7. CASE ClosePost
  <2>1. Running /\ functions \in Seq(Events)
    BY <1>7 DEF ClosePost, Dormant, Requested, CloseOnItsWay, TypeOK, SockTypeOK
  <2>2. functions' = Append(functions, Event("close"))
    BY <1>7 DEF ClosePost, Post
  <2>3. functions' # <<>> /\ functions'[Len(functions')].ev = "close"
    <3>1. Len(functions') = Len(functions) + 1 /\ Len(functions) \in Nat
      BY <2>1, <2>2
    <3>2. functions'[Len(functions) + 1] = Event("close")
      BY <2>1, <2>2
    <3>3. Event("close").ev = "close"
      BY DEF Event
    <3> QED
      BY <2>2, <3>1, <3>2, <3>3
  <2>4. NoneBut(functions', "close") /\ NoneBut(batch, "close")
    BY <2>1, <2>2 DEF Running, Has, NoneBut, TypeOK, SockTypeOK
  <2> QED
    BY <1>0, <1>7, <2>1, <2>3, <2>4 DEF ClosePost, Post, Running, CloseOnItsWay, Connecting,
                                        Opened, Breaking
<1>8. CASE NotifyRound
  BY <1>8 DEF NotifyRound, Dormant, Requested, Running, CloseOnItsWay, Connecting, Opened, Breaking
<1>9. CASE AsyncSet \/ AsyncLock
  BY <1>9 DEF AsyncSet, AsyncLock, Dormant, Requested, Running, CloseOnItsWay, Connecting,
              Opened, Breaking
<1>10. CASE OpenRequest
  <2>1. Requested /\ wsi = "none"
    BY <1>10 DEF OpenRequest, HasCreate, Dormant, Requested, Running, CloseOnItsWay
  <2>2. NoCreate'
    BY <1>10, <2>1, DropLastCreate DEF OpenRequest, Requested, TypeOK, SockTypeOK
  <2> QED
    BY <1>10, <2>1, <2>2 DEF OpenRequest, Requested, Running, Connecting, Has, Quiet
<1>11. CASE Established \/ ConnectionError \/ Disconnect \/ DestroyWsi
  BY <1>11 DEF Established, ConnectionError, Disconnect, DestroyWsi, Callback, Dormant,
               Requested, Running, CloseOnItsWay, Quiet, Connecting, Opened, Breaking
<1>12. CASE ReceivePart
  BY <1>12 DEF ReceivePart, Dormant, Requested, Running, CloseOnItsWay, Connecting, Opened, Breaking
<1>13. CASE Receive
  <2>1. PICK m \in ServerMessages : ReceiveFinal(m)
    BY <1>13 DEF Receive
  <2>2. Running
    BY <2>1 DEF ReceiveFinal, Dormant, Requested, CloseOnItsWay
  <2>3. \E e : functions' = Append(functions, e) /\ e.ev # "close"
    BY <2>1 DEF ReceiveFinal, ServerMessages, Message
  <2>4. ~Has(functions', "close")
    BY <1>5, <2>2, <2>3 DEF Running
  <2> QED
    BY <2>1, <2>2, <2>4 DEF ReceiveFinal, Running, Connecting, Opened, Breaking
<1>14. CASE WritableClosing
  BY <1>14 DEF WritableClosing, Writable, Dormant, Requested, Running, CloseOnItsWay, Connecting,
               Opened, Breaking
<1>15. CASE WritableSend \/ WritableError
  <2>1. Running /\ readyState = "OPEN"
    BY <1>15 DEF WritableSend, WritableError, Writable, Dormant, Requested, Running,
                 CloseOnItsWay, Connecting, Opened, Breaking
  <2>2. NoCreate' /\ ~IsCreate(Head(queue))
    BY <1>15, <2>1, WriteNoCreate DEF Running, TypeOK
  <2> QED
    BY <1>15, <2>1, <2>2 DEF WritableSend, WritableError, Writable, Running, Opened
<1> QED
  BY <1>1, <1>2, <1>3, <1>4, <1>6, <1>7, <1>8, <1>9, <1>10, <1>11, <1>12, <1>13, <1>14, <1>15
     DEF ThreadNext, ThreadGoesOn

\* So does every step of the UI thread, until close() begins on an open socket: then
\* no connection is being made or asked for.
LEMMA UiLive ==
    ASSUME CloseOnlyWhenOpen, TypeOK, FailureNoted, Live,
           Dormant \/ Requested \/ Running \/ CloseOnItsWay,
           \/ AppInit \/ AppSend \/ CloseGoesOn \/ UiGoesOn
           \/ (CloseCheck \/ CloseSpuriousWake) /\ UNCHANGED app
    PROVE  \/ Live' /\ (Dormant' \/ Requested' \/ Running' \/ CloseOnItsWay')
           \/ Closing'
<1> USE DEF Live, NoCreate, Over, app
<1>1. CASE AppInit
  <2>1. Dormant
    BY <1>1 DEF AppInit, Dormant, Requested, Running, CloseOnItsWay, TypeOK
  <2>2. /\ queue' # <<>> /\ IsCreate(queue'[Len(queue')])
        /\ \A i \in 1..(Len(queue') - 1) : ~IsCreate(queue'[i])
    BY <1>1, <2>1, InitQueues DEF AppInit, Dormant, TypeOK
  <2> QED
    BY <1>1, <2>1, <2>2 DEF AppInit, SocketInit, Dormant, Requested, Quiet, TypeOK
<1>2. CASE AppSend \/ (SendCheck /\ UNCHANGED app)
  BY <1>2 DEF AppSend, SendCheck, Dormant, Requested, Running, CloseOnItsWay, Quiet, Connecting,
              Opened, Breaking
<1>3. CASE SendPush /\ UNCHANGED app
  <2>1. NoCreate => NoCreate'
    BY <1>3, PushNoCreate DEF TypeOK
  <2> QED
    BY <1>3, <2>1 DEF SendPush, Dormant, Requested, Running, CloseOnItsWay, Quiet, Connecting,
              Opened, Breaking
<1>4. CASE TakeBatch /\ UNCHANGED app
  <2>1. Running \/ CloseOnItsWay
    BY <1>4 DEF TakeBatch, Dormant, Requested, Quiet
  <2>2. \A ev : ~Has(<<>>, ev) /\ NoneBut(<<>>, ev)
    BY DEF Has, NoneBut
  <2> QED
    BY <1>4, <2>1, <2>2 DEF TakeBatch, Running, CloseOnItsWay, Connecting, Opened, Breaking
<1>5. CASE Deliver
  <2>1. batch \in Seq(Events) /\ batch # <<>> /\ batch' = Tail(batch)
    BY <1>5 DEF Deliver, PopEvent, TypeOK, SockTypeOK
  <2>2. Running \/ CloseOnItsWay
    BY <2>1 DEF Dormant, Requested, Quiet
  <2>3. CASE Head(batch).ev = "close"
    <3>1. Has(batch, "close")
      BY <2>1, <2>3, HasTail
    <3>2. CloseOnItsWay /\ functions = <<>> /\ Tail(batch) = <<>>
      BY <2>1, <2>2, <2>3, <3>1, HasTail DEF Running, CloseOnItsWay
    <3> QED
      BY <1>5, <2>3, <3>2 DEF Deliver, PopEvent, CloseOnItsWay, Dormant, Quiet, TypeOK
  <2>4. CASE Head(batch).ev # "close"
    <3>1. /\ Has(batch', "close") => Has(batch, "close")
          /\ NoneBut(batch, "close") => NoneBut(batch', "close")
          /\ batch[Len(batch)].ev = "close" => batch' # <<>> /\ batch'[Len(batch')].ev = "close"
      BY <2>1, <2>4, HasTail
    <3>2. CASE Running
      BY <1>5, <2>4, <3>1, <3>2 DEF Deliver, PopEvent, Running, Connecting, Opened, Breaking
    <3>3. CASE CloseOnItsWay
      BY <1>5, <2>4, <3>1, <3>3 DEF Deliver, PopEvent, CloseOnItsWay
    <3> QED
      BY <2>2, <3>2, <3>3
  <2> QED
    BY <2>3, <2>4
<1>6. CASE CloseCheck /\ UNCHANGED app
  <2>1. Running
    BY <1>6 DEF CloseCheck, Dormant, Requested, CloseOnItsWay
  <2> QED
    BY <1>6, <2>1 DEF CloseCheck, Running, Connecting, Opened, Breaking, Closing, FailureNoted
<1>7. CASE CloseGoesOn \/ CloseSpuriousWake
  BY <1>7 DEF CloseGoesOn, CloseSet, CloseLock, CloseDone, CloseClear, ReportClose, CloseReport,
              CloseSpuriousWake
<1> QED
  BY <1>1, <1>2, <1>3, <1>4, <1>5, <1>6, <1>7 DEF UiGoesOn

\* Once close() has begun the socket is not opened any more, whatever the timers of
\* bcxws ask for when it has returned.
LEMMA ClosingStep ==
    ASSUME TypeOK, Closing, FailureNoted, [Next]_vars
    PROVE  Closing'
<1> USE DEF Closing
<1>1. CASE AppInit
  BY <1>1 DEF AppInit, SocketInit, app
<1>2. CASE AppSend \/ ((CloseCheck \/ CloseSpuriousWake) /\ UNCHANGED app)
  BY <1>2 DEF AppSend, CloseCheck, CloseSpuriousWake, app, NoCreate
<1>3. CASE CloseGoesOn
  BY <1>3 DEF CloseGoesOn, CloseSet, CloseLock, CloseDone, CloseClear, ReportClose, CloseReport,
              app, NoCreate
<1>4. CASE UiGoesOn
  BY <1>4 DEF UiGoesOn, SendCheck, SendPush, TakeBatch, Deliver, PopEvent, app, NoCreate
<1>5. CASE ThreadSteps
  <2>1. failed => failed'
    BY <1>5 DEF ThreadSteps, NoteFailure
  <2>2. CASE ThreadGoesOn
    BY <2>1, <2>2 DEF ThreadGoesOn, ThreadStarted, OpenedLock, OpenPost, ErrorLock, ErrorPost,
              ClosedLock, ClosePost, Post, NotifyRound, AsyncSet, AsyncLock, NoCreate
  <2>3. CASE OpenRequest
    BY <2>1, <2>3 DEF OpenRequest, HasCreate, NoCreate
  <2>4. CASE Established \/ ConnectionError \/ Disconnect \/ DestroyWsi \/ WritableClosing
    BY <2>1, <2>4 DEF Established, ConnectionError, Disconnect, DestroyWsi, Callback,
              WritableClosing, Writable, NoCreate
  <2>5. CASE ReceivePart \/ Receive
    BY <2>1, <2>5 DEF ReceivePart, Receive, ReceiveFinal, NoCreate
  <2>6. CASE WritableSend \/ WritableError
    <3>1. instances => NoCreate'
      BY <2>6, WriteNoCreate DEF TypeOK
    <3> QED
      BY <2>1, <2>6, <3>1 DEF WritableSend, WritableError, Writable
  <2> QED
    BY <1>5, <2>2, <2>3, <2>4, <2>5, <2>6 DEF ThreadSteps, ThreadNext
<1>6. CASE UNCHANGED vars
  BY <1>6 DEF vars, sockVars, NoCreate
<1> HIDE DEF Closing
<1> QED
  BY <1>1, <1>2, <1>3, <1>4, <1>5, <1>6 DEF Next

\* closeAsync is called, and ASYNC_CLOSING set, after a failed write only.
LEMMA FailureStep ==
    ASSUME FailureNoted, [Next]_vars
    PROVE  FailureNoted'
BY DEF FailureNoted, Next, AppInit, SocketInit, AppSend, CloseCheck, CloseSpuriousWake, CloseGoesOn,
       CloseSet, CloseLock, CloseDone, CloseClear, ReportClose, CloseReport, UiGoesOn, SendCheck,
       SendPush, TakeBatch, Deliver, PopEvent, ThreadSteps, NoteFailure, ThreadNext, ThreadGoesOn,
       ThreadStarted, OpenedLock, OpenPost, ErrorLock, ErrorPost, ClosedLock, ClosePost, Post,
       NotifyRound, AsyncSet, AsyncLock, OpenRequest, Established, ConnectionError, Disconnect,
       DestroyWsi, Callback, ReceivePart, Receive, ReceiveFinal, WritableClosing, WritableSend,
       WritableError, app, vars, sockVars

\* Inv is an inductive invariant of an application that closes only an open socket and
\* connects again after every onClose.
THEOREM Invariance == CloseOnlyWhenOpen /\ Spec => [](TypeOK /\ Inv)
<1> SUFFICES ASSUME CloseOnlyWhenOpen PROVE Spec => [](TypeOK /\ Inv)
  OBVIOUS
<1>1. Init => Inv
  BY DEF Init, SockInit, Inv, Live, Dormant, Quiet, NoCreate, FailureNoted
<1>2. TypeOK /\ Inv /\ [Next]_vars => Inv'
  <2> SUFFICES ASSUME TypeOK, Inv, [Next]_vars PROVE Inv'
    OBVIOUS
  <2>0. FailureNoted /\ FailureNoted'
    BY FailureStep DEF Inv
  <2>1. CASE Closing
    BY <2>0, <2>1, ClosingStep DEF Inv
  <2>2. CASE Live /\ (Dormant \/ Requested \/ Running \/ CloseOnItsWay)
    <3>1. CASE ThreadSteps
      BY <2>0, <2>2, <3>1, ThreadLive DEF ThreadSteps, NoteFailure, Inv
    <3>2. CASE UNCHANGED vars
      BY <2>0, <2>2, <3>2 DEF vars, sockVars, Inv, Live, Dormant, Requested, Running,
                        CloseOnItsWay, Over, Quiet, NoCreate, Connecting, Opened, Breaking
    <3> QED
      BY <2>0, <2>2, <3>1, <3>2, UiLive DEF Next, Inv
  <2> QED
    BY <2>1, <2>2 DEF Inv
<1> QED
  BY <1>1, <1>2, TypeCorrect, PTL DEF Spec

\* After close() has returned the socket never opens again and posts no message, though
\* the timer of bcxws::onClose asks for a new connection and libwebsockets may make it.
THEOREM QuietOnceClosed == CloseOnlyWhenOpen /\ Spec => QuietAfterClose
<1> DEFINE Step == ~instances => /\ readyState' = "OPEN" => readyState = "OPEN" /\ failed
                                 /\ Has(functions', "message") => Has(functions, "message")
<1>1. TypeOK /\ Inv /\ [Next]_vars => [Step]_vars
  <2> SUFFICES ASSUME TypeOK, Inv, Next, ~instances
               PROVE  Step
    OBVIOUS
  <2>1. Closing
    BY DEF Inv, Live
  <2>2. readyState' = "OPEN" => readyState = "OPEN" /\ failed
    BY <2>1
       DEF Closing, Next, AppInit, SocketInit, AppSend, CloseCheck, CloseSpuriousWake, CloseGoesOn,
           CloseSet, CloseLock, CloseDone, CloseClear, ReportClose, CloseReport, UiGoesOn,
           SendCheck, SendPush, TakeBatch, Deliver, PopEvent, ThreadSteps, ThreadNext,
           ThreadGoesOn, ThreadStarted, OpenedLock, OpenPost, ErrorLock, ErrorPost, ClosedLock,
           ClosePost, Post, NotifyRound, AsyncSet, AsyncLock, OpenRequest, Established,
           ConnectionError, Disconnect, DestroyWsi, ReceivePart, Receive, ReceiveFinal,
           WritableClosing, WritableSend, WritableError
  <2>3. Has(functions', "message") => Has(functions, "message")
    <3>1. CASE functions' = functions
      BY <3>1 DEF Has
    <3>2. CASE functions' = <<>>
      BY <3>2 DEF Has
    <3>3. CASE OpenPost \/ ErrorPost \/ ClosePost
      <4>1. PICK e : functions' = Append(functions, e) /\ e.ev # "message"
        <5>1. /\ Event("open").ev # "message"
              /\ Event("error").ev # "message"
              /\ Event("close").ev # "message"
          BY DEF Event
        <5> QED
          BY <3>3, <5>1 DEF OpenPost, ErrorPost, ClosePost, Post
      <4>2. functions \in Seq(Events)
        BY DEF TypeOK, SockTypeOK
      <4> QED
        BY <4>1, <4>2 DEF Has
    <3>4. ~ReceivePart /\ ~Receive
      BY DEF ReceivePart, Receive, ReceiveFinal
    <3> QED
      BY <3>1, <3>2, <3>3, <3>4
         DEF Next, AppInit, SocketInit, AppSend, CloseCheck, CloseSpuriousWake, CloseGoesOn,
           CloseSet, CloseLock, CloseDone, CloseClear, ReportClose, CloseReport, UiGoesOn,
           SendCheck, SendPush, TakeBatch, Deliver, PopEvent, ThreadSteps, ThreadNext,
           ThreadGoesOn, ThreadStarted, OpenedLock, ErrorLock, ClosedLock, NotifyRound, AsyncSet,
           AsyncLock, OpenRequest, Established, ConnectionError, Disconnect, DestroyWsi,
           WritableClosing, WritableSend, WritableError
  <2> QED
    BY <2>2, <2>3
<1> QED
  BY <1>1, Invariance, PTL DEF Spec, QuietAfterClose

=============================================================================
