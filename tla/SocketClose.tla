----------------------------- MODULE SocketClose -----------------------------
(***************************************************************************)
(* WebSocket with an application that also calls bcxws::close(), which the *)
(* SDK offers and bcxapi itself never uses: the synchronous handshake of   *)
(* WebSocket::close() on the UI thread with onConnectionClosed on the      *)
(* websocket thread.  Of the delegate, bcxws, this module keeps that every *)
(* call of onClose, that of close() included, starts a timer which calls   *)
(* init again; the requests it rejects are the subject of BcxWs.           *)
(***************************************************************************)
EXTENDS WebSocket

VARIABLES
    calls,   \* messages the application has handed to send()
    closes,  \* calls of onClose
    failed   \* a write has failed and closeAsync was called

vars == <<sockVars, calls, closes, failed>>

app == <<calls, closes, failed>>

TypeOK ==
    /\ SockTypeOK
    /\ calls \in 0..MaxCalls
    /\ closes \in Nat
    /\ failed \in BOOLEAN

Init == SockInit /\ calls = 0 /\ closes = 0 /\ failed = FALSE

\* The application connects; then the timers of bcxws::onClose do, of which
\* closes + 1 - inits are under way.  close() stops none of them.
AppInit ==
    /\ ui = "app"
    /\ inits <= closes
    /\ SocketInit
    /\ UNCHANGED app

AppSend ==
    /\ ui = "app"
    /\ calls < MaxCalls
    /\ calls' = calls + 1
    /\ sending' = calls + 1
    /\ ui' = "send"
    /\ UNCHANGED <<readyState, closeState, instances, queue, received, wsi,
                   thread, functions, batch, inits, sent, closes, failed>>

Deliver ==
    /\ PopEvent
    /\ closes' = IF Head(batch).ev = "close" THEN closes + 1 ELSE closes
    /\ UNCHANGED <<calls, failed>>

\* WebSocket::close() calls the delegate itself: one more timer
ReportClose ==
    /\ CloseReport
    /\ closes' = closes + 1
    /\ UNCHANGED <<calls, failed>>

\* The steps of close() that go on by themselves
CloseGoesOn ==
    \/ (CloseSet \/ CloseLock \/ CloseDone \/ CloseClear) /\ UNCHANGED app
    \/ ReportClose

UiGoesOn ==
    \/ (SendCheck \/ SendPush \/ TakeBatch) /\ UNCHANGED app
    \/ Deliver

\* closeAsync begins at "asyncSet", on the websocket thread
NoteFailure ==
    /\ failed' = (failed \/ thread' = "asyncSet")
    /\ UNCHANGED <<calls, closes>>

ThreadSteps == ThreadNext /\ NoteFailure

Next ==
    \/ AppInit
    \/ AppSend
    \/ (CloseCheck \/ CloseSpuriousWake) /\ UNCHANGED app
    \/ CloseGoesOn
    \/ UiGoesOn
    \/ ThreadSteps

\* Both threads run, and libwebsockets finishes what it began (see BcxWs)
Fairness ==
    /\ WF_vars(CloseGoesOn)
    /\ WF_vars(UiGoesOn)
    /\ WF_vars(ThreadGoesOn /\ NoteFailure)
    /\ WF_vars(OpenRequest /\ NoteFailure)
    /\ WF_vars((Established \/ ConnectionError) /\ NoteFailure)
    /\ WF_vars(DestroyWsi /\ NoteFailure)
    /\ WF_vars(WritableClosing /\ NoteFailure)

Spec == Init /\ [][Next]_vars /\ Fairness

-----------------------------------------------------------------------------
\* close() comes back.  Its wait has no predicate and no timeout: it needs the
\* websocket thread to find CLOSING and SYNC_CLOSING and to notify until it is heard.
\* (A failed write leaves ASYNC_CLOSING behind and nobody notifies.)
CloseReturns == ui = "closeSet" ~> ui = "app" \/ failed

\* Once close() has returned the socket never opens again and no message reaches the
\* application, although bcxws connects again ten seconds later: the callbacks of that
\* connection find no instances.  (A close() that found the ASYNC_CLOSING of a failed
\* write has closed nothing; the socket may still be open.)
QuietAfterClose ==
    [][~instances => /\ readyState' = "OPEN" => readyState = "OPEN" /\ failed
                     /\ Has(functions', "message") => Has(functions, "message")]_vars

(***************************************************************************)
(* The invariant behind QuietAfterClose.  Until close() is called, each    *)
(* call of init is followed by one connection, and that by one close       *)
(* event; so when close() is called, on an open socket, no connection is   *)
(* being made and none is asked for.  What the timers ask for later comes  *)
(* when the instances are gone.                                            *)
(***************************************************************************)
FailureNoted ==
    closeState = "ASYNC_CLOSING" \/ thread \in {"asyncSet", "asyncLock"} => failed

\* close() has not begun
Live == instances /\ ui \in {"app", "send", "push"} /\ closeState \in {"NONE", "ASYNC_CLOSING"}

Dormant ==
    /\ inits = closes /\ Quiet /\ NoCreate /\ ui # "push"
    /\ \/ thread = "none" /\ wsi = "none" /\ readyState = "CONNECTING"
       \/ Over

Requested ==
    /\ inits = closes + 1 /\ Quiet /\ ui # "push"
    /\ queue # <<>> /\ IsCreate(queue[Len(queue)])
    /\ \A i \in 1..(Len(queue) - 1) : ~IsCreate(queue[i])
    /\ \/ Over
       \/ /\ readyState = "CONNECTING"
          /\ wsi = "none"
          /\ thread \in {"starting", "loop", "noContext"}

Running ==
    /\ inits = closes + 1 /\ NoCreate
    /\ ~Has(batch, "close") /\ ~Has(functions, "close")
    /\ \/ readyState = "CONNECTING" /\ Connecting
       \/ readyState = "OPEN" /\ Opened
       \/ readyState = "CLOSING" /\ Breaking
       \/ readyState = "CLOSED" /\ thread = "closePost" /\ wsi \in {"none", "dying"}

CloseOnItsWay ==
    /\ inits = closes + 1 /\ NoCreate /\ Over
    /\ NoneBut(batch, "close")
    /\ NoneBut(functions, "close")
    /\ \/ /\ functions # <<>>
          /\ functions[Len(functions)].ev = "close"
          /\ ~Has(batch, "close")
       \/ /\ functions = <<>>
          /\ batch # <<>>
          /\ batch[Len(batch)].ev = "close"

\* close() has begun
Closing ==
    /\ instances <=> ui \notin {"app", "send", "push"}
    /\ thread # "opened"
    /\ instances => wsi # "connecting" /\ NoCreate
    /\ readyState = "OPEN" => failed \/ ui \in {"closeSet", "closeLock"}

Inv ==
    /\ FailureNoted
    /\ \/ Live /\ (Dormant \/ Requested \/ Running \/ CloseOnItsWay)
       \/ Closing

=============================================================================
