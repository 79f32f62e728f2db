------------------------------ MODULE WebSocket ------------------------------
(***************************************************************************)
(* bcx::network::WebSocket and its WsThreadHelper                          *)
(* (bcx/libbcx/network/WebSocket.cpp), together with the queue of          *)
(* functions through which the websocket thread reaches the UI thread      *)
(* (bcxapi_p::performFunctionInCocosThread and bcxapi_p::poolEvent).       *)
(*                                                                         *)
(* Two threads share one WebSocket.  A step of either is one critical      *)
(* section, or one access to a field that no mutex protects.  `thread' and *)
(* `ui' are their program counters.  libwebsockets is external: it is      *)
(* represented by `wsi', the state of the one connection it holds, and by  *)
(* the callbacks it may make in each of those states.                      *)
(***************************************************************************)
EXTENDS Integers, Sequences, FiniteSets

CONSTANTS
    MaxInits,           \* bound: calls of WebSocket::init
    MaxCalls,           \* bound: messages handed to WebSocket::send
    MaxInbox,           \* bound: functions waiting for the UI thread
    MaxFrags,           \* bound: fragments of 64 kB of one message
    Kinds,              \* what the server may send
    CloseOnlyWhenOpen   \* the application calls close() only on an open socket

\* A message of the server is a JSON object with the id of a request and a result,
\* the result null, an error, or neither, a notice with the id of a broadcast, an
\* object with neither id nor method ("ignored"), or no JSON object at all ("bad").
IdKinds == {"result", "null", "error", "notice", "other"}

ASSUME WebSocketAssumption ==
    /\ MaxInits \in Nat
    /\ MaxCalls \in Nat
    /\ MaxInbox \in Nat
    /\ MaxFrags \in Nat \ {0}
    /\ Kinds \subseteq IdKinds \cup {"ignored", "bad"}
    /\ CloseOnlyWhenOpen \in BOOLEAN

VARIABLES
    readyState,  \* _readyState
    closeState,  \* _closeState
    instances,   \* this socket is in *__websocketInstances
    queue,       \* _subThreadWsMessageQueue
    received,    \* _receivedData: the connection its first bytes came from, or 0
    wsi,         \* the connection libwebsockets holds for this socket
    thread,      \* what the websocket thread does
    functions,   \* bcxapi_p::_functionsToPerform
    batch,       \* the rest of `temp' in bcxapi_p::poolEvent
    ui,          \* what the UI thread does
    sending,     \* the message the UI thread is inside send() with
    inits,       \* how often init was called
    sent         \* every message written completely, in order, on any connection

sockVars == <<readyState, closeState, instances, queue, received, wsi, thread,
              functions, batch, ui, sending, inits, sent>>

(***************************************************************************)
(* Types.                                                                  *)
(***************************************************************************)
States == {"CONNECTING", "OPEN", "CLOSING", "CLOSED"}
CloseStates == {"NONE", "SYNC_CLOSING", "SYNC_CLOSED", "ASYNC_CLOSING"}
Calls == 1..MaxCalls
Conns == 1..MaxInits

\* "dying": libwebsockets is about to call back with WSI_DESTROY
WsiStates == {"none", "connecting", "established", "dying"}

ThreadStates == {"none", "starting", "noContext", "loop", "opened", "openPost",
                 "error", "errorPost", "closed", "closePost", "notify",
                 "asyncSet", "asyncLock", "crashed"}

UiStates == {"app", "send", "push", "closeSet", "closeLock", "closeWait",
             "closeWoken", "closeReport", "closeClear"}

\* WS_MSG: a request to connect carries no data; a string carries what is left of it
CreateMsg == [what |-> "CREATE_CONNECTION", id |-> 0, left |-> 0]
StringMsg(d, n) == [what |-> "SENDING_STRING", id |-> d, left |-> n]
WsMessages == {CreateMsg} \cup {StringMsg(d, n) : d \in Calls, n \in 1..MaxFrags}

\* The functions the websocket thread posts: each calls one method of the delegate
Event(ev) == [ev |-> ev, id |-> 0, kind |-> ""]
Message(d, k) == [ev |-> "message", id |-> d, kind |-> k]
ServerMessages ==
    {Message(d, k) : d \in Calls, k \in Kinds \cap IdKinds}
    \cup {Message(0, k) : k \in Kinds \ IdKinds}
Events == {Event("open"), Event("error"), Event("close"), Message(0, "bad")}
          \cup ServerMessages

SockTypeOK ==
    /\ readyState \in States
    /\ closeState \in CloseStates
    /\ instances \in BOOLEAN
    /\ queue \in Seq(WsMessages)
    /\ received \in Conns \cup {0}
    /\ wsi \in WsiStates
    /\ thread \in ThreadStates
    /\ functions \in Seq(Events)
    /\ batch \in Seq(Events)
    /\ ui \in UiStates
    /\ sending \in Calls \cup {0}
    /\ ui \in {"send", "push"} => sending # 0
    /\ inits \in 0..MaxInits
    /\ sent \in Seq(Calls)

SockInit ==
    /\ readyState = "CONNECTING"
    /\ closeState = "NONE"
    /\ instances = TRUE
    /\ queue = <<>>
    /\ received = 0
    /\ wsi = "none"
    /\ thread = "none"
    /\ functions = <<>>
    /\ batch = <<>>
    /\ ui = "app"
    /\ sending = 0
    /\ inits = 0
    /\ sent = <<>>

-----------------------------------------------------------------------------
(***************************************************************************)
(* Mutexes.  The only sections in which a thread waits while it holds a    *)
(* mutex are the loop of onConnectionClosed, which notifies close() under  *)
(* _readyStateMutex, and closeAsync, which onClientWritable calls under    *)
(* the mutex of the queue.                                                 *)
(***************************************************************************)
ReadyStateLocked == thread = "notify"
QueueLocked == thread \in {"asyncSet", "asyncLock"}

(***************************************************************************)
(* The UI thread.                                                          *)
(***************************************************************************)
\* WebSocket::init: the request is queued before the thread is created
SocketInit ==
    /\ inits < MaxInits
    /\ ~QueueLocked
    /\ inits' = inits + 1
    /\ queue' = Append(queue, CreateMsg)
    /\ thread' = IF thread = "none" THEN "starting" ELSE thread
    /\ UNCHANGED <<readyState, closeState, instances, received, wsi, functions,
                   batch, ui, sending, sent>>

\* getReadyState() in bcxws::send and the test at the head of WebSocket::send:
\* a message for a socket that is not open is dropped
SendCheck ==
    /\ ui = "send"
    /\ ~ReadyStateLocked
    /\ IF readyState = "OPEN"
       THEN ui' = "push" /\ sending' = sending
       ELSE ui' = "app" /\ sending' = 0
    /\ UNCHANGED <<readyState, closeState, instances, queue, received, wsi,
                   thread, functions, batch, inits, sent>>

\* the rest of WebSocket::send: sendMessageToWebSocketThread
SendPush ==
    /\ ui = "push"
    /\ ~QueueLocked
    /\ \E n \in 1..MaxFrags : queue' = Append(queue, StringMsg(sending, n))
    /\ ui' = "app"
    /\ sending' = 0
    /\ UNCHANGED <<readyState, closeState, instances, received, wsi, thread,
                   functions, batch, inits, sent>>

\* bcxapi_p::poolEvent takes all the functions posted so far
TakeBatch ==
    /\ ui = "app"
    /\ batch = <<>>
    /\ functions # <<>>
    /\ batch' = functions
    /\ functions' = <<>>
    /\ UNCHANGED <<readyState, closeState, instances, queue, received, wsi,
                   thread, ui, sending, inits, sent>>

\* what running the next function of `temp' does to the queues; the delegate's
\* method runs in the same step
PopEvent ==
    /\ ui = "app"
    /\ batch # <<>>
    /\ batch' = Tail(batch)
    /\ UNCHANGED <<readyState, closeState, instances, queue, received, wsi,
                   thread, functions, ui, sending, inits, sent>>

(***************************************************************************)
(* bcxws::close(), that is closeAllConnections(): WebSocket::close() and   *)
(* then the removal of the instance.  _closeState is read and written      *)
(* without a mutex.                                                        *)
(***************************************************************************)
CloseCheck ==
    /\ ui = "app"
    /\ instances
    /\ inits > 0
    /\ CloseOnlyWhenOpen => readyState = "OPEN"
    /\ ui' = IF closeState # "NONE" THEN "closeClear" ELSE "closeSet"
    /\ UNCHANGED <<readyState, closeState, instances, queue, received, wsi,
                   thread, functions, batch, sending, inits, sent>>

CloseSet ==
    /\ ui = "closeSet"
    /\ closeState' = "SYNC_CLOSING"
    /\ ui' = "closeLock"
    /\ UNCHANGED <<readyState, instances, queue, received, wsi, thread,
                   functions, batch, sending, inits, sent>>

\* mutant: waits without looking at _readyState first
CloseLockBlind ==
    /\ ui = "closeLock"
    /\ ~ReadyStateLocked
    /\ ui' = "closeWait"
    /\ readyState' = "CLOSING"
    /\ UNCHANGED <<closeState, instances, queue, received, wsi, thread,
                   functions, batch, sending, inits, sent>>

CloseLock ==
    /\ ui = "closeLock"
    /\ ~ReadyStateLocked
    /\ IF readyState = "CLOSED"
       THEN ui' = "closeReport" /\ readyState' = readyState
       ELSE ui' = "closeWait" /\ readyState' = "CLOSING"
    /\ UNCHANGED <<closeState, instances, queue, received, wsi, thread,
                   functions, batch, sending, inits, sent>>

\* the wait has no predicate: the standard lets it return without a notification
CloseSpuriousWake ==
    /\ ui = "closeWait"
    /\ ui' = "closeWoken"
    /\ UNCHANGED <<readyState, closeState, instances, queue, received, wsi,
                   thread, functions, batch, sending, inits, sent>>

CloseDone ==
    /\ ui = "closeWoken"
    /\ closeState' = "SYNC_CLOSED"
    /\ ui' = "closeReport"
    /\ UNCHANGED <<readyState, instances, queue, received, wsi, thread,
                   functions, batch, sending, inits, sent>>

\* _delegate->onClose(this); what the delegate does is the composition's matter
CloseReport ==
    /\ ui = "closeReport"
    /\ ui' = "closeClear"
    /\ UNCHANGED <<readyState, closeState, instances, queue, received, wsi,
                   thread, functions, batch, sending, inits, sent>>

CloseClear ==
    /\ ui = "closeClear"
    /\ instances' = FALSE
    /\ ui' = "app"
    /\ UNCHANGED <<readyState, closeState, queue, received, wsi, thread,
                   functions, batch, sending, inits, sent>>

-----------------------------------------------------------------------------
(***************************************************************************)
(* The websocket thread: onSubThreadStarted and onSubThreadLoop.           *)
(***************************************************************************)
\* lws_create_context may fail; the loop then does nothing for ever
ThreadStarted ==
    /\ thread = "starting"
    /\ thread' \in {"loop", "noContext"}
    /\ UNCHANGED <<readyState, closeState, instances, queue, received, wsi,
                   functions, batch, ui, sending, inits, sent>>

IsCreate(m) == m.what = "CREATE_CONNECTION"

\* the queue without its first request to connect
DropCreate(q) ==
    LET i == CHOOSE j \in 1..Len(q) :
                 IsCreate(q[j]) /\ \A k \in 1..(j - 1) : ~IsCreate(q[k])
    IN  [k \in 1..(Len(q) - 1) |-> IF k < i THEN q[k] ELSE q[k + 1]]

HasCreate == \E i \in 1..Len(queue) : IsCreate(queue[i])

\* onClientOpenConnectionRequest: libwebsockets starts to connect, or returns null.
\* WSI_DESTROY follows within the same lws_service, so no connection is dying here.
OpenRequest ==
    /\ thread = "loop"
    /\ wsi # "dying"
    /\ HasCreate
    /\ queue' = DropCreate(queue)
    /\ readyState' = "CONNECTING"
    /\ \/ wsi' = "connecting" /\ thread' = "loop"
       \/ wsi' = wsi /\ thread' = "error"
    /\ UNCHANGED <<closeState, instances, received, functions, batch, ui,
                   sending, inits, sent>>

(***************************************************************************)
(* lws_service: the callbacks.  onSocketCallback ignores a callback for a  *)
(* socket that is no longer among the instances.                           *)
(***************************************************************************)
\* mutant: the callback does not look for the socket among the instances
CallbackBlind(handler) == thread' = handler

Callback(handler) == thread' = IF instances THEN handler ELSE "loop"

\* LWS_CALLBACK_CLIENT_ESTABLISHED
Established ==
    /\ thread = "loop"
    /\ wsi = "connecting"
    /\ wsi' = "established"
    /\ Callback("opened")
    /\ UNCHANGED <<readyState, closeState, instances, queue, received,
                   functions, batch, ui, sending, inits, sent>>

\* LWS_CALLBACK_CLIENT_CONNECTION_ERROR: refused, or the handshake timed out
ConnectionError ==
    /\ thread = "loop"
    /\ wsi = "connecting"
    /\ wsi' = "dying"
    /\ Callback("error")
    /\ UNCHANGED <<readyState, closeState, instances, queue, received,
                   functions, batch, ui, sending, inits, sent>>

\* the server or the network ends the connection
Disconnect ==
    /\ thread = "loop"
    /\ wsi = "established"
    /\ wsi' = "dying"
    /\ UNCHANGED <<readyState, closeState, instances, queue, received, thread,
                   functions, batch, ui, sending, inits, sent>>

\* LWS_CALLBACK_WSI_DESTROY
DestroyWsi ==
    /\ thread = "loop"
    /\ wsi = "dying"
    /\ wsi' = "none"
    /\ Callback("closed")
    /\ UNCHANGED <<readyState, closeState, instances, queue, received,
                   functions, batch, ui, sending, inits, sent>>

\* onConnectionOpened
OpenedLock ==
    /\ thread = "opened"
    /\ IF readyState \in {"CLOSING", "CLOSED"}
       THEN thread' = "loop" /\ readyState' = readyState
       ELSE thread' = "openPost" /\ readyState' = "OPEN"
    /\ UNCHANGED <<closeState, instances, queue, received, wsi, functions,
                   batch, ui, sending, inits, sent>>

\* sendMessageToCocosThread, the last or the middle step of a callback
Post(ev, next) ==
    /\ functions' = Append(functions, Event(ev))
    /\ thread' = next
    /\ UNCHANGED <<readyState, closeState, instances, queue, received, wsi,
                   batch, ui, sending, inits, sent>>

OpenPost == thread = "openPost" /\ Post("open", "loop")

\* onConnectionError
ErrorLock ==
    /\ thread = "error"
    /\ IF readyState = "CLOSED"
       THEN thread' = "loop" /\ readyState' = readyState
       ELSE thread' = "errorPost" /\ readyState' = "CLOSING"
    /\ UNCHANGED <<closeState, instances, queue, received, wsi, functions,
                   batch, ui, sending, inits, sent>>

ErrorPost == thread = "errorPost" /\ Post("error", "closed")

\* onConnectionClosed
ClosedLock ==
    /\ thread = "closed"
    /\ CASE readyState = "CLOSED" ->
              thread' = "loop" /\ readyState' = readyState
         [] readyState = "CLOSING" /\ closeState = "SYNC_CLOSING" ->
              thread' = "notify" /\ readyState' = readyState
         [] OTHER ->
              thread' = "closePost" /\ readyState' = "CLOSED"
    /\ UNCHANGED <<closeState, instances, queue, received, wsi, functions,
                   batch, ui, sending, inits, sent>>

ClosePost == thread = "closePost" /\ Post("close", "loop")

\* one round of the notifying loop; it ends when close() has woken up
NotifyRound ==
    /\ thread = "notify"
    /\ IF closeState = "SYNC_CLOSED"
       THEN thread' = "loop" /\ ui' = ui
       ELSE /\ thread' = thread
            /\ ui' = IF ui = "closeWait" THEN "closeWoken" ELSE ui
    /\ UNCHANGED <<readyState, closeState, instances, queue, received, wsi,
                   functions, batch, sending, inits, sent>>

(***************************************************************************)
(* LWS_CALLBACK_CLIENT_RECEIVE: onClientReceivedData.  _receivedData is    *)
(* emptied by the last fragment of a message and by nothing else: what a   *)
(* broken connection left in it is prepended to the first message of the   *)
(* next one, which is then no JSON text any more.                          *)
(***************************************************************************)
ReceivePart ==
    /\ thread = "loop"
    /\ wsi = "established"
    /\ instances
    /\ MaxFrags > 1
    /\ received = 0
    /\ received' = inits
    /\ UNCHANGED <<readyState, closeState, instances, queue, wsi, thread,
                   functions, batch, ui, sending, inits, sent>>

ReceiveFinal(m) ==
    /\ thread = "loop"
    /\ wsi = "established"
    /\ instances
    /\ Len(functions) < MaxInbox
    /\ functions' = Append(functions,
                           IF received \in {0, inits} THEN m ELSE Message(0, "bad"))
    /\ received' = 0
    /\ UNCHANGED <<readyState, closeState, instances, queue, wsi, thread,
                   batch, ui, sending, inits, sent>>

(***************************************************************************)
(* LWS_CALLBACK_CLIENT_WRITEABLE: onClientWritable.                        *)
(***************************************************************************)
Writable ==
    /\ thread = "loop"
    /\ wsi = "established"
    /\ instances

\* it returns -1, and libwebsockets ends the connection
WritableClosing ==
    /\ Writable
    /\ readyState = "CLOSING"
    /\ wsi' = "dying"
    /\ UNCHANGED <<readyState, closeState, instances, queue, received, thread,
                   functions, batch, ui, sending, inits, sent>>

\* mutant: a message that is written completely is not popped
WritableSendNoPop ==
    /\ Writable
    /\ readyState # "CLOSING"
    /\ queue # <<>>
    /\ ~IsCreate(Head(queue))
    /\ Len(sent) <= MaxCalls
    /\ sent' = Append(sent, Head(queue).id)
    /\ UNCHANGED <<readyState, closeState, instances, queue, received, wsi,
                   thread, functions, batch, ui, sending, inits>>

\* One fragment of the first message is written.  A partial write only moves the
\* start of that fragment: the message stays as it is.  A request to connect has
\* no data: dereferencing it ends the process.
WritableSend ==
    /\ Writable
    /\ readyState # "CLOSING"
    /\ queue # <<>>
    /\ LET m == Head(queue)
           done == m.left = 1
       IN  IF IsCreate(m)
           THEN thread' = "crashed" /\ UNCHANGED <<queue, sent>>
           ELSE /\ thread' = thread
                /\ queue' = IF done THEN Tail(queue)
                            ELSE <<StringMsg(m.id, m.left - 1)>> \o Tail(queue)
                /\ sent' = IF done THEN Append(sent, m.id) ELSE sent
    /\ UNCHANGED <<readyState, closeState, instances, received, wsi, functions,
                   batch, ui, sending, inits>>

\* lws_write fails: the message is dropped and closeAsync() is called, which
\* returns at once unless _closeState is NONE
WritableError ==
    /\ Writable
    /\ readyState # "CLOSING"
    /\ queue # <<>>
    /\ ~IsCreate(Head(queue))
    /\ queue' = Tail(queue)
    /\ thread' = IF closeState = "NONE" THEN "asyncSet" ELSE "loop"
    /\ UNCHANGED <<readyState, closeState, instances, received, wsi, functions,
                   batch, ui, sending, inits, sent>>

AsyncSet ==
    /\ thread = "asyncSet"
    /\ closeState' = "ASYNC_CLOSING"
    /\ thread' = "asyncLock"
    /\ UNCHANGED <<readyState, instances, queue, received, wsi, functions,
                   batch, ui, sending, inits, sent>>

AsyncLock ==
    /\ thread = "asyncLock"
    /\ readyState' = IF readyState \in {"CLOSED", "CLOSING"} THEN readyState
                                                             ELSE "CLOSING"
    /\ thread' = "loop"
    /\ UNCHANGED <<closeState, instances, queue, received, wsi, functions,
                   batch, ui, sending, inits, sent>>

-----------------------------------------------------------------------------
(***************************************************************************)
(* All steps of the websocket thread.                                      *)
(***************************************************************************)
Receive == \E m \in ServerMessages : ReceiveFinal(m)

\* the thread goes on inside a callback it has begun
ThreadGoesOn ==
    \/ ThreadStarted
    \/ OpenedLock \/ OpenPost
    \/ ErrorLock \/ ErrorPost
    \/ ClosedLock \/ ClosePost \/ NotifyRound
    \/ AsyncSet \/ AsyncLock

ThreadNext ==
    \/ ThreadGoesOn
    \/ OpenRequest
    \/ Established \/ ConnectionError \/ Disconnect \/ DestroyWsi
    \/ ReceivePart \/ Receive
    \/ WritableClosing \/ WritableSend \/ WritableError

-----------------------------------------------------------------------------
(***************************************************************************)
(* What the invariants of the modules that use a WebSocket are made of.    *)
(***************************************************************************)
\* Of the queues: requests to connect, and events that are there or only come last
NoCreate == \A i \in 1..Len(queue) : ~IsCreate(queue[i])
NoneBut(s, ev) == \A i \in 1..(Len(s) - 1) : s[i].ev # ev
Has(s, ev) == \E i \in 1..Len(s) : s[i].ev = ev
Quiet == batch = <<>> /\ functions = <<>>

\* The connection is over, and the websocket thread will post nothing about it
Over ==
    /\ readyState = "CLOSED"
    /\ wsi \in {"none", "dying"}
    /\ thread \in {"loop", "closed"}
    /\ thread = "closed" => wsi = "none"

\* Where the websocket thread and the connection can be while a connection runs
Connecting ==
    \/ wsi = "connecting" /\ thread = "loop"
    \/ wsi = "established" /\ thread = "opened"
    \/ wsi \in {"none", "dying"} /\ thread = "error"
Opened ==
    \/ wsi = "established" /\ thread \in {"openPost", "loop", "asyncSet", "asyncLock"}
    \/ wsi = "dying" /\ thread = "loop"
    \/ wsi = "none" /\ thread = "closed"
Breaking ==
    \/ wsi \in {"established", "dying"} /\ thread = "loop"
    \/ wsi \in {"none", "dying"} /\ thread \in {"errorPost", "closed"}

=============================================================================
