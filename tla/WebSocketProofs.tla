--------------------------- MODULE WebSocketProofs ---------------------------
(***************************************************************************)
(* Facts about WebSocket that the proofs about the modules above it share. *)
(***************************************************************************)
EXTENDS WebSocket, SequenceTheorems, TLAPS

\* Taking the first request to connect out of the queue leaves a queue that is one
\* shorter and has no other elements (the erase of onSubThreadLoop).
LEMMA DropCreateType ==
    ASSUME NEW S, NEW q \in Seq(S), \E i \in 1..Len(q) : IsCreate(q[i])
    PROVE  /\ DropCreate(q) \in Seq(S)
           /\ Len(DropCreate(q)) = Len(q) - 1
<1> DEFINE First(j) == IsCreate(q[j]) /\ \A k \in 1..(j - 1) : ~IsCreate(q[k])
           i == CHOOSE j \in 1..Len(q) : First(j)
           n == Len(q) - 1
           r == [k \in 1..n |-> IF k < i THEN q[k] ELSE q[k + 1]]
<1>1. n \in Nat
  OBVIOUS
<1>2. \A k \in 1..n : (IF k < i THEN q[k] ELSE q[k + 1]) \in S
  BY <1>1
<1>3. r \in [1..n -> S]
  BY <1>2
<1>4. DropCreate(q) = r
  BY DEF DropCreate
<1>5. r \in Seq(S) /\ Len(r) = n
  BY <1>1, <1>3, LenProperties, SeqDef
<1> QED
  BY <1>4, <1>5

\* Every step of the websocket thread keeps the types of the socket's state.
LEMMA ThreadTypeOK ==
    ASSUME SockTypeOK, ThreadNext
    PROVE  SockTypeOK'
<1> USE WebSocketAssumption DEF SockTypeOK, States, CloseStates, WsiStates,
                                ThreadStates, UiStates, Conns
<1>1. Calls \subseteq Nat /\ 0 \notin Calls
  BY DEF Calls
<1>2. CASE ThreadStarted
  BY <1>2 DEF ThreadStarted
<1>3. CASE OpenedLock
  BY <1>3 DEF OpenedLock
<1>4. ASSUME NEW ev \in {"open", "error", "close"}, NEW next \in ThreadStates,
             Post(ev, next)
      PROVE  SockTypeOK'
  <2>1. Event(ev) \in Events
    BY DEF Events, Event
  <2> QED
    BY <1>4, <2>1 DEF Post
<1>5. CASE OpenPost
  BY <1>4, <1>5 DEF OpenPost
<1>6. CASE ErrorLock
  BY <1>6 DEF ErrorLock
<1>7. CASE ErrorPost
  BY <1>4, <1>7 DEF ErrorPost
<1>8. CASE ClosedLock
  BY <1>8 DEF ClosedLock
<1>9. CASE ClosePost
  BY <1>4, <1>9 DEF ClosePost
<1>10. CASE NotifyRound
  BY <1>10 DEF NotifyRound
<1>11. CASE AsyncSet
  BY <1>11 DEF AsyncSet
<1>12. CASE AsyncLock
  BY <1>12 DEF AsyncLock
<1>13. CASE OpenRequest
  <2>1. queue' \in Seq(WsMessages)
    BY <1>13, DropCreateType DEF OpenRequest, HasCreate
  <2> QED
    BY <1>13, <2>1 DEF OpenRequest
<1>14. CASE Established \/ ConnectionError \/ Disconnect \/ DestroyWsi
  BY <1>14 DEF Established, ConnectionError, Disconnect, DestroyWsi, Callback
<1>15. CASE ReceivePart
  BY <1>15 DEF ReceivePart
<1>16. CASE Receive
  <2>1. PICK m \in ServerMessages : ReceiveFinal(m)
    BY <1>16 DEF Receive
  <2>2. functions' \in Seq(Events)
    BY <2>1 DEF ReceiveFinal, Events
  <2> QED
    BY <2>1, <2>2 DEF ReceiveFinal
<1>17. CASE WritableClosing
  BY <1>17 DEF WritableClosing, Writable
<1>18. CASE WritableSend
  <2>1. Head(queue) \in WsMessages /\ Tail(queue) \in Seq(WsMessages)
    BY <1>18 DEF WritableSend
  <2>2. CASE IsCreate(Head(queue))
    BY <1>18, <2>2 DEF WritableSend, Writable
  <2>3. CASE ~IsCreate(Head(queue))
    <3>1. PICK d \in Calls, n \in 1..MaxFrags : Head(queue) = StringMsg(d, n)
      BY <2>1, <2>3 DEF WsMessages, IsCreate, CreateMsg
    <3>2. Head(queue).id = d /\ Head(queue).left = n
      BY <3>1 DEF StringMsg
    <3>3. n # 1 => StringMsg(d, n - 1) \in WsMessages
      BY DEF WsMessages
    <3>4. CASE n = 1
      <4>1. queue' = Tail(queue) /\ sent' = Append(sent, d)
        BY <1>18, <2>3, <3>2, <3>4 DEF WritableSend
      <4>2. sent' \in Seq(Calls)
        BY <4>1, AppendProperties
      <4> QED
        BY <1>18, <2>1, <2>3, <4>1, <4>2 DEF WritableSend, Writable
    <3>5. CASE n # 1
      <4>1. <<StringMsg(d, n - 1)>> \in Seq(WsMessages)
        BY <3>3, <3>5
      <4>2. <<StringMsg(d, n - 1)>> \o Tail(queue) \in Seq(WsMessages)
        BY <2>1, <4>1, ConcatProperties
      <4> QED
        BY <1>18, <2>3, <3>2, <3>5, <4>2 DEF WritableSend, Writable
    <3> QED
      BY <3>4, <3>5
  <2> QED
    BY <2>2, <2>3
<1>19. CASE WritableError
  BY <1>19 DEF WritableError, Writable
<1> QED
  BY <1>2, <1>3, <1>5, <1>6, <1>7, <1>8, <1>9, <1>10, <1>11, <1>12, <1>13,
     <1>14, <1>15, <1>16, <1>17, <1>18, <1>19
     DEF ThreadNext, ThreadGoesOn

-----------------------------------------------------------------------------
(***************************************************************************)
(* The queues.                                                             *)
(***************************************************************************)

\* When the only request to connect is the last element of the queue, the others
\* keep their places when it is taken out.
LEMMA DropLastKeeps ==
    ASSUME NEW S, NEW q \in Seq(S), q # <<>>, IsCreate(q[Len(q)]),
           \A i \in 1..(Len(q) - 1) : ~IsCreate(q[i])
    PROVE  /\ Len(DropCreate(q)) = Len(q) - 1
           /\ \A k \in 1..(Len(q) - 1) : DropCreate(q)[k] = q[k]
<1> DEFINE First(j) == IsCreate(q[j]) /\ \A k \in 1..(j - 1) : ~IsCreate(q[k])
           i == CHOOSE j \in 1..Len(q) : First(j)
<1>1. Len(q) \in 1..Len(q) /\ Len(q) \in Nat
  OBVIOUS
<1>2. First(Len(q))
  BY <1>1
<1>3. i \in 1..Len(q) /\ First(i)
  BY <1>1, <1>2
<1>4. i = Len(q)
  BY <1>1, <1>3
<1>5. DropCreate(q) = [k \in 1..(Len(q) - 1) |-> IF k < i THEN q[k] ELSE q[k + 1]]
  BY DEF DropCreate
<1>6. Len(DropCreate(q)) = Len(q) - 1
  BY <1>1, DropCreateType
<1> QED
  BY <1>1, <1>4, <1>5, <1>6

\* When the only request to connect is the last element of the queue, none is left
\* after it has been taken out.
LEMMA DropLastCreate ==
    ASSUME NEW S, NEW q \in Seq(S), q # <<>>, IsCreate(q[Len(q)]),
           \A i \in 1..(Len(q) - 1) : ~IsCreate(q[i])
    PROVE  \A i \in 1..Len(DropCreate(q)) : ~IsCreate(DropCreate(q)[i])
  BY DropLastKeeps

\* A call of init puts the request to connect at the end of the queue.
LEMMA InitQueues ==
    ASSUME SockTypeOK, SocketInit
    PROVE  /\ queue' # <<>> /\ IsCreate(queue'[Len(queue')])
           /\ NoCreate => \A i \in 1..(Len(queue') - 1) : ~IsCreate(queue'[i])
<1>1. queue \in Seq(WsMessages) /\ queue' = Append(queue, CreateMsg)
  BY DEF SocketInit, SockTypeOK
<1>2. Len(queue') = Len(queue) + 1 /\ Len(queue) \in Nat
  BY <1>1
<1>3. queue'[Len(queue) + 1] = CreateMsg /\ \A i \in 1..Len(queue) : queue'[i] = queue[i]
  BY <1>1
<1> QED
  BY <1>1, <1>2, <1>3 DEF IsCreate, CreateMsg, NoCreate

\* Neither sending a message nor writing one brings a request to connect.
LEMMA PushNoCreate ==
    ASSUME SockTypeOK, NoCreate, SendPush
    PROVE  NoCreate'
<1>1. PICK n \in 1..MaxFrags : queue' = Append(queue, StringMsg(sending, n))
  BY DEF SendPush
<1>2. ~IsCreate(StringMsg(sending, n)) /\ queue \in Seq(WsMessages)
  BY DEF IsCreate, StringMsg, SockTypeOK
<1> QED
  BY <1>1, <1>2 DEF NoCreate

\* The same for the websocket thread, which pops what it has written.
LEMMA WriteNoCreate ==
    ASSUME SockTypeOK, NoCreate, WritableSend \/ WritableError
    PROVE  NoCreate' /\ ~IsCreate(Head(queue))
<1>1. queue \in Seq(WsMessages) /\ queue # <<>>
  BY DEF SockTypeOK, WritableSend, WritableError
<1>2. ~IsCreate(Head(queue))
  <2>1. 1 \in 1..Len(queue) /\ Head(queue) = queue[1]
    BY <1>1
  <2> QED
    BY <2>1 DEF NoCreate
<1>3. \A i \in 1..Len(Tail(queue)) : ~IsCreate(Tail(queue)[i])
  BY <1>1 DEF NoCreate
<1>4. \A m : ~IsCreate(m)
        => \A i \in 1..Len(<<m>> \o Tail(queue)) : ~IsCreate((<<m>> \o Tail(queue))[i])
  BY <1>1, <1>3
<1>5. ~IsCreate(StringMsg(Head(queue).id, Head(queue).left - 1))
  BY DEF IsCreate, StringMsg
<1> QED
  BY <1>2, <1>3, <1>4, <1>5 DEF WritableSend, WritableError, NoCreate

\* What Append and Tail do to the events a queue has.
LEMMA HasAppend ==
    ASSUME NEW s \in Seq(Events), NEW e, NEW ev
    PROVE  Has(Append(s, e), ev) <=> Has(s, ev) \/ e.ev = ev
<1>1. Len(Append(s, e)) = Len(s) + 1 /\ Len(s) \in Nat
  OBVIOUS
<1>2. \A i \in 1..Len(s) : Append(s, e)[i] = s[i]
  OBVIOUS
<1>3. Append(s, e)[Len(s) + 1] = e
  OBVIOUS
<1> QED
  BY <1>1, <1>2, <1>3 DEF Has

\* The close event that comes last stays last until it is delivered.
LEMMA HasTail ==
    ASSUME NEW s \in Seq(Events), s # <<>>, NEW ev
    PROVE  /\ Has(Tail(s), ev) => Has(s, ev)
           /\ Head(s).ev = ev => Has(s, ev)
           /\ Head(s).ev = ev /\ NoneBut(s, ev) => Tail(s) = <<>>
           /\ NoneBut(s, ev) => NoneBut(Tail(s), ev)
           /\ Head(s).ev # ev /\ s[Len(s)].ev = ev
                => Tail(s) # <<>> /\ Tail(s)[Len(Tail(s))].ev = ev
<1>1. Len(Tail(s)) = Len(s) - 1 /\ Len(s) \in Nat \ {0} /\ Tail(s) \in Seq(Events)
  OBVIOUS
<1>2. \A i \in 1..(Len(s) - 1) : Tail(s)[i] = s[i + 1]
  OBVIOUS
<1>3. Head(s) = s[1]
  OBVIOUS
<1>4. Tail(s) = <<>> <=> Len(s) = 1
  BY <1>1, EmptySeq
<1>5. Has(Tail(s), ev) => Has(s, ev)
  <2> SUFFICES ASSUME NEW i \in 1..Len(Tail(s)), Tail(s)[i].ev = ev PROVE Has(s, ev)
    BY DEF Has
  <2>1. i + 1 \in 1..Len(s) /\ s[i + 1].ev = ev
    BY <1>1, <1>2
  <2> QED
    BY <2>1 DEF Has
<1>6. Head(s).ev = ev => Has(s, ev)
  BY <1>1, <1>3 DEF Has
<1>7. Head(s).ev = ev /\ NoneBut(s, ev) => Tail(s) = <<>>
  BY <1>1, <1>3, <1>4 DEF NoneBut
<1>8. NoneBut(s, ev) => NoneBut(Tail(s), ev)
  BY <1>1, <1>2 DEF NoneBut
<1>9. Head(s).ev # ev /\ s[Len(s)].ev = ev
        => Tail(s) # <<>> /\ Tail(s)[Len(Tail(s))].ev = ev
  <2> SUFFICES ASSUME Head(s).ev # ev, s[Len(s)].ev = ev
               PROVE  Tail(s) # <<>> /\ Tail(s)[Len(Tail(s))].ev = ev
    OBVIOUS
  <2>1. Len(s) # 1
    BY <1>3
  <2>2. Len(Tail(s)) \in 1..(Len(s) - 1) /\ Len(Tail(s)) + 1 = Len(s)
    BY <1>1, <2>1
  <2> QED
    BY <1>2, <1>4, <2>1, <2>2
<1> QED
  BY <1>5, <1>6, <1>7, <1>8, <1>9

=============================================================================
