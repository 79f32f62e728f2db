--------------------------- MODULE JsonConnection ---------------------------
(***************************************************************************)
(* fc::rpc::json_connection: JSON-RPC over a pair of buffered streams.     *)
(* Calls get promises that are never removed; a read loop reads messages   *)
(* and starts a handler for each; an exception that ends the loop, or      *)
(* leaves a handler, goes to every promise.                                *)
(*                                                                         *)
(* Two connections talk to each other, and other programs may put messages *)
(* into the stream.  A message is a record, its text is the matter of Json *)
(* and Codec.  The handlers of an end are tasks that end in any order.     *)
(***************************************************************************)
EXTENDS Integers, Sequences, SequencesExt

CONSTANTS MaxRequests,   \* calls and notices of one end
          MaxForeign,    \* messages of other programs
          Callers,       \* the ends that make calls
          Servers,       \* the ends that have methods
          CalledNames,   \* the methods that are called
          AddedNames     \* the methods that are added

VARIABLES methods,       \* per end: _methods and _named_param_methods
          promises,      \* per end: the calls, their id is the index less 1
          buffer,        \* per end: written to _out and not flushed
          wire,          \* per end: flushed by the other end and not yet read
          handlers,      \* per end: messages read whose handler has not ended
          newest,        \* per end: is the last one read still among them?
                         \* (_handle_message_future is valid and not ready)
          loop,          \* per end: "idle", "reading", "ended" by what was read,
                         \* "closed" by close() with an exception or "canceled"
                         \* by it without one
          closed_with,   \* per end: calls of close(exception_ptr)
          sent,          \* per end: calls and notices made
          foreign

json_vars == <<methods, promises, buffer, wire, handlers, newest, loop,
               closed_with, sent, foreign>>

Sides == {"left", "right"}

ASSUME JsonAssumption ==
  /\ MaxRequests \in Nat
  /\ Callers \subseteq Sides /\ Servers \subseteq Sides
  /\ "absent" \notin CalledNames

Across(e) == CHOOSE o \in Sides : o # e

-----------------------------------------------------------------------------
(* Promises.                                                               *)

\* late: made when nobody reads the answers any more.
new_promise(asked, late) == [asked |-> asked, late |-> late, ready |-> FALSE,
                             exceptp |-> FALSE, result |-> <<>>]

set_value(p, v) == [p EXCEPT !.result = v, !.ready = TRUE]

set_exception(p) == [p EXCEPT !.exceptp = TRUE, !.ready = TRUE]

\* What future<variant>::wait returns or throws.
waited(p) == IF ~p.ready THEN "waits"
             ELSE IF p.exceptp THEN "throws" ELSE "returns"

\* json_connection::call: the answer is waited for, here without a limit, and
\* becomes the type the caller asks for.
call(p) == IF waited(p) = "returns" THEN <<"returns", p.result>> ELSE <<waited(p)>>

-----------------------------------------------------------------------------
(* Messages: params is how the arguments are given, not given or wrong.    *)

Message(id, method, params) ==
  [id |-> id, method |-> method, params |-> params, error |-> FALSE,
   result |-> <<>>]

Reply(id, error, result) ==
  [id |-> id, method |-> "absent", params |-> "absent", error |-> error, result |-> result]

NoId == -1

WrongId == -2

\* Parameters that are neither a list nor an object, an answer to no call, an
\* answer that answers nothing, an id that is no number, and nothing at all.
Foreign == {Message(MaxRequests, "m", "number"), Reply(MaxRequests, FALSE, <<"m", "list">>),
            Reply(0, FALSE, <<>>), Reply(WrongId, FALSE, <<"m", "list">>),
            Reply(NoId, FALSE, <<>>)}

JsonInit ==
  /\ methods = [e \in Sides |-> [list |-> {}, named |-> {}]]
  /\ promises = [e \in Sides |-> <<>>]
  /\ buffer = [e \in Sides |-> <<>>]
  /\ wire = [e \in Sides |-> <<>>]
  /\ handlers = [e \in Sides |-> <<>>]
  /\ newest = [e \in Sides |-> FALSE]
  /\ loop = [e \in Sides |-> "idle"]
  /\ closed_with = [e \in Sides |-> 0]
  /\ sent = [e \in Sides |-> 0]
  /\ foreign = 0

\* Methods are added, and removed under both their forms, before exec.
add_method(e, name) ==
  /\ loop[e] = "idle"
  /\ methods' = [methods EXCEPT ![e].list = @ \cup {name}]
  /\ UNCHANGED <<promises, buffer, wire, handlers, newest, loop, closed_with, sent, foreign>>

add_named_param_method(e, name) ==
  /\ loop[e] = "idle"
  /\ methods' = [methods EXCEPT ![e].named = @ \cup {name}]
  /\ UNCHANGED <<promises, buffer, wire, handlers, newest, loop, closed_with, sent, foreign>>

remove_method(e, name) ==
  /\ loop[e] = "idle"
  /\ methods' = [methods EXCEPT ![e] = [list |-> @.list \ {name},
                                        named |-> @.named \ {name}]]
  /\ UNCHANGED <<promises, buffer, wire, handlers, newest, loop, closed_with, sent, foreign>>

exec(e) ==
  /\ loop[e] = "idle"
  /\ loop' = [loop EXCEPT ![e] = "reading"]
  /\ UNCHANGED <<methods, promises, buffer, wire, handlers, newest, closed_with, sent, foreign>>

-----------------------------------------------------------------------------
(* Writing.  close() closes the output of an end, and a write to it throws *)
(* from then on; what is flushed towards an end that does not read any     *)
(* more is lost.  Calls and notices do not ask for the state of the loop.  *)

Over(e) == loop[e] \in {"ended", "closed", "canceled"}

out_closed(e) == loop[e] \in {"closed", "canceled"}

reaches(e) == ~Over(Across(e))

written(e, msg) ==
  IF out_closed(e) THEN UNCHANGED buffer
  ELSE buffer' = [buffer EXCEPT ![e] = Append(@, msg)]

flushed(e, msg) ==
  IF out_closed(e) THEN UNCHANGED <<buffer, wire>>
  ELSE /\ buffer' = [buffer EXCEPT ![e] = <<>>]
       /\ wire' = IF reaches(e)
                  THEN [wire EXCEPT ![Across(e)] = @ \o Append(buffer[e], msg)]
                  ELSE wire

\* The promise of a call; when the write throws its caller gets the exception.
called(e, asked) ==
  LET p == new_promise(asked, loop[e] = "ended")
  IN  IF out_closed(e) THEN set_exception(p) ELSE p

\* A call that leaves its request in the buffer.
start_call_unflushed(e, method, params) ==
  /\ sent[e] < MaxRequests
  /\ sent' = [sent EXCEPT ![e] = @ + 1]
  /\ promises' = [promises EXCEPT ![e] = Append(@, called(e, <<method, params>>))]
  /\ written(e, Message(Len(promises[e]), method, params))
  /\ UNCHANGED wire
  /\ UNCHANGED <<methods, handlers, newest, loop, closed_with, foreign>>

start_call(e, method, params) ==
  /\ sent[e] < MaxRequests
  /\ sent' = [sent EXCEPT ![e] = @ + 1]
  /\ promises' = [promises EXCEPT ![e] = Append(@, called(e, <<method, params>>))]
  /\ flushed(e, Message(Len(promises[e]), method, params))
  /\ UNCHANGED <<methods, handlers, newest, loop, closed_with, foreign>>

\* Up to ten arguments one by one, or a list of them.
async_call(e, method) == start_call(e, method, "list")

async_call_named(e, method) == start_call(e, method, "named")

async_call_bare(e, method) == start_call(e, method, "none")

\* A notice with a list of arguments is not flushed, the others are.
notice(e, method, params) ==
  /\ sent[e] < MaxRequests
  /\ sent' = [sent EXCEPT ![e] = @ + 1]
  /\ IF params = "list"
     THEN written(e, Message(NoId, method, params)) /\ UNCHANGED wire
     ELSE flushed(e, Message(NoId, method, params))
  /\ UNCHANGED <<methods, promises, handlers, newest, loop, closed_with, foreign>>

-----------------------------------------------------------------------------
(* Reading.                                                                *)

\* close(exception_ptr): every promise there has ever been.
closed_promises(e) ==
  [promises EXCEPT ![e] = [i \in DOMAIN @ |-> set_exception(@[i])]]

close_all(e) ==
  /\ promises' = closed_promises(e)
  /\ closed_with' = [closed_with EXCEPT ![e] = @ + 1]

read_loop(e) ==
  /\ loop[e] = "reading" /\ wire[e] # <<>>
  /\ handlers' = [handlers EXCEPT ![e] = Append(@, Head(wire[e]))]
  /\ newest' = [newest EXCEPT ![e] = TRUE]
  /\ wire' = [wire EXCEPT ![e] = Tail(@)]
  /\ UNCHANGED <<methods, promises, buffer, loop, closed_with, sent, foreign>>

\* The other end has closed its output, or the stream holds what is not JSON.
read_loop_ends(e) ==
  /\ loop[e] = "reading"
  /\ \/ wire[e] = <<>> /\ out_closed(Across(e)) /\ UNCHANGED foreign
     \/ foreign < MaxForeign /\ foreign' = foreign + 1
  /\ loop' = [loop EXCEPT ![e] = "ended"]
  /\ wire' = [wire EXCEPT ![e] = <<>>]
  /\ close_all(e)
  /\ UNCHANGED <<methods, buffer, handlers, newest, sent>>

\* Which methods take arguments given in this way.
answers(e, msg) ==
  CASE msg.params = "none"  -> msg.method \in methods[e].list \cup methods[e].named
    [] msg.params = "list"  -> msg.method \in methods[e].list
    [] msg.params = "named" -> msg.method \in methods[e].named
    [] OTHER                -> FALSE

\* A request runs and is answered by its result or its exception; when neither
\* can be written the exception leaves the handler.
handle_request_of(e, msg) ==
  \/ /\ msg.id = NoId
     /\ UNCHANGED <<buffer, wire, promises, closed_with>>
  \/ /\ msg.id # NoId /\ out_closed(e)
     /\ close_all(e)
     /\ UNCHANGED <<buffer, wire>>
  \/ /\ msg.id # NoId /\ ~out_closed(e)
     /\ flushed(e, IF answers(e, msg)
                   THEN Reply(msg.id, FALSE, <<msg.method, msg.params>>)
                   ELSE Reply(msg.id, TRUE, <<>>))
     /\ UNCHANGED <<promises, closed_with>>

\* An answer sets its promise; a wrong id closes the connection's promises.
handle_answer(e, msg) ==
  /\ \/ msg.id = WrongId /\ close_all(e)
     \/ /\ msg.id # WrongId
        /\ UNCHANGED closed_with
        /\ promises' =
             IF msg.id + 1 \in DOMAIN promises[e]
             THEN [promises EXCEPT ![e][msg.id + 1] =
                     IF msg.error THEN set_exception(@)
                     ELSE IF msg.result = <<>> THEN @
                     ELSE set_value(@, msg.result)]
             ELSE promises
  /\ UNCHANGED <<buffer, wire>>

\* The handler of the i-th message that has not been handled.
handle_message(e, i) ==
  /\ i \in 1 .. Len(handlers[e])
  /\ handlers' = [handlers EXCEPT ![e] = RemoveAt(@, i)]
  /\ newest' = [newest EXCEPT ![e] = @ /\ i # Len(handlers[e])]
  /\ LET msg == handlers[e][i]
     IN \/ msg.method # "absent" /\ handle_request_of(e, msg)
        \/ msg.method = "absent" /\ handle_answer(e, msg)
  /\ UNCHANGED <<methods, loop, sent, foreign>>

\* json_connection::close: the handler of the last message read is canceled.
\* A loop that reads is canceled too, and the output flushed and closed: the
\* loop throws where it waits for text, or finds itself canceled before it
\* reads, and leaves without an exception for the promises.
close(e) ==
  /\ loop[e] = "reading" \/ newest[e]
  /\ handlers' = [handlers EXCEPT ![e] = IF newest[e] THEN Front(@) ELSE @]
  /\ newest' = [newest EXCEPT ![e] = FALSE]
  /\ \/ /\ loop[e] # "reading"
        /\ UNCHANGED <<promises, buffer, wire, loop, closed_with>>
     \/ /\ loop[e] = "reading"
        /\ buffer' = [buffer EXCEPT ![e] = <<>>]
        /\ wire' = [o \in Sides |-> IF o = e THEN <<>>
                                    ELSE IF reaches(e) THEN wire[o] \o buffer[e]
                                    ELSE wire[o]]
        /\ \/ loop' = [loop EXCEPT ![e] = "closed"] /\ close_all(e)
           \/ /\ loop' = [loop EXCEPT ![e] = "canceled"]
              /\ UNCHANGED <<promises, closed_with>>
  /\ UNCHANGED <<methods, sent, foreign>>

another_program(e, msg) ==
  /\ foreign < MaxForeign /\ reaches(Across(e))
  /\ foreign' = foreign + 1
  /\ wire' = [wire EXCEPT ![e] = Append(@, msg)]
  /\ UNCHANGED <<methods, promises, buffer, handlers, newest, loop, closed_with, sent>>

JsonNext ==
  \/ \E e \in Servers, name \in AddedNames :
       add_method(e, name) \/ add_named_param_method(e, name) \/ remove_method(e, name)
  \/ \E e \in Sides :
       \/ exec(e) \/ read_loop(e) \/ read_loop_ends(e) \/ close(e)
       \/ \E i \in 1 .. Len(handlers[e]) : handle_message(e, i)
       \/ \E msg \in Foreign : another_program(e, msg)
  \/ \E e \in Callers, name \in CalledNames :
       \/ async_call(e, name) \/ async_call_named(e, name) \/ async_call_bare(e, name)
       \/ \E params \in {"none", "list", "named"} : notice(e, name, params)

JsonSpec == JsonInit /\ [][JsonNext]_json_vars

-----------------------------------------------------------------------------
(* Properties.                                                             *)

\* A message that will settle the call with this id where it is handled: its
\* request, or a reply that has an error or a result.
Pending(msgs, id, request) ==
  \E i \in DOMAIN msgs :
    /\ msgs[i].id = id /\ (msgs[i].method # "absent") = request
    /\ request \/ msgs[i].error \/ msgs[i].result # <<>>

\* A call that returns gives the result of its own method with its own kind
\* of arguments.  One that waits while both ends may still read has its request
\* or an answer beyond the buffers of its writer.  When the read loop of an end
\* has ended with an exception none of its calls goes on waiting, but those that
\* were made after that; when close() has ended it without one they may.
JsonCallsAnswered ==
  \A e \in Sides : \A i \in DOMAIN promises[e] :
    LET p == promises[e][i]
    IN /\ call(p)[1] = "returns" => call(p)[2] = p.asked
       /\ waited(p) = "waits" /\ ~Over(e) /\ reaches(e) =>
            \/ Pending(wire[Across(e)] \o handlers[Across(e)], i - 1, TRUE)
            \/ Pending(wire[e] \o handlers[e], i - 1, FALSE)
       /\ waited(p) = "waits" /\ loop[e] \in {"ended", "closed"} => p.late
=============================================================================
