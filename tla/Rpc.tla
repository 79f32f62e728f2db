-------------------------------- MODULE Rpc --------------------------------
(***************************************************************************)
(* The api connections of fc: rpc::state matches replies with the calls    *)
(* that wait for them, api_connection gives numbers to the api objects and *)
(* to the callbacks that are passed between the two ends, and              *)
(* websocket_api_connection turns both into messages of a websocket.       *)
(*                                                                         *)
(* Two ends hold one connection.  A message is the record it is before it  *)
(* becomes JSON text (Json and Codec are about that conversion).  The      *)
(* websocket keeps the order of its messages and loses them only by        *)
(* closing; the fiber that waits for an answer is external, a call is      *)
(* "waiting" until its promise is set.                                     *)
(***************************************************************************)
EXTENDS Integers, Sequences, SequencesExt

CONSTANTS MaxCalls,      \* calls made by one end
          MaxTold,       \* uses of callbacks by one end
          MaxStrays      \* messages that no connection of fc sends

ASSUME RpcAssumption == MaxCalls \in Nat

VARIABLES local_apis,    \* per end: the api objects, an id is an index less 1
          callbacks,     \* per end: the calls that handed a callback over
          calls,         \* per end: the calls, the id of a request is its index
          awaiting,      \* per end: _awaiting, the ids of promises
          held,          \* per end: callback_functors received by its apis
          told, heard,   \* per end: uses of functors, and callbacks run
          net,           \* per end: the messages on the way to it
          open,          \* the websocket is open
          alive,         \* per end: the connection object exists
          strays

rpc_vars == <<local_apis, callbacks, calls, awaiting, held, told, heard, net,
              open, alive, strays>>

Ends == {"near", "far"}

Other(e) == CHOOSE o \in Ends : o # e

-----------------------------------------------------------------------------
(* The apis of an application, as the nodes have them: api 0 is what a     *)
(* client sees first, api 1 hands out the other apis by name.              *)

interface(h) == CASE h = "root"  -> {"open", "watch"}
                  [] h = "login" -> {"database"}
                  [] OTHER       -> {"echo"}

arity == [open |-> 1, watch |-> 1, database |-> 0, echo |-> 1]

Null == [is |-> "null", of |-> <<>>]

Failed == [is |-> "error", of |-> <<>>]

Number(n) == [is |-> "api", of |-> <<n>>]

Echoed(h, x) == [is |-> "value", of |-> <<h, x>>]

Waiting == [is |-> "waiting", of |-> <<>>]

-----------------------------------------------------------------------------
(* api_connection: what an end gives out and how it is reached again.      *)

\* An object that was registered before keeps its id.
register_api(apis, h) ==
  IF Contains(apis, h) THEN apis ELSE Append(apis, h)

api_id(apis, h) == (CHOOSE i \in DOMAIN apis : apis[i] = h) - 1

\* generic_api::call finds the method and call_generic takes its arguments.
callable(apis, id, method, args) ==
  /\ Len(apis) > id
  /\ method \in interface(apis[id + 1])
  /\ Len(args) >= arity[method]

\* What a method of an application returns, as a variant: an api as its id.
returned(apis, h, method, args) ==
  CASE method = "watch"    -> Null
    [] method = "echo"     -> Echoed(h, args[1])
    [] method = "database" -> Number(api_id(register_api(apis, "database"), "database"))
    [] method = "open" /\ args[1] = "nothing" -> Null
    [] OTHER               -> Number(api_id(register_api(apis, args[1]), args[1]))

registered(apis, method, args) ==
  CASE method = "database" -> register_api(apis, "database")
    [] method = "open" /\ args[1] # "nothing" -> register_api(apis, args[1])
    [] OTHER -> apis

\* receive_call answers with [apis, functors, result].
receive_call(end, id, method, args, call) ==
  IF ~callable(end.apis, id, method, args) THEN [end EXCEPT !.result = Failed]
  ELSE [end EXCEPT
          !.apis = registered(end.apis, method, args),
          !.functors = IF method = "watch"
                       THEN Append(@, [callback_id |-> args[1], call |-> call])
                       ELSE @,
          !.result = returned(end.apis, end.apis[id + 1], method, args)]

\* A callback runs with the arguments it was given; its result is dropped.
receive_callback(end, id, args) ==
  IF Len(end.callbacks) > id /\ args # <<>>
  THEN [end EXCEPT !.heard = Append(@, <<end.callbacks[id + 1], args[1]>>),
                   !.result = Null]
  ELSE [end EXCEPT !.result = Failed]

\* The api that a call is for: an id, or a name that api 1 knows.
named(end, params) ==
  IF "name" \in DOMAIN params[1]
  THEN receive_call(end, 1, params[1].name, <<>>, 0)
  ELSE [end EXCEPT !.result = Number(params[1].id)]

call_method(end, params, call) ==
  IF Len(params) # 3 THEN [end EXCEPT !.result = Failed]
  ELSE LET to == named(end, params)
       IN IF to.result.is # "api" THEN to
          ELSE receive_call(to, to.result.of[1], params[2], params[3], call)

callback_method(end, params) ==
  IF Len(params) # 2 THEN [end EXCEPT !.result = Failed]
  ELSE receive_callback(end, params[1].id, params[2])

\* A name that is no method of the connection is a method of api 0.
local_call(end, method, params, call) ==
  CASE method = "call" -> call_method(end, params, call)
    [] method \in {"notice", "callback"} -> callback_method(end, params)
    [] OTHER -> receive_call(end, 0, method, params, call)

-----------------------------------------------------------------------------
(* rpc::state and the messages.                                            *)

Request(id, method, params) ==
  [is |-> "request", id |-> id, method |-> method, params |-> params,
   result |-> Null]

Response(id, result) ==
  [is |-> "response", id |-> id, method |-> "none", params |-> <<>>,
   result |-> result]

Garbage == [is |-> "garbage", id |-> 0, method |-> "none", params |-> <<>>,
            result |-> Null]

\* What comes from other programs: not JSON, an answer to nothing, requests
\* with too few parameters, one of them without an id.
Strays == {Garbage, Response(MaxCalls + 1, Null), Request(MaxCalls + 1, "call", <<>>),
           Request(0, "callback", <<[id |-> 0]>>)}

RpcInit ==
  /\ local_apis = [e \in Ends |-> IF e = "far" THEN <<"root", "login">> ELSE <<>>]
  /\ callbacks = [e \in Ends |-> <<>>]
  /\ calls = [e \in Ends |-> <<>>]
  /\ awaiting = [e \in Ends |-> {}]
  /\ held = [e \in Ends |-> <<>>]
  /\ told = [e \in Ends |-> <<>>]
  /\ heard = [e \in Ends |-> <<>>]
  /\ net = [e \in Ends |-> <<>>]
  /\ open = TRUE
  /\ alive = [e \in Ends |-> TRUE]
  /\ strays = 0

\* start_remote_call, the message, and the wait for the answer; a closed
\* websocket refuses the message and the promise stays where it is.
remote_call(e, method, params, asked) ==
  LET id == Len(calls[e]) + 1
  IN /\ calls' = [calls EXCEPT ![e] =
                    Append(@, [asked |-> asked,
                               outcome |-> IF open THEN Waiting ELSE Failed])]
     /\ awaiting' = [awaiting EXCEPT ![e] = @ \cup {id}]
     /\ net' = IF open
               THEN [net EXCEPT ![Other(e)] = Append(@, Request(id, method, params))]
               ELSE net

\* The remote apis an end holds: api 0, and those that calls have returned.
Remotes(e) ==
  {[id |-> 0, handle |-> "root"]} \cup
  {[id |-> c.outcome.of[1], handle |-> c.asked.args[1]] :
     c \in {calls[e][i] : i \in {j \in DOMAIN calls[e] :
              calls[e][j].outcome.is = "api" /\ calls[e][j].asked.method = "open"}}}

asking(h, method, args) == [handle |-> h, method |-> method, args |-> args]

\* A member of a remote api: callbacks among the arguments get their numbers.
send_call(e, r, method, arg) ==
  /\ Len(calls[e]) < MaxCalls /\ alive[e]
  /\ IF method = "watch"
     THEN callbacks' = [callbacks EXCEPT ![e] = Append(@, Len(calls[e]) + 1)]
     ELSE UNCHANGED callbacks
  /\ remote_call(e, "call",
       <<[id |-> r.id], method, IF method = "watch" THEN <<Len(callbacks[e])>> ELSE arg>>,
       asking(r.handle, method, arg))
  /\ UNCHANGED <<local_apis, held, told, heard, open, alive, strays>>

\* The same api by its name, and a method of api 0 without the word "call".
send_named(e, name) ==
  /\ Len(calls[e]) < MaxCalls /\ alive[e]
  /\ remote_call(e, "call", <<[name |-> name], "echo", <<"x">>>>, asking(name, "echo", <<"x">>))
  /\ UNCHANGED <<local_apis, callbacks, held, told, heard, open, alive, strays>>

send_plain(e, arg) ==
  /\ Len(calls[e]) < MaxCalls /\ alive[e]
  /\ remote_call(e, "open", arg, asking("root", "open", arg))
  /\ UNCHANGED <<local_apis, callbacks, held, told, heard, open, alive, strays>>

\* A callback with a result: callback_functor::operator() waits for it.
send_callback(e, f, x) ==
  /\ Len(told[e]) < MaxTold /\ alive[e] /\ Len(calls[e]) < MaxCalls
  /\ told' = IF open THEN [told EXCEPT ![e] = Append(@, <<f.call, x>>)] ELSE told
  /\ remote_call(e, "callback", <<[id |-> f.callback_id], <<x>>>>, asking("callback", "callback", <<x>>))
  /\ UNCHANGED <<local_apis, callbacks, held, heard, open, alive, strays>>

\* A callback without a result is a notice: no id, no answer.
send_notice(e, f, x) ==
  /\ Len(told[e]) < MaxTold /\ alive[e] /\ open
  /\ told' = [told EXCEPT ![e] = Append(@, <<f.call, x>>)]
  /\ net' = [net EXCEPT ![Other(e)] =
                Append(@, Request(0, "notice", <<[id |-> f.callback_id], <<x>>>>))]
  /\ UNCHANGED <<local_apis, callbacks, calls, awaiting, held, heard, open,
                 alive, strays>>

\* The oldest waiting call gets the answer, whatever the reply's id.
handle_reply_oldest(e, msg) ==
  /\ IF awaiting[e] # {}
     THEN LET id == CHOOSE i \in awaiting[e] : \A j \in awaiting[e] : i <= j
          IN /\ calls' = [calls EXCEPT ![e][id].outcome = msg.result]
             /\ awaiting' = [awaiting EXCEPT ![e] = @ \ {id}]
     ELSE UNCHANGED <<calls, awaiting>>
  /\ net' = [net EXCEPT ![e] = Tail(@)]
  /\ UNCHANGED <<local_apis, callbacks, held, heard>>

\* A reply sets the promise of its id and forgets it; an id nobody waits for
\* throws, and on_message catches it.
handle_reply(e, msg) ==
  /\ IF msg.id \in awaiting[e]
     THEN /\ calls' = [calls EXCEPT ![e][msg.id].outcome = msg.result]
          /\ awaiting' = [awaiting EXCEPT ![e] = @ \ {msg.id}]
     ELSE UNCHANGED <<calls, awaiting>>
  /\ net' = [net EXCEPT ![e] = Tail(@)]
  /\ UNCHANGED <<local_apis, callbacks, held, heard>>

\* A request runs and is answered when it has an id.
handle_request(e, msg, end) ==
  /\ local_apis' = [local_apis EXCEPT ![e] = end.apis]
  /\ held' = [held EXCEPT ![e] = end.functors]
  /\ heard' = [heard EXCEPT ![e] = end.heard]
  /\ net' = [o \in Ends |->
              IF o = e THEN Tail(net[e])
              ELSE IF msg.id = 0 THEN net[o]
              ELSE Append(net[o], Response(msg.id, end.result))]
  /\ UNCHANGED <<callbacks, calls, awaiting>>

end_of(e) == [apis |-> local_apis[e], functors |-> held[e],
              callbacks |-> callbacks[e], heard |-> heard[e], result |-> Null]

on_message(e) ==
  /\ open /\ alive[e] /\ net[e] # <<>>
  /\ LET msg == Head(net[e])
     IN \/ /\ msg.is = "request"
           /\ handle_request(e, msg,
                local_call(end_of(e), msg.method, msg.params, msg.id))
        \/ /\ msg.is = "response"
           /\ handle_reply(e, msg)
        \/ /\ msg.is = "garbage"
           /\ net' = [net EXCEPT ![e] = Tail(@)]
           /\ UNCHANGED <<local_apis, callbacks, calls, awaiting, held, heard>>
  /\ UNCHANGED <<told, open, alive, strays>>

stray(e, msg) ==
  /\ open /\ strays < MaxStrays
  /\ strays' = strays + 1
  /\ net' = [net EXCEPT ![e] = Append(@, msg)]
  /\ UNCHANGED <<local_apis, callbacks, calls, awaiting, held, told, heard,
                 open, alive>>

\* The websocket closes: closed() tells the application and nothing else.
on_closed ==
  /\ open
  /\ open' = FALSE
  /\ net' = [e \in Ends |-> <<>>]
  /\ UNCHANGED <<local_apis, callbacks, calls, awaiting, held, told, heard,
                 alive, strays>>

\* The last reference goes, so no call waits: ~state closes what is left.
destroyed(e) ==
  /\ ~open /\ alive[e]
  /\ \A i \in DOMAIN calls[e] : calls[e][i].outcome # Waiting
  /\ alive' = [alive EXCEPT ![e] = FALSE]
  /\ awaiting' = [awaiting EXCEPT ![e] = {}]
  /\ UNCHANGED <<local_apis, callbacks, calls, held, told, heard, net, open,
                 strays>>

RpcNext ==
  \/ \E r \in Remotes("near") : \/ send_call("near", r, "open", <<"database">>)
                                \/ send_call("near", r, "open", <<"nothing">>)
                                \/ send_call("near", r, "watch", <<>>)
                                \/ send_call("near", r, "echo", <<"x">>)
                                \/ send_call("near", r, "echo", <<>>)
  \/ \E name \in {"database", "ghost"} : send_named("near", name)
  \/ \E arg \in {<<"history">>, <<>>} : send_plain("near", arg)
  \/ \E i \in DOMAIN held["far"], x \in {"x", "y"} :
       \/ send_callback("far", held["far"][i], x)
       \/ send_notice("far", held["far"][i], x)
  \/ \E e \in Ends : \/ on_message(e)
                     \/ destroyed(e)
                     \/ \E msg \in Strays : stray(e, msg)
  \/ on_closed

RpcSpec == RpcInit /\ [][RpcNext]_rpc_vars

-----------------------------------------------------------------------------
(* Properties.                                                             *)

\* The answer the caller of an api object is to have, whatever numbers the
\* connection uses for objects and calls.
Meant(e, asked) ==
  IF asked.method = "callback" THEN {Null}
  ELSE IF asked.handle = "ghost" \/ asked.method \notin interface(asked.handle)
          \/ (asked.method # "watch" /\ Len(asked.args) < arity[asked.method])
  THEN {Failed}
  ELSE CASE asked.method = "echo"  -> {Echoed(asked.handle, asked.args[1])}
         [] asked.method = "watch" -> {Null}
         [] asked.method = "open" /\ asked.args[1] = "nothing" -> {Null}
         [] OTHER -> {Number(i - 1) : i \in {j \in DOMAIN local_apis[Other(e)] :
                                        local_apis[Other(e)][j] = asked.args[1]}}

OnTheWay(e, id) ==
  \/ \E i \in DOMAIN net[Other(e)] :
       net[Other(e)][i].is = "request" /\ net[Other(e)][i].id = id
  \/ \E i \in DOMAIN net[e] : net[e][i].is = "response" /\ net[e][i].id = id

\* A call that has an answer has the answer of the object and the method it
\* was for; one that has none has its request or its reply under way as long
\* as the websocket is open; every api object has one number; and callbacks
\* run once for each use, in the order of the uses, each one the callback
\* that was handed over in the call the other end got it from.
ApiCallsAnswered ==
  \A e \in Ends :
    /\ \A i \in DOMAIN calls[e] :
         \/ calls[e][i].outcome \in Meant(e, calls[e][i].asked)
         \/ ~open /\ calls[e][i].outcome \in {Waiting, Failed}
         \/ /\ calls[e][i].outcome = Waiting
            /\ i \in awaiting[e]
            /\ OnTheWay(e, i)
    /\ IsInjective(local_apis[e])
    /\ IsPrefix(heard[e], told[Other(e)])
=============================================================================
