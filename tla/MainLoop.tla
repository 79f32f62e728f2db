------------------------------ MODULE MainLoop ------------------------------
(***************************************************************************)
(* What the application drives with bcxapi::poolEvent: the timers of       *)
(* TimerMgr, and the functions that other threads have posted.  The other  *)
(* threads here are those of boostHttpClient::httpPost, one for each       *)
(* request to the faucet.  A timer callback is a step of its own, during   *)
(* which the clock goes on and the threads run.                            *)
(***************************************************************************)
EXTENDS Integers, Sequences, FiniteSets, SequencesExt

CONSTANTS
    MaxNow,     \* bound on the clock
    MaxTimers,  \* bound on the timers that are ever added
    MaxJumps,   \* how often the clock may be set
    Durations,  \* the milliseconds of the timers, scaled down
    Posts,      \* the requests to the faucet
    Bodies      \* the lengths of the faucet's answers

ASSUME MainLoopAssumption ==
    /\ MaxNow \in Nat /\ MaxTimers \in Nat /\ MaxJumps \in Nat
    /\ Durations \subseteq 1..MaxNow
    /\ Bodies \subseteq Nat

VARIABLES
    now,              \* system_clock
    jumps,            \* how often it was set
    allTimers,        \* _allTimers: timers, and None where one was deleted
    currentTimerId,   \* _currentTimerId
    fired,            \* the ids of the timers that have fired or were deleted
    at,               \* what poolEvent is doing, and where in _allTimers or temp
    functions,        \* _functionsToPerform
    temp,             \* the functions poolEvent has taken
    post,             \* post[p]: the httpPost of a request
    outcome           \* outcome[p]: its promise

timerVars == <<allTimers, currentTimerId, fired>>
loopVars == <<at, functions, temp>>
postVars == <<post, outcome>>
vars == <<now, jumps, timerVars, loopVars, postVars>>

Ids == 1..MaxTimers
None == [id |-> 0]
Resting == [do |-> "app", i |-> 0]
Timers == {allTimers[i] : i \in DOMAIN allTimers} \ {None}

-----------------------------------------------------------------------------
(* TimerMgr.                                                               *)

\* A loop starts in 1970, and is due at once.
Added(ts, id, ms, loop) ==
    Append(ts, [id |-> id, ms |-> ms, loop |-> loop, start |-> IF loop THEN -MaxNow ELSE now])

\* The bound on the clock leaves time for the timer to become due.
MayAdd(ms) == currentTimerId < MaxTimers /\ now + ms <= MaxNow

\* Timers are added by the application's calls and by init and onClose, and deleted between
\* two rounds.
addTimer(ms, loop) ==
    /\ at.do = "app" /\ MayAdd(ms)
    /\ allTimers' = Added(allTimers, currentTimerId + 1, ms, loop)
    /\ currentTimerId' = currentTimerId + 1
    /\ UNCHANGED <<now, jumps, fired, loopVars, postVars>>

delTimer(id) ==
    /\ at.do = "app"
    /\ \E t \in Timers : t.id = id
    /\ allTimers' = RemoveAt(allTimers, CHOOSE i \in DOMAIN allTimers : allTimers[i].id = id)
    /\ fired' = fired \cup {id}  \* nobody waits for it any more
    /\ UNCHANGED <<now, jumps, currentTimerId, loopVars, postVars>>

Due(t) == t # None /\ now - t.start >= t.ms

\* poolEvent begins with processTimer.
processTimer ==
    /\ at.do = "app"
    /\ at' = [do |-> "timers", i |-> 1]
    /\ UNCHANGED <<now, jumps, timerVars, functions, temp, postVars>>

SkipTimer ==
    /\ at.do = "timers" /\ at.i <= Len(allTimers)
    /\ ~Due(allTimers[at.i])
    /\ at' = [at EXCEPT !.i = @ + 1]
    /\ UNCHANGED <<now, jumps, timerVars, functions, temp, postVars>>

\* The callback begins.
FireTimer ==
    /\ at.do = "timers" /\ at.i <= Len(allTimers)
    /\ Due(allTimers[at.i])
    /\ fired' = fired \cup {allTimers[at.i].id}
    /\ at' = [at EXCEPT !.do = "callback"]
    /\ UNCHANGED <<now, jumps, allTimers, currentTimerId, functions, temp, postVars>>

\* The continuation of a rejected call makes another call, on a socket that is still closed.
CallbackAdds(ms) ==
    /\ at.do = "callback" /\ MayAdd(ms)
    /\ allTimers' = Added(allTimers, currentTimerId + 1, ms, FALSE)
    /\ currentTimerId' = currentTimerId + 1
    /\ UNCHANGED <<now, jumps, fired, loopVars, postVars>>

\* What becomes of a timer when its callback is done: a loop starts again, another is deleted.
Processed(t) == IF t.loop THEN [t EXCEPT !.start = now] ELSE None

CallbackEnds ==
    /\ at.do = "callback"
    /\ allTimers' = [allTimers EXCEPT ![at.i] = Processed(@)]
    /\ at' = [do |-> "timers", i |-> at.i + 1]
    /\ UNCHANGED <<now, jumps, currentTimerId, fired, functions, temp, postVars>>

\* mutant: erase(it, end) for what remove has left over, without remove
Sweep_rest ==
    /\ at.do = "timers" /\ at.i > Len(allTimers)
    /\ \E n \in 0..Len(allTimers) :
          /\ allTimers' = SubSeq(allTimers, 1, n)
          /\ n < Len(allTimers) => allTimers[n + 1] = None
          /\ \A i \in 1..n : allTimers[i] # None
    /\ temp' = functions /\ functions' = <<>>
    /\ at' = IF functions = <<>> THEN Resting ELSE [do |-> "functions", i |-> 1]
    /\ UNCHANGED <<now, jumps, currentTimerId, fired, postVars>>

\* The empty slots are erased, and poolEvent goes on to the functions.
Sweep ==
    /\ at.do = "timers" /\ at.i > Len(allTimers)
    /\ LET kept == {i \in DOMAIN allTimers : allTimers[i] # None}
       IN  \E from \in [1..Cardinality(kept) -> kept] :
              /\ \A i, j \in DOMAIN from : i < j => from[i] < from[j]
              /\ allTimers' = [i \in DOMAIN from |-> allTimers[from[i]]]
    /\ temp' = functions /\ functions' = <<>>
    /\ at' = IF functions = <<>> THEN Resting ELSE [do |-> "functions", i |-> 1]
    /\ UNCHANGED <<now, jumps, currentTimerId, fired, postVars>>

-----------------------------------------------------------------------------
(* The clock is not monotonic.                                             *)

Tick ==
    /\ now < MaxNow
    /\ now' = now + 1
    /\ UNCHANGED <<jumps, timerVars, loopVars, postVars>>

SetClock(t) ==
    /\ jumps < MaxJumps
    /\ jumps' = jumps + 1 /\ now' = t
    /\ UNCHANGED <<timerVars, loopVars, postVars>>

-----------------------------------------------------------------------------
(* The faucet's server.  An answer is a sequence of pieces: the status     *)
(* line, the headers, and the body in as many pieces as its length.        *)

Answers ==
    [status : {200}, body : Bodies, declared : {TRUE}, means : {"created", "refused", "no object"}]
    \cup [status : {200}, body : Bodies, declared : {FALSE}, means : {"created"}]
    \cup [status : {500}, body : {1}, declared : {TRUE}, means : {"refused"}]
Whole(p) == 2 + post[p].answer.body
Connected(p) == post[p].stage \in {"status", "headers", "content"}

\* The server stops at the end of its patience, or in the middle of an answer.  It need not:
\* the request has no "Connection: close", although the comment above it says so.
ServerCloses(p) ==
    /\ Connected(p) /\ post[p].open
    /\ \E n \in post[p].got..Whole(p) : post' = [post EXCEPT ![p].open = FALSE, ![p].coming = n]
    /\ UNCHANGED <<now, jumps, timerVars, loopVars, outcome>>

-----------------------------------------------------------------------------
(* boostHttpClient.                                                        *)

\* close_connect: the callback posts a function with what is left in response_ (the body so
\* far, as the number of its pieces) or with an error, and the socket is closed.
close_connect(p, error, got) ==
    /\ functions' = Append(functions, [post |-> p, error |-> error, size |-> got - 2])
    /\ post' = [post EXCEPT ![p].stage = "done", ![p].got = got, ![p].coming = 0, ![p].open = FALSE]

\* An operation of asio fails, whatever it was.
Fails(p) ==
    /\ post[p].stage \notin {"none", "done"}
    /\ close_connect(p, TRUE, post[p].got)
    /\ UNCHANGED <<now, jumps, timerVars, at, temp, outcome>>

\* createAccountByFaucet starts the thread; an url that cannot be parsed leaves an empty
\* server, which cannot be resolved.
httpPost(p, answer) ==
    /\ at.do = "app" /\ post[p].stage = "none"
    /\ post' = [post EXCEPT ![p] = [stage |-> "resolve", got |-> 0, open |-> TRUE, length |-> 0,
                                    coming |-> 2 + answer.body, answer |-> answer]]
    /\ outcome' = [outcome EXCEPT ![p] = "pending"]
    /\ UNCHANGED <<now, jumps, timerVars, loopVars>>

Goes(p, from, to) ==
    /\ post[p].stage = from
    /\ post' = [post EXCEPT ![p].stage = to]
    /\ UNCHANGED <<now, jumps, timerVars, loopVars, outcome>>

handle_resolve(p) == Goes(p, "resolve", "connect")
handle_connect(p) == Goes(p, "connect", "write")
handle_write_request(p) == Goes(p, "write", "status")

\* async_read_until: it is done at once if the buffer has the delimiter, and otherwise takes
\* what has come, up to the delimiter at least.
ReadUntil(p, piece, got) ==
    IF post[p].got >= piece THEN got = post[p].got ELSE got \in piece..post[p].coming

\* The stream ends before the delimiter.
Short(p, piece) == post[p].coming < piece

handle_read_status_line(p) ==
    /\ post[p].stage = "status"
    /\ UNCHANGED <<now, jumps, timerVars, at, temp, outcome>>
    /\ \/ Short(p, 1) /\ close_connect(p, TRUE, post[p].got)
       \/ /\ post[p].answer.status # 200
          /\ post[p].coming >= 1
          /\ close_connect(p, TRUE, post[p].got)
       \/ /\ post[p].answer.status = 200
          /\ \E got \in 1..post[p].coming :
                /\ ReadUntil(p, 1, got)
                /\ post' = [post EXCEPT ![p].got = got, ![p].stage = "headers"]
          /\ UNCHANGED functions

\* contentLength stays 0 if no header has "Content-Length:", letter for letter.
handle_read_headers(p) ==
    /\ post[p].stage = "headers"
    /\ UNCHANGED <<now, jumps, timerVars, at, temp, outcome>>
    /\ \/ Short(p, 2) /\ close_connect(p, TRUE, post[p].got)
       \/ /\ \E got \in 2..post[p].coming :
                /\ ReadUntil(p, 2, got)
                /\ post' = [post EXCEPT ![p].got = got, ![p].stage = "content",
                              ![p].length = IF post[p].answer.declared THEN post[p].answer.body ELSE 0]
          /\ UNCHANGED functions

\* mutant: only the length that was declared ends the answer
handle_read_content_length(p) ==
    /\ post[p].stage = "content"
    /\ UNCHANGED <<now, jumps, timerVars, at, temp, outcome>>
    /\ \E got \in post[p].got + 1 .. post[p].coming :
         IF got - 2 >= post[p].length
         THEN close_connect(p, FALSE, got)
         ELSE /\ post' = [post EXCEPT ![p].got = got]
              /\ UNCHANGED functions

\* transfer_at_least(1): one more piece must come, or the end of the stream, also when the
\* body is already here.
handle_read_content(p) ==
    /\ post[p].stage = "content"
    /\ UNCHANGED <<now, jumps, timerVars, at, temp, outcome>>
    /\ \/ /\ ~post[p].open /\ post[p].coming = post[p].got
          /\ close_connect(p, FALSE, post[p].got)
       \/ \E got \in post[p].got + 1 .. post[p].coming :
            IF got - 2 >= post[p].length
            THEN close_connect(p, FALSE, got)
            ELSE /\ post' = [post EXCEPT ![p].got = got]
                 /\ UNCHANGED functions

-----------------------------------------------------------------------------
(* The functions, in createAccountByFaucet.                                *)

\* A body that has been cut off is not JSON, and an answer may be something other than an
\* object: from_string and get_object throw.
Verdict(f) ==
    IF f.error THEN "rejected"
    ELSE IF f.size < post[f.post].answer.body \/ f.size = 0 THEN "thrown"
    ELSE CASE post[f.post].answer.means = "created" -> "resolved"
           [] post[f.post].answer.means = "refused" -> "rejected"
           [] OTHER -> "thrown"

\* An exception leaves poolEvent, and temp is destroyed with the functions not yet run.
Perform ==
    /\ at.do = "functions"
    /\ LET f == temp[at.i]
       IN  /\ outcome' = [outcome EXCEPT ![f.post] = Verdict(f)]
           /\ IF Verdict(f) = "thrown" \/ at.i = Len(temp)
              THEN at' = Resting /\ temp' = <<>>
              ELSE at' = [at EXCEPT !.i = @ + 1] /\ temp' = temp
    /\ UNCHANGED <<now, jumps, timerVars, functions, post>>

-----------------------------------------------------------------------------
Init ==
    /\ now = 0 /\ jumps = 0
    /\ allTimers = <<>> /\ currentTimerId = 0 /\ fired = {}
    /\ at = Resting /\ functions = <<>> /\ temp = <<>>
    /\ post = [p \in Posts |-> [stage |-> "none"]]
    /\ outcome = [p \in Posts |-> "none"]

Poll == processTimer \/ SkipTimer \/ FireTimer \/ CallbackEnds \/ Sweep \/ Perform

Handler(p) ==
    \/ handle_resolve(p) \/ handle_connect(p) \/ handle_write_request(p)
    \/ handle_read_status_line(p) \/ handle_read_headers(p) \/ handle_read_content(p)

\* An application with timers and one with requests to the faucet are looked at one at a
\* time: in poolEvent the functions follow the timers, and neither uses what the other changes.
Timing == \A p \in Posts : post[p].stage = "none"
Posting == currentTimerId = 0 /\ now = 0 /\ jumps = 0

Next ==
    \/ Poll
    \/ /\ Timing
       /\ \/ Tick \/ \E t \in 0..MaxNow : SetClock(t)
          \/ \E ms \in Durations : CallbackAdds(ms) \/ \E loop \in BOOLEAN : addTimer(ms, loop)
          \/ \E id \in Ids : delTimer(id)
    \/ /\ Posting
       /\ \E p \in Posts : \/ Handler(p) \/ Fails(p) \/ ServerCloses(p)
                           \/ \E answer \in Answers : httpPost(p, answer)

\* The application calls poolEvent again and again, time passes, and each thread runs: an
\* operation of asio ends once what it waits for has come.
Fairness ==
    /\ WF_vars(Poll) /\ WF_vars(Timing /\ Tick)
    /\ \A p \in Posts : WF_vars(Handler(p))

Spec == Init /\ [][Next]_vars /\ Fairness

-----------------------------------------------------------------------------
(* Properties.                                                             *)

\* A timer that is no loop does not fire twice: once it has fired or was deleted it is in the
\* list only while its callback runs, although callbacks add timers to the list that is being
\* processed, and also when the clock is set back or forward in the middle of a round.
FiresOnce ==
    \A i \in DOMAIN allTimers :
        allTimers[i] # None /\ ~allTimers[i].loop /\ allTimers[i].id \in fired
            => at = [do |-> "callback", i |-> i]

\* FiresOnce, and a timer that was added fires, or is deleted.
TimersFire == []FiresOnce /\ \A id \in Ids : currentTimerId >= id ~> id \in fired

\* An account is reported as created only if the whole answer has come and says so, however
\* it was cut into pieces and wherever the connection ended.
CreatedIfSaid ==
    \A p \in Posts : outcome[p] = "resolved" =>
        post[p].got = Whole(p) /\ post[p].answer.means = "created"

\* The whole answer is in the buffer, and the last read waits for one byte more, on a
\* connection that the server keeps.  The SDK has no timeout for it.
KeptAlive(p) ==
    post[p].stage = "content" /\ post[p].open /\ post[p].got = post[p].coming

\* CreatedIfSaid; and every request whose server answers or closes is reported in the end,
\* unless KeptAlive, or unless some function has thrown, which may take others of its batch
\* with it.
FaucetReports ==
    /\ []CreatedIfSaid
    /\ \A p \in Posts : outcome[p] = "pending" ~>
             outcome[p] # "pending" \/ KeptAlive(p) \/ \E q \in Posts : outcome[q] = "thrown"

=============================================================================
