----------------------------- MODULE RateLimit -----------------------------
(***************************************************************************)
(* rate_limiting_group of fc (rate_limiting.cpp): one of its directions,   *)
(* which share nothing.  Calls wait in two lists for a loop that adds      *)
(* tokens as time passes, shares them out and starts what got some.  A     *)
(* step runs until its fiber waits.                                        *)
(***************************************************************************)
EXTENDS Integers, Sequences, FiniteSets, SequencesExt, FiniteSetsExt

CONSTANTS Limits,         \* what _download_bytes_per_second is set to; 0 is no limit
          Lengths,        \* how much a call asks for
          Elapsed,        \* times between two iterations
          Second,         \* a second, in the unit of Elapsed
          burstiness,     \* _burstiness_in_seconds
          MaxOps,         \* bound on calls
          MaxIterations,  \* bound on iterations of the loop
          MaxSets         \* bound on changes of the limit

ASSUME LengthsPositive == \A n \in Lengths : n > 0

VARIABLES direction,    \* "read" or "write"
          rate,         \* the limit
          tokens,       \* _read_tokens
          unused,       \* _unused_read_tokens
          upcoming,     \* _read_operations_for_next_iteration
          in_progress,  \* _read_operations_in_progress
          op,           \* the calls: what they asked for, what they may do, where they are
          pending_loop, \* the loop: not started, about to run, waiting for a call or for a while
          iterations, sets,
          budget        \* history: what the group was ever allowed to transfer

rate_vars == <<direction, rate, tokens, unused, upcoming, in_progress, op, pending_loop, iterations,
               sets, budget>>

operations == DOMAIN op

\* rate_limited_operation: a read or a write, on the stack of its caller.
rate_limited_operation(length) ==
  [length |-> length, permitted_length |-> 0, at |-> "listed", transferred |-> 0]

\* perform_operation: the socket reads or writes up to permitted_length.
perform_operation(o, permitted) == [o EXCEPT !.permitted_length = permitted, !.at = "performing"]

is_operation_shorter(a, b) == op[a].length > op[b].length

RateInit ==
  /\ direction \in {"read", "write"}
  /\ rate \in Limits \ {0} /\ tokens = rate /\ unused = 0
  /\ upcoming = <<>> /\ in_progress = <<>> /\ op = <<>>
  /\ pending_loop = "none" /\ iterations = 0 /\ sets = 0
  /\ budget = rate

-----------------------------------------------------------------------------
\* readsome_impl and writesome_impl up to their wait: the call is listed, and the loop started or
\* resumed.
list_operation(length) ==
  /\ Len(op) < MaxOps
  /\ rate > 0
  /\ op' = Append(op, rate_limited_operation(length))
  /\ upcoming' = Append(upcoming, Len(op'))
  /\ pending_loop' = "runs"
  /\ UNCHANGED <<direction, rate, tokens, unused, in_progress, iterations, sets, budget>>

\* Without a limit the socket is used at once.
perform_at_once(length) ==
  /\ Len(op) < MaxOps
  /\ rate = 0
  /\ \E n \in 1 .. length :
       op' = Append(op, [rate_limited_operation(length) EXCEPT !.at = "done", !.transferred = n])
  /\ budget' = budget + length
  /\ UNCHANGED <<direction, rate, tokens, unused, upcoming, in_progress, pending_loop, iterations,
                 sets>>

transfer_some(length) == list_operation(length) \/ perform_at_once(length)

limited_readsome(length) == direction = "read" /\ transfer_some(length)

limited_writesome(length) == direction = "write" /\ transfer_some(length)

\* The rest of a call: what was permitted and not transferred goes back.
operation_completed(c) ==
  /\ op[c].at = "performing"
  /\ \E n \in 1 .. op[c].permitted_length :
       /\ op' = [op EXCEPT ![c].at = "done", ![c].transferred = n]
       /\ unused' = unused + (op[c].permitted_length - n)
  /\ UNCHANGED <<direction, rate, tokens, upcoming, in_progress, pending_loop, iterations, sets,
                 budget>>

\* The wait throws, as the socket failed or the fiber was cancelled: the call leaves both lists.
operation_failed(c) ==
  /\ op[c].at \in {"listed", "performing"}
  /\ op' = [op EXCEPT ![c].at = "failed"]
  /\ upcoming' = SelectSeq(upcoming, LAMBDA d : d # c)
  /\ in_progress' = SelectSeq(in_progress, LAMBDA d : d # c)
  /\ UNCHANGED <<direction, rate, tokens, unused, pending_loop, iterations, sets, budget>>

set_limit(limit) ==
  /\ sets < MaxSets /\ limit # rate
  /\ rate' = limit /\ sets' = sets + 1
  /\ UNCHANGED <<direction, tokens, unused, upcoming, in_progress, op, pending_loop, iterations,
                 budget>>

-----------------------------------------------------------------------------
\* The tokens a stretch of time is worth; the first stretch starts at the epoch.
granted(elapsed) == (rate * (IF elapsed > Second THEN Second ELSE elapsed)) \div Second

\* From the back of the sorted list, so the shortest first: each gets an equal share of what is
\* left, or what it asked for when that is less.
share_out(sorted, amount) ==
  FoldLeft(LAMBDA a, c :
             LET share == a.left \div a.waiting
                 n == IF op[c].length < share THEN op[c].length ELSE share
             IN [left |-> a.left - n, waiting |-> a.waiting - 1,
                 permitted |-> Append(a.permitted, <<c, n>>)],
           [left |-> amount, waiting |-> Len(sorted), permitted |-> <<>>],
           Reverse(sorted)).permitted

\* How long the loop then waits: for ever only when nothing is in progress.
wait_for_operations(waiting) == IF waiting = <<>> THEN "idle" ELSE "a while"

process_limited(listed, elapsed) ==
  LET gained == granted(elapsed)
      filled == Min({tokens + gained + unused, rate * burstiness})
  IN /\ rate > 0
     /\ unused' = 0
     /\ budget' = budget + gained
     /\ \/ /\ filled = 0
           /\ tokens' = 0 /\ in_progress' = listed /\ op' = op
        \/ /\ filled > 0
           /\ \E sorted \in SetToSeqs(ToSet(listed)) :
                /\ \A i, j \in 1 .. Len(sorted) :
                     is_operation_shorter(sorted[i], sorted[j]) => i < j
                /\ LET got == share_out(sorted, filled)
                       permitted(c) == got[CHOOSE i \in 1 .. Len(got) : got[i][1] = c][2]
                       started == {c \in ToSet(listed) : permitted(c) > 0}
                   IN /\ tokens' = filled - FoldLeft(LAMBDA n, g : n + g[2], 0, got)
                      /\ in_progress' = SelectSeq(listed, LAMBDA c : c \notin started)
                      /\ op' = [c \in operations |-> IF c \in started
                                                THEN perform_operation(op[c], permitted(c))
                                                ELSE op[c]]

\* The limit was taken away while calls were listed: all of them start, with all they asked for.
process_unlimited(listed) ==
  /\ rate = 0
  /\ in_progress' = <<>>
  /\ op' = [c \in operations |-> IF c \in ToSet(listed) THEN perform_operation(op[c], op[c].length)
                                                   ELSE op[c]]
  /\ budget' = budget + FoldLeft(LAMBDA n, c : n + op[c].length, 0, listed)
  /\ UNCHANGED <<tokens, unused>>

\* One turn of a loop: process_pending_operations, then the wait for the next one.
process_pending ==
  /\ pending_loop \in {"runs", "a while"}
  /\ iterations < MaxIterations
  /\ iterations' = iterations + 1
  /\ upcoming' = <<>>
  /\ \/ \E elapsed \in Elapsed : process_limited(in_progress \o upcoming, elapsed)
     \/ process_unlimited(in_progress \o upcoming)
  /\ pending_loop' = wait_for_operations(in_progress')
  /\ UNCHANGED <<direction, rate, sets>>

process_pending_reads == direction = "read" /\ process_pending

process_pending_writes == direction = "write" /\ process_pending

RateNext ==
  \/ \E length \in Lengths : limited_readsome(length) \/ limited_writesome(length)
  \/ \E c \in operations : operation_completed(c) \/ operation_failed(c)
  \/ \E limit \in Limits : set_limit(limit)
  \/ process_pending_reads
  \/ process_pending_writes

-----------------------------------------------------------------------------
moved(c) == IF op[c].at = "performing" THEN op[c].permitted_length ELSE op[c].transferred

\* No call is forgotten: it is listed once until it is started, and while one is listed the loop
\* does not wait for ever; nobody waits in the list while tokens are left over; and all that is moved was
\* paid for by time, by tokens that came back, or asked for while there was no limit.
RateHeld ==
  /\ \A c \in operations :
       Cardinality({i \in 1 .. Len(upcoming) : upcoming[i] = c})
         + Cardinality({i \in 1 .. Len(in_progress) : in_progress[i] = c})
         = (IF op[c].at = "listed" THEN 1 ELSE 0)
  /\ upcoming # <<>> => pending_loop = "runs"
  /\ in_progress # <<>> => pending_loop \in {"runs", "a while"}
  /\ tokens > 0 => in_progress = <<>>
  /\ MapThenSumSet(moved, operations) + tokens + unused <= budget
=============================================================================
