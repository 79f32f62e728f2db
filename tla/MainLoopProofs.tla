--------------------------- MODULE MainLoopProofs ---------------------------
(***************************************************************************)
(* Proofs about MainLoop: for any number of timers, requests to the faucet *)
(* and settings of the clock, whatever the application does with them.     *)
(***************************************************************************)
EXTENDS MainLoop, FiniteSetTheorems, SequenceTheorems, TLAPS

\* A timer, and a slot of _allTimers.
TimerRecords == [id : Nat \ {0}, ms : Int, loop : BOOLEAN, start : Int]

Slots == TimerRecords \cup {None}

\* A function that a thread has posted.
Functions == [post : Posts, error : BOOLEAN, size : Int]

Stages == {"resolve", "connect", "write", "status", "headers", "content", "done"}

\* An httpPost that was started.
Started ==
    [stage : Stages, got : Nat, open : BOOLEAN, length : Nat, coming : Nat, answer : Answers]

\* A httpPost that was not.
Unstarted == [stage : {"none"}]

Phases == {"app", "timers", "callback", "functions"}

Outcomes == {"none", "pending", "resolved", "rejected", "thrown"}

\* The timers ts of a list: no two have one id, and new ids are above all that were given.
TimersSound(ts, last, ids) ==
    /\ \A i, j \in 1..Len(ts) : ts[i] # None /\ ts[j] # None /\ ts[i].id = ts[j].id => i = j
    /\ \A i \in 1..Len(ts) : ts[i] # None => ts[i].id <= last
    /\ \A id \in ids : id <= last

\* The timers: where a round is, and none that is no loop is left once it has fired.
TimersInv ==
    /\ now \in Int /\ currentTimerId \in Nat
    /\ allTimers \in Seq(Slots) /\ fired \subseteq Nat
    /\ at \in [do : Phases, i : Nat]
    /\ at.do = "callback" => at.i \in 1..Len(allTimers) /\ allTimers[at.i] # None
    /\ at.do = "timers" => at.i >= 1
    /\ TimersSound(allTimers, currentTimerId, fired)
    /\ FiresOnce

\* The pieces of the answer that a request has and that are coming.
PostSound(r) ==
    r.stage # "none" =>
        /\ r.got <= 2 + r.answer.body
        /\ r.stage # "done" => r.got <= r.coming /\ r.coming <= 2 + r.answer.body

\* A posted function has what its request r had when it ended.
FunctionSound(f, r) == r.stage = "done" /\ f.size = r.got - 2

\* The outcome o of request r.
OutcomeSound(r, o) ==
    o = "resolved" => r.stage = "done" /\ r.got = 2 + r.answer.body /\ r.answer.means = "created"

\* The functions on their way to poolEvent, and in it.
FunctionsSound(fs, posts) ==
    fs \in Seq(Functions) /\ \A i \in 1..Len(fs) : FunctionSound(fs[i], posts[fs[i].post])

\* The requests to the faucet: what is reported is what has come.
FaucetInv ==
    /\ at \in [do : Phases, i : Nat]
    /\ at.do = "functions" => at.i \in 1..Len(temp)
    /\ post \in [Posts -> Started \cup Unstarted]
    /\ outcome \in [Posts -> Outcomes]
    /\ \A p \in Posts : PostSound(post[p]) /\ OutcomeSound(post[p], outcome[p])
    /\ FunctionsSound(functions, post) /\ FunctionsSound(temp, post)

\* The inductive invariant: poolEvent's two halves, which share only where it is.
Inv == TimersInv /\ FaucetInv

-----------------------------------------------------------------------------
(***************************************************************************)
(* The timers.                                                             *)
(***************************************************************************)

\* A slot that is not empty has a timer, with an id that is not that of None.
LEMMA SlotKinds ==
    /\ \A t \in Slots : t # None => t \in TimerRecords
    /\ \A t \in TimerRecords : t # None /\ t \in Slots
<1>1. \A t \in TimerRecords : t.id # 0 /\ None.id = 0
  BY DEF TimerRecords, None
<1> QED
  BY <1>1 DEF Slots

\* A list that has timers of another one, each once.
LEMMA SoundPart ==
    ASSUME NEW ts \in Seq(Slots), NEW us \in Seq(Slots), NEW last, NEW ids,
           NEW from \in [1..Len(us) -> 1..Len(ts)],
           \A i \in 1..Len(us) : us[i] = ts[from[i]],
           \A i, j \in 1..Len(us) : from[i] = from[j] => i = j,
           TimersSound(ts, last, ids)
    PROVE  TimersSound(us, last, ids)
<1>1. \A i \in 1..Len(us) : from[i] \in 1..Len(ts)
  OBVIOUS
<1>2. \A i, j \in 1..Len(us) : us[i] # None /\ us[j] # None /\ us[i].id = us[j].id => i = j
  BY <1>1 DEF TimersSound
<1>3. \A i \in 1..Len(us) : us[i] # None => us[i].id <= last
  BY <1>1 DEF TimersSound
<1> QED
  BY <1>2, <1>3 DEF TimersSound

\* A timer is added, with the next id.
LEMMA SoundAdded ==
    ASSUME NEW ts \in Seq(Slots), NEW last \in Nat, NEW ids \in SUBSET Nat, TimersSound(ts, last, ids),
           NEW t \in TimerRecords, t.id = last + 1
    PROVE  /\ Append(ts, t) \in Seq(Slots) /\ TimersSound(Append(ts, t), last + 1, ids)
           /\ Len(Append(ts, t)) = Len(ts) + 1 /\ t.id \notin ids
           /\ \A i \in 1..Len(ts) : Append(ts, t)[i] = ts[i]
           /\ Append(ts, t)[Len(ts) + 1] = t
<1> DEFINE us == Append(ts, t)
<1>1. t \in Slots /\ t # None
  BY SlotKinds
<1>2. /\ us \in Seq(Slots) /\ Len(us) = Len(ts) + 1 /\ Len(ts) \in Nat
      /\ \A i \in 1..Len(ts) : us[i] = ts[i]
      /\ us[Len(ts) + 1] = t
  BY <1>1, AppendProperties, LenProperties
<1> HIDE DEF us
<1>3. \A i \in 1..Len(ts) : ts[i] # None => ts[i] \in TimerRecords /\ ts[i].id <= last
  BY ElementOfSeq, SlotKinds DEF TimersSound
<1>4. \A i \in 1..Len(ts) : ts[i] # None => ts[i].id \in Nat
  BY <1>3 DEF TimerRecords
<1>5. \A i \in 1..Len(us) : i \in 1..Len(ts) \/ i = Len(ts) + 1
  BY <1>2
<1>6. \A i \in 1..Len(us) : us[i] # None => us[i].id <= last + 1
  BY <1>2, <1>3, <1>4, <1>5
<1>7. \A i, j \in 1..Len(us) : us[i] # None /\ us[j] # None /\ us[i].id = us[j].id => i = j
  BY <1>2, <1>3, <1>4, <1>5 DEF TimersSound
<1>8. \A id \in ids : id <= last + 1 /\ id # last + 1
  BY DEF TimersSound
<1> QED
  BY <1>2, <1>6, <1>7, <1>8 DEF us, TimersSound

\* RemoveAt closes the gap.
LEMMA RemovedAt ==
    ASSUME NEW S, NEW s \in Seq(S), NEW k \in 1..Len(s)
    PROVE  /\ RemoveAt(s, k) \in Seq(S) /\ Len(RemoveAt(s, k)) = Len(s) - 1
           /\ \A i \in 1..Len(s) - 1 : RemoveAt(s, k)[i] = s[IF i < k THEN i ELSE i + 1]
<1> DEFINE a == SubSeq(s, 1, k - 1)
           b == SubSeq(s, k + 1, Len(s))
<1>1. Len(s) \in Nat
  BY LenProperties
<1>2. a \in Seq(S) /\ Len(a) = k - 1 /\ \A i \in 1..k - 1 : a[i] = s[i]
  BY <1>1, SubSeqProperties
<1>3. b \in Seq(S) /\ Len(b) = Len(s) - k /\ \A i \in 1..Len(s) - k : b[i] = s[i + k]
  BY <1>1, SubSeqProperties
<1> HIDE DEF a, b
<1>4. /\ a \o b \in Seq(S) /\ Len(a \o b) = Len(a) + Len(b)
      /\ \A i \in 1..Len(a) + Len(b) : (a \o b)[i] = IF i <= Len(a) THEN a[i] ELSE b[i - Len(a)]
  BY <1>2, <1>3, ConcatProperties
<1>5. \A i \in 1..Len(s) - 1 : (a \o b)[i] = s[IF i < k THEN i ELSE i + 1]
  BY <1>1, <1>2, <1>3, <1>4
<1>6. RemoveAt(s, k) = a \o b
  BY DEF RemoveAt, a, b
<1>7. Len(a \o b) = Len(s) - 1
  BY <1>1, <1>2, <1>3, <1>4
<1> QED
  BY <1>4, <1>5, <1>6, <1>7
\* No change to the timers, the clock and the loop.
LEMMA TimersRest ==
    ASSUME TimersInv, UNCHANGED <<now, timerVars, at>>
    PROVE  TimersInv'
  BY DEF TimersInv, TimersSound, FiresOnce, timerVars

\* Where poolEvent may go while no callback runs.
LEMMA TimersMove ==
    ASSUME TimersInv, at.do # "callback", at'.do # "callback", at'.do = "timers" => at'.i >= 1,
           at' \in [do : Phases, i : Nat], UNCHANGED <<now, timerVars>>
    PROVE  TimersInv'
<1>1. \A i \in 1..Len(allTimers) : ~(allTimers[i] # None /\ ~allTimers[i].loop /\ allTimers[i].id \in fired)
  BY LenProperties DEF TimersInv, FiresOnce
<1>2. FiresOnce'
  BY <1>1, LenProperties DEF TimersInv, FiresOnce, timerVars
<1> QED
  BY <1>2 DEF TimersInv, TimersSound, timerVars

\* The application or a callback adds a timer.
LEMMA TimersAdd ==
    ASSUME TimersInv, NEW ms \in Durations, NEW loop \in BOOLEAN,
           allTimers' = Added(allTimers, currentTimerId + 1, ms, loop),
           currentTimerId' = currentTimerId + 1, UNCHANGED <<now, fired, at>>
    PROVE  TimersInv'
<1> DEFINE ts == allTimers
           t == [id |-> currentTimerId + 1, ms |-> ms, loop |-> loop, start |-> IF loop THEN -MaxNow ELSE now]
           us == Append(ts, t)
<1>1. t \in TimerRecords /\ t.id = currentTimerId + 1
  BY MainLoopAssumption DEF TimersInv, TimerRecords
<1>2. us = allTimers'
  BY DEF Added
<1>3. ts \in Seq(Slots) /\ currentTimerId \in Nat /\ fired \in SUBSET Nat /\ TimersSound(ts, currentTimerId, fired)
  BY DEF TimersInv
<1> HIDE DEF t, ts
<1>4. /\ us \in Seq(Slots) /\ TimersSound(us, currentTimerId + 1, fired) /\ Len(us) = Len(ts) + 1
      /\ t.id \notin fired /\ (\A i \in 1..Len(ts) : us[i] = ts[i]) /\ us[Len(ts) + 1] = t
  BY <1>1, <1>3, SoundAdded
<1> HIDE DEF us
<1>5. /\ DOMAIN us = 1..Len(us) /\ DOMAIN ts = 1..Len(ts) /\ Len(ts) \in Nat
      /\ \A i \in 1..Len(us) : i \in 1..Len(ts) \/ i = Len(ts) + 1
  BY <1>3, <1>4, LenProperties
<1>6. FiresOnce'
  <2> SUFFICES ASSUME NEW i \in 1..Len(us), us[i] # None, ~us[i].loop, us[i].id \in fired
               PROVE  at = [do |-> "callback", i |-> i]
    BY <1>2, <1>5 DEF FiresOnce
  <2>1. i \in 1..Len(ts) /\ us[i] = ts[i]
    BY <1>4, <1>5
  <2> QED
    BY <1>5, <2>1 DEF TimersInv, FiresOnce, ts
<1>7. at.do = "callback" => at.i \in 1..Len(us) /\ us[at.i] # None
  BY <1>4, <1>5 DEF TimersInv, ts
<1> QED
  BY <1>2, <1>4, <1>6, <1>7 DEF TimersInv

\* A timer is deleted.
LEMMA TimersDelete ==
    ASSUME TimersInv, NEW id \in Ids, delTimer(id)
    PROVE  TimersInv'
<1> DEFINE ts == allTimers
           k == CHOOSE i \in DOMAIN ts : ts[i].id = id
           us == RemoveAt(ts, k)
<1>1. /\ ts \in Seq(Slots) /\ Len(ts) \in Nat /\ DOMAIN ts = 1..Len(ts)
      /\ TimersSound(ts, currentTimerId, fired) /\ fired \subseteq Nat /\ id \in Nat \ {0}
  BY LenProperties DEF TimersInv, Ids
<1>2. k \in 1..Len(ts) /\ ts[k].id = id
  BY <1>1 DEF delTimer, Timers
<1>3. ts[k] # None
  BY <1>1, <1>2 DEF None
<1> HIDE DEF k, ts
<1>4. /\ us \in Seq(Slots) /\ Len(us) = Len(ts) - 1
      /\ \A i \in 1..Len(ts) - 1 : us[i] = ts[IF i < k THEN i ELSE i + 1]
  BY <1>1, <1>2, RemovedAt
<1>5. allTimers' = us /\ fired' = fired \cup {id} /\ UNCHANGED <<now, currentTimerId, at>> /\ at.do = "app"
  BY DEF delTimer, ts, k, loopVars
<1> HIDE DEF us
<1> DEFINE from == [i \in 1..Len(us) |-> IF i < k THEN i ELSE i + 1]
<1>6. /\ from \in [1..Len(us) -> 1..Len(ts)]
      /\ \A i \in 1..Len(us) : us[i] = ts[from[i]] /\ from[i] # k
      /\ \A i, j \in 1..Len(us) : from[i] = from[j] => i = j
  BY <1>1, <1>2, <1>4
<1> HIDE DEF from
<1>7. TimersSound(us, currentTimerId, fired)
  BY <1>1, <1>4, <1>6, SoundPart
<1>8. id <= currentTimerId
  BY <1>1, <1>2, <1>3 DEF TimersSound
<1>9. TimersSound(us, currentTimerId, fired \cup {id})
  BY <1>7, <1>8 DEF TimersSound
<1>10. DOMAIN us = 1..Len(us)
  BY <1>4, LenProperties
<1>11. FiresOnce'
  <2> SUFFICES ASSUME NEW i \in 1..Len(us), us[i] # None, ~us[i].loop, us[i].id \in fired \cup {id}
               PROVE  FALSE
    BY <1>5, <1>10 DEF FiresOnce
  <2>1. from[i] \in 1..Len(ts) /\ us[i] = ts[from[i]] /\ from[i] # k
    BY <1>6
  <2>2. us[i].id # id
    BY <1>1, <1>2, <1>3, <2>1 DEF TimersSound
  <2> QED
    BY <1>1, <1>5, <2>1, <2>2 DEF TimersInv, FiresOnce, ts
<1> QED
  BY <1>1, <1>4, <1>5, <1>9, <1>11 DEF TimersInv

\* A timer that is due fires: no other has its id.
LEMMA TimersFireStep ==
    ASSUME TimersInv, FireTimer
    PROVE  TimersInv'
<1> DEFINE ts == allTimers
           k == at.i
<1>1. /\ ts \in Seq(Slots) /\ Len(ts) \in Nat /\ DOMAIN ts = 1..Len(ts) /\ k \in 1..Len(ts)
      /\ TimersSound(ts, currentTimerId, fired) /\ fired \subseteq Nat /\ at.do = "timers" /\ ts[k] # None
      /\ at \in [do : Phases, i : Nat]
  BY LenProperties DEF TimersInv, FireTimer, Due
<1>2. /\ fired' = fired \cup {ts[k].id} /\ at' = [do |-> "callback", i |-> k]
      /\ UNCHANGED <<now, allTimers, currentTimerId>>
  BY <1>1 DEF FireTimer
<1>3. ts[k].id \in Nat /\ ts[k].id <= currentTimerId
  <2>1. ts[k] \in TimerRecords
    BY <1>1, ElementOfSeq, SlotKinds
  <2> QED
    BY <1>1, <2>1 DEF TimerRecords, TimersSound
<1>4. TimersSound(ts, currentTimerId, fired \cup {ts[k].id})
  BY <1>1, <1>3 DEF TimersSound
<1>5. FiresOnce'
  <2> SUFFICES ASSUME NEW i \in 1..Len(ts), ts[i] # None, ~ts[i].loop, ts[i].id \in fired \cup {ts[k].id}
               PROVE  i = k
    BY <1>1, <1>2 DEF FiresOnce
  <2>1. ts[i].id \notin fired
    BY <1>1 DEF TimersInv, FiresOnce
  <2> QED
    BY <1>1, <2>1 DEF TimersSound
<1>6. at' \in [do : Phases, i : Nat] /\ at'.do = "callback" /\ at'.i = k
  BY <1>1, <1>2 DEF Phases
<1> QED
  BY <1>1, <1>2, <1>3, <1>4, <1>5, <1>6 DEF TimersInv

\* The callback is done: a loop starts again, and any other timer is gone.
LEMMA TimersEndStep ==
    ASSUME TimersInv, CallbackEnds
    PROVE  TimersInv'
<1> DEFINE ts == allTimers
           k == at.i
           t == Processed(ts[k])
           us == [ts EXCEPT ![k] = t]
<1>1. /\ ts \in Seq(Slots) /\ Len(ts) \in Nat /\ DOMAIN ts = 1..Len(ts) /\ k \in 1..Len(ts)
      /\ TimersSound(ts, currentTimerId, fired) /\ at.do = "callback" /\ ts[k] # None /\ now \in Int
      /\ at \in [do : Phases, i : Nat]
  BY LenProperties DEF TimersInv, CallbackEnds
<1>2. /\ allTimers' = us /\ at' = [do |-> "timers", i |-> k + 1] /\ UNCHANGED <<now, currentTimerId, fired>>
  BY DEF CallbackEnds
<1>3. ts[k] \in TimerRecords
  BY <1>1, ElementOfSeq, SlotKinds
<1>4. t \in Slots /\ (t # None => t.loop /\ t.id = ts[k].id)
  BY <1>1, <1>3 DEF Processed, Slots, TimerRecords
<1> HIDE DEF t
<1>5. /\ us \in Seq(Slots) /\ Len(us) = Len(ts) /\ DOMAIN us = 1..Len(ts)
      /\ us[k] = t /\ \A i \in 1..Len(ts) : i # k => us[i] = ts[i]
  BY <1>1, <1>4, ExceptSeq, LenProperties
<1> HIDE DEF us
<1>6. TimersSound(us, currentTimerId, fired)
  BY <1>1, <1>4, <1>5 DEF TimersSound
<1>7. FiresOnce'
  <2> SUFFICES ASSUME NEW i \in 1..Len(ts), us[i] # None, ~us[i].loop, us[i].id \in fired
               PROVE  FALSE
    BY <1>2, <1>5 DEF FiresOnce
  <2>1. i # k /\ us[i] = ts[i]
    BY <1>4, <1>5
  <2>2. at = [do |-> "callback", i |-> i]
    BY <1>1, <2>1 DEF TimersInv, FiresOnce
  <2> QED
    BY <2>1, <2>2
<1>8. at' \in [do : Phases, i : Nat] /\ at'.do = "timers" /\ at'.i = k + 1
  BY <1>1, <1>2 DEF Phases
<1> QED
  BY <1>1, <1>2, <1>5, <1>6, <1>7, <1>8 DEF TimersInv

\* The empty slots are erased.
LEMMA TimersSweepStep ==
    ASSUME TimersInv, Sweep
    PROVE  TimersInv'
<1> DEFINE ts == allTimers
           kept == {i \in DOMAIN ts : ts[i] # None}
           n == Cardinality(kept)
<1>1. /\ ts \in Seq(Slots) /\ Len(ts) \in Nat /\ DOMAIN ts = 1..Len(ts)
      /\ TimersSound(ts, currentTimerId, fired) /\ at.do = "timers"
  BY LenProperties DEF TimersInv, Sweep
<1>2. n \in Nat
  <2>1. IsFiniteSet(1..Len(ts)) /\ kept \subseteq 1..Len(ts)
    BY <1>1, FS_Interval
  <2> HIDE DEF kept
  <2> QED
    BY <2>1, FS_Subset, FS_CardinalityType
<1>3. PICK from \in [1..n -> kept] :
          /\ \A i, j \in 1..n : i < j => from[i] < from[j]
          /\ allTimers' = [i \in 1..n |-> ts[from[i]]]
  BY DEF Sweep
<1> DEFINE us == [i \in 1..n |-> ts[from[i]]]
<1> HIDE DEF n
<1>4. \A i \in 1..n : from[i] \in 1..Len(ts) /\ ts[from[i]] \in Slots
  BY <1>1, <1>3, ElementOfSeq
<1>5. us \in Seq(Slots) /\ Len(us) = n /\ DOMAIN us = 1..n /\ \A i \in 1..n : us[i] = ts[from[i]]
  <2>1. us \in [1..n -> Slots]
    BY <1>4
  <2> HIDE DEF us
  <2>2. us \in Seq(Slots)
    BY <1>2, <2>1, SeqDef
  <2>3. Len(us) = n
    BY <1>2, <2>1, <2>2, LenProperties
  <2> QED
    BY <2>1, <2>2, <2>3 DEF us
<1>6. \A i, j \in 1..n : from[i] = from[j] => i = j
  BY <1>2, <1>3, <1>4
<1>7. from \in [1..n -> 1..Len(ts)]
  BY <1>1, <1>3
<1> HIDE DEF us, ts
<1>8. TimersSound(us, currentTimerId, fired)
  BY <1>1, <1>5, <1>6, <1>7, SoundPart
<1>9. allTimers' = us
  BY <1>3 DEF us
<1>10. /\ at' \in [do : Phases, i : Nat] /\ at'.do \in {"app", "functions"}
       /\ UNCHANGED <<now, currentTimerId, fired>>
  BY DEF Sweep, Resting, Phases
<1>11. FiresOnce'
  <2> SUFFICES ASSUME NEW i \in 1..n, us[i] # None, ~us[i].loop, us[i].id \in fired
               PROVE  FALSE
    BY <1>5, <1>9, <1>10 DEF FiresOnce
  <2>1. from[i] \in 1..Len(ts) /\ us[i] = ts[from[i]]
    BY <1>4, <1>5
  <2> QED
    BY <1>1, <2>1 DEF TimersInv, FiresOnce, ts
<1> QED
  BY <1>5, <1>8, <1>9, <1>10, <1>11 DEF TimersInv

\* Every step keeps the timers sound.
LEMMA TimersStep ==
    ASSUME TimersInv, [Next]_vars
    PROVE  TimersInv'
<1>1. CASE processTimer
  BY <1>1, TimersMove DEF processTimer, Phases, timerVars
<1>2. CASE SkipTimer
  BY <1>2, TimersMove DEF SkipTimer, Phases, timerVars, TimersInv
<1>3. CASE FireTimer
  BY <1>3, TimersFireStep
<1>4. CASE CallbackEnds
  BY <1>4, TimersEndStep
<1>5. CASE Sweep
  BY <1>5, TimersSweepStep
<1>6. CASE Perform
  BY <1>6, TimersMove DEF Perform, Resting, Phases, timerVars, TimersInv
<1>7. CASE Tick \/ \E t \in 0..MaxNow : SetClock(t)
  <2>1. now' \in Int /\ UNCHANGED <<timerVars, at>>
    BY <1>7, MainLoopAssumption DEF Tick, SetClock, TimersInv, loopVars
  <2> QED
    BY <2>1 DEF TimersInv, TimersSound, FiresOnce, timerVars
<1>8. ASSUME NEW ms \in Durations, CallbackAdds(ms) \/ \E loop \in BOOLEAN : addTimer(ms, loop)
      PROVE  TimersInv'
  BY <1>8, TimersAdd DEF CallbackAdds, addTimer, loopVars
<1>9. ASSUME NEW id \in Ids, delTimer(id) PROVE TimersInv'
  BY <1>9, TimersDelete
<1>10. ASSUME NEW p \in Posts, \/ Handler(p) \/ Fails(p) \/ ServerCloses(p)
                               \/ \E answer \in Answers : httpPost(p, answer)
       PROVE  TimersInv'
  <2>1. UNCHANGED <<now, timerVars, at>>
    BY <1>10 DEF Handler, Fails, ServerCloses, httpPost, handle_resolve, handle_connect, handle_write_request,
                 Goes, handle_read_status_line, handle_read_headers, handle_read_content, loopVars
  <2> QED
    BY <2>1, TimersRest
<1>11. CASE UNCHANGED vars
  BY <1>11, TimersRest DEF vars, loopVars
<1> QED
  BY <1>1, <1>2, <1>3, <1>4, <1>5, <1>6, <1>7, <1>8, <1>9, <1>10, <1>11 DEF Next, Poll

-----------------------------------------------------------------------------
(***************************************************************************)
(* The faucet.                                                             *)
(***************************************************************************)

\* Nothing of the requests changes, and poolEvent does not begin with the functions.
LEMMA FaucetRest ==
    ASSUME FaucetInv, at' \in [do : Phases, i : Nat], at' = at \/ at'.do # "functions",
           UNCHANGED <<functions, temp, postVars>>
    PROVE  FaucetInv'
  BY DEF FaucetInv, FunctionsSound, postVars

\* The functions of requests that have ended do not depend on another request.
LEMMA FunctionsStay ==
    ASSUME NEW fs, NEW posts, NEW qosts, NEW p, FunctionsSound(fs, posts), posts[p].stage # "done",
           \A q \in Posts \ {p} : qosts[q] = posts[q]
    PROVE  FunctionsSound(fs, qosts)
<1> SUFFICES ASSUME NEW i \in 1..Len(fs) PROVE FunctionSound(fs[i], qosts[fs[i].post])
  BY DEF FunctionsSound
<1>1. fs[i] \in Functions /\ FunctionSound(fs[i], posts[fs[i].post])
  BY ElementOfSeq DEF FunctionsSound
<1>2. fs[i].post \in Posts \ {p}
  BY <1>1 DEF Functions, FunctionSound
<1> QED
  BY <1>1, <1>2

\* A request that has not ended goes on, or ends and posts its function.
LEMMA FaucetMoves ==
    ASSUME FaucetInv, NEW p \in Posts, post[p].stage # "done", post' \in [Posts -> Started \cup Unstarted],
           PostSound(post'[p]), \A q \in Posts \ {p} : post'[q] = post[q], UNCHANGED <<at, temp>>,
           outcome' = outcome \/ outcome' = [outcome EXCEPT ![p] = "pending"],
           \/ functions' = functions
           \/ /\ post'[p].stage = "done" /\ post'[p].got \in Nat
              /\ \E e \in BOOLEAN :
                    functions' = Append(functions, [post |-> p, error |-> e, size |-> post'[p].got - 2])
    PROVE  FaucetInv'
<1>1. outcome[p] # "resolved" /\ outcome \in [Posts -> Outcomes]
  BY DEF FaucetInv, OutcomeSound
<1>2. /\ outcome' \in [Posts -> Outcomes] /\ outcome'[p] # "resolved"
      /\ \A q \in Posts \ {p} : outcome'[q] = outcome[q]
  BY <1>1 DEF Outcomes
<1>3. \A q \in Posts : PostSound(post'[q]) /\ OutcomeSound(post'[q], outcome'[q])
  BY <1>2 DEF FaucetInv, OutcomeSound
<1>4. FunctionsSound(temp, post') /\ FunctionsSound(functions, post')
  BY FunctionsStay DEF FaucetInv
<1>5. FunctionsSound(functions', post')
  <2>1. CASE functions' = functions
    BY <1>4, <2>1
  <2>2. ASSUME post'[p].stage = "done", post'[p].got \in Nat, NEW e \in BOOLEAN,
               functions' = Append(functions, [post |-> p, error |-> e, size |-> post'[p].got - 2])
        PROVE  FunctionsSound(functions', post')
    <3> DEFINE f == [post |-> p, error |-> e, size |-> post'[p].got - 2]
               fs == functions
    <3>1. f \in Functions /\ FunctionSound(f, post'[f.post]) /\ fs \in Seq(Functions) /\ Len(fs) \in Nat
      BY <1>4, <2>2, LenProperties DEF Functions, FunctionSound, FunctionsSound
    <3>2. functions' = Append(fs, f)
      BY <2>2
    <3> HIDE DEF f, fs
    <3>3. /\ Append(fs, f) \in Seq(Functions) /\ Len(Append(fs, f)) = Len(fs) + 1
          /\ \A i \in 1..Len(fs) : Append(fs, f)[i] = fs[i]
          /\ Append(fs, f)[Len(fs) + 1] = f
      BY <3>1, AppendProperties
    <3>4. \A i \in 1..Len(fs) : FunctionSound(fs[i], post'[fs[i].post])
      BY <1>4 DEF FunctionsSound, fs
    <3>5. \A i \in 1..Len(fs) + 1 : i \in 1..Len(fs) \/ i = Len(fs) + 1
      BY <3>1
    <3> QED
      BY <3>1, <3>2, <3>3, <3>4, <3>5 DEF FunctionsSound
  <2> QED
    BY <2>1, <2>2
<1> QED
  BY <1>2, <1>3, <1>4, <1>5 DEF FaucetInv

\* The length of an answer.
LEMMA BodyLength ==
    ASSUME NEW a \in Answers
    PROVE  a.body \in Nat
<1>1. CASE a \in [status : {200}, body : Bodies, declared : {TRUE}, means : {"created", "refused", "no object"}]
  <2>1. a.body \in Bodies
    BY <1>1
  <2> QED
    BY <2>1, MainLoopAssumption
<1>2. CASE a \in [status : {200}, body : Bodies, declared : {FALSE}, means : {"created"}]
  <2>1. a.body \in Bodies
    BY <1>2
  <2> QED
    BY <2>1, MainLoopAssumption
<1>3. CASE a \in [status : {500}, body : {1}, declared : {TRUE}, means : {"refused"}]
  BY <1>3
<1> QED
  BY <1>1, <1>2, <1>3 DEF Answers

\* What is known of a request that is under way.
LEMMA UnderWay ==
    ASSUME FaucetInv, NEW p \in Posts, post[p].stage \notin {"none", "done"}
    PROVE  /\ post[p] \in Started /\ post[p].got <= post[p].coming /\ post[p].coming <= 2 + post[p].answer.body
           /\ post[p].got \in Nat /\ post[p].coming \in Nat /\ post[p].answer \in Answers
           /\ post[p].answer.body \in Nat
<1>1. post[p] \in Started
  BY DEF FaucetInv, Unstarted
<1>2. \A a \in Answers : a.body \in Nat
  BY BodyLength
<1> QED
  BY <1>1, <1>2 DEF FaucetInv, PostSound, Started

\* A request ends with what it has got.
LEMMA FaucetCloses ==
    ASSUME FaucetInv, NEW p \in Posts, post[p].stage \notin {"none", "done"}, NEW e \in BOOLEAN, NEW got \in Nat,
           got <= 2 + post[p].answer.body, close_connect(p, e, got), UNCHANGED <<at, temp, outcome>>
    PROVE  FaucetInv'
<1> DEFINE r == [post[p] EXCEPT !.stage = "done", !.got = got, !.coming = 0, !.open = FALSE]
<1>1. post[p] \in Started
  BY UnderWay
<1>2. /\ r \in Started /\ r.stage = "done" /\ r.got = got /\ r.answer = post[p].answer
  BY <1>1 DEF Started, Stages
<1>3. post \in [Posts -> Started \cup Unstarted]
  BY DEF FaucetInv
<1>4. post' = [post EXCEPT ![p] = r]
  BY <1>1, <1>3 DEF close_connect
<1>5. functions' = Append(functions, [post |-> p, error |-> e, size |-> got - 2])
  BY DEF close_connect
<1> HIDE DEF r
<1>6. post' \in [Posts -> Started \cup Unstarted] /\ post'[p] = r /\ \A q \in Posts \ {p} : post'[q] = post[q]
  BY <1>2, <1>3, <1>4
<1>7. PostSound(post'[p])
  BY <1>2, <1>6 DEF PostSound
<1> QED
  BY <1>2, <1>5, <1>6, <1>7, FaucetMoves

\* A request goes on: some of its fields change.
LEMMA FaucetGoes ==
    ASSUME FaucetInv, NEW p \in Posts, post[p].stage \notin {"none", "done"}, NEW r \in Started, r.stage # "done",
           r.got <= r.coming, r.coming <= 2 + r.answer.body, r.answer \in Answers,
           post' = [post EXCEPT ![p] = r], UNCHANGED <<at, functions, temp, outcome>>
    PROVE  FaucetInv'
<1>1. \A a \in Answers : a.body \in Nat
  BY BodyLength
<1>2. post \in [Posts -> Started \cup Unstarted]
  BY DEF FaucetInv
<1>3. post' \in [Posts -> Started \cup Unstarted] /\ post'[p] = r /\ \A q \in Posts \ {p} : post'[q] = post[q]
  BY <1>2
<1>4. PostSound(post'[p])
  BY <1>1, <1>3 DEF PostSound, Started
<1> QED
  BY <1>3, <1>4, FaucetMoves

\* httpPost begins, with a server that will send its answer.
LEMMA FaucetPosts ==
    ASSUME FaucetInv, NEW p \in Posts, NEW answer \in Answers, httpPost(p, answer)
    PROVE  FaucetInv'
<1> DEFINE r == [stage |-> "resolve", got |-> 0, open |-> TRUE, length |-> 0,
                 coming |-> 2 + answer.body, answer |-> answer]
<1>1. answer.body \in Nat
  BY BodyLength
<1>2. r \in Started /\ PostSound(r)
  BY <1>1 DEF Started, Stages, PostSound
<1>3. /\ post[p].stage = "none" /\ post' = [post EXCEPT ![p] = r]
      /\ outcome' = [outcome EXCEPT ![p] = "pending"] /\ UNCHANGED <<at, functions, temp>>
  BY DEF httpPost, loopVars
<1> HIDE DEF r
<1>4. post \in [Posts -> Started \cup Unstarted]
  BY DEF FaucetInv
<1>5. post' \in [Posts -> Started \cup Unstarted] /\ post'[p] = r /\ \A q \in Posts \ {p} : post'[q] = post[q]
  BY <1>2, <1>3, <1>4
<1> QED
  BY <1>2, <1>3, <1>5, FaucetMoves

\* The handlers up to the status line have nothing of the answer.
LEMMA FaucetStages ==
    ASSUME FaucetInv, NEW p \in Posts, NEW from \in Stages \ {"done"}, NEW to \in Stages \ {"done"}, Goes(p, from, to)
    PROVE  FaucetInv'
<1> DEFINE r == [post[p] EXCEPT !.stage = to]
<1>1. post[p].stage \notin {"none", "done"} /\ post \in [Posts -> Started \cup Unstarted]
  BY DEF Goes, Stages, FaucetInv
<1>2. /\ post[p] \in Started /\ post[p].got <= post[p].coming /\ post[p].coming <= 2 + post[p].answer.body
      /\ post[p].answer \in Answers
  BY <1>1, UnderWay
<1>3. /\ r \in Started /\ r.stage = to /\ r.got = post[p].got /\ r.coming = post[p].coming
      /\ r.answer = post[p].answer
  BY <1>2 DEF Started
<1>4. post' = [post EXCEPT ![p] = r] /\ UNCHANGED <<at, functions, temp, outcome>>
  BY <1>1 DEF Goes, loopVars
<1> HIDE DEF r
<1> QED
  BY <1>1, <1>2, <1>3, <1>4, FaucetGoes

\* The server closes.
LEMMA FaucetServerCloses ==
    ASSUME FaucetInv, NEW p \in Posts, ServerCloses(p)
    PROVE  FaucetInv'
<1>1. PICK n \in post[p].got..Whole(p) : post' = [post EXCEPT ![p].open = FALSE, ![p].coming = n]
  BY DEF ServerCloses
<1> DEFINE r == [post[p] EXCEPT !.open = FALSE, !.coming = n]
<1>2. /\ post[p].stage \notin {"none", "done"} /\ post \in [Posts -> Started \cup Unstarted]
      /\ UNCHANGED <<at, functions, temp, outcome>>
  BY DEF ServerCloses, Connected, FaucetInv, loopVars
<1>3. /\ post[p] \in Started /\ post[p].answer \in Answers /\ post[p].got \in Nat /\ post[p].answer.body \in Nat
  BY <1>2, UnderWay
<1>4. n \in Nat /\ post[p].got <= n /\ n <= 2 + post[p].answer.body
  BY <1>3 DEF Whole
<1>5. /\ r \in Started /\ r.stage = post[p].stage /\ r.got = post[p].got /\ r.coming = n
      /\ r.answer = post[p].answer
  BY <1>3, <1>4 DEF Started
<1>6. post' = [post EXCEPT ![p] = r]
  BY <1>1, <1>2, <1>3
<1> HIDE DEF r
<1> QED
  BY <1>2, <1>3, <1>4, <1>5, <1>6, FaucetGoes

\* The handlers that read the answer.
LEMMA FaucetHandlers ==
    ASSUME FaucetInv, NEW p \in Posts,
           handle_read_status_line(p) \/ handle_read_headers(p) \/ handle_read_content(p)
    PROVE  FaucetInv'
<1> DEFINE r == post[p]
<1>1. /\ r.stage \in {"status", "headers", "content"} /\ UNCHANGED <<at, temp, outcome>>
      /\ post \in [Posts -> Started \cup Unstarted]
  BY DEF handle_read_status_line, handle_read_headers, handle_read_content, FaucetInv
<1>2. /\ r \in Started /\ r.got <= r.coming /\ r.coming <= 2 + r.answer.body /\ r.got \in Nat /\ r.coming \in Nat
      /\ r.answer.body \in Nat /\ r.length \in Nat /\ r.got <= 2 + r.answer.body
  <2>1. /\ r \in Started /\ r.got <= r.coming /\ r.coming <= 2 + r.answer.body /\ r.got \in Nat
        /\ r.coming \in Nat /\ r.answer.body \in Nat
    BY <1>1, UnderWay
  <2> QED
    BY <2>1 DEF Started
<1>3. ASSUME NEW e \in BOOLEAN, NEW got \in Nat, got <= r.coming, close_connect(p, e, got)
      PROVE  FaucetInv'
  <2>1. got <= 2 + post[p].answer.body
    BY <1>2, <1>3
  <2> QED
    BY <1>1, <1>3, <2>1, FaucetCloses
<1>4. CASE handle_read_status_line(p)
  <2>1. CASE close_connect(p, TRUE, r.got)
    BY <1>2, <1>3, <2>1
  <2>2. ASSUME NEW got \in 1..r.coming, post' = [post EXCEPT ![p].got = got, ![p].stage = "headers"],
               UNCHANGED functions
        PROVE  FaucetInv'
    <3> DEFINE n == [r EXCEPT !.got = got, !.stage = "headers"]
    <3>1. got \in Nat /\ got <= r.coming
      BY <1>2, <2>2
    <3>2. /\ n \in Started /\ n.stage = "headers" /\ n.got = got /\ n.coming = r.coming /\ n.answer = r.answer
          /\ n.answer \in Answers
      BY <1>2, <3>1 DEF Started, Stages
    <3>3. post' = [post EXCEPT ![p] = n] /\ UNCHANGED <<at, functions, temp, outcome>>
      BY <1>1, <1>2, <2>2
    <3>4. n.stage # "done" /\ n.got <= n.coming /\ n.coming <= 2 + n.answer.body
      BY <1>2, <3>1, <3>2
    <3> HIDE DEF n
    <3> QED
      BY <1>1, <3>2, <3>3, <3>4, FaucetGoes
  <2> QED
    BY <1>4, <2>1, <2>2 DEF handle_read_status_line
<1>5. CASE handle_read_headers(p)
  <2>1. CASE close_connect(p, TRUE, r.got)
    BY <1>2, <1>3, <2>1
  <2> DEFINE length == IF r.answer.declared THEN r.answer.body ELSE 0
  <2>2. ASSUME NEW got \in 2..r.coming, UNCHANGED functions,
               post' = [post EXCEPT ![p].got = got, ![p].stage = "content", ![p].length = length]
        PROVE  FaucetInv'
    <3>1. length \in Nat
      BY <1>2
    <3> HIDE DEF length
    <3> DEFINE n == [r EXCEPT !.got = got, !.stage = "content", !.length = length]
    <3>2. got \in Nat /\ got <= r.coming
      BY <1>2, <2>2
    <3>3. /\ n \in Started /\ n.stage = "content" /\ n.got = got /\ n.coming = r.coming /\ n.answer = r.answer
          /\ n.answer \in Answers
      BY <1>2, <3>1, <3>2 DEF Started, Stages
    <3>4. post' = [post EXCEPT ![p] = n] /\ UNCHANGED <<at, functions, temp, outcome>>
      BY <1>1, <1>2, <2>2
    <3>5. n.stage # "done" /\ n.got <= n.coming /\ n.coming <= 2 + n.answer.body
      BY <1>2, <3>2, <3>3
    <3> HIDE DEF n
    <3> QED
      BY <1>1, <3>3, <3>4, <3>5, FaucetGoes
  <2> QED
    BY <1>5, <2>1, <2>2 DEF handle_read_headers
<1>6. CASE handle_read_content(p)
  <2>1. CASE close_connect(p, FALSE, r.got)
    BY <1>2, <1>3, <2>1
  <2>2. ASSUME NEW got \in r.got + 1..r.coming, close_connect(p, FALSE, got)
        PROVE  FaucetInv'
    <3>1. got \in Nat /\ got <= r.coming
      BY <1>2, <2>2
    <3> QED
      BY <1>3, <2>2, <3>1
  <2>3. ASSUME NEW got \in r.got + 1..r.coming, post' = [post EXCEPT ![p].got = got], UNCHANGED functions
        PROVE  FaucetInv'
    <3> DEFINE n == [r EXCEPT !.got = got]
    <3>1. got \in Nat /\ got <= r.coming
      BY <1>2, <2>3
    <3>2. /\ n \in Started /\ n.stage = "content" /\ n.got = got /\ n.coming = r.coming /\ n.answer = r.answer
          /\ n.answer \in Answers
      BY <1>2, <1>6, <3>1 DEF Started, Stages, handle_read_content
    <3>3. post' = [post EXCEPT ![p] = n] /\ UNCHANGED <<at, functions, temp, outcome>>
      BY <1>1, <1>2, <2>3
    <3>4. n.stage # "done" /\ n.got <= n.coming /\ n.coming <= 2 + n.answer.body
      BY <1>2, <3>1, <3>2
    <3> HIDE DEF n
    <3> QED
      BY <1>1, <3>2, <3>3, <3>4, FaucetGoes
  <2> QED
    BY <1>6, <2>1, <2>2, <2>3 DEF handle_read_content
<1> QED
  BY <1>4, <1>5, <1>6

\* poolEvent takes the functions that were posted.
LEMMA FaucetTaken ==
    ASSUME FaucetInv, Sweep
    PROVE  FaucetInv'
<1>1. FunctionsSound(functions, post) /\ functions \in Seq(Functions)
  BY DEF FaucetInv, FunctionsSound
<1>2. temp' = functions /\ functions' = << >> /\ UNCHANGED postVars
  BY DEF Sweep
<1>3. FunctionsSound(functions', post') /\ FunctionsSound(temp', post')
  BY <1>1, <1>2, EmptySeq DEF FunctionsSound, postVars
<1>4. at' \in [do : Phases, i : Nat] /\ (at'.do = "functions" => functions # << >> /\ at'.i = 1)
  BY DEF Sweep, Resting, Phases
<1>5. functions # << >> => 1 \in 1..Len(functions)
  BY <1>1, EmptySeq
<1> QED
  BY <1>2, <1>3, <1>4, <1>5 DEF FaucetInv, postVars

\* poolEvent performs a function: it resolves only what is there and says so.
LEMMA FaucetPerforms ==
    ASSUME FaucetInv, Perform
    PROVE  FaucetInv'
<1> DEFINE f == temp[at.i]
           r == post[f.post]
<1>1. /\ at.do = "functions" /\ at.i \in 1..Len(temp) /\ at \in [do : Phases, i : Nat]
      /\ FunctionsSound(temp, post) /\ temp \in Seq(Functions) /\ Len(temp) \in Nat
  BY LenProperties DEF FaucetInv, Perform, FunctionsSound
<1>2. f \in Functions /\ FunctionSound(f, r)
  BY <1>1, ElementOfSeq DEF FunctionsSound
<1>3. f.post \in Posts /\ f.error \in BOOLEAN /\ f.size \in Int /\ r.stage = "done" /\ f.size = r.got - 2
  BY <1>2 DEF Functions, FunctionSound
<1>4. /\ r \in Started /\ r.got \in Nat /\ r.answer \in Answers /\ r.got <= 2 + r.answer.body
  BY <1>3 DEF FaucetInv, Started, Unstarted, PostSound
<1>5. r.answer.body \in Nat
  BY <1>4, BodyLength
<1>6. /\ outcome' = [outcome EXCEPT ![f.post] = Verdict(f)] /\ UNCHANGED <<functions, post>>
  BY DEF Perform
<1>7. Verdict(f) \in Outcomes
  BY DEF Verdict, Outcomes
<1>8. OutcomeSound(r, Verdict(f))
  <2> SUFFICES ASSUME Verdict(f) = "resolved"
               PROVE  r.stage = "done" /\ r.got = 2 + r.answer.body /\ r.answer.means = "created"
    BY DEF OutcomeSound
  <2>1. ~(f.size < r.answer.body) /\ r.answer.means = "created"
    BY DEF Verdict
  <2> QED
    BY <1>3, <1>4, <1>5, <2>1
<1>9. /\ outcome' \in [Posts -> Outcomes]
      /\ \A q \in Posts : OutcomeSound(post'[q], outcome'[q])
  BY <1>3, <1>6, <1>7, <1>8 DEF FaucetInv
<1>10. \/ at' = Resting /\ temp' = << >>
       \/ at.i # Len(temp) /\ at' = [at EXCEPT !.i = @ + 1] /\ temp' = temp
  BY DEF Perform
<1>11. /\ at' \in [do : Phases, i : Nat] /\ FunctionsSound(temp', post)
       /\ at'.do = "functions" => at'.i \in 1..Len(temp')
  <2>1. CASE at' = Resting /\ temp' = << >>
    BY <2>1, EmptySeq DEF Resting, FunctionsSound, Phases
  <2>2. CASE at.i # Len(temp) /\ at' = [at EXCEPT !.i = @ + 1] /\ temp' = temp
    BY <1>1, <2>2
  <2> QED
    BY <1>10, <2>1, <2>2
<1> QED
  BY <1>6, <1>9, <1>11 DEF FaucetInv

\* Every step keeps the requests sound.
LEMMA FaucetStep ==
    ASSUME FaucetInv, [Next]_vars
    PROVE  FaucetInv'
<1>1. CASE processTimer \/ SkipTimer \/ FireTimer \/ CallbackEnds
  <2>1. /\ at' \in [do : Phases, i : Nat] /\ at'.do # "functions" /\ UNCHANGED <<functions, temp, postVars>>
    BY <1>1 DEF processTimer, SkipTimer, FireTimer, CallbackEnds, Phases, FaucetInv
  <2> QED
    BY <2>1, FaucetRest
<1>2. CASE Sweep
  BY <1>2, FaucetTaken
<1>3. CASE Perform
  BY <1>3, FaucetPerforms
<1>4. CASE \/ Tick \/ \E t \in 0..MaxNow : SetClock(t)
           \/ \E ms \in Durations : CallbackAdds(ms) \/ \E loop \in BOOLEAN : addTimer(ms, loop)
           \/ \E id \in Ids : delTimer(id)
           \/ UNCHANGED vars
  <2>1. UNCHANGED <<at, functions, temp, postVars>>
    BY <1>4 DEF Tick, SetClock, CallbackAdds, addTimer, delTimer, vars, loopVars
  <2>2. at' \in [do : Phases, i : Nat]
    BY <2>1 DEF FaucetInv
  <2> QED
    BY <2>1, <2>2, FaucetRest
<1>5. ASSUME NEW p \in Posts, Handler(p) PROVE FaucetInv'
  <2>1. CASE handle_resolve(p) \/ handle_connect(p) \/ handle_write_request(p)
    BY <2>1, FaucetStages DEF handle_resolve, handle_connect, handle_write_request, Stages
  <2>2. CASE handle_read_status_line(p) \/ handle_read_headers(p) \/ handle_read_content(p)
    BY <2>2, FaucetHandlers
  <2> QED
    BY <1>5, <2>1, <2>2 DEF Handler
<1>6. ASSUME NEW p \in Posts, Fails(p) PROVE FaucetInv'
  <2>1. /\ post[p].stage \notin {"none", "done"} /\ close_connect(p, TRUE, post[p].got)
        /\ UNCHANGED <<at, temp, outcome>>
    BY <1>6 DEF Fails
  <2>2. post[p].got \in Nat /\ post[p].got <= 2 + post[p].answer.body
    BY <2>1, UnderWay
  <2> QED
    BY <2>1, <2>2, FaucetCloses
<1>7. ASSUME NEW p \in Posts, ServerCloses(p) \/ \E answer \in Answers : httpPost(p, answer)
      PROVE  FaucetInv'
  BY <1>7, FaucetServerCloses, FaucetPosts
<1> QED
  BY <1>1, <1>2, <1>3, <1>4, <1>5, <1>6, <1>7 DEF Next, Poll

-----------------------------------------------------------------------------
(***************************************************************************)
(* The theorems.                                                           *)
(***************************************************************************)

\* poolEvent keeps its timers, the functions it was posted and the requests to the faucet
\* together, whatever the clock does and wherever an answer is cut.
THEOREM Invariance ==
    Spec => []Inv
<1>1. Init => Inv
  <2> SUFFICES ASSUME Init PROVE Inv
    OBVIOUS
  <2>1. << >> \in Seq(Slots) /\ << >> \in Seq(Functions) /\ Len(<< >>) = 0
    BY EmptySeq
  <2>2. at \in [do : Phases, i : Nat] /\ at.do = "app"
    BY DEF Init, Resting, Phases
  <2>3. TimersInv
    BY <2>1, <2>2 DEF Init, TimersInv, TimersSound, FiresOnce
  <2>4. /\ post \in [Posts -> Started \cup Unstarted] /\ outcome \in [Posts -> Outcomes]
        /\ \A p \in Posts : post[p].stage = "none" /\ outcome[p] = "none"
    BY DEF Init, Unstarted, Outcomes
  <2>5. FunctionsSound(functions, post) /\ FunctionsSound(temp, post)
    BY <2>1 DEF Init, FunctionsSound
  <2> QED
    BY <2>2, <2>3, <2>4, <2>5 DEF Inv, FaucetInv, PostSound, OutcomeSound
<1>2. Inv /\ [Next]_vars => Inv'
  BY TimersStep, FaucetStep DEF Inv
<1> QED
  BY <1>1, <1>2, PTL DEF Spec

\* A timer that is no loop fires once: processTimer leaves none in the list that has fired,
\* whatever its callbacks add and however the clock is set.
THEOREM TimersFireOnce ==
    Spec => []FiresOnce
<1>1. Inv => FiresOnce
  BY DEF Inv, TimersInv
<1> QED
  BY <1>1, Invariance, PTL

\* createAccountByFaucet reports an account as created only if the whole answer of the faucet
\* has come and says so.
THEOREM FaucetTruthful ==
    Spec => []CreatedIfSaid
<1>1. Inv => CreatedIfSaid
  BY DEF Inv, FaucetInv, OutcomeSound, CreatedIfSaid, Whole
<1> QED
  BY <1>1, Invariance, PTL

=============================================================================
