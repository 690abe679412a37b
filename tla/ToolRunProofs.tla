--------------------------- MODULE ToolRunProofs ---------------------------
(***************************************************************************)
(* For any number of calls and any set of registered tools: RunTools puts  *)
(* each outcome in the place of its call, pairs the events of a tool, and  *)
(* counts every call in both trackers, however its goroutines interleave.  *)
(***************************************************************************)
EXTENDS ToolRun, FiniteSetTheorems, SequenceTheorems, TLAPS

Unstarted == {"idle", "spawned", "counted", "billed"}
Running   == {"started", "executed"}
Reported  == {"reported", "sent", "taken"}
Answers    == {"none", "ok", "failed"}
EventNames == {"use"} \cup Answers

\* The calls whose result is to come, that are in the tracker, in its parent.
Open(t)     == {i \in Calls : t[i] \notin {"idle", "taken"}}
Recorded(t) == {i \in Calls : t[i] \notin {"idle", "spawned"}}
RolledUp(t) == {i \in Calls : t[i] \notin {"idle", "spawned", "counted"}}

Types ==
    /\ pc \in {"spawning", "collecting", "returned", "cancelled"}
    /\ next \in 1..(N + 1)
    /\ task \in [Calls -> Places]
    /\ answer \in [Calls -> Answers]
    /\ outcomes \in [Calls -> {Empty, Missing} \cup (Calls \X {"ok", "failed"})]
    /\ events \in [Calls -> Seq(EventNames)]
    /\ ctxDone \in BOOLEAN

Counts ==
    /\ pending = Cardinality(Open(task))
    /\ tracker = Cardinality(Recorded(task))
    /\ parent = Cardinality(RolledUp(task))

\* RunTools collects when every call was looked at, and returns outcomes when
\* every result has come.
RunnerInv ==
    /\ pc # "spawning" => next = N + 1
    /\ pc = "returned" => pending = 0

\* What is known of a call from the place of its goroutine.
CallInv(i) ==
    /\ task[i] # "idle" <=> i \in Known /\ i < next
    /\ i \notin Known /\ i < next => outcomes[i] = Missing
    /\ task[i] \in Unstarted => events[i] = <<>>
    /\ task[i] \in Running => events[i] = <<"use">>
    /\ task[i] \in Reported => events[i] \in {<<>>, <<"use", answer[i]>>}
    /\ task[i] = "executed" \/ task[i] \in Reported => answer[i] # "none"
    /\ task[i] = "taken" => outcomes[i] = Outcome(i)

CallsInv == \A i \in Calls : CallInv(i)

IInv == Types /\ Counts /\ RunnerInv /\ CallsInv

USE CallsAssumption

-----------------------------------------------------------------------------
(* Counting the calls in a place. *)
LEMMA Counted ==
    \A S \in SUBSET Calls : IsFiniteSet(S) /\ Cardinality(S) \in 0..N
<1>1. IsFiniteSet(Calls) /\ Cardinality(Calls) = N
  BY FS_Interval DEF Calls
<1>2. TAKE S \in SUBSET Calls
<1>3. IsFiniteSet(S) /\ Cardinality(S) <= N
  BY <1>1, FS_Subset
<1>4. Cardinality(S) \in Nat
  BY <1>3, FS_CardinalityType
<1>5. QED
  BY <1>3, <1>4

LEMMA OneMore ==
    ASSUME NEW S \in SUBSET Calls, NEW i \in Calls, i \notin S
    PROVE  Cardinality(S \cup {i}) = Cardinality(S) + 1
  BY Counted, FS_AddElement

LEMMA OneLess ==
    ASSUME NEW S \in SUBSET Calls, NEW i \in S
    PROVE  Cardinality(S \ {i}) = Cardinality(S) - 1
  BY Counted, FS_RemoveElement

\* A goroutine that only moves within or after its work changes no count.
LEMMA SameCounts ==
    ASSUME Counts, UNCHANGED <<pending, tracker, parent>>,
           Open(task') = Open(task), Recorded(task') = Recorded(task),
           RolledUp(task') = RolledUp(task)
    PROVE  Counts'
  BY DEF Counts

LEMMA InitInv == Init => IInv
<1> SUFFICES ASSUME Init PROVE IInv
  OBVIOUS
<1>1. Types
  <2>1. <<>> \in Seq(EventNames)
    OBVIOUS
  <2>2. events \in [Calls -> Seq(EventNames)]
    BY <2>1 DEF Init
  <2>3. task \in [Calls -> Places] /\ answer \in [Calls -> Answers]
    BY DEF Init, Places, Answers
  <2>4. outcomes \in [Calls -> {Empty, Missing} \cup (Calls \X {"ok", "failed"})]
    BY DEF Init
  <2>5. QED
    <3>1. next \in 1..(N + 1) /\ ctxDone \in BOOLEAN
      <4>1. next = 1 /\ ctxDone = FALSE
        BY DEF Init
      <4>2. next \in 1..(N + 1)
        BY <4>1
      <4>3. ctxDone \in BOOLEAN
        BY <4>1, Zenon
      <4>4. QED
        BY <4>2, <4>3
    <3>2. pc \in {"spawning", "collecting", "returned", "cancelled"}
      BY DEF Init
    <3>3. QED
      BY <2>2, <2>3, <2>4, <3>1, <3>2 DEF Types
<1>2. Open(task) = {} /\ Recorded(task) = {} /\ RolledUp(task) = {}
  BY DEF Init, Open, Recorded, RolledUp
<1>3. Counts
  BY <1>2, FS_EmptySet DEF Init, Counts
<1>4. RunnerInv
  BY DEF Init, RunnerInv
<1>5. CallsInv
  BY DEF Init, CallsInv, CallInv, Calls, Unstarted, Running, Reported
<1>6. QED
  BY <1>1, <1>3, <1>4, <1>5 DEF IInv

-----------------------------------------------------------------------------
(* RunTools. *)
LEMMA SpawnInv == ASSUME IInv, Spawn PROVE IInv'
<1> USE DEF IInv
<1>1. next \in Calls /\ next' = next + 1 /\ pc = "spawning" /\ pc' = pc
  BY DEF Spawn, Types, Calls
<1>2. task[next] = "idle" /\ events[next] = <<>>
  BY <1>1 DEF CallsInv, CallInv, Calls, Unstarted
<1>3. Types'
  <2>1. task' \in [Calls -> Places]
    BY <1>1 DEF Spawn, Types, Places
  <2>2. outcomes' \in [Calls -> {Empty, Missing} \cup (Calls \X {"ok", "failed"})]
    BY <1>1 DEF Spawn, Types
  <2>3. next' \in 1..(N + 1)
    BY <1>1 DEF Calls
  <2>4. UNCHANGED <<pc, answer, events, ctxDone>>
    BY DEF Spawn
  <2>5. QED
    BY <2>1, <2>2, <2>3, <2>4 DEF Types
<1>4. Counts'
  <2>1. CASE next \in Known
    <3>1. /\ task' = [task EXCEPT ![next] = "spawned"] /\ pending' = pending + 1
          /\ UNCHANGED totals
      BY <2>1 DEF Spawn
    <3>2. /\ Open(task') = Open(task) \cup {next} /\ next \notin Open(task)
          /\ Recorded(task') = Recorded(task) /\ RolledUp(task') = RolledUp(task)
      BY <1>1, <1>2, <3>1 DEF Types, Open, Recorded, RolledUp
    <3>3. Cardinality(Open(task')) = Cardinality(Open(task)) + 1
      BY <1>1, <3>2, OneMore DEF Open
    <3>4. QED
      BY <3>1, <3>2, <3>3 DEF Counts, totals
  <2>2. CASE next \notin Known
    BY <2>2 DEF Spawn, Counts, totals
  <2>3. QED
    BY <2>1, <2>2
<1>5. RunnerInv'
  BY <1>1 DEF RunnerInv
<1>6. CallsInv'
  <2>1. SUFFICES ASSUME NEW i \in Calls PROVE CallInv(i)'
    BY DEF CallsInv
  <2>2. CallInv(i) /\ i \in Nat /\ next \in Nat
    BY <1>1 DEF CallsInv, Calls
  <2>3. CASE i = next
    <3>1. i < next' /\ events'[i] = <<>>
      BY <1>1, <1>2, <2>2, <2>3 DEF Spawn
    <3>2. CASE i \in Known
      <4>1. task'[i] = "spawned"
        BY <2>3, <3>2 DEF Spawn, Types
      <4>2. QED
        BY <3>1, <3>2, <4>1 DEF CallInv, Unstarted, Running, Reported
    <3>3. CASE i \notin Known
      <4>1. task'[i] = "idle" /\ outcomes'[i] = Missing
        BY <1>2, <2>3, <3>3 DEF Spawn, Types
      <4>2. QED
        BY <3>1, <3>3, <4>1 DEF CallInv, Unstarted, Running, Reported
    <3>4. QED
      BY <3>2, <3>3
  <2>4. CASE i # next
    <3>1. /\ task'[i] = task[i] /\ outcomes'[i] = outcomes[i]
          /\ events'[i] = events[i] /\ answer'[i] = answer[i]
      BY <2>4 DEF Spawn, Types
    <3>2. i < next' <=> i < next
      BY <1>1, <2>2, <2>4
    <3>3. QED
      BY <2>2, <3>1, <3>2 DEF CallInv, Outcome
  <2>5. QED
    BY <2>3, <2>4
<1>7. QED
  BY <1>3, <1>4, <1>5, <1>6

\* The steps of RunTools that move no goroutine.
LEMMA RunnerStepInv ==
    ASSUME IInv, Spawned \/ Return \/ ReturnCancelled \/ CallerCancels PROVE IInv'
<1> USE DEF IInv
<1>1. UNCHANGED <<next, pending, outcomes, task, answer, events, totals>>
  BY DEF Spawned, Return, ReturnCancelled, CallerCancels, runner
<1>2. Types'
  BY <1>1 DEF Types, Spawned, Return, ReturnCancelled, CallerCancels, runner, totals
<1>3. Counts'
  BY <1>1 DEF Counts, totals
<1>4. RunnerInv'
  BY <1>1 DEF Types, RunnerInv, Spawned, Return, ReturnCancelled, CallerCancels, runner
<1>5. CallsInv'
  BY <1>1 DEF CallsInv, CallInv, Outcome
<1>6. QED
  BY <1>2, <1>3, <1>4, <1>5

LEMMA CollectInv == ASSUME IInv, Collect PROVE IInv'
<1> USE DEF IInv
<1>1. PICK i \in Calls : /\ task[i] = "sent" /\ task' = [task EXCEPT ![i] = "taken"]
                         /\ outcomes' = [outcomes EXCEPT ![i] = Outcome(i)]
  BY DEF Collect
<1>2. /\ pc = "collecting" /\ pending' = pending - 1
      /\ UNCHANGED <<pc, next, answer, events, totals, ctxDone>>
  BY DEF Collect
<1>3. answer[i] \in {"ok", "failed"}
  BY <1>1 DEF Types, Answers, CallsInv, CallInv, Reported
<1>4. Types'
  BY <1>1, <1>2, <1>3 DEF Types, Places, Outcome
<1>5. Counts'
  <2>1. /\ Open(task') = Open(task) \ {i} /\ i \in Open(task)
        /\ Recorded(task') = Recorded(task) /\ RolledUp(task') = RolledUp(task)
    BY <1>1 DEF Types, Open, Recorded, RolledUp
  <2>2. Cardinality(Open(task')) = Cardinality(Open(task)) - 1
    BY <2>1, OneLess DEF Open
  <2>3. QED
    BY <1>2, <2>1, <2>2 DEF Counts, totals
<1>6. RunnerInv'
  BY <1>2 DEF RunnerInv
<1>7. CallsInv'
  <2>1. SUFFICES ASSUME NEW j \in Calls PROVE CallInv(j)'
    BY DEF CallsInv
  <2>2. CallInv(j)
    BY DEF CallsInv
  <2>3. CASE j = i
    BY <1>1, <1>2, <2>2, <2>3
       DEF Types, CallInv, Unstarted, Running, Reported, Outcome
  <2>4. CASE j # i
    BY <1>1, <1>2, <2>2, <2>4 DEF Types, CallInv, Outcome
  <2>5. QED
    BY <2>3, <2>4
<1>8. QED
  BY <1>4, <1>5, <1>6, <1>7

-----------------------------------------------------------------------------
(* A step of a goroutine: what its own call needs, the others keep. *)
Fits(to, a, e) ==
    /\ to \in Unstarted => e = <<>>
    /\ to \in Running => e = <<"use">>
    /\ to \in Reported => e \in {<<>>, <<"use", a>>}
    /\ to = "executed" \/ to \in Reported => a # "none"

LEMMA WorkInv ==
    ASSUME IInv, NEW i \in Calls, NEW from, NEW to, Moves(i, from, to), Counts',
           from # "idle", to \in Places \ {"idle", "taken"},
           NEW a, a \in Answers, answer' = [answer EXCEPT ![i] = a],
           NEW e, e \in Seq(EventNames), events' = [events EXCEPT ![i] = e],
           Fits(to, a, e)
    PROVE  IInv'
<1> USE DEF IInv, Moves, runner
<1>1. Types'
  BY DEF Types
<1>2. RunnerInv'
  BY DEF RunnerInv
<1>3. CallsInv'
  <2>1. SUFFICES ASSUME NEW j \in Calls PROVE CallInv(j)'
    BY DEF CallsInv
  <2>2. CallInv(j)
    BY DEF CallsInv
  <2>3. CASE j = i
    <3>1. /\ task'[i] = to /\ answer'[i] = a /\ events'[i] = e /\ task[i] = from
      BY DEF Types
    <3>2. i \in Known /\ i < next
      BY <2>2, <2>3, <3>1 DEF CallInv
    <3>3. QED
      BY <2>3, <3>1, <3>2 DEF CallInv, Fits
  <2>4. CASE j # i
    BY <2>2, <2>4 DEF Types, CallInv, Outcome
  <2>5. QED
    BY <2>3, <2>4
<1>4. QED
  BY <1>1, <1>2, <1>3

\* A goroutine's place, with the answer and the events of its call.
LEMMA AtWork ==
    ASSUME IInv, NEW i \in Calls
    PROVE  /\ answer[i] \in Answers /\ answer = [answer EXCEPT ![i] = answer[i]]
           /\ events[i] \in Seq(EventNames) /\ events = [events EXCEPT ![i] = events[i]]
           /\ task[i] \in Unstarted => events[i] = <<>>
           /\ task[i] \in Running => events[i] = <<"use">>
           /\ task[i] \in Reported => events[i] \in {<<>>, <<"use", answer[i]>>}
           /\ task[i] = "executed" \/ task[i] \in Reported => answer[i] # "none"
  BY DEF IInv, Types, CallsInv, CallInv

LEMMA RecordInv == ASSUME IInv, NEW i \in Calls, RecordToolCall(i) PROVE IInv'
<1>1. /\ Moves(i, "spawned", "counted") /\ tracker' = tracker + 1
      /\ UNCHANGED <<answer, events, parent>>
  BY DEF RecordToolCall
<1>2. /\ Recorded(task') = Recorded(task) \cup {i} /\ i \notin Recorded(task)
      /\ Open(task') = Open(task) /\ RolledUp(task') = RolledUp(task)
  BY <1>1 DEF Moves, IInv, Types, Open, Recorded, RolledUp
<1>3. Cardinality(Recorded(task')) = Cardinality(Recorded(task)) + 1
  BY <1>2, OneMore DEF Recorded
<1>4. Counts'
  BY <1>1, <1>2, <1>3 DEF Moves, runner, IInv, Counts
<1>5. /\ answer[i] \in Answers /\ answer' = [answer EXCEPT ![i] = answer[i]]
      /\ <<>> \in Seq(EventNames) /\ events' = [events EXCEPT ![i] = <<>>]
  BY <1>1, AtWork DEF Moves, Unstarted
<1>6. /\ "spawned" # "idle" /\ "counted" \in Places \ {"idle", "taken"}
      /\ Fits("counted", answer[i], <<>>)
  BY DEF Places, Fits, Unstarted, Running, Reported
<1>7. QED
  BY <1>1, <1>4, <1>5, <1>6, WorkInv

LEMMA RollUpInv == ASSUME IInv, NEW i \in Calls, RollUp(i) PROVE IInv'
<1>1. /\ Moves(i, "counted", "billed") /\ parent' = parent + 1
      /\ UNCHANGED <<answer, events, tracker>>
  BY DEF RollUp
<1>2. /\ RolledUp(task') = RolledUp(task) \cup {i} /\ i \notin RolledUp(task)
      /\ Open(task') = Open(task) /\ Recorded(task') = Recorded(task)
  BY <1>1 DEF Moves, IInv, Types, Open, Recorded, RolledUp
<1>3. Cardinality(RolledUp(task')) = Cardinality(RolledUp(task)) + 1
  BY <1>2, OneMore DEF RolledUp
<1>4. Counts'
  BY <1>1, <1>2, <1>3 DEF Moves, runner, IInv, Counts
<1>5. /\ answer[i] \in Answers /\ answer' = [answer EXCEPT ![i] = answer[i]]
      /\ <<>> \in Seq(EventNames) /\ events' = [events EXCEPT ![i] = <<>>]
  BY <1>1, AtWork DEF Moves, Unstarted
<1>6. /\ "counted" # "idle" /\ "billed" \in Places \ {"idle", "taken"}
      /\ Fits("billed", answer[i], <<>>)
  BY DEF Places, Fits, Unstarted, Running, Reported
<1>7. QED
  BY <1>1, <1>4, <1>5, <1>6, WorkInv

\* The steps after the count.
LEMMA LaterCounts ==
    ASSUME IInv, NEW i \in Calls, NEW from \in Places, NEW to \in Places,
           Moves(i, from, to), UNCHANGED totals,
           {from, to} \subseteq {"billed", "started", "executed", "reported", "sent"}
    PROVE  Counts'
<1>1. /\ Open(task') = Open(task) /\ Recorded(task') = Recorded(task)
      /\ RolledUp(task') = RolledUp(task)
  BY DEF Moves, IInv, Types, Open, Recorded, RolledUp
<1>2. QED
  BY <1>1, SameCounts DEF Moves, runner, totals, IInv

LEMMA BadArgumentsInv == ASSUME IInv, NEW i \in Calls, BadArguments(i) PROVE IInv'
<1>1. /\ Moves(i, "billed", "reported") /\ UNCHANGED <<events, totals>>
      /\ answer' = [answer EXCEPT ![i] = "failed"]
  BY DEF BadArguments
<1>2. <<>> \in Seq(EventNames) /\ events' = [events EXCEPT ![i] = <<>>]
  BY <1>1, AtWork DEF Moves, Unstarted
<1>3. Counts'
  BY <1>1, LaterCounts DEF Places
<1>4. /\ "failed" \in Answers /\ "billed" # "idle"
      /\ "reported" \in Places \ {"idle", "taken"} /\ Fits("reported", "failed", <<>>)
  BY DEF Places, Answers, Fits, Unstarted, Running, Reported
<1>5. QED
  BY <1>1, <1>2, <1>3, <1>4, WorkInv

LEMMA AnnounceInv == ASSUME IInv, NEW i \in Calls, Announce(i) PROVE IInv'
<1>1. /\ Moves(i, "billed", "started") /\ UNCHANGED <<answer, totals>>
      /\ events' = [events EXCEPT ![i] = Append(@, "use")]
  BY DEF Announce
<1>2. events[i] = <<>> /\ answer[i] \in Answers /\ answer' = [answer EXCEPT ![i] = answer[i]]
  BY <1>1, AtWork DEF Moves, Unstarted
<1>3. <<"use">> \in Seq(EventNames) /\ events' = [events EXCEPT ![i] = <<"use">>]
  BY <1>1, <1>2 DEF EventNames
<1>4. Counts'
  BY <1>1, LaterCounts DEF Places
<1>5. /\ "billed" # "idle" /\ "started" \in Places \ {"idle", "taken"}
      /\ Fits("started", answer[i], <<"use">>)
  BY DEF Places, Fits, Unstarted, Running, Reported
<1>6. QED
  BY <1>1, <1>2, <1>3, <1>4, <1>5, WorkInv

LEMMA ExecuteInv == ASSUME IInv, NEW i \in Calls, Execute(i) PROVE IInv'
<1>1. /\ Moves(i, "started", "executed") /\ UNCHANGED <<events, totals>>
      /\ \E a \in {"ok", "failed"} : answer' = [answer EXCEPT ![i] = a]
  BY DEF Execute
<1>2. PICK a \in {"ok", "failed"} : answer' = [answer EXCEPT ![i] = a]
  BY <1>1
<1>3. <<"use">> \in Seq(EventNames) /\ events' = [events EXCEPT ![i] = <<"use">>]
  BY <1>1, AtWork DEF Moves, Running, EventNames
<1>4. Counts'
  BY <1>1, LaterCounts DEF Places
<1>5. /\ a \in Answers /\ "started" # "idle" /\ "executed" \in Places \ {"idle", "taken"}
      /\ Fits("executed", a, <<"use">>)
  BY DEF Places, Answers, Fits, Unstarted, Running, Reported
<1>6. QED
  BY <1>1, <1>2, <1>3, <1>4, <1>5, WorkInv

LEMMA ReportInv == ASSUME IInv, NEW i \in Calls, Report(i) PROVE IInv'
<1>1. /\ Moves(i, "executed", "reported") /\ UNCHANGED <<answer, totals>>
      /\ events' = [events EXCEPT ![i] = Append(@, answer[i])]
  BY DEF Report
<1>2. /\ events[i] = <<"use">> /\ answer[i] \in Answers /\ answer[i] # "none"
      /\ answer' = [answer EXCEPT ![i] = answer[i]]
  BY <1>1, AtWork DEF Moves, Running
<1>3. /\ <<"use", answer[i]>> \in Seq(EventNames)
      /\ events' = [events EXCEPT ![i] = <<"use", answer[i]>>]
  <2>1. "use" \in EventNames /\ answer[i] \in EventNames
    BY <1>2 DEF EventNames
  <2>2. <<"use", answer[i]>> \in Seq(EventNames)
    BY <2>1
  <2>3. Append(<<"use">>, answer[i]) = <<"use", answer[i]>>
    <3>1. PICK x \in EventNames : x = answer[i]
      BY <2>1
    <3>2. Append(<<"use">>, x) = <<"use", x>>
      <4>1. <<"use">> \in Seq(EventNames) /\ <<"use", x>> \in Seq(EventNames)
        BY <2>1, <3>1
      <4>2. /\ Append(<<"use">>, x) \in Seq(EventNames)
            /\ Len(Append(<<"use">>, x)) = 2
            /\ Append(<<"use">>, x)[1] = "use" /\ Append(<<"use">>, x)[2] = x
        BY <4>1, AppendProperties
      <4>3. Len(<<"use", x>>) = 2 /\ <<"use", x>>[1] = "use" /\ <<"use", x>>[2] = x
        OBVIOUS
      <4> DEFINE s == Append(<<"use">>, x)
                 t == <<"use", x>>
      <4>4. s \in Seq(EventNames) /\ t \in Seq(EventNames) /\ Len(s) = Len(t) /\ Len(s) = 2
        BY <4>1, <4>2, <4>3
      <4>5. s[1] = t[1] /\ s[2] = t[2]
        BY <4>2, <4>3
      <4> HIDE DEF s, t
      <4>6. \A k \in 1..Len(s) : s[k] = t[k]
        BY <4>4, <4>5
      <4>7. s = t
        BY <4>4, <4>6, SeqEqual
      <4>8. QED
        BY <4>7 DEF s, t
    <3>3. QED
      BY <3>1, <3>2
  <2>4. QED
    BY <1>1, <1>2, <2>2, <2>3
<1>4. Counts'
  BY <1>1, LaterCounts DEF Places
<1>5. /\ "executed" # "idle" /\ "reported" \in Places \ {"idle", "taken"}
      /\ Fits("reported", answer[i], <<"use", answer[i]>>)
  BY <1>2 DEF Places, Fits, Unstarted, Running, Reported
<1>6. QED
  BY <1>1, <1>2, <1>3, <1>4, <1>5, WorkInv

LEMMA SendInv == ASSUME IInv, NEW i \in Calls, Send(i) PROVE IInv'
<1>1. Moves(i, "reported", "sent") /\ UNCHANGED <<answer, events, totals>>
  BY DEF Send
<1>2. /\ answer[i] \in Answers /\ answer' = [answer EXCEPT ![i] = answer[i]]
      /\ events[i] \in Seq(EventNames) /\ events' = [events EXCEPT ![i] = events[i]]
      /\ events[i] \in {<<>>, <<"use", answer[i]>>} /\ answer[i] # "none"
  BY <1>1, AtWork DEF Moves, Reported
<1>3. Counts'
  BY <1>1, LaterCounts DEF Places
<1>4. /\ "reported" # "idle" /\ "sent" \in Places \ {"idle", "taken"}
      /\ Fits("sent", answer[i], events[i])
  BY <1>2 DEF Places, Fits, Unstarted, Running, Reported
<1>5. QED
  BY <1>1, <1>2, <1>3, <1>4, WorkInv

-----------------------------------------------------------------------------
LEMMA NextInv == IInv /\ [Next]_vars => IInv'
<1> SUFFICES ASSUME IInv, [Next]_vars PROVE IInv'
  OBVIOUS
<1>1. CASE Spawn BY <1>1, SpawnInv
<1>2. CASE Spawned \/ Return \/ ReturnCancelled \/ CallerCancels
  BY <1>2, RunnerStepInv
<1>3. CASE Collect BY <1>3, CollectInv
<1>4. ASSUME NEW i \in Calls, Work(i) PROVE IInv'
  BY <1>4, RecordInv, RollUpInv, BadArgumentsInv, AnnounceInv, ExecuteInv,
     ReportInv, SendInv DEF Work
<1>5. CASE UNCHANGED vars
  BY <1>5 DEF IInv, vars, runner, totals, Types, Counts, RunnerInv, CallsInv,
     CallInv, Outcome
<1>6. QED
  BY <1>1, <1>2, <1>3, <1>4, <1>5 DEF Next, Run

LEMMA Invariance == Spec => []IInv
  BY InitInv, NextInv, PTL DEF Spec

\* A RunTools that returns outcomes has taken the result of every goroutine.
LEMMA ReturnedTaken ==
    IInv /\ pc = "returned" =>
        \A i \in Calls : task[i] = IF i \in Known THEN "taken" ELSE "idle"
<1> SUFFICES ASSUME IInv, pc = "returned", NEW i \in Calls
             PROVE  task[i] = IF i \in Known THEN "taken" ELSE "idle"
  OBVIOUS
<1>1. Open(task) \in SUBSET Calls
  BY DEF Open
<1>2. Open(task) = {}
  BY <1>1, Counted, FS_EmptySet DEF IInv, Counts, RunnerInv
<1>3. i < next
  BY DEF IInv, RunnerInv, Calls
<1>4. QED
  BY <1>2, <1>3 DEF IInv, CallsInv, CallInv, Open

-----------------------------------------------------------------------------
\* Each outcome RunTools returns is the one of the call in its place.
THEOREM OutcomesAreInOrder == Spec => []OutcomesInOrder
<1>1. IInv => OutcomesInOrder
  <2>1. SUFFICES ASSUME IInv, pc = "returned", NEW i \in Calls
                 PROVE  IF i \in Known
                        THEN answer[i] # "none" /\ outcomes[i] = Outcome(i)
                        ELSE outcomes[i] = Missing
    BY DEF OutcomesInOrder
  <2>2. i < next
    BY <2>1 DEF IInv, RunnerInv, Calls
  <2>3. task[i] = IF i \in Known THEN "taken" ELSE "idle"
    BY <2>1, ReturnedTaken
  <2>4. QED
    BY <2>1, <2>2, <2>3 DEF IInv, CallsInv, CallInv, Reported
<1>2. QED
  BY <1>1, Invariance, PTL

\* A result or error event follows its use event and tells what the model is
\* told, before RunTools returns outcomes.
THEOREM EventsArePaired == Spec => []EventsPaired
<1>1. IInv => EventsPaired
  <2>1. SUFFICES ASSUME IInv, NEW i \in Calls
                 PROVE  /\ events[i] \in {<<>>, <<"use">>, <<"use", answer[i]>>}
                        /\ task[i] \in Reported => Len(events[i]) # 1
                        /\ pc = "returned" => Len(events[i]) # 1
    BY DEF EventsPaired, Reported
  <2>2. CallInv(i) /\ task[i] \in Places
    BY <2>1 DEF IInv, CallsInv, Types
  <2>3. pc = "returned" => task[i] \in {"taken", "idle"}
    BY <2>1, ReturnedTaken
  <2>4. task[i] \in Reported \cup {"idle"} => events[i] \in {<<>>, <<"use", answer[i]>>}
    BY <2>2 DEF CallInv, Unstarted
  <2>5. events[i] \in {<<>>, <<"use">>, <<"use", answer[i]>>}
    BY <2>2 DEF CallInv, Places, Unstarted, Running, Reported
  <2>6. task[i] \in Reported \cup {"idle"} => Len(events[i]) # 1
    <3>1. CASE events[i] = <<>> BY <3>1
    <3>2. CASE events[i] = <<"use", answer[i]>> BY <3>2
    <3>3. QED
      BY <2>4, <3>1, <3>2
  <2>7. QED
    BY <2>3, <2>5, <2>6 DEF Reported
<1>2. QED
  BY <1>1, Invariance, PTL

\* The parent's tracker misses the calls between the two locks and no other;
\* both have every call of a registered tool when RunTools returns outcomes.
THEOREM CallsAreRolledUp == Spec => []CallsRollUp
<1>1. IInv => CallsRollUp
  <2> SUFFICES ASSUME IInv PROVE CallsRollUp
    OBVIOUS
  <2> DEFINE Between == {i \in Calls : task[i] = "counted"}
  <2>1. /\ Recorded(task) = RolledUp(task) \cup Between
        /\ RolledUp(task) \cap Between = {}
        /\ RolledUp(task) \in SUBSET Calls /\ Between \in SUBSET Calls
    BY DEF Recorded, RolledUp
  <2>2. Cardinality(Recorded(task)) = Cardinality(RolledUp(task)) + Cardinality(Between)
    <3>1. /\ IsFiniteSet(RolledUp(task)) /\ Cardinality(RolledUp(task)) \in 0..N
          /\ IsFiniteSet(Between) /\ Cardinality(Between) \in 0..N
      BY <2>1, Counted
    <3>2. Cardinality({}) = 0
      BY FS_EmptySet
    <3>3. Cardinality(RolledUp(task) \cup Between) =
              Cardinality(RolledUp(task)) + Cardinality(Between)
                  - Cardinality(RolledUp(task) \cap Between)
      BY <3>1, FS_Union
    <3>4. Cardinality(RolledUp(task) \cap Between) = 0
      BY <2>1, <3>2
    <3> HIDE DEF Between
    <3>5. QED
      BY <2>1, <3>1, <3>3, <3>4
  <2>3. pc = "returned" => Recorded(task) = Known /\ RolledUp(task) = Known
    BY ReturnedTaken DEF Recorded, RolledUp, Calls
  <2>4. QED
    BY <2>2, <2>3 DEF CallsRollUp, IInv, Counts
<1>2. QED
  BY <1>1, Invariance, PTL

\* Every variable keeps its type; pending counts the results still to come.
THEOREM RunTyped == Spec => []TypeOK
<1>1. IInv => TypeOK
  <2> SUFFICES ASSUME IInv PROVE TypeOK
    OBVIOUS
  <2>1. \A i \in Calls : Len(events[i]) <= 2
    <3>1. TAKE i \in Calls
    <3>2. events[i] \in {<<>>, <<"use">>, <<"use", answer[i]>>}
      BY DEF IInv, Types, CallsInv, CallInv, Places, Unstarted, Running, Reported
    <3>3. CASE events[i] = <<>> BY <3>3
    <3>4. CASE events[i] = <<"use">> BY <3>4
    <3>5. CASE events[i] = <<"use", answer[i]>> BY <3>5
    <3>6. QED
      BY <3>2, <3>3, <3>4, <3>5
  <2>2. tracker \in 0..N /\ parent \in 0..N
    BY Counted DEF IInv, Counts, Recorded, RolledUp
  <2>3. Open(task) = {i \in Started : task[i] # "taken"}
    BY DEF Open, Started
  <2>4. QED
    <3>1. pending = Cardinality({i \in Started : task[i] # "taken"})
      BY <2>3 DEF IInv, Counts
    <3>2. Types /\ Answers = {"none", "ok", "failed"}
      BY DEF IInv, Answers
    <3>3. QED
      BY <2>1, <2>2, <3>1, <3>2 DEF TypeOK, Types
<1>2. QED
  BY <1>1, Invariance, PTL
=============================================================================
