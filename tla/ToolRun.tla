------------------------------- MODULE ToolRun -------------------------------
(***************************************************************************)
(* Session.RunTools: the parallel fan-out of one turn's tool calls and its *)
(* cancellable fan-in, with what each tool goroutine does in doToolCall    *)
(* and in the two trackers (execution_context.go).  A goroutine outlives a *)
(* cancelled fan-in; the model follows it to its end.                      *)
(***************************************************************************)
EXTENDS Integers, FiniteSets, Sequences

CONSTANTS
    N,       \* the calls of the turn are 1..N
    Known    \* the calls whose tool is registered

ASSUME CallsAssumption == N \in Nat /\ Known \subseteq 1..N

VARIABLES
    pc,        \* RunTools: "spawning", "collecting", "returned", "cancelled"
    next,      \* the call to look at next
    pending,   \* goroutines started and not yet collected
    task,      \* where each call's goroutine is, see Places
    answer,    \* what each goroutine found: "none", "ok" or "failed"
    outcomes,  \* the slice RunTools fills
    events,    \* the events StreamingFunc got for each call
    tracker,   \* tool calls recorded in the session's tracker
    parent,    \* ... and in its parent's
    ctxDone    \* the context of RunTools is done

Calls == 1..N
runner  == <<pc, next, pending, outcomes>>
totals  == <<tracker, parent>>
vars    == <<runner, task, answer, events, totals, ctxDone>>

Places == {"idle", "spawned", "counted", "billed", "started", "executed",
           "reported", "sent", "taken"}
Empty   == <<0, "empty">>
Missing == <<0, "ErrToolNotFound">>
Outcome(i) == <<i, answer[i]>>

Init ==
    /\ pc = "spawning" /\ next = 1 /\ pending = 0
    /\ task = [i \in Calls |-> "idle"]
    /\ answer = [i \in Calls |-> "none"]
    /\ outcomes = [i \in Calls |-> Empty]
    /\ events = [i \in Calls |-> <<>>]
    /\ tracker = 0 /\ parent = 0
    /\ ctxDone = FALSE

-----------------------------------------------------------------------------
(* RunTools *)
\* MUTANT: a call of an unknown tool is waited for.
SpawnCountsUnknown ==
    /\ pc = "spawning" /\ next <= N
    /\ next' = next + 1
    /\ pending' = pending + 1
    /\ IF next \in Known
       THEN task' = [task EXCEPT ![next] = "spawned"] /\ UNCHANGED outcomes
       ELSE outcomes' = [outcomes EXCEPT ![next] = Missing] /\ UNCHANGED task
    /\ UNCHANGED <<pc, answer, events, totals, ctxDone>>

Spawn ==
    /\ pc = "spawning" /\ next <= N
    /\ next' = next + 1
    /\ IF next \in Known
       THEN /\ task' = [task EXCEPT ![next] = "spawned"]
            /\ pending' = pending + 1
            /\ UNCHANGED outcomes
       ELSE /\ outcomes' = [outcomes EXCEPT ![next] = Missing]
            /\ UNCHANGED <<task, pending>>
    /\ UNCHANGED <<pc, answer, events, totals, ctxDone>>

Spawned ==
    /\ pc = "spawning" /\ next > N
    /\ pc' = "collecting"
    /\ UNCHANGED <<next, pending, outcomes, task, answer, events, totals, ctxDone>>

\* MUTANT: results are stored in the order they come in.
CollectInArrivalOrder ==
    /\ pc = "collecting"
    /\ \E i \in Calls :
          /\ task[i] = "sent"
          /\ task' = [task EXCEPT ![i] = "taken"]
          /\ outcomes' = [outcomes EXCEPT ![Cardinality(Known) - pending + 1] =
                             Outcome(i)]
    /\ pending' = pending - 1
    /\ UNCHANGED <<pc, next, answer, events, totals, ctxDone>>

Collect ==
    /\ pc = "collecting"
    /\ \E i \in Calls :
          /\ task[i] = "sent"
          /\ task' = [task EXCEPT ![i] = "taken"]
          /\ outcomes' = [outcomes EXCEPT ![i] = Outcome(i)]
    /\ pending' = pending - 1
    /\ UNCHANGED <<pc, next, answer, events, totals, ctxDone>>

\* The deferred cancel ends the context on every return.
Return ==
    /\ pc = "collecting" /\ pending = 0
    /\ pc' = "returned"
    /\ ctxDone' = TRUE
    /\ UNCHANGED <<next, pending, outcomes, task, answer, events, totals>>

\* The select may see the context before results that are ready.
ReturnCancelled ==
    /\ pc = "collecting" /\ pending > 0 /\ ctxDone
    /\ pc' = "cancelled"
    /\ UNCHANGED <<next, pending, outcomes, task, answer, events, totals, ctxDone>>

CallerCancels ==
    /\ pc \in {"spawning", "collecting"} /\ ~ctxDone
    /\ ctxDone' = TRUE
    /\ UNCHANGED <<runner, task, answer, events, totals>>

-----------------------------------------------------------------------------
(* A tool goroutine: doToolCall, then the send. *)
Moves(i, from, to) ==
    /\ task[i] = from
    /\ task' = [task EXCEPT ![i] = to]
    /\ UNCHANGED <<runner, ctxDone>>

\* RecordToolCall unlocks the tracker before it goes on to the parent.
RecordToolCall(i) ==
    /\ Moves(i, "spawned", "counted")
    /\ tracker' = tracker + 1
    /\ UNCHANGED <<answer, events, parent>>

\* MUTANT: the roll-up is a read of the parent's count and a later write.
RollUpOverwrites(i) ==
    /\ Moves(i, "counted", "billed")
    /\ parent' = tracker
    /\ UNCHANGED <<answer, events, tracker>>

RollUp(i) ==
    /\ Moves(i, "counted", "billed")
    /\ parent' = parent + 1
    /\ UNCHANGED <<answer, events, tracker>>

\* The arguments do not parse (or the schema panics): no event was started.
BadArguments(i) ==
    /\ Moves(i, "billed", "reported")
    /\ answer' = [answer EXCEPT ![i] = "failed"]
    /\ UNCHANGED <<events, totals>>

Announce(i) ==
    /\ Moves(i, "billed", "started")
    /\ events' = [events EXCEPT ![i] = Append(@, "use")]
    /\ UNCHANGED <<answer, totals>>

\* The tool returns, fails, panics or hears that its context is done.
Execute(i) ==
    /\ Moves(i, "started", "executed")
    /\ \E a \in {"ok", "failed"} : answer' = [answer EXCEPT ![i] = a]
    /\ UNCHANGED <<events, totals>>

\* MUTANT: only a success is reported to the stream.
ReportSuccessOnly(i) ==
    /\ Moves(i, "executed", "reported")
    /\ events' = IF answer[i] = "ok"
                 THEN [events EXCEPT ![i] = Append(@, "ok")] ELSE events
    /\ UNCHANGED <<answer, totals>>

\* The deferred emitter sends StreamingEventToolResult or ToolError.
Report(i) ==
    /\ Moves(i, "executed", "reported")
    /\ events' = [events EXCEPT ![i] = Append(@, answer[i])]
    /\ UNCHANGED <<answer, totals>>

\* MUTANT: the channel is not buffered.
SendUnbuffered(i) ==
    /\ pc = "collecting"
    /\ Moves(i, "reported", "sent")
    /\ UNCHANGED <<answer, events, totals>>

\* The channel has room for every call.
Send(i) ==
    /\ Moves(i, "reported", "sent")
    /\ UNCHANGED <<answer, events, totals>>

Work(i) ==
    \/ RecordToolCall(i) \/ RollUp(i) \/ BadArguments(i) \/ Announce(i)
    \/ Execute(i) \/ Report(i) \/ Send(i)

Run == Spawn \/ Spawned \/ Collect \/ Return

Next == Run \/ ReturnCancelled \/ CallerCancels \/ \E i \in Calls : Work(i)

Spec == Init /\ [][Next]_vars

\* RunTools goes on, and so does every goroutine: a tool's Execute comes back,
\* of itself or because ToolCallTimeout ends its context.
FairSpec == Spec /\ WF_vars(Run) /\ \A i \in Calls : WF_vars(Work(i))

-----------------------------------------------------------------------------
Started == {i \in Calls : task[i] # "idle"}

\* Every variable keeps its type; pending counts the results still to come.
TypeOK ==
    /\ pc \in {"spawning", "collecting", "returned", "cancelled"}
    /\ next \in 1..(N + 1)
    /\ task \in [Calls -> Places]
    /\ answer \in [Calls -> {"none", "ok", "failed"}]
    /\ outcomes \in [Calls -> {Empty, Missing} \cup (Calls \X {"ok", "failed"})]
    /\ \A i \in Calls : Len(events[i]) <= 2
    /\ tracker \in 0..N /\ parent \in 0..N /\ ctxDone \in BOOLEAN
    /\ pending = Cardinality({i \in Started : task[i] # "taken"})

\* When RunTools returns outcomes, the i-th is the one the i-th call produced
\* (or says that its tool is unknown), in whatever order the tools finished.
OutcomesInOrder ==
    pc = "returned" =>
        \A i \in Calls :
            IF i \in Known THEN answer[i] # "none" /\ outcomes[i] = Outcome(i)
            ELSE outcomes[i] = Missing

\* A tool's result or error event follows its use event, tells what the model
\* will be told, and has reached the caller before RunTools returns outcomes.
EventsPaired ==
    \A i \in Calls :
        /\ events[i] \in {<<>>, <<"use">>, <<"use", answer[i]>>}
        /\ task[i] \in {"reported", "sent", "taken"} => Len(events[i]) # 1
        /\ pc = "returned" => Len(events[i]) # 1

\* The parent's tracker misses exactly the calls between the two locks, and a
\* call of an unknown tool is recorded nowhere.
CallsRollUp ==
    /\ parent + Cardinality({i \in Calls : task[i] = "counted"}) = tracker
    /\ pc = "returned" => tracker = Cardinality(Known) /\ parent = tracker

\* RunTools comes back, with outcomes or with the context's error.
RunReturns == <>(pc \in {"returned", "cancelled"})

\* No tool goroutine is left behind, also when nobody collects its result.
NoGoroutineLeaks == <>[](\A i \in Known : task[i] \in {"sent", "taken"})
=============================================================================
