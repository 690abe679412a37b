----------------------------- MODULE AgentLoop -----------------------------
(***************************************************************************)
(* What a Session promises its caller, without retries, phases, provider   *)
(* histories or trackers: a conversation that only grows, a budget of      *)
(* model turns, tool calls that are settled before the model speaks again, *)
(* and a checkpoint a new session continues from.                          *)
(***************************************************************************)
EXTENDS Integers, SequencesExt

CONSTANT Budget

VARIABLES
    log,         \* the conversation
    used,        \* model turns paid for
    status,      \* "open", "owed" (tool results are due) or "closed"
    checkpoint   \* the conversation as last persisted

vars == <<log, used, status, checkpoint>>

Message(kind, turn) == [kind |-> kind, turn |-> turn]

\* Nothing of the old budget is carried into a conversation started afresh.
Afresh(l) == [i \in DOMAIN l |->
                IF l[i].kind = "inject" THEN l[i] ELSE Message(l[i].kind, 0)]

StatusOf(l) == IF Last(l).kind = "calls" THEN "owed" ELSE "open"

Init ==
    /\ log = <<Message("input", 0)>>
    /\ used = 0
    /\ status = "open"
    /\ checkpoint = [log |-> <<>>, used |-> 0, closed |-> FALSE]

Speak ==
    /\ status # "owed"
    /\ Last(log).kind # "calls"
    /\ Front(log') = log /\ Last(log').kind = "inject"
    /\ UNCHANGED <<used, status, checkpoint>>

Call ==
    /\ status = "open" /\ used < Budget
    /\ used' = used + 1
    /\ log' = Append(log, Message("calls", used + 1))
    /\ status' = "owed"
    /\ UNCHANGED checkpoint

Settle ==
    /\ status = "owed"
    /\ log' = Append(log, Message("results", Last(log).turn))
    /\ status' = "open"
    /\ UNCHANGED <<used, checkpoint>>

Answer ==
    /\ status = "open" /\ used < Budget
    /\ used' = used + 1
    /\ log' \in {log, Append(log, Message("answer", used + 1))}
    /\ status' = "closed"
    /\ UNCHANGED checkpoint

Exhaust ==
    /\ status = "open" /\ used = Budget
    /\ status' = "closed"
    /\ UNCHANGED <<log, used, checkpoint>>

\* A failure keeps what was said, and pays for at most the turn that failed.
Fail ==
    /\ status # "closed"
    /\ status' = "closed"
    /\ \/ /\ UNCHANGED log
          /\ used' \in {used, used + 1} \cap 0..Budget
       \/ /\ status = "open" /\ used < Budget
          /\ used' = used + 1
          /\ log' = Append(log, Message("calls", used + 1))
       \/ /\ status = "owed"
          /\ log' = Append(log, Message("results", Last(log).turn))
          /\ UNCHANGED used
    /\ UNCHANGED checkpoint

Save ==
    /\ checkpoint' = [log |-> log, used |-> used, closed |-> status = "closed"]
    /\ UNCHANGED <<log, used, status>>

Recover ==
    /\ checkpoint.log # <<>> /\ ~checkpoint.closed
    /\ log' = checkpoint.log
    /\ used' = checkpoint.used
    /\ status' = StatusOf(checkpoint.log)
    /\ UNCHANGED checkpoint

Restart ==
    /\ checkpoint.log # <<>>
    /\ log' = Afresh(checkpoint.log)
    /\ used' = 0
    /\ status' = StatusOf(checkpoint.log)
    /\ UNCHANGED checkpoint

Next == \/ Speak \/ Call \/ Settle \/ Answer \/ Exhaust \/ Fail
        \/ Save \/ Recover \/ Restart

Spec == Init /\ [][Next]_vars
=============================================================================
