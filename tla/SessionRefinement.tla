------------------------- MODULE SessionRefinement -------------------------
(***************************************************************************)
(* Session implements AgentLoop.  A turn in progress is not paid for yet,  *)
(* so a failed turn that is given back is a stutter, and so are the resume *)
(* of a replayed transcript and everything the provider history does.      *)
(***************************************************************************)
EXTENDS Session

statusBar == IF done THEN "closed"
             ELSE IF OwesResults(messages) THEN "owed" ELSE "open"

checkpointBar == [log |-> saved.transcript, used |-> saved.step,
                  closed |-> saved.finished]

Loop == INSTANCE AgentLoop WITH
            Budget <- MaxSteps,
            log <- messages,
            used <- Completed,
            status <- statusBar,
            checkpoint <- checkpointBar

\* Everything a caller sees of the loop (the transcript, the budget, when it
\* is open, what it owes and what a restore brings back) is a behaviour of
\* AgentLoop.
ImplementsAgentLoop == Loop!Spec
=============================================================================
