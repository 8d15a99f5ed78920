-------------------------- MODULE PreemptionContext --------------------------
(***************************************************************************)
(* workflows/preemption.py: the handshake between the thread that runs a   *)
(* workflow and whoever preempts it.  The three events of the class are    *)
(* variables; cooperate() is a subroutine of the workflow thread, and side *)
(* says where in it the thread is.  The preempting side may call preempt,  *)
(* wait_for_checkpoint and resume in any order.                            *)
(***************************************************************************)
VARIABLES
    mode,            \* _mode, which the workflow's registration chooses
    preempt,         \* _preempt_event
    checkpointDone,  \* _checkpoint_done_event
    resume,          \* _resume_event
    side,            \* the workflow's position in cooperate()
    confirmed        \* wait_for_checkpoint has returned True

ctxVars == <<mode, preempt, checkpointDone, resume, side, confirmed>>

\* What __init__ sets; also the context of a new run.
CtxInit ==
    /\ mode \in {"suspend", "restart"}
    /\ preempt = FALSE /\ checkpointDone = FALSE /\ resume = FALSE
    /\ side = "out" /\ confirmed = FALSE

NewContext ==
    /\ preempt' = FALSE /\ checkpointDone' = FALSE /\ resume' = FALSE
    /\ side' = "out" /\ confirmed' = FALSE
    /\ UNCHANGED mode

-----------------------------------------------------------------------------
(* The preempting side                                                      *)

Preempt ==
    /\ preempt' = TRUE
    /\ UNCHANGED <<mode, checkpointDone, resume, side, confirmed>>

\* A wait that finds the event returns True.  A wait that times out returns
\* False and changes nothing, so it has no action.
WaitForCheckpoint ==
    /\ checkpointDone
    /\ confirmed' = TRUE
    /\ UNCHANGED <<mode, preempt, checkpointDone, resume, side>>

Resume ==
    /\ resume' = TRUE
    /\ UNCHANGED <<mode, preempt, checkpointDone, side, confirmed>>

-----------------------------------------------------------------------------
(* cooperate()                                                              *)

\* It returns at once when nobody has called preempt().
CooperateNoop == side = "out" /\ ~preempt /\ UNCHANGED ctxVars

\* It raises WorkflowCancelledError.
CooperateCancel == side = "out" /\ preempt /\ mode = "restart" /\ UNCHANGED ctxVars

\* Mutant: the event is set before checkpoint_fn is called.
CheckpointEarly ==
    /\ side = "out" /\ preempt /\ mode = "suspend"
    /\ side' = "checkpoint"
    /\ checkpointDone' = TRUE
    /\ UNCHANGED <<mode, preempt, resume, confirmed>>

\* It calls checkpoint_fn.
CooperateCheckpoint ==
    /\ side = "out" /\ preempt /\ mode = "suspend"
    /\ side' = "checkpoint"
    /\ UNCHANGED <<mode, preempt, checkpointDone, resume, confirmed>>

\* checkpoint_fn or rollback_fn raises out of cooperate().
CooperateRaise ==
    /\ side \in {"checkpoint", "rollback"}
    /\ side' = "out"
    /\ UNCHANGED <<mode, preempt, checkpointDone, resume, confirmed>>

\* Mutant: the resume event is cleared before the wait, as for a second cycle.
PauseAfresh ==
    /\ side = "checkpoint"
    /\ side' = "paused"
    /\ checkpointDone' = TRUE /\ resume' = FALSE
    /\ UNCHANGED <<mode, preempt, confirmed>>

\* checkpoint_fn has returned; the event is set and the thread waits.
CooperatePause ==
    /\ side = "checkpoint"
    /\ side' = "paused"
    /\ checkpointDone' = TRUE
    /\ UNCHANGED <<mode, preempt, resume, confirmed>>

\* resume() was called, before or after the wait began; rollback_fn is called.
CooperateWake ==
    /\ side = "paused" /\ resume
    /\ side' = "rollback"
    /\ UNCHANGED <<mode, preempt, checkpointDone, resume, confirmed>>

\* rollback_fn has returned, and cooperate() returns.
CooperateReturn ==
    /\ side = "rollback"
    /\ side' = "out"
    /\ UNCHANGED <<mode, preempt, checkpointDone, resume, confirmed>>
=============================================================================
