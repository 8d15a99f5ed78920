------------------------- MODULE CommissionedInquiry -------------------------
(***************************************************************************)
(* workflows/commissioned_inquiry.py under preemption: one inquiry whose   *)
(* iterations each end at a cooperate() point, the record and the findings *)
(* it leaves in the memory server, and a run that may fail at any call and *)
(* be started again with a new context.                                    *)
(***************************************************************************)
EXTENDS Naturals, FiniteSets, PreemptionContext

CONSTANTS MaxIterations,  \* max_iterations
          MaxRuns         \* bound on the runs of this inquiry

ASSUME BoundsAssumption == MaxIterations \in Nat /\ MaxRuns \in Nat \ {0}

VARIABLES
    pc,         \* the next call the workflow makes
    iteration,  \* the loop variable
    findings,   \* the iterations in the local list `findings`
    run,        \* which run of the inquiry this is
    record,     \* the InquiryRecord's status in the memory server
    reported,   \* the findings_count of the record once it is completed
    stored,     \* the findings in the memory server: [run, iteration]
    detected,   \* the run has triggered contradiction detection
    pushed      \* the run has triggered its push

storeVars == <<record, reported, stored>>
vars == <<ctxVars, pc, iteration, findings, run, storeVars, detected, pushed>>

Calls == {"record", "query", "context", "finding", "write", "cooperate", "summary",
          "complete", "detect", "message", "push"}
Ended == {"done", "failed", "cancelled"}
\* The finding of one iteration of the run, as the memory server has it.
Finding(i) == [run |-> run, iteration |-> i]

Init ==
    /\ CtxInit
    /\ pc = "record" /\ iteration = 0 /\ findings = {} /\ run = 1
    /\ record = "none" /\ reported = 0 /\ stored = {}
    /\ detected = FALSE /\ pushed = FALSE

Then(next) == pc' = next

\* Mutant: the loop goes on to the summary before it has made max_iterations.
LoopTestEarly(i) == IF i + 1 < MaxIterations THEN "query" ELSE "summary"

\* The for loop's test, before iteration i.
LoopTest(i) == IF i < MaxIterations THEN "query" ELSE "summary"

\* Step 0: the record is written, or written again, as ACTIVE.
WriteRecord ==
    /\ pc = "record"
    /\ record' = "active"
    /\ Then(LoopTest(0))
    /\ UNCHANGED <<ctxVars, iteration, findings, run, reported, stored, detected, pushed>>

\* The calls of an iteration, and of the end, that change nothing stored: the
\* query and its check, the retrieval, the synthesis of the finding, the
\* summary and the push message.
NextCall == [query |-> "context", context |-> "finding", finding |-> "write",
             summary |-> "complete", message |-> "push"]

CallModel ==
    /\ pc \in DOMAIN NextCall
    /\ Then(NextCall[pc])
    /\ UNCHANGED <<ctxVars, iteration, findings, run, storeVars, detected, pushed>>

\* Mutant: the finding is kept until the next cooperation point has passed.
WriteLater ==
    /\ pc = "write"
    /\ findings' = findings \cup {iteration}
    /\ stored' = stored \cup {Finding(i) : i \in findings}
    /\ Then("cooperate")
    /\ UNCHANGED <<ctxVars, iteration, run, record, reported, detected, pushed>>

WriteFinding ==
    /\ pc = "write"
    /\ findings' = findings \cup {iteration}
    /\ stored' = stored \cup {Finding(iteration)}
    /\ Then("cooperate")
    /\ UNCHANGED <<ctxVars, iteration, run, record, reported, detected, pushed>>

\* cooperate() returns: the next iteration, or the summary.
NextIteration ==
    /\ pc = "cooperate"
    /\ CooperateNoop \/ CooperateReturn
    /\ iteration' = iteration + 1
    /\ Then(LoopTest(iteration + 1))
    /\ UNCHANGED <<findings, run, storeVars, detected, pushed>>

InsideCooperate ==
    /\ pc = "cooperate"
    /\ CooperateCheckpoint \/ CooperatePause \/ CooperateWake
    /\ UNCHANGED <<pc, iteration, findings, run, storeVars, detected, pushed>>

Cancelled ==
    /\ pc = "cooperate"
    /\ CooperateCancel
    /\ Then("cancelled")
    /\ UNCHANGED <<iteration, findings, run, storeVars, detected, pushed>>

\* mark_inquiry_complete_fn, with len(findings).
MarkComplete ==
    /\ pc = "complete"
    /\ record' = "completed" /\ reported' = Cardinality(findings)
    /\ Then("detect")
    /\ UNCHANGED <<ctxVars, iteration, findings, run, stored, detected, pushed>>

TriggerDetection ==
    /\ pc = "detect"
    /\ detected' = TRUE
    /\ Then("message")
    /\ UNCHANGED <<ctxVars, iteration, findings, run, storeVars, pushed>>

TriggerPush ==
    /\ pc = "push"
    /\ pushed' = TRUE
    /\ Then("done")
    /\ UNCHANGED <<ctxVars, iteration, findings, run, storeVars, detected>>

\* Any injected callable may raise, and a query with PKM markers does; the
\* exception leaves the workflow.
Raise ==
    /\ \/ pc \in Calls \ {"cooperate"} /\ UNCHANGED ctxVars
       \/ pc = "cooperate" /\ CooperateRaise
    /\ Then("failed")
    /\ UNCHANGED <<iteration, findings, run, storeVars, detected, pushed>>

\* The engine runs the workflow again, with a new context and new locals.
RunAgain ==
    /\ pc \in {"failed", "cancelled"} /\ run < MaxRuns
    /\ run' = run + 1
    /\ NewContext
    /\ iteration' = 0 /\ findings' = {} /\ detected' = FALSE /\ pushed' = FALSE
    /\ Then("record")
    /\ UNCHANGED storeVars

Workflow == \/ WriteRecord \/ CallModel \/ WriteFinding \/ NextIteration \/ InsideCooperate
            \/ Cancelled \/ MarkComplete \/ TriggerDetection \/ TriggerPush

Engine == /\ pc \notin Ended
          /\ Preempt \/ WaitForCheckpoint \/ Resume
          /\ UNCHANGED <<pc, iteration, findings, run, storeVars, detected, pushed>>

Finished == pc \in Ended /\ UNCHANGED vars

Next == Workflow \/ Raise \/ RunAgain \/ Engine \/ Finished

Spec == Init /\ [][Next]_vars

\* The workflow's thread keeps running; nobody has to preempt or to resume.
FairSpec == Spec /\ WF_vars(Workflow)
-----------------------------------------------------------------------------
(* Properties                                                               *)

\* preemption.py:95-106.  Once wait_for_checkpoint has confirmed the checkpoint,
\* the workflow stays where it paused, with its state saved, until resume() is
\* called: work of higher priority has the model to itself.
ConfirmedMeansPaused == confirmed /\ ~resume => pc = "cooperate" /\ side = "paused"

\* commissioned_inquiry.py:352-354.  Wherever the run is paused, cancelled or
\* raises, the memory server has the finding of every iteration it got through.
PartialWorkKept ==
    \A i \in 0..MaxIterations :
        i < iteration \/ (i = iteration /\ pc \in {"cooperate", "cancelled"})
        => Finding(i) \in stored

\* A completed record counts the findings of one whole run, although findings of
\* failed runs lie beside them, and is never the record of a run cut short; detection
\* and the push of a run (384-386) see no other record.
CompletedIsWhole ==
    /\ detected \/ pushed => record = "completed"
    /\ record = "completed" =>
         /\ reported = MaxIterations
         /\ \E r \in 1..run : Cardinality({f \in stored : f.run = r}) = reported

\* preemption.py:108-114.  Once resume() has been called, before or after
\* cooperate() begins to wait, the workflow does not hang.
ResumedRunEnds == resume ~> (pc \in Ended)
=============================================================================
