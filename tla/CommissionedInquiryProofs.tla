---------------------- MODULE CommissionedInquiryProofs ----------------------
(***************************************************************************)
(* What holds of a commissioned inquiry for any number of iterations and   *)
(* runs: a confirmed checkpoint means a paused workflow, partial work is   *)
(* kept, and a completed record is whole.                                  *)
(***************************************************************************)
EXTENDS CommissionedInquiry, FiniteSetTheorems, TLAPS

Ending == {"summary", "complete", "detect", "message", "push", "done"}
InLoop == {"query", "context", "finding", "write"}

\* The thread is in cooperate() only at the cooperation point, and a checkpoint that
\* is done has not been left without a resume.
Handshake ==
    /\ side # "out" => pc = "cooperate"
    /\ confirmed => checkpointDone
    /\ checkpointDone /\ ~resume => side = "paused"

\* The local findings are those of the iterations so far, each of which is stored.
Loop ==
    /\ iteration \in Nat /\ run \in Nat \ {0}
    /\ pc \in Calls \cup Ended
    /\ pc = "record" => iteration = 0 /\ findings = {}
    /\ pc \in InLoop => iteration < MaxIterations /\ findings = 0..(iteration - 1)
    /\ pc \in {"cooperate", "cancelled"} =>
         iteration < MaxIterations /\ findings = 0..iteration
    /\ pc \in Ending => findings = 0..(MaxIterations - 1)
    /\ \A i \in 0..(iteration - 1) : i \in findings
    /\ findings \subseteq Nat
    /\ {f \in stored : f.run = run} = {Finding(i) : i \in findings}
    /\ \A f \in stored : f.run \in 1..run

\* Detection and push come after completion, and a completed record is touched by a rerun
\* only when it is written as active.
Completion ==
    /\ pc \in {"detect", "message", "push", "done"} => record = "completed"
    /\ detected \/ pushed => record = "completed" /\ pc \in {"message", "push", "done", "failed"}
    /\ record = "completed" => pc \in {"record", "detect", "message", "push", "done", "failed"}
    /\ CompletedIsWhole

IInv == Handshake /\ Loop /\ Completion

-----------------------------------------------------------------------------
LEMMA InitIInv == Init => IInv
  BY BoundsAssumption
     DEF Init, CtxInit, IInv, Handshake, Loop, Completion, CompletedIsWhole, Calls, Ended, InLoop,
         Ending, Finding

LEMMA NextHandshake == Handshake /\ [Next]_vars => Handshake'
  <1> SUFFICES ASSUME Handshake, [Next]_vars PROVE Handshake'
    OBVIOUS
  <1> USE DEF Handshake, ctxVars
  <1>1. CASE WriteRecord
    BY <1>1 DEF WriteRecord, Then
  <1>2. CASE CallModel
    BY <1>2 DEF CallModel, Then, NextCall
  <1>3. CASE WriteFinding
    BY <1>3 DEF WriteFinding, Then
  <1>4. CASE NextIteration
    BY <1>4 DEF NextIteration, CooperateNoop, CooperateReturn, Then
  <1>5. CASE InsideCooperate
    BY <1>5 DEF InsideCooperate, CooperateCheckpoint, CooperatePause, CooperateWake
  <1>6. CASE Cancelled
    BY <1>6 DEF Cancelled, CooperateCancel, Then
  <1>7. CASE MarkComplete \/ TriggerDetection \/ TriggerPush
    BY <1>7 DEF MarkComplete, TriggerDetection, TriggerPush, Then
  <1>8. CASE Raise
    BY <1>8 DEF Raise, CooperateRaise, Then
  <1>9. CASE RunAgain
    BY <1>9 DEF RunAgain, NewContext, Then
  <1>10. CASE Engine
    BY <1>10 DEF Engine, Preempt, WaitForCheckpoint, Resume
  <1>11. CASE UNCHANGED vars
    BY <1>11 DEF vars
  <1> QED BY <1>1, <1>2, <1>3, <1>4, <1>5, <1>6, <1>7, <1>8, <1>9, <1>10, <1>11
          DEF Next, Workflow, Finished

\* The steps that leave the loop's variables alone.
LEMMA LoopStays ==
    ASSUME Loop, UNCHANGED <<iteration, findings, run, stored>>,
           \/ pc' = pc
           \/ pc \in InLoop /\ pc' \in InLoop
           \/ pc \in Ending /\ pc' \in Ending
           \/ pc' = "failed"
           \/ pc = "cooperate" /\ pc' = "cancelled"
    PROVE  Loop'
  BY DEF Loop, InLoop, Ending, Calls, Ended, Finding

LEMMA NextLoop == Loop /\ [Next]_vars => Loop'
  <1> SUFFICES ASSUME Loop, [Next]_vars PROVE Loop'
    OBVIOUS
  <1> USE BoundsAssumption
  <1>1. CASE WriteRecord
    <2>1. iteration = 0 /\ findings = {}
      BY <1>1 DEF WriteRecord, Loop
    <2> QED BY <1>1, <2>1
            DEF WriteRecord, Then, LoopTest, Loop, InLoop, Ending, Calls, Ended, Finding
  <1>2. CASE CallModel
    <2>1. \/ pc \in InLoop /\ pc' \in InLoop
          \/ pc \in Ending /\ pc' \in Ending
      BY <1>2 DEF CallModel, Then, NextCall, InLoop, Ending
    <2> QED BY <1>2, <2>1, LoopStays DEF CallModel, storeVars
  <1>3. CASE WriteFinding
    <2>1. /\ pc = "write" /\ pc' = "cooperate" /\ findings' = findings \cup {iteration}
          /\ stored' = stored \cup {Finding(iteration)} /\ UNCHANGED <<iteration, run>>
      BY <1>3 DEF WriteFinding, Then
    <2>2. findings' = 0..iteration /\ iteration < MaxIterations /\ iteration \in Nat
      BY <2>1 DEF Loop, InLoop
    <2>3. {f \in stored' : f.run = run} = {Finding(i) : i \in findings'}
      BY <2>1 DEF Loop, Finding
    <2>4. \A f \in stored' : f.run \in 1..run
      BY <2>1 DEF Loop, Finding
    <2>5. {Finding(i) : i \in findings}' = {Finding(i) : i \in findings'}
      BY <2>1 DEF Finding
    <2> QED BY <2>1, <2>2, <2>3, <2>4, <2>5 DEF Loop, InLoop, Ending, Calls, Ended
  <1>4. CASE NextIteration
    <2>1. /\ pc = "cooperate" /\ pc' = LoopTest(iteration + 1) /\ iteration' = iteration + 1
          /\ UNCHANGED <<findings, run, stored>>
      BY <1>4 DEF NextIteration, Then, storeVars
    <2>2. iteration \in Nat /\ iteration < MaxIterations /\ findings = 0..iteration
      BY <2>1 DEF Loop
    <2>3. findings = 0..(iteration' - 1)
      BY <2>1, <2>2
    <2>4. {Finding(i) : i \in findings}' = {Finding(i) : i \in findings}
      BY <2>1 DEF Finding
    <2>5. CASE iteration' < MaxIterations
      BY <2>1, <2>2, <2>3, <2>4, <2>5 DEF Loop, LoopTest, InLoop, Ending, Calls
    <2>6. CASE ~(iteration' < MaxIterations)
      <3>1. pc' = "summary" /\ iteration' = MaxIterations
        BY <2>1, <2>2, <2>6 DEF LoopTest
      <3> QED BY <2>1, <2>2, <2>3, <2>4, <3>1 DEF Loop, InLoop, Ending, Calls
    <2> QED BY <2>5, <2>6
  <1>5. CASE InsideCooperate \/ Cancelled
    BY <1>5, LoopStays DEF InsideCooperate, Cancelled, Then, storeVars
  <1>6. CASE MarkComplete \/ TriggerDetection \/ TriggerPush
    BY <1>6, LoopStays DEF MarkComplete, TriggerDetection, TriggerPush, Then, storeVars, Ending
  <1>7. CASE Raise
    BY <1>7, LoopStays DEF Raise, Then, storeVars
  <1>8. CASE RunAgain
    <2>1. /\ run' = run + 1 /\ iteration' = 0 /\ findings' = {} /\ pc' = "record"
          /\ stored' = stored
      BY <1>8 DEF RunAgain, Then, storeVars
    <2>2. \A f \in stored : f.run \in 1..run
      BY DEF Loop
    <2>3. run \in Nat \ {0}
      BY DEF Loop
    <2>4. {f \in stored' : f.run = run'} = {}
      BY <2>1, <2>2, <2>3
    <2> QED BY <2>1, <2>2, <2>3, <2>4 DEF Loop, InLoop, Ending, Calls
  <1>9. CASE Engine
    BY <1>9, LoopStays DEF Engine, storeVars
  <1>10. CASE UNCHANGED vars
    BY <1>10, LoopStays DEF vars, storeVars
  <1> QED BY <1>1, <1>2, <1>3, <1>4, <1>5, <1>6, <1>7, <1>8, <1>9, <1>10
          DEF Next, Workflow, Finished

\* There are as many findings in the memory server as iterations were made.
LEMMA FindingsCount ==
    ASSUME Loop, findings = 0..(MaxIterations - 1)
    PROVE  /\ Cardinality(findings) = MaxIterations
           /\ Cardinality({f \in stored : f.run = run}) = MaxIterations
  <1> DEFINE S == {Finding(i) : i \in findings}
             g == [i \in findings |-> Finding(i)]
  <1>1. IsFiniteSet(findings) /\ Cardinality(findings) = MaxIterations
    BY FS_Interval, BoundsAssumption
  <1>2. g \in Bijection(findings, S)
    <2>1. \A i, j \in findings : Finding(i) = Finding(j) => i = j
      BY DEF Finding
    <2>2. g \in [findings -> S] /\ \A i \in findings : g[i] = Finding(i)
      OBVIOUS
    <2>3. g \in Injection(findings, S)
      BY <2>1, <2>2 DEF Injection, IsInjective
    <2>4. g \in Surjection(findings, S)
      BY <2>2 DEF Surjection
    <2> QED BY <2>3, <2>4 DEF Bijection
  <1>3. Cardinality(S) = Cardinality(findings)
    <2>1. ExistsBijection(findings, S)
      BY <1>2 DEF ExistsBijection
    <2> QED BY <1>1, <2>1, FS_Bijection
  <1> QED BY <1>1, <1>3 DEF Loop

LEMMA NextCompletion == Loop /\ Completion /\ [Next]_vars => Completion'
  <1> SUFFICES ASSUME Loop, Completion, [Next]_vars PROVE Completion'
    OBVIOUS
  <1> USE DEF Completion, CompletedIsWhole, storeVars
  <1>0. run \in Nat \ {0}
    BY DEF Loop
  <1>1. CASE WriteRecord
    BY <1>1 DEF WriteRecord, Then, LoopTest
  <1>2. CASE CallModel
    BY <1>2 DEF CallModel, Then, NextCall
  <1>3. CASE WriteFinding
    BY <1>3 DEF WriteFinding, Then
  <1>4. CASE NextIteration
    BY <1>4 DEF NextIteration, Then, LoopTest
  <1>5. CASE InsideCooperate \/ Cancelled
    <2>1. CASE InsideCooperate
      BY <2>1 DEF InsideCooperate
    <2>2. CASE Cancelled
      BY <2>2 DEF Cancelled, Then
    <2> QED BY <1>5, <2>1, <2>2
  <1>6. CASE MarkComplete
    <2>1. findings = 0..(MaxIterations - 1)
      BY <1>6 DEF MarkComplete, Loop, Ending
    <2>2. /\ Cardinality(findings) = MaxIterations
          /\ Cardinality({f \in stored : f.run = run}) = MaxIterations
      BY <2>1, FindingsCount
    <2>3. /\ record' = "completed" /\ reported' = MaxIterations /\ pc' = "detect"
          /\ stored' = stored /\ run' = run /\ detected' = detected /\ pushed' = pushed
      BY <1>6, <2>2 DEF MarkComplete, Then
    <2>4. ~detected /\ ~pushed
      BY <1>6 DEF MarkComplete
    <2>5. \E r \in 1..run' : Cardinality({f \in stored' : f.run = r}) = reported'
      <3>1. run \in 1..run'
        BY <1>0, <2>3
      <3>2. {f \in stored' : f.run = run} = {f \in stored : f.run = run}
        BY <2>3
      <3> QED BY <2>2, <2>3, <3>1, <3>2
    <2> QED BY <2>3, <2>4, <2>5
  <1>7. CASE TriggerDetection \/ TriggerPush
    BY <1>7 DEF TriggerDetection, TriggerPush, Then
  <1>8. CASE Raise
    BY <1>8 DEF Raise, Then, Calls
  <1>9. CASE RunAgain
    BY <1>0, <1>9 DEF RunAgain, Then
  <1>10. CASE Engine
    BY <1>10 DEF Engine
  <1>11. CASE UNCHANGED vars
    BY <1>11 DEF vars
  <1> QED BY <1>1, <1>2, <1>3, <1>4, <1>5, <1>6, <1>7, <1>8, <1>9, <1>10, <1>11
          DEF Next, Workflow, Finished

LEMMA Inductive == Spec => []IInv
  <1>1. IInv /\ [Next]_vars => IInv'
    BY NextHandshake, NextLoop, NextCompletion DEF IInv
  <1> QED BY InitIInv, <1>1, PTL DEF Spec

-----------------------------------------------------------------------------
\* preemption.py:95-106.  Whoever has seen wait_for_checkpoint return True has the model
\* to itself until it calls resume(), whatever the order of the calls of the two threads.
THEOREM ConfirmationHolds == Spec => []ConfirmedMeansPaused
  <1>1. IInv => ConfirmedMeansPaused
    BY DEF IInv, Handshake, ConfirmedMeansPaused
  <1> QED BY Inductive, <1>1, PTL

\* commissioned_inquiry.py:352-354.  Every iteration a run got through has its finding in the
\* memory server, wherever the run is paused, cancelled or raises.
THEOREM FindingsAreKept == Spec => []PartialWorkKept
  <1>1. IInv => PartialWorkKept
    <2> SUFFICES ASSUME IInv, NEW i \in 0..MaxIterations,
                        i < iteration \/ (i = iteration /\ pc \in {"cooperate", "cancelled"})
                 PROVE  Finding(i) \in stored
      BY DEF PartialWorkKept
    <2>1. i \in findings
      BY BoundsAssumption DEF IInv, Loop
    <2> QED BY <2>1 DEF IInv, Loop
  <1> QED BY Inductive, <1>1, PTL

\* commissioned_inquiry.py:525-552.  A completed record counts one whole run, whatever failed
\* runs have left beside it, and nothing is detected or pushed before it.
THEOREM CompletionIsWhole == Spec => []CompletedIsWhole
  <1>1. IInv => CompletedIsWhole
    BY DEF IInv, Completion
  <1> QED BY Inductive, <1>1, PTL
=============================================================================
