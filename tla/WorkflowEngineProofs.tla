------------------------ MODULE WorkflowEngineProofs ------------------------
(***************************************************************************)
(* Proofs about WorkflowEngine, for every registry and every bound, and    *)
(* about CronSchedule, for every hour, window and time of the day.         *)
(***************************************************************************)
EXTENDS WorkflowEngine, CronSchedule, FiniteSetTheorems, TLAPS

\* What each thread knows of the workflow it is busy with.
CurOK ==
    /\ pc["main"] \in {"check", "hold", "park", "unblock", "release"} => cur["main"] \in Workflow
    /\ pc["main"] = "check" => Specs[cur["main"]].requires \in Workflow
    /\ InHand \/ pc["worker"] \in {"unblock", "release", "chain"} => cur["worker"] \in Workflow
    /\ pc["cron"] \in {"fire", "rearm"} => cur["cron"] \in Triggered("cron")
    /\ armed \subseteq Triggered("cron")

\* The type invariant, with what it needs to be inductive.
TypeInv == TypeOK /\ CurOK

LEMMA InitType == Init => TypeInv
<1> SUFFICES ASSUME Init PROVE TypeInv
  OBVIOUS
<1> USE SpecsAssumption DEF Init
<1>1. pc \in [Thread -> Label] /\ pc["main"] \in MainLabel /\ pc["worker"] \in WorkerLabel
      /\ pc["cron"] \in CronLabel
  BY DEF Thread, Label, MainLabel, WorkerLabel, CronLabel
<1>2. CallOK
  BY DEF CallOK, Call, IdleCall, Step
<1>3. TypeOK
  BY <1>1, <1>2 DEF TypeOK, Lifecycle, Status, Triggered
<1>4. CurOK
  BY DEF CurOK, InHand, Triggered, Thread
<1>5. QED
  BY <1>3, <1>4 DEF TypeInv

\* Entering a submission, and advancing one, keep every call well formed.
LEMMA EnterCall ==
    ASSUME CallOK, NEW t \in Thread, NEW w \in Workflow, NEW s \in Step, Enter(t, s, w)
    PROVE  CallOK'
<1> DEFINE c == [step |-> s, wf |-> w, seq |-> 0]
<1>1. c \in Call /\ c.wf \in Workflow
  BY DEF Call, Step
<1>2. call' = [call EXCEPT ![t] = c]
  BY DEF Enter
<1> HIDE DEF c
<1>3. QED
  BY <1>1, <1>2 DEF CallOK

LEMMA AdvanceCall ==
    ASSUME CallOK, NEW t \in Thread, call[t].step # "idle",
           NEW s \in Step, NEW n \in Nat,
           \/ call' = [call EXCEPT ![t].step = s]
           \/ call' = [call EXCEPT ![t].step = s, ![t].seq = n]
    PROVE  CallOK'
<1> DEFINE c == [call[t] EXCEPT !.step = s]
           d == [call[t] EXCEPT !.step = s, !.seq = n]
<1>1. c \in Call /\ c.wf \in Workflow /\ d \in Call /\ d.wf \in Workflow
  BY DEF CallOK, Call, Step
<1>2. call' = [call EXCEPT ![t] = c] \/ call' = [call EXCEPT ![t] = d]
  BY DEF CallOK
<1> HIDE DEF c, d
<1>3. QED
  BY <1>1, <1>2 DEF CallOK

LEMMA NextType == TypeInv /\ [Next]_vars => TypeInv'
<1> SUFFICES ASSUME TypeInv, [Next]_vars PROVE TypeInv'
  OBVIOUS
<1> USE SpecsAssumption DEF TypeInv, TypeOK, CurOK, InHand, Triggered,
        queueVars, lifeVars, runVars, envVars, loopVars, At, Goto
<1>1. ASSUME NEW t \in Thread, Mark(t) PROVE TypeInv'
  <2>1. CallOK'
    BY <1>1, AdvanceCall DEF Mark, Step
  <2>2. QED
    BY <1>1, <2>1 DEF Mark, SetLifecycle, Lifecycle, Resolved
<1>2. ASSUME NEW t \in Thread, TakeSeq(t) PROVE TypeInv'
  <2>1. CallOK'
    BY <1>2, AdvanceCall DEF TakeSeq, Step
  <2>2. QED
    BY <1>2, <2>1 DEF TakeSeq
<1>3. ASSUME NEW t \in Thread, Put(t) PROVE TypeInv'
  <2>1. CallOK'
    BY <1>3, AdvanceCall DEF Put, Step
  <2>2. QED
    BY <1>3, <2>1 DEF Put, Item, CallOK, Call
<1>4. ASSUME NEW t \in Thread, Signal(t) PROVE TypeInv'
  <2>1. IdleCall \in Call /\ IdleCall.step = "idle"
    BY DEF IdleCall, Call, Step
  <2>2. CallOK'
    BY <1>4, <2>1 DEF Signal, CallOK
  <2>3. QED
    BY <1>4, <2>2 DEF Signal
<1>5. ASSUME NEW t \in Thread, Unblock(t) PROVE TypeInv'
  <2>1. CallOK'
    BY <1>5 DEF Unblock, CallOK
  <2>2. QED
    BY <1>5, <2>1 DEF Unblock, Label, MainLabel, WorkerLabel, CronLabel, Thread
<1>6. ASSUME NEW t \in Thread, Release(t) PROVE TypeInv'
  <2>1. PICK w \in todo[t] : Enter(t, "mark", w) /\ todo' = [todo EXCEPT ![t] = todo[t] \ {w}]
    BY <1>6 DEF Release
  <2>2. CallOK'
    BY <2>1, EnterCall DEF Step
  <2>3. QED
    BY <1>6, <2>1, <2>2 DEF Release
<1>7. CASE EvaluateStartup
  <2>1. PICK w \in First(left), met \in BOOLEAN : 
           /\ Evaluate(w, met)
           /\ left' = left \ {w}
           /\ cur' = [cur EXCEPT !["main"] = w]
    BY <1>7 DEF EvaluateStartup
  <2>2. w \in left /\ w \in Workflow /\ "main" \in Thread
    BY DEF First, Thread
  <2>3. CASE met /\ Specs[w].requires = None
    <3>1. Enter("main", "mark", w) /\ UNCHANGED <<lifeVars, pc>>
      BY <2>1, <2>3 DEF Evaluate
    <3>2. CallOK'
      BY <2>2, <3>1, EnterCall DEF Step
    <3>3. QED
      BY <1>7, <2>1, <2>2, <3>1, <3>2 DEF EvaluateStartup, Thread, Label, MainLabel, WorkerLabel, CronLabel
  <2>4. CASE met /\ Specs[w].requires # None
    <3>1. Goto("main", "check") /\ UNCHANGED <<lifeVars, call>>
      BY <2>1, <2>4 DEF Evaluate
    <3>2. Specs[w].requires \in Workflow
      BY <2>2, <2>4 DEF WorkflowSpec
    <3>3. QED
      BY <1>7, <2>1, <2>2, <3>1, <3>2 DEF EvaluateStartup, CallOK, Thread, Label, MainLabel, WorkerLabel, CronLabel
  <2>5. CASE ~met
    <3>1. SetLifecycle(w, "not_needed") /\ Goto("main", "unblock") /\ UNCHANGED call
      BY <2>1, <2>5 DEF Evaluate
    <3>2. lifecycle' \in [Workflow -> Lifecycle] /\ resolved' \in SUBSET Workflow
      BY <2>2, <3>1 DEF SetLifecycle, Lifecycle, Resolved
    <3>3. QED
      BY <1>7, <2>1, <2>2, <3>1, <3>2 DEF EvaluateStartup, CallOK, Thread, Label, MainLabel, WorkerLabel, CronLabel
  <2>6. QED
    BY <2>3, <2>4, <2>5
<1>8. CASE CheckPrerequisite
  <2>1. CallOK'
    BY <1>8, EnterCall DEF CheckPrerequisite, Step, CallOK, Thread
  <2>2. QED
    BY <1>8, <2>1 DEF CheckPrerequisite, Thread, Label, MainLabel, WorkerLabel, CronLabel
<1>9. CASE HoldBack
  BY <1>9 DEF CallOK, HoldBack, Thread, Label, MainLabel, WorkerLabel, CronLabel, SetLifecycle, Lifecycle
<1>10. CASE Park
  BY <1>10 DEF CallOK, Park, Thread, Label, MainLabel, WorkerLabel, CronLabel
<1>11. CASE Unblocked
  BY <1>11 DEF CallOK, Unblocked, Thread, Label, MainLabel, WorkerLabel, CronLabel
<1>12. CASE FinishStart
  BY <1>12 DEF CallOK, FinishStart, Thread, Label, MainLabel, WorkerLabel, CronLabel
<1>13. CASE Shutdown
  BY <1>13 DEF CallOK, Shutdown, Thread, Label, MainLabel, WorkerLabel, CronLabel
<1>14. CASE FireCron
  <2>1. CallOK'
    BY <1>14, EnterCall DEF FireCron, Step, CallOK, Thread
  <2>2. QED
    BY <1>14, <2>1 DEF FireCron, Thread, Label, MainLabel, WorkerLabel, CronLabel
<1>15. CASE Rearm
  BY <1>15 DEF CallOK, Rearm, Thread, Label, MainLabel, WorkerLabel, CronLabel, NextEvent
<1>16. CASE StopCron
  BY <1>16 DEF CallOK, StopCron, Thread, Label, MainLabel, WorkerLabel, CronLabel
<1>17. CASE Poll
  BY <1>17 DEF CallOK, Poll, Thread, Label, MainLabel, WorkerLabel, CronLabel, LoopTest
<1>18. CASE GetItem
  BY <1>18 DEF CallOK, GetItem, Thread, Label, MainLabel, WorkerLabel, CronLabel, Item
<1>19. CASE GetTimeout
  BY <1>19 DEF CallOK, GetTimeout, Thread, Label, MainLabel, WorkerLabel, CronLabel
<1>20. CASE Begin
  BY <1>20 DEF CallOK, Begin, Thread, Label, MainLabel, WorkerLabel, CronLabel, SetLifecycle, Lifecycle, Resolved
<1>21. CASE Activate
  BY <1>21 DEF CallOK, Activate, Thread, Label, MainLabel, WorkerLabel, CronLabel
<1>22. CASE Run
  <2>1. CallOK'
    BY <1>22, EnterCall DEF Run, Step, CallOK, Thread
  <2>2. QED
    BY <1>22, <2>1 DEF Run, Thread, Label, MainLabel, WorkerLabel, CronLabel, Status
<1>23. CASE Deactivate
  BY <1>23 DEF CallOK, Deactivate, Thread, Label, MainLabel, WorkerLabel, CronLabel
<1>24. CASE Record
  BY <1>24 DEF CallOK, Record, Thread, Label, MainLabel, WorkerLabel, CronLabel, SetLifecycle, Lifecycle, Outcome, AfterRun, Status
<1>25. CASE StartChain
  BY <1>25 DEF CallOK, StartChain, Thread, Label, MainLabel, WorkerLabel, CronLabel
<1>26. CASE ChainOne
  <2>1. CallOK'
    BY <1>26, EnterCall DEF ChainOne, Step, CallOK, First, Thread
  <2>2. QED
    BY <1>26, <2>1 DEF ChainOne, First, Thread
<1>27. CASE FinishChain
  BY <1>27 DEF CallOK, FinishChain, Thread, Label, MainLabel, WorkerLabel, CronLabel
<1>28. ASSUME NEW w \in Workflow, Request(w) PROVE TypeInv'
  <2>1. CallOK'
    BY <1>28, EnterCall DEF Request, Step, Thread
  <2>2. QED
    BY <1>28, <2>1 DEF Request
<1>29. ASSUME NEW w \in Workflow, Due(w) PROVE TypeInv'
  BY <1>29 DEF CallOK, Due, Thread, Label, MainLabel, WorkerLabel, CronLabel
<1>30. CASE UNCHANGED vars
  BY <1>30 DEF vars, CallOK
<1>31. QED
  BY <1>1, <1>2, <1>3, <1>4, <1>5, <1>6, <1>7, <1>8, <1>9, <1>10, <1>11, <1>12, <1>13, <1>14, <1>15, <1>16, <1>17, <1>18, <1>19, <1>20, <1>21, <1>22, <1>23, <1>24, <1>25, <1>26, <1>27, <1>28, <1>29, <1>30 DEF Next, Main, Worker, Cron,
     Environment, Submission, Terminated, Thread

\* engine.py: whatever the interleaving of the three threads, every variable of
\* the engine keeps its type and each thread stays inside its own code.
THEOREM TypeCorrect == Spec => []TypeOK
<1>1. TypeInv => TypeOK
  BY DEF TypeInv
<1>2. QED
  BY InitType, NextType, <1>1, PTL DEF Spec

-----------------------------------------------------------------------------
(* Prerequisites                                                            *)

\* w may be on its way to the worker.
MayGo(w) == Specs[w].trigger = "startup" /\ Specs[w].requires # None
            => Specs[w].requires \in resolved

\* PrerequisitesEnforced says nothing of the workflows a thread has just taken
\* out of _waiting and will enqueue, nor why they may be: the history contains
\* every workflow whose lifecycle is resolved.
PrereqInv ==
    /\ \A x \in queue : MayGo(x.wf)
    /\ \A t \in Thread : call[t].step # "idle" => MayGo(call[t].wf)
    /\ InHand => MayGo(cur["worker"])
    /\ \A t \in Thread : pc[t] = "release" => \A w \in todo[t] : MayGo(w)
    /\ pc["worker"] = "chain" => \A w \in todo["worker"] : Specs[w].trigger = "completed"
    /\ \A r \in Workflow : lifecycle[r] \in Resolved => r \in resolved

LEMMA InitPrereq == Init => PrereqInv
  BY DEF Init, PrereqInv, InHand, Thread, IdleCall, Resolved

\* The history only grows, so MayGo is stable.
LEMMA ResolvedGrows == TypeInv /\ [Next]_vars => resolved \subseteq resolved'
  BY DEF Next, Main, Worker, Cron, Environment, Submission, Terminated, vars, lifeVars,
     Mark, TakeSeq, Put, Signal, Unblock, Release, EvaluateStartup, Evaluate, CheckPrerequisite,
     HoldBack, Park, Unblocked, FinishStart, Shutdown, FireCron, Rearm, StopCron, Poll, GetItem,
     GetTimeout, Begin, Activate, Run, Deactivate, Record, StartChain, ChainOne, FinishChain,
     Request, Due, SetLifecycle

\* Setting one lifecycle keeps the history complete.
LEMMA SetLifecycleHistory ==
    ASSUME TypeInv, PrereqInv, NEW w \in Workflow, NEW s \in Lifecycle, SetLifecycle(w, s)
    PROVE  \A r \in Workflow : lifecycle'[r] \in Resolved => r \in resolved'
  BY DEF TypeInv, TypeOK, PrereqInv, SetLifecycle

LEMMA NextPrereq == TypeInv /\ PrereqInv /\ [Next]_vars => PrereqInv'
<1> SUFFICES ASSUME TypeInv, PrereqInv, [Next]_vars PROVE PrereqInv'
  OBVIOUS
<1>0. resolved \subseteq resolved' /\ TypeInv'
  BY ResolvedGrows, NextType
<1> DEFINE Kept == \A r \in Workflow : lifecycle'[r] \in Resolved => r \in resolved'
<1> USE SpecsAssumption, <1>0 DEF TypeInv, TypeOK, CallOK, CurOK, PrereqInv, MayGo, InHand,
        queueVars, lifeVars, runVars, envVars, loopVars, At, Goto
<1>1. ASSUME NEW t \in Thread, Mark(t) PROVE PrereqInv'
  <2>1. Kept
    BY <1>1, SetLifecycleHistory DEF Mark, Lifecycle
  <2>2. QED
    BY <1>1, <2>1 DEF Mark, SetLifecycle
<1>2. ASSUME NEW t \in Thread, TakeSeq(t) PROVE PrereqInv'
  BY <1>2 DEF TakeSeq, Thread
<1>3. ASSUME NEW t \in Thread, Put(t) PROVE PrereqInv'
  BY <1>3 DEF Put, Thread
<1>4. ASSUME NEW t \in Thread, Signal(t) PROVE PrereqInv'
  BY <1>4 DEF Signal, IdleCall
<1>5. ASSUME NEW t \in Thread, Unblock(t) PROVE PrereqInv'
  <2>1. t \in {"main", "worker"} /\ cur[t] \in Workflow
    BY <1>5 DEF Unblock, Thread, CronLabel
  <2>2. \A w \in todo'[t] : MayGo(w)
    BY <1>5, <2>1 DEF Unblock, IsResolved
  <2>3. QED
    BY <1>5, <2>2 DEF Unblock
<1>6. ASSUME NEW t \in Thread, Release(t) PROVE PrereqInv'
  BY <1>6 DEF Release, Enter
<1>7. CASE EvaluateStartup
  <2>1. PICK w \in First(left), met \in BOOLEAN : Evaluate(w, met)
    BY <1>7 DEF EvaluateStartup
  <2>2. w \in Workflow
    BY DEF First
  <2>3. CASE met /\ Specs[w].requires = None
    BY <1>7, <2>1, <2>2, <2>3 DEF EvaluateStartup, Evaluate, Enter, Thread
  <2>4. CASE met /\ Specs[w].requires # None
    BY <1>7, <2>1, <2>2, <2>4 DEF EvaluateStartup, Evaluate, Thread
  <2>5. CASE ~met
    <3>1. Kept
      BY <2>1, <2>2, <2>5, SetLifecycleHistory DEF Evaluate, Lifecycle
    <3>2. QED
      BY <1>7, <2>1, <2>2, <2>5, <3>1 DEF EvaluateStartup, Evaluate, Thread
  <2>6. QED
    BY <2>3, <2>4, <2>5
<1>8. CASE CheckPrerequisite
  <2>1. CASE IsResolved(Specs[cur["main"]].requires)
    <3>1. MayGo(cur["main"]) /\ cur["main"] \in Workflow
      BY <1>8, <2>1 DEF CheckPrerequisite, IsResolved
    <3>2. QED
      BY <1>8, <2>1, <3>1 DEF CheckPrerequisite, Enter, Thread
  <2>2. CASE ~IsResolved(Specs[cur["main"]].requires)
    BY <1>8, <2>2 DEF CheckPrerequisite, Thread
  <2>3. QED
    BY <2>1, <2>2
<1>9. CASE HoldBack
  <2>1. Kept
    BY <1>9, SetLifecycleHistory DEF HoldBack, Lifecycle
  <2>2. QED
    BY <1>9, <2>1 DEF HoldBack, Thread, AfterRun, SetLifecycle
<1>10. CASE Park
  BY <1>10 DEF Park, Thread
<1>11. CASE Unblocked
  BY <1>11 DEF Unblocked, Thread
<1>12. CASE FinishStart
  BY <1>12 DEF FinishStart, Thread
<1>13. CASE Shutdown
  BY <1>13 DEF Shutdown, Thread
<1>14. CASE FireCron
  BY <1>14 DEF FireCron, Enter, Triggered, Thread
<1>15. CASE Rearm
  BY <1>15 DEF Rearm, Thread
<1>16. CASE StopCron
  BY <1>16 DEF StopCron, Thread
<1>17. CASE Poll
  BY <1>17 DEF Poll, LoopTest, Thread
<1>18. CASE GetItem
  BY <1>18 DEF GetItem, Thread
<1>19. CASE GetTimeout
  BY <1>19 DEF GetTimeout, Thread
<1>20. CASE Begin
  <2>1. Kept
    BY <1>20, SetLifecycleHistory DEF Begin, Lifecycle
  <2>2. QED
    BY <1>20, <2>1 DEF Begin, Thread, AfterRun, SetLifecycle
<1>21. CASE Activate
  BY <1>21 DEF Activate, Thread
<1>22. CASE Run
  BY <1>22 DEF Run, Enter, Thread
<1>23. CASE Deactivate
  BY <1>23 DEF Deactivate, Thread
<1>24. CASE Record
  <2>1. Kept
    BY <1>24, SetLifecycleHistory DEF Record, Lifecycle, Outcome, Status
  <2>2. QED
    BY <1>24, <2>1 DEF Record, Thread, AfterRun, SetLifecycle
<1>25. CASE StartChain
  BY <1>25 DEF StartChain, Thread
<1>26. CASE ChainOne
  BY <1>26 DEF ChainOne, Enter, First, Thread
<1>27. CASE FinishChain
  BY <1>27 DEF FinishChain, Thread
<1>28. ASSUME NEW w \in Workflow, Request(w) PROVE PrereqInv'
  BY <1>28 DEF Request, Enter, Thread
<1>29. ASSUME NEW w \in Workflow, Due(w) PROVE PrereqInv'
  BY <1>29 DEF Due, Thread
<1>30. CASE UNCHANGED vars
  BY <1>30 DEF vars
<1>31. QED
  BY <1>1, <1>2, <1>3, <1>4, <1>5, <1>6, <1>7, <1>8, <1>9, <1>10, <1>11, <1>12, <1>13, <1>14, <1>15, <1>16, <1>17, <1>18, <1>19, <1>20, <1>21, <1>22, <1>23, <1>24, <1>25, <1>26, <1>27, <1>28, <1>29, <1>30 DEF Next, Main, Worker, Cron,
     Environment, Submission, Terminated, Thread

\* engine.py:19-22, for every registry: no interleaving of start() with the
\* worker gets a startup workflow to the worker before its prerequisite.
THEOREM PrerequisitesHold == Spec => []PrerequisitesEnforced
<1>1. TypeInv /\ PrereqInv => PrerequisitesEnforced
  BY DEF TypeInv, TypeOK, PrereqInv, MayGo, PrerequisitesEnforced, Enqueued, InCall, Triggered
<1>2. QED
  BY InitType, InitPrereq, NextType, NextPrereq, <1>1, PTL DEF Spec

-----------------------------------------------------------------------------
(* The steps of one thread                                                  *)

\* What a thread's step leaves alone: the places and locals of the others, and most of what
\* other threads write.
LEMMA MainFrame ==
    ASSUME TypeInv, Main \/ Shutdown \/ \E w \in Workflow : Request(w)
    PROVE  /\ \A t \in {"worker", "cron"} :
                pc'[t] = pc[t] /\ cur'[t] = cur[t] /\ todo'[t] = todo[t] /\ call'[t] = call[t]
           /\ UNCHANGED <<active, status, runs>>
<1> USE DEF TypeInv, TypeOK, CallOK, Thread, At, Goto, Enter, queueVars, lifeVars, runVars, envVars,
            loopVars
<1>1. CASE Submission("main")
  BY <1>1 DEF Submission, Mark, TakeSeq, Put, Signal, Unblock, Release
<1>2. CASE EvaluateStartup
  BY <1>2 DEF EvaluateStartup, Evaluate
<1>3. CASE CheckPrerequisite \/ HoldBack \/ Park \/ Unblocked \/ FinishStart \/ Shutdown
  BY <1>3 DEF CheckPrerequisite, HoldBack, Park, Unblocked, FinishStart, Shutdown
<1>4. CASE \E w \in Workflow : Request(w)
  BY <1>4 DEF Request
<1> QED
  BY <1>1, <1>2, <1>3, <1>4 DEF Main

LEMMA WorkerFrame ==
    ASSUME TypeInv, Worker
    PROVE  /\ \A t \in {"main", "cron"} :
                pc'[t] = pc[t] /\ cur'[t] = cur[t] /\ todo'[t] = todo[t] /\ call'[t] = call[t]
           /\ UNCHANGED <<shutdown, armed, left>>
<1> USE DEF TypeInv, TypeOK, CallOK, Thread, At, Goto, Enter, queueVars, lifeVars, runVars, envVars,
            loopVars
<1>1. CASE Submission("worker")
  BY <1>1 DEF Submission, Mark, TakeSeq, Put, Signal, Unblock, Release
<1>2. CASE Poll \/ GetItem \/ GetTimeout \/ Begin \/ Activate \/ Deactivate
  BY <1>2 DEF Poll, GetItem, GetTimeout, Begin, Activate, Deactivate
<1>3. CASE Run
  BY <1>3 DEF Run
<1>4. CASE Record \/ StartChain \/ FinishChain
  BY <1>4 DEF Record, StartChain, FinishChain
<1>5. CASE ChainOne
  BY <1>5 DEF ChainOne
<1> QED
  BY <1>1, <1>2, <1>3, <1>4, <1>5 DEF Worker

LEMMA CronFrame ==
    ASSUME TypeInv, Cron \/ \E w \in Workflow : Due(w)
    PROVE  /\ \A t \in {"main", "worker"} :
                pc'[t] = pc[t] /\ cur'[t] = cur[t] /\ todo'[t] = todo[t] /\ call'[t] = call[t]
           /\ UNCHANGED <<waiting, active, shutdown, left, status, runs>>
<1> USE DEF TypeInv, TypeOK, CallOK, Thread, At, Goto, Enter, queueVars, lifeVars, runVars, envVars,
            loopVars, CurOK
<1>1. CASE Submission("cron")
  BY <1>1 DEF Submission, Mark, TakeSeq, Put, Signal, Unblock, Release, CronLabel
<1>2. CASE FireCron \/ Rearm \/ StopCron
  BY <1>2 DEF FireCron, Rearm, StopCron
<1>3. CASE \E w \in Workflow : Due(w)
  BY <1>3 DEF Due
<1> QED
  BY <1>1, <1>2, <1>3 DEF Cron

\* Every step is one thread's.
LEMMA StepOf ==
    ASSUME [Next]_vars
    PROVE  \/ Main \/ Shutdown \/ \E w \in Workflow : Request(w)
           \/ Worker
           \/ Cron \/ \E w \in Workflow : Due(w)
           \/ UNCHANGED vars
BY DEF Next, Environment, Terminated

-----------------------------------------------------------------------------
(* Cron events                                                              *)

LEMMA NextCron == TypeInv /\ CronStaysScheduled /\ [Next]_vars => CronStaysScheduled'
<1> SUFFICES ASSUME TypeInv, CronStaysScheduled, [Next]_vars PROVE CronStaysScheduled'
  OBVIOUS
<1> USE DEF CronStaysScheduled, At, Goto, Thread, TypeInv, TypeOK
<1>1. CASE Worker
  BY <1>1, WorkerFrame
<1>2. CASE Main \/ Shutdown \/ \E w \in Workflow : Request(w)
  <2>1. CASE FinishStart
    BY <2>1 DEF FinishStart
  <2>2. CASE Shutdown
    BY <2>2 DEF Shutdown
  <2>3. UNCHANGED <<pc["cron"], cur["cron"]>>
    BY <1>2, MainFrame
  <2>4. CASE \E w \in Workflow : Request(w)
    BY <2>3, <2>4 DEF Request
  <2>5. CASE Submission("main")
    BY <2>3, <2>5 DEF Submission, Mark, TakeSeq, Put, Signal, Unblock, Release, envVars, loopVars
  <2>6. CASE EvaluateStartup \/ CheckPrerequisite \/ HoldBack \/ Park \/ Unblocked
    BY <2>3, <2>6 DEF EvaluateStartup, Evaluate, CheckPrerequisite, HoldBack, Park, Unblocked, envVars
  <2> QED
    BY <1>2, <2>1, <2>2, <2>4, <2>5, <2>6 DEF Main
<1>3. CASE Cron \/ \E w \in Workflow : Due(w)
  <2>1. pc'["main"] = pc["main"] /\ shutdown' = shutdown
    BY <1>3, CronFrame
  <2>2. CASE Submission("cron")
    BY <2>1, <2>2 DEF Submission, Mark, TakeSeq, Put, Signal, Unblock, Release, envVars, CurOK
  <2>3. CASE FireCron \/ Rearm \/ StopCron
    BY <2>1, <2>3 DEF FireCron, Rearm, StopCron, envVars, NextEvent
  <2>4. ASSUME NEW w \in Workflow, Due(w) PROVE CronStaysScheduled'
    BY <2>1, <2>4 DEF Due
  <2> QED
    BY <1>3, <2>2, <2>3, <2>4 DEF Cron
<1>4. CASE UNCHANGED vars
  BY <1>4 DEF vars, envVars
<1> QED
  BY <1>1, <1>2, <1>3, <1>4, StepOf

\* engine.py:453-464.  For every registry, a cron workflow that start() has scheduled is never
\* dropped: it has an event to come or is being fired, until shutdown.
THEOREM CronGoesOn == Spec => []CronStaysScheduled
<1>1. Init => CronStaysScheduled
  BY DEF Init, CronStaysScheduled, Thread
<1> QED
  BY InitType, NextType, <1>1, NextCron, PTL DEF Spec

-----------------------------------------------------------------------------
(* The lifecycle of a running workflow                                      *)

\* The startup workflows that have not been submitted, by who keeps them: the main thread's
\* loop, its hand, the set _waiting, and what a thread has taken out of that.
InHandOfMain == IF pc["main"] \in {"check", "hold", "park"} THEN {cur["main"]} ELSE {}
Releasing(t) == IF pc[t] = "release" THEN todo[t] ELSE {}
Marking(t) == IF call[t].step = "mark" THEN {call[t].wf} ELSE {}

Keeper == {"loop", "hand", "waiting", "main", "worker", "markMain", "markWorker"}
KeptBy(k) == CASE k = "loop" -> left
               [] k = "hand" -> InHandOfMain
               [] k = "waiting" -> waiting
               [] k = "main" -> Releasing("main")
               [] k = "worker" -> Releasing("worker")
               [] k = "markMain" -> Marking("main")
               [] k = "markWorker" -> Marking("worker")

\* w has been submitted and its run has not ended.
Going(w) == \/ \E x \in queue : x.wf = w
            \/ \E t \in Thread : call[t].step \in {"seq", "put"} /\ call[t].wf = w
            \/ InHand /\ cur["worker"] = w

\* Each of them is in one place only, and not yet submitted: nobody but the worker itself writes
\* the lifecycle of a workflow while its run lasts.
KeptInv ==
    /\ call["cron"].step # "mark"
    /\ \A k \in Keeper : KeptBy(k) \subseteq Triggered("startup")
    /\ \A j, k \in Keeper : j # k => KeptBy(j) \cap KeptBy(k) = {}
    /\ \A k \in Keeper : \A w \in KeptBy(k) : ~Going(w)

LEMMA InitKept == Init => KeptInv
BY DEF Init, KeptInv, KeptBy, Keeper, InHandOfMain, Releasing, Marking, Going, InHand, Thread, IdleCall

\* A step that gives no keeper more, and submits only what no keeper has afterwards.
LEMMA KeptStays ==
    ASSUME KeptInv, call'["cron"].step # "mark",
           \A k \in Keeper : KeptBy(k)' \subseteq KeptBy(k),
           \A w : Going(w)' => Going(w) \/ \A k \in Keeper : w \notin KeptBy(k)'
    PROVE  KeptInv'
BY DEF KeptInv, Triggered

\* The rest of a submission.
LEMMA SubmitKept ==
    ASSUME TypeInv, NEW t \in Thread, TakeSeq(t) \/ Put(t) \/ Signal(t)
    PROVE  /\ \A w : Going(w)' => Going(w)
           /\ \A u \in Thread : call'[u].step = "mark" <=> call[u].step = "mark"
           /\ \A u \in Thread : Marking(u)' = Marking(u) /\ Releasing(u)' = Releasing(u)
           /\ InHandOfMain' = InHandOfMain /\ UNCHANGED <<left, waiting>>
<1> USE DEF TypeInv, TypeOK, CallOK, queueVars, loopVars
<1>1. /\ UNCHANGED <<left, waiting, pc, cur, todo>>
      /\ InHandOfMain' = InHandOfMain /\ InHand' = InHand
      /\ \A u \in Thread : Releasing(u)' = Releasing(u)
  BY DEF TakeSeq, Put, Signal, InHandOfMain, InHand, Releasing
<1>2. /\ \A u \in Thread \ {t} : call'[u] = call[u]
      /\ call[t].step \in {"seq", "put", "signal"} /\ call'[t].step \in {"put", "signal", "idle"}
      /\ call'[t].step \in {"put", "signal"} => call'[t].wf = call[t].wf
      /\ call'[t].step = "put" => call[t].step = "seq"
  <2>1. CASE TakeSeq(t)
    BY <2>1 DEF TakeSeq
  <2>2. CASE Put(t)
    BY <2>2 DEF Put
  <2>3. CASE Signal(t)
    BY <2>3 DEF Signal, IdleCall
  <2> QED BY <2>1, <2>2, <2>3
<1>3. \A x \in queue' : x \in queue \/ (call[t].step = "put" /\ x.wf = call[t].wf)
  BY DEF TakeSeq, Put, Signal
<1>4. \A u \in Thread : Marking(u)' = Marking(u)
  BY <1>2 DEF Marking
<1> QED BY <1>1, <1>2, <1>3, <1>4 DEF Going

\* The workflow of a "mark" step is let go by its keeper when it is marked.
LEMMA MarkKept == TypeInv /\ KeptInv /\ [Next]_vars => \A t \in Thread : Mark(t) => KeptInv'
<1> SUFFICES ASSUME TypeInv, KeptInv, NEW t \in Thread, Mark(t) PROVE KeptInv'
  OBVIOUS
<1> USE DEF KeptInv, TypeInv, TypeOK, CallOK, At, Goto, Enter, queueVars, lifeVars, runVars, envVars, loopVars, Thread
<1>1. /\ call' = [call EXCEPT ![t].step = "seq"] /\ call[t].step = "mark"
      /\ UNCHANGED <<queue, waiting, pc, cur, todo, left>>
  BY DEF Mark
<1>2. /\ InHandOfMain' = InHandOfMain /\ InHand' = InHand
      /\ \A u \in Thread : Releasing(u)' = Releasing(u)
      /\ Marking(t) = {call[t].wf} /\ Marking(t)' = {}
      /\ \A u \in Thread \ {t} : Marking(u)' = Marking(u)
  BY <1>1 DEF InHandOfMain, Releasing, Marking, InHand
<1>3. \A w : Going(w)' => Going(w) \/ w = call[t].wf
  BY <1>1, <1>2 DEF Going
<1>4. t # "cron"
  BY <1>1
<1>5. \A k \in Keeper : KeptBy(k)' \subseteq KeptBy(k) /\ call[t].wf \notin KeptBy(k)'
  <2>1. PICK m \in {"markMain", "markWorker"} : KeptBy(m) = {call[t].wf} /\ KeptBy(m)' = {}
    BY <1>2, <1>4 DEF KeptBy
  <2>2. \A k \in Keeper \ {m} : KeptBy(k)' \subseteq KeptBy(k)
    BY <1>1, <1>2, <1>4 DEF KeptBy, Keeper
  <2> QED BY <2>1, <2>2 DEF Keeper
<1> QED BY <1>1, <1>3, <1>4, <1>5, KeptStays

\* The two steps in which a thread takes waiting workflows out of _waiting, and one by one.
LEMMA ReleaseKept ==
    ASSUME TypeInv, KeptInv, NEW t \in {"main", "worker"}, Unblock(t) \/ Release(t)
    PROVE  KeptInv'
<1> USE DEF KeptInv, TypeInv, TypeOK, CallOK, At, Goto, Enter, queueVars, lifeVars, runVars, envVars, loopVars, Thread
<1>1. \A w : Going(w)' => Going(w)
  BY DEF Unblock, Release, Going, InHand
<1>2. left' = left /\ InHandOfMain' = InHandOfMain
  BY DEF Unblock, Release, InHandOfMain
<1>3. CASE Unblock(t)
  <2>1. PICK found \in SUBSET waiting :
             waiting' = waiting \ found /\ todo' = [todo EXCEPT ![t] = found]
    BY <1>3 DEF Unblock
  <2>2. /\ Releasing(t) = {} /\ Releasing(t)' = found
        /\ \A u \in Thread \ {t} : Releasing(u)' = Releasing(u)
        /\ \A u \in Thread : Marking(u)' = Marking(u)
    BY <1>3, <2>1 DEF Unblock, Releasing, Marking
  <2> QED BY <1>1, <1>2, <1>3, <2>1, <2>2 DEF KeptBy, Keeper, Triggered, Unblock
<1>4. CASE Release(t)
  <2>1. PICK w \in todo[t] : Enter(t, "mark", w) /\ todo' = [todo EXCEPT ![t] = todo[t] \ {w}]
    BY <1>4 DEF Release
  <2>2. /\ w \in Releasing(t) /\ Releasing(t)' = Releasing(t) \ {w}
        /\ Marking(t) = {} /\ Marking(t)' = {w}
        /\ \A u \in Thread \ {t} : Releasing(u)' = Releasing(u) /\ Marking(u)' = Marking(u)
        /\ waiting' = waiting /\ call'["cron"] = call["cron"]
    BY <1>4, <2>1 DEF Release, Releasing, Marking
  <2> QED BY <1>1, <1>2, <2>2 DEF KeptBy, Keeper, Triggered
<1> QED BY <1>3, <1>4

LEMMA WorkerKept == TypeInv /\ PrereqInv /\ KeptInv /\ Worker => KeptInv'
<1> SUFFICES ASSUME TypeInv, PrereqInv, KeptInv, Worker PROVE KeptInv'
  OBVIOUS
<1>1. CASE Mark("worker") \/ Unblock("worker") \/ Release("worker")
  BY <1>1, MarkKept, ReleaseKept DEF Thread, Next, Worker, Submission
<1>2. /\ \A t \in {"main", "cron"} :
           pc'[t] = pc[t] /\ cur'[t] = cur[t] /\ todo'[t] = todo[t] /\ call'[t] = call[t]
      /\ left' = left /\ InHandOfMain' = InHandOfMain
      /\ Releasing("main")' = Releasing("main") /\ Marking("main")' = Marking("main")
  BY WorkerFrame DEF InHandOfMain, Releasing, Marking
<1> USE DEF TypeInv, TypeOK, CallOK, At, Goto, Enter, queueVars, lifeVars, runVars, envVars, loopVars, Thread
<1>3. ASSUME ~(Mark("worker") \/ Unblock("worker") \/ Release("worker"))
      PROVE  /\ waiting' = waiting
             /\ Releasing("worker")' = Releasing("worker") /\ Marking("worker")' = Marking("worker")
             /\ \A w : Going(w)' => Going(w) \/ Specs[w].trigger # "startup"
  <2>1. CASE TakeSeq("worker") \/ Put("worker") \/ Signal("worker")
    <3>1. waiting' = waiting
      BY <2>1 DEF TakeSeq, Put, Signal
    <3> QED BY <2>1, <3>1, SubmitKept
  <2>2. CASE Poll \/ GetItem \/ GetTimeout \/ Begin \/ Activate \/ Deactivate
    BY <2>2 DEF Poll, GetItem, GetTimeout, Begin, Activate, Deactivate, Releasing, Marking, Going, InHand, LoopTest
  <2>3. CASE Run
    BY <2>3 DEF Run, Releasing, Marking, Going, InHand
  <2>4. CASE Record \/ StartChain \/ FinishChain
    BY <2>4 DEF Record, StartChain, FinishChain, Releasing, Marking, Going, InHand, AfterRun
  <2>5. CASE ChainOne
    BY <2>5 DEF ChainOne, First, Releasing, Marking, Going, InHand, PrereqInv
  <2> QED BY <1>3, <2>1, <2>2, <2>3, <2>4, <2>5 DEF Worker, Submission
<1>4. ASSUME ~(Mark("worker") \/ Unblock("worker") \/ Release("worker")) PROVE KeptInv'
  <2>1. \A k \in Keeper : KeptBy(k)' = KeptBy(k)
    BY <1>2, <1>3, <1>4 DEF Keeper, KeptBy
  <2>2. \A w : Going(w)' => Going(w) \/ \A k \in Keeper : w \notin KeptBy(k)'
    BY <1>3, <1>4, <2>1 DEF KeptInv, Triggered
  <2> QED BY <1>2, <2>1, <2>2, KeptStays DEF KeptInv
<1> QED BY <1>1, <1>4

LEMMA CronKept ==
    ASSUME TypeInv, KeptInv, Cron \/ \E w \in Workflow : Due(w)
    PROVE  KeptInv'
<1>1. /\ \A t \in {"main", "worker"} :
           pc'[t] = pc[t] /\ cur'[t] = cur[t] /\ todo'[t] = todo[t] /\ call'[t] = call[t]
      /\ left' = left /\ waiting' = waiting /\ InHandOfMain' = InHandOfMain
      /\ \A t \in {"main", "worker"} : Releasing(t)' = Releasing(t) /\ Marking(t)' = Marking(t)
  BY CronFrame DEF InHandOfMain, Releasing, Marking
<1> USE DEF TypeInv, TypeOK, CallOK, CurOK, At, Goto, Enter, queueVars, lifeVars, runVars, envVars, loopVars, Thread
<1>2. \A k \in Keeper : KeptBy(k)' = KeptBy(k)
  BY <1>1 DEF Keeper, KeptBy
<1>3. /\ call'["cron"].step # "mark"
      /\ \A w : Going(w)' => Going(w) \/ Specs[w].trigger # "startup"
  <2>1. CASE Submission("cron")
    <3>1. ~Mark("cron") /\ ~Unblock("cron") /\ ~Release("cron")
      BY DEF Mark, Unblock, Release, CronLabel, KeptInv
    <3> QED BY <2>1, <3>1, SubmitKept DEF Submission, KeptInv
  <2>2. CASE FireCron \/ Rearm \/ StopCron
    BY <1>1, <2>2 DEF FireCron, Rearm, StopCron, Going, InHand, Triggered, KeptInv
  <2>3. CASE \E w \in Workflow : Due(w)
    BY <1>1, <2>3 DEF Due, Going, InHand, KeptInv
  <2> QED BY <2>1, <2>2, <2>3 DEF Cron
<1> QED BY <1>2, <1>3, KeptStays DEF KeptInv, Triggered

LEMMA MainKept ==
    ASSUME TypeInv, KeptInv, Main \/ Shutdown \/ \E w \in Workflow : Request(w)
    PROVE  KeptInv'
<1>0. CASE Mark("main") \/ Unblock("main") \/ Release("main")
  BY <1>0, MarkKept, ReleaseKept DEF Thread, Next, Main, Submission
<1>1. /\ \A t \in {"worker", "cron"} :
           pc'[t] = pc[t] /\ cur'[t] = cur[t] /\ todo'[t] = todo[t] /\ call'[t] = call[t]
      /\ Releasing("worker")' = Releasing("worker") /\ Marking("worker")' = Marking("worker")
      /\ InHand' = InHand
  BY MainFrame DEF Releasing, Marking, InHand
<1> USE DEF TypeInv, TypeOK, CallOK, CurOK, At, Goto, Enter, queueVars, lifeVars, runVars, envVars, loopVars, Thread
<1>2. CASE TakeSeq("main") \/ Put("main") \/ Signal("main") \/ Unblocked \/ FinishStart \/ Shutdown
           \/ \E w \in Workflow : Request(w)
  <2>1. \A w : Going(w)' => Going(w) \/ Specs[w].trigger # "startup"
    <3>1. CASE TakeSeq("main") \/ Put("main") \/ Signal("main")
      BY <3>1, SubmitKept
    <3>2. CASE Unblocked \/ FinishStart \/ Shutdown \/ \E w \in Workflow : Request(w)
      BY <1>1, <3>2 DEF Unblocked, FinishStart, Shutdown, Request, Going
    <3> QED BY <1>2, <3>1, <3>2
  <2>2. \A k \in Keeper : KeptBy(k)' = KeptBy(k)
    <3>1. /\ left' = left /\ waiting' = waiting /\ InHandOfMain' = InHandOfMain
          /\ Releasing("main")' = Releasing("main") /\ Marking("main")' = Marking("main")
      <4>1. CASE TakeSeq("main") \/ Put("main") \/ Signal("main")
        BY <4>1, SubmitKept
      <4>2. CASE Unblocked \/ FinishStart \/ Shutdown
        BY <4>2 DEF Unblocked, FinishStart, Shutdown, InHandOfMain, Releasing, Marking
      <4>3. CASE \E w \in Workflow : Request(w)
        BY <4>3 DEF Request, InHandOfMain, Releasing, Marking
      <4> QED BY <1>2, <4>1, <4>2, <4>3
    <3> QED BY <1>1, <3>1 DEF KeptBy, Keeper
  <2> QED BY <1>1, <2>1, <2>2, KeptStays DEF KeptInv, Triggered
<1>3. CASE EvaluateStartup \/ CheckPrerequisite \/ HoldBack \/ Park
  <2>1. \A w : Going(w)' => Going(w)
    BY <1>1, <1>3 DEF EvaluateStartup, Evaluate, CheckPrerequisite, HoldBack, Park, Going
  <2>2. CASE EvaluateStartup
    <3>1. PICK w \in left : /\ left' = left \ {w}
                            /\ \/ InHandOfMain' = {} /\ Marking("main")' \in {{}, {w}}
                               \/ InHandOfMain' = {w} /\ Marking("main")' = {}
      <4>1. PICK w \in First(left), met \in BOOLEAN :
              Evaluate(w, met) /\ left' = left \ {w} /\ cur' = [cur EXCEPT !["main"] = w]
        BY <2>2 DEF EvaluateStartup
      <4>2. CASE Goto("main", "unblock") /\ UNCHANGED call
        BY <2>2, <4>1, <4>2 DEF EvaluateStartup, First, InHandOfMain, Marking
      <4>3. CASE Enter("main", "mark", w) /\ UNCHANGED pc
        BY <2>2, <4>1, <4>3 DEF EvaluateStartup, First, InHandOfMain, Marking
      <4>4. CASE Goto("main", "check") /\ UNCHANGED call
        BY <2>2, <4>1, <4>4 DEF EvaluateStartup, First, InHandOfMain, Marking
      <4> QED BY <4>1, <4>2, <4>3, <4>4 DEF Evaluate
    <3>2. waiting' = waiting /\ InHandOfMain = {} /\ Marking("main") = {} /\ Releasing("main")' = {} /\ Releasing("main") = {}
      BY <2>2 DEF EvaluateStartup, Evaluate, InHandOfMain, Marking, Releasing
    <3>3. call'["cron"].step # "mark"
      BY <1>1 DEF KeptInv
    <3>4. \A k \in Keeper \ {"loop", "hand", "markMain"} : KeptBy(k)' = KeptBy(k)
      BY <1>1, <3>2 DEF KeptBy, Keeper
    <3>5. /\ KeptBy("loop")' = KeptBy("loop") \ {w} /\ w \in KeptBy("loop")
          /\ \/ KeptBy("hand")' = {} /\ KeptBy("markMain")' \in {{}, {w}}
             \/ KeptBy("hand")' = {w} /\ KeptBy("markMain")' = {}
      BY <3>1 DEF KeptBy
    <3> QED BY <2>1, <3>3, <3>4, <3>5 DEF KeptInv, Triggered, Keeper
  <2>3. CASE CheckPrerequisite
    <3>1. /\ InHandOfMain = {cur["main"]} /\ Marking("main") = {}
          /\ \/ InHandOfMain' = {} /\ Marking("main")' = {cur["main"]}
             \/ InHandOfMain' = {cur["main"]} /\ Marking("main")' = {}
          /\ UNCHANGED <<left, waiting>> /\ Releasing("main")' = Releasing("main")
      BY <2>3 DEF CheckPrerequisite, InHandOfMain, Marking, Releasing
    <3> QED BY <1>1, <2>1, <3>1 DEF KeptBy, Keeper, KeptInv, Triggered
  <2>4. CASE HoldBack
    <3>1. /\ InHandOfMain' = InHandOfMain /\ Marking("main")' = Marking("main")
          /\ UNCHANGED <<left, waiting>> /\ Releasing("main")' = Releasing("main")
      BY <2>4 DEF HoldBack, InHandOfMain, Marking, Releasing
    <3> QED BY <1>1, <2>1, <3>1 DEF KeptBy, Keeper, KeptInv, Triggered
  <2>5. CASE Park
    <3>1. /\ InHandOfMain = {cur["main"]} /\ InHandOfMain' = {} /\ waiting' = waiting \cup {cur["main"]}
          /\ left' = left /\ Releasing("main")' = Releasing("main") /\ Marking("main")' = Marking("main")
      BY <2>5 DEF Park, InHandOfMain, Marking, Releasing
    <3> QED BY <1>1, <2>1, <3>1 DEF KeptBy, Keeper, KeptInv, Triggered
  <2> QED BY <1>3, <2>2, <2>3, <2>4, <2>5
<1> QED BY <1>0, <1>2, <1>3 DEF Main, Submission

LEMMA NextKept == TypeInv /\ PrereqInv /\ KeptInv /\ [Next]_vars => KeptInv'
<1> SUFFICES ASSUME TypeInv, PrereqInv, KeptInv, UNCHANGED vars PROVE KeptInv'
  BY StepOf, WorkerKept, CronKept, MainKept
<1> QED BY DEF KeptInv, KeptBy, Keeper, InHandOfMain, Releasing, Marking, Going, InHand, vars, queueVars, loopVars

LEMMA NextRunning == TypeInv /\ KeptInv /\ RunningIsInHand /\ [Next]_vars => RunningIsInHand'
<1> SUFFICES ASSUME TypeInv, KeptInv, RunningIsInHand, [Next]_vars PROVE RunningIsInHand'
  OBVIOUS
<1> USE DEF RunningIsInHand, TypeInv, TypeOK, CallOK, CurOK, At, Goto, Enter, queueVars, lifeVars, runVars, envVars, loopVars, Thread
\* Whoever is kept is not running.
<1>1. ASSUME NEW k \in Keeper, NEW w \in KeptBy(k) \cap Workflow
      PROVE  ~(InHand /\ cur["worker"] = w) /\ lifecycle[w] # "running"
  BY <1>1 DEF KeptInv, Going, InHand
<1>2. ASSUME NEW t \in Thread, Mark(t) PROVE RunningIsInHand'
  <2>1. t \in {"main", "worker"} /\ call[t].wf \in Workflow
    BY <1>2 DEF KeptInv, Mark
  <2>2. ~(InHand /\ cur["worker"] = call[t].wf)
    BY <1>1, <1>2, <2>1 DEF Keeper, KeptBy, Marking, Mark
  <2> QED BY <1>2, <2>1, <2>2 DEF Mark, SetLifecycle, InHand
<1>3. CASE Worker
  <2>1. CASE TakeSeq("worker") \/ Put("worker") \/ Signal("worker") \/ Unblock("worker") \/ Release("worker")
    BY <2>1 DEF TakeSeq, Put, Signal, Unblock, Release
  <2>2. CASE Poll \/ GetItem \/ GetTimeout \/ Activate \/ Deactivate \/ StartChain \/ FinishChain
    BY <2>2 DEF Poll, GetItem, GetTimeout, Activate, Deactivate, StartChain, FinishChain, LoopTest
  <2>3. CASE Run \/ ChainOne
    BY <2>3 DEF Run, ChainOne
  <2>4. CASE Begin
    BY <2>4 DEF Begin, SetLifecycle, InHand
  <2>5. CASE Record
    BY <2>5 DEF Record, SetLifecycle, InHand, AfterRun, Outcome, Status
  <2> QED BY <1>2, <1>3, <2>1, <2>2, <2>3, <2>4, <2>5 DEF Worker, Submission
<1>4. CASE Main \/ Shutdown \/ \E w \in Workflow : Request(w)
  <2>1. pc'["worker"] = pc["worker"] /\ cur'["worker"] = cur["worker"]
    BY <1>4, MainFrame
  <2>2. CASE EvaluateStartup
    <3>1. PICK w \in left : lifecycle' = lifecycle \/ lifecycle' = [lifecycle EXCEPT ![w] = "not_needed"]
      BY <2>2 DEF EvaluateStartup, Evaluate, First, SetLifecycle
    <3>2. ~(InHand /\ cur["worker"] = w)
      BY <1>1, <3>1 DEF Keeper, KeptBy
    <3> QED BY <2>1, <3>1, <3>2 DEF InHand
  <2>3. CASE HoldBack
    <3>1. ~(InHand /\ cur["worker"] = cur["main"]) /\ cur["main"] \in Workflow
      BY <1>1, <2>3 DEF Keeper, KeptBy, InHandOfMain, HoldBack
    <3> QED BY <2>1, <2>3, <3>1 DEF HoldBack, SetLifecycle, InHand
  <2>4. CASE ~(EvaluateStartup \/ HoldBack \/ Mark("main"))
    <3>1. lifecycle' = lifecycle
      BY <1>4, <2>4 DEF Main, Submission, TakeSeq, Put, Signal, Unblock, Release, CheckPrerequisite, Park, Unblocked, FinishStart, Shutdown, Request
    <3> QED BY <2>1, <3>1
  <2> QED BY <1>2, <2>2, <2>3, <2>4
<1>5. CASE Cron \/ \E w \in Workflow : Due(w)
  <2>1. pc'["worker"] = pc["worker"] /\ cur'["worker"] = cur["worker"]
    BY <1>5, CronFrame
  <2>2. CASE ~Mark("cron")
    BY <1>5, <2>1, <2>2 DEF Cron, Submission, TakeSeq, Put, Signal, Unblock, Release, FireCron, Rearm, StopCron, Due
  <2> QED BY <1>2, <2>2
<1>6. CASE UNCHANGED vars
  BY <1>6 DEF vars
<1> QED BY <1>3, <1>4, <1>5, <1>6, StepOf

\* engine.py:339-379, 496, 549.  For every registry and every interleaving of the writes
\* of _lifecycle (the worker's, the main thread's, and those of submit(), by which the
\* cron thread reaches it), it says RUNNING of the workflow the worker is executing and of no other.
THEOREM RunningIsExecuting == Spec => []RunningIsInHand
<1>1. Init => RunningIsInHand
  BY DEF Init, RunningIsInHand, Thread
<1> QED BY InitType, NextType, InitPrereq, NextPrereq, InitKept, NextKept, <1>1, NextRunning, PTL DEF Spec

-----------------------------------------------------------------------------
(* Submissions                                                              *)

Putting == {t \in Thread : call[t].step = "put"}

\* A sequence number is taken once, so that an item put into the queue is new there.
NumbersInv ==
    /\ IsFiniteSet(queue) /\ IsFiniteSet(Logged)
    /\ \A x \in queue : x.seq < nextSeq
    /\ \A t \in Putting : /\ call[t].seq < nextSeq
                          /\ \A x \in queue : x.seq # call[t].seq
    /\ \A t, u \in Putting : t # u => call[t].seq # call[u].seq

\* EverySubmissionAccounted with it is inductive.
AccountInv == NumbersInv /\ EverySubmissionAccounted

LEMMA ThreadFinite == IsFiniteSet(Thread)
<1>1. Thread = ({"main"} \cup {"worker"}) \cup {"cron"}
  BY DEF Thread
<1>2. IsFiniteSet({"main"})
  BY FS_Singleton
<1>3. IsFiniteSet({"main"} \cup {"worker"})
  BY <1>2, FS_AddElement
<1>4. IsFiniteSet(({"main"} \cup {"worker"}) \cup {"cron"})
  BY <1>3, FS_AddElement
<1> QED BY <1>1, <1>4

LEMMA PuttingFinite == IsFiniteSet(Putting) /\ Cardinality(Putting) \in Nat
<1>1. Putting \subseteq Thread
  BY DEF Putting
<1>2. IsFiniteSet(Putting)
  BY <1>1, ThreadFinite, FS_Subset
<1> QED BY <1>2, FS_CardinalityType

LEMMA InitAccount == Init => AccountInv
<1> SUFFICES ASSUME Init PROVE AccountInv
  OBVIOUS
<1>1. queue = {} /\ Putting = {} /\ Logged = {} /\ nextSeq = 0 /\ ~InHand
  <2>1. \A w \in Workflow, s \in Status : 1..runs[w][s] = {}
    BY DEF Init
  <2> QED BY <2>1 DEF Init, Putting, Logged, InHand, IdleCall, Thread
<1> QED BY <1>1, FS_EmptySet DEF AccountInv, NumbersInv, EverySubmissionAccounted, Putting

\* A step that submits nothing, takes nothing from the queue and logs nothing.
LEMMA AccountStays ==
    ASSUME AccountInv, UNCHANGED <<queueVars, runs>>, Putting' = Putting, InHand' = InHand,
           \A t \in Putting : call'[t].seq = call[t].seq
    PROVE  AccountInv'
<1>1. Logged' = Logged
  BY DEF Logged
<1> QED BY <1>1 DEF AccountInv, NumbersInv, EverySubmissionAccounted, queueVars, Putting

LEMMA TakeSeqAccount ==
    ASSUME TypeInv, AccountInv, NEW t \in Thread, TakeSeq(t)
    PROVE  AccountInv'
<1> USE DEF TypeInv, TypeOK, CallOK, AccountInv, NumbersInv
<1>1. /\ nextSeq' = nextSeq + 1 /\ nextSeq \in Nat /\ t \notin Putting
      /\ call'[t].step = "put" /\ call'[t].seq = nextSeq
      /\ \A u \in Thread \ {t} : call'[u] = call[u]
      /\ UNCHANGED <<queue, runs, pc>>
  BY DEF TakeSeq, Putting
<1>2. Putting' = Putting \cup {t}
  BY <1>1 DEF Putting
<1>3. Cardinality(Putting') = Cardinality(Putting) + 1
  BY <1>1, <1>2, PuttingFinite, FS_AddElement
<1>4. Logged' = Logged /\ InHand' = InHand
  BY <1>1 DEF Logged, InHand
<1>5. Cardinality(queue) \in Nat /\ Cardinality(Logged) \in Nat
  BY FS_CardinalityType
<1>6. EverySubmissionAccounted'
  BY <1>1, <1>3, <1>4, <1>5, PuttingFinite DEF EverySubmissionAccounted, Putting
<1>7. \A u \in Putting' : u = t \/ (u \in Putting /\ call'[u] = call[u])
  BY <1>1, <1>2 DEF Putting
<1>8. /\ \A x \in queue : x.seq \in Nat
      /\ \A u \in Putting : call[u].seq \in Nat
  BY DEF Item, Putting, Call
<1>9. NumbersInv'
  <2>1. \A x \in queue' : x.seq < nextSeq'
    BY <1>1, <1>8
  <2>2. \A u \in Putting' : call'[u].seq < nextSeq'
    BY <1>1, <1>7, <1>8
  <2>3. \A u \in Putting' : \A x \in queue' : x.seq # call'[u].seq
    BY <1>1, <1>7, <1>8
  <2>4. \A u, v \in Putting' : u # v => call'[u].seq # call'[v].seq
    BY <1>1, <1>7, <1>8
  <2> QED BY <1>1, <1>4, <2>1, <2>2, <2>3, <2>4
<1> QED BY <1>6, <1>9

LEMMA PutAccount ==
    ASSUME TypeInv, AccountInv, NEW t \in Thread, Put(t)
    PROVE  AccountInv'
<1> USE DEF TypeInv, TypeOK, CallOK, AccountInv, NumbersInv
<1> DEFINE new == [wf |-> call[t].wf, seq |-> call[t].seq]
<1>1. /\ queue' = queue \cup {new} /\ t \in Putting
      /\ call'[t].step = "signal"
      /\ \A u \in Thread \ {t} : call'[u] = call[u]
      /\ UNCHANGED <<nextSeq, runs, pc>>
  BY DEF Put, Putting
<1>2. new.seq = call[t].seq
  OBVIOUS
<1>3. new \notin queue
  BY <1>1, <1>2
<1> HIDE DEF new
<1>4. Putting' = Putting \ {t}
  BY <1>1 DEF Putting
<1>5. Cardinality(Putting') = Cardinality(Putting) - 1
  BY <1>1, <1>4, PuttingFinite, FS_RemoveElement
<1>6. IsFiniteSet(queue') /\ Cardinality(queue') = Cardinality(queue) + 1
  BY <1>1, <1>3, FS_AddElement
<1>7. Logged' = Logged /\ InHand' = InHand
  BY <1>1 DEF Logged, InHand
<1>8. Cardinality(queue) \in Nat /\ Cardinality(Logged) \in Nat
  BY FS_CardinalityType
<1>9. EverySubmissionAccounted'
  BY <1>1, <1>5, <1>6, <1>7, <1>8, PuttingFinite DEF EverySubmissionAccounted, Putting
<1>10. NumbersInv'
  <2>1. \A u \in Putting' : u \in Putting /\ u # t /\ call'[u] = call[u]
    BY <1>1, <1>4 DEF Putting
  <2>2. \A x \in queue' : x \in queue \/ x.seq = call[t].seq
    BY <1>1, <1>2
  <2>3. /\ \A x \in queue' : x.seq < nextSeq'
        /\ \A u \in Putting' : call'[u].seq < nextSeq'
    BY <1>1, <2>1, <2>2
  <2>4. \A u \in Putting' : \A x \in queue' : x.seq # call'[u].seq
    BY <1>1, <2>1, <2>2
  <2>5. \A u, v \in Putting' : u # v => call'[u].seq # call'[v].seq
    BY <2>1
  <2> QED BY <1>6, <1>7, <2>3, <2>4, <2>5
<1> QED BY <1>9, <1>10

LEMMA GetItemAccount ==
    ASSUME TypeInv, AccountInv, GetItem
    PROVE  AccountInv'
<1> USE DEF TypeInv, TypeOK, CallOK, AccountInv, NumbersInv
<1>1. PICK x \in queue : queue' = queue \ {x}
  BY DEF GetItem
<1>2. /\ ~InHand /\ InHand' /\ UNCHANGED <<nextSeq, runs, call>>
  BY DEF GetItem, InHand, At, Goto, Thread
<1>3. IsFiniteSet(queue') /\ Cardinality(queue') = Cardinality(queue) - 1
  BY <1>1, FS_RemoveElement
<1>4. Logged' = Logged /\ Putting' = Putting
  BY <1>2 DEF Logged, Putting
<1>5. Cardinality(queue) \in Nat /\ Cardinality(Logged) \in Nat
  BY FS_CardinalityType
<1>6. EverySubmissionAccounted'
  BY <1>2, <1>3, <1>4, <1>5, PuttingFinite DEF EverySubmissionAccounted, Putting
<1> QED BY <1>1, <1>2, <1>3, <1>4, <1>6

\* One more entry of the log.
\* What Logged is the union of.
Entries(w, s) == {<<w, s, n>> : n \in 1..runs[w][s]}

LEMMA LoggedEntries ==
    ASSUME NEW x
    PROVE  x \in Logged <=> \E w \in Workflow, s \in Status : x \in Entries(w, s)
<1>1. Logged = UNION {Entries(w, s) : w \in Workflow, s \in Status}
  BY DEF Logged, Entries
<1> QED BY <1>1

LEMMA LoggedEntriesNext ==
    ASSUME NEW x
    PROVE  x \in Logged' <=> \E w \in Workflow, s \in Status : x \in Entries(w, s)'
<1>1. Logged' = UNION {Entries(w, s)' : w \in Workflow, s \in Status}
  BY DEF Logged, Entries
<1> QED BY <1>1

LEMMA OneMoreEntry ==
    ASSUME NEW w, NEW s, NEW n \in Nat, runs[w][s] = n, runs'[w][s] = n + 1
    PROVE  Entries(w, s)' = Entries(w, s) \cup {<<w, s, n + 1>>}
<1>1. \A k : k \in 1..(n + 1) <=> k \in 1..n \/ k = n + 1
  OBVIOUS
<1>2. /\ Entries(w, s)' = {<<w, s, k>> : k \in 1..(n + 1)}
      /\ Entries(w, s) = {<<w, s, k>> : k \in 1..n}
  BY DEF Entries
<1> QED BY <1>1, <1>2

LEMMA OneMoreLogged ==
    ASSUME NEW w \in Workflow, NEW s \in Status, runs \in [Workflow -> [Status -> Nat]],
           runs' = [runs EXCEPT ![w][s] = runs[w][s] + 1]
    PROVE  /\ Logged' = Logged \cup {<<w, s, runs[w][s] + 1>>}
           /\ <<w, s, runs[w][s] + 1>> \notin Logged
<1>1. runs[w][s] \in Nat /\ runs'[w][s] = runs[w][s] + 1
  OBVIOUS
<1>2. Entries(w, s)' = Entries(w, s) \cup {<<w, s, runs[w][s] + 1>>}
  BY <1>1, OneMoreEntry
<1>3. \A v \in Workflow, r \in Status : v # w \/ r # s => Entries(v, r)' = Entries(v, r)
  BY DEF Entries
<1>4. \A x : x \in Logged' <=> x \in Logged \/ x = <<w, s, runs[w][s] + 1>>
  BY <1>2, <1>3, LoggedEntries, LoggedEntriesNext
<1>5. \A v \in Workflow, r \in Status : <<w, s, runs[w][s] + 1>> \notin Entries(v, r)
  BY <1>1 DEF Entries
<1>6. <<w, s, runs[w][s] + 1>> \notin Logged
  BY <1>5, LoggedEntries
<1> QED BY <1>4, <1>6

LEMMA RecordAccount ==
    ASSUME TypeInv, AccountInv, Record
    PROVE  AccountInv'
<1> USE DEF TypeInv, TypeOK, CallOK, AccountInv, NumbersInv
<1> DEFINE w == cur["worker"]
           new == <<w, status, runs[w][status] + 1>>
<1>1. w \in Workflow /\ runs \in [Workflow -> [Status -> Nat]] /\ status \in Status
  BY DEF CurOK, Record, At, InHand
<1>2. runs' = [runs EXCEPT ![w][status] = runs[w][status] + 1]
  BY DEF Record
<1>3. /\ InHand /\ ~InHand' /\ UNCHANGED <<queue, nextSeq, call>>
  BY DEF Record, InHand, At, Goto, Thread, AfterRun, queueVars
<1> HIDE DEF w
<1>4. /\ Logged' = Logged \cup {new}
      /\ new \notin Logged
  BY <1>1, <1>2, OneMoreLogged
<1> HIDE DEF new
<1>6. IsFiniteSet(Logged') /\ Cardinality(Logged') = Cardinality(Logged) + 1
  BY <1>4, FS_AddElement
<1>7. Cardinality(queue) \in Nat /\ Cardinality(Logged) \in Nat
  BY FS_CardinalityType
<1>8. Putting' = Putting
  BY <1>3 DEF Putting
<1>9. EverySubmissionAccounted'
  BY <1>3, <1>6, <1>7, <1>8, PuttingFinite DEF EverySubmissionAccounted, Putting
<1> QED BY <1>3, <1>6, <1>8, <1>9

LEMMA NextAccount == TypeInv /\ AccountInv /\ [Next]_vars => AccountInv'
<1> SUFFICES ASSUME TypeInv, AccountInv, [Next]_vars PROVE AccountInv'
  OBVIOUS
<1>1. ASSUME NEW t \in Thread, Mark(t) \/ Signal(t) \/ Unblock(t) \/ Release(t) PROVE AccountInv'
  <2>1. UNCHANGED <<queueVars, runs>> /\ InHand' = InHand
    BY <1>1 DEF Mark, Signal, Unblock, Release, InHand, queueVars, Goto, At, TypeInv, TypeOK, Thread
  <2>2. /\ \A u \in Thread \ {t} : call'[u] = call[u]
        /\ call[t].step # "put" /\ call'[t].step # "put"
    <3>1. CASE Mark(t)
      BY <3>1 DEF Mark, TypeInv, TypeOK, CallOK
    <3>2. CASE Signal(t)
      BY <3>2 DEF Signal, IdleCall, TypeInv, TypeOK, CallOK
    <3>3. CASE Unblock(t)
      BY <3>3 DEF Unblock, At
    <3>4. CASE Release(t)
      BY <3>4 DEF Release, At, Enter, TypeInv, TypeOK, CallOK
    <3> QED BY <1>1, <3>1, <3>2, <3>3, <3>4
  <2>3. Putting' = Putting /\ \A u \in Putting : call'[u] = call[u]
    BY <2>2 DEF Putting
  <2> QED BY <2>1, <2>3, AccountStays
<1>2. ASSUME NEW t \in Thread, Submission(t) PROVE AccountInv'
  BY <1>1, <1>2, TakeSeqAccount, PutAccount DEF Submission
<1>3. ASSUME UNCHANGED <<queueVars, runs>>,
             call' = call \/ \E t \in Thread, w \in Workflow :
                call[t].step = "idle" /\ (Enter(t, "seq", w) \/ Enter(t, "mark", w)),
             InHand' = InHand
      PROVE  AccountInv'
  <2>1. CASE call' = call
    BY <1>3, <2>1, AccountStays DEF Putting
  <2>2. ASSUME NEW t \in Thread, NEW w \in Workflow,
               call[t].step = "idle", Enter(t, "seq", w) \/ Enter(t, "mark", w)
        PROVE  AccountInv'
    <3>1. /\ \A u \in Thread \ {t} : call'[u] = call[u]
          /\ call'[t].step # "put"
      BY <2>2 DEF Enter, TypeInv, TypeOK, CallOK
    <3>2. Putting' = Putting /\ \A u \in Putting : call'[u] = call[u]
      BY <2>2, <3>1 DEF Putting
    <3> QED BY <1>3, <3>2, AccountStays
  <2> QED BY <1>3, <2>1, <2>2
<1> USE DEF TypeInv, TypeOK, CurOK, At, Goto, InHand, queueVars, Thread
<1>4. CASE Poll \/ GetTimeout \/ Begin \/ Activate \/ Deactivate \/ StartChain \/ FinishChain
  BY <1>3, <1>4 DEF Poll, GetTimeout, Begin, Activate, Deactivate, StartChain, FinishChain, LoopTest
<1>5. CASE Run
  BY <1>3, <1>5 DEF Run
<1>6. CASE ChainOne
  BY <1>3, <1>6 DEF ChainOne, First
<1>7. CASE EvaluateStartup
  BY <1>3, <1>7 DEF EvaluateStartup, Evaluate, First
<1>8. CASE CheckPrerequisite
  BY <1>3, <1>8 DEF CheckPrerequisite
<1>9. CASE HoldBack \/ Park \/ Unblocked \/ FinishStart \/ Shutdown \/ Rearm \/ StopCron
  BY <1>3, <1>9 DEF HoldBack, Park, Unblocked, FinishStart, Shutdown, Rearm, StopCron
<1>10. CASE FireCron
  BY <1>3, <1>10 DEF FireCron, Triggered
<1>11. ASSUME NEW w \in Workflow, Request(w) \/ Due(w) PROVE AccountInv'
  BY <1>3, <1>11 DEF Request, Due
<1>12. CASE UNCHANGED vars
  BY <1>3, <1>12 DEF vars
<1> QED
  BY <1>2, <1>4, <1>5, <1>6, <1>7, <1>8, <1>9, <1>10, <1>11, <1>12, GetItemAccount, RecordAccount, StepOf
     DEF Main, Worker, Cron

\* engine.py:29-33, 300-309.  For every registry and any number of requests, firings and cancelled
\* runs, a submission is never lost nor served twice.
THEOREM SubmissionsAreAccounted == Spec => []EverySubmissionAccounted
<1>1. AccountInv => EverySubmissionAccounted
  BY DEF AccountInv
<1> QED BY InitType, NextType, InitAccount, NextAccount, <1>1, PTL DEF Spec

-----------------------------------------------------------------------------
(* Chained workflows                                                        *)

\* The terms of ChainedRunsAreEarned.
Queued(w) == {x \in queue : x.wf = w}
Coming(w) == {t \in Thread : call[t].wf = w /\ call[t].step \in {"seq", "put"}}
Held(w) == IF /\ InHand /\ cur["worker"] = w
              /\ pc["worker"] \in {"deactivate", "record"} => status # "abandoned"
           THEN 1 ELSE 0
Ended(w) == runs[w]["success"] + runs[w]["failure"]

\* A success of its predecessor for which w has not been submitted yet: the worker is still
\* on its way to w.
Owed(w) == IF \/ pc["worker"] \in {"unblock", "release"} /\ cur["worker"] = Specs[w].after
              \/ pc["worker"] = "chain" /\ w \in todo["worker"]
           THEN 1 ELSE 0

Earned(w) ==
    Cardinality(Queued(w)) + Cardinality(Coming(w)) + Held(w) + Ended(w) + Owed(w)
    <= runs[Specs[w].after]["success"]

Chained == {w \in Workflow : Specs[w].after # None}

LEMMA ChainedSpec ==
    ASSUME NEW w \in Chained
    PROVE  w \in Workflow /\ Specs[w].after \in Workflow /\ Specs[w].trigger = "completed"
BY SpecsAssumption DEF Chained, WorkflowSpec

LEMMA CountsFinite ==
    ASSUME NumbersInv, TypeInv, NEW w \in Chained
    PROVE  /\ IsFiniteSet(Queued(w)) /\ Cardinality(Queued(w)) \in Nat
           /\ IsFiniteSet(Coming(w)) /\ Cardinality(Coming(w)) \in Nat
           /\ Held(w) \in {0, 1} /\ Owed(w) \in {0, 1}
           /\ Ended(w) \in Nat /\ runs[Specs[w].after]["success"] \in Nat
           /\ runs[w]["success"] \in Nat /\ runs[w]["failure"] \in Nat
<1>1. Queued(w) \subseteq queue /\ Coming(w) \subseteq Thread /\ IsFiniteSet(queue)
  BY DEF Queued, Coming, NumbersInv
<1>2. IsFiniteSet(Queued(w)) /\ IsFiniteSet(Coming(w))
  BY <1>1, ThreadFinite, FS_Subset
<1>3. /\ runs[Specs[w].after]["success"] \in Nat
      /\ runs[w]["success"] \in Nat /\ runs[w]["failure"] \in Nat
  BY ChainedSpec DEF TypeInv, TypeOK, Status
<1> QED BY <1>2, <1>3, FS_CardinalityType DEF Held, Owed, Ended

LEMMA EarnedStays ==
    ASSUME NEW w \in Chained, Earned(w), UNCHANGED <<queue, runs>>,
           Coming(w)' = Coming(w), Held(w)' = Held(w), Owed(w)' = Owed(w)
    PROVE  Earned(w)'
<1>1. Queued(w)' = Queued(w)
  BY DEF Queued
<1> QED BY <1>1 DEF Earned, Ended

LEMMA EnterComing ==
    ASSUME TypeInv, NEW w \in Chained, NEW t \in Thread, call[t].step = "idle",
           NEW s \in {"mark", "seq"}, NEW v, Enter(t, s, v)
    PROVE  /\ t \notin Coming(w)
           /\ Coming(w)' = IF s = "seq" /\ v = w THEN Coming(w) \cup {t} ELSE Coming(w)
<1>1. /\ \A u \in Thread \ {t} : call'[u] = call[u]
      /\ call'[t].step = s /\ call'[t].wf = v
  BY DEF Enter, TypeInv, TypeOK, CallOK
<1> QED BY <1>1 DEF Coming

\* The steps of a submission: a chained workflow is never marked.
LEMMA SubmitEarned ==
    ASSUME TypeInv, NumbersInv, KeptInv, NEW w \in Chained, Earned(w),
           NEW t \in Thread, Mark(t) \/ TakeSeq(t) \/ Put(t) \/ Signal(t)
    PROVE  Earned(w)'
<1>1. UNCHANGED <<runs, pc, cur, todo, status>>
  BY DEF Mark, TakeSeq, Put, Signal, loopVars
<1>2. Held(w)' = Held(w) /\ Owed(w)' = Owed(w)
  BY <1>1 DEF Held, Owed, InHand
<1>3. CASE Mark(t)
  <2>1. queue' = queue /\ call' = [call EXCEPT ![t].step = "seq"] /\ call[t].step = "mark"
    BY <1>3 DEF Mark, queueVars
  <2>2. call[t].wf # w
    BY <2>1, ChainedSpec DEF KeptInv, KeptBy, Keeper, Marking, Triggered, Thread
  <2>3. /\ \A u \in Thread \ {t} : call'[u] = call[u]
        /\ call'[t].wf = call[t].wf
    BY <2>1 DEF TypeInv, TypeOK, CallOK, Call
  <2>4. Coming(w)' = Coming(w)
    BY <2>2, <2>3 DEF Coming
  <2> QED BY <1>1, <1>2, <2>1, <2>4, EarnedStays
<1>4. CASE TakeSeq(t)
  <2>1. /\ queue' = queue
        /\ \A u \in Thread \ {t} : call'[u] = call[u]
        /\ call'[t].wf = call[t].wf /\ call[t].step = "seq" /\ call'[t].step = "put"
    BY <1>4 DEF TakeSeq, TypeInv, TypeOK, CallOK, Call
  <2>2. Coming(w)' = Coming(w)
    BY <2>1 DEF Coming
  <2> QED BY <1>1, <1>2, <2>1, <2>2, EarnedStays
<1>5. CASE Signal(t)
  <2>1. /\ queue' = queue
        /\ \A u \in Thread \ {t} : call'[u] = call[u]
        /\ call[t].step = "signal" /\ call'[t].step = "idle"
    BY <1>5 DEF Signal, IdleCall, queueVars, TypeInv, TypeOK, CallOK, Call
  <2>2. Coming(w)' = Coming(w)
    BY <2>1 DEF Coming
  <2> QED BY <1>1, <1>2, <2>1, <2>2, EarnedStays
<1>6. CASE Put(t)
  <2> DEFINE new == [wf |-> call[t].wf, seq |-> call[t].seq]
  <2>1. /\ queue' = queue \cup {new} /\ call[t].step = "put"
        /\ \A u \in Thread \ {t} : call'[u] = call[u]
        /\ call'[t].step = "signal"
    BY <1>6 DEF Put, TypeInv, TypeOK, CallOK, Call
  <2>2. new.wf = call[t].wf
    OBVIOUS
  <2> HIDE DEF new
  <2>3. CASE call[t].wf = w
    <3>1. t \in Coming(w) /\ Coming(w)' = Coming(w) \ {t}
      BY <2>1, <2>3 DEF Coming
    <3>2. Cardinality(Coming(w)') = Cardinality(Coming(w)) - 1
      BY <3>1, CountsFinite, FS_RemoveElement
    <3>3. Queued(w)' = Queued(w) \cup {new}
      BY <2>1, <2>2, <2>3 DEF Queued
    <3>4. Cardinality(Queued(w)') \in {Cardinality(Queued(w)), Cardinality(Queued(w)) + 1}
      BY <3>3, CountsFinite, FS_AddElement
    <3> QED BY <1>1, <1>2, <3>2, <3>4, CountsFinite DEF Earned, Ended
  <2>4. CASE call[t].wf # w
    <3>1. Coming(w)' = Coming(w) /\ Queued(w)' = Queued(w)
      BY <2>1, <2>2, <2>4 DEF Coming, Queued
    <3> QED BY <1>1, <1>2, <3>1 DEF Earned, Ended
  <2> QED BY <2>3, <2>4
<1> QED BY <1>3, <1>4, <1>5, <1>6

\* The main thread and the cron thread submit no chained workflow.
LEMMA MainEarned ==
    ASSUME TypeInv, NumbersInv, KeptInv, NEW w \in Chained, Earned(w),
           Main \/ Shutdown \/ \E v \in Workflow : Request(v)
    PROVE  Earned(w)'
<1>1. Held(w)' = Held(w) /\ Owed(w)' = Owed(w) /\ runs' = runs
  BY MainFrame DEF Held, Owed, InHand
<1>2. CASE Mark("main") \/ TakeSeq("main") \/ Put("main") \/ Signal("main")
  BY <1>2, SubmitEarned DEF Thread
<1>3. CASE ~(Mark("main") \/ TakeSeq("main") \/ Put("main") \/ Signal("main"))
  <2>1. queue' = queue
    BY <1>3 DEF Main, Submission, Unblock, Release, EvaluateStartup, CheckPrerequisite, HoldBack,
                Park, Unblocked, FinishStart, Shutdown, Request, queueVars
  <2>2. \/ call' = call
        \/ call["main"].step = "idle" /\ \E v \in Workflow :
             Enter("main", "mark", v) \/ (Enter("main", "seq", v) /\ Specs[v].trigger = "request")
    <3>1. CASE Unblock("main") \/ HoldBack \/ Park \/ Unblocked \/ FinishStart \/ Shutdown
      BY <3>1 DEF Unblock, HoldBack, Park, Unblocked, FinishStart, Shutdown
    <3>2. CASE Release("main")
      BY <3>2 DEF Release, At, TypeInv, TypeOK, Thread
    <3>3. CASE EvaluateStartup
      BY <3>3 DEF EvaluateStartup, Evaluate, At, First, TypeInv, TypeOK
    <3>4. CASE CheckPrerequisite
      BY <3>4 DEF CheckPrerequisite, At, TypeInv, CurOK
    <3>5. CASE \E v \in Workflow : Request(v)
      BY <3>5 DEF Request, At
    <3> QED BY <1>3, <3>1, <3>2, <3>3, <3>4, <3>5 DEF Main, Submission
  <2>3. Coming(w)' = Coming(w)
    <3>1. CASE call' = call
      BY <3>1 DEF Coming
    <3>2. ASSUME NEW v \in Workflow, call["main"].step = "idle",
                 Enter("main", "mark", v) \/ (Enter("main", "seq", v) /\ Specs[v].trigger = "request")
          PROVE  Coming(w)' = Coming(w)
      BY <3>2, EnterComing, ChainedSpec DEF Thread
    <3> QED BY <2>2, <3>1, <3>2
  <2> QED BY <1>1, <2>1, <2>3, EarnedStays
<1> QED BY <1>2, <1>3

LEMMA CronEarned ==
    ASSUME TypeInv, NumbersInv, KeptInv, NEW w \in Chained, Earned(w),
           Cron \/ \E v \in Workflow : Due(v)
    PROVE  Earned(w)'
<1>1. Held(w)' = Held(w) /\ Owed(w)' = Owed(w) /\ runs' = runs
  BY CronFrame DEF Held, Owed, InHand
<1>2. CASE Mark("cron") \/ TakeSeq("cron") \/ Put("cron") \/ Signal("cron")
  BY <1>2, SubmitEarned DEF Thread
<1>3. CASE Unblock("cron") \/ Release("cron")
  BY <1>3 DEF Unblock, Release, At, TypeInv, TypeOK, CronLabel
<1>4. CASE Rearm \/ StopCron \/ (\E v \in Workflow : Due(v)) \/ (FireCron /\ call' = call)
  <2>1. queue' = queue /\ call' = call
    BY <1>4 DEF Rearm, StopCron, Due, FireCron, queueVars
  <2> QED BY <1>1, <2>1, EarnedStays DEF Coming
<1>5. CASE FireCron /\ call' # call
  <2>1. queue' = queue /\ call["cron"].step = "idle" /\ Enter("cron", "seq", cur["cron"])
        /\ cur["cron"] # w
    BY <1>5, ChainedSpec DEF FireCron, At, queueVars, TypeInv, CurOK, Triggered
  <2>2. Coming(w)' = Coming(w)
    BY <2>1, EnterComing DEF Thread
  <2> QED BY <1>1, <2>1, <2>2, EarnedStays
<1> QED BY <1>2, <1>3, <1>4, <1>5 DEF Cron, Submission

LEMMA WorkerEarned ==
    ASSUME TypeInv, NumbersInv, KeptInv, NEW w \in Chained, Earned(w), Worker
    PROVE  Earned(w)'
<1> DEFINE p == pc["worker"]
<1>0. /\ pc \in [Thread -> Label] /\ "worker" \in Thread /\ cur \in [Thread -> Workflow \cup {None}]
      /\ todo \in [Thread -> SUBSET Workflow] /\ w \in Workflow
      /\ runs \in [Workflow -> [Status -> Nat]] /\ Specs[w].after \in Workflow
  BY ChainedSpec DEF TypeInv, TypeOK, Thread
<1>1. CASE Mark("worker") \/ TakeSeq("worker") \/ Put("worker") \/ Signal("worker")
  BY <1>1, SubmitEarned DEF Thread
<1>2. CASE Poll \/ GetTimeout \/ Begin \/ Activate \/ Deactivate \/ StartChain \/ FinishChain
           \/ Unblock("worker")
  <2>1. queue' = queue /\ runs' = runs /\ call' = call
    BY <1>2 DEF Poll, GetTimeout, Begin, Activate, Deactivate, StartChain, FinishChain, Unblock,
                queueVars
  <2>2. Held(w)' = Held(w) /\ Owed(w)' = Owed(w)
    BY <1>0, <1>2 DEF Poll, GetTimeout, Begin, Activate, Deactivate, StartChain, FinishChain, Unblock,
                      LoopTest, Held, Owed, InHand, At, Goto, loopVars
  <2> QED BY <2>1, <2>2, EarnedStays DEF Coming
<1>3. CASE Release("worker")
  <2>1. PICK v \in todo["worker"] :
             Enter("worker", "mark", v) /\ todo' = [todo EXCEPT !["worker"] = todo["worker"] \ {v}]
    BY <1>3 DEF Release
  <2>2. Coming(w)' = Coming(w)
    BY <1>3, <2>1, EnterComing DEF Release, At, Thread
  <2>3. queue' = queue /\ runs' = runs /\ Held(w)' = Held(w) /\ Owed(w)' = Owed(w)
    BY <1>0, <1>3, <2>1 DEF Release, Held, Owed, InHand, At, queueVars
  <2> QED BY <2>2, <2>3, EarnedStays
<1>4. CASE GetItem
  <2>1. PICK x \in queue : queue' = queue \ {x} /\ cur' = [cur EXCEPT !["worker"] = x.wf]
    BY <1>4 DEF GetItem
  <2>2. /\ pc["worker"] = "get" /\ pc'["worker"] = "begin" /\ cur'["worker"] = x.wf
        /\ runs' = runs /\ call' = call
    BY <1>0, <1>4, <2>1 DEF GetItem, At, Goto
  <2>3. Held(w) = 0 /\ Owed(w) = 0 /\ Owed(w)' = 0 /\ Held(w)' = IF x.wf = w THEN 1 ELSE 0
    BY <2>2 DEF Held, Owed, InHand
  <2>4. Coming(w)' = Coming(w)
    BY <2>2 DEF Coming
  <2>5. CASE x.wf = w
    <3>1. x \in Queued(w) /\ Queued(w)' = Queued(w) \ {x}
      BY <2>1, <2>5 DEF Queued
    <3>2. Cardinality(Queued(w)') = Cardinality(Queued(w)) - 1
      BY <3>1, CountsFinite, FS_RemoveElement
    <3> QED BY <2>2, <2>3, <2>4, <2>5, <3>2, CountsFinite DEF Earned, Ended
  <2>6. CASE x.wf # w
    <3>1. Queued(w)' = Queued(w)
      BY <2>1, <2>6 DEF Queued
    <3> QED BY <2>2, <2>3, <2>4, <2>6, <3>1, CountsFinite DEF Earned, Ended
  <2> QED BY <2>5, <2>6
<1>5. CASE Run
  <2>1. /\ pc["worker"] = "run" /\ pc'["worker"] = "deactivate" /\ call["worker"].step = "idle"
        /\ UNCHANGED <<queue, runs, cur>>
    BY <1>0, <1>5 DEF Run, At, Goto, queueVars
  <2>2. Owed(w) = 0 /\ Owed(w)' = 0 /\ Queued(w)' = Queued(w)
    BY <2>1 DEF Owed, Queued
  <2>3. Held(w) = IF cur["worker"] = w THEN 1 ELSE 0
    BY <2>1 DEF Held, InHand
  <2>4. CASE status' \in {"success", "failure"} /\ UNCHANGED call
    <3>1. Held(w)' = Held(w) /\ Coming(w)' = Coming(w)
      BY <2>1, <2>4 DEF Held, InHand, Coming
    <3> QED BY <2>1, <2>2, <3>1, EarnedStays
  <2>5. CASE status' = "abandoned" /\ Enter("worker", "seq", cur["worker"])
    <3>1. Held(w)' = 0
      BY <2>1, <2>5 DEF Held
    <3>2. /\ "worker" \notin Coming(w)
          /\ Coming(w)' = IF cur["worker"] = w THEN Coming(w) \cup {"worker"} ELSE Coming(w)
      BY <2>1, <2>5, EnterComing DEF Thread
    <3>3. Cardinality(Coming(w)') = Cardinality(Coming(w)) + Held(w)
      <4>1. Cardinality(Coming(w) \cup {"worker"}) = Cardinality(Coming(w)) + 1
        BY <3>2, CountsFinite, FS_AddElement
      <4> QED BY <2>3, <3>2, <4>1, CountsFinite
    <3> QED BY <2>1, <2>2, <3>1, <3>3, CountsFinite DEF Earned, Ended
  <2> QED BY <1>5, <2>4, <2>5 DEF Run
<1>6. CASE Record
  <2> DEFINE c == cur["worker"]
  <2>1. /\ pc["worker"] = "record" /\ pc'["worker"] = IF status = "success" THEN "unblock" ELSE "poll"
        /\ UNCHANGED <<queue, call, cur, todo, status>>
        /\ runs' = [runs EXCEPT ![c][status] = runs[c][status] + 1]
    BY <1>0, <1>6 DEF Record, At, Goto, queueVars, loopVars, AfterRun
  <2>2. c \in Workflow /\ status \in Status
    BY <2>1 DEF TypeInv, TypeOK, CurOK, InHand
  <2>3. /\ Queued(w)' = Queued(w) /\ Coming(w)' = Coming(w) /\ Owed(w) = 0 /\ Held(w)' = 0
    BY <2>1 DEF Queued, Coming, Owed, Held, InHand
  <2>4. /\ Held(w) = IF c = w /\ status # "abandoned" THEN 1 ELSE 0
        /\ Owed(w)' = IF c = Specs[w].after /\ status = "success" THEN 1 ELSE 0
    BY <2>1 DEF Held, Owed, InHand
  <2>5. \A v \in Workflow, s \in Status :
          runs'[v][s] = IF v = c /\ s = status THEN runs[v][s] + 1 ELSE runs[v][s]
    BY <1>0, <2>1, <2>2
  <2> HIDE DEF c
  <2>6. /\ Ended(w)' = Ended(w) + Held(w)
        /\ runs'[Specs[w].after]["success"] = runs[Specs[w].after]["success"] + Owed(w)'
    <3>1. /\ runs'[Specs[w].after]["success"] =
               runs[Specs[w].after]["success"] + (IF c = Specs[w].after /\ status = "success" THEN 1 ELSE 0)
      BY <1>0, <2>5, CountsFinite DEF Status
    <3>2. /\ runs'[w]["success"] = runs[w]["success"] + (IF c = w /\ status = "success" THEN 1 ELSE 0)
          /\ runs'[w]["failure"] = runs[w]["failure"] + (IF c = w /\ status = "failure" THEN 1 ELSE 0)
      BY <1>0, <2>5, CountsFinite DEF Status
    <3>3. status \in {"success", "failure", "abandoned"}
      BY <2>2 DEF Status
    <3> QED BY <2>4, <3>1, <3>2, <3>3, CountsFinite DEF Ended
  <2> QED BY <2>3, <2>4, <2>6, CountsFinite DEF Earned
<1>7. CASE ChainOne
  <2>1. PICK v \in todo["worker"] :
          /\ todo' = [todo EXCEPT !["worker"] = todo["worker"] \ {v}]
          /\ Enter("worker", "seq", v) \/ UNCHANGED call
    BY <1>7 DEF ChainOne, First
  <2>2. /\ pc["worker"] = "chain" /\ call["worker"].step = "idle" /\ UNCHANGED <<queue, runs, pc, cur, status>>
    BY <1>7 DEF ChainOne, At, queueVars
  <2>3. Queued(w)' = Queued(w) /\ Held(w)' = Held(w)
    BY <2>2 DEF Queued, Held, InHand
  <2>4. CASE v # w
    <3>1. Owed(w)' = Owed(w)
      BY <1>0, <2>1, <2>2, <2>4 DEF Owed
    <3>2. Coming(w)' = Coming(w)
      <4>1. CASE Enter("worker", "seq", v)
        BY <2>2, <2>4, <4>1, EnterComing DEF Thread
      <4>2. CASE UNCHANGED call
        BY <4>2 DEF Coming
      <4> QED BY <2>1, <4>1, <4>2
    <3> QED BY <2>2, <2>3, <3>1, <3>2, EarnedStays
  <2>5. CASE v = w
    <3>1. Owed(w) = 1 /\ Owed(w)' = 0
      BY <1>0, <2>1, <2>2, <2>5 DEF Owed
    <3>2. Cardinality(Coming(w)') <= Cardinality(Coming(w)) + 1 /\ Cardinality(Coming(w)') \in Nat
      <4>1. CASE Enter("worker", "seq", v)
        <5>1. "worker" \notin Coming(w) /\ Coming(w)' = Coming(w) \cup {"worker"}
          BY <2>2, <2>5, <4>1, EnterComing DEF Thread
        <5>2. Cardinality(Coming(w) \cup {"worker"}) = Cardinality(Coming(w)) + 1
          BY <5>1, CountsFinite, FS_AddElement
        <5> QED BY <5>1, <5>2, CountsFinite
      <4>2. CASE UNCHANGED call
        <5>1. Coming(w)' = Coming(w)
          BY <4>2 DEF Coming
        <5> QED BY <5>1, CountsFinite
      <4> QED BY <2>1, <4>1, <4>2
    <3> QED BY <2>2, <2>3, <3>1, <3>2, CountsFinite DEF Earned, Ended
  <2> QED BY <2>4, <2>5
<1> QED BY <1>1, <1>2, <1>3, <1>4, <1>5, <1>6, <1>7 DEF Worker, Submission

\* With Owed, every step keeps the inequality of ChainedRunsAreEarned.
EarnedInv == \A w \in Chained : Earned(w)

LEMMA InitEarned == Init => EarnedInv
<1> SUFFICES ASSUME Init, NEW w \in Chained PROVE Earned(w)
  BY DEF EarnedInv
<1>1. Queued(w) = {} /\ Coming(w) = {} /\ Held(w) = 0 /\ Owed(w) = 0
  BY DEF Init, Queued, Coming, Held, Owed, InHand, IdleCall, Thread
<1>2. runs[Specs[w].after]["success"] = 0 /\ Ended(w) = 0
  BY ChainedSpec DEF Init, Ended, Status
<1> QED BY <1>1, <1>2, FS_EmptySet DEF Earned

LEMMA NextEarned == TypeInv /\ AccountInv /\ KeptInv /\ EarnedInv /\ [Next]_vars => EarnedInv'
<1> SUFFICES ASSUME TypeInv, NumbersInv, KeptInv, [Next]_vars, NEW w \in Chained, Earned(w)
             PROVE  Earned(w)'
  BY DEF EarnedInv, AccountInv, Chained
<1>1. CASE UNCHANGED vars
  BY <1>1 DEF vars, queueVars, loopVars, Earned, Queued, Coming, Held, Ended, Owed, InHand
<1> QED BY <1>1, StepOf, MainEarned, WorkerEarned, CronEarned

\* engine.py:570-582.  For every registry, a chained workflow never runs more often than its
\* predecessor has succeeded, however often its own runs are cancelled and submitted again.
THEOREM ChainsAreEarned == Spec => []ChainedRunsAreEarned
<1>1. TypeInv /\ AccountInv /\ EarnedInv => ChainedRunsAreEarned
  <2>1. SUFFICES ASSUME TypeInv, AccountInv, EarnedInv PROVE ChainedRunsAreEarned
    OBVIOUS
  <2>2. ASSUME NEW w \in Chained
        PROVE  Cardinality(Queued(w)) + Cardinality(Coming(w)) + Held(w)
               + runs[w]["success"] + runs[w]["failure"] <= runs[Specs[w].after]["success"]
    <3>1. Earned(w) /\ NumbersInv
      BY <2>1 DEF AccountInv, EarnedInv
    <3> QED BY <2>1, <3>1, CountsFinite DEF Earned, Ended
  <2>3. ChainedRunsAreEarned
        <=> \A w \in Workflow : Specs[w].after # None =>
              Cardinality(Queued(w)) + Cardinality(Coming(w)) + Held(w)
              + runs[w]["success"] + runs[w]["failure"] <= runs[Specs[w].after]["success"]
    BY Zenon DEF ChainedRunsAreEarned, Queued, Coming, Held
  <2> QED BY <2>2, <2>3 DEF Chained
<1> QED BY InitType, NextType, InitPrereq, NextPrereq, InitKept, NextKept, InitAccount, NextAccount,
           InitEarned, NextEarned, <1>1, PTL DEF Spec

-----------------------------------------------------------------------------
(* CronSchedule                                                             *)

\* engine.py:641-666.  A fixed-hour workflow is scheduled for its hour, later than now
\* and at most a day ahead.
THEOREM NextRunIsWithinADay ==
    ASSUME Day \in Nat, NEW target \in TimeOfDay, NEW now \in TimeOfDay
    PROVE  /\ NextRun(target, now) \in {target, target + Day}
           /\ now < NextRun(target, now) /\ NextRun(target, now) <= now + Day
  BY DEF NextRun, TimeOfDay

\* engine.py:244, 453-464.  The wall clock may stand anywhere when sched, on its monotonic
\* clock, fires a workflow: fired is that reading, in the day numbered days, and the code
\* starts again from that day's midnight.  Fired at its due time or later, be it days later,
\* the workflow is never fired for that time again, and the next time is the first
\* of its hours still to come.  Fired early, it is given the same due time once more.
THEOREM DueTwiceOnlyIfEarly ==
    ASSUME Day \in Nat, NEW target \in TimeOfDay, NEW now \in TimeOfDay,
           NEW days \in Nat, NEW clock \in TimeOfDay
    PROVE  LET due   == NextRun(target, now)
               fired == days * Day + clock
               next  == days * Day + NextRun(target, clock)
           IN  /\ due <= fired => due + Day <= next
               /\ now <= fired /\ fired < due => next = due
               /\ \A k \in Nat : fired < k * Day + target => next <= k * Day + target
<1> DEFINE due   == NextRun(target, now)
           fired == days * Day + clock
           next  == days * Day + NextRun(target, clock)
<1>1. Day \in Nat \ {0} /\ target \in 0..(Day - 1) /\ now \in 0..(Day - 1) /\ clock \in 0..(Day - 1)
  BY DEF TimeOfDay
<1>2. days * Day \in Nat
  BY <1>1
<1>3. ASSUME NEW i \in Nat, NEW j \in Nat, i < j
      PROVE  i * Day + Day <= j * Day
  <2>1. i * Day + Day = (i + 1) * Day /\ (j - (i + 1)) * Day \in Nat
    BY <1>1, <1>3
  <2>2. j * Day = (i + 1) * Day + (j - (i + 1)) * Day
    BY <1>1, <1>3
  <2> QED BY <1>1, <2>1, <2>2
<1>4. days = 0 => days * Day = 0
  BY <1>1
<1>5. days = 1 => days * Day = Day
  BY <1>1
<1>6. days > 1 => 2 * Day <= days * Day
  BY <1>1, <1>3, 1 * Day = Day, 1 \in Nat
<1>7. due \in {target, target + Day} /\ now < due /\ due <= now + Day
  BY <1>1 DEF NextRun
<1>8. next = IF target <= clock THEN days * Day + target + Day ELSE days * Day + target
  BY <1>1, <1>2 DEF NextRun
<1>9. due <= fired => due + Day <= next
  <2> HIDE DEF due, next
  <2>1. CASE days = 0 BY <2>1, <1>1, <1>4, <1>7, <1>8
  <2>2. CASE days = 1 BY <2>2, <1>1, <1>5, <1>7, <1>8
  <2>3. CASE days > 1 BY <2>3, <1>1, <1>2, <1>6, <1>7, <1>8
  <2> QED BY <2>1, <2>2, <2>3
<1>10. now <= fired /\ fired < due => next = due
  <2> HIDE DEF due, next
  <2>1. CASE days = 0 BY <2>1, <1>1, <1>4, <1>7, <1>8 DEF due, NextRun
  <2>2. CASE days = 1 BY <2>2, <1>1, <1>5, <1>7, <1>8
  <2>3. CASE days > 1 BY <2>3, <1>1, <1>2, <1>6, <1>7, <1>8
  <2> QED BY <2>1, <2>2, <2>3
<1>11. ASSUME NEW k \in Nat, fired < k * Day + target
       PROVE  next <= k * Day + target
  <2> HIDE DEF due, next
  <2>1. k * Day \in Nat
    BY <1>1
  <2>2. CASE k < days BY <2>2, <1>1, <1>2, <1>3, <1>11, <2>1
  <2>3. CASE k = days BY <2>3, <1>1, <1>2, <1>8, <1>11
  <2>4. CASE days < k BY <2>4, <1>1, <1>2, <1>3, <1>8, <2>1
  <2> QED BY <2>2, <2>3, <2>4
<1> QED BY <1>9, <1>10, <1>11

\* What WindowStart and WindowEnd come to in a window that opens before it closes.
LEMMA Bounds ==
    ASSUME Day \in Nat, Soon \in Nat,
           NEW start \in TimeOfDay, NEW end \in TimeOfDay, NEW now \in TimeOfDay, start < end
    PROVE  \/ /\ end <= now
              /\ WindowStart(start, end, now) = start + Day /\ Width(start, end, now) = end - start
           \/ /\ now < start
              /\ WindowStart(start, end, now) = start /\ Width(start, end, now) = end - start
           \/ /\ start <= now /\ now < end
              /\ WindowStart(start, end, now) = now + Soon
              /\ Width(start, end, now) = IF end - (now + Soon) <= 0 THEN 1 ELSE end - (now + Soon)
  <1>1. CASE end <= now
    BY <1>1 DEF WindowStart, WindowEnd, Width, Over, Open, TimeOfDay
  <1>2. CASE now < start
    BY <1>2 DEF WindowStart, WindowEnd, Width, Over, Open, TimeOfDay
  <1>3. CASE start <= now /\ now < end
    BY <1>3 DEF WindowStart, WindowEnd, Width, Over, Open, TimeOfDay
  <1> QED BY <1>1, <1>2, <1>3 DEF TimeOfDay

\* engine.py:669-689.  A random-window workflow fires in its window of today or of
\* tomorrow, or within Soon of its end, although the docstring excludes the end
\* itself; it is never scheduled for the past, nor a whole day and more ahead but for Soon.
THEOREM FiresInItsWindow ==
    ASSUME Day \in Nat, Soon \in Nat \ {0},
           NEW start \in TimeOfDay, NEW end \in TimeOfDay, NEW now \in TimeOfDay, start < end,
           NEW t \in Fires(start, end, now)
    PROVE  /\ now < t /\ t <= now + Day + Soon
           /\ \E day \in {0, Day} : start <= t - day /\ t - day <= end + Soon
  <1>1. /\ t \in Int /\ WindowStart(start, end, now) <= t
        /\ t <= WindowStart(start, end, now) + Width(start, end, now)
        /\ WindowStart(start, end, now) \in Int /\ Width(start, end, now) \in Int
    BY Bounds DEF Fires, TimeOfDay
  <1>2. CASE end <= now
    <2>1. start + Day <= t /\ t <= end + Day
      BY <1>1, <1>2, Bounds DEF TimeOfDay
    <2> QED BY <1>1, <1>2, <2>1 DEF TimeOfDay
  <1>3. CASE now < start
    <2>1. start <= t /\ t <= end
      BY <1>1, <1>3, Bounds DEF TimeOfDay
    <2> QED BY <1>1, <1>3, <2>1 DEF TimeOfDay
  <1>4. CASE start <= now /\ now < end
    <2>1. now + Soon <= t /\ t <= end + Soon
      BY <1>1, <1>4, Bounds DEF TimeOfDay
    <2> QED BY <1>1, <1>4, <2>1 DEF TimeOfDay
  <1> QED BY <1>2, <1>3, <1>4 DEF TimeOfDay

\* engine.py:460-462, 679-681.  Fired while its window is open, the workflow is scheduled
\* again in the same window, Soon or more later: it runs again and again until
\* the window has closed, and only then waits for tomorrow.
THEOREM FiresAgainInTheSameWindow ==
    ASSUME Day \in Nat, Soon \in Nat \ {0},
           NEW start \in TimeOfDay, NEW end \in TimeOfDay, NEW now \in start..(end - 1),
           NEW t \in Fires(start, end, now)
    PROVE  now + Soon <= t /\ t <= end + Soon
  <1>1. now \in TimeOfDay /\ start <= now /\ now < end /\ start < end
    BY DEF TimeOfDay
  <1>2. /\ WindowStart(start, end, now) = now + Soon
        /\ Width(start, end, now) = IF end - (now + Soon) <= 0 THEN 1 ELSE end - (now + Soon)
    BY <1>1, Bounds DEF TimeOfDay
  <1> QED BY <1>1, <1>2 DEF Fires, TimeOfDay

\* engine.py:672-685.  A window across midnight is no window: the workflow fires within a
\* second of its opening, and scheduled between the close and the opening it
\* passes over the night to come.
THEOREM WindowAcrossMidnight ==
    ASSUME Day \in Nat, Soon \in Nat,
           NEW start \in TimeOfDay, NEW end \in TimeOfDay, NEW now \in TimeOfDay, end < start,
           NEW t \in Fires(start, end, now)
    PROVE  /\ t \in {start, start + 1, start + Day, start + Day + 1}
           /\ end <= now => t >= start + Day
  <1>1. CASE end <= now
    <2>1. WindowStart(start, end, now) = start + Day /\ Width(start, end, now) = 1
      BY <1>1 DEF WindowStart, WindowEnd, Width, Over, Open, TimeOfDay
    <2> QED BY <1>1, <2>1 DEF Fires, TimeOfDay
  <1>2. CASE now < end
    <2>1. WindowStart(start, end, now) = start /\ Width(start, end, now) = 1
      BY <1>2 DEF WindowStart, WindowEnd, Width, Over, Open, TimeOfDay
    <2> QED BY <1>2, <2>1 DEF Fires, TimeOfDay
  <1> QED BY <1>1, <1>2 DEF TimeOfDay
=============================================================================
