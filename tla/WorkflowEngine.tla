--------------------------- MODULE WorkflowEngine ---------------------------
(***************************************************************************)
(* The workflow engine of kai_daemon/engine.py: one worker thread drains a *)
(* priority queue; the main thread, the cron thread and the worker itself  *)
(* submit to it; a submission signals preemption to a run of lower         *)
(* priority.                                                               *)
(*                                                                         *)
(* Every critical section of the code (a lock, a queue operation, an       *)
(* unlocked access to _waiting) is one atomic step.  A call of submit() or *)
(* _enqueue_spec() is a subroutine of three or four such steps; call[t]    *)
(* says how far the call that thread t is making has got.                  *)
(***************************************************************************)
EXTENDS Naturals, FiniteSets

CONSTANTS Workflow,   \* the names of the registered workflows
          Specs,      \* name -> the fields of its WorkflowSpec the engine reads
          None,       \* Python's None
          MaxEvents   \* bound on requests, cron firings and cancelled runs

Trigger == {"startup", "completed", "cron", "request"}

WorkflowSpec == [priority : Nat, rank : Nat, trigger : Trigger, pushGated : BOOLEAN,
                 requires : Workflow \cup {None}, after : Workflow \cup {None}]

\* As in the registry _build_engine makes, only a workflow_completed workflow
\* names a predecessor.  rank is the position in the registration order.
ASSUME SpecsAssumption ==
    /\ None \notin Workflow
    /\ Specs \in [Workflow -> WorkflowSpec]
    /\ \A v, w \in Workflow : Specs[v].rank = Specs[w].rank => v = w
    /\ \A w \in Workflow : Specs[w].after # None => Specs[w].trigger = "completed"

ASSUME MaxEventsAssumption == MaxEvents \in Nat

VARIABLES
    queue,      \* _queue: items [wf, seq]
    nextSeq,    \* _sequence_counter
    lifecycle,  \* _lifecycle
    waiting,    \* _waiting
    active,     \* _active_spec_name, set and cleared together with _active_ctx
    preempted,  \* the preempt event of _active_ctx
    shutdown,   \* _shutdown
    armed,      \* the workflows that have an event in _cron_scheduler
    pc,         \* what each thread does next
    call,       \* the submission each thread is in the middle of
    cur,        \* the workflow each thread is busy with
    todo,       \* the workflows each thread's current loop has still to visit
    left,       \* the startup workflows the main thread has still to evaluate
    status,     \* the worker's local variable of that name
    runs,       \* workflow_runs.jsonl, as counts per workflow and status
    resolved,   \* history: workflows that ever were COMPLETED or NOT_NEEDED
    events      \* counts the steps MaxEvents bounds

queueVars == <<queue, nextSeq>>
lifeVars  == <<lifecycle, resolved>>
runVars   == <<active, preempted>>
loopVars  == <<todo, left, status>>
envVars   == <<shutdown, armed, events>>
vars == <<queueVars, lifeVars, waiting, runVars, envVars, pc, call, cur, loopVars, runs>>

Thread    == {"main", "worker", "cron"}
Lifecycle == {"not_needed", "waiting", "pending", "running", "completed", "failed"}
Resolved  == {"completed", "not_needed"}
Status    == {"success", "failure", "abandoned"}
Item      == [wf : Workflow, seq : Nat]
Step      == {"idle", "mark", "seq", "put", "signal"}
Call      == [step : Step, wf : Workflow \cup {None}, seq : Nat]
IdleCall  == [step |-> "idle", wf |-> None, seq |-> 0]
MainLabel   == {"evaluate", "check", "hold", "park", "unblock", "release", "serve", "stopped"}
WorkerLabel == {"poll", "get", "begin", "activate", "run", "deactivate", "record",
                "unblock", "release", "chain", "stopped"}
CronLabel   == {"tick", "fire", "rearm", "stopped"}
Label       == MainLabel \cup WorkerLabel \cup CronLabel

CallOK == /\ call \in [Thread -> Call]
          /\ \A t \in Thread : call[t].step # "idle" => call[t].wf \in Workflow

\* Every variable has its type, and each thread is at a label of its own code.
TypeOK ==
    /\ queue \in SUBSET Item /\ nextSeq \in Nat
    /\ lifecycle \in [Workflow -> Lifecycle] /\ resolved \in SUBSET Workflow
    /\ waiting \in SUBSET Workflow
    /\ active \in Workflow \cup {None} /\ preempted \in BOOLEAN
    /\ shutdown \in BOOLEAN /\ armed \in SUBSET Workflow /\ events \in Nat
    /\ pc \in [Thread -> Label]
    /\ pc["main"] \in MainLabel /\ pc["worker"] \in WorkerLabel /\ pc["cron"] \in CronLabel
    /\ CallOK
    /\ cur \in [Thread -> Workflow \cup {None}]
    /\ todo \in [Thread -> SUBSET Workflow] /\ left \in SUBSET Workflow
    /\ status \in Status
    /\ runs \in [Workflow -> [Status -> Nat]]

Triggered(trigger) == {w \in Workflow : Specs[w].trigger = trigger}

\* start() has just started the two threads; register() left all PENDING.
Init ==
    /\ queue = {} /\ nextSeq = 0
    /\ lifecycle = [w \in Workflow |-> "pending"] /\ resolved = {}
    /\ waiting = {}
    /\ active = None /\ preempted = FALSE
    /\ shutdown = FALSE /\ armed = {} /\ events = 0
    /\ pc = [t \in Thread |-> CASE t = "main" -> "evaluate" [] t = "worker" -> "poll"
                                [] t = "cron" -> "tick"]
    /\ call = [t \in Thread |-> IdleCall]
    /\ cur = [t \in Thread |-> None]
    /\ todo = [t \in Thread |-> {}] /\ left = Triggered("startup")
    /\ status = "failure"
    /\ runs = [w \in Workflow |-> [s \in Status |-> 0]]

-----------------------------------------------------------------------------
(* Submission: _enqueue_spec() and submit(), called by any thread           *)

\* Thread t is at label `at`, not inside a submission.
At(t, at) == pc[t] = at /\ call[t].step = "idle"

Goto(t, at) == pc' = [pc EXCEPT ![t] = at]

\* Enter _enqueue_spec(w) at step "mark", or submit(w) at step "seq".
Enter(t, step, w) == call' = [call EXCEPT ![t] = [step |-> step, wf |-> w, seq |-> 0]]

SetLifecycle(w, state) ==
    /\ lifecycle' = [lifecycle EXCEPT ![w] = state]
    /\ resolved' = IF state \in Resolved THEN resolved \cup {w} ELSE resolved

\* The loops over self._specs.values() go in registration order.
First(S) == {w \in S : \A v \in S : Specs[w].rank <= Specs[v].rank}

Outranks(v, w) == Specs[v].priority < Specs[w].priority

\* _enqueue_spec: PENDING, then submit().
Mark(t) ==
    /\ call[t].step = "mark"
    /\ SetLifecycle(call[t].wf, "pending")
    /\ call' = [call EXCEPT ![t].step = "seq"]
    /\ UNCHANGED <<queueVars, waiting, runVars, envVars, pc, cur, loopVars, runs>>

\* submit: a sequence number, under _sequence_lock.
TakeSeq(t) ==
    /\ call[t].step = "seq"
    /\ call' = [call EXCEPT ![t].step = "put", ![t].seq = nextSeq]
    /\ nextSeq' = nextSeq + 1
    /\ UNCHANGED <<queue, lifeVars, waiting, runVars, envVars, pc, cur, loopVars, runs>>

\* submit: the item enters the priority queue.
Put(t) ==
    /\ call[t].step = "put"
    /\ queue' = queue \cup {[wf |-> call[t].wf, seq |-> call[t].seq]}
    /\ call' = [call EXCEPT ![t].step = "signal"]
    /\ UNCHANGED <<nextSeq, lifeVars, waiting, runVars, envVars, pc, cur, loopVars, runs>>

\* Mutant: _enqueue_spec submits first and marks PENDING last.
LateMark(t) ==
    /\ call[t].step = "signal"
    /\ preempted' = (preempted \/ (active # None /\ Outranks(call[t].wf, active)))
    /\ IF Specs[call[t].wf].trigger = "startup"
       THEN SetLifecycle(call[t].wf, "pending") ELSE UNCHANGED lifeVars
    /\ call' = [call EXCEPT ![t] = IdleCall]
    /\ UNCHANGED <<queueVars, waiting, active, envVars, pc, cur, loopVars, runs>>

\* submit: under _active_lock, preempt the active run if it has lower priority.
Signal(t) ==
    /\ call[t].step = "signal"
    /\ preempted' = (preempted \/ (active # None /\ Outranks(call[t].wf, active)))
    /\ call' = [call EXCEPT ![t] = IdleCall]
    /\ UNCHANGED <<queueVars, lifeVars, waiting, active, envVars, pc, cur, loopVars, runs>>

\* Mutants: a prerequisite that has been started counts as resolved; one that has
\* completed does not.
ResolvedOnceStarted(r) == lifecycle[r] \notin {"pending", "waiting"}
ResolvedIfNotNeeded(r) == lifecycle[r] = "not_needed"

IsResolved(r) == lifecycle[r] \in Resolved

\* _unblock_waiters(cur[t]): the waiters of a resolved prerequisite leave
\* _waiting, and Release then enqueues them one by one.
Unblock(t) ==
    /\ At(t, "unblock")
    /\ LET found == {w \in waiting : /\ Specs[w].requires = cur[t]
                                     /\ IsResolved(cur[t])}
       IN  waiting' = waiting \ found /\ todo' = [todo EXCEPT ![t] = found]
    /\ Goto(t, "release")
    /\ UNCHANGED <<queueVars, lifeVars, runVars, envVars, call, cur, left, status, runs>>

Release(t) ==
    /\ At(t, "release")
    /\ \E w \in todo[t] : Enter(t, "mark", w) /\ todo' = [todo EXCEPT ![t] = @ \ {w}]
    /\ UNCHANGED <<queueVars, lifeVars, waiting, runVars, envVars, pc, cur, left,
                   status, runs>>

-----------------------------------------------------------------------------
(* The main thread: start(), then requests by others, then shutdown()       *)

\* _evaluate_startup_conditions for w, whose condition evaluates to met.
Evaluate(w, met) ==
    \/ /\ ~met
       /\ SetLifecycle(w, "not_needed")
       /\ Goto("main", "unblock")
       /\ UNCHANGED call
    \/ /\ met /\ Specs[w].requires = None
       /\ Enter("main", "mark", w)
       /\ UNCHANGED <<lifeVars, pc>>
    \/ /\ met /\ Specs[w].requires # None
       /\ Goto("main", "check")
       /\ UNCHANGED <<lifeVars, call>>

EvaluateStartup ==
    /\ At("main", "evaluate")
    /\ \E w \in First(left), met \in BOOLEAN :
         /\ Evaluate(w, met)
         /\ left' = left \ {w}
         /\ cur' = [cur EXCEPT !["main"] = w]
    /\ UNCHANGED <<queueVars, waiting, runVars, envVars, todo, status, runs>>

\* The prerequisite's lifecycle is read under the lock, then the lock is released.
CheckPrerequisite ==
    /\ At("main", "check")
    /\ IF IsResolved(Specs[cur["main"]].requires)
       THEN Enter("main", "mark", cur["main"]) /\ Goto("main", "evaluate")
       ELSE Goto("main", "hold") /\ UNCHANGED call
    /\ UNCHANGED <<queueVars, lifeVars, waiting, runVars, envVars, cur, loopVars, runs>>

HoldBack ==
    /\ At("main", "hold")
    /\ SetLifecycle(cur["main"], "waiting")
    /\ Goto("main", "park")
    /\ UNCHANGED <<queueVars, waiting, runVars, envVars, call, cur, loopVars, runs>>

Park ==
    /\ At("main", "park")
    /\ waiting' = waiting \cup {cur["main"]}
    /\ Goto("main", "evaluate")
    /\ UNCHANGED <<queueVars, lifeVars, runVars, envVars, call, cur, loopVars, runs>>

Unblocked ==
    /\ At("main", "release") /\ todo["main"] = {}
    /\ Goto("main", "evaluate")
    /\ UNCHANGED <<queueVars, lifeVars, waiting, runVars, envVars, call, cur, loopVars, runs>>

\* _schedule_cron_workflows, and start() returns.
FinishStart ==
    /\ At("main", "evaluate") /\ left = {}
    /\ armed' = armed \cup Triggered("cron")
    /\ Goto("main", "serve")
    /\ UNCHANGED <<queueVars, lifeVars, waiting, runVars, shutdown, events, call, cur,
                   loopVars, runs>>

\* submit() from outside the engine: conversation_ended and workflow_request.
Request(w) ==
    /\ At("main", "serve") /\ events < MaxEvents
    /\ Specs[w].trigger = "request"
    /\ Enter("main", "seq", w)
    /\ events' = events + 1
    /\ UNCHANGED <<queueVars, lifeVars, waiting, runVars, shutdown, armed, pc, cur,
                   loopVars, runs>>

Shutdown ==
    /\ At("main", "serve")
    /\ shutdown' = TRUE
    /\ Goto("main", "stopped")
    /\ UNCHANGED <<queueVars, lifeVars, waiting, runVars, armed, events, call, cur,
                   loopVars, runs>>

-----------------------------------------------------------------------------
(* The cron thread                                                          *)

\* sched pops the event of w, which is due: a delay of any length, which the two helpers
\* compute from the clock, has passed.
Due(w) ==
    /\ At("cron", "tick") /\ w \in armed /\ events < MaxEvents
    /\ armed' = armed \ {w}
    /\ cur' = [cur EXCEPT !["cron"] = w]
    /\ Goto("cron", "fire")
    /\ events' = events + 1
    /\ UNCHANGED <<queueVars, lifeVars, waiting, runVars, shutdown, call, loopVars, runs>>

\* _fire_cron: nothing after shutdown, else submit() and then reschedule.
FireCron ==
    /\ At("cron", "fire")
    /\ IF shutdown THEN Goto("cron", "tick") /\ UNCHANGED call
                   ELSE Goto("cron", "rearm") /\ Enter("cron", "seq", cur["cron"])
    /\ UNCHANGED <<queueVars, lifeVars, waiting, runVars, envVars, cur, loopVars, runs>>

\* Mutant: a random-window workflow is rescheduled as a fixed-time one, and
\* _seconds_until_next_run has no time for it.
NoNextEvent == {}

NextEvent == {cur["cron"]}

Rearm ==
    /\ At("cron", "rearm")
    /\ armed' = armed \cup NextEvent
    /\ Goto("cron", "tick")
    /\ UNCHANGED <<queueVars, lifeVars, waiting, runVars, shutdown, events, call, cur,
                   loopVars, runs>>

StopCron ==
    /\ At("cron", "tick") /\ shutdown
    /\ Goto("cron", "stopped")
    /\ UNCHANGED <<queueVars, lifeVars, waiting, runVars, envVars, call, cur, loopVars, runs>>

-----------------------------------------------------------------------------
(* The worker thread                                                        *)

\* Mutant: the loop does not test _shutdown.
LoopForever == "get"

\* The loop's test of _shutdown.
LoopTest == IF shutdown THEN "stopped" ELSE "get"

Poll ==
    /\ At("worker", "poll")
    /\ Goto("worker", LoopTest)
    /\ UNCHANGED <<queueVars, lifeVars, waiting, runVars, envVars, call, cur, loopVars, runs>>

\* _QueueItem's order: priority, then sequence.
Before(x, y) == Outranks(x.wf, y.wf)
                \/ (Specs[x.wf].priority = Specs[y.wf].priority /\ x.seq < y.seq)

GetItem ==
    /\ At("worker", "get")
    /\ \E x \in queue : /\ \A y \in queue \ {x} : Before(x, y)
                        /\ queue' = queue \ {x}
                        /\ cur' = [cur EXCEPT !["worker"] = x.wf]
    /\ Goto("worker", "begin")
    /\ UNCHANGED <<nextSeq, lifeVars, waiting, runVars, envVars, call, loopVars, runs>>

GetTimeout ==
    /\ At("worker", "get") /\ queue = {}
    /\ Goto("worker", "poll")
    /\ UNCHANGED <<queueVars, lifeVars, waiting, runVars, envVars, call, cur, loopVars, runs>>

Begin ==
    /\ At("worker", "begin")
    /\ SetLifecycle(cur["worker"], "running")
    /\ Goto("worker", "activate")
    /\ UNCHANGED <<queueVars, waiting, runVars, envVars, call, cur, loopVars, runs>>

\* A new PreemptionContext becomes _active_ctx.
Activate ==
    /\ At("worker", "activate")
    /\ active' = cur["worker"] /\ preempted' = FALSE
    /\ Goto("worker", "run")
    /\ UNCHANGED <<queueVars, lifeVars, waiting, envVars, call, cur, loopVars, runs>>

\* spec.fn() returns, raises, or raises WorkflowCancelledError; then it is
\* submitted again before the finally block runs.
Run ==
    /\ At("worker", "run")
    /\ \/ /\ status' \in {"success", "failure"}
          /\ UNCHANGED <<call, events>>
       \/ /\ events < MaxEvents
          /\ events' = events + 1
          /\ status' = "abandoned"
          /\ Enter("worker", "seq", cur["worker"])
    /\ Goto("worker", "deactivate")
    /\ UNCHANGED <<queueVars, lifeVars, waiting, runVars, shutdown, armed, cur, todo,
                   left, runs>>

Deactivate ==
    /\ At("worker", "deactivate")
    /\ active' = None /\ preempted' = FALSE
    /\ Goto("worker", "record")
    /\ UNCHANGED <<queueVars, lifeVars, waiting, envVars, call, cur, loopVars, runs>>

\* Mutant: the lifecycle of a cancelled run is its status.
OutcomeRaw == [success |-> "completed", failure |-> "failed", abandoned |-> "abandoned"]

\* The new lifecycle and the entry of the run log; waiters and chained
\* workflows are served after a success only.
Outcome == [success |-> "completed", failure |-> "failed", abandoned |-> "pending"]

\* Mutants: waiters and successors are served after every run; an exception of
\* a workflow ends the worker thread.
AlwaysServe == "unblock"
ServeOrDie  == CASE status = "success" -> "unblock" [] status = "failure" -> "stopped"
                 [] OTHER -> "poll"

AfterRun == IF status = "success" THEN "unblock" ELSE "poll"

\* Mutant: a cancelled run is not logged.
RecordFinished ==
    /\ At("worker", "record")
    /\ SetLifecycle(cur["worker"], Outcome[status])
    /\ runs' = [runs EXCEPT ![cur["worker"]][status] = IF status = "abandoned" THEN @ ELSE @ + 1]
    /\ Goto("worker", AfterRun)
    /\ UNCHANGED <<queueVars, waiting, runVars, envVars, call, cur, loopVars>>

Record ==
    /\ At("worker", "record")
    /\ SetLifecycle(cur["worker"], Outcome[status])
    /\ runs' = [runs EXCEPT ![cur["worker"]][status] = @ + 1]
    /\ Goto("worker", AfterRun)
    /\ UNCHANGED <<queueVars, waiting, runVars, envVars, call, cur, loopVars>>

StartChain ==
    /\ At("worker", "release") /\ todo["worker"] = {}
    /\ todo' = [todo EXCEPT !["worker"] = {w \in Workflow : Specs[w].after = cur["worker"]}]
    /\ Goto("worker", "chain")
    /\ UNCHANGED <<queueVars, lifeVars, waiting, runVars, envVars, call, cur, left,
                   status, runs>>

\* _fire_chained_triggers, one successor: a gated one only if push_signal_fn().
ChainOne ==
    /\ At("worker", "chain")
    /\ \E w \in First(todo["worker"]) :
         /\ todo' = [todo EXCEPT !["worker"] = @ \ {w}]
         /\ \/ Enter("worker", "seq", w)
            \/ Specs[w].pushGated /\ UNCHANGED call
    /\ UNCHANGED <<queueVars, lifeVars, waiting, runVars, envVars, pc, cur, left,
                   status, runs>>

FinishChain ==
    /\ At("worker", "chain") /\ todo["worker"] = {}
    /\ Goto("worker", "poll")
    /\ UNCHANGED <<queueVars, lifeVars, waiting, runVars, envVars, call, cur, loopVars, runs>>

-----------------------------------------------------------------------------
Submission(t) == Mark(t) \/ TakeSeq(t) \/ Put(t) \/ Signal(t) \/ Unblock(t) \/ Release(t)

Main == \/ EvaluateStartup \/ CheckPrerequisite \/ HoldBack \/ Park \/ Unblocked
        \/ FinishStart \/ Submission("main")

Worker == \/ Poll \/ GetItem \/ GetTimeout \/ Begin \/ Activate \/ Run \/ Deactivate
          \/ Record \/ StartChain \/ ChainOne \/ FinishChain \/ Submission("worker")

Cron == FireCron \/ Rearm \/ StopCron \/ Submission("cron")

Environment == (\E w \in Workflow : Request(w) \/ Due(w)) \/ Shutdown

\* All three threads have ended.
Terminated == (\A t \in Thread : At(t, "stopped")) /\ UNCHANGED vars

Next == Main \/ Worker \/ Cron \/ Environment \/ Terminated

Spec == Init /\ [][Next]_vars

\* Each thread keeps running, and every workflow function ends.  Nobody has to
\* make a request, no cron event has to fall due and nobody has to shut down.
FairSpec == Spec /\ WF_vars(Main) /\ WF_vars(Worker) /\ WF_vars(Cron)
-----------------------------------------------------------------------------
(* Properties                                                               *)

\* The worker has taken an item and has not yet logged its run.
InHand == pc["worker"] \in {"begin", "activate", "run", "deactivate", "record"}

InCall(w) == \E t \in Thread : call[t].step # "idle" /\ call[t].wf = w

Enqueued(w) == \/ \E x \in queue : x.wf = w
               \/ InCall(w)
               \/ InHand /\ cur["worker"] = w

\* engine.py:19-22.  A startup workflow that requires another is on its way to
\* the worker only if that one has completed, or was found not to be needed,
\* whatever the interleaving of start() with the worker.
PrerequisitesEnforced ==
    \A w \in Triggered("startup") :
        Enqueued(w) /\ Specs[w].requires # None => Specs[w].requires \in resolved

\* _lifecycle is written by two threads under a lock that orders nothing else:
\* it still says RUNNING of exactly the workflow the worker is executing.
RunningIsInHand ==
    \A w \in Workflow :
        lifecycle[w] = "running"
        <=> pc["worker"] \in {"activate", "run", "deactivate", "record"} /\ cur["worker"] = w

\* The entries of workflow_runs.jsonl: the nth run of w that ended with status s.
Logged == UNION {{<<w, s, n>> : n \in 1..runs[w][s]} : w \in Workflow, s \in Status}

\* engine.py:29-33.  Every submission that took a sequence number is, at any
\* time, in exactly one place: about to be queued, queued, in the worker's
\* hands, or an entry of the run log, whatever the outcome of its run.
EverySubmissionAccounted ==
    nextSeq = Cardinality(queue) + Cardinality({t \in Thread : call[t].step = "put"})
              + (IF InHand THEN 1 ELSE 0) + Cardinality(Logged)

\* A chained workflow is owed one run per success of its predecessor: counting
\* what is queued, on its way or finished, it never gets more (a cancelled run
\* is submitted again and counts once).
ChainedRunsAreEarned ==
    \A w \in Workflow : Specs[w].after # None =>
        Cardinality({x \in queue : x.wf = w})
        + Cardinality({t \in Thread : call[t].wf = w /\ call[t].step \in {"seq", "put"}})
        + (IF /\ InHand /\ cur["worker"] = w
              /\ pc["worker"] \in {"deactivate", "record"} => status # "abandoned"
           THEN 1 ELSE 0)
        + runs[w]["success"] + runs[w]["failure"] <= runs[Specs[w].after]["success"]

\* Once start() has returned, every cron workflow has an event to come or is
\* being fired at this moment, until shutdown.
CronStaysScheduled ==
    pc["main"] = "serve" /\ ~shutdown =>
        \A w \in Triggered("cron") :
            w \in armed \/ (pc["cron"] \in {"fire", "rearm"} /\ cur["cron"] = w)

\* A queued item is eventually run, unless the engine is shut down first:
\* failures, cancellations and preemptions of other runs lose nothing.
QueuedRuns ==
    \A w \in Workflow : (\E x \in queue : x.wf = w)
                         ~> (shutdown \/ (pc["worker"] = "run" /\ cur["worker"] = w))

\* A workflow that is in _waiting when its prerequisite's run succeeds is run.
WaiterIsReleased ==
    \A w \in Workflow :
        (/\ w \in waiting /\ Specs[w].requires = cur["worker"]
         /\ pc["worker"] = "record" /\ status = "success")
        ~> (shutdown \/ (pc["worker"] = "run" /\ cur["worker"] = w))

\* After shutdown() all threads end, whatever is still queued.
ShutdownEnds == shutdown ~> (\A t \in Thread : pc[t] = "stopped")

\* engine.py:19-22 and 387: a waiting workflow does not stay in _waiting once
\* its prerequisite is COMPLETED or NOT_NEEDED.
NoWaiterForgotten ==
    \A w \in Workflow :
        (w \in waiting /\ lifecycle[Specs[w].requires] \in Resolved)
        ~> (shutdown \/ w \notin waiting)
=============================================================================
