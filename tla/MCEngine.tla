------------------------------ MODULE MCEngine ------------------------------
(***************************************************************************)
(* Small registries with the shape of the one _build_engine makes.         *)
(***************************************************************************)
EXTENDS WorkflowEngine, Integers

CONSTANTS seeding, onboarding, thought, integration, push, review, request

Spec_(priority, rank, trigger, requires, after, gated) ==
    [priority |-> priority, rank |-> rank, trigger |-> trigger, requires |-> requires,
     after |-> after, pushGated |-> gated]

\* A startup pair, a cron workflow with two successors (one gated by the push
\* signal), a nightly review and a request; each run takes some of them.
MCSpecs == [w \in Workflow |->
    CASE w = seeding     -> Spec_(0, 1, "startup", None, None, FALSE)
      [] w = onboarding  -> Spec_(0, 2, "startup", seeding, None, FALSE)
      [] w = thought     -> Spec_(9, 3, "cron", None, None, FALSE)
      [] w = integration -> Spec_(8, 4, "completed", None, thought, FALSE)
      [] w = push        -> Spec_(8, 5, "completed", None, thought, TRUE)
      [] w = review      -> Spec_(6, 6, "cron", None, None, FALSE)
      [] w = request     -> Spec_(6, 7, "request", None, None, FALSE)]

\* The schedule of cron events on a day of 24 s with a head start of 2 s: a window that
\* opens before it closes is met, today or tomorrow, from any time of the day.
Small == INSTANCE CronSchedule WITH Day <- 24, Soon <- 2

ASSUME WindowsAreMet ==
    \A start, end, now \in Small!TimeOfDay : start < end =>
        \A t \in Small!Fires(start, end, now) :
            t > now /\ \E day \in {0, 24} : t - day \in start..(end + 2)
=============================================================================
