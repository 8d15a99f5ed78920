SPECIFICATION FairSpec
CONSTANTS
  None = None
  seeding = seeding
  onboarding = onboarding
  thought = thought
  integration = integration
  push = push
  review = review
  request = request
  Workflow = {seeding, onboarding, thought, push, request}
  Specs <- MCSpecs
  MaxEvents = 2
INVARIANTS
  TypeOK
  PrerequisitesEnforced
  RunningIsInHand
  EverySubmissionAccounted
  ChainedRunsAreEarned
  CronStaysScheduled
PROPERTIES
  QueuedRuns
  WaiterIsReleased
  ShutdownEnds
