SPECIFICATION FairSpec
CONSTANTS
  None = None
  seeding = seeding
  onboarding = onboarding
  thought = thought
  integration = integration
  push = push
  review = review
  request = request
  Workflow = {seeding, onboarding}
  Specs <- MCSpecs
  MaxEvents = 0
PROPERTY
  NoWaiterForgotten
