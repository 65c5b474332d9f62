SPECIFICATION Spec
CONSTANTS
  slow = slow
  prompt = prompt
  Writers = {slow, prompt}
  Prompt = {prompt}
  Reusable = {}
  MaxRounds = 2
  MaxRevision = 2
INVARIANTS TypeOK IntegrationIsApproved NoStrandedApproval OnlyNewestRoundOpen 
PROPERTIES DecisionsAreKept RepairIsAnswered
CHECK_DEADLOCK FALSE
