SPECIFICATION LiveSpec
CONSTANTS
  Steps <- MCSteps
  Workflow = "workflow"
  Branches <- MCBranches
  Repeat <- MCRepeat
  Attempts <- MCAttempts
  Checked = {"tap", "loop"}
  Timed = {"workflow", "loop"}
  Outcomes = {"SUCCESS", "SKIPPED", "RETRYABLE_FAILURE"}
  MaxSteps = 5
  MaxDepth = 5
  MaxFaults = 2
INVARIANTS
  TypeOK
  ActedAtMostOnce
  EffectIsRecorded
  SuccessIsVerified
  SuccessIsEarned
PROPERTIES
  SettledIsFinal
  RunSettles
