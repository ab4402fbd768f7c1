SPECIFICATION Spec
CONSTANTS
  Tasks = {"help", "gifts", "donation", "resources", "city", "troops", "mail", "material", "tavern", "vip", "quest", "training", "upgrade", "inventory", "pit", "rally", "search", "gems", "fog", "sunset", "lost", "account", "character", "reboot"}
  StepsOf <- MCSteps
  RetriedOf <- MCRetried
  SlackOf <- MCSlack
  MemoryOf <- MCMemory
  HandlerOf <- MCHandler
  ReportOf <- MCReport
  ActLimitOf <- MCActLimit
  MaxCrashes = 1
  MaxExecutions = 2
INVARIANTS TypeOK ActsAreBounded ActsAreAllowed SuccessIsVerified FailureIsReported RowTellsAnswer
PROPERTIES SettledNeverActs
CHECK_DEADLOCK FALSE
