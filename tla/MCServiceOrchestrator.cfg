SPECIFICATION FairSpec
CONSTANTS
  a = a
  b = b
  c = c
  Node = {a, b, c}
  Plans <- AllPlans
  MaxAttempts = 3
INVARIANTS TypeOK DependenciesSettled UnclearNeverWrites ReportMatchesAudit AuditedSuccessHappened OnlyAuditOrSocketRaises
PROPERTIES RunEnds EffectIsAudited ImplementsPlanExecution
CHECK_DEADLOCK FALSE
