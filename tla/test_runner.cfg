SPECIFICATION FairSpec
CONSTANTS
  suite = suite
  example = example
  skipped = skipped
  Job = {suite, example, skipped}
  Example = {example}
  Skipped = {skipped}
  w1 = w1
  w2 = w2
  Worker = {w1, w2}
  Outcomes = {"PASS", "FAIL", "VALGR", "CRASH"}
  MayRaise = TRUE
  Break = Break
  NoJob = NoJob
INVARIANTS
  JobsAreConserved
  BreaksComeLast
  SuccessIsEarned
PROPERTIES
  Terminates
CHECK_DEADLOCK FALSE
