CONSTANTS
  Inputs <- MCInputs
  Requests <- MCRequests
  Plans <- MCPlans
  BatchMax = 2
SPECIFICATION RDFairSpec
INVARIANTS CarriedInv ReadyWasProven
PROPERTY RequestsSettle
CHECK_DEADLOCK FALSE
