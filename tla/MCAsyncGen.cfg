SPECIFICATION FairSpec
CONSTANTS
  MaxRequests = 5
  MaxAwaits = 3
CHECK_DEADLOCK FALSE
INVARIANTS AssertsHold AnswersExact
PROPERTIES ClosedForGood AnsweredUnlessBacklog
