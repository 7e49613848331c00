\* Up to four records, windows of two, a node page that holds one event.
CONSTANTS
  Cases <- MCCases
  Start <- MCStart
  Count = 1
  PageCap = 1
SPECIFICATION Spec
INVARIANTS ShownOnce MissedOnlyByRaces
PROPERTY SubscriptionServed
CHECK_DEADLOCK FALSE
