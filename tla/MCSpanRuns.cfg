\* Two threads, at most three spans, two enters, two notes; queues of two messages.
CONSTANTS
  t1 = t1
  t2 = t2
  Threads <- MCThreads
  MaxSpans = 3
  Apps <- MCApps
  EnableEnter = TRUE
  MaxNotes = 2
  MaxEnters = 2
  MaxLag = 2
SPECIFICATION Spec
INVARIANTS
  TypeOK
  OnlySidRefused
  RowsAgree
  MarkedOnlyUnderRoots
  OnlySharedSkipped
PROPERTY StopHandled
CHECK_DEADLOCK FALSE
