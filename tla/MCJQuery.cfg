SPECIFICATION LibrarySpec
CONSTANTS
  Browsers = {"standard", "IE", "IE frame"}
  MaxGiven = 2
  MaxHolds = 2
\* Pages may stop, and requests end.
CHECK_DEADLOCK FALSE
INVARIANTS CallbacksCalled AnimationsFollow RequestsEndOnce
PROPERTIES WhenReady HandlersAndDataKept
