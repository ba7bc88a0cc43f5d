SPECIFICATION ScreenSpec
CONSTANTS
  MaxAsk = 4
  Loading = Loading
  Patient = TRUE
CHECK_DEADLOCK FALSE
INVARIANTS UiNeverWaits ShownIsCurrent NoWritesAfterRelease TextVisible ReleaseAccepted SleepAgrees
PROPERTIES ImplementsAsync LoadingEnds SwitchCompletes AcquireDrainsTouches ToneEnds
