SPECIFICATION Spec
CONSTANTS
  Initials <- MCInitials
  Maxima <- MCMaxima
  MaxAttempts = 12
  DefaultInitial = 3
  MaxDoublings = 4
CHECK_DEADLOCK FALSE
INVARIANT DelayIsCappedExponential
