SPECIFICATION DinoSpec
INVARIANTS
  NeverLeftOn
  LedShowsMotor
PROPERTIES
  Stops
