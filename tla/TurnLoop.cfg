CONSTANTS
  Geo = geo
  run = run
  Rounds <- MCRounds
  Composers <- MCComposers
  StepCap = 3
  RepeatN = 2
  RetryCap = 2
  WrapUp = 2
  MaxText = 2
  MaxOthers = 1
  Local = TRUE
  NoSig = NoSig
SPECIFICATION Spec
INVARIANTS TypeOK NothingSaidIsLost ReplayIsTheTurn StreamIsClosed MarksOnItsTurn GuardsAreExact
PROPERTY TurnEnds
CHECK_DEADLOCK FALSE
