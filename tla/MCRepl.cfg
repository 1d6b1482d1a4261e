SPECIFICATION Spec
CONSTANTS
  MaxInt = 7
  MaxWide = 60
  Base = 3
  MaxLines = 3
  Names = {"x", "y"}
  Lines <- MCLines
  Answers <- MCAnswers
  EnsNames <- MCEnsNames
CHECK_DEADLOCK FALSE
INVARIANTS SentAsMeant AddressesAreAddresses
PROPERTIES FailuresAssignNothing
