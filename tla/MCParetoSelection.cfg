CONSTANTS
  NumChoices = 4
  Amounts = {1, 2, 3}
SPECIFICATION SelectionSpec
INVARIANTS Antichain ParetoOptimal
CHECK_DEADLOCK FALSE
