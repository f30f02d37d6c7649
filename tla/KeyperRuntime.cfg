\* One half step, two messages, two crashes or lost answers at any moment.
SPECIFICATION Spec
CONSTANTS
  Workers = 1
  MaxParallel = 2
  FirstHalfStep = 1
  MaxHalfSteps = 2
  MaxMessages = 2
  MaxFailures = 2
INVARIANTS
  NeverPanics
  NothingLost
  MessagesInOrder
PROPERTY NeverResent
