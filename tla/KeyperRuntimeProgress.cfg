\* The first two half steps, also executed in parallel, two crashes or lost
\* answers.
SPECIFICATION FairSpec
CONSTANTS
  Workers = 1
  MaxParallel = 2
  FirstHalfStep = 0
  MaxHalfSteps = 2
  MaxMessages = 0
  MaxFailures = 2
INVARIANT NoCompetingExecutions
PROPERTY EveryActionEnds
