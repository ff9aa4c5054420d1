CONSTANTS
  MaxRuns = 3
  MaxSteps = 2
  MaxCalls <- TwoThenOne
SPECIFICATION FairSpec
INVARIANT TypeOK
INVARIANT PromptsAreValid
INVARIANT ThreadInOrder
INVARIANT AnswerWins
PROPERTY RunEnds
