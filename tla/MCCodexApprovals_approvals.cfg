SPECIFICATION Spec
CONSTANTS
  s1 = s1
  s2 = s2
  m1 = m1
  Sessions = {s1, s2}
  Materials = {m1}
  Timeout = 2
  CommandTtl = 1
  MaxTime = 2
  MaxRequests = 2
  MaxDecisions = 2
  MaxRuns = 2
SYMMETRY Symmetry
INVARIANTS TypeOK AnswersAreDecisions EffectsAreAnswers OkMeansAnswered
PROPERTIES ImplementsOneShotApproval
CHECK_DEADLOCK FALSE
