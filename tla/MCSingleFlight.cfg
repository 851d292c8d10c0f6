\* Three calls: one leads and fails, one takes over, one comes in between.
SPECIFICATION FairSpec
CONSTANTS
    Callers = {a, b, c}
    Nobody = Nobody
INVARIANT AnswersAreAnswers
PROPERTY ImplementsSharedAnswer
PROPERTY EveryCallReturns
