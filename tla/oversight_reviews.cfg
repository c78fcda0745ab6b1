SPECIFICATION FairReviewSpec
CONSTANTS
  Tasks = {t1}
  Reviews = {r1, r2}
  NoReview = NoReview
  MaxRounds = 2
  MaxRetries = 2
  LoopRepeats = 2
  MaxCount = 3
  MaxJobs = 2
  ReviewScenarios <- AllScenarios
PROPERTIES AcceptedByItsReview DelegatedEnds
CHECK_DEADLOCK FALSE
