\* Two commands of every kind, crashes and restarts, under fairness.
CONSTANTS
  Clients = {c1, c2}
  Requests <- MixedRequests
  Fds = {0, 1, 2, 3}
  Links = {"l1", "l2"}
  Old = Old
  Nothing = Nothing
SPECIFICATION FairSpec
INVARIANTS OwnDescriptors AnswerIsTrue LinkFollowsService OnlyUnanswerableLeaks
PROPERTIES EveryRequestAnswered QueueSurvivesCrash
