SPECIFICATION FeedbackSpec
ACTION_CONSTRAINT FeedbackBounds
CHECK_DEADLOCK FALSE
CONSTANTS
  e1 = e1
  Exporter = {e1}
  MaxTime = 4
  MaxText = 2
  MaxVersion = 2
INVARIANTS FeedbackTypeOK FeedbackIsTrue
