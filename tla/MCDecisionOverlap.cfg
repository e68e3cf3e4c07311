SPECIFICATION SpecLog
CONSTANTS
  q1 = q1
  q2 = q2
  q3 = q3
  c1 = c1
  c2 = c2
  e1 = e1
  e2 = e2
  Requests = {q1, q2}
  Recommendations = {c1, c2}
  Evidence = {e1, e2}
  MaxReviews = 2
  MaxConcurrent = 2
INVARIANT AnsweredAreKept
CHECK_DEADLOCK FALSE
