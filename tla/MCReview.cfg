SPECIFICATION MCSpec
CONSTANTS
  r1 = r1
  r2 = r2
  m1 = m1
  v1 = v1
  Reviewers = {r1, r2}
  Models = {m1}
  Migrations = {v1}
  Inventoried = {m1, v1}
  Contents = {1, 2}
  Tools = {1, 2}
  EditsDuringReview = FALSE
  q1 = q1
  q2 = q2
  q3 = q3
  c1 = c1
  c2 = c2
  e1 = e1
  e2 = e2
  Requests = {q1, q2, q3}
  Recommendations = {c1, c2}
  Evidence = {e1}
  MaxReviews = 2
  MaxConcurrent = 3
SYMMETRY Perms
INVARIANTS
  HitIsFresh
  CodeMatchesModels
  DecisionsAreGrounded
  LostOnlyToOverlap
  LatestWins
CHECK_DEADLOCK FALSE
