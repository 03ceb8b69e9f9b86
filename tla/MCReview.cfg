\* Two projects and two reviewing instances, of one project or one of each.
CONSTANTS
  Projects = {p, q}
  Reviews = {r1, r2}
SPECIFICATION FairSpec
CHECK_DEADLOCK FALSE
INVARIANTS
  TypeOK
  OneReviewPerProject
  RequestsAreTimed
  ReportedOnce
  ActiveIsWatched
PROPERTIES
  ReviewerStopsFirst
  ReviewsEnd
