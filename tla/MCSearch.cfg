SPECIFICATION Spec
CONSTANTS
  Row <- MCRow
  Request <- MCRequest
  Ranking <- MCRanking
  Similarity <- MCSimilarity
INVARIANTS
  TypeOK
  BestByFusion
  AgreementKept
CHECK_DEADLOCK FALSE
