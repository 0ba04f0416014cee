\* Two submissions, one of which may instead be a row from before the request
\* hashes, and a worker that may be redeployed.
CONSTANTS
  Requests = {"r0", "r1"}
  Keys = {"key"}
  Contents = {"c1", "c2"}
  Submissions <- MCSubmissions
  Later = {"c2"}
  HardLimit = 1
  Workers = {"w1"}
  BusinessKeys = {"order"}
  Business <- MCBusiness
  Builds <- MCBuilds
  Tables <- MCTables
  Repeated = {"r0"}
  MaxAttempts <- MCMaxAttempts
  MaxClaims <- MCMaxClaims
SPECIFICATION FairServiceSpec
INVARIANTS
  AnswersNameOneJob
  ResultIsOwnArtifact
PROPERTY ReadyIsFound
CHECK_DEADLOCK FALSE
