SPECIFICATION Spec
CONSTANT Kinds <- MCKinds
INVARIANTS
  DoubtEndsWorker
  CommitRestsOnLedger
  ProcessGoneFirst
  ReportsAreOffered
  StoppedStepMoves
