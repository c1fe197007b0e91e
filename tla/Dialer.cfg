SPECIFICATION FairSpec
CHECK_DEADLOCK FALSE
INVARIANTS
  TypeOK
  NoLostRedial
  BlockedDialerHasEvent
  OnlineMeansUp
PROPERTIES
  RedialReconnects
