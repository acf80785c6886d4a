SPECIFICATION Spec
CONSTANTS
  old = old
  new1 = new1
  new2 = new2
  Replicas <- MCReplicas
  Files <- MCFiles
  Embedded <- MCEmbedded
  MaxFaults = 2
INVARIANTS
  TypeOK
  ExactlyOnce
  NoGap
  ServesComplete
PROPERTIES
  AllServe
CHECK_DEADLOCK FALSE
