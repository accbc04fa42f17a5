CONSTANT Sid = {s1}
SPECIFICATION FairSpec
CHECK_DEADLOCK FALSE
INVARIANTS
  FinalMeansGone
  StopStops
PROPERTIES
  StatusFinal
  SweepSparesLive
  VmNotOrphaned
  SecretsOffDisk
