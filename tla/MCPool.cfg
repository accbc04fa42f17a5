CONSTANTS
  Names = {n1, n2, n3, local}
  LocalNames = {local}
  PoolStart = 2
  PoolEnd = 3
  U8 = 8
  Gateway = 1
  Loopback = loopback
  AddrMax = 3
  NoHost = nohost
  Handle = {1, 2, 3, 4}
  Port = {"Tls","Ssh"}
  ListenBacklog = 1
  MaxConnections = 1
  ChannelCap = 1
  RxCap = 1
  TxCap = 1
  CompactMin = 1
  Discover = FALSE
  HasAllowlist = TRUE
  Allowlist = {n1}
  MaxUp = 0
  MaxDown = 0
SPECIFICATION Spec
CHECK_DEADLOCK FALSE
INVARIANTS
  SlotsKept
  SshReachesHostAsked
  AnswersRouteBack
  OneAnswerPerName
PROPERTY BindingsPermanent
