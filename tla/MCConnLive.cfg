CONSTANTS
  Names = {n1}
  LocalNames = {}
  PoolStart = 2
  PoolEnd = 2
  U8 = 8
  Gateway = 1
  Loopback = loopback
  AddrMax = 4
  NoHost = nohost
  Handle = {1, 2}
  Port = {"Http", "Tls", "Ssh", "Forward"}
  ListenBacklog = 1
  MaxConnections = 1
  ChannelCap = 1
  RxCap = 1
  TxCap = 1
  CompactMin = 0
  Discover = TRUE
  HasAllowlist = FALSE
  Allowlist = {}
  MaxUp = 1
  MaxDown = 2
SPECIFICATION FairOnePortSpec
CHECK_DEADLOCK FALSE
PROPERTIES
  SlotsReleased
  AllDelivered
  AllHandedOver
  ThreadsEnd
