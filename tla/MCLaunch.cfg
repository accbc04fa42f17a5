CONSTANTS
  Proc = {p1, p2}
  CommandLines <- MCCommandLines
  Machines <- MCMachines
  OwnRoots = {"own"}
  InTree <- MCInTree
  OutOfTree <- MCOutOfTree
  GuestPaths <- MCGuestPaths
  Cdp = 9222
SPECIFICATION Spec
CHECK_DEADLOCK FALSE
SYMMETRY Alike
INVARIANTS
  HostReachTrusted
  SessionIsTheMerge
  GuestSeesItsOwn
