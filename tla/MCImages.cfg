CONSTANTS
  Proc = {p1, p2}
  Kinds = {"create", "docker", "dockerfile", "bundled", "compose", "devimage"}
  MaxCommands = 3
  MaxKills = 1
SPECIFICATION Spec
CHECK_DEADLOCK FALSE
INVARIANTS
  ImageNeverLost
  MetadataTells
  TarballUsable
  UpdatesPutBack
SYMMETRY Alike
