CONSTANTS
  Proc = {p1, p2}
  Key = {k1, k2}
  Text = {plain, reaching}
  Reaching = {reaching}
  Ino = {i1, i2, i3, i4}
  NoIno = NoIno
SPECIFICATION TrustSpec
INVARIANT StoreWhole
