SPECIFICATION Spec
CONSTANTS
  c1 = c1
  c2 = c2
  u1 = u1
  u2 = u2
  Process = {c1, c2}
  Name = {"jane", "hub"}
  Url = {u1, u2}
  Principal = {"ed25519:a", "ed25519:b"}
  NoOne = "none"
  MaxAdds = 3
SYMMETRY Symmetric
INVARIANTS
  TypeOK
  NamesMeanWhoWasPaired
  PairingsKept
