SPECIFICATION Spec
CONSTANTS
  wasi = wasi
  networking = networking
  other = other
  e1 = e1
  e2 = e2
  Modules = {wasi, networking, other}
  Engines = {e1, e2}
  MayFail = {wasi, other}
  Provides <- MCProvides
  Names <- MCNames
  HeldBound = 3
SYMMETRY EngineSymmetry
INVARIANTS
  WalkSafe
  CountMatches
  InstancesOwned
  NewestDecides
