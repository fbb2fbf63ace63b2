SPECIFICATION ISpec
CONSTANTS
  wasi = wasi
  networking = networking
  e1 = e1
  Modules = {wasi, networking}
  Engines = {e1}
  MayFail = {}
  Provides <- MCProvides
  Names <- MCNames
  Counts = {0, 1, 2, 3, 4, 6, 9}
  MaxImports = 2
  HeldBound = 3
INVARIANTS
  BoundAsDeclared
  OrderFree
