SPECIFICATION Spec
CONSTANTS
  Callers = {c1, c2}
  Fds = {0, 1}
  Files = {f1}
  Pool = {o1}
  U32 = 88
  Words <- MCWords
  Available = 16
  Area = 104
  Bounds = {0, 16}
  SockaddrMax = 16
  IovLens = {0, 2}
  Moves = {0, 4}
  MaxCalls = 3
SYMMETRY Symmetry
INVARIANTS
  RefsExact
  PosFollows
  InsideArea
  SocketsOwned
