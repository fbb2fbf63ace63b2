SPECIFICATION Spec
CONSTANTS
  PAGE_SIZE = 2
  WASM_PAGE_SIZE = 4
  MAX_MEMORY_SIZE = 5
  STATIC_MEMORY_AVAILABLE = 12
  Loaders = {l1}
  Guests = {g1}
  Requests <- AnyRequest
  GrowPages = {0, 1, 2}
  Copiers = {c1}
  Pages = {1, 2, 3, 4, 5, 6}
INVARIANTS
  TypeOK
  BoundMapped
  MappedLive
  BoundMatchesPages
  Reclaimed
  UnmapNotEmpty
PROPERTIES
  GrowsAtomically
