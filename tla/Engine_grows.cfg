SPECIFICATION Spec
CONSTANTS
  PAGE_SIZE = 2
  WASM_PAGE_SIZE = 4
  MAX_MEMORY_SIZE = 5
  STATIC_MEMORY_AVAILABLE = 8
  Loaders = {l1}
  Guests = {g1, g2}
  Requests <- OnlyMemory
  GrowPages = {1}
  Copiers = {}
  Pages = {1, 2, 3, 4, 5, 6}
INVARIANTS
  MappedLive
