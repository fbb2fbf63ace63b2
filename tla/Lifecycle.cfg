SPECIFICATION LSpec
CONSTANTS
  wasi = wasi
  networking = networking
  s1 = s1
  s2 = s2
  Extensions <- MCExtensions
  Symbols <- MCSymbols
  Sessions <- MCSessions
INVARIANTS
  TornDown
  EntriesOwned
  SafeOnceLive
