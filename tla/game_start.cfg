SPECIFICATION StartSpec
CONSTANTS
  Exe <- Executables
  NtSize = 264
  Pointer = 8
  NameSize = 48
  None = None
  Key = {"GameFullName", "Server"}
  Word = {"GameFullName", "Server", "game", "host"}
  Game <- TheGame
  HandMade <- Files
  MaxWrites = 2
  Layout <- Images
  Granule = 2
  Extent = 10
  ClassString = {b1, b2, b3}
  Short = {b1, b2}
  MaxClock = 4
INVARIANTS StaysLoadable AddressesResolve GameIntact ImportsFound
  ConfigNamesGame RemapProtects RemapFailsWhole OwnClass
CHECK_DEADLOCK FALSE
