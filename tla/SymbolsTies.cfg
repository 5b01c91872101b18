CONSTANTS
  Addrs = {1, 3}
  Names = {1, 2}
  QueryAddrs <- MCQueryAddrs
  Layouts <- MCLayouts
  MaxSymbols = 3
  AddrBits = 4
  Libs = {"ntoskrnl", "hal"}
  Contents <- MCContents
  Files <- MCFiles
  Dirs <- MCDirs
  NoFileName = NoFileName
  NonUtf8Name = NonUtf8Name
  NonUtf8Path = NonUtf8Path
  BadEntry = BadEntry
SPECIFICATION MCSpec




INVARIANT FirstPushedWins
CHECK_DEADLOCK FALSE
