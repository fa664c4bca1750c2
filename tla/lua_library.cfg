SPECIFICATION LuaSpec
CONSTANTS
  W = 6
  NBM = 4
  MAXREGS = 250
  MAXINDEXRK = 2
  LFIELDS_PER_FLUSH = 2
  LUAI_MAXSTACK = 40
  TreeStep = 80
  MAXCCALLS = 20
  LUA_MAXCAPTURES = 3
  NB = 2
  SZINT = 2
  SizeOfInt = 1
  MAXINTSIZE = 3
  MAXALIGN = 2
  LibMaxInteger = 5
  INT_MAX = 3
  WIDTH = 8
  BLOCK = 4
  COUNT = 2
  WORD = 4
  BYTE = 2
  SIZE_MAX = 11
  MAXSIZE = 6
  UCHAR_MAX = 3
  OCTET = 12
  ItemsBound = 3
  OptionsBound = 2
  ArrayBound = 6
  BytesBound = 4
  ChunkBound = 7
PROPERTIES MatchesReference CodeSound PatternsAgree StringsAgree ReadsBack TablesAgree
  DigestIsStandard
