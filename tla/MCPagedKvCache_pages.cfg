SPECIFICATION CacheSpec
CONSTANTS
  r1 = r1  r2 = r2  r3 = r3
  p1 = p1  p2 = p2  p3 = p3  p4 = p4  p5 = p5  p6 = p6
  x = x  y = y  z = z
  Requests <- MCRequests
  Pages <- MCPages
  LayerCount = 2
  PageTokenCount = 2
  PrefixCaching = TRUE
  Prefixes <- MCPrefixes
  PrefixAt <- MCPrefixAt
  InputTokenCount <- MCInputTokenCount
  MaxCachedTokenCount <- MCMaxCachedTokenCount
  Root <- MCRoot
  NoAppend = NoAppend
SYMMETRY PageSymmetry
INVARIANTS
  PageStatesMatchOwners
  IndexIsATree
  CursorsAreProtected
  CachedValuesAreRight
  ReservedAppendsSucceed
