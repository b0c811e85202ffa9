CONSTANTS
  i1 = i1
  i2 = i2
  s1 = s1
  s2 = s2
  Imports <- MCImports
  Shops <- MCShops
  Gallery <- MCGallery
  SkuCount <- MCSkuCount
  Props <- MCProps
  Category <- MCCategory
  Finished <- MCFinished
  RefPid <- MCRefPid
  NamePid <- MCNamePid
  PropPid <- MCPropPid
  PropTemplate <- MCPropTemplate
  Template <- MCTemplate
  DefaultTemplate <- MCDefaultTemplate
  ValueVid <- MCValueVid
  Excluded <- MCExcluded
  None = None
  MaxRequests = 3
  MaxRuns = 1
  MaxFailures = 1

SPECIFICATION Spec

SYMMETRY Symmetric

CHECK_DEADLOCK FALSE

INVARIANT SheetIsSound
INVARIANT RefsAreSeen
INVARIANT RawKept
