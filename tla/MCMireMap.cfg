\* A map of up to three entries and one of two share an arena; a map
\* begins with one bucket and room for one entry.
CONSTANTS
  m1 = m1
  m2 = m2
  k1 = k1
  k2 = k2
  k3 = k3
  v1 = v1
  v2 = v2
  Garbage = Garbage
  Texts <- MCTexts
  Size <- MCSize
  Hash <- MCHash
  Maps = {m1, m2}
  Keys = {k1, k2, k3}
  Values = {v1, v2}
  FirstBuckets = 1
  FirstCap = 1
  MaxEntries <- MCMaxEntries
  MaxBlocks = 6
  MaxCalls = 6
SYMMETRY CollidingKeys
SPECIFICATION Spec
INVARIANTS ChainsExact StringsOwned ListingStays
PROPERTIES OnlyLastRemovalLoses RefinesFiniteMaps
\* The bound on calls is reached.
CHECK_DEADLOCK FALSE
