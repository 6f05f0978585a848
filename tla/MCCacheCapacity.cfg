\* Limits below, at and above the number of keys in use, and none at all.
CONSTANTS
  Keys = {k1, k2, k3, k4}
  Latest = k4
  Unlimited = Unlimited
  Limits = {1, 2, Unlimited}
  DefaultUnits = 3
  MaxLogs = 4
SYMMETRY OtherKeys
SPECIFICATION Spec
INVARIANTS ListIsRecency
PROPERTIES StoreEvictsExactly UnlimitedKeepsEntries
\* Never stops: an instance can always be loaded or dropped.
