\* A builder, as slow as it likes, stopped and restarted at any point, with lines
\* cut in the middle, while another instance loads and looks up.
CONSTANTS
  Instances = {i1, i2}
  Builders = {i1}
  Keys = {k1}
  Versions = {v1, v2}
  NoVersion = NoVersion
  NoKey = NoKey
  TornWrites = TRUE
  Clock = "free"
  MaxLoads = 2
  MaxStores = 2
  MaxIgnored = 1
SYMMETRY StoreSymmetry
SPECIFICATION Spec
INVARIANTS NoDanglingReference
PROPERTIES EntryStaysOnDisk LoadMissesNothing
\* The bounds on loads and stores are reached.
CHECK_DEADLOCK FALSE
