\* Two threads, two slots and three opens: a slot is reused, the table fills
\* up, and both threads are inside the PAL at once.  No generation wraps.
CONSTANTS
  Threads = {t1, t2}
  NSlots = 2
  Types = {ROOT, FILE}
  PAL_RES_ROOT = ROOT
  GenMod = 8
  MaxOpens = 3
SYMMETRY ThreadSymmetry
SPECIFICATION Spec
INVARIANTS HandleIdentity CallsLive
PROPERTIES LostOnlyWhenFull ImplementsCapabilities
\* A program may stop calling the PAL.
CHECK_DEADLOCK FALSE
