-------------------------- MODULE CacheInitProofs --------------------------
(***************************************************************************)
(* Proofs about CacheInit: until a waiter takes the lock away from a       *)
(* worker that is still inside init_cache, initialisation is exclusive,    *)
(* nothing committed is wiped and nobody gets through early but after the  *)
(* failures that the properties name, for any number of workers and any    *)
(* number of deaths and failing calls.                                     *)
(***************************************************************************)
EXTENDS CacheInit, TLAPS

LEMMA InitInvariant == Init => IInv
<1> SUFFICES ASSUME Init PROVE IInv
  OBVIOUS
<1> USE InitAssumption DEF Init, Dirs, Loading, Initialising, Waiting, Using, Finished, Nobody
<1>1. TypeOK
  <2>1. stolen \in BOOLEAN /\ root \in BOOLEAN BY Zenon
  <2>2. lock \in Workers \union {Nobody} /\ lockAge \in 0 .. StaleAfter + 1
    OBVIOUS
  <2>3. dirs \subseteq Dirs /\ version \in {"absent", "old", "current"}
    OBVIOUS
  <2>4. /\ pc \in [Workers -> Loading \union Initialising \union Waiting
                                \union Using \union Finished]
        /\ todo \in [Workers -> SUBSET (Dirs \union {"version.txt"})]
        /\ waited \in [Workers -> 0 .. GiveUpAfter]
    OBVIOUS
  <2>5. faults \in 0 .. MaxFaults /\ lapses \in [read : BOOLEAN, dirs : BOOLEAN, stamp : SUBSET Workers]
    OBVIOUS
  <2> QED BY <2>1, <2>2, <2>3, <2>4, <2>5 DEF TypeOK
<1>2. HolderInitialises /\ CurrentIsComplete /\ (VersionsServed => UsersAreCurrent)
  BY DEF HolderInitialises, CurrentIsComplete, UsersAreCurrent
<1> QED BY <1>1, <1>2 DEF IInv

\* The types of all that a step of a worker may change.
Typed ==
  /\ root \in BOOLEAN
  /\ lock \in Workers \union {Nobody}
  /\ lockAge \in 0 .. StaleAfter + 1
  /\ version \in {"absent", "old", "current"}
  /\ dirs \subseteq Dirs
  /\ stored \subseteq Workers
  /\ pc \in [Workers -> Loading \union Initialising \union Waiting
                             \union Using \union Finished]
  /\ todo \in [Workers -> SUBSET (Dirs \union {"version.txt"})]
  /\ waited \in [Workers -> 0 .. GiveUpAfter]
  /\ stolen \in BOOLEAN
  /\ lapses \in [read : BOOLEAN, dirs : BOOLEAN, stamp : SUBSET Workers]

\* A step keeps the types, whoever breaks whatever lock and whatever call fails.
LEMMA TypeStep == TypeOK /\ [Next]_vars => TypeOK'
<1> SUFFICES ASSUME TypeOK, [Next]_vars PROVE TypeOK'
  OBVIOUS
<1>0. Typed /\ faults \in 0 .. MaxFaults BY DEF TypeOK, Typed
<1>a. ASSUME NEW w \in Workers, Succeeds(w) PROVE Typed'
  <2> USE <1>0, InitAssumption DEF Typed, Goto, Moves, Loading, Initialising, Waiting, Using, Finished, Nobody, Dirs
  <2>1. CASE MakeRoot(w) BY <2>1 DEF MakeRoot
  <2>2. CASE LoadLocks(w) BY <2>2 DEF LoadLocks, CreateLock, Held
  <2>3. CASE LoadWaits(w) BY <2>3 DEF LoadWaits, Waits, Held
  <2>4. CASE CheckVersion(w)
    <3>1. WipeList \in SUBSET (Dirs \union {"version.txt"}) BY DEF WipeList
    <3>2. CASE MustWipe
      <4>1. todo' = [todo EXCEPT ![w] = WipeList] /\ Goto(w, "wipe")
        BY <2>4, <3>2 DEF CheckVersion
      <4>2. todo' \in [Workers -> SUBSET (Dirs \union {"version.txt"})] BY <4>1, <3>1
      <4>3. UNCHANGED <<root, lock, lockAge, version, dirs, stored, waited, stolen, lapses>>
        BY <2>4 DEF CheckVersion
      <4> QED BY <4>1, <4>2, <4>3
    <3>3. CASE ~MustWipe BY <2>4, <3>3 DEF CheckVersion
    <3> QED BY <3>2, <3>3
  <2>5. ASSUME NEW e \in todo[w], RemoveEntry(w, e) PROVE Typed'
    BY <2>5 DEF RemoveEntry
  <2>6. CASE WipeDone(w) BY <2>6 DEF WipeDone
  <2>7. CASE MakeDirs(w) BY <2>7 DEF MakeDirs, DirsAfterWipe
  <2>8. CASE StampVersion(w) BY <2>8 DEF StampVersion
  <2>9. CASE Unlock(w) BY <2>9 DEF Unlock, RemoveLock
  <2>10. CASE WaitReturns(w) BY <2>10 DEF WaitReturns
  <2>11. CASE WaitGoesOn(w) BY <2>11 DEF WaitGoesOn
  <2>12. CASE WaiterLocks(w) BY <2>12 DEF WaiterLocks, CreateLock, Held
  <2>13. CASE WaiterFindsLocked(w) BY <2>13 DEF WaiterFindsLocked, WaiterGoesOn
  <2>14. CASE DecidesToBreak(w) BY <2>14 DEF DecidesToBreak, BreaksAtDeadline
  <2>15. CASE Sleeps(w) BY <2>15 DEF Sleeps
  <2>16. CASE BreaksLock(w) BY <2>16 DEF BreaksLock, RemoveLock
  <2>17. CASE BeginWrite(w) BY <2>17 DEF BeginWrite
  <2>18. CASE CommitWrite(w) BY <2>18 DEF CommitWrite
  <2>19. CASE WriteFails(w) BY <2>19 DEF WriteFails
  <2> QED
    BY <1>a, <2>1, <2>2, <2>3, <2>4, <2>5, <2>6, <2>7, <2>8, <2>9, <2>10, <2>11, <2>12,
       <2>13, <2>14, <2>15, <2>16, <2>17, <2>18, <2>19 DEF Succeeds
<1>b. ASSUME NEW w \in Workers, Fails(w) PROVE Typed'
  <2> USE <1>0, InitAssumption DEF Typed, Goto, Moves, Loading, Initialising, Waiting, Using, Finished, Nobody, Dirs
  <2>1. CASE MakeRootFails(w) BY <2>1 DEF MakeRootFails
  <2>2. CASE LoadLockFails(w) BY <2>2 DEF LoadLockFails, Waits
  <2>3. CASE MisreadFails(w)
    <3>1. WipeList \in SUBSET (Dirs \union {"version.txt"}) BY DEF WipeList
    <3> QED BY <2>3, <3>1 DEF MisreadFails
  <2>4. ASSUME NEW e \in todo[w], RemovalFails(w, e) PROVE Typed'
    BY <2>4 DEF RemovalFails
  <2>5. CASE MakeDirsFails(w) BY <2>5 DEF MakeDirsFails, DirsAfterWipe
  <2>6. CASE StampFails(w) BY <2>6 DEF StampFails
  <2>7. CASE UnlockFails(w) BY <2>7 DEF UnlockFails
  <2>8. CASE WaitReadFails(w) BY <2>8 DEF WaitReadFails
  <2>9. CASE WaiterLockFails(w) BY <2>9 DEF WaiterLockFails, WaiterGoesOn
  <2>10. CASE StatFails(w) BY <2>10 DEF StatFails, BreaksAtDeadline
  <2>11. CASE BreakFails(w) BY <2>11 DEF BreakFails
  <2>12. CASE StoreFails(w) BY <2>12 DEF StoreFails
  <2> QED
    BY <1>b, <2>1, <2>2, <2>3, <2>4, <2>5, <2>6, <2>7, <2>8, <2>9, <2>10, <2>11, <2>12 DEF
       Fails
<1>c. CASE Tick
  BY <1>c, InitAssumption DEF TypeOK, Tick, UpTo, Nobody, Dirs
<1>d. ASSUME NEW w \in Workers, Crash(w) PROVE Typed'
  BY <1>0, <1>d DEF Typed, Crash, Goto, Moves, Finished
<1>e. Fault => faults' \in 0 .. MaxFaults
  BY <1>0, InitAssumption DEF Fault
<1>f. CASE UNCHANGED vars BY <1>f DEF vars, TypeOK
<1> QED BY <1>0, <1>a, <1>b, <1>c, <1>d, <1>e, <1>f DEF Next, Step, Typed, TypeOK

\* A lock that was stolen once stays so.
LEMMA StolenStays == TypeOK /\ [Next]_vars /\ ~stolen' => ~stolen
  BY DEF Next, Step, Succeeds, Fails, Moves, Tick, Crash, Waits, WaiterGoesOn, vars, MakeRoot,
     LoadLocks, LoadWaits, CheckVersion, RemoveEntry, WipeDone, MakeDirs, StampVersion,
     Unlock, WaitReturns, WaitGoesOn, WaiterLocks, WaiterFindsLocked, DecidesToBreak,
     Sleeps, BreaksLock, BeginWrite, CommitWrite, WriteFails, MakeRootFails,
     LoadLockFails, MisreadFails, RemovalFails, MakeDirsFails, StampFails, UnlockFails,
     WaitReadFails, WaiterLockFails, StatFails, BreakFails, StoreFails

\* Each action changes the place of one worker; what it does to version and
\* directories is done by the holder of the lock, and so by nobody else.  Who
\* breaks a lock without stealing it breaks the lock of a dead holder, or of one
\* that could not unlock.
LEMMA InvariantStep == IInv /\ [Next]_vars => IInv'
<1> DEFINE Parts == HolderInitialises /\ CurrentIsComplete /\ (VersionsServed => UsersAreCurrent)
<1> SUFFICES ASSUME IInv, [Next]_vars, ~stolen' PROVE Parts'
  BY TypeStep DEF IInv
<1>1. TypeOK' BY TypeStep DEF IInv
<1>2. ~stolen BY StolenStays DEF IInv
<1>3. TypeOK /\ Parts BY <1>2 DEF IInv
<1> USE <1>1, <1>3, InitAssumption DEF TypeOK, HolderInitialises, CurrentIsComplete, UsersAreCurrent,
        VersionsServed, Goto, Moves, Loading, Initialising, Waiting, Using, Finished, Nobody, Dirs
<1>4. ASSUME NEW w \in Workers, Succeeds(w) PROVE Parts'
  <2>1. CASE MakeRoot(w) BY <2>1 DEF MakeRoot
  <2>2. CASE LoadLocks(w) BY <2>2 DEF LoadLocks, CreateLock, Held
  <2>3. CASE LoadWaits(w) BY <2>3 DEF LoadWaits, Waits, Held
  <2>4. CASE CheckVersion(w) BY <2>4 DEF CheckVersion, MustWipe
  <2>5. ASSUME NEW e \in todo[w], RemoveEntry(w, e) PROVE Parts'
    <3>1. lock = w /\ (version # "current" \/ lapses.read) BY <2>5 DEF RemoveEntry
    <3>2. \A v \in Workers : pc[v] \in Initialising => v = w BY <3>1
    <3>3. VersionsServed => stored = {} /\ \A v \in Workers : pc[v] \notin Using
      BY <3>1 DEF VersionsServed
    <3> QED BY <2>5, <3>1, <3>2, <3>3 DEF RemoveEntry
  <2>6. CASE WipeDone(w) BY <2>6 DEF WipeDone
  <2>7. CASE MakeDirs(w) BY <2>7 DEF MakeDirs, DirsAfterWipe
  <2>8. CASE StampVersion(w) BY <2>8 DEF StampVersion
  <2>9. CASE Unlock(w) BY <2>9 DEF Unlock, RemoveLock
  <2>10. CASE WaitReturns(w) BY <2>10 DEF WaitReturns
  <2>11. CASE WaitGoesOn(w) BY <2>11 DEF WaitGoesOn
  <2>12. CASE WaiterLocks(w) BY <2>12 DEF WaiterLocks, CreateLock, Held
  <2>13. CASE WaiterFindsLocked(w) BY <2>13 DEF WaiterFindsLocked, WaiterGoesOn
  <2>14. CASE DecidesToBreak(w) BY <2>14 DEF DecidesToBreak, BreaksAtDeadline
  <2>15. CASE Sleeps(w) BY <2>15 DEF Sleeps
  <2>16. CASE BreaksLock(w)
    <3>1. \A v \in Workers : pc[v] \notin Initialising
      BY <2>16 DEF BreaksLock
    <3> QED BY <2>16, <3>1 DEF BreaksLock, RemoveLock
  <2>17. CASE BeginWrite(w) BY <2>17 DEF BeginWrite
  <2>18. CASE CommitWrite(w) BY <2>18 DEF CommitWrite
  <2>19. CASE WriteFails(w) BY <2>19 DEF WriteFails
  <2> QED
    BY <1>4, <2>1, <2>2, <2>3, <2>4, <2>5, <2>6, <2>7, <2>8, <2>9, <2>10, <2>11, <2>12,
       <2>13, <2>14, <2>15, <2>16, <2>17, <2>18, <2>19 DEF Succeeds
<1>5. ASSUME NEW w \in Workers, Fails(w) PROVE Parts'
  <2>1. CASE MakeRootFails(w) BY <2>1 DEF MakeRootFails
  <2>2. CASE LoadLockFails(w) BY <2>2 DEF LoadLockFails, Waits
  <2>3. CASE MisreadFails(w) BY <2>3 DEF MisreadFails
  <2>4. ASSUME NEW e \in todo[w], RemovalFails(w, e) PROVE Parts'
    BY <2>4 DEF RemovalFails
  <2>5. CASE MakeDirsFails(w) BY <2>5 DEF MakeDirsFails, DirsAfterWipe
  <2>6. CASE StampFails(w) BY <2>6 DEF StampFails
  <2>7. CASE UnlockFails(w) BY <2>7 DEF UnlockFails
  <2>8. CASE WaitReadFails(w) BY <2>8 DEF WaitReadFails
  <2>9. CASE WaiterLockFails(w) BY <2>9 DEF WaiterLockFails, WaiterGoesOn
  <2>10. CASE StatFails(w) BY <2>10 DEF StatFails, BreaksAtDeadline
  <2>11. CASE BreakFails(w) BY <2>11 DEF BreakFails
  <2>12. CASE StoreFails(w) BY <2>12 DEF StoreFails
  <2> QED
    BY <1>5, <2>1, <2>2, <2>3, <2>4, <2>5, <2>6, <2>7, <2>8, <2>9, <2>10, <2>11, <2>12 DEF
       Fails
<1>6. CASE Tick BY <1>6 DEF Tick
<1>7. ASSUME NEW w \in Workers, Crash(w) PROVE Parts'
  BY <1>7 DEF Crash
<1>8. CASE UNCHANGED vars BY <1>8 DEF vars
<1> QED BY <1>4, <1>5, <1>6, <1>7, <1>8 DEF Next, Step

\* The directory's invariant.
THEOREM InitInvariantHolds == Spec => []IInv
  BY InitInvariant, InvariantStep, PTL DEF Spec

----------------------------------------------------------------------------
\* Until a lock is stolen, at most one worker is inside init_cache.
THEOREM InitIsExclusive == Spec => []ExclusiveInit
<1>1. IInv => ExclusiveInit
  BY DEF IInv, HolderInitialises, ExclusiveInit
<1> QED BY <1>1, InitInvariantHolds, PTL

\* Until then, with versions that can be read and written, no write fails because
\* of a wipe.
THEOREM WritesAlwaysSucceed == Spec => []WritesSucceed
<1>1. IInv => WritesSucceed
  BY DEF IInv, UsersAreCurrent, WritesSucceed
<1> QED BY <1>1, InitInvariantHolds, PTL

\* Until then, and with such versions, no entry that was committed is wiped.
THEOREM CommittedEntriesSurvive == Spec => CommittedSurvives
<1>1. IInv /\ [Next]_vars => [~stolen /\ VersionsServed => stored \subseteq stored']_vars
  <2> SUFFICES ASSUME IInv, [Next]_vars, ~stolen, VersionsServed PROVE stored \subseteq stored'
    OBVIOUS
  <2>1. ASSUME NEW w \in Workers, NEW e \in todo[w], RemoveEntry(w, e) \/ RemovalFails(w, e)
        PROVE stored \subseteq stored'
    <3>1. version # "current"
      BY <2>1 DEF RemoveEntry, RemovalFails, IInv, CurrentIsComplete, VersionsServed
    <3> QED BY <3>1 DEF IInv, UsersAreCurrent
  <2>2. ASSUME NEW w \in Workers, CommitWrite(w) PROVE stored \subseteq stored'
    BY <2>2 DEF CommitWrite
  <2>3. CASE UNCHANGED stored BY <2>3
  <2> QED
    BY <2>1, <2>2, <2>3 DEF Next, Step, Tick, Crash, Moves, Succeeds, Fails, Waits, WaiterGoesOn,
       MakeRoot, LoadLocks, LoadWaits, CheckVersion, WipeDone, MakeDirs, StampVersion,
       Unlock, WaitReturns, WaitGoesOn, WaiterLocks, WaiterFindsLocked, DecidesToBreak,
       Sleeps, BreaksLock, BeginWrite, WriteFails, MakeRootFails, LoadLockFails,
       MisreadFails, MakeDirsFails, StampFails, UnlockFails, WaitReadFails,
       WaiterLockFails, StatFails, BreakFails, StoreFails, vars
<1> QED BY <1>1, InitInvariantHolds, PTL DEF Spec, CommittedSurvives

\* Until then a worker gets through only to a cache that is versioned, but for its own
\* failed stamp, and complete, but for directories that could not be made or a current
\* version that could not be read.
THEOREM ReturnsAreInitialised == Spec => ReturnsInitialised
<1> DEFINE Served(w) ==
      /\ version = "current" \/ w \in lapses.stamp
      /\ dirs = Dirs \/ lapses.dirs \/ lapses.read
<1>1. IInv /\ [Next]_vars =>
        [~stolen =>
           \A w \in Workers : pc[w] \notin Using /\ pc'[w] \in Using => Served(w)]_vars
  <2> SUFFICES ASSUME IInv, [Next]_vars, ~stolen, NEW v \in Workers,
                      pc[v] \notin Using, pc'[v] \in Using
               PROVE Served(v)
    OBVIOUS
  <2> USE DEF IInv, TypeOK, Goto, Moves, Using
  <2>1. Unlock(v) \/ UnlockFails(v) \/ WaitReturns(v)
    <3>1. ASSUME NEW w \in Workers, Succeeds(w) PROVE Unlock(v) \/ WaitReturns(v)
      BY <3>1 DEF Succeeds, Waits, WaiterGoesOn, MakeRoot, LoadLocks, LoadWaits,
         CheckVersion, RemoveEntry, WipeDone, MakeDirs, StampVersion, Unlock, WaitReturns,
         WaitGoesOn, WaiterLocks, WaiterFindsLocked, DecidesToBreak, BreaksAtDeadline,
         Sleeps, BreaksLock, BeginWrite, CommitWrite, WriteFails
    <3>2. ASSUME NEW w \in Workers, Fails(w) PROVE UnlockFails(v)
      BY <3>2 DEF Fails, Waits, WaiterGoesOn, MakeRootFails, LoadLockFails, MisreadFails,
         RemovalFails, MakeDirsFails, StampFails, UnlockFails, WaitReadFails,
         WaiterLockFails, StatFails, BreaksAtDeadline, BreakFails, StoreFails
    <3>3. ASSUME Tick PROVE FALSE BY <3>3 DEF Tick
    <3>4. ASSUME NEW w \in Workers, Crash(w) PROVE FALSE BY <3>4 DEF Crash
    <3>5. ASSUME UNCHANGED vars PROVE FALSE BY <3>5 DEF vars
    <3> QED BY <3>1, <3>2, <3>3, <3>4, <3>5 DEF Next, Step
  <2>2. version = "current" \/ v \in lapses.stamp
    BY <2>1 DEF Unlock, UnlockFails, WaitReturns, CurrentIsComplete
  <2>3. dirs = Dirs \/ lapses.dirs \/ lapses.read
    BY <2>1 DEF Unlock, UnlockFails, WaitReturns, CurrentIsComplete
  <2> QED BY <2>2, <2>3
<1> QED BY <1>1, InitInvariantHolds, PTL DEF Spec, ReturnsInitialised

----------------------------------------------------------------------------
\* Nobody breaks a lock before a threshold is reached.
Unaged ==
  /\ lockAge = 0
  /\ \A w \in Workers : waited[w] = 0

NobodyBreaks == ~stolen /\ \A w \in Workers : pc[w] # "break"

\* While the clock stands still no lock is stolen, so the four theorems hold
\* without their premise of every behaviour over before the lock's thresholds.
THEOREM FrozenStealsNothing == ASSUME Clock = "frozen" PROVE Spec => []~stolen
<1> DEFINE Inv == TypeOK /\ Unaged /\ NobodyBreaks
<1>1. Init => Inv
  BY InitInvariant DEF Init, IInv, Unaged, NobodyBreaks
<1>2. Inv /\ [Next]_vars => Inv'
  <2> SUFFICES ASSUME Inv, [Next]_vars PROVE Unaged' /\ NobodyBreaks'
    BY TypeStep
  <2> USE InitAssumption DEF TypeOK, Unaged, NobodyBreaks, Goto, Moves
  <2>1. \A w \in Workers : ~MayBreak(w)
    BY DEF MayBreak, LooksStale, PastDeadline
  <2>2. ASSUME NEW w \in Workers, Succeeds(w) PROVE Unaged'
    BY <2>1, <2>2 DEF Succeeds, Waits, WaiterGoesOn, MakeRoot, LoadLocks, LoadWaits,
       CheckVersion, RemoveEntry, WipeDone, MakeDirs, StampVersion, Unlock, WaitReturns,
       WaitGoesOn, WaiterLocks, WaiterFindsLocked, Sleeps, BreaksLock, BeginWrite,
       CommitWrite, WriteFails, DecidesToBreak, CreateLock, RemoveLock
  <2>3. ASSUME NEW w \in Workers, Succeeds(w) PROVE NobodyBreaks'
    BY <2>1, <2>3 DEF Succeeds, Waits, WaiterGoesOn, MakeRoot, LoadLocks, LoadWaits,
       CheckVersion, RemoveEntry, WipeDone, MakeDirs, StampVersion, Unlock, WaitReturns,
       WaitGoesOn, WaiterLocks, WaiterFindsLocked, Sleeps, BreaksLock, BeginWrite,
       CommitWrite, WriteFails, DecidesToBreak
  <2>4. ASSUME NEW w \in Workers, Fails(w) PROVE Unaged' /\ NobodyBreaks'
    BY <2>1, <2>4 DEF Fails, Waits, WaiterGoesOn, MakeRootFails, LoadLockFails,
       MisreadFails, RemovalFails, MakeDirsFails, StampFails, UnlockFails, WaitReadFails,
       WaiterLockFails, StatFails, BreakFails, StoreFails, MayBreak
  <2>5. ASSUME NEW w \in Workers, Crash(w) PROVE Unaged' /\ NobodyBreaks'
    BY <2>5 DEF Crash
  <2>6. CASE UNCHANGED vars BY <2>6 DEF vars
  <2>7. ~Tick BY DEF Tick
  <2> QED BY <2>2, <2>3, <2>4, <2>5, <2>6, <2>7 DEF Next, Step
<1>3. Inv => ~stolen BY DEF NobodyBreaks
<1> QED BY <1>1, <1>2, <1>3, PTL DEF Spec
=============================================================================
