----------------------------- MODULE CacheInit -----------------------------
(***************************************************************************)
(* Initialisation of the incremental cache directory.                      *)
(*                                                                         *)
(* Workers of a parallel `mire test` and separate compiler processes share *)
(* one cache directory.  Each of them enters through load_with_settings:   *)
(* one creates the lock directory and runs init_cache, which wipes a cache *)
(* of another version; the others wait for the version file.  A waiter     *)
(* breaks a lock that is old, or that it has waited for too long.  Once    *)
(* through, a worker writes entries into the cache.                        *)
(*                                                                         *)
(* Every file-system call is one step, and any of them may fail: the code  *)
(* ignores most failures, or takes a failed create_dir for a lock that is  *)
(* held.  Each action named ...Fails is such a call; lapses remembers the  *)
(* failures that leave the cache other than the code takes it to be.  Time *)
(* is counted in ticks.                                                    *)
(***************************************************************************)
EXTENDS Integers

CONSTANTS
  Workers,      \* threads and processes that load the cache
  StaleAfter,   \* INIT_LOCK_STALE_SECS, in ticks
  GiveUpAfter,  \* the waiter's deadline, in ticks
  Clock,        \* "frozen": everything happens before any threshold is reached;
                \* "free": time passes, holders may be slow as well
  MaxFaults     \* bound: calls that fail and workers that die

ASSUME InitAssumption ==
  /\ StaleAfter \in Nat /\ GiveUpAfter \in Nat \ {0}
  /\ Clock \in {"frozen", "free"} /\ MaxFaults \in Nat
  /\ "nobody" \notin Workers

VARIABLES
  root,      \* the cache directory itself exists
  lock,      \* who created the lock directory that exists now, or Nobody
  lockAge,   \* ticks since it was created
  version,   \* version.txt: "absent", "old" or "current"
  dirs,      \* sub-directories of the cache that exist
  stored,    \* workers whose entry is in blobs/
  pc,        \* where each worker is
  todo,      \* entries a wipe has listed and not yet removed
  waited,    \* ticks since the worker's deadline was armed
  stolen,    \* history: a waiter has removed the lock of a worker still inside init_cache
  lapses,    \* history: failures that were ignored: a version that could not be read,
             \* directories that could not be made, workers that could not stamp
  faults     \* number of calls that failed and of workers that died

vars == <<root, lock, lockAge, version, dirs, stored, pc, todo, waited, stolen, lapses,
          faults>>

Nobody == "nobody"
Dirs   == {"index", "blobs", "wal"}

Loading      == {"load", "lock"}
Initialising == {"check", "wipe", "mkdirs", "stamp", "unlock"}
Waiting      == {"wait", "trylock", "stat", "break"}
Using        == {"run", "write"}
Finished     == {"done", "failed", "refused", "dead"}  \* failed: blobs/ is gone;
                                                       \* refused: a call failed

\* A worker meets no cache directory, an empty one, one of another version, or
\* one that is up to date.
Init ==
  /\ lock = Nobody /\ lockAge = 0
  /\ version \in {"absent", "old", "current"}
  /\ dirs = IF version = "absent" THEN {} ELSE Dirs
  /\ root \in BOOLEAN /\ (version # "absent" => root)
  /\ stored = {}
  /\ pc     = [w \in Workers |-> "load"]
  /\ todo   = [w \in Workers |-> {}]
  /\ waited = [w \in Workers |-> 0]
  /\ stolen = FALSE /\ faults = 0
  /\ lapses = [read |-> FALSE, dirs |-> FALSE, stamp |-> {}]

Goto(w, l) == pc' = [pc EXCEPT ![w] = l]

\* A step that changes nothing but the place of the worker.
Moves(w, from, to) ==
  /\ pc[w] = from
  /\ Goto(w, to)
  /\ UNCHANGED <<root, lock, lockAge, version, dirs, stored, todo, waited, stolen, lapses>>

\* fs::create_dir(lock) succeeds for one caller only, and inside a directory only.
Held == lock # Nobody \/ ~root
CreateLock(w) == ~Held /\ lock' = w /\ lockAge' = 0

\* fs::remove_dir(lock): the path is all it knows, not whose lock it is.
RemoveLock == lock' = Nobody /\ lockAge' = 0

----------------------------------------------------------------------------
\* load_with_settings: the cache directory, then the lock in it.
MakeRoot(w) ==
  /\ pc[w] = "load"
  /\ root' = TRUE
  /\ Goto(w, "lock")
  /\ UNCHANGED <<lock, lockAge, version, dirs, stored, todo, waited, stolen, lapses>>

MakeRootFails(w) == Moves(w, "load", "lock") /\ ~root

LoadLocks(w) ==
  /\ pc[w] = "lock"
  /\ CreateLock(w)
  /\ Goto(w, "check")
  /\ UNCHANGED <<root, version, dirs, stored, todo, waited, stolen, lapses>>

\* Any error of create_dir sends the worker to wait for a holder, ...
Waits(w) ==
  /\ pc[w] = "lock"
  /\ Goto(w, "wait")
  /\ waited' = [waited EXCEPT ![w] = 0]
  /\ UNCHANGED <<root, lock, lockAge, version, dirs, stored, todo, stolen, lapses>>

LoadWaits(w) == Held /\ Waits(w)

\* ... be there one or not.
LoadLockFails(w) == ~Held /\ Waits(w)

----------------------------------------------------------------------------
\* init_cache

\* What wipe_cache_dir lists: everything in the directory but the lock.
Mut_WipeList == dirs \union {"version.txt"} \union {"init.lock"}
WipeList == dirs \union (IF version = "absent" THEN {} ELSE {"version.txt"})

Mut_MustWipe == TRUE
MustWipe == version # "current"

CheckVersion(w) ==
  /\ pc[w] = "check"
  /\ IF MustWipe
       THEN Goto(w, "wipe") /\ todo' = [todo EXCEPT ![w] = WipeList]
       ELSE Goto(w, "mkdirs") /\ UNCHANGED todo
  /\ UNCHANGED <<root, lock, lockAge, version, dirs, stored, waited, stolen, lapses>>

\* A version file that cannot be read counts as one of another version.
MisreadFails(w) ==
  /\ pc[w] = "check" /\ version = "current"
  /\ Goto(w, "wipe") /\ todo' = [todo EXCEPT ![w] = WipeList]
  /\ lapses' = [lapses EXCEPT !.read = TRUE]
  /\ UNCHANGED <<root, lock, lockAge, version, dirs, stored, waited, stolen>>

\* Entries go one by one, in directory order, which is any order; the lock
\* goes only if the wipe listed it.
RemoveEntry(w, e) ==
  /\ pc[w] = "wipe" /\ e \in todo[w]
  /\ todo'    = [todo EXCEPT ![w] = @ \ {e}]
  /\ dirs'    = dirs \ {e}
  /\ version' = IF e = "version.txt" THEN "absent" ELSE version
  /\ stored'  = IF e = "blobs" THEN {} ELSE stored
  /\ lock'    = IF e = "init.lock" THEN Nobody ELSE lock
  /\ UNCHANGED <<root, lockAge, pc, waited, stolen, lapses>>

\* An entry that is not listed, or not removed, stays; of blobs/ some may go.
RemovalFails(w, e) ==
  /\ pc[w] = "wipe" /\ e \in todo[w] /\ e \in WipeList
  /\ todo' = [todo EXCEPT ![w] = @ \ {e}]
  /\ IF e = "blobs" THEN stored' \in SUBSET stored ELSE UNCHANGED stored
  /\ UNCHANGED <<root, lock, lockAge, version, dirs, pc, waited, stolen, lapses>>

WipeDone(w) == Moves(w, "wipe", "mkdirs") /\ todo[w] = {}

\* create_cache_dirs, then the version file: the order the comment of
\* init_cache calls "the whole point of this function".
Mut_DirsAfterWipe == dirs
DirsAfterWipe == Dirs

MakeDirs(w) ==
  /\ pc[w] = "mkdirs"
  /\ dirs' = DirsAfterWipe
  /\ Goto(w, "stamp")
  /\ UNCHANGED <<root, lock, lockAge, version, stored, todo, waited, stolen, lapses>>

\* Each create_dir_all that fails leaves its directory out, unless it is there.
MakeDirsFails(w) ==
  /\ pc[w] = "mkdirs"
  /\ dirs' \in SUBSET DirsAfterWipe \ {DirsAfterWipe} /\ dirs \subseteq dirs'
  /\ lapses' = [lapses EXCEPT !.dirs = TRUE]
  /\ Goto(w, "stamp")
  /\ UNCHANGED <<root, lock, lockAge, version, stored, todo, waited, stolen>>

StampVersion(w) ==
  /\ pc[w] = "stamp"
  /\ version' = "current"
  /\ Goto(w, "unlock")
  /\ UNCHANGED <<root, lock, lockAge, dirs, stored, todo, waited, stolen, lapses>>

\* The worker goes on all the same, into a cache of no version.
StampFails(w) ==
  /\ pc[w] = "stamp" /\ version # "current"
  /\ lapses' = [lapses EXCEPT !.stamp = @ \cup {w}]
  /\ Goto(w, "unlock")
  /\ UNCHANGED <<root, lock, lockAge, version, dirs, stored, todo, waited, stolen>>

\* InitLockGuard::drop
Unlock(w) ==
  /\ pc[w] = "unlock"
  /\ RemoveLock
  /\ Goto(w, "run")
  /\ UNCHANGED <<root, version, dirs, stored, todo, waited, stolen, lapses>>

UnlockFails(w) == Moves(w, "unlock", "run") /\ lock # Nobody

----------------------------------------------------------------------------
\* wait_for_cache_init_with, one loop iteration

WaitReturns(w) == Moves(w, "wait", "run") /\ version = "current"

WaitGoesOn(w) == Moves(w, "wait", "trylock") /\ version # "current"

WaitReadFails(w) == Moves(w, "wait", "trylock") /\ version = "current"

WaiterLocks(w) ==
  /\ pc[w] = "trylock"
  /\ CreateLock(w)
  /\ Goto(w, "check")
  /\ UNCHANGED <<root, version, dirs, stored, todo, waited, stolen, lapses>>

\* As in load_with_settings, an error of create_dir is a lock that is held.
WaiterGoesOn(w) == Moves(w, "trylock", "stat")

WaiterFindsLocked(w) == Held /\ WaiterGoesOn(w)

WaiterLockFails(w) == ~Held /\ WaiterGoesOn(w)

\* The age of whatever lock is there now (none: the metadata call fails).
LooksStale == lock # Nobody /\ lockAge > StaleAfter

PastDeadline(w) == waited[w] >= GiveUpAfter

\* The two reasons to break the lock.
Mut_MayBreak(w) == FALSE
MayBreak(w) == LooksStale \/ PastDeadline(w)

\* The second re-arms the deadline.
BreaksAtDeadline(w) ==
  /\ Goto(w, "break")
  /\ waited' = [waited EXCEPT ![w] = 0]

DecidesToBreak(w) ==
  /\ pc[w] = "stat"
  /\ MayBreak(w)
  /\ IF LooksStale THEN Goto(w, "break") /\ UNCHANGED waited ELSE BreaksAtDeadline(w)
  /\ UNCHANGED <<root, lock, lockAge, version, dirs, stored, todo, stolen, lapses>>

Sleeps(w) == Moves(w, "stat", "wait") /\ ~MayBreak(w)

\* A lock whose age cannot be read does not look stale.
StatFails(w) ==
  /\ pc[w] = "stat" /\ LooksStale
  /\ IF PastDeadline(w) THEN BreaksAtDeadline(w) ELSE Goto(w, "wait") /\ UNCHANGED waited
  /\ UNCHANGED <<root, lock, lockAge, version, dirs, stored, todo, stolen, lapses>>

\* The removal is a second call: the lock may be another one by now.
BreaksLock(w) ==
  /\ pc[w] = "break"
  /\ RemoveLock
  /\ Goto(w, "wait")
  /\ stolen' = (stolen \/ \E v \in Workers : v = lock /\ pc[v] \in Initialising)
  /\ UNCHANGED <<root, version, dirs, stored, todo, waited, lapses>>

BreakFails(w) == Moves(w, "break", "wait") /\ lock # Nobody

----------------------------------------------------------------------------
\* A worker stores a blob: store_blob makes blobs/, then atomic_write writes
\* the temporary file and renames it, which fails if blobs/ is gone again.
BeginWrite(w) ==
  /\ pc[w] = "run"
  /\ dirs' = dirs \union {"blobs"}
  /\ Goto(w, "write")
  /\ UNCHANGED <<root, lock, lockAge, version, stored, todo, waited, stolen, lapses>>

CommitWrite(w) ==
  /\ pc[w] = "write" /\ "blobs" \in dirs
  /\ stored' = stored \union {w}
  /\ Goto(w, "done")
  /\ UNCHANGED <<root, lock, lockAge, version, dirs, todo, waited, stolen, lapses>>

WriteFails(w) == Moves(w, "write", "failed") /\ "blobs" \notin dirs

\* blobs/ cannot be made, or the file in it cannot be written.
StoreFails(w) ==
  /\ \/ pc[w] = "run" /\ "blobs" \notin dirs
     \/ pc[w] = "write" /\ "blobs" \in dirs
  /\ Goto(w, "refused")
  /\ UNCHANGED <<root, lock, lockAge, version, dirs, stored, todo, waited, stolen, lapses>>

\* A killed process leaves its lock directory behind.
Crash(w) ==
  /\ pc[w] \notin Finished
  /\ Goto(w, "dead")
  /\ UNCHANGED <<root, lock, lockAge, version, dirs, stored, todo, waited, stolen, lapses>>

\* Time passes for the lock and for the waiters alike; counts stop where
\* nothing distinguishes them any more.
UpTo(n, bound) == IF n < bound THEN n + 1 ELSE n

Tick ==
  /\ Clock = "free"
  /\ lockAge' = IF lock = Nobody THEN 0 ELSE UpTo(lockAge, StaleAfter + 1)
  /\ waited'  = [w \in Workers |->
                   IF pc[w] \in Waiting THEN UpTo(waited[w], GiveUpAfter) ELSE waited[w]]
  /\ UNCHANGED <<root, lock, version, dirs, stored, pc, todo, stolen, lapses, faults>>

Succeeds(w) ==
  \/ MakeRoot(w) \/ LoadLocks(w) \/ LoadWaits(w)
  \/ CheckVersion(w) \/ (\E e \in todo[w] : RemoveEntry(w, e)) \/ WipeDone(w)
  \/ MakeDirs(w) \/ StampVersion(w) \/ Unlock(w)
  \/ WaitReturns(w) \/ WaitGoesOn(w) \/ WaiterLocks(w) \/ WaiterFindsLocked(w)
  \/ DecidesToBreak(w) \/ Sleeps(w) \/ BreaksLock(w)
  \/ BeginWrite(w) \/ CommitWrite(w) \/ WriteFails(w)

Fails(w) ==
  \/ MakeRootFails(w) \/ LoadLockFails(w)
  \/ MisreadFails(w) \/ (\E e \in todo[w] : RemovalFails(w, e))
  \/ MakeDirsFails(w) \/ StampFails(w) \/ UnlockFails(w)
  \/ WaitReadFails(w) \/ WaiterLockFails(w) \/ StatFails(w) \/ BreakFails(w)
  \/ StoreFails(w)

Fault == faults < MaxFaults /\ faults' = faults + 1

Step(w) ==
  \/ Succeeds(w) /\ UNCHANGED faults
  \/ Fails(w) /\ Fault

Next == Tick \/ \E w \in Workers : Step(w) \/ (Crash(w) /\ Fault)

Spec == Init /\ [][Next]_vars

\* Every live worker is scheduled and clocks advance.
FairSpec == Spec /\ WF_vars(Tick) /\ \A w \in Workers : WF_vars(Step(w))

----------------------------------------------------------------------------
TypeOK ==
  /\ root \in BOOLEAN
  /\ lock \in Workers \union {Nobody}
  /\ lockAge \in 0 .. StaleAfter + 1
  /\ version \in {"absent", "old", "current"}
  /\ dirs \subseteq Dirs
  /\ stored \subseteq Workers
  /\ pc \in [Workers -> Loading \union Initialising \union Waiting
                             \union Using \union Finished]
  /\ todo \in [Workers -> SUBSET (Dirs \union {"version.txt"})]  \* never the lock
  /\ waited \in [Workers -> 0 .. GiveUpAfter]
  /\ faults \in 0 .. MaxFaults /\ stolen \in BOOLEAN
  /\ lapses \in [read : BOOLEAN, dirs : BOOLEAN, stamp : SUBSET Workers]

\* As long as no lock has been stolen: who initialises holds the lock; ...
HolderInitialises == \A w \in Workers : pc[w] \in Initialising => lock = w

\* ... it wipes no cache that it can see is current, and completes the directory
\* before it stamps it; ...
CurrentIsComplete ==
  /\ version = "current" => dirs = Dirs \/ lapses.dirs \/ lapses.read
  /\ \A w \in Workers :
       /\ pc[w] = "wipe" => version # "current" \/ lapses.read
       /\ pc[w] \in {"stamp", "unlock"} => dirs = Dirs \/ lapses.dirs
       /\ pc[w] = "unlock" => version = "current" \/ w \in lapses.stamp

\* ... and, if every version could be read and written, who is through, or has
\* written something, is in a current cache.
VersionsServed == ~lapses.read /\ lapses.stamp = {}
UsersAreCurrent ==
  /\ \A w \in Workers : pc[w] \in Using => version = "current"
  /\ \A w \in Workers : pc[w] = "write" => "blobs" \in dirs
  /\ stored # {} => version = "current"
  /\ \A w \in Workers : pc[w] # "failed"

IInv ==
  /\ TypeOK
  /\ ~stolen => HolderInitialises /\ CurrentIsComplete /\ (VersionsServed => UsersAreCurrent)

\* Until a lock is stolen, at most one worker is inside init_cache, whatever calls
\* fail: what the lock directory is for (comments of wipe_cache_dir, init_cache and
\* wait_for_cache_init_with).
ExclusiveInit ==
  ~stolen =>
    \A v, w \in Workers :
      pc[v] \in Initialising /\ pc[w] \in Initialising => v = w

\* Until then, and as long as the version file could be read and written, no worker
\* that got through is refused a write because somebody wiped blobs/ under it (the
\* CI failure the tests of cache.rs describe), whatever else fails.
WritesSucceed == ~stolen /\ VersionsServed => \A w \in Workers : pc[w] # "failed"

\* Until then an entry that was committed is not wiped by a later arrival.
CommittedSurvives == [][~stolen /\ VersionsServed => stored \subseteq stored']_vars

\* Until then nobody gets through to a cache of no version but a worker whose own
\* stamp has failed, and the cache is complete unless a directory could not be made,
\* or a current version not be read.
ReturnsInitialised ==
  [][~stolen =>
       \A w \in Workers : pc[w] \notin Using /\ pc'[w] \in Using =>
         /\ version = "current" \/ w \in lapses.stamp
         /\ dirs = Dirs \/ lapses.dirs \/ lapses.read]_vars

\* If calls stop failing at some point and the cache directory is there, nobody
\* waits for ever, not even for a holder that died or that could not unlock: every
\* worker ends up with a usable cache, with an error, or dead itself.
EveryLoaderFinishes ==
  <>[]root /\ <>[][~\E w \in Workers : Fails(w)]_vars
    => \A w \in Workers : <>(pc[w] \in Finished)
=============================================================================
