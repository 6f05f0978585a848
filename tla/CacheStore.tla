----------------------------- MODULE CacheStore -----------------------------
(***************************************************************************)
(* The on-disk state of the incremental cache and the instances that share *)
(* it.                                                                     *)
(*                                                                         *)
(* An instance (IncrementalCache: one per worker thread or process) loads  *)
(* the metas and the write-ahead log, answers lookups from memory and      *)
(* disk, and stores entries: blob first, then a log file of its own, then  *)
(* its memory.  save() writes its memory back as metas, collects blobs     *)
(* nobody refers to and drops its own log files.  Nothing is locked, and   *)
(* an instance may stop anywhere.                                          *)
(*                                                                         *)
(* Versions are contents: a source version, the blob that holds its result *)
(* and the hash that names the blob are one value.  A key is a path whose  *)
(* entry changes with its source.  The number of entries stays below the   *)
(* capacity here; CacheCapacity has the evictions.                         *)
(***************************************************************************)
EXTENDS Integers, FiniteSets

CONSTANTS
  Instances,   \* IncrementalCache objects that may be alive at once
  Builders,    \* bound: those that store and save; the others load and look up
  Keys,        \* cache keys
  Versions,    \* contents
  NoVersion,   \* no entry
  NoKey,       \* no call in progress
  TornWrites,  \* TRUE if the line of a log file may reach the disk in pieces
  Clock,       \* "prompt": nothing gets old while somebody is inside a store
               \* or a save; "free": any step may take long
  MaxLoads,    \* bound: times the cache is loaded
  MaxStores,   \* bound: log files created
  MaxIgnored   \* bound: failing calls that the code passes over

ASSUME StoreAssumption ==
  /\ Builders \subseteq Instances
  /\ NoVersion \notin Versions /\ NoKey \notin Keys
  /\ TornWrites \in BOOLEAN /\ Clock \in {"prompt", "free"}
  /\ MaxLoads \in Nat /\ MaxStores \in Nat /\ MaxIgnored \in Nat

VARIABLES
  blobs,   \* blobs/: "absent", "fresh", or "stale" (mtime over BLOB_GRACE_SECS ago)
  metas,   \* index/: the version each meta file refers to
  wal,     \* wal/: the log files
  pc,      \* where each instance is
  mem,     \* its in-memory entries
  own,     \* wal_written: numbers of the log files it created
  arg,     \* the locals of the call in progress
  recs,    \* log records read by the load in progress
  refs,    \* blobs the scan of save() has found referenced
  todo,    \* what is left of the loop in progress
  loads, stores,  \* counters for the bounds; a log file's number is its rank in time
  present, \* history: keys with an entry on disk when the load read the log, but
           \* for those it could not read
  unread   \* history: n, failures passed over; logs, files that a replay could
           \* not read, or read in the middle of a write; blobs, those
           \* that a scan missed a reference to

disk == <<blobs, metas, wal>>
history == <<present, unread>>
vars == <<blobs, metas, wal, pc, mem, own, arg, recs, refs, todo, loads, stores,
          present, unread>>

Entry == Versions \union {NoVersion}

\* One record per file: every caller of write_wal passes one.  age is in units
\* of 30 s, up to WAL_GRACE_SECS.
LogFile ==
  [num : 1 .. MaxStores, writer : Instances, key : Keys, ver : Versions,
   text : {"empty", "torn", "whole"}, age : 0 .. 2]

\* num is the log file of a store; judged says that its blob was there already,
\* or was about to be removed when it was written.
Locals ==
  [key : Keys \union {NoKey}, ver : Entry, num : 0 .. MaxStores, judged : BOOLEAN]
NoCall == [key |-> NoKey, ver |-> NoVersion, num |-> 0, judged |-> FALSE]

Unread ==
  [n : 0 .. MaxIgnored, logs : SUBSET (1 .. MaxStores), blobs : SUBSET Versions]

Storing == {"blob", "create", "append"}
Loading == {"prune", "replay", "dropcorrupt", "index", "apply"}
Saving  == {"checkpoint", "scan", "scandrop", "gc", "unlink", "droplog"}

\* A record decodes only from a whole line; a cut one makes the file corrupt,
\* an empty file is neither.
Decoded == {w \in wal : w.text = "whole"}
Corrupt == {w \in wal : w.text = "torn"}

Init ==
  /\ blobs = [v \in Versions |-> "absent"]
  /\ metas = [k \in Keys |-> NoVersion]
  /\ wal = {}
  /\ pc   = [i \in Instances |-> "off"]
  /\ mem  = [i \in Instances |-> [k \in Keys |-> NoVersion]]
  /\ own  = [i \in Instances |-> {}]
  /\ arg  = [i \in Instances |-> NoCall]
  /\ recs = [i \in Instances |-> {}]
  /\ refs = [i \in Instances |-> {}]
  /\ todo = [i \in Instances |-> {}]
  /\ loads = 0 /\ stores = 0
  /\ present = [i \in Instances |-> {}]
  /\ unread = [n |-> 0, logs |-> {}, blobs |-> {}]

Goto(i, l) == pc' = [pc EXCEPT ![i] = l]
Return(i) == Goto(i, "idle") /\ arg' = [arg EXCEPT ![i] = NoCall]
Left(i, x) == todo' = [todo EXCEPT ![i] = @ \ {x}]

\* Failures that nobody looks at: reading passes over log files ws, or
\* references to vs; removing leaves what was to be removed.
Ignores(n, ws, vs) ==
  /\ unread.n + n <= MaxIgnored
  /\ unread' = [n     |-> unread.n + n,
                logs  |-> unread.logs \union {w.num : w \in ws},
                blobs |-> unread.blobs \union vs]

\* A step that has left things undone is one failure.
Failures(undone) == IF undone = {} THEN 0 ELSE 1

Remove(gone, leftover) ==
  /\ wal' = (wal \ gone) \union leftover
  /\ Ignores(Failures(leftover), {}, {})

Numbered(n) == {w \in wal : w.num = n}

\* What keeps a key on disk until somebody's clock says otherwise.
OnDisk(k, log) ==
  metas[k] # NoVersion \/ \E w \in Decoded \intersect log : w.key = k /\ w.age < 2

----------------------------------------------------------------------------
\* load_with_settings, after the directory is initialised

\* The log is read, and its corrupt files removed, before the metas.
Mut_Then(step) ==
  CASE step = "start" -> "index" [] step = "index" -> "replay" [] OTHER -> "apply"
Then(step) ==
  CASE step = "start" -> "replay" [] step = "dropcorrupt" -> "index" [] OTHER -> "apply"

\* Whoever gets the init lock prunes old log files; the others skip that.
LoadStarts(i) ==
  /\ pc[i] = "off" /\ loads < MaxLoads
  /\ loads' = loads + 1
  /\ \E l \in {"prune", Then("start")} : Goto(i, l)
  /\ UNCHANGED <<disk, mem, own, arg, recs, refs, todo, stores, history>>

Mut_Prunable == wal
Prunable == {w \in wal : w.age = 2}

Prune(i) ==
  /\ pc[i] = "prune"
  /\ \E leftover \in SUBSET Prunable : Remove(Prunable, leftover)
  /\ Goto(i, Then("start"))
  /\ UNCHANGED <<blobs, metas, mem, own, arg, recs, refs, todo, loads, stores, present>>

\* A log file whose writer may still finish the line.
BeingFinished == {w \in wal : \E j \in Instances : pc[j] = "append" /\ arg[j].num = w.num}

\* replay_wal: the records of all files, and the corrupt files to remove, the
\* unreadable ones among them.
Replay(i) ==
  /\ pc[i] = "replay"
  /\ \E miss \in SUBSET Decoded :
       /\ Ignores(Failures(miss), miss \union (Corrupt \intersect BeingFinished), {})
       /\ recs'    = [recs EXCEPT ![i] = Decoded \ miss]
       /\ todo'    = [todo EXCEPT ![i] = {w.num : w \in Corrupt \union miss}]
       /\ present' = [present EXCEPT ![i] = {k \in Keys : OnDisk(k, wal \ miss)}]
  /\ Goto(i, "dropcorrupt")
  /\ UNCHANGED <<disk, mem, own, arg, refs, loads, stores>>

\* The path is removed whatever the file holds by now.
DropCorrupt(i, n) ==
  /\ pc[i] \in {"dropcorrupt", "scandrop"} /\ n \in todo[i]
  /\ \E leftover \in SUBSET Numbered(n) : Remove(Numbered(n), leftover)
  /\ Left(i, n)
  /\ UNCHANGED <<blobs, metas, pc, mem, own, arg, recs, refs, loads, stores, present>>

ReplayDone(i) ==
  /\ pc[i] = "dropcorrupt" /\ todo[i] = {}
  /\ Goto(i, Then("dropcorrupt"))
  /\ UNCHANGED <<disk, mem, own, arg, recs, refs, todo, loads, stores, history>>

\* load_*_metas, passing over the metas and directories it cannot read.
LoadIndex(i) ==
  /\ pc[i] = "index"
  /\ \E miss \in SUBSET {k \in Keys : metas[k] # NoVersion} :
       /\ Ignores(Failures(miss), {}, {})
       /\ mem' = [mem EXCEPT ![i] = [k \in Keys |->
                                       IF k \in miss THEN NoVersion ELSE metas[k]]]
       /\ present' = [present EXCEPT ![i] = @ \ miss]
  /\ Goto(i, Then("index"))
  /\ UNCHANGED <<disk, own, arg, recs, refs, todo, loads, stores>>

\* apply_wal_record in the order of the file names: the last record for a key
\* wins, over its meta too.  Names begin with the time in milliseconds; files of
\* the same millisecond, which sort by pid and by the digits of the sequence
\* number, are left out.
Recovered(entry, k, log) ==
  LET forKey == {w \in log : w.key = k} IN
    IF forKey = {} THEN {entry}
    ELSE {w.ver : w \in {x \in forKey : \A y \in forKey : y.num <= x.num}}

ApplyLog(i) ==
  /\ pc[i] = "apply"
  /\ \E index \in [Keys -> Entry] :
       /\ \A k \in Keys : index[k] \in Recovered(mem[i][k], k, recs[i])
       /\ mem' = [mem EXCEPT ![i] = index]
  /\ recs' = [recs EXCEPT ![i] = {}]
  /\ Goto(i, "idle")
  /\ UNCHANGED <<disk, own, arg, refs, todo, loads, stores, history>>

----------------------------------------------------------------------------
\* cached_file, get_cached_mir_fn

\* Memory first, then the meta on disk; either must be for the version asked.
\* The blob may be gone by the time it is read: then the lookup is a miss, but
\* the entry stays as it is.
Matches(m, v) == m = v

Found(i, k) == IF mem[i][k] # NoVersion THEN mem[i][k] ELSE metas[k]

LookupMeta(i, k, v) ==
  /\ pc[i] = "idle"
  /\ Matches(Found(i, k), v)
  /\ mem' = [mem EXCEPT ![i][k] = Found(i, k)]
  /\ UNCHANGED <<disk, pc, own, arg, recs, refs, todo, loads, stores, history>>

----------------------------------------------------------------------------
\* store_file, store_analysis, store_analysis_error, store_cached_mir_fn

\* store_blob looks whether the blob exists, and leaves it as it is if so.
StoreBlob(i, k, v) ==
  /\ pc[i] = "idle" /\ i \in Builders
  /\ arg' = [arg EXCEPT ![i] = [key |-> k, ver |-> v, num |-> 0,
                              judged |-> blobs[v] # "absent"]]
  /\ Goto(i, IF blobs[v] = "absent" THEN "blob" ELSE "create")
  /\ UNCHANGED <<disk, mem, own, recs, refs, todo, loads, stores, history>>

\* Some collection has found the blob old and is about to remove it.
Judged(v) == \E j \in Instances : pc[j] = "unlink" /\ arg[j].ver = v

\* atomic_write: the rename.
CommitBlob(i) ==
  /\ pc[i] = "blob"
  /\ blobs' = [blobs EXCEPT ![arg[i].ver] = "fresh"]
  /\ arg' = [arg EXCEPT ![i].judged = Judged(arg[i].ver)]
  /\ Goto(i, "create")
  /\ UNCHANGED <<metas, wal, mem, own, recs, refs, todo, loads, stores, history>>

\* It fails: the store returns the error and leaves nothing.
BlobFails(i) ==
  /\ pc[i] = "blob"
  /\ Return(i)
  /\ UNCHANGED <<disk, mem, own, recs, refs, todo, loads, stores, history>>

\* write_wal: a file of its own, then the line.
CreateLog(i) ==
  /\ pc[i] = "create" /\ stores < MaxStores
  /\ stores' = stores + 1
  /\ wal' = wal \union
       {[num |-> stores + 1, writer |-> i, key |-> arg[i].key, ver |-> arg[i].ver,
         text |-> "empty", age |-> 0]}
  /\ arg' = [arg EXCEPT ![i].num = stores + 1]
  /\ Goto(i, "append")
  /\ UNCHANGED <<blobs, metas, mem, own, recs, refs, todo, loads, history>>

\* Bytes written after the file was unlinked go nowhere.
BeingWritten(i) == {w \in wal : w.num = arg[i].num}
Write(i, text) ==
  wal' = (wal \ BeingWritten(i)) \union {[w EXCEPT !.text = text] : w \in BeingWritten(i)}

Remember(i) == mem' = [mem EXCEPT ![i][arg[i].key] = arg[i].ver]

AppendPart(i) ==
  /\ TornWrites
  /\ pc[i] = "append"
  /\ Write(i, "torn")
  /\ UNCHANGED <<blobs, metas, pc, mem, own, arg, recs, refs, todo, loads, stores, history>>

\* The rest of the line, then the entry goes to memory and the call returns Ok.
AppendRest(i) ==
  /\ pc[i] = "append"
  /\ Write(i, "whole")
  /\ own' = [own EXCEPT ![i] = @ \union {arg[i].num}]
  /\ Remember(i)
  /\ Return(i)
  /\ UNCHANGED <<blobs, metas, recs, refs, todo, loads, stores, history>>

\* write_wal fails, and so does nothing else: the store returns Ok, and what
\* was written of the file belongs to nobody.
LogFails(i) ==
  /\ pc[i] \in {"create", "append"}
  /\ Remember(i)
  /\ Return(i)
  /\ UNCHANGED <<disk, own, recs, refs, todo, loads, stores, history>>

----------------------------------------------------------------------------
\* save

SaveStarts(i) ==
  /\ pc[i] = "idle" /\ i \in Builders
  /\ todo' = [todo EXCEPT ![i] = {k \in Keys : mem[i][k] # NoVersion}]
  /\ Goto(i, "checkpoint")
  /\ UNCHANGED <<disk, mem, own, arg, recs, refs, loads, stores, history>>

WriteMeta(i, k) ==
  /\ pc[i] = "checkpoint" /\ k \in todo[i]
  /\ metas' = [metas EXCEPT ![k] = mem[i][k]]
  /\ Left(i, k)
  /\ UNCHANGED <<blobs, wal, pc, mem, own, arg, recs, refs, loads,
                 stores, history>>

\* A meta cannot be written: save returns the error, its log files stay.
SaveFails(i) ==
  /\ pc[i] = "checkpoint" /\ todo[i] # {}
  /\ todo' = [todo EXCEPT ![i] = {}]
  /\ Goto(i, "idle")
  /\ UNCHANGED <<disk, mem, own, arg, recs, refs, loads, stores, history>>

\* collect_referenced_blobs reads the metas one by one, then the log.
ScanStarts(i) ==
  /\ pc[i] = "checkpoint" /\ todo[i] = {}
  /\ todo' = [todo EXCEPT ![i] = Keys]
  /\ refs' = [refs EXCEPT ![i] = {}]
  /\ Goto(i, "scan")
  /\ UNCHANGED <<disk, mem, own, arg, recs, loads, stores, history>>

MetaReference(k) == {metas[k]} \ {NoVersion}

ScanMeta(i, k) ==
  /\ pc[i] = "scan" /\ k \in todo[i]
  /\ refs' = [refs EXCEPT ![i] = @ \union MetaReference(k)]
  /\ Left(i, k)
  /\ UNCHANGED <<disk, pc, mem, own, arg, recs, loads, stores, history>>

\* A meta, or its directory, that cannot be read is passed over.
ScanMetaFails(i, k) ==
  /\ pc[i] = "scan" /\ k \in todo[i]
  /\ Ignores(1, {}, MetaReference(k))
  /\ Left(i, k)
  /\ UNCHANGED <<disk, pc, mem, own, arg, recs, refs, loads, stores, present>>

Mut_LogReferences(log) == {}
LogReferences(log) == {w.ver : w \in log}

\* replay_wal again: corrupt files go as they do in a load.
ScanLog(i) ==
  /\ pc[i] = "scan" /\ todo[i] = {}
  /\ \E miss \in SUBSET Decoded :
       /\ Ignores(Failures(miss), miss \union (Corrupt \intersect BeingFinished),
                  {w.ver : w \in miss})
       /\ refs' = [refs EXCEPT ![i] = @ \union LogReferences(Decoded \ miss)]
       /\ todo' = [todo EXCEPT ![i] = {w.num : w \in Corrupt \union miss}]
  /\ Goto(i, "scandrop")
  /\ UNCHANGED <<disk, mem, own, arg, recs, loads, stores, present>>

\* It fails as a whole: what it would have found is not counted.
ScanLogFails(i) ==
  /\ pc[i] = "scan" /\ todo[i] = {}
  /\ Ignores(1, {}, {w.ver : w \in Decoded})
  /\ Goto(i, "scandrop")
  /\ UNCHANGED <<disk, mem, own, arg, recs, refs, todo, loads, stores, present>>

\* gc_blobs: the directory is listed, then looked at blob by blob.
GcStarts(i) ==
  /\ pc[i] = "scandrop" /\ todo[i] = {}
  /\ todo' = [todo EXCEPT ![i] = {b \in Versions : blobs[b] # "absent"} \ refs[i]]
  /\ Goto(i, "gc")
  /\ UNCHANGED <<disk, mem, own, arg, recs, refs, loads, stores, history>>

Collectable(b) == blobs[b] = "stale"

JudgeBlob(i, b) ==
  /\ pc[i] = "gc" /\ b \in todo[i]
  /\ Left(i, b)
  /\ IF Collectable(b)
       THEN Goto(i, "unlink") /\ arg' = [arg EXCEPT ![i].ver = b]
       ELSE UNCHANGED <<pc, arg>>
  /\ UNCHANGED <<disk, mem, own, recs, refs, loads, stores, history>>

\* The removal is a call of its own, takes whatever is there, and may fail.
UnlinkBlob(i) ==
  /\ pc[i] = "unlink"
  /\ \/ Ignores(0, {}, {}) /\ blobs' = [blobs EXCEPT ![arg[i].ver] = "absent"]
     \/ Ignores(1, {}, {}) /\ UNCHANGED blobs
  /\ Goto(i, "gc") /\ arg' = [arg EXCEPT ![i] = NoCall]
  /\ UNCHANGED <<metas, wal, mem, own, recs, refs, todo, loads, stores, present>>

LogsToDrop(i) == own[i]

DropStarts(i) ==
  /\ pc[i] = "gc" /\ todo[i] = {}
  /\ todo' = [todo EXCEPT ![i] = LogsToDrop(i)]
  /\ refs' = [refs EXCEPT ![i] = {}]
  /\ Goto(i, "droplog")
  /\ UNCHANGED <<disk, mem, own, arg, recs, loads, stores, history>>

DropLog(i, n) ==
  /\ pc[i] = "droplog" /\ n \in todo[i]
  /\ \E leftover \in SUBSET Numbered(n) : Remove(Numbered(n), leftover)
  /\ own' = [own EXCEPT ![i] = @ \ {n}]
  /\ Left(i, n)
  /\ UNCHANGED <<blobs, metas, pc, mem, arg, recs, refs, loads, stores, present>>

SaveDone(i) ==
  /\ pc[i] = "droplog" /\ todo[i] = {}
  /\ Goto(i, "idle")
  /\ UNCHANGED <<disk, mem, own, arg, recs, refs, todo, loads, stores, history>>

----------------------------------------------------------------------------
\* The instance is dropped, after save() or without it, or its process dies.
Stop(i) ==
  /\ pc[i] # "off"
  /\ Goto(i, "off")
  /\ mem' = [mem EXCEPT ![i] = [k \in Keys |-> NoVersion]]
  /\ own' = [own EXCEPT ![i] = {}]
  /\ arg' = [arg EXCEPT ![i] = NoCall]
  /\ recs' = [recs EXCEPT ![i] = {}]
  /\ refs' = [refs EXCEPT ![i] = {}]
  /\ todo' = [todo EXCEPT ![i] = {}]
  /\ present' = [present EXCEPT ![i] = {}]
  /\ UNCHANGED <<disk, loads, stores, unread>>

\* Thirty seconds pass.
Tick ==
  /\ \/ Clock = "free"
     \/ Clock = "prompt" /\ \A i \in Instances : pc[i] \notin Storing \union Saving
  /\ blobs' = [b \in Versions |-> IF blobs[b] = "fresh" THEN "stale" ELSE blobs[b]]
  /\ wal'   = {[w EXCEPT !.age = IF @ < 2 THEN @ + 1 ELSE @] : w \in wal}
  /\ UNCHANGED <<metas, pc, mem, own, arg, recs, refs, todo, loads,
                 stores, history>>

Load(i) ==
  \/ LoadStarts(i) \/ Prune(i) \/ Replay(i) \/ ReplayDone(i)
  \/ LoadIndex(i) \/ ApplyLog(i)
  \/ \E n \in 1 .. MaxStores : DropCorrupt(i, n)

Call(i) ==
  \/ \E k \in Keys, v \in Versions : LookupMeta(i, k, v) \/ StoreBlob(i, k, v)
  \/ CommitBlob(i) \/ BlobFails(i)
  \/ CreateLog(i) \/ AppendPart(i) \/ AppendRest(i) \/ LogFails(i)

Save(i) ==
  \/ SaveStarts(i) \/ SaveFails(i) \/ ScanStarts(i) \/ ScanLog(i)
  \/ ScanLogFails(i) \/ GcStarts(i)
  \/ UnlinkBlob(i) \/ DropStarts(i) \/ SaveDone(i)
  \/ \E k \in Keys : WriteMeta(i, k) \/ ScanMeta(i, k) \/ ScanMetaFails(i, k)
  \/ \E b \in Versions : JudgeBlob(i, b)
  \/ \E n \in 1 .. MaxStores : DropLog(i, n)

Next == Tick \/ \E i \in Instances : Load(i) \/ Call(i) \/ Save(i) \/ Stop(i)

Spec == Init /\ [][Next]_vars
----------------------------------------------------------------------------
TypeOK ==
  /\ blobs \in [Versions -> {"absent", "fresh", "stale"}]
  /\ metas \in [Keys -> Entry]
  /\ wal \subseteq LogFile
  /\ pc \in [Instances -> {"off", "idle"} \union Loading \union Storing
                                                \union Saving]
  /\ mem \in [Instances -> [Keys -> Entry]]
  /\ own \in [Instances -> SUBSET (1 .. MaxStores)]
  /\ arg \in [Instances -> Locals]
  /\ \A i \in Instances :
       /\ pc[i] \in Storing => arg[i].key \in Keys /\ arg[i].ver \in Versions
       /\ pc[i] = "append" => arg[i].num # 0
  /\ recs \in [Instances -> SUBSET LogFile]
  /\ refs \in [Instances -> SUBSET Versions]
  /\ todo \in [Instances -> SUBSET (1 .. MaxStores \union Keys \union Versions)]
  /\ loads \in 0 .. MaxLoads /\ stores \in 0 .. MaxStores
  /\ present \in [Instances -> SUBSET Keys]
  /\ unread \in Unread

\* The inductive invariant behind the two properties below.  Log files are
\* numbered in the order of their creation, and a store in progress writes a
\* file for its own key.
LogsNumbered ==
  /\ \A w \in wal : w.num <= stores
  /\ \A i \in Instances :
       /\ \A n \in own[i] : n <= stores
       /\ pc[i] = "append" =>
            /\ arg[i].num <= stores
            /\ \A w \in wal : w.num = arg[i].num => w.key = arg[i].key

\* What an instance has logged is in its memory.
OwnRemembered ==
  \A i \in Instances :
    /\ pc[i] \in Loading \union {"off"} => own[i] = {}
    /\ \A w \in wal : w.num \in own[i] => mem[i][w.key] # NoVersion

\* What is in its memory has a meta when save() is past the checkpoint, and
\* until then is in its list; only then does it drop log files, its own.
Checkpointed ==
  \A i \in Instances :
    /\ pc[i] = "checkpoint" =>
         /\ \A k \in Keys : k \in todo[i] => mem[i][k] # NoVersion
         /\ \A k \in Keys : mem[i][k] # NoVersion => k \in todo[i] \/ metas[k] # NoVersion
    /\ pc[i] \in Saving \ {"checkpoint"} =>
         \A k \in Keys : mem[i][k] # NoVersion => metas[k] # NoVersion
    /\ pc[i] = "droplog" => todo[i] \subseteq own[i]

\* What was on disk when the log was read is in the records or has a meta now,
\* which is in memory once the metas have been read.
LoadSees ==
  \A i \in Instances : \A k \in present[i] :
    /\ pc[i] \in {"dropcorrupt", "index"} =>
         metas[k] # NoVersion \/ \E w \in recs[i] : w.key = k
    /\ pc[i] = "apply" => mem[i][k] # NoVersion \/ \E w \in recs[i] : w.key = k

\* Nobody has read file n, nor will.
TornForGood(n) ==
  /\ n \in 0 .. stores
  /\ \A w \in Decoded : w.num # n
  /\ \A j \in Instances : pc[j] = "append" => arg[j].num # n

\* Log files have numbers and writers of their own, one that is being written is
\* not whole, and one that is listed for removal is torn for good, or on record.
CorruptListed ==
  /\ \A w, x \in wal : w.num = x.num => w = x
  /\ \A i \in Instances :
       /\ pc[i] = "append" =>
            /\ \A w \in Decoded : w.num # arg[i].num
            /\ \A j \in Instances \ {i} : pc[j] = "append" => arg[j].num # arg[i].num
       /\ pc[i] \in {"dropcorrupt", "scandrop"} =>
            \A n \in todo[i] \ unread.logs : TornForGood(n)

IInv ==
  TypeOK /\ LogsNumbered /\ OwnRemembered /\ Checkpointed /\ LoadSees /\ CorruptListed

\* A load finds every entry that was on disk when it read the log, and that it
\* could read, although it reads the metas later and another instance's save()
\* moves entries from its log to the metas meanwhile: log before metas here,
\* metas before log there.
LoadMissesNothing ==
  [][\A i \in Instances : pc[i] = "apply" /\ pc'[i] = "idle" =>
       \A k \in present[i] : mem'[i][k] # NoVersion]_vars

\* An entry on disk stays there, through checkpoints that fail half-way, stops
\* at any point and the cleaning of others, until its log file is too old, or
\* is removed by somebody who could not read it or found its line unfinished.
EntryStaysOnDisk ==
  [][\A k \in Keys : OnDisk(k, wal) /\ ~OnDisk(k, wal)' =>
       Tick \/ \E w \in wal \ wal' : w.key = k /\ w.num \in unread.logs]_vars

\* What is on disk refers to blobs that exist, but for those that some scan
\* missed a reference to.
NoDanglingReference ==
  /\ \A k \in Keys : metas[k] \in Versions \ unread.blobs => blobs[metas[k]] # "absent"
  /\ \A w \in Decoded : w.ver \notin unread.blobs => blobs[w.ver] # "absent"

\* Nobody's collection removes a blob that a store has just written and not
\* yet recorded ("a writer stores the blob before recording its meta/WAL
\* entry", gc_blobs), unless it had found an older one of that content old.
FreshBlobsKept ==
  \A i \in Instances : pc[i] \in {"create", "append"} /\ ~arg[i].judged =>
    blobs[arg[i].ver] # "absent"
=============================================================================
