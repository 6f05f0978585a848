-------------------------- MODULE CacheStoreProofs --------------------------
(***************************************************************************)
(* Proofs about CacheStore, for any number of instances, keys, contents,   *)
(* loads, stores and failures: its types, the inductive invariant IInv,    *)
(* the two action properties that follow from it, and the blobs.           *)
(*                                                                         *)
(* Why nothing is lost: an instance drops only log files of its own        *)
(* (Checkpointed), what it has logged is in its memory (OwnRemembered),    *)
(* and by then everything in its memory has a meta (Checkpointed); metas   *)
(* never go away (MetasStay); and of the files that others remove, one     *)
(* that is whole is on record (CorruptListed).                             *)
(***************************************************************************)
EXTENDS CacheStore, TLAPS

Parts == LogsNumbered /\ OwnRemembered /\ Checkpointed /\ LoadSees

\* The locals of an instance that is in no call are well-typed.
LEMMA NoCallType == NoCall \in Locals
  BY StoreAssumption DEF NoCall, Locals, Entry

\* Writing to a log file, or its getting older, changes that field only.
LEMMA LogFileUpdates ==
  ASSUME NEW w \in LogFile
  PROVE  /\ \A t \in {"empty", "torn", "whole"} : [w EXCEPT !.text = t] \in LogFile
         /\ \A n \in 0 .. 2 : [w EXCEPT !.age = n] \in LogFile
         /\ \A t : [w EXCEPT !.text = t].num = w.num /\ [w EXCEPT !.text = t].key = w.key
         /\ \A t : [w EXCEPT !.text = t].text = t
         /\ \A n : /\ [w EXCEPT !.age = n].num = w.num
                  /\ [w EXCEPT !.age = n].key = w.key
                  /\ [w EXCEPT !.age = n].text = w.text
  BY DEF LogFile

\* A write keeps the log well-typed (write_wal).
LEMMA WriteType ==
  ASSUME wal \subseteq LogFile, NEW i, NEW t \in {"empty", "torn", "whole"}, Write(i, t)
  PROVE  wal' \subseteq LogFile
  BY LogFileUpdates DEF Write, BeingWritten

\* A write makes no log file, and changes no number or key.
LEMMA WriteKeepsFiles ==
  ASSUME wal \subseteq LogFile, NEW i, NEW t, Write(i, t)
  PROVE  \A x \in wal' : \E w \in wal :
           x.num = w.num /\ x.key = w.key /\ x.text \in {w.text, t}
<1> SUFFICES ASSUME NEW x \in wal'
             PROVE  \E w \in wal : x.num = w.num /\ x.key = w.key /\ x.text \in {w.text, t}
  OBVIOUS
<1>1. CASE x \in wal
  BY <1>1
<1>2. CASE x \notin wal
  <2>1. PICK w \in wal : x = [w EXCEPT !.text = t]
    BY <1>2 DEF Write, BeingWritten
  <2>2. w \in LogFile
    OBVIOUS
  <2> QED BY <2>1, <2>2, LogFileUpdates
<1> QED BY <1>1, <1>2

\* Nor does the passing of time; it leaves the text alone too.
LEMMA TickKeepsFiles ==
  ASSUME wal \subseteq LogFile, Tick
  PROVE  \A x \in wal' : \E w \in wal :
           x.num = w.num /\ x.key = w.key /\ x.text = w.text
<1> SUFFICES ASSUME NEW x \in wal'
             PROVE  \E w \in wal : x.num = w.num /\ x.key = w.key /\ x.text = w.text
  OBVIOUS
<1>1. PICK w \in wal : x = [w EXCEPT !.age = IF w.age < 2 THEN w.age + 1 ELSE w.age]
  BY DEF Tick
<1>2. w \in LogFile
  OBVIOUS
<1> QED BY <1>1, <1>2, LogFileUpdates

\* A failure that is passed over keeps the record of them well-typed and takes
\* nothing from it.
LEMMA IgnoresEffect ==
  ASSUME TypeOK, NEW n \in {0, 1}, NEW ws \in SUBSET LogFile,
         NEW vs \in SUBSET Versions, Ignores(n, ws, vs)
  PROVE  /\ unread' \in Unread
         /\ \A m : m \in unread'.logs <=> m \in unread.logs \/ \E w \in ws : w.num = m
         /\ unread'.blobs = unread.blobs \union vs
<1>1. unread.n \in 0 .. MaxIgnored /\ unread.logs \in SUBSET (1 .. MaxStores)
      /\ unread.blobs \in SUBSET Versions
  BY DEF TypeOK, Unread
<1>2. unread.n + n \in 0 .. MaxIgnored
  BY <1>1, StoreAssumption DEF Ignores
<1>3. {w.num : w \in ws} \in SUBSET (1 .. MaxStores)
  BY DEF LogFile
<1> QED BY <1>1, <1>2, <1>3 DEF Ignores, Unread

\* One that reads nothing in vain takes no note of files or blobs.
LEMMA FailureEffect ==
  ASSUME TypeOK, NEW n \in {0, 1}, Ignores(n, {}, {})
  PROVE  unread' \in Unread /\ unread'.logs = unread.logs /\ unread'.blobs = unread.blobs
<1>1. {} \in SUBSET LogFile /\ {} \in SUBSET Versions
  OBVIOUS
<1>2. /\ unread' \in Unread
      /\ \A m : m \in unread'.logs <=> m \in unread.logs \/ \E w \in {} : w.num = m
      /\ unread'.blobs = unread.blobs \union {}
  BY <1>1, IgnoresEffect, Zenon
<1>3. unread.logs \in SUBSET (1 .. MaxStores) /\ unread'.logs \in SUBSET (1 .. MaxStores)
  BY <1>2 DEF TypeOK, Unread
<1> QED BY <1>2, <1>3

LEMMA FailuresType == \A undone : Failures(undone) \in {0, 1}
  BY DEF Failures

\* A replay that misses some files puts them on record, with the torn ones that
\* may yet be finished.
LEMMA ReplayEffect ==
  ASSUME TypeOK, NEW miss \in SUBSET Decoded, NEW vs \in SUBSET Versions,
         Ignores(Failures(miss), miss \union (Corrupt \intersect BeingFinished), vs)
  PROVE  /\ unread' \in Unread /\ unread.logs \subseteq unread'.logs
         /\ unread'.blobs = unread.blobs \union vs
         /\ \A n \in {w.num : w \in Corrupt \union miss} \ unread'.logs :
              \E w \in Corrupt : w.num = n /\ w \notin BeingFinished
<1>1. miss \union (Corrupt \intersect BeingFinished) \in SUBSET LogFile
  BY DEF TypeOK, Decoded, Corrupt
<1>2. Failures(miss) \in {0, 1}
  BY FailuresType
<1>3. /\ unread' \in Unread
      /\ \A m : m \in unread'.logs <=>
            \/ m \in unread.logs
            \/ \E w \in miss \union (Corrupt \intersect BeingFinished) : w.num = m
      /\ unread'.blobs = unread.blobs \union vs
  BY <1>1, <1>2, IgnoresEffect, Zenon
<1> QED BY <1>3

\* A removal takes no more than it was to take, and may fail.
LEMMA RemoveEffect ==
  ASSUME TypeOK, NEW gone \in SUBSET wal, NEW leftover \in SUBSET gone,
         Remove(gone, leftover)
  PROVE  /\ wal' \subseteq wal /\ wal \ gone \subseteq wal'
         /\ unread' \in Unread /\ unread'.logs = unread.logs /\ unread'.blobs = unread.blobs
<1>1. wal' \subseteq wal /\ wal \ gone \subseteq wal'
  BY DEF Remove
<1>2. Ignores(Failures(leftover), {}, {})
  BY DEF Remove
<1> QED BY <1>1, <1>2, FailuresType, FailureEffect

\* What is old or has a certain number may be removed, nothing else is.
LEMMA PruneEffect ==
  ASSUME TypeOK, NEW i, Prune(i)
  PROVE  /\ wal' \subseteq wal /\ \A w \in wal : w.age < 2 => w \in wal'
         /\ unread' \in Unread /\ unread'.logs = unread.logs /\ unread'.blobs = unread.blobs
<1>1. PICK leftover \in SUBSET Prunable : Remove(Prunable, leftover)
  BY DEF Prune
<1>2. Prunable \in SUBSET wal
  BY DEF Prunable
<1>3. \A w \in wal : w.age < 2 => w \notin Prunable
  BY DEF Prunable, TypeOK, LogFile
<1> QED BY <1>1, <1>2, <1>3, RemoveEffect

LEMMA DropEffect ==
  ASSUME TypeOK, NEW n, \E leftover \in SUBSET Numbered(n) : Remove(Numbered(n), leftover)
  PROVE  /\ wal' \subseteq wal /\ \A w \in wal : w.num # n => w \in wal'
         /\ unread' \in Unread /\ unread'.logs = unread.logs /\ unread'.blobs = unread.blobs
<1>1. Numbered(n) \in SUBSET wal
  BY DEF Numbered
<1>2. \A w \in wal : w.num # n => w \notin Numbered(n)
  BY DEF Numbered
<1> QED BY <1>1, <1>2, RemoveEffect

\* The changes that calls make to their locals keep them well-typed.
LEMMA LocalsUpdates ==
  ASSUME arg \in [Instances -> Locals], NEW i \in Instances
  PROVE  /\ [arg EXCEPT ![i] = NoCall] \in [Instances -> Locals]
         /\ \A n \in 0 .. MaxStores : [arg EXCEPT ![i].num = n] \in [Instances -> Locals]
         /\ \A v \in Entry : [arg EXCEPT ![i].ver = v] \in [Instances -> Locals]
         /\ \A b \in BOOLEAN : [arg EXCEPT ![i].judged = b] \in [Instances -> Locals]
<1>1. [arg EXCEPT ![i] = NoCall] \in [Instances -> Locals]
  BY NoCallType
<1>2. ASSUME NEW n \in 0 .. MaxStores
      PROVE  [arg EXCEPT ![i].num = n] \in [Instances -> Locals]
  <2>1. [arg[i] EXCEPT !.num = n] \in Locals
    BY DEF Locals
  <2> QED BY <2>1
<1>3. ASSUME NEW v \in Entry
      PROVE  [arg EXCEPT ![i].ver = v] \in [Instances -> Locals]
  <2>1. [arg[i] EXCEPT !.ver = v] \in Locals
    BY DEF Locals
  <2> QED BY <2>1
<1>4. ASSUME NEW b \in BOOLEAN
      PROVE  [arg EXCEPT ![i].judged = b] \in [Instances -> Locals]
  <2>1. [arg[i] EXCEPT !.judged = b] \in Locals
    BY DEF Locals
  <2> QED BY <2>1
<1> QED BY <1>1, <1>2, <1>3, <1>4

\* An empty cache is well-typed.
LEMMA TypeInit == Init => TypeOK
<1> SUFFICES ASSUME Init PROVE TypeOK
  OBVIOUS
<1>1. arg \in [Instances -> Locals]
  BY NoCallType DEF Init
<1>2. stores \in 0 .. MaxStores /\ loads \in 0 .. MaxLoads /\ unread \in Unread
  BY StoreAssumption DEF Init, Unread
<1> QED BY <1>1, <1>2 DEF Init, TypeOK, Entry, Storing

\* Every step of load_with_settings keeps the types.
LEMMA TypeLoad ==
  ASSUME TypeOK, NEW i \in Instances, Load(i)
  PROVE  TypeOK'
<1> USE StoreAssumption DEF TypeOK, disk, history, Entry, LogFile, Goto, Loading, Storing, Saving
<1>1. CASE LoadStarts(i)
  BY <1>1 DEF LoadStarts, Then
<1>2. CASE Prune(i)
  <2>1. wal' \subseteq LogFile /\ unread' \in Unread
    BY <1>2, PruneEffect
  <2> QED BY <1>2, <2>1 DEF Prune, Then
<1>3. CASE Replay(i)
  <2>1. PICK miss \in SUBSET Decoded :
          /\ Ignores(Failures(miss), miss \union (Corrupt \intersect BeingFinished), {})
          /\ recs' = [recs EXCEPT ![i] = Decoded \ miss]
          /\ todo' = [todo EXCEPT ![i] = {w.num : w \in Corrupt \union miss}]
          /\ present' = [present EXCEPT ![i] = {k \in Keys : OnDisk(k, wal \ miss)}]
    BY <1>3 DEF Replay
  <2>2. /\ Decoded \subseteq LogFile /\ Corrupt \subseteq LogFile
        /\ miss \union (Corrupt \intersect BeingFinished) \in SUBSET LogFile
    BY DEF Decoded, Corrupt
  <2>3. unread' \in Unread
    <3>1. {} \in SUBSET Versions
      OBVIOUS
    <3> QED BY ONLY TypeOK, <2>1, <3>1, ReplayEffect
  <2>4. todo' \in [Instances -> SUBSET (1 .. MaxStores \union Keys \union Versions)]
    BY <2>1, <2>2
  <2>5. recs' \in [Instances -> SUBSET LogFile] /\ present' \in [Instances -> SUBSET Keys]
    BY <2>1, <2>2
  <2> HIDE DEF LogFile
  <2> QED BY <1>3, <2>3, <2>4, <2>5 DEF Replay
<1>4. CASE ReplayDone(i)
  BY <1>4 DEF ReplayDone, Then
<1>5. CASE LoadIndex(i)
  <2>1. PICK miss \in SUBSET {k \in Keys : metas[k] # NoVersion} :
          /\ Ignores(Failures(miss), {}, {})
          /\ mem' = [mem EXCEPT ![i] = [k \in Keys |-> IF k \in miss THEN NoVersion
                                                                   ELSE metas[k]]]
          /\ present' = [present EXCEPT ![i] = @ \ miss]
    BY <1>5 DEF LoadIndex
  <2>2. unread' \in Unread
    BY <2>1, FailuresType, FailureEffect
  <2> QED BY <1>5, <2>1, <2>2 DEF LoadIndex, Then
<1>6. CASE ApplyLog(i)
  BY <1>6 DEF ApplyLog
<1>7. ASSUME NEW n \in 1 .. MaxStores, DropCorrupt(i, n) PROVE TypeOK'
  <2>1. wal' \subseteq LogFile /\ unread' \in Unread
    BY <1>7, DropEffect DEF DropCorrupt
  <2> QED BY <1>7, <2>1 DEF DropCorrupt, Left
<1> QED BY <1>1, <1>2, <1>3, <1>4, <1>5, <1>6, <1>7 DEF Load

\* Every step of a lookup or a store keeps the types.
LEMMA TypeCall ==
  ASSUME TypeOK, NEW i \in Instances, Call(i)
  PROVE  TypeOK'
<1> USE StoreAssumption DEF TypeOK, disk, history, Entry, LogFile, Goto, Loading, Storing, Saving
<1>1. ASSUME NEW k \in Keys, NEW v \in Versions, LookupMeta(i, k, v) PROVE TypeOK'
  BY <1>1 DEF LookupMeta, Matches, Found
<1>2. ASSUME NEW k \in Keys, NEW v \in Versions, StoreBlob(i, k, v) PROVE TypeOK'
<2>1. [key |-> k, ver |-> v, num |-> 0, judged |-> blobs[v] # "absent"] \in Locals
  BY DEF Locals
<2>2. arg' \in [Instances -> Locals]
  BY <1>2, <2>1 DEF StoreBlob
<2> QED BY <1>2, <2>2 DEF StoreBlob
<1>3. CASE CommitBlob(i)
  <2>1. Judged(arg[i].ver) \in BOOLEAN
    BY DEF Judged
  <2>2. arg' \in [Instances -> Locals]
    BY <1>3, <2>1, LocalsUpdates, Zenon DEF CommitBlob
  <2>3. \A j \in Instances : arg'[j].key = arg[j].key /\ arg'[j].ver = arg[j].ver
                             /\ arg'[j].num = arg[j].num
    BY <1>3 DEF CommitBlob, Locals
  <2> QED BY <1>3, <2>2, <2>3 DEF CommitBlob
<1>4. CASE BlobFails(i)
  BY <1>4, LocalsUpdates DEF BlobFails, Return
<1>5. CASE CreateLog(i)
<2> USE <1>5 DEF CreateLog
<2>1. stores' \in 1 .. MaxStores /\ stores' = stores + 1
  OBVIOUS
<2>2. wal' \subseteq LogFile
  BY <2>1
<2>3. arg' \in [Instances -> Locals]
  BY <2>1, LocalsUpdates
<2>4. \A j \in Instances :
        /\ pc'[j] \in Storing => arg'[j].key \in Keys /\ arg'[j].ver \in Versions
        /\ pc'[j] = "append" => arg'[j].num # 0
  BY DEF Locals
<2> HIDE DEF LogFile
<2> QED BY <2>1, <2>2, <2>3, <2>4
<1>6. CASE AppendPart(i)
<2>1. wal' \subseteq LogFile
  BY <1>6, WriteType DEF AppendPart
<2> QED BY <1>6, <2>1 DEF AppendPart
<1>7. CASE AppendRest(i)
<2>1. wal' \subseteq LogFile
  BY <1>7, WriteType DEF AppendRest
<2>2. mem' \in [Instances -> [Keys -> Entry]]
  BY <1>7 DEF AppendRest, Remember
<2>3. arg' \in [Instances -> Locals]
  BY <1>7, NoCallType DEF AppendRest, Return
<2>4. own' \in [Instances -> SUBSET (1 .. MaxStores)]
  <3>1. arg[i].num \in 1 .. MaxStores
    BY <1>7 DEF AppendRest, Locals
  <3> QED BY <1>7, <3>1 DEF AppendRest
<2> HIDE DEF LogFile
<2> QED BY <1>7, <2>1, <2>2, <2>3, <2>4 DEF AppendRest, Return
<1>8. CASE LogFails(i)
<2>1. mem' \in [Instances -> [Keys -> Entry]]
  BY <1>8 DEF LogFails, Remember
<2> QED BY <1>8, <2>1, LocalsUpdates DEF LogFails, Return
<1> QED BY <1>1, <1>2, <1>3, <1>4, <1>5, <1>6, <1>7, <1>8 DEF Call

\* Every step of save keeps the types.
LEMMA TypeSave ==
  ASSUME TypeOK, NEW i \in Instances, Save(i)
  PROVE  TypeOK'
<1> USE StoreAssumption DEF TypeOK, disk, history, Entry, LogFile, Goto, Loading, Storing, Saving
<1>1. CASE SaveStarts(i)
  BY <1>1 DEF SaveStarts
<1>2. CASE SaveFails(i)
  BY <1>2 DEF SaveFails
<1>3. CASE ScanStarts(i)
  BY <1>3 DEF ScanStarts
<1>4. CASE ScanLog(i)
  <2>1. PICK miss \in SUBSET Decoded :
          /\ Ignores(Failures(miss), miss \union (Corrupt \intersect BeingFinished),
                     {w.ver : w \in miss})
          /\ refs' = [refs EXCEPT ![i] = @ \union LogReferences(Decoded \ miss)]
          /\ todo' = [todo EXCEPT ![i] = {w.num : w \in Corrupt \union miss}]
    BY <1>4 DEF ScanLog
  <2>2. /\ Decoded \subseteq LogFile /\ Corrupt \subseteq LogFile
        /\ miss \union (Corrupt \intersect BeingFinished) \in SUBSET LogFile
    BY DEF Decoded, Corrupt
  <2>3. {w.ver : w \in miss} \in SUBSET Versions
    BY <2>2
  <2>4. unread' \in Unread
    BY ONLY TypeOK, <2>1, <2>3, ReplayEffect
  <2>5. todo' \in [Instances -> SUBSET (1 .. MaxStores \union Keys \union Versions)]
    BY <2>1, <2>2
  <2>6. refs' \in [Instances -> SUBSET Versions]
    BY <2>1, <2>2 DEF LogReferences
  <2> HIDE DEF LogFile
  <2> QED BY <1>4, <2>4, <2>5, <2>6 DEF ScanLog
<1>5. CASE ScanLogFails(i)
  <2>1. {w.ver : w \in Decoded} \in SUBSET Versions
    BY DEF Decoded
  <2>2. unread' \in Unread
    BY <1>5, <2>1, IgnoresEffect DEF ScanLogFails
  <2> QED BY <1>5, <2>2 DEF ScanLogFails
<1>6. ASSUME NEW k \in Keys, ScanMetaFails(i, k) PROVE TypeOK'
  <2>1. MetaReference(k) \in SUBSET Versions
    BY DEF MetaReference
  <2>2. unread' \in Unread
    BY <1>6, <2>1, IgnoresEffect DEF ScanMetaFails
  <2> QED BY <1>6, <2>2 DEF ScanMetaFails, Left
<1>7. CASE GcStarts(i)
  BY <1>7 DEF GcStarts
<1>8. CASE UnlinkBlob(i)
<2>1. arg' \in [Instances -> Locals]
  BY <1>8, NoCallType DEF UnlinkBlob
<2>2. blobs' \in [Versions -> {"absent", "fresh", "stale"}]
  BY <1>8 DEF UnlinkBlob
<2>3. unread' \in Unread
  BY <1>8, FailureEffect DEF UnlinkBlob
<2> QED BY <1>8, <2>1, <2>2, <2>3 DEF UnlinkBlob
<1>9. CASE DropStarts(i)
  BY <1>9 DEF DropStarts, LogsToDrop
<1>10. CASE SaveDone(i)
  BY <1>10 DEF SaveDone
<1>11. ASSUME NEW k \in Keys, WriteMeta(i, k) PROVE TypeOK'
  BY <1>11 DEF WriteMeta, Left
<1>12. ASSUME NEW k \in Keys, ScanMeta(i, k) PROVE TypeOK'
  BY <1>12 DEF ScanMeta, MetaReference, Left
<1>13. ASSUME NEW b \in Versions, JudgeBlob(i, b) PROVE TypeOK'
<2>1. arg' \in [Instances -> Locals]
  <3>1. CASE Collectable(b)
    <4>1. arg' = [arg EXCEPT ![i].ver = b]
      BY <1>13, <3>1 DEF JudgeBlob
    <4>2. b \in Entry
      OBVIOUS
    <4> QED BY <4>1, <4>2, LocalsUpdates
  <3>2. CASE ~Collectable(b)
    BY <1>13, <3>2 DEF JudgeBlob
  <3> QED BY <3>1, <3>2
<2> QED BY <1>13, <2>1 DEF JudgeBlob, Left
<1>14. ASSUME NEW n \in 1 .. MaxStores, DropLog(i, n) PROVE TypeOK'
  <2>1. wal' \subseteq LogFile /\ unread' \in Unread
    BY <1>14, DropEffect DEF DropLog
  <2> QED BY <1>14, <2>1 DEF DropLog, Left
<1> QED
  BY <1>1, <1>2, <1>3, <1>4, <1>5, <1>6, <1>7, <1>8, <1>9, <1>10, <1>11, <1>12, <1>13,
     <1>14 DEF Save

\* So does every step.
LEMMA TypeStep == TypeOK /\ [Next]_vars => TypeOK'
<1> SUFFICES ASSUME TypeOK, [Next]_vars PROVE TypeOK'
  OBVIOUS
<1>1. CASE Tick
<2> USE <1>1 DEF Tick, TypeOK, history
<2>1. wal' \subseteq LogFile
  <3> SUFFICES ASSUME NEW w \in wal
               PROVE  [w EXCEPT !.age = IF @ < 2 THEN @ + 1 ELSE @] \in LogFile
    OBVIOUS
  <3>1. w \in LogFile /\ w.age \in 0 .. 2
    BY DEF LogFile
  <3>2. (IF w.age < 2 THEN w.age + 1 ELSE w.age) \in 0 .. 2
    BY <3>1
  <3> QED BY <3>1, <3>2, LogFileUpdates
<2>2. blobs' \in [Versions -> {"absent", "fresh", "stale"}]
  OBVIOUS
<2> QED BY <2>1, <2>2
<1>2. ASSUME NEW i \in Instances, Stop(i) PROVE TypeOK'
<2> USE <1>2 DEF Stop, TypeOK
<2>1. arg' \in [Instances -> Locals]
  BY NoCallType
<2>2. mem' \in [Instances -> [Keys -> Entry]]
  BY DEF Entry
<2> QED BY <2>1, <2>2 DEF disk, history, Goto, Storing
<1>3. CASE UNCHANGED vars
  BY <1>3 DEF vars, disk, TypeOK
<1> QED BY <1>1, <1>2, <1>3, TypeLoad, TypeCall, TypeSave DEF Next

----------------------------------------------------------------------------
\* The other parts of the invariant hold of an empty cache.
LEMMA PartsInit == Init => Parts
  BY DEF Init, Parts, LogsNumbered, OwnRemembered, Checkpointed, LoadSees,
         Corrupt, Loading, Saving

\* Every step of load_with_settings keeps the parts.
LEMMA PartsLoad ==
  ASSUME TypeOK, Parts, NEW i \in Instances, Load(i)
  PROVE  Parts'
<1> USE StoreAssumption DEF TypeOK, disk, history, Goto, Loading, Storing, Saving,
      Parts, LogsNumbered, OwnRemembered, Checkpointed, LoadSees, Corrupt
<1>1. CASE LoadStarts(i)
  BY <1>1 DEF LoadStarts, Then
<1>2. CASE Prune(i)
  <2>1. wal' \subseteq wal
    BY <1>2, PruneEffect
  <2> QED BY <1>2, <2>1 DEF Prune, Then
<1>3. CASE Replay(i)
  BY <1>3 DEF Replay, Decoded, OnDisk
<1>4. CASE ReplayDone(i)
  BY <1>4 DEF ReplayDone, Then
<1>5. CASE LoadIndex(i)
  BY <1>5 DEF LoadIndex, Then
<1>6. CASE ApplyLog(i)
  BY <1>6 DEF ApplyLog
<1>7. ASSUME NEW n \in 1 .. MaxStores, DropCorrupt(i, n) PROVE Parts'
  <2>1. wal' \subseteq wal
    BY <1>7, DropEffect DEF DropCorrupt
  <2> QED BY <1>7, <2>1 DEF DropCorrupt, Left
<1> QED BY <1>1, <1>2, <1>3, <1>4, <1>5, <1>6, <1>7 DEF Load

\* Every step of a lookup or a store keeps the parts.
LEMMA PartsCall ==
  ASSUME TypeOK, Parts, NEW i \in Instances, Call(i)
  PROVE  Parts'
<1> USE StoreAssumption DEF TypeOK, disk, history, Goto, Loading, Storing, Saving,
      Parts, LogsNumbered, OwnRemembered, Checkpointed, LoadSees, Corrupt
<1>1. ASSUME NEW k \in Keys, NEW v \in Versions, LookupMeta(i, k, v) PROVE Parts'
  BY <1>1 DEF LookupMeta, Matches, Found, NoCall
<1>2. ASSUME NEW k \in Keys, NEW v \in Versions, StoreBlob(i, k, v) PROVE Parts'
  BY <1>2 DEF StoreBlob
<1>3. CASE CommitBlob(i)
  BY <1>3 DEF CommitBlob
<1>4. CASE BlobFails(i)
  BY <1>4 DEF BlobFails, Return
<1>5. CASE CreateLog(i)
<2>1. LogsNumbered'
  <3> USE <1>5 DEF CreateLog
  <3>1. stores \in Nat /\ stores' = stores + 1
    OBVIOUS
  <3>2. \A w \in wal : w.num \in Nat
    BY DEF LogFile
  <3>3. \A w \in wal' : w \in wal \/ (w.num = stores + 1 /\ w.key = arg[i].key)
    <4> DEFINE new == [num |-> stores + 1, writer |-> i, key |-> arg[i].key,
                       ver |-> arg[i].ver, text |-> "empty", age |-> 0]
    <4>1. wal' = wal \union {new}
      BY Zenon
    <4>2. new.num = stores + 1 /\ new.key = arg[i].key
      OBVIOUS
    <4> HIDE DEF new
    <4> QED BY <4>1, <4>2
  <3>4. arg' = [arg EXCEPT ![i].num = stores + 1]
    OBVIOUS
  <3>5. \A j \in Instances : arg[j].num \in Nat
    BY DEF Locals
  <3>6. arg'[i].num = stores + 1 /\ arg'[i].key = arg[i].key
    BY <3>4 DEF Locals
  <3>7. \A w \in wal' : w.num <= stores'
    BY <3>1, <3>2, <3>3
  <3>8. ASSUME NEW j \in Instances
        PROVE  \A n \in own'[j] : n <= stores'
    BY <3>1
  <3>9. ASSUME NEW j \in Instances, pc'[j] = "append"
        PROVE  /\ arg'[j].num <= stores'
               /\ \A w \in wal' : w.num = arg'[j].num => w.key = arg'[j].key
    <4>1. CASE j = i
      BY <3>1, <3>2, <3>3, <3>6, <4>1
    <4>2. CASE j # i
      <5>1. pc[j] = "append" /\ arg'[j] = arg[j]
        BY <3>9, <3>4, <4>2
      <5> QED BY <5>1, <3>1, <3>3, <3>5
    <4> QED BY <4>1, <4>2
  <3> QED BY <3>7, <3>8, <3>9
<2>2. OwnRemembered'
  BY <1>5 DEF CreateLog
<2>3. Checkpointed'
  BY <1>5 DEF CreateLog
<2>4. LoadSees'
  BY <1>5 DEF CreateLog
<2> QED BY <2>1, <2>2, <2>3, <2>4
<1>6. CASE AppendPart(i)
<2>0. /\ UNCHANGED <<pc, mem, own, arg, recs, todo, metas, stores, present>>
      /\ \A x \in wal' : \E w \in wal : x.num = w.num /\ x.key = w.key
  BY <1>6, WriteKeepsFiles DEF AppendPart
<2> HIDE DEF TypeOK
<2>1. LogsNumbered'
  BY <2>0
<2>2. OwnRemembered'
  BY <2>0
<2>3. Checkpointed'
  BY <2>0
<2>4. LoadSees'
  BY <2>0
<2> QED BY <2>1, <2>2, <2>3, <2>4
<1>7. CASE AppendRest(i)
<2>0. \A x \in wal' : \E w \in wal :
        x.num = w.num /\ x.key = w.key /\ x.text \in {w.text, "whole"}
  BY <1>7, WriteKeepsFiles DEF AppendRest
<2>1. LogsNumbered'
  BY <1>7, <2>0 DEF AppendRest, Remember, Return
<2>2. OwnRemembered'
  <3>1. /\ mem' = [mem EXCEPT ![i][arg[i].key] = arg[i].ver] /\ pc' = [pc EXCEPT ![i] = "idle"]
        /\ own' = [own EXCEPT ![i] = @ \union {arg[i].num}] /\ pc[i] = "append"
    BY <1>7 DEF AppendRest, Remember, Return
  <3>2. arg[i].key \in Keys /\ arg[i].ver # NoVersion
    BY <3>1
  <3>3. \A j \in Instances : \A k \in Keys : mem[j][k] # NoVersion => mem'[j][k] # NoVersion
    BY <3>1, <3>2
  <3>4. mem'[i][arg[i].key] # NoVersion
    BY <3>1, <3>2
  <3>5. ASSUME NEW j \in Instances, NEW x \in wal', x.num \in own'[j]
        PROVE  mem'[j][x.key] # NoVersion
    <4>1. PICK w \in wal : x.num = w.num /\ x.key = w.key /\ w.key \in Keys
      BY <2>0 DEF LogFile
    <4>2. CASE w.num \in own[j]
      BY <3>3, <4>1, <4>2
    <4>3. CASE w.num \notin own[j]
      <5>1. j = i /\ w.num = arg[i].num
        BY <3>1, <3>5, <4>1, <4>3
      <5>2. w.key = arg[i].key
        BY <3>1, <5>1
      <5> QED BY <3>4, <4>1, <5>1, <5>2
    <4> QED BY <4>2, <4>3
  <3>6. \A j \in Instances : pc'[j] \in Loading \union {"off"} => own'[j] = {}
    BY <3>1
  <3> QED BY <3>5, <3>6
<2>3. Checkpointed'
  BY <1>7, <2>0 DEF AppendRest, Remember, Return
<2>4. LoadSees'
  BY <1>7, <2>0 DEF AppendRest, Remember, Return
<2> QED BY <2>1, <2>2, <2>3, <2>4
<1>8. CASE LogFails(i)
  BY <1>8 DEF LogFails, Remember, Return
<1> QED BY <1>1, <1>2, <1>3, <1>4, <1>5, <1>6, <1>7, <1>8 DEF Call

\* Every step of save keeps the parts.
LEMMA PartsSave ==
  ASSUME TypeOK, Parts, NEW i \in Instances, Save(i)
  PROVE  Parts'
<1> USE StoreAssumption DEF TypeOK, disk, history, Goto, Loading, Storing, Saving,
      Parts, LogsNumbered, OwnRemembered, Checkpointed, LoadSees, Corrupt
<1>1. CASE SaveStarts(i)
  BY <1>1 DEF SaveStarts
<1>2. CASE SaveFails(i)
  BY <1>2 DEF SaveFails
<1>3. CASE ScanStarts(i)
  BY <1>3 DEF ScanStarts
<1>4. CASE ScanLog(i)
  BY <1>4 DEF ScanLog
<1>5. CASE ScanLogFails(i)
  BY <1>5 DEF ScanLogFails
<1>6. CASE GcStarts(i)
  BY <1>6 DEF GcStarts
<1>7. CASE UnlinkBlob(i)
  BY <1>7 DEF UnlinkBlob
<1>8. CASE DropStarts(i)
  BY <1>8 DEF DropStarts, LogsToDrop
<1>9. CASE SaveDone(i)
  BY <1>9 DEF SaveDone
<1>10. ASSUME NEW k \in Keys, WriteMeta(i, k) PROVE Parts'
<2>1. LogsNumbered'
  BY <1>10 DEF WriteMeta, Left
<2>2. OwnRemembered'
  BY <1>10 DEF WriteMeta, Left
<2>3. Checkpointed'
  BY <1>10 DEF WriteMeta, Left
<2>4. LoadSees'
  BY <1>10 DEF WriteMeta, Left
<2> QED BY <2>1, <2>2, <2>3, <2>4
<1>11. ASSUME NEW k \in Keys, ScanMeta(i, k) \/ ScanMetaFails(i, k) PROVE Parts'
  <2>1. /\ UNCHANGED <<pc, mem, own, arg, recs, wal, metas, stores, present>>
        /\ pc[i] = "scan" /\ \A j \in Instances \ {i} : todo'[j] = todo[j]
    BY <1>11 DEF ScanMeta, ScanMetaFails, Left
  <2> HIDE DEF TypeOK
  <2> QED BY <2>1
<1>12. ASSUME NEW b \in Versions, JudgeBlob(i, b) PROVE Parts'
<2>1. CASE Collectable(b)
  <3>1. /\ pc' = [pc EXCEPT ![i] = "unlink"] /\ todo' = [todo EXCEPT ![i] = @ \ {b}]
        /\ arg' = [arg EXCEPT ![i].ver = b] /\ pc[i] = "gc"
        /\ UNCHANGED <<blobs, metas, wal, mem, own, recs, refs, loads, stores, present>>
    BY <1>12, <2>1 DEF JudgeBlob, Left
  <3>2. \A j \in Instances : arg'[j].num = arg[j].num /\ arg'[j].key = arg[j].key
    BY <3>1 DEF Locals
  <3> QED BY <3>1, <3>2
<2>2. CASE ~Collectable(b)
  BY <1>12, <2>2 DEF JudgeBlob, Left
<2> QED BY <2>1, <2>2
<1>13. ASSUME NEW n \in 1 .. MaxStores, DropLog(i, n) PROVE Parts'
  <2>1. wal' \subseteq wal
    BY <1>13, DropEffect DEF DropLog
  <2> QED BY <1>13, <2>1 DEF DropLog, Left
<1> QED
  BY <1>1, <1>2, <1>3, <1>4, <1>5, <1>6, <1>7, <1>8, <1>9, <1>10, <1>11, <1>12, <1>13
  DEF Save

\* So does every step.
LEMMA PartsStep == TypeOK /\ Parts /\ [Next]_vars => Parts'
<1> SUFFICES ASSUME TypeOK, Parts, [Next]_vars PROVE Parts'
  OBVIOUS
<1> USE DEF TypeOK, Parts, LogsNumbered, OwnRemembered, Checkpointed, LoadSees, Corrupt
<1>1. CASE Tick
<2>0. \A x \in wal' : \E w \in wal :
        x.num = w.num /\ x.key = w.key /\ x.text = w.text
  BY <1>1, TickKeepsFiles
<2>9. UNCHANGED <<metas, pc, mem, own, arg, recs, refs, todo, loads, stores, present>>
  BY <1>1 DEF Tick, history
<2>1. LogsNumbered'
  BY <2>0, <2>9
<2>2. OwnRemembered'
  <3> HIDE DEF TypeOK
  <3> QED BY <2>0, <2>9
<2>3. Checkpointed'
  BY <2>0, <2>9
<2>4. LoadSees'
  BY <2>0, <2>9
<2> QED BY <2>1, <2>2, <2>3, <2>4
<1>2. ASSUME NEW i \in Instances, Stop(i) PROVE Parts'
  BY <1>2 DEF Stop, disk, history, Goto, Loading, Storing, Saving
<1>3. CASE UNCHANGED vars
  BY <1>3 DEF vars, disk
<1> QED BY <1>1, <1>2, <1>3, PartsLoad, PartsCall, PartsSave DEF Next

----------------------------------------------------------------------------
\* TypeOK, for all constants, with lines that tear or not.
THEOREM TypeCorrect == Spec => []TypeOK
  BY TypeInit, TypeStep, PTL DEF Spec

----------------------------------------------------------------------------
\* Log files that are cut, or listed for removal (CorruptListed).

\* A write changes the text of its own log file only.
LEMMA WriteEffect ==
  ASSUME TypeOK, NEW i \in Instances, NEW t \in {"empty", "torn", "whole"}, Write(i, t)
  PROVE  /\ \A w \in wal' : \E x \in wal :
              /\ w.num = x.num /\ w.ver = x.ver
              /\ \/ w = x /\ x.num # arg[i].num
                 \/ w = [x EXCEPT !.text = t] /\ w.text = t /\ x.num = arg[i].num
         /\ t # "whole" => Decoded' \subseteq Decoded
<1>1. ASSUME NEW w \in wal'
      PROVE  \E x \in wal : /\ w.num = x.num /\ w.ver = x.ver
                            /\ \/ w = x /\ x.num # arg[i].num
                               \/ w = [x EXCEPT !.text = t] /\ w.text = t /\ x.num = arg[i].num
  <2>1. CASE w \in wal /\ w.num # arg[i].num
    BY <2>1
  <2>2. CASE ~(w \in wal /\ w.num # arg[i].num)
    <3>1. PICK x \in wal : x.num = arg[i].num /\ w = [x EXCEPT !.text = t]
      BY <2>2 DEF Write, BeingWritten
    <3>2. w.num = x.num /\ w.ver = x.ver /\ w.text = t
      BY <3>1 DEF TypeOK, LogFile
    <3> QED BY <3>1, <3>2
  <2> QED BY <2>1, <2>2
<1> QED BY <1>1 DEF Decoded

\* Getting older changes no more than the age.
LEMMA TickEffect ==
  ASSUME TypeOK, Tick
  PROVE  \A w \in wal' : \E x \in wal :
           /\ w = [x EXCEPT !.age = IF x.age < 2 THEN x.age + 1 ELSE x.age]
           /\ w.num = x.num /\ w.ver = x.ver /\ w.text = x.text
<1> SUFFICES ASSUME NEW w \in wal'
             PROVE  \E x \in wal :
                      /\ w = [x EXCEPT !.age = IF x.age < 2 THEN x.age + 1 ELSE x.age]
                      /\ w.num = x.num /\ w.ver = x.ver /\ w.text = x.text
  OBVIOUS
<1>1. PICK x \in wal : w = [x EXCEPT !.age = IF x.age < 2 THEN x.age + 1 ELSE x.age]
  BY DEF Tick
<1>2. x \in LogFile
  BY DEF TypeOK
<1>3. w.num = x.num /\ w.ver = x.ver /\ w.text = x.text
  BY <1>1, <1>2 DEF LogFile
<1> QED BY <1>1, <1>3

\* The list of a replay has the files it could not read, the torn ones among
\* them: each is on record, or torn for good.
LEMMA ListMade ==
  ASSUME IInv, NEW miss \in SUBSET Decoded, NEW vs \in SUBSET Versions,
         Ignores(Failures(miss), miss \union (Corrupt \intersect BeingFinished), vs)
  PROVE  /\ unread.logs \subseteq unread'.logs
         /\ \A n \in {w.num : w \in Corrupt \union miss} \ unread'.logs : TornForGood(n)
<1> USE DEF IInv
<1>1. ASSUME NEW w \in Corrupt, w \notin BeingFinished
      PROVE  TornForGood(w.num)
  <2>1. w \in wal /\ w.text # "whole" /\ w.num \in 0 .. stores
    BY DEF Corrupt, LogsNumbered, TypeOK, LogFile
  <2>2. \A x \in Decoded : x.num # w.num
    BY <2>1 DEF Decoded, CorruptListed
  <2>3. \A j \in Instances : pc[j] = "append" => arg[j].num # w.num
    BY <1>1, <2>1 DEF BeingFinished
  <2> QED BY <2>1, <2>2, <2>3 DEF TornForGood
<1>2. /\ unread.logs \subseteq unread'.logs
      /\ \A n \in {w.num : w \in Corrupt \union miss} \ unread'.logs :
           \E w \in Corrupt : w.num = n /\ w \notin BeingFinished
  BY ReplayEffect, Zenon
<1> QED BY <1>1, <1>2

\* A step keeps it that makes no log file whole, no line of a new writer, and no
\* list but of what is on record or torn for good.
LEMMA ListedFrame ==
  ASSUME TypeOK, CorruptListed, wal' \subseteq wal, unread.logs \subseteq unread'.logs,
         stores' = stores,
         \A j \in Instances : pc'[j] = "append" => pc[j] = "append" /\ arg'[j].num = arg[j].num,
         \A j \in Instances : pc'[j] \in {"dropcorrupt", "scandrop"} =>
           \/ pc[j] = pc'[j] /\ todo'[j] \subseteq todo[j]
           \/ \A n \in todo'[j] \ unread'.logs : TornForGood(n)
  PROVE  CorruptListed'
<1>1. \A n : TornForGood(n) => TornForGood(n)'
  BY DEF TornForGood, Decoded
<1>2. \A w, x \in wal' : w.num = x.num => w = x
  BY DEF CorruptListed
<1>3. ASSUME NEW i \in Instances, pc'[i] = "append"
      PROVE  /\ \A w \in Decoded' : w.num # arg'[i].num
             /\ \A j \in Instances \ {i} : pc'[j] = "append" => arg'[j].num # arg'[i].num
  BY <1>3 DEF CorruptListed, Decoded
<1>4. ASSUME NEW i \in Instances, pc'[i] \in {"dropcorrupt", "scandrop"},
             NEW n \in todo'[i] \ unread'.logs
      PROVE  TornForGood(n)'
  BY <1>1, <1>4 DEF CorruptListed
<1> QED BY <1>2, <1>3, <1>4 DEF CorruptListed

\* Every step keeps it.
LEMMA ListedStep ==
  ASSUME IInv, [Next]_vars
  PROVE  CorruptListed'
<1> USE DEF IInv, disk, history, Goto
<1>1. ASSUME NEW i \in Instances, Load(i) PROVE CorruptListed'
  <2>1. CASE Prune(i)
    <3>1. wal' \subseteq wal /\ unread'.logs = unread.logs
      BY <2>1, PruneEffect
    <3> QED BY <2>1, <3>1, ListedFrame DEF Prune, Then, TypeOK
  <2>2. CASE Replay(i)
    <3>1. PICK miss \in SUBSET Decoded :
            /\ Ignores(Failures(miss), miss \union (Corrupt \intersect BeingFinished), {})
            /\ todo' = [todo EXCEPT ![i] = {w.num : w \in Corrupt \union miss}]
      BY <2>2 DEF Replay
    <3>2. /\ unread.logs \subseteq unread'.logs
          /\ \A n \in {w.num : w \in Corrupt \union miss} \ unread'.logs : TornForGood(n)
      BY <3>1, ListMade, {} \in SUBSET Versions
    <3>3. /\ todo'[i] = {w.num : w \in Corrupt \union miss}
          /\ \A j \in Instances \ {i} : pc'[j] = pc[j] /\ todo'[j] = todo[j]
      BY <2>2, <3>1 DEF Replay, TypeOK
    <3>4. pc'[i] # "append" /\ wal' = wal /\ stores' = stores /\ arg' = arg
      BY <2>2 DEF Replay, TypeOK
    <3> QED BY <3>2, <3>3, <3>4, ListedFrame
  <2>3. ASSUME NEW n \in 1 .. MaxStores, DropCorrupt(i, n)
        PROVE  CorruptListed'
    <3>1. wal' \subseteq wal /\ unread'.logs = unread.logs
      BY <2>3, DropEffect DEF DropCorrupt
    <3> QED BY <2>3, <3>1, ListedFrame DEF DropCorrupt, Left, TypeOK
  <2>4. CASE LoadIndex(i)
    <3>1. unread.logs \subseteq unread'.logs
      BY <2>4, FailuresType, FailureEffect DEF LoadIndex
    <3> QED BY <2>4, <3>1, ListedFrame DEF LoadIndex, Then, TypeOK
  <2>5. CASE LoadStarts(i)
    BY <2>5, ListedFrame DEF LoadStarts, Then, TypeOK
  <2>6. CASE ReplayDone(i)
    BY <2>6, ListedFrame DEF ReplayDone, Then, TypeOK
  <2>7. CASE ApplyLog(i)
    BY <2>7, ListedFrame DEF ApplyLog, TypeOK
  <2> QED BY <1>1, <2>1, <2>2, <2>3, <2>4, <2>5, <2>6, <2>7 DEF Load
<1>2. ASSUME NEW i \in Instances, Call(i) PROVE CorruptListed'
  <2>1. CASE CreateLog(i)
    <3>1. /\ stores' = stores + 1 /\ unread' = unread /\ todo' = todo
          /\ pc' = [pc EXCEPT ![i] = "append"] /\ pc[i] = "create"
          /\ \A j \in Instances \ {i} : arg'[j] = arg[j]
      BY <2>1 DEF CreateLog, TypeOK
    <3>2. arg'[i].num = stores + 1
      BY <2>1 DEF CreateLog, TypeOK, Locals
    <3>3. PICK new : wal' = wal \union {new} /\ new.num = stores + 1 /\ new.text = "empty"
      <4> DEFINE file == [num |-> stores + 1, writer |-> i, key |-> arg[i].key,
                          ver |-> arg[i].ver, text |-> "empty", age |-> 0]
      <4>1. wal' = wal \union {file}
        BY <2>1, Zenon DEF CreateLog
      <4>2. file.num = stores + 1 /\ file.text = "empty"
        OBVIOUS
      <4> HIDE DEF file
      <4> QED BY <4>1, <4>2
    <3>4. \A w \in wal : w.num \in Nat /\ w.num <= stores
      BY DEF LogsNumbered, TypeOK, LogFile
    <3>5. \A w, x \in wal' : w.num = x.num => w = x
      BY <3>3, <3>4 DEF CorruptListed, TypeOK
    <3>6. Decoded' = Decoded
      BY <3>3 DEF Decoded
    <3>7. \A j \in Instances : pc[j] = "append" => arg[j].num \in Nat /\ arg[j].num <= stores
      BY DEF LogsNumbered, TypeOK, Locals
    <3>8. ASSUME NEW j \in Instances, pc'[j] = "append"
          PROVE  /\ \A w \in Decoded' : w.num # arg'[j].num
                 /\ \A k \in Instances \ {j} : pc'[k] = "append" => arg'[k].num # arg'[j].num
      <4>1. stores \in Nat
        BY DEF TypeOK
      <4>2. CASE j = i
        BY <3>1, <3>2, <3>4, <3>6, <3>7, <4>1, <4>2 DEF Decoded, TypeOK
      <4>3. CASE j # i
        BY <3>1, <3>2, <3>6, <3>7, <3>8, <4>1, <4>3 DEF CorruptListed, TypeOK
      <4> QED BY <4>2, <4>3
    <3>9. ASSUME NEW j \in Instances, pc'[j] \in {"dropcorrupt", "scandrop"},
                 NEW n \in todo'[j] \ unread'.logs
          PROVE  TornForGood(n)'
      <4>1. TornForGood(n)
        BY <3>1, <3>9 DEF CorruptListed, TypeOK
      <4>2. n \in Nat
        BY <4>1 DEF TornForGood, TypeOK
      <4> QED BY <3>1, <3>2, <3>6, <4>1, <4>2 DEF TornForGood, TypeOK
    <3> QED BY <3>5, <3>8, <3>9 DEF CorruptListed
  <2>2. CASE AppendPart(i)
    <3>1. Decoded' \subseteq Decoded
      BY <2>2, WriteEffect DEF AppendPart
    <3>2. \A w, x \in wal' : w.num = x.num => w = x
      BY <2>2, WriteEffect DEF AppendPart, CorruptListed
    <3>3. UNCHANGED <<pc, arg, todo, unread, stores>>
      BY <2>2 DEF AppendPart
    <3> QED BY <3>1, <3>2, <3>3 DEF CorruptListed, TornForGood
  <2>3. CASE AppendRest(i)
    <3>1. \A w, x \in wal' : w.num = x.num => w = x
      BY <2>3, WriteEffect DEF AppendRest, CorruptListed
    <3>2. \A w \in Decoded' : w.num = arg[i].num \/ w \in Decoded
      BY <2>3, WriteEffect DEF AppendRest, Decoded
    <3>3. /\ pc[i] = "append" /\ pc' = [pc EXCEPT ![i] = "idle"]
          /\ \A j \in Instances \ {i} : arg'[j] = arg[j]
          /\ UNCHANGED <<todo, unread, stores>>
      BY <2>3 DEF AppendRest, Return, TypeOK
    <3>4. \A n : TornForGood(n) => TornForGood(n)'
      BY <3>2, <3>3 DEF TornForGood, TypeOK
    <3>5. ASSUME NEW j \in Instances, pc'[j] = "append"
          PROVE  /\ \A w \in Decoded' : w.num # arg'[j].num
                 /\ \A k \in Instances \ {j} : pc'[k] = "append" => arg'[k].num # arg'[j].num
      BY <3>2, <3>3, <3>5 DEF CorruptListed, TypeOK
    <3>6. ASSUME NEW j \in Instances, pc'[j] \in {"dropcorrupt", "scandrop"},
                 NEW n \in todo'[j] \ unread'.logs
          PROVE  TornForGood(n)'
      BY <3>3, <3>4, <3>6 DEF CorruptListed, TypeOK
    <3> QED BY <3>1, <3>5, <3>6 DEF CorruptListed
  <2>4. ASSUME NEW k \in Keys, NEW v \in Versions, LookupMeta(i, k, v)
        PROVE  CorruptListed'
    BY <2>4, ListedFrame DEF LookupMeta
  <2>5. ASSUME NEW k \in Keys, NEW v \in Versions, StoreBlob(i, k, v)
        PROVE  CorruptListed'
    BY <2>5, ListedFrame DEF StoreBlob, TypeOK
  <2>6. CASE CommitBlob(i)
    BY <2>6, ListedFrame DEF CommitBlob, TypeOK
  <2>7. CASE BlobFails(i) \/ LogFails(i)
    BY <2>7, ListedFrame DEF BlobFails, LogFails, Return, TypeOK
  <2> QED BY <1>2, <2>1, <2>2, <2>3, <2>4, <2>5, <2>6, <2>7 DEF Call
<1>3. ASSUME NEW i \in Instances, Save(i) PROVE CorruptListed'
  <2>1. CASE ScanLog(i)
    <3>1. PICK miss \in SUBSET Decoded :
            /\ Ignores(Failures(miss), miss \union (Corrupt \intersect BeingFinished),
                       {w.ver : w \in miss})
            /\ todo' = [todo EXCEPT ![i] = {w.num : w \in Corrupt \union miss}]
      BY <2>1 DEF ScanLog
    <3>2. {w.ver : w \in miss} \in SUBSET Versions
      BY DEF TypeOK, LogFile, Decoded
    <3>3. /\ unread.logs \subseteq unread'.logs
          /\ \A n \in {w.num : w \in Corrupt \union miss} \ unread'.logs : TornForGood(n)
      BY <3>1, <3>2, ListMade
    <3>4. /\ todo'[i] = {w.num : w \in Corrupt \union miss}
          /\ \A j \in Instances \ {i} : pc'[j] = pc[j] /\ todo'[j] = todo[j]
      BY <2>1, <3>1 DEF ScanLog, TypeOK
    <3>5. pc'[i] # "append" /\ wal' = wal /\ stores' = stores /\ arg' = arg
      BY <2>1 DEF ScanLog, TypeOK
    <3> QED BY <3>3, <3>4, <3>5, ListedFrame
  <2>2. ASSUME NEW n \in 1 .. MaxStores, DropLog(i, n)
        PROVE  CorruptListed'
    <3>1. wal' \subseteq wal /\ unread'.logs = unread.logs
      BY <2>2, DropEffect DEF DropLog
    <3> QED BY <2>2, <3>1, ListedFrame DEF DropLog, Left, TypeOK
  <2>3. ASSUME NEW k \in Keys, ScanMetaFails(i, k)
        PROVE  CorruptListed'
    <3>1. MetaReference(k) \in SUBSET Versions
      BY DEF MetaReference, TypeOK, Entry
    <3>2. unread.logs \subseteq unread'.logs
      BY <2>3, <3>1, IgnoresEffect DEF ScanMetaFails
    <3> QED BY <2>3, <3>2, ListedFrame DEF ScanMetaFails, Left, TypeOK
  <2>4. CASE ScanLogFails(i)
    <3>1. {w.ver : w \in Decoded} \in SUBSET Versions
      BY DEF TypeOK, LogFile, Decoded
    <3>2. unread.logs \subseteq unread'.logs
      BY <2>4, <3>1, IgnoresEffect DEF ScanLogFails
    <3>3. /\ todo[i] = {} /\ todo' = todo /\ UNCHANGED <<wal, stores, arg>>
          /\ pc' = [pc EXCEPT ![i] = "scandrop"]
      BY <2>4 DEF ScanLogFails
    <3> QED BY <3>2, <3>3, ListedFrame DEF TypeOK
  <2>5. CASE UnlinkBlob(i)
    <3>1. unread.logs \subseteq unread'.logs
      BY <2>5, FailureEffect DEF UnlinkBlob
    <3> QED BY <2>5, <3>1, ListedFrame DEF UnlinkBlob, TypeOK
  <2>6. CASE SaveStarts(i) \/ SaveFails(i) \/ ScanStarts(i)
    BY <2>6, ListedFrame DEF SaveStarts, SaveFails, ScanStarts, TypeOK
  <2>7. CASE GcStarts(i) \/ DropStarts(i) \/ SaveDone(i)
    BY <2>7, ListedFrame DEF GcStarts, DropStarts, SaveDone, TypeOK
  <2>8. ASSUME NEW k \in Keys, WriteMeta(i, k) \/ ScanMeta(i, k)
        PROVE  CorruptListed'
    BY <2>8, ListedFrame DEF WriteMeta, ScanMeta, Left, TypeOK
  <2>9. ASSUME NEW b \in Versions, JudgeBlob(i, b)
        PROVE  CorruptListed'
    <3>1. arg' = arg \/ arg' = [arg EXCEPT ![i].ver = b]
      BY <2>9 DEF JudgeBlob
    <3>2. \A j \in Instances : arg'[j].num = arg[j].num
      BY <3>1 DEF TypeOK, Locals
    <3> QED BY <2>9, <3>2, ListedFrame DEF JudgeBlob, Left, TypeOK
  <2> QED BY <1>3, <2>1, <2>2, <2>3, <2>4, <2>5, <2>6, <2>7, <2>8, <2>9 DEF Save
<1>4. ASSUME NEW i \in Instances, Stop(i) PROVE CorruptListed'
  BY <1>4, ListedFrame DEF Stop, TypeOK
<1>5. CASE Tick
  <2>1. \A w, x \in wal' : w.num = x.num => w = x
    BY <1>5, TickEffect DEF CorruptListed
  <2>2. \A w \in Decoded' : \E x \in Decoded : w.num = x.num
    BY <1>5, TickEffect DEF Decoded
  <2>3. UNCHANGED <<pc, arg, todo, unread, stores>>
    BY <1>5 DEF Tick
  <2> QED BY <2>1, <2>2, <2>3 DEF CorruptListed, TornForGood
<1>6. CASE UNCHANGED vars
  BY <1>6, ListedFrame DEF vars
<1> QED BY <1>1, <1>2, <1>3, <1>4, <1>5, <1>6 DEF Next

\* IInv holds always: checkpoints, logs and memory stay in step, and what is
\* listed for removal is torn or on record.
THEOREM StoreInvariant == Spec => []IInv
<1>1. IInv <=> TypeOK /\ Parts /\ CorruptListed
  BY DEF IInv, Parts
<1>2. Init => IInv
  <2>1. Init => CorruptListed
    BY DEF Init, CorruptListed, Decoded
  <2> QED BY <1>1, <2>1, TypeInit, PartsInit
<1>3. IInv /\ [Next]_vars => IInv'
  BY TypeStep, PartsStep, ListedStep DEF IInv, Parts
<1> QED BY <1>2, <1>3, PTL DEF Spec

----------------------------------------------------------------------------
\* Only the end of a load takes an instance from "apply" to "idle".
LEMMA LoadEnds ==
  ASSUME TypeOK, [Next]_vars, NEW i \in Instances, pc[i] = "apply", pc'[i] = "idle"
  PROVE  ApplyLog(i)
<1> USE DEF TypeOK, Goto, Then
<1>1. ASSUME NEW j \in Instances, Load(j)
      PROVE  ApplyLog(i)
  BY <1>1 DEF Load, LoadStarts, Prune, Replay, ReplayDone, LoadIndex, ApplyLog, DropCorrupt
<1>2. ASSUME NEW j \in Instances, Call(j)
      PROVE  FALSE
  BY <1>2 DEF Call, LookupMeta, StoreBlob, CommitBlob, BlobFails, CreateLog,
       AppendPart, AppendRest, LogFails, Return
<1>3. ASSUME NEW j \in Instances, Save(j)
      PROVE  FALSE
  BY <1>3 DEF Save, SaveStarts, SaveFails, ScanStarts, ScanLog, ScanLogFails, GcStarts, UnlinkBlob,
       DropStarts, SaveDone, WriteMeta, ScanMeta, ScanMetaFails, JudgeBlob, DropLog
<1>4. ASSUME NEW j \in Instances, Stop(j)
      PROVE  FALSE
  BY <1>4 DEF Stop
<1>5. ~Tick /\ ~UNCHANGED vars
  BY DEF Tick, vars
<1> QED BY <1>1, <1>2, <1>3, <1>4, <1>5 DEF Next

\* A load finds every entry that was on disk when it read the log.
THEOREM LoadsMissNothing == Spec => LoadMissesNothing
<1>1. ASSUME IInv, [Next]_vars, NEW i \in Instances, pc[i] = "apply", pc'[i] = "idle",
             NEW k \in present[i]
      PROVE  mem'[i][k] # NoVersion
  <2> USE <1>1 DEF IInv
  <2>1. ApplyLog(i) /\ k \in Keys /\ recs[i] \subseteq LogFile
    BY LoadEnds DEF TypeOK
  <2>2. mem'[i][k] \in Recovered(mem[i][k], k, recs[i])
    BY <2>1 DEF ApplyLog, TypeOK
  <2>3. mem[i][k] # NoVersion \/ \E w \in recs[i] : w.key = k
    BY DEF LoadSees
  <2>4. \A w \in recs[i] : w.ver # NoVersion
    BY <2>1, StoreAssumption DEF LogFile
  <2> QED BY <2>2, <2>3, <2>4 DEF Recovered
<1>2. IInv /\ [Next]_vars =>
        [\A i \in Instances : pc[i] = "apply" /\ pc'[i] = "idle" =>
           \A k \in present[i] : mem'[i][k] # NoVersion]_vars
  BY <1>1
<1> QED BY <1>2, StoreInvariant, PTL DEF Spec, LoadMissesNothing

\* A meta, once there, stays.
LEMMA MetasStay ==
  ASSUME IInv, Next, NEW k \in Keys, metas[k] # NoVersion
  PROVE  metas'[k] # NoVersion
<1> USE DEF IInv, TypeOK, disk
<1>1. ASSUME NEW i \in Instances, NEW l \in Keys, WriteMeta(i, l)
      PROVE  metas'[k] # NoVersion
  BY <1>1 DEF WriteMeta, Checkpointed
<1>2. ASSUME NEW i \in Instances, Load(i)
      PROVE  UNCHANGED metas
  BY <1>2 DEF Load, LoadStarts, Prune, Replay, ReplayDone, LoadIndex, ApplyLog, DropCorrupt
<1>3. ASSUME NEW i \in Instances, Call(i)
      PROVE  UNCHANGED metas
  BY <1>3 DEF Call, LookupMeta, StoreBlob, CommitBlob, BlobFails, CreateLog,
       AppendPart, AppendRest, LogFails
<1>4. ASSUME NEW i \in Instances, Save(i)
      PROVE  metas'[k] # NoVersion
  BY <1>1, <1>4 DEF Save, SaveStarts, SaveFails, ScanStarts, ScanLog, ScanLogFails, GcStarts, UnlinkBlob,
       DropStarts, SaveDone, ScanMeta, ScanMetaFails, JudgeBlob, DropLog
<1> QED BY <1>2, <1>3, <1>4 DEF Next, Stop, Tick

\* A log file with an entry whose key has no meta is removed by nobody who could
\* read it.
LEMMA LogsStay ==
  ASSUME IInv, Next, ~Tick, NEW w \in Decoded, w.age < 2, metas[w.key] = NoVersion,
         w \notin Decoded'
  PROVE  w \in wal \ wal' /\ w.num \in unread.logs
<1> USE DEF IInv, TypeOK, disk, Decoded
<1>0. SUFFICES ASSUME w.num \notin unread.logs
               PROVE  w \in wal'
  <2>1. w \in wal /\ w \notin wal'
    OBVIOUS
  <2> QED BY <2>1
<1>1. ASSUME NEW i \in Instances, Load(i)
      PROVE  w \in wal'
  <2>1. CASE Prune(i)
    BY <2>1, PruneEffect
  <2>2. ASSUME NEW n \in 1 .. MaxStores, DropCorrupt(i, n)
        PROVE  w \in wal'
    <3>1. n \in todo[i] /\ pc[i] \in {"dropcorrupt", "scandrop"}
      BY <2>2 DEF DropCorrupt
    <3>2. w.num # n
      BY <1>0, <3>1 DEF CorruptListed, TornForGood
    <3> QED BY <2>2, <3>2, DropEffect DEF DropCorrupt
  <2> QED BY <1>1, <2>1, <2>2 DEF Load, LoadStarts, Replay, ReplayDone, LoadIndex, ApplyLog
<1>2. ASSUME NEW i \in Instances, Call(i)
      PROVE  w \in wal'
  <2>1. CASE AppendPart(i) \/ AppendRest(i)
    <3>1. w \notin BeingWritten(i)
      BY <2>1 DEF AppendPart, AppendRest, BeingWritten, CorruptListed
    <3> QED BY <2>1, <3>1 DEF AppendPart, AppendRest, Write
  <2>2. CASE CreateLog(i)
    BY <2>2 DEF CreateLog
  <2> QED BY <1>2, <2>1, <2>2
          DEF Call, LookupMeta, StoreBlob, CommitBlob, BlobFails, LogFails
<1>3. ASSUME NEW i \in Instances, Save(i)
      PROVE  w \in wal'
  <2>1. ASSUME NEW n \in 1 .. MaxStores, DropLog(i, n)
        PROVE  w \in wal'
    <3>1. w.num # n
      <4> SUFFICES ASSUME w.num = n PROVE FALSE
        OBVIOUS
      <4>1. pc[i] = "droplog" /\ w.num \in own[i] /\ w.key \in Keys
        BY <2>1 DEF DropLog, Checkpointed, LogFile
      <4>2. mem[i][w.key] # NoVersion
        BY <4>1 DEF OwnRemembered
      <4> QED BY <4>1, <4>2 DEF Checkpointed, Saving
    <3> QED BY <2>1, <3>1, DropEffect DEF DropLog
  <2> QED BY <1>3, <2>1
          DEF Save, SaveStarts, SaveFails, ScanStarts, ScanLog, ScanLogFails, GcStarts,
              UnlinkBlob, DropStarts, SaveDone, WriteMeta, ScanMeta, ScanMetaFails, JudgeBlob
<1>4. ASSUME NEW i \in Instances, Stop(i)
      PROVE  w \in wal'
  BY <1>4 DEF Stop
<1> QED BY <1>1, <1>2, <1>3, <1>4 DEF Next

\* An entry on disk stays there (EntryStaysOnDisk), however many instances load,
\* store, save, fail and stop at once and wherever a line is cut.
THEOREM EntriesStayOnDisk == Spec => EntryStaysOnDisk
<1>1. ASSUME IInv, Next, ~Tick, NEW k \in Keys, OnDisk(k, wal), ~OnDisk(k, wal)'
      PROVE  \E w \in wal \ wal' : w.key = k /\ w.num \in unread.logs
  <2>1. metas[k] = NoVersion
    BY <1>1, MetasStay DEF OnDisk
  <2>2. PICK w \in Decoded : w.key = k /\ w.age < 2
    BY <1>1, <2>1 DEF OnDisk
  <2>3. w \notin Decoded'
    BY <1>1, <2>2 DEF OnDisk, Decoded
  <2> QED BY <1>1, <2>1, <2>2, <2>3, LogsStay
<1>2. ASSUME NEW k \in Keys, UNCHANGED vars
      PROVE  OnDisk(k, wal)' = OnDisk(k, wal)
  BY <1>2 DEF vars, OnDisk, Decoded
<1>3. IInv /\ [Next]_vars =>
        [\A k \in Keys : OnDisk(k, wal) /\ ~OnDisk(k, wal)' =>
           Tick \/ \E w \in wal \ wal' : w.key = k /\ w.num \in unread.logs]_vars
  BY <1>1, <1>2
<1> QED BY <1>3, StoreInvariant, PTL DEF Spec, EntryStaysOnDisk

----------------------------------------------------------------------------
(* The blobs: what refers to a blob finds it, where one instance stores and *)
(* saves; and the collection leaves alone what a store has just written,    *)
(* where nothing gets old meanwhile, however many store and save.           *)

OneBuilder == \A i, j \in Builders : i = j

Exists(v) == blobs[v] # "absent"

\* It exists, or a scan has missed a reference to it.
Safe(v) == v \in unread.blobs \/ Exists(v)

\* Only a builder stores or saves.
RolesKept == \A i \in Instances : pc[i] \in Storing \union Saving => i \in Builders

\* Whatever a builder will refer to a blob by is safe: an entry in memory, a
\* record that its load has read, a store past its first step.
NamesExist(i) ==
  /\ \A k \in Keys : mem[i][k] # NoVersion => Safe(mem[i][k])
  /\ \A w \in recs[i] : Safe(w.ver)
  /\ recs[i] # {} => pc[i] \in {"dropcorrupt", "index", "apply"}
  /\ pc[i] \in {"create", "append"} => Safe(arg[i].ver)
  /\ pc[i] = "append" => \A w \in wal : w.num = arg[i].num => w.ver = arg[i].ver

\* Past the checkpoint the metas are what its memory holds.
MetasCurrent(i) ==
  /\ pc[i] = "checkpoint" =>
       \A k \in Keys : mem[i][k] # NoVersion => k \in todo[i] \/ metas[k] = mem[i][k]
  /\ pc[i] \in Saving \ {"checkpoint"} =>
       \A k \in Keys : mem[i][k] # NoVersion => metas[k] = mem[i][k]

\* The scan finds every reference that it does not miss, and what it finds is
\* not collected.
ReferencesFound(i) ==
  /\ pc[i] = "scan" =>
       \A k \in Keys \ todo[i] :
         metas[k] # NoVersion => metas[k] \in refs[i] \union unread.blobs
  /\ pc[i] \in {"scandrop", "gc", "unlink"} =>
       /\ \A k \in Keys : metas[k] # NoVersion => metas[k] \in refs[i] \union unread.blobs
       /\ \A w \in Decoded : w.ver \in refs[i] \union unread.blobs
  /\ pc[i] \in {"gc", "unlink"} => todo[i] \intersect refs[i] = {}
  /\ pc[i] = "unlink" => arg[i].ver \notin refs[i]

BuilderSafe(i) == NamesExist(i) /\ MetasCurrent(i) /\ ReferencesFound(i)

References ==
  RolesKept /\ NoDanglingReference /\ \A i \in Builders : BuilderSafe(i)

\* The contents an instance may hold or refer to are contents.
LEMMA KindsOfState ==
  ASSUME TypeOK, NEW i \in Instances
  PROVE  /\ blobs \in [Versions -> {"absent", "fresh", "stale"}]
         /\ metas \in [Keys -> Entry] /\ mem \in [Instances -> [Keys -> Entry]]
         /\ \A w \in wal : w \in LogFile
         /\ \A w \in recs[i] : w \in LogFile
         /\ \A w \in LogFile : w.ver \in Versions /\ w.key \in Keys /\ w.num \in 1 .. MaxStores
         /\ pc[i] \in Storing => arg[i].key \in Keys /\ arg[i].ver \in Versions
         /\ arg[i] \in Locals /\ refs[i] \subseteq Versions
  BY DEF TypeOK, LogFile

LEMMA ReferencesInit == Init => References
  BY StoreAssumption DEF Init, References, RolesKept, NoDanglingReference, BuilderSafe,
     NamesExist, MetasCurrent, ReferencesFound, Decoded, Storing, Saving

LEMMA RolesStep ==
  ASSUME TypeOK, RolesKept, [Next]_vars
  PROVE  RolesKept'
<1> USE DEF TypeOK, RolesKept, Goto, Storing, Saving
<1>1. ASSUME NEW i \in Instances, Load(i) PROVE RolesKept'
  BY <1>1 DEF Load, LoadStarts, Prune, Replay, ReplayDone, LoadIndex, ApplyLog, DropCorrupt,
       Then
<1>2. ASSUME NEW i \in Instances, Call(i) PROVE RolesKept'
  BY <1>2 DEF Call, LookupMeta, StoreBlob, CommitBlob, BlobFails, CreateLog, AppendPart,
       AppendRest, LogFails, Return
<1>3. ASSUME NEW i \in Instances, Save(i) PROVE RolesKept'
  BY <1>3 DEF Save, SaveStarts, SaveFails, ScanStarts, ScanLog, ScanLogFails, GcStarts,
       UnlinkBlob, DropStarts, SaveDone, WriteMeta, ScanMeta, ScanMetaFails, JudgeBlob, DropLog
<1>4. ASSUME NEW i \in Instances, Stop(i) PROVE RolesKept'
  BY <1>4 DEF Stop
<1>5. CASE Tick \/ UNCHANGED vars
  BY <1>5 DEF Tick, vars
<1> QED BY <1>1, <1>2, <1>3, <1>4, <1>5 DEF Next

\* A step keeps References that leaves the builder and the metas alone, and
\* takes away no more than log files.
LEMMA ReferencesFrame ==
  ASSUME TypeOK, References, RolesKept', metas' = metas,
         \A w \in wal' : \E x \in wal : w.num = x.num /\ w.ver = x.ver /\ w.text = x.text,
         unread.blobs \subseteq unread'.blobs,
         \A v \in Versions : Exists(v) => Exists(v)',
         \A j \in Builders : UNCHANGED <<pc[j], mem[j], arg[j], recs[j], refs[j], todo[j]>>
  PROVE  References'
<1>1. \A v \in Versions : v \in unread.blobs \/ blobs[v] # "absent"
                           => v \in unread'.blobs \/ blobs'[v] # "absent"
  BY DEF Exists
<1>2. /\ \A k \in Keys : metas[k] \in Entry
      /\ \A w \in wal : w.ver \in Versions
      /\ \A j \in Builders :
           /\ \A k \in Keys : mem[j][k] \in Entry
           /\ \A w \in recs[j] : w.ver \in Versions
           /\ pc[j] \in Storing => arg[j].ver \in Versions
  BY StoreAssumption DEF TypeOK, LogFile
<1>3. \A w \in Decoded' : \E x \in Decoded : w.ver = x.ver
  BY DEF Decoded
<1>4. NoDanglingReference'
  BY <1>2, <1>3 DEF References, NoDanglingReference, Exists, Decoded
<1>5. ASSUME NEW j \in Builders
      PROVE  BuilderSafe(j)'
  <2>1. BuilderSafe(j) /\ UNCHANGED <<pc[j], mem[j], arg[j], recs[j], refs[j], todo[j]>>
    BY DEF References
  <2>2. NamesExist(j)'
    <3>1. \A k \in Keys : mem[j][k] # NoVersion => mem[j][k] \in Versions
      BY <1>2 DEF Entry
    <3>2. \A w \in wal' : w.num = arg[j].num /\ pc[j] = "append" => w.ver = arg[j].ver
      BY <2>1 DEF BuilderSafe, NamesExist
    <3>3. \A k \in Keys : mem'[j][k] # NoVersion =>
            mem'[j][k] \in unread'.blobs \/ blobs'[mem'[j][k]] # "absent"
      BY <1>1, <2>1, <3>1 DEF BuilderSafe, NamesExist, Safe, Exists
    <3>4. \A w \in recs'[j] : w.ver \in unread'.blobs \/ blobs'[w.ver] # "absent"
      <4>1. recs'[j] = recs[j] /\ \A w \in recs[j] : w.ver \in Versions
        BY ONLY <1>2, <2>1, <1>5
      <4>2. \A w \in recs[j] : w.ver \in unread.blobs \/ blobs[w.ver] # "absent"
        BY ONLY <2>1 DEF BuilderSafe, NamesExist, Safe, Exists
      <4> QED BY ONLY <1>1, <4>1, <4>2
    <3>5. pc'[j] \in {"create", "append"} =>
            arg'[j].ver \in unread'.blobs \/ blobs'[arg'[j].ver] # "absent"
      <4>1. /\ pc'[j] = pc[j] /\ arg'[j] = arg[j]
            /\ pc[j] \in Storing => arg[j].ver \in Versions
        BY ONLY <1>2, <2>1, <1>5
      <4>2. pc[j] \in {"create", "append"} =>
              arg[j].ver \in unread.blobs \/ blobs[arg[j].ver] # "absent"
        BY ONLY <2>1 DEF BuilderSafe, NamesExist, Safe, Exists
      <4> QED BY ONLY <1>1, <4>1, <4>2 DEF Storing
    <3> QED BY ONLY <2>1, <3>2, <3>3, <3>4, <3>5 DEF BuilderSafe, NamesExist, Safe, Exists
  <2>3. MetasCurrent(j)' /\ ReferencesFound(j)'
    BY <1>3, <2>1 DEF BuilderSafe, MetasCurrent, ReferencesFound
  <2> QED BY <2>2, <2>3 DEF BuilderSafe
<1> QED BY <1>4, <1>5 DEF References

----------------------------------------------------------------------------
\* So does every step of an instance that neither stores nor saves.
LEMMA ReferencesOthers ==
  ASSUME IInv, References, RolesKept', NEW i \in Instances \ Builders,
         Load(i) \/ Call(i) \/ Save(i) \/ Stop(i)
  PROVE  References'
<1> USE DEF IInv, disk, history, Goto
<1>0. pc[i] \notin Storing \union Saving /\ Builders \subseteq Instances
  BY StoreAssumption DEF References, RolesKept
<1>1. \A w \in wal : \E x \in wal : w.num = x.num /\ w.ver = x.ver /\ w.text = x.text
  OBVIOUS
<1>2. CASE Load(i)
  <2>1. wal' \subseteq wal /\ unread.blobs \subseteq unread'.blobs
    <3>1. CASE Prune(i)
      BY <3>1, PruneEffect
    <3>2. CASE Replay(i)
      <4>1. PICK miss \in SUBSET Decoded :
              Ignores(Failures(miss), miss \union (Corrupt \intersect BeingFinished), {})
        BY <3>2 DEF Replay
      <4>2. {} \in SUBSET Versions
        OBVIOUS
      <4>3. unread'.blobs = unread.blobs \union {}
        BY <4>1, <4>2, ReplayEffect, Zenon
      <4> QED BY <3>2, <4>3 DEF Replay
    <3>3. CASE LoadIndex(i)
      BY <3>3, FailuresType, FailureEffect DEF LoadIndex
    <3>4. ASSUME NEW n \in 1 .. MaxStores, DropCorrupt(i, n)
          PROVE  wal' \subseteq wal /\ unread.blobs \subseteq unread'.blobs
      BY <3>4, DropEffect DEF DropCorrupt
    <3> QED BY <1>2, <3>1, <3>2, <3>3, <3>4 DEF Load, LoadStarts, ReplayDone, ApplyLog
  <2>2. /\ UNCHANGED <<blobs, metas, arg, refs>>
        /\ \A j \in Instances \ {i} : UNCHANGED <<pc[j], mem[j], recs[j], todo[j]>>
    BY <1>2 DEF Load, LoadStarts, Prune, Replay, ReplayDone, LoadIndex, ApplyLog, DropCorrupt,
         Left, TypeOK
  <2> QED BY <1>0, <1>1, <2>1, <2>2, ReferencesFrame DEF Exists
<1>3. CASE Call(i)
  <2>1. PICK k \in Keys, v \in Versions : LookupMeta(i, k, v)
    BY <1>0, <1>3 DEF Call, StoreBlob, CommitBlob, BlobFails, CreateLog, AppendPart,
         AppendRest, LogFails, Storing
  <2>2. /\ UNCHANGED <<blobs, metas, wal, pc, arg, recs, refs, todo, unread>>
        /\ \A j \in Instances \ {i} : mem'[j] = mem[j]
    BY <2>1 DEF LookupMeta, TypeOK
  <2> QED BY <1>0, <1>1, <2>2, ReferencesFrame DEF Exists
<1>4. CASE Stop(i)
  <2>1. /\ UNCHANGED <<blobs, metas, wal, unread>>
        /\ \A j \in Instances \ {i} :
             UNCHANGED <<pc[j], mem[j], arg[j], recs[j], refs[j], todo[j]>>
    BY <1>4 DEF Stop, TypeOK
  <2> QED BY <1>0, <1>1, <2>1, ReferencesFrame DEF Exists
<1>5. ~Save(i)
  BY <1>0 DEF Save, SaveStarts, SaveFails, ScanStarts, ScanLog, ScanLogFails, GcStarts,
       UnlinkBlob, DropStarts, SaveDone, WriteMeta, ScanMeta, ScanMetaFails, JudgeBlob, DropLog,
       Saving
<1> QED BY <1>2, <1>3, <1>4, <1>5

\* Where there is one builder, its own parts are all there is to keep.
LEMMA OneIsAll ==
  ASSUME OneBuilder, NEW i \in Builders, RolesKept', NoDanglingReference',
         NamesExist(i)', MetasCurrent(i)', ReferencesFound(i)'
  PROVE  References'
  BY DEF OneBuilder, References, BuilderSafe

\* Every step of load_with_settings of a builder keeps what refers to blobs.
LEMMA ReferencesLoad ==
  ASSUME IInv, References, NEW i \in Builders, Load(i)
  PROVE  NoDanglingReference' /\ NamesExist(i)' /\ MetasCurrent(i)' /\ ReferencesFound(i)'
<1>0. /\ i \in Instances /\ BuilderSafe(i) /\ NoDanglingReference
      /\ TypeOK /\ LogsNumbered
  BY StoreAssumption DEF References, IInv
<1> USE <1>0, KindsOfState, StoreAssumption DEF disk, history, Goto, Loading, Storing, Saving,
      BuilderSafe, NoDanglingReference, NamesExist, MetasCurrent, ReferencesFound, Decoded,
      Exists, Safe
<1>1. CASE LoadStarts(i)
  BY <1>1 DEF LoadStarts, Then, TypeOK
<1>2. CASE Prune(i)
  <2>1. wal' \subseteq wal /\ unread'.blobs = unread.blobs
    BY <1>2, PruneEffect
  <2> QED BY <1>2, <2>1 DEF Prune, Then, TypeOK
<1>3. CASE Replay(i)
  <2>1. PICK miss \in SUBSET Decoded :
          /\ Ignores(Failures(miss), miss \union (Corrupt \intersect BeingFinished), {})
          /\ recs' = [recs EXCEPT ![i] = Decoded \ miss]
    BY <1>3 DEF Replay
  <2>2. {} \in SUBSET Versions
    OBVIOUS
  <2>3. unread'.blobs = unread.blobs \union {}
    BY ONLY TypeOK, <2>1, <2>2, ReplayEffect, Zenon
  <2> QED BY <1>3, <2>1, <2>3 DEF Replay, TypeOK
<1>4. CASE ReplayDone(i)
  BY <1>4 DEF ReplayDone, Then, TypeOK
<1>5. CASE LoadIndex(i)
  <2>1. unread'.blobs = unread.blobs
    BY <1>5, FailuresType, FailureEffect DEF LoadIndex
  <2>2. /\ \A k \in Keys : mem'[i][k] \in {NoVersion, metas[k]}
        /\ pc'[i] = "apply" /\ pc[i] = "index"
        /\ UNCHANGED <<blobs, metas, wal, arg, recs, refs, todo>>
    BY <1>5 DEF LoadIndex, Then, TypeOK
  <2>3. NoDanglingReference' /\ MetasCurrent(i)' /\ ReferencesFound(i)'
    BY ONLY <2>1, <2>2, <1>0 DEF NoDanglingReference, MetasCurrent, ReferencesFound, Decoded, Saving
  <2>4. \A k \in Keys : mem'[i][k] # NoVersion =>
          mem'[i][k] \in unread.blobs \/ blobs[mem'[i][k]] # "absent"
    BY <2>2 DEF Entry
  <2>5. NamesExist(i)'
    BY ONLY <1>0, <2>1, <2>2, <2>4 DEF BuilderSafe, NamesExist, Safe, Exists
  <2> QED BY <2>3, <2>5
<1>6. CASE ApplyLog(i)
  <2>1. /\ \A k \in Keys : mem'[i][k] \in Recovered(mem[i][k], k, recs[i])
        /\ pc'[i] = "idle" /\ recs'[i] = {}
        /\ UNCHANGED <<blobs, metas, wal, arg, refs, todo, unread>>
    BY <1>6 DEF ApplyLog, TypeOK
  <2>2. NoDanglingReference' /\ MetasCurrent(i)' /\ ReferencesFound(i)'
    BY ONLY <2>1, <1>0 DEF NoDanglingReference, MetasCurrent, ReferencesFound, Decoded, Saving
  <2>3. \A k \in Keys : mem'[i][k] # NoVersion =>
          mem'[i][k] \in unread.blobs \/ blobs[mem'[i][k]] # "absent"
    <3>1. ASSUME NEW k \in Keys
          PROVE  mem'[i][k] = mem[i][k] \/ \E w \in recs[i] : mem'[i][k] = w.ver
      BY ONLY <2>1, <3>1 DEF Recovered
    <3>2. /\ \A k \in Keys : mem[i][k] # NoVersion =>
                mem[i][k] \in unread.blobs \/ blobs[mem[i][k]] # "absent"
          /\ \A w \in recs[i] : w.ver \in unread.blobs \/ blobs[w.ver] # "absent"
      BY ONLY <1>0 DEF BuilderSafe, NamesExist, Safe, Exists
    <3> QED BY ONLY <3>1, <3>2
  <2>4. NamesExist(i)'
    BY ONLY <2>1, <2>3 DEF NamesExist, Safe, Exists
  <2> QED BY <2>2, <2>4
<1>7. ASSUME NEW n \in 1 .. MaxStores, DropCorrupt(i, n) PROVE  NoDanglingReference' /\ NamesExist(i)' /\ MetasCurrent(i)'
             /\ ReferencesFound(i)'
  <2>1. wal' \subseteq wal /\ unread'.blobs = unread.blobs
    BY <1>7, DropEffect DEF DropCorrupt
  <2> QED BY <1>7, <2>1 DEF DropCorrupt, Left, TypeOK
<1> QED BY <1>1, <1>2, <1>3, <1>4, <1>5, <1>6, <1>7 DEF Load

\* Every step of a lookup or a store keeps it.
LEMMA ReferencesCall ==
  ASSUME IInv, References, NEW i \in Builders, Call(i)
  PROVE  NoDanglingReference' /\ NamesExist(i)' /\ MetasCurrent(i)' /\ ReferencesFound(i)'
<1>0. /\ i \in Instances /\ BuilderSafe(i) /\ NoDanglingReference
      /\ TypeOK /\ LogsNumbered
  BY StoreAssumption DEF References, IInv
<1> USE <1>0, KindsOfState, StoreAssumption DEF disk, history, Goto, Loading, Storing, Saving,
      BuilderSafe, NoDanglingReference, NamesExist, MetasCurrent, ReferencesFound, Decoded,
      Exists, Safe
<1>1. ASSUME NEW k \in Keys, NEW v \in Versions, LookupMeta(i, k, v) PROVE  NoDanglingReference' /\ NamesExist(i)' /\ MetasCurrent(i)'
             /\ ReferencesFound(i)'
  BY <1>1 DEF LookupMeta, Matches, Found, TypeOK
<1>2. ASSUME NEW k \in Keys, NEW v \in Versions, StoreBlob(i, k, v) PROVE  NoDanglingReference' /\ NamesExist(i)' /\ MetasCurrent(i)'
             /\ ReferencesFound(i)'
  BY <1>2 DEF StoreBlob, TypeOK
<1>3. CASE CommitBlob(i)
  BY <1>3 DEF CommitBlob, TypeOK
<1>4. CASE BlobFails(i)
  BY <1>4 DEF BlobFails, Return, TypeOK
<1>5. CASE CreateLog(i)
  BY <1>5 DEF CreateLog, LogsNumbered, TypeOK
<1>6. CASE AppendPart(i)
<2>1. Decoded' \subseteq Decoded /\ \A w \in wal' : \E x \in wal : w.num = x.num /\ w.ver = x.ver
  BY <1>6, WriteEffect DEF AppendPart
<2> QED BY <1>6, <2>1 DEF AppendPart, TypeOK
<1>7. CASE AppendRest(i)
<2>1. \A w \in wal' : \E x \in wal : /\ w.num = x.num /\ w.ver = x.ver
                                     /\ w.text = x.text \/ x.num = arg[i].num
  BY <1>7, WriteEffect DEF AppendRest
<2>2. \A w \in Decoded' : Safe(w.ver)
  BY <1>7, <2>1 DEF AppendRest
<2>3. \A w \in wal : w.num = arg[i].num => w.ver = arg[i].ver
  BY <1>7 DEF AppendRest
<2> QED BY <1>7, <2>1, <2>2 DEF AppendRest, Remember, Return, TypeOK
<1>8. CASE LogFails(i)
  BY <1>8 DEF LogFails, Remember, Return, TypeOK
<1> QED BY <1>1, <1>2, <1>3, <1>4, <1>5, <1>6, <1>7, <1>8 DEF Call

\* Every step of save keeps it: what it removes is what nothing refers to.
LEMMA ReferencesSave ==
  ASSUME IInv, References, NEW i \in Builders, Save(i)
  PROVE  NoDanglingReference' /\ NamesExist(i)' /\ MetasCurrent(i)' /\ ReferencesFound(i)'
<1>0. /\ i \in Instances /\ BuilderSafe(i) /\ NoDanglingReference
      /\ TypeOK /\ LogsNumbered
  BY StoreAssumption DEF References, IInv
<1> USE <1>0, KindsOfState, StoreAssumption DEF disk, history, Goto, Loading, Storing, Saving,
      BuilderSafe, NoDanglingReference, NamesExist, MetasCurrent, ReferencesFound, Decoded,
      Exists, Safe
<1>1. CASE SaveStarts(i)
  BY <1>1 DEF SaveStarts, TypeOK
<1>2. CASE SaveFails(i)
  BY <1>2 DEF SaveFails, TypeOK
<1>3. CASE ScanStarts(i)
  BY <1>3 DEF ScanStarts, TypeOK
<1>4. CASE ScanLog(i)
  <2>1. PICK miss \in SUBSET Decoded :
          /\ Ignores(Failures(miss), miss \union (Corrupt \intersect BeingFinished),
                     {w.ver : w \in miss})
          /\ refs' = [refs EXCEPT ![i] = @ \union LogReferences(Decoded \ miss)]
    BY <1>4 DEF ScanLog
  <2>2. /\ miss \union (Corrupt \intersect BeingFinished) \in SUBSET LogFile
        /\ {w.ver : w \in miss} \in SUBSET Versions
    BY DEF TypeOK, Corrupt
  <2>3. unread'.blobs = unread.blobs \union {w.ver : w \in miss}
    BY ONLY TypeOK, <2>1, <2>2, ReplayEffect, Zenon
  <2>4. \A w \in Decoded : w.ver \in refs'[i] \union unread'.blobs
    BY <2>1, <2>3 DEF LogReferences, TypeOK
  <2>5. /\ pc[i] = "scan" /\ todo[i] = {} /\ pc'[i] = "scandrop"
        /\ refs[i] \subseteq refs'[i] /\ unread.blobs \subseteq unread'.blobs
        /\ UNCHANGED <<blobs, metas, wal, mem, arg, recs>>
    BY <1>4, <2>1, <2>3 DEF ScanLog, TypeOK
  <2> QED BY ONLY <1>0, <2>4, <2>5 DEF NoDanglingReference, BuilderSafe, NamesExist, Safe, Exists,
       MetasCurrent, ReferencesFound, Decoded, Saving
<1>5. CASE ScanLogFails(i)
  <2>1. {w.ver : w \in Decoded} \in SUBSET Versions
    BY DEF TypeOK
  <2>2. unread'.blobs = unread.blobs \union {w.ver : w \in Decoded}
    BY <1>5, <2>1, IgnoresEffect DEF ScanLogFails
  <2> QED BY <1>5, <2>2 DEF ScanLogFails, TypeOK
<1>6. ASSUME NEW k \in Keys, ScanMetaFails(i, k) PROVE  NoDanglingReference' /\ NamesExist(i)' /\ MetasCurrent(i)'
             /\ ReferencesFound(i)'
  <2>1. MetaReference(k) \in SUBSET Versions
    BY DEF MetaReference, TypeOK, Entry
  <2>2. unread'.blobs = unread.blobs \union MetaReference(k)
    BY <1>6, <2>1, IgnoresEffect DEF ScanMetaFails
  <2> QED BY <1>6, <2>2 DEF ScanMetaFails, MetaReference, Left, TypeOK
<1>7. CASE GcStarts(i)
  BY <1>7 DEF GcStarts, TypeOK
<1>8. CASE UnlinkBlob(i)
  <2>1. unread'.blobs = unread.blobs
    BY <1>8, FailureEffect DEF UnlinkBlob
  <2> QED BY <1>8, <2>1 DEF UnlinkBlob, TypeOK
<1>9. CASE DropStarts(i)
  BY <1>9 DEF DropStarts, LogsToDrop, TypeOK
<1>10. CASE SaveDone(i)
  BY <1>10 DEF SaveDone, TypeOK
<1>11. ASSUME NEW k \in Keys, WriteMeta(i, k) PROVE  NoDanglingReference' /\ NamesExist(i)' /\ MetasCurrent(i)'
             /\ ReferencesFound(i)'
  BY <1>11 DEF WriteMeta, Left, TypeOK
<1>12. ASSUME NEW k \in Keys, ScanMeta(i, k) PROVE  NoDanglingReference' /\ NamesExist(i)' /\ MetasCurrent(i)'
             /\ ReferencesFound(i)'
  BY <1>12 DEF ScanMeta, MetaReference, Left, TypeOK
<1>13. ASSUME NEW b \in Versions, JudgeBlob(i, b) PROVE  NoDanglingReference' /\ NamesExist(i)' /\ MetasCurrent(i)'
             /\ ReferencesFound(i)'
<2>1. pc[i] = "gc" /\ b \in todo[i] /\ b \notin refs[i]
  BY <1>13 DEF JudgeBlob
<2>2. CASE Collectable(b)
  <3>1. /\ pc' = [pc EXCEPT ![i] = "unlink"] /\ todo' = [todo EXCEPT ![i] = @ \ {b}]
        /\ arg' = [arg EXCEPT ![i].ver = b]
        /\ UNCHANGED <<blobs, metas, wal, mem, own, recs, refs, loads, stores, unread>>
    BY <1>13, <2>2 DEF JudgeBlob, Left
  <3>2. arg'[i].ver = b /\ pc'[i] = "unlink" /\ todo'[i] \subseteq todo[i]
    BY <3>1 DEF TypeOK, Locals
  <3> QED BY <2>1, <3>1, <3>2
<2>3. CASE ~Collectable(b)
  BY <1>13, <2>3 DEF JudgeBlob, Left, TypeOK
<2> QED BY <2>2, <2>3
<1>14. ASSUME NEW n \in 1 .. MaxStores, DropLog(i, n) PROVE  NoDanglingReference' /\ NamesExist(i)' /\ MetasCurrent(i)'
             /\ ReferencesFound(i)'
  <2>1. wal' \subseteq wal /\ unread'.blobs = unread.blobs
    BY <1>14, DropEffect DEF DropLog
  <2> QED BY <1>14, <2>1 DEF DropLog, Left, TypeOK
<1> QED
  BY <1>1, <1>2, <1>3, <1>4, <1>5, <1>6, <1>7, <1>8, <1>9, <1>10, <1>11, <1>12, <1>13,
     <1>14 DEF Save

\* So does every step.
LEMMA ReferencesStep ==
  ASSUME OneBuilder, IInv, References, [Next]_vars
  PROVE  References'
<1>0. RolesKept'
  BY RolesStep DEF IInv, References
<1>1. ASSUME NEW i \in Instances \ Builders, Load(i) \/ Call(i) \/ Save(i) \/ Stop(i)
      PROVE  References'
  BY <1>0, <1>1, ReferencesOthers
<1>2. ASSUME NEW i \in Builders, Load(i) \/ Call(i) \/ Save(i)
      PROVE  References'
  BY <1>0, <1>2, OneIsAll, ReferencesLoad, ReferencesCall, ReferencesSave
<1>3. ASSUME NEW i \in Builders, Stop(i)
      PROVE  References'
  <2>1. NoDanglingReference'
    BY <1>3 DEF Stop, disk, References, NoDanglingReference, Decoded
  <2>2. NamesExist(i)' /\ MetasCurrent(i)' /\ ReferencesFound(i)'
    BY <1>3, StoreAssumption DEF Stop, Goto, NamesExist, MetasCurrent, ReferencesFound, Saving,
       IInv, TypeOK
  <2> QED BY <1>0, <2>1, <2>2, OneIsAll
<1>4. CASE Tick
  <2>1. \A w \in wal' : \E x \in wal : w.num = x.num /\ w.ver = x.ver /\ w.text = x.text
    BY <1>4, TickEffect DEF IInv
  <2>2. \A v \in Versions : Exists(v) => Exists(v)'
    BY <1>4 DEF Tick, Exists, IInv, TypeOK
  <2>3. UNCHANGED <<metas, pc, mem, own, arg, recs, refs, todo, loads, stores, unread>>
    BY <1>4 DEF Tick, history
  <2> QED BY <1>0, <2>1, <2>2, <2>3, ReferencesFrame DEF IInv
<1>5. CASE UNCHANGED vars
  <2>1. \A w \in wal' : \E x \in wal : w.num = x.num /\ w.ver = x.ver /\ w.text = x.text
    BY <1>5 DEF vars
  <2> QED BY <1>0, <1>5, <2>1, ReferencesFrame DEF vars, Exists, IInv
<1>6. Builders \subseteq Instances
  BY StoreAssumption
<1> QED BY <1>1, <1>2, <1>3, <1>4, <1>5, <1>6 DEF Next

\* Whatever a meta or a log record on disk refers to is there (unless a scan
\* missed the reference), through saves that collect, fail, stop anywhere and
\* start again, however slow, wherever a log line is cut, and however many
\* others load and look up meanwhile, as long as one instance stores and saves.
THEOREM ReferencesHold ==
  ASSUME OneBuilder
  PROVE  Spec => []NoDanglingReference
<1>1. Init => References
  BY ReferencesInit
<1>2. IInv /\ References /\ [Next]_vars => References'
  BY ReferencesStep
<1>3. References => NoDanglingReference
  BY DEF References
<1> QED BY <1>1, <1>2, <1>3, StoreInvariant, PTL DEF Spec

----------------------------------------------------------------------------
\* What a store has just written, with any number of builders.

\* Nothing gets old during a store or a save, so what a store found missing or
\* wrote itself is not old, and is about to be removed only if it was judged
\* before.
AgesKept ==
  \A i \in Instances :
    /\ pc[i] = "blob" => blobs[arg[i].ver] # "stale"
    /\ pc[i] \in {"create", "append"} /\ ~arg[i].judged =>
         blobs[arg[i].ver] = "fresh" /\ ~Judged(arg[i].ver)

LEMMA AgesInit == Init => AgesKept
  BY DEF Init, AgesKept

\* A step keeps it that brings no store to its blob or past it, judges nothing,
\* and lets nothing get old or lose what is not judged.
LEMMA AgesFrame ==
  ASSUME TypeOK, AgesKept,
         \A j \in Instances :
           /\ pc'[j] = "blob" => pc[j] = "blob" /\ arg'[j] = arg[j]
           /\ pc'[j] \in {"create", "append"} =>
                /\ pc[j] \in {"create", "append"}
                /\ arg'[j].ver = arg[j].ver /\ arg'[j].judged = arg[j].judged
           /\ pc'[j] = "unlink" => pc[j] = "unlink" /\ arg'[j] = arg[j],
         \A v \in Versions :
           /\ blobs[v] # "stale" => blobs'[v] # "stale"
           /\ blobs[v] = "fresh" /\ ~Judged(v) => blobs'[v] = "fresh"
  PROVE  AgesKept'
<1>1. \A j \in Instances : pc[j] \in {"blob", "create", "append"} => arg[j].ver \in Versions
  BY DEF TypeOK, Storing
<1>2. ASSUME NEW j \in Instances, pc'[j] = "blob" PROVE blobs'[arg'[j].ver] # "stale"
  BY <1>1, <1>2 DEF AgesKept
<1>3. ASSUME NEW j \in Instances, pc'[j] \in {"create", "append"}, ~arg'[j].judged
      PROVE  /\ blobs'[arg'[j].ver] = "fresh"
             /\ ~\E l \in Instances : pc'[l] = "unlink" /\ arg'[l].ver = arg'[j].ver
  <2>1. /\ pc[j] \in {"create", "append"} /\ ~arg[j].judged
        /\ arg'[j].ver = arg[j].ver /\ arg[j].ver \in Versions
    BY <1>1, <1>3
  <2>2. blobs[arg[j].ver] = "fresh" /\ ~Judged(arg[j].ver)
    BY <2>1 DEF AgesKept
  <2> QED BY <2>1, <2>2 DEF Judged
<1> QED BY <1>2, <1>3 DEF AgesKept, Judged

\* Every step keeps it.
LEMMA AgesStep ==
  ASSUME Clock = "prompt", TypeOK, AgesKept, [Next]_vars
  PROVE  AgesKept'
<1>0. /\ pc \in [Instances -> {"off", "idle"} \union Loading \union Storing \union Saving]
      /\ arg \in [Instances -> Locals] /\ blobs \in [Versions -> {"absent", "fresh", "stale"}]
      /\ \A i \in Instances : pc[i] \in Storing => arg[i].ver \in Versions
  BY DEF TypeOK
<1> USE <1>0 DEF disk, Goto
<1>1. ASSUME NEW i \in Instances, Load(i) PROVE AgesKept'
  BY <1>1, AgesFrame DEF Load, LoadStarts, Prune, Replay, ReplayDone, LoadIndex, ApplyLog,
       DropCorrupt, Loading, Then
<1>2. ASSUME NEW i \in Instances, Call(i) PROVE AgesKept'
  <2>1. ASSUME NEW k \in Keys, NEW v \in Versions, LookupMeta(i, k, v) PROVE AgesKept'
    BY <2>1, AgesFrame DEF LookupMeta
  <2>2. ASSUME NEW k \in Keys, NEW v \in Versions, StoreBlob(i, k, v) PROVE AgesKept'
    <3>1. /\ blobs' = blobs /\ arg'[i].ver = v
          /\ \A j \in Instances \ {i} : pc'[j] = pc[j] /\ arg'[j] = arg[j]
          /\ pc'[i] = "blob" => blobs[v] = "absent"
          /\ pc'[i] \in {"blob", "create"}
          /\ pc'[i] = "create" => arg'[i].judged
      BY <2>2 DEF StoreBlob, Locals
    <3>2. \A w : Judged(w)' => Judged(w)
      BY <3>1 DEF Judged
    <3> QED BY <3>1, <3>2 DEF AgesKept, Judged
  <2>3. CASE CommitBlob(i)
    <3>1. /\ pc[i] = "blob" /\ pc'[i] = "create"
          /\ arg'[i].judged = Judged(arg[i].ver) /\ arg'[i].ver = arg[i].ver
          /\ \A j \in Instances \ {i} : pc'[j] = pc[j] /\ arg'[j] = arg[j]
          /\ arg[i].ver \in Versions
          /\ \A w \in Versions : blobs'[w] = IF w = arg[i].ver THEN "fresh" ELSE blobs[w]
      BY <2>3 DEF CommitBlob, Locals, Storing
    <3>2. \A w : (\E l \in Instances : pc'[l] = "unlink" /\ arg'[l].ver = w) => Judged(w)
      BY ONLY <3>1 DEF Judged
    <3>3. ASSUME NEW j \in Instances \ {i}
          PROVE  /\ pc'[j] = "blob" => blobs'[arg'[j].ver] # "stale"
                 /\ pc'[j] \in {"create", "append"} /\ ~arg'[j].judged =>
                      blobs'[arg'[j].ver] = "fresh" /\ ~Judged(arg'[j].ver)
      BY <3>1 DEF AgesKept, Storing, Judged
    <3>4. ~arg'[i].judged => ~Judged(arg'[i].ver) /\ blobs'[arg'[i].ver] = "fresh"
      BY ONLY <3>1
    <3>5. ASSUME NEW j \in Instances
          PROVE  /\ pc'[j] = "blob" => blobs'[arg'[j].ver] # "stale"
                 /\ pc'[j] \in {"create", "append"} /\ ~arg'[j].judged =>
                      blobs'[arg'[j].ver] = "fresh" /\ ~Judged(arg'[j].ver)
      BY ONLY <3>1, <3>3, <3>4, <3>5
    <3> QED BY ONLY <3>2, <3>5 DEF AgesKept, Judged
  <2>4. CASE CreateLog(i)
    BY <2>4, AgesFrame DEF CreateLog, Locals
  <2>5. CASE BlobFails(i) \/ LogFails(i)
    BY <2>5, AgesFrame DEF BlobFails, LogFails, Return
  <2>6. CASE AppendPart(i) \/ AppendRest(i)
    BY <2>6, AgesFrame DEF AppendPart, AppendRest, Return
  <2> QED BY <1>2, <2>1, <2>2, <2>3, <2>4, <2>5, <2>6 DEF Call
<1>3. ASSUME NEW i \in Instances, Save(i) PROVE AgesKept'
  <2>1. ASSUME NEW b \in Versions, JudgeBlob(i, b) PROVE AgesKept'
    <3>1. CASE Collectable(b)
      <4>1. /\ blobs' = blobs /\ blobs[b] = "stale" /\ pc'[i] = "unlink" /\ arg'[i].ver = b
            /\ \A j \in Instances \ {i} : pc'[j] = pc[j] /\ arg'[j] = arg[j]
        BY <2>1, <3>1 DEF JudgeBlob, Collectable, Locals
      <4>2. \A w : (\E l \in Instances : pc'[l] = "unlink" /\ arg'[l].ver = w)
                     => Judged(w) \/ w = b
        BY ONLY <4>1 DEF Judged
      <4>3. ASSUME NEW j \in Instances \ {i}
            PROVE  /\ pc'[j] = "blob" => blobs'[arg'[j].ver] # "stale"
                   /\ pc'[j] \in {"create", "append"} /\ ~arg'[j].judged =>
                        /\ blobs'[arg'[j].ver] = "fresh" /\ arg'[j].ver # b
                        /\ ~Judged(arg'[j].ver)
        BY <4>1 DEF AgesKept, Judged
      <4> QED BY <4>1, <4>2, <4>3 DEF AgesKept, Judged
    <3>2. CASE ~Collectable(b)
      BY <2>1, <3>2, AgesFrame DEF JudgeBlob
    <3> QED BY <3>1, <3>2
  <2>2. CASE UnlinkBlob(i)
    <3>1. /\ pc[i] = "unlink" /\ pc'[i] = "gc"
          /\ \A j \in Instances \ {i} : pc'[j] = pc[j] /\ arg'[j] = arg[j]
          /\ \A w \in Versions : w # arg[i].ver => blobs'[w] = blobs[w]
          /\ \A w \in Versions : blobs'[w] \in {blobs[w], "absent"}
      <4>1. /\ pc[i] = "unlink" /\ pc' = [pc EXCEPT ![i] = "gc"]
            /\ arg' = [arg EXCEPT ![i] = NoCall]
            /\ blobs' = [blobs EXCEPT ![arg[i].ver] = "absent"] \/ blobs' = blobs
        BY <2>2 DEF UnlinkBlob
      <4> QED BY <4>1
    <3> QED BY <3>1, AgesFrame DEF Judged
  <2>3. CASE SaveStarts(i) \/ SaveFails(i) \/ ScanStarts(i) \/ ScanLog(i) \/ ScanLogFails(i)
             \/ GcStarts(i) \/ DropStarts(i) \/ SaveDone(i)
    BY <2>3, AgesFrame DEF SaveStarts, SaveFails, ScanStarts, ScanLog, ScanLogFails, GcStarts,
                DropStarts, SaveDone
  <2>4. ASSUME NEW k \in Keys, WriteMeta(i, k) \/ ScanMeta(i, k) \/ ScanMetaFails(i, k)
        PROVE  AgesKept'
    BY <2>4, AgesFrame DEF WriteMeta, ScanMeta, ScanMetaFails
  <2>5. ASSUME NEW n \in 1 .. MaxStores, DropLog(i, n) PROVE AgesKept'
    BY <2>5, AgesFrame DEF DropLog
  <2> QED BY <1>3, <2>1, <2>2, <2>3, <2>4, <2>5 DEF Save
<1>4. ASSUME NEW i \in Instances, Stop(i) PROVE AgesKept'
  BY <1>4, AgesFrame DEF Stop
<1>5. CASE Tick
  <2>1. pc' = pc /\ arg' = arg /\ \A j \in Instances : pc[j] \notin Storing \union Saving
    BY <1>5 DEF Tick
  <2> QED BY <2>1 DEF AgesKept, Storing
<1>6. CASE UNCHANGED vars
  BY <1>6, AgesFrame DEF vars
<1> QED BY <1>1, <1>2, <1>3, <1>4, <1>5, <1>6 DEF Next

\* The collection of save() never takes a blob that a store has written and not
\* yet recorded (FreshBlobsKept; "a writer stores the blob before recording its
\* meta/WAL entry", gc_blobs), however many instances store and save at once,
\* where nothing gets old during a store or a save (BLOB_GRACE_SECS).
THEOREM FreshBlobsStay ==
  ASSUME Clock = "prompt"
  PROVE  Spec => []FreshBlobsKept
<1>1. TypeOK /\ AgesKept /\ [Next]_vars => AgesKept'
  BY AgesStep
<1>2. AgesKept => FreshBlobsKept
  BY DEF AgesKept, FreshBlobsKept
<1> QED BY <1>1, <1>2, AgesInit, TypeCorrect, PTL DEF Spec
=============================================================================
