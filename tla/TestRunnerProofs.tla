-------------------------- MODULE TestRunnerProofs ---------------------------
(***************************************************************************)
(* Why a unit gets the verdict of its own source: whatever is found on the *)
(* paths of a unit that is Alone was made from its source, unless somebody *)
(* is making it, and then no build entry says that it is there.  And why   *)
(* the exit code agrees with the totals: what is collected is a sequence,  *)
(* each verdict is that of its next unit, and a fold over the verdicts is  *)
(* a sum.                                                                  *)
(***************************************************************************)
EXTENDS TestRunner, WellFoundedInduction, TLAPS

Lone      == {i \in DOMAIN units : Alone(i)}
FileOf(i) == units[i].file
Path(i)   == Binary(units[i])

Statuses == {"pass", "fail", "compiled"}
Done     == {"compiled", "failed"}
Emitting == {"objects", "llc", "link", "linking", "store"}

\* Threads exist for units of one chunk, and work while the phase is "compile".
Chunked ==
  /\ DOMAIN at \subseteq DOMAIN units
  /\ \A i, j \in DOMAIN at : ChunkOf(i) = ChunkOf(j)
  /\ \A i \in DOMAIN at : at[i] \in {"start"} \cup Emitting \cup Done
  /\ phase \in {"collect", "compile", "run", "reported"}
  /\ phase \in {"collect", "reported"} => at = <<>>
  /\ phase = "run" => \A i \in DOMAIN at : at[i] \in Done
  /\ phase # "collect" => written = DOMAIN units
  /\ phase # "compile" => making = <<>>

\* The copies that have been written are those of this invocation.
CopiesWritten ==
  \A i \in Lone \cap written :
    units[i].kind = "copy" => /\ Target(units[i]) \in DOMAIN texts
                              /\ texts[Target(units[i])] = FileOf(i)

\* A C object under its own name is whole, and its source compiles.
ObjectsWhole ==
  \A p \in DOMAIN objects : p = <<p[1]>> => objects[p] = Whole /\ p[1] \notin BadSources

\* What a thread for a C object knows of it.
MakersKnow ==
  \A t \in DOMAIN making :
    /\ t = <<t[1], t[2]>> /\ t[1] \in DOMAIN at /\ at[t[1]] # "start"
    /\ making[t] \in {"tcc", "publish"} => TempPath(t[1], t[2]) \in DOMAIN objects
    /\ making[t] = "publish" => /\ objects[TempPath(t[1], t[2])] = Whole
                                /\ t[2] \notin BadSources
    /\ making[t] = "done"   => ObjectPath(t[2]) \in DOMAIN objects
    /\ making[t] = "failed" => t[2] \in BadSources
    /\ t[1] \in Lone        => t[2] \in FileOf(t[1]).cs

\* The binary of a unit is there and was made from its source.
Made(i) == Path(i) \in DOMAIN binaries /\ binaries[Path(i)] = Of(FileOf(i))
\* A build entry says so.
Recorded(i) ==
  /\ Target(units[i]) \in DOMAIN built
  /\ built[Target(units[i])] = [file |-> FileOf(i), binary |-> Path(i)]

RecordedIsMade == \A i \in Lone : Recorded(i) => Made(i) /\ FileOf(i).cs \cap BadSources = {}

\* What a thread at each place has done so far.
Stage(i) ==
  /\ at[i] \in Emitting => command.run /\ ~FileOf(i).broken /\ ~Recorded(i)
  /\ at[i] = "objects" => \A c \in FileOf(i).cs : <<i, c>> \in DOMAIN making
  /\ at[i] \in Emitting \ {"objects"} => \A c \in FileOf(i).cs : ObjectPath(c) \in DOMAIN objects
  /\ at[i] \in {"llc", "link"} => IrObject(i) \in DOMAIN irs
  /\ at[i] = "link" => irs[IrObject(i)] = Of(FileOf(i))
  /\ at[i] = "linking" => /\ i \in DOMAIN linking /\ linking[i] = Of(FileOf(i))
                          /\ Path(i) \in DOMAIN binaries
  /\ at[i] = "store" => Made(i)
  /\ at[i] = "compiled" => /\ ~FileOf(i).broken
                           /\ command.run => Made(i) /\ FileOf(i).cs \cap BadSources = {}
  /\ at[i] = "failed" => FileOf(i).broken \/ (command.run /\ FileOf(i).cs \cap BadSources # {})
Stages == \A i \in Lone \cap DOMAIN at : Stage(i)

\* The child is that of the next unit, and runs what was made from its source.
ChildOfNext ==
  /\ DOMAIN child = {"unit", "file", "left", "pipe", "exited"}
  /\ child # NoChild =>
       /\ phase = "run" /\ child.unit = next /\ next \in DOMAIN at
       /\ Runs(units[next])
       /\ next \in Lone => /\ child.file = Of(FileOf(next)) /\ ~FileOf(next).broken
                           /\ FileOf(next).cs \cap BadSources = {}

Reported == results \in Seq(Statuses)

IInv ==
  /\ Chunked /\ CopiesWritten /\ ObjectsWhole /\ MakersKnow /\ RecordedIsMade
  /\ Stages /\ ChildOfNext /\ Reported /\ OwnVerdict

----------------------------------------------------------------------------
\* Units that share the words of a unit that is Alone.

\* They are copies of it, in other chunks (Alone).
LEMMA Copies ==
  ASSUME NEW i \in Lone, NEW j \in DOMAIN units, SameWords(j, i)
  PROVE  /\ j \in Lone /\ FileOf(j) = FileOf(i) /\ Target(units[j]) = Target(units[i])
         /\ j # i => ChunkOf(j) # ChunkOf(i)
<1>1. {n \in DOMAIN units : SameWords(n, j)} = {n \in DOMAIN units : SameWords(n, i)}
  BY DEF SameWords
<1>2. i \in {n \in DOMAIN units : SameWords(n, i)} /\ j \in {n \in DOMAIN units : SameWords(n, i)}
  BY DEF Lone, SameWords
<1> QED BY <1>1, <1>2 DEF Lone, Alone, FileOf

\* Of those that are compiled there is only the unit itself (InChunk).
LEMMA OneAtATime ==
  ASSUME Chunked, NEW i \in Lone \cap DOMAIN at, NEW j \in DOMAIN at, SameWords(j, i)
  PROVE  j = i
BY Copies DEF Chunked

\* One path for a binary or for an object of llc is made of the same words.
LEMMA PathsHaveWords ==
  ASSUME NEW i, NEW j
  PROVE  /\ Path(i) = Path(j) => SameWords(i, j)
         /\ IrObject(i) = IrObject(j) => SameWords(i, j)
<1>1. Path(i) = Path(j) => SameWords(i, j)
  BY DEF Path, SameWords
<1>2. \A u : \E w, x : Binary(u) = [words |-> w, ext |-> x]
  BY DEF Binary, Stem
<1>3. PICK w, x : Binary(units[i]) = [words |-> w, ext |-> x]
  BY <1>2
<1>4. PICK v, y : Binary(units[j]) = [words |-> v, ext |-> y]
  BY <1>2
<1>5. /\ IrObject(i) = [words |-> w, ext |-> "mire.ir.o"]
      /\ IrObject(j) = [words |-> v, ext |-> "mire.ir.o"]
  BY <1>3, <1>4 DEF IrObject
<1>6. IrObject(i) = IrObject(j) => w = v
  BY <1>5
<1> QED BY <1>1, <1>3, <1>4, <1>6 DEF SameWords

\* What a unit that is Alone compiles is its own source (Source).
LEMMA SourceIsOwn ==
  ASSUME Chunked, CopiesWritten, NEW i \in Lone \cap DOMAIN at
  PROVE  Source(i) = FileOf(i)
<1>1. phase # "collect"
  BY DEF Chunked
<1>2. i \in written
  BY <1>1 DEF Chunked, Lone
<1> QED BY <1>2 DEF CopiesWritten, Source, FileOf

\* The units do not change, so what is said of them does not either.
LEMMA UnitsStay ==
  ASSUME units' = units
  PROVE  Lone' = Lone
BY DEF Lone, Alone, SameWords, ChunkOf

----------------------------------------------------------------------------
\* Compiling.

\* Compilations touch nothing but the disk and their own state.
Apart == UNCHANGED <<command, units, written, texts, child, results, phase, runs>>

\* What they leave alone stays true of the walk, the child and the verdicts.
LEMMA CompilingApart ==
  ASSUME IInv, Apart, NEW i \in DOMAIN at, NEW place \in {"start"} \cup Emitting \cup Done,
         \/ UNCHANGED at /\ at[i] # "start"
         \/ at[i] \notin Done /\ Goto(i, place),
         making # <<>> => phase = "compile",
         making' # <<>> => phase = "compile"
  PROVE  Chunked' /\ CopiesWritten' /\ ChildOfNext' /\ Reported' /\ OwnVerdict'
<1> USE DEF Apart, IInv
<1>1. Lone' = Lone
  BY UnitsStay
<1>2. Chunked'
  BY DEF Chunked, Goto, ChunkOf
<1>3. CopiesWritten'
  BY <1>1 DEF CopiesWritten, FileOf
<1>4. ChildOfNext'
  <2>1. DOMAIN at' = DOMAIN at
    BY DEF Goto
  <2>2. next' = next
    BY DEF next
  <2>3. Runs(units[next])' = Runs(units[next])
    BY <2>2 DEF Runs
  <2> QED BY <1>1, <2>1, <2>2, <2>3 DEF ChildOfNext, FileOf
<1>5. Reported' /\ OwnVerdict'
  BY DEF Reported, OwnVerdict, Alone, SameWords, ChunkOf, Own, Runs
<1> QED BY <1>2, <1>3, <1>4, <1>5

\* The threads for C objects, and what is written under the names of objects, are
\* left alone by a step of a compilation that is past its start.
LEMMA ObjectsApart ==
  ASSUME ObjectsWhole, MakersKnow, UNCHANGED <<units, runs, objects, making>>,
         NEW i \in DOMAIN at, at[i] # "start",
         NEW place \in Emitting \cup Done, Goto(i, place)
  PROVE  ObjectsWhole' /\ MakersKnow'
<1>1. ObjectsWhole'
  BY DEF ObjectsWhole
<1>2. /\ DOMAIN at' = DOMAIN at /\ \A j \in DOMAIN at : at[j] # "start" => at'[j] # "start"
  BY DEF Goto, Emitting, Done
<1>3. Lone' = Lone
  BY UnitsStay
<1>4. \A j, c : TempPath(j, c)' = TempPath(j, c)
  BY DEF TempPath
<1>5. MakersKnow'
  BY <1>2, <1>3, <1>4 DEF MakersKnow, FileOf
<1> QED BY <1>1, <1>5

\* A step of the compilation of unit i changes nothing elsewhere.
Same(f, g, x) == (x \in DOMAIN f <=> x \in DOMAIN g) /\ (x \in DOMAIN g => f[x] = g[x])
Within(i) ==
  /\ \A p : p # IrObject(i) => Same(irs', irs, p)
  /\ \A p : p # Path(i) => Same(binaries', binaries, p)
  /\ \A n : n # i => Same(linking', linking, n) /\ Same(at', at, n)
  /\ \A t : \/ Same(built', built, t)
            \/ t \in DOMAIN built' /\ built'[t].binary = Path(i)
  /\ \A c : ObjectPath(c) \in DOMAIN objects => ObjectPath(c) \in DOMAIN objects'
  /\ DOMAIN making \subseteq DOMAIN making'

\* So the stages of the other units that are Alone stay as they are.
LEMMA OthersStay ==
  ASSUME Chunked, Stages, UNCHANGED <<command, units>>,
         NEW i \in DOMAIN at, Within(i), NEW n \in Lone \cap DOMAIN at, n # i
  PROVE  Stage(n)'
<1>1. IrObject(n) # IrObject(i) /\ Path(n) # Path(i)
  <2>1. ~SameWords(i, n)
    BY OneAtATime
  <2> QED BY <2>1, PathsHaveWords DEF SameWords
<1>2. Stage(n)
  BY DEF Stages
<1>3. at'[n] = at[n]
  BY DEF Within, Same
<1>4. FileOf(n)' = FileOf(n) /\ Path(n)' = Path(n) /\ IrObject(n)' = IrObject(n)
  BY DEF FileOf, Path, IrObject
<1>5. /\ IrObject(n) \in DOMAIN irs => IrObject(n) \in DOMAIN irs' /\ irs'[IrObject(n)] = irs[IrObject(n)]
      /\ Path(n) \in DOMAIN binaries => /\ Path(n) \in DOMAIN binaries'
                                        /\ binaries'[Path(n)] = binaries[Path(n)]
      /\ n \in DOMAIN linking => n \in DOMAIN linking' /\ linking'[n] = linking[n]
  BY <1>1 DEF Within, Same
<1>6. Recorded(n)' => Recorded(n)
  <2>1. CASE Same(built', built, Target(units[n]))
    BY <2>1, <1>4 DEF Recorded, Same
  <2>2. CASE built'[Target(units[n])].binary = Path(i)
    BY <2>2, <1>1, <1>4 DEF Recorded
  <2> QED BY <2>1, <2>2 DEF Within
<1>7. Made(n) => Made(n)'
  BY <1>4, <1>5 DEF Made
<1>8. \A c : ObjectPath(c) \in DOMAIN objects => ObjectPath(c) \in DOMAIN objects'
  BY DEF Within
<1>9. \A c : <<n, c>> \in DOMAIN making => <<n, c>> \in DOMAIN making'
  BY DEF Within
<1> QED BY <1>2, <1>3, <1>4, <1>5, <1>6, <1>7, <1>8, <1>9 DEF Stage, Emitting

\* Entries vouch for what is there: a unit that writes to its binary has none.
LEMMA EntriesStay ==
  ASSUME RecordedIsMade, Stages, UNCHANGED <<units, built>>, NEW i \in DOMAIN at, i \in DOMAIN units,
         \A p : p # Path(i) => Same(binaries', binaries, p),
         UNCHANGED binaries \/ at[i] \in Emitting
  PROVE  RecordedIsMade'
<1>1. Lone' = Lone
  BY UnitsStay
<1> SUFFICES ASSUME NEW n \in Lone, Recorded(n)
             PROVE  Made(n)' /\ FileOf(n).cs \cap BadSources = {}
  BY <1>1 DEF RecordedIsMade, Recorded, FileOf, Path
<1>2. Made(n) /\ FileOf(n).cs \cap BadSources = {}
  BY DEF RecordedIsMade
<1>3. Path(n)' = Path(n) /\ FileOf(n)' = FileOf(n)
  BY DEF Path, FileOf
<1>4. CASE UNCHANGED binaries
  BY <1>2, <1>3, <1>4 DEF Made
<1>5. CASE Path(n) # Path(i)
  BY <1>2, <1>3, <1>5 DEF Made, Same
<1>6. CASE Path(n) = Path(i) /\ at[i] \in Emitting
  <2>1. SameWords(i, n)
    BY <1>6, PathsHaveWords
  <2>2. i \in Lone /\ FileOf(i) = FileOf(n) /\ Target(units[i]) = Target(units[n])
    BY <2>1, Copies
  <2>3. Recorded(i)
    BY <2>2, <1>6 DEF Recorded
  <2> QED BY <2>2, <2>3, <1>6 DEF Stages, Stage
<1> QED BY <1>2, <1>4, <1>5, <1>6

\* A thread starts: it fails, finds its binary recorded, or begins to make it.
LEMMA StartKeeps ==
  ASSUME IInv, NEW i \in DOMAIN at, Start(i)
  PROVE  IInv'
<1> USE DEF IInv
<1> DEFINE f == Source(i)
           emits == command.run /\ ~f.broken /\ ~Hit(i)
           place == IF f.broken THEN "failed" ELSE IF emits THEN "objects" ELSE "compiled"
<1>1. /\ at[i] = "start" /\ Goto(i, place)
      /\ making' = IF emits THEN [t \in DOMAIN making \cup ({i} \X f.cs) |->
                                 IF t \in DOMAIN making THEN making[t] ELSE "check"] ELSE making
      /\ UNCHANGED <<command, units, written, disk, linking, child, results, phase, runs>>
  BY DEF Start
<1>2. phase = "compile" /\ i \in DOMAIN units /\ place \in {"failed", "objects", "compiled"}
  BY <1>1 DEF Chunked, Done
<1>3. Lone' = Lone
  BY <1>1, UnitsStay
<1>4. Chunked' /\ CopiesWritten' /\ ChildOfNext' /\ Reported' /\ OwnVerdict'
  BY <1>1, <1>2, CompilingApart DEF Apart, disk, Emitting, Done
<1>5. ObjectsWhole'
  BY <1>1 DEF ObjectsWhole, disk
<1>6. DOMAIN making' = DOMAIN making \cup (IF emits THEN {i} \X f.cs ELSE {})
  BY <1>1
<1>7. MakersKnow'
  <2> SUFFICES ASSUME NEW t \in DOMAIN making'
               PROVE  /\ t = <<t[1], t[2]>> /\ t[1] \in DOMAIN at' /\ at'[t[1]] # "start"
                      /\ making'[t] \in {"tcc", "publish"} => TempPath(t[1], t[2]) \in DOMAIN objects
                      /\ making'[t] = "publish" => /\ objects[TempPath(t[1], t[2])] = Whole
                                                   /\ t[2] \notin BadSources
                      /\ making'[t] = "done"   => ObjectPath(t[2]) \in DOMAIN objects
                      /\ making'[t] = "failed" => t[2] \in BadSources
                      /\ t[1] \in Lone        => t[2] \in FileOf(t[1]).cs
    BY <1>1, <1>3 DEF MakersKnow, FileOf, TempPath, disk
  <2>1. CASE t \in DOMAIN making
    <3>1. t[1] # i
      BY <2>1, <1>1 DEF MakersKnow
    <3>2. making'[t] = making[t]
      BY <1>1, <2>1, <3>1
    <3> QED BY <1>1, <1>2, <2>1, <3>1, <3>2 DEF MakersKnow, Goto
  <2>2. CASE t \notin DOMAIN making
    <3>1. emits /\ t \in {i} \X f.cs
      BY <1>6, <2>2
    <3>2. making'[t] = "check"
      BY <1>1, <3>1, <2>2
    <3>3. i \in Lone => f = FileOf(i)
      BY SourceIsOwn
    <3> QED BY <1>1, <1>2, <3>1, <3>2, <3>3 DEF Goto
  <2> QED BY <2>1, <2>2
<1>8. RecordedIsMade'
  BY <1>1, <1>2, EntriesStay DEF disk, Same
<1>9. Stages'
  <2> SUFFICES ASSUME NEW n \in Lone \cap DOMAIN at PROVE Stage(n)'
    BY <1>1, <1>3 DEF Stages, Goto
  <2>1. CASE n # i
    <3>1. Within(i)
      BY <1>1, <1>6 DEF Within, Same, Goto, disk
    <3> QED BY <1>1, <2>1, <3>1, OthersStay
  <2>2. CASE n = i
    <3>1. f = FileOf(i)
      BY <2>2, SourceIsOwn
    <3>2. at'[i] = place
      BY <1>1 DEF Goto
    <3>3. /\ Recorded(i)' = Recorded(i) /\ Made(i)' = Made(i) /\ FileOf(i)' = FileOf(i)
      BY <1>1 DEF Recorded, Made, FileOf, Path, disk
    <3>4. Recorded(i) => Made(i) /\ FileOf(i).cs \cap BadSources = {}
      BY <2>2 DEF RecordedIsMade
    <3>5. Hit(i) <=> Recorded(i) /\ Path(i) \in DOMAIN binaries
      BY <3>1 DEF Hit, Entry, Recorded, Path
    <3>6. Hit(i) <=> Recorded(i)
      BY <3>4, <3>5 DEF Made
    <3>7. place = "objects" => \A c \in FileOf(i).cs : <<i, c>> \in DOMAIN making'
      BY <1>6, <3>1
    <3> QED BY <1>1, <2>2, <3>1, <3>2, <3>3, <3>4, <3>6, <3>7 DEF Stage, Emitting
  <2> QED BY <2>1, <2>2
<1> QED BY <1>4, <1>5, <1>7, <1>8, <1>9

\* The name of an object is not that of a temporary one, and those differ.
LEMMA TempNames ==
  ASSUME NEW i, NEW c, NEW j, NEW d
  PROVE  /\ TempPath(i, c) # ObjectPath(d)
         /\ TempPath(i, c) = TempPath(j, d) => <<i, c>> = <<j, d>>
         /\ TempPath(i, c) # <<TempPath(i, c)[1]>>
BY DEF TempPath, ObjectPath

\* What a thread for C objects does to them, one step at a time.
LEMMA ObjectKeeps ==
  ASSUME IInv, NEW i \in DOMAIN at, NEW c, <<i, c>> \in DOMAIN making,
         Apart, UNCHANGED <<irs, binaries, built, at, linking>>,
         DOMAIN making' = DOMAIN making,
         \A t \in DOMAIN making : t # <<i, c>> => making'[t] = making[t],
         \A p \in DOMAIN objects : p # TempPath(i, c) => p \in DOMAIN objects' /\ objects'[p] = objects[p],
         \A p \in DOMAIN objects' :
           p \notin {TempPath(i, c), ObjectPath(c)} => p \in DOMAIN objects,
         making'[<<i, c>>] \in {"tcc", "publish"} => TempPath(i, c) \in DOMAIN objects',
         making'[<<i, c>>] = "publish" => objects'[TempPath(i, c)] = Whole /\ c \notin BadSources,
         making'[<<i, c>>] = "done" => ObjectPath(c) \in DOMAIN objects',
         making'[<<i, c>>] = "failed" => c \in BadSources,
         ObjectPath(c) \in DOMAIN objects' \ DOMAIN objects
           => objects'[ObjectPath(c)] = Whole /\ c \notin BadSources
  PROVE  IInv'
<1> USE DEF IInv
<1>1. Lone' = Lone
  BY UnitsStay DEF Apart
<1>2. at[i] # "start" /\ phase = "compile"
  BY DEF MakersKnow, Chunked
<1>3. Chunked' /\ CopiesWritten' /\ ChildOfNext' /\ Reported' /\ OwnVerdict'
  BY <1>2, CompilingApart DEF Emitting
<1>4. ObjectsWhole'
  <2> SUFFICES ASSUME NEW p \in DOMAIN objects', p = <<p[1]>>
               PROVE  objects'[p] = Whole /\ p[1] \notin BadSources
    BY DEF ObjectsWhole
  <2>1. p # TempPath(i, c)
    BY TempNames
  <2>2. CASE p \in DOMAIN objects
    BY <2>1, <2>2 DEF ObjectsWhole
  <2>3. CASE p \notin DOMAIN objects
    <3>1. p = ObjectPath(c)
      BY <2>1, <2>3
    <3> QED BY <2>3, <3>1 DEF ObjectPath
  <2> QED BY <2>2, <2>3
<1>5. MakersKnow'
  <2> SUFFICES ASSUME NEW t \in DOMAIN making
               PROVE  /\ t = <<t[1], t[2]>> /\ t[1] \in DOMAIN at /\ at[t[1]] # "start"
                      /\ making'[t] \in {"tcc", "publish"} => TempPath(t[1], t[2]) \in DOMAIN objects'
                      /\ making'[t] = "publish" => /\ objects'[TempPath(t[1], t[2])] = Whole
                                                   /\ t[2] \notin BadSources
                      /\ making'[t] = "done"   => ObjectPath(t[2]) \in DOMAIN objects'
                      /\ making'[t] = "failed" => t[2] \in BadSources
                      /\ t[1] \in Lone        => t[2] \in FileOf(t[1]).cs
    BY <1>1 DEF MakersKnow, FileOf, TempPath, Apart
  <2>1. /\ t = <<t[1], t[2]>> /\ t[1] \in DOMAIN at /\ at[t[1]] # "start"
        /\ t[1] \in Lone => t[2] \in FileOf(t[1]).cs
    BY DEF MakersKnow
  <2>2. CASE t = <<i, c>>
    BY <2>1, <2>2
  <2>3. CASE t # <<i, c>>
    <3>1. TempPath(t[1], t[2]) # TempPath(i, c) /\ ObjectPath(t[2]) # TempPath(i, c)
      BY <2>1, <2>3, TempNames
    <3>2. making'[t] = making[t]
      BY <2>3
    <3> QED BY <2>1, <3>1, <3>2 DEF MakersKnow
  <2> QED BY <2>2, <2>3
<1>6. RecordedIsMade'
  BY <1>1 DEF RecordedIsMade, Recorded, Made, FileOf, Path, Apart
<1>7. Stages'
  <2> SUFFICES ASSUME NEW n \in Lone \cap DOMAIN at PROVE Stage(n)'
    BY <1>1 DEF Stages
  <2>1. Stage(n)
    BY DEF Stages
  <2>2. \A d : ObjectPath(d) \in DOMAIN objects => ObjectPath(d) \in DOMAIN objects'
    BY TempNames
  <2>3. /\ Recorded(n)' = Recorded(n) /\ Made(n)' = Made(n) /\ FileOf(n)' = FileOf(n)
        /\ Path(n)' = Path(n) /\ IrObject(n)' = IrObject(n)
    BY DEF Recorded, Made, FileOf, Path, IrObject, Apart
  <2> QED BY <2>1, <2>2, <2>3 DEF Stage, Apart
<1> QED BY <1>3, <1>4, <1>5, <1>6, <1>7

LEMMA CheckObjectKeeps ==
  ASSUME IInv, NEW i \in DOMAIN at, NEW c, CheckObject(i, c)
  PROVE  IInv'
<1>1. Apart /\ UNCHANGED <<irs, binaries, built, at, linking>>
  BY DEF CheckObject, Apart
<1>2. CASE ObjectPath(c) \in DOMAIN objects
  <2>1. making' = [making EXCEPT ![<<i, c>>] = "done"] /\ objects' = objects
    BY <1>2 DEF CheckObject
  <2> QED BY <1>1, <1>2, <2>1, ObjectKeeps DEF CheckObject
<1>3. CASE ObjectPath(c) \notin DOMAIN objects
  <2>1. /\ making' = [making EXCEPT ![<<i, c>>] = "tcc"]
        /\ objects' = Put(objects, TempPath(i, c), Torn)
    BY <1>3 DEF CheckObject
  <2>2. /\ DOMAIN objects' = {TempPath(i, c)} \cup DOMAIN objects
        /\ \A p \in DOMAIN objects : p # TempPath(i, c) => objects'[p] = objects[p]
    BY <2>1 DEF Put
  <2>3. ObjectPath(c) \notin DOMAIN objects'
    BY <1>3, <2>2, TempNames
  <2> QED BY <1>1, <2>1, <2>2, <2>3, ObjectKeeps DEF CheckObject
<1> QED BY <1>2, <1>3

LEMMA CompileObjectKeeps ==
  ASSUME IInv, NEW i \in DOMAIN at, NEW c, CompileObject(i, c)
  PROVE  IInv'
<1>1. Apart /\ UNCHANGED <<irs, binaries, built, at, linking>>
  BY DEF CompileObject, Apart
<1>2. <<i, c>> \in DOMAIN making /\ making[<<i, c>>] = "tcc"
  BY DEF CompileObject
<1>3. TempPath(i, c) \in DOMAIN objects
  <2>1. <<i, c>>[1] = i /\ <<i, c>>[2] = c
    OBVIOUS
  <2> QED BY <1>2, <2>1 DEF IInv, MakersKnow
<1>4. ObjectPath(c) # TempPath(i, c)
  BY TempNames
<1>5. CASE c \in BadSources
  <2>1. /\ making' = [making EXCEPT ![<<i, c>>] = "failed"]
        /\ objects' = Without(objects, TempPath(i, c))
    BY <1>5 DEF CompileObject
  <2>2. /\ DOMAIN objects' = DOMAIN objects \ {TempPath(i, c)}
        /\ \A p \in DOMAIN objects : p # TempPath(i, c) => objects'[p] = objects[p]
    BY <2>1 DEF Without
  <2> QED BY <1>1, <1>2, <1>5, <2>1, <2>2, ObjectKeeps
<1>6. CASE c \notin BadSources
  <2>1. /\ making' = [making EXCEPT ![<<i, c>>] = "publish"]
        /\ objects' = [objects EXCEPT ![TempPath(i, c)] = Whole]
    BY <1>6 DEF CompileObject
  <2> QED BY <1>1, <1>2, <1>3, <1>6, <2>1, ObjectKeeps
<1> QED BY <1>5, <1>6

LEMMA PublishObjectKeeps ==
  ASSUME IInv, NEW i \in DOMAIN at, NEW c, PublishObject(i, c)
  PROVE  IInv'
<1>1. Apart /\ UNCHANGED <<irs, binaries, built, at, linking>>
  BY DEF PublishObject, Apart
<1>2. /\ <<i, c>> \in DOMAIN making /\ making[<<i, c>>] = "publish"
      /\ making' = [making EXCEPT ![<<i, c>>] = "done"]
      /\ objects' = Put(Without(objects, TempPath(i, c)), ObjectPath(c), objects[TempPath(i, c)])
  BY DEF PublishObject
<1>3. objects[TempPath(i, c)] = Whole /\ c \notin BadSources
  <2>1. <<i, c>>[1] = i /\ <<i, c>>[2] = c
    OBVIOUS
  <2> QED BY <1>2, <2>1 DEF IInv, MakersKnow
<1>4. ObjectPath(c) # TempPath(i, c) /\ ObjectPath(c)[1] = c /\ ObjectPath(c) = <<ObjectPath(c)[1]>>
  BY TempNames DEF ObjectPath
<1>5. ObjectPath(c) \in DOMAIN objects => objects[ObjectPath(c)] = Whole
  BY <1>4 DEF IInv, ObjectsWhole
<1>6. /\ DOMAIN objects' = {ObjectPath(c)} \cup (DOMAIN objects \ {TempPath(i, c)})
      /\ objects'[ObjectPath(c)] = Whole
      /\ \A p \in DOMAIN objects \ {TempPath(i, c)} : p # ObjectPath(c) => objects'[p] = objects[p]
  BY <1>2, <1>3 DEF Without, Put
<1>7. \A p \in DOMAIN objects : p # TempPath(i, c) => p \in DOMAIN objects' /\ objects'[p] = objects[p]
  BY <1>5, <1>6
<1> QED BY <1>1, <1>2, <1>3, <1>6, <1>7, ObjectKeeps

\* A compilation past its objects: what it writes is within its paths.
LEMMA StepKeeps ==
  ASSUME IInv, Apart, NEW i \in DOMAIN at, at[i] \in Emitting,
         NEW place \in Emitting \cup Done, Goto(i, place),
         UNCHANGED <<objects, making>>,
         Within(i), RecordedIsMade', i \in Lone => Stage(i)'
  PROVE  IInv'
<1> USE DEF IInv
<1>1. at[i] \notin Done /\ at[i] # "start"
  BY DEF Emitting, Done
<1>2. phase = "compile"
  BY <1>1 DEF Chunked
<1>3. Chunked' /\ CopiesWritten' /\ ChildOfNext' /\ Reported' /\ OwnVerdict'
  BY <1>1, <1>2, CompilingApart DEF Emitting, Done
<1>4. ObjectsWhole' /\ MakersKnow'
  BY <1>1, ObjectsApart DEF Apart
<1>5. Lone' = Lone
  BY UnitsStay DEF Apart
<1>6. Stages'
  <2> SUFFICES ASSUME NEW n \in Lone \cap DOMAIN at PROVE Stage(n)'
    BY <1>5 DEF Stages, Goto
  <2> QED BY OthersStay DEF Apart
<1> QED BY <1>3, <1>4, <1>6

LEMMA JoinObjectsKeeps ==
  ASSUME IInv, NEW i \in DOMAIN at, JoinObjects(i)
  PROVE  IInv'
<1> USE DEF IInv
<1> DEFINE bad == \E t \in Makers(i) : making[t] = "failed"
           place == IF bad THEN "failed" ELSE "llc"
<1>1. /\ at[i] = "objects" /\ \A t \in Makers(i) : making[t] \in {"done", "failed"}
      /\ Goto(i, place) /\ irs' = IF bad THEN irs ELSE Put(irs, IrObject(i), Torn)
      /\ UNCHANGED <<command, units, written, texts, binaries, objects, built, making, linking, child,
                     results, phase, runs>>
  BY DEF JoinObjects
<1>2. Within(i)
  BY <1>1 DEF Within, Same, Goto, Put
<1>3. RecordedIsMade'
  <2>1. i \in DOMAIN units
    BY DEF Chunked
  <2> QED BY <1>1, <2>1, EntriesStay DEF Same
<1>4. i \in Lone => Stage(i)'
  <2> SUFFICES ASSUME i \in Lone PROVE Stage(i)'
    OBVIOUS
  <2>1. Stage(i)
    BY DEF Stages
  <2>2. at'[i] = place
    BY <1>1 DEF Goto
  <2>3. /\ Recorded(i)' = Recorded(i) /\ FileOf(i)' = FileOf(i) /\ IrObject(i)' = IrObject(i)
    BY <1>1 DEF Recorded, FileOf, Path, IrObject
  <2>4. CASE bad
    <3>1. PICK t \in Makers(i) : making[t] = "failed"
      BY <2>4
    <3>2. t[2] \in BadSources \cap FileOf(i).cs
      BY <3>1 DEF Makers, MakersKnow
    <3> QED BY <1>1, <2>1, <2>2, <2>3, <2>4, <3>2 DEF Stage, Emitting
  <2>5. CASE ~bad
    <3>1. ASSUME NEW c \in FileOf(i).cs PROVE ObjectPath(c) \in DOMAIN objects
      <4>1. <<i, c>> \in DOMAIN making /\ <<i, c>>[1] = i /\ <<i, c>>[2] = c
        BY <1>1, <2>1 DEF Stage
      <4>2. <<i, c>> \in Makers(i)
        BY <4>1 DEF Makers
      <4>3. making[<<i, c>>] = "done"
        BY <4>2, <2>5, <1>1
      <4> QED BY <4>1, <4>3 DEF MakersKnow
    <3>2. IrObject(i) \in DOMAIN irs'
      BY <1>1, <2>5 DEF Put
    <3>3. \A c : ObjectPath(c)' = ObjectPath(c)
      BY DEF ObjectPath
    <3> QED BY <1>1, <2>1, <2>2, <2>3, <2>5, <3>1, <3>2, <3>3 DEF Stage, Emitting
  <2> QED BY <2>4, <2>5
<1>5. Apart /\ at[i] \in Emitting /\ place \in Emitting \cup Done
  BY <1>1 DEF Apart, Emitting, Done
<1> QED BY <1>1, <1>2, <1>3, <1>4, <1>5, StepKeeps

LEMMA LowerKeeps ==
  ASSUME IInv, NEW i \in DOMAIN at, Lower(i)
  PROVE  IInv'
<1> USE DEF IInv
<1>1. /\ at[i] = "llc" /\ Goto(i, "link")
      /\ irs' = IF IrObject(i) \in DOMAIN irs
                THEN [irs EXCEPT ![IrObject(i)] = Of(Source(i))] ELSE irs
      /\ UNCHANGED <<command, units, written, texts, binaries, objects, built, making, linking, child,
                     results, phase, runs>>
  BY DEF Lower
<1>2. Within(i)
  BY <1>1 DEF Within, Same, Goto
<1>3. RecordedIsMade'
  <2>1. i \in DOMAIN units
    BY DEF Chunked
  <2> QED BY <1>1, <2>1, EntriesStay DEF Same
<1>4. i \in Lone => Stage(i)'
  <2> SUFFICES ASSUME i \in Lone PROVE Stage(i)'
    OBVIOUS
  <2>1. Stage(i) /\ Source(i) = FileOf(i)
    BY SourceIsOwn DEF Stages
  <2>2. at'[i] = "link"
    BY <1>1 DEF Goto
  <2>3. /\ Recorded(i)' = Recorded(i) /\ FileOf(i)' = FileOf(i) /\ IrObject(i)' = IrObject(i)
    BY <1>1 DEF Recorded, FileOf, Path, IrObject
  <2>4. IrObject(i) \in DOMAIN irs' /\ irs'[IrObject(i)] = Of(FileOf(i))
    BY <1>1, <2>1 DEF Stage
  <2> QED BY <1>1, <2>1, <2>2, <2>3, <2>4 DEF Stage, Emitting, ObjectPath
<1>5. Apart /\ at[i] \in Emitting /\ "link" \in Emitting \cup Done
  BY <1>1 DEF Apart, Emitting, Done
<1> QED BY <1>1, <1>2, <1>3, <1>4, <1>5, StepKeeps

\* A unit that is Alone finds all it links, and so its thread never fails here.
LEMMA LinkStartsKeeps ==
  ASSUME IInv, NEW i \in DOMAIN at, LinkStarts(i)
  PROVE  IInv'
<1> USE DEF IInv
<1> DEFINE whole == /\ At(irs, IrObject(i)) # Torn
                    /\ \A c \in Source(i).cs : At(objects, ObjectPath(c)) = Whole
           place == IF whole THEN "linking" ELSE "failed"
<1>1. /\ at[i] = "link" /\ Goto(i, place)
      /\ whole => /\ linking' = Put(linking, i, irs[IrObject(i)])
                  /\ binaries' = Put(binaries, Path(i), Torn) /\ irs' = irs
      /\ ~whole => irs' = Without(irs, IrObject(i)) /\ UNCHANGED <<linking, binaries>>
      /\ UNCHANGED <<command, units, written, texts, objects, built, making, child,
                     results, phase, runs>>
  BY DEF LinkStarts, Path
<1>2. Within(i)
  BY <1>1 DEF Within, Same, Goto, Put, Without
<1>3. at[i] \in Emitting /\ place \in Emitting \cup Done
  BY <1>1 DEF Emitting, Done
<1>4. RecordedIsMade'
  <2>1. i \in DOMAIN units
    BY DEF Chunked
  <2>2. \A p : p # Path(i) => Same(binaries', binaries, p)
    BY <1>2 DEF Within
  <2> QED BY <1>1, <1>3, <2>1, <2>2, EntriesStay
<1>5. i \in Lone => Stage(i)'
  <2> SUFFICES ASSUME i \in Lone PROVE Stage(i)'
    OBVIOUS
  <2>1. Stage(i) /\ Source(i) = FileOf(i)
    BY SourceIsOwn DEF Stages
  <2>2. /\ Recorded(i)' = Recorded(i) /\ FileOf(i)' = FileOf(i) /\ Path(i)' = Path(i)
    BY <1>1 DEF Recorded, FileOf, Path
  <2>3. IrObject(i) \in DOMAIN irs /\ irs[IrObject(i)] = Of(FileOf(i))
    BY <1>1, <2>1 DEF Stage
  <2>4. At(irs, IrObject(i)) # Torn
    BY <2>3 DEF At, Of, Torn
  <2>5. ASSUME NEW c \in FileOf(i).cs PROVE At(objects, ObjectPath(c)) = Whole
    <3>1. ObjectPath(c) \in DOMAIN objects
      BY <1>1, <2>1 DEF Stage, Emitting
    <3>2. ObjectPath(c) = <<ObjectPath(c)[1]>>
      BY DEF ObjectPath
    <3> QED BY <3>1, <3>2 DEF ObjectsWhole, At
  <2>6. whole
    BY <2>1, <2>4, <2>5
  <2>7. /\ at'[i] = "linking" /\ i \in DOMAIN linking' /\ linking'[i] = Of(FileOf(i))
        /\ Path(i) \in DOMAIN binaries'
    BY <1>1, <2>3, <2>6 DEF Goto, Put
  <2> QED BY <1>1, <2>1, <2>2, <2>7 DEF Stage, Emitting, ObjectPath
<1>6. Apart
  BY <1>1 DEF Apart
<1> QED BY <1>1, <1>2, <1>3, <1>4, <1>5, <1>6, StepKeeps

LEMMA LinkEndsKeeps ==
  ASSUME IInv, NEW i \in DOMAIN at, LinkEnds(i)
  PROVE  IInv'
<1> USE DEF IInv
<1>1. /\ at[i] = "linking" /\ Goto(i, "store")
      /\ binaries' = [binaries EXCEPT ![Path(i)] = linking[i]]
      /\ irs' = Without(irs, IrObject(i)) /\ linking' = Without(linking, i)
      /\ UNCHANGED <<command, units, written, texts, objects, built, making, child,
                     results, phase, runs>>
  BY DEF LinkEnds, Path
<1>2. Within(i)
  BY <1>1 DEF Within, Same, Goto, Without
<1>3. at[i] \in Emitting /\ "store" \in Emitting \cup Done
  BY <1>1 DEF Emitting, Done
<1>4. RecordedIsMade'
  <2>1. i \in DOMAIN units
    BY DEF Chunked
  <2>2. \A p : p # Path(i) => Same(binaries', binaries, p)
    BY <1>2 DEF Within
  <2> QED BY <1>1, <1>3, <2>1, <2>2, EntriesStay
<1>5. i \in Lone => Stage(i)'
  <2> SUFFICES ASSUME i \in Lone PROVE Stage(i)'
    OBVIOUS
  <2>1. Stage(i)
    BY DEF Stages
  <2>2. /\ Recorded(i)' = Recorded(i) /\ FileOf(i)' = FileOf(i) /\ Path(i)' = Path(i)
    BY <1>1 DEF Recorded, FileOf, Path
  <2>3. at'[i] = "store" /\ Path(i) \in DOMAIN binaries' /\ binaries'[Path(i)] = Of(FileOf(i))
    BY <1>1, <2>1 DEF Goto, Stage
  <2>4. Made(i)'
    BY <2>2, <2>3 DEF Made
  <2> QED BY <1>1, <2>1, <2>2, <2>3, <2>4 DEF Stage, Emitting, ObjectPath
<1>6. Apart
  BY <1>1 DEF Apart
<1> QED BY <1>1, <1>2, <1>3, <1>4, <1>5, <1>6, StepKeeps

\* An entry is written for a binary that is there.
LEMMA StoreBuildKeeps ==
  ASSUME IInv, NEW i \in DOMAIN at, StoreBuild(i)
  PROVE  IInv'
<1> USE DEF IInv
<1>1. /\ at[i] = "store" /\ Goto(i, "compiled")
      /\ built' = Put(built, Target(units[i]), Entry(i))
      /\ UNCHANGED <<command, units, written, texts, irs, binaries, objects, making, linking, child,
                     results, phase, runs>>
  BY DEF StoreBuild
<1>2. Within(i)
  BY <1>1 DEF Within, Same, Goto, Put, Entry, Path
<1>3. at[i] \in Emitting /\ "compiled" \in Emitting \cup Done
  BY <1>1 DEF Emitting, Done
<1>4. i \in Lone => Made(i) /\ FileOf(i).cs \cap BadSources = {} /\ ~FileOf(i).broken
  <2> SUFFICES ASSUME i \in Lone
               PROVE  Made(i) /\ FileOf(i).cs \cap BadSources = {} /\ ~FileOf(i).broken
    OBVIOUS
  <2>1. Stage(i)
    BY DEF Stages
  <2>2. ASSUME NEW c \in FileOf(i).cs PROVE c \notin BadSources
    <3>1. ObjectPath(c) \in DOMAIN objects
      BY <1>1, <2>1 DEF Stage, Emitting
    <3>2. ObjectPath(c) = <<ObjectPath(c)[1]>> /\ ObjectPath(c)[1] = c
      BY DEF ObjectPath
    <3> QED BY <3>1, <3>2 DEF ObjectsWhole
  <2> QED BY <1>1, <1>3, <2>1, <2>2 DEF Stage
<1>5. RecordedIsMade'
  <2>1. Lone' = Lone
    BY <1>1, UnitsStay
  <2> SUFFICES ASSUME NEW n \in Lone, Recorded(n)'
               PROVE  Made(n) /\ FileOf(n).cs \cap BadSources = {}
    BY <1>1, <2>1 DEF RecordedIsMade, Made, FileOf, Path
  <2>2. CASE Recorded(n)
    BY <2>2 DEF RecordedIsMade
  <2>3. CASE ~Recorded(n)
    <3>1. Target(units[n]) = Target(units[i]) /\ Path(n) = Path(i)
      BY <1>1, <2>3 DEF Recorded, Put, Entry, Path, FileOf
    <3>2. i \in DOMAIN units /\ SameWords(i, n)
      BY <3>1, PathsHaveWords DEF Chunked
    <3>3. i \in Lone /\ FileOf(i) = FileOf(n)
      BY <3>2, Copies
    <3> QED BY <1>4, <3>1, <3>3 DEF Made
  <2> QED BY <2>2, <2>3
<1>6. i \in Lone => Stage(i)'
  <2>1. at'[i] = "compiled" /\ FileOf(i)' = FileOf(i) /\ (Made(i) => Made(i)')
    BY <1>1 DEF Goto, FileOf, Made, Path
  <2> QED BY <1>4, <2>1 DEF Stage, Emitting
<1>7. Apart
  BY <1>1 DEF Apart
<1> QED BY <1>1, <1>2, <1>3, <1>5, <1>6, <1>7, StepKeeps

\* The threads have ended: every unit of the chunk is compiled or has failed.
LEMMA JoinKeeps ==
  ASSUME IInv, Join
  PROVE  IInv'
<1> USE DEF IInv
<1>1. /\ phase = "compile" /\ \A i \in DOMAIN at : at[i] \in Done
      /\ phase' = "run" /\ making' = <<>>
      /\ UNCHANGED <<command, units, written, disk, at, linking, child, results, runs>>
  BY DEF Join, Done
<1>2. Lone' = Lone
  BY <1>1, UnitsStay
<1>3. Chunked'
  BY <1>1 DEF Chunked, ChunkOf
<1>4. CopiesWritten' /\ ObjectsWhole' /\ MakersKnow'
  BY <1>1, <1>2 DEF CopiesWritten, FileOf, ObjectsWhole, MakersKnow, disk
<1>5. RecordedIsMade'
  BY <1>1, <1>2 DEF RecordedIsMade, Recorded, Made, FileOf, Path, disk
<1>6. Stages'
  <2> SUFFICES ASSUME NEW n \in Lone \cap DOMAIN at PROVE Stage(n)'
    BY <1>1, <1>2 DEF Stages
  <2>1. Stage(n) /\ at[n] \in {"compiled", "failed"}
    BY <1>1 DEF Stages, Done
  <2>2. /\ Made(n)' = Made(n) /\ FileOf(n)' = FileOf(n) /\ at' = at /\ command' = command
    BY <1>1 DEF Made, FileOf, Path, disk
  <2> QED BY <2>1, <2>2 DEF Stage, Emitting
<1>7. ChildOfNext'
  BY <1>1 DEF ChildOfNext
<1>8. Reported' /\ OwnVerdict'
  BY <1>1 DEF Reported, OwnVerdict, Alone, SameWords, ChunkOf, Own, Runs
<1> QED BY <1>3, <1>4, <1>5, <1>6, <1>7, <1>8

----------------------------------------------------------------------------
\* Running.

\* Running and reporting leave the disk and the threads alone.
LEMMA RunningApart ==
  ASSUME IInv, UNCHANGED <<command, units, written, disk, at, making, linking, phase, runs>>
  PROVE  /\ Lone' = Lone
         /\ Chunked' /\ CopiesWritten' /\ ObjectsWhole' /\ MakersKnow' /\ RecordedIsMade' /\ Stages'
<1> USE DEF IInv, disk
<1>1. Lone' = Lone
  BY UnitsStay
<1>2. Chunked' /\ CopiesWritten'
  BY <1>1 DEF Chunked, ChunkOf, CopiesWritten, FileOf
<1>3. ObjectsWhole' /\ MakersKnow'
  BY <1>1 DEF ObjectsWhole, MakersKnow, FileOf, TempPath, ObjectPath
<1>4. RecordedIsMade'
  BY <1>1 DEF RecordedIsMade, Recorded, Made, FileOf, Path
<1>5. Stages'
  <2> SUFFICES ASSUME NEW n \in Lone \cap DOMAIN at PROVE Stage(n)'
    BY <1>1 DEF Stages
  <2>1. Stage(n)
    BY DEF Stages
  <2>2. /\ Recorded(n)' = Recorded(n) /\ Made(n)' = Made(n) /\ FileOf(n)' = FileOf(n)
        /\ Path(n)' = Path(n) /\ IrObject(n)' = IrObject(n)
    BY DEF Recorded, Made, FileOf, Path, IrObject
  <2> QED BY <2>1, <2>2 DEF Stage, ObjectPath
<1> QED BY <1>1, <1>2, <1>3, <1>4, <1>5

\* One more verdict, and it is right if that unit is Alone.
LEMMA ReportKeeps ==
  ASSUME Reported, OwnVerdict, UNCHANGED <<command, units>>, next \in DOMAIN units,
         NEW status \in Statuses, Report(status),
         Alone(next) => status = Own(units[next])
  PROVE  Reported' /\ OwnVerdict'
<1>1. results \in Seq(Statuses) /\ results' = Append(results, status) /\ next = Len(results) + 1
  BY DEF Reported, Report, next
<1>2. Reported'
  BY <1>1 DEF Reported
<1>3. \A i : Alone(i)' = Alone(i)
  BY DEF Alone, SameWords, ChunkOf
<1>4. \A u : Own(u)' = Own(u)
  BY DEF Own, Runs
<1>5. OwnVerdict'
  <2> SUFFICES ASSUME NEW i \in DOMAIN results', Alone(i)
               PROVE  results'[i] = Own(units[i])
    BY <1>3, <1>4 DEF OwnVerdict
  <2>1. CASE i = next
    BY <2>1, <1>1
  <2>2. CASE i # next
    <3>1. i \in DOMAIN results /\ results'[i] = results[i]
      BY <2>2, <1>1
    <3> QED BY <3>1 DEF OwnVerdict
  <2> QED BY <2>1, <2>2
<1> QED BY <1>2, <1>5

LEMMA NotRunKeeps ==
  ASSUME IInv, NotRun
  PROVE  IInv'
<1> USE DEF IInv
<1>1. /\ phase = "run" /\ child = NoChild /\ next \in DOMAIN at
      /\ UNCHANGED <<command, units, written, disk, at, making, linking, child, phase, runs>>
  BY DEF NotRun
<1>2. next \in DOMAIN units /\ at[next] \in Done
  BY <1>1 DEF Chunked
<1>3. Lone' = Lone /\ Chunked' /\ CopiesWritten' /\ ObjectsWhole' /\ MakersKnow' /\ RecordedIsMade' /\ Stages'
  BY <1>1, RunningApart
<1>4. ChildOfNext'
  BY <1>1 DEF ChildOfNext, NoChild
<1>5. Alone(next) => next \in Lone /\ Stage(next)
  BY <1>1, <1>2 DEF Lone, Stages
<1>6. CASE at[next] = "failed"
  <2>1. Report("fail")
    BY <1>6 DEF NotRun
  <2>2. Alone(next) => Own(units[next]) = "fail"
    BY <1>5, <1>6 DEF Stage, Own, FileOf
  <2> QED BY <1>1, <1>2, <1>3, <1>4, <2>1, <2>2, ReportKeeps DEF Statuses
<1>7. CASE at[next] = "compiled" /\ ~Runs(units[next])
  <2>1. Report("compiled")
    BY <1>7 DEF NotRun
  <2>2. Alone(next) => Own(units[next]) = "compiled"
    BY <1>5, <1>7 DEF Stage, Own, FileOf
  <2> QED BY <1>1, <1>2, <1>3, <1>4, <2>1, <2>2, ReportKeeps DEF Statuses
<1>8. CASE at[next] = "compiled" /\ Runs(units[next])
  <2>1. At(binaries, Binary(units[next])) = Torn /\ Report("fail")
    BY <1>8 DEF NotRun
  <2>2. ~Alone(next)
    <3>1. SUFFICES ASSUME Alone(next) PROVE FALSE
      OBVIOUS
    <3>2. Made(next)
      BY <1>5, <1>8, <3>1 DEF Stage, Runs
    <3> QED BY <2>1, <3>2 DEF Made, At, Of, Torn, Path
  <2> QED BY <1>1, <1>2, <1>3, <1>4, <2>1, <2>2, ReportKeeps DEF Statuses
<1> QED BY <1>2, <1>6, <1>7, <1>8 DEF Done

LEMMA SpawnChildKeeps ==
  ASSUME IInv, SpawnChild
  PROVE  IInv'
<1> USE DEF IInv
<1> DEFINE binary == At(binaries, Path(next))
<1>1. /\ phase = "run" /\ next \in DOMAIN at /\ at[next] = "compiled" /\ Runs(units[next])
      /\ child' = [unit |-> next, file |-> binary, left |-> binary[1].output, pipe |-> 0,
                   exited |-> FALSE]
      /\ UNCHANGED <<command, units, written, disk, at, making, linking, results, phase, runs>>
  BY DEF SpawnChild, Path
<1>2. Lone' = Lone /\ Chunked' /\ CopiesWritten' /\ ObjectsWhole' /\ MakersKnow' /\ RecordedIsMade' /\ Stages'
  BY <1>1, RunningApart
<1>3. next \in Lone => /\ binary = Of(FileOf(next)) /\ ~FileOf(next).broken
                       /\ FileOf(next).cs \cap BadSources = {}
  <2> SUFFICES ASSUME next \in Lone
               PROVE  /\ binary = Of(FileOf(next)) /\ ~FileOf(next).broken
                      /\ FileOf(next).cs \cap BadSources = {}
    OBVIOUS
  <2>1. Stage(next)
    BY <1>1 DEF Stages
  <2>2. Made(next) /\ ~FileOf(next).broken /\ FileOf(next).cs \cap BadSources = {}
    BY <1>1, <2>1 DEF Stage, Runs
  <2> QED BY <2>2 DEF Made, At
<1>4. ChildOfNext'
  <2> HIDE DEF binary
  <2>1. next' = next /\ FileOf(next)' = FileOf(next) /\ Runs(units[next])' = Runs(units[next])
    BY <1>1 DEF next, FileOf, Runs
  <2> QED BY <1>1, <1>2, <1>3, <2>1 DEF ChildOfNext
<1>5. Reported' /\ OwnVerdict'
  BY <1>1 DEF Reported, OwnVerdict, Alone, SameWords, ChunkOf, Own, Runs
<1> QED BY <1>2, <1>4, <1>5

\* The child runs until it exits.
LEMMA ChildKeeps ==
  ASSUME IInv, ChildWrites \/ ChildExits
  PROVE  IInv'
<1> USE DEF IInv
<1>1. /\ child # NoChild /\ DOMAIN child' = DOMAIN child
      /\ UNCHANGED <<command, units, written, disk, at, making, linking, results, phase, runs>>
  <2>1. CASE ChildWrites
    <3>1. child.left > 0 /\ child' = [child EXCEPT !.left = @ - 1, !.pipe = @ + 1]
      BY <2>1 DEF ChildWrites
    <3>2. child # NoChild
      BY <3>1 DEF NoChild
    <3> QED BY <2>1, <3>1, <3>2 DEF ChildWrites
  <2>2. CASE ChildExits
    BY <2>2 DEF ChildExits
  <2> QED BY <2>1, <2>2
<1>2. child'.unit = child.unit /\ child'.file = child.file
  BY DEF ChildWrites, ChildExits, ChildOfNext
<1>3. Lone' = Lone /\ Chunked' /\ CopiesWritten' /\ ObjectsWhole' /\ MakersKnow' /\ RecordedIsMade' /\ Stages'
  BY <1>1, RunningApart
<1>4. next' = next /\ FileOf(next)' = FileOf(next) /\ Runs(units[next])' = Runs(units[next])
  BY <1>1 DEF next, FileOf, Runs
<1>5. ChildOfNext'
  BY <1>1, <1>2, <1>3, <1>4 DEF ChildOfNext
<1>6. Reported' /\ OwnVerdict'
  BY <1>1 DEF Reported, OwnVerdict, Alone, SameWords, ChunkOf, Own, Runs
<1> QED BY <1>3, <1>5, <1>6

LEMMA ReapKeeps ==
  ASSUME IInv, Reap
  PROVE  IInv'
<1> USE DEF IInv
<1>1. /\ child.exited /\ child' = NoChild
      /\ Report(Status(units[child.unit], child.file[1]))
      /\ UNCHANGED <<command, units, written, disk, at, making, linking, phase, runs>>
  BY DEF Reap
<1>2. /\ child.unit = next /\ next \in DOMAIN at /\ Runs(units[next])
      /\ next \in Lone => /\ child.file = Of(FileOf(next)) /\ ~FileOf(next).broken
                          /\ FileOf(next).cs \cap BadSources = {}
  <2>1. child # NoChild
    BY <1>1 DEF NoChild
  <2> QED BY <2>1 DEF ChildOfNext
<1>3. next \in DOMAIN units
  BY <1>2 DEF Chunked
<1>4. Lone' = Lone /\ Chunked' /\ CopiesWritten' /\ ObjectsWhole' /\ MakersKnow' /\ RecordedIsMade' /\ Stages'
  BY <1>1, RunningApart
<1>5. ChildOfNext'
  BY <1>1 DEF ChildOfNext, NoChild
<1>6. Alone(next) => Status(units[next], child.file[1]) = Own(units[next])
  <2> SUFFICES ASSUME Alone(next)
               PROVE  Status(units[next], child.file[1]) = Own(units[next])
    OBVIOUS
  <2>1. next \in Lone
    BY <1>3 DEF Lone
  <2>2. child.file[1] = units[next].file
    BY <1>2, <2>1 DEF Of, FileOf
  <2>3. ~units[next].file.broken /\ units[next].file.cs \cap BadSources = {}
    BY <1>2, <2>1 DEF FileOf
  <2> QED BY <1>2, <2>2, <2>3 DEF Own
<1>7. Status(units[next], child.file[1]) \in Statuses
  BY DEF Status, Statuses
<1>8. Reported' /\ OwnVerdict'
  BY <1>1, <1>2, <1>3, <1>6, <1>7, ReportKeeps
<1> QED BY <1>4, <1>5, <1>8

----------------------------------------------------------------------------
\* Collecting, chunk by chunk, and once more.

\* New threads are at the start and know nothing.
LEMMA SpawnKeeps ==
  ASSUME IInv, NEW n, Spawn(n), child = NoChild, phase # "compile", written = DOMAIN units,
         UNCHANGED <<command, units, written, disk, making, linking, child, results, runs>>
  PROVE  IInv'
<1> USE DEF IInv
<1>1. /\ at' = [i \in InChunk(n) |-> "start"] /\ phase' = "compile" /\ making = <<>>
  BY DEF Spawn, Chunked
<1>2. Lone' = Lone
  BY UnitsStay
<1>3. Chunked'
  BY <1>1 DEF Chunked, InChunk, ChunkOf
<1>4. CopiesWritten' /\ ObjectsWhole' /\ MakersKnow'
  BY <1>1, <1>2 DEF CopiesWritten, FileOf, ObjectsWhole, MakersKnow, disk
<1>5. RecordedIsMade'
  BY <1>2 DEF RecordedIsMade, Recorded, Made, FileOf, Path, disk
<1>6. Stages'
  BY <1>1 DEF Stages, Stage, Emitting
<1>7. ChildOfNext'
  BY DEF ChildOfNext
<1>8. Reported' /\ OwnVerdict'
  BY DEF Reported, OwnVerdict, Alone, SameWords, ChunkOf, Own, Runs
<1> QED BY <1>3, <1>4, <1>5, <1>6, <1>7, <1>8

LEMMA CollectedKeeps ==
  ASSUME IInv, Collected
  PROVE  IInv'
<1>1. child = NoChild
  BY DEF IInv, ChildOfNext, Collected
<1> QED BY <1>1, SpawnKeeps DEF Collected

LEMMA NextChunkKeeps ==
  ASSUME IInv, NextChunk
  PROVE  IInv'
<1> USE DEF IInv
<1>1. child = NoChild /\ written = DOMAIN units
  BY DEF ChildOfNext, NextChunk, Chunked
<1>2. CASE next \in DOMAIN units
  BY <1>1, <1>2, SpawnKeeps DEF NextChunk
<1>3. CASE next \notin DOMAIN units
  <2>1. /\ phase' = "reported" /\ at' = <<>> /\ making = <<>>
        /\ UNCHANGED <<command, units, written, disk, making, linking, child, results, runs>>
    BY <1>3 DEF NextChunk, Chunked
  <2>2. Lone' = Lone
    BY <2>1, UnitsStay
  <2>3. Chunked'
    BY <1>1, <2>1 DEF Chunked
  <2>4. CopiesWritten' /\ ObjectsWhole' /\ MakersKnow'
    BY <2>1, <2>2 DEF CopiesWritten, FileOf, ObjectsWhole, MakersKnow, disk
  <2>5. RecordedIsMade'
    BY <2>1, <2>2 DEF RecordedIsMade, Recorded, Made, FileOf, Path, disk
  <2>6. Stages' /\ ChildOfNext'
    BY <1>1, <2>1 DEF Stages, ChildOfNext
  <2>7. Reported' /\ OwnVerdict'
    BY <2>1 DEF Reported, OwnVerdict, Alone, SameWords, ChunkOf, Own, Runs
  <2> QED BY <2>3, <2>4, <2>5, <2>6, <2>7
<1> QED BY <1>2, <1>3

\* Whoever writes the copy of a unit that is Alone has the same source.
LEMMA CollectKeeps ==
  ASSUME IInv, Collect
  PROVE  IInv'
<1> USE DEF IInv
<1>1. PICK i \in DOMAIN units \ written :
        /\ written' = written \cup {i}
        /\ texts' = IF units[i].kind = "copy" THEN Put(texts, Target(units[i]), FileOf(i)) ELSE texts
  BY DEF Collect, FileOf
<1>2. /\ phase = "collect" /\ at = <<>> /\ making = <<>> /\ child = NoChild
      /\ UNCHANGED <<command, units, irs, binaries, objects, built, at, making, linking, child,
                     results, phase, runs>>
  BY DEF Collect, Chunked, ChildOfNext
<1>3. Lone' = Lone
  BY <1>2, UnitsStay
<1>4. Chunked'
  BY <1>2 DEF Chunked
<1>5. CopiesWritten'
  <2> SUFFICES ASSUME NEW n \in Lone, n \in written', units[n].kind = "copy"
               PROVE  /\ Target(units[n]) \in DOMAIN texts'
                      /\ texts'[Target(units[n])] = FileOf(n)
    BY <1>2, <1>3 DEF CopiesWritten, FileOf
  <2>1. CASE units[i].kind = "copy" /\ Target(units[i]) = Target(units[n])
    <3>1. SameWords(i, n)
      BY <2>1 DEF Target, SameWords, Binary
    <3>2. FileOf(i) = FileOf(n)
      BY <3>1, Copies
    <3> QED BY <1>1, <2>1, <3>2 DEF Put
  <2>2. CASE ~(units[i].kind = "copy" /\ Target(units[i]) = Target(units[n]))
    <3>1. n # i
      BY <2>2
    <3>2. n \in written
      BY <1>1, <3>1
    <3>3. Target(units[n]) \in DOMAIN texts /\ texts[Target(units[n])] = FileOf(n)
      BY <3>2 DEF CopiesWritten
    <3> QED BY <1>1, <2>2, <3>3 DEF Put
  <2> QED BY <2>1, <2>2
<1>6. ObjectsWhole' /\ MakersKnow'
  BY <1>2 DEF ObjectsWhole, MakersKnow
<1>7. RecordedIsMade'
  BY <1>2, <1>3 DEF RecordedIsMade, Recorded, Made, FileOf, Path
<1>8. Stages' /\ ChildOfNext'
  BY <1>2 DEF Stages, ChildOfNext
<1>9. Reported' /\ OwnVerdict'
  BY <1>2 DEF Reported, OwnVerdict, Alone, SameWords, ChunkOf, Own, Runs
<1> QED BY <1>4, <1>5, <1>6, <1>7, <1>8, <1>9

\* What an interrupted command leaves on the disk is all that the next one finds.
LEMMA AgainKeeps ==
  ASSUME IInv, Again
  PROVE  IInv'
<1> USE DEF IInv
<1>1. /\ phase' = "collect" /\ at' = <<>> /\ making' = <<>> /\ written' = {}
      /\ child' = NoChild /\ results' = <<>> /\ UNCHANGED <<command, units, disk>>
  BY DEF Again
<1>2. Lone' = Lone
  BY <1>1, UnitsStay
<1>3. Chunked' /\ CopiesWritten' /\ ObjectsWhole' /\ MakersKnow'
  BY <1>1 DEF Chunked, CopiesWritten, ObjectsWhole, MakersKnow, disk
<1>4. RecordedIsMade'
  BY <1>1, <1>2 DEF RecordedIsMade, Recorded, Made, FileOf, Path, disk
<1>5. Stages' /\ ChildOfNext' /\ Reported' /\ OwnVerdict'
  BY <1>1 DEF Stages, ChildOfNext, NoChild, Reported, OwnVerdict
<1> QED BY <1>3, <1>4, <1>5

----------------------------------------------------------------------------
LEMMA InitHolds == Init => IInv
<1> SUFFICES ASSUME Init PROVE IInv
  OBVIOUS
<1>1. /\ phase = "collect" /\ at = <<>> /\ making = <<>> /\ written = {} /\ built = <<>>
      /\ objects = <<>> /\ child = NoChild /\ results = <<>>
  BY DEF Init
<1>2. Chunked /\ CopiesWritten /\ ObjectsWhole /\ MakersKnow
  BY <1>1 DEF Chunked, CopiesWritten, ObjectsWhole, MakersKnow
<1>3. RecordedIsMade /\ Stages
  BY <1>1 DEF RecordedIsMade, Recorded, Stages
<1>4. ChildOfNext /\ Reported /\ OwnVerdict
  BY <1>1 DEF ChildOfNext, NoChild, Reported, OwnVerdict
<1> QED BY <1>2, <1>3, <1>4 DEF IInv

LEMMA NextKeeps == IInv /\ [Next]_vars => IInv'
<1> SUFFICES ASSUME IInv, [Next]_vars PROVE IInv'
  OBVIOUS
<1>1. CASE Compiling
  <2>1. PICK i \in DOMAIN at :
          \/ Start(i) \/ JoinObjects(i) \/ Lower(i) \/ LinkStarts(i) \/ LinkEnds(i) \/ StoreBuild(i)
          \/ \E c : CheckObject(i, c) \/ CompileObject(i, c) \/ PublishObject(i, c)
    BY <1>1 DEF Compiling
  <2> QED BY <2>1, StartKeeps, JoinObjectsKeeps, LowerKeeps, LinkStartsKeeps, LinkEndsKeeps,
             StoreBuildKeeps, CheckObjectKeeps, CompileObjectKeeps, PublishObjectKeeps
<1>2. CASE Join
  BY <1>2, JoinKeeps
<1>3. CASE Running
  BY <1>3, NotRunKeeps, SpawnChildKeeps, ChildKeeps, ReapKeeps DEF Running
<1>4. CASE Collect \/ Collected
  BY <1>4, CollectKeeps, CollectedKeeps
<1>5. CASE NextChunk
  BY <1>5, NextChunkKeeps
<1>6. CASE Again
  BY <1>6, AgainKeeps
<1>7. CASE UNCHANGED vars
  <2>1. UNCHANGED <<command, units, written, disk, at, making, linking, child, results, phase, runs>>
    BY <1>7 DEF vars
  <2>2. Lone' = Lone /\ Chunked' /\ CopiesWritten' /\ ObjectsWhole' /\ MakersKnow' /\ RecordedIsMade' /\ Stages'
    BY <2>1, RunningApart
  <2>3. ChildOfNext' /\ Reported' /\ OwnVerdict'
    BY <2>1, <2>2 DEF IInv, ChildOfNext, next, FileOf, Runs, Reported, OwnVerdict, Alone, SameWords,
                      ChunkOf, Own
  <2> QED BY <2>2, <2>3 DEF IInv
<1> QED BY <1>1, <1>2, <1>3, <1>4, <1>5, <1>6, <1>7 DEF Next

\* The verdict of a unit that is Alone is that of its own source, for any number of
\* files, roots and jobs: whatever threads share directories with its own, however
\* their steps interleave, and whatever earlier invocations of mire test have left
\* behind, wherever they were interrupted (test_command, compile_file_inner).
THEOREM VerdictsAreOwn == Spec => []OwnVerdict
<1>1. IInv => OwnVerdict
  BY DEF IInv
<1> QED BY <1>1, InitHolds, NextKeeps, PTL DEF Spec

----------------------------------------------------------------------------
\* Upwards from 0: what holds of 0, and of n if it does of n - 1, holds up to N.
LEMMA Upwards ==
  ASSUME NEW N \in Nat, NEW T, 0 \in T, \A n \in 1..N : n - 1 \in T => n \in T
  PROVE  \A n \in 0..N : n \in T
<1> DEFINE Rest == {n \in 0..N : n \notin T}
<1>1. SUFFICES ASSUME Rest # {} PROVE FALSE
  OBVIOUS
<1>2. PICK n \in Rest : \A k \in Rest : ~(<<k, n>> \in OpToRel(<, Nat))
  <2>1. Rest \in SUBSET Nat
    OBVIOUS
  <2> HIDE DEF Rest
  <2> QED BY <1>1, <2>1, NatLessThanWellFounded, WFMin
<1>3. n \in 1..N /\ n - 1 \in 0..N /\ n \notin T
  <2>1. n \in 0..N /\ n \notin T
    OBVIOUS
  <2>2. n # 0
    BY <2>1
  <2> HIDE DEF Rest
  <2> QED BY <2>1, <2>2
<1>4. n - 1 \notin Rest
  <2>1. n - 1 \in Rest => <<n - 1, n>> \in OpToRel(<, Nat)
    <3> HIDE DEF Rest
    <3> QED BY <1>3 DEF OpToRel
  <2> HIDE DEF Rest
  <2> QED BY <2>1, <1>2
<1> QED BY <1>3, <1>4

\* Step by step: some function says where the steps lead to.
Follows(N, step, f) == \A n \in 1..N : f[n] = step[<<n, f[n - 1]>>]

LEMMA Growing ==
  ASSUME NEW N \in Nat, NEW U, NEW start \in U, NEW step \in [(1..N) \X U -> U]
  PROVE  \E f \in [0..N -> U] : f[0] = start /\ Follows(N, step, f)
<1> DEFINE Good(n, f) == f[0] = start /\ \A k \in 1..n : f[k] = step[<<k, f[k - 1]>>]
           T == {n \in 0..N : \E f \in [0..n -> U] : Good(n, f)}
<1>1. 0 \in T
  <2>1. \E f \in [0..0 -> U] : Good(0, f)
    <3>1. [k \in 0..0 |-> start] \in [0..0 -> U] /\ Good(0, [k \in 0..0 |-> start])
      OBVIOUS
    <3> HIDE DEF Good
    <3> QED BY <3>1
  <2>2. 0 \in 0..N
    OBVIOUS
  <2> HIDE DEF Good
  <2> QED BY <2>1, <2>2
<1>2. ASSUME NEW n \in 1..N, n - 1 \in T PROVE n \in T
  <2>1. PICK f \in [0..(n - 1) -> U] : Good(n - 1, f)
    BY <1>2
  <2> DEFINE x == step[<<n, f[n - 1]>>]
             g == [k \in 0..n |-> IF k = n THEN x ELSE f[k]]
  <2>2. x \in U
    OBVIOUS
  <2> HIDE DEF x
  <2>3. g \in [0..n -> U] /\ g[0] = start
    BY <2>1, <2>2
  <2>4. ASSUME NEW k \in 1..n PROVE g[k] = step[<<k, g[k - 1]>>]
    <3>1. CASE k = n
      <4>1. g[k] = x /\ g[k - 1] = f[n - 1]
        BY <3>1
      <4> QED BY <3>1, <4>1 DEF x
    <3>2. CASE k # n
      <4>1. k \in 1..(n - 1) /\ g[k] = f[k] /\ g[k - 1] = f[k - 1]
        BY <3>2
      <4> QED BY <4>1, <2>1
    <3> QED BY <3>1, <3>2
  <2>5. Good(n, g)
    BY <2>3, <2>4
  <2>6. n \in 0..N /\ \E h \in [0..n -> U] : Good(n, h)
    <3> HIDE DEF g, Good
    <3> QED BY <2>3, <2>5
  <2> HIDE DEF g, Good
  <2> QED BY <2>6
<1>3. N \in T
  <2>1. \A n \in 0..N : n \in T
    <3> HIDE DEF T
    <3> QED BY <1>1, <1>2, Upwards
  <2> QED BY <2>1
<1> QED BY <1>3 DEF Follows


\* Sequences of elements, one after the other, are a sequence of elements.
LEMMA Flattened ==
  ASSUME NEW S, NEW ss \in Seq(Seq(S))
  PROVE  FlattenSeq(ss) \in Seq(S)
<1>1. CASE Len(ss) = 0
  <2>1. ss = <<>>
    BY <1>1
  <2> QED BY <2>1 DEF FlattenSeq
<1>2. CASE Len(ss) # 0
  <2> DEFINE n == Len(ss)
             U == Seq(S)
             Q(F) == F = [i \in 1..n |-> IF i = 1 THEN ss[i] ELSE F[i - 1] \o ss[i]]
             step == [p \in (1..n) \X U |-> p[2] \o ss[p[1]]]
  <2>1. n \in Nat /\ n # 0 /\ \A i \in 1..n : ss[i] \in Seq(S)
    BY <1>2
  <2>2. step \in [(1..n) \X U -> U] /\ <<>> \in U
    BY <2>1
  <2>3. PICK f \in [0..n -> U] :
          f[0] = <<>> /\ \A i \in 1..n : f[i] = step[<<i, f[i - 1]>>]
    <3> HIDE DEF step, n, U, Q
    <3>1. PICK f \in [0..n -> U] : f[0] = <<>> /\ Follows(n, step, f)
      BY <2>1, <2>2, Growing
    <3> QED BY <3>1 DEF Follows
  <2>4. ASSUME NEW i \in 1..n PROVE f[i] = f[i - 1] \o ss[i]
    <3>1. i - 1 \in 0..n
      BY <2>1
    <3>0. <<i, f[i - 1]>> \in (1..n) \X U
      <4> HIDE DEF n, step, U
      <4> QED BY <2>3, <3>1
    <3>2. step[<<i, f[i - 1]>>] = f[i - 1] \o ss[i]
      BY <3>0
    <3> HIDE DEF step
    <3> QED BY <3>2, <2>3
  <2>5. Q([i \in 1..n |-> f[i]])
    <3>1. f[1] = ss[1]
      <4>1. 1 \in 1..n /\ 1 - 1 = 0
        BY <2>1
      <4>2. f[1] = f[0] \o ss[1] /\ f[0] = <<>> /\ ss[1] \in Seq(S)
        <5> HIDE DEF n, step
        <5> QED BY <2>1, <4>1, <2>3, <2>4
      <4> QED BY <4>2
    <3>2. \A i \in 1..n : i # 1 => i - 1 \in 1..n
      BY <2>1
    <3> HIDE DEF n, step
    <3> QED BY <3>1, <3>2, <2>4
  <2> DEFINE g == CHOOSE F : Q(F)
  <2>6. Q(g)
    <3>1. \E F : Q(F)
      <4> HIDE DEF Q
      <4> QED BY <2>5
    <3> HIDE DEF Q
    <3> QED BY <3>1
  <2>7. FlattenSeq(ss) = g[n]
    BY <1>2 DEF FlattenSeq
  <2> HIDE DEF g, step
  <2>8. \A i \in 0..n : i \in {k \in 0..n : k = 0 \/ g[k] \in Seq(S)}
    <3> DEFINE T == {k \in 0..n : k = 0 \/ g[k] \in Seq(S)}
    <3>1. 0 \in T
      BY <2>1
    <3>2. ASSUME NEW i \in 1..n, i - 1 \in T PROVE i \in T
      <4>1. CASE i = 1
        BY <4>1, <2>1, <2>6
      <4>2. CASE i # 1
        <5>1. g[i - 1] \in Seq(S) /\ ss[i] \in Seq(S)
          BY <4>2, <3>2, <2>1
        <5>2. g[i] = g[i - 1] \o ss[i]
          BY <4>2, <2>6
        <5>3. g[i] \in Seq(S) /\ i \in 0..n
          BY <5>1, <5>2
        <5> QED BY <5>3
      <4> QED BY <4>1, <4>2
    <3> HIDE DEF T, n
    <3>3. \A i \in 0..n : i \in T
      BY <2>1, <3>1, <3>2, Upwards
    <3> QED BY <3>3 DEF T
  <2>9. g[n] \in Seq(S)
    BY <2>1, <2>8
  <2> QED BY <2>7, <2>9
<1> QED BY <1>1, <1>2

\* What is collected is a sequence of units, each for a file of the invocation.
UnitsFrom(c) == {Unit(c, f, kind) : f \in FilesOf(c), kind \in {"named", "copy", "golden"}}

LEMMA IsSequence ==
  ASSUME NEW N \in Nat, NEW V, NEW f, f = [i \in 1..N |-> f[i]], \A i \in 1..N : f[i] \in V
  PROVE  f \in Seq(V)
OBVIOUS

LEMMA TakenAreUnits ==
  ASSUME NEW c \in Invocations, NEW files, NEW kind \in {"copy", "golden"}
  PROVE  Taken(c, files, kind) \in Seq(UnitsFrom(c))
<1> DEFINE each == [i \in DOMAIN c.files |->
                      IF c.files[i] \in files THEN <<Unit(c, c.files[i], kind)>> ELSE <<>>]
           U == UnitsFrom(c)
<1>1. c.files \in Seq(ToSet(c.files))
  BY RunnerAssumption
<1>2. Len(c.files) \in Nat /\ DOMAIN c.files = 1..Len(c.files)
  BY <1>1
<1>3. ASSUME NEW i \in DOMAIN c.files PROVE each[i] \in Seq(U)
  <2>1. c.files[i] \in FilesOf(c)
    BY DEF FilesOf, ToSet
  <2>2. Unit(c, c.files[i], kind) \in U
    BY <2>1 DEF UnitsFrom
  <2> HIDE DEF U
  <2> QED BY <2>2
<1>4. each \in Seq(Seq(U))
  <2> HIDE DEF U
  <2>1. DOMAIN each = 1..Len(c.files)
    BY <1>2
  <2>2. each = [i \in 1..Len(c.files) |-> each[i]]
    BY <2>1
  <2> DEFINE V == Seq(U)
  <2>3. \A i \in 1..Len(c.files) : each[i] \in V
    <3> HIDE DEF each
    <3> QED BY <1>2, <1>3
  <2> HIDE DEF each, V
  <2>4. each \in Seq(V)
    BY <1>2, <2>2, <2>3, IsSequence
  <2> QED BY <2>4 DEF V
<1>5. Taken(c, files, kind) = FlattenSeq(each)
  BY DEF Taken
<1> HIDE DEF each, U
<1>6. FlattenSeq(each) \in Seq(U)
  BY <1>4, Flattened
<1> QED BY <1>5, <1>6 DEF U

LEMMA UnitsAreUnits ==
  ASSUME NEW c \in Invocations
  PROVE  Units(c) \in Seq(UnitsFrom(c))
<1> DEFINE each == [i \in DOMAIN c.roots |-> UnitsOf(c, c.roots[i])]
           U == UnitsFrom(c)
<1>1. c.roots \in Seq(ToSet(c.roots))
  BY RunnerAssumption
<1>2. Len(c.roots) \in Nat /\ DOMAIN c.roots = 1..Len(c.roots)
  BY <1>1
<1>3. ASSUME NEW i \in DOMAIN c.roots PROVE each[i] \in Seq(U)
  <2> DEFINE root == c.roots[i]
             inside == {f \in ToSet(c.files) : InDirectory(root.dir, f)}
             plain  == {f \in inside : ~f.golden /\ (f.main \/ f.tests > 0)}
             golden == {f \in inside : f.golden}
  <2>0. each[i] = UnitsOf(c, root)
    OBVIOUS
  <2>1. CASE root.kind # "dir"
    <3>1. root.file \in FilesOf(c)
      BY <2>1 DEF FilesOf, ToSet
    <3>2. Unit(c, root.file, "named") \in U
      BY <3>1 DEF UnitsFrom
    <3>3. UnitsOf(c, root) = <<Unit(c, root.file, "named")>>
      BY <2>1 DEF UnitsOf
    <3> HIDE DEF U, each, root
    <3> QED BY <2>0, <3>2, <3>3
  <2>2. CASE root.kind = "dir"
    <3>1. UnitsOf(c, root) = Taken(c, plain, "copy") \o Taken(c, golden, "golden")
      BY <2>2 DEF UnitsOf
    <3> HIDE DEF plain, golden
    <3>2. Taken(c, plain, "copy") \in Seq(U) /\ Taken(c, golden, "golden") \in Seq(U)
      BY TakenAreUnits
    <3> HIDE DEF U, each, root
    <3> QED BY <2>0, <3>1, <3>2
  <2> QED BY <2>1, <2>2
<1>4. each \in Seq(Seq(U))
  <2> HIDE DEF U
  <2>1. DOMAIN each = 1..Len(c.roots)
    BY <1>2
  <2>2. each = [i \in 1..Len(c.roots) |-> each[i]]
    BY <2>1
  <2> DEFINE V == Seq(U)
  <2>3. \A i \in 1..Len(c.roots) : each[i] \in V
    <3> HIDE DEF each
    <3> QED BY <1>2, <1>3
  <2> HIDE DEF each, V
  <2>4. each \in Seq(V)
    BY <1>2, <2>2, <2>3, IsSequence
  <2> QED BY <2>4 DEF V
<1>5. Units(c) = FlattenSeq(each)
  BY DEF Units
<1> HIDE DEF each, U
<1>6. FlattenSeq(each) \in Seq(U)
  BY <1>4, Flattened
<1> QED BY <1>5, <1>6 DEF U

----------------------------------------------------------------------------
\* The number of failures: the sum over the numbers of the units, from the first
\* to the last, of what each counts.

\* A fold over the sets of numbers up to N: it adds what the greatest counts, if it
\* does, to the sum over the others.
Plus(total, count) == IF count = 0 THEN total ELSE total + count

Sums(N, weight, sum) ==
  sum = [s \in SUBSET (1..N) |->
           IF s = {} THEN 0 ELSE Plus(sum[s \ {Max(s)}], weight[Max(s)])]

LEMMA MaxOf ==
  ASSUME NEW N \in Nat, NEW s \in SUBSET (1..N), s # {}
  PROVE  Max(s) \in s /\ \A k \in s : Max(s) >= k
<1> DEFINE T == {n \in 0..N : s \subseteq 0..n => \E m \in s : \A k \in s : m >= k}
<1>1. 0 \in T
  <2>1. PICK k \in s : TRUE
    OBVIOUS
  <2>2. k \in 1..N /\ k \notin 0..0
    OBVIOUS
  <2> QED BY <2>2
<1>2. ASSUME NEW n \in 1..N, n - 1 \in T PROVE n \in T
  <2>1. CASE n \in s
    BY <2>1
  <2>2. CASE n \notin s
    <3>1. s \subseteq 0..n => s \subseteq 0..(n - 1)
      BY <2>2
    <3>2. n - 1 \in T
      BY <1>2
    <3> QED BY <3>1, <3>2
  <2> QED BY <2>1, <2>2
<1>3. N \in T
  <2>1. \A n \in 0..N : n \in T
    <3> HIDE DEF T
    <3> QED BY <1>1, <1>2, Upwards
  <2> QED BY <2>1
<1>4. \E m \in s : \A k \in s : m >= k
  BY <1>3
<1> QED BY <1>4 DEF Max

LEMMA SumExists ==
  ASSUME NEW N \in Nat, NEW weight
  PROVE  \E sum : Sums(N, weight, sum)
<1> DEFINE T == {n \in 0..N : \E sum : Sums(n, weight, sum)}
<1>1. 0 \in T
  <2>1. Sums(0, weight, [s \in SUBSET (1..0) |-> 0])
    BY DEF Sums
  <2> QED BY <2>1
<1>2. ASSUME NEW n \in 1..N, n - 1 \in T PROVE n \in T
  <2>1. PICK f : Sums(n - 1, weight, f)
    BY <1>2
  <2> DEFINE g == [s \in SUBSET (1..n) |->
                     IF n \in s THEN Plus(f[s \ {n}], weight[n]) ELSE f[s]]
  <2>2. ASSUME NEW s \in SUBSET (1..n)
        PROVE  g[s] = IF s = {} THEN 0 ELSE Plus(g[s \ {Max(s)}], weight[Max(s)])
    <3>1. CASE n \in s
      <4>1. Max(s) = n
        <5>1. Max(s) \in s /\ \A k \in s : Max(s) >= k
          <6>1. n \in Nat /\ s \in SUBSET (1..n) /\ s # {}
            BY <3>1
          <6> QED BY <6>1, MaxOf
        <5>2. Max(s) \in 1..n /\ Max(s) >= n
          BY <3>1, <5>1
        <5> QED BY <5>2
      <4>2. s \ {n} \in SUBSET (1..n) /\ n \notin s \ {n}
        OBVIOUS
      <4> QED BY <3>1, <4>1, <4>2
    <3>2. CASE n \notin s
      <4>1. s \in SUBSET (1..(n - 1)) /\ g[s] = f[s]
        BY <3>2
      <4>2. s # {} => /\ s \ {Max(s)} \in SUBSET (1..n) /\ n \notin s \ {Max(s)}
        BY <3>2
      <4>3. s # {} => g[s \ {Max(s)}] = f[s \ {Max(s)}]
        BY <4>2
      <4>4. f[s] = IF s = {} THEN 0 ELSE Plus(f[s \ {Max(s)}], weight[Max(s)])
        BY <2>1, <4>1 DEF Sums
      <4> QED BY <4>1, <4>3, <4>4
    <3> QED BY <3>1, <3>2
  <2>3. Sums(n, weight, g)
    BY <2>2 DEF Sums
  <2> QED BY <2>3
<1>3. N \in T
  <2>1. \A n \in 0..N : n \in T
    <3> HIDE DEF T
    <3> QED BY <1>1, <1>2, Upwards
  <2> QED BY <2>1
<1> QED BY <1>3

\* The sum is greater than zero if and only if something counts.
LEMMA SumPositive ==
  ASSUME NEW N \in Nat, NEW weight, \A i \in 1..N : weight[i] \in Nat,
         NEW sum, Sums(N, weight, sum)
  PROVE  sum[1..N] > 0 <=> \E i \in 1..N : weight[i] > 0
<1> DEFINE total == [n \in 0..N |-> sum[1..n]]
           Counts(n) == \E i \in 1..n : weight[i] > 0
           T == {n \in 0..N : total[n] \in Nat /\ (total[n] > 0 <=> Counts(n))}
<1>0. \A s \in SUBSET (1..N) :
        sum[s] = IF s = {} THEN 0 ELSE Plus(sum[s \ {Max(s)}], weight[Max(s)])
  BY DEF Sums
<1>1. 0 \in T
  <2>1. 1..0 = {} /\ {} \in SUBSET (1..N) /\ 0 \in 0..N
    OBVIOUS
  <2>2. total[0] = 0
    BY <1>0, <2>1
  <2>3. ~Counts(0)
    OBVIOUS
  <2> HIDE DEF total, Counts
  <2> QED BY <2>1, <2>2, <2>3
<1>2. ASSUME NEW n \in 1..N, n - 1 \in T PROVE n \in T
  <2>1. /\ 1..n \in SUBSET (1..N) /\ 1..n # {} /\ n \in 1..n
        /\ n \in 0..N /\ n - 1 \in 0..N
    OBVIOUS
  <2>2. Max(1..n) = n
    <3>1. Max(1..n) \in 1..n /\ \A k \in 1..n : Max(1..n) >= k
      BY <2>1, MaxOf
    <3> QED BY <2>1, <3>1
  <2>3. (1..n) \ {n} = 1..(n - 1)
    OBVIOUS
  <2>4. total[n] = total[n - 1] + weight[n]
    <3>1. sum[1..n] = Plus(sum[1..(n - 1)], weight[n])
      BY <1>0, <2>1, <2>2, <2>3
    <3>2. total[n] = Plus(total[n - 1], weight[n])
      BY <2>1, <3>1
    <3>3. total[n - 1] \in Nat
      <4> HIDE DEF total, Counts
      <4> QED BY <1>2
    <3> HIDE DEF total
    <3> QED BY <3>2, <3>3 DEF Plus
  <2>5. /\ total[n - 1] \in Nat /\ weight[n] \in Nat
        /\ total[n - 1] > 0 <=> Counts(n - 1)
    <3> HIDE DEF total, Counts
    <3> QED BY <1>2
  <2>6. Counts(n) <=> Counts(n - 1) \/ weight[n] > 0
    <3>1. \A i : i \in 1..n <=> i \in 1..(n - 1) \/ i = n
      OBVIOUS
    <3> QED BY <3>1
  <2> HIDE DEF total, Counts
  <2> QED BY <2>1, <2>4, <2>5, <2>6
<1>3. N \in T
  <2>1. \A n \in 0..N : n \in T
    <3> HIDE DEF T
    <3> QED BY <1>1, <1>2, Upwards
  <2> HIDE DEF T
  <2> QED BY <2>1
<1>4. total[N] > 0 <=> Counts(N)
  <2> HIDE DEF total, Counts
  <2> QED BY <1>3
<1>5. total[N] = sum[1..N]
  OBVIOUS
<1> HIDE DEF total
<1> QED BY <1>4, <1>5

LEMMA FailedCounts ==
  ASSUME NEW S, results \in Seq(S),
         \A i \in DOMAIN results : FailedCount(units[i]) \in Nat \ {0}
  PROVE  Failed > 0 <=> \E i \in DOMAIN results : results[i] = "fail"
<1> DEFINE N == Len(results)
           weight == [i \in 1..N |-> IF results[i] = "fail" THEN FailedCount(units[i]) ELSE 0]
           numbers == [i \in DOMAIN results |-> i]
           Q(sum) == sum = [s \in SUBSET DOMAIN numbers |->
                              IF s = {} THEN 0
                              ELSE IF results[numbers[Max(s)]] = "fail"
                                   THEN sum[s \ {Max(s)}] + FailedCount(units[numbers[Max(s)]])
                                   ELSE sum[s \ {Max(s)}]]
           fold == CHOOSE sum : Q(sum)
<1>1. Failed = fold[DOMAIN numbers]
  BY DEF Failed, FoldLeft, MapThenFoldSet
<1>2. N \in Nat /\ DOMAIN results = 1..N /\ DOMAIN numbers = 1..N
  OBVIOUS
<1>3. \A i \in 1..N : weight[i] \in Nat /\ (weight[i] > 0 <=> results[i] = "fail")
  BY <1>2
<1>4. ASSUME NEW s \in SUBSET (1..N), s # {}
      PROVE  Max(s) \in 1..N /\ numbers[Max(s)] = Max(s)
  <2>1. Max(s) \in s
    BY <1>2, <1>4, MaxOf
  <2> QED BY <1>2, <2>1
<1>5. ASSUME NEW sum PROVE Q(sum) <=> Sums(N, weight, sum)
  <2> DEFINE A(s) == IF s = {} THEN 0
                     ELSE IF results[numbers[Max(s)]] = "fail"
                          THEN sum[s \ {Max(s)}] + FailedCount(units[numbers[Max(s)]])
                          ELSE sum[s \ {Max(s)}]
             B(s) == IF s = {} THEN 0 ELSE Plus(sum[s \ {Max(s)}], weight[Max(s)])
  <2>1. ASSUME NEW s \in SUBSET (1..N) PROVE A(s) = B(s)
    <3>1. CASE s = {}
      BY <3>1
    <3>2. CASE s # {}
      <4>1. Max(s) \in 1..N /\ numbers[Max(s)] = Max(s)
        BY <3>2, <1>4
      <4>2. CASE results[Max(s)] = "fail"
        <5>1. weight[Max(s)] = FailedCount(units[Max(s)]) /\ weight[Max(s)] # 0
          BY <1>2, <4>1, <4>2
        <5> HIDE DEF weight, numbers
        <5> QED BY <3>2, <4>1, <4>2, <5>1 DEF Plus
      <4>3. CASE results[Max(s)] # "fail"
        <5>1. weight[Max(s)] = 0
          BY <4>1, <4>3
        <5> HIDE DEF weight, numbers
        <5> QED BY <3>2, <4>1, <4>3, <5>1 DEF Plus
      <4> QED BY <4>2, <4>3
    <3> QED BY <3>1, <3>2
  <2>2. Q(sum) <=> sum = [s \in SUBSET (1..N) |-> A(s)]
    BY <1>2
  <2>3. Sums(N, weight, sum) <=> sum = [s \in SUBSET (1..N) |-> B(s)]
    BY DEF Sums
  <2> HIDE DEF A, B, Q, weight, N
  <2> QED BY <2>1, <2>2, <2>3
<1>6. Q(fold)
  <2>1. \E sum : Sums(N, weight, sum)
    <3> HIDE DEF N, weight
    <3> QED BY <1>2, SumExists
  <2>2. \E sum : Q(sum)
    <3> HIDE DEF Q, N, weight
    <3> QED BY <1>5, <2>1
  <2> HIDE DEF Q
  <2> QED BY <2>2
<1>7. Failed = fold[1..N]
  BY <1>1, <1>2
<1>8. Sums(N, weight, fold)
  <2> HIDE DEF Q, fold, weight, N
  <2> QED BY <1>5, <1>6
<1>9. fold[1..N] > 0 <=> \E i \in 1..N : weight[i] > 0
  <2> HIDE DEF fold, weight, N
  <2> QED BY <1>2, <1>3, <1>8, SumPositive
<1> HIDE DEF fold, weight, N
<1> QED BY <1>2, <1>3, <1>7, <1>9

----------------------------------------------------------------------------
\* The exit code and the totals.

\* Verdicts are those of the first units, and of all of them in a report.
Counted ==
  /\ command \in Invocations /\ units \in Seq(UnitsFrom(command))
  /\ Len(results) <= Len(units)
  /\ phase = "reported" => Len(results) = Len(units)

LEMMA CountedInit == Init => Counted
<1> SUFFICES ASSUME Init PROVE Counted
  OBVIOUS
<1>1. /\ command \in Invocations /\ units = Units(command)
      /\ results = <<>> /\ phase = "collect"
  BY DEF Init
<1>2. units \in Seq(UnitsFrom(command))
  BY <1>1, UnitsAreUnits
<1> DEFINE U == UnitsFrom(command)
<1>3. Len(units) \in Nat /\ Len(results) = 0
  <2> HIDE DEF U
  <2> QED BY <1>1, <1>2 DEF U
<1> QED BY <1>1, <1>2, <1>3 DEF Counted

\* A verdict is that of a unit.
LEMMA ReportCounts ==
  ASSUME Reported, Counted, NEW status, Report(status), next \in DOMAIN units,
         UNCHANGED <<command, units>>, phase' # "reported"
  PROVE  Counted'
<1> DEFINE U == UnitsFrom(command)
<1>1. /\ command \in Invocations /\ units \in Seq(U) /\ Len(units) \in Nat
      /\ DOMAIN units = 1..Len(units)
  <2>1. units \in Seq(U)
    BY DEF Counted
  <2> HIDE DEF U
  <2> QED BY <2>1 DEF Counted
<1>2. Len(results) \in Nat /\ Len(results') = Len(results) + 1 /\ next = Len(results) + 1
  BY DEF Reported, Report, next
<1>3. Len(results') <= Len(units)
  BY <1>1, <1>2
<1>4. U' = U
  BY DEF UnitsFrom
<1> HIDE DEF U
<1>5. units' \in Seq(U') /\ units' = units /\ command' = command
  BY <1>1, <1>4
<1> QED BY <1>1, <1>3, <1>5 DEF Counted, U

\* Without one there is a report only where there was.
LEMMA OthersCount ==
  ASSUME Counted, UNCHANGED <<command, units, results>>,
         phase' = "reported" => phase = "reported" \/ Len(results) = Len(units)
  PROVE  Counted'
<1>1. UnitsFrom(command)' = UnitsFrom(command)
  BY DEF UnitsFrom
<1> QED BY <1>1 DEF Counted

LEMMA NextCounts == IInv /\ Counted /\ [Next]_vars => Counted'
<1> SUFFICES ASSUME IInv, Counted, [Next]_vars PROVE Counted'
  OBVIOUS
<1>1. CASE Compiling
  <2>1. PICK i \in DOMAIN at :
          \/ Start(i) \/ JoinObjects(i) \/ Lower(i) \/ LinkStarts(i) \/ LinkEnds(i) \/ StoreBuild(i)
          \/ \E c : CheckObject(i, c) \/ CompileObject(i, c) \/ PublishObject(i, c)
    BY <1>1 DEF Compiling
  <2>2. UNCHANGED <<command, units, results, phase>>
    BY <2>1 DEF Start, JoinObjects, Lower, LinkStarts, LinkEnds, StoreBuild, CheckObject,
                CompileObject, PublishObject, disk
  <2> QED BY <2>2, OthersCount
<1>2. CASE Join \/ Collect \/ Collected
  <2>1. UNCHANGED <<command, units, results>> /\ phase' \in {phase, "run", "compile"}
    BY <1>2 DEF Join, Collect, Collected, Spawn
  <2> QED BY <2>1, OthersCount
<1>3. CASE NotRun
  <2>1. /\ next \in DOMAIN units /\ UNCHANGED <<command, units>> /\ phase' # "reported"
        /\ \E status : Report(status)
    BY <1>3 DEF NotRun, IInv, Chunked
  <2> QED BY <2>1, ReportCounts DEF IInv
<1>4. CASE Reap
  <2>1. child # NoChild
    BY <1>4 DEF Reap, NoChild
  <2>2. /\ next \in DOMAIN units /\ UNCHANGED <<command, units>> /\ phase' # "reported"
        /\ \E status : Report(status)
    BY <1>4, <2>1 DEF Reap, IInv, Chunked, ChildOfNext
  <2> QED BY <2>2, ReportCounts DEF IInv
<1>5. CASE SpawnChild \/ ChildWrites \/ ChildExits
  <2>1. UNCHANGED <<command, units, results, phase>>
    BY <1>5 DEF SpawnChild, ChildWrites, ChildExits
  <2> QED BY <2>1, OthersCount
<1>6. CASE NextChunk
  <2>1. CASE next \in DOMAIN units
    <3>1. UNCHANGED <<command, units, results>> /\ phase' # "reported"
      BY <1>6, <2>1 DEF NextChunk, Spawn
    <3> QED BY <3>1, OthersCount
  <2>2. CASE next \notin DOMAIN units
    <3> DEFINE U == UnitsFrom(command)
    <3>1. units \in Seq(U) /\ Len(results) <= Len(units)
      BY DEF Counted
    <3> HIDE DEF U
    <3>2. Len(units) \in Nat /\ DOMAIN units = 1..Len(units)
      BY <3>1
    <3>3. Len(results) \in Nat /\ next = Len(results) + 1
      BY DEF IInv, Reported, next
    <3>4. Len(results) = Len(units)
      BY <2>2, <3>1, <3>2, <3>3
    <3>5. UNCHANGED <<command, units, results>>
      BY <1>6 DEF NextChunk
    <3> QED BY <3>4, <3>5, OthersCount
  <2> QED BY <2>1, <2>2
<1>7. CASE Again
  <2> DEFINE U == UnitsFrom(command)
  <2>1. phase' = "collect" /\ results' = <<>> /\ UNCHANGED <<command, units>>
    BY <1>7 DEF Again
  <2>2. U' = U
    BY <2>1 DEF UnitsFrom
  <2>3. command \in Invocations /\ units \in Seq(U)
    BY DEF Counted
  <2>4. Len(units) \in Nat /\ Len(results') = 0
    <3> HIDE DEF U
    <3> QED BY <2>1, <2>3
  <2>5. units' \in Seq(U')
    BY <2>1, <2>2, <2>3
  <2> QED BY <2>1, <2>3, <2>4, <2>5 DEF Counted
<1>8. CASE UNCHANGED vars
  BY <1>8, OthersCount DEF vars
<1> QED BY <1>1, <1>2, <1>3, <1>4, <1>5, <1>6, <1>7, <1>8 DEF Next, Running

\* A failing unit is one failure at least, whether it declares tests or not.
LEMMA TotalsAgree == IInv /\ Counted => ExitAgrees
<1> SUFFICES ASSUME IInv, Counted, phase = "reported"
             PROVE  Len(results) = Len(units) /\ (ExitCode = 1) = (Failed > 0)
  BY DEF ExitAgrees
<1> DEFINE U == UnitsFrom(command)
<1>1. units \in Seq(U) /\ command \in Invocations /\ Len(results) = Len(units)
  BY DEF Counted
<1>2. results \in Seq(Statuses)
  BY DEF IInv, Reported
<1>3. DOMAIN results = DOMAIN units /\ \A i \in DOMAIN units : units[i] \in U
  <2> HIDE DEF U
  <2> QED BY <1>1, <1>2
<1>4. ASSUME NEW u \in U PROVE FailedCount(u) \in Nat \ {0}
  <2>1. PICK f \in FilesOf(command), kind \in {"named", "copy", "golden"} :
          u = Unit(command, f, kind)
    BY DEF UnitsFrom
  <2>2. u.kind = kind /\ u.file = f
    BY <2>1 DEF Unit
  <2>3. f.tests \in Nat
    BY <1>1, RunnerAssumption
  <2>4. Declared(u) \in Nat
    BY <2>2, <2>3 DEF Declared
  <2> QED BY <2>4 DEF FailedCount
<1>5. \A i \in DOMAIN results : FailedCount(units[i]) \in Nat \ {0}
  BY <1>3, <1>4
<1>6. Failed > 0 <=> \E i \in DOMAIN results : results[i] = "fail"
  BY <1>2, <1>5, FailedCounts
<1>7. ExitCode = 1 <=> \E i \in DOMAIN results : results[i] = "fail"
  BY DEF ExitCode
<1>8. (ExitCode = 1) = (Failed > 0)
  BY <1>6, <1>7
<1> QED BY <1>1, <1>8

\* A report has a verdict for every unit, and the exit code says failure if and only
\* if the number of failures that is printed is not zero, for any files, roots and
\* jobs, wherever earlier invocations were interrupted (test_command,
\* failed_test_count).
THEOREM ExitAgreesAlways == Spec => []ExitAgrees
<1> QED BY InitHolds, NextKeeps, CountedInit, NextCounts, TotalsAgree, PTL DEF Spec
=============================================================================
