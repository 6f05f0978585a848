----------------------------- MODULE TestRunner ------------------------------
(***************************************************************************)
(* mire test (src/cli/test.rs): it collects units, compiles a chunk of     *)
(* them on as many threads, runs the binaries of the chunk one by one,     *)
(* takes the next chunk, and reports.  Compilations share the directories  *)
(* they write to: generated sources, binaries, the object that LLVM hands  *)
(* to the linker, and the cache of C objects                               *)
(* (src/avens/build_support.rs, toolchain.rs).                             *)
(*                                                                         *)
(* A path is its words, those of its directories first, and its extension; *)
(* joining them with "_" keeps the words.  A tool that writes a file       *)
(* truncates it first: until it is done the file is Torn.                  *)
(***************************************************************************)
EXTENDS Integers, FiniteSets, SequencesExt

CONSTANTS
  Invocations,   \* files, roots and options of mire test
  Jobs,          \* --jobs
  PipeCapacity,  \* what a pipe holds, in units of output
  BadSources,    \* C sources that do not compile
  MaxRuns        \* bound: invocations

\* The files that an invocation may collect.
FilesOf(c) ==
  ToSet(c.files) \cup {r.file : r \in {r \in ToSet(c.roots) : r.kind # "dir"}}

ASSUME RunnerAssumption ==
  /\ Jobs \in Nat \ {0} /\ PipeCapacity \in Nat /\ MaxRuns \in Nat
  /\ \A c \in Invocations :
       /\ c.files \in Seq(ToSet(c.files)) /\ c.roots \in Seq(ToSet(c.roots))
       /\ \A f \in FilesOf(c) : f.tests \in Nat

VARIABLES
  command,   \* the invocation
  units,     \* what it collects
  written,   \* the units that have been found, and their copies written
  texts,     \* generated source -> the file whose text it is
  irs,       \* object made from LLVM IR -> the file it was compiled from
  binaries,  \* binary -> the file it was compiled from
  objects,   \* path of a C object -> Whole or Torn
  built,     \* source -> file and binary that its build entry stands for
  at,        \* where the thread of each unit of the chunk is
  making,    \* where its threads for C objects are
  linking,   \* the files being linked
  child,     \* the test that runs
  results,   \* status of the units so far
  phase,     \* "collect", "compile", "run" or "reported"
  runs       \* number of the invocation

disk == <<texts, irs, binaries, objects, built>>
vars == <<command, units, written, disk, at, making, linking, child, results, phase, runs>>

\* What is in a file that a tool wrote.
Torn    == <<>>
Of(f)   == <<f>>
Whole   == <<"whole">>
At(f, x) == IF x \in DOMAIN f THEN f[x] ELSE Torn
Put(f, x, v) == [y \in DOMAIN f \cup {x} |-> IF y = x THEN v ELSE f[y]]
Without(f, x) == [y \in DOMAIN f \ {x} |-> f[y]]

----------------------------------------------------------------------------
\* Collecting.

InDirectory(dir, f) == IsPrefix(dir, f.dirs)

\* A program that was swept up is compiled and not run.
SkipRun(c, f) ==
  /\ f.main /\ f.tests = 0
  /\ ~\E dir \in c.configured : InDirectory(dir, f)
  /\ ~\E r \in ToSet(c.roots) : r.kind = "file" /\ r.file = f

\* Two files may have one stem.
Stem(f) == [words |-> f.dirs \o f.name, ext |-> f.ext]

\* A root that is a file, or the entry of the project, is compiled where it is; of a
\* directory, copies are.  golden programs are compiled where they are too.
Unit(c, f, kind) == [file |-> f, kind |-> kind, skip |-> kind # "golden" /\ SkipRun(c, f)]

Taken(c, files, kind) ==
  FlattenSeq([i \in DOMAIN c.files |->
                IF c.files[i] \in files THEN <<Unit(c, c.files[i], kind)>> ELSE <<>>])

UnitsOf(c, root) ==
  IF root.kind # "dir" THEN <<Unit(c, root.file, "named")>>
  ELSE LET inside == {f \in ToSet(c.files) : InDirectory(root.dir, f)}
       IN  Taken(c, {f \in inside : ~f.golden /\ (f.main \/ f.tests > 0)}, "copy")
             \o Taken(c, {f \in inside : f.golden}, "golden")

Units(c) == FlattenSeq([i \in DOMAIN c.roots |-> UnitsOf(c, c.roots[i])])

\* What is compiled, and to what.
Target(u) == [stem |-> Stem(u.file), original |-> IF u.kind = "copy" THEN <<>> ELSE <<u.file>>]
Binary(u) ==
  IF u.kind = "golden" THEN [words |-> <<"golden">> \o u.file.dirs, ext |-> ""] ELSE Stem(u.file)

\* units.chunks(jobs): the chunk of a unit
ChunkOf(i) == (i - 1) \div Jobs
InChunk(n) == {i \in DOMAIN units : ChunkOf(i) = n}

NoChild == [unit |-> 0, file |-> Torn, left |-> 0, pipe |-> 0, exited |-> FALSE]

Init ==
  /\ command \in Invocations
  /\ units = Units(command) /\ written = {}
  /\ texts = <<>> /\ irs = <<>> /\ binaries = <<>> /\ objects = <<>> /\ built = <<>>
  /\ at = <<>> /\ making = <<>> /\ linking = <<>> /\ child = NoChild /\ results = <<>>
  /\ phase = "collect" /\ runs = 1

\* thread::scope: a thread for each unit of the chunk
Spawn(n) == at' = [i \in InChunk(n) |-> "start"] /\ phase' = "compile"

\* A unit is found, and its generated source written, in the order of the walk ...
Collect ==
  /\ phase = "collect"
  /\ \E i \in DOMAIN units \ written :
       /\ \A j \in DOMAIN units : j < i => j \in written
       /\ written' = written \cup {i}
       /\ texts' = IF units[i].kind = "copy"
                   THEN Put(texts, Target(units[i]), units[i].file) ELSE texts
  /\ UNCHANGED <<command, units, irs, binaries, objects, built, at, making, linking, child, results, phase, runs>>

\* ... and all of them are before the first compilation.
Collected ==
  /\ phase = "collect" /\ written = DOMAIN units
  /\ Spawn(0)
  /\ UNCHANGED <<command, units, written, disk, making, linking, child, results, runs>>

----------------------------------------------------------------------------
\* Compiling: compile_file_with_avenys on the thread of a unit.

Goto(i, place) == at' = [at EXCEPT ![i] = place]

Source(i) ==
  IF units[i].kind = "copy" THEN texts[Target(units[i])] ELSE units[i].file
IrObject(i) == [Binary(units[i]) EXCEPT !.ext = "mire.ir.o"]

\* The build entry of the source, if a binary is still there.
Entry(i) == [file |-> Source(i), binary |-> Binary(units[i])]
Hit(i) ==
  /\ Target(units[i]) \in DOMAIN built /\ built[Target(units[i])] = Entry(i)
  /\ Binary(units[i]) \in DOMAIN binaries

Start(i) ==
  /\ at[i] = "start"
  /\ LET f == Source(i)
         emits == command.run /\ ~f.broken /\ ~Hit(i)
     IN  /\ Goto(i, CASE f.broken -> "failed" [] emits -> "objects" [] OTHER -> "compiled")
         /\ making' = IF emits THEN [t \in DOMAIN making \cup ({i} \X f.cs) |->
                                  IF t \in DOMAIN making THEN making[t] ELSE "check"] ELSE making
  /\ UNCHANGED <<command, units, written, disk, linking, child, results, phase, runs>>

\* precompile_c_object, for one C source.  The path of the object is made of all
\* it depends on; the temporary one has a number that is used once.
ObjectPath(c) == <<c>>
TempPath(i, c) == <<c, i, runs>>

Mut_CheckObject(i, c) ==
  /\ <<i, c>> \in DOMAIN making /\ making[<<i, c>>] = "check"
  /\ IF ObjectPath(c) \in DOMAIN objects
     THEN making' = [making EXCEPT ![<<i, c>>] = "done"] /\ UNCHANGED objects
     ELSE /\ making' = [making EXCEPT ![<<i, c>>] = "tcc"]
          /\ objects' = Put(Put(objects, ObjectPath(c), Torn), TempPath(i, c), Torn)
  /\ UNCHANGED <<command, units, written, texts, irs, binaries, built, at, linking, child, results, phase, runs>>
CheckObject(i, c) ==
  /\ <<i, c>> \in DOMAIN making /\ making[<<i, c>>] = "check"
  /\ IF ObjectPath(c) \in DOMAIN objects
     THEN making' = [making EXCEPT ![<<i, c>>] = "done"] /\ UNCHANGED objects
     ELSE /\ making' = [making EXCEPT ![<<i, c>>] = "tcc"]
          /\ objects' = Put(objects, TempPath(i, c), Torn)
  /\ UNCHANGED <<command, units, written, texts, irs, binaries, built, at, linking, child, results, phase, runs>>

CompileObject(i, c) ==
  /\ <<i, c>> \in DOMAIN making /\ making[<<i, c>>] = "tcc"
  /\ IF c \in BadSources
     THEN /\ making' = [making EXCEPT ![<<i, c>>] = "failed"]
          /\ objects' = Without(objects, TempPath(i, c))
     ELSE /\ making' = [making EXCEPT ![<<i, c>>] = "publish"]
          /\ objects' = [objects EXCEPT ![TempPath(i, c)] = Whole]
  /\ UNCHANGED <<command, units, written, texts, irs, binaries, built, at, linking, child, results, phase, runs>>

PublishObject(i, c) ==
  /\ <<i, c>> \in DOMAIN making /\ making[<<i, c>>] = "publish"
  /\ making' = [making EXCEPT ![<<i, c>>] = "done"]
  /\ objects' = Put(Without(objects, TempPath(i, c)), ObjectPath(c), objects[TempPath(i, c)])
  /\ UNCHANGED <<command, units, written, texts, irs, binaries, built, at, linking, child, results, phase, runs>>

Makers(i) == {t \in DOMAIN making : t[1] = i}

\* compile_binary_from_ir: llc truncates the object as it starts.
JoinObjects(i) ==
  /\ at[i] = "objects"
  /\ \A t \in Makers(i) : making[t] \in {"done", "failed"}
  /\ IF \E t \in Makers(i) : making[t] = "failed"
     THEN Goto(i, "failed") /\ UNCHANGED irs
     ELSE Goto(i, "llc") /\ irs' = Put(irs, IrObject(i), Torn)
  /\ UNCHANGED <<command, units, written, texts, binaries, objects, built, making, linking, child, results, phase, runs>>

\* What llc writes goes nowhere if somebody has unlinked its file.
Lower(i) ==
  /\ at[i] = "llc"
  /\ irs' = IF IrObject(i) \in DOMAIN irs THEN [irs EXCEPT ![IrObject(i)] = Of(Source(i))] ELSE irs
  /\ Goto(i, "link")
  /\ UNCHANGED <<command, units, written, texts, binaries, objects, built, making, linking, child, results, phase, runs>>

\* The linker reads its inputs and truncates the binary.
LinkStarts(i) ==
  /\ at[i] = "link"
  /\ IF /\ At(irs, IrObject(i)) # Torn
        /\ \A c \in Source(i).cs : At(objects, ObjectPath(c)) = Whole
     THEN /\ linking' = Put(linking, i, irs[IrObject(i)])
          /\ binaries' = Put(binaries, Binary(units[i]), Torn)
          /\ Goto(i, "linking") /\ UNCHANGED irs
     ELSE /\ irs' = Without(irs, IrObject(i))
          /\ Goto(i, "failed") /\ UNCHANGED <<linking, binaries>>
  /\ UNCHANGED <<command, units, written, texts, objects, built, making, child, results, phase, runs>>

LinkEnds(i) ==
  /\ at[i] = "linking"
  /\ binaries' = [binaries EXCEPT ![Binary(units[i])] = linking[i]]
  /\ irs' = Without(irs, IrObject(i))
  /\ linking' = Without(linking, i)
  /\ Goto(i, "store")
  /\ UNCHANGED <<command, units, written, texts, objects, built, making, child, results, phase, runs>>

StoreBuild(i) ==
  /\ at[i] = "store"
  /\ built' = Put(built, Target(units[i]), Entry(i))
  /\ Goto(i, "compiled")
  /\ UNCHANGED <<command, units, written, texts, irs, binaries, objects, making, linking, child, results, phase, runs>>

\* The scope ends when every thread has.
Mut_Join ==
  /\ phase = "compile"
  /\ \A i \in DOMAIN at : at[i] = "compiled"
  /\ phase' = "run" /\ making' = <<>>
  /\ UNCHANGED <<command, units, written, disk, at, linking, child, results, runs>>
Join ==
  /\ phase = "compile"
  /\ \A i \in DOMAIN at : at[i] \in {"compiled", "failed"}
  /\ phase' = "run" /\ making' = <<>>
  /\ UNCHANGED <<command, units, written, disk, at, linking, child, results, runs>>

----------------------------------------------------------------------------
\* Running the chunk, one unit after the other.

next == Len(results) + 1

\* What the output and the exit status of a program say of a unit.
Status(u, f) ==
  IF u.kind = "golden" THEN IF f.outcome = u.file.expect THEN "pass" ELSE "fail"
  ELSE IF f.outcome \in {"marks", "exit"} THEN "fail" ELSE "pass"

Runs(u) == command.run /\ (u.kind = "golden" \/ ~u.skip)

Report(status) == results' = Append(results, status)

\* A unit that did not compile, that is not to run or that cannot be run
NotRun ==
  /\ phase = "run" /\ child = NoChild /\ next \in DOMAIN at
  /\ \/ at[next] = "failed" /\ Report("fail")
     \/ at[next] = "compiled" /\ ~Runs(units[next]) /\ Report("compiled")
     \/ /\ at[next] = "compiled" /\ Runs(units[next])
        /\ At(binaries, Binary(units[next])) = Torn /\ Report("fail")
  /\ UNCHANGED <<command, units, written, disk, at, making, linking, child, phase, runs>>

\* run_binary_with_metrics: nothing is read from the pipes while the child lives.
SpawnChild ==
  /\ phase = "run" /\ child = NoChild /\ next \in DOMAIN at
  /\ at[next] = "compiled" /\ Runs(units[next])
  /\ LET binary == At(binaries, Binary(units[next])) IN
       /\ binary # Torn
       /\ child' = [unit |-> next, file |-> binary, left |-> binary[1].output, pipe |-> 0, exited |-> FALSE]
  /\ UNCHANGED <<command, units, written, disk, at, making, linking, results, phase, runs>>

ChildWrites ==
  /\ child.left > 0 /\ child.pipe < PipeCapacity
  /\ child' = [child EXCEPT !.left = @ - 1, !.pipe = @ + 1]
  /\ UNCHANGED <<command, units, written, disk, at, making, linking, results, phase, runs>>

ChildExits ==
  /\ child # NoChild /\ child.left = 0 /\ ~child.exited
  /\ child' = [child EXCEPT !.exited = TRUE]
  /\ UNCHANGED <<command, units, written, disk, at, making, linking, results, phase, runs>>

Reap ==
  /\ child.exited
  /\ Report(Status(units[child.unit], child.file[1]))
  /\ child' = NoChild
  /\ UNCHANGED <<command, units, written, disk, at, making, linking, phase, runs>>

NextChunk ==
  /\ phase = "run" /\ next \notin DOMAIN at
  /\ IF next \in DOMAIN units THEN Spawn(ChunkOf(next)) ELSE phase' = "reported" /\ at' = <<>>
  /\ UNCHANGED <<command, units, written, disk, making, linking, child, results, runs>>

----------------------------------------------------------------------------
\* The command is given again, when it is done or has been interrupted.
Again ==
  /\ runs < MaxRuns /\ runs' = runs + 1
  /\ phase' = "collect" /\ at' = <<>> /\ making' = <<>> /\ linking' = <<>>
  /\ written' = {} /\ child' = NoChild /\ results' = <<>>
  /\ UNCHANGED <<command, units, disk>>

Compiling ==
  \E i \in DOMAIN at :
    \/ Start(i) \/ JoinObjects(i) \/ Lower(i) \/ LinkStarts(i) \/ LinkEnds(i) \/ StoreBuild(i)
    \/ \E c \in units[i].file.cs \cup Source(i).cs :
         CheckObject(i, c) \/ CompileObject(i, c) \/ PublishObject(i, c)

Running == NotRun \/ SpawnChild \/ ChildWrites \/ ChildExits \/ Reap

Next == Collect \/ Collected \/ Compiling \/ Join \/ Running \/ NextChunk \/ Again

Spec == Init /\ [][Next]_vars

\* Threads and children are scheduled; nothing makes anybody interrupt or repeat
\* the command.
FairSpec == Spec /\ WF_vars(Next /\ runs' = runs)

----------------------------------------------------------------------------
\* The verdict that a unit deserves.
Own(u) ==
  IF u.file.broken \/ (command.run /\ u.file.cs \cap BadSources # {}) THEN "fail"
  ELSE IF ~Runs(u) THEN "compiled" ELSE Status(u, u.file)

\* The unit shares the words of its paths, that of its binary and that of the
\* object of llc, with none but copies of itself, no two of them in one chunk.
SameWords(i, j) == Binary(units[i]).words = Binary(units[j]).words
Alone(i) ==
  \A j, k \in {n \in DOMAIN units : SameWords(n, i)} :
    /\ Target(units[j]) = Target(units[k]) /\ units[j].file = units[k].file
    /\ j # k => ChunkOf(j) # ChunkOf(k)

\* The verdict of a unit is that of its own source, however compilations
\* interleave and whatever earlier invocations left behind, interrupted or not.
\* Units that are not Alone are not covered: in a chunk they write one binary, and
\* an interrupted command may leave it torn, with a build entry, for later ones.
OwnVerdict == \A i \in DOMAIN results : Alone(i) => results[i] = Own(units[i])

\* The totals: a failing unit counts as one failure at least.
Declared(u) == IF u.kind = "golden" THEN 0 ELSE u.file.tests
Mut_FailedCount(u) == Declared(u)
FailedCount(u) == IF Declared(u) = 0 THEN 1 ELSE Declared(u)
Failed == FoldLeft(LAMBDA n, i : IF results[i] = "fail" THEN n + FailedCount(units[i]) ELSE n, 0,
                   [i \in DOMAIN results |-> i])
ExitCode == IF \E i \in DOMAIN results : results[i] = "fail" THEN 1 ELSE 0

\* The exit code and the number of failures that is printed agree
\* (failed_test_count), and no unit is without a verdict.
ExitAgrees ==
  phase = "reported" => /\ Len(results) = Len(units)
                        /\ (ExitCode = 1) = (Failed > 0)

\* Every invocation reports, if no test prints more than a pipe holds.
Fits == \A i \in DOMAIN units : units[i].file.output <= PipeCapacity
AlwaysReports == (phase = "collect" /\ Fits) ~> (phase = "reported")
=============================================================================
