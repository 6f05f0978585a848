# Formal models of Avenys

TLA+ modules for Avenys (the compiler, runtime and build tool of the Mire
language), the TLC configurations that check them and the theorems TLAPS proves
about them. Paths are relative to the repository; those without a prefix are
under `src/src/`. `PROJECT.json` lists, for every definition, the source lines it
stands for.

1. [Inventory](#1-inventory)
2. [Plan](#2-plan)
3. [Modules](#3-modules)
4. [Runs](#4-runs)
5. [Where the code and its documents disagree](#5-where-the-code-and-its-documents-disagree)
6. [Proofs](#6-proofs)
7. [Not modelled](#7-not-modelled)

## 1. Inventory

| Part | Source | State | Operations | What is hard |
|---|---|---|---|---|
| PAL handle table | `pal/core/pal_core.c`, `pal_dispatch.c` | `g_slots`: generation, in_use, type, internal, owner thread | open, operate, transfer, close through `{index, generation}` handles | dispatch works outside the table's mutex; slots are reused; generations are finite |
| PAL host backend | `pal/linux/` | process objects, pipes, sockets | spawn, wait, kill, close, channel send/recv | pids are reused, pipes block |
| PAL sandbox | `pal/core/pal_sandbox.c` | allowed roots, tool home, unsafe depth | allow, permit, enter/leave unsafe | nesting, prefix tests |
| Cache initialisation | `incremental/cache.rs` 203-386 | lock directory, version file, sub-directories | lock, wipe, stamp, wait, break | threads and processes race, holders die, clocks |
| Cache store | `incremental/cache.rs` 60-200, 388-1500 | metas, blobs, WAL files, in-memory maps | store, read, checkpoint (`save`), collect garbage, replay | crash at any point, several writers, age-based collection |
| Cache LRU | `incremental/lru.rs`, `cache.rs` 1245-1267 | recency list beside the entries in memory | insert, promote, evict, enforce the limit | two structures that must agree; what an eviction costs |
| Incremental analysis | `incremental/analysis.rs`, `dependencies.rs`, `avens/reuse.rs` | units, their hashes and dependencies | compare, invalidate, reuse | what an edit reaches; what a hash sees |
| Statement hashes | `incremental/hashing/` | a hasher's input | walk the tree | two trees with one input |
| Build pipeline | `avens/build_pipeline.rs`, `build_support.rs`, `toolchain.rs` | build entries, analyses, binaries | look up, analyse, link, record, save | entries that outlive what they stand for; interruptions |
| Test runner | `cli/test.rs` | units, chunks, a child and its pipes | collect, compile, run, report | threads that share every directory; repeated commands |
| Loader | `loader/` | files loaded and in progress, namespaces | scan, select, rename, load | order of loads, selections that need each other, cycles |
| Parser | `parser/` | position, scopes, functions seen, nested parsers | one function per construct | the meaning of a token far from where it stands |
| Type checker | `compiler/typeck*`, `types/` | scopes, substitutions | one pass per file | unification |
| Borrow checker | `compiler/borrowck/` | state and counts per binding | move, borrow, join, release | one state for all paths, loops checked twice |
| MIR ownership | `compiler/mir/lower/scope.rs`, `stmt.rs`, `decl.rs` | scope frames, slots | retain, drop, store | early exits; who releases |
| MIR optimizer | `compiler/mir/optimize/`, `inline.rs`, `lower/expr.rs` | functions of basic blocks | lower, inline, fold, merge, remove | a pass that trusts stale positions; termination |
| Managed allocator | `runtime/memory/allocator/` | blocks, reference counts, free list | alloc, retain, release | blocks change their size when reused |
| Collections | `runtime/collections/` | dense entries with bucket chains | get, set, remove, merge, list | the last entry moves into the hole; who owns a copy |
| Protocol | `protocol/` | frames | encode, decode | lengths |

The parts meet in four ways. The compiler's drivers (`avens`, `cli`) call the
passes one after the other in one thread, each on the result of the one before.
Several such drivers, as threads of `mire test --jobs N` or as processes, share one
cache directory and the directories of a build, so every operation on a file has
to be correct against any other process's operations. What one build leaves in
the cache the next one reads. Compiled programs call the runtime in one thread;
the runtime calls the PAL through integer handles, and these may be passed
between threads.

What makes each part correct:

* *handle table*: a handle means one resource for ever; a call in progress never
  loses its resource; a resource is closed once and is lost only to a full table;
* *cache initialisation*: one initialiser at a time, nothing committed wiped,
  nobody lets itself in too early, nobody waits for ever;
* *cache store*: what is on disk stays on disk and refers to blobs that exist,
  whatever crashed; a load finds it;
* *cache capacity*: the list evicts the least recently used entry, as many as
  needed, and without a limit nothing is lost;
* *analysis, hashes, pipeline*: a build that reuses gives what a build from
  nothing would;
* *test runner*: a unit's verdict is that of its source; the command ends;
* *loader, parser*: they mean what was written, in whatever order or layout;
* *borrow checker*: an accepted function meets no ownership error on any path;
* *ownership, optimizer*: no string is released in use or leaked; a program says
  what it said;
* *collections, allocator*: finite maps, on strings with one owner each.

`PROJECT.json` lists the components, the ones that are not modelled too, and the
hazards at the line where each bites.

## 2. Plan

Done, in this order:

1. **PalHandles** implementing **PalCapabilities**; **PalHandlesProofs**.
2. **CacheInit**; **CacheInitProofs**.
3. **CacheStore**; **CacheStoreProofs**. **CacheCapacity**;
   **CacheCapacityProofs**.
4. **IncrementalBuild**; **IncrementalBuildProofs**. **BorrowCheck**.
5. **ManagedArena**, and on it **MireMap** implementing **FiniteMaps**, and
   **OwnedLocals**; **MireMapProofs**, **MireMapExactProofs**.
6. **MirOptimizer**; **LoadPaths** and **ModuleRenamer**, and on them **Loader**;
   **TestRunner**; **TestRunnerProofs**.
7. **SyntaxTree**, **DeclaredTypes**, **NestedFunctions**, **Parser**, and on them
   **SourceText** and **StatementHash**.

Each component has one run, an MC module of its own name (`MCParser` runs the
front end, from the tokens to the hashes).

Left: temporary names of two processes in `atomic_write`; **PalProcess** (pipes,
wait, kill and close) and **PalSandbox**; the worklists of `monomorphize.rs`;
unification; the lexer; the codec of the protocol.

## 3. Modules

### PalHandles, PalCapabilities

`PalHandles` is the table of `pal_core.c` as the entry points of
`pal_dispatch.c` use it. `slots` is `g_slots`. Each `pal_core_*` function is one
critical section and is one step; each dispatch entry point is a sequence of
them with the host call in the middle, and `pc`/`call` hold a thread's position
and locals. Nine resource types share this code, so one action stands for all
entry points of the same shape: `Open` (root, socket, listener, channel,
secret), `OpenChild` (file, directory, process with a channel, accepted socket, clone),
`Validate`+`UseHost` (every read, write, wait, sign), `Validate`+`Transfer`,
`Validate`+`CloseHost`+`Release`. Handles are values: any thread may pass any
handle ever issued, or the null handle, at any time (`HandleArgs`).

`PalCapabilities` says what this is for: a capability is granted once, used by
its owner only, revoked once. `Caps` maps the table to it: a capability exists
while its resource is open and a handle for it was returned.

What is abstracted: the host call (it succeeds or fails), error codes, the
`index` field of a slot (always its position), the fall-back when no backend is
registered, and `proc_create`'s second and third channel.

### CacheInit

The cache directory as `load_with_settings` finds it, and the workers that
enter through it. `root` is the directory itself, `lock`, `version` and `dirs` what is
in it; every system call is a step, so a wipe removes one entry at a time. `lockAge`
and `waited` are the mtime of the lock and a waiter's deadline in ticks of
`Tick`. `Clock` is "free" (any delay) or "frozen" (everything happens within the
thresholds of 30 s). After initialisation a worker writes one blob, which is what a
wipe would disturb. `Crash` kills a worker at any point and leaves its lock behind.

Each call may also fail, in an action of its own (`MakeRootFails`, `LoadLockFails`,
`MisreadFails`, `RemovalFails`, `MakeDirsFails`, `StampFails`, `UnlockFails`,
`WaitReadFails`, `WaiterLockFails`, `StatFails`, `BreakFails`, `StoreFails`), and
goes on as the code does: nearly every result is ignored, and any error of `create_dir`
counts as a lock that is held. `MaxFaults` bounds failures and deaths together.
Histories name what the properties depend on: `stolen`, that a waiter has broken the
lock of a worker that was still inside, and `lapses`, the failures that leave the cache
other than the code takes it to be (a version that could not be read, directories
that could not be made, workers whose stamp failed). All other failures are
covered without a condition: of the lock, of the wipe, of the wait.

### CacheStore

What the instances do to the cache directory after its initialisation. `blobs`,
`metas` and `wal` are the three directories; `mem` and `own` are an instance's
maps and its `wal_written`; `pc`, `arg`, `recs`, `refs` and `todo` are the locals
of the call it is in. A step is one operation on a file, or one reading of a
directory. `load_with_settings` is `LoadStarts`, `Prune`, `Replay`, `DropCorrupt`,
`ReplayDone`, `LoadIndex`; a lookup is `LookupMeta`, `ReadBlob`; a store is
`StoreBlob`, `CommitBlob` or `BlobFails`, `CreateLog`, `AppendPart`, `AppendRest`
or `LogFails`; `save` is `SaveStarts` .. `SaveDone`. `Stop` ends an instance at any
point, by drop or by death. Nothing is locked in the code, and nothing is here.
`Builders` are the instances that store and save; the others load and look up.

Calls whose failure the code passes over fail here too, at most `MaxIgnored` of them:
a meta or a log file that cannot be read, by a load or by the scan of a collection; the
replay of the log as a whole in that scan (`ScanLogFails`, `cache.rs` 645); a removal.
`unread` keeps which log files and which references were missed in this way, or found in
the middle of a write, and the properties speak of the others.

One value stands for a source version, its result, the blob and the hash that
names it, since blobs are content-addressed and lookups compare hashes; a hit on
the wrong content is therefore out of the model's sight. The four kinds of
entries (file, analysis, build, function) go through the same steps. Every store
writes one record per log file. A meta or a blob is replaced in one step (the
rename of `atomic_write`): temporary files are not modelled. Reading the WAL
directory is one step, reading the metas for references is one step per meta.
Blobs are not corrupted (`read_blob` removes one whose checksum is wrong). `Clock` says how slow things may be, against the grace
periods of 30 s (blobs) and 60 s (logs): "prompt" (no store and no save takes 30 s,
an instance may live for hours) or "free".

### CacheCapacity

The entries in memory (`mem`), the LRU list (`order`) and what remains on disk
(`metas`, `log`), with one action per call; calls are sequential here, the
interleavings are CacheStore's. A load reads the log record by record (`at`) and
then the metas. `Touched` is `LruMap::insert`; `Keep` is `enforce_capacity`:
`LoopEnds` is the loop's condition after `n` evictions, and `Evictions` the first
`n` that satisfies it. `used` is a history variable, the reference definition of
recency. `StoreAnalysis` puts two entries in memory, the second under the key of
the latest analysis, and one in the log. Which of the four maps holds a key does
not matter: they are counted together.

### IncrementalBuild

Builds of one file, one after the other, in several profiles, with edits and
interruptions between and within them. `builds`, `analyses` and `latest` are the
three kinds of entries a build may start from, `binaries` what linking left at
each path, `run` the build in progress. A statement is what it declares and what
it needs, by name, each with a signature, the variables it reads and those it binds,
and the names it mentions (`collect_statement_dependencies`, which need not be all that
it needs). Analysis accepts it if all it needs is declared, and the variables it reads
are in scope, as it expects, and resolves it, which changes its hash; a skill, and the
implementation of one, stay as they were written, and it is those that the
invalidation must find.

Which variables are in scope is `Binders`: `pop_scope` leaves the variables of a
function to the statements after it (`typeck_scope.rs` 14), an analysis of a part binds
nothing for the statements it skips (`typeck.rs` 364), but binds the variables of the
top level beforehand (421). So an analysis of a part may accept what one of everything
rejects, and the other way round. `Tracked` says when neither happens and the
worklist sees every change: keys are distinct (`DistinctKeys`), declarations stand
under their names (`KeyedByName`), what a statement needs is among what it depends on
(`DependsOnNeeds`), and the variables it reads are bound by lets of the top level before
it alone (`ReadsGlobals`). `BuildTransparent` speaks of histories of `Tracked` texts; the
run has texts that break each of the four, and fails on them without the condition, as it
does on an ignored test without the one on those.

`Generate` takes the code of a program from `codes`, where every build leaves what it
generates, or generates it. Code stands for the program it was generated for, and its
key is the level of optimization and the functions, each as a whole; `Declarations` are
the statements that are no functions, and have no part in it. A test build generates
code for a program whose `main` has been replaced by the runner of its tests
(`Compiled`, after `inject_test_harness`), under the level of a debug build.

`compute_invalidation_report` is `Compare`, which queues the altered units, and
one `Invalidate(k)` for each unit the loop takes from its queue. The code iterates
hash maps to fill the queue, so every order is possible and every order is here.
`Recheck` is what follows: `prepare_program_with_partial_analysis_reuse` and the
analysis of what is left. A container is checked whole, since every method
depends on it.

What is abstracted: hashes are what they cover; a position in the text stands for
a line; one file, hence one fingerprint; tools are a step that succeeds or ends the
build. Every let states its type; aliases of functions, references and records in scope
are left out. A test build empties ignored tests before it stores the analysis:
`BuildTransparent` does not cover sources that have one.

### BorrowCheck

The checker of `compiler/borrowck` as recursive operators over a function body
(scopes of binding states, found by name; branches joined; loops checked until
nothing changes, at most twice), and next to it a run of the same body, in which
names stand for locations, references are values, and branches and loops go
either way. A state is a body: every body up to `MaxSize` statements is written,
checked and run. The properties compare the two: `MovesSound`, `BorrowsSound`
(accepted bodies meet no error) and `ExactOnOnePath` (on a single path nothing
else is rejected).

`MoveFragment` and `BorrowFragment` say where the checker does not follow the run, and
leave such bodies out: a write to a field revives a moved value; an assignment
in a loop body revives for the turn after; what a closure captures inside
`unsafe`; a name declared twice; a reference assigned to or copied; a borrowed
value wrapped in another. `move::(x)` is not among the expressions: the parser
never produces it (see Parser). Queries,
match patterns, the bodies of closures and the masks of partial checking are
left out.

### ManagedArena, MireMap, FiniteMaps

`ManagedArena` is the allocator of managed strings: blocks carved from one arena,
reference counts in their headers, a free list searched first-fit. A reused block
keeps the room it was carved with and admits to less. There is one size class, so
one free list; the arena is never exhausted.

`MireMap` is `maps.c` on it: dense entries, chains from buckets by index, a copy
of every key and value owned by the map. Set, get, remove, merge, listing and
free are one step each, since the runtime has one thread. `FiniteMaps` is what
this implements: functions with a domain. Storage always grows; growing the buckets
may fail, as the code allows. No program writes an entry's own string back to it
or merges a map into itself (the code releases the old copy first).

### OwnedLocals

Which `retain`, `drop` and `store` instructions lowering emits around string
locals. A function is written statement by statement and lowered as it is written
(`scope.rs`, `stmt.rs`, `decl.rs`: frames, slots, `mark_escaped`, the releases at
the end of a scope, at returns and at jumps); when it is complete it runs on
`ManagedArena`, conditions going either way. The reference is kept beside it:
`means` is the text assigned last to each slot.

What lowering gets wrong is named in `Strays`, what it is content to leak on in
`Untidy`. With `Allowed = {}` no written function strays; setting `Allowed` to one
of them shows it. For instance

    fn f :str {
        set a = make()
        while again() { return a }
        return make()
    }

releases `a` before it returns it: `mark_escaped` (`scope.rs` 268) looks at the
innermost frame alone, although the comment at `scope.rs` 19-20 speaks of a local
that escapes.

### MirOptimizer

Lowering of expressions and statements to basic blocks (`lower/expr.rs`,
`lower/stmt.rs`), the inliner, every pass of `optimize/` in its order and the
fixpoint loop around them, as operators on programs; the actions are one
inlining, one pass, the next round, the next function. `Outcome` runs the
instructions of a program. `Preserves` compares the runs of the program as lowered
and as it is after every step.

Programs have one variable per function; functions have one parameter and return
a value; ids of blocks and temporaries begin with 1; the match statement and
expression have literal patterns; nothing follows a jump in its own block; `&&`
and `||` evaluate both sides, as lowering has it; a panic ends the run and falling
off the end returns 0. Integers have `Width` bits; a fold computes like a release
build of the compiler, and a fold of the least integer over -1, quotient or remainder,
ends the compiler (`Panic`), as plain `/` and `%` do in Rust whatever the build;
`OptimizerEnds` names that case (`FoldOverflows`). A run that overflows in a division is
not compared. Left out: indirect calls, function values, floats, strings, records, `phi` and `select`,
the attribute `noinline`, monomorphization, right shifts of negative constants.
`Assembles` is the condition under which the assembler accepts the program.

### LoadPaths, ModuleRenamer, Loader

From a source file to the program that is compiled: the scan of the import graph,
the inference of what a `load` takes, the closure of a selection, load groups,
namespaces and aliases, cycles and depth. A project is the files on its disk, its
manifests and library directories; a statement is what it declares and its node. A
state is a project and its result; the properties compare the result with those of
other orders of its loads, with the program from which nothing is left out, and with
the statements as their files have them.

`LoadPaths` is where a load leads: packages, the exports of their manifests, module
files, files beside a file. `ModuleRenamer` is what the loader sees of a statement:
names, the scopes that forms open, and what they bind or hide. It has the three walks of
the code over it (the names collected, the names bound, the renaming of exports) and
next to them `LexicalNode`, the renaming as the scopes of the language would have it.
`NamesKept` compares the two; where the renamer is known to follow other rules
(section 5) a statement is not `Plain` and is left out. The namespace a statement should
have is worked out from the loads that lead to its file (`Given`), not from the result;
an export must carry it. The same ways through the project (`Walks`) give `CyclesReported`
its causes: a cycle is reported as one, a file along several paths is not, and "too deep"
is said only of what is as deep as `MaxDepth`. A path keeps the steps up in it,
as the code's do: the entry of a package may be written with them, and then
the loader knows its statements or not (section 5); projects with such an entry on some way
are not `Straight`.

Left out: externs of other libraries than C's, file stems with `_`, names with `__`,
the limit on the number of files, a load of no items, candidates by the type of a
method's receiver, symbolic links, directories whose name has an extension and files
without one; and, in `NamesKept`, the files below one that loads another bare.

### TestRunner

`mire test`: units collected from files and directories one by one, chunks of `Jobs` of them
compiled on as many threads, run one by one, reported. Threads share generated
sources, binaries, the object LLVM hands to the linker, and the cache of C objects;
a tool that writes a file truncates it first, so another thread may find it
`Torn`. A path is its words, since directories are joined with `_`. `Again` gives
the same command once more, after its end or in the middle. The child writes to a
pipe that nobody reads before it exits. `OwnVerdict` is about units that are `Alone`:
they share the words of their paths with none but copies of themselves, no two of them
in one chunk.

Left out: a panic of a compile thread, option parsing, logs, the build id, two
commands at once.

### SyntaxTree, DeclaredTypes, NestedFunctions, Parser, SourceText

`Parser` is the parser of `parser/` over token sequences, one operator per
`parse_` function, each from a parser state to a parser state, what it read and
whether it succeeded. `DeclaredTypes` is `types.rs` and the metadata of declared
types, `NestedFunctions` the flattening of functions in functions, `SyntaxTree` the
nodes. Tokens are given: the lexer is not modelled. Positions are left out but for
calls, whose position decides which type arguments they get.

Four branches of `expression_primary.rs` have no counterpart, because no tokens can take
them or get through them. `check_lifecycle_expression_prefix` (504) asks for a keyword and a
colon at one position, so `move::(e)` and the like are never read as such. `type e` (207)
asks for an identifier `type`, which is a keyword (`lexer/keywords.rs` 23).
`(Type.method(...))` (335) looks for type arguments at the name, where
`bracket_followed_by_dot` finds no bracket, and otherwise asks for two dots, the second of
which it refuses as a member's name, as the expression parser does; in the same way
`(Name[T] field: e)` (383) never finds its type arguments. The format of an
interpolation, `__mire_fmt`, is read after a colon that the expression has left, so
only after a type: `{a :i64:2}` (`Interpolated`; `{a:2}` is an error).

`SourceText` is a writer: it grows a program by operations, statements and
enclosing blocks, and knows both how the program is written (`Written`, with no
brackets but those its operators need, in two layouts) and what it means (`Meant`).
`ReadsAsWritten` says that the parser agrees. Texts that do mean something
else than they look like are listed in section 5; the writer brackets them.

### StatementHash

What `incremental/hashing` feeds its hasher for a statement: tags, lengths, names,
flags. `Fed` gives the words of a tree; `HashesTellApart` says that trees which
differ in one place have different words. Positions, and the types of the elements
of lists and maps, are left out; what the hash does not look at (section 5) is
left alone by `Changed`. It is asked of the programs that have `Room` to grow.

## 4. Runs

| Run | Shows | Bounds | States |
|---|---|---|---|
| `pal_handles` | `HandleIdentity`, `CallsLive`, `LostOnlyWhenFull`; refinement of `PalCapabilities` | 2 threads, 2 slots, 2 types, 3 opens, 8 generations: a slot is reused, the table fills up, both threads are inside the PAL | 16,651 |
| `cache_init` | exclusive initialisation, writes succeed, committed entries survive, nobody but a worker whose stamp failed gets through to an unversioned cache, everybody ends when calls stop failing | 2 workers (a holder and a waiter, each in either role again after a steal), any 2 calls that fail or workers that die, thresholds of 1 tick, any delays, a cache that is missing, empty, old or current | 415,519 |
| `cache_store` | nothing on disk is lost or dangles, loads miss nothing | 2 instances: a builder and one that loads and looks up, 2 loads in all, 1 key, 2 contents, 2 stores, 1 failure passed over, stops anywhere, torn lines, any delays: a load across the checkpoint of an entry stored twice, a log left by a dead instance, a blob that becomes old | 3,179,335 |
| `cache_capacity` | recency, exact eviction, no loss without a limit | 3 keys and the latest pointer, limits 1, 2 and none over a default of 3, 4 log files: memory below, at and above the limit, the list shorter than memory | 177,402 |
| `incremental_build` | reuse of analyses and of code is transparent, hits are fresh, the worklist computes the closure | 3 builds, 2 edits, 3 profiles of which 2 share a binary and 2 a level, 13 texts: an altered method known by its last name, a removed skill, an altered variable, functions that call each other, an ignored test, statements that move, and seven texts that are not `Tracked`, some for each reason | 3,670,080 |
| `borrow_check` | accepted bodies meet no ownership error; on one path nothing else is rejected | all bodies of 4 statements from 3 vocabularies over 4 names, 2 turns of a loop | 61,969 |
| `mire_map` | exact chains, one owner per string, listings stay, refinement of `FiniteMaps` | 2 maps of 3 and 2 entries, 3 keys of which 2 collide, 2 values, 6 blocks, 6 calls, first table of 1 bucket: growth, reuse of blocks, removal from the middle of a chain | 228,700 |
| `owned_locals` | strings hold while in use, the returned one holds, nothing else stays | functions of 4 and 5 statements over 2 locals, 5 strings, 5 conditions | 2,831,906 |
| `mir_optimize` | programs say what they said, temporaries are new, optimization ends, or a fold overflows | 2990 programs, integers of 4 bits, inputs -8, 1 and 2, runs of 24 blocks | 86,627 |
| `loader` | the order of loads does not matter, selections are complete, names keep their meaning and get their namespace, cycles are reported and every error has its cause | 5600 projects of a program, a local file, three packages and two modules, a depth of 4: 2732 load, of which 1304 have a file along several paths and 994 are as deep as allowed; 1166 are cyclic, 166 too deep, 1016 lack a file, 520 an export | 11,200 |
| `test_runner` | each unit that is alone on its paths gets its own verdict, totals and exit code agree, the command ends | 12 invocations, 2 threads, a pipe of 2, given twice or interrupted once | 33,813 |
| `front_end` | programs are read as written, hashes tell statements apart | 2 operators under each other in every statement, 3 statements and enclosures, 2 layouts | 15,103 |

Deadlock checking is off where the system may stop: programs stop calling the
PAL, workers finish, loads and stores reach their bound, functions return.

*Fairness.* `cache_init` assumes that every live worker is scheduled and that the
clock advances: workers are threads or processes that only ever sleep 2 ms, and
nothing they do blocks. Nothing is assumed about who wins a race for the lock, and
nothing about calls that fail: `EveryLoaderFinishes` states itself that they stop failing
at some point, and that the cache directory is there, since the code waits without end
otherwise.
`mir_optimize` assumes only that the optimizer's own loop goes on. `test_runner`
assumes that threads and children are scheduled, and nothing about `Again`:
nobody has to interrupt or repeat a command.

In modules that only TLC runs use, the arms of a `CASE` are read in order.

*Bounds.* Each is a constant of its module: `MaxOpens` resources are opened in a
behaviour, `GenMod` generations exist (2^32 in the code), `MaxFaults` calls
fail or workers die, `MaxIgnored` failures are passed over, the cache is loaded
`MaxLoads` times, `MaxStores` and `MaxLogs` log files are written, `MaxBuilds`, `MaxEdits`, `MaxCalls`, `MaxRuns` count what their names say;
`lockAge` and `waited` stop counting one past their thresholds, where nothing
tells larger values apart. For the properties that section 6 proves, the bounds
do not matter.

## 5. Where the code and its documents disagree

No run is expected to fail: each of these is kept out of a property by a named
condition, which the module's comment and the hazard in `PROJECT.json` give.

*PAL.* `pal.h` promises that the zero handle is invalid; after 2^32 reservations of
slot 0 a live handle is the zero handle (`pal_core.c` 40; `NoWrap`).

*Cache.* The deadline branch of `wait_for_cache_init_with` is meant for a lock whose
age cannot be read, and also breaks a fresh lock of a live worker (`stolen`). The comment
before it says that the wait "keeps the retries bounded" (`cache.rs` 378): while `create_dir`
or the removal of the lock keeps failing, or when the cache directory could not be made,
waiters go round for ever (`EveryLoaderFinishes`). A stamp that fails is ignored
(`cache.rs` 312), and so are directories and removals: the worker itself goes on into a
cache of no version, where the next one will wipe what it has written, although callers
are told that the cache is "genuinely initialised" (`cache.rs` 320); a wipe of which a
part failed leaves old contents under a current stamp (`lapses`).
`store_blob` does not touch a blob that exists, so an old one is collected under a
store that has just found it; and the scan for references reads metas first and the
log second, while `save` moves entries the other way (both take two builders;
`cache.rs` 645). What that scan cannot read it does not count, and what only that refers to
may go (`unread`). `replay_wal` cannot tell an interrupted write from one in progress
and removes the file, against the header of `cache.rs`; so does `prune_stale_wal`,
60 s after a store that no save followed. An entry evicted between its store and
`save` is lost; entries read from the metas are not in the list, so a directory with
`max_units` metas makes every store evict what it has just stored.

*Builds.* A test build stores the analysis of the emptied program under the key of
the unchanged text (`build_pipeline.rs` 250, comments at 248 and 417). Debug and
release builds share a path, so a hit may serve the other's binary; and after an edit that is
undone, a hit may serve the binary of a build that was interrupted between linking and
recording. Reuse of the latest analysis is not transparent where `Tracked` fails: two
blocks for one type have one key (`analysis.rs` 134), a private skill, let or external
function stands under the text of the whole statement (`incremental/utils.rs` 141) so that its
dependents are not found, dependencies omit the return types of functions and the types
of lets (`dependencies.rs` 5, 20-26), and scopes that leak (below) leak less in an
analysis of a part. Kept code stands
under the hashes of the functions and the level (`build_pipeline.rs` 471-481), but also
holds the signatures of external functions, the types of globals and records and the
target (`codegen/mod.rs` 52-150): when only those change, the code of the earlier program
is linked. `compute_hash` itself cuts the numbers of results to 8 bits (`mir/mod.rs`
540), leaves out the types of zero and record constants, and uses the tags 23 to 26
twice or more. The hash of a statement omits
the type of an ascription (`hashing/expressions.rs` 5), attributes of functions
(`hashing/statements.rs` 47), the visibility of types, enums, skills and foreign
functions, the parent of a skill, and the type arguments of calls without a length
(`expressions.rs` 60); `Load` and `LoadLocal` share a tag.

*Compiler.* Returning an outer local from a while body (section 3). Negative
constants are shifted right as if they had no sign (`const_fold.rs` 49, against
`codegen/expr.rs` 301 and `src/docs/syntax/operators/README.md` 74). The inliner removes
a callee of which a call remains (`inline.rs` 154). `merge_blocks` compares positions
with ids of before its first merge (`simplify.rs` 246). `&&` and `||` evaluate both
sides, against `src/docs/syntax/operators/README.md` 63. A fold of the least
integer over -1 aborts the compiler, in a release build too (`const_fold.rs` 38, 43;
`FoldOverflows`). The scopes of the type checker
leak (`typeck_scope.rs` 14): a variable of one function is in scope in the next.

*Loader.* Derived code is not scanned, so there the order of loads matters. Private
types, and types of results, variables and fields, are not followed by a selection; a
local name anywhere in a file removes a candidate for all of it; a module with `load!`
lines alone is selected from unexpanded (`mod.rs` 593); private helpers keep their bare
names and clash. The entry
of a package written with a step up keeps it (`load.rs` 171), while the origins of its
statements do not (`rename.rs` 38-52): its exports then get no namespace when all is taken,
and get it when the file is selected from (`Straight`). Renaming: a guard's conditions are renamed as if its pattern bound
nothing; the variable of a loop goes on hiding its name after the loop, and a method or
a field hides its name from the methods after it, so that a call of an export of that
name is not prefixed; a function's own name is not hidden in the body of a nested
function; type parameters do not hide names in their own signature; ascriptions, macros
and `use!` are not renamed, though the names in them are collected. `src/docs/syntax/modules/README.md` allows mutual loads and speaks of a
depth of 2; the code reports a cycle and has a limit of 64.

*Test runner.* A test that prints more than a pipe holds never ends (`test.rs` 1011).
Two sources whose joined names agree share a generated source, a binary and an object
(`test.rs` 426, `toolchain.rs` 271). A file named twice in one chunk is linked twice at
once; interrupted, the second link leaves a torn binary beside the entry of the first,
and every later invocation fails that test. The hash of a C object omits its headers and the
target (`build_support.rs` 486). The number of failures counts every test of a failing
file.

*Parser.* A newline before `-`, `*` or `&` continues the statement; `a -1` is two;
`use (a :i64)` drops the type and calls; `(a :i64) => f(self)` reads as a closure; a
colon at the top of a list element makes the list a map; `@` as the second token of a
braced slice is dropped, and so are trailing tokens of conditions and arms; a missing
last `}` is accepted; an ascription on a call or a reference is lost, against the
comment at `expressions.rs` 103; the attributes of an outer function go to the first
nested one; the table of precedences in `src/docs/syntax/operators/README.md` 119-134 is
another than the code's.

## 6. Proofs

All theorems hold for every value of the constants that satisfies the module's
assumptions (types of the constants, and what the code fixes); what a theorem
assumes beyond that is in its statement.

**PalHandlesProofs.** `TypeCorrect`: `Spec => []TypeOK`, with wrap-around.
`TableInvariant`, `HandlesIdentify`, `CallsStayLive`, `NullHandleStaysInvalid`: under
`[]NoWrap` (no slot is at its last generation), which they need. `HandleIdentity`
is not inductive: a step that fills a reserved slot could give an old handle a new
meaning unless old handles have smaller generations (`IssuedBeforeNow`), the opener
still owns the reserved slot (`PublishersOwnTheirSlot`) and its resource is nobody
else's (`OpenersHoldTheirResource`); a release could free the wrong slot unless the
releaser still holds it (`ReleasersHoldTheirSlot`). `IInv` collects these.

Also there, `TableImplementsCapabilities`: `Spec /\ []NoWrap => ImplementsCapabilities`,
one step of the table at a time: it is a grant, a use, a transfer, a revocation or a
stutter of the abstract table. The invariant `Ledger` relates what has been issued
and closed to the slots. `LosesOnlyWhenFull` is the action property: a resource
that was opened is dropped only in a state in which every slot is taken.

**CacheInitProofs.** Every theorem has the premise that no lock has been stolen so
far, as the properties do, and any calls may fail any number of times. `InitIsExclusive`,
`WritesAlwaysSucceed`, `CommittedEntriesSurvive` and `ReturnsAreInitialised` follow from one
invariant: only the holder of the lock is in the stages of initialisation
(`HolderInitialises`); a cache that is current is complete, or a named failure says why not
(`CurrentIsComplete`); and as long as every version could be read and written
(`VersionsServed`), whoever has left initialisation did so under a current version
(`UsersAreCurrent`). Breaking the lock of a dead holder keeps all three, because the
version is stamped last. Of who gets through, `ReturnsAreInitialised` says that the cache is
current, or that it is a worker whose own stamp has failed: no waiter follows it out.
`FrozenStealsNothing`: when everything happens within the thresholds no lock is
stolen, so there the premise is free.

**CacheStoreProofs.** `StoreInvariant`, `LoadsMissNothing` and `EntriesStayOnDisk`, for
any number of instances, all of which may store and save, any failures and torn lines.
`EntriesStayOnDisk` excepts the files that somebody could not read, or found in the middle of a
write (`unread.logs`). The argument: an instance drops only its own log files, and only past
its checkpoint; whatever it has logged is in its memory (`OwnRemembered`), and past
the checkpoint everything in its memory has a meta (`Checkpointed`); metas never go
away. For loads, what was on disk when the log was read, and could be read, is in the
records or had a meta (`LoadSees`), and still has. A file that a load removes was torn
for good, or is on record (`CorruptListed`).

Of the blobs, `ReferencesHold`: with one builder, and any number of instances that load
and look up, no meta and no record names a blob that was collected, but for those to which
a scan missed a reference. The invariant `References` says that the names
in metas, log, memory and the locals of the call exist (`NamesExist`), that the builder's
memory and metas agree where a checkpoint has passed (`MetasCurrent`), and that a
collection under way has found every reference (`ReferencesFound`); without the second a
checkpoint would bring back the name of a collected blob. With two builders the code does
lose references (section 5), so the hypothesis stays. `FreshBlobsStay` has none on builders:
however many instances store and save, if no call takes 30 s, no collection takes a blob just
stored. It excepts a blob that was there before the store, which the store does not touch, and
one of a content that some collection has already found old and is about to remove
(`judged`): those the code does remove.

**CacheCapacityProofs.** `ListStaysRecency`, `StoresEvictExactly`,
`UnlimitedLosesNothing`. The list is the end of the sequence of keys in the order of
their last use (`EndOf`): using a key keeps that (`UseKeepsEnd`), evicting the first
of the list does too (`EvictionsEnd`). `IInv` is `Kinds` (types), `ListKnown` (the list
holds keys that are in memory, each once) and `LoggedHeld` (without a limit, what an
instance has logged is in its memory). That a store evicts no more than it must is
shown on the least number of evictions (`Least`).

**IncrementalBuildProofs.** `HitsAreFresh`: a build entry vouches for a binary only as
long as the same profile wrote it last and recorded it (`EntryVouches`); between
linking and recording, what the run has written is still there (`LinkedIsThere`).
`InvalidatesTheClosure`: during the loop, what is queued or invalidated holds every
alteration and every dependent of what is invalidated, and lies in every set that is
closed in this sense (`Worklist`); each step of the loop keeps that, whatever unit it
takes, and when the queue is empty it says that the invalidated units are the least
such set. `ReuseIsTransparent` is `BuildTransparent`: where every text so far was `Tracked`, an
analysis that starts from the latest one ends as one from nothing, and the code that is
linked has the functions of that program; no assumption on the constants says anything of
what statements need or depend on. The second follows from the first, because
kept code stands under the key of what it was generated for (`CodesHonest`). For the
first, every outcome, in a
run, in the log of analyses or the latest, is that of an analysis from nothing of
some text as a build loads it (`AnalysisInv`); a statement that the worklist leaves out
is, types and place included, what it was (`KeptAsItWas`), and all it needs is
declared as it was and every variable it reads is bound as it was (`KeptFits`), because
whatever declared or bound it would otherwise have been altered, and the statement depends on
it. Ignored tests are allowed in earlier texts and in earlier builds. Each part of `Tracked` is
needed; TLC finds a build that differs without any one of them.

**MireMapProofs.** `StringsOwnedAlways`, `ListingStaysAlways`, `OnlyLastRemovalLosesAlways`,
for any maps, keys, values, hashes and growth. The invariant `IInv` is `MapsOwn` and
`ListingHeld`: the arena is sound (headers and free list agree, no block is free twice);
the strings of every map's entries are live, each with one reference, no two alike, and
no two maps share any; an entry's hash is that of its key; and a listing that
was handed out has the strings of its map in their places, as long as no removal,
replacement or free intervened. That a string is owned once is not inductive without the
arena: an allocation must not hand out a block in use, which is `Allocating` (the
first fit is no live block, and a block carved is new), and a release must take the
block of one entry only, which is where the maps' disjointness comes in. `Removed`
moves the last entry into the hole, so the lemmas on `RemoveAt` say that what remains
is the same strings, each still once. Merging copies one entry after the other; the
proof is an induction over the natural numbers below the size of the source, by a
least counterexample (`Iteration`, `Staying`).

**MireMapExactProofs.** `ChainsExactAlways` and `RefinesFiniteMapsAlways`: `MireMap`
implements `FiniteMaps`, for any hashes (all keys in one bucket included), any first
capacities and any growth. The invariant adds `MapsExact` to the one above: each map is
`Linked` and no two of its entries have one key (`Distinct`). `Linked` speaks of
links between places, apart from the entries that hold them: every place is the head of
its bucket or the next of exactly one other, links stay within a bucket, and some rank
grows along them (`Ranked`), which excludes circles. A new entry pushes a place; a
removal bypasses one and renames the last to it; a rehash links everything
anew, and there the places themselves are the rank, downwards. That the walk which the
model takes of a bucket meets each of its places once, and ends within as many links as
there are entries, is `WalkExact`: a rank that grows meets no place twice, a place
missed with the least rank would have a predecessor that was met, and more steps than
places would break the pigeonhole principle. So a lookup finds the one entry of
its key (`FindExact`; this needs the hash of an entry to be its key's, from
`MapsOwn`), and the lookups of a map are the function of the pairs it says
(`ContentsShow`). Storing, removing, merging and freeing change those pairs as `Put`,
`Restrict`, `Over` and the empty function do; the other maps say what they said,
because their strings are in blocks the step leaves alone (`TurnsExact`). A merge needs
`Distinct` of the other map as well: its pairs are laid over one after the other.

**TestRunnerProofs.** `VerdictsAreOwn`: a unit that is `Alone` gets the verdict of its own
source, for any files, roots and number of jobs. `OwnVerdict` speaks of the end; the
invariant says what each thread has made so far (`Stages`), that a copy of a source is
that of this invocation (`CopiesWritten`), that an object under its own name is whole
(`ObjectsWhole`, `MakersKnow`), and that a build entry stands for a binary that is there
(`RecordedIsMade`). The last needs that whoever truncates a binary has no entry for it,
which is where `Alone` comes in: the same words mean the same unit (`Copies`), and of
those only one is compiled at a time (`OneAtATime`). The first form of the property
allowed copies in one chunk beside one in another; the proof failed there, and TLC
found the interrupted command that section 5 tells of. `ExitAgreesAlways`: a report has a
verdict for every unit, and the exit code says failure if and only if a failure is
counted. `Counted` adds that verdicts are those of the first units, which needs the units
to be a sequence (`Flattened`, from the type of the invocations, `RunnerAssumption`), and
that a failing unit counts as one at least. `Failed` is a fold over the sets of numbers up
to that of the last unit; that there is a function which adds up as the fold says
(`SumExists`), and that its value is zero only if nothing counts (`SumPositive`), follow
by going up the numbers (`Upwards`).

*Only model-checked.* Liveness (`EveryLoaderFinishes`, `OptimizerEnds`,
`AlwaysReports`) is out of the prover's reach. `MovesSound`, `BorrowsSound`,
`ExactOnOnePath`, `Preserves`, `TempsDefinedOnce`, `ReadsAsWritten`, `HashesTellApart` and
the loader's properties are about recursive walks over trees, and would need an
induction over data that the provers cannot instantiate; their modules use recursive
operators. So are the programs of `OwnedLocals` (what lowering emits is a fold over
frames).

## 7. Not modelled

The components with status `not_modelled` in `PROJECT.json` are: the Linux and WASI
backends and the bridge to them (thin wrappers, but for processes, which are in the
plan), the sandbox (no step interleaves with another), the type checker (of which
`IncrementalBuild` takes what makes a statement fit, its leaking scopes included), the command line, the protocol's
codec and the diagnostics (pure functions of bytes or text, with tests). Of the parts
that are modelled, section 3 says what is left out.
