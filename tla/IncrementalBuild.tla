--------------------------- MODULE IncrementalBuild --------------------------
(***************************************************************************)
(* Builds of one source file, one after the other, with an edit or a crash *)
(* in between (src/avens/build_pipeline.rs), and the results they take     *)
(* from earlier builds: the build entry of the profile, the analysis of    *)
(* the same text, statement by statement, the latest analysis              *)
(* (src/avens/reuse.rs, src/incremental/analysis.rs), and the code of a    *)
(* program with the same functions (src/compiler/mir/mod.rs).              *)
(*                                                                         *)
(* A statement is what it declares and what it needs, by name, each with a *)
(* signature; the variables it reads and those it binds, each with a type; *)
(* and the names it mentions.  Analysis accepts a statement if all it      *)
(* needs is declared with the signature it expects and the variables it    *)
(* reads are in scope with theirs, and resolves some: it writes types into *)
(* them.  The hash of a statement covers those types, and its line.  A     *)
(* function that calls another is resolved; the implementation of a skill, *)
(* which needs that skill, and a skill, which mentions its methods, stay   *)
(* as they were written.  Every let states the type of its variable.       *)
(***************************************************************************)
EXTENDS Integers, FiniteSets, SequencesExt

CONSTANTS
  Statements, \* what the file may hold
  Sources,    \* texts of the file: sequences of statements
  Profiles,   \* build profiles, "test" for mire test
  Output,     \* the path of the binary, for each profile
  OptLevel,   \* and the level of optimization
  Tests,      \* the names of test functions
  Declarations, \* statements without code of their own: types, skills, external functions
  MaxEdits, MaxBuilds   \* bounds

ASSUME BuildAssumption ==
  /\ Output \in [Profiles -> STRING]
  /\ Sources \subseteq Seq(Statements)
  /\ MaxEdits \in Nat /\ MaxBuilds \in Nat

\* Statements as they are parsed, with no types resolved yet.
ASSUME StatementAssumption ==
  \A s \in Statements :
    /\ s = [key |-> s.key, gives |-> s.gives, wants |-> s.wants, reads |-> s.reads,
            binds |-> s.binds, variable |-> s.variable, mentions |-> s.mentions,
            container |-> s.container, ignored |-> s.ignored, resolves |-> s.resolves,
            typed |-> s.typed]
    /\ {s.variable, s.container, s.ignored, s.resolves} \subseteq BOOLEAN /\ s.typed = FALSE

VARIABLES
  source,     \* the text of the file
  binaries,   \* path -> what is there: its text, its profile, and whether the
              \* build that wrote it has recorded it, or None
  builds,     \* BuildCacheEntry: profile -> what it stands for, or None
  analyses,   \* text -> outcome of its analysis
  latest,     \* outcome of the latest analysis that was saved, None
  codes,      \* MirMeta: key -> the program whose code is kept
  run,        \* the build in progress
  queue,      \* compute_invalidation_report: units whose dependents are to be looked up
  invalidated,\* and those whose dependents have been
  edits, count
vars ==
  <<source, binaries, builds, analyses, latest, codes, run, queue, invalidated, edits, count>>

None == [text |-> <<>>, profile |-> "none", recorded |-> FALSE]
NoOutcome == [ok |-> FALSE, program |-> <<>>, error |-> <<"none">>]
Idle == [phase |-> "idle", profile |-> "none", outcome |-> NoOutcome, store |-> FALSE,
         code |-> <<>>]

\* What a statement declares.
Names(s) == DOMAIN s.gives

----------------------------------------------------------------------------
\* Analysis units: a statement, and each of its methods.

Unit(key, content, deps) == [key |-> key, content |-> content, deps |-> deps]

\* The hash of a statement covers the line it starts at; the text is short
\* enough for its position to stand for the line.
Hashed(p, i) == <<p[i], i>>

\* The names that a statement mentions.
Dependencies(s) == {<<n>> : n \in s.mentions}

UnitsOf(p, i) ==
  LET key == p[i].key IN
      {Unit(<<key>>, Hashed(p, i), Dependencies(p[i]))} \cup
      IF ~p[i].container THEN {}
      ELSE {Unit(<<key, n>>, <<n, p[i].gives[n]>>, {<<key>>}) : n \in Names(p[i])}

Units(p) == UNION {UnitsOf(p, i) : i \in DOMAIN p}

\* Collected into a map: of two units with one key, the last remains.
ByKey(p) ==
  LET LastOf(k) == Max({i \in DOMAIN p : \E u \in UnitsOf(p, i) : u.key = k}) IN
    [k \in {u.key : u \in Units(p)} |-> CHOOSE u \in UnitsOf(p, LastOf(k)) : u.key = k]

Mut_Altered(old, new) ==
  {k \in DOMAIN new : k \notin DOMAIN old \/ old[k].deps # new[k].deps}
    \cup (DOMAIN old \ DOMAIN new)
Altered(old, new) ==
  {k \in DOMAIN new : k \notin DOMAIN old \/ old[k] # new[k]} \cup (DOMAIN old \ DOMAIN new)

\* The names under which dependents may know a unit: its key, and a method's name.
Mut_KnownAs(k) == {k}
KnownAs(k) == {k} \cup (IF Len(k) = 2 THEN {<<k[2]>>} ELSE {})

\* reverse_dependencies, for all the names of a unit
Dependents(p, k) == {u.key : u \in {v \in Units(p) : v.deps \cap KnownAs(k) # {}}}

----------------------------------------------------------------------------
Full(p) == [i \in DOMAIN p |-> TRUE]

\* prepare_program_with_partial_analysis_reuse.  A container that is checked is
\* checked whole: every method depends on it.
Reuse(p, old) ==
  LET Earlier(i) == {j \in DOMAIN old : old[j].key = p[i].key}
      kept == {i \in DOMAIN p : <<p[i].key>> \notin invalidated /\ Earlier(i) # {}}
  IN  IF invalidated = {} THEN [program |-> old, mask |-> [i \in DOMAIN old |-> FALSE]]
      ELSE [program |-> [i \in DOMAIN p |-> IF i \in kept THEN old[Max(Earlier(i))] ELSE p[i]],
            mask |-> [i \in DOMAIN p |-> i \notin kept]]

\* Which statements have bound a variable when statement i is checked; the last of them
\* says its type.  pop_scope leaves the variables of a function, and of every block, to
\* the statements after it; what is not checked binds nothing, but for the variables at
\* the top level (collect_global_bindings), which are there before anything is checked.
Binders(p, mask, i, n) ==
  LET all == {j \in DOMAIN p : n \in DOMAIN p[j].binds}
      checked == {j \in all : mask[j] /\ j < i}
  IN  IF checked # {} THEN checked ELSE {j \in all : ~mask[j] /\ p[j].variable}

\* Declarations are collected from the whole program, variables as it is gone through.
Fits(p, mask, i) ==
  /\ \A n \in DOMAIN p[i].wants :
       \E j \in DOMAIN p : n \in Names(p[j]) /\ p[j].gives[n] = p[i].wants[n]
  /\ \A n \in DOMAIN p[i].reads :
       LET binders == Binders(p, mask, i, n) IN
         binders # {} /\ p[Max(binders)].binds[n] = p[i].reads[n]

\* The selected statements, in their order; the first error ends the analysis.
Analyze(p, mask) ==
  LET bad == {i \in DOMAIN p : mask[i] /\ ~Fits(p, mask, i)} IN
    IF bad = {}
    THEN [ok |-> TRUE, error |-> <<"none">>,
          program |-> [i \in DOMAIN p |->
                        IF mask[i] THEN [p[i] EXCEPT !.typed = p[i].resolves] ELSE p[i]]]
    ELSE [ok |-> FALSE, program |-> <<>>, error |-> <<p[Min(bad)].key>>]

\* neutralise_ignored_tests
Neutralised(p) ==
  [i \in DOMAIN p |->
    IF p[i].ignored
    THEN [p[i] EXCEPT !.wants = <<>>, !.reads = <<>>, !.binds = <<>>, !.mentions = {},
                      !.resolves = FALSE]
    ELSE p[i]]

\* What the build loads.
Loaded(profile) == IF profile = "test" THEN Neutralised(source) ELSE source

\* The program of the tests: in the place of main, one call of each test that is not ignored.
Runner(tests) ==
  [key |-> "main", calls |-> [i \in DOMAIN tests |-> <<tests[i].key, ~tests[i].ignored>>]]

\* inject_test_harness: what code is generated for; its analysis has been stored by then.
Compiled(p, profile) ==
  LET tests == SelectSeq(p, LAMBDA s : s.key \in Tests) IN
    IF profile # "test" \/ tests = <<>> THEN p
    ELSE Append(SelectSeq(p, LAMBDA s : s.key # "main"), Runner(tests))

\* lower_program: functions are what has code; compute_hash covers each of them,
\* but nothing of a declaration, nor where anything stands.
Functions(p) == SelectSeq(p, LAMBDA s : s \notin Declarations)

\* mir_cache_key, for one source file
Mut_MirKey(p, level) == <<level, [i \in DOMAIN Functions(p) |-> Functions(p)[i].key]>>
MirKey(p, level) == <<level, Functions(p)>>

----------------------------------------------------------------------------
Init ==
  /\ source \in Sources
  /\ binaries = [path \in {Output[p] : p \in Profiles} |-> None]
  /\ builds = [p \in Profiles |-> None]
  /\ analyses = <<>> /\ latest = NoOutcome /\ codes = <<>>
  /\ run = Idle /\ queue = {} /\ invalidated = {} /\ edits = 0 /\ count = 0

Edit(text) ==
  /\ run = Idle /\ edits < MaxEdits /\ text # source
  /\ source' = text /\ edits' = edits + 1
  /\ UNCHANGED <<binaries, builds, analyses, latest, codes, run, queue, invalidated, count>>

\* The build entry is used if its fingerprint is that of the files and the
\* binary is there.
Mut_Hit(p) == builds[p] # None /\ binaries[Output[p]] # None
Hit(p) == builds[p] # None /\ builds[p].text = source /\ binaries[Output[p]] # None

Start(p) ==
  /\ run = Idle /\ count < MaxBuilds
  /\ run' = [Idle EXCEPT !.phase = IF Hit(p) THEN "hit" ELSE "miss", !.profile = p]
  /\ count' = count + 1
  /\ UNCHANGED <<source, binaries, builds, analyses, latest, codes, queue, invalidated, edits>>

\* store_analysis logs an outcome under its own key at once; an error is also
\* saved, and ends the build.
Analysed(outcome, new) ==
  /\ run' = [run EXCEPT !.phase = IF outcome.ok THEN "analysed" ELSE "done",
                        !.outcome = outcome, !.store = new]
  /\ analyses' = [text \in {source} \cup DOMAIN analyses |->
                    IF text = source THEN outcome ELSE analyses[text]]
  /\ latest' = IF new /\ ~outcome.ok THEN outcome ELSE latest

\* The analysis of this text, or one from nothing if the latest was no success.
Analyse ==
  /\ run.phase = "miss"
  /\ \/ source \in DOMAIN analyses /\ Analysed(analyses[source], FALSE)
     \/ /\ source \notin DOMAIN analyses /\ ~latest.ok
        /\ Analysed(Analyze(Loaded(run.profile), Full(source)), TRUE)
  /\ UNCHANGED <<source, binaries, builds, codes, queue, invalidated, edits, count>>

\* Or one that starts from the latest: first the units that differ from it, ...
Compare ==
  /\ run.phase = "miss" /\ source \notin DOMAIN analyses /\ latest.ok
  /\ run' = [run EXCEPT !.phase = "compare"]
  /\ queue' = Altered(ByKey(latest.program), ByKey(Loaded(run.profile)))
  /\ UNCHANGED <<source, binaries, builds, analyses, latest, codes, invalidated, edits, count>>

\* ... then, one after the other in no order, what depends on them: a unit that is
\* invalidated or queued is not queued again; ...
Invalidate(k) ==
  /\ run.phase = "compare" /\ k \in queue
  /\ invalidated' = invalidated \cup {k}
  /\ queue' = (queue \ {k}) \cup (Dependents(Loaded(run.profile), k) \ (invalidated \cup queue))
  /\ UNCHANGED <<source, binaries, builds, analyses, latest, codes, run, edits, count>>

\* ... then the statements that are left.
Recheck ==
  /\ run.phase = "compare" /\ queue = {}
  /\ LET r == Reuse(Loaded(run.profile), latest.program) IN Analysed(Analyze(r.program, r.mask), TRUE)
  /\ invalidated' = {}
  /\ UNCHANGED <<source, binaries, builds, codes, queue, edits, count>>

\* get_cached_mir_fn, or the code of the program itself
CodeUnder(key, program) == IF key \in DOMAIN codes THEN codes[key] ELSE program

\* store_cached_mir_fn: logged at once, so that a build which fails later leaves it behind.
KeepCode(key, code) ==
  codes' = [k \in {key} \cup DOMAIN codes |-> IF k = key THEN code ELSE codes[k]]

Generate ==
  /\ run.phase = "analysed"
  /\ LET program == Compiled(run.outcome.program, run.profile)
         key == MirKey(program, OptLevel[run.profile])
         code == CodeUnder(key, program)
     IN  /\ KeepCode(key, code)
         /\ run' = [run EXCEPT !.phase = "generated", !.code = code]
  /\ UNCHANGED <<source, binaries, builds, analyses, latest, queue, invalidated, edits, count>>

\* compile_binary_from_ir
Link ==
  /\ run.phase = "generated"
  /\ binaries' = [binaries EXCEPT ![Output[run.profile]] =
                    [text |-> source, profile |-> run.profile, recorded |-> FALSE]]
  /\ run' = [run EXCEPT !.phase = "linked"]
  /\ UNCHANGED <<source, builds, analyses, latest, codes, queue, invalidated, edits, count>>

StoreBuild ==
  /\ run.phase = "linked"
  /\ binaries' = [binaries EXCEPT ![Output[run.profile]].recorded = TRUE]
  /\ builds' = [builds EXCEPT ![run.profile] = binaries'[Output[run.profile]]]
  /\ run' = [run EXCEPT !.phase = "stored"]
  /\ UNCHANGED <<source, analyses, latest, codes, queue, invalidated, edits, count>>

\* save: only here the latest analysis reaches the disk.
Save ==
  /\ run.phase = "stored"
  /\ latest' = IF run.store THEN run.outcome ELSE latest
  /\ run' = [run EXCEPT !.phase = "done"]
  /\ UNCHANGED <<source, binaries, builds, analyses, codes, queue, invalidated, edits, count>>

Return ==
  /\ run.phase \in {"hit", "done"}
  /\ run' = Idle
  /\ UNCHANGED <<source, binaries, builds, analyses, latest, codes, queue, invalidated, edits, count>>

\* An error of code generation or of the linker, or the end of the process.
Stop ==
  /\ run.phase \in {"miss", "compare", "analysed", "generated", "linked", "stored"}
  /\ run' = Idle /\ queue' = {} /\ invalidated' = {}
  /\ UNCHANGED <<source, binaries, builds, analyses, latest, codes, edits, count>>

Next ==
  \/ \E text \in Sources : Edit(text)
  \/ \E p \in Profiles : Start(p)
  \/ Analyse \/ Compare \/ (\E k \in queue : Invalidate(k)) \/ Recheck
  \/ Generate \/ Link \/ StoreBuild \/ Save \/ Return \/ Stop

Spec == Init /\ [][Next]_vars

----------------------------------------------------------------------------
DistinctKeys(p) == \A i, j \in DOMAIN p : p[i].key = p[j].key => i = j
NothingIgnored(p) == \A i \in DOMAIN p : ~p[i].ignored

\* What the invalidation relies on, and does not see to.  A declaration stands under its
\* name: a private skill, let or external function stands under the text of the whole
\* statement (statement_export_name), so that what depends on it is not found by its name.
KeyedByName(p) == \A i \in DOMAIN p : p[i].container \/ Names(p[i]) \subseteq {p[i].key}

\* A statement depends on what it needs: collect_statement_dependencies takes neither the
\* return type of a function nor the type of a let.
DependsOnNeeds(p) ==
  \A i \in DOMAIN p : DOMAIN p[i].wants \cup DOMAIN p[i].reads \subseteq p[i].mentions

\* And what it reads is bound by a let of that key at the top level, before it: nothing
\* else binds a variable both in an analysis of everything and in one of a part.
ReadsGlobals(p) ==
  \A i, j \in DOMAIN p : \A n \in DOMAIN p[i].reads \cap DOMAIN p[j].binds :
    p[j].variable /\ p[j].key = n /\ j < i

Tracked(p) == DistinctKeys(p) /\ KeyedByName(p) /\ DependsOnNeeds(p) /\ ReadsGlobals(p)
AllTracked == \A text \in {source} \cup DOMAIN analyses : Tracked(text)

\* A build that starts from what earlier builds have left finds the errors, and
\* compiles the program, that a build from nothing would, whatever was edited,
\* built or interrupted before, if every text so far was Tracked: reuse of analyses is
\* not transparent without.  mire test changes an ignored test before its analysis is
\* stored: that is not covered either.
AnalysisTransparent ==
  /\ run.phase \in {"analysed", "generated", "linked", "stored", "done"}
  /\ AllTracked /\ NothingIgnored(source)
  => run.outcome = Analyze(source, Full(source))

\* And the code it links, its own or kept from another build, is that of the functions
\* of this program, in a test build with the runner for its main.  Kept code may declare
\* what another program declared: declarations have no part in the key.
CodeTransparent ==
  /\ run.phase \in {"generated", "linked", "stored"}
  /\ AllTracked /\ NothingIgnored(source)
  => Functions(run.code) =
       Functions(Compiled(Analyze(source, Full(source)).program, run.profile))

\* A build from what others have left does the same as one from nothing.
BuildTransparent == AnalysisTransparent /\ CodeTransparent

\* A build that is served from its entry hands out a binary of the current text,
\* if the last build to write that file was of the same profile and has come to
\* record it.
HitIsFresh ==
  LET binary == binaries[Output[run.profile]] IN
    run.phase = "hit" /\ binary.profile = run.profile /\ binary.recorded
    => binary.text = source

\* When the queue is empty, what is invalidated is exactly what depends on a
\* change, in whatever order the queue was emptied: the least set that holds the
\* altered units and every unit with a dependency on a member, by its key or by the
\* last part of it.
InvalidationIsClosure ==
  run.phase = "compare" /\ queue = {} =>
    LET old == ByKey(latest.program)
        new == ByKey(Loaded(run.profile))
        keys == DOMAIN old \cup DOMAIN new
        altered == {k \in keys : k \notin DOMAIN old \/ k \notin DOMAIN new \/ old[k] # new[k]}
        Closed(S) == \A u \in Units(Loaded(run.profile)) : \A k \in S :
          (\E d \in u.deps : d = k \/ (Len(k) = 2 /\ d = <<Last(k)>>)) => u.key \in S
    IN  invalidated =
          {k \in keys : \A S \in SUBSET keys : altered \subseteq S /\ Closed(S) => k \in S}
=============================================================================
