----------------------- MODULE IncrementalBuildProofs -----------------------
(***************************************************************************)
(* Proofs about IncrementalBuild: the worklist ends with exactly what      *)
(* depends on a change; a build that is served from its entry serves the   *)
(* current text; and an analysis that starts from the latest one ends as   *)
(* one from nothing.                                                       *)
(***************************************************************************)
EXTENDS IncrementalBuild, TLAPS

Phases == {"idle", "hit", "miss", "compare", "analysed", "generated", "linked", "stored", "done"}

Paths == {Output[p] : p \in Profiles}
Binary == [text : Sources \cup {<<>>}, profile : Profiles \cup {"none"}, recorded : BOOLEAN]

\* What is built, and what the runs have left on the disk.
TypeInv ==
  /\ source \in Sources
  /\ run \in [phase : Phases, profile : Profiles \cup {"none"}, outcome : {run.outcome},
              store : BOOLEAN, code : {run.code}]
  /\ run.phase # "idle" => run.profile \in Profiles
  /\ binaries \in [Paths -> Binary]
  /\ builds \in [Profiles -> Binary]

----------------------------------------------------------------------------
(* The entry of a profile stands for the binary which that profile has     *)
(* written and recorded, for as long as no other build writes the file.    *)

EntryVouches ==
  \A p \in Profiles :
    LET binary == binaries[Output[p]] IN
      builds[p] # None /\ binary.profile = p /\ binary.recorded => builds[p].text = binary.text

HitMatches == run.phase = "hit" => Hit(run.profile)

\* Until it is recorded, what this run has written is still what is there.
LinkedIsThere ==
  run.phase = "linked" =>
    binaries[Output[run.profile]] = [text |-> source, profile |-> run.profile, recorded |-> FALSE]

FreshInv == TypeInv /\ EntryVouches /\ HitMatches /\ LinkedIsThere

LEMMA FreshInit == Init => FreshInv
<1> SUFFICES ASSUME Init PROVE FreshInv
  OBVIOUS
<1>1. run = Idle
  BY DEF Init
<1>2. TypeInv
  BY <1>1 DEF Init, TypeInv, Idle, Phases, None, Paths, Binary
<1>3. EntryVouches
  BY DEF Init, EntryVouches
<1>4. HitMatches
  BY <1>1 DEF HitMatches, Idle
<1>5. LinkedIsThere
  BY <1>1 DEF LinkedIsThere, Idle
<1> QED BY <1>2, <1>3, <1>4, <1>5 DEF FreshInv

LEMMA TypeNext == TypeInv /\ [Next]_vars => TypeInv'
<1> SUFFICES ASSUME TypeInv, [Next]_vars PROVE TypeInv'
  OBVIOUS
<1> USE DEF TypeInv, Phases
<1>1. CASE \E text \in Sources : Edit(text)
  BY <1>1 DEF Edit
<1>2. CASE \E p \in Profiles : Start(p)
  BY <1>2 DEF Start, Idle
<1>3. ASSUME NEW outcome, NEW new \in BOOLEAN, run.phase # "idle", Analysed(outcome, new),
             UNCHANGED <<source, binaries, builds>>
      PROVE  TypeInv'
  <2> DEFINE phase == IF outcome.ok THEN "analysed" ELSE "done"
  <2>1. run' = [run EXCEPT !.phase = phase, !.outcome = outcome, !.store = new]
    BY <1>3 DEF Analysed
  <2>2. phase \in Phases /\ phase # "idle"
    OBVIOUS
  <2> HIDE DEF phase
  <2>3. /\ run' = [phase |-> phase, profile |-> run.profile, outcome |-> outcome, store |-> new,
                   code |-> run.code]
        /\ run'.outcome = outcome /\ run'.code = run.code
    BY <2>1
  <2> QED BY <1>3, <2>2, <2>3
<1>4. CASE Analyse
  BY <1>3, <1>4 DEF Analyse
<1>5. CASE Compare
  BY <1>5 DEF Compare
<1>6. CASE \E k \in queue : Invalidate(k)
  BY <1>6 DEF Invalidate
<1>7. CASE Recheck
  BY <1>3, <1>7 DEF Recheck
<1>8. CASE Link
  <2>1. Output[run.profile] \in Paths /\ run.profile \in Profiles
    BY <1>8 DEF Link, Paths
  <2>2. [text |-> source, profile |-> run.profile, recorded |-> FALSE] \in Binary
    BY <2>1 DEF Binary
  <2>3. binaries' \in [Paths -> Binary]
    BY <1>8, <2>1, <2>2 DEF Link
  <2> QED BY <1>8, <2>3 DEF Link
<1>9. CASE StoreBuild
  <2>1. Output[run.profile] \in Paths /\ run.profile \in Profiles
    BY <1>9 DEF StoreBuild, Paths
  <2>2. [binaries[Output[run.profile]] EXCEPT !.recorded = TRUE] \in Binary
    <3> DEFINE binary == binaries[Output[run.profile]]
    <3>1. binary \in Binary
      BY <2>1
    <3> HIDE DEF binary
    <3>2. \A v \in BOOLEAN : [binary EXCEPT !.recorded = v] \in Binary
      BY <3>1 DEF Binary
    <3> QED BY <3>2 DEF binary
  <2>3. binaries' \in [Paths -> Binary]
    BY <1>9, <2>1, <2>2 DEF StoreBuild
  <2>4. builds' \in [Profiles -> Binary]
    BY <1>9, <2>1, <2>3 DEF StoreBuild
  <2> QED BY <1>9, <2>3, <2>4 DEF StoreBuild
<1>10. CASE Save
  BY <1>10 DEF Save
<1>11. CASE Return
  BY <1>11 DEF Return, Idle
<1>12. CASE Stop
  BY <1>12 DEF Stop, Idle
<1>13. CASE UNCHANGED vars
  BY <1>13 DEF vars
<1>14. CASE Generate
  <2>1. PICK code : run' = [run EXCEPT !.phase = "generated", !.code = code]
    BY <1>14 DEF Generate
  <2>2. /\ run' = [phase |-> "generated", profile |-> run.profile, outcome |-> run.outcome,
                   store |-> run.store, code |-> code]
        /\ run'.outcome = run.outcome /\ run'.code = code
    BY <2>1
  <2> QED BY <1>14, <2>2 DEF Generate
<1> QED BY <1>1, <1>2, <1>4, <1>5, <1>6, <1>7, <1>8, <1>9, <1>10, <1>11, <1>12, <1>13, <1>14 DEF Next

LEMMA GenerateRuns ==
  ASSUME TypeInv, Generate
  PROVE  /\ run.phase = "analysed" /\ run'.phase = "generated"
         /\ run'.profile = run.profile /\ run'.outcome = run.outcome
         /\ UNCHANGED <<source, binaries, builds, analyses, latest, queue, invalidated>>
<1>1. PICK code : run' = [run EXCEPT !.phase = "generated", !.code = code]
  BY DEF Generate
<1> QED BY <1>1 DEF Generate, TypeInv

LEMMA FreshNext == FreshInv /\ [Next]_vars => FreshInv'
<1> SUFFICES ASSUME FreshInv, [Next]_vars PROVE FreshInv'
  OBVIOUS
<1>1. TypeInv /\ TypeInv'
  BY TypeNext DEF FreshInv
<1>2. CASE UNCHANGED <<binaries, builds, source>> /\ ~Link /\ ~StoreBuild
  <2>1. EntryVouches'
    BY <1>2 DEF FreshInv, EntryVouches
  <2>2. CASE \E p \in Profiles : Start(p)
    <3> PICK p \in Profiles : Start(p)
      BY <2>2
    <3>1. run' = [Idle EXCEPT !.phase = IF Hit(p) THEN "hit" ELSE "miss", !.profile = p]
      BY DEF Start
    <3>2. run'.phase = "hit" => Hit(p) /\ run'.profile = p
      BY <3>1 DEF Idle
    <3>3. run'.phase # "linked"
      BY <3>1 DEF Idle
    <3> QED BY <1>1, <1>2, <2>1, <3>2, <3>3 DEF FreshInv, HitMatches, LinkedIsThere, Hit
  <2>3. CASE ~\E p \in Profiles : Start(p)
    <3>1. run'.phase \in {"hit", "linked"} => run' = run
      <4>1. CASE Analyse \/ Recheck
        <5>1. PICK outcome, new : Analysed(outcome, new)
          BY <4>1 DEF Analyse, Recheck
        <5>2. run' = [run EXCEPT !.phase = IF outcome.ok THEN "analysed" ELSE "done",
                                 !.outcome = outcome, !.store = new]
          BY <5>1 DEF Analysed
        <5>3. run'.phase \in {"analysed", "done"}
          BY <1>1, <5>2 DEF TypeInv
        <5> QED BY <5>3
      <4>2. CASE Compare \/ Generate \/ Save \/ Return \/ Stop
        BY <1>1, <4>2, GenerateRuns DEF TypeInv, Compare, Save, Return, Stop, Idle
      <4>3. CASE UNCHANGED run
        BY <4>3
      <4>4. (\E text \in Sources : Edit(text)) \/ (\E k \in queue : Invalidate(k)) => UNCHANGED run
        BY DEF Edit, Invalidate
      <4> QED BY <1>2, <2>3, <4>1, <4>2, <4>3, <4>4 DEF Next, vars
    <3>2. HitMatches'
      BY <1>2, <3>1 DEF FreshInv, HitMatches, Hit
    <3>3. LinkedIsThere'
      BY <1>2, <3>1 DEF FreshInv, LinkedIsThere
    <3> QED BY <1>1, <2>1, <3>2, <3>3 DEF FreshInv
  <2> QED BY <2>2, <2>3
<1>3. CASE \E text \in Sources : Edit(text)
  BY <1>1, <1>3 DEF FreshInv, EntryVouches, HitMatches, LinkedIsThere, Edit, Idle
<1>4. CASE Link
  <2> DEFINE path == Output[run.profile]
             written == [text |-> source, profile |-> run.profile, recorded |-> FALSE]
  <2>1. /\ binaries' = [binaries EXCEPT ![path] = written]
        /\ UNCHANGED builds
        /\ run'.phase = "linked"
    BY <1>1, <1>4 DEF Link, TypeInv
  <2>2. ASSUME NEW p \in Profiles, builds[p] # None, binaries'[Output[p]].profile = p,
               binaries'[Output[p]].recorded
        PROVE  builds[p].text = binaries'[Output[p]].text
    <3>1. Output[p] \in Paths
      BY DEF Paths
    <3>2. CASE Output[p] = path
      <4>1. binaries'[Output[p]] = written
        BY <1>1, <2>1, <3>1, <3>2 DEF TypeInv
      <4>2. written.recorded = FALSE
        OBVIOUS
      <4> QED BY <2>2, <4>1, <4>2
    <3>3. CASE Output[p] # path
      <4>1. binaries'[Output[p]] = binaries[Output[p]]
        BY <1>1, <2>1, <3>1, <3>3 DEF TypeInv
      <4> QED BY <2>2, <4>1 DEF FreshInv, EntryVouches
    <3> QED BY <3>2, <3>3
  <2>3. EntryVouches'
    BY <2>1, <2>2 DEF EntryVouches
  <2>4. LinkedIsThere'
    <3>1. path \in Paths /\ UNCHANGED source /\ run'.profile = run.profile
      BY <1>1, <1>4 DEF Link, TypeInv, Paths
    <3> QED BY <1>1, <2>1, <3>1 DEF LinkedIsThere, TypeInv
  <2> QED BY <1>1, <2>1, <2>3, <2>4 DEF FreshInv, HitMatches
<1>5. CASE StoreBuild
  <2> DEFINE path == Output[run.profile]
  <2>1. /\ binaries' = [binaries EXCEPT ![path].recorded = TRUE]
        /\ builds' = [builds EXCEPT ![run.profile] = binaries'[path]]
        /\ run'.phase = "stored"
        /\ run.profile \in Profiles /\ path \in Paths
        /\ binaries[path].profile = run.profile
    BY <1>1, <1>5 DEF StoreBuild, TypeInv, FreshInv, LinkedIsThere, Paths
  <2>2. ASSUME NEW p \in Profiles, builds'[p] # None, binaries'[Output[p]].profile = p,
               binaries'[Output[p]].recorded
        PROVE  builds'[p].text = binaries'[Output[p]].text
    <3>1. Output[p] \in Paths
      BY DEF Paths
    <3>2. CASE p = run.profile
      BY <1>1, <2>1, <3>2 DEF TypeInv
    <3>3. CASE p # run.profile
      <4>1. builds'[p] = builds[p]
        BY <1>1, <2>1, <3>3 DEF TypeInv
      <4>2. CASE Output[p] # path
        BY <1>1, <2>1, <2>2, <3>1, <4>1, <4>2 DEF TypeInv, FreshInv, EntryVouches
      <4>3. CASE Output[p] = path
        <5>1. binaries'[path].profile = run.profile
          BY <1>1, <2>1 DEF TypeInv, Binary
        <5> QED BY <2>2, <3>3, <4>3, <5>1
      <4> QED BY <4>2, <4>3
    <3> QED BY <3>2, <3>3
  <2>3. EntryVouches'
    BY <2>2 DEF EntryVouches
  <2> QED BY <1>1, <2>1, <2>3 DEF FreshInv, HitMatches, LinkedIsThere
<1>6. ~UNCHANGED <<binaries, builds, source>> /\ Next =>
        (\E text \in Sources : Edit(text)) \/ Link \/ StoreBuild
  BY DEF Next, Start, Analyse, Analysed, Compare, Invalidate, Recheck, Generate,
    Save, Return, Stop
<1> QED BY <1>2, <1>3, <1>4, <1>5, <1>6 DEF vars

LEMMA Freshness == Spec => []FreshInv
<1> QED BY FreshInit, FreshNext, PTL DEF Spec

\* A build served from its entry hands out a binary of the current text, if the
\* last build to write that file was of the same profile and has recorded it:
\* in build_with_options, only a build of the profile that wrote the file vouches
\* for it, and any build that overwrites the file takes the voucher with it.
THEOREM HitsAreFresh == Spec => []HitIsFresh
<1>1. FreshInv => HitIsFresh
  <2> SUFFICES ASSUME FreshInv, run.phase = "hit",
                      binaries[Output[run.profile]].profile = run.profile,
                      binaries[Output[run.profile]].recorded
               PROVE  binaries[Output[run.profile]].text = source
    BY DEF HitIsFresh
  <2>1. run.profile \in Profiles
    BY DEF FreshInv, TypeInv
  <2>2. builds[run.profile] # None /\ builds[run.profile].text = source
    BY DEF FreshInv, HitMatches, Hit
  <2> QED BY <2>1, <2>2 DEF FreshInv, EntryVouches
<1> QED BY <1>1, Freshness, PTL

----------------------------------------------------------------------------
(* The worklist: what is queued or invalidated holds every change, and     *)
(* what depends on an invalidated unit, and nothing that some set with     *)
(* these two properties does not hold.                                     *)

Keys(old, new) == DOMAIN ByKey(old) \cup DOMAIN ByKey(new)
Change(old, new) == Altered(ByKey(old), ByKey(new))

Worklist(old, new, todo, done) ==
  /\ todo \cup done \subseteq Keys(old, new)
  /\ Change(old, new) \subseteq todo \cup done
  /\ \A k \in done : Dependents(new, k) \subseteq todo \cup done
  /\ \A S \in SUBSET Keys(old, new) :
       Change(old, new) \subseteq S /\ (\A k \in S : Dependents(new, k) \subseteq S)
       => todo \cup done \subseteq S

WorklistInv ==
  IF run.phase = "compare"
  THEN Worklist(latest.program, Loaded(run.profile), queue, invalidated)
  ELSE queue = {} /\ invalidated = {}

LEMMA DependentsAreKeys ==
  ASSUME NEW old, NEW new, NEW k
  PROVE  Dependents(new, k) \subseteq Keys(old, new)
<1>1. DOMAIN ByKey(new) = {u.key : u \in Units(new)}
  BY DEF ByKey
<1> QED BY <1>1 DEF Dependents, Keys

LEMMA WorklistStart ==
  ASSUME NEW old, NEW new
  PROVE  Worklist(old, new, Change(old, new), {})
<1>1. Change(old, new) \subseteq Keys(old, new)
  BY DEF Change, Keys, Altered
<1> QED BY <1>1 DEF Worklist

LEMMA WorklistStep ==
  ASSUME NEW old, NEW new, NEW todo, NEW done, NEW k \in todo, Worklist(old, new, todo, done)
  PROVE  Worklist(old, new, (todo \ {k}) \cup (Dependents(new, k) \ (done \cup todo)), done \cup {k})
<1> DEFINE todo1 == (todo \ {k}) \cup (Dependents(new, k) \ (done \cup todo))
           done1 == done \cup {k}
<1>1. todo1 \cup done1 = (todo \cup done) \cup Dependents(new, k)
  OBVIOUS
<1>2. todo1 \cup done1 \subseteq Keys(old, new)
  BY <1>1, DependentsAreKeys DEF Worklist
<1>3. Change(old, new) \subseteq todo1 \cup done1
  BY <1>1 DEF Worklist
<1>4. ASSUME NEW j \in done1 PROVE Dependents(new, j) \subseteq todo1 \cup done1
  BY <1>1 DEF Worklist
<1>5. ASSUME NEW S \in SUBSET Keys(old, new), Change(old, new) \subseteq S,
             \A j \in S : Dependents(new, j) \subseteq S
      PROVE  todo1 \cup done1 \subseteq S
  BY <1>1, <1>5 DEF Worklist
<1> HIDE DEF todo1, done1
<1>6. Worklist(old, new, todo1, done1)
  BY <1>2, <1>3, <1>4, <1>5 DEF Worklist
<1> QED BY <1>6 DEF todo1, done1

LEMMA WorklistInit == Init => WorklistInv
<1> QED BY DEF Init, WorklistInv, Idle

LEMMA WorklistNext == TypeInv /\ WorklistInv /\ [Next]_vars => WorklistInv'
<1> SUFFICES ASSUME TypeInv, WorklistInv, [Next]_vars PROVE WorklistInv'
  OBVIOUS
<1>1. ASSUME UNCHANGED <<run, latest, source, queue, invalidated>> PROVE WorklistInv'
  BY <1>1 DEF WorklistInv, Loaded
<1>2. ASSUME run'.phase # "compare", queue' = {}, invalidated' = {} PROVE WorklistInv'
  BY <1>2 DEF WorklistInv
<1>3. CASE \E text \in Sources : Edit(text)
  <2>1. run.phase # "compare" /\ UNCHANGED <<run, queue, invalidated>>
    BY <1>3 DEF Edit, Idle
  <2> QED BY <2>1 DEF WorklistInv
<1>4. CASE \E p \in Profiles : Start(p)
  <2>1. run.phase # "compare" /\ run'.phase # "compare" /\ UNCHANGED <<queue, invalidated>>
    BY <1>4 DEF Start, Idle
  <2> QED BY <1>2, <2>1 DEF WorklistInv
<1>5. ASSUME NEW outcome, NEW new, Analysed(outcome, new) PROVE run'.phase # "compare"
  <2>1. run' = [run EXCEPT !.phase = IF outcome.ok THEN "analysed" ELSE "done",
                           !.outcome = outcome, !.store = new]
    BY <1>5 DEF Analysed
  <2> QED BY <2>1 DEF TypeInv
<1>6. CASE Analyse
  <2>1. run'.phase # "compare"
    BY <1>5, <1>6 DEF Analyse
  <2>2. run.phase # "compare" /\ UNCHANGED <<queue, invalidated>>
    BY <1>6 DEF Analyse
  <2> QED BY <1>2, <2>1, <2>2 DEF WorklistInv
<1>7. CASE Compare
  <2>1. /\ run' = [run EXCEPT !.phase = "compare"]
        /\ queue' = Change(latest.program, Loaded(run.profile)) /\ invalidated' = {}
        /\ UNCHANGED <<latest, source>>
    BY <1>7 DEF Compare, Change, WorklistInv
  <2>2. run'.phase = "compare" /\ run'.profile = run.profile
    BY <2>1 DEF TypeInv
  <2> QED BY <2>1, <2>2, WorklistStart DEF WorklistInv, Loaded
<1>8. CASE \E k \in queue : Invalidate(k)
  <2> PICK k \in queue : Invalidate(k)
    BY <1>8
  <2> DEFINE new == Loaded(run.profile)
  <2>1. /\ run.phase = "compare"
        /\ invalidated' = invalidated \cup {k}
        /\ queue' = (queue \ {k}) \cup (Dependents(new, k) \ (invalidated \cup queue))
        /\ UNCHANGED <<latest, source, run>>
    BY DEF Invalidate
  <2>2. Worklist(latest.program, new, queue, invalidated)
    BY <2>1 DEF WorklistInv
  <2>3. Worklist(latest.program, new, queue', invalidated')
    BY <2>1, <2>2, WorklistStep
  <2> QED BY <2>1, <2>3 DEF WorklistInv, Loaded
<1>9. CASE Recheck
  <2>1. run'.phase # "compare"
    BY <1>5, <1>9 DEF Recheck
  <2> QED BY <1>2, <1>9, <2>1 DEF Recheck
<1>10. CASE Generate \/ Link \/ StoreBuild \/ Save \/ Return
  <2>1. run.phase # "compare" /\ run'.phase # "compare" /\ UNCHANGED <<queue, invalidated>>
    BY <1>10, GenerateRuns DEF Link, StoreBuild, Save, Return, Idle, TypeInv
  <2> QED BY <1>2, <2>1 DEF WorklistInv
<1>11. CASE Stop
  BY <1>2, <1>11 DEF Stop, Idle
<1>12. CASE UNCHANGED vars
  BY <1>1, <1>12 DEF vars
<1> QED BY <1>3, <1>4, <1>6, <1>7, <1>8, <1>9, <1>10, <1>11, <1>12 DEF Next

LEMMA WorklistIsKept == Spec => [](TypeInv /\ WorklistInv)
<1>1. Init => TypeInv /\ WorklistInv
  BY FreshInit, WorklistInit DEF FreshInv
<1>2. TypeInv /\ WorklistInv /\ [Next]_vars => (TypeInv /\ WorklistInv)'
  BY TypeNext, WorklistNext
<1> QED BY <1>1, <1>2, PTL DEF Spec

\* When the queue is empty, what is invalidated is the least set that holds
\* every altered unit and every unit with a dependency on a member: the loop of
\* compute_invalidation_report, in whatever order it takes the queue.
THEOREM InvalidatesTheClosure == Spec => []InvalidationIsClosure
<1>1. ASSUME TypeInv, WorklistInv, run.phase = "compare", queue = {}
      PROVE  LET old == ByKey(latest.program)
                 new == ByKey(Loaded(run.profile))
                 keys == DOMAIN old \cup DOMAIN new
                 altered == {k \in keys : k \notin DOMAIN old \/ k \notin DOMAIN new
                                            \/ old[k] # new[k]}
                 Closed(S) == \A u \in Units(Loaded(run.profile)) : \A k \in S :
                   (\E d \in u.deps : d = k \/ (Len(k) = 2 /\ d = <<Last(k)>>)) => u.key \in S
             IN  invalidated =
                   {k \in keys : \A S \in SUBSET keys : altered \subseteq S /\ Closed(S) => k \in S}
  <2> DEFINE p == latest.program
             q == Loaded(run.profile)
             old == ByKey(p)
             new == ByKey(q)
             keys == DOMAIN old \cup DOMAIN new
             altered == {k \in keys : k \notin DOMAIN old \/ k \notin DOMAIN new
                                        \/ old[k] # new[k]}
             Closed(S) == \A u \in Units(q) : \A k \in S :
               (\E d \in u.deps : d = k \/ (Len(k) = 2 /\ d = <<Last(k)>>)) => u.key \in S
  <2>1. Worklist(p, q, {}, invalidated)
    BY <1>1 DEF WorklistInv
  <2>2. altered = Change(p, q) /\ keys = Keys(p, q)
    BY DEF Change, Altered, Keys
  <2>3. ASSUME NEW S PROVE Closed(S) <=> \A k \in S : Dependents(q, k) \subseteq S
    <3>1. \A k, d : d \in KnownAs(k) <=> d = k \/ (Len(k) = 2 /\ d = <<Last(k)>>)
      BY DEF KnownAs, Last
    <3>2. Closed(S) <=> \A u \in Units(q) : \A k \in S : u.deps \cap KnownAs(k) # {} => u.key \in S
      BY <3>1
    <3> HIDE DEF q
    <3> QED BY <3>2 DEF Dependents
  <2> HIDE DEF p, q, altered, keys, Closed
  <2>4. invalidated \in SUBSET keys /\ altered \subseteq invalidated /\ Closed(invalidated)
    BY <2>1, <2>2, <2>3 DEF Worklist
  <2>5. \A S \in SUBSET keys : altered \subseteq S /\ Closed(S) => invalidated \subseteq S
    BY <2>1, <2>2, <2>3 DEF Worklist
  <2>6. invalidated = {k \in keys : \A S \in SUBSET keys : altered \subseteq S /\ Closed(S) => k \in S}
    BY <2>4, <2>5
  <2> QED BY <2>6 DEF p, q, altered, keys, Closed
<1>2. TypeInv /\ WorklistInv => InvalidationIsClosure
  BY <1>1 DEF InvalidationIsClosure
<1> QED BY <1>2, WorklistIsKept, PTL

----------------------------------------------------------------------------
(* Texts as a build loads them, and what a successful analysis makes of    *)
(* them.                                                                   *)

Parsed(s) ==
  s = [key |-> s.key, gives |-> s.gives, wants |-> s.wants, reads |-> s.reads,
       binds |-> s.binds, variable |-> s.variable, mentions |-> s.mentions,
       container |-> s.container, ignored |-> s.ignored, resolves |-> s.resolves,
       typed |-> s.typed]

IsText(p) ==
  /\ p = [i \in DOMAIN p |-> p[i]]
  /\ DOMAIN p \subseteq Int
  /\ \A i \in DOMAIN p : Parsed(p[i])

Resolved(s) == [s EXCEPT !.typed = s.resolves]
Typed(p) == [i \in DOMAIN p |-> Resolved(p[i])]
AllFit(p) == \A i \in DOMAIN p : Fits(p, Full(p), i)

LEMMA SourcesAreTexts ==
  ASSUME NEW p \in Sources
  PROVE  IsText(p)
<1>1. p \in Seq(Statements)
  BY BuildAssumption
<1>2. \A i \in DOMAIN p : p[i] \in Statements
  BY <1>1
<1>3. \A i \in DOMAIN p : Parsed(p[i])
  BY <1>2, StatementAssumption DEF Parsed
<1> QED BY <1>1, <1>3 DEF IsText

\* An ignored test keeps its name and what it declares.
Emptied(s) == [s EXCEPT !.wants = <<>>, !.reads = <<>>, !.binds = <<>>, !.mentions = {},
                        !.resolves = FALSE]

LEMMA EmptiedFields ==
  ASSUME NEW s, Parsed(s)
  PROVE  Emptied(s) = [key |-> s.key, gives |-> s.gives, wants |-> <<>>, reads |-> <<>>,
                       binds |-> <<>>, variable |-> s.variable, mentions |-> {},
                       container |-> s.container, ignored |-> s.ignored, resolves |-> FALSE,
                       typed |-> s.typed]
<1> DEFINE Row(w, rd, b, m, res) ==
             [key |-> s.key, gives |-> s.gives, wants |-> w, reads |-> rd, binds |-> b,
              variable |-> s.variable, mentions |-> m, container |-> s.container,
              ignored |-> s.ignored, resolves |-> res, typed |-> s.typed]
           Updated(w, rd, b, m, res) ==
             [s EXCEPT !.wants = w, !.reads = rd, !.binds = b, !.mentions = m, !.resolves = res]
<1>1. s = Row(s.wants, s.reads, s.binds, s.mentions, s.resolves)
  BY DEF Parsed
<1>2. ASSUME NEW w, NEW rd, NEW b, NEW m, NEW res
      PROVE  Updated(w, rd, b, m, res) = Row(w, rd, b, m, res)
  <2> DEFINE s1 == [s EXCEPT !.wants = w]
             s2 == [s1 EXCEPT !.reads = rd]
             s3 == [s2 EXCEPT !.binds = b]
             s4 == [s3 EXCEPT !.mentions = m]
  <2>1. s1 = Row(w, s.reads, s.binds, s.mentions, s.resolves)
    BY <1>1
  <2> HIDE DEF s1
  <2>2. s2 = Row(w, rd, s.binds, s.mentions, s.resolves)
    BY <2>1
  <2> HIDE DEF s2
  <2>3. s3 = Row(w, rd, b, s.mentions, s.resolves)
    BY <2>2
  <2> HIDE DEF s3
  <2>4. s4 = Row(w, rd, b, m, s.resolves)
    BY <2>3
  <2> HIDE DEF s4
  <2>5. [s4 EXCEPT !.resolves = res] = Row(w, rd, b, m, res)
    BY <2>4
  <2> QED BY <2>5 DEF s1, s2, s3, s4
<1>3. Emptied(s) = Updated(<<>>, <<>>, <<>>, {}, FALSE)
  BY DEF Emptied
<1> HIDE DEF Updated
<1>4. Emptied(s) = Row(<<>>, <<>>, <<>>, {}, FALSE)
  BY <1>2, <1>3
<1> QED BY <1>4

LEMMA NeutralisedAreTexts ==
  ASSUME NEW p, IsText(p)
  PROVE  /\ IsText(Neutralised(p))
         /\ DOMAIN Neutralised(p) = DOMAIN p
         /\ Tracked(p) => Tracked(Neutralised(p))
         /\ NothingIgnored(p) => Neutralised(p) = p
<1> DEFINE n == Neutralised(p)
<1>1. /\ n = [i \in DOMAIN p |-> n[i]] /\ DOMAIN n = DOMAIN p
      /\ \A i \in DOMAIN p : n[i] = IF p[i].ignored THEN Emptied(p[i]) ELSE p[i]
  BY DEF Neutralised, Emptied
<1> HIDE DEF n
<1>2. ASSUME NEW i \in DOMAIN p
      PROVE  /\ Parsed(n[i]) /\ n[i].key = p[i].key /\ n[i].gives = p[i].gives
             /\ n[i].container = p[i].container /\ n[i].variable = p[i].variable
             /\ \/ n[i] = p[i]
                \/ DOMAIN n[i].wants = {} /\ DOMAIN n[i].reads = {} /\ DOMAIN n[i].binds = {}
  <2>1. Parsed(p[i])
    BY DEF IsText
  <2>2. CASE p[i].ignored
    <3>1. n[i] = [key |-> p[i].key, gives |-> p[i].gives, wants |-> <<>>, reads |-> <<>>,
                  binds |-> <<>>, variable |-> p[i].variable, mentions |-> {},
                  container |-> p[i].container, ignored |-> p[i].ignored, resolves |-> FALSE,
                  typed |-> p[i].typed]
      BY <1>1, <2>1, <2>2, EmptiedFields
    <3> QED BY <3>1 DEF Parsed
  <2>3. CASE ~p[i].ignored
    <3>1. n[i] = p[i]
      BY <1>1, <2>3
    <3> QED BY <2>1, <3>1
  <2> QED BY <2>2, <2>3
<1>3. NothingIgnored(p) => n = p
  BY <1>1 DEF NothingIgnored, IsText
<1>4. IsText(n)
  BY <1>1, <1>2 DEF IsText
<1>5. ASSUME Tracked(p) PROVE Tracked(n)
  <2>1. DistinctKeys(n) /\ KeyedByName(n)
    BY <1>1, <1>2, <1>5 DEF Tracked, DistinctKeys, KeyedByName, Names
  <2>2. DependsOnNeeds(n)
    BY <1>1, <1>2, <1>5 DEF Tracked, DependsOnNeeds
  <2>3. ReadsGlobals(n)
    BY <1>1, <1>2, <1>5 DEF Tracked, ReadsGlobals
  <2> QED BY <2>1, <2>2, <2>3 DEF Tracked
<1> QED BY <1>1, <1>3, <1>4, <1>5 DEF n

\* An analysis resolves what it can at once: a second one adds nothing.
LEMMA ResolvedFields ==
  ASSUME NEW s, Parsed(s)
  PROVE  /\ Resolved(s).key = s.key /\ Resolved(s).gives = s.gives
         /\ Resolved(s).wants = s.wants /\ Resolved(s).container = s.container
         /\ Resolved(s).reads = s.reads /\ Resolved(s).binds = s.binds
         /\ Resolved(s).variable = s.variable
         /\ Resolved(Resolved(s)) = Resolved(s)
<1> DEFINE t == Resolved(s)
<1>1. t = [key |-> s.key, gives |-> s.gives, wants |-> s.wants, reads |-> s.reads,
           binds |-> s.binds, variable |-> s.variable, mentions |-> s.mentions,
           container |-> s.container, ignored |-> s.ignored, resolves |-> s.resolves,
           typed |-> s.resolves]
  BY DEF Parsed, Resolved
<1>2. Resolved(t) = t
  BY <1>1 DEF Resolved
<1> QED BY <1>1, <1>2

LEMMA AnalyzeFull ==
  ASSUME NEW p
  PROVE  /\ Analyze(p, Full(p)).ok => AllFit(p) /\ Analyze(p, Full(p)).program = Typed(p)
         /\ AllFit(p) => Analyze(p, Full(p)) =
                           [ok |-> TRUE, error |-> <<"none">>, program |-> Typed(p)]
<1> DEFINE bad == {i \in DOMAIN p : Full(p)[i] /\ ~Fits(p, Full(p), i)}
<1>1. bad = {} <=> AllFit(p)
  BY DEF Full, AllFit
<1>2. [i \in DOMAIN p |-> IF Full(p)[i] THEN [p[i] EXCEPT !.typed = p[i].resolves] ELSE p[i]] = Typed(p)
  BY DEF Full, Typed, Resolved
<1>3. Analyze(p, Full(p)) =
        IF bad = {} THEN [ok |-> TRUE, error |-> <<"none">>, program |-> Typed(p)]
        ELSE [ok |-> FALSE, program |-> <<>>, error |-> <<p[Min(bad)].key>>]
  BY <1>2 DEF Analyze
<1> HIDE DEF bad
<1> QED BY <1>1, <1>3

LEMMA Tuples ==
  ASSUME NEW a, NEW b, NEW c, NEW d
  PROVE  /\ <<a>> # <<b, c>> /\ Len(<<a>>) = 1 /\ Len(<<b, c>>) = 2
         /\ <<a>> = <<b>> => a = b
         /\ <<a, b>> = <<c, d>> => a = c /\ b = d
<1>1. Len(<<a>>) = 1 /\ Len(<<b, c>>) = 2
  OBVIOUS
<1>2. /\ <<a>>[1] = a /\ <<b>>[1] = b
      /\ <<a, b>>[1] = a /\ <<a, b>>[2] = b /\ <<c, d>>[1] = c /\ <<c, d>>[2] = d
  OBVIOUS
<1> QED BY <1>1, <1>2

LEMMA MaxOfOne ==
  ASSUME NEW i \in Int
  PROVE  Max({i}) = i
<1> QED BY DEF Max

\* Where no two statements have one key, a unit is found under its own.
LEMMA UnitOfStatement ==
  ASSUME NEW p, DOMAIN p \subseteq Int, DistinctKeys(p), NEW i \in DOMAIN p
  PROVE  /\ <<p[i].key>> \in DOMAIN ByKey(p)
         /\ ByKey(p)[<<p[i].key>>] = Unit(<<p[i].key>>, Hashed(p, i), Dependencies(p[i]))
<1> DEFINE k == <<p[i].key>>
           unit == Unit(k, Hashed(p, i), Dependencies(p[i]))
<1>1. unit \in UnitsOf(p, i) /\ unit.key = k
  BY DEF UnitsOf, Unit
<1>2. ASSUME NEW j \in DOMAIN p, NEW u, u \in UnitsOf(p, j), u.key = k
      PROVE  j = i /\ u = unit
  <2>1. u = Unit(<<p[j].key>>, Hashed(p, j), Dependencies(p[j]))
          \/ \E n \in Names(p[j]) : u = Unit(<<p[j].key, n>>, <<n, p[j].gives[n]>>, {<<p[j].key>>})
    BY <1>2 DEF UnitsOf
  <2>2. u.key = <<p[j].key>> \/ \E n : u.key = <<p[j].key, n>>
    BY <2>1 DEF Unit
  <2>3. u.key = <<p[j].key>> /\ p[j].key = p[i].key
    BY <1>2, <2>2, Tuples
  <2>4. j = i
    BY <2>3 DEF DistinctKeys
  <2>5. \A n : u.key # <<p[j].key, n>>
    BY <2>3, Tuples
  <2> QED BY <2>1, <2>4, <2>5 DEF Unit
<1>3. {j \in DOMAIN p : \E u \in UnitsOf(p, j) : u.key = k} = {i}
  BY <1>1, <1>2
<1>4. (CHOOSE u \in UnitsOf(p, i) : u.key = k) = unit
  BY <1>1, <1>2
<1>5. k \in {u.key : u \in Units(p)}
  BY <1>1 DEF Units
<1>6. i \in Int
  OBVIOUS
<1> HIDE DEF k, unit
<1>7. k \in DOMAIN ByKey(p) /\ ByKey(p)[k] = unit
  BY <1>3, <1>4, <1>5, <1>6, MaxOfOne DEF ByKey
<1> QED BY <1>7 DEF k, unit

LEMMA UnitOfMethod ==
  ASSUME NEW p, DOMAIN p \subseteq Int, DistinctKeys(p), NEW i \in DOMAIN p, p[i].container,
         NEW n \in Names(p[i])
  PROVE  /\ <<p[i].key, n>> \in DOMAIN ByKey(p)
         /\ ByKey(p)[<<p[i].key, n>>] =
              Unit(<<p[i].key, n>>, <<n, p[i].gives[n]>>, {<<p[i].key>>})
<1> DEFINE k == <<p[i].key, n>>
           unit == Unit(k, <<n, p[i].gives[n]>>, {<<p[i].key>>})
<1>1. unit \in UnitsOf(p, i) /\ unit.key = k
  BY DEF UnitsOf, Unit
<1>2. ASSUME NEW j \in DOMAIN p, NEW u, u \in UnitsOf(p, j), u.key = k
      PROVE  j = i /\ u = unit
  <2>1. u = Unit(<<p[j].key>>, Hashed(p, j), Dependencies(p[j]))
          \/ \E m \in Names(p[j]) : u = Unit(<<p[j].key, m>>, <<m, p[j].gives[m]>>, {<<p[j].key>>})
    BY <1>2 DEF UnitsOf
  <2>2. u # Unit(<<p[j].key>>, Hashed(p, j), Dependencies(p[j]))
    BY <1>2, Tuples DEF Unit
  <2>3. PICK m \in Names(p[j]) : u = Unit(<<p[j].key, m>>, <<m, p[j].gives[m]>>, {<<p[j].key>>})
    BY <2>1, <2>2
  <2>4. p[j].key = p[i].key /\ m = n
    BY <1>2, <2>3, Tuples DEF Unit
  <2>5. j = i
    BY <2>4 DEF DistinctKeys
  <2> QED BY <2>3, <2>4, <2>5
<1>3. {j \in DOMAIN p : \E u \in UnitsOf(p, j) : u.key = k} = {i}
  BY <1>1, <1>2
<1>4. (CHOOSE u \in UnitsOf(p, i) : u.key = k) = unit
  BY <1>1, <1>2
<1>5. k \in {u.key : u \in Units(p)}
  BY <1>1 DEF Units
<1>6. i \in Int
  OBVIOUS
<1> HIDE DEF k, unit
<1>7. k \in DOMAIN ByKey(p) /\ ByKey(p)[k] = unit
  BY <1>3, <1>4, <1>5, <1>6, MaxOfOne DEF ByKey
<1> QED BY <1>7 DEF k, unit

\* And what is found is the unit of a statement, or of one of its methods.
LEMMA KeysAreOfUnits ==
  ASSUME NEW p
  PROVE  /\ \A a : <<a>> \in DOMAIN ByKey(p) => \E i \in DOMAIN p : p[i].key = a
         /\ \A a, n : <<a, n>> \in DOMAIN ByKey(p) =>
              \E i \in DOMAIN p : p[i].key = a /\ p[i].container /\ n \in Names(p[i])
<1>1. ASSUME NEW k \in DOMAIN ByKey(p)
      PROVE  \E i \in DOMAIN p : \/ k = <<p[i].key>>
                                 \/ p[i].container /\ \E n \in Names(p[i]) : k = <<p[i].key, n>>
  <2>1. PICK i \in DOMAIN p : \E u \in UnitsOf(p, i) : u.key = k
    BY DEF ByKey, Units
  <2> QED BY <2>1 DEF UnitsOf, Unit
<1> QED BY <1>1, Tuples

(* What the worklist leaves out is as it was: an unaltered statement at its *)
(* old place, with all it needs.                                           *)

LEMMA KeptAsItWas ==
  ASSUME NEW q, IsText(q), DistinctKeys(q),
         NEW p, IsText(p), DistinctKeys(p),
         NEW i \in DOMAIN p, <<p[i].key>> \notin Change(Typed(q), p)
  PROVE  i \in DOMAIN q /\ p[i] = Typed(q)[i]
<1> DEFINE old == Typed(q)
           k == <<p[i].key>>
<1>1. DOMAIN old = DOMAIN q /\ \A j \in DOMAIN q : old[j] = Resolved(q[j]) /\ old[j].key = q[j].key
  BY ResolvedFields DEF Typed, IsText
<1>2. DistinctKeys(old) /\ DOMAIN old \subseteq Int
  BY <1>1 DEF DistinctKeys, IsText
<1> HIDE DEF old
<1>3. k \in DOMAIN ByKey(p) /\ ByKey(p)[k] = Unit(k, Hashed(p, i), Dependencies(p[i]))
  BY UnitOfStatement DEF IsText
<1>4. k \in DOMAIN ByKey(old) /\ ByKey(old)[k] = ByKey(p)[k]
  BY <1>3 DEF Change, Altered, old
<1>5. PICK j \in DOMAIN old : old[j].key = p[i].key
  BY <1>4, KeysAreOfUnits
<1>6. ByKey(old)[k] = Unit(k, Hashed(old, j), Dependencies(old[j]))
  BY <1>2, <1>5, UnitOfStatement
<1>7. Hashed(old, j) = Hashed(p, i)
  BY <1>3, <1>4, <1>6 DEF Unit
<1>8. old[j] = p[i] /\ j = i
  BY <1>7, Tuples DEF Hashed
<1> QED BY <1>1, <1>8 DEF old

(* Where what is read is bound by the one let of its name before it, every *)
(* analysis, of everything or of a part, finds the variable there.         *)

Everywhere(p, n) == {j \in DOMAIN p : n \in DOMAIN p[j].binds}

LEMMA OneBinder ==
  ASSUME NEW p, IsText(p), Tracked(p), NEW i \in DOMAIN p, NEW n \in DOMAIN p[i].reads,
         NEW j \in Everywhere(p, n)
  PROVE  /\ Everywhere(p, n) = {j} /\ Max(Everywhere(p, n)) = j
         /\ p[j].variable /\ p[j].key = n /\ j < i
<1>1. \A k \in Everywhere(p, n) : p[k].variable /\ p[k].key = n /\ k < i
  BY DEF Tracked, ReadsGlobals, Everywhere
<1>2. Everywhere(p, n) = {j}
  BY <1>1 DEF Tracked, DistinctKeys, Everywhere
<1>3. j \in Int
  BY DEF Everywhere, IsText
<1> QED BY <1>1, <1>2, <1>3, MaxOfOne

LEMMA ScopesAgree ==
  ASSUME NEW p, IsText(p), Tracked(p), NEW mask \in [DOMAIN p -> BOOLEAN],
         NEW i \in DOMAIN p, NEW n \in DOMAIN p[i].reads
  PROVE  Binders(p, mask, i, n) = Everywhere(p, n)
<1> DEFINE all == {j \in DOMAIN p : n \in DOMAIN p[j].binds}
           checked == {j \in all : mask[j] /\ j < i}
<1>1. all = Everywhere(p, n)
  BY DEF Everywhere
<1>2. Binders(p, mask, i, n) =
        IF checked # {} THEN checked ELSE {j \in all : ~mask[j] /\ p[j].variable}
  BY DEF Binders
<1>3. CASE all = {}
  BY <1>1, <1>2, <1>3
<1>4. ASSUME NEW j \in all PROVE Binders(p, mask, i, n) = Everywhere(p, n)
  <2>1. all = {j} /\ p[j].variable /\ j < i
    BY <1>1, OneBinder
  <2>2. checked = IF mask[j] THEN {j} ELSE {}
    BY <2>1
  <2> HIDE DEF all, checked
  <2>3. {k \in all : ~mask[k] /\ p[k].variable} = IF mask[j] THEN {} ELSE {j}
    BY <2>1
  <2> QED BY <1>1, <1>2, <2>1, <2>2, <2>3
<1> QED BY <1>3, <1>4

LEMMA FitsInAnyPart ==
  ASSUME NEW p, IsText(p), Tracked(p), NEW mask \in [DOMAIN p -> BOOLEAN], NEW i \in DOMAIN p
  PROVE  Fits(p, mask, i) <=> Fits(p, Full(p), i)
<1>1. Full(p) \in [DOMAIN p -> BOOLEAN]
  BY DEF Full
<1>2. \A n \in DOMAIN p[i].reads : Binders(p, mask, i, n) = Binders(p, Full(p), i, n)
  BY <1>1, ScopesAgree
<1> QED BY <1>2 DEF Fits

LEMMA KeptFits ==
  ASSUME NEW q, IsText(q), Tracked(q), AllFit(q),
         NEW p, IsText(p), Tracked(p),
         NEW done, Worklist(Typed(q), p, {}, done),
         NEW i \in DOMAIN p, <<p[i].key>> \notin done
  PROVE  Fits(p, Full(p), i)
<1> DEFINE old == Typed(q)
<1>1. /\ DOMAIN old = DOMAIN q
      /\ \A j \in DOMAIN q : /\ old[j].key = q[j].key /\ old[j].gives = q[j].gives
                             /\ old[j].wants = q[j].wants /\ old[j].container = q[j].container
                             /\ old[j].reads = q[j].reads /\ old[j].binds = q[j].binds
  BY ResolvedFields DEF Typed, IsText
<1>2. DistinctKeys(q) /\ DistinctKeys(p) /\ DistinctKeys(old) /\ DOMAIN old \subseteq Int
  BY <1>1 DEF DistinctKeys, IsText, Tracked
<1>3. \A j \in DOMAIN p : <<p[j].key>> \notin done => j \in DOMAIN q /\ p[j] = old[j]
  <2>1. Change(old, p) \subseteq done
    BY DEF Worklist
  <2> QED BY <1>2, <2>1, KeptAsItWas
<1> HIDE DEF old
<1>4. i \in DOMAIN q /\ p[i] = old[i]
  BY <1>3
\* The statement depends on what it mentions, so nothing known by that is invalidated, ...
<1>5. ASSUME NEW n \in p[i].mentions, NEW k, <<n>> \in KnownAs(k) PROVE k \notin done
  <2> DEFINE u == Unit(<<p[i].key>>, Hashed(p, i), Dependencies(p[i]))
  <2>1. u \in Units(p) /\ u.key = <<p[i].key>>
    BY DEF Units, UnitsOf, Unit
  <2>2. <<n>> \in u.deps
    BY DEF Unit, Dependencies
  <2> HIDE DEF u
  <2>3. <<p[i].key>> \in Dependents(p, k)
    BY <1>5, <2>1, <2>2 DEF Dependents
  <2>4. k \in done => Dependents(p, k) \subseteq done
    BY DEF Worklist
  <2> QED BY <2>3, <2>4
<1>6. \A n \in DOMAIN p[i].wants \cup DOMAIN p[i].reads : n \in p[i].mentions
  BY DEF Tracked, DependsOnNeeds
\* ... and what is not invalidated is found under the key it had.
<1>7. ASSUME NEW k \in DOMAIN ByKey(old), k \notin done
      PROVE  k \in DOMAIN ByKey(p) /\ ByKey(p)[k] = ByKey(old)[k]
  BY <1>7 DEF Worklist, Change, Altered, old
<1>8. ASSUME NEW n \in p[i].mentions, NEW j \in DOMAIN old, old[j].key = n
      PROVE  j \in DOMAIN p /\ p[j] = old[j]
  <2>1. <<n>> \in DOMAIN ByKey(old)
    BY <1>2, <1>8, UnitOfStatement
  <2>2. <<n>> \notin done
    BY <1>5 DEF KnownAs
  <2>3. PICK m \in DOMAIN p : p[m].key = n
    BY <1>7, <2>1, <2>2, KeysAreOfUnits
  <2>4. m \in DOMAIN q /\ p[m] = old[m]
    BY <1>3, <2>2, <2>3
  <2>5. m = j
    BY <1>1, <1>2, <1>8, <2>3, <2>4 DEF DistinctKeys
  <2> QED BY <2>3, <2>4, <2>5
<1>9. Fits(q, Full(q), i)
  BY <1>4 DEF AllFit
<1>10. ASSUME NEW n \in DOMAIN p[i].wants
       PROVE  \E j \in DOMAIN p : n \in Names(p[j]) /\ p[j].gives[n] = p[i].wants[n]
  <2>1. PICK j \in DOMAIN q : n \in Names(q[j]) /\ q[j].gives[n] = q[i].wants[n]
    BY <1>1, <1>4, <1>9 DEF Fits
  <2>2. n \in Names(old[j]) /\ old[j].gives[n] = p[i].wants[n] /\ j \in DOMAIN old
    BY <1>1, <1>4, <2>1 DEF Names
  <2>3. CASE ~q[j].container
    <3>1. n = old[j].key
      BY <1>1, <2>1, <2>3 DEF Tracked, KeyedByName
    <3>2. j \in DOMAIN p /\ p[j] = old[j]
      BY <1>6, <1>8, <2>2, <3>1
    <3> QED BY <2>2, <3>2
  <2>4. CASE q[j].container
    <3> DEFINE k == <<old[j].key, n>>
    <3>1. k \in DOMAIN ByKey(old) /\ ByKey(old)[k].content = <<n, old[j].gives[n]>>
      <4>1. old[j].container
        BY <1>1, <2>4
      <4>2. k \in DOMAIN ByKey(old) /\ ByKey(old)[k] = Unit(k, <<n, old[j].gives[n]>>, {<<old[j].key>>})
        BY <1>2, <2>2, <4>1, UnitOfMethod
      <4> QED BY <4>2 DEF Unit
    <3>2. k \notin done
      BY <1>5, <1>6, Tuples DEF KnownAs
    <3>3. k \in DOMAIN ByKey(p) /\ ByKey(p)[k] = ByKey(old)[k]
      BY <1>7, <3>1, <3>2
    <3>4. PICK m \in DOMAIN p : p[m].key = old[j].key /\ p[m].container /\ n \in Names(p[m])
      BY <3>3, KeysAreOfUnits
    <3>5. ByKey(p)[k].content = <<n, p[m].gives[n]>>
      <4>1. ByKey(p)[<<p[m].key, n>>] = Unit(<<p[m].key, n>>, <<n, p[m].gives[n]>>, {<<p[m].key>>})
        BY <1>2, <3>4, UnitOfMethod DEF IsText
      <4> QED BY <3>4, <4>1 DEF Unit
    <3>6. p[m].gives[n] = old[j].gives[n]
      BY <3>1, <3>3, <3>5, Tuples
    <3> QED BY <2>2, <3>4, <3>6
  <2> QED BY <2>3, <2>4
<1>11. ASSUME NEW n \in DOMAIN p[i].reads
       PROVE  /\ Binders(p, Full(p), i, n) # {}
              /\ p[Max(Binders(p, Full(p), i, n))].binds[n] = p[i].reads[n]
  <2>1. n \in DOMAIN q[i].reads /\ q[i].reads[n] = p[i].reads[n]
    BY <1>1, <1>4
  <2>2. /\ Binders(q, Full(q), i, n) = Everywhere(q, n)
        /\ Binders(p, Full(p), i, n) = Everywhere(p, n)
    <3>1. Full(q) \in [DOMAIN q -> BOOLEAN] /\ Full(p) \in [DOMAIN p -> BOOLEAN]
      BY DEF Full
    <3> QED BY <1>4, <2>1, <3>1, ScopesAgree
  <2>3. Everywhere(q, n) # {} /\ q[Max(Everywhere(q, n))].binds[n] = p[i].reads[n]
    BY <1>9, <2>1, <2>2 DEF Fits
  <2>4. PICK j \in Everywhere(q, n) : TRUE
    BY <2>3
  <2>5. Max(Everywhere(q, n)) = j /\ q[j].key = n /\ j \in DOMAIN q
    BY <1>4, <2>1, OneBinder DEF Everywhere
  <2>6. j \in DOMAIN p /\ p[j] = old[j]
    BY <1>1, <1>6, <1>8, <2>5
  <2>7. p[j].binds = q[j].binds
    BY <1>1, <2>5, <2>6
  <2>8. j \in Everywhere(p, n)
    BY <2>6, <2>7 DEF Everywhere
  <2>9. Max(Everywhere(p, n)) = j
    BY <2>8, OneBinder
  <2> QED BY <2>2, <2>3, <2>5, <2>7, <2>8, <2>9
<1> QED BY <1>10, <1>11 DEF Fits

\* prepare_program_with_partial_analysis_reuse, and the analysis of what it
\* leaves, come to what an analysis of the whole text comes to.
LEMMA ReuseIsFull ==
  ASSUME NEW q, IsText(q), Tracked(q), AllFit(q),
         NEW p, IsText(p), Tracked(p), Worklist(Typed(q), p, {}, invalidated)
  PROVE  LET r == Reuse(p, Typed(q)) IN Analyze(r.program, r.mask) = Analyze(p, Full(p))
<1> DEFINE old == Typed(q)
           r == Reuse(p, old)
           left == {i \in DOMAIN p : <<p[i].key>> \notin invalidated}
<1>1. /\ old = [j \in DOMAIN q |-> old[j]] /\ DOMAIN old = DOMAIN q
      /\ \A j \in DOMAIN q : old[j] = Resolved(q[j]) /\ old[j].key = q[j].key
                               /\ Resolved(old[j]) = old[j]
  BY ResolvedFields DEF Typed, IsText
<1>2. DistinctKeys(p) /\ DistinctKeys(q) /\ DistinctKeys(old) /\ DOMAIN old \subseteq Int
  BY <1>1 DEF DistinctKeys, IsText, Tracked
<1>3. \A i \in left : i \in DOMAIN q /\ p[i] = old[i]
  <2>1. Change(old, p) \subseteq invalidated
    BY DEF Worklist
  <2> QED BY <1>2, <2>1, KeptAsItWas
<1>4. \A i \in left : Fits(p, Full(p), i) /\ Resolved(p[i]) = p[i]
  BY <1>1, <1>3, KeptFits
<1>5. CASE invalidated = {}
  <2>1. left = DOMAIN p
    BY <1>5
  <2>2. DOMAIN old \subseteq DOMAIN p
    <3> SUFFICES ASSUME NEW j \in DOMAIN old PROVE j \in DOMAIN p
      OBVIOUS
    <3> HIDE DEF old
    <3>1. <<old[j].key>> \in DOMAIN ByKey(old)
      BY <1>2, UnitOfStatement
    <3>2. <<old[j].key>> \in DOMAIN ByKey(p)
      BY <1>5, <3>1 DEF Worklist, Change, Altered, old
    <3>3. PICK i \in DOMAIN p : p[i].key = old[j].key
      BY <3>2, KeysAreOfUnits
    <3>4. i \in DOMAIN old /\ old[i].key = old[j].key
      BY <1>1, <1>3, <2>1, <3>3
    <3>5. i = j
      BY <1>2, <3>4 DEF DistinctKeys
    <3> QED BY <3>5
  <2>3. old = p
    <3> HIDE DEF old
    <3>1. DOMAIN old = DOMAIN p
      BY <1>1, <1>3, <2>1, <2>2
    <3>2. p = [i \in DOMAIN p |-> p[i]]
      BY DEF IsText
    <3>3. \A i \in DOMAIN p : p[i] = old[i]
      BY <1>3, <2>1
    <3> QED BY <1>1, <3>1, <3>2, <3>3
  <2>4. r = [program |-> p, mask |-> [i \in DOMAIN p |-> FALSE]]
    BY <1>5, <2>3 DEF Reuse
  <2>5. Typed(p) = p
    <3>1. \A i \in DOMAIN p : Resolved(p[i]) = p[i]
      BY <1>4, <2>1
    <3>2. Typed(p) = [i \in DOMAIN p |-> p[i]]
      BY <3>1 DEF Typed
    <3> QED BY <3>2 DEF IsText
  <2>6. AllFit(p)
    BY <1>4, <2>1 DEF AllFit
  <2> HIDE DEF r
  <2>7. Analyze(r.program, r.mask) = [ok |-> TRUE, error |-> <<"none">>, program |-> p]
    <3> DEFINE mask == [i \in DOMAIN p |-> FALSE]
    <3>1. {i \in DOMAIN p : mask[i] /\ ~Fits(p, mask, i)} = {}
      OBVIOUS
    <3>2. [i \in DOMAIN p |-> IF mask[i] THEN [p[i] EXCEPT !.typed = p[i].resolves] ELSE p[i]]
            = [i \in DOMAIN p |-> p[i]]
      OBVIOUS
    <3>3. r.program = p /\ r.mask = mask
      BY <2>4
    <3> HIDE DEF mask
    <3>4. Analyze(p, mask) = [ok |-> TRUE, error |-> <<"none">>, program |-> p]
      BY <3>1, <3>2 DEF Analyze, IsText
    <3> QED BY <3>3, <3>4
  <2>8. Analyze(p, Full(p)) = [ok |-> TRUE, error |-> <<"none">>, program |-> p]
    BY <2>5, <2>6, AnalyzeFull
  <2> QED BY <2>7, <2>8 DEF r
<1>6. CASE invalidated # {}
  <2> DEFINE Earlier(i) == {j \in DOMAIN old : old[j].key = p[i].key}
             kept == {i \in DOMAIN p : <<p[i].key>> \notin invalidated /\ Earlier(i) # {}}
             mask == [i \in DOMAIN p |-> i \notin kept]
  <2>1. \A i \in left : Earlier(i) = {i}
    BY <1>1, <1>2, <1>3 DEF DistinctKeys
  <2>2. kept = left
    BY <2>1
  <2>3. \A i \in kept : old[Max(Earlier(i))] = p[i]
    <3> SUFFICES ASSUME NEW i \in kept PROVE old[Max(Earlier(i))] = p[i]
      OBVIOUS
    <3>1. i \in left /\ i \in Int
      BY <2>2 DEF IsText
    <3>2. Earlier(i) = {i}
      BY <2>1, <3>1
    <3>3. Max(Earlier(i)) = i
      BY <3>1, <3>2, MaxOfOne
    <3> HIDE DEF old, Earlier, left, kept
    <3> QED BY <1>3, <3>1, <3>3
  <2>4. [i \in DOMAIN p |-> IF i \in kept THEN old[Max(Earlier(i))] ELSE p[i]] = p
    <3>1. [i \in DOMAIN p |-> IF i \in kept THEN old[Max(Earlier(i))] ELSE p[i]]
            = [i \in DOMAIN p |-> p[i]]
      BY <2>3
    <3> QED BY <3>1 DEF IsText
  <2>5. r = [program |-> p, mask |-> mask]
    BY <1>6, <2>4 DEF Reuse
  <2> DEFINE bad(m) == {i \in DOMAIN p : m[i] /\ ~Fits(p, m, i)}
             result(m) == [i \in DOMAIN p |->
                            IF m[i] THEN [p[i] EXCEPT !.typed = p[i].resolves] ELSE p[i]]
  <2>6. bad(mask) = bad(Full(p))
    <3>1. \A i \in DOMAIN p : i \in kept => Fits(p, Full(p), i)
      BY <1>4, <2>2
    <3>2. mask \in [DOMAIN p -> BOOLEAN]
      OBVIOUS
    <3>3. \A i \in DOMAIN p : mask[i] <=> i \notin kept
      OBVIOUS
    <3> HIDE DEF mask, kept
    <3>4. \A i \in DOMAIN p : Fits(p, mask, i) <=> Fits(p, Full(p), i)
      BY <3>2, FitsInAnyPart
    <3>5. \A i \in DOMAIN p : Full(p)[i]
      BY DEF Full
    <3> QED BY <3>1, <3>3, <3>4, <3>5
  <2>7. result(mask) = result(Full(p))
    <3>1. \A i \in kept : [p[i] EXCEPT !.typed = p[i].resolves] = p[i]
      BY <1>4, <2>2 DEF Resolved
    <3> HIDE DEF kept
    <3>2. \A i \in DOMAIN p :
            (IF mask[i] THEN [p[i] EXCEPT !.typed = p[i].resolves] ELSE p[i])
              = [p[i] EXCEPT !.typed = p[i].resolves]
      BY <3>1
    <3> HIDE DEF mask
    <3>3. result(mask) = [i \in DOMAIN p |-> [p[i] EXCEPT !.typed = p[i].resolves]]
      BY <3>2
    <3>4. result(Full(p)) = [i \in DOMAIN p |-> [p[i] EXCEPT !.typed = p[i].resolves]]
      BY DEF Full
    <3> QED BY <3>3, <3>4
  <2> HIDE DEF mask, r
  <2>8. \A m : Analyze(p, m) =
          IF bad(m) = {} THEN [ok |-> TRUE, error |-> <<"none">>, program |-> result(m)]
          ELSE [ok |-> FALSE, program |-> <<>>, error |-> <<p[Min(bad(m))].key>>]
    BY DEF Analyze
  <2>9. Analyze(p, mask) = Analyze(p, Full(p))
    <3> HIDE DEF bad, result
    <3> QED BY <2>6, <2>7, <2>8
  <2>10. r.program = p /\ r.mask = mask
    BY <2>5
  <2> QED BY <2>9, <2>10 DEF r
<1> QED BY <1>5, <1>6

----------------------------------------------------------------------------
(* While every text was Tracked, every analysis, of this build or kept     *)
(* from another, is one from nothing of a text as some build loads it.     *)

\* What a build may make of a text.
Read(text) == {text, Neutralised(text)}
FromNothing(outcome, text) == \E p \in Read(text) : outcome = Analyze(p, Full(p))

\* The phases that follow an analysis.
Told == {"analysed", "generated", "linked", "stored", "done"}

Outcomes == run.phase \in Told => FromNothing(run.outcome, source)
Logged == \A text \in DOMAIN analyses : FromNothing(analyses[text], text)
LatestKept == latest.ok => \E text \in Sources \cap DOMAIN analyses : FromNothing(latest, text)

Comparing == run.phase = "compare" => latest.ok
Analysing == run.phase \in Told => source \in DOMAIN analyses
SoFarTracked == \A text \in DOMAIN analyses : Tracked(text)

AnalysisInv == Comparing /\ Analysing /\ (SoFarTracked => Outcomes /\ Logged /\ LatestKept)

LEMMA LoadedIsRead == Loaded(run.profile) \in Read(source)
<1> QED BY DEF Loaded, Read

LEMMA ReadIsText ==
  ASSUME NEW text \in Sources, NEW p \in Read(text)
  PROVE  IsText(p) /\ DOMAIN p = DOMAIN text /\ (Tracked(text) => Tracked(p))
<1> QED BY SourcesAreTexts, NeutralisedAreTexts DEF Read

LEMMA AnalysisInit == Init => AnalysisInv
<1> SUFFICES ASSUME Init PROVE AnalysisInv
  OBVIOUS
<1>1. run.phase = "idle" /\ ~latest.ok
  BY DEF Init, Idle, NoOutcome
<1>2. DOMAIN analyses = {}
  BY DEF Init
<1> QED BY <1>1, <1>2 DEF AnalysisInv, Outcomes, Logged, LatestKept, Comparing, Analysing, Told

\* store_analysis keeps what was found, and leaves the rest of the log as it is.
LEMMA AnalysedKeeps ==
  ASSUME TypeInv, AnalysisInv, NEW outcome, NEW new, Analysed(outcome, new), UNCHANGED source,
         Tracked(source) /\ SoFarTracked => FromNothing(outcome, source)
  PROVE  AnalysisInv'
<1>1. run'.outcome = outcome /\ run'.phase # "compare"
  <2>1. run' = [run EXCEPT !.phase = IF outcome.ok THEN "analysed" ELSE "done",
                           !.outcome = outcome, !.store = new]
    BY DEF Analysed
  <2> QED BY <2>1 DEF TypeInv
<1>2. \A text \in DOMAIN analyses' :
        analyses'[text] = IF text = source THEN outcome ELSE analyses[text]
  BY DEF Analysed
<1>3. DOMAIN analyses' = {source} \cup DOMAIN analyses
  BY DEF Analysed
<1>4. ASSUME SoFarTracked' PROVE (Outcomes /\ Logged /\ LatestKept)'
  <2>1. Tracked(source) /\ SoFarTracked
    BY <1>3, <1>4 DEF SoFarTracked
  <2>2. FromNothing(outcome, source) /\ Logged /\ LatestKept
    BY <2>1 DEF AnalysisInv
  <2>3. Outcomes' /\ Logged'
    BY <1>1, <1>2, <1>3, <2>2 DEF Outcomes, Logged, FromNothing
  <2>4. LatestKept'
    BY <1>3, <2>2 DEF LatestKept, Analysed, FromNothing
  <2> QED BY <2>3, <2>4
<1>5. Comparing' /\ Analysing'
  BY <1>1, <1>3 DEF Comparing, Analysing
<1> QED BY <1>4, <1>5 DEF AnalysisInv

LEMMA AnalysisNext ==
  TypeInv /\ WorklistInv /\ AnalysisInv /\ [Next]_vars => AnalysisInv'
<1> SUFFICES ASSUME TypeInv, WorklistInv, AnalysisInv, [Next]_vars PROVE AnalysisInv'
  OBVIOUS
<1>1. ASSUME UNCHANGED <<source, analyses, latest>>,
             run'.phase \in Told => run.phase \in Told /\ run'.outcome = run.outcome,
             run'.phase = "compare" => run.phase = "compare" \/ latest.ok
      PROVE  AnalysisInv'
  BY <1>1 DEF AnalysisInv, Outcomes, Logged, LatestKept, Comparing, Analysing, SoFarTracked, FromNothing
<1>2. CASE \E text \in Sources : Edit(text)
  BY <1>2 DEF Edit, Idle, AnalysisInv, Outcomes, Logged, LatestKept, Comparing, Analysing,
    SoFarTracked, FromNothing, Told
<1>3. CASE \E p \in Profiles : Start(p)
  BY <1>1, <1>3 DEF Start, Idle, Told
<1>4. CASE Analyse
  <2>1. CASE source \in DOMAIN analyses
    <3>1. Analysed(analyses[source], FALSE) /\ UNCHANGED source
      BY <1>4, <2>1 DEF Analyse
    <3>2. SoFarTracked => FromNothing(analyses[source], source)
      BY <2>1 DEF AnalysisInv, Logged
    <3> QED BY <3>1, <3>2, AnalysedKeeps
  <2>2. CASE source \notin DOMAIN analyses
    <3> DEFINE p == Loaded(run.profile)
    <3>1. Analysed(Analyze(p, Full(source)), TRUE) /\ UNCHANGED source
      BY <1>4, <2>2 DEF Analyse
    <3>2. p \in Read(source)
      BY LoadedIsRead
    <3>3. Full(source) = Full(p)
      BY <3>2, ReadIsText DEF Full, TypeInv
    <3> HIDE DEF p
    <3> DEFINE outcome == Analyze(p, Full(source))
    <3>4. FromNothing(outcome, source)
      BY <3>2, <3>3 DEF FromNothing
    <3> HIDE DEF outcome
    <3>5. Analysed(outcome, TRUE)
      BY <3>1 DEF outcome
    <3> QED BY <3>1, <3>4, <3>5, AnalysedKeeps
  <2> QED BY <2>1, <2>2
<1>5. CASE Recheck
  <2> DEFINE p == Loaded(run.profile)
             r == Reuse(p, latest.program)
  <2>1. /\ run.phase = "compare" /\ queue = {}
        /\ Analysed(Analyze(r.program, r.mask), TRUE) /\ UNCHANGED source
    BY <1>5 DEF Recheck
  <2>2. p \in Read(source) /\ IsText(p) /\ (Tracked(source) => Tracked(p))
    BY LoadedIsRead, ReadIsText DEF TypeInv
  <2>3. Worklist(latest.program, p, {}, invalidated)
    BY <2>1 DEF WorklistInv
  <2>4. latest.ok
    BY <2>1 DEF AnalysisInv, Comparing
  <2>5. ASSUME Tracked(source), SoFarTracked
        PROVE  FromNothing(Analyze(r.program, r.mask), source)
    <3>1. PICK text \in Sources : FromNothing(latest, text) /\ Tracked(text)
      BY <2>4, <2>5 DEF AnalysisInv, LatestKept, SoFarTracked
    <3>2. PICK q \in Read(text) : latest = Analyze(q, Full(q))
      BY <3>1 DEF FromNothing
    <3>3. IsText(q) /\ Tracked(q) /\ AllFit(q) /\ latest.program = Typed(q)
      BY <2>4, <3>1, <3>2, ReadIsText, AnalyzeFull
    <3> HIDE DEF p
    <3>4. Analyze(r.program, r.mask) = Analyze(p, Full(p))
      BY <2>2, <2>3, <2>5, <3>3, ReuseIsFull
    <3> HIDE DEF r
    <3> QED BY <2>2, <3>4 DEF FromNothing
  <2> HIDE DEF r, p
  <2> QED BY <2>1, <2>5, AnalysedKeeps
<1>6. CASE Compare \/ Stop \/ Return
  BY <1>1, <1>6 DEF Compare, Stop, Return, Idle, TypeInv, Told
<1>7. CASE \E k \in queue : Invalidate(k)
  BY <1>1, <1>7 DEF Invalidate
<1>8. CASE Generate \/ Link \/ StoreBuild
  BY <1>1, <1>8, GenerateRuns DEF Link, StoreBuild, TypeInv, Told
<1>9. CASE Save
  <2>1. /\ run.phase = "stored" /\ UNCHANGED <<source, analyses>>
        /\ latest' = IF run.store THEN run.outcome ELSE latest
        /\ run'.outcome = run.outcome /\ run'.phase # "compare"
    BY <1>9 DEF Save, TypeInv
  <2>2. source \in Sources \cap DOMAIN analyses
    BY <2>1 DEF AnalysisInv, Analysing, TypeInv, Told
  <2>3. Comparing' /\ Analysing'
    BY <2>1, <2>2 DEF Comparing, Analysing
  <2>4. ASSUME SoFarTracked' PROVE (Outcomes /\ Logged /\ LatestKept)'
    <3>1. Outcomes /\ Logged /\ LatestKept
      BY <2>1, <2>4 DEF AnalysisInv, SoFarTracked
    <3>2. FromNothing(run.outcome, source)
      BY <2>1, <3>1 DEF Outcomes, Told
    <3> QED BY <2>1, <2>2, <3>1, <3>2 DEF Outcomes, Logged, LatestKept, FromNothing
  <2> QED BY <2>3, <2>4 DEF AnalysisInv
<1>10. CASE UNCHANGED vars
  BY <1>1, <1>10 DEF vars
<1> QED BY <1>2, <1>3, <1>4, <1>5, <1>6, <1>7, <1>8, <1>9, <1>10 DEF Next

----------------------------------------------------------------------------
(* Kept code stands under the key of the program it was generated for, and *)
(* what a build links has the functions of its own program.                *)

CodesHonest == \A key \in DOMAIN codes : \E level : MirKey(codes[key], level) = key

\* The phases of a build that has its code.
Coded == {"generated", "linked", "stored"}

CodeMatches ==
  run.phase \in Coded =>
    Functions(run.code) = Functions(Compiled(run.outcome.program, run.profile))

CodeInv == CodesHonest /\ CodeMatches

LEMMA CodeInit == Init => CodeInv
<1> SUFFICES ASSUME Init PROVE CodeInv
  OBVIOUS
<1>1. run.phase = "idle" /\ DOMAIN codes = {}
  BY DEF Init, Idle
<1> QED BY <1>1 DEF CodeInv, CodesHonest, CodeMatches, Coded

LEMMA CodeNext == TypeInv /\ CodeInv /\ [Next]_vars => CodeInv'
<1> SUFFICES ASSUME TypeInv, CodeInv, [Next]_vars PROVE CodeInv'
  OBVIOUS
<1>1. ASSUME UNCHANGED codes,
             run'.phase \in Coded => run.phase \in Coded /\ run'.outcome = run.outcome
                                      /\ run'.profile = run.profile /\ run'.code = run.code
      PROVE  CodeInv'
  BY <1>1 DEF CodeInv, CodesHonest, CodeMatches
<1>2. CASE Generate
  <2> DEFINE program == Compiled(run.outcome.program, run.profile)
             key == MirKey(program, OptLevel[run.profile])
             code == CodeUnder(key, program)
  <2>1. /\ codes' = [k \in {key} \cup DOMAIN codes |-> IF k = key THEN code ELSE codes[k]]
        /\ run' = [run EXCEPT !.phase = "generated", !.code = code]
    BY <1>2 DEF Generate, KeepCode
  <2>2. run'.outcome = run.outcome /\ run'.profile = run.profile /\ run'.code = code
    BY <2>1 DEF TypeInv
  <2>3. \E level : MirKey(code, level) = key
    BY DEF CodeUnder, CodeInv, CodesHonest
  <2>4. CodesHonest'
    <3> HIDE DEF code, key
    <3> QED BY <2>1, <2>3 DEF CodeInv, CodesHonest
  <2>5. Functions(code) = Functions(program)
    <3> HIDE DEF code, program
    <3> QED BY <2>3 DEF MirKey
  <2> QED BY <2>2, <2>4, <2>5 DEF CodeInv, CodeMatches
<1>3. ASSUME NEW outcome, NEW new, Analysed(outcome, new) PROVE run'.phase \notin Coded
  <2>1. run' = [run EXCEPT !.phase = IF outcome.ok THEN "analysed" ELSE "done",
                           !.outcome = outcome, !.store = new]
    BY <1>3 DEF Analysed
  <2> QED BY <2>1 DEF TypeInv, Coded
<1>4. CASE Analyse \/ Recheck
  BY <1>1, <1>3, <1>4 DEF Analyse, Recheck
<1>5. CASE (\E text \in Sources : Edit(text)) \/ (\E k \in queue : Invalidate(k))
  BY <1>1, <1>5 DEF Edit, Invalidate
<1>6. CASE \E p \in Profiles : Start(p)
  BY <1>1, <1>6 DEF Start, Idle, Coded
<1>7. CASE Compare \/ Return \/ Stop
  BY <1>1, <1>7 DEF Compare, Return, Stop, Idle, Coded, TypeInv
<1>8. CASE Link \/ StoreBuild \/ Save
  BY <1>1, <1>8 DEF Link, StoreBuild, Save, Coded, TypeInv
<1>9. CASE UNCHANGED vars
  BY <1>1, <1>9 DEF vars
<1> QED BY <1>2, <1>4, <1>5, <1>6, <1>7, <1>8, <1>9 DEF Next

\* As long as every text so far was Tracked, a build that starts from what earlier
\* builds have left finds the errors, and compiles the program, that a build from nothing
\* would, and the code it links has the functions of that program: what build_with_options
\* reuses of analyses and of code is transparent, whatever was edited, built or interrupted
\* before, and in whatever order the worklist was emptied.
THEOREM ReuseIsTransparent == Spec => []BuildTransparent
<1> DEFINE Inv == TypeInv /\ WorklistInv /\ AnalysisInv /\ CodeInv
<1>1. Init => Inv
  BY FreshInit, WorklistInit, AnalysisInit, CodeInit DEF FreshInv
<1>2. Inv /\ [Next]_vars => Inv'
  BY TypeNext, WorklistNext, AnalysisNext, CodeNext
<1>3. Inv => BuildTransparent
  <2> SUFFICES ASSUME Inv, AllTracked, NothingIgnored(source) PROVE BuildTransparent
    BY DEF BuildTransparent, AnalysisTransparent, CodeTransparent
  <2>1. Read(source) = {source}
    BY SourcesAreTexts, NeutralisedAreTexts DEF Read, TypeInv
  <2>2. run.phase \in Told => run.outcome = Analyze(source, Full(source))
    BY <2>1 DEF AnalysisInv, Outcomes, FromNothing, AllTracked, SoFarTracked
  <2>3. AnalysisTransparent
    BY <2>2 DEF AnalysisTransparent, Told
  <2>4. CodeTransparent
    BY <2>2 DEF CodeTransparent, CodeInv, CodeMatches, Told, Coded
  <2> QED BY <2>3, <2>4 DEF BuildTransparent
<1> QED BY <1>1, <1>2, <1>3, PTL DEF Spec

=============================================================================
