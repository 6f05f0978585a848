------------------------- MODULE MCIncrementalBuild -------------------------
EXTENDS IncrementalBuild

Statement(key, gives, wants) ==
  [key |-> key, gives |-> gives, wants |-> wants, reads |-> <<>>, binds |-> <<>>,
   variable |-> FALSE, mentions |-> DOMAIN wants, container |-> FALSE, ignored |-> FALSE,
   resolves |-> DOMAIN wants # {}, typed |-> FALSE]
Impl(gives, wants) ==
  [Statement("impl", gives, wants) EXCEPT !.container = TRUE, !.resolves = FALSE]

\* A function with a local x.
f == [Statement("f", [f |-> 1], <<>>) EXCEPT !.binds = [x |-> 1]]
g == Statement("g", [g |-> 1], [f |-> 1])
show == Impl([show |-> 1], <<>>)
debug == Impl([debug |-> 1], <<>>)
\* A skill with the method show, and an implementation of it.
Show == [Statement("Show", [Show |-> 1], <<>>) EXCEPT !.mentions = {"show"}]
shows(sig) == Impl([show |-> sig], [Show |-> 1])
P(sig) == Statement("P", [P |-> sig], <<>>)  \* a type
main(wants) == Statement("main", <<>>, wants)
quarantined == [Statement("t", <<>>, [f |-> 2]) EXCEPT !.ignored = TRUE]
\* A variable at the top level, and a function that assigns it.
x(type) == [Statement("x", <<>>, <<>>) EXCEPT !.binds = [x |-> type], !.variable = TRUE]
sets == [Statement("sets", [sets |-> 1], <<>>) EXCEPT !.reads = [x |-> 1], !.mentions = {"x"}]
\* A private skill; a function that returns a P.
Hidden(sig) ==
  [Show EXCEPT !.key = IF sig = 1 THEN "skill Show 1" ELSE "skill Show 2", !.gives = [Show |-> sig]]
made == [Statement("made", [made |-> 1], [P |-> 1]) EXCEPT !.mentions = {}, !.resolves = FALSE]

Programs ==
  {<<shows(v), Show, main([show |-> 1])>> : v \in {1, 2}}
    \cup {<<f, g, main([g |-> 1])>>}
    \cup {<<x(v), sets>> : v \in {1, 2}} \cup {<<P(1), debug, quarantined>>}

\* What is not Tracked: two blocks for one type; a local that is read by the function
\* after it; a variable that is read before it stands; a private skill; and a type
\* that nobody depends on.
Special ==
  {<<show, debug>>, <<f, sets>>, <<sets, x(1)>>}
    \cup {<<shows(1), Hidden(v)>> : v \in {1, 2}} \cup {<<P(v), made>> : v \in {1, 2}}

MCSources == Programs \cup Special
MCStatements == UNION {Range(p) : p \in MCSources}
MCProfiles == {"debug", "test", "release"}
MCOutput == [p \in MCProfiles |-> IF p = "test" THEN "test/main" ELSE "out/main"]
MCOptLevel == [p \in MCProfiles |-> IF p = "release" THEN 3 ELSE 0]
MCTests == {"g", "t"}
MCDeclarations == {Show} \cup UNION {{Hidden(v), P(v)} : v \in {1, 2}}
=============================================================================
