------------------------------ MODULE MCLoader ------------------------------
EXTENDS Loader

\* A program with a local module, a package with two modules below it, a second
\* library directory, a package whose entry leaves it, and one whose entry is written
\* with a step up.
Main  == <<"app", "main">>
A     == <<"app", "a", "mod">>
K     == <<"lib", "k", "mod">>
M     == <<"lib", "k", "core", "m", "mod">>
N     == <<"lib", "k", "core", "m", "n">>
W     == <<"lib", "w", "mod">>
Kioto == <<"vendor", "kioto", "src", "kioto">>

Manifest(entry, exports) == [entry |-> entry, exports |-> exports]
Module(path)    == [path |-> path, extension |-> TRUE]
Directory(path) == [path |-> path, extension |-> FALSE]
MCManifests ==
  (<<"app">> :> Manifest(<<"main">>, << >>)) @@
  (<<"lib", "k">> :> Manifest(<<"mod">>, "m" :> Directory(<<"core", "..", "core", "m">>))) @@
  (<<"lib", "k", "core", "m">> :> Manifest(<<"mod">>, "n" :> Module(<<"n">>))) @@
  (<<"lib", "x">> :> Manifest(<<"..", "k", "mod">>, << >>)) @@
  (<<"lib", "w">> :> Manifest(<<"core", "..", "mod">>, << >>)) @@
  (<<"lib", "w", "core">> :> Manifest(<<"mod">>, << >>)) @@
  (<<"vendor", "kioto">> :> Manifest(<<"src", "kioto">>, << >>))

Nothing == Group(<<>>)
I64     == TypeMention(<<"i64">>)
Statement(kind, name, body) ==
  [kind |-> kind, name |-> name, public |-> FALSE, joined |-> Len(name) > 1, body |-> body,
   path |-> <<>>, alias |-> "", items |-> {}, absolute |-> FALSE, origin |-> <<>>]
Pub(s) == [s EXCEPT !.public = TRUE]

Use(name)   == Do(Call(name, <<>>))
Uses1(names) == SetToSeq({Use(n) : n \in names})
FnOf(name, body) == Statement("fn", name, Function(Last(name), {}, {}, <<I64>>, body))
Fn(name, names)  == FnOf(<<name>>, Uses1(names))
PubFn(name, names) == Pub(Fn(name, names))
Const(name) == Statement("const", <<name>>, Let(name, I64, Nothing))
Type(name)  == Statement("type", <<name>>, TypeDecl(name, {}, <<>>, <<Let("at", I64, Nothing)>>))
ImplOf(name, names) ==
  Statement("impl", <<name>>, Impl(<<name>>, <<>>, {}, <<Function("new", {}, {}, <<>>, Uses1(names))>>))

LoadOf(path, items) == [Statement("load", <<>>, Nothing) EXCEPT !.path = path, !.items = items]
Local(path) == [Statement("local", <<>>, Nothing) EXCEPT !.path = path]
FromRoot(s) == [s EXCEPT !.absolute = TRUE]

k     == LoadOf(<<"k">>, {})
kioto == LoadOf(<<"kioto">>, {})
km    == LoadOf(<<"k", "m">>, {})
group == LoadOf(<<"k", "m", "of">>, {})
x     == LoadOf(<<"x">>, {})
up    == LoadOf(<<"w">>, {})
a     == Local(<<"a">>)

kf == <<"k", "f">>
mg == <<"m", "g">>
mh == <<"m", "h">>

MainFiles ==
  {loads \o <<Type("D"), Fn("main", names)>> :
     loads \in {<<k, a>>, <<kioto, a>>, <<km, k, a>>, <<group, [k EXCEPT !.alias = "q"]>>, <<x, a>>, <<up, a>>,
                <<LoadOf(<<"k">>, {<<"f">>}), a>>},
     names \in {{kf}, {mg}, {<<"k", "m", "g">>, <<"a", "h">>}, {<<"a", "h">>, <<"f">>}, {mh, <<"of", "x">>, <<"D">>}}}

AFiles ==
  {<<Fn("p", {}), PubFn("h", {<<"p">>})>>,
   <<k, PubFn("h", {kf})>>,
   <<kioto, Pub(FnOf(<<"h">>, <<Let("f", I64, Nothing), Use(mg)>>))>>,
   <<km, FromRoot(a), PubFn("h", {mh})>>}

KFiles ==
  {<<km, PubFn("f", {mh}), PubFn("e", {<<"p">>}), Fn("p", {})>>,
   <<km, PubFn("f", {<<"p">>}), Fn("p", {mg})>>,
   <<Local(<<"core", "m", "n">>), PubFn("f", {<<"c">>}), Const("c")>>,
   <<PubFn("f", {<<"T">>}), Pub(Type("T")), ImplOf("T", {<<"T">>, <<"U">>}), Pub(Type("U")), ImplOf("U", {<<"U">>})>>,
   <<PubFn("f", {<<"S">>}), Type("S"), PubFn("e", {<<"f">>})>>}

\* A module whose statements use the names of its exports for their own variables.
Of(e) == Mention(<<e>>)
Assigning ==
  <<Let("q", TypeMention(<<"T">>), Call(<<"h">>, <<Of("q")>>)),
    Assigned(Of("q"), Wrapped(Of("h"))),
    Branch(<<Of("h")>>, <<<<MoveTo("h", Of("c")), Use(<<"h">>)>>, <<Use(<<"h">>)>>>>),
    Use(<<"h">>), Use(<<"q">>)>>
Choosing ==
  <<Matched(Member(Of("h"), <<"q">>),
            <<Case(Guarded(Pattern(<<"E">>, {"q"}, <<Of("c")>>), <<Of("h")>>),
                   <<Use(<<"q">>), Loop({"h"}, Of("h"), <<Use(<<"h">>)>>)>>),
              Case(Variant(<<"E">>, <<"h">>, <<>>), <<Use(<<"q">>)>>)>>,
            <<Do(AnonymousFn({"c"}, <<Mention(<<"T">>)>>, <<Use(<<"c">>), Use(<<"q">>)>>))>>),
    Quietly(<<Of("c")>>)>>
Shadowing ==
  <<Pub(Statement("fn", <<"g">>, Function("g", {"E"}, {"q"}, <<Mention(<<"T">>), I64>>, Assigning))),
    Pub(FnOf(<<"h">>, Choosing)), PubFn("q", {}), Const("c"),
    Pub(Statement("type", <<"T">>, TypeDecl("T", {"h"}, <<TypeMention(<<"W">>)>>, <<Let("c", TypeMention(<<"h">>), Nothing)>>))),
    Statement("impl", <<"T">>, Impl(<<"T">>, <<Mention(<<"W">>)>>, {"E"},
       <<Function("h", {}, {"g"}, <<TypeMention(<<"E">>)>>, <<Use(<<"g">>), Use(<<"q">>)>>),
         Function("new", {}, {}, <<Mention(<<"T">>)>>, <<Use(<<"g">>)>>)>>)),
    Pub(Statement("skill", <<"W">>, Skill("W", <<"h">>, <<Mention(<<"T">>)>>))),
    Pub(Statement("type", <<"E">>, EnumDecl("E", <<TypeMention(<<"W">>)>>, <<Mention(<<"T">>)>>)))>>

MFiles ==
  {<<PubFn("g", {<<"q">>}), PubFn("h", {<<"c">>}), Fn("q", {}), Const("c")>>,
   <<LoadOf(<<"k", "m", "n">>, {}), PubFn("g", {<<"n", "z">>, <<"h">>}), PubFn("h", {<<"ext">>}),
     Statement("extern", <<"ext">>, Foreign("ext", "c", <<I64>>)), Pub(FnOf(<<"of", "x">>, Uses1({<<"r">>}))), Fn("r", {})>>,
   <<PubFn("g", {}), Pub(Statement("fn", <<"h">>, Function("h", {}, {}, <<TypeMention(<<"R">>)>>, <<>>))), Pub(Type("R")), k>>,
   Shadowing}

NFile ==
  <<PubFn("z", {}), Pub(FnOf(<<"y">>, <<Do(Quoted(Of("z"))), QueryOn("z", <<Of("y")>>, <<Use(<<"z">>)>>)>>))>>

Derived == {<<>>, <<ImplOf("D", {mh})>>}

MCProjects ==
  {[files |-> (Main :> f) @@ (A :> g) @@ (K :> h) @@ (M :> i) @@ (N :> NFile) @@ (Kioto :> h) @@ (W :> h),
    manifests |-> MCManifests, libs |-> <<<<"vendor">>, <<"lib">>>>, entry |-> Main, derived |-> d]
     : f \in MainFiles, g \in AFiles, h \in KFiles, i \in MFiles, d \in Derived}
=============================================================================
