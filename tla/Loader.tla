------------------------------- MODULE Loader -------------------------------
(***************************************************************************)
(* From a source file to the program that is compiled (src/loader): the    *)
(* statements of the file, with every load replaced by what it selects of  *)
(* another file, under that file's namespace.                              *)
(*                                                                         *)
(* A name is a sequence of segments: math::float::sign and math.float.sign *)
(* are <<"math", "float", "sign">>.  A statement of a file is what it      *)
(* declares and its node (ModuleRenamer).  The name of a function nested   *)
(* in another, of::x, is joined: a name without a dot.  Foreign functions  *)
(* are those of the C library.                                             *)
(***************************************************************************)
EXTENDS ModuleRenamer, LoadPaths

CONSTANTS
  Projects,  \* projects that are compiled
  MaxDepth   \* MAX_LOCAL_LOAD_DEPTH

ASSUME LoaderAssumption == MaxDepth \in Nat \ {0}

VARIABLES
  project,   \* the project
  result     \* the program loaded from it, and the error, or NotLoaded
vars == <<project, result>>

Tail1(name) == <<Last(name)>>

----------------------------------------------------------------------------
\* Names of statements.

Namespace(s) == IF s.alias # "" THEN s.alias ELSE Last(s.path)

ExportName(s) ==
  CASE s.public \/ s.kind \in {"lib", "module"} -> s.name
    [] s.kind = "load" -> <<Namespace(s)>>
    [] OTHER -> NoName

Dependencies(s) ==
  IF s.kind \in {"load", "local"} THEN {<<s.path[i]>> : i \in DOMAIN s.path} \cup s.items
  ELSE Collected(s.body) \cup {Tail1(n) : n \in Collected(s.body)}

Bindings(s) == {<<l>> : l \in Bound(s.body)}

\* collect_program_dependency_candidates.  A name that some statement of the
\* file binds is no candidate, unless it ends a longer one.
Candidates(stmts) ==
  LET deps  == UNION {Dependencies(s) : s \in {t \in ToSet(stmts) : t.kind # "load"}}
      all   == deps \cup {Tail1(d) : d \in deps}
      bound == UNION {Bindings(s) : s \in ToSet(stmts)}
  IN  {c \in all : c \in bound => \E d \in all : Len(d) > 1 /\ Tail1(d) = c}

----------------------------------------------------------------------------
\* What a load selects.

\* infer_reachable_import_items: all of the file, or the exports that somebody
\* mentions.
Everything == [all |-> TRUE, items |-> {}]

Reaches(scope, name) == \E c \in scope : IsSuffix(name, c)
Inside(scope, namespace) == \E c \in scope : \E i \in 1 .. Len(c) - 1 : <<c[i]>> = namespace

Inferred(stmts, scope) ==
  LET Named(kinds) == {ExportName(s) : s \in {t \in ToSet(stmts) : t.kind \in kinds}}
      exports    == {ExportName(s) : s \in ToSet(stmts)} \ {NoName}
      selectable == exports \ Named({"lib", "module"})
      selected   == {e \in selectable : Reaches(scope, e)}
  IN  IF \/ selected = {}
         \/ \E e \in (selectable \ selected) \cap Named({"load"}) : Inside(scope, e)
         \/ \E s \in ToSet(stmts) : s.kind = "extern" /\ ~s.public /\ Reaches(scope, s.name)
      THEN Everything ELSE [all |-> FALSE, items |-> selected]

\* resolve_statement_deps: does s declare what dependency d needs?
Provides(s, d) ==
  LET export   == ExportName(s)
      internal == IF s.kind \in {"extern", "lib", "fn", "const", "set"} THEN s.name ELSE NoName
  IN  \/ \E c \in {d, Tail1(d)} :
           \/ c \in {export, internal}
           \/ export = NoName /\ Len(internal) > 1 /\ Tail1(internal) = c
      \/ export # NoName /\ IsStrictPrefix(export, d)

Needed(stmts, i) == {j \in DOMAIN stmts : \E d \in Dependencies(stmts[i]) : Provides(stmts[j], d)}

Mut_Closure(stmts, found) == found
RECURSIVE Close(_, _)
Close(stmts, found) ==
  LET more == found \cup UNION {Needed(stmts, i) : i \in found} IN
    IF more = found THEN found ELSE Close(stmts, more)
Closure(stmts, found) == Close(stmts, found)

\* The implementations of the types found so far, and all constants, come too.
Implementations(stmts, found) ==
  LET types == {stmts[i].name : i \in {j \in found : stmts[j].kind = "type"}} IN
    {i \in DOMAIN stmts : stmts[i].kind = "impl" /\ {stmts[i].name, Tail1(stmts[i].name)} \cap types # {}}

\* An item names a statement, or what was loaded under that name.
Names(item, s) ==
  \/ item = ExportName(s)
  \/ ~s.joined /\ IsStrictPrefix(item, ExportName(s))

\* select_imported_statements, the indices
Selection(stmts, items) ==
  LET Exported(item) == {i \in DOMAIN stmts : Names(item, stmts[i])}
      found == Closure(stmts, UNION {Exported(item) : item \in items})
  IN  Closure(stmts, found \cup Implementations(stmts, found))
        \cup {i \in DOMAIN stmts : stmts[i].kind = "const"}

Unmatched(stmts, items) == {item \in items : \A s \in ToSet(stmts) : ~Names(item, s)}

Only(stmts, kept) ==
  FoldLeft(LAMBDA out, i : IF i \in kept THEN Append(out, stmts[i]) ELSE out, <<>>,
           [i \in DOMAIN stmts |-> i])

----------------------------------------------------------------------------
\* Namespaces.

\* statement_prefix: the name of the module for its own statements, the path
\* below it for those of files below, none for others.
PrefixOf(module, target, origin) ==
  LET base  == Front(target)
      below == SubSeq(origin, Len(base) + 1, Len(origin))
      parts == IF Len(below) > 1 /\ Head(below) \in {"core", "ext"} THEN Tail(below) ELSE below
      dirs  == IF Last(parts) = "mod" THEN Front(parts) ELSE parts
  IN  CASE origin = target -> <<module>>
        [] ~IsPrefix(base, origin) -> <<>>
        [] OTHER -> IF dirs = <<>> THEN <<module>> ELSE dirs

RenamedBody(s, prefix, symbols) == [s EXCEPT !.body = RenamedNode(@, prefix, symbols, {})]

\* rename_decl_name; a joined name has no dot.
RenamedName(s, prefix, symbols) ==
  IF ShouldPrefix(s.name, symbols, {}) /\ (s.joined \/ Len(s.name) = 1)
  THEN [s EXCEPT !.name = prefix \o @, !.joined = FALSE] ELSE s

RenamedDeclaration(s, prefix, symbols) == RenamedBody(RenamedName(s, prefix, symbols), prefix, symbols)

\* An implementation is named as its type is; foreign functions keep their names.
Mut_Renamed(s, prefix, symbols) == s
Renamed(s, prefix, symbols) ==
  CASE s.kind \in {"load", "local"} -> s
    [] s.kind = "extern" -> RenamedBody(s, prefix, symbols)
    [] OTHER -> RenamedDeclaration(s, prefix, symbols)

\* prefix_loaded_statements_scoped
Prefixed(stmts, module, target) ==
  LET Place(s) == PrefixOf(module, target, s.origin)
      Symbols(p) == {ExportName(s) : s \in {t \in ToSet(stmts) : Place(t) = p}}
  IN  [i \in DOMAIN stmts |->
         IF Place(stmts[i]) = <<>> THEN stmts[i]
         ELSE Renamed(stmts[i], Place(stmts[i]), Symbols(Place(stmts[i])))]

----------------------------------------------------------------------------
\* A project: its files, what LoadPaths reads of the disk, and what @[derive]
\* adds to the file that is compiled.

\* scan_load_targets, resolve_load_local_target: the longest part of a path of
\* load that resolves; all of one of load!.
ScanTarget(p, file, s) ==
  LET lengths == {n \in 1 .. Len(s.path) : LoadPath(p, SubSeq(s.path, 1, n)) # Nowhere}
      target == IF s.kind = "local" THEN LocalPath(p, s.path, s.absolute, Front(file))
                ELSE IF lengths = {} THEN Nowhere ELSE LoadPath(p, SubSeq(s.path, 1, Max(lengths)))
  IN  {Canonical(f) : f \in {t \in {target} : IsFile(p, t)}}

RECURSIVE Reachable(_, _)
Reachable(p, seen) ==
  LET Loads(f) == {s \in ToSet(p.files[f]) : s.kind \in {"load", "local"}}
      more == seen \cup UNION {UNION {ScanTarget(p, f, s) : s \in Loads(f)} : f \in seen}
  IN  IF more = seen THEN seen ELSE Reachable(p, more)

\* scan_dependency_candidates, before anything is selected
Mut_Scan(p) == {}
Scan(p) == UNION {Candidates(p.files[f]) : f \in Reachable(p, {p.entry})}

\* The resolver: what has been mentioned so far, the files that are expanded and
\* those that are being expanded, and the statements of the latest of them.
Start(p) ==
  [scope |-> Scan(p), expanded |-> <<>>, active |-> {}, error |-> "none", program |-> <<>>]

Fails(st, error) == [st EXCEPT !.error = error, !.program = <<>>]

\* The statements of a file, with the path it was reached by.
Parsed(p, path) ==
  LET stmts == p.files[Canonical(path)] IN [i \in DOMAIN stmts |-> [stmts[i] EXCEPT !.origin = path]]

\* The expansion of a file begins.
Mut_Entering(st, file) == [st EXCEPT !.active = @ \cup {file}, !.expanded = (file :> <<>>) @@ @,
                                     !.program = <<>>]
Entering(st, file) == [st EXCEPT !.active = @ \cup {file}, !.program = <<>>]

RECURSIVE LoadFile(_, _, _, _)

\* load_selected_imports: a file without loads is taken as it is, any other as it
\* is once loaded.
LoadSelected(p, st, loaded, file, items) ==
  LET own    == Parsed(p, file)
      source == IF \E s \in ToSet(own) : s.kind = "load"
                THEN loaded ELSE [st EXCEPT !.program = own]
  IN  IF source.error # "none" THEN source
      ELSE IF Unmatched(source.program, items) # {} THEN Fails(source, "not exported")
      ELSE [source EXCEPT !.program = Only(@, Selection(@, items))]

\* expand_load_prefix_group: load a::b::c takes what b exports under c.
LoadGroup(p, parent, file, s) ==
  LET group == {ExportName(t) : t \in {u \in ToSet(parent.program) :
                  u.joined /\ IsStrictPrefix(Tail1(s.path), ExportName(u))}}
  IN  IF parent.error # "none" THEN parent
      ELSE IF group = {} THEN Fails(parent, "not exported")
      ELSE LoadSelected(p, parent, parent, file, group)

\* expand_load, loaded being the whole file.  Where pick is false nothing is left
\* out: the reference.
ExpandLoad(p, st, loaded, file, s, pick) ==
  LET chosen == CASE ~pick -> Everything
                  [] s.items # {} -> [all |-> FALSE, items |-> s.items]
                  [] OTHER -> Inferred(p.files[Canonical(file)], st.scope)
      taken == IF chosen.all THEN loaded ELSE LoadSelected(p, st, loaded, file, chosen.items)
  IN  IF s.path = <<"kioto">> /\ s.alias = "" THEN taken
      ELSE [taken EXCEPT !.program = Prefixed(@, Namespace(s), file)]

\* expand_load_local; the declaration stays, for the check of use!.
ExpandLocal(loaded, file, s) ==
  [loaded EXCEPT !.program = Append(Prefixed(@, Last(s.path), file), s)]

\* The file that a statement loads, or that of the module whose group it loads.
IsGroup(p, s) == s.kind = "load" /\ LoadPath(p, s.path) = Nowhere /\ Len(s.path) >= 3
Target(p, s) ==
  IF s.kind = "local" THEN LocalPath(p, s.path, s.absolute, Front(s.origin))
  ELSE LoadPath(p, IF IsGroup(p, s) THEN Front(s.path) ELSE s.path)

\* expand_statement.  A load adds what its own file mentions to the scope.
ExpandStatement(p, st, s, own, pick) ==
  LET inner == [st EXCEPT !.program = <<>>,
                          !.scope = IF s.kind = "load" /\ ~IsGroup(p, s) THEN @ \cup own ELSE @]
      file == Target(p, s)
      loaded == LoadFile(p, inner, file, pick)
      new == CASE s.kind \notin {"load", "local"} -> [inner EXCEPT !.program = <<s>>]
               [] ~IsFile(p, file) -> Fails(inner, "not found")
               [] s.kind = "local" -> ExpandLocal(loaded, file, s)
               [] IsGroup(p, s) -> LoadGroup(p, loaded, file, s)
               [] OTHER -> ExpandLoad(p, inner, loaded, file, s, pick)
  IN  IF st.error # "none" THEN st ELSE [new EXCEPT !.program = st.program \o @]

Mut_Leaving(st, file, done) ==
  IF done.error # "none" THEN done ELSE [done EXCEPT !.expanded = (file :> done.program) @@ @]
Leaving(st, file, done) ==
  IF done.error # "none" THEN done
  ELSE [done EXCEPT !.active = st.active, !.expanded = (file :> done.program) @@ @]

LoadFile(p, st, path, pick) ==
  LET file   == Canonical(path)
      source == Parsed(p, file)
                  \o (IF st.active = {} THEN [i \in DOMAIN p.derived |->
                                                [p.derived[i] EXCEPT !.origin = file]] ELSE <<>>)
      own    == Candidates(source)
  IN  CASE Cardinality(st.active) >= MaxDepth -> Fails(st, "too deep")
        [] file \in DOMAIN st.expanded -> [st EXCEPT !.program = st.expanded[file]]
        [] file \in st.active -> Fails(st, "cyclic")
        [] OTHER -> Leaving(st, file, FoldLeft(LAMBDA acc, s : ExpandStatement(p, acc, s, own, pick),
                                               Entering(st, file), source))

\* load_program_with_cache; of identical statements the first remains, here in a
\* set.
Loaded(done) == [error |-> done.error, program |-> ToSet(done.program)]
Load(p, pick) == Loaded(LoadFile(p, Start(p), p.entry, pick))

NotLoaded == [error |-> "not loaded", program |-> {}]

Init == project \in Projects /\ result = NotLoaded

Compile ==
  /\ result = NotLoaded
  /\ result' = Load(project, TRUE)
  /\ UNCHANGED project

Next == Compile

Spec == Init /\ [][Next]_vars

----------------------------------------------------------------------------
LoadsOf(stmts) == {i \in DOMAIN stmts : stmts[i].kind \in {"load", "local"}}

\* The ways along which the loads of the files lead, through no file twice: the statements
\* that load, and the files that they load.
Links(file) ==
  {[load |-> s, file |-> Target(project, s)] :
     s \in {t \in ToSet(Parsed(project, file)) : t.kind \in {"load", "local"}}}
Leads(link) == IsFile(project, link.file)
Passes(walk) == {Canonical(walk[i].file) : i \in DOMAIN walk}

RECURSIVE Extended(_)
Extended(walks) ==
  LET more == walks \cup UNION {{Append(w, l) : l \in {k \in Links(Last(w).file) :
                                   Leads(k) /\ Canonical(k.file) \notin Passes(w)}} : w \in walks}
  IN  IF more = walks THEN walks ELSE Extended(more)

NoLoad == [kind |-> "entry", path |-> <<>>, alias |-> ""]
Walks == Extended({<<[load |-> NoLoad, file |-> project.entry]>>})

\* The same project with the loads of one file in another order.
Reordered(p) ==
  UNION {LET stmts == p.files[f]
             loads == LoadsOf(stmts)
             orders == {q \in [loads -> loads] : \A i, j \in loads : q[i] = q[j] => i = j}
         IN  {[p EXCEPT !.files[f] =
                 [i \in DOMAIN stmts |-> IF i \in loads THEN stmts[q[i]] ELSE stmts[i]]] : q \in orders}
         : f \in DOMAIN p.files}

SameProgram(again) ==
  /\ (again.error = "none") = (result.error = "none")
  /\ again.error = "none" => again.program = result.program

\* The order of the loads is not part of the language: no other order of the
\* loads of a file gives another program, or an error instead of a program
\* (comment of scan_dependency_candidates).  An entry file whose derived code
\* mentions what no file does is not covered: the scan does not see it.
LoadOrderIrrelevant ==
  result # NotLoaded /\ Candidates(project.derived) \subseteq Scan(project) =>
    \A other \in Reordered(project) : SameProgram(Load(other, TRUE))

\* What a mention means in a program: the declarations of the longest end of it
\* that is declared (strip_root_namespace of the type checker).
Meaning(program, name) ==
  LET declared == {s \in program : s.kind \in {"fn", "extern", "const", "set", "type"}}
      ends == {n \in 1 .. Len(name) : \E s \in declared : s.name = SubSeq(name, n, Len(name))}
  IN  IF ends = {} THEN {}
      ELSE {[kind |-> s.kind, public |-> s.public, origin |-> s.origin]
              : s \in {t \in declared : t.name = SubSeq(name, Min(ends), Len(name))}}

\* Mentions that the selection follows: of one declaration, not in the type of a
\* result or of a field, not of a private type, not of a name that the file also
\* binds locally.
Followed(s, whole) ==
  LET bound == UNION {Bound(t.body) : t \in {u \in whole : u.origin = s.origin}} IN
    {name \in Collected(s.body) :
       /\ Last(name) \notin bound
       /\ Cardinality(Meaning(whole, name)) = 1
       /\ \A t \in Meaning(whole, name) : t.kind = "type" => t.public}

\* Modules with load! lines and no load line, which are selected from unexpanded.
LocalOnly(stmts) ==
  LoadsOf(stmts) # {} /\ \A s \in ToSet(stmts) : s.kind # "load"

\* The entry of a package may be written with steps up: the loader keeps them in the path,
\* under which it then knows the statements of the file or not.
Straight == \A w \in Walks : \A i \in DOMAIN w : w[i].file = Canonical(w[i].file)

Expanded == \A f \in DOMAIN project.files : LocalOnly(project.files[f]) => f = project.entry

Chooses(f) == \E s \in ToSet(project.files[f]) : s.items # {}

Completes(whole) ==
  whole.error = "none" =>
    /\ result.error = "none"
    /\ \A s \in result.program : ~Chooses(s.origin) =>
         \A name \in Followed(s, whole.program) :
           Meaning(result.program, name) = Meaning(whole.program, name)
    /\ (\A f \in DOMAIN project.files : ~Chooses(f)) =>
         \A s \in result.program, t \in whole.program :
           s.kind = "type" /\ t.kind = "impl" /\ t.name = s.name => t \in result.program

\* What the selection leaves out is not missed: every mention in the program
\* means what it would mean in the program with nothing left out, and a type
\* comes with its implementations.  Where the statements of a file choose the
\* items they load, that file may miss what it did not choose.
SelectionComplete ==
  result # NotLoaded /\ Expanded /\ Straight /\ Candidates(project.derived) \subseteq Scan(project)
    => Completes(Load(project, FALSE))

\* The namespace that a load gives: none to what it takes of kioto, or of a group.
Given(l) ==
  CASE l.kind = "entry" \/ IsGroup(project, l) \/ (l.path = <<"kioto">> /\ l.alias = "") -> <<>>
    [] l.kind = "local" -> <<Last(l.path)>>
    [] OTHER -> <<Namespace(l)>>

\* A statement of the program is one of its file, but that names which the file
\* exports have the namespace of a load of that file: each export stands under it, and is
\* mentioned under it wherever its name stands for it and nowhere else, so that no
\* parameter, variable or field of that name is taken for the export, nor the export
\* for it.  Statements that are not Plain are not covered: there the renamer goes by
\* rules of its own; nor are files below the one that loads a file bare.
NamesKept ==
  Straight =>
  \A s \in {t \in result.program : t.kind \notin {"load", "local"}} :
    LET stmts   == ToSet(project.files[s.origin])
        sources == {o \in stmts \cup ToSet(project.derived) : o.kind = s.kind /\ Tail1(o.name) = Tail1(s.name)}
        Placed(o, space) == IF o.kind = "extern" THEN o.name ELSE space \o o.name
        Came(o, space) == \E t \in result.program :
                            t.origin = s.origin /\ t.kind = o.kind /\ t.name = Placed(o, space)
        Symbols(space) == {o.name : o \in {t \in stmts : t.public /\ Came(t, space)}}
        Kept(o, space) ==
          /\ s.name = IF o.public \/ o.name \in Symbols(space) THEN Placed(o, space) ELSE o.name
          /\ Plain(o.body) => s.body = LexicalNode(o.body, space, Symbols(space), {})
    IN  \E w \in {v \in Walks : Last(v).file = s.origin} : \E o \in sources : Kept(o, Given(Last(w).load))

\* A load that leads back to a file still being loaded is reported as such, and every
\* error has its cause: what the selection leaves out hides no cycle, a file loaded
\* along several paths is none, and the limit of depth is for what is as deep.
CyclesReported ==
  LET Somewhere(P(_, _)) == \E w \in Walks : \E l \in Links(Last(w).file) : P(w, l)
      cyclic == Somewhere(LAMBDA w, l : Leads(l) /\ Canonical(l.file) \in Passes(w))
  IN  Expanded =>
        CASE result.error = "none"         -> ~cyclic
          [] result.error = "cyclic"       -> cyclic
          [] result.error = "too deep"     -> Somewhere(LAMBDA w, l : Leads(l) /\ Len(w) >= MaxDepth)
          [] result.error = "not found"    -> Somewhere(LAMBDA w, l : ~Leads(l))
          [] result.error = "not exported" -> Somewhere(LAMBDA w, l : l.load.items # {} \/ IsGroup(project, l.load))
          [] OTHER                         -> result = NotLoaded
=============================================================================
