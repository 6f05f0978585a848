----------------------------- MODULE LoadPaths -----------------------------
(***************************************************************************)
(* Where a load leads: the packages below the library directories, the     *)
(* exports of their manifests, and the files beside a file                 *)
(* (src/loader/load.rs, src/loader/lload.rs, src/avens/manifest.rs).       *)
(*                                                                         *)
(* A path is a sequence of names, steps up among them.  Files have an      *)
(* extension, which is left out of their paths, directories have none, and *)
(* there are no links.  Of a project p, p.files are the files on disk,     *)
(* p.manifests those directories that have a manifest, each with the path  *)
(* of its entry and its exports, p.libs the library directories and        *)
(* p.entry the file that is compiled.  An export is a path from the        *)
(* directory and whether it is written with an extension.                  *)
(***************************************************************************)
EXTENDS Integers, FiniteSets, FiniteSetsExt, SequencesExt

Nowhere == <<>>

IsDir(p, path) == \E known \in DOMAIN p.files \cup DOMAIN p.manifests :
                    IsPrefix(path, known) /\ (path # known \/ known \in DOMAIN p.manifests)

\* canonicalize: a step up takes the last name away.
Canonical(path) ==
  LET Step(done, name) == IF name # ".." THEN Append(done, name)
                          ELSE IF done = <<>> THEN done ELSE Front(done)
      upTo[n \in 0 .. Len(path)] == IF n = 0 THEN <<>> ELSE Step(upTo[n - 1], path[n])
  IN  upTo[Len(path)]

\* Path::exists, with every directory that is stepped out of.
IsFile(p, path) ==
  /\ Canonical(path) \in DOMAIN p.files
  /\ \A i \in DOMAIN path : path[i] = ".." => IsDir(p, Canonical(SubSeq(path, 1, i - 1)))

\* find_project_root: the nearest directory with a manifest, but no scratch
\* space; without one, load_program_with_cache takes the directory itself.
ProjectRoot(p) ==
  LET dir   == Front(p.entry)
      roots == {n \in 1 .. Len(dir) : /\ SubSeq(dir, 1, n) \in DOMAIN p.manifests
                                      /\ dir[n] \notin {"tmp", "temp"}}
  IN  IF roots = {} THEN dir ELSE SubSeq(dir, 1, Max(roots))

\* load_exports
Exports(p, dir) == IF dir \in DOMAIN p.manifests THEN p.manifests[dir].exports ELSE << >>

\* resolve_export_path: what has an extension is a file, of what has none it is the
\* module file, which may not exist; nothing that is outside the package.
Contained(p, root, target, extension) ==
  CASE ~IsPrefix(root, target)              -> Nowhere
    [] extension /\ IsFile(p, target)       -> target
    [] ~extension /\ IsDir(p, target)       -> Append(target, "mod")
    [] OTHER                                -> Nowhere

ExportPath(p, root, name) ==
  LET export == Exports(p, root)[name] IN
    IF name \notin DOMAIN Exports(p, root) THEN Nowhere
    ELSE Contained(p, root, Canonical(root \o export.path), export.extension)

\* The entry of a package: of one without a manifest, its module file.
Entry(p, root) ==
  root \o (IF root \in DOMAIN p.manifests THEN p.manifests[root].entry ELSE <<"mod">>)

\* check_entry_containment: EscapesRoot.
EscapesRoot(p, root) ==
  IsFile(p, Entry(p, root)) /\ ~IsPrefix(root, Canonical(Entry(p, root)))

\* resolve_package: in the first library directory that has it.
PackageRoot(p, name) ==
  LET having == {i \in DOMAIN p.libs : IsDir(p, Append(p.libs[i], name))}
      root   == Append(p.libs[Min(having)], name)
  IN  IF having = {} \/ EscapesRoot(p, root) THEN Nowhere ELSE root

\* The rest of a path of load: of the file that it has led to, the directory,
\* if that has exports.
RECURSIVE Descend(_, _, _)
Descend(p, file, rest) ==
  CASE file = Nowhere \/ rest = <<>> -> file
    [] Front(file) \notin DOMAIN p.manifests -> Nowhere
    [] OTHER -> Descend(p, ExportPath(p, Front(file), Head(rest)), Tail(rest))

\* resolve_load_path: the file, which may not exist, or Nowhere.  The path of an entry
\* is as the manifest writes it, steps up included.
EntryFile(p, direct, export) == IF ~IsFile(p, direct) /\ IsFile(p, export) THEN export ELSE direct

PathFrom(p, root, segments) ==
  CASE root = Nowhere -> Nowhere
    [] Len(segments) > 1 -> Descend(p, ExportPath(p, root, segments[2]), SubSeq(segments, 3, Len(segments)))
    [] OTHER -> EntryFile(p, Entry(p, root), ExportPath(p, root, Head(segments)))

LoadPath(p, segments) == PathFrom(p, PackageRoot(p, Head(segments)), segments)

\* resolve_load_local_target: the main file of a directory, its module file, or
\* the file of that name.
LocalPath(p, segments, absolute, dir) ==
  LET there == (IF absolute THEN ProjectRoot(p) ELSE dir) \o segments
      candidates == <<Append(there, "main"), Append(there, "mod"), there>>
      found == {i \in DOMAIN candidates : IsFile(p, candidates[i])}
  IN  IF found = {} THEN Nowhere ELSE candidates[Min(found)]
=============================================================================
