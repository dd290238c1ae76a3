-------------------------- MODULE RepositoryTools --------------------------
(***************************************************************************)
(* The four tools of the llmbench harness (tools/repository.ts, path.ts)   *)
(* on the tree of a repository: a function from paths, sequences of names  *)
(* below the root, to nodes [kind, text, mode].  A name is one character   *)
(* long, and a requested path says whether it is absolute.                 *)
(*                                                                         *)
(* Pure definitions: no tool leaves anything running, and an interruption  *)
(* only shortens a search.                                                 *)
(***************************************************************************)
EXTENDS Texts, FiniteSets

CONSTANTS
  Root,             \* the absolute path of the repository's root
  Names,            \* the names of files and directories, sorted
  Ignored,          \* those that listing and searching skip
  Umask,            \* permission bits that a new file never gets
  Limits            \* ResolvedConfig

Failed == [ok |-> FALSE, answer |-> <<>>]
Answer(answer) == [ok |-> TRUE, answer |-> answer]

Rank(name) == CHOOSE i \in DOMAIN Names : Names[i] = name
Kind(tree, path) == IF path \in DOMAIN tree THEN tree[path].kind ELSE "none"
File(text, mode) == [kind |-> "file", text |-> text, mode |-> mode]

-----------------------------------------------------------------------------
(* Paths.                                                                  *)

(* path.resolve: ".." of the file system's root is that root.              *)
Resolve(segments) ==
  FoldLeft(LAMBDA path, s :
             IF s = ".." THEN IF path = <<>> THEN path ELSE Front(path)
             ELSE IF s = "." THEN path ELSE Append(path, s),
           Root, segments)

(* resolveWithinRoot throws otherwise; a path may leave the root and enter *)
(* it again.                                                               *)
IsWithinRoot(requested) ==
  ~requested.absolute /\ IsPrefix(Root, Resolve(requested.segments))

Relative(requested) ==
  LET path == Resolve(requested.segments) IN SubSeq(path, Len(Root) + 1, Len(path))

(* assertNoSymlinkSegments; lstat throws where nothing is.                 *)
HasNoLinkIn(tree, path) ==
  \A i \in 0..Len(path) : Kind(tree, SubSeq(path, 1, i)) \in {"dir", "file"}

Exists(tree, requested) ==
  IsWithinRoot(requested) /\ HasNoLinkIn(tree, Relative(requested))

IsWritable(tree, requested) ==
  /\ IsWithinRoot(requested)
  /\ LET path == Relative(requested) IN
     /\ path # <<>>
     /\ HasNoLinkIn(tree, Front(path)) /\ Kind(tree, Front(path)) = "dir"

IsReadable(tree, path, maxBytes) ==
  Kind(tree, path) = "file" /\ Len(tree[path].text) <= maxBytes

(* The visible names in a directory, sorted.                               *)
Entries(tree, dir) ==
  LET names == {Last(p) : p \in {q \in DOMAIN tree : q # <<>> /\ Front(q) = dir}}
  IN SetToSortSeq(names \ Ignored, LAMBDA a, b : Rank(a) < Rank(b))

-----------------------------------------------------------------------------
(* The tools that read.                                                    *)

ReadFile(tree, requested) ==
  IF /\ Exists(tree, requested)
     /\ IsReadable(tree, Relative(requested), Limits.readBytes)
    THEN Answer(tree[Relative(requested)].text)
    ELSE Failed

(* Directories before files; every line has 6 bytes with its end.          *)
ListDirectory(tree, requested) ==
  LET dir == Relative(requested)
      names == Entries(tree, dir)
      InDir(name) == Kind(tree, Append(dir, name)) = "dir"
  IN IF /\ Exists(tree, requested) /\ Kind(tree, dir) = "dir"
        /\ Len(names) <= Limits.listEntries /\ 6 * Len(names) - 1 <= Limits.listBytes
       THEN Answer([i \in 1..Len(SelectSeq(names, InDir)) |->
                      <<"dir", SelectSeq(names, InDir)[i]>>]
                   \o LET files == SelectSeq(names, LAMBDA n : ~InDir(n)) IN
                      [i \in DOMAIN files |-> <<"file", files[i]>>])
       ELSE Failed

(* The lines of a file that contain the query.                             *)
Matches(path, text, query) ==
  LET lines == Split(text, <<"\n">>)
      hits == SetToSortSeq({i \in DOMAIN lines : Occurs(query, lines[i])}, <)
  IN [i \in DOMAIN hits |->
        [path |-> path, line |-> hits[i], text |-> Trim(lines[hits[i]], {" "})]]

(* visit: a file that is too large is skipped, but too many bytes in all   *)
(* fail the search.                                                        *)
Visit(tree, path, query, search) ==
  LET bytes == search.bytes + Len(tree[path].text)
      matches == search.matches \o Matches(path, tree[path].text, query)
  IN IF ~IsReadable(tree, path, Limits.readBytes) THEN search
     ELSE IF bytes > Limits.scanBytes THEN [search EXCEPT !.failed = TRUE]
     ELSE [search EXCEPT !.bytes = bytes,
             !.matches = IF Len(matches) <= Limits.results THEN matches
                         ELSE SubSeq(matches, 1, Limits.results)]

IsOver(search) == search.failed \/ Len(search.matches) >= Limits.results

(* walk: the entries of a directory count before the first is visited.     *)
RECURSIVE Walk(_, _, _, _)
Walk(tree, dir, query, search) ==
  LET names == Entries(tree, dir)
      counted == search.entries + Len(names)
  IN IF counted > Limits.scanEntries THEN [search EXCEPT !.failed = TRUE]
     ELSE FoldLeft(LAMBDA found, name :
                     LET path == Append(dir, name) IN
                     IF IsOver(found) THEN found
                     ELSE CASE Kind(tree, path) = "dir" -> Walk(tree, path, query, found)
                            [] Kind(tree, path) = "file" -> Visit(tree, path, query, found)
                            [] OTHER -> found,
                   [search EXCEPT !.entries = counted], names)

(* A line of the result is its path, its number and its text.              *)
ResultBytes(matches) ==
  IF matches = <<>> THEN 17
  ELSE FoldLeft(LAMBDA n, m : n + 2 * Len(m.path) + Len(m.text) + 4, -1, matches)

SearchFiles(tree, query) ==
  LET found == Walk(tree, <<>>, query,
                    [entries |-> 0, bytes |-> 0, matches |-> <<>>, failed |-> FALSE])
  IN IF query = <<>> \/ found.failed \/ ResultBytes(found.matches) > Limits.searchBytes
       THEN Failed
       ELSE Answer(found.matches)

-----------------------------------------------------------------------------
(* The tool that writes.                                                   *)

(* The patterns of String.prototype.replace in the new text.               *)
Expand(newText, before, match, after) ==
  LET Pattern(i) ==
        IF i < Len(newText) /\ newText[i] = "$" THEN newText[i + 1] ELSE "none"
      from[i \in 1..Len(newText) + 1] ==
        IF i > Len(newText) THEN <<>>
        ELSE CASE Pattern(i) = "$" -> <<"$">> \o from[i + 2]
               [] Pattern(i) = "&" -> match \o from[i + 2]
               [] Pattern(i) = "`" -> before \o from[i + 2]
               [] Pattern(i) = "'" -> after \o from[i + 2]
               [] OTHER -> <<newText[i]>> \o from[i + 1]
  IN from[1]

(* writeAtomically links a new file, which fails where something is.       *)
Create(tree, requested, newText) ==
  LET path == Relative(requested) IN
  IF /\ IsWritable(tree, requested) /\ Kind(tree, path) = "none"
     /\ Len(newText) <= Limits.patchBytes
    THEN [ok |-> TRUE,
          tree |-> [p \in DOMAIN tree \cup {path} |->
                      IF p = path THEN File(newText, {"r", "w", "g"} \ Umask) ELSE tree[p]]]
    ELSE [ok |-> FALSE, tree |-> tree]

(* writeAtomically renames the new file onto the old one, with the old     *)
(* one's mode as far as the process may give it.                           *)
Patch(tree, requested, oldText, newText) ==
  LET path == Relative(requested)
      parts == Split(tree[path].text, oldText)
      updated == parts[1] \o Expand(newText, parts[1], oldText, parts[2]) \o parts[2]
  IN IF /\ Exists(tree, requested) /\ IsReadable(tree, path, Limits.patchBytes)
        /\ Len(parts) = 2 /\ Len(updated) <= Limits.patchBytes
       THEN [ok |-> TRUE,
             tree |-> [tree EXCEPT ![path] = File(updated, tree[path].mode \ Umask)]]
       ELSE [ok |-> FALSE, tree |-> tree]

ApplyPatch(tree, requested, oldText, newText) ==
  IF oldText = <<>> THEN Create(tree, requested, newText)
  ELSE Patch(tree, requested, oldText, newText)

-----------------------------------------------------------------------------
(* What the tools are for, said of their results.                          *)

(* A path is safe when no step of it leaves the root and nothing on its    *)
(* way is a link: everything a tool reads or writes is.                    *)
IsSafe(tree, path) == \A i \in 0..Len(path) - 1 : Kind(tree, SubSeq(path, 1, i)) = "dir"

(* A failed patch changes nothing, and a successful one the file it names. *)
ChangesOnly(tree, requested, result) ==
  IF ~result.ok THEN result.tree = tree
  ELSE LET path == Relative(requested) IN
       /\ IsSafe(tree, path) /\ result.tree[path].kind = "file"
       /\ DOMAIN result.tree = DOMAIN tree \cup {path}
       /\ \A p \in DOMAIN tree \ {path} : result.tree[p] = tree[p]

(* The new text is written as it is: it creates a file where there was     *)
(* none, or it replaces the only occurrence of the old text.               *)
WritesVerbatim(tree, requested, oldText, newText, result) ==
  LET path == Relative(requested) IN
  result.ok =>
    IF oldText = <<>> THEN path \notin DOMAIN tree /\ result.tree[path].text = newText
    ELSE LET text == tree[path].text IN
         \E i \in DOMAIN text :
           /\ \A j \in DOMAIN text : IsAt(oldText, text, j) <=> j = i
           /\ result.tree[path].text =
                SubSeq(text, 1, i - 1) \o newText \o SubSeq(text, i + Len(oldText), Len(text))

(* A search that is over neither its limits nor its result's finds exactly *)
(* the matching lines of the files that can be seen, file by file.         *)
IsVisible(tree, path) ==
  /\ \A i \in DOMAIN path : path[i] \notin Ignored
  /\ IsReadable(tree, path, Limits.readBytes)

FindsAll(tree, query, result) ==
  LET hits == UNION {ToSet(Matches(p, tree[p].text, query)) :
                       p \in {q \in DOMAIN tree : IsVisible(tree, q)}}
  IN result.ok =>
       /\ ToSet(result.answer) \subseteq hits
       /\ Len(result.answer) = IF Cardinality(hits) < Limits.results
                                 THEN Cardinality(hits) ELSE Limits.results
=============================================================================
