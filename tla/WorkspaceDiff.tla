--------------------------- MODULE WorkspaceDiff ---------------------------
(***************************************************************************)
(* The patch that an execution keeps as evidence (runner-engine/diff.ts):  *)
(* the difference of two snapshots of the workspace and its text, of which *)
(* the artifact's hash is taken.  Pure definitions.                        *)
(*                                                                         *)
(*   snapshot  maps paths to texts                                         *)
(*   entry     [path, status, before, after], a side that is not there is  *)
(*             Absent                                                      *)
(* The strings that begin and fill a header are characters of texts, so    *)
(* that a line of a text may look like a header.                           *)
(***************************************************************************)
EXTENDS Texts

CONSTANTS Paths,        \* in the order of their names
          Absent

TextIn(snapshot, path) == IF path \in DOMAIN snapshot THEN snapshot[path] ELSE Absent

Status(before, after) ==
  CASE before = Absent -> "added"
    [] before # Absent /\ after = Absent -> "removed"
    [] OTHER -> "modified"

CaptureDiff(before, after) ==
  LET changed == SelectSeq(Paths, LAMBDA p : TextIn(before, p) # TextIn(after, p)) IN
  [i \in DOMAIN changed |->
     LET old == TextIn(before, changed[i])
         new == TextIn(after, changed[i])
     IN [path |-> changed[i], status |-> Status(old, new), before |-> old, after |-> new]]

NoNewlineMarker == <<"\\ No newline at end of file">>

Header(sign, mark, side, text, path) ==
  <<sign, mark>> \o IF text = Absent THEN <<"/dev/null">> ELSE <<side, path>>

(* The lines of one side; the end of the last line is kept, or marked.     *)
RenderSide(sign, text) ==
  IF text \in {Absent, <<>>} THEN <<>>
  ELSE LET segments == Split(text, <<"\n">>)
           Signed(lines) == [i \in DOMAIN lines |-> <<sign>> \o lines[i]]
       IN IF Last(segments) = <<>> THEN Signed(Front(segments))
          ELSE Append(Signed(segments), NoNewlineMarker)

RenderEntry(e) ==
  <<Header("-", "-- ", "a/", e.before, e.path), Header("+", "++ ", "b/", e.after, e.path)>>
  \o RenderSide("-", e.before) \o RenderSide("+", e.after)

RenderDiffText(diff) == FlattenSeq([i \in DOMAIN diff |-> RenderEntry(diff[i])])

-----------------------------------------------------------------------------
(* A diff leads from the one snapshot to the other.                        *)
LeadsTo(before, after) ==
  LET diff == CaptureDiff(before, after)
      touched == {diff[i].path : i \in DOMAIN diff}
      Entry(p) == diff[CHOOSE i \in DOMAIN diff : diff[i].path = p]
      there == (DOMAIN before \ touched) \cup {p \in touched : Entry(p).status # "removed"}
  IN after = [p \in there |-> IF p \in touched THEN Entry(p).after ELSE before[p]]

(* Different patches have different texts.                                 *)
RendersApart(diffs) ==
  \A one \in diffs : \A other \in diffs \ {one} : RenderDiffText(one) # RenderDiffText(other)
=============================================================================
