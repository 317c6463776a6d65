----------------------------- MODULE StopPolicy -----------------------------
(***************************************************************************)
(* What a client decides at a stop by itself: whether a frame is skipped,  *)
(* whether it is at a breakpoint, which lines of the source it shows and   *)
(* whether a watched value changed.  Sources: crates/dap-core/src/         *)
(* stop_policy.rs, data_watch.rs and source_view.rs.                       *)
(*                                                                         *)
(* The functions of text and numbers are asked one question each; a text   *)
(* is a sequence of characters.  A data watch sees one value after another.*)
(***************************************************************************)
EXTENDS Integers, Sequences, FiniteSetsExt, SequencesExt

CONSTANTS
  Paths,      \* paths asked about, and the characters of patterns:
  Patterns,   \* skip patterns
  MaxLines,   \* bound on the lines of a source file
  Values,     \* values of a watched expression
  MaxSeen     \* bound on the stops a watch sees

ASSUME StopPolicyAssumption ==
  /\ MaxLines \in Nat /\ MaxSeen \in Nat
  /\ \A path \in Paths : path \in Seq(ToSet(path))

VARIABLES
  query,     \* the question, a record with a field "about"
  armed,     \* DataWatchEntry.armed
  baseline,  \* DataWatchEntry.baseline, <<>> when there is none
  seen,      \* the values of the watched expression at the stops so far
  kept       \* how many of these stops the watch kept

stopsVars == <<query, armed, baseline, seen, kept>>

-----------------------------------------------------------------------------
(* Skip patterns *)

\* The places of a part in a text.
Places(text, part) ==
  {i \in 1..(Len(text) - Len(part) + 1) : SubSeq(text, i, i + Len(part) - 1) = part}

\* pattern.split('*')
Parts(pattern) ==
  LET stars == SetToSortSeq({i \in DOMAIN pattern : pattern[i] = "*"}, <)
      cuts == <<0>> \o stars \o <<Len(pattern) + 1>> IN
  [i \in 1..(Len(cuts) - 1) |-> SubSeq(pattern, cuts[i] + 1, cuts[i + 1] - 1)]

Drop(text, n) == SubSeq(text, n + 1, Len(text))

\* Fault: the last part may be anywhere in the rest.
TakePartAnywhere(parts, state, i) ==
  LET part == parts[i]  rest == state.rest IN
  CASE state.verdict /= "open" \/ part = <<>> -> state
    [] i = 1 -> IF IsPrefix(part, rest) THEN [state EXCEPT !.rest = Drop(rest, Len(part))]
                ELSE [state EXCEPT !.verdict = "no"]
    [] OTHER -> IF Places(rest, part) /= {}
                THEN [state EXCEPT !.rest = Drop(rest, Min(Places(rest, part)) + Len(part) - 1)]
                ELSE [state EXCEPT !.verdict = "no"]

\* The i-th round of the loop of path_matches_skip.
TakePart(parts, state, i) ==
  LET part == parts[i]  rest == state.rest IN
  CASE state.verdict /= "open" \/ part = <<>> -> state
    [] state.verdict = "open" /\ part /= <<>> /\ i = 1 ->
         IF IsPrefix(part, rest)
           THEN [state EXCEPT !.rest = Drop(rest, Len(part))]
           ELSE [state EXCEPT !.verdict = "no"]
    [] state.verdict = "open" /\ part /= <<>> /\ i > 1 /\ i = Len(parts) ->
         [state EXCEPT !.verdict = IF IsSuffix(part, rest) THEN "yes" ELSE "no"]
    [] OTHER ->
         IF Places(rest, part) /= {}
           THEN [state EXCEPT !.rest = Drop(rest, Min(Places(rest, part)) + Len(part) - 1)]
           ELSE [state EXCEPT !.verdict = "no"]

PathMatchesSkip(path, pattern) ==
  LET parts == Parts(pattern)
      walked == FoldLeft(LAMBDA state, i : TakePart(parts, state, i),
                         [rest |-> path, verdict |-> "open"], [i \in DOMAIN parts |-> i]) IN
  CASE pattern = <<>> -> FALSE
    [] pattern /= <<>> /\ ~Contains(pattern, "*") -> Places(path, pattern) /= {}
    [] OTHER -> walked.verdict /= "no"

-----------------------------------------------------------------------------
(* Paths of breakpoints and frames *)

Normalize(path) ==
  LET slashed == [i \in DOMAIN path |-> IF path[i] = "\\" THEN "/" ELSE path[i]]
      solid == {i \in DOMAIN path : slashed[i] /= "/"} IN
  IF solid = {} THEN <<>> ELSE SubSeq(slashed, 1, Max(solid))

\* Path::file_name, <<>> when there is none.
FileName(path) ==
  Drop(path, Max({0} \cup {i \in DOMAIN path : path[i] = "/"}))

\* ends_with in one direction or the other.
Ends(one, other) == IsSuffix(one, other) \/ IsSuffix(other, one)

SourcePathsMatch(stored, current) ==
  LET one == Normalize(stored)  other == Normalize(current) IN
  \/ Ends(one, other)
  \/ FileName(one) /= <<>> /\ FileName(one) = FileName(other)

-----------------------------------------------------------------------------
(* The lines shown around a stop *)

SnippetEnd(current, context, count) == Min({current + context, count})

\* format_source_snippet_styled, for a file that is not empty.
Snippet(line, context, count) ==
  LET current == Max({1, Min({line, count})}) IN
  [current |-> current,
   first   |-> Max({current - context, 1}),
   last    |-> SnippetEnd(current, context, count)]

-----------------------------------------------------------------------------

Nothing == [about |-> "nothing"]

StopsInit ==
  /\ query = Nothing
  /\ armed = FALSE /\ baseline = <<>> /\ seen = <<>> /\ kept = 0

Question ==
  /\ query = Nothing /\ seen = <<>>
  /\ \/ \E path \in Paths, pattern \in Patterns :
          query' = [about |-> "skip", path |-> path, pattern |-> pattern]
     \/ \E one, other \in Paths :
          query' = [about |-> "paths", one |-> one, other |-> other]
     \/ \E count \in 1..MaxLines, line \in (0 - 1)..(MaxLines + 1), context \in 0..2 :
          query' = [about |-> "snippet", line |-> line, context |-> context, count |-> count]
  /\ UNCHANGED <<armed, baseline, seen, kept>>

\* Fault: the value of the first stop stays the baseline.
RebaseOnce(value) == IF baseline = <<>> THEN <<value>> ELSE baseline

\* The baseline of a watch after a stop with this value.
Rebase(value) == <<value>>

\* data_watch_should_stop
Watch ==
  /\ query = Nothing /\ Len(seen) < MaxSeen
  /\ \E value \in Values :
       /\ seen' = Append(seen, value)
       /\ armed' = TRUE
       /\ baseline' = Rebase(value)
       /\ kept' = kept + (IF armed /\ baseline /= <<value>> THEN 1 ELSE 0)
  /\ UNCHANGED query

StopsNext == Question \/ Watch

StopsSpec == StopsInit /\ [][StopsNext]_stopsVars

-----------------------------------------------------------------------------
(* Properties *)

\* path matches pattern, where every * stands for any text: the definition by
\* the lengths of what is matched.
GlobMatches(path, pattern) ==
  LET matches[i \in 0..Len(path), j \in 0..Len(pattern)] ==
        IF j = 0
          THEN i = 0
          ELSE IF pattern[j] = "*"
                 THEN matches[i, j - 1] \/ (i > 0 /\ matches[i - 1, j])
                 ELSE i > 0 /\ path[i] = pattern[j] /\ matches[i - 1, j - 1] IN
  matches[Len(path), Len(pattern)]

(* path_matches_skip, which takes the first place of every part and never    *)
(* goes back, decides as a search over all places would; a pattern without *)
(* a star may be anywhere in the path.                                     *)
SkipIsGlob ==
  query.about = "skip" =>
    PathMatchesSkip(query.path, query.pattern)
      = (/\ query.pattern /= <<>>
         /\ GlobMatches(query.path, IF Contains(query.pattern, "*")
                                      THEN query.pattern
                                      ELSE <<"*">> \o query.pattern \o <<"*">>))

(* source_paths_match: breakpoint and frame may swap their roles, and a path *)
(* that the other one ends with, at a separator of either kind, is matched.  *)
PathsMatchEitherWay ==
  query.about = "paths" =>
    LET one == query.one  other == query.other IN
    /\ SourcePathsMatch(one, other) = SourcePathsMatch(other, one)
    /\ IsSuffix(<<"/">> \o Normalize(one), Normalize(other)) => SourcePathsMatch(one, other)

(* The snippet is inside the file and contains the line of the stop, with as *)
(* many lines on either side as were asked for, unless the file ends there;  *)
(* a line outside the file, which a stale source gives, shows the nearest.   *)
SnippetShowsLine ==
  query.about = "snippet" =>
    LET s == Snippet(query.line, query.context, query.count) IN
    /\ s.first \in 1..s.current /\ s.last \in s.current..query.count
    /\ query.line \in 1..query.count => s.current = query.line
    /\ s.current - s.first = query.context \/ s.first = 1
    /\ s.current - s.first <= query.context
    /\ s.last - s.current = query.context \/ s.last = query.count
    /\ s.last - s.current <= query.context

(* A watch keeps exactly the stops at which the value is another one than at *)
(* the stop before, so a value that changes and changes back is seen twice.  *)
WatchKeepsEveryChange ==
  kept = Cardinality({i \in 2..Len(seen) : seen[i] /= seen[i - 1]})

(* Every other decision at a stop is the one its reference definition gives: *)
(* which breakpoint it is, what is shown and what a watch keeps             *)
(* (stop_policy.rs, source_view.rs and data_watch.rs).                      *)
DecisionsFitDefinitions ==
  PathsMatchEitherWay /\ SnippetShowsLine /\ WatchKeepsEveryChange
=============================================================================
