------------------------------ MODULE SiftWarn ------------------------------
(***************************************************************************)
(* utils/ccdv.src/sift-warn.c: which lines of a compiler's output are      *)
(* shown, under which path, and whether the build has failed.              *)
(*                                                                         *)
(* A text is a sequence of words, so that one string of a pattern is found *)
(* inside another one's line ("error:" in "Fatal error:").  A line that    *)
(* starts with a file's name and a line number has that file.  A job is one*)
(* run of ccdv: its pattern file, its options, its directories.            *)
(***************************************************************************)
EXTENDS Integers, Sequences, SequencesExt, FiniteSetsExt

CONSTANTS
  MaxHeaders,   \* 32, lines of an inclusion tree that are kept
  MaxSources    \* 8, sources whose names are kept

ASSUME SiftConstants == MaxHeaders \in Nat /\ MaxSources \in Nat

(* A fold whose steps are evaluated one after the other.                    *)
Through(Op(_, _), start, items) ==
  FoldLeft(LAMBDA done, item : CHOOSE r \in {Op(d, x) : d \in {done}, x \in {item}} : TRUE, start, items)

None    == "none"
NoCount == -1

(* A path is <<components>>, absolute or not; dotted: its last component    *)
(* has an extension.                                                        *)
Path(abs, parts, dotted) == [abs |-> abs, parts |-> parts, dotted |-> dotted]

Paths == {p \in [abs : BOOLEAN, parts : Seq(STRING), dotted : BOOLEAN] : p.dotted => p.parts # <<"collect2">>}

(* A line of output: its words, the file it starts with, whether it is one  *)
(* of an inclusion tree, the counts of a summary, the number in its second  *)
(* word.                                                                    *)
Lines ==
  [file : Paths, text : Seq(STRING), from : BOOLEAN, sum : {<<>>} \cup (Nat \X Nat \X Nat), count : Nat \cup {NoCount}]

(* A row of the pattern file.                                               *)
Entries == [number : Int, strings : Seq(Seq(STRING)), closed : BOOLEAN]

(* A directory is named by the names from the root down to it.              *)
Names == STRING \ {".", ".."}

(* What siftWarnMain is given: output, patterns, options, directories.  A   *)
(* compiler run in "/" is left out: its prefix would have two slashes.      *)
IsSift(job) ==
  /\ job.lines \in Seq(Lines)
  /\ job.patterns.entries \in Seq(Entries) /\ job.patterns.ends \in BOOLEAN
  /\ job.silent \in BOOLEAN /\ job.resolve \in 0..2
  /\ job.top \in Seq(Names) /\ job.cwd \in Seq(Names) \ {<<>>}
  /\ \A k \in 1..2 : job.modules[k] \in Seq(Seq(STRING))
-----------------------------------------------------------------------------
(* import_list: the patterns.                                              *)

warn_fmts == <<
  [type |-> -1, strings |-> <<<<"Fatal", "error:">>, <<"Too many errors">>, <<>>>>],
  [type |-> -2, strings |-> <<<<"Serious", "error:">>, <<"Serious">>, <<>>>>],
  [type |-> -2, strings |-> <<<<"Error:">>, <<>>, <<>>>>],
  [type |-> -2, strings |-> <<<<"error:">>, <<>>, <<>>>>] >>

(* A row without a number has the number 0, and suppresses; with one string,*)
(* or an odd quote, it is none.                                             *)
Row(entry) ==
  [type    |-> entry.number,
   strings |-> [k \in 1..3 |-> IF k <= Len(entry.strings) THEN entry.strings[k] ELSE <<>>]]

IsRow(entry) == entry.closed /\ Len(entry.strings) >= 2

(* "Invalid inclusion" rows go before the last two.                         *)
Insert(rows, row) ==
  IF row.type = -9
  THEN LET n == Len(rows) IN SubSeq(rows, 1, n - 2) \o <<row, rows[n - 1], rows[n]>>
  ELSE Append(rows, row)

(* The last line of a file is read only if it ends.                         *)
Import(file) ==
  LET read == IF file.ends \/ file.entries = <<>> THEN file.entries ELSE Front(file.entries)
  IN Through(LAMBDA rows, entry : IF IsRow(entry) THEN Insert(rows, Row(entry)) ELSE rows, warn_fmts, read)

FoundAt(text, string) ==
  {i \in 1..(Len(text) + 1 - Len(string)) : SubSeq(text, i, i + Len(string) - 1) = string}

(* The third string counts only behind the second.                          *)
Matches(row, text) ==
  LET second == FoundAt(text, row.strings[2])
  IN /\ FoundAt(text, row.strings[1]) # {} /\ second # {}
     /\ \/ row.strings[3] = <<>>
        \/ \E j \in FoundAt(text, row.strings[3]) : j >= Min(second) + Len(row.strings[2])

(* The type of the first row that matches.                                  *)
NoType == 8

TypeOf(rows, text) ==
  LET hits == {i \in DOMAIN rows : Matches(rows[i], text)}
  IN IF hits = {} THEN NoType ELSE rows[Min(hits)].type
-----------------------------------------------------------------------------
(* Paths: from the directory make was started in.                          *)

Common(p, q) == Max({k \in 0..Len(p) : k <= Len(q) /\ SubSeq(p, 1, k) = SubSeq(q, 1, k)})

Ups(n) == [k \in 1..n |-> ".."]

(* path_pfx: up from PWD_LEVEL0 and down to the working directory, or that  *)
(* directory itself.                                                        *)
Prefix(job) ==
  LET same == Common(job.top, job.cwd)
  IN CASE job.resolve = 1 ->
            Path(FALSE, Ups(Len(job.top) - same) \o SubSeq(job.cwd, same + 1, Len(job.cwd)), FALSE)
       [] job.resolve = 2 -> Path(TRUE, job.cwd, FALSE)
       [] OTHER           -> Path(FALSE, <<>>, FALSE)

(* "../" removes a component from the tail, or the "/" in front when that is*)
(* all there is, which makes the path relative; it is kept if there is      *)
(* nothing to remove, or the tail is one of those itself.                   *)
Climb(path) ==
  CASE path.parts = <<>> /\ path.abs -> [path EXCEPT !.abs = FALSE]
    [] ~(path.parts = <<>> /\ path.abs) /\ (path.parts = <<>> \/ Last(path.parts) = "..") ->
         [path EXCEPT !.parts = Append(@, "..")]
    [] OTHER -> [path EXCEPT !.parts = Front(@)]

(* Mutant of Join: the components that lead up are removed as well.         *)
JoinBlindly(prefix, parts) ==
  Through(LAMBDA done, c :
             CASE c = ".." -> [done EXCEPT !.parts = IF @ = <<>> THEN <<"..">> ELSE Front(@)]
               [] c = "."  -> done
               [] OTHER    -> [done EXCEPT !.parts = Append(@, c)],
           prefix, parts)

Join(prefix, parts) ==
  Through(LAMBDA done, c :
             CASE c = ".." -> Climb(done)
               [] c = "."  -> done
               [] OTHER    -> [done EXCEPT !.parts = Append(@, c)],
           prefix, parts)

(* What a path names, for whoever stands in a directory (the kernel's).     *)
Named(dir, path) ==
  Through(LAMBDA here, c :
             CASE c = "." \/ (c = ".." /\ here = <<>>) -> here
               [] c = ".." /\ here # <<>> -> Front(here)
               [] OTHER -> Append(here, c),
           IF path.abs THEN <<>> ELSE dir, path.parts)

Exists(job, path) == Named(job.cwd, path) \in job.files

(* A file that is not there is looked up beside the modules of one list and *)
(* then of the other.                                                       *)
Beside(job, k, i, file) == Path(FALSE, job.modules[k][i] \o file.parts, file.dotted)

Hits(job, k, file) == {i \in DOMAIN job.modules[k] : Exists(job, Beside(job, k, i, file))}

(* The last hit of the first list that has one.                             *)
Looked(job, file) ==
  LET one == Hits(job, 1, file)
      two == Hits(job, 2, file)
  IN IF file.parts = <<"collect2">> \/ Exists(job, file) \/ one \cup two = {} THEN file
     ELSE IF one # {} THEN Beside(job, 1, Max(one), file) ELSE Beside(job, 2, Max(two), file)

(* resolve_path: the name the file is kept under, and the path that is      *)
(* printed in its place.                                                    *)
Kept(sift, job, file) ==
  LET name == Looked(job, file)
  IN IF job.resolve > 0 /\ file.dotted /\ Len(sift.sources) < MaxSources /\ name \notin ToSet(sift.sources)
     THEN Append(sift.sources, name) ELSE sift.sources

Resolves(job, file) == job.resolve > 0 /\ ~file.abs /\ file.dotted

Resolved(job, file) ==
  IF Resolves(job, file) THEN [Join(Prefix(job), Looked(job, file).parts) EXCEPT !.dotted = TRUE] ELSE file
-----------------------------------------------------------------------------
(* search_warn: one line.  What is printed is kept as records.             *)

Unsifted ==
  [warns |-> 0, errors |-> 0, serious |-> 0, suppressed |-> 0, hidden |-> 0, failed |-> FALSE, raised |-> 0,
   headers |-> <<>>, last |-> None, sources |-> <<>>, shown |-> <<>>, aborted |-> FALSE]

Says(sift, what, n, path, included) ==
  Append(sift.shown, [what |-> what, n |-> n, path |-> path, included |-> included])

(* The path of a line, and then the inclusion tree in front of it: each file*)
(* has included the one whose path was resolved last.                       *)
ShowPath(sift, job, file) ==
  [sift EXCEPT !.sources = Kept(sift, job, file),
               !.last = IF Resolves(job, file) THEN Resolved(job, file) ELSE @]

ShowHeader(sift, job, n) ==
  LET file == job.lines[n].file
  IN [ShowPath(sift, job, file) EXCEPT !.shown = Says(sift, "info", n, Resolved(job, file), sift.last)]

Show(sift, job, line, n) ==
  LET told == [ShowPath(sift, job, line.file) EXCEPT
                 !.shown = Says(sift, "line", n, Resolved(job, line.file), None)]
      tree == Through(LAMBDA s, h : ShowHeader(s, job, h), told, sift.headers)
  IN IF job.silent THEN sift ELSE [tree EXCEPT !.headers = <<>>]

(* A pattern without a colour is as good as none.                           *)
Plain(type) == type > 7

Marked(sift, type) ==
  CASE Plain(type) -> sift
    [] ~Plain(type) /\ type < -1 ->
         [sift EXCEPT !.failed = TRUE, !.hidden = @ + (IF type < -2 THEN 1 ELSE 0)]
    [] OTHER -> [sift EXCEPT !.raised = @ + (IF type = 6 THEN 1 ELSE 0)]

(* "x.c: 3 warnings, 1 error, ...": the compiler's own count, less what was *)
(* suppressed.                                                              *)
Summary(sift, line, n) ==
  LET summed == [sift EXCEPT !.warns = line.sum[1] - sift.suppressed,
                             !.errors = line.sum[2] + sift.hidden,
                             !.serious = line.sum[3]]
  IN IF summed.warns # 0 \/ summed.errors # 0 \/ summed.serious # 0
     THEN [summed EXCEPT !.shown = Says(summed, "sum", n, None, None)] ELSE summed

(* A number in a line's second word is taken for the count of warnings.     *)
Counted(sift, type, line) ==
  LET told == IF Plain(type) /\ line.count # NoCount THEN line.count ELSE sift.warns
  IN [sift EXCEPT !.warns = told + (IF \E w \in ToSet(line.text) : w = "warning:" THEN 1 ELSE 0)]

search_warn(sift, job, type, line, n) ==
  CASE sift.aborted -> sift
    [] ~sift.aborted /\ type = 0 -> [sift EXCEPT !.suppressed = @ + 1, !.headers = <<>>]
    [] ~sift.aborted /\ type = -1 ->
         [sift EXCEPT !.aborted = TRUE, !.shown = Says(sift, "line", n, line.file, None)]
    [] ~sift.aborted /\ Plain(type) /\ line.from /\ ~job.silent ->
         IF Len(sift.headers) < MaxHeaders THEN [sift EXCEPT !.headers = Append(@, n)] ELSE sift
    [] ~sift.aborted /\ Plain(type) /\ ~(line.from /\ ~job.silent) /\ line.sum # <<>> -> Summary(sift, line, n)
    [] OTHER -> Show(Counted(Marked(sift, type), type, line), job, line, n)

(* siftWarnMain: the first lines of the output, one after the other.        *)
siftWarnMain(job, rows, count) ==
  Through(LAMBDA sift, x : search_warn(sift, job, x.type, job.lines[x.n], x.n), Unsifted,
          [n \in 1..count |-> [n |-> n, type |-> TypeOf(rows, job.lines[n].text)]])

(* The verdict: errors, or too many warnings.                               *)
Condemned(sift, job) ==
  sift.failed \/ sift.errors # 0 \/ sift.serious # 0 \/ sift.warns > job.maxWarns + sift.raised
=============================================================================
