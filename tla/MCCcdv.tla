------------------------------- MODULE MCCcdv -------------------------------
(* Jobs for model checking Ccdv: outputs of up to three lines, pattern      *)
(* files, directories and command lines.                                    *)
EXTENDS Ccdv

Rel(parts) == Path(FALSE, parts, TRUE)

Line(file, text) == [file |-> file, text |-> text, from |-> FALSE, sum |-> <<>>, count |-> NoCount]
From(file)       == [Line(file, <<>>) EXCEPT !.from = TRUE]
Sum(w, e)        == [Line(Rel(<<"a.c">>), <<>>) EXCEPT !.sum = <<w, e, 0>>]

Warning == Line(Rel(<<"a.c">>), <<"warning:", "unused">>)
Noise   == Line(Rel(<<"..", "inc", "b.h">>), <<"warning:", "implicit">>)
Error   == Line(Rel(<<"a.c">>), <<"error:", "implicit">>)
Serious == Line(Rel(<<"a.c">>), <<"Serious", "error:", "implicit">>)
Fatal   == Line(Rel(<<"a.c">>), <<"Fatal", "error:", "Too many errors">>)
Include == From(Rel(<<"..", "inc", "b.h">>))
Deep    == From(Rel(<<"a.c">>))
Linker  == Line(Path(FALSE, <<"collect2">>, FALSE), <<"error:">>)
Many    == [Line(Path(FALSE, <<"make">>, FALSE), <<>>) EXCEPT !.count = 2]

Entry(number, strings) == [number |-> number, strings |-> strings, closed |-> TRUE]

NoPatterns == [entries |-> <<>>, ends |-> TRUE]
(* A comment, a suppressed message, a forced error, a colour; then one that *)
(* is not read, or is no row.                                               *)
Patterns   == [entries |-> <<Entry(0, <<>>), Entry(0, <<<<"implicit">>, <<>>>>),
                             Entry(-9, <<<<"unused">>, <<"warning:">>>>), Entry(6, <<<<"warning:">>, <<>>>>)>>, ends |-> TRUE]
Order      == [entries |-> <<Entry(6, <<<<>>, <<"warning:">>, <<"unused">>>>),
                             [Entry(0, <<<<"warning:">>, <<>>>>) EXCEPT !.closed = FALSE],
                             Entry(0, <<<<"warning:">>, <<>>>>)>>, ends |-> FALSE]

Top   == <<"p">>
Files == {<<"p", "src", "a.c">>, <<"p", "inc", "b.h">>, <<"q", "gen", "c.c">>, <<"p", "src", "lib", "d.c">>,
          <<"p", "lib", "d.c">>}

Gcc   == Tool("gcc", FALSE, FALSE)
InC   == File(FALSE, <<"sub">>, "a", "c")
OutO  == File(FALSE, <<"obj">>, "a", "o")
Compile == <<Gcc, Option("-c"), InC, Option("-o"), OutO>>

Job(lines, patterns) ==
  [lines |-> lines, cut |-> FALSE, patterns |-> patterns, silent |-> FALSE, verbose |-> FALSE, resolve |-> 1,
   maxWarns |-> 1, top |-> Top, cwd |-> <<"p", "src">>, modules |-> <<<<>>, <<>>>>, files |-> Files, args |-> Compile]

(* Outputs.                                                                 *)
Kinds == {Warning, Noise, Error, Serious, Fatal, Include, Sum(2, 0), Many}

Outputs ==
  {Job(<<x, y>>, p) : x \in Kinds, y \in Kinds, p \in {NoPatterns, Patterns, Order}}
  \cup {Job(<<Deep, Include, x>>, p) : x \in {Warning, Noise, Fatal}, p \in {NoPatterns, Patterns}}
  \cup {[Job(<<x, y, z>>, Patterns) EXCEPT !.cut = c, !.silent = s] :
          x \in {Warning, Noise}, y \in {Noise, Sum(1, 0)}, z \in {Linker, Warning}, c \in BOOLEAN, s \in BOOLEAN}

(* Directories: of make, of the compiler, of the file.                      *)
Places ==
  {[Job(<<From(Rel(<<"..", "inc", "b.h">>)), Line(Rel(f), <<"warning:">>)>>, NoPatterns) EXCEPT
      !.top = t, !.cwd = d, !.resolve = r, !.modules = m] :
    t \in {<<"p">>, <<"q", "gen">>, <<"p", "src", "lib">>},
    d \in {<<"p", "src">>, <<"p">>, <<"q", "gen">>},
    f \in {<<"a.c">>, <<"d.c">>, <<"..", "..", "q", "gen", "c.c">>, <<".", "lib", "d.c">>, <<"..", "src", "a.c">>},
    r \in 0..2,
    m \in {<<<<>>, <<>>>>, <<<<<<"lib">>, <<"src", "lib">>>>, <<<<"..", "p", "lib">>>>>>}}

(* Command lines.                                                           *)
Ops == {Option("-c"), Option("-S"), InC, File(TRUE, <<"w">>, "b", "S"), File(FALSE, <<>>, "m", "so"),
        File(FALSE, <<>>, "z", "a")}

Commands == {<<tool, x, y>> \o last :
               tool \in {Gcc, Tool("ar", FALSE, FALSE), Tool("ar", TRUE, FALSE), Tool("build/gcc", FALSE, TRUE)},
               x \in Ops, y \in Ops,
               last \in {<<>>, <<Option("-o"), OutO>>, <<Option("-o"), File(FALSE, <<>>, "prog", "")>>,
                         <<Option("-o"), OutO, InC>>}}

Calls == {[Job(<<Error>>, NoPatterns) EXCEPT !.args = args, !.verbose = TRUE] : args \in Commands}

MCJobs == Outputs \cup Places \cup Calls
=============================================================================
