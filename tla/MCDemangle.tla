----------------------------- MODULE MCDemangle -----------------------------
(* Declarations for model checking Demangle: functions of up to two         *)
(* parameters, of every type that two operators build, and every other      *)
(* construct of the grammar by itself.                                      *)
EXTENDS Demangle, FiniteSets

X == INSTANCE CxxNames

IntT == X!Base("i", "int")
CharT == X!Base("c", "char")
Cls(names) == X!Class([i \in DOMAIN names |-> X!Id(names[i])])
A == Cls(<<"A">>)
NB == Cls(<<"N", "B">>)
Inst(name, args) == X!Class(<<X!Templ(X!Id(name), args)>>)
StdString == X!Class(<<X!Part("Ss", "std::string")>>)
Vec(x) == X!Class(<<X!Std, X!Templ(X!Id("vec"), <<x>>)>>)

Simple == {IntT, A, NB, Inst("T", <<A>>), StdString}
Derived(x) ==
  {X!Ptr(x), X!Ref(x), X!Cv("K", x), X!Fn(x, <<CharT>>), X!Arr(3, x), X!Member(A, x)}
\* What C++ has no types for, or spells otherwise.
Legal(x) ==
  /\ x.t \in {"P", "cv", "arr", "fn"} => x.of.t # "R"
  /\ x.t \in {"P", "R"} => ~(x.of.t = "P" /\ x.of.of.t = "R")
  /\ x.t \in {"R", "M"} => x.of.t # "R"
  /\ x.t = "cv" => x.of.t \notin {"cv", "fn", "arr"}
  /\ x.t = "fn" => x.of.t \notin {"fn", "arr"}
  /\ x.t = "arr" => x.of.t # "fn"
One == UNION {Derived(x) : x \in Simple}
Two == {y \in UNION {Derived(x) : x \in UNION {Derived(z) : z \in {IntT, NB, Inst("T", <<A>>)}}} : Legal(y)}
IsParameter(x) == x.t \notin {"fn", "arr", "cv"}
Params == {x \in Simple \cup One \cup Two : IsParameter(x)}
Few == {IntT, StdString, X!Ptr(A), X!Ref(X!Cv("K", NB)), X!Member(A, IntT), X!Ptr(X!Fn(IntT, <<A>>)),
        X!Ref(X!Arr(3, Inst("T", <<A>>)))}

F(args) == X!Function(<<X!Id("f")>>, "", X!None, args)
Pairs == {F(<<x, y>>) : x \in Few, y \in Few}
Plain == {F(<<>>)} \cup Pairs \cup {F(<<x>>) : x \in Params}
           \cup {F(<<x, y>>) : x \in Few, y \in Params} \cup {F(<<x, y>>) : x \in Params, y \in Few}

M(path, quals, args) == X!Function(path, quals, X!None, args)
Part(code, name) == X!Part(code, name)
AId == X!Id("A")
TA == X!Templ(X!Id("T"), <<A>>)
Members(scope, called) ==
  LET this == X!Class(scope)
  IN {M(scope \o <<X!Id("f")>>, q, args) : q \in {"", "K"}, args \in {<<>>, <<X!Ref(this)>>, <<this, X!Ptr(this)>>}}
     \cup {M(scope \o <<p>>, "", <<X!Ref(X!Cv("K", this))>>) :
             p \in {Part("C1", called), Part("C2", called), Part("D0", "~" \o called), Part("pl", "operator+"),
                    Part("ls", "operator<<"), Part("nw", "operator new"), Part("v13mix", "operator mix")}}
     \cup {M(scope \o <<X!Conversion(x)>>, "K", <<>>) : x \in {IntT, X!Ptr(this), Inst("T", <<IntT>>), X!Member(A, IntT)}}
     \cup {X!Data(scope \o <<X!Id("x")>>)}
Nameless(called) == Members(<<Part("12_GLOBAL__N_1", called), AId>>, "A")
Classes == UNION {Members(<<AId>>, "A"), Members(<<X!Id("N"), X!Id("B")>>, "B"), Members(<<TA>>, "T"),
                  Members(<<X!Id("N"), TA, AId>>, "A"), Members(<<X!Std, TA>>, "T"),
                  Nameless("(anonymous namespace)")}
Strings == {M(<<Part("Ss", "std::string"), X!Id("append")>>, "", <<X!Ref(X!Cv("K", StdString))>>),
            M(<<Part("Ss", "std::basic_string<char, std::char_traits<char>, std::allocator<char> >"),
                Part("C1", "basic_string")>>, "", <<StdString>>),
            M(<<X!Std, X!Id("f")>>, "", <<X!Ref(Vec(IntT)), Vec(CharT), Vec(IntT)>>)}

\* Instances of function templates.
G(args, ret, params) == X!Function(<<X!Templ(X!Id("g"), args)>>, "", ret, params)
T0 == X!Param(0)
Void == X!Void
Templates == UNION {
  {G(<<x>>, Void, <<T0>>) : x \in Params},
  {G(<<x, y>>, T0, <<X!Param(1), X!Ptr(X!Param(1)), Inst("T", <<T0>>), y>>) : x \in Few, y \in Few},
  {G(<<x>>, X!Ptr(X!Fn(IntT, <<T0>>)), <<X!Ptr(X!Fn(T0, <<T0>>))>>) : x \in {IntT, NB, X!Ptr(A)}},
  {G(<<Inst("T", <<x>>)>>, X!Ref(X!Arr(3, IntT)), <<T0>>) : x \in Params \cup One}}

\* Arguments that are values, and types that depend on one.
Sized(before, after, left, right) == Inst("T", <<X!Around("X" \o before, T0, after \o "E", left, right)>>)
Values == {M(<<X!Templ(X!Id("T"), <<X!Value(v[1], v[2])>>), X!Id("f")>>, "", <<>>) :
             v \in {<<"Li3E", "3">>, <<"Lin3E", "-3">>, <<"Lj3E", "3u">>, <<"Ll3E", "3l">>, <<"Lm3E", "3ul">>,
                    <<"Lx3E", "3ll">>, <<"Ly3E", "3ull">>, <<"Lb1E", "true">>, <<"Lb0E", "false">>,
                    <<"Lc65E", "(char)65">>, <<"Lsn1E", "(short)-1">>, <<"Ld0E", "(double)[0]">>,
                    <<"L1E2E", "(E)2">>, <<"L_Z1hE", "h">>, <<"XadL_Z1hvEE", "&(h())">>}}
          \cup {G(<<IntT>>, Void, <<x>>) :
             x \in {Sized("st", "", "sizeof (", ")"), Sized("pl", "Li1E", "(", ") + (1)"),
                    Sized("gtLi1E", "", "((1) > (", "))"), Sized("cvi", "", "(int)(", ")"),
                    Sized("quLb1E", "Li0E", "(true) ? (", ") : (0)"), Sized("sr", "1m", "", "::m")}}

\* Every other kind of name.
Unusual(x) == {X!Vendor("near", x), X!Base("u4vec4", "vec4"), X!Cv("V", x), X!Cv("VK", x)}
Others == UNION {
  {F(<<X!Ptr(y)>>) : y \in UNION {Unusual(x) : x \in Simple}},
  {F(<<X!Ref(X!Arr(2, X!Arr(3, x)))>>) : x \in Simple \cup {X!Cv("K", A)}},
  {F(<<b>>) : b \in {X!Base("z", "..."), X!Base("b", "bool"), X!Base("g", "__float128"), X!Base("w", "wchar_t")}},
  {X!About(k[1], k[2], x) : k \in {<<"TV", "vtable for ">>, <<"TT", "VTT for ">>, <<"TI", "typeinfo for ">>,
                                   <<"TS", "typeinfo name for ">>, <<"TF", "typeinfo fn for ">>},
                            x \in {A, NB, Inst("T", <<A>>), Vec(A)}},
  {X!Named(k[1], k[2], p) : k \in {<<"GV", "guard variable for ">>, <<"GR", "reference temporary for ">>},
                            p \in {<<AId>>, <<X!Id("N"), X!Id("x")>>}},
  {X!Via(k[1], k[2], d) : k \in {<<"Thn8_", "non-virtual thunk to ">>, <<"Tv0_n12_", "virtual thunk to ">>,
                                 <<"Tch0_v0_n16_", "covariant return thunk to ">>, <<"GA", "hidden alias for ">>},
                          d \in {F(<<A>>), M(<<AId, X!Id("f")>>, "K", <<A>>)}},
  {X!Local(d, M(<<X!Id("L"), X!Id("g")>>, q, <<A>>), "") : d \in {F(<<A>>), M(<<AId, X!Id("f")>>, "K", <<A>>)}, q \in {"", "K"}},
  {X!InConstruction(A, NB), X!InConstruction(Inst("T", <<A>>), A)},
  {X!Local(d, e, mark) : d \in {F(<<A>>), M(<<AId, X!Id("f")>>, "K", <<A>>), G(<<A>>, Void, <<T0>>)},
                         e \in {X!Data(<<X!Id("x")>>), X!Data(<<X!Id("L"), X!Id("y")>>)}, mark \in {"", "_1"}},
  {X!Literal(d, mark) : d \in {F(<<A>>), M(<<AId, X!Id("f")>>, "K", <<A>>)}, mark \in {"", "_0"}}}

Decls == UNION {Plain, Classes, Strings, Templates, Values, Others}
-----------------------------------------------------------------------------
(* Names without declarators inside of a type: their length is estimated    *)
(* well enough.                                                             *)
IsStraight(x) == x.t \in {"base", "class"} \/ (x.t \in {"P", "R"} /\ x.of.t \in {"base", "class", "cv", "P", "R"})
Straight == {x \in Simple \cup One : IsStraight(x)}
Sure == {F(args) : args \in {<<>>} \cup {<<x>> : x \in Straight} \cup (Straight \X {IntT, StdString, X!Ptr(A)})}
          \cup UNION {{d \in Members(p, "A") : d.d = "function" => d.path[Len(d.path)].to = <<>>} :
                        p \in {<<AId>>, <<X!Id("N"), TA, AId>>, <<X!Std, TA, AId>>}}
          \cup {G(<<x>>, Void, <<T0>>) : x \in Straight}

\* means: how the declaration is written; instead: what the code is known to
\* print for it, where that differs.
Ask(symbol, means, instead, limit, size, sure) ==
  [symbol |-> symbol, means |-> means, instead |-> instead, limit |-> limit, size |-> size, sure |-> sure]

\* The last parenthesis of the namespace is lost (demangle.c:755: the literal
\* at 732 and the length at 733 count it, the name is made one shorter).
Unclosed(s) == {X!Written(d) : d \in {e \in Nameless("(anonymous namespace") : X!Symbol(e) = s}}

Room == 256   \* of the caller, and INPUT_STR_SZ

\* The room: plenty, just enough, one character less.
Whole(s, w, sure) == {Ask(s, w, Unclosed(s), Room, size, sure) : size \in {Room, Len(w) + 1, Len(w)}}
\* A symbol of a version; the function that runs the constructors of a file,
\* whose prefix is read and forgotten (demangle.c:2816-2823).
Marked(s, w) == {Ask(s \o "@V1", w, Unclosed(s), Room, Room, FALSE),
                 Ask("_GLOBAL__I_" \o s, "global constructors keyed to " \o w,
                     {w} \cup Unclosed(s), Room, Room, FALSE)}
\* Copies that end anywhere.
Cut(s, w) == {Ask(s, w, {}, i, Room, FALSE) : i \in 3..Len(s)}
Forms(d, s, w) ==
  UNION {Whole(s, w, d \in Sure),
         IF d \in Classes THEN Marked(s, w) ELSE {},
         IF d \in UNION {Classes, Values, Others, Pairs} THEN Cut(s, w) ELSE {}}
Foreign == {Ask(s, s, {}, Room, Room, TRUE) : s \in {"main", "_start", "_Z", "_Z1", "_ZQ", "_GLOBAL__F_x", "Z1fv"}}
Asked == Foreign \cup UNION {Forms(d, X!Symbol(d), X!Written(d)) : d \in Decls \cup Sure}

IsWhole == Len(case.symbol) < case.limit

(* "demangling C++ symbol" (demangle.c:12): the symbol a compiler gives a   *)
(* declaration is shown as the declaration is written, or as it stands, and *)
(* reading and printing it ends well, however little room there is.  Two    *)
(* kinds of names are shown otherwise, and as follows: the anonymous        *)
(* namespace without its last parenthesis, the constructors of a file       *)
(* ("global constructors keyed to f") as the declaration they are keyed to. *)
(* Names that the copy of 255 characters cuts short are promised nothing.   *)
NamesReadBack ==
  IsWhole => pc # "crashed" /\ (pc = "done" => shown \in {case.symbol, case.means} \cup case.instead)

(* A declaration for which the caller has room is shown as it is written    *)
(* (or as NamesReadBack excepts it), provided that the estimate of its      *)
(* length (demangle.c:2859-2860), which bounds the buffer, is not too       *)
(* small: it is not for names, qualifiers, pointers, references and         *)
(* templates.                                                               *)
RoomIsEnough ==
  pc = "done" /\ IsWhole /\ Len(case.means) < case.size /\ (case.sure \/ Estimate(info) >= Len(case.means))
    => shown \in {case.means} \cup case.instead
=============================================================================
