--------------------------- MODULE DemangleParse ---------------------------
(***************************************************************************)
(* The first half of symbol/demangle.c: a mangled C++ name is read into a  *)
(* tree of components by recursive descent.  Names are TLA+ strings, which *)
(* are sequences of characters.                                            *)
(*                                                                         *)
(* di is info_t: the string and the position in it, the substitution      *)
(* candidates, last_name (what a constructor is called), how many          *)
(* components are taken, did_subs and expansion, from which the length of  *)
(* the demangled name is estimated.  faulted says that a null pointer was  *)
(* followed.  Every operator returns a component and the info_t left       *)
(* behind, also where it fails.  Argument and template argument lists are  *)
(* sequences here; options are what local_demangle sets: parameters are    *)
(* printed, implementation details are not.                                *)
(***************************************************************************)
EXTENDS Integers, Sequences

Null == [k |-> "null"]
Start(mangled) ==
  [s |-> mangled, n |-> 1, subs |-> <<>>, last |-> Null, comps |-> 0, did |-> 0, expansion |-> 0,
   faulted |-> FALSE]

CharOf(str, i) == IF i \in 1..Len(str) THEN SubSeq(str, i, i) ELSE ""
Peek(di) == CharOf(di.s, di.n)
PeekNext(di) == CharOf(di.s, di.n + 1)
Advance(di, i) == [di EXCEPT !.n = @ + i]
AtEnd(di) == Peek(di) = ""
Expand(di, i) == [di EXCEPT !.expansion = @ + i]

\* Characters in the order of their codes.
Ascii == "0123456789ABCDEFGHIJKLMNOPQRSTUVWXYZ_abcdefghijklmnopqrstuvwxyz"
Code == [c \in {CharOf(Ascii, i) : i \in 0..Len(Ascii)} |->
           CHOOSE i \in 0..Len(Ascii) : CharOf(Ascii, i) = c]
Digit == {CharOf(Ascii, i) : i \in 1..10}
Upper == {CharOf(Ascii, i) : i \in 11..36}
Lower == {CharOf(Ascii, i) : i \in 38..63}

Gives(c, di) == [c |-> c, di |-> di]
Fails(di) == Gives(Null, di)
Is(c) == c.k # "null"

(* _dmgMkEmpty and _dmgMkComp: a component from the array, unless a part it *)
(* needs is missing.                                                        *)
Fresh(comp, di) ==
  IF di.comps >= 2 * Len(di.s) THEN Fails(di)
  ELSE Gives(comp, [di EXCEPT !.comps = @ + 1])

NeedsBoth == {"QUAL_NAME", "LOCAL_NAME", "TYPED_NAME", "CONSTRUCTION_VTABLE", "VENDOR_TYPE_QUAL",
              "PTRMEM_TYPE", "UNARY", "BINARY", "BINARY_ARGS", "TRINARY", "TRINARY_ARG1",
              "TRINARY_ARG2", "LITERAL", "LITERAL_NEG"}
NeedsLeft == {"VTABLE", "VTT", "TYPEINFO", "TYPEINFO_NAME", "TYPEINFO_FN", "THUNK", "VIRTUAL_THUNK",
              "COVARIANT_THUNK", "GUARD", "REFTEMP", "HIDDEN_ALIAS", "POINTER", "REFERENCE", "COMPLEX",
              "IMAGINARY", "VENDOR_TYPE", "CAST"}

Make(kind, left, right, di) ==
  IF \/ kind \in NeedsBoth /\ ~(Is(left) /\ Is(right))
     \/ kind \in NeedsLeft /\ ~Is(left)
     \/ kind = "ARRAY_TYPE" /\ ~Is(right)
  THEN Fails(di)
  ELSE Fresh([k |-> kind, left |-> left, right |-> right], di)

\* _dmgMkName takes the component before it looks at the length.
MakeName(str, di) ==
  LET made == Fresh([k |-> "NAME", str |-> str], di)
  IN IF str = "" THEN Fails(made.di) ELSE made

MakeTemplate(decl, args, di) ==
  IF Is(decl) /\ Is(args) THEN Fresh([k |-> "TEMPLATE", left |-> decl, args |-> args.list], di)
  ELSE Fails(di)

\* _dmgAddSubstit
AddSubst(c, di) ==
  IF Is(c) /\ Len(di.subs) < Len(di.s)
  THEN [ok |-> TRUE, di |-> [di EXCEPT !.subs = Append(@, c)]]
  ELSE [ok |-> FALSE, di |-> di]

(* A name or type that has become a candidate, or NULL.                     *)
Candidate(r) ==
  LET added == AddSubst(r.c, r.di)
  IN IF added.ok THEN Gives(r.c, added.di) ELSE Fails(r.di)

ThisQuals == {"RESTRICT_THIS", "VOLATILE_THIS", "CONST_THIS"}

RECURSIVE IsCtorDtorConv(_), HasReturnType(_)
IsCtorDtorConv(c) ==
  \/ c.k \in {"CTOR", "DTOR", "CAST"}
  \/ c.k \in {"QUAL_NAME", "LOCAL_NAME"} /\ IsCtorDtorConv(c.right)

HasReturnType(c) ==
  \/ c.k = "TEMPLATE" /\ ~IsCtorDtorConv(c.left)
  \/ c.k \in ThisQuals /\ HasReturnType(c.left)

\* The rules of the grammar, which need one another, by their names.
RECURSIVE Rule(_, _)
-----------------------------------------------------------------------------
(* Numbers, source names, operators, constructors.                          *)

RECURSIVE Decimal(_, _)
Decimal(di, val) ==
  IF Peek(di) \in Digit THEN Decimal(Advance(di, 1), val * 10 + Code[Peek(di)] - 1)
  ELSE [val |-> val, di |-> di]

\* _dmgNum: "n" is the sign.
Num(di) ==
  IF Peek(di) = "n"
  THEN LET r == Decimal(Advance(di, 1), 0) IN [r EXCEPT !.val = -@]
  ELSE Decimal(di, 0)

(* The name g++ gives an anonymous namespace; the length _dmgSrcName prints *)
(* it with leaves out the closing parenthesis.                              *)
IsAnonymous(name) ==
  /\ Len(name) >= 10 /\ SubSeq(name, 1, 8) = "_GLOBAL_"
  /\ CharOf(name, 9) \in {".", "_", "$"} /\ CharOf(name, 10) = "N"
Anonymous == "(anonymous namespace"

NameOfLength(di, len) ==
  LET name == SubSeq(di.s, len.di.n, len.di.n + len.val - 1)
      past == Advance(len.di, len.val)
      made == IF IsAnonymous(name) THEN MakeName(Anonymous, Expand(past, 1 + Len(Anonymous) - Len(name)))
              ELSE MakeName(name, past)
  IN IF len.val <= 0 \/ Len(di.s) + 1 - len.di.n < len.val THEN Fails(len.di)
     ELSE Gives(made.c, [made.di EXCEPT !.last = made.c])
SourceName(di) == NameOfLength(di, Num(di))

\* operator_demangle_tbl: code, name, number of operands.
OperatorTable == <<
  <<"aN", "&=", 2>>, <<"aS", "=", 2>>, <<"aa", "&&", 2>>, <<"ad", "&", 1>>, <<"an", "&", 2>>,
  <<"cl", "()", 0>>, <<"cm", ",", 2>>, <<"co", "~", 1>>, <<"dV", "/=", 2>>, <<"da", "delete[]", 1>>,
  <<"de", "*", 1>>, <<"dl", "delete", 1>>, <<"dv", "/", 2>>, <<"eO", "^=", 2>>, <<"eo", "^", 2>>,
  <<"eq", "==", 2>>, <<"ge", ">=", 2>>, <<"gt", ">", 2>>, <<"ix", "[]", 2>>, <<"lS", "<<=", 2>>,
  <<"le", "<=", 2>>, <<"ls", "<<", 2>>, <<"lt", "<", 2>>, <<"mI", "-=", 2>>, <<"mL", "*=", 2>>,
  <<"mi", "-", 2>>, <<"ml", "*", 2>>, <<"mm", "--", 1>>, <<"na", "new[]", 1>>, <<"ne", "!=", 2>>,
  <<"ng", "-", 1>>, <<"nt", "!", 1>>, <<"nw", "new", 1>>, <<"oR", "|=", 2>>, <<"oo", "||", 2>>,
  <<"or", "|", 2>>, <<"pL", "+=", 2>>, <<"pl", "+", 2>>, <<"pm", "->*", 2>>, <<"pp", "++", 1>>,
  <<"ps", "+", 1>>, <<"pt", "->", 2>>, <<"qu", "?", 3>>, <<"rM", "%=", 2>>, <<"rS", ">>=", 2>>,
  <<"rm", "%", 2>>, <<"rs", ">>", 2>>, <<"st", "sizeof ", 1>>, <<"sz", "sizeof ", 1>> >>

Before(c1, c2, code) ==
  \/ Code[c1] < Code[CharOf(code, 1)]
  \/ c1 = CharOf(code, 1) /\ Code[c2] < Code[CharOf(code, 2)]

\* The row of a code in low..high-1, or 0.
RECURSIVE SeekOperator(_, _, _, _)
SeekOperator(c1, c2, low, high) ==
  LET i == low + (high - low) \div 2
      code == OperatorTable[i][1]
      first == IF Before(c1, c2, code) THEN low ELSE i + 1
      last == IF Before(c1, c2, code) THEN i ELSE high
  IN CASE code = c1 \o c2 -> i
       [] first = last    -> 0
       [] OTHER           -> SeekOperator(c1, c2, first, last)


Operator(di) ==
  LET c1   == Peek(di)
      rest == IF AtEnd(di) THEN di ELSE Advance(di, 1)
      c2   == Peek(rest)
      past == IF AtEnd(rest) THEN rest ELSE Advance(rest, 1)
      name == Rule("source-name", past)
      to   == Rule("type", past)
      row  == SeekOperator(c1, c2, 1, Len(OperatorTable) + 1)
  IN CASE c1 = "v" /\ c2 \in Digit ->
            IF ~Is(name.c) THEN Fails(name.di)
            ELSE Fresh([k |-> "EXTENDED_OPERATOR", args |-> Code[c2] - 1, name |-> name.c], name.di)
       [] c1 = "c" /\ c2 = "v" -> Make("CAST", to.c, Null, to.di)
       [] OTHER -> IF row = 0 THEN Fails(past)
                   ELSE Fresh([k |-> "OPERATOR", code |-> OperatorTable[row][1],
                               str |-> OperatorTable[row][2], args |-> OperatorTable[row][3]], past)

(* _dmgDCTRName: the name is the last one read before it.                   *)
CtorDtorName(di) ==
  LET grown == IF Is(di.last) THEN Expand(di, Len(di.last.str)) ELSE di
      kind  == CASE Peek(di) = "C" /\ PeekNext(di) \in {"1", "2", "3"} -> "CTOR"
                 [] Peek(di) = "D" /\ PeekNext(di) \in {"0", "1", "2"} -> "DTOR"
                 [] OTHER -> "none"
  IN IF kind = "none" \/ ~Is(di.last) THEN Fails(grown)
     ELSE Fresh([k |-> kind, name |-> di.last], Advance(grown, 2))

UnqualName(di) ==
  LET op == Rule("operator", di)
  IN CASE Peek(di) \in Digit -> Rule("source-name", di)
       [] Peek(di) \in Lower ->
            IF op.c.k = "OPERATOR" THEN Gives(op.c, Expand(op.di, Len(op.c.str) + 7)) ELSE op
       [] Peek(di) \in {"C", "D"} -> CtorDtorName(di)
       [] OTHER -> Fails(di)
-----------------------------------------------------------------------------
(* Substitutions and template parameters.                                   *)

\* standard_subs: short and full expansion, and what a constructor is called.
StandardSubs ==
  [c \in {"t", "a", "b", "s", "i", "o", "d"} |->
     CASE c = "t" -> <<"std", "std", "">>
       [] c = "a" -> <<"std::allocator", "std::allocator", "allocator">>
       [] c = "b" -> <<"std::basic_string", "std::basic_string", "basic_string">>
       [] c = "s" -> <<"std::string",
                       "std::basic_string<char, std::char_traits<char>, std::allocator<char> >",
                       "basic_string">>
       [] c = "i" -> <<"std::istream", "std::basic_istream<char, std::char_traits<char> >",
                       "basic_istream">>
       [] c = "o" -> <<"std::ostream", "std::basic_ostream<char, std::char_traits<char> >",
                       "basic_ostream">>
       [] c = "d" -> <<"std::iostream", "std::basic_iostream<char, std::char_traits<char> >",
                       "basic_iostream">>]

MakeSub(str, di) == Fresh([k |-> "SUB_STD", str |-> str], di)

\* The number before "_", in base 36; -1 if something else is found.
RECURSIVE SeqId(_, _)
SeqId(di, id) ==
  CASE Peek(di) = "_" -> [val |-> id, di |-> Advance(di, 1)]
    [] Peek(di) \in Digit \cup Upper -> SeqId(Advance(di, 1), id * 36 + Code[Peek(di)] - 1)
    [] OTHER -> [val |-> -1, di |-> di]

StandardSubst(c, prefix, di) ==
  LET row     == StandardSubs[c]
      full    == prefix /\ Peek(di) \in {"C", "D"}
      called  == MakeSub(row[3], di)
      named   == IF row[3] = "" THEN di ELSE [called.di EXCEPT !.last = called.c]
      str     == IF full THEN row[2] ELSE row[1]
  IN MakeSub(str, Expand(named, Len(str)))

Substitution(di, prefix) ==
  LET c     == PeekNext(di)
      past  == Advance(di, IF c = "" THEN 1 ELSE 2)
      seqId == IF c = "_" THEN [val |-> -1, di |-> past] ELSE SeqId(Advance(di, 1), 0)
      index == seqId.val + 2   \* "_" is the first candidate
  IN CASE Peek(di) # "S" -> Fails(di)
       [] c = "_" \/ c \in Digit \cup Upper ->
            IF (c # "_" /\ seqId.val < 0) \/ index > Len(di.subs) THEN Fails(seqId.di)
            ELSE Gives(di.subs[index], [seqId.di EXCEPT !.did = @ + 1])
       [] c \in DOMAIN StandardSubs -> StandardSubst(c, prefix, past)
       [] OTHER -> Fails(past)

TemplateParam(di) ==
  LET start == Advance(di, 1)
      num   == Num(start)
      param == IF Peek(start) = "_" THEN 0 ELSE num.val + 1
      past  == IF Peek(start) = "_" THEN start ELSE num.di
  IN IF Peek(di) # "T" \/ (Peek(start) # "_" /\ num.val < 0) \/ Peek(past) # "_" THEN Fails(past)
     ELSE Fresh([k |-> "TEMPLATE_PARAM", number |-> param],
                [Advance(past, 1) EXCEPT !.did = @ + 1])
-----------------------------------------------------------------------------
(* Names.                                                                   *)

CVCodes == [r |-> <<"RESTRICT", 9>>, V |-> <<"VOLATILE", 9>>, K |-> <<"CONST", 6>>]

\* _dmgCVQual: the chain of qualifiers, outermost first.
RECURSIVE Qualifiers(_, _, _)
Qualifiers(di, member, quals) ==
  IF Peek(di) \notin DOMAIN CVCodes THEN [quals |-> quals, di |-> di]
  ELSE LET row == CVCodes[Peek(di)]
           made == Make(IF member THEN row[1] \o "_THIS" ELSE row[1], Null, Null,
                        Expand(Advance(di, 1), row[2]))
       IN Qualifiers(made.di, member, Append(quals, made.c))

RECURSIVE Qualified(_, _)
Qualified(quals, c) ==
  IF quals = <<>> THEN c ELSE [Head(quals) EXCEPT !.left = Qualified(Tail(quals), c)]

\* The template arguments that may follow a name.
WithArgs(name) ==
  LET args == Rule("template-args", name.di)
  IN IF Peek(name.di) # "I" THEN name ELSE MakeTemplate(name.c, args.c, args.di)

\* What has to end with "E".
PastE(r) == IF Peek(r.di) = "E" THEN Gives(r.c, Advance(r.di, 1)) ELSE Fails(r.di)

\* Such a name is a candidate by itself when arguments follow.
CandidateWithArgs(name) ==
  LET added == Candidate(name)
  IN IF Peek(name.di) # "I" THEN name
     ELSE IF Is(added.c) THEN WithArgs(added) ELSE added

Joined(peek, ret, part) ==
  CASE ~Is(ret)   -> part
    [] peek = "I" -> MakeTemplate(ret, part.c, part.di)
    [] OTHER      -> Make("QUAL_NAME", ret, part.c, part.di)

RECURSIVE Prefix(_, _)
PrefixFrom(added, joined) == IF added.ok THEN Prefix(added.di, joined.c) ELSE Fails(joined.di)

\* A candidate unless it is one already or nothing follows.
PrefixWith(peek, joined) ==
  IF peek = "S" \/ Peek(joined.di) = "E" THEN Prefix(joined.di, joined.c)
  ELSE PrefixFrom(AddSubst(joined.c, joined.di), joined)

Prefix(di, ret) ==
  LET peek == Peek(di)
      part == CASE peek \in Digit \cup Lower \cup {"C", "D"} -> Rule("unqualified-name", di)
                [] peek = "S" -> Substitution(di, TRUE)
                [] peek = "I" -> Rule("template-args", di)
                [] peek = "T" -> Rule("template-param", di)
  IN CASE peek = "E" -> Gives(ret, di)
       [] peek \notin Digit \cup Lower \cup {"C", "D", "S", "I", "T"} -> Fails(di)
       [] peek = "I" /\ ~Is(ret) -> Fails(di)
       [] OTHER -> PrefixWith(peek, Joined(peek, ret, part))

Nested(quals, prefix) ==
  IF ~Is(prefix.c) \/ Peek(prefix.di) # "E" THEN Fails(prefix.di)
  ELSE Gives(Qualified(quals, prefix.c), Advance(prefix.di, 1))

NestedName(di) ==
  LET cv == Qualifiers(Advance(di, 1), TRUE, <<>>) IN Nested(cv.quals, Prefix(cv.di, Null))

\* The number that tells local entities of one name apart is not kept.
Discriminator(name) ==
  LET num == Num(Advance(name.di, 1))
  IN CASE Peek(name.di) # "_" -> name
       [] num.val < 0         -> Fails(num.di)
       [] OTHER               -> Gives(name.c, num.di)

LocalName(di) ==
  LET function == Rule("encoding", Advance(di, 1))
      past     == Advance(function.di, 1)
      literal  == Discriminator(Gives(function.c, Advance(past, 1)))
      string   == MakeName("string literal", literal.di)
      entity   == Rule("name", past)
      told     == Discriminator(entity)
  IN CASE Peek(function.di) # "E" -> Fails(function.di)
       [] Peek(past) = "s" -> Make("LOCAL_NAME", literal.c, string.c, string.di)
       [] OTHER -> Make("LOCAL_NAME", function.c, told.c, told.di)

Name(di) ==
  LET std    == MakeName("std", Advance(di, 2))
      member == Rule("unqualified-name", std.di)
  IN CASE Peek(di) = "N" -> Rule("nested-name", di)
       [] Peek(di) = "Z" -> Rule("local-name", di)
       [] Peek(di) = "S" /\ PeekNext(di) = "t" ->
            CandidateWithArgs(Make("QUAL_NAME", std.c, member.c, Expand(member.di, 3)))
       [] Peek(di) = "S" -> WithArgs(Substitution(di, FALSE))
       [] OTHER -> CandidateWithArgs(Rule("unqualified-name", di))
-----------------------------------------------------------------------------
(* Functions and special names.                                             *)

\* The types up to "E" or the end, and whether all of them were read.
RECURSIVE TypesFrom(_, _)
TypesFrom(di, types) ==
  LET type == Rule("type", di)
  IN CASE AtEnd(di) \/ Peek(di) = "E" -> [ok |-> TRUE, list |-> types, di |-> di]
       [] ~Is(type.c) -> [ok |-> FALSE, list |-> types, di |-> type.di]
       [] OTHER -> TypesFrom(type.di, Append(types, type.c))

IsVoid(c) == c.k = "BUILTIN_TYPE" /\ c.print = "VOID"

FunctionOf(types, withReturn) ==
  LET args  == IF withReturn THEN Tail(types.list) ELSE types.list
      void  == Len(args) = 1 /\ IsVoid(args[1])
      past  == [types.di EXCEPT !.comps = @ + Len(args),
                                !.expansion = IF void THEN @ - 4 ELSE @]
  IN IF ~types.ok \/ types.list = <<>> \/ args = <<>> THEN Fails(types.di)
     ELSE Fresh([k |-> "FUNCTION_TYPE", left |-> IF withReturn THEN types.list[1] ELSE Null,
                 args |-> IF void THEN <<>> ELSE args], past)

BareFunctionType(di, hasReturn) ==
  IF Peek(di) = "J" THEN FunctionOf(TypesFrom(Advance(di, 1), <<>>), TRUE)
  ELSE FunctionOf(TypesFrom(di, <<>>), hasReturn)

\* _dmgCallOffs: an offset is passed over.
PastOffset(di, code, first, last) ==
  IF code \notin {"h", "v"} \/ (code = "v" /\ Peek(first) # "_") \/ Peek(last) # "_"
  THEN [ok |-> FALSE, di |-> di]
  ELSE [ok |-> TRUE, di |-> Advance(last, 1)]
CallOffset(di, code) ==
  LET first == Num(di).di
  IN PastOffset(di, code, first, IF code = "v" THEN Num(Advance(first, 1)).di ELSE first)

\* A code in the string is taken first.
CodedOffset(di) == CallOffset(IF AtEnd(di) THEN di ELSE Advance(di, 1), Peek(di))

OfType == [V |-> <<"VTABLE", -5>>, T |-> <<"VTT", -10>>, I |-> <<"TYPEINFO", 0>>,
           S |-> <<"TYPEINFO_NAME", 0>>, F |-> <<"TYPEINFO_FN", 0>>]
OfName == [V |-> "GUARD", R |-> "REFTEMP"]

Of(kind, r) == Make(kind, r.c, Null, r.di)

Thunk(kind, offset) == IF offset.ok THEN Of(kind, Rule("encoding", offset.di)) ELSE Fails(offset.di)

ConstructionVtable(di) ==
  LET derived == Rule("type", di)
      offset  == Num(derived.di)
      base    == Rule("type", Advance(offset.di, 1))
  IN IF offset.val < 0 \/ Peek(offset.di) # "_" THEN Fails(offset.di)
     ELSE Make("CONSTRUCTION_VTABLE", base.c, derived.c, Expand(base.di, 5))

Twice(once) == IF once.ok THEN CodedOffset(once.di) ELSE once

SpecialName(di) ==
  LET code   == PeekNext(di)
      past   == Expand(Advance(di, IF code = "" THEN 1 ELSE 2), 20)
  IN IF Peek(di) = "T"
     THEN CASE code \in DOMAIN OfType -> Of(OfType[code][1], Rule("type", Expand(past, OfType[code][2])))
            [] code = "h" -> Thunk("THUNK", CallOffset(past, "h"))
            [] code = "v" -> Thunk("VIRTUAL_THUNK", CallOffset(past, "v"))
            [] code = "c" -> Thunk("COVARIANT_THUNK", Twice(CodedOffset(past)))
            [] code = "C" -> ConstructionVtable(past)
            [] OTHER -> Fails(past)
     ELSE CASE code \in DOMAIN OfName -> Of(OfName[code], Rule("name", past))
            [] code = "A" -> Of("HIDDEN_ALIAS", Rule("encoding", past))
            [] OTHER -> Fails(past)

Encoding(di) ==
  LET name     == Rule("name", di)
      function == BareFunctionType(name.di, HasReturnType(name.c))
  IN CASE Peek(di) \in {"G", "T"} -> Rule("special-name", di)
       [] AtEnd(name.di) \/ Peek(name.di) = "E" -> name
       [] OTHER -> Make("TYPED_NAME", name.c, function.c, function.di)
-----------------------------------------------------------------------------
(* Types.                                                                   *)

\* cplus_demangle_builtin_types: the name and how a literal of it is printed.
Builtins == [
  a |-> <<"signed char", "DEFAULT">>, b |-> <<"bool", "BOOL">>, c |-> <<"char", "DEFAULT">>,
  d |-> <<"double", "FLOAT">>, e |-> <<"long double", "FLOAT">>, f |-> <<"float", "FLOAT">>,
  g |-> <<"__float128", "FLOAT">>, h |-> <<"unsigned char", "DEFAULT">>, i |-> <<"int", "INT">>,
  j |-> <<"unsigned int", "UNSIGNED">>, l |-> <<"long", "LONG">>,
  m |-> <<"unsigned long", "UNSIGNED_LONG">>, n |-> <<"__int128", "DEFAULT">>,
  o |-> <<"unsigned __int128", "DEFAULT">>, s |-> <<"short", "DEFAULT">>,
  t |-> <<"unsigned short", "DEFAULT">>, v |-> <<"void", "VOID">>, w |-> <<"wchar_t", "DEFAULT">>,
  x |-> <<"long long", "LONG_LONG">>, y |-> <<"unsigned long long", "UNSIGNED_LONG_LONG">>,
  z |-> <<"...", "DEFAULT">>]

BuiltinType(di) ==
  LET row == Builtins[Peek(di)]
  IN Fresh([k |-> "BUILTIN_TYPE", str |-> row[1], print |-> row[2]],
           Advance(Expand(di, Len(row[1])), 1))

FunctionType(di) ==
  PastE(BareFunctionType(Advance(di, IF PeekNext(di) = "Y" THEN 2 ELSE 1), TRUE))

RECURSIVE PastDigits(_)
PastDigits(di) == IF Peek(di) \in Digit THEN PastDigits(Advance(di, 1)) ELSE di

ArrayType(di) ==
  LET start == Advance(di, 1)
      dim   == CASE Peek(start) = "_" -> Fails(start)
                 [] Peek(start) \in Digit ->
                      LET past == PastDigits(start)
                      IN MakeName(SubSeq(di.s, start.n, past.n - 1), past)
                 [] OTHER -> Rule("expression", start)
      of    == Rule("type", Advance(dim.di, 1))
  IN IF (Peek(start) # "_" /\ ~Is(dim.c)) \/ Peek(dim.di) # "_" THEN Fails(dim.di)
     ELSE Make("ARRAY_TYPE", dim.c, of.c, of.di)

(* A qualified member type is a candidate, unless it is a function; the     *)
(* type is followed to see that, also if there is none.                     *)
MemberPointerType(di) ==
  LET class  == Rule("type", Advance(di, 1))
      cv     == Qualifiers(class.di, TRUE, <<>>)
      type   == Rule("type", cv.di)
      member == Qualified(cv.quals, type.c)
      added  == AddSubst(member, type.di)
  IN CASE cv.quals = <<>> \/ type.c.k = "FUNCTION_TYPE" ->
            Make("PTRMEM_TYPE", class.c, member, type.di)
       [] ~Is(type.c) -> Fails([type.di EXCEPT !.faulted = TRUE])
       [] OTHER -> IF added.ok THEN Make("PTRMEM_TYPE", class.c, member, added.di) ELSE Fails(type.di)

TemplateParamType(di) ==
  CandidateWithArgs(Rule("template-param", di))

Wrappers == [P |-> "POINTER", R |-> "REFERENCE", C |-> "COMPLEX", G |-> "IMAGINARY"]

VendorQualified(di) ==
  LET name == Rule("source-name", Advance(di, 1))
      type == Rule("type", name.di)
  IN Make("VENDOR_TYPE_QUAL", type.c, name.c, type.di)

\* A qualified type becomes a candidate even if what it qualifies is missing.
QualifiedType(di) ==
  LET cv   == Qualifiers(di, FALSE, <<>>)
      type == Rule("type", cv.di)
  IN Candidate(Gives(Qualified(cv.quals, type.c), type.di))

SubstitutedType(di) ==
  LET name == Substitution(di, FALSE)
  IN IF Peek(name.di) = "I" THEN Candidate(WithArgs(name)) ELSE name

NamedOrStandardType(di) ==
  LET name == Rule("name", di)
  IN IF name.c.k = "SUB_STD" THEN name ELSE Candidate(name)

Type(di) ==
  LET peek == Peek(di)
  IN CASE peek \in DOMAIN CVCodes  -> QualifiedType(di)
       [] peek \in DOMAIN Builtins -> BuiltinType(di)
       [] peek = "u" -> Candidate(Of("VENDOR_TYPE", Rule("source-name", Advance(di, 1))))
       [] peek = "F" -> Candidate(Rule("function-type", di))
       [] peek \in Digit \cup {"N", "Z"} -> Candidate(Rule("name", di))
       [] peek = "A" -> Candidate(Rule("array-type", di))
       [] peek = "M" -> Candidate(MemberPointerType(di))
       [] peek = "T" -> Candidate(TemplateParamType(di))
       [] peek = "S" -> IF PeekNext(di) \in Digit \cup Upper \cup {"_"} THEN SubstitutedType(di)
                        ELSE NamedOrStandardType(di)
       [] peek \in DOMAIN Wrappers -> Candidate(Of(Wrappers[peek], Rule("type", Advance(di, 1))))
       [] peek = "U" -> Candidate(VendorQualified(di))
       [] OTHER -> Fails(di)
-----------------------------------------------------------------------------
(* Template arguments and expressions.                                      *)

\* The literal's type is not printed in full if it has a short form.
Literal(di) ==
  LET type == Rule("type", di)
      from == IF Is(type.c) /\ type.c.k = "BUILTIN_TYPE" /\ type.c.print # "DEFAULT"
              THEN Expand(type.di, -Len(type.c.str)) ELSE type.di
      neg  == Peek(from) = "n"
      start == IF neg THEN Advance(from, 1) ELSE from
      ends == {i \in start.n..Len(di.s) : CharOf(di.s, i) = "E"}
      end  == CHOOSE i \in ends : \A j \in ends : i <= j
      val  == MakeName(SubSeq(di.s, start.n, end - 1), [start EXCEPT !.n = end])
  IN IF ~Is(type.c) \/ ends = {} THEN Fails(start)
     ELSE Make(IF neg THEN "LITERAL_NEG" ELSE "LITERAL", type.c, val.c, val.di)

ExprPrimary(di) ==
  LET start  == Advance(di, 1)
  IN PastE(CASE Peek(start) # "_"     -> Literal(start)
             [] PeekNext(start) = "Z" -> Rule("encoding", Advance(start, 2))
             [] OTHER                 -> Fails(Advance(start, 1)))

TemplateArg(di) ==
  CASE Peek(di) = "X" -> PastE(Rule("expression", Advance(di, 1)))
    [] Peek(di) = "L" -> Rule("expr-primary", di)
    [] OTHER -> Rule("type", di)

RECURSIVE ArgsFrom(_, _)
ArgsFrom(di, list) ==
  LET arg  == Rule("template-arg", di)
      past == [arg.di EXCEPT !.comps = @ + 1]
      args == Append(list, arg.c)
  IN CASE ~Is(arg.c) -> Fails(arg.di)
       [] Peek(past) = "E" -> Gives([k |-> "TEMPLATE_ARGLIST", list |-> args], Advance(past, 1))
       [] OTHER -> ArgsFrom(past, args)

\* Mutant of TemplateArgs: a constructor is called after the last argument.
TemplateArgsLast(di) == IF Peek(di) # "I" THEN Fails(di) ELSE ArgsFrom(Advance(di, 1), <<>>)

(* What a constructor is called is not changed by the names in between.     *)
TemplateArgs(di) ==
  LET args == ArgsFrom(Advance(di, 1), <<>>)
  IN CASE Peek(di) # "I" -> Fails(di)
       [] ~Is(args.c)    -> args
       [] OTHER          -> Gives(args.c, [args.di EXCEPT !.last = di.last])

ScopedName(di) ==
  LET type == Rule("type", di)
      name == WithArgs(Rule("unqualified-name", type.di))
  IN Make("QUAL_NAME", type.c, name.c, name.di)

Operands(op, di) ==
  LET first  == Rule("expression", di)
      second == Rule("expression", first.di)
      third  == Rule("expression", second.di)
      args   == CASE op.k = "CAST" -> 1 [] OTHER -> op.args
      pair   == Make("BINARY_ARGS", first.c, second.c, second.di)
      right  == Make("TRINARY_ARG2", second.c, third.c, third.di)
      triple == Make("TRINARY_ARG1", first.c, right.c, right.di)
      sized  == Rule("type", di)
  IN CASE op.k = "OPERATOR" /\ op.code = "st" -> Make("UNARY", op, sized.c, sized.di)
       [] args = 1 -> Make("UNARY", op, first.c, first.di)
       [] args = 2 -> Make("BINARY", op, pair.c, pair.di)
       [] args = 3 -> Make("TRINARY", op, triple.c, triple.di)
       [] OTHER    -> Fails(di)

Expression(di) ==
  LET op == Rule("operator", di)
  IN CASE Peek(di) = "L" -> Rule("expr-primary", di)
       [] Peek(di) = "T" -> Rule("template-param", di)
       [] Peek(di) = "s" /\ PeekNext(di) = "r" -> ScopedName(Advance(di, 2))
       [] ~Is(op.c) -> Fails(op.di)
       [] op.c.k = "OPERATOR" -> Operands(op.c, Expand(op.di, Len(op.c.str) - 2))
       [] OTHER -> Operands(op.c, op.di)

Rule(rule, di) ==
  CASE rule = "source-name"      -> SourceName(di)
    [] rule = "operator"         -> Operator(di)
    [] rule = "unqualified-name" -> UnqualName(di)
    [] rule = "template-param"   -> TemplateParam(di)
    [] rule = "expr-primary"     -> ExprPrimary(di)
    [] rule = "nested-name"      -> NestedName(di)
    [] rule = "local-name"       -> LocalName(di)
    [] rule = "special-name"     -> SpecialName(di)
    [] rule = "function-type"    -> FunctionType(di)
    [] rule = "array-type"       -> ArrayType(di)
    [] rule = "template-arg"     -> TemplateArg(di)
    [] rule = "type"             -> Type(di)
    [] rule = "encoding"         -> Encoding(di)
    [] rule = "expression"       -> Expression(di)
    [] rule = "template-args"    -> TemplateArgs(di)
    [] rule = "name"             -> Name(di)
=============================================================================
