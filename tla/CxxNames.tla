------------------------------ MODULE CxxNames ------------------------------
(***************************************************************************)
(* C++ declarations, the symbol a compiler gives them (the Itanium C++     *)
(* ABI, as far as g++ 4 used it), and how they are written.                *)
(*                                                                         *)
(* A type is built by the operators below.  A scoped name is a sequence of *)
(* parts; a part is an identifier with the code that stands for it and,    *)
(* for a template, its arguments.                                          *)
(***************************************************************************)
EXTENDS Integers, Sequences, SequencesExt, TLC

\* to: the type a conversion function converts to.
Part(code, id) == [code |-> code, id |-> id, to |-> <<>>, args |-> <<>>]
Id(name) == Part(ToString(Len(name)) \o name, name)
Templ(part, args) == [part EXCEPT !.args = args]
Conversion(to) == [Part("cv", "operator ") EXCEPT !.to = <<to>>]
Std == Part("St", "std")

Base(code, name) == [t |-> "base", code |-> code, name |-> name]
Class(path) == [t |-> "class", path |-> path]
Ptr(to) == [t |-> "P", of |-> to]
Ref(to) == [t |-> "R", of |-> to]
Cv(quals, of) == [t |-> "cv", quals |-> quals, of |-> of]
Fn(ret, args) == [t |-> "fn", of |-> ret, args |-> args]
Arr(n, of) == [t |-> "arr", n |-> ToString(n), of |-> of]
Member(class, of) == [t |-> "M", class |-> class, of |-> of]
Param(i) == [t |-> "T", number |-> i]
Vendor(name, of) == [t |-> "U", name |-> name, of |-> of]
\* Template arguments that are no types: code and spelling.
Value(code, text) == [t |-> "value", code |-> code, text |-> text]
\* One that depends on a parameter: code and spelling around it.
Around(before, param, after, left, right) ==
  [t |-> "expr", before |-> before, of |-> param, after |-> after, left |-> left, right |-> right]
-----------------------------------------------------------------------------
(* Symbols.  m is the text so far and the candidates for substitution.      *)

Add(m, text) == [m EXCEPT !.text = @ \o text]
Learn(m, x) == [m EXCEPT !.subs = Append(@, x)]

Base36 == "0123456789ABCDEFGHIJKLMNOPQRSTUVWXYZ"
Known(m, x) == \E i \in DOMAIN m.subs : m.subs[i] = x
Reuse(m, x) ==
  LET i == CHOOSE j \in DOMAIN m.subs : m.subs[j] = x
  IN Add(m, CASE i = 1 -> "S_" [] OTHER -> "S" \o SubSeq(Base36, i - 1, i - 1) \o "_")

Bare(path) == [path EXCEPT ![Len(path)].args = <<>>]
IsTemplate(path) == Last(path).args # <<>>
\* What encloses the last component, or the template it is an instance of.
Scope(path) == [t |-> "scope", path |-> IF IsTemplate(path) THEN Bare(path) ELSE Front(path)]

\* A component that std has a code for.
IsShort(path) == Len(path) = 1 /\ SubSeq(path[1].code, 1, 1) = "S" /\ ~IsTemplate(path)

RECURSIVE MType(_, _)
MTypes(m, types) == FoldLeft(MType, m, types)

\* The last component, behind its scope.
MPath(m, path) ==
  LET last == Last(path) instance == IsTemplate(path)
  IN Add(MTypes(Add(MType(m, Scope(path)), IF instance THEN "I" ELSE last.code),
                IF instance THEN last.args ELSE last.to),
         IF instance THEN "E" ELSE "")

\* A name that is not itself a candidate, with the qualifiers of this.
MName(m, path, quals) ==
  LET nested == quals # "" \/ ~(Len(path) = 1 \/ (Len(path) = 2 /\ path[1] = Std))
  IN Add(MPath(Add(m, IF nested THEN "N" \o quals ELSE ""), path), IF nested THEN "E" ELSE "")

\* Types, and the scopes of names, which are candidates as classes are.
MType(m, x) ==
  CASE x.t \in {"base", "value"} -> Add(m, x.code)
    [] x.t = "expr"  -> Add(MType(Add(m, x.before), x.of), x.after)
    [] x.t = "scope" /\ x.path = <<>> -> m
    [] x.t \in {"class", "scope"} /\ IsShort(x.path) -> Add(m, x.path[1].code)
    [] x.t = "scope" /\ Known(m, Class(x.path)) -> Reuse(m, Class(x.path))
    [] x.t = "scope" -> Learn(MPath(m, x.path), Class(x.path))
    [] Known(m, x)   -> Reuse(m, x)
    [] x.t = "class" -> Learn(MName(m, x.path, ""), x)
    [] x.t = "fn"    -> Learn(Add(MTypes(Add(m, "F"), <<x.of>> \o x.args), "E"), x)
    [] x.t = "cv"    -> Learn(MType(Add(m, x.quals), x.of), x)
    [] x.t = "arr"   -> Learn(MType(Add(m, "A" \o x.n \o "_"), x.of), x)
    [] x.t = "M"     -> Learn(MTypes(Add(m, "M"), <<x.class, x.of>>), x)
    [] x.t = "T"     -> Learn(Add(m, IF x.number = 0 THEN "T_" ELSE "T" \o ToString(x.number - 1) \o "_"), x)
    [] x.t = "U"     -> Learn(MType(Add(m, "U" \o ToString(Len(x.name)) \o x.name), x.of), x)
    [] OTHER         -> Learn(MType(Add(m, x.t), x.of), x)

(* Declarations.  A function that is an instance of a template has its      *)
(* return type in its symbol, unless it is a constructor or conversion.     *)
None == [t |-> "none"]
Void == Base("v", "void")
Function(path, quals, ret, args) ==
  [d |-> "function", path |-> path, quals |-> quals, ret |-> ret, args |-> args]
Data(path) == [d |-> "data", path |-> path]
About(code, text, type) == [d |-> "about", code |-> code, text |-> text, type |-> type]
Named(code, text, path) == [d |-> "named", code |-> code, text |-> text, path |-> path]
Via(code, text, decl) == [d |-> "via", code |-> code, text |-> text, decl |-> decl]
InConstruction(base, derived) == [d |-> "construction", base |-> base, derived |-> derived]
Local(outer, inner, mark) == [d |-> "local", outer |-> outer, inner |-> inner, mark |-> mark]
Literal(outer, mark) == [d |-> "literal", outer |-> outer, mark |-> mark]

RECURSIVE Encode(_, _)
Encode(m, d) ==
  CASE d.d = "data" -> MName(m, d.path, "")
    [] d.d = "function" ->
         MTypes(MName(m, d.path, d.quals),
                (IF d.ret = None THEN <<>> ELSE <<d.ret>>) \o (IF d.args = <<>> THEN <<Void>> ELSE d.args))
    [] d.d = "about" -> MType(Add(m, d.code), d.type)
    [] d.d = "named" -> MName(Add(m, d.code), d.path, "")
    [] d.d = "via"   -> Encode(Add(m, d.code), d.decl)
    [] d.d = "construction" -> MType(Add(MType(Add(m, "TC"), d.derived), "0_"), d.base)
    [] d.d = "local"   -> Add(Encode(Add(Encode(Add(m, "Z"), d.outer), "E"), d.inner), d.mark)
    [] d.d = "literal" -> Add(Encode(Add(m, "Z"), d.outer), "Es" \o d.mark)

Symbol(d) == Encode([text |-> "_Z", subs |-> <<>>], d).text
-----------------------------------------------------------------------------
(* Spelling.  A declarator is written around what it declares: inner is     *)
(* what stands in the place of the name.  env are the template arguments    *)
(* of the function.                                                         *)

Wraps(x) == x.t \in {"fn", "arr"}

Join(texts, between) ==
  IF texts = <<>> THEN "" ELSE FoldLeft(LAMBDA a, b : a \o between \o b, Head(texts), Tail(texts))

EndsIn(text, c) == text # "" /\ SubSeq(text, Len(text), Len(text)) = c

RECURSIVE Spell(_, _, _)

List(types, env) == Join([i \in DOMAIN types |-> Spell(types[i], "", env)], ", ")

\* "<" and ">" are kept apart from their like.
Bracketed(name, args) ==
  name \o (IF EndsIn(name, "<") THEN " <" ELSE "<") \o args \o (IF EndsIn(args, ">") THEN " >" ELSE ">")

PartName(part, env) == part.id \o (IF part.to = <<>> THEN "" ELSE Spell(Head(part.to), "", env))
PartText(part, env) ==
  IF part.args = <<>> THEN PartName(part, env) ELSE Bracketed(PartName(part, env), List(part.args, env))

Spelled(path, env) == Join([i \in DOMAIN path |-> PartText(path[i], env)], "::")

Spell(x, inner, env) ==
  CASE x.t = "base"  -> x.name \o inner
    [] x.t = "class" -> Spelled(x.path, env) \o inner
    [] x.t = "value" -> x.text
    [] x.t = "expr"  -> x.left \o Spell(x.of, "", env) \o x.right
    [] x.t = "T"     -> Spell(env[x.number + 1], inner, <<>>)
    [] x.t = "P"     -> Spell(x.of, "*" \o inner, env)
    [] x.t = "R"     -> Spell(x.of, "&" \o inner, env)
    [] x.t = "U"     -> Spell(x.of, " " \o x.name \o inner, env)
    [] x.t = "cv"    -> Spell(x.of, (CASE x.quals = "K"  -> " const"
                                       [] x.quals = "V"  -> " volatile"
                                       [] x.quals = "VK" -> " const volatile") \o inner, env)
    [] x.t = "M"     -> Spell(x.of, (IF Wraps(x.of) THEN "" ELSE " ")
                                      \o Spell(x.class, "", env) \o "::*" \o inner, env)
    [] x.t = "fn"    -> Spell(x.of, (IF x.of.t = "P" /\ Wraps(x.of.of) THEN "" ELSE " ")
                                      \o "(" \o inner \o ")(" \o List(x.args, env) \o ")", env)
    [] x.t = "arr"   -> Spell(x.of, (CASE inner = "" -> " "
                                       [] EndsIn(inner, "]") -> inner
                                       [] OTHER -> " (" \o inner \o ") ") \o "[" \o x.n \o "]", env)

RECURSIVE Written(_)
Written(d) ==
  CASE d.d = "data" -> Spelled(d.path, <<>>)
    [] d.d = "function" ->
         LET env  == Last(d.path).args
             call == Spelled(d.path, <<>>) \o "(" \o List(d.args, env) \o ")"
                       \o (IF d.quals = "K" THEN " const" ELSE "")
             ret  == IF d.ret.t = "T" THEN env[d.ret.number + 1] ELSE d.ret
         IN CASE ret = None -> call
              [] ret.t \in {"P", "R"} /\ Wraps(ret.of) -> Spell(ret, call, env)
              [] OTHER -> Spell(ret, " " \o call, env)
    [] d.d = "about"   -> d.text \o Spell(d.type, "", <<>>)
    [] d.d = "named"   -> d.text \o Spelled(d.path, <<>>)
    [] d.d = "via"     -> d.text \o Written(d.decl)
    [] d.d = "construction" ->
         "construction vtable for " \o Spell(d.base, "", <<>>) \o "-in-" \o Spell(d.derived, "", <<>>)
    [] d.d = "local"   -> Written(d.outer) \o "::" \o Written(d.inner)
    [] d.d = "literal" -> Written(d.outer) \o "::string literal"
=============================================================================
