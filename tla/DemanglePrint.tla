--------------------------- MODULE DemanglePrint ---------------------------
(***************************************************************************)
(* The second half of symbol/demangle.c: a tree of components is printed   *)
(* into a buffer of the caller.                                            *)
(*                                                                         *)
(* dpi is dp_info_t.  C++ declarators are inside out: what follows a type  *)
(* in the tree may stand before, behind or around what it applies to.      *)
(* Modifiers wait in a linked list, whose cells are on the C stack and are *)
(* marked when they are printed.  Here cells holds every cell ever made,   *)
(* and modifiers and next are places in it, 0 for NULL.  A cell keeps the  *)
(* templates in force where it was made; templates is the list, innermost  *)
(* first.                                                                  *)
(***************************************************************************)
EXTENDS DemangleParse

Output(alc) ==
  [text |-> "", alc |-> alc, buf |-> TRUE, freed |-> FALSE, cells |-> <<>>, modifiers |-> 0,
   templates |-> <<>>]

(* d_append_buffer: the buffer does not grow, it is given up when it is     *)
(* full.                                                                    *)
Put(dpi, str) ==
  CASE ~dpi.buf -> dpi
    [] Len(dpi.text) + Len(str) <= dpi.alc -> [dpi EXCEPT !.text = @ \o str]
    [] OTHER -> [dpi EXCEPT !.buf = FALSE]

PutIf(cond, dpi, str) == IF cond THEN Put(dpi, str) ELSE dpi

LastChar(dpi) == IF dpi.buf THEN CharOf(dpi.text, Len(dpi.text)) ELSE ""

\* _dpError frees the buffer, whoever has allocated it.
Error(dpi) == IF dpi.buf THEN [dpi EXCEPT !.buf = FALSE, !.freed = TRUE] ELSE dpi

Push(dpi, mod) ==
  [dpi EXCEPT !.cells = Append(@, [next |-> dpi.modifiers, mod |-> mod, printed |-> FALSE,
                                   templates |-> dpi.templates]),
              !.modifiers = Len(dpi.cells) + 1]

Printed(dpi, cell) == dpi.cells[cell].printed

\* The cells from one on that are not printed, up to the first that is.
RECURSIVE Waiting(_, _)
Waiting(dpi, cell) ==
  IF cell = 0 \/ (cell # 0 /\ Printed(dpi, cell)) THEN <<>>
  ELSE <<cell>> \o Waiting(dpi, dpi.cells[cell].next)

CVQuals == {"RESTRICT", "VOLATILE", "CONST"}

RECURSIVE PrintComp(_, _), Mode(_, _), ModList(_, _, _), PrintList(_, _)

\* The list of arguments.
PrintList(dpi, list) ==
  LET first == PrintComp(dpi, Head(list))
  IN CASE list = <<>>   -> dpi
       [] Len(list) = 1 -> first
       [] OTHER         -> PrintList(Put(first, ", "), Tail(list))

PrintBetween(dpi, left, c, right) == Put(PrintComp(Put(dpi, left), c), right)

\* < and > that would touch another are kept apart by a space.
PrintArgs(dpi, args) ==
  LET open  == Put(PutIf(LastChar(dpi) = "<", dpi, " "), "<")
      inner == PrintList(open, args)
  IN Put(PutIf(LastChar(inner) = ">", inner, " "), ">")
-----------------------------------------------------------------------------
(* Functions, arrays and modifiers.                                         *)

NeedParen == {"POINTER", "REFERENCE"}
NeedSpace == CVQuals \cup {"VENDOR_TYPE_QUAL", "COMPLEX", "IMAGINARY", "PTRMEM_TYPE"}

Arguments(dpi, paren, list) == Put(PrintList(Put(PutIf(paren, dpi, ")"), "("), list), ")")

\* _dpFunction_type
PrintSignature(dpi, function, mods) ==
  LET waiting == Waiting(dpi, mods)
      wrapped == SelectSeq(waiting, LAMBDA m : dpi.cells[m].mod.k \in NeedParen \cup NeedSpace)
      paren   == wrapped # <<>> \/ (Is(function.left) /\ waiting = <<>>)
      space   == \/ wrapped # <<>> /\ dpi.cells[wrapped[1]].mod.k \in NeedSpace
                 \/ LastChar(dpi) \notin {"(", "*"}
      open    == IF paren THEN Put(PutIf(space /\ LastChar(dpi) # " ", dpi, " "), "(") ELSE dpi
  IN [ModList(Arguments(ModList([open EXCEPT !.modifiers = 0], mods, FALSE), paren, function.args),
              mods, TRUE)
        EXCEPT !.modifiers = dpi.modifiers]

\* _dpArray_type: only the first modifier that waits decides.
RECURSIVE FirstWaiting(_, _)
FirstWaiting(dpi, cell) ==
  CASE cell = 0            -> Null
    [] Printed(dpi, cell)  -> FirstWaiting(dpi, dpi.cells[cell].next)
    [] OTHER               -> dpi.cells[cell].mod

Brackets(open, dim) == Put(IF Is(dim) THEN PrintComp(open, dim) ELSE open, "]")

PrintDimension(dpi, array, mods) ==
  LET first == FirstWaiting(dpi, mods)
      nested == first.k = "ARRAY_TYPE"
      paren == Is(first) /\ ~nested
  IN Brackets(Put(PutIf(~nested,
                        PutIf(paren, ModList(PutIf(paren, dpi, " ("), mods, FALSE), ")"), " "), "["),
              array.left)

\* What _dmgCVQual has put around a member function.
RECURSIVE Unqualified(_)
Unqualified(c) == IF c.k \in ThisQuals THEN Unqualified(c.left) ELSE c

\* The enclosing function of a local name is printed without modifiers.
LocalMode(dpi, local) ==
  LET scope == [PrintComp([dpi EXCEPT !.modifiers = 0], local.left) EXCEPT !.modifiers = dpi.modifiers]
  IN PrintComp(Put(scope, "::"), Unqualified(local.right))

\* These print the modifiers behind them too.
Enclosing == {"FUNCTION_TYPE", "ARRAY_TYPE", "LOCAL_NAME"}
Behind(done, dpi, cell, suffix) ==
  LET after == [done EXCEPT !.templates = dpi.templates]
  IN IF dpi.cells[cell].mod.k \in Enclosing THEN after
     ELSE ModList(after, dpi.cells[cell].next, suffix)

\* _dpModList; suffix says that the qualifiers of this are due.
ModList(dpi, cell, suffix) ==
  LET this == dpi.cells[cell]
      mine == [dpi EXCEPT !.cells[cell].printed = TRUE, !.templates = this.templates]
      kind == this.mod.k
      done == CASE kind = "FUNCTION_TYPE" -> PrintSignature(mine, this.mod, this.next)
                [] kind = "ARRAY_TYPE"    -> PrintDimension(mine, this.mod, this.next)
                [] kind = "LOCAL_NAME"    -> LocalMode(mine, this.mod)
                [] OTHER                  -> Mode(mine, this.mod)
  IN CASE cell = 0 \/ ~dpi.buf -> dpi
       [] this.printed \/ (~suffix /\ kind \in ThisQuals) -> ModList(dpi, this.next, suffix)
       [] OTHER -> Behind(done, dpi, cell, suffix)

Mode(dpi, mod) ==
  CASE mod.k \in {"RESTRICT", "RESTRICT_THIS"} -> Put(dpi, " restrict")
    [] mod.k \in {"VOLATILE", "VOLATILE_THIS"} -> Put(dpi, " volatile")
    [] mod.k \in {"CONST", "CONST_THIS"}       -> Put(dpi, " const")
    [] mod.k = "VENDOR_TYPE_QUAL" -> PrintComp(Put(dpi, " "), mod.right)
    [] mod.k = "POINTER"     -> Put(dpi, "*")
    [] mod.k = "REFERENCE"   -> Put(dpi, "&")
    [] mod.k = "COMPLEX"     -> Put(dpi, "complex ")
    [] mod.k = "IMAGINARY"   -> Put(dpi, "imaginary ")
    [] mod.k = "PTRMEM_TYPE" -> Put(PrintComp(PutIf(LastChar(dpi) # "(", dpi, " "), mod.left), "::*")
    [] mod.k = "TYPED_NAME"  -> PrintComp(dpi, mod.left)
    [] OTHER                 -> PrintComp(dpi, mod)

\* A modifier is printed behind what it modifies unless that has printed it.
PrintModified(dpi, dc, inner) ==
  LET pushed == Push(dpi, dc)
      cell   == pushed.modifiers
      of     == PrintComp(pushed, inner)
      done   == IF Printed(of, cell) THEN of ELSE Mode(of, dc)
  IN [done EXCEPT !.modifiers = dpi.modifiers]

\* A qualifier that waits already is not printed a second time.
PrintQualifier(dpi, dc) ==
  LET RECURSIVE Repeats(_)
      Repeats(cell) ==
        LET this == dpi.cells[cell]
        IN CASE cell = 0     -> FALSE
             [] this.printed -> Repeats(this.next)
             [] OTHER        -> \/ this.mod.k = dc.k
                                \/ this.mod.k \in CVQuals /\ Repeats(this.next)
  IN IF Repeats(dpi.modifiers) THEN PrintComp(dpi, dc.left) ELSE PrintModified(dpi, dc, dc.left)

PrintMember(dpi, dc) ==
  LET pushed == Push(dpi, dc)
      of     == PrintComp(pushed, dc.right)
      done   == IF Printed(of, pushed.modifiers) THEN of
                ELSE Put(PrintComp(Put(of, " "), dc.left), "::*")
  IN [done EXCEPT !.modifiers = dpi.modifiers]

PrintFunction(dpi, dc) ==
  LET pushed == Push(dpi, dc)
      ret    == [PrintComp(pushed, dc.left) EXCEPT !.modifiers = dpi.modifiers]
  IN IF Is(dc.left) /\ Printed(ret, pushed.modifiers) THEN ret
     ELSE PrintSignature(IF Is(dc.left) THEN Put(ret, " ") ELSE dpi, dc, dpi.modifiers)

(* An array takes over the qualifiers that wait for it: they belong to its  *)
(* elements.  There is room for three.                                      *)
RECURSIVE TakeOver(_, _)
TakeOver(dpi, cell) ==
  LET this  == dpi.cells[cell]
      moved == [dpi EXCEPT !.cells = Append([@ EXCEPT ![cell].printed = TRUE],
                                            [this EXCEPT !.next = dpi.modifiers]),
                           !.modifiers = Len(dpi.cells) + 1]
  IN CASE cell = 0 -> dpi
       [] this.mod.k \notin CVQuals -> dpi
       [] this.printed -> TakeOver(dpi, this.next)
       [] OTHER -> TakeOver(moved, this.next)

RECURSIVE ModesOf(_, _, _)
ModesOf(dpi, first, last) ==
  IF last < first THEN dpi ELSE ModesOf(Mode(dpi, dpi.cells[last].mod), first, last - 1)

ArrayOf(dpi, dc, cell, ready) ==
  LET of == [PrintComp(ready, dc.right) EXCEPT !.modifiers = dpi.modifiers]
  IN CASE ready.modifiers - cell > 3 -> Error(ready)
       [] Printed(of, cell) -> of
       [] OTHER -> PrintDimension(ModesOf(of, cell + 1, ready.modifiers), dc, dpi.modifiers)

PrintArray(dpi, dc) ==
  LET pushed == Push(dpi, dc)
  IN ArrayOf(dpi, dc, pushed.modifiers, TakeOver(pushed, dpi.modifiers))
-----------------------------------------------------------------------------
(* Names and templates.                                                     *)

\* A name with its qualifiers: a cell each.
RECURSIVE PushName(_, _)
PushName(dpi, c) ==
  LET pushed == Push(dpi, c)
  IN IF c.k \in ThisQuals THEN PushName(pushed, c.left) ELSE pushed

\* The qualifiers of a local name go below it.
RECURSIVE PushBelow(_, _)
PushBelow(dpi, c) ==
  LET top   == dpi.modifiers
      below == [dpi EXCEPT !.cells[top] = [@ EXCEPT !.mod = c, !.printed = FALSE,
                                                    !.templates = dpi.templates],
                           !.cells = Append(@, [dpi.cells[top] EXCEPT !.next = top]),
                           !.modifiers = Len(dpi.cells) + 1]
  IN IF c.k \in ThisQuals THEN PushBelow(below, c.left) ELSE dpi

RECURSIVE Leftovers(_, _, _)
Leftovers(dpi, first, last) ==
  IF last < first THEN dpi
  ELSE Leftovers(IF Printed(dpi, last) THEN dpi ELSE Mode(Put(dpi, " "), dpi.cells[last].mod),
                 first, last - 1)

PrintTyped(dpi, dc) ==
  LET name     == Unqualified(dc.left)
      named    == PushName(dpi, dc.left)
      scoped   == IF name.k = "TEMPLATE" THEN [named EXCEPT !.templates = <<name>> \o @] ELSE named
      ready    == IF name.k = "LOCAL_NAME" THEN PushBelow(scoped, name.right) ELSE scoped
      function == [PrintComp(ready, dc.right) EXCEPT !.templates = dpi.templates]
      first    == Len(dpi.cells) + 1
  IN IF Len(ready.cells) - Len(dpi.cells) > 4 \/ ~Is(name) THEN Error(named)
     ELSE [Leftovers(function, first, Len(ready.cells)) EXCEPT !.modifiers = dpi.modifiers]

PrintTemplate(dpi, dc) ==
  LET decl == PrintComp([dpi EXCEPT !.modifiers = 0], dc.left)
  IN [PrintArgs(decl, dc.args) EXCEPT !.modifiers = dpi.modifiers]

\* The argument is printed as it was written outside of the template.
PrintParam(dpi, dc) ==
  LET args == dpi.templates[1].args
  IN IF dpi.templates = <<>> THEN Error(dpi)
     ELSE IF dc.number >= Len(args) THEN Error(dpi)
     ELSE [PrintComp([dpi EXCEPT !.templates = Tail(@)], args[dc.number + 1])
             EXCEPT !.templates = dpi.templates]

Prefixed == [
  VTABLE |-> "vtable for ", VTT |-> "VTT for ", TYPEINFO |-> "typeinfo for ",
  TYPEINFO_NAME |-> "typeinfo name for ", TYPEINFO_FN |-> "typeinfo fn for ",
  THUNK |-> "non-virtual thunk to ", VIRTUAL_THUNK |-> "virtual thunk to ",
  COVARIANT_THUNK |-> "covariant return thunk to ", GUARD |-> "guard variable for ",
  REFTEMP |-> "reference temporary for ", HIDDEN_ALIAS |-> "hidden alias for "]
-----------------------------------------------------------------------------
(* Operators, expressions and literals.                                     *)

PrintOperator(dpi, dc) ==
  Put(Put(dpi, IF CharOf(dc.str, 1) \in Lower THEN "operator " ELSE "operator"), dc.str)

\* _dpExpr_op
PrintSymbol(dpi, op) == IF op.k = "OPERATOR" THEN Put(dpi, op.str) ELSE PrintComp(dpi, op)

\* The template of a conversion's type is in force while its name is printed.
PrintCast(dpi, cast) ==
  LET to   == cast.left
      decl == [PrintComp([dpi EXCEPT !.modifiers = 0, !.templates = <<to>> \o @], to.left)
                 EXCEPT !.templates = dpi.templates]
  IN IF to.k # "TEMPLATE" THEN PrintComp(dpi, to)
     ELSE [PrintArgs(decl, to.args) EXCEPT !.modifiers = dpi.modifiers]

PrintUnary(dpi, dc) ==
  LET op == IF dc.left.k = "CAST" THEN Put(PrintCast(Put(dpi, "("), dc.left), ")")
            ELSE PrintSymbol(dpi, dc.left)
  IN PrintBetween(op, "(", dc.right, ")")

\* A comparison in a template argument must not end the list.
PrintBinary(dpi, dc) ==
  LET greater == dc.left.k = "OPERATOR" /\ dc.left.str = ">"
      left  == PrintBetween(PutIf(greater, dpi, "("), "(", dc.right.left, ") ")
      right == PrintBetween(PrintSymbol(left, dc.left), " (", dc.right.right, ")")
  IN PutIf(greater, right, ")")

PrintTrinary(dpi, dc) ==
  LET rest == dc.right.right
      cond == PrintBetween(dpi, "(", dc.right.left, ") ")
      then == PrintBetween(PrintSymbol(cond, dc.left), " (", rest.left, ") : (")
  IN Put(PrintComp(then, rest.right), ")")

Suffix == [INT |-> "", UNSIGNED |-> "u", LONG |-> "l", UNSIGNED_LONG |-> "ul", LONG_LONG |-> "ll",
           UNSIGNED_LONG_LONG |-> "ull"]

PrintLiteral(dpi, dc) ==
  LET print == IF dc.left.k = "BUILTIN_TYPE" THEN dc.left.print ELSE "DEFAULT"
      neg   == dc.k = "LITERAL_NEG"
      float == print = "FLOAT"
      type  == PutIf(neg, PrintBetween(dpi, "(", dc.left, ")"), "-")
  IN CASE print \in DOMAIN Suffix -> Put(PrintComp(PutIf(neg, dpi, "-"), dc.right), Suffix[print])
       [] print = "BOOL" /\ ~neg /\ dc.right.str = "0" -> Put(dpi, "false")
       [] print = "BOOL" /\ ~neg /\ dc.right.str = "1" -> Put(dpi, "true")
       [] OTHER -> PutIf(float, PrintComp(PutIf(float, type, "["), dc.right), "]")
-----------------------------------------------------------------------------
(* _dpComp                                                                  *)

PrintComp(dpi, dc) ==
  CASE ~Is(dc)  -> Error(dpi)
    [] ~dpi.buf -> dpi
    [] dc.k \in {"NAME", "SUB_STD", "BUILTIN_TYPE"} -> Put(dpi, dc.str)
    [] dc.k \in {"QUAL_NAME", "LOCAL_NAME"} -> PrintComp(Put(PrintComp(dpi, dc.left), "::"), dc.right)
    [] dc.k = "TYPED_NAME"     -> PrintTyped(dpi, dc)
    [] dc.k = "TEMPLATE"       -> PrintTemplate(dpi, dc)
    [] dc.k = "TEMPLATE_PARAM" -> PrintParam(dpi, dc)
    [] dc.k = "CTOR"           -> PrintComp(dpi, dc.name)
    [] dc.k = "DTOR"           -> PrintComp(Put(dpi, "~"), dc.name)
    [] dc.k \in DOMAIN Prefixed -> PrintComp(Put(dpi, Prefixed[dc.k]), dc.left)
    [] dc.k = "CONSTRUCTION_VTABLE" ->
         PrintComp(PrintBetween(dpi, "construction vtable for ", dc.left, "-in-"), dc.right)
    [] dc.k \in CVQuals        -> PrintQualifier(dpi, dc)
    [] dc.k \in ThisQuals \cup {"VENDOR_TYPE_QUAL", "POINTER", "REFERENCE", "COMPLEX", "IMAGINARY"} ->
         PrintModified(dpi, dc, dc.left)
    [] dc.k = "VENDOR_TYPE"    -> PrintComp(dpi, dc.left)
    [] dc.k = "FUNCTION_TYPE"  -> PrintFunction(dpi, dc)
    [] dc.k = "ARRAY_TYPE"     -> PrintArray(dpi, dc)
    [] dc.k = "PTRMEM_TYPE"    -> PrintMember(dpi, dc)
    [] dc.k = "OPERATOR"       -> PrintOperator(dpi, dc)
    [] dc.k = "EXTENDED_OPERATOR" -> PrintComp(Put(dpi, "operator "), dc.name)
    [] dc.k = "CAST"           -> PrintCast(Put(dpi, "operator "), dc)
    [] dc.k = "UNARY"          -> PrintUnary(dpi, dc)
    [] dc.k = "BINARY"         -> PrintBinary(dpi, dc)
    [] dc.k = "TRINARY"        -> PrintTrinary(dpi, dc)
    [] dc.k \in {"LITERAL", "LITERAL_NEG"} -> PrintLiteral(dpi, dc)
    [] OTHER -> Error(dpi)
=============================================================================
