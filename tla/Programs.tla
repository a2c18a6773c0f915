------------------------------ MODULE Programs ------------------------------
(* The programs the compiler is run on: templates with holes.              *)
EXTENDS Ast, Sequences, SequencesExt, Integers, TLC

Num(v) == <<"Int", v, <<>> >>
Text(t) == <<"Str", t, <<>> >>
Symbol(s) == <<"Sym", s, <<>> >>
Truth(v) == <<"Bool", v, <<>> >>
NilE == <<"Nil", "", <<>> >>
Local(x) == <<"LocalVar", x, <<>> >>
Ivar0(x) == <<"IVar", x, <<>> >>
Constant(c) == <<"Const", c, <<>> >>
SelfE == <<"Self", "", <<>> >>
Op(op, l, r) == <<"Binary", op, <<l, r>> >>
Prefix(op, e) == <<"Unary", op, <<e>> >>
Not(e) == Prefix("Not", e)
RangeE(l, r) == <<"Range", FALSE, <<l, r>> >>
Choice(c, t, e) == <<"Ternary", "", <<c, t, e>> >>
Let(x, e) == <<"Assign", "", <<Local(x), e>> >>
LetIvar(x, e) == <<"Assign", "", <<Ivar0(x), e>> >>
LetOp(op, x, e) == <<"OpAssign", op, <<Local(x), e>> >>
Named(m, args) == Call(m, None, None, args)
On(recv, m, args) == Call(m, recv, None, args)
Puts(e) == Named("puts", <<e>>)
Params(xs) == Body([i \in 1 .. Len(xs) |-> Param(xs[i], "Required", None)])
WithBlock(call, xs, stmts) == <<"BlockCall", "", <<call, Params(xs), Body(stmts)>> >>
LambdaE(xs, stmts) == <<"Lambda", "", <<Params(xs), Body(stmts)>> >>
ProcE(xs, stmts) == <<"Proc", "", <<Params(xs), Body(stmts)>> >>
Def(m, xs, stmts) == <<"MethodDef", <<m, FALSE>>, <<Params(xs), Body(stmts)>> >>
DefSelf(m, xs, stmts) == <<"MethodDef", <<m, TRUE>>, <<Params(xs), Body(stmts)>> >>
Class(c, stmts) == <<"ClassDef", c, <<None, Body(stmts)>> >>
Module0(c, stmts) == <<"ModuleDef", c, <<None, Body(stmts)>> >>
YieldS(args) == <<"Yield", "", args>>
Mixin(m, c) == <<"Mixin", m, <<Constant(c)>> >>
Return0(e) == <<"Return", "", <<e>> >>
If(c, then, elsifs, else) == <<"If", "", <<c, Body(then), Body(elsifs), else>> >>
Elsif(c, stmts) == <<"Elsif", "", <<c, Body(stmts)>> >>
Unless(c, then, else) == <<"Unless", "", <<c, Body(then), Body(else)>> >>
While(c, stmts) == <<"While", "", <<c, Body(stmts)>> >>
Until(c, stmts) == <<"Until", "", <<c, Body(stmts)>> >>
For(x, e, stmts) == <<"For", x, <<e, Body(stmts)>> >>
When(pats, stmts) == <<"When", "", <<Body(pats), Body(stmts)>> >>
Case(e, whens, else) == <<"Case", "", <<e, Body(whens), Body(else)>> >>
Rescue(x, stmts) == <<"Rescue", x, <<Body(<<>>), Body(stmts)>> >>
Begin(stmts, rescues, ensure) == <<"BeginRescue", "", <<Body(stmts), Body(rescues), None, Body(ensure)>> >>

(***************************************************************************)
(* The text of a tree, with the parentheses Ruby's own precedence asks for *)
(* and no more: levels from 0 (? :) to 14 (an operand that stands alone),  *)
(* and the lowest level each operand may have without parentheses.         *)
(***************************************************************************)
BinaryLevel ==
    [Or |-> 2, And |-> 3, Eq |-> 4, NotEq |-> 4, Spaceship |-> 4, CaseEq |-> 4, Match |-> 4, NotMatch |-> 4,
     Lt |-> 5, Gt |-> 5, LtEq |-> 5, GtEq |-> 5, BitOr |-> 6, BitXor |-> 6, BitAnd |-> 7, Shl |-> 8, Shr |-> 8,
     Add |-> 9, Sub |-> 9, Mul |-> 10, Div |-> 10, Mod |-> 10, Pow |-> 12]
Sign == [Or |-> "||", And |-> "&&", Eq |-> "==", NotEq |-> "!=", Lt |-> "<", Gt |-> ">", LtEq |-> "<=", GtEq |-> ">=",
         Spaceship |-> "<=>", CaseEq |-> "===", Match |-> "=~", NotMatch |-> "!~", BitOr |-> "|", BitXor |-> "^",
         BitAnd |-> "&", Shl |-> "<<", Shr |-> ">>", Add |-> "+", Sub |-> "-", Mul |-> "*", Div |-> "/", Mod |-> "%",
         Pow |-> "**", Neg |-> "-", Pos |-> "+", Not |-> "!", BitNot |-> "~"]
LevelOf(e) ==
    CASE Kind(e) = "Binary" -> BinaryLevel[Attr(e)]
      [] Kind(e) = "Unary" -> IF Attr(e) = "Neg" THEN 11 ELSE 13
      [] Kind(e) = "Ternary" -> 0
      [] Kind(e) = "Range" -> 1
      [] OTHER -> 14
(* Equalities do not chain, a power leans to the right, the rest to the    *)
(* left.                                                                   *)
LeftLevel(e) == IF Attr(e) = "Pow" \/ LevelOf(e) = 4 THEN LevelOf(e) + 1 ELSE LevelOf(e)
RightLevel(e) == IF Attr(e) = "Pow" THEN LevelOf(e) ELSE LevelOf(e) + 1

Joined(texts, by) ==
    FoldLeft(LAMBDA t, i : IF i = 1 THEN texts[i] ELSE t \o by \o texts[i], "", [i \in 1 .. Len(texts) |-> i])
RECURSIVE Show(_)
Each(ns) == [i \in 1 .. Len(ns) |-> Show(ns[i])]
Listed(ns) == Joined(Each(ns), ", ")
Within(e, level) == IF LevelOf(e) < level THEN "(" \o Show(e) \o ")" ELSE Show(e)
Lines(n) == FoldLeft(LAMBDA t, s : t \o Show(s) \o "\n", "", Kids(n))
UnderWord(n, word) == IF Is(n) THEN word \o "\n" \o Lines(n) ELSE ""
Arguments(c) ==
    Joined(Each(Args(c)) \o (IF Is(BlockArg(c)) THEN <<"&" \o Show(BlockArg(c))>> ELSE <<>>), ", ")

ShowExpr(e) ==
    LET k == Kids(e)
    IN  CASE Kind(e) = "Int" -> ToString(Attr(e))
          [] Kind(e) = "Str" -> "\"" \o Attr(e) \o "\""
          [] Kind(e) = "Sym" -> ":" \o Attr(e)
          [] Kind(e) = "Bool" -> IF Attr(e) THEN "true" ELSE "false"
          [] Kind(e) = "Nil" -> "nil"
          [] Kind(e) = "Self" -> "self"
          [] Kind(e) \in {"Float", "LocalVar", "IVar", "CVar", "GVar", "Const"} -> Attr(e)
          [] Kind(e) = "Array" -> "[" \o Listed(k) \o "]"
          [] Kind(e) = "Hash" ->
               "{" \o Joined([i \in 1 .. Len(k) \div 2 |-> Show(k[2 * i - 1]) \o " => " \o Show(k[2 * i])], ", ") \o "}"
          [] Kind(e) = "Interp" ->
               "\"" \o Joined([i \in 1 .. Len(k) |-> IF Kind(k[i]) = "Text" THEN Attr(k[i]) ELSE "#{" \o Show(k[i]) \o "}"], "") \o "\""
          [] Kind(e) = "Range" -> Within(k[1], 2) \o (IF Attr(e) THEN "..." ELSE "..") \o Within(k[2], 2)
          [] Kind(e) = "Binary" ->
               Within(k[1], LeftLevel(e)) \o " " \o Sign[Attr(e)] \o " " \o Within(k[2], RightLevel(e))
          [] Kind(e) = "Unary" -> Sign[Attr(e)] \o Within(k[1], IF Attr(e) = "Neg" THEN 12 ELSE 14)
          [] Kind(e) = "Ternary" -> Within(k[1], 1) \o " ? " \o Show(k[2]) \o " : " \o Show(k[3])
          [] Kind(e) = "Defined" -> "defined?(" \o Show(k[1]) \o ")"
          [] Kind(e) = "Super" -> "super(" \o Listed(k) \o ")"
          [] Kind(e) = "MethodCall" ->
               (IF Is(k[1]) THEN Within(k[1], 14) \o "." ELSE "") \o Attr(e) \o "(" \o Arguments(e) \o ")"
          [] Kind(e) = "BlockCall" ->
               Show(k[1]) \o " do |" \o Listed(Kids(k[2])) \o "|\n" \o Lines(k[3]) \o "end"
          [] Kind(e) = "Lambda" -> "->(" \o Listed(Kids(k[1])) \o ") {\n" \o Lines(k[2]) \o "}"
          [] Kind(e) = "Proc" -> "proc { |" \o Listed(Kids(k[1])) \o "|\n" \o Lines(k[2]) \o "}"

ShowStmt(n) ==
    LET k == Kids(n) IN
    CASE Kind(n) = "Assign" -> Show(k[1]) \o " = " \o Show(k[2])
      [] Kind(n) = "OpAssign" -> Show(k[1]) \o " " \o Sign[Attr(n)] \o "= " \o Show(k[2])
      [] Kind(n) = "MethodDef" ->
           "def " \o (IF Attr(n)[2] THEN "self." ELSE "") \o Attr(n)[1] \o "(" \o Listed(Kids(k[1])) \o ")\n" \o Lines(k[2]) \o "end"
      [] Kind(n) = "Param" -> (CASE Attr(n)[2] = "Rest" -> "*" [] Attr(n)[2] = "Block" -> "&" [] OTHER -> "") \o ParamName(n)
                              \o (IF Is(k[1]) THEN " = " \o Show(k[1]) ELSE "")
      [] Kind(n) = "ClassDef" ->
           "class " \o Attr(n) \o (IF Is(k[1]) THEN " < " \o Show(k[1]) ELSE "") \o "\n" \o Lines(k[2]) \o "end"
      [] Kind(n) = "ModuleDef" -> "module " \o Attr(n) \o "\n" \o Lines(k[2]) \o "end"
      [] Kind(n) = "If" -> "if " \o Show(k[1]) \o "\n" \o Lines(k[2]) \o Joined(Each(Kids(k[3])), "") \o UnderWord(k[4], "else") \o "end"
      [] Kind(n) = "Elsif" -> "elsif " \o Show(k[1]) \o "\n" \o Lines(k[2])
      [] Kind(n) = "Unless" -> "unless " \o Show(k[1]) \o "\n" \o Lines(k[2]) \o UnderWord(k[3], "else") \o "end"
      [] Kind(n) = "While" -> "while " \o Show(k[1]) \o "\n" \o Lines(k[2]) \o "end"
      [] Kind(n) = "Until" -> "until " \o Show(k[1]) \o "\n" \o Lines(k[2]) \o "end"
      [] Kind(n) = "For" -> "for " \o Attr(n) \o " in " \o Show(k[1]) \o "\n" \o Lines(k[2]) \o "end"
      [] Kind(n) = "Case" -> "case " \o Show(k[1]) \o "\n" \o Joined(Each(Kids(k[2])), "") \o UnderWord(k[3], "else") \o "end"
      [] Kind(n) = "When" -> "when " \o Listed(Kids(k[1])) \o "\n" \o Lines(k[2])
      [] Kind(n) = "BeginRescue" ->
           "begin\n" \o Lines(k[1]) \o Joined(Each(Kids(k[2])), "") \o UnderWord(k[3], "else") \o UnderWord(k[4], "ensure") \o "end"
      [] Kind(n) = "Rescue" -> "rescue" \o (IF Attr(n) = "" THEN "" ELSE " => " \o Attr(n)) \o "\n" \o Lines(k[2])
      [] Kind(n) = "Return" -> IF Is(k[1]) THEN "return " \o Show(k[1]) ELSE "return"
      [] Kind(n) \in {"Break", "Next"} -> IF Kind(n) = "Break" THEN "break" ELSE "next"
      [] Kind(n) = "Yield" -> "yield(" \o Listed(k) \o ")"
      [] Kind(n) = "Mixin" -> Attr(n) \o " " \o Show(k[1])
      [] Kind(n) = "Alias" -> "alias " \o Attr(n)[1] \o " " \o Attr(n)[2]
      [] Kind(n) = "Require" -> "require \"" \o Attr(n)[1] \o "\""
      [] Kind(n) = "AttrDecl" -> "attr_reader " \o Joined([i \in 1 .. Len(Attr(n)[2]) |-> ":" \o Attr(n)[2][i]], ", ")
Show(n) == IF Kind(n) \in ExprKinds THEN ShowExpr(n) ELSE ShowStmt(n)

(***************************************************************************)
(* Every operator as an operand of every other, on either side.            *)
(***************************************************************************)
Inner(o) ==
    CASE o \in DOMAIN BinaryLevel -> Op(o, SelfE, Constant("A"))
      [] o = "Range" -> RangeE(SelfE, Constant("A"))
      [] o = "Ternary" -> Choice(SelfE, Constant("A"), NilE)
      [] OTHER -> Prefix(o, SelfE)
Outer(o, e) ==
    LET m == Constant("M") IN
    CASE o \in DOMAIN BinaryLevel -> {Op(o, e, m), Op(o, m, e)}
      [] o = "Range" -> {RangeE(e, m), RangeE(m, e)}
      [] o = "Ternary" -> {Choice(e, m, Truth(TRUE)), Choice(m, e, Truth(TRUE)), Choice(m, Truth(TRUE), e)}
      [] OTHER -> {Prefix(o, e)}
Operators == DOMAIN Sign \cup {"Range", "Ternary"}

(* Where the parser's levels (parser.rs parse_or to parse_unary) are not   *)
(* Ruby's: `!` takes in the operators behind it and may not stand to their *)
(* right, `..` binds tighter than comparisons and logic, equalities as     *)
(* tight as `<`, `^` tighter than `|`, and a sign tighter than `**`.       *)
IsBinary(e, levels) == Kind(e) = "Binary" /\ LevelOf(e) \in levels
IsUnary(e, o) == Kind(e) = "Unary" /\ Attr(e) = o
Misread(e) ==
    LET k == Kids(e) IN
    \/ /\ Kind(e) = "Range" \/ IsUnary(e, "Neg") \/ IsBinary(e, 4 .. 12)
       /\ \E i \in DOMAIN k : IsUnary(k[i], "Not")
    \/ Kind(e) = "Range" /\ \E i \in DOMAIN k : IsBinary(k[i], 2 .. 5)
    \/ IsBinary(e, {4}) /\ IsBinary(k[2], {5})
    \/ Kind(e) = "Binary" /\ Attr(e) = "BitXor" /\ Kind(k[1]) = "Binary" /\ Attr(k[1]) = "BitOr"
    \/ IsUnary(e, "Neg") /\ IsBinary(k[1], {12})

Nestings == UNION {Outer(o, Inner(i)) : o \in Operators, i \in Operators}
Nested == {Body(<<Let("x", e)>>) : e \in {n \in Nestings : ~Misread(n)}}

(***************************************************************************)
(* Straight code: no branch of its own.                                    *)
(***************************************************************************)
Atoms == {Num(0), Num(1), Num(2), Local("x")}
Amounts == {Op(o, l, r) : o \in {"Add", "Sub", "Mul"}, l \in Atoms, r \in Atoms}
Sums == {Op(o, l, r) : o \in {"Add", "Sub", "Mul", "Lt", "Eq"}, l \in Atoms, r \in Atoms}
Arithmetic == {Body(<<Let("x", Num(3)), Let("y", e), LetOp("Add", "x", Num(1)), Puts(Local("y")), Puts(e)>>) : e \in Sums}
Logic ==
    {Body(<<Let("x", a), Puts(Op(o, Local("x"), b)), Puts(Not(b))>>) :
        a \in {NilE, Truth(FALSE), Num(0)}, b \in {NilE, Truth(TRUE), Truth(FALSE)}, o \in {"And", "Or"}}
Texts == {Body(<<Let("x", Text(a)), Puts(Op("Add", Op("Add", Local("x"), Text("b")), Text("c")))>>) : a \in {"", "a"}}
Calls == {Body(<<Def("f", <<"a", "b">>, <<Let("a", Op("Sub", Local("a"), Local("b"))), Return0(Local("a"))>>),
                 Let("x", Num(5)), Puts(Named("f", <<e, Local("x")>>)), Puts(Local("x"))>>) : e \in Amounts}
Objects ==
    {Body(<<Class("A", <<Def("initialize", <<"v">>, <<LetIvar("@v", Op("Add", Local("v"), e))>>),
                         Def("get", <<>>, <<Ivar0("@v")>>),
                         Def("put", <<"v">>, <<LetIvar("@v", Local("v"))>>)>>),
            Let("a", On(Constant("A"), "new", <<Num(1)>>)), Let("b", On(Constant("A"), "new", <<Num(2)>>)),
            On(Local("a"), "put", <<On(Local("b"), "get", <<>>)>>), On(Local("b"), "put", <<Num(9)>>),
            Puts(On(Local("a"), "get", <<>>))>>) : e \in {Num(0), Num(1), Local("v")}}
Straight == Arithmetic \cup Logic \cup Texts \cup Calls \cup Objects

(***************************************************************************)
(* Code that branches.                                                     *)
(***************************************************************************)
Conditions == {Op("Lt", Local("x"), Num(2)), Op("Eq", Local("x"), Num(1)), Local("z"), Truth(TRUE)}
Bodies == {<<Puts(Num(1))>>, <<Let("x", Num(7)), Puts(Local("x"))>>}
Ifs == {Body(<<Let("x", Num(n)), If(c, b, <<>>, else), Puts(Local("x"))>>) :
          n \in {1, 2}, c \in Conditions, b \in Bodies, else \in {None, Body(<<Let("x", Num(8))>>)}}
Elsifs == {Body(<<Let("x", Num(n)), If(Op("Eq", Local("x"), Num(1)), <<Puts(Num(1))>>,
                                       <<Elsif(Op("Eq", Local("x"), Num(2)), <<Puts(Num(2))>>)>>, Body(<<Puts(Num(3))>>)),
                  Unless(c, <<Puts(Num(4))>>, <<Puts(Num(5))>>)>>) : n \in 1 .. 3, c \in Conditions}
Whiles == {Body(<<Let("x", Num(0)), While(Op(o, Local("x"), Num(3)), <<LetOp("Add", "x", Num(d))>>), Puts(Local("x")),
                  Until(Op("Eq", Local("x"), Num(0)), <<LetOp("Sub", "x", Num(1)), Puts(Local("x"))>>)>>) :
             o \in {"Lt", "LtEq"}, d \in {1, 2}}
Cases == {Body(<<Let("x", Num(n)), Case(Local("x"), <<When(<<Num(1)>>, <<Puts(Num(1))>>), When(<<Num(2)>>, <<Puts(Num(2))>>)>>,
                                        <<Puts(Num(3))>>)>>) : n \in 1 .. 3}
Recursion == {Body(<<Def("f", <<"n">>, <<If(Op("Eq", Local("n"), Num(0)), <<Return0(Num(0))>>, <<>>, None),
                                         Op("Add", Local("n"), Named("f", <<Op("Sub", Local("n"), Num(1))>>))>>),
                     Puts(Named("f", <<Num(n)>>))>>) : n \in 0 .. 3}
Branching == Ifs \cup Elsifs \cup Whiles \cup Cases \cup Recursion

(***************************************************************************)
(* What the interpreter runs only in part: blocks, modules, exceptions,    *)
(* collections, and the statements that leave nothing behind.              *)
(***************************************************************************)
Closures ==
    {Body(<<Let("x", Num(1)), Let("f", LambdaE(<<"y">>, <<Puts(Op("Add", Local("x"), Local("y"))), e>>)),
            Let("g", ProcE(<<"y">>, <<Let("z", Local("y")), LetOp("Add", "x", Local("z")), e>>)),
            WithBlock(Named("f", <<Local("x")>>), <<"y", "z">>, <<Puts(Local("y")), Puts(e)>>),
            Call("map", Local("f"), Symbol("abs"), <<>>)>>) :
        e \in {Num(1), Local("x"), SelfE, LambdaE(<<>>, <<Local("x")>>)}}
Yields == {Body(<<Def("f", <<"a">>, <<YieldS(<<Local("a"), e>>), Local("a")>>),
                  WithBlock(Named("f", <<Num(1)>>), <<"y">>, <<Puts(Local("y"))>>)>>) : e \in {Num(1), Local("a")}}
Mixes == {Body(<<Module0("M", <<Def("get", <<>>, <<Num(1)>>)>>),
                 Class("A", <<Mixin(m, "M"), Def("get", <<>>, <<Num(2)>>), DefSelf("put", <<"v">>, <<Local("v")>>)>>),
                 Puts(On(On(Constant("A"), "new", <<>>), "get", <<>>)), Puts(On(Constant("A"), "put", <<Num(3)>>))>>) :
            m \in {"include", "extend", "prepend"}}
Rescues == {Body(<<Begin(<<Puts(e), Named("raise", <<Text("a")>>)>>, <<Rescue("", <<Puts(Num(1))>>), Rescue("e", <<Puts(Local("e"))>>)>>,
                         <<Puts(Num(2))>>)>>) : e \in {Num(1), Symbol("a"), <<"Float", "1.5", <<>> >>}}
ArrayE(es) == <<"Array", "", es>>
HashE(es) == <<"Hash", "", es>>
Collections ==
    {Body(<<Let("a", ArrayE(<<Num(1), e>>)), Let("h", HashE(<<Symbol("a"), e>>)),
            For("x", Local("a"), <<Puts(Local("x"))>>), Puts(On(Local("a"), m, <<>>)),
            Puts(<<"Interp", "", <<<<"Text", "a", <<>> >>, e>> >>),
            Let("b", Named("rb_ary_new", <<Num(2), e>>)), On(Local("b"), "each", <<Symbol("to_s")>>),
            Puts(On(Local("b"), m, <<>>)), Puts(On(Text("ab"), m, <<>>)), Puts(On(Num(2), m, <<>>))>>) :
        e \in {Num(1), Op("Add", Num(1), Num(2))}, m \in {"size", "inspect", "first", "upcase", "even?"}}
Rest ==
    {Body(<<Let("x", <<"Ternary", "", <<c, Num(1), Text("a")>> >>), Let("r", <<"Range", b, <<Num(1), Local("x")>> >>),
            While(c, <<<<IF b THEN "Break" ELSE "Next", "", <<None>> >>, Let("x", NilE)>>),
            Puts(<<"Defined", "", <<Local("x")>> >>), <<"GVar", "$g", <<>> >>, <<"Alias", <<"x", "y">>, <<>> >>,
            <<"Require", <<"a", FALSE>>, <<>> >>, <<"AttrDecl", <<"Reader", <<"v">> >>, <<>> >>,
            <<"MethodDef", <<"f", FALSE>>, <<Body(<<Param("a", "Required", None), Param("b", "Optional", Num(1)),
                                                   Param("c", "Rest", None), Param("d", "Block", None)>>),
                                             Body(<<<<"Super", "", <<Num(1)>> >>, <<"Return", "", <<None>> >>, YieldS(<<>>)>>)>> >>,
            Unless(c, <<Puts(Op("Spaceship", Num(1), Op("Pow", <<"Unary", "Neg", <<Num(1)>> >>, Num(2))))>>, <<>>),
            Case(Num(1), <<When(<<Num(1), Num(2)>>, <<Puts(Num(1))>>)>>, <<>>)>>) :
        c \in {Truth(FALSE), NilE, Op("Lt", Num(1), Num(0))}, b \in BOOLEAN}
Structured == Closures \cup Yields \cup Mixes \cup Rescues \cup Collections \cup Rest
=============================================================================
