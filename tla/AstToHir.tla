----------------------------- MODULE AstToHir -----------------------------
(***************************************************************************)
(* jdruby-hir/src/lower.rs: from the syntax tree to the high-level IR, and *)
(* the analysis that finds what a block captures.  HIR nodes are triples   *)
(* like the tree's.  A variable's scope is left out: nothing after this    *)
(* pass reads it, the name says it ("@x", "$x").  A parameter keeps its    *)
(* name only.                                                              *)
(***************************************************************************)
EXTENDS Ast, Sequences, SequencesExt, Integers

Var(x) == <<"Var", x, <<>> >>
Nop == <<"Nop", "", <<>> >>
HirAssign(x, v) == <<"Assign", x, <<v>> >>
BinOp(op, l, r) == <<"BinOp", op, <<l, r>> >>
UnOp(op, e) == <<"UnOp", op, <<e>> >>
HirCall(m, recv, args, block) == <<"Call", m, <<recv, Body(args), block>> >>
Branch(c, then, else) == <<"Branch", "", <<c, Body(then), Body(else)>> >>
Loop(c, body) == <<"Loop", "", <<c, Body(body)>> >>
Closure(kind, params, caps, stmts) ==
    <<kind, [params |-> params, caps |-> caps.vars, self |-> caps.self], stmts>>

(***************************************************************************)
(* CaptureAnalyzer: the variables a block reads before it has a local of   *)
(* that name, in the order they are met, and whether it needs self.        *)
(***************************************************************************)
Analyzer(locals) == [vars |-> <<>>, locals |-> locals, self |-> FALSE]
Captured(st, x) == \E i \in 1 .. Len(st.vars) : st.vars[i] = x
Capture(st, x) == IF x \in st.locals \/ Captured(st, x) THEN st ELSE [st EXCEPT !.vars = Append(@, x)]
Declare(st, x) == [st EXCEPT !.locals = @ \cup {x}]
NeedSelf(st) == [st EXCEPT !.self = TRUE]

RECURSIVE Analyze(_, _)
AnalyzeAll(st, ns) == FoldLeft(Analyze, st, ns)

(* A nested scope: its captures are the outer ones too, unless they are    *)
(* locals there.                                                           *)
Inner(params, stmts) == AnalyzeAll(Analyzer({ParamName(Kids(params)[i]) : i \in 1 .. Len(Kids(params))}), stmts)
Merge(st, inner) == FoldLeft(Capture, st, inner.vars)
MergeAll(st, inner) == [Merge(st, inner) EXCEPT !.self = @ \/ inner.self]

AnalyzeStmt(st, s) ==
    LET k == Kids(s) IN
    CASE Kind(s) \in {"Assign", "OpAssign"} ->
           LET r == Analyze(st, k[2]) IN IF Kind(k[1]) = "LocalVar" THEN Declare(r, Attr(k[1])) ELSE r
      [] Kind(s) = "MethodDef" -> Merge(st, Inner(k[1], Kids(k[2])))
      [] Kind(s) \in {"If", "Unless", "While", "Until", "Case", "Elsif", "When"} -> AnalyzeAll(st, k)
      [] Kind(s) = "For" -> AnalyzeAll(Declare(st, Attr(s)), k)
      [] Kind(s) \in {"Return", "Break", "Next"} -> AnalyzeAll(st, k)
      [] Kind(s) = "Yield" -> NeedSelf(AnalyzeAll(st, k))
      [] Kind(s) = "BeginRescue" -> AnalyzeAll(st, k)
      [] Kind(s) = "Rescue" -> Analyze(IF Attr(s) = "" THEN st ELSE Declare(st, Attr(s)), k[2])
      [] OTHER -> st

AnalyzeExpr(st, e) ==
    LET k == Kids(e) IN
    CASE Kind(e) = "LocalVar" -> Capture(st, Attr(e))
      [] Kind(e) = "Self" -> NeedSelf(st)
      [] Kind(e) = "MethodCall" ->
           AnalyzeAll(IF Is(Receiver(e)) THEN Analyze(st, Receiver(e)) ELSE NeedSelf(st), Args(e))
      [] Kind(e) = "BlockCall" ->
           MergeAll(AnalyzeAll(AnalyzeAll(st, <<Receiver(k[1])>>), Args(k[1])), Inner(k[2], Kids(k[3])))
      [] Kind(e) \in {"Lambda", "Proc"} -> MergeAll(st, Inner(k[1], Kids(k[2])))
      [] Kind(e) = "YieldExpr" -> NeedSelf(AnalyzeAll(st, k))
      [] Kind(e) = "Super" -> st
      [] OTHER -> AnalyzeAll(st, k)

Analyze(st, n) ==
    CASE Kind(n) = "Body" -> AnalyzeAll(st, Kids(n))
      [] Kind(n) \in ExprKinds -> AnalyzeExpr(st, n)
      [] OTHER -> AnalyzeStmt(st, n)

(***************************************************************************)
(* AstLowering.                                                            *)
(***************************************************************************)
RECURSIVE LowerAst(_)
LowerAll(ns) == [i \in 1 .. Len(ns) |-> LowerAst(ns[i])]
LowerOpt(n) == IF Is(n) THEN LowerAst(n) ELSE None
OptStmts(n) == IF Is(n) THEN LowerAll(Kids(n)) ELSE <<>>

LowerBlockDef(kind, params, stmts) ==
    Closure(kind, ParamNames(params), Inner(params, stmts), LowerAll(stmts))

LowerBinop(op) ==
    CASE op \in {"CaseEq", "Match", "NotMatch"} -> "Eq"
      [] op = "Spaceship" -> "Cmp"
      [] op \in {"Range", "RangeExcl"} -> "Add"
      [] OTHER -> op

TargetName(t) == CASE Kind(t) = "Index" -> "<index>" [] OTHER -> Attr(t)

(* Every elsif becomes a branch of its own in the else body, one after the *)
(* other; an else goes to the last of them.                                *)
LowerIf(s) ==
    LET k == Kids(s)
        last == Len(Kids(k[3]))
        elsif(i) == LET e == Kids(Kids(k[3])[i]) IN
                    Branch(LowerAst(e[1]), LowerAll(Kids(e[2])), IF i = last THEN OptStmts(k[4]) ELSE <<>>)
    IN  Branch(LowerAst(k[1]), LowerAll(Kids(k[2])),
               IF last = 0 THEN OptStmts(k[4]) ELSE [i \in 1 .. last |-> elsif(i)])

(* The when clauses nest from the last to the first; several patterns are  *)
(* joined with "or", and the subject is not compared with them.            *)
LowerCase(s) ==
    LET k == Kids(s)
        cond(w) == LET pats == LowerAll(Kids(Kids(w)[1])) IN
                   IF Len(pats) = 1 /\ Is(k[1]) THEN BinOp("Eq", LowerAst(k[1]), pats[1])
                   ELSE FoldLeft(LAMBDA l, p : BinOp("Or", l, p), pats[1], Tail(pats))
        nest(w, rest) == Branch(cond(w), LowerAll(Kids(Kids(w)[2])), IF Is(rest) THEN <<rest>> ELSE <<>>)
        r == FoldRight(nest, Kids(k[2]), IF Is(k[3]) THEN <<"Seq", "", OptStmts(k[3])>> ELSE None)
    IN  IF Is(r) THEN r ELSE Nop

LowerBeginRescue(s) ==
    LET k == Kids(s)
        opt(n) == IF Is(n) THEN Body(LowerAll(Kids(n))) ELSE None
        rescue(r) == <<"Rescue", Attr(r), <<Body(LowerAll(Kids(Kids(r)[1]))), Body(LowerAll(Kids(Kids(r)[2])))>> >>
    IN  <<"Exception", "", <<Body(LowerAll(Kids(k[1]))),
                             Body([i \in 1 .. Len(Kids(k[2])) |-> rescue(Kids(k[2])[i])]), opt(k[3]), opt(k[4])>> >>

(* "for x in e" is e.each with a block that captures nothing.              *)
LowerFor(s) ==
    HirCall("each", LowerAst(Kids(s)[1]), <<>>,
            Closure("Block", <<Attr(s)>>, Analyzer({}), LowerAll(Kids(Kids(s)[2]))))

LowerStmt(s) ==
    LET k == Kids(s) IN
    CASE Kind(s) = "Assign" -> HirAssign(TargetName(k[1]), LowerAst(k[2]))
      [] Kind(s) = "OpAssign" -> LET x == TargetName(k[1]) IN
                                 HirAssign(x, BinOp(LowerBinop(Attr(s)), Var(x), LowerAst(k[2])))
      [] Kind(s) = "MethodDef" -> <<"FuncDef", [name |-> Attr(s)[1], params |-> ParamNames(k[1]), cls |-> Attr(s)[2]],
                                    LowerAll(Kids(k[2]))>>
      [] Kind(s) = "ClassDef" -> <<"ClassDef", [name |-> Attr(s), super |-> IF Kind(k[1]) = "Const" THEN Attr(k[1]) ELSE ""],
                                   LowerAll(Kids(k[2]))>>
      [] Kind(s) = "ModuleDef" -> <<"ModuleDef", Attr(s), LowerAll(Kids(k[2]))>>
      [] Kind(s) = "If" -> LowerIf(s)
      [] Kind(s) = "Unless" -> Branch(UnOp("Not", LowerAst(k[1])), LowerAll(Kids(k[2])), OptStmts(k[3]))
      [] Kind(s) = "While" -> Loop(LowerAst(k[1]), LowerAll(Kids(k[2])))
      [] Kind(s) = "Until" -> Loop(UnOp("Not", LowerAst(k[1])), LowerAll(Kids(k[2])))
      [] Kind(s) = "For" -> LowerFor(s)
      [] Kind(s) = "Case" -> LowerCase(s)
      [] Kind(s) = "BeginRescue" -> LowerBeginRescue(s)
      [] Kind(s) = "Return" -> <<"Return", "", <<LowerOpt(k[1])>> >>
      [] Kind(s) = "Yield" -> <<"Yield", "", LowerAll(k)>>
      [] Kind(s) \in {"Break", "Next"} -> <<Kind(s), "", <<>> >>
      [] Kind(s) = "Mixin" -> HirCall(Attr(s), None, <<LowerAst(k[1])>>, None)
      [] OTHER -> Nop

(* A block argument that is not a symbol is lowered to an empty block.     *)
LowerBlockArg(b) ==
    IF Is(b) THEN Closure("Block", <<>>, Analyzer({}), IF Kind(b) = "Sym" THEN <<LowerAst(b)>> ELSE <<>>) ELSE None

LowerInterp(e) ==
    LET part(p) == IF Kind(p) = "Text" THEN <<"Str", Attr(p), <<>> >> ELSE HirCall("to_s", LowerAst(p), <<>>, None)
        parts == [i \in 1 .. Len(Kids(e)) |-> part(Kids(e)[i])]
    IN  IF parts = <<>> THEN <<"Str", "", <<>> >>
        ELSE FoldLeft(LAMBDA l, p : HirCall("+", l, <<p>>, None), parts[1], Tail(parts))

LowerExpr(e) ==
    LET k == Kids(e) IN
    CASE Kind(e) \in {"Int", "Float", "Str", "Sym", "Bool", "Nil"} -> e
      [] Kind(e) = "Regex" -> <<"Str", Attr(e), <<>> >>
      [] Kind(e) \in {"Array", "Hash"} -> <<Kind(e), "", LowerAll(k)>>
      [] Kind(e) = "Self" -> Var("self")
      [] Kind(e) \in VariableKinds \ {"Self"} -> Var(Attr(e))
      [] Kind(e) = "Binary" /\ Attr(e) = "Shl" -> HirCall("<<", LowerAst(k[1]), <<LowerAst(k[2])>>, None)
      [] Kind(e) = "Binary" /\ Attr(e) # "Shl" -> BinOp(LowerBinop(Attr(e)), LowerAst(k[1]), LowerAst(k[2]))
      [] Kind(e) = "Unary" -> UnOp(IF Attr(e) = "Pos" THEN "Neg" ELSE Attr(e), LowerAst(k[1]))
      [] Kind(e) = "MethodCall" -> HirCall(Attr(e), LowerOpt(Receiver(e)), LowerAll(Args(e)), LowerBlockArg(BlockArg(e)))
      [] Kind(e) = "BlockCall" -> HirCall(Attr(k[1]), LowerOpt(Receiver(k[1])), LowerAll(Args(k[1])),
                                          LowerBlockDef("Block", k[2], Kids(k[3])))
      [] Kind(e) = "Super" -> HirCall("super", None, LowerAll(k), None)
      [] Kind(e) = "YieldExpr" -> <<"Yield", "", LowerAll(k)>>
      [] Kind(e) = "Lambda" -> LowerBlockDef("LambdaDef", k[1], Kids(k[2]))
      [] Kind(e) = "Proc" -> LowerBlockDef("ProcDef", k[1], Kids(k[2]))
      [] Kind(e) = "Range" -> HirCall("Range.new", None, LowerAll(k) \o <<<<"Bool", Attr(e), <<>> >>>>, None)
      [] Kind(e) = "Ternary" -> Branch(LowerAst(k[1]), <<LowerAst(k[2])>>, <<LowerAst(k[3])>>)
      [] Kind(e) = "Defined" -> HirCall("defined?", None, LowerAll(k), None)
      [] Kind(e) = "Interp" -> LowerInterp(e)
      [] Kind(e) = "Match" -> HirCall("===", LowerAst(k[1]), <<LowerAst(k[2])>>, None)

LowerAst(n) == IF Kind(n) \in ExprKinds THEN LowerExpr(n) ELSE LowerStmt(n)

Lower(program) == LowerAll(Kids(program))
=============================================================================
