------------------------------- MODULE Ast -------------------------------
(***************************************************************************)
(* The syntax tree of jdruby-ast (nodes.rs): every node is a triple of its *)
(* kind, its attribute (a name, an operator, a constant) and its children. *)
(* Spans are left out, and an expression used as a statement stands for    *)
(* itself: ExprStmt adds nothing but a span.                               *)
(***************************************************************************)
LOCAL INSTANCE Sequences
LOCAL INSTANCE Integers

Kind(n) == n[1]
Attr(n) == n[2]
Kids(n) == n[3]

None == <<"None", "", <<>> >>
Is(n) == Kind(n) # "None"
Body(ns) == <<"Body", "", ns>>

(* Literals and variables are leaves.                                      *)
LiteralKinds == {"Int", "Float", "Str", "Sym", "Bool", "Nil", "Regex"}
VariableKinds == {"LocalVar", "IVar", "CVar", "GVar", "Const", "Self"}
OperatorKinds == {"Array", "Hash", "Interp", "Range", "Binary", "Unary", "Super",
                  "YieldExpr", "Match", "Ternary", "Defined"}
CallKinds == {"MethodCall", "BlockCall", "Lambda", "Proc"}
ExprKinds == LiteralKinds \cup VariableKinds \cup OperatorKinds \cup CallKinds

(* A call: its receiver or None, its block argument or None, and its       *)
(* arguments; keyword arguments are kept apart by the parser and never     *)
(* lowered.                                                                *)
Call(m, recv, blockArg, args) == <<"MethodCall", m, <<recv, blockArg>> \o args>>
Receiver(c) == Kids(c)[1]
BlockArg(c) == Kids(c)[2]
Args(c) == SubSeq(Kids(c), 3, Len(Kids(c)))

Param(name, kind, default) == <<"Param", <<name, kind>>, <<default>> >>
ParamName(p) == Attr(p)[1]
ParamNames(ps) == [i \in 1 .. Len(Kids(ps)) |-> ParamName(Kids(ps)[i])]
=============================================================================
