--------------------------- MODULE HirOptimizer ---------------------------
(***************************************************************************)
(* jdruby-hir/src/optimize.rs: constants are folded and branches on a      *)
(* constant are cut, bottom up; blocks, returns, yields and modules are    *)
(* not entered.  Integers stay within i64: no instance reaches its ends.   *)
(* The text of a float is its value here, and two floats are not folded.   *)
(***************************************************************************)
EXTENDS AstToHir

IntLit(v) == <<"Int", v, <<>> >>
BoolLit(v) == <<"Bool", v, <<>> >>
IsLiteral(n) == Kind(n) \in {"Int", "Float", "Str", "Sym", "Bool", "Nil", "Array", "Hash"}

(* Division and remainder of Rust round towards zero.                      *)
Abs(a) == IF a < 0 THEN -a ELSE a
TruncDiv(a, b) == IF (a < 0) = (b < 0) THEN Abs(a) \div Abs(b) ELSE -(Abs(a) \div Abs(b))
TruncMod(a, b) == a - b * TruncDiv(a, b)

FoldBinary(l, op, r) ==
    LET both(k) == Kind(l) = k /\ Kind(r) = k
        a == Attr(l)
        b == Attr(r)
    IN  CASE both("Int") /\ op = "Add" -> IntLit(a + b)
          [] both("Int") /\ op = "Sub" -> IntLit(a - b)
          [] both("Int") /\ op = "Mul" -> IntLit(a * b)
          [] both("Int") /\ op = "Div" /\ b # 0 -> IntLit(TruncDiv(a, b))
          [] both("Int") /\ op = "Mod" /\ b # 0 -> IntLit(TruncMod(a, b))
          [] both("Int") /\ op = "Eq" -> BoolLit(a = b)
          [] both("Int") /\ op = "NotEq" -> BoolLit(a # b)
          [] both("Int") /\ op = "Lt" -> BoolLit(a < b)
          [] both("Int") /\ op = "Gt" -> BoolLit(a > b)
          [] both("Str") /\ op = "Add" -> <<"Str", a \o b, <<>> >>
          [] both("Bool") /\ op = "And" -> BoolLit(a /\ b)
          [] both("Bool") /\ op = "Or" -> BoolLit(a \/ b)
          [] OTHER -> None

IsNot(n) == Kind(n) = "UnOp" /\ Attr(n) = "Not"
ConstantFold(n) ==
    LET folded == IF Kind(n) = "BinOp" /\ IsLiteral(Kids(n)[1]) /\ IsLiteral(Kids(n)[2])
                  THEN FoldBinary(Kids(n)[1], Attr(n), Kids(n)[2]) ELSE None
    IN  CASE Is(folded) -> folded
          [] ~Is(folded) /\ IsNot(n) /\ IsNot(Kids(n)[1]) -> Kids(Kids(n)[1])[1]
          [] OTHER -> n

DeadBranch(n) ==
    IF Kind(n) # "Branch" THEN n
    ELSE LET c == Kids(n)[1] IN
         CASE Kind(c) \in {"Int", "Str", "Float", "Sym"} \/ (Kind(c) = "Bool" /\ Attr(c)) -> <<"Seq", "", Kids(Kids(n)[2])>>
           [] Kind(c) = "Nil" \/ (Kind(c) = "Bool" /\ ~Attr(c)) -> <<"Seq", "", Kids(Kids(n)[3])>>
           [] OTHER -> n

RECURSIVE OptimizeNode(_)
Entered == {"BinOp", "UnOp", "Assign", "Branch", "Loop", "FuncDef", "ClassDef", "Seq"}
OptimizeKids(n) ==
    CASE Kind(n) = "Call" -> <<Kind(n), Attr(n), <<OptimizeNode(Kids(n)[1]), OptimizeNode(Kids(n)[2]), Kids(n)[3]>> >>
      [] Kind(n) \in Entered \cup {"Body"} -> <<Kind(n), Attr(n), [i \in 1 .. Len(Kids(n)) |-> OptimizeNode(Kids(n)[i])]>>
      [] OTHER -> n
OptimizeNode(n) == DeadBranch(ConstantFold(OptimizeKids(n)))

OptimizeHir(nodes) == [i \in 1 .. Len(nodes) |-> OptimizeNode(nodes[i])]
=============================================================================
