--------------------------- MODULE MirOptimizer ---------------------------
(***************************************************************************)
(* jdruby-mir/src/optimize.rs, opt_fusion.rs and opt_peephole.rs: fusion,  *)
(* three rounds of the standard passes, then the peephole passes until     *)
(* nothing changes, on each function by itself.  Integers stay within i64; *)
(* floats are left out, a shift is by 0 to 63 bits.                        *)
(***************************************************************************)
EXTENDS HirOptimizer, Mir, Bitwise

(***************************************************************************)
(* Constants.                                                              *)
(***************************************************************************)
FoldInt(op, a, b) ==
    CASE op = "Add" -> IntV(a + b)
      [] op = "Sub" -> IntV(a - b)
      [] op = "Mul" -> IntV(a * b)
      [] op = "Div" /\ b # 0 -> IntV(TruncDiv(a, b))
      [] op = "Mod" /\ b # 0 -> IntV(TruncMod(a, b))
      [] op = "Pow" -> IntV(a ^ b)
      [] op = "Eq" -> BoolV(a = b)
      [] op = "NotEq" -> BoolV(a # b)
      [] op = "Lt" -> BoolV(a < b)
      [] op = "Gt" -> BoolV(a > b)
      [] op = "LtEq" -> BoolV(a <= b)
      [] op = "GtEq" -> BoolV(a >= b)
      [] op = "BitAnd" -> IntV(a & b)
      [] op = "BitOr" -> IntV(a | b)
      [] op = "BitXor" -> IntV(a ^^ b)
      [] op = "Shl" -> IntV(a * 2 ^ b)
      [] op = "Shr" -> IntV(a \div 2 ^ b)
      [] OTHER -> <<>>

FoldBinop(op, l, r) ==
    LET both(k) == l[1] = k /\ r[1] = k IN
    CASE both("Int") -> FoldInt(op, l[2], r[2])
      [] both("Bool") /\ op = "And" -> BoolV(l[2] /\ r[2])
      [] both("Bool") /\ op = "Or" -> BoolV(l[2] \/ r[2])
      [] (both("Bool") \/ both("Str")) /\ op = "Eq" -> BoolV(l[2] = r[2])
      [] (both("Bool") \/ both("Str")) /\ op = "NotEq" -> BoolV(l[2] # r[2])
      [] both("Str") /\ op = "Add" -> <<"Str", l[2] \o r[2]>>
      [] OTHER -> <<>>

FoldUnop(op, v) ==
    CASE op = "Neg" /\ IsInt(v) -> IntV(-v[2])
      [] op = "Not" /\ v[1] = "Bool" -> BoolV(~v[2])
      [] op = "Not" /\ v[1] = "Nil" -> BoolV(TRUE)
      [] op = "BitNot" /\ IsInt(v) -> IntV(-v[2] - 1)
      [] OTHER -> <<>>

(* A pass over the instructions in the order of the blocks, with a memory  *)
(* that goes from one block to the next.                                   *)
Scan(f, mem, Step(_, _)) ==
    LET one(x, i) == LET y == Step(x.mem, i) IN [mem |-> y.mem, insts |-> Append(x.insts, y.inst)]
        block(x, b) == LET r == FoldLeft(one, [mem |-> x.mem, insts |-> <<>>], b.insts)
                       IN  [mem |-> r.mem, blocks |-> Append(x.blocks, [b EXCEPT !.insts = r.insts])]
    IN  [f EXCEPT !.blocks = FoldLeft(block, [mem |-> mem, blocks |-> <<>>], @).blocks]
Retain(f, P(_)) ==
    [f EXCEPT !.blocks = [k \in 1 .. Len(@) |-> [@[k] EXCEPT !.insts = SelectSeq(@, P)]]]
Insts(f) == FlattenSeq([k \in 1 .. Len(f.blocks) |-> f.blocks[k].insts])

Knows(mem, rs) == \A k \in 1 .. Len(rs) : rs[k] \in DOMAIN mem
Keep(mem, i) == [mem |-> mem, inst |-> i]
Replace(mem, i, c) == [mem |-> Learn(mem, i.d, c), inst |-> LoadConst(i.d, c)]

FoldStep(mem, i) ==
    CASE i.op = "LoadConst" -> Keep(Learn(mem, i.d, i.s[1]), i)
      [] i.op \in {"BinOp", "UnOp"} /\ Knows(mem, i.u) ->
           LET c == IF i.op = "BinOp" THEN FoldBinop(i.s[1], mem[i.u[1]], mem[i.u[2]])
                    ELSE FoldUnop(i.s[1], mem[i.u[1]])
           IN  IF c = <<>> THEN Keep(mem, i) ELSE Replace(mem, i, c)
      [] OTHER -> Keep(mem, i)
ConstantFolding(f) == Scan(f, Nothing, FoldStep)

PropagateStep(mem, i) ==
    CASE i.op = "LoadConst" -> Keep(Learn(mem, i.d, i.s[1]), i)
      [] i.op = "Copy" /\ Knows(mem, i.u) -> Replace(mem, i, mem[i.u[1]])
      [] OTHER -> Keep(mem, i)
ConstantPropagation(f) == Scan(f, Nothing, PropagateStep)

CseStep(mem, i) ==
    LET key == <<i.s, i.u>> IN
    CASE i.op = "BinOp" /\ key \in DOMAIN mem -> Keep(mem, CopyReg(i.d, mem[key]))
      [] i.op = "BinOp" /\ key \notin DOMAIN mem -> Keep(Learn(mem, key, i.d), i)
      [] OTHER -> Keep(mem, i)
CommonSubexpressions(f) == Scan(f, Nothing, CseStep)

(* Stores to constants, instance variables and globals are kept.           *)
Outlives(x) == x \in ConstantNames \cup IvarNames \cup GlobalNames
RemoveDeadStores(f) ==
    LET all == Insts(f)
        loaded == {all[k].s[1] : k \in {j \in 1 .. Len(all) : all[j].op = "Load"}}
    IN  Retain(f, LAMBDA i : i.op # "Store" \/ Outlives(i.s[1]) \/ i.s[1] \in loaded)

(* Mutant: the arguments of a call are no uses.                            *)
CountedReadsNoCall(i) ==
    IF i.op \in {"Copy", "BinOp", "UnOp", "MethodCall", "Store", "DefMethod"} THEN {i.u[k] : k \in 1 .. Len(i.u)} ELSE {}

(* What the pass takes for a use: not the operands of Send, BlockCreate,   *)
(* BlockInvoke and of every other instruction that is not named here.      *)
CountedReads(i) ==
    CASE i.op \in {"Copy", "BinOp", "UnOp", "Call", "MethodCall", "Store", "DefMethod"} -> {i.u[k] : k \in 1 .. Len(i.u)}
      [] i.op = "IncludeModule" -> {i.u[1]}
      [] OTHER -> {}
Removable == {"LoadConst", "Copy", "BinOp", "UnOp", "Alloc", "Load"}
DeadCode(f) ==
    LET all == Insts(f)
        used == UNION {CountedReads(all[k]) : k \in 1 .. Len(all)}
                \cup UNION {TermReads(f.blocks[k].term) : k \in 1 .. Len(f.blocks)}
    IN  Retain(f, LAMBDA i : i.op \notin Removable \/ i.d \in used)

ConstantBranches(f) ==
    LET all == Insts(f)
        known == FoldLeft(LAMBDA mem, i : IF i.op = "LoadConst" THEN Learn(mem, i.d, i.s[1]) ELSE mem, Nothing, all)
        term(t) == IF t.t = "CondBranch" /\ t.r \in DOMAIN known
                   THEN BranchTo(IF Truthy(known[t.r]) THEN t.to[1] ELSE t.to[2]) ELSE t
    IN  [f EXCEPT !.blocks = [k \in 1 .. Len(@) |-> [@[k] EXCEPT !.term = term(@)]]]

RECURSIVE ReachedFrom(_, _)
ReachedFrom(f, ls) ==
    LET next == ls \cup UNION {{f.blocks[k].term.to[j] : j \in 1 .. Len(f.blocks[k].term.to)} :
                               k \in {n \in 1 .. Len(f.blocks) : f.blocks[n].label \in ls}}
    IN  IF next = ls THEN ls ELSE ReachedFrom(f, next)
RemoveUnreachable(f) ==
    IF Len(f.blocks) <= 1 THEN f
    ELSE LET live == ReachedFrom(f, {f.blocks[1].label})
         IN  [f EXCEPT !.blocks = SelectSeq(@, LAMBDA b : b.label \in live)]

StandardRound(f) ==
    RemoveUnreachable(ConstantBranches(DeadCode(RemoveDeadStores(
        CommonSubexpressions(ConstantPropagation(ConstantFolding(f)))))))

(***************************************************************************)
(* InstructionFusion: integers are folded with what is known before the    *)
(* block; a folded register counts as the constant 0 in later blocks.      *)
(***************************************************************************)
FuseOp(op, a, b) ==
    IF op = "Cmp" THEN IntV(IF a < b THEN -1 ELSE IF a > b THEN 1 ELSE 0) ELSE FoldInt(op, a, b)
FuseIntegers(f) ==
    LET folded(mem, i) ==
          IF i.op = "BinOp" /\ Knows(mem, i.u) /\ IsInt(mem[i.u[1]]) /\ IsInt(mem[i.u[2]])
          THEN FuseOp(i.s[1], mem[i.u[1]][2], mem[i.u[2]][2]) ELSE <<>>
        one(x, i) ==
          LET c == folded(x.mem, i) IN
          IF i.op = "LoadConst" THEN [x EXCEPT !.mem = Learn(@, i.d, i.s[1]), !.insts = Append(@, i)]
          ELSE IF c = <<>> THEN [x EXCEPT !.insts = Append(@, i)]
          ELSE [x EXCEPT !.insts = Append(@, LoadConst(i.d, c)), !.zero = Append(@, i.d)]
        block(x, b) ==
          LET r == FoldLeft(one, [mem |-> x.mem, insts |-> <<>>, zero |-> <<>>], b.insts)
          IN  [mem |-> FoldLeft(LAMBDA m, d : Learn(m, d, IntV(0)), r.mem, r.zero),
               blocks |-> Append(x.blocks, [b EXCEPT !.insts = r.insts])]
    IN  [f EXCEPT !.blocks = FoldLeft(block, [mem |-> Nothing, blocks |-> <<>>], @).blocks]

ConcatStep(mem, i) ==
    CASE i.op = "LoadConst" -> Keep(Learn(mem, i.d, i.s[1]), i)
      [] i.op = "BinOp" /\ i.s = <<"Add">> /\ Knows(mem, i.u) ->
           IF mem[i.u[1]][1] = "Str" /\ mem[i.u[2]][1] = "Str"
           THEN Keep(mem, LoadConst(i.d, <<"Str", mem[i.u[1]][2] \o mem[i.u[2]][2]>>)) ELSE Keep(mem, i)
      [] OTHER -> Keep(mem, i)
FuseConcatenation(f) == Scan(f, Nothing, ConcatStep)

Root(mem, r) == IF r \in DOMAIN mem THEN mem[r] ELSE r
RECURSIVE CopyRoot(_, _)
CopyRoot(mem, r) == IF r \notin DOMAIN mem \/ mem[r] = r THEN r ELSE CopyRoot(mem, mem[r])
CopyStep(mem, i) ==
    CASE i.op = "Copy" -> LET r == CopyRoot(mem, i.u[1]) IN Keep(Learn(mem, i.d, r), CopyReg(i.d, r))
      [] i.op \in {"BinOp", "MethodCall"} -> Keep(mem, [i EXCEPT !.u = [k \in 1 .. Len(@) |-> Root(mem, @[k])]])
      [] OTHER -> Keep(mem, i)
FuseCopies(f) == Scan(f, Nothing, CopyStep)

Fuse(f) == FuseCopies(FuseConcatenation(FuseIntegers(f)))

(***************************************************************************)
(* PeepholeOptimizer.                                                      *)
(***************************************************************************)
PeepholeCopies(f) ==
    LET all == Insts(f)
        roots == FoldLeft(LAMBDA mem, i : IF i.op = "Copy" THEN Learn(mem, i.d, CopyRoot(mem, i.u[1])) ELSE mem, Nothing, all)
    IN  Scan(f, roots, LAMBDA mem, i : Keep(mem, IF i.op = "Copy" THEN CopyReg(i.d, Root(mem, i.u[1])) ELSE i))

(* Within a block a load after a store is a copy; calls forget the stores, *)
(* sends and yields do not.                                                *)
RedundantLoads(f) ==
    LET step(mem, i) ==
          CASE i.op = "Store" -> Keep(Learn(mem, i.s[1], i.u[1]), i)
            [] i.op = "Load" /\ i.s[1] \in DOMAIN mem -> Keep(mem, CopyReg(i.d, mem[i.s[1]]))
            [] i.op \in {"Call", "MethodCall"} -> Keep(Nothing, i)
            [] OTHER -> Keep(mem, i)
        one(b) == Scan([blocks |-> <<b>>], Nothing, step).blocks[1]
    IN  [f EXCEPT !.blocks = [k \in 1 .. Len(@) |-> one(@[k])]]

(* A branch to the block that follows is made Unreachable.                 *)
Fallthrough(f) ==
    LET term(k, t) == IF t.t = "Branch" /\ k < Len(f.blocks) /\ t.to[1] = f.blocks[k + 1].label THEN Unreachable ELSE t
    IN  [f EXCEPT !.blocks = [k \in 1 .. Len(@) |-> [@[k] EXCEPT !.term = term(k, @)]]]

IdentityStep(mem, i) ==
    LET right == IF i.op = "BinOp" /\ i.u[2] \in DOMAIN mem THEN mem[i.u[2]] ELSE <<"Nil">> IN
    CASE i.op = "LoadConst" -> Keep(Learn(mem, i.d, i.s[1]), i)
      [] i.op = "BinOp" /\ i.s[1] \in {"Add", "Sub"} /\ right = IntV(0) -> Keep(mem, CopyReg(i.d, i.u[1]))
      [] i.op = "BinOp" /\ i.s[1] \in {"Mul", "Div"} /\ right = IntV(1) -> Keep(mem, CopyReg(i.d, i.u[1]))
      [] OTHER -> Keep(mem, i)
Identities(f) == Scan(f, Nothing, IdentityStep)

PeepholeRound(f) == Identities(Fallthrough(RedundantLoads(PeepholeCopies(f))))
RECURSIVE Peephole(_)
Peephole(f) == LET g == PeepholeRound(f) IN IF g = f THEN f ELSE Peephole(g)

OptimizeFunction(f) == Peephole(StandardRound(StandardRound(StandardRound(Fuse(f)))))
OptimizeMir(fns) == [k \in 1 .. Len(fns) |-> OptimizeFunction(fns[k])]
=============================================================================
