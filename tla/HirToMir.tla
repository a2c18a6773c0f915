----------------------------- MODULE HirToMir -----------------------------
(***************************************************************************)
(* jdruby-mir/src/lower.rs: from the HIR to registers and basic blocks.    *)
(* HirLowering's fields are threaded through as the record st: the next    *)
(* register and label number, the finished blocks, the open block's        *)
(* instructions and its pending label, the block functions collected so    *)
(* far, the current implicit block (cur, which nothing resets), and the    *)
(* next inline cache slot; res is the register lower_node returns.         *)
(***************************************************************************)
EXTENDS AstToHir, Mir

NewLowering == [reg |-> 0, blk |-> 0, blocks |-> <<>>, insts |-> <<>>, pend |-> <<>>,
                fns |-> <<>>, cur |-> NoReg, slot |-> 0, res |-> NoReg]

Emit(st, i) == [st EXCEPT !.insts = Append(@, i)]
AllocReg(st) == [st EXCEPT !.reg = @ + 1, !.res = st.reg]
EmitNew(st, I(_)) == Emit(AllocReg(st), I(st.reg))
Labelled(st, prefix) == <<prefix, st.blk>>

MakeLabels(st, n) == [st EXCEPT !.blk = @ + n]

FinishBlock(st, term) ==
    LET n == Len(st.blocks)
        label == CASE st.pend # <<>> -> st.pend
                   [] st.pend = <<>> /\ n = 0 -> <<"entry", 0>>
                   [] OTHER -> <<"bb", n>>
    IN  [st EXCEPT !.blocks = Append(@, Block(label, st.insts, term)), !.insts = <<>>, !.pend = <<>>]
StartBlock(st, label) == [st EXCEPT !.pend = label]

RECURSIVE LowerNode(_, _)
LowerSeq(st, ns) == FoldLeft(LowerNode, st, ns)
LowerEach(st, ns) ==
    LET step(a, n) == LET s == LowerNode(a.st, n) IN [st |-> s, regs |-> Append(a.regs, s.res)]
    IN  FoldLeft(step, [st |-> st, regs |-> <<>>], ns)

(***************************************************************************)
(* Functions.                                                              *)
(***************************************************************************)
RECURSIVE HasNode(_, _, _)
Searched == {"BinOp", "UnOp", "Call", "Body", "Block", "Assign", "Branch", "Loop", "Return", "Seq"}
HasNode(n, kind, attr) ==
    \/ Kind(n) = kind /\ attr \in {"", Attr(n)}
    \/ Kind(n) \in Searched /\ \E i \in 1 .. Len(Kids(n)) : HasNode(Kids(n)[i], kind, attr)
ContainsYield(n) == HasNode(n, "Yield", "")
ContainsDefineMethod(n) == HasNode(n, "Call", "define_method")

StoreParams(st, names) == FoldLeft(LAMBDA s, x : EmitNew(s, LAMBDA r : Store(x, r)), st, names)
FirstRegs(n) == [i \in 1 .. n |-> i - 1]
Finalize(st, ns) ==
    LET s == LowerSeq(st, ns) IN FinishBlock(s, Return(IF ns = <<>> THEN NoReg ELSE s.res))

OpenFunction(st) == [st EXCEPT !.reg = 0, !.blk = 0, !.blocks = <<>>, !.insts = <<>>, !.pend = <<>>]

(* A function's implicit block is loaded once, into the variable "block",  *)
(* when its body yields or defines methods.                                *)
LowerFunction(st, name, params, body) ==
    LET opened == StoreParams(OpenFunction(st), params)
        block == EmitNew(opened, CurrentBlock)
        entered == IF \E i \in 1 .. Len(body) : ContainsYield(body[i]) \/ ContainsDefineMethod(body[i])
                   THEN Emit(block, Store("block", block.res)) ELSE opened
        done == Finalize(entered, body)
    IN  [st |-> done, fn |-> Function(name, FirstRegs(Len(params)), done.blocks, <<>>, done.reg)]

(* Mutant: the enclosing function's register counter is not restored.      *)
LowerBlockFunctionLeaky(st, name, params, body, caps) ==
    LET done == Finalize(StoreParams(OpenFunction(st), caps \o params), body)
        fn == Function(name, FirstRegs(Len(caps) + Len(params)), done.blocks, caps, done.reg)
    IN  [st EXCEPT !.fns = Append(done.fns, fn), !.cur = done.cur, !.slot = done.slot, !.reg = done.reg]

(* A block's function takes what it captures first and its parameters      *)
(* after that; the enclosing function's state is saved and restored.       *)
LowerBlockFunction(st, name, params, body, caps) ==
    LET done == Finalize(StoreParams(OpenFunction(st), caps \o params), body)
        fn == Function(name, FirstRegs(Len(caps) + Len(params)), done.blocks, caps, done.reg)
    IN  [st EXCEPT !.fns = Append(done.fns, fn), !.cur = done.cur, !.slot = done.slot]

EffectiveCaptures(cl) ==
    IF cl.self /\ (cl.caps = <<>> \/ Head(cl.caps) # "self") THEN <<"self">> \o cl.caps ELSE cl.caps

CreateBlock(st, name, closure, lambda) ==
    LET caps == EffectiveCaptures(Attr(closure))
        inner == LowerBlockFunction(st, name, Attr(closure).params, Kids(closure), caps)
        loaded == FoldLeft(LAMBDA s, x : EmitNew(s, LAMBDA r : Load(r, x)), inner, caps)
    IN  EmitNew(loaded, LAMBDA r : BlockCreate(r, name, [i \in 1 .. Len(caps) |-> inner.reg + i - 1], lambda))

(***************************************************************************)
(* lower_node, one operator for each kind of node.                         *)
(***************************************************************************)
LowerLiteral(st, n) == EmitNew(st, LAMBDA r : LoadConst(r, IF Kind(n) = "Nil" THEN <<"Nil">> ELSE <<Kind(n), Attr(n)>>))

(* An array or hash takes one register more than it uses; each push writes *)
(* the register it reads the collection from.                              *)
LowerArray(st, n) ==
    LET e == LowerEach(AllocReg(st), Kids(n))
        new == EmitNew(e.st, LAMBDA r : CallInst(r, "jdruby_ary_new_empty", <<>>))
    IN  FoldLeft(LAMBDA s, x : Emit(s, CallInst(new.res, "jdruby_ary_push", <<new.res, x>>)), new, e.regs)
LowerHash(st, n) ==
    LET e == LowerEach(AllocReg(st), Kids(n))
        new == EmitNew(e.st, LAMBDA r : CallInst(r, "jdruby_hash_new_empty", <<>>))
        set(s, i) == Emit(s, CallInst(new.res, "jdruby_hash_set", <<new.res, e.regs[2 * i - 1], e.regs[2 * i]>>))
    IN  FoldLeft(set, new, [i \in 1 .. Len(e.regs) \div 2 |-> i])

LowerBinOp(st, n) ==
    LET l == LowerNode(st, Kids(n)[1])
        r == LowerNode(l, Kids(n)[2])
    IN  EmitNew(r, LAMBDA d : BinInst(d, Attr(n), l.res, r.res))
LowerUnOp(st, n) ==
    LET e == LowerNode(st, Kids(n)[1]) IN EmitNew(e, LAMBDA d : UnInst(d, Attr(n), e.res))

ProcOfSymbol(st, sym) ==
    LET s == EmitNew(st, LAMBDA r : LoadConst(r, <<"Sym", Attr(sym)>>)) IN EmitNew(s, LAMBDA r : SymbolToProc(r, s.res))
IsSymbolBlock(b) == Is(b) /\ Len(Kids(b)) = 1 /\ Kind(Kids(b)[1]) = "Sym"

(* The first symbol argument equal to the block's only symbol is the block.*)
LowerArgs(st, args, b) ==
    LET step(a, n) ==
          IF Kind(n) = "Sym" /\ a.block = NoReg /\ IsSymbolBlock(b) /\ Attr(n) = Attr(Kids(b)[1])
          THEN LET s == ProcOfSymbol(a.st, n) IN [a EXCEPT !.st = s, !.block = s.res]
          ELSE LET s == LowerNode(a.st, n) IN [a EXCEPT !.st = s, !.regs = Append(@, s.res)]
    IN  FoldLeft(step, [st |-> st, regs |-> <<>>, block |-> NoReg], args)

(* A call with no block, or an empty one, passes the current block on.     *)
LowerCallBlock(a, m, b) ==
    LET st == CASE IsSymbolBlock(b) -> ProcOfSymbol(a.st, Kids(b)[1])
                [] ~IsSymbolBlock(b) /\ Is(b) /\ Kids(b) # <<>> -> CreateBlock(a.st, <<"block_in", m, a.st.reg>>, b, FALSE)
                [] OTHER -> [a.st EXCEPT !.res = a.st.cur]
    IN  IF a.block # NoReg THEN a ELSE [a EXCEPT !.st = st, !.block = st.res]

LowerCall(st, n) ==
    LET recv == Kids(n)[1]
        a == LowerCallBlock(LowerArgs(st, Kids(Kids(n)[2]), Kids(n)[3]), Attr(n), Kids(n)[3])
        d == AllocReg(a.st)
        r == LowerNode(d, recv)
        self == EmitNew(d, LAMBDA x : Load(x, "self"))
        name == EmitNew(self, LAMBDA x : LoadConst(x, <<"Sym", Attr(n)>>))
        out == CASE Is(recv) -> Emit(r, MethodCall(d.res, r.res, Attr(n), a.regs, a.block))
                 [] ~Is(recv) /\ a.block # NoReg -> Emit(name, Send(d.res, self.res, name.res, a.regs, a.block))
                 [] OTHER -> Emit(d, CallInst(d.res, Attr(n), a.regs))
    IN  [out EXCEPT !.res = d.res]

LowerAssign(st, n) == LET v == LowerNode(st, Kids(n)[1]) IN Emit(v, Store(Attr(n), v.res))

LowerBranch(st, n) ==
    LET cond == LowerNode(st, Kids(n)[1])
        l(k) == <<k[1], cond.blk + k[2]>>
        then == l(<<"then", 0>>)
        else == l(<<"else", 1>>)
        merge == l(<<"merge", 2>>)
        open(s, label) == EmitNew(StartBlock(s, label), NilConst)
        t == LowerSeq(open(FinishBlock(MakeLabels(cond, 3), CondBranch(cond.res, then, else)), then), Kids(Kids(n)[2]))
        e == LowerSeq(open(FinishBlock(t, BranchTo(merge)), else), Kids(Kids(n)[3]))
    IN  EmitNew(StartBlock(FinishBlock(e, BranchTo(merge)), merge), LAMBDA r : CopyReg(r, t.res))

(* Mutant: the body of a loop goes on to its exit.                         *)
LowerLoopOnce(st, n) ==
    LET cond == <<"loop_cond", st.blk>>
        body == <<"loop_body", st.blk + 1>>
        exit == <<"loop_exit", st.blk + 2>>
        c == LowerNode(StartBlock(FinishBlock(MakeLabels(st, 3), BranchTo(cond)), cond), Kids(n)[1])
        b == LowerSeq(StartBlock(FinishBlock(c, CondBranch(c.res, body, exit)), body), Kids(Kids(n)[2]))
    IN  EmitNew(StartBlock(FinishBlock(b, BranchTo(exit)), exit), NilConst)

LowerLoop(st, n) ==
    LET cond == <<"loop_cond", st.blk>>
        body == <<"loop_body", st.blk + 1>>
        exit == <<"loop_exit", st.blk + 2>>
        c == LowerNode(StartBlock(FinishBlock(MakeLabels(st, 3), BranchTo(cond)), cond), Kids(n)[1])
        b == LowerSeq(StartBlock(FinishBlock(c, CondBranch(c.res, body, exit)), body), Kids(Kids(n)[2]))
    IN  EmitNew(StartBlock(FinishBlock(b, BranchTo(cond)), exit), NilConst)

LowerReturn(st, n) ==
    LET v == LowerNode(st, Kids(n)[1])
        done == IF Is(Kids(n)[1]) THEN FinishBlock(v, Return(v.res)) ELSE FinishBlock(st, Return(NoReg))
    IN  EmitNew(StartBlock(MakeLabels(done, 1), <<"after_return", done.blk>>), NilConst)

Qualified(cls, def) == <<IF def.cls THEN "class" ELSE "inst", cls, def.name>>

(* A class body registers its methods and its mixins; nothing else in it   *)
(* is lowered.                                                             *)
LowerClassDef(st, n) ==
    LET cls == Attr(n).name
        opened == EmitNew(st, LAMBDA r : ClassNew(r, cls, Attr(n).super))
        reg == opened.res
        mixin(m) == CASE m = "include" -> "IncludeModule" [] m = "prepend" -> "PrependModule" [] OTHER -> "ExtendModule"
        member(s, k) ==
          CASE Kind(k) = "FuncDef" /\ Attr(k).cls ->
                 LET meta == EmitNew(s, LAMBDA r : Inst("SingletonClassGet", r, <<reg>>, NoReg, <<>>))
                 IN  Emit(meta, DefMethod(meta.res, Attr(k).name, Qualified(cls, Attr(k))))
            [] Kind(k) = "FuncDef" /\ ~Attr(k).cls -> Emit(s, DefMethod(reg, Attr(k).name, Qualified(cls, Attr(k))))
            [] Kind(k) = "Call" /\ Attr(k) \in {"include", "prepend", "extend"} /\ Kids(Kids(k)[2]) # <<>> ->
                 LET mod == LowerNode(s, Kids(Kids(k)[2])[1])
                 IN  Emit(mod, Inst(mixin(Attr(k)), NoReg, <<reg, mod.res>>, NoReg, <<>>))
            [] OTHER -> s
        done == FoldLeft(member, Emit(opened, Store(cls, reg)), Kids(n))
    IN  [done EXCEPT !.res = reg]

LowerYield(st, n) ==
    LET a == LowerEach(st, Kids(n))
        d == AllocReg(a.st)
        b == IF d.cur = NoReg THEN EmitNew(d, CurrentBlock) ELSE [d EXCEPT !.res = d.cur]
    IN  [Emit(b, BlockInvoke(d.res, b.res, a.regs)) EXCEPT !.res = d.res]

LowerModuleDef(st, n) ==
    LET m == EmitNew(st, LAMBDA r : ModuleNew(r, Attr(n))) IN Emit(m, Store(Attr(n), m.res))

LowerWrapped(st, n, op, kind, lambda) ==
    LET b == CreateBlock(st, <<kind, Len(st.blocks), st.reg>>, n, lambda)
    IN  EmitNew(b, LAMBDA r : Inst(op, r, <<b.res>>, NoReg, <<>>))

LowerMain(st, n) ==
    CASE Kind(n) \in {"Int", "Float", "Str", "Sym", "Bool", "Nil"} -> LowerLiteral(st, n)
      [] Kind(n) = "Array" -> LowerArray(st, n)
      [] Kind(n) = "Hash" -> LowerHash(st, n)
      [] Kind(n) = "Var" -> EmitNew(st, LAMBDA r : Load(r, Attr(n)))
      [] Kind(n) = "BinOp" -> LowerBinOp(st, n)
      [] Kind(n) = "UnOp" -> LowerUnOp(st, n)
      [] Kind(n) = "Call" -> LowerCall(st, n)
      [] Kind(n) = "Assign" -> LowerAssign(st, n)
      [] Kind(n) = "Branch" -> LowerBranch(st, n)
      [] Kind(n) = "Loop" -> LowerLoop(st, n)
      [] Kind(n) = "Return" -> LowerReturn(st, n)
      [] Kind(n) \in {"FuncDef", "Break", "Next", "Nop"} -> EmitNew(st, NilConst)
      [] Kind(n) = "ClassDef" -> LowerClassDef(st, n)
      [] Kind(n) = "Seq" -> LowerSeq(EmitNew(st, NilConst), Kids(n))
      [] Kind(n) = "Yield" -> LowerYield(st, n)
      [] Kind(n) = "Exception" -> LowerSeq(EmitNew(st, NilConst), Kids(Kids(n)[1]))
      [] Kind(n) = "ProcDef" -> LowerWrapped(st, n, "ProcCreate", "proc", FALSE)
      [] Kind(n) = "LambdaDef" -> LowerWrapped(st, n, "LambdaCreate", "lambda", TRUE)
      [] Kind(n) = "ModuleDef" -> LowerModuleDef(st, n)

(***************************************************************************)
(* The metaprogramming nodes: the operands in order, each with what stands *)
(* for it when it is absent ("opt": nothing does), then one instruction.   *)
(***************************************************************************)
Operands ==
    [UndefMethod |-> <<"nil", "must">>, RemoveMethod |-> <<"nil", "must">>,
     AliasMethod |-> <<"nil", "must", "must">>, SetVisibility |-> <<"nil">>,
     InstanceEval |-> <<"self", "nil", "opt">>, ClassEval |-> <<"nil", "nil", "opt">>,
     ModuleEval |-> <<"nil", "nil", "opt">>, Eval |-> <<"nil", "opt", "opt", "opt">>,
     BindingGet |-> <<>>, RespondTo |-> <<"must", "must">>, MethodGet |-> <<"must", "must">>,
     InstanceMethodGet |-> <<"must", "must">>, MethodBind |-> <<"must", "must">>,
     MethodObjectCall |-> <<"must", "opt">>,
     IvarGetDynamic |-> <<"must", "must">>, CvarGetDynamic |-> <<"must", "must">>,
     ConstGetDynamic |-> <<"must", "must">>, IvarSetDynamic |-> <<"must", "must", "nil">>,
     CvarSetDynamic |-> <<"must", "must", "nil">>, ConstSetDynamic |-> <<"must", "must", "nil">>,
     IncludeModule |-> <<"nil", "must">>, ExtendModule |-> <<"self", "must">>,
     PrependModule |-> <<"nil", "must">>]
Setters == {"IvarSetDynamic", "CvarSetDynamic", "ConstSetDynamic"}
Mixins == {"IncludeModule", "ExtendModule", "PrependModule"}

LowerOperands(st, ns, defaults) ==
    LET absent(s, d) == IF d = "self" THEN EmitNew(s, LAMBDA r : Load(r, "self")) ELSE EmitNew(s, NilConst)
        step(a, i) ==
          IF ~Is(ns[i]) /\ i <= Len(defaults) /\ defaults[i] = "opt" THEN a
          ELSE LET s == IF Is(ns[i]) THEN LowerNode(a.st, ns[i]) ELSE absent(a.st, defaults[i])
               IN  [st |-> s, regs |-> Append(a.regs, s.res)]
    IN  FoldLeft(step, [st |-> st, regs |-> <<>>], [i \in 1 .. Len(ns) |-> i])

(* A setter's result is the value; a mixin's is a register nothing writes. *)
LowerMeta(st, n) ==
    LET a == LowerOperands(st, Kids(n), Operands[Kind(n)])
        withBlock == Kind(n) = "MethodObjectCall" /\ Attr(n) = "&"
        blk == IF withBlock THEN EmitNew(a.st, NilConst) ELSE a.st
        plain == Inst(Kind(n), NoReg, a.regs, IF withBlock THEN blk.res ELSE NoReg, <<>>)
    IN  CASE Kind(n) \in Setters -> [Emit(blk, plain) EXCEPT !.res = a.regs[3]]
          [] Kind(n) \in Mixins -> Emit(AllocReg(blk), plain)
          [] OTHER -> EmitNew(blk, LAMBDA r : [plain EXCEPT !.d = r, !.s = <<Attr(n)>>])

LowerSingleton(st, n) ==
    LET obj == LowerNode(st, Kids(n)[1])
        meta == EmitNew(obj, LAMBDA r : Inst("SingletonClassGet", r, <<obj.res>>, NoReg, <<>>))
    IN  [LowerSeq(meta, Tail(Kids(n))) EXCEPT !.res = meta.res]

(* A block of its own becomes the current block, for every later call and  *)
(* yield of this lowering.                                                 *)
LowerBlockNode(st, n) ==
    LET b == CreateBlock(st, <<"block", Len(st.blocks), st.reg>>, n, FALSE) IN [b EXCEPT !.cur = b.res]

LowerDefineMethod(st, n) ==
    LET a == LowerOperands(st, SubSeq(Kids(n), 1, 2), <<"nil", "must">>)
        d == AllocReg(a.st)
        f == <<"method_body", Len(d.blocks), d.reg>>
        b == CreateBlock(d, f, Kids(n)[3], FALSE)
        text == f[1] \o "_" \o ToString(f[2]) \o "_" \o ToString(f[3])
        def == Emit(b, DefMethod(a.regs[1], text, f))
    IN  [Emit(def, Inst("DefineMethodDynamic", d.res, a.regs, b.res, <<"__defined_method__", Attr(n)>>)) EXCEPT !.res = d.res]

SendBlock(a, b, name) ==
    IF Is(b) THEN CreateBlock(a.st, name, b, FALSE) ELSE [a.st EXCEPT !.res = NoReg]

(* send with a symbol takes an inline cache slot; any other name is        *)
(* lowered after the arguments and the block.                              *)
LowerSend(st, n) ==
    LET name == Kids(n)[2]
        a == LowerEach(st, <<Kids(n)[1]>> \o SubSeq(Kids(n), 4, Len(Kids(n))))
        b == SendBlock(a, Kids(n)[3], <<"block_in_send", Len(a.st.blocks), a.st.reg>>)
        d == AllocReg(b)
        nm == LowerNode(d, name)
        out == IF Kind(name) = "Sym"
               THEN [Emit(d, Inst("SendWithIC", d.res, a.regs, b.res, <<Attr(name), d.slot>>)) EXCEPT !.slot = @ + 1]
               ELSE Emit(nm, Send(d.res, a.regs[1], nm.res, Tail(a.regs), b.res))
    IN  [out EXCEPT !.res = d.res]

LowerNamedSend(st, n) ==
    LET a == LowerEach(st, SubSeq(Kids(n), 1, 2) \o SubSeq(Kids(n), 4, Len(Kids(n))))
        b == SendBlock(a, Kids(n)[3], <<Kind(n), Len(a.st.blocks), a.st.reg>>)
        d == AllocReg(b)
        op == IF Kind(n) = "PublicSend" THEN "PublicSend" ELSE "Send"
    IN  Emit(d, Inst(op, d.res, a.regs, b.res, <<>>))

LowerMethodMissing(st, n) ==
    LET obj == LowerNode(st, Kids(n)[1])
        name == EmitNew(obj, LAMBDA r : LoadConst(r, <<"Sym", Attr(n)>>))
        a == LowerEach(name, SubSeq(Kids(n), 3, Len(Kids(n))))
        b == SendBlock(a, Kids(n)[2], <<"block_in_mm", Attr(n), a.st.reg>>)
    IN  EmitNew(b, LAMBDA r : Inst("MethodMissing", r, <<obj.res, name.res>> \o a.regs, b.res, <<>>))

LowerNode(st, n) ==
    CASE Kind(n) \in DOMAIN Operands -> LowerMeta(st, n)
      [] Kind(n) = "SingletonClass" -> LowerSingleton(st, n)
      [] Kind(n) = "BlockDef" -> LowerBlockNode(st, n)
      [] Kind(n) = "DefineMethod" -> LowerDefineMethod(st, n)
      [] Kind(n) = "Send" -> LowerSend(st, n)
      [] Kind(n) \in {"PublicSend", "InternalSend"} -> LowerNamedSend(st, n)
      [] Kind(n) = "MethodMissing" -> LowerMethodMissing(st, n)
      [] OTHER -> LowerMain(st, n)

(***************************************************************************)
(* HirLowering::lower: main from every node, the top-level methods, the    *)
(* methods of the top-level classes with self before their parameters, and *)
(* the block functions last.                                               *)
(***************************************************************************)
Methods(n) ==
    LET method(cls, k) == [name |-> Qualified(cls, Attr(k)), params |-> <<"self">> \o Attr(k).params, body |-> Kids(k)]
        defs == IF Kind(n) = "ClassDef" THEN SelectSeq(Kids(n), LAMBDA k : Kind(k) = "FuncDef") ELSE <<>>
    IN  IF Kind(n) = "FuncDef" THEN <<[name |-> <<"fn", Attr(n).name>>, params |-> Attr(n).params, body |-> Kids(n)]>>
        ELSE [i \in 1 .. Len(defs) |-> method(Attr(n).name, defs[i])]

LowerModule(nodes) ==
    LET main == [name |-> <<"fn", "main">>, params |-> <<>>, body |-> nodes]
        all == IF nodes = <<>> THEN <<>> ELSE <<main>> \o FlattenSeq([i \in 1 .. Len(nodes) |-> Methods(nodes[i])])
        step(a, d) == LET f == LowerFunction(a.st, d.name, d.params, d.body) IN [st |-> f.st, fns |-> Append(a.fns, f.fn)]
        r == FoldLeft(step, [st |-> NewLowering, fns |-> <<>>], all)
    IN  r.fns \o r.st.fns
=============================================================================
