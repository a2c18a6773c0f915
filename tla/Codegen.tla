------------------------------ MODULE Codegen ------------------------------
(***************************************************************************)
(* jdruby-codegen/src/lib.rs: from MIR functions to an LLVM module.  What  *)
(* is kept of an emitted instruction is the function it calls (or what it  *)
(* does), the values it uses and the blocks it may go on to.  A value is a *)
(* constant, a parameter or the result of the instruction at a place of a  *)
(* block; float constants are the address of a global.  A MIR register is  *)
(* a name the emitter gives to a value: the name is looked up when the     *)
(* code is emitted, in the order of the blocks, not when it runs.  The     *)
(* patterns of the instruction selector cut a block into pieces that are   *)
(* emitted one after the other in their order.                             *)
(***************************************************************************)
EXTENDS Mir, Lexer
LOCAL INSTANCE Integers
LOCAL INSTANCE Sequences
LOCAL INSTANCE SequencesExt
LOCAL INSTANCE Functions
LOCAL INSTANCE TLC

(* The runtime's functions: how many parameters each takes.  Two of them   *)
(* take more.                                                              *)
RuntimeArities ==
    << {"jdruby_init_bridge", "jdruby_check_errors", "jdruby_ary_new_empty", "jdruby_hash_new_empty", "jdruby_block_given",
        "jdruby_current_block", "jdruby_current_self", "jdruby_binding_get", "rb_ary_new", "rb_hash_new"},
       {"jdruby_int_new", "jdruby_float_new", "jdruby_sym_intern", "jdruby_ary_new", "jdruby_hash_new", "jdruby_bool",
        "jdruby_to_s", "jdruby_puts", "jdruby_print", "jdruby_p", "jdruby_truthy", "jdruby_module_new",
        "jdruby_singleton_class_get", "jdruby_const_get", "jdruby_proc_create", "jdruby_lambda_create",
        "jdruby_symbol_to_proc", "jdruby_is_symbol", "rb_int_new", "rb_intern", "rb_gc_mark"},
       {"jdruby_str_new", "jdruby_ary_push", "jdruby_str_concat", "jdruby_yield", "jdruby_int_add", "jdruby_int_sub",
        "jdruby_int_mul", "jdruby_int_div", "jdruby_int_mod", "jdruby_int_pow", "jdruby_eq", "jdruby_lt", "jdruby_gt",
        "jdruby_le", "jdruby_ge", "jdruby_class_new", "jdruby_include_module", "jdruby_prepend_module",
        "jdruby_extend_module", "jdruby_const_set", "jdruby_ivar_get", "jdruby_undef_method", "jdruby_remove_method",
        "jdruby_method_get", "jdruby_instance_method_get", "jdruby_method_bind", "jdruby_ivar_get_dynamic",
        "jdruby_cvar_get_dynamic", "rb_str_new", "rb_define_class", "rb_iv_get"},
       {"jdruby_hash_set", "jdruby_call", "jdruby_def_method", "jdruby_ivar_set", "jdruby_block_create",
        "jdruby_block_yield", "jdruby_alias_method", "jdruby_instance_eval", "jdruby_class_eval", "jdruby_module_eval",
        "jdruby_respond_to", "jdruby_ivar_set_dynamic", "jdruby_cvar_set_dynamic", "jdruby_const_get_dynamic",
        "jdruby_const_set_dynamic", "rb_iv_set", "rb_const_get", "rb_const_set"},
       {"jdruby_send", "jdruby_raise", "jdruby_define_method_dynamic", "jdruby_set_visibility", "jdruby_eval",
        "rb_funcallv", "rb_define_method"},
       {"jdruby_send_dynamic", "jdruby_public_send", "jdruby_method_object_call", "jdruby_method_missing"} >>
RuntimeNames == UNION Range(RuntimeArities)
RuntimeArity(f) == (CHOOSE k \in DOMAIN RuntimeArities : f \in RuntimeArities[k]) - 1
Variadic == {"jdruby_ary_new", "jdruby_hash_new"}

(***************************************************************************)
(* Names.                                                                  *)
(***************************************************************************)
SymbolText(f) ==
    CASE f[1] = "fn" -> f[2]
      [] f[1] = "inst" -> f[2] \o "#" \o f[3]
      [] f[1] = "class" -> f[2] \o "." \o f[3]
      [] OTHER -> f[1] \o "_" \o ToString(f[2]) \o "_" \o ToString(f[3])

Spelled ==
    "#" :> "__" @@ "<" :> "_" @@ ">" :> "_" @@ "?" :> "_q" @@ "!" :> "_b" @@ "." :> "_" @@ "@" :> "_at_"
    @@ "$" :> "_global_" @@ " " :> "_"
sanitize_name(name) ==
    FoldLeft(LAMBDA t, p : t \o (IF StartsWith(name, p, "::") \/ (p > 1 /\ StartsWith(name, p - 1, "::")) THEN "_"
                                 ELSE IF At(name, p) \in DOMAIN Spelled THEN Spelled[At(name, p)] ELSE At(name, p)),
             "", [p \in 1 .. Len(name) |-> p])
SymbolOf(f) == sanitize_name(SymbolText(f))

(***************************************************************************)
(* FunctionCodegen: the state of emitting one function.                    *)
(***************************************************************************)
Const == <<"const">>
FloatConst == <<"float">>
Parameter(k) == <<"param", k>>

NewCodegen(fn, syms) ==
    [fn |-> fn, syms |-> syms, regs |-> [k \in Range(fn.params) |-> Parameter(k)], locals |-> <<>>, at |-> 1,
     code |-> [k \in 1 .. Len(fn.blocks) |-> <<>>], errs |-> 0]
RegOrNil(g, r) == IF r \in DOMAIN g.regs THEN g.regs[r] ELSE Const
RegsOrNil(g, rs) == [k \in 1 .. Len(rs) |-> RegOrNil(g, rs[k])]
SetRegister(g, d, v) == [g EXCEPT !.regs = (d :> v) @@ @]
(* What the instruction emitted last gives.                                *)
LastValue(g) == <<"value", g.at, Len(g.code[g.at])>>
Build(g, op, args, to) == [g EXCEPT !.code[g.at] = Append(@, [op |-> op, args |-> args, to |-> to])]
CallRuntime(g, f, args) == Build(g, f, args, <<>>)
CallInto(g, d, f, args) == LET c == CallRuntime(g, f, args) IN SetRegister(c, d, LastValue(c))
Fail(g) == [g EXCEPT !.errs = @ + 1]

(* A local's stack slot is made where the name is first met.               *)
HasLocal(g, x) == \E k \in DOMAIN g.locals : g.locals[k][1] = x
LocalSlot(g, x) == g.locals[CHOOSE k \in DOMAIN g.locals : g.locals[k][1] = x][2]
WithLocal(g, x) ==
    IF HasLocal(g, x) THEN g
    ELSE LET a == Build(g, "alloca", <<>>, <<>>) IN [a EXCEPT !.locals = Append(@, <<x, LastValue(a)>>)]

(* get_block finds the blocks by label; the first is known as "entry" and  *)
(* not by its label.                                                       *)
KnownBlocks(g) == 2 .. Len(g.fn.blocks)
BlocksNamed(g, l) == {k \in KnownBlocks(g) : g.fn.blocks[k].label = l}
FirstNamed(g, l) == CHOOSE k \in BlocksNamed(g, l) : \A j \in BlocksNamed(g, l) : k <= j

(***************************************************************************)
(* emit_instruction.                                                       *)
(***************************************************************************)
IsMain(g) == g.fn.name = <<"fn", "main">>

EmitConst(g, d, c) ==
    CASE c[1] = "Str" -> CallInto(g, d, "jdruby_str_new", <<Const, Const>>)
      [] c[1] = "Sym" -> CallInto(g, d, "jdruby_sym_intern", <<Const>>)
      [] c[1] = "Float" -> SetRegister(g, d, FloatConst)
      [] OTHER -> SetRegister(g, d, Const)

(* self of an instance variable is register 0, or else the first parameter.*)
EmitLoad(g, d, x) ==
    LET slot == WithLocal(g, x) IN
    CASE x \in IvarNames ->
           IF 0 \in DOMAIN g.regs THEN CallInto(g, d, "jdruby_ivar_get", <<g.regs[0], Const>>)
           ELSE IF g.fn.params # <<>> THEN CallInto(g, d, "jdruby_ivar_get", <<Parameter(Head(g.fn.params)), Const>>)
           ELSE Fail(g)
      [] x \in ConstantNames -> CallInto(g, d, "jdruby_const_get", <<Const>>)
      [] x = "self" /\ IsMain(g) -> CallInto(g, d, "jdruby_current_self", <<>>)
      [] OTHER -> CallInto(slot, d, "load", <<LocalSlot(slot, x)>>)

EmitStore(g, x, r) ==
    LET v == RegOrNil(g, r)
        slot == WithLocal(g, x)
        self == CallRuntime(g, "load", <<LocalSlot(g, "self")>>)
    IN  CASE x \in IvarNames ->
               IF 0 \in DOMAIN g.regs THEN CallRuntime(g, "jdruby_ivar_set", <<g.regs[0], Const, v>>)
               ELSE IF HasLocal(g, "self") THEN CallRuntime(self, "jdruby_ivar_set", <<LastValue(self), Const, v>>)
               ELSE CallRuntime(g, "jdruby_ivar_set",
                                <<IF g.fn.params # <<>> THEN Parameter(Head(g.fn.params)) ELSE Const, Const, v>>)
          [] x \in ConstantNames -> CallRuntime(g, "jdruby_const_set", <<Const, v>>)
          [] OTHER -> CallRuntime(slot, "store", <<LocalSlot(slot, x), v>>)

IntFunctions ==
    [Add |-> "jdruby_int_add", Sub |-> "jdruby_int_sub", Mul |-> "jdruby_int_mul", Div |-> "jdruby_int_div",
     Mod |-> "jdruby_int_mod"]
CompareFunctions ==
    [Eq |-> "jdruby_eq", Lt |-> "jdruby_lt", Gt |-> "jdruby_gt", LtEq |-> "jdruby_le", GtEq |-> "jdruby_ge"]
(* Every other operator gives its left operand.                            *)
EmitBinop(g, d, op, l, r) ==
    LET cmp == CallRuntime(g, CompareFunctions[op], <<l, r>>) IN
    CASE op \in DOMAIN IntFunctions -> CallInto(g, d, IntFunctions[op], <<l, r>>)
      [] op \in DOMAIN CompareFunctions -> CallInto(cmp, d, "jdruby_bool", <<LastValue(cmp)>>)
      [] OTHER -> SetRegister(g, d, l)

(* jdruby_send_dynamic(object, name, argc, argv, block); the arguments     *)
(* are stored to an array of the stack one by one.                         *)
ArgArray(g, vs) == IF vs = <<>> THEN g ELSE Build(Build(g, "alloca", <<>>, <<>>), "store", vs, <<>>)
(* Mutant: a call without a block passes one argument less.                *)
SendDynamicNoBlock(g, d, obj, name, vs, blk) ==
    CallInto(ArgArray(g, vs), d, "jdruby_send_dynamic",
             <<obj, name, Const, Const>> \o (IF blk = Const THEN <<>> ELSE <<blk>>))

SendDynamic(g, d, obj, name, vs, blk) ==
    CallInto(ArgArray(g, vs), d, "jdruby_send_dynamic", <<obj, name, Const, Const, blk>>)
SendNamed(g, d, obj, vs, blk) ==
    LET sym == CallRuntime(g, "jdruby_sym_intern", <<Const>>) IN SendDynamic(sym, d, obj, LastValue(sym), vs, blk)

(* A function of the module, or of the runtime, is called directly; any    *)
(* other name is sent to the local self, or to 0.                          *)
VoidFunctions == {"jdruby_ary_push", "jdruby_hash_set", "jdruby_puts", "jdruby_print", "rb_gc_mark"}
EmitCall(g, d, f, rs) ==
    LET vs == RegsOrNil(g, rs)
        name == sanitize_name(f)
        called == CallRuntime(g, name, vs)
        self == CallRuntime(g, "load", <<LocalSlot(g, "self")>>)
    IN  CASE name \in g.syms \cup RuntimeNames ->
               SetRegister(called, d, IF name \in VoidFunctions THEN Const ELSE LastValue(called))
          [] OTHER -> IF HasLocal(g, "self") THEN SendNamed(self, d, LastValue(self), vs, Const)
                      ELSE SendNamed(g, d, Const, vs, Const)

EmitClassNew(g, d, super) ==
    LET sup == CallRuntime(g, "jdruby_const_get", <<Const>>)
        new == IF super = "" THEN CallInto(g, d, "jdruby_class_new", <<Const, Const>>)
               ELSE CallInto(sup, d, "jdruby_class_new", <<Const, LastValue(sup)>>)
    IN  CallRuntime(new, "store", <<Const, new.regs[d]>>)

(* Instructions no case of the match names emit nothing.                   *)
Mixing == [IncludeModule |-> "jdruby_include_module", PrependModule |-> "jdruby_prepend_module",
           ExtendModule |-> "jdruby_extend_module"]
EmitInstruction(g, i) ==
    LET a == RegsOrNil(g, i.u)
        blk == IF i.b = NoReg THEN Const ELSE RegOrNil(g, i.b)
    IN  CASE i.op = "LoadConst" -> EmitConst(g, i.d, i.s[1])
          [] i.op = "Load" -> EmitLoad(g, i.d, i.s[1])
          [] i.op = "Store" -> EmitStore(g, i.s[1], i.u[1])
          [] i.op = "Copy" -> SetRegister(g, i.d, a[1])
          [] i.op = "BinOp" -> EmitBinop(g, i.d, i.s[1], a[1], a[2])
          [] i.op = "Call" -> EmitCall(g, i.d, i.s[1], i.u)
          [] i.op \in {"MethodCall", "SendWithIC"} -> SendNamed(g, i.d, a[1], Tail(a), blk)
          [] i.op = "Send" -> SendDynamic(g, i.d, a[1], a[2], SubSeq(a, 3, Len(a)), blk)
          [] i.op = "ClassNew" -> EmitClassNew(g, i.d, i.s[2])
          [] i.op = "DefMethod" -> CallRuntime(g, "jdruby_def_method", <<a[1], Const, Const>>)
          [] i.op = "SingletonClassGet" -> CallInto(g, i.d, "jdruby_singleton_class_get", a)
          [] i.op \in DOMAIN Mixing -> CallRuntime(g, Mixing[i.op], a)
          [] i.op = "BlockCreate" ->
               IF SymbolOf(i.s[1]) \in g.syms \cup RuntimeNames
               THEN CallInto(ArgArray(g, a), i.d, "jdruby_block_create", <<Const, Const, Const>>) ELSE Fail(g)
          [] i.op = "SymbolToProc" -> CallInto(g, i.d, "jdruby_symbol_to_proc", a)
          [] i.op = "CurrentBlock" -> CallInto(g, i.d, "jdruby_current_block", <<>>)
          [] OTHER -> g

(* The condition is compared with false (0) and nil (4).                   *)
Test(g, r) ==
    LET f == Build(g, "icmp", <<RegOrNil(g, r)>>, <<>>)
        n == Build(f, "icmp", <<RegOrNil(g, r)>>, <<>>)
    IN  Build(n, "and", <<LastValue(f), LastValue(n)>>, <<>>)
EmitTerminator(g, t) ==
    LET checked == IF IsMain(g) THEN CallRuntime(g, "jdruby_check_errors", <<>>) ELSE g
        tested == Test(g, t.r)
        found == \A k \in 1 .. Len(t.to) : BlocksNamed(g, t.to[k]) # {}
        to == [k \in 1 .. Len(t.to) |-> FirstNamed(g, t.to[k])]
    IN  CASE t.t = "Return" -> Build(checked, "ret", IF t.r = NoReg THEN <<Const>> ELSE <<RegOrNil(g, t.r)>>, <<>>)
          [] t.t = "Unreachable" -> Build(g, "unreachable", <<>>, <<>>)
          [] ~found -> Fail(g)
          [] t.t = "Branch" -> Build(g, "br", <<>>, to)
          [] t.t = "CondBranch" -> Build(tested, "br", <<LastValue(tested)>>, to)

(***************************************************************************)
(* emit_function: the blocks in their order; the first error ends it.      *)
(***************************************************************************)
EmitBlock(g, k) ==
    LET b == g.fn.blocks[k]
        here == [g EXCEPT !.at = IF k = 1 THEN 1 ELSE FirstNamed(g, b.label)]
        step(s, i) == IF s.errs > 0 THEN s ELSE EmitInstruction(s, i)
        done == FoldLeft(step, here, b.insts)
    IN  IF g.errs > 0 THEN g ELSE IF done.errs > 0 THEN done ELSE EmitTerminator(done, b.term)
EmitFunction(fn, syms) ==
    LET new == NewCodegen(fn, syms)
        opened == IF fn.name = <<"fn", "main">> /\ fn.blocks # <<>> THEN CallRuntime(new, "jdruby_init_bridge", <<>>) ELSE new
    IN  FoldLeft(EmitBlock, opened, [k \in 1 .. Len(fn.blocks) |-> k])
Generate(fns) ==
    LET syms == {SymbolOf(fns[k].name) : k \in 1 .. Len(fns)} IN [k \in 1 .. Len(fns) |-> EmitFunction(fns[k], syms)]

(***************************************************************************)
(* Module::verify of LLVM, as far as the emitted code can break it.        *)
(***************************************************************************)
Ends == {"ret", "br", "unreachable"}
Successors(g, k) == UNION {Range(g.code[k][j].to) : j \in 1 .. Len(g.code[k])}
RECURSIVE ReachedFrom(_, _, _)
ReachedFrom(g, ks, without) ==
    LET more == UNION {Successors(g, k) : k \in ks} \ (ks \cup without) IN
    IF more = {} THEN ks ELSE ReachedFrom(g, ks \cup more, without)
ReachedBlocks(g, without) == IF 1 \in without THEN {} ELSE ReachedFrom(g, {1}, without)
DominatesUse(g, v, k, j) ==
    IF v[2] = k THEN v[3] < j ELSE k \notin ReachedBlocks(g, {v[2]})
UsesDominated(g) ==
    \A k \in ReachedBlocks(g, {}) : \A j \in 1 .. Len(g.code[k]) : \A a \in 1 .. Len(g.code[k][j].args) :
       g.code[k][j].args[a][1] = "value" => DominatesUse(g, g.code[k][j].args[a], k, j)
BlocksEndOnce(g) ==
    \A k \in 1 .. Len(g.code) : g.code[k] # <<>> =>
       {j \in 1 .. Len(g.code[k]) : g.code[k][j].op \in Ends} = {Len(g.code[k])}
=============================================================================
