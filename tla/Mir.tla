-------------------------------- MODULE Mir --------------------------------
(***************************************************************************)
(* The register IR of jdruby-mir (nodes.rs).  An instruction has an        *)
(* opcode op, the register it writes d (or -1), the registers it reads u   *)
(* in their order, a block register b (or -1) and its static operands s:   *)
(* names, a constant, an operator.  Labels and function names are tuples   *)
(* of what their text is put together from.                                *)
(***************************************************************************)
LOCAL INSTANCE Integers
LOCAL INSTANCE Sequences

(* The names that begin with an upper case letter, with "@" and with "$".  *)
CONSTANTS ConstantNames, IvarNames, GlobalNames

(* Constants, and what a pass or the interpreter remembers.                *)
Truthy(v) == v \notin {<<"Bool", FALSE>>, <<"Nil">>}
IsInt(v) == v[1] = "Int"
IntV(v) == <<"Int", v>>
BoolV(v) == <<"Bool", v>>
NilV == <<"Nil">>
IsObject(v) == v[1] = "Object"
Nothing == [r \in {} |-> <<>>]
Learn(mem, r, c) == [x \in DOMAIN mem \cup {r} |-> IF x = r THEN c ELSE mem[x]]

NoReg == -1
Inst(op, d, u, b, s) == [op |-> op, d |-> d, u |-> u, b |-> b, s |-> s]

LoadConst(d, c) == Inst("LoadConst", d, <<>>, NoReg, <<c>>)
NilConst(d) == LoadConst(d, <<"Nil">>)
CopyReg(d, r) == Inst("Copy", d, <<r>>, NoReg, <<>>)
BinInst(d, op, l, r) == Inst("BinOp", d, <<l, r>>, NoReg, <<op>>)
UnInst(d, op, r) == Inst("UnOp", d, <<r>>, NoReg, <<op>>)
CallInst(d, f, args) == Inst("Call", d, args, NoReg, <<f>>)
MethodCall(d, recv, m, args, b) == Inst("MethodCall", d, <<recv>> \o args, b, <<m>>)
Load(d, x) == Inst("Load", d, <<>>, NoReg, <<x>>)
Store(x, r) == Inst("Store", NoReg, <<r>>, NoReg, <<x>>)
BlockCreate(d, f, caps, lambda) == Inst("BlockCreate", d, caps, NoReg, <<f, lambda>>)
SymbolToProc(d, r) == Inst("SymbolToProc", d, <<r>>, NoReg, <<>>)
CurrentBlock(d) == Inst("CurrentBlock", d, <<>>, NoReg, <<>>)
BlockInvoke(d, b, args) == Inst("BlockInvoke", d, <<b>> \o args, NoReg, <<>>)
DefMethod(c, m, f) == Inst("DefMethod", NoReg, <<c>>, NoReg, <<m, f>>)
Send(d, obj, name, args, b) == Inst("Send", d, <<obj, name>> \o args, b, <<>>)
ClassNew(d, c, super) == Inst("ClassNew", d, <<>>, NoReg, <<c, super>>)
ModuleNew(d, m) == Inst("ModuleNew", d, <<>>, NoReg, <<m>>)

(* Every register an instruction reads.                                    *)
Reads(i) == {i.u[k] : k \in 1 .. Len(i.u)} \cup (IF i.b = NoReg THEN {} ELSE {i.b})

Terminator(t, r, to) == [t |-> t, r |-> r, to |-> to]
Return(r) == Terminator("Return", r, <<>>)
BranchTo(l) == Terminator("Branch", NoReg, <<l>>)
CondBranch(r, l1, l2) == Terminator("CondBranch", r, <<l1, l2>>)
Unreachable == Terminator("Unreachable", NoReg, <<>>)

Block(label, insts, term) == [label |-> label, insts |-> insts, term |-> term]
Function(name, params, blocks, caps, next) ==
    [name |-> name, params |-> params, blocks |-> blocks, caps |-> caps, nregs |-> next]

Labels(f) == {f.blocks[i].label : i \in 1 .. Len(f.blocks)}
TermReads(t) == IF t.r = NoReg THEN {} ELSE {t.r}
BlockReads(b) == (UNION {Reads(b.insts[i]) : i \in 1 .. Len(b.insts)}) \cup TermReads(b.term)
BlockWrites(b) == {b.insts[i].d : i \in 1 .. Len(b.insts)} \ {NoReg}
Writes(f) == (UNION {BlockWrites(f.blocks[i]) : i \in 1 .. Len(f.blocks)}) \cup {f.params[k] : k \in 1 .. Len(f.params)}
BlockAt(f, l) == CHOOSE i \in 1 .. Len(f.blocks) : f.blocks[i].label = l

(* What whoever runs a function takes for granted: it has a first block, a *)
(* branch leads to one of its blocks, and its registers are numbered below *)
(* its own count.                                                          *)
Executable(f) ==
    /\ Len(f.blocks) \in Nat \ {0}
    /\ \A k \in 1 .. Len(f.blocks) :
          LET t == f.blocks[k].term IN
          /\ Len(f.blocks[k].insts) \in Nat
          /\ t.t \in {"Branch", "CondBranch"} => t.to[1] \in Labels(f)
          /\ t.t = "CondBranch" => t.to[2] \in Labels(f)
    /\ Writes(f) \subseteq 0 .. f.nregs - 1
=============================================================================
