-------------------------- MODULE MirInterpreter --------------------------
(***************************************************************************)
(* jdruby-jit/src/interpreter.rs: the interpreter that runs MIR.  A value  *)
(* is a tagged tuple; an object is <<"Object", class, id>> with a class    *)
(* tag such as <<"Class", "A">> or <<"Module", "M">>, and every class and  *)
(* module has the id 0.  The recursion of call_function is the stack       *)
(* frames: a frame remembers the caller's register dest that its result    *)
(* goes to, and keep, the value that goes there in place of the result     *)
(* ("new" answers the object, not what initialize returns).  todo is what  *)
(* is left of an each over an array.  Integers stay within i64.            *)
(***************************************************************************)
EXTENDS Mir, Integers, Sequences, FiniteSets, TLC

CONSTANTS TaskMethods,   \* add_x_task and the text it stands for, "X: "
          Upper,         \* a text and its upper case form
          TextOf(_, _), InspectedText(_, _), TextOfClass(_),  \* the texts of a value among arrays, and of a class
          IntegerOp(_, _, _)   \* an operator on two integers

VARIABLES fns,       \* the functions there are, by name
          loaded,    \* the names of those the interpreter has been given
          frames, consts, methods, ivars, arrays, output, nextObj, result
machine == <<fns, loaded, frames, consts, methods, ivars, arrays, output, nextObj, result>>

StrV(t) == <<"Str", t>>
Object(cls, id) == <<"Object", cls, id>>
IsClassObject(v) == IsObject(v) /\ v[3] = 0
IsName(v) == v[1] \in {"Str", "Sym"}
Lookup(map, k) == IF k \in DOMAIN map THEN map[k] ELSE NilV
ToInt(v) == CASE IsInt(v) -> v[2] [] v = BoolV(TRUE) -> 1 [] OTHER -> 0

EvalBinop(op, l, r) ==
    LET logic == IF Truthy(l) = (op = "And") THEN r ELSE l IN
    CASE op \in {"And", "Or"} -> logic
      [] op \notin {"And", "Or"} /\ IsInt(l) /\ IsInt(r) ->
           CASE op \in {"Div", "Mod"} /\ r[2] = 0 -> IntV(0) [] OTHER -> IntegerOp(op, l[2], r[2])
      [] op \notin {"And", "Or"} /\ l[1] = "Str" /\ r[1] = "Str" ->
           CASE op = "Add" -> StrV(l[2] \o r[2]) [] op = "Eq" -> BoolV(l[2] = r[2])
             [] op = "NotEq" -> BoolV(l[2] # r[2]) [] OTHER -> NilV
      [] OTHER -> CASE op = "Eq" -> BoolV(FALSE) [] op = "NotEq" -> BoolV(TRUE) [] OTHER -> NilV
EvalUnop(op, v) ==
    CASE op = "Neg" -> IntV(-ToInt(v)) [] op = "Not" -> BoolV(~Truthy(v)) [] op = "BitNot" -> IntV(-ToInt(v) - 1)

(***************************************************************************)
(* Frames.                                                                 *)
(***************************************************************************)
Top == frames[Len(frames)]
Running == frames # <<>>
BlocksOf(f) == fns[f].blocks
HasBlock == Top.at \in Labels(fns[Top.fn])
CurrentBlockOf == BlocksOf(Top.fn)[BlockAt(fns[Top.fn], Top.at)]
AtInstruction == Running /\ Top.todo = <<>> /\ HasBlock /\ Top.pc <= Len(CurrentBlockOf.insts)
AtTerminator == Running /\ Top.todo = <<>> /\ HasBlock /\ Top.pc > Len(CurrentBlockOf.insts)
Current == CurrentBlockOf.insts[Top.pc]

Reg(r) == Lookup(Top.regs, r)
Regs(rs) == [k \in 1 .. Len(rs) |-> Reg(rs[k])]
SelfV == Lookup(Top.vars, "self")

(* The last place of x in s.                                               *)
LastAt(s, x) == CHOOSE k \in 1 .. Len(s) : s[k] = x /\ \A j \in k + 1 .. Len(s) : s[j] # x

(* Parameters are bound by position, and what is missing is nil.           *)
Frame(f, args, dest, keep) ==
    [fn |-> f, dest |-> dest, keep |-> keep, vars |-> Nothing, pc |-> 1, todo |-> <<>>,
     at |-> IF BlocksOf(f) = <<>> THEN <<"">> ELSE BlocksOf(f)[1].label,
     regs |-> [r \in {fns[f].params[k] : k \in 1 .. Len(fns[f].params)} |->
                 LET k == LastAt(fns[f].params, r) IN IF k <= Len(args) THEN args[k] ELSE NilV]]

Write(frame, d, v) == IF d = NoReg THEN frame ELSE [frame EXCEPT !.regs = Learn(@, d, v)]
Advance(frame) == IF frame.todo = <<>> THEN [frame EXCEPT !.pc = @ + 1] ELSE [frame EXCEPT !.todo = Tail(@)]
SetTop(frame) == frames' = [frames EXCEPT ![Len(frames)] = frame]
Answer(d, v) == SetTop(Advance(Write(Top, d, v)))
Enter(f, args, d, keep) ==
    frames' = Append([frames EXCEPT ![Len(frames)] = Advance(@)], Frame(f, args, d, keep))

(***************************************************************************)
(* dispatch_method_call.                                                   *)
(***************************************************************************)
(* Of the string methods only those with an integer or a letter-case       *)
(* answer are kept.                                                        *)
ArrayMethods == {"length", "size", "count", "first", "last", "push", "<<", "each", "map"}
StringMethods == {"length", "size", "upcase"}
IntegerMethods == {"abs", "even?", "odd?", "zero?"}
AnyMethods == {"class", "nil?", "to_s", "inspect", "freeze", "frozen?"}
IsBuiltin(v, m) ==
    \/ v[1] = "Array" /\ m \in ArrayMethods
    \/ v[1] = "Str" /\ m \in StringMethods
    \/ IsInt(v) /\ m \in IntegerMethods
    \/ m \in AnyMethods

ClassName(v) ==
    CASE IsObject(v) -> TextOfClass(v[2])
      [] v[1] = "Bool" -> IF v[2] THEN "TrueClass" ELSE "FalseClass"
      [] IsInt(v) -> "Integer" [] v[1] = "Str" -> "String" [] v[1] = "Sym" -> "Symbol"
      [] v = NilV -> "NilClass" [] OTHER -> v[1]

BuiltinAnswer(v, m) ==
    CASE m = "class" -> StrV(ClassName(v))
      [] m = "nil?" -> BoolV(v = NilV)
      [] m = "to_s" -> StrV(TextOf(arrays, v))
      [] m = "inspect" -> StrV(InspectedText(arrays, v))
      [] m = "frozen?" -> BoolV(FALSE)
      [] m = "abs" -> IntV(IF v[2] < 0 THEN -v[2] ELSE v[2])
      [] m = "even?" -> BoolV(v[2] % 2 = 0)
      [] m = "odd?" -> BoolV(v[2] % 2 # 0)
      [] m = "zero?" -> BoolV(v[2] = 0)
      [] m = "upcase" -> StrV(Upper[v[2]])
      [] m \in {"length", "size", "count"} -> IntV(IF v[1] = "Str" THEN Len(v[2]) ELSE Len(arrays[v[2]]))
      [] m = "first" -> IF arrays[v[2]] = <<>> THEN NilV ELSE Head(arrays[v[2]])
      [] m = "last" -> IF arrays[v[2]] = <<>> THEN NilV ELSE arrays[v[2]][Len(arrays[v[2]])]
      [] OTHER -> v

(* each with a symbol calls that method of every element; a block is never *)
(* called.                                                                 *)
Builtin(d, v, m, args) ==
    LET elements == IF m = "each" /\ v[1] = "Array" /\ args # <<>> /\ args[1][1] = "Sym"
                    THEN [k \in 1 .. Len(arrays[v[2]]) |-> <<arrays[v[2]][k], args[1][2]>>] ELSE <<>>
    IN  /\ arrays' = IF v[1] = "Array" /\ m \in {"push", "<<"} THEN [arrays EXCEPT ![v[2]] = @ \o args] ELSE arrays
        /\ SetTop([Advance(Write(Top, d, BuiltinAnswer(v, m))) EXCEPT !.todo = elements \o @])
        /\ UNCHANGED nextObj

(* The functions a call may reach, in the order they are looked for: the   *)
(* class object's, the method table's, and one whose class is the text of  *)
(* the receiver.                                                           *)
InTable(cls, m) == IF cls \in DOMAIN methods /\ m \in DOMAIN methods[cls] THEN <<methods[cls][m]>> ELSE <<>>
Candidates(v, m) ==
    (IF IsClassObject(v) /\ v[2][1] = "Class" THEN <<<<"inst", v[2][2], m>> >> ELSE <<>>)
    \o (IF IsObject(v) THEN InTable(v[2], m) ELSE <<>>)
    \o (IF v[1] = "Str" THEN <<<<"inst", v[2], m>> >> ELSE <<>>)
Found(names) == {k \in 1 .. Len(names) : names[k] \in loaded}
First(names) == names[CHOOSE k \in Found(names) : \A j \in Found(names) : k <= j]

NewObject(d, v, args) ==
    LET object == Object(v[2], nextObj)
        init == <<"inst", v[2][2], "initialize">>
    IN  /\ nextObj' = nextObj + 1
        /\ IF v[2][1] = "Class" /\ init \in loaded THEN Enter(init, <<object>> \o args, d, <<object>>)
           ELSE Answer(d, object)
        /\ UNCHANGED arrays

(* Scheduler's add_x_task is add_task with a second argument put together  *)
(* from the name; the receiver is passed twice.                            *)
IsTaskMethod(v, m) == IsObject(v) /\ v[2] = <<"Class", "Scheduler">> /\ m \in DOMAIN TaskMethods
TaskArgs(v, m, args) ==
    <<v, StrV(TaskMethods[m] \o (IF Len(args) >= 2 /\ args[2][1] = "Str" THEN args[2][2] ELSE ""))>>
UserCall(d, v, m, args) ==
    LET classOwn == IsClassObject(v) /\ v[2][1] = "Class" /\ <<"inst", v[2][2], m>> \in loaded
        task == IsTaskMethod(v, m) /\ ~classOwn
        names == Candidates(v, IF task THEN "add_task" ELSE m)
        passed == IF task THEN TaskArgs(v, m, args) ELSE args
    IN  /\ IF Found(names) = {} THEN Answer(d, NilV) ELSE Enter(First(names), <<v>> \o passed, d, <<>>)
        /\ UNCHANGED <<arrays, nextObj>>

DispatchMethodCall(d, v, m, args) ==
    \/ IsBuiltin(v, m) /\ Builtin(d, v, m, args)
    \/ ~IsBuiltin(v, m) /\ IsClassObject(v) /\ m = "new" /\ NewObject(d, v, args)
    \/ ~IsBuiltin(v, m) /\ ~(IsClassObject(v) /\ m = "new") /\ UserCall(d, v, m, args)

(* A call of a name with no receiver: an unknown one goes to self, with    *)
(* self among the arguments as well.                                       *)
Shown(f, args) == [k \in 1 .. Len(args) |-> IF f = "p" THEN InspectedText(arrays, args[k]) ELSE TextOf(arrays, args[k])]
Fresh == Cardinality(DOMAIN arrays)
DispatchCall(d, f, args) ==
    CASE f \in {"puts", "print", "p"} ->
           /\ output' = output \o Shown(f, args)
           /\ Answer(d, IF f = "p" /\ args # <<>> THEN args[1] ELSE NilV)
           /\ UNCHANGED <<arrays, nextObj>>
      [] f = "rb_ary_new" ->
           /\ arrays' = Learn(arrays, Fresh, args)
           /\ Answer(d, <<"Array", Fresh>>)
           /\ UNCHANGED <<output, nextObj>>
      [] f = "rb_hash_new" ->
           /\ Answer(d, <<"Hash", [k \in 1 .. Len(args) \div 2 |-> <<args[2 * k - 1], args[2 * k]>>]>>)
           /\ UNCHANGED <<output, arrays, nextObj>>
      [] f = "rb_yield" -> Answer(d, NilV) /\ UNCHANGED <<output, arrays, nextObj>>
      [] OTHER ->
           /\ UNCHANGED output
           /\ CASE <<"fn", f>> \in loaded -> Enter(<<"fn", f>>, args, d, <<>>) /\ UNCHANGED <<arrays, nextObj>>
                [] <<"fn", f>> \notin loaded /\ "self" \in DOMAIN Top.vars ->
                     DispatchMethodCall(d, SelfV, f, <<SelfV>> \o args)
                [] OTHER -> Answer(d, NilV) /\ UNCHANGED <<arrays, nextObj>>

(***************************************************************************)
(* exec_instruction: the instructions that compute or move a value.        *)
(***************************************************************************)
BlockV(f, caps) == <<"Block", f, caps>>
Wrapped(kind, b) == IF b[1] = "Block" THEN <<kind, b[2], b[3]>> ELSE NilV
MetaName(v, C(_)) == IF IsObject(v) THEN Object(C(v[2]), v[3]) ELSE NilV

(* bind takes the third part of "UnboundMethod:C:m", which is not m when   *)
(* the class's own text has a colon in it.                                 *)
Bound(v) ==
    IF IsObject(v) /\ v[2][1] = "UnboundMethod"
    THEN Object(<<"Method", CASE v[2][2][1] = "Class" -> v[2][3] [] v[2][2][1] = "Singleton" -> TextOfClass(v[2][2][2]) \o ">"
                              [] OTHER -> v[2][2][2]>>, 0)
    ELSE NilV

Ivar(v, x) == IF IsObject(v) /\ v[3] \in DOMAIN ivars THEN Lookup(ivars[v[3]], x) ELSE NilV
LoadValue(x) ==
    CASE x \in ConstantNames -> Lookup(consts, <<"const", x>>)
      [] x \in IvarNames -> Ivar(SelfV, x)
      [] OTHER -> Lookup(Top.vars, x)

ConstKey(v, n) == <<"const", n[2]>>
CvarKey(v, n) == <<"cvar", v[2], n[2]>>
Keyed(v, n, Key(_, _)) == IF IsClassObject(v) /\ IsName(n) THEN Lookup(consts, Key(v, n)) ELSE NilV
RespondsTo(v, n) == IsObject(v) /\ IsName(n) /\ InTable(v[2], n[2]) # <<>>

Computed ==
    {"LoadConst", "Copy", "BinOp", "UnOp", "Load", "SingletonClassGet", "BlockCreate", "ProcCreate",
     "LambdaCreate", "CurrentBlock", "SymbolToProc"}
Reflective ==
    {"SetVisibility", "Eval", "InstanceEval", "ClassEval", "ModuleEval", "BindingGet", "RespondTo", "MethodGet",
     "InstanceMethodGet", "MethodBind", "IvarGetDynamic", "CvarGetDynamic", "ConstGetDynamic"}
ValueOf(i) ==
    LET a == Regs(i.u) IN
    CASE i.op = "LoadConst" -> i.s[1]
      [] i.op = "Copy" -> a[1]
      [] i.op = "BinOp" -> EvalBinop(i.s[1], a[1], a[2])
      [] i.op = "UnOp" -> EvalUnop(i.s[1], a[1])
      [] i.op = "Load" -> LoadValue(i.s[1])
      [] i.op = "SingletonClassGet" -> MetaName(a[1], LAMBDA c : <<"Singleton", c>>)
      [] i.op = "BlockCreate" -> BlockV(i.s[1], a)
      [] i.op = "ProcCreate" -> Wrapped("Proc", a[1])
      [] i.op = "LambdaCreate" -> Wrapped("Lambda", a[1])
      [] i.op = "SymbolToProc" -> IF a[1][1] = "Sym" THEN BlockV(<<"fn", a[1][2]>>, <<>>) ELSE NilV
      [] OTHER -> NilV
Reflected(i) ==
    LET a == Regs(i.u) IN
    CASE i.op \in {"InstanceEval", "ClassEval", "ModuleEval"} -> a[1]
      [] i.op = "RespondTo" -> BoolV(RespondsTo(a[1], a[2]))
      [] i.op = "MethodGet" -> IF IsName(a[2]) THEN Object(<<"Method", a[2][2]>>, 0) ELSE NilV
      [] i.op = "InstanceMethodGet" ->
           IF IsName(a[2]) /\ IsClassObject(a[1]) THEN Object(<<"UnboundMethod", a[1][2], a[2][2]>>, 0) ELSE NilV
      [] i.op = "MethodBind" -> Bound(a[1])
      [] i.op = "IvarGetDynamic" -> IF IsName(a[2]) THEN Ivar(a[1], a[2][2]) ELSE NilV
      [] i.op = "CvarGetDynamic" -> Keyed(a[1], a[2], CvarKey)
      [] i.op = "ConstGetDynamic" -> Keyed(a[1], a[2], ConstKey)
      [] OTHER -> NilV

Compute ==
    /\ AtInstruction /\ Current.op \in Computed \cup Reflective
    /\ Answer(Current.d, IF Current.op \in Computed THEN ValueOf(Current) ELSE Reflected(Current))
    /\ UNCHANGED <<fns, loaded, consts, methods, ivars, arrays, output, nextObj, result>>

(* Instance variables belong to an object's number; without one a store is *)
(* lost.                                                                   *)
SetIvar(v, x, val) ==
    IF IsObject(v) THEN Learn(ivars, v[3], Learn(IF v[3] \in DOMAIN ivars THEN ivars[v[3]] ELSE Nothing, x, val)) ELSE ivars
(* Mutant: a variable keeps its first value (entry().or_insert).           *)
SetVariableOnce(vars, x, v) == vars @@ (x :> v)

SetVariable(vars, x, v) == Learn(vars, x, v)

Stores == {"Store", "IvarSetDynamic", "CvarSetDynamic", "ConstSetDynamic"}
StoreValue ==
    /\ AtInstruction /\ Current.op \in Stores
    /\ LET a == Regs(Current.u)
           x == Current.s[1]
           store == Current.op = "Store"
           keyed == Current.op \in {"CvarSetDynamic", "ConstSetDynamic"} /\ IsClassObject(a[1]) /\ IsName(a[2])
       IN  /\ consts' = CASE store /\ x \in ConstantNames -> Learn(consts, <<"const", x>>, a[1])
                          [] keyed /\ Current.op = "CvarSetDynamic" -> Learn(consts, CvarKey(a[1], a[2]), a[3])
                          [] keyed /\ Current.op = "ConstSetDynamic" -> Learn(consts, ConstKey(a[1], a[2]), a[3])
                          [] OTHER -> consts
           /\ ivars' = CASE store /\ x \in IvarNames -> SetIvar(SelfV, x, a[1])
                         [] Current.op = "IvarSetDynamic" /\ IsName(a[2]) -> SetIvar(a[1], a[2][2], a[3])
                         [] OTHER -> ivars
           /\ SetTop(Advance(IF store /\ x \notin ConstantNames \cup IvarNames
                             THEN [Top EXCEPT !.vars = SetVariable(@, x, a[1])] ELSE Top))
    /\ UNCHANGED <<fns, loaded, methods, arrays, output, nextObj, result>>

(***************************************************************************)
(* Classes, modules and their method tables.  A module's table is its      *)
(* name's; methods included overwrite the class's own, methods prepended   *)
(* do not.                                                                 *)
(***************************************************************************)
TableKey(c) == IF c[1] = "Module" THEN <<"Class", c[2]>> ELSE c
Table(c) == IF c \in DOMAIN methods THEN methods[c] ELSE Nothing
WithMethod(c, m, f) == Learn(methods, c, Learn(Table(c), m, f))
Mixed(i, into, mod) ==
    LET mixed == Table(TableKey(mod[2]))
        key == IF i.op = "ExtendModule" THEN <<"Singleton", into[2]>> ELSE into[2]
    IN  IF ~IsClassObject(mod) \/ ~IsObject(into) \/ TableKey(mod[2]) \notin DOMAIN methods THEN methods
        ELSE IF i.op # "ExtendModule" /\ into[3] # 0 THEN methods
        ELSE Learn(methods, key, IF i.op = "PrependModule" THEN Table(key) @@ mixed ELSE mixed @@ Table(key))

Without(v, n) ==
    IF IsClassObject(v) /\ IsName(n) /\ v[2] \in DOMAIN methods
    THEN [methods EXCEPT ![v[2]] = [m \in DOMAIN @ \ {n[2]} |-> @[m]]] ELSE methods
Aliased(v, new, old) ==
    IF IsClassObject(v) /\ IsName(new) /\ IsName(old) /\ InTable(v[2], old[2]) # <<>>
    THEN WithMethod(v[2], new[2], Table(v[2])[old[2]]) ELSE methods

Definitions == {"ClassNew", "ModuleNew", "DefMethod", "IncludeModule", "PrependModule", "ExtendModule",
                "DefineMethodDynamic", "UndefMethod", "RemoveMethod", "AliasMethod"}
MethodsAfter(i, a) ==
    CASE i.op \in {"ClassNew", "ModuleNew"} -> Learn(methods, <<"Class", i.s[1]>>, Table(<<"Class", i.s[1]>>))
      [] i.op = "DefMethod" -> IF IsClassObject(a[1]) THEN WithMethod(TableKey(a[1][2]), i.s[1], i.s[2]) ELSE methods
      [] i.op \in {"IncludeModule", "PrependModule", "ExtendModule"} -> Mixed(i, a[1], a[2])
      [] i.op = "DefineMethodDynamic" ->
           IF IsClassObject(a[1]) /\ IsName(a[2]) THEN WithMethod(a[1][2], a[2][2], <<"fn", i.s[1]>>) ELSE methods
      [] i.op \in {"UndefMethod", "RemoveMethod"} -> Without(a[1], a[2])
      [] i.op = "AliasMethod" -> Aliased(a[1], a[2], a[3])
Defined(i) ==
    CASE i.op = "ClassNew" -> Object(<<"Class", i.s[1]>>, 0)
      [] i.op = "ModuleNew" -> Object(<<"Module", i.s[1]>>, 0)
      [] i.op = "DefineMethodDynamic" -> <<"Sym", i.s[1]>>
      [] OTHER -> NilV
Define ==
    /\ AtInstruction /\ Current.op \in Definitions
    /\ methods' = MethodsAfter(Current, Regs(Current.u))
    /\ consts' = IF Current.op = "ModuleNew" THEN Learn(consts, <<"const", Current.s[1]>>, Defined(Current)) ELSE consts
    /\ Answer(Current.d, Defined(Current))
    /\ UNCHANGED <<fns, loaded, ivars, arrays, output, nextObj, result>>

(***************************************************************************)
(* Calls.  The block of a method call or a send is not passed on.          *)
(***************************************************************************)
CallFunction ==
    /\ AtInstruction /\ Current.op = "Call"
    /\ DispatchCall(Current.d, Current.s[1], Regs(Current.u))
    /\ UNCHANGED <<fns, loaded, consts, methods, ivars, result>>

MethodCalls == {"MethodCall", "Send", "PublicSend", "SendWithIC", "MethodObjectCall", "MethodMissing"}
CalledMethod(i, a) ==
    CASE i.op \in {"MethodCall", "SendWithIC"} -> <<a[1], i.s[1], Tail(a)>>
      [] i.op \in {"Send", "PublicSend"} /\ IsName(a[2]) -> <<a[1], a[2][2], SubSeq(a, 3, Len(a))>>
      [] i.op = "MethodMissing" /\ a[2][1] = "Sym" -> <<a[1], "method_missing", SubSeq(a, 3, Len(a))>>
      [] i.op = "MethodObjectCall" /\ IsObject(a[1]) /\ a[1][2][1] = "Method" /\ Len(a) > 1 ->
           <<a[2], a[1][2][2], SubSeq(a, 3, Len(a))>>
      [] OTHER -> <<>>
CallMethod ==
    /\ AtInstruction /\ Current.op \in MethodCalls
    /\ LET call == CalledMethod(Current, Regs(Current.u)) IN
       IF call = <<>> THEN Answer(Current.d, NilV) /\ UNCHANGED <<arrays, nextObj>>
       ELSE DispatchMethodCall(Current.d, call[1], call[2], call[3])
    /\ UNCHANGED <<fns, loaded, consts, methods, ivars, output, result>>

(* A block's captured values come before its arguments.                    *)
InvokeBlock ==
    /\ AtInstruction /\ Current.op = "BlockInvoke"
    /\ LET a == Regs(Current.u) IN
       IF a[1][1] = "Block" /\ a[1][2] \in loaded
       THEN Enter(a[1][2], a[1][3] \o Tail(a), Current.d, <<>>)
       ELSE Answer(Current.d, NilV)
    /\ UNCHANGED <<fns, loaded, consts, methods, ivars, arrays, output, nextObj, result>>

EachElement ==
    /\ Running /\ Top.todo # <<>>
    /\ DispatchMethodCall(NoReg, Head(Top.todo)[1], Head(Top.todo)[2], <<>>)
    /\ UNCHANGED <<fns, loaded, consts, methods, ivars, output, result>>

(* Mutant: a jump does not go back to the first instruction of a block.    *)
JumpIntoBlock ==
    /\ AtTerminator /\ CurrentBlockOf.term.t \in {"Branch", "CondBranch"}
    /\ LET t == CurrentBlockOf.term IN
       SetTop([Top EXCEPT !.at = IF t.t = "Branch" \/ Truthy(Reg(t.r)) THEN t.to[1] ELSE t.to[2]])
    /\ UNCHANGED <<fns, loaded, consts, methods, ivars, arrays, output, nextObj, result>>

(***************************************************************************)
(* Terminators.  Unreachable, and a label no block has, return nil.        *)
(***************************************************************************)
Jump ==
    /\ AtTerminator /\ CurrentBlockOf.term.t \in {"Branch", "CondBranch"}
    /\ LET t == CurrentBlockOf.term IN
       SetTop([Top EXCEPT !.pc = 1, !.at = IF t.t = "Branch" \/ Truthy(Reg(t.r)) THEN t.to[1] ELSE t.to[2]])
    /\ UNCHANGED <<fns, loaded, consts, methods, ivars, arrays, output, nextObj, result>>

ReturnFrom ==
    /\ Running /\ (HasBlock => AtTerminator /\ CurrentBlockOf.term.t \in {"Return", "Unreachable"})
    /\ LET v == IF HasBlock /\ CurrentBlockOf.term.t = "Return" THEN Reg(CurrentBlockOf.term.r) ELSE NilV
           kept == IF Top.keep = <<>> THEN v ELSE Top.keep[1]
           n == Len(frames)
       IN  /\ frames' = IF n = 1 THEN <<>> ELSE [SubSeq(frames, 1, n - 1) EXCEPT ![n - 1] = Write(@, Top.dest, kept)]
           /\ result' = IF n = 1 THEN <<kept>> ELSE result
    /\ UNCHANGED <<fns, loaded, consts, methods, ivars, arrays, output, nextObj>>

(***************************************************************************)
(* load_module: a later function replaces an earlier one of the same name. *)
(***************************************************************************)
LastOfName(module) ==
    LET names == [k \in 1 .. Len(module) |-> module[k].name] IN
    [n \in {names[k] : k \in 1 .. Len(module)} |-> module[LastAt(names, n)]]
LoadModule(module) == fns' = LastOfName(module) /\ loaded' = DOMAIN fns'

InterpreterInit ==
    /\ fns = Nothing /\ loaded = {} /\ frames = <<>> /\ consts = Nothing /\ methods = Nothing /\ ivars = Nothing
    /\ arrays = Nothing /\ output = <<>> /\ nextObj = 1 /\ result = <<>>

(* call_function from outside, with no arguments.                          *)
CallFromOutside(f) ==
    /\ frames' = <<Frame(f, <<>>, NoReg, <<>>)>>
    /\ result' = <<>>
    /\ UNCHANGED <<fns, loaded, consts, methods, ivars, arrays, output, nextObj>>

Step == Compute \/ StoreValue \/ Define \/ CallFunction \/ CallMethod \/ InvokeBlock \/ EachElement \/ Jump \/ ReturnFrom
=============================================================================
