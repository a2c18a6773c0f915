------------------------------ MODULE Analyzer ------------------------------
(***************************************************************************)
(* The semantic analysis of jdruby-semantic: scopes, symbols and inferred  *)
(* types, in one walk that collects definitions and one that visits        *)
(* everything.  A state has the stack of scopes, the known classes, the    *)
(* numbers of errors and warnings and the type of the last expression.     *)
(***************************************************************************)
EXTENDS Ast
LOCAL INSTANCE Integers
LOCAL INSTANCE Sequences
LOCAL INSTANCE TLC
LOCAL INSTANCE SequencesExt

(* A type is a tuple: its name and, for some, what it is of.               *)
T(name) == <<name>>
AnyType == T("AnyType")
Bool == T("Bool")
Integer == T("Integer")
Float == T("Float")
OptionalOf(t) == IF t[1] \in {"Optional", "Nil"} THEN t ELSE <<"Optional", t>>
Members(t) == IF t[1] = "Union" THEN t[2] ELSE <<t>>
UnionOf(t, u) ==
    LET new == IF t[1] # "Union" /\ u[1] = "Union" THEN Members(u) ELSE Members(t)
        more == IF t[1] # "Union" /\ u[1] = "Union" THEN <<t>> ELSE Members(u)
        missing == SelectSeq(more, LAMBDA x : ~Contains(new, x))
    IN  IF t = u THEN t
        ELSE <<"Union", IF t[1] # "Union" /\ u[1] = "Union" THEN missing \o new ELSE new \o missing>>

(* Mutant: a comparison has the type of what it compares.                  *)
BinaryTypeOfLeft(op, l, r) == l

(* infer_binary_type.                                                      *)
BinaryType(op, l, r) ==
    CASE op \in {"Eq", "NotEq", "Lt", "Gt", "LtEq", "GtEq", "CaseEq", "Match", "NotMatch"} -> Bool
      [] op = "Spaceship" -> OptionalOf(Integer)
      [] op \in {"And", "Or"} -> IF l = r THEN l ELSE AnyType
      [] op \in {"Add", "Sub", "Mul", "Pow"} ->
            CASE l = Integer /\ r = Integer -> Integer
              [] Float \in {l, r} -> Float
              [] op = "Add" /\ l = r /\ l = T("String") -> l
              [] op = "Add" /\ l[1] = "Array" /\ r[1] = "Array" -> l
              [] OTHER -> AnyType
      [] op = "Div" -> IF l = Integer /\ r = Integer THEN Integer ELSE Float
      [] op \in {"Mod", "BitAnd", "BitOr", "BitXor", "Shl", "Shr"} -> Integer
      [] OTHER -> T("Range")
LiteralType == "Int" :> Integer @@ "Float" :> Float @@ "Str" :> T("String") @@ "Interp" :> T("String")
               @@ "Sym" :> T("Symbol") @@ "Bool" :> Bool @@ "Nil" :> T("Nil") @@ "Self" :> T("SelfType")
               @@ "Regex" :> T("Regexp")

(***************************************************************************)
(* Scopes.  A symbol has its kind, its type and, for a method, what it     *)
(* returns; the nearest scope that has a name answers for it.              *)
(***************************************************************************)
Sym(kind, ty, ret) == [kind |-> kind, ty |-> ty, ret |-> ret]
Var(kind, ty) == Sym(kind, ty, AnyType)
Push(a, kind, name) == [a EXCEPT !.scopes = Append(@, [kind |-> kind, name |-> name, syms |-> <<>>])]
Pop(a) == IF Len(a.scopes) > 1 THEN [a EXCEPT !.scopes = Front(@)] ELSE a
Define(a, name, sym) == [a EXCEPT !.scopes[Len(a.scopes)].syms = (name :> sym) @@ @]
Holding(a, name) == {i \in 1 .. Len(a.scopes) : name \in DOMAIN a.scopes[i].syms}
Known(a, name) == Holding(a, name) # {}
Nearest(a, name) == CHOOSE i \in Holding(a, name) : \A j \in Holding(a, name) : j =< i
Lookup(a, name) == a.scopes[Nearest(a, name)].syms[name]
Retype(a, name, ty) == [a EXCEPT !.scopes[Nearest(a, name)].syms[name].ty = ty]
InA(a, kind) == \E i \in 1 .. Len(a.scopes) : a.scopes[i].kind = kind

Typed(a, ty) == [a EXCEPT !.ty = ty]
ErrorIf(a, wrong) == IF wrong THEN [a EXCEPT !.errs = @ + 1] ELSE a
WarnIf(a, odd) == IF odd THEN [a EXCEPT !.warns = @ + 1] ELSE a

(* define_builtins: methods with what they return, constants and classes.  *)
BuiltinReturns ==
    "puts" :> T("Nil") @@ "print" :> T("Nil") @@ "p" :> AnyType @@ "gets" :> OptionalOf(T("String"))
    @@ "raise" :> T("Void") @@ "require" :> Bool @@ "require_relative" :> Bool @@ "rand" :> AnyType
    @@ "sleep" :> Integer @@ "exit" :> T("Void") @@ "abort" :> T("Void") @@ "at_exit" :> T("Proc")
    @@ "freeze" :> T("SelfType") @@ "frozen?" :> Bool @@ "nil?" :> Bool @@ "is_a?" :> Bool
    @@ "kind_of?" :> Bool @@ "respond_to?" :> Bool @@ "send" :> AnyType @@ "class" :> <<"Class", "Class">>
    @@ "to_s" :> T("String") @@ "to_i" :> Integer @@ "to_f" :> Float @@ "to_a" :> <<"Array", AnyType>>
    @@ "inspect" :> T("String") @@ "hash" :> Integer @@ "dup" :> T("SelfType") @@ "clone" :> T("SelfType")
    @@ "tap" :> T("SelfType") @@ "then" :> AnyType @@ "yield_self" :> AnyType @@ "object_id" :> Integer
    @@ "equal?" :> Bool @@ "eql?" :> Bool @@ "instance_of?" :> Bool @@ "method" :> T("Proc")
    @@ "methods" :> <<"Array", T("Symbol")>> @@ "instance_variables" :> <<"Array", T("Symbol")>>
    @@ "instance_variable_get" :> AnyType @@ "instance_variable_set" :> AnyType
BuiltinConstants == {"ARGV", "STDIN", "STDOUT", "STDERR", "ENV", "RUBY_VERSION", "RUBY_PLATFORM", "RUBY_ENGINE",
                     "TRUE", "FALSE", "NIL", "__FILE__", "__LINE__", "__dir__", "__method__"}
BuiltinClasses ==
    {"Object", "BasicObject", "Kernel", "Integer", "Float", "String", "Symbol", "Array", "Hash", "Range", "Regexp",
     "Proc", "NilClass", "TrueClass", "FalseClass", "IO", "File", "Dir", "Exception", "StandardError",
     "RuntimeError", "TypeError", "ArgumentError", "NameError", "NoMethodError", "ZeroDivisionError", "Comparable",
     "Enumerable", "Enumerator", "Struct", "Class", "Module", "Numeric", "Math", "Thread", "Mutex", "Fiber",
     "Process", "Signal", "Time", "Random", "Set", "GC", "Marshal", "Encoding"}
Builtins ==
    [c \in BuiltinClasses |-> Var("Class", <<"Class", c>>)]
    @@ [c \in BuiltinConstants |-> Var("Constant", AnyType)]
    @@ [m \in DOMAIN BuiltinReturns |-> Sym("Method", T("Proc"), BuiltinReturns[m])]
Fresh == [scopes |-> <<[kind |-> "TopLevel", name |-> "", syms |-> Builtins]>>, classes |-> BuiltinClasses,
          errs |-> 0, warns |-> 0, ty |-> T("Nil")]

(* The first walk: what the bodies of classes define goes with their scope.*)
RECURSIVE Collect(_, _)
CollectAll(a, ns) == FoldLeft(LAMBDA b, n : Collect(b, n), a, ns)
Collect(a, n) ==
    CASE Kind(n) = "MethodDef" -> Define(a, Attr(n)[1], Sym("Method", T("Proc"), AnyType))
      [] Kind(n) = "ClassDef" ->
            Pop(CollectAll(Push([Define(a, Attr(n), Var("Class", <<"Class", Attr(n)>>)) EXCEPT !.classes = @ \cup {Attr(n)}],
                                "Class", Attr(n)), Kids(Kids(n)[2])))
      [] Kind(n) = "ModuleDef" ->
            Pop(CollectAll(Push(Define(a, Attr(n), Var("Module", <<"Module", Attr(n)>>)), "Module", Attr(n)),
                           Kids(Kids(n)[2])))
      [] OTHER -> a

(***************************************************************************)
(* The second walk, over statements and expressions.                       *)
(***************************************************************************)
RECURSIVE Visit(_, _)
VisitAll(a, ns) == FoldLeft(LAMBDA b, n : Visit(b, n), a, ns)
VisitBody(a, n) == VisitAll(a, Kids(n))   \* nothing under None

(* An assignment: a local changes the nearest symbol of its name, however  *)
(* far out; the others are defined in the current scope.                   *)
TargetKind == "LocalVar" :> "LocalVar" @@ "IVar" :> "InstanceVar" @@ "CVar" :> "ClassVar" @@ "GVar" :> "GlobalVar"
              @@ "Const" :> "Constant"
VisitAssign(a, n) ==
    LET v == Visit(a, Kids(n)[2])
        t == Kids(n)[1]
        odd == \/ Kind(t) = "IVar" /\ ~InA(v, "Class") /\ ~InA(v, "Method")
               \/ Kind(t) = "CVar" /\ ~InA(v, "Class")
               \/ Kind(t) = "Const" /\ Known(v, Attr(t))
    IN  CASE Kind(t) \notin DOMAIN TargetKind -> VisitAll(v, Kids(t))
          [] Kind(t) = "LocalVar" /\ Known(v, Attr(t)) -> Retype(v, Attr(t), v.ty)
          [] OTHER -> Define(WarnIf(v, odd), Attr(t), Var(TargetKind[Kind(t)], v.ty))
VisitOpAssign(a, n) ==
    LET v == Visit(a, Kids(n)[2])
        t == Kids(n)[1]
    IN  ErrorIf(v, Kind(t) = "LocalVar" /\ ~Known(v, Attr(t)))

VisitParam(a, p) ==
    LET d == IF Is(Kids(p)[1]) THEN Visit(a, Kids(p)[1]) ELSE Typed(a, AnyType)
    IN  Define(d, ParamName(p), Var("Param", d.ty))
VisitMethodDef(a, n) ==
    Pop(VisitBody(FoldLeft(VisitParam, Push(a, "Method", Attr(n)[1]), Kids(Kids(n)[1])), Kids(n)[2]))
SuperName(n) == IF Kind(n) \in {"Const", "LocalVar"} THEN Attr(n) ELSE ""
VisitClassDef(a, n) ==
    LET super == SuperName(Kids(n)[1])
    IN  Pop(VisitBody(Push(ErrorIf(a, super # "" /\ ~Known(a, super) /\ super \notin a.classes), "Class", Attr(n)),
                      Kids(n)[2]))
VisitModuleDef(a, n) == Pop(VisitBody(Push(a, "Module", Attr(n)), Kids(n)[2]))

(* If, Unless, While, Until and Case visit what they hold in its order.    *)
VisitFor(a, n) ==
    VisitBody(Define(Visit(a, Kids(n)[1]), Attr(n), Var("LocalVar", AnyType)), Kids(n)[2])
VisitRescue(a, n) ==
    LET s == VisitBody(Push(a, "Rescue", ""), Kids(n)[1])
        v == IF Attr(n) = "" THEN s ELSE Define(s, Attr(n), Var("LocalVar", <<"Instance", "Exception">>))
    IN  Pop(VisitBody(v, Kids(n)[2]))

(* A block or a lambda: a scope with its parameters, whose defaults are    *)
(* not visited.                                                            *)
VisitClosure(a, kind, params, body, symKind) ==
    Pop(VisitBody(FoldLeft(LAMBDA b, p : Define(b, ParamName(p), Var(symKind, AnyType)), Push(a, kind, ""), Kids(params)),
                  body))
VisitCall(a, n) ==
    LET v == VisitAll(IF Is(Receiver(n)) THEN Visit(a, Receiver(n)) ELSE a, Args(n))
    IN  Typed(v, IF Known(v, Attr(n)) /\ Lookup(v, Attr(n)).kind = "Method" THEN Lookup(v, Attr(n)).ret ELSE AnyType)
VisitArray(a, n) ==
    LET step(acc, e) == LET v == Visit(acc[1], e) IN <<v, Append(acc[2], v.ty)>>
        all == FoldLeft(step, <<a, <<>> >>, Kids(n))
        same == \A i \in 1 .. Len(all[2]) : all[2][i] = all[2][1]
    IN  Typed(all[1], <<"Array", IF Kids(n) # <<>> /\ same THEN all[2][1] ELSE AnyType>>)
SymbolType(a, name) == IF Known(a, name) THEN Lookup(a, name).ty ELSE AnyType
(* A path A::B goes by its last name when nothing has the whole of it.     *)
LastName(path) ==
    LET starts == {1} \cup {i \in 3 .. Len(path) : SubSeq(path, i - 2, i - 1) = "::"}
    IN  SubSeq(path, CHOOSE i \in starts : \A j \in starts : j =< i, Len(path))
ConstantType(a, path) == SymbolType(a, IF Known(a, path) THEN path ELSE LastName(path))

VisitExpr(a, n) ==
    LET k == Kids(n) IN
    CASE Kind(n) \in DOMAIN LiteralType -> Typed(a, LiteralType[Kind(n)])
      [] Kind(n) \in {"LocalVar", "IVar", "CVar"} -> Typed(a, SymbolType(a, Attr(n)))
      [] Kind(n) = "Const" -> Typed(a, ConstantType(a, Attr(n)))
      [] Kind(n) = "GVar" -> Typed(a, AnyType)
      [] Kind(n) = "Array" -> VisitArray(a, n)
      [] Kind(n) = "Hash" -> Typed(VisitAll(a, k), T("Hash"))
      [] Kind(n) = "Range" -> Typed(VisitAll(a, k), T("Range"))
      [] Kind(n) = "Binary" -> LET l == Visit(a, k[1])
                                   r == Visit(l, k[2])
                               IN  Typed(r, BinaryType(Attr(n), l.ty, r.ty))
      [] Kind(n) = "Unary" -> LET e == Visit(a, k[1]) IN
                              Typed(e, CASE Attr(n) = "Not" -> Bool [] Attr(n) = "BitNot" -> Integer [] OTHER -> e.ty)
      [] Kind(n) = "MethodCall" -> VisitCall(a, n)
      [] Kind(n) = "BlockCall" -> Typed(VisitClosure(Visit(a, k[1]), "Block", k[2], k[3], "BlockParam"), AnyType)
      [] Kind(n) \in {"Lambda", "Proc"} -> Typed(VisitClosure(a, "Lambda", k[1], k[2], "Param"), T("Proc"))
      [] Kind(n) \in {"Super", "YieldExpr"} -> Typed(VisitAll(a, k), AnyType)
      [] Kind(n) = "Ternary" -> LET c == Visit(a, k[1])
                                    t == Visit(c, k[2])
                                    e == Visit(t, k[3])
                                IN  Typed(e, UnionOf(t.ty, e.ty))
      [] Kind(n) = "Defined" -> Typed(a, OptionalOf(T("String")))
      [] Kind(n) = "Match" -> Typed(VisitAll(a, k), Bool)

Visit(a, n) ==
    CASE Kind(n) \in ExprKinds -> VisitExpr(a, n)
      [] Kind(n) = "Assign" -> VisitAssign(a, n)
      [] Kind(n) = "OpAssign" -> VisitOpAssign(a, n)
      [] Kind(n) = "MethodDef" -> VisitMethodDef(a, n)
      [] Kind(n) = "ClassDef" -> VisitClassDef(a, n)
      [] Kind(n) = "ModuleDef" -> VisitModuleDef(a, n)
      [] Kind(n) = "For" -> VisitFor(a, n)
      [] Kind(n) = "Rescue" -> VisitRescue(a, n)
      [] Kind(n) \in {"If", "Elsif", "Unless", "While", "Until", "Case", "When", "BeginRescue", "Body",
                      "Break", "Next"} -> VisitAll(a, Kids(n))
      [] Kind(n) = "Return" -> VisitAll(WarnIf(a, ~InA(a, "Method")), Kids(n))
      [] Kind(n) = "Yield" -> VisitAll(ErrorIf(a, ~InA(a, "Method")), Kids(n))
      [] OTHER -> a   \* no node, require, alias, attr_*, include

Analyze(program) == VisitAll(CollectAll(Fresh, Kids(program)), Kids(program))
=============================================================================
