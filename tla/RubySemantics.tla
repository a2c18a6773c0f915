--------------------------- MODULE RubySemantics ---------------------------
(***************************************************************************)
(* What a program of a small part of Ruby means, by recursion over its     *)
(* syntax tree: the reference the compiled program is compared with.  The  *)
(* part has integers, strings, truth values, locals, instance variables,   *)
(* conditionals and loops used as statements, methods, classes, new and    *)
(* puts.  A state has the locals, self, the objects' instance variables    *)
(* and classes, the values put out, the value of the last expression and   *)
(* the value returned, if any.                                             *)
(***************************************************************************)
EXTENDS Ast, Sequences, SequencesExt, Integers

RNil == <<"Nil">>
RTrue(v) == v \notin {RNil, <<"Bool", FALSE>>}
Start(defs) == [defs |-> defs, locals |-> [x \in {} |-> RNil], self |-> RNil, ivars |-> [o \in {} |-> RNil],
                out |-> <<>>, next |-> 1, val |-> RNil, ret |-> <<>>]
Val(st, v) == [st EXCEPT !.val = v]
Get(map, x) == IF x \in DOMAIN map THEN map[x] ELSE RNil
Bind(map, x, v) == (x :> v) @@ map

Operate(op, a, b) ==
    LET x == a[2]
        y == b[2]
    IN  CASE op = "Eq" -> <<"Bool", a = b>>
          [] op = "NotEq" -> <<"Bool", a # b>>
          [] op = "Add" -> IF a[1] = "Str" THEN <<"Str", x \o y>> ELSE <<"Int", x + y>>
          [] op = "Sub" -> <<"Int", x - y>>
          [] op = "Mul" -> <<"Int", x * y>>
          [] op = "Div" -> <<"Int", x \div y>>
          [] op = "Lt" -> <<"Bool", x < y>>
          [] op = "Gt" -> <<"Bool", x > y>>
          [] op = "LtEq" -> <<"Bool", x <= y>>
          [] op = "GtEq" -> <<"Bool", x >= y>>

RECURSIVE Eval(_, _)
EvalSeq(st, ns) == FoldLeft(LAMBDA s, n : IF s.ret # <<>> THEN s ELSE Eval(s, n), Val(st, RNil), ns)
EvalArgs(st, ns) ==
    FoldLeft(LAMBDA a, n : LET s == Eval(a.st, n) IN [st |-> s, vals |-> Append(a.vals, s.val)],
             [st |-> st, vals |-> <<>>], ns)

(* A method's body has locals of its own; the caller's come back after it. *)
Invoke(st, def, self, args) ==
    LET ps == ParamNames(Kids(def)[1])
        inner == [st EXCEPT !.self = self, !.ret = <<>>,
                            !.locals = [x \in {ps[i] : i \in 1 .. Len(ps)} |->
                                          LET i == CHOOSE j \in 1 .. Len(ps) : ps[j] = x IN
                                          IF i <= Len(args) THEN args[i] ELSE RNil]]
        done == EvalSeq(inner, Kids(Kids(def)[2]))
    IN  [done EXCEPT !.locals = st.locals, !.self = st.self, !.ret = <<>>,
                     !.val = IF done.ret # <<>> THEN done.ret[1] ELSE done.val]

MethodOf(st, owner, m) == SelectSeq(st.defs, LAMBDA d : d.owner = owner /\ d.name = m)
EvalCall(st, e) ==
    LET recv == IF Is(Receiver(e)) THEN Eval(st, Receiver(e)) ELSE Val(st, st.self)
        a == EvalArgs(recv, Args(e))
        m == Attr(e)
        object == <<"Object", recv.val[2], a.st.next>>
        born == [a.st EXCEPT !.next = @ + 1]
        init == MethodOf(st, object[2], "initialize")
        own == IF Is(Receiver(e)) THEN MethodOf(st, recv.val[2], m) ELSE MethodOf(st, "", m)
    IN  CASE ~Is(Receiver(e)) /\ m = "puts" -> Val([a.st EXCEPT !.out = @ \o a.vals], RNil)
          [] Is(Receiver(e)) /\ m = "new" ->
               Val(IF init = <<>> THEN born ELSE Invoke(born, init[1].def, object, a.vals), object)
          [] OTHER -> Invoke(a.st, own[1].def, IF Is(Receiver(e)) THEN recv.val ELSE st.self, a.vals)

RECURSIVE Loops(_, _, _)
Loops(st, c, body) ==
    LET t == Eval(st, c) IN
    IF ~RTrue(t.val) THEN Val(t, RNil)
    ELSE LET b == EvalSeq(t, body) IN IF b.ret # <<>> THEN b ELSE Loops(b, c, body)

SetVar(st, t, v) ==
    CASE Kind(t) = "LocalVar" -> [st EXCEPT !.locals = Bind(@, Attr(t), v)]
      [] Kind(t) = "IVar" -> [st EXCEPT !.ivars = Bind(@, <<st.self[3], Attr(t)>>, v)]

Otherwise(n) == IF Is(n) THEN Kids(n) ELSE <<>>
RECURSIVE EvalElsif(_, _, _), EvalWhen(_, _, _, _)
EvalElsif(st, arms, else) ==
    IF arms = <<>> THEN EvalSeq(st, Otherwise(else))
    ELSE LET c == Eval(st, Kids(arms[1])[1]) IN
         IF RTrue(c.val) THEN EvalSeq(c, Kids(Kids(arms[1])[2])) ELSE EvalElsif(c, Tail(arms), else)
EvalWhen(st, subject, arms, else) ==
    IF arms = <<>> THEN EvalSeq(st, Otherwise(else))
    ELSE LET ps == EvalArgs(st, Kids(Kids(arms[1])[1])) IN
         IF \E i \in 1 .. Len(ps.vals) : ps.vals[i] = subject THEN EvalSeq(ps.st, Kids(Kids(arms[1])[2]))
         ELSE EvalWhen(ps.st, subject, Tail(arms), else)

Eval(st, n) ==
    LET k == Kids(n) IN
    CASE Kind(n) = "Nil" -> Val(st, RNil)
      [] Kind(n) \in {"Int", "Str", "Bool"} -> Val(st, <<Kind(n), Attr(n)>>)
      [] Kind(n) = "LocalVar" -> Val(st, Get(st.locals, Attr(n)))
      [] Kind(n) = "IVar" -> Val(st, Get(st.ivars, <<st.self[3], Attr(n)>>))
      [] Kind(n) = "Const" -> Val(st, <<"Class", Attr(n)>>)
      [] Kind(n) = "Binary" /\ Attr(n) \in {"And", "Or"} ->
            LET l == Eval(st, k[1]) IN IF RTrue(l.val) = (Attr(n) = "And") THEN Eval(l, k[2]) ELSE l
      [] Kind(n) = "Binary" /\ Attr(n) \notin {"And", "Or"} ->
            LET l == Eval(st, k[1])
                r == Eval(l, k[2])
            IN  Val(r, Operate(Attr(n), l.val, r.val))
      [] Kind(n) = "Unary" -> LET e == Eval(st, k[1]) IN
                              Val(e, IF Attr(n) = "Not" THEN <<"Bool", ~RTrue(e.val)>> ELSE <<"Int", -e.val[2]>>)
      [] Kind(n) = "MethodCall" -> EvalCall(st, n)
      [] Kind(n) = "Assign" -> LET v == Eval(st, k[2]) IN SetVar(v, k[1], v.val)
      [] Kind(n) = "OpAssign" -> LET v == Eval(st, <<"Binary", Attr(n), k>>) IN SetVar(v, k[1], v.val)
      [] Kind(n) = "If" -> EvalElsif(st, <<<<"Elsif", "", <<k[1], k[2]>> >> >> \o Kids(k[3]), k[4])
      [] Kind(n) = "Unless" -> LET c == Eval(st, k[1]) IN EvalSeq(c, IF RTrue(c.val) THEN Otherwise(k[3]) ELSE Kids(k[2]))
      [] Kind(n) = "While" -> Loops(st, k[1], Kids(k[2]))
      [] Kind(n) = "Until" -> Loops(st, <<"Unary", "Not", <<k[1]>> >>, Kids(k[2]))
      [] Kind(n) = "Case" -> LET s == Eval(st, k[1]) IN EvalWhen(s, s.val, Kids(k[2]), k[3])
      [] Kind(n) = "Return" -> LET v == IF Is(k[1]) THEN Eval(st, k[1]) ELSE Val(st, RNil) IN [v EXCEPT !.ret = <<v.val>>]
      [] OTHER -> st

Definitions1(owner, ns) ==
    LET defs == SelectSeq(ns, LAMBDA n : Kind(n) = "MethodDef")
    IN  [i \in 1 .. Len(defs) |-> [owner |-> owner, name |-> Attr(defs[i])[1], def |-> defs[i]]]
AllDefinitions(ns) ==
    LET classes == SelectSeq(ns, LAMBDA n : Kind(n) = "ClassDef")
    IN  Definitions1("", ns) \o FlattenSeq([i \in 1 .. Len(classes) |-> Definitions1(Attr(classes[i]), Kids(Kids(classes[i])[2]))])

Meaning(program) == EvalSeq(Start(AllDefinitions(Kids(program))), Kids(program)).out
=============================================================================
