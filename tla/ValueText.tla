------------------------------ MODULE ValueText ------------------------------
(***************************************************************************)
(* The text of a value (jdruby-jit/src/interpreter.rs, to_s and inspect),  *)
(* given the arrays there are.  An array in itself has no text.            *)
(***************************************************************************)
EXTENDS Mir
LOCAL INSTANCE Integers
LOCAL INSTANCE Sequences
LOCAL INSTANCE SequencesExt
LOCAL INSTANCE TLC

RECURSIVE ClassText(_)
ClassText(c) ==
    CASE c[1] = "Class" -> c[2]
      [] c[1] = "Singleton" -> "#<SingletonClass:" \o ClassText(c[2]) \o ">"
      [] c[1] = "UnboundMethod" -> "UnboundMethod:" \o ClassText(c[2]) \o ":" \o c[3]
      [] OTHER -> c[1] \o ":" \o c[2]
RECURSIVE ToS(_, _), Inspect(_, _)
ToS(arrays, v) ==
    CASE IsInt(v) -> ToString(v[2])
      [] v[1] = "Str" -> v[2]
      [] v[1] = "Sym" -> ":" \o v[2]
      [] v[1] = "Bool" -> IF v[2] THEN "true" ELSE "false"
      [] v = NilV -> ""
      [] v[1] = "Array" -> LET a == arrays[v[2]] IN
           "[" \o FoldLeft(LAMBDA t, i : (IF i = 1 THEN t ELSE t \o ", ") \o Inspect(arrays, a[i]), "", [i \in 1 .. Len(a) |-> i]) \o "]"
      [] v[1] = "Hash" -> LET h == v[2] IN
           "{" \o FoldLeft(LAMBDA t, i : (IF i = 1 THEN t ELSE t \o ", ") \o Inspect(arrays, h[i][1]) \o " => " \o Inspect(arrays, h[i][2]),
                           "", [i \in 1 .. Len(h) |-> i]) \o "}"
      [] IsObject(v) -> "#<" \o ClassText(v[2]) \o ":" \o ToString(v[3]) \o ">"
      [] OTHER -> "#<" \o v[1] \o ">"
Inspect(arrays, v) == CASE v[1] = "Str" -> "\"" \o v[2] \o "\"" [] v = NilV -> "nil" [] OTHER -> ToS(arrays, v)
=============================================================================
