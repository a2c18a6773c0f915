---------------------------- MODULE MetaPrograms ----------------------------
(***************************************************************************)
(* HIR no parser produces, given to jdruby-mir through its own interface:  *)
(* a class A with an object a, one of the nodes of metaprogramming, and a  *)
(* call that shows what is left of A.                                      *)
(***************************************************************************)
EXTENDS AstToHir

Get == <<"Sym", "get", <<>> >>
Put == <<"Sym", "put", <<>> >>
One == <<"Int", 1, <<>> >>
ShowGet(x) == HirCall("puts", None, <<HirCall("get", Var(x), <<>>, None)>>, None)
ClassA == <<"ClassDef", [name |-> "A", super |-> ""],
            <<<<"FuncDef", [name |-> "get", params |-> <<"v">>, cls |-> FALSE], <<Var("self")>> >> >> >>
BlockOf(kind, params, stmts) == Closure(kind, params, Analyzer({}), stmts)
Showing(x) == <<HirCall("puts", None, <<Var(x)>>, None)>>
Around(nodes) ==
    <<ClassA, <<"ModuleDef", "M", <<>> >>, HirAssign("a", HirCall("new", Var("A"), <<>>, None))>> \o nodes \o <<ShowGet("a")>>
MetaNodes ==
    {<<k, "", <<Var(x), y>> >> : k \in {"UndefMethod", "RemoveMethod", "RespondTo", "InstanceMethodGet",
                                          "IvarGetDynamic", "CvarGetDynamic", "ConstGetDynamic"},
                                   x \in {"a", "A"}, y \in {Get, One}}
    \cup {<<k, "", <<Var("A"), Put, v>> >> : k \in {"AliasMethod"}, v \in {Get, One}}
    \cup {<<k, "", <<Var(x), Put, One>> >> : k \in {"IvarSetDynamic", "CvarSetDynamic", "ConstSetDynamic"}, x \in {"a", "A"}}
    \cup {<<k, "", <<x, Var("M")>> >> : k \in {"IncludeModule", "ExtendModule", "PrependModule"}, x \in {None, Var("A"), Var("a")}}
    \cup {<<k, "", <<Var("a"), <<"Str", "x", <<>> >>, None>> >> : k \in {"InstanceEval", "ClassEval", "ModuleEval"}}
    \cup {<<"SetVisibility", "private", <<Var("A")>> >>, <<"Eval", "", <<<<"Str", "x", <<>> >>, None, None, None>> >>,
          <<"BindingGet", "", <<>> >>}
    \cup {<<k, "", <<Var("a"), Get, b, One>> >> : k \in {"Send", "PublicSend", "InternalSend"},
                                                  b \in {None, BlockOf("Block", <<>>, Showing("a"))}}
    \cup {<<"Send", "", <<Var("a"), Var("a"), None>> >>, <<"MethodMissing", "get", <<Var("a"), None, One>> >>,
          <<"SingletonClass", "", <<Var("a"), One>> >>,
          <<"DefineMethod", "public", <<Var("A"), Put, BlockOf("Block", <<>>, Showing("a"))>> >>}
MethodObjects ==
    {<<HirAssign("u", <<"InstanceMethodGet", "", <<Var("A"), Get>> >>), HirAssign("m", <<k, "", <<Var(x), Get>> >>),
       <<"MethodObjectCall", b, <<Var("m"), Var("a")>> >> >> :
        k \in {"MethodGet", "MethodBind"}, x \in {"u", "a"}, b \in {"", "&"}}
BlockPrograms ==
    {<<BlockOf("BlockDef", ps, Showing("y")), <<"Yield", "", <<One>> >>, HirCall("get", None, <<One>>, None)>> :
        ps \in {<<"y">>, <<"z", "y">>}}
All == {Around(<<n>>) : n \in MetaNodes} \cup {Around(n) : n \in MethodObjects} \cup BlockPrograms
=============================================================================
