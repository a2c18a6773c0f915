------------------------------ MODULE MCCompile ------------------------------
(***************************************************************************)
(* The compilation of the programs of module Programs, of texts of a few   *)
(* words that are hardly a program, and of HIR that no source leads to;    *)
(* and what a compilation promises.                                        *)
(***************************************************************************)
EXTENDS Pipeline, MirOptimizer, HirToMir, RubySemantics, ValueText

P == INSTANCE Programs
Written(trees) == {[text |-> P!Lines(t), tree |-> <<t>>] : t \in trees}
StraightSources == Written(P!Straight)
MeantSources == Written(P!Straight \cup P!Branching)

Words == {"def", "end", "if", "x", "1", "(", ")", "|", "do", "class", "=", "\n", "\"", "#{", "->", "{", "}"}
Phrases(lengths) == UNION {[1 .. n -> Words] : n \in lengths}
Bodies == {<<"def x \n", "end">>, <<"class x \n", "end">>, <<"if x \n", "end">>, <<"x do", "end">>, <<"x {", "}">>, <<"-> {", "}">>}
BrokenTexts == {P!Joined(w, " ") : w \in Phrases(1 .. 3)}
               \cup {P!Joined(<<b[1]>> \o w \o <<b[2]>>, " ") : b \in Bodies, w \in Phrases({2})}
BrokenSources == {[text |-> t, tree |-> <<>>] : t \in BrokenTexts}
MCSources == MeantSources \cup Written(P!Structured \cup P!Nested) \cup BrokenSources

(* The passes.  Parser and lowering are each under a LET: TLC profiles a   *)
(* step along every path through the operators it applies, which for these *)
(* two recursions are too many, and stops at a LET that stands for an      *)
(* operator parameter.                                                     *)
Lex == INSTANCE Lexer
Sem == INSTANCE Analyzer
Back == INSTANCE Codegen
Grammar == INSTANCE Parser
MCScanText(text) == Lex!Tokenize(text)
MCParseTokens(toks) == LET parsed == Grammar!Parse(toks) IN parsed
MCAnalyzeAst(tree) == Sem!Analyze(tree)
MCLowerHir(nodes) == LET lowered == LowerModule(nodes) IN lowered
MCGenerate(functions) == Back!Generate(functions)

H == INSTANCE MetaPrograms
MCHir == H!All
MCConstants == {"A", "M"}
MCIvars == {"@v", "@@c"}
MCTasks == [m \in {"add_fast_task"} |-> "Fast: "]
MCUpper == [t \in {"ab"} |-> "AB"]

(***************************************************************************)
(* The front end.                                                          *)
(***************************************************************************)
(* The tokens are the text: each is the piece of the source it says it is, *)
(* they follow each other, what is between them is blank, and the last is  *)
(* the end of the file (lexer.rs tokenize).                                *)
TokensCover ==
    stage = "tokens" =>
      /\ tokens[Len(tokens)].kind = "Eof" /\ tokens[Len(tokens)].from = Len(source.text) + 1
      /\ \A i \in 1 .. Len(tokens) :
            LET t == tokens[i]
                before == IF i = 1 THEN 1 ELSE tokens[i - 1].to
            IN  /\ before <= t.from /\ (i < Len(tokens) => t.from < t.to)
                /\ t.lexeme = SubSeq(source.text, t.from, t.to - 1)
                /\ \A p \in before .. t.from - 1 : SubSeq(source.text, p, p) \in Lex!Blanks

(* A program written out from its tree is parsed into that tree, without a *)
(* diagnostic (parser.rs): every operator under every other, but for those *)
(* Misread of Programs names, is read as Ruby's precedence has it.         *)
TreeAsWritten == stage = "tree" /\ source.tree # <<>> => ast = source.tree[1] /\ diagnostics = 0

(* Whatever the text, and however many tokens were skipped over an error,  *)
(* a name, a literal or an opening word is in the tree no more often than  *)
(* in the text, and without a diagnostic as often: a text the callers take *)
(* for a program was read to its last word (parser.rs parse, parse_stmt,   *)
(* parse_body_until_end).  Hashes are apart: parse_hash drops a key that   *)
(* has no value.                                                           *)
ClassOfToken == [Identifier |-> "name", Integer |-> "Int", StringDouble |-> "string", KwDef |-> "MethodDef",
                 KwClass |-> "ClassDef", KwIf |-> "If", Arrow |-> "Lambda"]
ClassesOf(n) ==
    {Kind(n)} \cup (IF Kind(n) \in {"LocalVar", "MethodCall", "Param", "MethodDef", "ClassDef"} THEN {"name"} ELSE {})
              \cup (IF Kind(n) \in {"Str", "Interp"} THEN {"string"} ELSE {})
RECURSIVE TimesInTree(_, _)
TimesInTree(n, class) ==
    (IF class \in ClassesOf(n) THEN 1 ELSE 0)
    + (IF Kind(n) = "Interp" THEN 0 ELSE FoldSeq(LAMBDA k, sum : TimesInTree(k, class) + sum, 0, Kids(n)))
TimesInText(toks, class) ==
    Cardinality({i \in DOMAIN toks : toks[i].kind \in DOMAIN ClassOfToken /\ ClassOfToken[toks[i].kind] = class})
NothingLost ==
    stage = "tree" /\ source.tree = <<>> =>
      LET toks == Lex!Tokenize(source.text).tokens IN
      \A i \in DOMAIN ClassOfToken :
        LET c == ClassOfToken[i]
            there == TimesInTree(ast, c)
            written == TimesInText(toks, c)
        IN  there =< written /\ (diagnostics = 0 /\ TimesInTree(ast, "Hash") = 0 => there = written)

(* In code without branches, what the analyzer infers of a local is what   *)
(* the interpreter finds in it when main returns (infer_binary_type, and   *)
(* eval_binop after two optimizers).                                       *)
HasType(v, ty) ==
    CASE ty[1] = "Integer" -> v[1] = "Int"
      [] ty[1] = "String" -> v[1] = "Str"
      [] ty[1] = "Bool" -> v[1] = "Bool"
      [] ty[1] = "Nil" -> v = NilV
      [] OTHER -> TRUE
TypesHold ==
    stage = "running" /\ source \in StraightSources /\ route = "run" /\ Len(frames) = 1 /\ AtTerminator =>
      \A x \in DOMAIN Top.vars : HasType(Top.vars[x], sema.scopes[1].syms[x].ty)

(***************************************************************************)
(* The MIR as it is lowered.                                               *)
(***************************************************************************)
AllInsts(f) == UNION {{f.blocks[k].insts[j] : j \in 1 .. Len(f.blocks[k].insts)} : k \in 1 .. Len(f.blocks)}

(* A label stands for one block (make_label, finish_block).                *)
LabelsUnique == \A n \in 1 .. Len(mir) : Cardinality(Labels(mir[n])) = Len(mir[n].blocks)

(* A register that is read is one that something writes, also after a      *)
(* block function was lowered in the middle of another (lower_function,    *)
(* lower_block_function); the mixin nodes, whose result nothing writes,    *)
(* are not among the sources.                                              *)
RegistersWritten ==
    source.text # "" => \A n \in 1 .. Len(mir) :
      UNION {BlockReads(mir[n].blocks[k]) : k \in 1 .. Len(mir[n].blocks)} \subseteq Writes(mir[n])

(* A block that is created has one function, which takes as many captured  *)
(* values as it is given, before its parameters (lower_block_function).    *)
CapturesMatch ==
    \A n \in 1 .. Len(mir) : \A i \in AllInsts(mir[n]) : i.op = "BlockCreate" =>
      LET callees == {k \in 1 .. Len(mir) : mir[k].name = i.s[1]} IN
      /\ Cardinality(callees) = 1
      /\ \A k \in callees : Len(mir[k].caps) = Len(i.u) /\ Len(mir[k].params) >= Len(i.u)

(* All of it, of the MIR just lowered: what the optimizer, the interpreter *)
(* and the code generator take for granted (mir/src/lower.rs).             *)
MirWellFormed == MirFits /\ (stage = "mir" => LabelsUnique /\ RegistersWritten /\ CapturesMatch)

(***************************************************************************)
(* What is emitted.                                                        *)
(***************************************************************************)
(* A block ends with its one terminator, and a function that is called     *)
(* directly is given the arguments it is declared with, the runtime's too  *)
(* (emit_terminator, emit_call, declare_runtime).                          *)
CalleeTakes(op) ==
    LET own == {k \in 1 .. Len(mir) : Back!SymbolOf(mir[k].name) = op} IN
    IF own # {} THEN {Len(mir[k].params) : k \in own} ELSE {Back!RuntimeArity(op)}
CallsFit(g) ==
    \A k \in 1 .. Len(g.code) : \A j \in 1 .. Len(g.code[k]) :
      LET i == g.code[k][j] IN
      i.op \in (g.syms \cup Back!RuntimeNames) \ Back!Variadic => Len(i.args) \in CalleeTakes(i.op)
BlocksFit == \A n \in 1 .. Len(llvm) : llvm[n].errs = 0 /\ Back!BlocksEndOnce(llvm[n])
UsesDominated == \A n \in 1 .. Len(llvm) : Back!UsesDominated(llvm[n])

(* Two kinds of program are apart in what follows: those that call a       *)
(* function with other arguments than it is declared with (rb_ary_new, or  *)
(* an x that calls itself), and those with a value from one of two ways.   *)
Miscalling ==
    Written(P!Collections) \cup {[text |-> t, tree |-> <<>>] : t \in {"def x \n x 1 end", "def x \n x x end"}}
Joining == ast # <<>> /\ \E k \in {"If", "Case", "Ternary"} : TimesInTree(ast, k) > 0

(* The emitted functions pass Module::verify (lib.rs generate_module), as  *)
(* far as it depends on the program: every block of every program, on both *)
(* routes, ends once; but for the two kinds above, every call fits what it *)
(* calls, and every value is computed before it is used, whichever way a   *)
(* block is reached.                                                       *)
CodeVerifies ==
    stage = "emitted" =>
      /\ BlocksFit
      /\ source \notin Miscalling => \A n \in 1 .. Len(llvm) : CallsFit(llvm[n])
      /\ ~Joining => UsesDominated

(* The same of all programs, as README.md says of the MIR it calls SSA.    *)
UsesDominate == stage = "emitted" => UsesDominated

(***************************************************************************)
(* What the program does.                                                  *)
(***************************************************************************)
MeansWhatItSays ==
    LET said == Meaning(source.tree[1]) IN output = [k \in 1 .. Len(said) |-> ToS(arrays, said[k])]

(* The lowered program, interpreted, puts out what Ruby says it does.      *)
LoweredAsMeant == stage = "done" /\ route = "native" /\ source \in MeantSources => MeansWhatItSays

(* So does the optimized one, when the program has no branch and no        *)
(* instance variable.                                                      *)
OptimizedAsMeant ==
    stage = "done" /\ route = "run" /\ source \in Written(P!Straight \ P!Objects) => MeansWhatItSays

(* So does every optimized program.                                        *)
OptimizerKeepsMeaning == stage = "done" /\ route = "run" /\ source \in MeantSources => MeansWhatItSays

(* The parser comes back from every text.                                  *)
ParserReturns == stage # "hung"

(* Every compilation of a program that ends comes to its end: rejected,    *)
(* emitted, or interpreted.                                                *)
CompilationsEnd == <>(stage \in {"rejected", "done"} \/ (stage = "emitted" /\ route = "build"))
=============================================================================
