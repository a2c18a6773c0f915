------------------------------ MODULE Pipeline ------------------------------
(***************************************************************************)
(* A compilation, pass by pass, as the callers put the passes together:    *)
(*   "run"    BuildPipeline::run: analysed, optimised, and interpreted;    *)
(*   "build"  BuildPipeline::build: analysed, optimised, and emitted;      *)
(*   "native" main.rs's cmd_build_jit: neither, and emitted; its MIR is    *)
(*            given to the interpreter as well, to say what it means;      *)
(*   "interp" main.rs's `run --interp`: neither, and every function is     *)
(*            called in turn by an interpreter that was given none.        *)
(* Only the first two stop at a diagnostic of the lexer or the parser, and *)
(* none at one of the analyzer.                                            *)
(***************************************************************************)
EXTENDS MirInterpreter

CONSTANTS Sources,      \* [text, tree]: a program's text and, in a tuple, the tree it was written from
          \* The passes: lexer, parser, analyzer, lowering to HIR, HIR optimizer, lowering to
          \* MIR, MIR optimizer, code generator
          ScanText(_), ParseTokens(_), AnalyzeAst(_), LowerTree(_), TuneHir(_), LowerHir(_), TuneFunctions(_), EmitFunctions(_),
          HirPrograms   \* HIR given to jdruby-mir as its own interface takes it, without a parser

(* What the callers read of the front end's answers.                       *)
ASSUME FrontEndAssumption ==
    \A s \in Sources :
      LET scanned == ScanText(s.text)
          parsed == ParseTokens(scanned.tokens)
      IN  scanned.errs \in Nat /\ parsed.errs \in Nat

VARIABLES source, tokens, diagnostics, ast, sema, hir, mir, llvm, route, stage,
          calls   \* the functions that are still to be called from outside
compilation == <<source, tokens, diagnostics, ast, sema, hir, mir, llvm, route>>
pipelineVars == <<compilation, stage, calls, machine>>

Checked == {"run", "build"}
Optimized == {"run", "build"}
Emitted == {"build", "native"}
Interpreted == {"run", "native", "interp"}
Routes == Checked \cup Emitted \cup Interpreted

Unread == [text |-> "", tree |-> <<>>]
Init ==
    /\ route \in Routes
    /\ \/ source \in Sources /\ hir = <<>> /\ stage = "source"
       \/ source = Unread /\ hir \in HirPrograms /\ stage = "hir"
    /\ tokens = <<>> /\ diagnostics = 0 /\ ast = <<>> /\ sema = <<>>
    /\ mir = <<>> /\ llvm = <<>> /\ calls = <<>>
    /\ InterpreterInit

Tokenize ==
    /\ stage = "source"
    /\ LET t == ScanText(source.text) IN tokens' = t.tokens /\ diagnostics' = t.errs
    /\ stage' = "tokens"
    /\ UNCHANGED <<source, ast, sema, hir, mir, llvm, route, calls, machine>>

Stops == route \in Checked /\ diagnostics > 0

(* An error of the lexer or, after the next pass, of the parser is the end *)
(* of a build or run of the file.                                          *)
RejectTokens ==
    /\ stage = "tokens" /\ Stops
    /\ stage' = "rejected"
    /\ UNCHANGED <<compilation, calls, machine>>

(* The parser takes the tokens away.  One that does not come back leaves   *)
(* the program where it is.                                                *)
Parse ==
    /\ stage = "tokens" /\ ~Stops
    /\ LET p == ParseTokens(tokens) IN
       /\ ast' = IF p.hung THEN ast ELSE p.val
       /\ diagnostics' = diagnostics + p.errs
       /\ stage' = IF p.hung THEN "hung" ELSE "tree"
    /\ tokens' = <<>>
    /\ UNCHANGED <<source, sema, hir, mir, llvm, route, calls, machine>>

RejectTree ==
    /\ stage = "tree" /\ Stops
    /\ stage' = "rejected"
    /\ UNCHANGED <<compilation, calls, machine>>

AnalyzeTree ==
    /\ stage = "tree" /\ route \in Checked /\ ~Stops
    /\ sema' = AnalyzeAst(ast)
    /\ stage' = "analyzed"
    /\ UNCHANGED <<source, tokens, diagnostics, ast, hir, mir, llvm, route, calls, machine>>

LowerToHir ==
    /\ stage = IF route \in Checked THEN "analyzed" ELSE "tree"
    /\ hir' = LowerTree(ast)
    /\ stage' = "hir"
    /\ UNCHANGED <<source, tokens, diagnostics, ast, sema, mir, llvm, route, calls, machine>>

FoldHir ==
    /\ stage = "hir" /\ route \in Optimized
    /\ hir' = TuneHir(hir)
    /\ stage' = "folded"
    /\ UNCHANGED <<source, tokens, diagnostics, ast, sema, mir, llvm, route, calls, machine>>

LowerToMir ==
    /\ stage = IF route \in Optimized THEN "folded" ELSE "hir"
    /\ mir' = LowerHir(hir)
    /\ stage' = "mir"
    /\ UNCHANGED <<source, tokens, diagnostics, ast, sema, hir, llvm, route, calls, machine>>

TuneMir ==
    /\ stage = "mir" /\ route \in Optimized
    /\ mir' = TuneFunctions(mir)
    /\ stage' = "tuned"
    /\ UNCHANGED <<source, tokens, diagnostics, ast, sema, hir, llvm, route, calls, machine>>

Compiled == stage = IF route \in Optimized THEN "tuned" ELSE "mir"

EmitLlvm ==
    /\ Compiled /\ route \in Emitted
    /\ llvm' = EmitFunctions(mir)
    /\ stage' = "emitted"
    /\ UNCHANGED <<source, tokens, diagnostics, ast, sema, hir, mir, route, calls, machine>>

(* load_module, then main is called if there is one; run --interp loads    *)
(* nothing and calls the functions one after the other.                    *)
StartInterpreter ==
    /\ \/ Compiled /\ route \in Interpreted \ Emitted
       \/ stage = "emitted" /\ route \in Interpreted
    /\ IF route = "interp" THEN fns' = LastOfName(mir) /\ loaded' = {} ELSE LoadModule(mir)
    /\ calls' = IF route = "interp" THEN [k \in 1 .. Len(mir) |-> mir[k].name]
                ELSE IF <<"fn", "main">> \in loaded' THEN <<<<"fn", "main">>>> ELSE <<>>
    /\ stage' = "running"
    /\ UNCHANGED <<compilation, frames, consts, methods, ivars, arrays, output, nextObj, result>>

CallNext ==
    /\ stage = "running" /\ ~Running /\ calls # <<>>
    /\ CallFromOutside(Head(calls))
    /\ calls' = Tail(calls)
    /\ UNCHANGED <<compilation, stage>>

Interpret ==
    /\ stage = "running"
    /\ Step
    /\ UNCHANGED <<compilation, stage, calls>>

Finish ==
    /\ stage = "running" /\ ~Running /\ calls = <<>>
    /\ stage' = "done"
    /\ UNCHANGED <<compilation, calls, machine>>

(* Where a compilation rests: the parser does not come back, or a caller   *)
(* has returned.                                                           *)
Final == stage \in {"hung", "rejected", "done"} \/ (stage = "emitted" /\ route \notin Interpreted)
Rest == Final /\ UNCHANGED pipelineVars

Next == \/ Tokenize \/ RejectTokens \/ Parse \/ RejectTree \/ AnalyzeTree \/ LowerToHir \/ FoldHir \/ LowerToMir \/ TuneMir
        \/ EmitLlvm \/ StartInterpreter \/ CallNext \/ Interpret \/ Finish \/ Rest

(* One thread does all of it and goes on as long as it can: weak fairness  *)
(* of Next.  Next without Rest is enabled in every state that is not       *)
(* Final: a run that found another one would report a deadlock.            *)
GoesOn == []<>Final \/ []<><<Next>>_pipelineVars
Spec == Init /\ [][Next]_pipelineVars /\ GoesOn

Stages == {"source", "tokens", "tree", "hung", "rejected", "analyzed", "hir", "folded", "mir", "tuned",
           "emitted", "running", "done"}

(* The stages and routes are the callers'; a frame of the interpreter is   *)
(* at a block of its function and has no register the function has not.    *)
FrameFits(frame) ==
    LET f == fns[frame.fn] IN
    /\ frame.fn \in DOMAIN fns
    /\ frame.at \in Labels(f)
    /\ frame.pc \in 1 .. Len(f.blocks[BlockAt(f, frame.at)].insts) + 1
    /\ DOMAIN frame.regs \subseteq 0 .. f.nregs - 1
TypeOK ==
    /\ stage \in Stages /\ route \in Routes /\ diagnostics \in Nat
    /\ \A i \in 1 .. Len(calls) : calls[i] \in DOMAIN fns
    /\ loaded \subseteq DOMAIN fns
    /\ \A i \in 1 .. Len(frames) : FrameFits(frames[i])

(* Every branch leads to a block of its function, and every register that  *)
(* is written is counted (make_label, finish_block, alloc_reg), as lowered *)
(* and as optimized.                                                       *)
MirFits ==
    stage \in {"mir", "tuned"} => Len(mir) \in Nat /\ \A n \in 1 .. Len(mir) : Executable(mir[n])
=============================================================================
