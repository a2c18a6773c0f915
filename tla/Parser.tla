------------------------------- MODULE Parser -------------------------------
(***************************************************************************)
(* The recursive descent parser of jdruby-parser: from tokens to a syntax  *)
(* tree.  A parser state holds the tokens, the position, the number of     *)
(* diagnostics, whether the last call succeeded (Some) and its value, and  *)
(* whether a loop of the parser went round without taking a token.         *)
(***************************************************************************)
EXTENDS Ast, Lexer
LOCAL INSTANCE Integers
LOCAL INSTANCE Sequences
LOCAL INSTANCE TLC

K(s) == s.toks[IF s.pos > Len(s.toks) THEN Len(s.toks) ELSE s.pos].kind
Lexeme(s) == s.toks[IF s.pos > Len(s.toks) THEN Len(s.toks) ELSE s.pos].lexeme
Peeked(s) == IF s.pos + 1 > Len(s.toks) THEN "Eof" ELSE s.toks[s.pos + 1].kind
AtEnd(s) == s.pos > Len(s.toks) \/ K(s) = "Eof"
Adv(s) == IF s.pos > Len(s.toks) THEN s ELSE [s EXCEPT !.pos = @ + 1]
Eat(s, kind) == IF K(s) = kind THEN Adv(s) ELSE s

(* Some, None, and None with a diagnostic; F(s) is what follows a `?`.     *)
Give(s, value) == [s EXCEPT !.val = value, !.ok = TRUE]
Miss(s) == [s EXCEPT !.ok = FALSE]
Complain(s) == [s EXCEPT !.errs = @ + 1]
Fail(s) == Miss(Complain(s))
Then(s, F(_)) == IF s.ok THEN F(s) ELSE s

(* Mutant: what is expected and missing is not reported.                   *)
ExpectQuietly(s, kind) == IF K(s) = kind THEN Adv(s) ELSE Miss(s)

Expect(s, kind) == IF K(s) = kind THEN Adv(s) ELSE Fail(s)
ExpectName(s, kinds) == IF K(s) \in kinds THEN Give(Adv(s), Lexeme(s)) ELSE Fail(s)
Ident == {"Identifier"}
IdentOrConst == {"Identifier", "Constant"}

RECURSIVE SkipKinds(_, _)
SkipKinds(s, kinds) == IF K(s) \in kinds THEN SkipKinds(Adv(s), kinds) ELSE s
SkipNewlines(s) == SkipKinds(s, {"Newline", "Comment"})
SkipTerminators(s) == SkipKinds(s, {"Newline", "Semicolon", "Comment"})

ArgStarts == {"Integer", "Float", "StringDouble", "StringSingle", "Symbol", "KwTrue", "KwFalse", "KwNil",
              "Identifier", "Constant", "InstanceVar", "ClassVar", "GlobalVar", "LBracket", "LBrace",
              "Colon"}
IsArgStart(s) == K(s) \in ArgStarts

(***************************************************************************)
(* Literals.  A number too large for the word is 0: parse().unwrap_or(0).  *)
(***************************************************************************)
MaxInt == 2147483647
DigitValue == "0" :> 0 @@ "1" :> 1 @@ "2" :> 2 @@ "3" :> 3 @@ "4" :> 4 @@ "5" :> 5 @@ "6" :> 6 @@ "7" :> 7
              @@ "8" :> 8 @@ "9" :> 9 @@ "a" :> 10 @@ "b" :> 11 @@ "c" :> 12 @@ "d" :> 13 @@ "e" :> 14
              @@ "f" :> 15 @@ "A" :> 10 @@ "B" :> 11 @@ "C" :> 12 @@ "D" :> 13 @@ "E" :> 14 @@ "F" :> 15
RECURSIVE ValueFrom(_, _, _, _)
ValueFrom(t, p, base, acc) ==
    CASE p > Len(t) -> acc
      [] At(t, p) = "_" -> ValueFrom(t, p + 1, base, acc)
      [] acc > (MaxInt - DigitValue[At(t, p)]) \div base -> 0
      [] OTHER -> ValueFrom(t, p + 1, base, acc * base + DigitValue[At(t, p)])
ParseInt(t) ==
    CASE At(t, 1) = "0" /\ At(t, 2) \in {"x", "X"} -> ValueFrom(t, 3, 16, 0)
      [] At(t, 1) = "0" /\ At(t, 2) \in {"b", "B"} -> ValueFrom(t, 3, 2, 0)
      [] At(t, 1) = "0" /\ At(t, 2) \in {"o", "O"} -> ValueFrom(t, 3, 8, 0)
      [] OTHER -> ValueFrom(t, 1, 10, 0)

(* A name for the character of code 0, which has no escape here.           *)
Escaped == "n" :> "\n" @@ "t" :> "\t" @@ "r" :> "\r" @@ "\\" :> "\\" @@ "\"" :> "\"" @@ "'" :> "'" @@ "0" :> "NUL"
RECURSIVE UnescapeFrom(_, _)
UnescapeFrom(t, p) ==
    CASE p > Len(t) -> ""
      [] At(t, p) # "\\" -> At(t, p) \o UnescapeFrom(t, p + 1)
      [] At(t, p + 1) \in DOMAIN Escaped -> Escaped[At(t, p + 1)] \o UnescapeFrom(t, p + 2)
      [] OTHER -> "\\" \o At(t, p + 1) \o UnescapeFrom(t, p + 2)
Unescape(lexeme) == UnescapeFrom(SubSeq(lexeme, 2, Len(lexeme) - 1), 1)

RECURSIVE Trimmed(_)
Trimmed(t) == CASE At(t, 1) = "\"" -> Trimmed(SubSeq(t, 2, Len(t)))
                [] At(t, Len(t)) = "\"" -> Trimmed(SubSeq(t, 1, Len(t) - 1))
                [] OTHER -> t
SymbolName(lexeme) == Trimmed(SubSeq(lexeme, Skip(lexeme, 1, {":"}), Len(lexeme)))

(***************************************************************************)
(* Expressions: the levels of precedence, from `or` down to `**`.  Levels  *)
(* 3 (not), 5 (ranges) and 12 (power) are no left-associative chains.      *)
(***************************************************************************)
Ors == "PipePipe" :> "Or" @@ "KwOr" :> "Or"
Ands == "AmpAmp" :> "And" @@ "KwAnd" :> "And"
Comparisons == "EqualEqual" :> "Eq" @@ "BangEqual" :> "NotEq" @@ "Less" :> "Lt" @@ "Greater" :> "Gt"
    @@ "LessEqual" :> "LtEq" @@ "GreaterEqual" :> "GtEq" @@ "Spaceship" :> "Spaceship"
    @@ "TripleEqual" :> "CaseEq" @@ "Match" :> "Match" @@ "NotMatch" :> "NotMatch"
Shifts == "LessLess" :> "Shl" @@ "GreaterGreater" :> "Shr"
Additions == "Plus" :> "Add" @@ "Minus" :> "Sub"
Products == "Star" :> "Mul" @@ "Slash" :> "Div" @@ "Percent" :> "Mod"

(* Mutant: a shift binds tighter than a sum, as it does not in Ruby.       *)
ChainsShiftFirst == <<Ors, Ands, <<>>, Comparisons, <<>>, "Pipe" :> "BitOr", "Caret" :> "BitXor", "Amp" :> "BitAnd",
                      Additions, Shifts, Products>>

Chains == <<Ors, Ands, <<>>, Comparisons, <<>>, "Pipe" :> "BitOr", "Caret" :> "BitXor", "Amp" :> "BitAnd",
            Shifts, Additions, Products>>
Prefixes == "Minus" :> "Neg" @@ "Plus" :> "Pos" @@ "Tilde" :> "BitNot"

RECURSIVE ParseExpr(_), Level(_, _), MoreOperands(_, _), ParseUnary(_), MorePostfix(_), ParsePrimary(_),
          ParseInterpolated(_, _, _, _), ArgList(_, _, _), BareArgs(_, _), ArrayItems(_, _), HashItems(_, _),
          ParseParams(_, _), BlockParams(_, _), ParseStmt(_), ParseBody(_, _, _), Patterns(_, _),
          ElsifClauses(_, _), WhenClauses(_, _), RescueClauses(_, _)

ParseTernary(s) ==
    Then(Level(s, 1), LAMBDA c :
        IF K(c) # "Question" THEN c
        ELSE Then(ParseExpr(Adv(c)), LAMBDA t :
             Then(Expect(t, "Colon"), LAMBDA o :
             Then(ParseExpr(o), LAMBDA e : Give(e, <<"Ternary", "", <<c.val, t.val, e.val>> >>)))))
ParseExpr(s) == ParseTernary(s)

MoreOperands(l, n) ==
    IF ~l.ok \/ K(l) \notin DOMAIN Chains[n] THEN l
    ELSE Then(Level(Adv(l), n + 1), LAMBDA r :
              MoreOperands(Give(r, <<"Binary", Chains[n][K(l)], <<l.val, r.val>> >>), n))
ParseNot(s) ==
    IF K(s) \in {"Bang", "KwNot"}
    THEN Then(Level(Adv(s), 3), LAMBDA e : Give(e, <<"Unary", "Not", <<e.val>> >>))
    ELSE Level(s, 4)
ParseRange(s) ==
    Then(Level(s, 6), LAMBDA l :
        IF K(l) \notin {"DotDot", "DotDotDot"} THEN l
        ELSE Then(Level(Adv(l), 6), LAMBDA r : Give(r, <<"Range", K(l) = "DotDotDot", <<l.val, r.val>> >>)))
ParsePower(s) ==
    Then(ParseUnary(s), LAMBDA b :
        IF K(b) # "DoubleStar" THEN b
        ELSE Then(Level(Adv(b), 12), LAMBDA e : Give(e, <<"Binary", "Pow", <<b.val, e.val>> >>)))
Level(s, n) == CASE n = 3 -> ParseNot(s)
                 [] n = 5 -> ParseRange(s)
                 [] n = 12 -> ParsePower(s)
                 [] OTHER -> MoreOperands(Level(s, n + 1), n)
ParseUnary(s) ==
    IF K(s) \in DOMAIN Prefixes
    THEN Then(ParseUnary(Adv(s)), LAMBDA e : Give(e, <<"Unary", Prefixes[K(s)], <<e.val>> >>))
    ELSE Then(ParsePrimary(s), MorePostfix)

(***************************************************************************)
(* Argument lists: [args, block]; keyword arguments are parsed and kept    *)
(* out of the tree.  Between parentheses newlines are skipped.             *)
(***************************************************************************)
NoArgs == [args |-> <<>>, block |-> None]
ParseArgument(s, got) ==
    IF K(s) = "Amp" THEN Then(ParseExpr(Adv(s)), LAMBDA e : Give(e, [got EXCEPT !.block = e.val]))
    ELSE IF K(s) = "Identifier" /\ Peeked(s) = "Colon"
    THEN Then(ParseExpr(Adv(Adv(s))), LAMBDA e : Give(e, got))
    ELSE Then(ParseExpr(s), LAMBDA e : Give(e, [got EXCEPT !.args = Append(@, e.val)]))
ArgList(s, end, got) ==
    IF K(s) = end \/ AtEnd(s) THEN Give(s, got)
    ELSE Then(ParseArgument(s, got), LAMBDA a :
         LET b == SkipNewlines(a) IN
         IF K(b) = "Comma" THEN ArgList(SkipNewlines(Adv(b)), end, b.val) ELSE b)
BareArgs(s, got) ==
    Then(ParseArgument(s, got), LAMBDA a : IF K(a) = "Comma" THEN BareArgs(Adv(a), a.val) ELSE a)
ParenArgs(s) ==
    Then(ArgList(SkipNewlines(Adv(s)), "RParen", NoArgs), LAMBDA a : Expect(a, "RParen"))
OptionalArgs(s) == IF K(s) = "LParen" THEN ParenArgs(s)
                   ELSE IF IsArgStart(s) THEN BareArgs(s, NoArgs) ELSE Give(s, NoArgs)
CallWith(recv, m, got) == Call(m, recv, got.block, got.args)

(***************************************************************************)
(* Parameters and blocks.                                                  *)
(***************************************************************************)
NamedParam(s, kind) == Then(ExpectName(s, Ident), LAMBDA n : Give(n, Param(n.val, kind, None)))
ParseParam(s) ==
    CASE K(s) = "Star" -> NamedParam(Adv(s), "Rest")
      [] K(s) = "DoubleStar" -> NamedParam(Adv(s), "KeywordRest")
      [] K(s) = "Amp" -> NamedParam(Adv(s), "Block")
      [] OTHER -> Then(ExpectName(s, Ident), LAMBDA n :
            CASE K(n) = "Colon" ->
                    IF K(Adv(n)) \in {"Comma", "RParen"} THEN Give(Adv(n), Param(n.val, "Keyword", None))
                    ELSE Then(ParseExpr(Adv(n)), LAMBDA d : Give(d, Param(n.val, "Keyword", d.val)))
              [] K(n) = "Equal" ->
                    Then(ParseExpr(Adv(n)), LAMBDA d : Give(d, Param(n.val, "Optional", d.val)))
              [] OTHER -> Give(n, Param(n.val, "Required", None)))
ParseParams(s, acc) ==
    IF K(s) = "RParen" \/ AtEnd(s) THEN Give(s, Body(acc))
    ELSE Then(ParseParam(s), LAMBDA p :
         IF K(p) = "Comma" THEN ParseParams(Adv(p), Append(acc, p.val)) ELSE Give(p, Body(Append(acc, p.val))))
OptionalParams(s) == IF K(s) = "LParen"
                     THEN Then(ParseParams(Adv(s), <<>>), LAMBDA p : Expect(p, "RParen"))
                     ELSE Give(s, Body(<<>>))

BlockParamKind == "Amp" :> "Block" @@ "Star" :> "Rest"
BlockParams(s, acc) ==
    IF K(s) = "Pipe" \/ AtEnd(s) THEN Give(s, Body(acc))
    ELSE Then(IF K(s) \in DOMAIN BlockParamKind THEN NamedParam(Adv(s), BlockParamKind[K(s)])
              ELSE NamedParam(s, "Required"), LAMBDA p :
         IF K(p) = "Comma" THEN BlockParams(Adv(p), Append(acc, p.val)) ELSE Give(p, Body(Append(acc, p.val))))
PipedParams(s) == IF K(s) = "Pipe"
                  THEN Then(BlockParams(Adv(s), <<>>), LAMBDA p : Expect(p, "Pipe"))
                  ELSE Give(s, Body(<<>>))

(***************************************************************************)
(* Bodies: statements up to a token that ends them.  A statement that      *)
(* fails where it began is skipped, token by token -- except in a `when`,  *)
(* whose loop has no such step and goes round for ever.                    *)
(***************************************************************************)
EndStops == {"KwEnd", "KwRescue", "KwEnsure", "KwElse", "KwElsif"}
BraceStops == {"RBrace"}
WhenStops == {"KwWhen", "KwElse", "KwEnd"}
PastFailure(s, r, stops) ==
    CASE r.ok \/ r.hung \/ r.pos # s.pos -> r
      [] stops = WhenStops -> [r EXCEPT !.hung = TRUE]
      [] OTHER -> Adv(Complain(r))
ParseBody(s, stops, acc) ==
    IF s.hung THEN Miss(s)
    ELSE IF K(s) \in stops \/ AtEnd(s) THEN Give(s, Body(acc))
    ELSE LET r == ParseStmt(s)
         IN  ParseBody(SkipNewlines(PastFailure(s, r, stops)), stops, IF r.ok THEN Append(acc, r.val) ELSE acc)
BodyTill(s, stops) == ParseBody(SkipNewlines(s), stops, <<>>)
BodyToEnd(s) == Then(BodyTill(s, EndStops), LAMBDA b : Expect(b, "KwEnd"))
BodyToBrace(s) == Then(BodyTill(s, BraceStops), LAMBDA b : Expect(b, "RBrace"))
BraceOrDo(s) == IF K(s) = "LBrace" THEN BodyToBrace(Adv(s))
                ELSE Then(Expect(s, "KwDo"), BodyToEnd)

OpensBlock(s) == K(s) \in {"KwDo", "LBrace"}
ParseBlockCall(s) ==
    Then(PipedParams(Adv(s)), LAMBDA p :
    Then(IF K(s) = "LBrace" THEN BodyToBrace(p) ELSE BodyToEnd(p), LAMBDA b :
         Give(b, <<"BlockCall", "", <<s.val, p.val, b.val>> >>)))
MaybeBlock(s) == IF OpensBlock(s) THEN ParseBlockCall(s) ELSE s

ParseLambda(s) ==
    Then(OptionalParams(s), LAMBDA p :
    Then(BraceOrDo(p), LAMBDA b : Give(b, <<"Lambda", "", <<p.val, b.val>> >>)))
ParseProc(s) ==
    Then(IF K(s) = "LBrace" THEN Give(s, None) ELSE Expect(s, "KwDo"), LAMBDA o :
    Then(PipedParams(IF K(s) = "LBrace" THEN Adv(s) ELSE o), LAMBDA p :
    Then(IF K(s) = "LBrace" THEN BodyToBrace(p) ELSE BodyToEnd(p), LAMBDA b :
         Give(b, <<"Proc", "", <<p.val, b.val>> >>))))

(***************************************************************************)
(* Postfix: calls, :: and [ ] after an expression, as long as they come.   *)
(***************************************************************************)
ParseMethodCallOn(s) ==
    Then(ExpectName(Adv(s), IdentOrConst), LAMBDA n :
    Then(OptionalArgs(n), LAMBDA a : Give(a, CallWith(s.val, n.val, a.val))))
ParseScoped(s) ==
    Then(ExpectName(Adv(s), IdentOrConst), LAMBDA n :
         Give(n, IF Kind(s.val) = "Const" THEN <<"Const", Attr(s.val) \o "::" \o n.val, <<>> >>
                 ELSE Call(n.val, s.val, None, <<>>)))
ParseIndex(s) ==
    Then(ParseExpr(Adv(s)), LAMBDA i :
    Then(Expect(i, "RBracket"), LAMBDA c : Give(c, Call("[]", s.val, None, <<i.val>>))))
MorePostfix(s) ==
    IF ~s.ok THEN s
    ELSE CASE K(s) = "Dot" -> MorePostfix(Then(ParseMethodCallOn(s), MaybeBlock))
           [] K(s) = "ColonColon" -> MorePostfix(ParseScoped(s))
           [] K(s) = "LBracket" -> MorePostfix(ParseIndex(s))
           [] OTHER -> s

(* #{ } in a text that was unescaped: what is between the braces is lexed  *)
(* and one expression parsed of it; its diagnostics are dropped, and what  *)
(* does not parse is left out.                                             *)
RECURSIVE ClosingBrace(_, _, _)
ClosingBrace(t, p, depth) ==
    IF p > Len(t) \/ depth = 0 THEN p
    ELSE ClosingBrace(t, p + 1, CASE At(t, p) = "{" -> depth + 1 [] At(t, p) = "}" -> depth - 1 [] OTHER -> depth)
NextInterpolation(t, p) ==
    LET at == {q \in p .. Len(t) : StartsWith(t, q, "#{")}
    IN  IF at = {} THEN Len(t) + 1 ELSE CHOOSE q \in at : \A r \in at : q =< r
StartOf(toks) == [toks |-> toks, pos |-> 1, errs |-> 0, ok |-> TRUE, hung |-> FALSE, val |-> None]
Literal(t, from, to) == IF from > to THEN <<>> ELSE <<<<"Text", SubSeq(t, from, to), <<>> >> >>
ParseInterpolated(t, p, s, parts) ==
    LET q == NextInterpolation(t, p)
        close == ClosingBrace(t, q + 2, 1)
        inner == SubSeq(t, q + 2, IF At(t, close - 1) = "}" THEN close - 2 ELSE close - 1)
        e == ParseExpr(StartOf(Tokenize(inner).tokens))
        before == parts \o Literal(t, p, q - 1)
    IN  IF q > Len(t) THEN Give(s, <<"Interp", "", before>>)
        ELSE IF e.hung THEN Miss([s EXCEPT !.hung = TRUE])
        ELSE ParseInterpolated(t, close, s, IF e.ok THEN Append(before, e.val) ELSE before)
ParseString(s, interpolates) ==
    LET t == Unescape(Lexeme(s)) IN
    IF interpolates /\ NextInterpolation(t, 1) =< Len(t) THEN ParseInterpolated(t, 1, Adv(s), <<>>)
    ELSE Give(Adv(s), <<"Str", t, <<>> >>)

(***************************************************************************)
(* Primary expressions.                                                    *)
(***************************************************************************)
Variables == "InstanceVar" :> "IVar" @@ "ClassVar" :> "CVar" @@ "GlobalVar" :> "GVar" @@ "Constant" :> "Const"
ParseIdentifier(s) ==
    LET n == Adv(s)
        name == Lexeme(s)
        call(a) == MaybeBlock(Give(a, CallWith(None, name, a.val)))
    IN  CASE K(n) = "LParen" -> Then(ParenArgs(n), call)
          [] OpensBlock(n) -> call(Give(n, NoArgs))
          [] IsArgStart(n) -> Then(BareArgs(n, NoArgs), call)
          [] OTHER -> Give(n, <<"LocalVar", name, <<>> >>)
ParseBuiltin(s) == Then(OptionalArgs(Adv(s)), LAMBDA a : Give(a, CallWith(None, Lexeme(s), a.val)))
ParseSuper(s) ==
    Then(IF K(Adv(s)) = "LParen" THEN ParenArgs(Adv(s)) ELSE Give(Adv(s), NoArgs),
         LAMBDA a : Give(a, <<"Super", "", a.val.args>>))
ParseDefined(s) ==
    LET paren == K(Adv(s)) = "LParen" IN
    Then(ParseExpr(IF paren THEN Adv(Adv(s)) ELSE Adv(s)), LAMBDA e :
    Then(IF paren THEN Expect(e, "RParen") ELSE e, LAMBDA c : Give(c, <<"Defined", "", <<e.val>> >>)))
ParseParen(s) == Then(ParseExpr(Adv(s)), LAMBDA e : Expect(e, "RParen"))

ArrayItems(s, acc) ==
    IF K(s) = "RBracket" \/ AtEnd(s) THEN Give(s, <<"Array", "", acc>>)
    ELSE Then(ParseExpr(s), LAMBDA e :
         LET n == SkipNewlines(e)
             items == Append(acc, e.val)
         IN  IF K(n) = "Comma" THEN ArrayItems(SkipNewlines(Adv(n)), items) ELSE Give(n, <<"Array", "", items>>))
ParseArray(s) == Then(ArrayItems(SkipNewlines(Adv(s)), <<>>), LAMBDA a : Expect(a, "RBracket"))
HashItems(s, acc) ==
    IF K(s) = "RBrace" \/ AtEnd(s) THEN Give(s, <<"Hash", "", acc>>)
    ELSE Then(ParseExpr(s), LAMBDA k :
         Then(IF K(k) \in {"FatArrow", "Colon"}
              THEN Then(ParseExpr(Adv(k)), LAMBDA v : Give(v, acc \o <<k.val, v.val>>))
              ELSE Give(k, acc), LAMBDA e :
         LET n == SkipNewlines(e) IN
         IF K(n) = "Comma" THEN HashItems(SkipNewlines(Adv(n)), n.val) ELSE Give(n, <<"Hash", "", n.val>>)))
ParseHash(s) == Then(HashItems(SkipNewlines(Adv(s)), <<>>), LAMBDA h : Expect(h, "RBrace"))

RECURSIVE WithoutUnderscores(_)
WithoutUnderscores(t) ==
    IF t = "" THEN "" ELSE (IF At(t, 1) = "_" THEN "" ELSE At(t, 1)) \o WithoutUnderscores(SubSeq(t, 2, Len(t)))
ParsePrimary(s) ==
    LET k == K(s)
        leaf(kind, attr) == Give(Adv(s), <<kind, attr, <<>> >>)
    IN  CASE k = "Integer" -> leaf("Int", ParseInt(Lexeme(s)))
          [] k = "Float" -> leaf("Float", WithoutUnderscores(Lexeme(s)))
          [] k \in {"StringDouble", "StringSingle"} -> ParseString(s, k = "StringDouble")
          [] k = "Symbol" -> leaf("Sym", SymbolName(Lexeme(s)))
          [] k \in {"KwTrue", "KwFalse"} -> leaf("Bool", k = "KwTrue")
          [] k = "KwNil" -> leaf("Nil", "")
          [] k = "KwSelf_" -> leaf("Self", "")
          [] k = "Identifier" -> ParseIdentifier(s)
          [] k \in DOMAIN Variables -> leaf(Variables[k], Lexeme(s))
          [] k = "LParen" -> ParseParen(s)
          [] k = "LBracket" -> ParseArray(s)
          [] k = "LBrace" -> ParseHash(s)
          [] k \in {"Arrow", "KwLambda"} -> ParseLambda(Adv(s))
          [] k = "KwProc" -> ParseProc(Adv(s))
          [] k = "KwDefined" -> ParseDefined(s)
          [] k = "KwSuper" -> ParseSuper(s)
          [] k \in {"KwPuts", "KwPrint", "KwP", "KwRaise"} -> ParseBuiltin(s)
          [] OTHER -> Fail(s)

(***************************************************************************)
(* Assignments and modifiers.                                              *)
(***************************************************************************)
CompoundOps ==
    "PlusEqual" :> "Add" @@ "MinusEqual" :> "Sub" @@ "StarEqual" :> "Mul" @@ "SlashEqual" :> "Div"
    @@ "PercentEqual" :> "Mod" @@ "DoubleStarEqual" :> "Pow" @@ "AmpAmpEqual" :> "And"
    @@ "PipePipeEqual" :> "Or" @@ "AmpEqual" :> "BitAnd" @@ "PipeEqual" :> "BitOr"
    @@ "CaretEqual" :> "BitXor" @@ "LessLessEqual" :> "Shl" @@ "GreaterGreaterEqual" :> "Shr"
AssignedTo(e, v, node(_)) ==
    IF Kind(e.val) \in VariableKinds \ {"Self"} THEN Give(v, node(v.val)) ELSE Fail(v)
Modified(e, c, kind) ==
    Give(c, IF kind = "If" THEN <<"If", "", <<c.val, Body(<<e.val>>), Body(<<>>), None>> >>
            ELSE <<kind, "", <<c.val, Body(<<e.val>>)>> \o (IF kind = "Unless" THEN <<None>> ELSE <<>>)>>)
Modifiers == "KwIf" :> "If" @@ "KwUnless" :> "Unless" @@ "KwWhile" :> "While" @@ "KwUntil" :> "Until"
ParseExprOrAssignment(s) ==
    Then(ParseExpr(s), LAMBDA e :
        CASE K(e) = "Equal" ->
                Then(ParseExpr(Adv(e)), LAMBDA v :
                     AssignedTo(e, v, LAMBDA x : <<"Assign", "", <<e.val, x>> >>))
          [] K(e) \in DOMAIN CompoundOps ->
                Then(ParseExpr(Adv(e)), LAMBDA v :
                     AssignedTo(e, v, LAMBDA x : <<"OpAssign", CompoundOps[K(e)], <<e.val, x>> >>))
          [] K(e) \in DOMAIN Modifiers ->
                Then(ParseExpr(Adv(e)), LAMBDA c : Modified(e, c, Modifiers[K(e)]))
          [] OTHER -> e)

(***************************************************************************)
(* Definitions.                                                            *)
(***************************************************************************)
ParseMethodDef(s) ==
    LET d == Adv(s)
        own == K(d) = "KwSelf_" /\ Peeked(d) = "Dot"
        method(name, params, body) == <<"MethodDef", <<name, own>>, <<params, body>> >>
    IN  Then(ExpectName(IF own THEN Adv(Adv(d)) ELSE d, IdentOrConst), LAMBDA n :
        Then(OptionalParams(n), LAMBDA p :
        LET t == SkipTerminators(p) IN
        IF K(t) = "Equal" THEN Then(ParseExpr(Adv(t)), LAMBDA e : Give(e, method(n.val, p.val, Body(<<e.val>>))))
        ELSE Then(BodyToEnd(t), LAMBDA b : Give(b, method(n.val, p.val, b.val)))))
ParseClassDef(s) ==
    Then(ExpectName(Adv(s), IdentOrConst), LAMBDA n :
    Then(IF K(n) = "Less" THEN ParseExpr(Adv(n)) ELSE Give(n, None), LAMBDA p :
    Then(BodyToEnd(SkipTerminators(p)), LAMBDA b : Give(b, <<"ClassDef", n.val, <<p.val, b.val>> >>))))
ParseModuleDef(s) ==
    Then(ExpectName(Adv(s), IdentOrConst), LAMBDA n :
    Then(BodyToEnd(SkipTerminators(n)), LAMBDA b : Give(b, <<"ModuleDef", n.val, <<None, b.val>> >>)))

(***************************************************************************)
(* Control flow.                                                           *)
(***************************************************************************)
ElseBody(s) == IF K(s) = "KwElse" THEN BodyTill(SkipTerminators(Adv(s)), EndStops) ELSE Give(s, None)
Guarded(s, mark) ==   \* a condition, `then` or `do`, and the body under it: [cond, body]
    Then(ParseExpr(s), LAMBDA c :
    Then(BodyTill(SkipTerminators(Eat(c, mark)), EndStops), LAMBDA b : Give(b, <<c.val, b.val>>)))
ElsifClauses(s, acc) ==
    IF K(s) # "KwElsif" THEN Give(s, Body(acc))
    ELSE Then(Guarded(Adv(s), "KwThen"), LAMBDA g : ElsifClauses(g, Append(acc, <<"Elsif", "", g.val>>)))
ParseIf(s) ==
    Then(Guarded(Adv(s), "KwThen"), LAMBDA g :
    Then(ElsifClauses(g, <<>>), LAMBDA c :
    Then(ElseBody(c), LAMBDA e :
    Then(Expect(e, "KwEnd"), LAMBDA d : Give(d, <<"If", "", g.val \o <<c.val, e.val>> >>)))))
ParseUnless(s) ==
    Then(Guarded(Adv(s), "KwThen"), LAMBDA g :
    Then(ElseBody(g), LAMBDA e :
    Then(Expect(e, "KwEnd"), LAMBDA d : Give(d, <<"Unless", "", g.val \o <<e.val>> >>))))
ParseLoop(s, kind) ==
    Then(Guarded(Adv(s), "KwDo"), LAMBDA g :
    Then(Expect(g, "KwEnd"), LAMBDA d : Give(d, <<kind, "", g.val>>)))
ParseFor(s) ==
    Then(ExpectName(Adv(s), Ident), LAMBDA n :
    Then(Expect(n, "KwIn"), LAMBDA i :
    Then(Guarded(i, "KwDo"), LAMBDA g :
    Then(Expect(g, "KwEnd"), LAMBDA d : Give(d, <<"For", n.val, g.val>>)))))

Patterns(s, acc) ==
    Then(ParseExpr(s), LAMBDA e :
         IF K(e) = "Comma" THEN Patterns(Adv(e), Append(acc, e.val)) ELSE Give(e, Body(Append(acc, e.val))))
WhenClauses(s, acc) ==
    IF K(s) # "KwWhen" THEN Give(s, Body(acc))
    ELSE Then(Patterns(Adv(s), <<>>), LAMBDA p :
         Then(BodyTill(SkipTerminators(Eat(p, "KwThen")), WhenStops), LAMBDA b :
              WhenClauses(b, Append(acc, <<"When", "", <<p.val, b.val>> >>))))
ParseCase(s) ==
    Then(IF K(Adv(s)) \in {"Newline", "Semicolon"} THEN Give(Adv(s), None) ELSE ParseExpr(Adv(s)), LAMBDA u :
    Then(WhenClauses(SkipTerminators(u), <<>>), LAMBDA w :
    Then(ElseBody(w), LAMBDA e :
    Then(Expect(e, "KwEnd"), LAMBDA d : Give(d, <<"Case", "", <<u.val, w.val, e.val>> >>)))))

RescueClauses(s, acc) ==
    IF K(s) # "KwRescue" THEN Give(s, Body(acc))
    ELSE Then(IF K(Adv(s)) \in {"Newline", "Semicolon", "FatArrow"} THEN Give(Adv(s), Body(<<>>))
              ELSE Patterns(Adv(s), <<>>), LAMBDA x :
         Then(IF K(x) = "FatArrow" THEN ExpectName(Adv(x), Ident) ELSE Give(x, ""), LAMBDA v :
         Then(BodyTill(SkipTerminators(v), EndStops), LAMBDA b :
              RescueClauses(b, Append(acc, <<"Rescue", v.val, <<x.val, b.val>> >>)))))
EnsureBody(s) == IF K(s) = "KwEnsure" THEN BodyTill(SkipTerminators(Adv(s)), EndStops) ELSE Give(s, None)
ParseBegin(s) ==
    Then(BodyTill(SkipTerminators(Adv(s)), EndStops), LAMBDA b :
    Then(RescueClauses(b, <<>>), LAMBDA r :
    Then(ElseBody(r), LAMBDA e :
    Then(EnsureBody(e), LAMBDA n :
    Then(Expect(n, "KwEnd"), LAMBDA d : Give(d, <<"BeginRescue", "", <<b.val, r.val, e.val, n.val>> >>))))))

(***************************************************************************)
(* Jumps and the other statements.                                         *)
(***************************************************************************)
ParseReturn(s) ==
    Then(IF K(Adv(s)) \in {"Newline", "Semicolon", "Eof", "KwEnd"} THEN Give(Adv(s), None) ELSE ParseExpr(Adv(s)),
         LAMBDA v : Give(v, <<"Return", "", <<v.val>> >>))
ParseJump(s, kind) ==
    Then(IF IsArgStart(Adv(s)) THEN ParseExpr(Adv(s)) ELSE Give(Adv(s), None),
         LAMBDA v : Give(v, <<kind, "", <<v.val>> >>))
ParseYield(s) == Then(OptionalArgs(Adv(s)), LAMBDA a : Give(a, <<"Yield", "", a.val.args>>))
ParseAlias(s) ==
    Then(ExpectName(Adv(s), IdentOrConst), LAMBDA n :
    Then(ExpectName(n, IdentOrConst), LAMBDA o : Give(o, <<"Alias", <<n.val, o.val>>, <<>> >>)))
ParseRequire(s) ==
    IF K(Adv(s)) \in {"StringDouble", "StringSingle"}
    THEN Give(Adv(Adv(s)), <<"Require", <<Unescape(Lexeme(Adv(s))), K(s) = "KwRequireRelative">>, <<>> >>)
    ELSE Fail(Adv(s))
AttrKinds == "KwAttrReader" :> "Reader" @@ "KwAttrWriter" :> "Writer" @@ "KwAttrAccessor" :> "Accessor"
RECURSIVE AttrNames(_, _)
AttrNames(s, acc) ==
    IF K(s) \notin {"Symbol", "Identifier"} THEN Give(s, acc)
    ELSE LET names == Append(acc, IF K(s) = "Symbol" THEN SymbolName(Lexeme(s)) ELSE Lexeme(s))
         IN  IF K(Adv(s)) = "Comma" THEN AttrNames(Adv(Adv(s)), names) ELSE Give(Adv(s), names)
ParseAttr(s) == LET a == AttrNames(Adv(s), <<>>) IN Give(a, <<"AttrDecl", <<AttrKinds[K(s)], a.val>>, <<>> >>)
MixinKinds == "KwInclude" :> "include" @@ "KwExtend" :> "extend" @@ "KwPrepend" :> "prepend"
ParseMixin(s) == Then(ParseExpr(Adv(s)), LAMBDA m : Give(m, <<"Mixin", MixinKinds[K(s)], <<m.val>> >>))

StmtOf(s) ==
    LET k == K(s) IN
    CASE k = "KwDef" -> ParseMethodDef(s)
      [] k = "KwClass" -> ParseClassDef(s)
      [] k = "KwModule" -> ParseModuleDef(s)
      [] k = "KwIf" -> ParseIf(s)
      [] k = "KwUnless" -> ParseUnless(s)
      [] k = "KwWhile" -> ParseLoop(s, "While")
      [] k = "KwUntil" -> ParseLoop(s, "Until")
      [] k = "KwFor" -> ParseFor(s)
      [] k = "KwCase" -> ParseCase(s)
      [] k = "KwBegin" -> ParseBegin(s)
      [] k = "KwReturn" -> ParseReturn(s)
      [] k = "KwBreak" -> ParseJump(s, "Break")
      [] k = "KwNext" -> ParseJump(s, "Next")
      [] k = "KwYield" -> ParseYield(s)
      [] k = "KwAlias" -> ParseAlias(s)
      [] k \in {"KwRequire", "KwRequireRelative"} -> ParseRequire(s)
      [] k \in DOMAIN AttrKinds -> ParseAttr(s)
      [] k \in DOMAIN MixinKinds -> ParseMixin(s)
      [] OTHER -> ParseExprOrAssignment(s)
ParseStmt(s) ==
    LET n == SkipNewlines(s) IN IF AtEnd(n) THEN Miss(n) ELSE SkipTerminators(StmtOf([n EXCEPT !.ok = TRUE]))

(* parse: statements to the end; a token no statement begins with is       *)
(* skipped, and so is the token at which a statement failed.               *)
RECURSIVE TopLevel(_, _)
TopLevel(s, acc) ==
    IF s.hung THEN s
    ELSE IF AtEnd(s) THEN Give(s, Body(acc))
    ELSE LET r == ParseStmt(s)
         IN  TopLevel(SkipNewlines(IF r.ok \/ r.hung THEN r ELSE Adv(r)), IF r.ok THEN Append(acc, r.val) ELSE acc)
Parse(toks) == TopLevel(SkipNewlines(StartOf(toks)), <<>>)
=============================================================================
