------------------------------- MODULE Lexer -------------------------------
(***************************************************************************)
(* The lexer of jdruby-lexer: from the characters of a source to its       *)
(* tokens.  A position is the number of a character, from 1; a scan from a *)
(* position tells the kind of the token there, the position after it and   *)
(* whether a diagnostic is reported.  Sources are ASCII.                   *)
(***************************************************************************)
LOCAL INSTANCE Integers
LOCAL INSTANCE Sequences
LOCAL INSTANCE TLC

Digits == {"0", "1", "2", "3", "4", "5", "6", "7", "8", "9"}
HexDigits == Digits \cup {"a", "b", "c", "d", "e", "f", "A", "B", "C", "D", "E", "F"}
Lowers == {"a", "b", "c", "d", "e", "f", "g", "h", "i", "j", "k", "l", "m", "n", "o", "p", "q", "r",
           "s", "t", "u", "v", "w", "x", "y", "z"}
Uppers == {"A", "B", "C", "D", "E", "F", "G", "H", "I", "J", "K", "L", "M", "N", "O", "P", "Q", "R",
           "S", "T", "U", "V", "W", "X", "Y", "Z"}
Letters == Lowers \cup Uppers
IdentChars == Letters \cup Digits \cup {"_"}
Blanks == {" ", "\t", "\r"}

(* The character at a position, "" past the end: peek answers 0 there.     *)
At(src, p) == IF p \in 1 .. Len(src) THEN SubSeq(src, p, p) ELSE ""
StartsWith(src, p, word) ==
    p + Len(word) - 1 =< Len(src) /\ SubSeq(src, p, p + Len(word) - 1) = word

(* The first position from p on whose character is not, and is, in a set.  *)
RECURSIVE Skip(_, _, _)
Skip(src, p, chars) == IF At(src, p) \in chars THEN Skip(src, p + 1, chars) ELSE p
RECURSIVE Seek(_, _, _)
Seek(src, p, stops) == IF At(src, p) \in stops \cup {""} THEN p ELSE Seek(src, p + 1, stops)

(***************************************************************************)
(* The operators and delimiters: the nested tests of next_token take the   *)
(* longest spelling.                                                       *)
(***************************************************************************)
ArithmeticTokens ==
    "+=" :> "PlusEqual" @@ "+" :> "Plus" @@ "-=" :> "MinusEqual" @@ "->" :> "Arrow" @@ "-" :> "Minus"
    @@ "**=" :> "DoubleStarEqual" @@ "**" :> "DoubleStar" @@ "*=" :> "StarEqual" @@ "*" :> "Star"
    @@ "/=" :> "SlashEqual" @@ "/" :> "Slash" @@ "%=" :> "PercentEqual" @@ "%" :> "Percent"
ComparisonTokens ==
    "===" :> "TripleEqual" @@ "==" :> "EqualEqual" @@ "=~" :> "Match" @@ "=>" :> "FatArrow"
    @@ "=" :> "Equal" @@ "!=" :> "BangEqual" @@ "!~" :> "NotMatch" @@ "!" :> "Bang"
    @@ "<=>" :> "Spaceship" @@ "<=" :> "LessEqual" @@ "<<=" :> "LessLessEqual" @@ "<<" :> "LessLess"
    @@ "<" :> "Less" @@ ">=" :> "GreaterEqual" @@ ">>=" :> "GreaterGreaterEqual"
    @@ ">>" :> "GreaterGreater" @@ ">" :> "Greater"
LogicTokens ==
    "&&=" :> "AmpAmpEqual" @@ "&&" :> "AmpAmp" @@ "&=" :> "AmpEqual" @@ "&" :> "Amp"
    @@ "||=" :> "PipePipeEqual" @@ "||" :> "PipePipe" @@ "|=" :> "PipeEqual" @@ "|" :> "Pipe"
    @@ "^=" :> "CaretEqual" @@ "^" :> "Caret" @@ "~" :> "Tilde"
Delimiters ==
    "..." :> "DotDotDot" @@ ".." :> "DotDot" @@ "." :> "Dot" @@ "::" :> "ColonColon" @@ ":" :> "Colon"
    @@ "@" :> "At" @@ "(" :> "LParen" @@ ")" :> "RParen" @@ "[" :> "LBracket" @@ "]" :> "RBracket"
    @@ "{" :> "LBrace" @@ "}" :> "RBrace" @@ "," :> "Comma" @@ ";" :> "Semicolon" @@ "?" :> "Question"
    @@ "\n" :> "Newline"
Spellings == ArithmeticTokens @@ ComparisonTokens @@ LogicTokens @@ Delimiters
OperatorEnd(src, p) ==
    LET fits == {n \in 1 .. 3 : p + n - 1 =< Len(src) /\ SubSeq(src, p, p + n - 1) \in DOMAIN Spellings}
    IN  p + (CHOOSE n \in fits : \A k \in fits : k =< n)

Keywords ==
    "def" :> "KwDef" @@ "end" :> "KwEnd" @@ "class" :> "KwClass" @@ "module" :> "KwModule"
    @@ "if" :> "KwIf" @@ "elsif" :> "KwElsif" @@ "else" :> "KwElse" @@ "unless" :> "KwUnless"
    @@ "case" :> "KwCase" @@ "when" :> "KwWhen" @@ "in" :> "KwIn" @@ "while" :> "KwWhile"
    @@ "until" :> "KwUntil" @@ "for" :> "KwFor" @@ "do" :> "KwDo" @@ "begin" :> "KwBegin"
    @@ "rescue" :> "KwRescue" @@ "ensure" :> "KwEnsure" @@ "raise" :> "KwRaise"
    @@ "return" :> "KwReturn" @@ "yield" :> "KwYield" @@ "self" :> "KwSelf_" @@ "super" :> "KwSuper"
    @@ "nil" :> "KwNil" @@ "true" :> "KwTrue" @@ "false" :> "KwFalse" @@ "and" :> "KwAnd"
    @@ "or" :> "KwOr" @@ "not" :> "KwNot" @@ "then" :> "KwThen" @@ "require" :> "KwRequire"
    @@ "require_relative" :> "KwRequireRelative" @@ "load" :> "KwLoad" @@ "include" :> "KwInclude"
    @@ "extend" :> "KwExtend" @@ "prepend" :> "KwPrepend" @@ "attr_reader" :> "KwAttrReader"
    @@ "attr_writer" :> "KwAttrWriter" @@ "attr_accessor" :> "KwAttrAccessor"
    @@ "public" :> "KwPublic" @@ "private" :> "KwPrivate" @@ "protected" :> "KwProtected"
    @@ "lambda" :> "KwLambda" @@ "proc" :> "KwProc" @@ "puts" :> "KwPuts" @@ "print" :> "KwPrint"
    @@ "p" :> "KwP" @@ "alias" :> "KwAlias" @@ "defined?" :> "KwDefined" @@ "break" :> "KwBreak"
    @@ "next" :> "KwNext" @@ "redo" :> "KwRedo" @@ "retry" :> "KwRetry" @@ "freeze" :> "KwFreeze"

(* A scan: the kind, the position after the token, a diagnostic or not.    *)
Scanned(kind, to) == [kind |-> kind, to |-> to, err |-> FALSE]
Broken(kind, to) == [kind |-> kind, to |-> to, err |-> TRUE]

(***************************************************************************)
(* Quoted text: the closing quote, or the end.  A backslash takes the next *)
(* character with it; in a double-quoted string #{ } nests.                *)
(***************************************************************************)
PastEscape(src, p) == IF p = Len(src) THEN p + 1 ELSE p + 2
RECURSIVE PastBraces(_, _, _)
PastBraces(src, p, depth) ==
    IF depth = 0 \/ p > Len(src) THEN p
    ELSE CASE At(src, p) = "{" -> PastBraces(src, p + 1, depth + 1)
           [] At(src, p) = "}" -> PastBraces(src, p + 1, depth - 1)
           [] At(src, p) = "\\" -> PastBraces(src, PastEscape(src, p), depth)
           [] OTHER -> PastBraces(src, p + 1, depth)
RECURSIVE ClosingQuote(_, _, _, _)
ClosingQuote(src, p, quote, interpolates) ==
    CASE At(src, p) \in {"", quote} -> p
      [] At(src, p) = "\\" -> ClosingQuote(src, PastEscape(src, p), quote, interpolates)
      [] interpolates /\ StartsWith(src, p, "#{") ->
            ClosingQuote(src, PastBraces(src, p + 2, 1), quote, interpolates)
      [] OTHER -> ClosingQuote(src, p + 1, quote, interpolates)
Quoted(src, p, quote, interpolates, kind) ==
    LET close == ClosingQuote(src, p, quote, interpolates)
    IN  IF close > Len(src) THEN Broken("Error", close) ELSE Scanned(kind, close + 1)

(* Numbers: a radix prefix, or digits with a fraction and an exponent.     *)
Exponent(src, p) ==
    IF At(src, p) \notin {"e", "E"} THEN p
    ELSE Skip(src, IF At(src, p + 1) \in {"+", "-"} THEN p + 2 ELSE p + 1, Digits \cup {"_"})
RadixDigits(mark) ==
    CASE mark \in {"x", "X"} -> HexDigits
      [] mark \in {"b", "B"} -> {"0", "1"}
      [] mark \in {"o", "O"} -> Digits \ {"8", "9"}
      [] OTHER -> {}
ScanNumber(src, p) ==
    LET radix == IF At(src, p) = "0" THEN RadixDigits(At(src, p + 1)) ELSE {}
        whole == Skip(src, p, Digits \cup {"_"})
        fraction == IF At(src, whole) = "." /\ At(src, whole + 1) \in Digits
                    THEN Skip(src, whole + 1, Digits \cup {"_"}) ELSE whole
        end == Exponent(src, fraction)
    IN  IF radix # {} THEN Scanned("Integer", Skip(src, p + 2, radix \cup {"_"}))
        ELSE Scanned(IF end = whole THEN "Integer" ELSE "Float", end)

(* Names: an identifier takes a trailing ? or !, and may be a keyword.     *)
NameEnd(src, p) ==
    LET e == Skip(src, p, IdentChars) IN IF At(src, e) \in {"?", "!"} THEN e + 1 ELSE e
ScanIdentifier(src, p) ==
    LET e == NameEnd(src, p + 1)
        word == SubSeq(src, p, e - 1)
    IN  Scanned(IF word \in DOMAIN Keywords THEN Keywords[word] ELSE "Identifier", e)

ScanSymbol(src, p) ==
    CASE At(src, p + 1) = ":" -> Scanned("ColonColon", p + 2)
      [] At(src, p + 1) \in Letters \cup {"_"} -> Scanned("Symbol", NameEnd(src, p + 1))
      [] At(src, p + 1) = "\"" -> Quoted(src, p + 2, "\"", FALSE, "Symbol")
      [] OTHER -> Scanned("Colon", p + 1)

ScanVariable(src, p) ==
    CASE At(src, p + 1) = "@" -> Scanned("ClassVar", Skip(src, p + 2, IdentChars))
      [] At(src, p + 1) \in Letters \cup {"_"} -> Scanned("InstanceVar", Skip(src, p + 1, IdentChars))
      [] OTHER -> Scanned("At", p + 1)

SpecialGlobals == Digits \cup {"!", "@", ";", ",", ".", "/", "\\", "*", "<", ">", "$", "?", "~", "&",
                               "`", "'", "+"}
ScanGlobal(src, p) ==
    Scanned("GlobalVar",
            CASE At(src, p + 1) \in SpecialGlobals -> p + 2
              [] At(src, p + 1) \in Letters \cup {"_"} -> Skip(src, p + 1, IdentChars)
              [] OTHER -> p + 1)

(* =begin at the start of a line opens a comment that only =end at the     *)
(* start of a line closes.                                                 *)
RECURSIVE ScanBlockComment(_, _)
ScanBlockComment(src, p) ==
    CASE p > Len(src) -> Broken("Comment", p)
      [] At(src, p) = "\n" /\ StartsWith(src, p + 1, "=end") -> Scanned("Comment", Seek(src, p + 5, {"\n"}))
      [] OTHER -> ScanBlockComment(src, p + 1)
OpensBlockComment(src, p) ==
    (p = 1 \/ At(src, p - 1) = "\n") /\ StartsWith(src, p, "=begin")

(* next_token, at a character that is no blank.                            *)
Scan(src, p) ==
    LET c == At(src, p) IN
    CASE c = "#" -> Scanned("Comment", Seek(src, p, {"\n"}))
      [] c = "\"" -> Quoted(src, p + 1, "\"", TRUE, "StringDouble")
      [] c = "'" -> Quoted(src, p + 1, "'", FALSE, "StringSingle")
      [] c \in Digits -> ScanNumber(src, p)
      [] c = ":" -> ScanSymbol(src, p)
      [] c = "@" -> ScanVariable(src, p)
      [] c = "$" -> ScanGlobal(src, p)
      [] c \in Lowers \cup {"_"} -> ScanIdentifier(src, p)
      [] c \in Uppers -> Scanned("Constant", Skip(src, p, IdentChars))
      [] c = "=" /\ OpensBlockComment(src, p) -> ScanBlockComment(src, p + 6)
      [] c \in DOMAIN Spellings -> LET e == OperatorEnd(src, p) IN Scanned(Spellings[SubSeq(src, p, e - 1)], e)
      [] OTHER -> Broken("Error", p + 1)

Token(kind, lexeme, from, to) == [kind |-> kind, lexeme |-> lexeme, from |-> from, to |-> to]

(* Mutant: the blanks before a token include the ends of lines.            *)
TokenStartAcrossLines(src, p) == Skip(src, p, Blanks \cup {"\n"})

TokenStart(src, p) == Skip(src, p, Blanks)

(* tokenize: scan until the end of the file.                               *)
RECURSIVE TokensFrom(_, _, _, _)
TokensFrom(src, p, tokens, errs) ==
    LET start == TokenStart(src, p)
        t == Scan(src, start)
    IN  IF start > Len(src) THEN [tokens |-> Append(tokens, Token("Eof", "", start, start)), errs |-> errs]
        ELSE TokensFrom(src, t.to, Append(tokens, Token(t.kind, SubSeq(src, start, t.to - 1), start, t.to)),
                        IF t.err THEN errs + 1 ELSE errs)
Tokenize(src) == TokensFrom(src, 1, <<>>, 0)
=============================================================================
