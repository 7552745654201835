------------------------------ MODULE CScanner ------------------------------
(***************************************************************************)
(* What a lexer of C promises for one line, stated as an automaton that    *)
(* reads it one character at a time.  Its mode after a character says      *)
(* whether that character belongs to a comment, to nothing, or to a token  *)
(* and of which kind.  The automaton knows no token boundaries, no handler *)
(* and no search: it is the reference the line machine is compared with.   *)
(***************************************************************************)
EXTENDS LexicalRules

Comment == {"line", "open", "block", "close"}

\* The mode after a character that begins something new.
Fresh(c, next) ==
    CASE c = "/" /\ next = "/" -> "line"
      [] c = "/" /\ next = "*" -> "open"
      [] c = Quote             -> "string"
      [] c = "'"               -> "char"
      [] c \in Ignored         -> "between"
      [] c \in Digits          -> "number"
      [] c \in Symbols /\ ~(c = "/" /\ next \in {"/", "*"}) -> "symbol"
      [] OTHER                 -> "word"

After(mode, c, next) ==
    CASE mode = "line"       -> "line"
      [] mode = "open"       -> "block"
      [] mode = "block"      -> IF c = "*" /\ next = "/" THEN "close"
                                                         ELSE "block"
      [] mode = "close"      -> "between"
      [] mode = "string"     -> IF c = "\\" THEN "escape"
                                ELSE IF c = Quote THEN "stringend" ELSE "string"
      [] mode = "escape"     -> "string"
      [] mode = "char"       -> IF c = "\\" THEN "charescape" ELSE "charbody"
      [] mode = "charescape" -> "charbody"
      [] mode = "charbody"   -> IF c = "'" THEN "charend" ELSE "bad"
      [] mode = "bad"        -> "bad"
      [] mode = "word" /\ ~IsOperator(c) -> "word"
      [] mode = "number" /\ InNumber(c) ->
            IF c = "e" /\ next \in {"-", "+"} THEN "sign" ELSE "number"
      [] mode = "sign"       -> "number"
      [] OTHER               -> Fresh(c, next)

\* The modes before the first and after each character of a line.
Modes(line, start) ==
    LET mode[k \in 0 .. Len(line)] ==
          IF k = 0 THEN start
          ELSE LET m == mode[k - 1]
               IN  After(m, line[k], CharAt(line, k))
    IN  mode

KindOf(mode) ==
    CASE mode \in {"string", "escape", "stringend"} -> "string"
      [] mode \in {"char", "charescape", "charbody", "charend"} -> "char"
      [] mode \in {"number", "sign"} -> "number"
      [] mode \in {"word", "symbol"} -> mode
      [] OTHER -> "none"

Unterminated(mode) ==
    mode \in {"string", "escape", "char", "charescape", "charbody", "bad"}

=============================================================================
