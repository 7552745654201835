---------------------------- MODULE LexerProofs -----------------------------
(***************************************************************************)
(* Proofs about Lexer, for any set of lines and any number of rows.        *)
(*                                                                         *)
(* The argument: the column of the lexer only ever rests where the scanner *)
(* of C has finished a token, a comment or a blank (Resting); a handler    *)
(* begins there, and each of its searches runs in step with the scanner up *)
(* to the next such place.                                                 *)
(***************************************************************************)
EXTENDS Lexer, WellFoundedInduction, TLAPS

-----------------------------------------------------------------------------
(* Natural numbers.  Induction is over membership in a set: the smallest   *)
(* number outside the set would have its predecessor in it.                *)

LEMMA SmallestNumber ==
  ASSUME NEW T \in SUBSET Nat, T # {}
  PROVE  \E x \in T : \A y \in T : x <= y
<1>1. PICK x \in T : \A y \in T : <<y, x>> \notin OpToRel(<, Nat)
  BY NatLessThanWellFounded, WFMin
<1>2. ASSUME NEW y \in T
      PROVE  x <= y
  <2>1. ~(y < x)
    BY <1>1, <1>2 DEF OpToRel
  <2> QED
    BY <2>1
<1> QED
  BY <1>2

LEMMA MinIsSmallest ==
  ASSUME NEW T \in SUBSET Nat, T # {}
  PROVE  Min(T) \in T /\ \A y \in T : Min(T) <= y
  BY SmallestNumber, Zenon DEF Min

LEMMA Upwards ==
  ASSUME NEW a \in Nat, NEW b \in Nat, NEW T, a \in T,
         \A k \in a .. b - 1 : k \in T => k + 1 \in T
  PROVE  \A k \in a .. b : k \in T
<1> DEFINE Bad == {k \in a .. b : k \notin T}
<1> SUFFICES ASSUME Bad # {} PROVE FALSE
  OBVIOUS
<1>1. PICK x \in Bad : \A y \in Bad : x <= y
  <2>1. Bad \in SUBSET Nat
    OBVIOUS
  <2> HIDE DEF Bad
  <2> QED
    BY <2>1, SmallestNumber
<1>2. x # a /\ x - 1 \in a .. b - 1 /\ x - 1 + 1 = x
  OBVIOUS
<1>3. x - 1 \notin Bad
  BY <1>1, <1>2
<1> QED
  BY <1>2, <1>3

LEMMA Downwards ==
  ASSUME NEW a \in Nat, NEW b \in Nat, NEW T,
         \A k \in a .. b : (\A j \in k + 1 .. b : j \in T) => k \in T
  PROVE  \A k \in a .. b : k \in T
<1> DEFINE Bad == {m \in 0 .. b : m <= b - a /\ b - m \notin T}
<1> SUFFICES ASSUME NEW n \in a .. b, n \notin T PROVE FALSE
  OBVIOUS
<1>1. b - n \in Bad
  OBVIOUS
<1>2. PICK x \in Bad : \A y \in Bad : x <= y
  <2>1. Bad \in SUBSET Nat
    OBVIOUS
  <2> HIDE DEF Bad
  <2> QED
    BY <1>1, <2>1, SmallestNumber
<1>3. b - x \in a .. b
  OBVIOUS
<1>4. ASSUME NEW j \in b - x + 1 .. b
      PROVE  j \in T
  <2>1. b - j \notin Bad
    BY <1>2
  <2> QED
    BY <2>1
<1> QED
  BY <1>2, <1>3, <1>4

-----------------------------------------------------------------------------
(* The scanner.  Its rules are those of the lexer.                         *)

LEMMA SameRules ==
  /\ \A l, i : Reference!CharAt(l, i) = CharAt(l, i)
  /\ Reference!Symbols = Symbols /\ Reference!Digits = Digits
  /\ Reference!Ignored = Ignored
  /\ \A c : Reference!IsOperator(c) <=> IsOperator(c)
  /\ \A c : Reference!InNumber(c) <=> InNumber(c)
<1>1. Reference!Symbols = Symbols /\ Reference!Digits = Digits
  BY DEF Reference!Symbols, Symbols, Reference!Digits, Digits
<1>2. Reference!Spaces = Spaces
  BY DEF Reference!Spaces, Spaces
<1>3. Reference!Ignored = Ignored
  BY <1>2 DEF Reference!Ignored, Ignored
<1>4. \A c : Reference!IsOperator(c) <=> IsOperator(c)
  BY <1>1 DEF Reference!IsOperator, IsOperator
<1>5. \A c : Reference!InNumber(c) <=> InNumber(c)
  BY <1>2, <1>4 DEF Reference!InNumber, InNumber
<1>6. \A l, i : Reference!CharAt(l, i) = CharAt(l, i)
  BY DEF Reference!CharAt, CharAt, Reference!NUL, NUL
<1> QED
  BY <1>1, <1>3, <1>4, <1>5, <1>6

\* The recursive function of Modes, up to character m.
ModesUpto(l, start, m, mode) ==
  mode = [k \in 0 .. m |->
            IF k = 0 THEN start
            ELSE Reference!After(mode[k - 1], l[k], Reference!CharAt(l, k))]

LEMMA ModesExist ==
  ASSUME NEW l, NEW start, NEW n \in Nat
  PROVE  \E mode : ModesUpto(l, start, n, mode)
<1> DEFINE T == {m \in 0 .. n : \E mode : ModesUpto(l, start, m, mode)}
<1>1. 0 \in T
  <2>1. ModesUpto(l, start, 0, [k \in 0 .. 0 |-> start])
    BY DEF ModesUpto
  <2> QED
    BY <2>1
<1>2. ASSUME NEW m \in 0 .. n - 1, m \in T
      PROVE  m + 1 \in T
  <2>1. PICK f : ModesUpto(l, start, m, f)
    BY <1>2
  <2> DEFINE new == Reference!After(f[m], l[m + 1], Reference!CharAt(l, m + 1))
             g == [k \in 0 .. m + 1 |-> IF k = m + 1 THEN new ELSE f[k]]
             step(k) == IF k = 0 THEN start
                        ELSE Reference!After(g[k - 1], l[k], Reference!CharAt(l, k))
  <2>2. ASSUME NEW k \in 0 .. m + 1
        PROVE  g[k] = step(k)
    <3>1. CASE k = m + 1
      <4>1. g[k] = new /\ g[k - 1] = f[m] /\ k # 0
        BY <3>1
      <4> QED
        BY <3>1, <4>1
    <3>2. CASE k # m + 1
      <4>1. k \in 0 .. m /\ g[k] = f[k] /\ (k # 0 => g[k - 1] = f[k - 1])
        BY <3>2
      <4>2. f[k] = IF k = 0 THEN start
                   ELSE Reference!After(f[k - 1], l[k], Reference!CharAt(l, k))
        BY <2>1, <4>1 DEF ModesUpto
      <4> QED
        BY <4>1, <4>2
    <3> QED
      BY <3>1, <3>2
  <2>3. g = [k \in 0 .. m + 1 |-> step(k)]
    <3>1. g = [k \in 0 .. m + 1 |-> g[k]]
      OBVIOUS
    <3> HIDE DEF g, step
    <3> QED
      BY <2>2, <3>1
  <2>4. ModesUpto(l, start, m + 1, g)
    BY <2>3 DEF ModesUpto
  <2> HIDE DEF g
  <2> QED
    BY <2>4
<1>3. \A k \in 0 .. n : k \in T
  <2> HIDE DEF T
  <2> QED
    BY <1>1, <1>2, Upwards
<1> QED
  BY <1>3

LEMMA ModesStep ==
  ASSUME NEW l \in Seq(STRING), NEW start
  PROVE  /\ Reference!Modes(l, start)[0] = start
         /\ \A k \in 0 .. Len(l) - 1 :
              Reference!Modes(l, start)[k + 1]
                = Reference!After(Reference!Modes(l, start)[k], CharAt(l, k), CharAt(l, k + 1))
<1> DEFINE M == Reference!Modes(l, start)
<1>1. Len(l) \in Nat
  OBVIOUS
<1>2. ModesUpto(l, start, Len(l), M)
  <2>1. \E mode : ModesUpto(l, start, Len(l), mode)
    BY <1>1, ModesExist
  <2>2. M = CHOOSE mode : ModesUpto(l, start, Len(l), mode)
    BY DEF Reference!Modes, ModesUpto
  <2> QED
    BY <2>1, <2>2, Zenon
<1> HIDE DEF M
<1>3. M[0] = start
  BY <1>1, <1>2 DEF ModesUpto
<1>4. ASSUME NEW k \in 0 .. Len(l) - 1
      PROVE  M[k + 1] = Reference!After(M[k], CharAt(l, k), CharAt(l, k + 1))
  <2>1. k + 1 \in 0 .. Len(l) /\ k + 1 # 0 /\ k + 1 - 1 = k
    BY <1>1
  <2>2. M[k + 1] = Reference!After(M[k], l[k + 1], Reference!CharAt(l, k + 1))
    BY <1>2, <2>1 DEF ModesUpto
  <2>3. l[k + 1] = CharAt(l, k) /\ Reference!CharAt(l, k + 1) = CharAt(l, k + 1)
    BY <1>1, SameRules DEF CharAt
  <2> QED
    BY <2>2, <2>3
<1> QED
  BY <1>3, <1>4 DEF M

-----------------------------------------------------------------------------
(* The two searches that follow the text character by character.           *)

StringEndFrom(l, m, end) ==
  end = [j \in m .. Len(l) + 2 |->
           IF j > Len(l) \/ CharAt(l, j) = Quote THEN j
           ELSE end[IF CharAt(l, j) = "\\" THEN j + 2 ELSE j + 1]]

LEMMA StringEndExists ==
  ASSUME NEW l \in Seq(STRING)
  PROVE  \E end : StringEndFrom(l, 0, end)
<1> DEFINE n == Len(l) + 2
           T == {m \in 0 .. n : \E end : StringEndFrom(l, m, end)}
           next(j) == IF CharAt(l, j) = "\\" THEN j + 2 ELSE j + 1
           stop(j) == j > Len(l) \/ CharAt(l, j) = Quote
<1>0. Len(l) \in Nat /\ n \in Nat
  OBVIOUS
<1>1. n \in T
  <2>1. \A j \in n .. n : stop(j)
    BY <1>0
  <2>2. StringEndFrom(l, n, [j \in n .. n |-> j])
    BY <2>1 DEF StringEndFrom
  <2> QED
    BY <1>0, <2>2
<1>2. ASSUME NEW m \in 0 .. n - 1, m + 1 \in T
      PROVE  m \in T
  <2>1. PICK f : StringEndFrom(l, m + 1, f)
    BY <1>2
  <2> DEFINE new == IF stop(m) THEN m ELSE f[next(m)]
             g == [j \in m .. n |-> IF j = m THEN new ELSE f[j]]
             step(j) == IF stop(j) THEN j ELSE g[next(j)]
  <2>2. ASSUME NEW j \in m .. n
        PROVE  g[j] = step(j)
    <3>1. ~stop(j) => next(j) \in m + 1 .. n /\ g[next(j)] = f[next(j)]
      BY <1>0
    <3>2. CASE j = m
      BY <3>1, <3>2
    <3>3. CASE j # m
      <4>1. j \in m + 1 .. n /\ g[j] = f[j]
        BY <3>3
      <4>2. f[j] = IF stop(j) THEN j ELSE f[next(j)]
        BY <2>1, <4>1 DEF StringEndFrom
      <4> QED
        BY <3>1, <4>1, <4>2
    <3> QED
      BY <3>2, <3>3
  <2>3. g = [j \in m .. n |-> step(j)]
    <3>1. g = [j \in m .. n |-> g[j]]
      OBVIOUS
    <3> HIDE DEF g, step
    <3> QED
      BY <2>2, <3>1
  <2>4. StringEndFrom(l, m, g)
    BY <2>3 DEF StringEndFrom
  <2> HIDE DEF g
  <2> QED
    BY <2>4
<1>3. ASSUME NEW k \in 0 .. n, \A j \in k + 1 .. n : j \in T
      PROVE  k \in T
  <2> HIDE DEF T, n
  <2>1. k = n \/ (k \in 0 .. n - 1 /\ k + 1 \in k + 1 .. n)
    BY <1>0
  <2> QED
    BY <1>1, <1>2, <1>3, <2>1
<1>4. \A k \in 0 .. n : k \in T
  <2> HIDE DEF T, n
  <2> QED
    BY <1>0, <1>3, Downwards
<1> QED
  BY <1>0, <1>4

LEMMA StringEndStep ==
  ASSUME line \in Seq(STRING), NEW j \in 0 .. Len(line) + 2
  PROVE  StringEnd(j) = IF j > Len(line) \/ C(j) = Quote THEN j
                        ELSE StringEnd(IF C(j) = "\\" THEN j + 2 ELSE j + 1)
<1> DEFINE f == CHOOSE end : StringEndFrom(line, 0, end)
<1>1. \A i : StringEnd(i) = f[i]
  BY DEF StringEnd, StringEndFrom, C
<1>2. StringEndFrom(line, 0, f)
  BY StringEndExists, Zenon
<1> HIDE DEF f
<1>3. f[j] = IF j > Len(line) \/ C(j) = Quote THEN j
             ELSE f[IF C(j) = "\\" THEN j + 2 ELSE j + 1]
  BY <1>2 DEF StringEndFrom, C
<1> QED
  BY <1>1, <1>3

\* The recursive function of NumberEnd, from column m on.
NumberEndFrom(l, real, m, end) ==
  end = [j \in m .. Len(l) + 1 |->
           IF j > Len(l) \/ ~InNumber(CharAt(l, j)) THEN [to |-> j, real |-> real]
           ELSE IF CharAt(l, j) = "e" /\ CharAt(l, j + 1) \in {"-", "+"}
                THEN [end[j + 2] EXCEPT !.real = TRUE]
                ELSE end[j + 1]]

\* The last two columns, where it ends: there is no "e" at the NUL.
LEMMA NumberEndExists ==
  ASSUME NEW l \in Seq(STRING), NEW real
  PROVE  \E end : NumberEndFrom(l, real, 0, end)
<1> DEFINE n == Len(l) + 1
           T == {m \in 0 .. n : \E end : NumberEndFrom(l, real, m, end)}
           stop(j) == j > Len(l) \/ ~InNumber(CharAt(l, j))
           sign(j) == CharAt(l, j) = "e" /\ CharAt(l, j + 1) \in {"-", "+"}
           next(j) == IF sign(j) THEN j + 2 ELSE j + 1
           then(j, r) == IF sign(j) THEN [r EXCEPT !.real = TRUE] ELSE r
<1>0. Len(l) \in Nat /\ n \in Nat
  OBVIOUS
<1>1. n \in T
  <2>1. \A j \in n .. n : stop(j)
    BY <1>0
  <2>2. NumberEndFrom(l, real, n, [j \in n .. n |-> [to |-> j, real |-> real]])
    BY <2>1 DEF NumberEndFrom
  <2> QED
    BY <1>0, <2>2
<1>2. ASSUME NEW j \in 0 .. Len(l), ~stop(j)
      PROVE  next(j) \in j + 1 .. n
  <2>1. CharAt(l, Len(l)) # "e"
    BY <1>0 DEF CharAt, NUL
  <2>2. sign(j) => j < Len(l)
    BY <1>0, <2>1
  <2> QED
    BY <1>0, <2>2
<1>3. ASSUME NEW m \in 0 .. n - 1, m + 1 \in T
      PROVE  m \in T
  <2>1. PICK f : NumberEndFrom(l, real, m + 1, f)
    BY <1>3
  <2> DEFINE new == IF stop(m) THEN [to |-> m, real |-> real] ELSE then(m, f[next(m)])
             g == [j \in m .. n |-> IF j = m THEN new ELSE f[j]]
             step(j) == IF stop(j) THEN [to |-> j, real |-> real]
                        ELSE then(j, g[next(j)])
  <2>2. ASSUME NEW j \in m .. n
        PROVE  g[j] = step(j)
    <3>1. ~stop(j) => next(j) \in j + 1 .. n /\ g[next(j)] = f[next(j)]
      <4>1. ~stop(j) => j \in 0 .. Len(l)
        BY <1>0
      <4>2. ~stop(j) => next(j) \in j + 1 .. n
        BY <1>2, <4>1
      <4> HIDE DEF stop, next
      <4> QED
        BY <1>0, <4>2
    <3>2. CASE j = m
      BY <3>1, <3>2
    <3>3. CASE j # m
      <4>1. j \in m + 1 .. n /\ g[j] = f[j]
        BY <3>3
      <4>2. f[j] = IF stop(j) THEN [to |-> j, real |-> real] ELSE then(j, f[next(j)])
        BY <2>1, <4>1 DEF NumberEndFrom
      <4> HIDE DEF stop, next, then, g
      <4> QED
        BY <3>1, <4>1, <4>2
    <3> QED
      BY <3>2, <3>3
  <2>3. g = [j \in m .. n |-> step(j)]
    <3>1. g = [j \in m .. n |-> g[j]]
      OBVIOUS
    <3> HIDE DEF g, step
    <3> QED
      BY <2>2, <3>1
  <2>4. NumberEndFrom(l, real, m, g)
    <3>1. \A j \in m .. n :
            step(j) = IF j > Len(l) \/ ~InNumber(CharAt(l, j)) THEN [to |-> j, real |-> real]
                      ELSE IF CharAt(l, j) = "e" /\ CharAt(l, j + 1) \in {"-", "+"}
                           THEN [g[j + 2] EXCEPT !.real = TRUE]
                           ELSE g[j + 1]
      <4> HIDE DEF g
      <4> QED
        OBVIOUS
    <3> HIDE DEF g, step
    <3> QED
      BY <2>3, <3>1 DEF NumberEndFrom
  <2> HIDE DEF g
  <2> QED
    BY <2>4
<1>4. ASSUME NEW k \in 0 .. n, \A j \in k + 1 .. n : j \in T
      PROVE  k \in T
  <2> HIDE DEF T, n
  <2>1. k = n \/ (k \in 0 .. n - 1 /\ k + 1 \in k + 1 .. n)
    BY <1>0
  <2> QED
    BY <1>1, <1>3, <1>4, <2>1
<1>5. \A k \in 0 .. n : k \in T
  <2> HIDE DEF T, n
  <2> QED
    BY <1>0, <1>4, Downwards
<1> QED
  BY <1>0, <1>5

LEMMA NumberEndStep ==
  ASSUME line \in Seq(STRING), NEW j \in 0 .. Len(line) + 1, NEW real
  PROVE  NumberEnd(j, real) =
           IF j > Len(line) \/ ~InNumber(C(j)) THEN [to |-> j, real |-> real]
           ELSE IF C(j) = "e" /\ C(j + 1) \in {"-", "+"}
                THEN [NumberEnd(j + 2, real) EXCEPT !.real = TRUE]
                ELSE NumberEnd(j + 1, real)
<1> DEFINE f == CHOOSE end : NumberEndFrom(line, real, 0, end)
<1>1. \A i : NumberEnd(i, real) = f[i]
  BY DEF NumberEnd, NumberEndFrom, C
<1>2. NumberEndFrom(line, real, 0, f)
  BY NumberEndExists, Zenon
<1> HIDE DEF f
<1>3. f[j] = IF j > Len(line) \/ ~InNumber(C(j)) THEN [to |-> j, real |-> real]
             ELSE IF C(j) = "e" /\ C(j + 1) \in {"-", "+"}
                  THEN [f[j + 2] EXCEPT !.real = TRUE]
                  ELSE f[j + 1]
  BY <1>2 DEF NumberEndFrom, C
<1> QED
  BY <1>1, <1>3

-----------------------------------------------------------------------------
(* One character of the scanner.                                           *)

LEMMA Quotes ==
  /\ Quote \notin Symbols \union Ignored \union Digits
  /\ Quote \notin {"/", "*", "'", "\\", "NUL"} /\ Reference!Quote = Quote
  /\ ~IsOperator(Quote)
  BY Zenon DEF Quote, Symbols, Ignored, Spaces, Digits, Reference!Quote, IsOperator

\* No character is of two classes.
LEMMA Classes ==
  /\ "/" \in Symbols /\ "/" \notin Ignored \union Digits
  /\ "'" \notin Symbols \union Ignored \union Digits
  /\ "NUL" \notin Symbols \union Ignored \union Digits
  /\ \A c \in Ignored : c \notin Symbols \union Digits
  /\ \A c \in Digits : c \notin Symbols
  BY Zenon DEF Symbols, Ignored, Spaces, Digits

\* What begins at a character.
LEMMA FreshModes ==
  ASSUME NEW c, NEW next
  PROVE  /\ c = "/" /\ next = "/" => Reference!Fresh(c, next) = "line"
         /\ c = "/" /\ next = "*" => Reference!Fresh(c, next) = "open"
         /\ c = Quote => Reference!Fresh(c, next) = "string"
         /\ c = "'" => Reference!Fresh(c, next) = "char"
         /\ c \in Ignored => Reference!Fresh(c, next) = "between"
         /\ c \in Digits => Reference!Fresh(c, next) = "number"
         /\ c \in Symbols /\ ~(c = "/" /\ next \in {"/", "*"})
              => Reference!Fresh(c, next) = "symbol"
         /\ c \notin Ignored \union Digits \union Symbols \union {Quote, "'"}
              => Reference!Fresh(c, next) = "word"
  BY Classes, Quotes, SameRules DEF Reference!Fresh

\* How comments go on.
LEMMA CommentModes ==
  ASSUME NEW c, NEW next
  PROVE  /\ Reference!After("line", c, next) = "line"
         /\ Reference!After("open", c, next) = "block"
         /\ Reference!After("block", c, next)
              = IF c = "*" /\ next = "/" THEN "close" ELSE "block"
         /\ Reference!After("close", c, next) = "between"
  BY DEF Reference!After

\* How literals go on.
LEMMA LiteralModes ==
  ASSUME NEW c, NEW next
  PROVE  /\ Reference!After("string", c, next)
              = IF c = "\\" THEN "escape" ELSE IF c = Quote THEN "stringend" ELSE "string"
         /\ Reference!After("escape", c, next) = "string"
         /\ Reference!After("char", c, next)
              = IF c = "\\" THEN "charescape" ELSE "charbody"
         /\ Reference!After("charescape", c, next) = "charbody"
         /\ Reference!After("charbody", c, next) = IF c = "'" THEN "charend" ELSE "bad"
  BY Quotes DEF Reference!After

\* How words and numbers go on.
LEMMA RunModes ==
  ASSUME NEW c, NEW next
  PROVE  /\ ~IsOperator(c) => Reference!After("word", c, next) = "word"
         /\ InNumber(c) => Reference!After("number", c, next)
                             = IF c = "e" /\ next \in {"-", "+"} THEN "sign" ELSE "number"
         /\ Reference!After("sign", c, next) = "number"
  BY SameRules DEF Reference!After

\* The modes in which whatever comes next begins something new.
Rests(mode, c) == \/ mode \in {"between", "stringend", "charend", "symbol"}
                  \/ mode = "word" /\ IsOperator(c)
                  \/ mode = "number" /\ ~InNumber(c)

LEMMA RestModes ==
  ASSUME NEW mode, NEW c, NEW next, Rests(mode, c)
  PROVE  Reference!After(mode, c, next) = Reference!Fresh(c, next)
  BY SameRules DEF Rests, Reference!After

\* What the modes cover.
LEMMA Kinds ==
  /\ \A m \in {"line", "open", "block", "close", "between", "bad"} :
       Reference!KindOf(m) = "none"
  /\ \A m \in {"string", "escape", "stringend"} : Reference!KindOf(m) = "string"
  /\ \A m \in {"char", "charescape", "charbody", "charend"} : Reference!KindOf(m) = "char"
  /\ \A m \in {"number", "sign"} : Reference!KindOf(m) = "number"
  /\ Reference!KindOf("word") = "word" /\ Reference!KindOf("symbol") = "symbol"
  BY DEF Reference!KindOf

-----------------------------------------------------------------------------
(* The scanner on the line being lexed.                                    *)

\* E gives the modes of the line l.
Runs(l, E) == \A k \in 0 .. Len(l) - 1 :
                E[k + 1] = Reference!After(E[k], CharAt(l, k), CharAt(l, k + 1))

\* The scanner has finished something at column k.
Resting(l, E, k) ==
  /\ E[k] \in {"between", "stringend", "charend", "symbol", "word", "number"}
  /\ k < Len(l) => Rests(E[k], CharAt(l, k))

LEMMA ExpectedRuns ==
  ASSUME line \in Seq(STRING)
  PROVE  /\ Runs(line, Expected)
         /\ Expected[0] = IF entered THEN "block" ELSE "between"
  BY ModesStep DEF Expected, Runs

LEMMA Begins ==
  ASSUME NEW l, NEW E, NEW k \in 0 .. Len(l) - 1, Runs(l, E), Resting(l, E, k)
  PROVE  E[k + 1] = Reference!Fresh(CharAt(l, k), CharAt(l, k + 1))
  BY RestModes DEF Runs, Resting

LEMMA Ends ==
  ASSUME NEW l \in Seq(STRING), NEW k \in Nat, CharAt(l, k) # NUL
  PROVE  k \in 0 .. Len(l) - 1 /\ CharAt(l, k) = l[k + 1]
  BY DEF CharAt

\* A comment that is open at column i ends where the search for its end says.
LEMMA BlockRuns ==
  ASSUME NEW l \in Seq(STRING), NEW E, Runs(l, E),
         NEW i \in 0 .. Len(l), E[i] = "block", NEW b \in i .. Len(l),
         \A k \in i .. b - 1 : k \notin CommentEnds(l, i)
  PROVE  \A k \in i .. b : E[k] = "block"
<1> DEFINE T == {k \in Nat : E[k] = "block"}
<1>0. Len(l) \in Nat
  OBVIOUS
<1>1. i \in T
  OBVIOUS
<1>2. ASSUME NEW k \in i .. b - 1, k \in T
      PROVE  k + 1 \in T
  <2>1. k \in 0 .. Len(l) - 1
    BY <1>0
  <2>2. ~(CharAt(l, k) = "*" /\ CharAt(l, k + 1) = "/")
    BY <1>0, <2>1 DEF CommentEnds
  <2>3. E[k + 1] = Reference!After("block", CharAt(l, k), CharAt(l, k + 1))
    BY <1>2, <2>1 DEF Runs
  <2> QED
    BY <2>1, <2>2, <2>3, CommentModes
<1>3. \A k \in i .. b : k \in T
  <2>1. i \in Nat /\ b \in Nat
    BY <1>0
  <2> HIDE DEF T
  <2> QED
    BY <1>1, <1>2, <2>1, Upwards
<1> QED
  BY <1>3

LEMMA BlockOpen ==
  ASSUME NEW l \in Seq(STRING), NEW E, Runs(l, E),
         NEW i \in 0 .. Len(l), E[i] = "block", CommentEnds(l, i) = {}
  PROVE  \A k \in i .. Len(l) : E[k] = "block"
<1>1. Len(l) \in i .. Len(l)
  OBVIOUS
<1> QED
  BY <1>1, BlockRuns

LEMMA BlockClosed ==
  ASSUME NEW l \in Seq(STRING), NEW E, Runs(l, E),
         NEW i \in 0 .. Len(l), E[i] = "block", CommentEnds(l, i) # {},
         NEW m, m = Min(CommentEnds(l, i))
  PROVE  /\ m \in i .. Len(l) - 2
         /\ \A k \in i .. m : E[k] = "block"
         /\ E[m + 1] = "close" /\ E[m + 2] = "between"
<1>0. Len(l) \in Nat
  OBVIOUS
<1>1. m \in CommentEnds(l, i) /\ \A j \in CommentEnds(l, i) : m <= j
  <2>1. CommentEnds(l, i) \in SUBSET Nat
    BY <1>0 DEF CommentEnds
  <2> QED
    BY <2>1, MinIsSmallest
<1>2. m \in i .. Len(l) /\ CharAt(l, m) = "*" /\ CharAt(l, m + 1) = "/"
  BY <1>1 DEF CommentEnds
<1>3. m \in i .. Len(l) - 2
  BY <1>0, <1>2 DEF CharAt, NUL
<1>4. \A k \in i .. m : E[k] = "block"
  <2>1. \A k \in i .. m - 1 : k \notin CommentEnds(l, i)
    BY <1>1, <1>3
  <2> QED
    BY <1>2, <2>1, BlockRuns
<1>5. E[m + 1] = "close"
  <2>1. E[m] = "block"
    BY <1>3, <1>4
  <2> QED
    BY <1>0, <1>2, <1>3, <2>1, CommentModes DEF Runs
<1>6. E[m + 2] = "between"
  <2>1. m + 1 \in 0 .. Len(l) - 1 /\ m + 1 + 1 = m + 2
    BY <1>0, <1>3
  <2>2. E[m + 2] = Reference!After("close", CharAt(l, m + 1), CharAt(l, m + 1 + 1))
    BY <1>5, <2>1 DEF Runs
  <2> QED
    BY <2>2, CommentModes
<1> QED
  BY <1>3, <1>4, <1>5, <1>6

\* A line comment goes to the end of the line.
LEMMA LineRuns ==
  ASSUME NEW l \in Seq(STRING), NEW E, Runs(l, E),
         NEW i \in 0 .. Len(l), E[i] = "line"
  PROVE  \A k \in i .. Len(l) : E[k] = "line"
<1> DEFINE T == {k \in Nat : E[k] = "line"}
<1>0. Len(l) \in Nat /\ i \in Nat
  OBVIOUS
<1>1. i \in T
  OBVIOUS
<1>2. ASSUME NEW k \in i .. Len(l) - 1, k \in T
      PROVE  k + 1 \in T
  <2>1. k \in 0 .. Len(l) - 1
    BY <1>0
  <2> QED
    BY <1>2, <2>1, CommentModes DEF Runs
<1>3. \A k \in i .. Len(l) : k \in T
  <2> HIDE DEF T
  <2> QED
    BY <1>0, <1>1, <1>2, Upwards
<1> QED
  BY <1>3

\* A word goes on up to an operator.
LEMMA WordRuns ==
  ASSUME NEW l \in Seq(STRING), NEW E, Runs(l, E),
         NEW i \in 0 .. Len(l), E[i] = "word", NEW b \in i .. Len(l),
         \A k \in i .. b - 1 : ~IsOperator(CharAt(l, k))
  PROVE  \A k \in i .. b : E[k] = "word"
<1> DEFINE T == {k \in Nat : E[k] = "word"}
<1>0. Len(l) \in Nat /\ i \in Nat /\ b \in Nat
  OBVIOUS
<1>1. i \in T
  OBVIOUS
<1>2. ASSUME NEW k \in i .. b - 1, k \in T
      PROVE  k + 1 \in T
  <2>1. k \in 0 .. Len(l) - 1
    BY <1>0
  <2> QED
    BY <1>2, <2>1, RunModes DEF Runs
<1>3. \A k \in i .. b : k \in T
  <2> HIDE DEF T
  <2> QED
    BY <1>0, <1>1, <1>2, Upwards
<1> QED
  BY <1>3

\* A string ends where StringEnd says, or is not closed on the line.
LEMMA StringRuns ==
  ASSUME line \in Seq(STRING), NEW E, Runs(line, E),
         NEW i \in 0 .. Len(line), E[i] = "string"
  PROVE  /\ StringEnd(i) \in i .. Len(line) + 2
         /\ StringEnd(i) <= Len(line) =>
              /\ StringEnd(i) < Len(line)
              /\ \A k \in i .. StringEnd(i) : E[k] \in {"string", "escape"}
              /\ E[StringEnd(i) + 1] = "stringend"
<1> DEFINE n == Len(line)
           Good(j, e) == /\ e \in j .. n + 2
                         /\ e <= n => /\ e < n
                                      /\ \A k \in j .. e : E[k] \in {"string", "escape"}
                                      /\ E[e + 1] = "stringend"
           T == {j \in Nat : j > n \/ E[j] = "string" => Good(j, StringEnd(j))}
<1>0. n \in Nat
  OBVIOUS
<1>1. ASSUME NEW j \in 0 .. n + 2, \A k \in j + 1 .. n + 2 : k \in T,
             j > n \/ E[j] = "string"
      PROVE  Good(j, StringEnd(j))
  <2>1. CASE j > n
    <3>1. StringEnd(j) = j
      BY <2>1, StringEndStep
    <3> QED
      BY <1>0, <2>1, <3>1
  <2>2. CASE j <= n /\ C(j) = Quote
    <3>1. StringEnd(j) = j
      BY <1>0, <2>2, StringEndStep
    <3>2. j < n
      BY <1>0, <2>2, Quotes DEF C, CharAt, NUL
    <3>3. E[j] = "string" /\ E[j + 1] = "stringend"
      BY <1>0, <1>1, <3>2, <2>2, LiteralModes, Quotes DEF Runs, C
    <3> QED
      BY <1>0, <3>1, <3>2, <3>3
  <2>3. CASE j <= n /\ C(j) # Quote
    <3> DEFINE s == IF C(j) = "\\" THEN j + 2 ELSE j + 1
               e == StringEnd(s)
    <3>1. StringEnd(j) = e
      BY <1>0, <2>3, StringEndStep
    <3>2. s \in j + 1 .. n + 2
      BY <1>0, <2>3
    <3>3. s > n \/ /\ E[s] = "string"
                   /\ \A k \in j .. s - 1 : E[k] \in {"string", "escape"}
      <4> SUFFICES ASSUME s <= n
                   PROVE  /\ E[s] = "string"
                          /\ \A k \in j .. s - 1 : E[k] \in {"string", "escape"}
        BY <1>0
      <4>1. j \in 0 .. n - 1 /\ E[j] = "string"
        BY <1>0, <1>1
      <4>2. E[j + 1] = IF C(j) = "\\" THEN "escape" ELSE "string"
        BY <2>3, <4>1, LiteralModes DEF Runs, C
      <4>3. CASE C(j) = "\\"
        <5>1. j + 1 \in 0 .. n - 1 /\ s = j + 2 /\ j + 1 + 1 = j + 2
          BY <1>0, <4>1, <4>3
        <5>2. E[j + 2] = "string"
          BY <4>2, <4>3, <5>1, LiteralModes DEF Runs
        <5> QED
          BY <4>1, <4>2, <4>3, <5>1, <5>2
      <4>4. CASE C(j) # "\\"
        BY <1>0, <4>1, <4>2, <4>4
      <4> QED
        BY <4>3, <4>4
    <3>4. Good(s, e)
      <4>1. s \in T
        BY <1>1, <3>2
      <4> QED
        BY <1>0, <3>2, <3>3, <4>1
    <3> HIDE DEF s, e, n
    <3>5. e \in s .. n + 2 /\ (e <= n => s <= n)
      BY <1>0, <3>2, <3>4
    <3> QED
      BY <1>0, <3>1, <3>2, <3>3, <3>4, <3>5
  <2> QED
    BY <1>0, <2>1, <2>2, <2>3
<1>2. \A j \in 0 .. n + 2 : j \in T
  <2>1. ASSUME NEW j \in 0 .. n + 2, \A k \in j + 1 .. n + 2 : k \in T
        PROVE  j \in T
    <3> HIDE DEF Good, n
    <3> QED
      BY <1>0, <1>1, <2>1
  <2>2. 0 \in Nat /\ n + 2 \in Nat
    BY <1>0
  <2> HIDE DEF T, n
  <2> QED
    BY <2>1, <2>2, Downwards
<1>3. i \in T
  BY <1>0, <1>2
<1> QED
  BY <1>3

\* A number goes on where NumberEnd says it does.
LEMMA NumberRuns ==
  ASSUME line \in Seq(STRING), NEW E, Runs(line, E), NEW real,
         NEW i \in 0 .. Len(line), E[i] = "number"
  PROVE  LET e == NumberEnd(i, real).to
         IN  /\ e \in i .. Len(line) + 1
             /\ \A k \in i .. e : k <= Len(line) => E[k] \in {"number", "sign"}
             /\ e <= Len(line) => E[e] = "number" /\ ~InNumber(C(e))
<1> DEFINE n == Len(line)
           Good(j, e) == /\ e \in j .. n + 1
                         /\ \A k \in j .. e : k <= n => E[k] \in {"number", "sign"}
                         /\ e <= n => E[e] = "number" /\ ~InNumber(C(e))
           IsEnd(r) == r = [to |-> r.to, real |-> r.real]
           T == {j \in Nat : j > n \/ E[j] = "number" =>
                               Good(j, NumberEnd(j, real).to) /\ IsEnd(NumberEnd(j, real))}
<1>0. n \in Nat
  OBVIOUS
<1>1. ASSUME NEW j \in 0 .. n + 1, \A k \in j + 1 .. n + 1 : k \in T,
             j > n \/ E[j] = "number"
      PROVE  Good(j, NumberEnd(j, real).to) /\ IsEnd(NumberEnd(j, real))
  <2>1. CASE j > n \/ ~InNumber(C(j))
    <3>1. NumberEnd(j, real) = [to |-> j, real |-> real]
      BY <2>1, NumberEndStep
    <3> QED
      BY <1>0, <1>1, <2>1, <3>1
  <2>2. CASE j <= n /\ InNumber(C(j)) /\ C(j) = "e" /\ C(j + 1) \in {"-", "+"}
    <3> DEFINE r == NumberEnd(j + 2, real)
    <3>1. NumberEnd(j, real) = [r EXCEPT !.real = TRUE]
      BY <1>0, <2>2, NumberEndStep
    <3>2. j + 1 \in 0 .. n - 1 /\ j \in 0 .. n - 1
      BY <1>0, <2>2 DEF C, CharAt, NUL
    <3>3. E[j + 1] = "sign"
      BY <1>0, <1>1, <2>2, <3>2, RunModes DEF Runs, C
    <3>4. E[j + 2] = "number"
      <4>1. j + 1 + 1 = j + 2
        BY <3>2
      <4> QED
        BY <3>2, <3>3, <4>1, RunModes DEF Runs
    <3>5. Good(j + 2, r.to) /\ IsEnd(r)
      <4>1. j + 2 \in T
        BY <1>0, <1>1, <3>2
      <4> QED
        BY <3>4, <4>1
    <3>6. NumberEnd(j, real).to = r.to /\ IsEnd(NumberEnd(j, real))
      <4> HIDE DEF r
      <4> QED
        BY <3>1, <3>5
    <3>7. E[j] = "number"
      BY <1>0, <1>1, <3>2
    <3> HIDE DEF r, n
    <3> QED
      BY <1>0, <3>2, <3>3, <3>5, <3>6, <3>7
  <2>3. CASE j <= n /\ InNumber(C(j)) /\ ~(C(j) = "e" /\ C(j + 1) \in {"-", "+"})
    <3> DEFINE r == NumberEnd(j + 1, real)
    <3>1. NumberEnd(j, real) = r
      BY <1>0, <2>3, NumberEndStep
    <3>2. j = n \/ (j \in 0 .. n - 1 /\ E[j + 1] = "number")
      BY <1>0, <1>1, <2>3, RunModes DEF Runs, C
    <3>3. Good(j + 1, r.to) /\ IsEnd(r)
      <4>1. j + 1 \in T
        BY <1>0, <1>1, <2>3
      <4> QED
        BY <1>0, <3>2, <4>1
    <3>4. E[j] = "number"
      BY <1>0, <1>1, <2>3
    <3> HIDE DEF r, n
    <3> QED
      BY <1>0, <2>3, <3>1, <3>2, <3>3, <3>4
  <2> QED
    BY <1>0, <2>1, <2>2, <2>3
<1>2. \A j \in 0 .. n + 1 : j \in T
  <2>1. ASSUME NEW j \in 0 .. n + 1, \A k \in j + 1 .. n + 1 : k \in T
        PROVE  j \in T
    <3> HIDE DEF Good, IsEnd, n
    <3> QED
      BY <1>0, <1>1, <2>1
  <2>2. 0 \in Nat /\ n + 1 \in Nat
    BY <1>0
  <2> HIDE DEF T, n
  <2> QED
    BY <2>1, <2>2, Downwards
<1>3. i \in T
  BY <1>0, <1>2
<1> QED
  BY <1>3

-----------------------------------------------------------------------------
(* The inductive invariant.                                                *)

Tokens == [kind : {"symbol", "string", "char", "number", "word"},
           loc : Nat, from : Nat, to : Nat]

\* The tokens ts of line l lie one after another before column n, and no
\* symbol of one character could have been longer.
Placed(l, ts, n) ==
  /\ ts \in Seq(Tokens)
  /\ \A t \in DOMAIN ts : ts[t].from <= ts[t].loc /\ ts[t].loc <= ts[t].to /\ ts[t].to < n
  /\ \A s, t \in DOMAIN ts : s < t => ts[s].to < ts[t].from
  /\ \A t \in DOMAIN ts :
       ts[t].kind = "symbol" /\ ts[t].from = ts[t].to =>
         <<CharAt(l, ts[t].from), CharAt(l, ts[t].from + 1)>> \notin LongOperators

\* Up to column n a character is in a token of its kind, or in none.
CoveredTo(E, ts, n) ==
  \A i \in 0 .. n - 1 :
    IF Reference!KindOf(E[i + 1]) = "none"
    THEN \A t \in DOMAIN ts : ~(ts[t].from <= i /\ i <= ts[t].to)
    ELSE \E t \in DOMAIN ts : /\ ts[t].from <= i /\ i <= ts[t].to
                              /\ ts[t].kind = Reference!KindOf(E[i + 1])

\* The lexer stands where the scanner of the line has finished something, or
\* has gone past the end of the line with it: in a comment or a number.
InStep(l, E, ts, n, open) ==
  \/ n <= Len(l) /\ ~open /\ Resting(l, E, n) /\ CoveredTo(E, ts, n)
  \/ /\ n = Len(l) + 1
     /\ E[Len(l)] \in (IF open THEN {"block"} ELSE {"line", "number", "sign"})
     /\ CoveredTo(E, ts, Len(l))

LexInv ==
  /\ status \in {"reading", "lexing", "accepted", "rejected"}
  /\ row \in 0 .. MaxRows
  /\ line \in Seq(STRING)
  /\ col \in 0 .. Len(line) + (IF overrun THEN 2 ELSE 1)
  /\ comment \in BOOLEAN /\ entered \in BOOLEAN /\ overrun \in BOOLEAN
  /\ Placed(line, tokens, col)
  /\ status = "reading" => tokens = <<>> /\ ~overrun
  /\ status = "accepted" => ~comment
  /\ status = "lexing" => IF overrun THEN col > Len(line)
                          ELSE InStep(line, Expected, tokens, col, comment)

LEMMA PutPlaced ==
  ASSUME NEW l, NEW ts, NEW n \in Nat, Placed(l, ts, n), NEW m \in Nat,
         NEW token \in Tokens,
         n <= token.from, token.from <= token.loc, token.loc <= token.to, token.to < m,
         token.kind = "symbol" /\ token.from = token.to =>
           <<CharAt(l, token.from), CharAt(l, token.from + 1)>> \notin LongOperators
  PROVE  Placed(l, Append(ts, token), m)
<1> DEFINE new == Append(ts, token)
<1>1. /\ ts \in Seq(Tokens) /\ new \in Seq(Tokens) /\ Len(ts) \in Nat
      /\ DOMAIN ts = 1 .. Len(ts) /\ DOMAIN new = 1 .. Len(ts) + 1
      /\ \A t \in 1 .. Len(ts) : new[t] = ts[t]
      /\ new[Len(ts) + 1] = token
  BY DEF Placed
<1>2. \A t \in DOMAIN new : new[t] \in Tokens
  BY <1>1
<1> HIDE DEF new
<1>3. ASSUME NEW t \in DOMAIN new
      PROVE  /\ new[t].from <= new[t].loc /\ new[t].loc <= new[t].to /\ new[t].to < m
             /\ new[t].kind = "symbol" /\ new[t].from = new[t].to =>
                  <<CharAt(l, new[t].from), CharAt(l, new[t].from + 1)>> \notin LongOperators
  <2>1. CASE t = Len(ts) + 1
    BY <1>1, <2>1
  <2>2. CASE t \in 1 .. Len(ts)
    <3>1. new[t] = ts[t] /\ ts[t] \in Tokens
      BY <1>1, <2>2
    <3>2. ts[t].from <= ts[t].loc /\ ts[t].loc <= ts[t].to /\ ts[t].to < n
      BY <1>1, <2>2 DEF Placed
    <3>3. ts[t].kind = "symbol" /\ ts[t].from = ts[t].to =>
            <<CharAt(l, ts[t].from), CharAt(l, ts[t].from + 1)>> \notin LongOperators
      BY <1>1, <2>2 DEF Placed
    <3>4. ts[t].to < m
      BY <3>1, <3>2 DEF Tokens
    <3> QED
      BY <3>1, <3>2, <3>3, <3>4
  <2> QED
    BY <1>1, <2>1, <2>2
<1>4. ASSUME NEW s \in DOMAIN new, NEW t \in DOMAIN new, s < t
      PROVE  new[s].to < new[t].from
  <2>1. s \in 1 .. Len(ts) /\ new[s] = ts[s] /\ ts[s] \in Tokens
    BY <1>1, <1>4
  <2>2. CASE t = Len(ts) + 1
    <3>1. ts[s].to < n
      BY <1>1, <2>1 DEF Placed
    <3> QED
      BY <1>1, <2>1, <2>2, <3>1 DEF Tokens
  <2>3. CASE t \in 1 .. Len(ts)
    BY <1>1, <1>4, <2>1, <2>3 DEF Placed
  <2> QED
    BY <1>1, <2>2, <2>3
<1> QED
  BY <1>1, <1>3, <1>4 DEF Placed, new

LEMMA TokensBefore ==
  ASSUME NEW l, NEW ts, NEW n, Placed(l, ts, n)
  PROVE  \A t \in DOMAIN ts : ts[t].to < n /\ ts[t].to \in Nat
<1>1. ASSUME NEW t \in DOMAIN ts
      PROVE  ts[t] \in Tokens
  <2>1. ts \in Seq(Tokens)
    BY DEF Placed
  <2> QED
    BY <2>1
<1> QED
  BY <1>1 DEF Placed, Tokens

LEMMA MovePlaced ==
  ASSUME NEW l, NEW ts, NEW n \in Nat, NEW m \in Nat, Placed(l, ts, n), n <= m
  PROVE  Placed(l, ts, m)
<1>1. \A t \in DOMAIN ts : ts[t].to < n /\ ts[t].to \in Nat
  BY TokensBefore
<1>2. \A t \in DOMAIN ts : ts[t].to < m
  BY <1>1
<1> QED
  BY <1>2 DEF Placed

\* What is passed without a token belongs to none.
LEMMA MoveCovers ==
  ASSUME NEW l, NEW E, NEW ts, NEW n \in Nat, NEW m \in Nat,
         Placed(l, ts, n), CoveredTo(E, ts, n),
         \A k \in n + 1 .. m : Reference!KindOf(E[k]) = "none"
  PROVE  CoveredTo(E, ts, m)
<1>1. \A t \in DOMAIN ts : ts[t].to < n /\ ts[t].to \in Nat
  BY TokensBefore
<1>2. ASSUME NEW i \in 0 .. m - 1, i \notin 0 .. n - 1
      PROVE  /\ Reference!KindOf(E[i + 1]) = "none"
             /\ \A t \in DOMAIN ts : ~(i <= ts[t].to)
  BY <1>1, <1>2
<1> QED
  BY <1>2 DEF CoveredTo

\* A token covers what it is made of.
LEMMA PutCovers ==
  ASSUME NEW l, NEW E, NEW ts, NEW n \in Nat, NEW m \in Nat, NEW token \in Tokens,
         Placed(l, ts, n), CoveredTo(E, ts, n),
         token.from = n, token.to = m - 1, token.kind # "none",
         \A k \in n + 1 .. m : Reference!KindOf(E[k]) = token.kind
  PROVE  CoveredTo(E, Append(ts, token), m)
<1> DEFINE new == Append(ts, token)
<1>1. /\ Len(ts) \in Nat
      /\ DOMAIN ts = 1 .. Len(ts) /\ DOMAIN new = 1 .. Len(ts) + 1
      /\ \A t \in 1 .. Len(ts) : new[t] = ts[t]
      /\ new[Len(ts) + 1] = token
  BY DEF Placed
<1> HIDE DEF new
<1>2. ASSUME NEW i \in 0 .. m - 1
      PROVE  IF Reference!KindOf(E[i + 1]) = "none"
             THEN \A t \in DOMAIN new : ~(new[t].from <= i /\ i <= new[t].to)
             ELSE \E t \in DOMAIN new : /\ new[t].from <= i /\ i <= new[t].to
                                        /\ new[t].kind = Reference!KindOf(E[i + 1])
  <2>1. CASE i < n
    <3>1. IF Reference!KindOf(E[i + 1]) = "none"
          THEN \A t \in DOMAIN ts : ~(ts[t].from <= i /\ i <= ts[t].to)
          ELSE \E t \in DOMAIN ts : /\ ts[t].from <= i /\ i <= ts[t].to
                                    /\ ts[t].kind = Reference!KindOf(E[i + 1])
      BY <2>1 DEF CoveredTo
    <3>2. ~(token.from <= i)
      BY <2>1
    <3> QED
      BY <1>1, <3>1, <3>2
  <2>2. CASE n <= i
    <3>1. Reference!KindOf(E[i + 1]) = token.kind /\ token.from <= i /\ i <= token.to
      BY <2>2
    <3> QED
      BY <1>1, <3>1
  <2> QED
    BY <2>1, <2>2
<1> QED
  BY <1>2 DEF CoveredTo, new

-----------------------------------------------------------------------------
(* The handlers.  Each begins at rest, before the end of the line.         *)

LEMMA AtRest ==
  ASSUME LexInv, Lexing
  PROVE  /\ line \in Seq(STRING) /\ Len(line) \in Nat /\ col \in 0 .. Len(line) - 1
         /\ ~overrun /\ ~comment
         /\ Placed(line, tokens, col) /\ CoveredTo(Expected, tokens, col)
         /\ Runs(line, Expected) /\ Resting(line, Expected, col)
         /\ Expected[col + 1] = Reference!Fresh(C(col), C(col + 1))
<1>1. /\ line \in Seq(STRING) /\ Len(line) \in Nat /\ col \in 0 .. Len(line) - 1
      /\ Placed(line, tokens, col)
  BY DEF LexInv, Lexing
<1>2. ~overrun /\ InStep(line, Expected, tokens, col, comment)
  BY <1>1 DEF LexInv, Lexing
<1>3. ~comment /\ Resting(line, Expected, col) /\ CoveredTo(Expected, tokens, col)
  BY <1>1, <1>2 DEF InStep
<1>4. Runs(line, Expected)
  BY <1>1, ExpectedRuns
<1> QED
  BY <1>1, <1>2, <1>3, <1>4, Begins DEF C

\* On to column i over characters that belong to no token.
LEMMA MoveStep ==
  ASSUME LexInv, Lexing, NEW i \in col + 1 .. Len(line) + 1, MoveTo(i),
         \A k \in col + 1 .. Len(line) : k <= i => Reference!KindOf(Expected[k]) = "none",
         i <= Len(line) => Resting(line, Expected, i),
         i > Len(line) => Expected[Len(line)] \in {"line", "number", "sign"}
  PROVE  LexInv'
<1> DEFINE E == Expected
<1>1. /\ line' = line /\ entered' = entered /\ Expected' = Expected
      /\ status' = status /\ row' = row /\ comment' = comment /\ tokens' = tokens
      /\ overrun' = overrun /\ col' = i
  BY DEF MoveTo, Carried, Expected
<1>2. /\ line \in Seq(STRING) /\ Len(line) \in Nat /\ col \in 0 .. Len(line) - 1
      /\ ~overrun /\ ~comment
      /\ Placed(line, tokens, col) /\ CoveredTo(E, tokens, col)
  BY AtRest
<1>3. Placed(line, tokens, i)
  BY <1>2, MovePlaced
<1> HIDE DEF E
<1>4. InStep(line, E, tokens, i, comment)
  <2>1. CASE i <= Len(line)
    <3>1. CoveredTo(E, tokens, i)
      BY <1>2, <2>1, MoveCovers DEF E
    <3> QED
      BY <1>2, <2>1, <3>1 DEF InStep, E
  <2>2. CASE i > Len(line)
    <3>1. CoveredTo(E, tokens, Len(line))
      BY <1>2, <2>2, MoveCovers DEF E
    <3> QED
      BY <1>2, <2>2, <3>1 DEF InStep, E
  <2> QED
    BY <1>2, <2>1, <2>2
<1> QED
  BY <1>1, <1>2, <1>3, <1>4 DEF LexInv, Lexing, E

\* A token from here to column m, after which column i is next.
LEMMA PutStep ==
  ASSUME LexInv, Lexing, NEW kind \in {"symbol", "string", "char", "number", "word"},
         NEW m \in col .. Len(line) - 1, NEW loc \in col .. m,
         NEW i, i = m + 1 \/ (m = Len(line) - 1 /\ i = Len(line) + 1),
         Put(Token(kind, loc, col, m), i),
         \A k \in col + 1 .. m + 1 : Reference!KindOf(Expected[k]) = kind,
         kind = "symbol" /\ col = m => <<C(col), C(col + 1)>> \notin LongOperators,
         i = m + 1 => Resting(line, Expected, i),
         i > Len(line) => Expected[Len(line)] \in {"line", "number", "sign"}
  PROVE  LexInv'
<1> DEFINE E == Expected
           token == Token(kind, loc, col, m)
           ts == Append(tokens, token)
<1>1. /\ line' = line /\ entered' = entered /\ Expected' = Expected
      /\ status' = status /\ row' = row /\ comment' = comment /\ tokens' = ts
      /\ overrun' = overrun /\ col' = i
  BY DEF Put, Carried, Expected
<1>2. /\ line \in Seq(STRING) /\ Len(line) \in Nat /\ col \in 0 .. Len(line) - 1
      /\ ~overrun /\ ~comment
      /\ Placed(line, tokens, col) /\ CoveredTo(E, tokens, col)
  BY AtRest
<1>3. /\ token \in Tokens /\ token.kind = kind /\ token.from = col /\ token.loc = loc
      /\ token.to = m /\ kind # "none"
  BY <1>2 DEF Token, Tokens
<1> HIDE DEF E, token
<1>4. i \in Nat /\ m + 1 \in Nat /\ m < i
  BY <1>2
<1>5. Placed(line, ts, i)
  <2>1. kind = "symbol" /\ col = m =>
           <<CharAt(line, col), CharAt(line, col + 1)>> \notin LongOperators
    BY DEF C
  <2>2. /\ col <= token.from /\ token.from <= token.loc
        /\ token.loc <= token.to /\ token.to < i
    BY <1>2, <1>3, <1>4
  <2>3. token.kind = "symbol" /\ token.from = token.to =>
           <<CharAt(line, token.from), CharAt(line, token.from + 1)>> \notin LongOperators
    BY <1>3, <2>1
  <2> QED
    BY <1>2, <1>3, <1>4, <2>2, <2>3, PutPlaced
<1>6. CoveredTo(E, ts, m + 1)
  <2>1. token.to = m + 1 - 1
    BY <1>2, <1>3
  <2>2. \A k \in col + 1 .. m + 1 : Reference!KindOf(E[k]) = token.kind
    BY <1>3 DEF E
  <2>3. token \in Tokens /\ token.kind # "none" /\ token.from = col /\ col \in Nat
    BY <1>2, <1>3
  <2> HIDE DEF ts
  <2>4. CoveredTo(E, Append(tokens, token), m + 1)
    BY <1>2, <1>4, <2>1, <2>2, <2>3, PutCovers
  <2> QED
    BY <2>4 DEF ts
<1> HIDE DEF ts
<1>7. InStep(line, E, ts, i, comment)
  <2>1. CASE i = m + 1
    BY <1>2, <1>4, <1>6, <2>1 DEF InStep, E
  <2>2. CASE m = Len(line) - 1 /\ i = Len(line) + 1
    <3>1. m + 1 = Len(line)
      BY <1>2, <2>2
    <3> QED
      BY <1>2, <1>6, <2>2, <3>1 DEF InStep, E
  <2> QED
    BY <2>1, <2>2
<1>8. i \in 0 .. Len(line) + 1
  BY <1>2, <1>4
<1> QED
  BY <1>1, <1>2, <1>5, <1>7, <1>8 DEF LexInv, Lexing, E

LEMMA RejectStep ==
  ASSUME LexInv, Lexing, Reject
  PROVE  LexInv'
  BY DEF LexInv, Lexing, Reject, Carried

LEMMA SkipStep ==
  ASSUME LexInv, Skip
  PROVE  LexInv'
<1>1. Lexing /\ C(col) \in Ignored /\ MoveTo(col + 1)
  BY DEF Skip
<1>2. Expected[col + 1] = "between"
  BY <1>1, AtRest, FreshModes
<1>3. col \in 0 .. Len(line) - 1 /\ Len(line) \in Nat
  BY <1>1, AtRest
<1>4. \A k \in col + 1 .. Len(line) :
        k <= col + 1 => Reference!KindOf(Expected[k]) = "none"
  BY <1>2, <1>3, Kinds
<1>5. Resting(line, Expected, col + 1)
  BY <1>2 DEF Resting, Rests
<1> QED
  BY <1>1, <1>3, <1>4, <1>5, MoveStep

LEMMA LineCommentStep ==
  ASSUME LexInv, LineComment
  PROVE  LexInv'
<1>1. Lexing /\ C(col) = "/" /\ C(col + 1) = "/" /\ MoveTo(Len(line) + 1)
  BY DEF LineComment, StartsComment
<1>2. Expected[col + 1] = "line"
  BY <1>1, AtRest, FreshModes
<1>3. col \in 0 .. Len(line) - 1 /\ Len(line) \in Nat /\ line \in Seq(STRING)
      /\ Runs(line, Expected)
  BY <1>1, AtRest
<1>4. \A k \in col + 1 .. Len(line) : Expected[k] = "line"
  BY <1>2, <1>3, LineRuns
<1>5. \A k \in col + 1 .. Len(line) : Reference!KindOf(Expected[k]) = "none"
  BY <1>4, Kinds
<1>6. Expected[Len(line)] = "line"
  BY <1>3, <1>4
<1> QED
  BY <1>1, <1>3, <1>5, <1>6, MoveStep

LEMMA BlockCommentStep ==
  ASSUME LexInv, BlockComment
  PROVE  LexInv'
<1> DEFINE ends == CommentEnds(line, col + 2)
           first == Min(ends)
<1>1. Lexing /\ C(col) = "/" /\ C(col + 1) = "*"
  BY DEF BlockComment, StartsComment
<1>2. Expected[col + 1] = "open"
  BY <1>1, AtRest, FreshModes
<1>3. col \in 0 .. Len(line) - 1 /\ Len(line) \in Nat /\ line \in Seq(STRING)
      /\ Runs(line, Expected)
  BY <1>1, AtRest
<1>4. col + 1 \in 0 .. Len(line) - 1
  BY <1>1, <1>3, Ends DEF C, NUL
<1>5. Expected[col + 2] = "block"
  <2>1. col + 1 + 1 = col + 2
    BY <1>3
  <2> QED
    BY <1>2, <1>3, <1>4, <2>1, CommentModes DEF Runs
<1>6. col + 2 \in 0 .. Len(line)
  BY <1>3, <1>4
<1>7. CASE ends # {}
  <2>1. /\ first \in col + 2 .. Len(line) - 2
        /\ \A k \in col + 2 .. first : Expected[k] = "block"
        /\ Expected[first + 1] = "close" /\ Expected[first + 2] = "between"
    BY <1>3, <1>5, <1>6, <1>7, BlockClosed
  <2>2. MoveTo(first + 2)
    BY <1>7 DEF BlockComment
  <2> HIDE DEF first
  <2>3. \A k \in col + 1 .. Len(line) :
          k <= first + 2 => Reference!KindOf(Expected[k]) = "none"
    <3>1. ASSUME NEW k \in col + 1 .. Len(line), k <= first + 2
          PROVE  k = col + 1 \/ k \in col + 2 .. first \/ k = first + 1 \/ k = first + 2
      BY <1>3, <2>1, <3>1
    <3> QED
      BY <1>2, <2>1, <3>1, Kinds
  <2>4. Resting(line, Expected, first + 2)
    BY <2>1 DEF Resting, Rests
  <2>5. first + 2 \in col + 1 .. Len(line) + 1 /\ ~(first + 2 > Len(line))
    BY <1>3, <2>1
  <2> QED
    BY <1>1, <2>2, <2>3, <2>4, <2>5, MoveStep
<1>8. CASE ends = {}
  <2>1. \A k \in col + 2 .. Len(line) : Expected[k] = "block"
    BY <1>3, <1>5, <1>6, <1>8, BlockOpen
  <2>2. \A k \in col + 1 .. Len(line) : Reference!KindOf(Expected[k]) = "none"
    <3>1. \A k \in col + 1 .. Len(line) : k = col + 1 \/ k \in col + 2 .. Len(line)
      BY <1>3
    <3> QED
      BY <1>2, <2>1, <3>1, Kinds
  <2>3. /\ comment' = TRUE /\ col' = Len(line) + 1
        /\ UNCHANGED <<status, tokens, overrun>> /\ Carried
    BY <1>8 DEF BlockComment
  <2>4. Expected' = Expected
    BY <2>3 DEF Carried, Expected
  <2>5. Placed(line, tokens, Len(line) + 1)
    BY <1>1, <1>3, AtRest, MovePlaced
  <2>6. CoveredTo(Expected, tokens, Len(line))
    BY <1>1, <1>3, <2>2, AtRest, MoveCovers
  <2>7. Expected[Len(line)] = "block"
    BY <1>6, <2>1
  <2>8. InStep(line, Expected, tokens, Len(line) + 1, TRUE)
    BY <2>6, <2>7 DEF InStep
  <2>9. ~overrun
    BY <1>1, AtRest
  <2> HIDE DEF ends, first
  <2>10. InStep(line', Expected', tokens', col', comment')
    BY <2>3, <2>4, <2>8, Zenon DEF Carried
  <2>11. Placed(line', tokens', col')
    BY <2>3, <2>5, Zenon DEF Carried
  <2>12. /\ line' = line /\ entered' = entered /\ row' = row
         /\ status' = status /\ overrun' = overrun /\ comment' \in BOOLEAN
         /\ col' \in 0 .. Len(line) + 1
    BY <1>3, <2>3 DEF Carried
  <2> QED
    BY <1>1, <2>9, <2>10, <2>11, <2>12 DEF LexInv, Lexing
<1> QED
  BY <1>7, <1>8

\* The second character of an operator is a symbol, and begins no comment.
LEMMA OperatorPairs ==
  ASSUME NEW a, NEW b, <<a, b>> \in LongOperators
  PROVE  b \in Symbols /\ b # "/" /\ b # NUL
  BY Zenon DEF LongOperators, Symbols, NUL

LEMMA SymbolStep ==
  ASSUME LexInv, Symbol
  PROVE  LexInv'
<1>1. Lexing /\ C(col) \in Symbols /\ ~StartsComment
  BY DEF Symbol
<1>2. Expected[col + 1] = "symbol"
  BY <1>1, AtRest, FreshModes DEF StartsComment
<1>3. col \in 0 .. Len(line) - 1 /\ Len(line) \in Nat /\ line \in Seq(STRING)
      /\ Runs(line, Expected)
  BY <1>1, AtRest
<1>4. CASE <<C(col), C(col + 1)>> \in LongOperators
  <2>1. Put(Token("symbol", col + 1, col, col + 1), col + 2)
    <3>1. col + 1 + 1 = col + 2
      BY <1>3
    <3> QED
      BY <1>4, <3>1 DEF Symbol
  <2>2. C(col + 1) \in Symbols /\ C(col + 1) # "/" /\ C(col + 1) # NUL
    BY <1>4, OperatorPairs
  <2>3. col + 1 \in 0 .. Len(line) - 1
    BY <1>3, <2>2, Ends DEF C
  <2>4. Expected[col + 2] = "symbol"
    <3>1. Resting(line, Expected, col + 1)
      BY <1>2 DEF Resting, Rests
    <3>2. Expected[col + 1 + 1] = Reference!Fresh(C(col + 1), C(col + 1 + 1))
      BY <1>3, <2>3, <3>1, Begins DEF C
    <3>3. col + 1 + 1 = col + 2
      BY <1>3
    <3> QED
      BY <2>2, <3>2, <3>3, FreshModes
  <2>5. \A k \in col + 1 .. col + 1 + 1 : Reference!KindOf(Expected[k]) = "symbol"
    <3>1. \A k \in col + 1 .. col + 1 + 1 : k = col + 1 \/ k = col + 2
      BY <1>3
    <3> QED
      BY <1>2, <2>4, <3>1, Kinds
  <2>6. Resting(line, Expected, col + 2)
    BY <2>4 DEF Resting, Rests
  <2>7. /\ col + 1 \in col .. Len(line) - 1 /\ col + 1 \in col .. col + 1
        /\ col + 2 = col + 1 + 1 /\ ~(col + 2 > Len(line)) /\ col # col + 1
    BY <1>3, <2>3
  <2> QED
    BY <1>1, <2>1, <2>5, <2>6, <2>7, PutStep
<1>5. CASE <<C(col), C(col + 1)>> \notin LongOperators
  <2>1. Put(Token("symbol", col, col, col), col + 1)
    BY <1>5 DEF Symbol
  <2>2. \A k \in col + 1 .. col + 1 : Reference!KindOf(Expected[k]) = "symbol"
    BY <1>2, <1>3, Kinds
  <2>3. Resting(line, Expected, col + 1)
    BY <1>2 DEF Resting, Rests
  <2>4. col \in col .. Len(line) - 1 /\ col \in col .. col /\ ~(col + 1 > Len(line))
    BY <1>3
  <2> QED
    BY <1>1, <1>5, <2>1, <2>2, <2>3, <2>4, PutStep
<1> QED
  BY <1>4, <1>5

LEMMA StringLiteralStep ==
  ASSUME LexInv, StringLiteral
  PROVE  LexInv'
<1> DEFINE end == StringEnd(col + 1)
<1>1. Lexing /\ C(col) = Quote
  BY DEF StringLiteral
<1>2. Expected[col + 1] = "string"
  BY <1>1, AtRest, FreshModes
<1>3. col \in 0 .. Len(line) - 1 /\ Len(line) \in Nat /\ line \in Seq(STRING)
      /\ Runs(line, Expected)
  BY <1>1, AtRest
<1>4. CASE end > Len(line)
  BY <1>1, <1>4, RejectStep DEF StringLiteral
<1>5. CASE ~(end > Len(line))
  <2>1. Put(Token("string", col, col, end), end + 1)
    BY <1>5 DEF StringLiteral
  <2>2. /\ end \in col + 1 .. Len(line) + 2
        /\ end <= Len(line) => /\ end < Len(line)
                               /\ \A k \in col + 1 .. end : Expected[k] \in {"string", "escape"}
                               /\ Expected[end + 1] = "stringend"
    BY <1>2, <1>3, StringRuns
  <2> HIDE DEF end
  <2>3. end \in col + 1 .. Len(line) - 1
    BY <1>3, <1>5, <2>2
  <2>4. /\ \A k \in col + 1 .. end : Expected[k] \in {"string", "escape"}
        /\ Expected[end + 1] = "stringend"
    BY <1>3, <2>2, <2>3
  <2>5. \A k \in col + 1 .. end + 1 : Reference!KindOf(Expected[k]) = "string"
    <3>1. \A k \in col + 1 .. end + 1 : k \in col + 1 .. end \/ k = end + 1
      BY <1>3, <2>3
    <3> QED
      BY <2>4, <3>1, Kinds
  <2>6. Resting(line, Expected, end + 1)
    BY <2>4 DEF Resting, Rests
  <2>7. end \in col .. Len(line) - 1 /\ col \in col .. end /\ ~(end + 1 > Len(line))
    BY <1>3, <2>3
  <2> QED
    BY <1>1, <2>1, <2>5, <2>6, <2>7, PutStep
<1> QED
  BY <1>4, <1>5

\* The quote stands where the scanner is done with the one character, escaped
\* or not, that a literal has.
LEMMA CharRuns ==
  ASSUME NEW l \in Seq(STRING), NEW E, Runs(l, E), NEW k \in 0 .. Len(l) - 1,
         E[k + 1] = "char", NEW end,
         end = k + (IF CharAt(l, k + 1) = "\\" THEN 3 ELSE 2),
         CharAt(l, end) = "'"
  PROVE  /\ end \in k + 1 .. Len(l) - 1
         /\ \A j \in k + 1 .. end + 1 : Reference!KindOf(E[j]) = "char"
         /\ E[end + 1] = "charend"
<1>0. Len(l) \in Nat
  OBVIOUS
<1>1. end \in 0 .. Len(l) - 1 /\ end \in k + 2 .. k + 3
  BY <1>0, Ends DEF NUL
<1>2. E[k + 2] = IF CharAt(l, k + 1) = "\\" THEN "charescape" ELSE "charbody"
  <2>1. k + 1 \in 0 .. Len(l) - 1 /\ k + 1 + 1 = k + 2
    BY <1>0, <1>1
  <2>2. E[k + 1 + 1] = Reference!After("char", CharAt(l, k + 1), CharAt(l, k + 1 + 1))
    BY <2>1 DEF Runs
  <2> QED
    BY <2>1, <2>2, LiteralModes
<1>3. E[end] = "charbody" /\ \A j \in k + 1 .. end : E[j] \in {"char", "charescape", "charbody"}
  <2>1. CASE CharAt(l, k + 1) # "\\"
    <3>1. end = k + 2 /\ \A j \in k + 1 .. end : j = k + 1 \/ j = k + 2
      BY <1>0, <2>1
    <3> QED
      BY <1>2, <2>1, <3>1
  <2>2. CASE CharAt(l, k + 1) = "\\"
    <3>1. end = k + 3 /\ \A j \in k + 1 .. end : j = k + 1 \/ j = k + 2 \/ j = k + 3
      BY <1>0, <2>2
    <3>2. k + 2 \in 0 .. Len(l) - 1 /\ k + 2 + 1 = k + 3
      BY <1>0, <1>1, <3>1
    <3>3. E[k + 2 + 1] = Reference!After("charescape", CharAt(l, k + 2), CharAt(l, k + 2 + 1))
      BY <1>2, <2>2, <3>2 DEF Runs
    <3>4. E[k + 3] = "charbody"
      BY <3>2, <3>3, LiteralModes
    <3> QED
      BY <1>2, <2>2, <3>1, <3>4
  <2> QED
    BY <2>1, <2>2
<1>4. E[end + 1] = "charend"
  <2>1. E[end + 1] = Reference!After("charbody", CharAt(l, end), CharAt(l, end + 1))
    BY <1>1, <1>3 DEF Runs
  <2> QED
    BY <2>1, LiteralModes
<1>5. \A j \in k + 1 .. end + 1 : j \in k + 1 .. end \/ j = end + 1
  BY <1>0, <1>1
<1> QED
  BY <1>0, <1>1, <1>3, <1>4, <1>5, Kinds

LEMMA CharLiteralStep ==
  ASSUME LexInv, CharLiteral
  PROVE  LexInv'
<1> DEFINE end == col + (IF C(col + 1) = "\\" THEN 3 ELSE 2)
           literal == Token("char", col, col, end)
<1>1. Lexing /\ C(col) = "'"
  BY DEF CharLiteral
<1>2. Expected[col + 1] = "char"
  BY <1>1, AtRest, FreshModes
<1>3. /\ col \in 0 .. Len(line) - 1 /\ Len(line) \in Nat /\ line \in Seq(STRING)
      /\ Runs(line, Expected) /\ Placed(line, tokens, col) /\ end \in Nat /\ col < end
      /\ end <= Len(line) + 1
  <2>1. col \in 0 .. Len(line) - 1 /\ Len(line) \in Nat /\ line \in Seq(STRING)
        /\ Runs(line, Expected) /\ Placed(line, tokens, col)
    BY <1>1, AtRest
  <2>2. C(col + 1) = "\\" => col + 1 < Len(line)
    BY <2>1, Ends DEF C, NUL
  <2> QED
    BY <2>1, <2>2
<1>4. CASE end <= Len(line) /\ C(end) = "'"
  <2>1. Put(literal, end + 1)
    BY <1>3, <1>4 DEF CharLiteral
  <2> HIDE DEF end
  <2>2. /\ end \in col + 1 .. Len(line) - 1
        /\ \A j \in col + 1 .. end + 1 : Reference!KindOf(Expected[j]) = "char"
        /\ Expected[end + 1] = "charend"
    BY <1>2, <1>3, <1>4, CharRuns DEF end, C
  <2>3. Resting(line, Expected, end + 1)
    BY <2>2 DEF Resting, Rests
  <2>4. end \in col .. Len(line) - 1 /\ col \in col .. end /\ ~(end + 1 > Len(line))
    BY <1>3, <2>2
  <2> QED
    BY <1>1, <2>1, <2>2, <2>3, <2>4, PutStep
<1>5. CASE Reject
  BY <1>1, <1>5, RejectStep
<1>6. CASE /\ end > Len(line) /\ overrun' = TRUE
           /\ tokens' = Append(tokens, literal) /\ col' = end + 1
           /\ UNCHANGED <<status, comment>> /\ Carried
  <2> HIDE DEF end
  <2>1. literal \in Tokens /\ literal.kind = "char" /\ literal.from = col
        /\ literal.loc = col /\ literal.to = end
    BY <1>3 DEF Token, Tokens
  <2> HIDE DEF literal
  <2>2. Placed(line, Append(tokens, literal), end + 1)
    <3>1. col \in Nat /\ end + 1 \in Nat /\ col <= end /\ end < end + 1
      BY <1>3
    <3>2. literal.kind # "symbol" /\ col <= literal.from /\ literal.from <= literal.loc
          /\ literal.loc <= literal.to /\ literal.to < end + 1
      BY <2>1, <3>1
    <3> QED
      BY <1>3, <2>1, <3>1, <3>2, PutPlaced
  <2>3. Placed(line', tokens', col')
    BY <1>6, <2>2, Zenon DEF Carried
  <2>4. col' \in 0 .. Len(line) + 2 /\ col' > Len(line)
    BY <1>3, <1>6
  <2>5. /\ line' = line /\ entered' = entered /\ row' = row
        /\ status' = status /\ comment' = comment
    BY <1>6 DEF Carried
  <2> QED
    BY <1>1, <1>6, <2>3, <2>4, <2>5 DEF LexInv, Lexing
<1>7. CASE /\ end > Len(line) /\ overrun' = TRUE
           /\ status' = "rejected" /\ UNCHANGED <<col, comment, tokens>> /\ Carried
  <2>1. /\ line' = line /\ entered' = entered /\ row' = row
        /\ col' = col /\ comment' = comment /\ tokens' = tokens
    BY <1>7 DEF Carried
  <2> QED
    BY <1>1, <1>3, <1>7, <2>1 DEF LexInv, Lexing
<1> QED
  BY <1>4, <1>5, <1>6, <1>7 DEF CharLiteral

LEMMA NumberCharacters ==
  /\ \A c \in Digits : InNumber(c) /\ c # "e"
  /\ \A c \in {"b", "x", "."} : InNumber(c) /\ c # "e" /\ c # NUL
  /\ NUL \notin Digits
<1>1. /\ \A c \in Digits : c \notin Spaces /\ c \notin Symbols /\ c # " " /\ c # "e"
      /\ \A c \in {"b", "x"} : c \notin Spaces /\ c \notin Symbols /\ c # " "
      /\ "NUL" \notin Digits
  BY Zenon DEF Digits, Spaces, Symbols
<1> QED
  BY <1>1 DEF InNumber, IsOperator, NUL

\* Digits, and what else is not an exponent, leave a number a number.
LEMMA DigitRuns ==
  ASSUME NEW l \in Seq(STRING), NEW E, Runs(l, E),
         NEW i \in 0 .. Len(l), E[i] = "number", NEW b \in i .. Len(l),
         \A k \in i .. b - 1 : InNumber(CharAt(l, k)) /\ CharAt(l, k) # "e"
  PROVE  \A k \in i .. b : E[k] = "number"
<1> DEFINE T == {k \in Nat : E[k] = "number"}
<1>0. Len(l) \in Nat /\ i \in Nat /\ b \in Nat
  OBVIOUS
<1>1. i \in T
  OBVIOUS
<1>2. ASSUME NEW k \in i .. b - 1, k \in T
      PROVE  k + 1 \in T
  <2>1. k \in 0 .. Len(l) - 1
    BY <1>0
  <2> QED
    BY <1>2, <2>1, RunModes DEF Runs
<1>3. \A k \in i .. b : k \in T
  <2> HIDE DEF T
  <2> QED
    BY <1>0, <1>1, <1>2, Upwards
<1> QED
  BY <1>3

LEMMA NumberCovers ==
  ASSUME LexInv, Lexing, C(col) \in Digits
  PROVE  /\ Number.last \in col .. Len(line) - 1
         /\ \/ Number.next = Number.last + 1 /\ Resting(line, Expected, Number.next)
            \/ /\ Number.last = Len(line) - 1 /\ Number.next = Len(line) + 1
               /\ Expected[Len(line)] \in {"line", "number", "sign"}
         /\ \A k \in col + 1 .. Number.last + 1 : Reference!KindOf(Expected[k]) = "number"
<1> DEFINE E     == Expected
           n     == Len(line)
           S     == {j \in col .. Len(line) : C(j) \notin Digits}
           first == Min(S)
           at    == IF C(first) \in {"b", "x"} THEN first + 1 ELSE first
           dot   == C(at) = "."
           i     == IF dot THEN at + 1 ELSE at
           to    == NumberEnd(i, dot).to
           last  == Min({to, Len(line)}) - 1
<1>1. /\ line \in Seq(STRING) /\ n \in Nat /\ col \in 0 .. n - 1 /\ Runs(line, E)
      /\ E[col + 1] = "number"
  BY AtRest, FreshModes
<1>2. first \in col + 1 .. n /\ \A k \in col .. first - 1 : C(k) \in Digits
  <2>1. S \in SUBSET Nat /\ n \in S
    BY <1>1, NumberCharacters DEF C, CharAt
  <2>2. first \in S /\ \A j \in S : first <= j
    <3> HIDE DEF S
    <3> QED
      BY <2>1, MinIsSmallest
  <2> HIDE DEF first
  <2> QED
    BY <1>1, <2>2
<1> HIDE DEF first
<1>3. \A k \in col + 1 .. first : E[k] = "number"
  <2>1. \A k \in col + 1 .. first - 1 : InNumber(CharAt(line, k)) /\ CharAt(line, k) # "e"
    BY <1>1, <1>2, NumberCharacters DEF C
  <2>2. col + 1 \in 0 .. n /\ first \in col + 1 .. n
    BY <1>1, <1>2
  <2> HIDE DEF E
  <2> QED
    BY <1>1, <2>1, <2>2, DigitRuns
<1>4. at \in first .. n /\ E[at] = "number"
  <2>1. E[first] = "number" /\ first \in 0 .. n
    BY <1>1, <1>2, <1>3
  <2>2. CASE C(first) \in {"b", "x"}
    <3>1. first \in 0 .. n - 1
      BY <1>1, <2>1, <2>2, Ends, NumberCharacters DEF C
    <3> QED
      BY <1>1, <2>1, <2>2, <3>1, NumberCharacters, RunModes DEF Runs, C
  <2> QED
    BY <1>1, <2>1, <2>2
<1> HIDE DEF at
<1>5. i \in at .. n /\ E[i] = "number"
  <2>1. at \in 0 .. n
    BY <1>1, <1>2, <1>4
  <2>2. CASE dot
    <3>1. at \in 0 .. n - 1
      BY <1>1, <2>1, <2>2, Ends, NumberCharacters DEF C
    <3> QED
      BY <1>1, <1>4, <2>2, <3>1, NumberCharacters, RunModes DEF Runs, C
  <2> QED
    BY <1>1, <1>4, <2>1, <2>2
<1>6. \A k \in col + 1 .. i : E[k] = "number"
  <2>1. \A k \in col + 1 .. i : k \in col + 1 .. first \/ k = at \/ k = i
    BY <1>1, <1>2, <1>4, <1>5 DEF at
  <2> QED
    BY <1>3, <1>4, <1>5, <2>1
<1> HIDE DEF dot, i
<1>7. /\ to \in i .. n + 1
      /\ \A k \in i .. to : k <= n => E[k] \in {"number", "sign"}
      /\ to <= n => E[to] = "number" /\ ~InNumber(C(to))
  <2>1. i \in 0 .. n
    BY <1>1, <1>2, <1>4, <1>5
  <2> HIDE DEF E
  <2> QED
    BY <1>1, <1>5, <2>1, NumberRuns
<1>8. Number.next = to /\ Number.last = last
  BY DEF Number, first, at, dot, i
<1> HIDE DEF to
<1>9. last = IF to <= n THEN to - 1 ELSE n - 1
  <2> DEFINE P == {to, n}
  <2>1. P \in SUBSET Nat /\ P # {} /\ to \in P /\ n \in P /\ to \in Nat
    BY <1>1, <1>2, <1>4, <1>5, <1>7
  <2>2. Min(P) \in P /\ \A y \in P : Min(P) <= y
    <3> HIDE DEF P
    <3> QED
      BY <2>1, MinIsSmallest
  <2> QED
    BY <1>1, <2>1, <2>2
<1>10. i \in col + 1 .. n /\ to \in i .. n + 1
  BY <1>1, <1>2, <1>4, <1>5, <1>7
<1> HIDE DEF last
<1>11. last \in col .. n - 1 /\ (last = to - 1 \/ last = n - 1) /\ last + 1 <= to
  BY <1>1, <1>9, <1>10
<1>12. ASSUME NEW k \in col + 1 .. last + 1
       PROVE  Reference!KindOf(E[k]) = "number"
  <2>1. k \in col + 1 .. i \/ (k \in i .. to /\ k <= n)
    BY <1>1, <1>10, <1>11
  <2>2. E[k] \in {"number", "sign"}
    BY <1>6, <1>7, <2>1
  <2> QED
    BY <2>2, Kinds
<1>13. CASE to <= n
  <2>1. to = last + 1
    BY <1>9, <1>10, <1>13
  <2>2. Resting(line, E, to)
    BY <1>7, <1>13 DEF Resting, Rests, C
  <2> HIDE DEF E
  <2>3. Resting(line, Expected, to)
    BY <2>2 DEF E
  <2> QED
    BY <1>8, <1>11, <1>12, <2>1, <2>3 DEF E
<1>14. CASE ~(to <= n)
  <2>1. last = n - 1 /\ to = n + 1
    BY <1>1, <1>9, <1>10, <1>14
  <2>2. n \in i .. to /\ n <= n
    BY <1>1, <1>10, <2>1
  <2>3. E[n] \in {"number", "sign"}
    BY <1>7, <2>2
  <2> QED
    BY <1>8, <1>11, <1>12, <2>1, <2>3
<1> QED
  BY <1>13, <1>14

LEMMA NumberLiteralStep ==
  ASSUME LexInv, NumberLiteral
  PROVE  LexInv'
<1>1. Lexing /\ C(col) \in Digits
  BY DEF NumberLiteral
<1>2. CASE ~Number.ok
  BY <1>1, <1>2, RejectStep DEF NumberLiteral
<1>3. CASE Number.ok
  <2>1. Put(Token("number", col, col, Number.last), Number.next)
    BY <1>3 DEF NumberLiteral
  <2>2. line \in Seq(STRING) /\ Len(line) \in Nat /\ col \in 0 .. Len(line) - 1
    BY <1>1, AtRest
  <2> DEFINE last == Number.last
             next == Number.next
  <2>3. /\ last \in col .. Len(line) - 1
        /\ \/ next = last + 1 /\ Resting(line, Expected, next)
           \/ /\ last = Len(line) - 1 /\ next = Len(line) + 1
              /\ Expected[Len(line)] \in {"line", "number", "sign"}
        /\ \A k \in col + 1 .. last + 1 : Reference!KindOf(Expected[k]) = "number"
    BY <1>1, NumberCovers
  <2> HIDE DEF last, next
  <2>4. /\ next = last + 1 \/ (last = Len(line) - 1 /\ next = Len(line) + 1)
        /\ next = last + 1 => Resting(line, Expected, next)
        /\ next > Len(line) => Expected[Len(line)] \in {"line", "number", "sign"}
        /\ col \in col .. last
    BY <2>2, <2>3
  <2>5. Put(Token("number", col, col, last), next)
    BY <2>1 DEF last, next
  <2> QED
    BY <1>1, <2>3, <2>4, <2>5, PutStep
<1> QED
  BY <1>2, <1>3

LEMMA WordStep ==
  ASSUME LexInv, Word
  PROVE  LexInv'
<1> DEFINE ends == {j \in col .. Len(line) - 1 : IsOperator(C(j))}
           end  == IF ends = {} THEN Len(line) ELSE Min(ends)
<1>1. /\ Lexing
      /\ C(col) \notin Ignored \union Digits \union Symbols \union {Quote, "'"}
      /\ Put(Token("word", col, col, end - 1), end)
  BY DEF Word
<1>2. /\ line \in Seq(STRING) /\ Len(line) \in Nat /\ col \in 0 .. Len(line) - 1
      /\ Runs(line, Expected) /\ Expected[col + 1] = "word"
  BY <1>1, AtRest, FreshModes
<1>3. ~IsOperator(C(col))
  BY <1>1, Zenon DEF IsOperator, Ignored, Spaces
<1>4. /\ end \in col + 1 .. Len(line)
      /\ \A k \in col .. end - 1 : ~IsOperator(C(k))
      /\ end < Len(line) => IsOperator(C(end))
  <2>1. CASE ends = {}
    BY <1>2, <2>1
  <2>2. CASE ends # {}
    <3>1. ends \in SUBSET Nat
      BY <1>2
    <3>2. Min(ends) \in ends /\ \A j \in ends : Min(ends) <= j
      <4> HIDE DEF ends
      <4> QED
        BY <2>2, <3>1, MinIsSmallest
    <3>3. end = Min(ends)
      BY <2>2
    <3> HIDE DEF end
    <3>4. end \in col .. Len(line) - 1 /\ IsOperator(C(end))
      BY <3>2, <3>3
    <3>5. \A k \in col .. end - 1 : ~IsOperator(C(k))
      BY <1>2, <3>2, <3>3, <3>4
    <3>6. end # col
      BY <1>3, <3>4
    <3> QED
      BY <1>2, <3>4, <3>5, <3>6
  <2> QED
    BY <2>1, <2>2
<1> HIDE DEF end, ends
<1>5. \A k \in col + 1 .. end : Expected[k] = "word"
  <2>1. \A k \in col + 1 .. end - 1 : ~IsOperator(CharAt(line, k))
    BY <1>2, <1>4 DEF C
  <2>2. col + 1 \in 0 .. Len(line)
    BY <1>2
  <2> QED
    BY <1>2, <1>4, <2>1, <2>2, WordRuns
<1>6. \A k \in col + 1 .. end - 1 + 1 : Reference!KindOf(Expected[k]) = "word"
  BY <1>2, <1>4, <1>5, Kinds
<1>7. Resting(line, Expected, end)
  BY <1>2, <1>4, <1>5 DEF Resting, Rests, C
<1>8. /\ end - 1 \in col .. Len(line) - 1 /\ col \in col .. end - 1
      /\ end = end - 1 + 1 /\ ~(end > Len(line))
  BY <1>2, <1>4
<1> QED
  BY <1>1, <1>6, <1>7, <1>8, PutStep

-----------------------------------------------------------------------------
(* The loop over the lines.                                                *)

LEMMA NoTokens ==
  ASSUME NEW l, NEW E, NEW n
  PROVE  Placed(l, <<>>, n) /\ CoveredTo(E, <<>>, 0)
  BY DEF Placed, CoveredTo

LEMMA ReadLineStep ==
  ASSUME LexInv, ReadLine
  PROVE  LexInv'
<1> DEFINE l == line'
           E == Reference!Modes(l, IF comment THEN "block" ELSE "between")
           ends == CommentEnds(l, 0)
           first == Min(ends)
           n == Len(l)
<1>1. /\ status' = "lexing" /\ l \in Lines /\ entered' = comment
      /\ comment' = (comment /\ ends = {})
      /\ col' = IF ~comment THEN 0 ELSE IF ends = {} THEN n + 1 ELSE first + 2
      /\ tokens' = <<>> /\ overrun' = FALSE /\ row' \in 0 .. MaxRows
  BY LinesAssumption DEF ReadLine, LexInv, LinesAssumption
<1>2. l \in Seq(STRING)
  BY <1>1, LinesAssumption DEF LinesAssumption
<1>3. Expected' = E
  BY <1>1 DEF Expected
<1> HIDE DEF l
<1>4. n \in Nat /\ Runs(l, E) /\ E[0] = IF comment THEN "block" ELSE "between"
  BY <1>2, ModesStep DEF Runs
<1> HIDE DEF E
<1>5. Placed(l, <<>>, 0) /\ Placed(l, tokens', col') /\ CoveredTo(E, <<>>, 0)
  BY <1>1, NoTokens
<1>6. CASE ~comment
  <2>1. col' = 0 /\ comment' = FALSE
    BY <1>1, <1>6
  <2>2. Resting(l, E, 0)
    BY <1>4, <1>6 DEF Resting, Rests
  <2>3. InStep(l, E, <<>>, 0, FALSE)
    BY <1>4, <1>5, <2>2 DEF InStep
  <2>4. InStep(l, E, tokens', col', comment')
    BY <1>1, <2>1, <2>3
  <2>5. col' \in 0 .. n + 1
    BY <1>4, <2>1
  <2> QED
    BY <1>1, <1>2, <1>3, <1>5, <2>1, <2>4, <2>5 DEF LexInv, l
<1>7. CASE comment /\ ends = {}
  <2>1. col' = n + 1 /\ comment' = TRUE
    BY <1>1, <1>7
  <2>2. \A k \in 0 .. n : E[k] = "block"
    BY <1>2, <1>4, <1>7, BlockOpen
  <2>3. \A k \in 0 + 1 .. n : Reference!KindOf(E[k]) = "none"
    BY <1>4, <2>2, Kinds
  <2>4. CoveredTo(E, <<>>, n)
    BY <1>4, <1>5, <2>3, MoveCovers
  <2>5. E[n] = "block"
    BY <1>4, <2>2
  <2>6. InStep(l, E, <<>>, n + 1, TRUE)
    BY <2>4, <2>5 DEF InStep
  <2>7. InStep(l, E, tokens', col', comment')
    BY <1>1, <2>1, <2>6
  <2>8. col' \in 0 .. n + 1
    BY <1>4, <2>1
  <2> QED
    BY <1>1, <1>2, <1>3, <1>5, <2>1, <2>7, <2>8 DEF LexInv, l
<1>8. CASE comment /\ ends # {}
  <2>1. col' = first + 2 /\ comment' = FALSE
    BY <1>1, <1>8
  <2>2. /\ first \in 0 .. n - 2
        /\ \A k \in 0 .. first : E[k] = "block"
        /\ E[first + 1] = "close" /\ E[first + 2] = "between"
    <3>1. 0 \in 0 .. n
      BY <1>4
    <3> QED
      BY <1>2, <1>4, <1>8, <3>1, BlockClosed
  <2> HIDE DEF first
  <2>3. \A k \in 0 + 1 .. first + 2 : Reference!KindOf(E[k]) = "none"
    <3>1. \A k \in 0 + 1 .. first + 2 : k \in 0 .. first \/ k = first + 1 \/ k = first + 2
      BY <1>4, <2>2
    <3> QED
      BY <2>2, <3>1, Kinds
  <2>4. CoveredTo(E, <<>>, first + 2)
    <3>1. first + 2 \in Nat
      BY <1>4, <2>2
    <3> QED
      BY <1>5, <2>3, <3>1, MoveCovers
  <2>5. Resting(l, E, first + 2)
    BY <2>2 DEF Resting, Rests
  <2>6. first + 2 \in 0 .. n
    BY <1>4, <2>2
  <2>7. InStep(l, E, <<>>, first + 2, FALSE)
    BY <1>4, <2>4, <2>5, <2>6 DEF InStep
  <2>8. InStep(l, E, tokens', col', comment')
    BY <1>1, <2>1, <2>7
  <2>9. col' \in 0 .. n + 1
    BY <1>4, <2>1, <2>6
  <2> QED
    BY <1>1, <1>2, <1>3, <1>5, <2>1, <2>8, <2>9 DEF LexInv, l
<1> QED
  BY <1>6, <1>7, <1>8

LEMMA EndLineStep ==
  ASSUME LexInv, EndLine
  PROVE  LexInv'
<1>1. /\ status' = "reading" /\ line' = <<>> /\ col' = 0 /\ tokens' = <<>>
      /\ entered' = FALSE /\ overrun' = FALSE /\ row' = row /\ comment' = comment
  BY DEF EndLine
<1>2. Placed(line', tokens', col')
  BY <1>1, NoTokens
<1>3. line' \in Seq(STRING) /\ Len(line') = 0
  BY <1>1
<1>4. col' \in 0 .. Len(line') + (IF overrun' THEN 2 ELSE 1)
  BY <1>1, <1>3
<1>5. row' \in 0 .. MaxRows /\ comment' \in BOOLEAN
  BY <1>1 DEF LexInv
<1>6. /\ entered' \in BOOLEAN /\ overrun' \in BOOLEAN
      /\ status' = "reading" /\ tokens' = <<>> /\ ~overrun'
  BY <1>1
<1> QED
  BY <1>2, <1>3, <1>4, <1>5, <1>6, Zenon DEF LexInv

LEMMA LexStep == LexInv /\ [Next]_vars => LexInv'
<1> SUFFICES ASSUME LexInv, [Next]_vars PROVE LexInv'
  OBVIOUS
<1>1. CASE UNCHANGED vars
  BY <1>1 DEF vars, LexInv, Expected
<1>2. CASE EndOfFile
  <2>1. /\ status' = IF comment THEN "rejected" ELSE "accepted"
        /\ UNCHANGED <<row, line, col, comment, tokens, entered, overrun>>
    BY <1>2 DEF EndOfFile
  <2> QED
    BY <2>1 DEF LexInv
<1>3. CASE Done
  BY <1>1, <1>3 DEF Done
<1> QED
  BY <1>1, <1>2, <1>3, ReadLineStep, EndLineStep, SkipStep, LineCommentStep,
     BlockCommentStep, SymbolStep, StringLiteralStep, CharLiteralStep, NumberLiteralStep,
     WordStep
     DEF Next

LEMMA LexInit == Init => LexInv
<1> SUFFICES ASSUME Init PROVE LexInv
  OBVIOUS
<1>1. Placed(line, tokens, col)
  BY NoTokens DEF Init
<1>2. line \in Seq(STRING) /\ Len(line) = 0 /\ row \in 0 .. MaxRows
  BY LinesAssumption DEF LinesAssumption, Init
<1>3. col \in 0 .. Len(line) + (IF overrun THEN 2 ELSE 1)
  BY <1>2 DEF Init
<1>4. /\ comment \in BOOLEAN /\ entered \in BOOLEAN /\ overrun \in BOOLEAN
      /\ status = "reading" /\ tokens = <<>> /\ ~overrun
  BY DEF Init
<1> QED
  BY <1>1, <1>2, <1>3, <1>4, Zenon DEF LexInv

THEOREM LexerInvariance == Spec => []LexInv
  BY LexInit, LexStep, PTL DEF Spec

-----------------------------------------------------------------------------
(* What it says of the lexer.                                              *)

\* The column never passes the NUL of the line, but after a character literal
\* that is looked for beyond it; and every token is one.
THEOREM LexerTypeCorrect == Spec => []TypeOK
<1>1. LexInv => TypeOK
  <2> SUFFICES ASSUME LexInv PROVE TypeOK
    OBVIOUS
  <2>1. ASSUME NEW t \in DOMAIN tokens
        PROVE  tokens[t] \in Tokens
    <3>1. tokens \in Seq(Tokens)
      BY DEF LexInv, Placed
    <3> QED
      BY <3>1
  <2> QED
    BY <2>1 DEF TypeOK, LexInv, Tokens
<1> QED
  BY <1>1, LexerInvariance, PTL

\* The tokens of a line stand in the order of the line, whatever they are.
THEOREM TokensInOrder == Spec => []InOrder
<1>1. LexInv => InOrder
  <2> SUFFICES ASSUME LexInv, NEW s \in DOMAIN tokens, NEW t \in DOMAIN tokens, s < t
               PROVE  tokens[s].loc < tokens[t].loc /\ tokens[s].to < tokens[t].from
    BY DEF InOrder
  <2>1. tokens[s] \in Tokens /\ tokens[t] \in Tokens
    <3>1. tokens \in Seq(Tokens)
      BY DEF LexInv, Placed
    <3> QED
      BY <3>1
  <2>2. /\ tokens[s].loc <= tokens[s].to /\ tokens[s].to < tokens[t].from
        /\ tokens[t].from <= tokens[t].loc
    BY DEF LexInv, Placed
  <2> QED
    BY <2>1, <2>2 DEF Tokens
<1> QED
  BY <1>1, LexerInvariance, PTL

\* No two symbols that touch could have been an operator of two characters.
THEOREM SymbolsLongest == Spec => []LongestMatch
<1>1. LexInv => LongestMatch
  <2> SUFFICES ASSUME LexInv, NEW s \in DOMAIN tokens, NEW t \in DOMAIN tokens,
                      tokens[s].kind = "symbol", tokens[s].from = tokens[s].to,
                      tokens[t].kind = "symbol", tokens[t].from = tokens[s].to + 1
               PROVE  <<C(tokens[s].from), C(tokens[t].from)>> \notin LongOperators
    BY DEF LongestMatch
  <2>1. <<CharAt(line, tokens[s].from), CharAt(line, tokens[s].from + 1)>> \notin LongOperators
    BY DEF LexInv, Placed
  <2> QED
    BY <2>1 DEF C
<1> QED
  BY <1>1, LexerInvariance, PTL

\* Where a line ends the scanner is in a comment that goes on, or between two
\* things.
LEMMA AtLineEnd ==
  ASSUME LexInv, LineDone, ~overrun
  PROVE  /\ Expected[Len(line)] \in
              IF comment THEN {"block"}
              ELSE {"between", "stringend", "charend", "symbol", "word", "number", "line", "sign"}
         /\ CoveredTo(Expected, tokens, Len(line))
<1>1. InStep(line, Expected, tokens, col, comment) /\ col >= Len(line)
      /\ Len(line) \in Nat /\ col \in 0 .. Len(line) + 1
  BY DEF LexInv, LineDone
<1>2. CASE col <= Len(line)
  <2>1. col = Len(line)
    BY <1>1, <1>2
  <2> QED
    BY <1>1, <2>1 DEF InStep, Resting
<1>3. CASE ~(col <= Len(line))
  BY <1>1, <1>3 DEF InStep
<1> QED
  BY <1>2, <1>3

\* A comment is open after a line exactly if the scanner is in one, over any
\* number of lines; a file that ends in one is refused.
THEOREM CommentsCarried == Spec => []CommentCarried
<1>1. LexInv => CommentCarried
  <2> SUFFICES ASSUME LexInv PROVE CommentCarried
    OBVIOUS
  <2>1. status = "accepted" => ~comment
    BY DEF LexInv
  <2>2. ASSUME LineDone, ~overrun
        PROVE  comment <=> Expected[Len(line)] = "block"
    BY <2>2, AtLineEnd
  <2> QED
    BY <2>1, <2>2 DEF CommentCarried
<1> QED
  BY <1>1, LexerInvariance, PTL

\* A literal that is not closed on its line is refused.
THEOREM LiteralsAreClosed == Spec => []LiteralsClosed
<1>1. LexInv => LiteralsClosed
  BY AtLineEnd DEF LiteralsClosed, Reference!Unterminated
<1> QED
  BY <1>1, LexerInvariance, PTL

\* Every character of a line is in the one token a scanner of C finds it in,
\* or in none.
THEOREM EveryCharacterOnce == Spec => []LineCovered
<1>1. LexInv => LineCovered
  <2> SUFFICES ASSUME LexInv, LineDone, ~overrun, NEW i \in 0 .. Len(line) - 1
               PROVE  LET kind == Reference!KindOf(Expected[i + 1])
                      IN  IF kind = "none" THEN Covering(i) = {}
                          ELSE \E t \in Covering(i) : /\ Covering(i) = {t}
                                                      /\ tokens[t].kind = kind
    BY DEF LineCovered
  <2> DEFINE kind == Reference!KindOf(Expected[i + 1])
  <2>1. IF kind = "none"
        THEN \A t \in DOMAIN tokens : ~(tokens[t].from <= i /\ i <= tokens[t].to)
        ELSE \E t \in DOMAIN tokens : /\ tokens[t].from <= i /\ i <= tokens[t].to
                                      /\ tokens[t].kind = kind
    BY AtLineEnd DEF CoveredTo
  <2>2. ASSUME NEW s \in Covering(i), NEW t \in Covering(i)
        PROVE  s = t
    <3>1. /\ s \in DOMAIN tokens /\ t \in DOMAIN tokens
          /\ tokens \in Seq(Tokens)
          /\ tokens[s].from <= i /\ i <= tokens[s].to
          /\ tokens[t].from <= i /\ i <= tokens[t].to
      BY DEF Covering, LexInv, Placed
    <3>2. tokens[s] \in Tokens /\ tokens[t] \in Tokens /\ s \in Nat /\ t \in Nat
      BY <3>1
    <3>3. /\ s < t => tokens[s].to < tokens[t].from
          /\ t < s => tokens[t].to < tokens[s].from
      BY <3>1 DEF LexInv, Placed
    <3>4. /\ tokens[s].from \in Nat /\ tokens[s].to \in Nat
          /\ tokens[t].from \in Nat /\ tokens[t].to \in Nat
      BY <3>2 DEF Tokens
    <3>5. ~(s < t) /\ ~(t < s)
      BY <3>1, <3>3, <3>4
    <3> QED
      BY <3>2, <3>5
  <2> HIDE DEF kind
  <2>3. CASE kind = "none"
    <3>1. Covering(i) = {}
      BY <2>1, <2>3 DEF Covering
    <3> QED
      BY <2>3, <3>1 DEF kind
  <2>4. CASE kind # "none"
    <3>1. PICK t \in Covering(i) : tokens[t].kind = kind
      BY <2>1, <2>4 DEF Covering
    <3>2. Covering(i) = {t}
      BY <2>2, <3>1
    <3> QED
      BY <2>4, <3>1, <3>2 DEF kind
  <2> QED
    BY <2>3, <2>4
<1> QED
  BY <1>1, LexerInvariance, PTL
=============================================================================
