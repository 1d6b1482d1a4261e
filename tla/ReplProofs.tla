------------------------------ MODULE ReplProofs ------------------------------
(***************************************************************************)
(* Proofs about Repl, for whatever lines the user may type, whatever the   *)
(* node answers, any names of variables and of ENS, any width of integers  *)
(* and any number of lines.                                                *)
(***************************************************************************)
EXTENDS Repl, SequenceTheorems, FiniteSetTheorems, NaturalsInduction, TLAPS

-----------------------------------------------------------------------------
(* Numbers and sequences.                                                  *)

\* A set of naturals that is not empty has a least element.
LEMMA Least ==
  ASSUME NEW S \in SUBSET Nat, S # {}
  PROVE  \E n \in S : \A m \in S : n <= m
<1> DEFINE less == {ss \in Nat \X Nat : ss[1] < ss[2]}
<1>1. IsWellFoundedOn(less, Nat)
  BY NatLessThanWellFounded DEF OpToRel
<1>2. \E x \in S : \A y \in S : ~ (<<y, x>> \in less)
  <2> HIDE DEF less
  <2>1. QED
    BY <1>1, WFMin
<1>3. \A x, y \in Nat : y < x => <<y, x>> \in less
  OBVIOUS
<1>4. PICK x \in S : \A y \in S : ~ (<<y, x>> \in less)
  BY <1>2
<1>5. \A y \in S : ~ (y < x)
  <2> HIDE DEF less
  <2>1. QED
    BY <1>3, <1>4
<1>6. QED
  BY <1>5

LEMMA MinIsLeast ==
  ASSUME NEW S \in SUBSET Nat, S # {}
  PROVE  Min(S) \in S /\ \A m \in S : Min(S) <= m
BY Least DEF Min

IsSeq(s) == \E S : s \in Seq(S)

\* A function that puts one part before what it has at a later place, or nothing
\* when the places are used up: it is there, and gives sequences.
Chained(f, N, part, next) ==
    f = [i \in 1 .. N + 1 |-> IF i > N THEN <<>> ELSE part[i] \o f[next[i]]]

LEMMA ChainExists ==
  ASSUME NEW N \in Nat, NEW X, NEW part \in [1 .. N -> Seq(X)],
         NEW next \in [1 .. N -> 1 .. N + 1], \A i \in 1 .. N : next[i] > i
  PROVE  \E f : Chained(f, N, part, next)
<1> DEFINE Val(f, i) == IF i > N THEN <<>> ELSE part[i] \o f[next[i]]
           Fits(k, f) == /\ f = [i \in k .. N + 1 |-> f[i]]
                         /\ \A i \in k .. N + 1 : f[i] = Val(f, i)
           bads == {d \in 0 .. N : ~ \E f : Fits(N + 1 - d, f)}
<1>1. \E f : Fits(N + 1, f)
  <2> DEFINE f == [i \in N + 1 .. N + 1 |-> <<>>]
  <2>1. \A i \in N + 1 .. N + 1 : i > N /\ f[i] = <<>>
    OBVIOUS
  <2>2. f = [i \in N + 1 .. N + 1 |-> f[i]]
    OBVIOUS
  <2> HIDE DEF f
  <2>3. QED
    BY <2>1, <2>2
<1>2. ASSUME NEW k \in 1 .. N, \E g : Fits(k + 1, g)
      PROVE  \E f : Fits(k, f)
  <2>1. PICK g : Fits(k + 1, g)
    BY <1>2
  <2> DEFINE f == [i \in k .. N + 1 |-> IF i = k THEN part[k] \o g[next[k]] ELSE g[i]]
  <2>2. f = [i \in k .. N + 1 |-> f[i]] /\ f[k] = part[k] \o g[next[k]]
    OBVIOUS
  <2>3. \A i \in k + 1 .. N + 1 : f[i] = g[i] /\ i # k
    OBVIOUS
  <2> HIDE DEF f
  <2>4. ASSUME NEW i \in k .. N + 1
        PROVE  f[i] = Val(f, i)
    <3>1. CASE i > N
      <4>1. i \in k + 1 .. N + 1
        BY <3>1
      <4>2. QED
        BY <2>1, <2>3, <3>1, <4>1
    <3>2. CASE i \in 1 .. N
      <4>1. next[i] \in k + 1 .. N + 1
        BY <3>2
      <4>2. f[next[i]] = g[next[i]]
        BY <2>3, <4>1
      <4>3. CASE i = k
        <5>1. f[i] = part[i] \o g[next[i]]
          BY <2>2, <4>3
        <5>2. Val(f, i) = part[i] \o f[next[i]]
          BY <3>2
        <5>3. QED
          BY <4>2, <5>1, <5>2
      <4>4. CASE i \in k + 1 .. N + 1
        <5>1. f[i] = g[i] /\ g[i] = Val(g, i)
          BY <2>1, <2>3, <4>4
        <5>2. Val(f, i) = part[i] \o f[next[i]] /\ Val(g, i) = part[i] \o g[next[i]]
          BY <3>2
        <5>3. QED
          BY <4>2, <5>1, <5>2
      <4>5. QED
        BY <4>3, <4>4
    <3>3. QED
      BY <3>1, <3>2
  <2>5. QED
    BY <2>2, <2>4
<1>3. \E f : Fits(1, f)
  <2> SUFFICES ASSUME ~ \E f : Fits(1, f) PROVE FALSE
    OBVIOUS
  <2> HIDE DEF Fits
  <2>1. bads \in SUBSET Nat /\ N \in bads
    <3>1. N \in 0 .. N /\ N + 1 - N = 1
      OBVIOUS
    <3>2. QED
      BY <3>1
  <2>2. \E d \in bads : \A m \in bads : d <= m
    <3> HIDE DEF bads
    <3>1. QED
      BY <2>1, Least
  <2>3. PICK d \in bads : \A m \in bads : d <= m
    BY <2>2
  <2>4. d \in 1 .. N
    <3>1. d \in 0 .. N /\ ~ \E f : Fits(N + 1 - d, f)
      OBVIOUS
    <3>2. d # 0
      <4>1. CASE d = 0
        <5>1. N + 1 - d = N + 1
          BY <4>1
        <5>2. QED
          BY <1>1, <3>1, <5>1
      <4>2. QED
        BY <4>1
    <3>3. QED
      BY <3>1, <3>2
  <2>5. d - 1 \in 0 .. N /\ d - 1 \notin bads
    <3>1. d - 1 \in 0 .. N /\ ~ (d <= d - 1)
      BY <2>4
    <3> HIDE DEF bads
    <3>2. QED
      BY <2>3, <3>1
  <2>6. \E f : Fits(N + 1 - (d - 1), f)
    BY <2>5
  <2>7. N + 1 - d \in 1 .. N /\ N + 1 - (d - 1) = (N + 1 - d) + 1
    BY <2>4
  <2>8. \E f : Fits(N + 1 - d, f)
    BY <1>2, <2>6, <2>7
  <2>9. QED
    BY <2>8
<1>4. PICK f : Fits(1, f)
  BY <1>3
<1> DEFINE h == [i \in 1 .. N + 1 |-> Val(f, i)]
<1>5. h = [i \in 1 .. N + 1 |-> h[i]] /\ \A i \in 1 .. N + 1 : h[i] = Val(f, i)
  OBVIOUS
<1>6. f = h
  <2>1. \A i \in 1 .. N + 1 : f[i] = Val(f, i)
    BY <1>4
  <2>3. f = [i \in 1 .. N + 1 |-> f[i]]
    BY <1>4
  <2> HIDE DEF h, Val, Fits
  <2>2. QED
    BY <1>4, <1>5, <2>1, <2>3
<1>7. QED
  BY <1>6 DEF Chained

LEMMA ChainTyped ==
  ASSUME NEW N \in Nat, NEW X, NEW part \in [1 .. N -> Seq(X)],
         NEW next \in [1 .. N -> 1 .. N + 1], \A i \in 1 .. N : next[i] > i,
         NEW f, Chained(f, N, part, next)
  PROVE  \A i \in 1 .. N + 1 : f[i] \in Seq(X)
<1> DEFINE bads == {d \in 0 .. N : f[N + 1 - d] \notin Seq(X)}
<1>1. \A i \in 1 .. N + 1 : f[i] = IF i > N THEN <<>> ELSE part[i] \o f[next[i]]
  BY DEF Chained
<1>2. bads = {}
  <2> SUFFICES ASSUME bads # {} PROVE FALSE
    OBVIOUS
  <2>1. bads \in SUBSET Nat
    OBVIOUS
  <2>2. \E d \in bads : \A m \in bads : d <= m
    <3> HIDE DEF bads
    <3>1. QED
      BY <2>1, Least
  <2>3. PICK d \in bads : \A m \in bads : d <= m
    BY <2>2
  <2> DEFINE i == N + 1 - d
  <2>4. d \in 0 .. N /\ i \in 1 .. N + 1 /\ f[i] \notin Seq(X)
    OBVIOUS
  <2> HIDE DEF i
  <2>5. i \in 1 .. N
    <3>1. CASE i = N + 1
      <4>1. f[i] = <<>>
        BY <1>1, <3>1
      <4>2. QED
        BY <2>4, <4>1, EmptySeq
    <3>2. QED
      BY <2>4, <3>1
  <2>6. next[i] \in 1 .. N + 1 /\ next[i] > i
    BY <2>5
  <2>7. f[next[i]] \in Seq(X)
    <3>1. N + 1 - next[i] \in 0 .. N /\ N + 1 - next[i] < d
      BY <2>4, <2>5, <2>6 DEF i
    <3>2. N + 1 - (N + 1 - next[i]) = next[i]
      BY <2>6
    <3>3. N + 1 - next[i] \notin bads
      <4> HIDE DEF bads
      <4>1. QED
        BY <2>1, <2>3, <3>1
    <3>4. QED
      BY <3>1, <3>2, <3>3
  <2>8. f[i] = part[i] \o f[next[i]]
    <3>1. i \in 1 .. N + 1 /\ ~ (i > N)
      BY <2>5
    <3>2. QED
      BY <1>1, <3>1
  <2>9. QED
    BY <2>4, <2>5, <2>7, <2>8, ConcatProperties
<1>3. QED
  <2> TAKE i \in 1 .. N + 1
  <2>1. N + 1 - i \in 0 .. N /\ N + 1 - (N + 1 - i) = i
    OBVIOUS
  <2>2. QED
    BY <1>2, <2>1

\* What is defined by such a recursion is there and is a sequence.
LEMMA ChainIsSeq ==
  ASSUME NEW N \in Nat, NEW X, NEW part \in [1 .. N -> Seq(X)],
         NEW next \in [1 .. N -> 1 .. N + 1], \A i \in 1 .. N : next[i] > i,
         NEW from, from = CHOOSE f : Chained(f, N, part, next)
  PROVE  Chained(from, N, part, next) /\ from[1] \in Seq(X)
<1>1. \E f : Chained(f, N, part, next)
  BY ChainExists
<1>2. Chained(from, N, part, next)
  BY <1>1
<1>3. \A i \in 1 .. N + 1 : from[i] \in Seq(X)
  BY <1>2, ChainTyped
<1>4. 1 \in 1 .. N + 1
  OBVIOUS
<1>5. QED
  BY <1>2, <1>3, <1>4

-----------------------------------------------------------------------------
(* The tokenizer and the parser give sequences.                            *)

LEMMA WithoutIsSeq ==
  ASSUME NEW S, NEW t \in Seq(S), NEW toks
  PROVE  Without(t, toks) \in Seq(S)
<1> DEFINE N == Len(t)
           part == [i \in 1 .. N |-> IF t[i].tok \in toks THEN <<>> ELSE <<t[i]>>]
           next == [i \in 1 .. N |-> i + 1]
           from == CHOOSE f : f = [i \in 1 .. Len(t) + 1 |->
                                     IF i > Len(t) THEN <<>>
                                     ELSE (IF t[i].tok \in toks THEN <<>> ELSE <<t[i]>>) \o f[i + 1]]
<1>1. /\ N \in Nat /\ part \in [1 .. N -> Seq(S)] /\ next \in [1 .. N -> 1 .. N + 1]
      /\ \A i \in 1 .. N : next[i] > i
  OBVIOUS
<1>2. from = CHOOSE f : Chained(f, N, part, next)
  <2>1. ASSUME NEW f
        PROVE  [i \in 1 .. N + 1 |-> IF i > N THEN <<>> ELSE part[i] \o f[next[i]]]
                 = [i \in 1 .. Len(t) + 1 |->
                      IF i > Len(t) THEN <<>>
                      ELSE (IF t[i].tok \in toks THEN <<>> ELSE <<t[i]>>) \o f[i + 1]]
    OBVIOUS
  <2>2. QED
    BY <2>1 DEF Chained
<1>3. from[1] \in Seq(S)
  <2> HIDE DEF N, part, next, from
  <2>1. QED
    BY <1>1, <1>2, ChainIsSeq
<1>4. QED
  BY <1>3 DEF Without

\* A block closes behind the place where it opens, or nowhere.
LEMMA ClosingBehind ==
  ASSUME NEW S, NEW line \in Seq(S), NEW i \in 1 .. Len(line)
  PROVE  Closing(line, i) = 0 \/ Closing(line, i) \in i + 1 .. Len(line)
<1> DEFINE close == IF line[i].tok = "LBrace" THEN "RBrace" ELSE "RBracket"
           Depth(j) == Cardinality({k \in i .. j : line[k].tok = line[i].tok})
                         - Cardinality({k \in i .. j : line[k].tok = close})
           ends == {j \in i + 1 .. Len(line) : Depth(j) = 0}
<1>1. Closing(line, i) = IF ends = {} THEN 0 ELSE Min(ends)
  BY DEF Closing
<1>2. ends \subseteq i + 1 .. Len(line) /\ ends \in SUBSET Nat
  <2> HIDE DEF Depth
  <2>1. QED
    OBVIOUS
<1> HIDE DEF ends
<1>3. QED
  BY <1>1, <1>2, MinIsLeast

LEMMA TokensIsSeq ==
  ASSUME NEW S, NEW line \in Seq(S)
  PROVE  IsSeq(Tokens(line))
<1> DEFINE N == Len(line)
           Opens(i) == line[i].tok \in {"LBrace", "LBracket"}
           Closes(i) == line[i].tok \in {"RBrace", "RBracket"}
           block(i) == JsonBlock(line[i].tok, SubSeq(line, i + 1, Closing(line, i) - 1))
           X == {Bad} \cup {block(i) : i \in 1 .. N} \cup S
           part == [i \in 1 .. N |-> IF Opens(i) /\ Closing(line, i) # 0 THEN <<block(i)>>
                                      ELSE IF Opens(i) \/ Closes(i) THEN <<Bad>> ELSE <<line[i]>>]
           next == [i \in 1 .. N |-> IF Opens(i) /\ Closing(line, i) # 0 THEN Closing(line, i) + 1
                                      ELSE IF Opens(i) \/ Closes(i) THEN N + 1 ELSE i + 1]
           Body(f, i) ==
             IF i > Len(line) THEN <<>>
             ELSE CASE line[i].tok \in {"LBrace", "LBracket"} ->
                         LET j == Closing(line, i)
                         IN IF j = 0 THEN <<Bad>>
                            ELSE <<JsonBlock(line[i].tok, SubSeq(line, i + 1, j - 1))>> \o f[j + 1]
                    [] line[i].tok \in {"RBrace", "RBracket"} -> <<Bad>>
                    [] OTHER -> <<line[i]>> \o f[i + 1]
           from == CHOOSE f : f = [i \in 1 .. Len(line) + 1 |-> Body(f, i)]
<1>1. /\ N \in Nat /\ part \in [1 .. N -> Seq(X)] /\ next \in [1 .. N -> 1 .. N + 1]
      /\ \A i \in 1 .. N : next[i] > i
  <2>1. N \in Nat
    OBVIOUS
  <2>2. part \in [1 .. N -> Seq(X)]
    <3>1. \A i \in 1 .. N : block(i) \in X /\ line[i] \in X /\ Bad \in X
      OBVIOUS
    <3> HIDE DEF block, X, Opens, Closes
    <3>2. QED
      BY <3>1
  <2>3. ASSUME NEW i \in 1 .. N
        PROVE  next[i] \in 1 .. N + 1 /\ next[i] > i
    <3>1. Closing(line, i) = 0 \/ Closing(line, i) \in i + 1 .. N
      BY ClosingBehind
    <3>2. next[i] = IF Opens(i) /\ Closing(line, i) # 0 THEN Closing(line, i) + 1
                    ELSE IF Opens(i) \/ Closes(i) THEN N + 1 ELSE i + 1
      OBVIOUS
    <3> HIDE DEF next, part, Opens, Closes
    <3>3. QED
      BY <2>1, <3>1, <3>2
  <2>4. next = [i \in 1 .. N |-> next[i]]
    OBVIOUS
  <2> HIDE DEF part, next
  <2>5. QED
    BY <2>1, <2>2, <2>3, <2>4
<1>2. from = CHOOSE f : Chained(f, N, part, next)
  <2>1. ASSUME NEW f, f[N + 1] = <<>>, NEW i \in 1 .. N + 1
        PROVE  (IF i > N THEN <<>> ELSE part[i] \o f[next[i]]) = Body(f, i)
    <3>1. CASE i > N
      BY <3>1
    <3>2. CASE i \in 1 .. N /\ Opens(i) /\ Closing(line, i) # 0
      <4>1. Body(f, i) = <<block(i)>> \o f[Closing(line, i) + 1]
        BY <3>2
      <4>2. part[i] = <<block(i)>> /\ next[i] = Closing(line, i) + 1
        BY <3>2
      <4> HIDE DEF Body, part, next, block
      <4>3. QED
        BY <3>2, <4>1, <4>2
    <3>3. CASE i \in 1 .. N /\ Opens(i) /\ Closing(line, i) = 0
      <4>1. Body(f, i) = <<Bad>>
        BY <3>3
      <4>2. part[i] = <<Bad>> /\ next[i] = N + 1
        BY <3>3
      <4>3. <<Bad>> \o <<>> = <<Bad>>
        OBVIOUS
      <4> HIDE DEF Body, part, next, block
      <4>4. part[i] \o f[next[i]] = <<Bad>>
        BY <2>1, <4>2, <4>3
      <4>5. QED
        BY <3>3, <4>1, <4>4
    <3>4. CASE i \in 1 .. N /\ Closes(i)
      <4>1. Body(f, i) = <<Bad>>
        BY <3>4
      <4>2. part[i] = <<Bad>> /\ next[i] = N + 1
        BY <3>4
      <4>3. <<Bad>> \o <<>> = <<Bad>>
        OBVIOUS
      <4> HIDE DEF Body, part, next, block
      <4>4. part[i] \o f[next[i]] = <<Bad>>
        BY <2>1, <4>2, <4>3
      <4>5. QED
        BY <3>4, <4>1, <4>4
    <3>5. CASE i \in 1 .. N /\ ~Opens(i) /\ ~Closes(i)
      <4>1. Body(f, i) = <<line[i]>> \o f[i + 1]
        BY <3>5
      <4>2. part[i] = <<line[i]>> /\ next[i] = i + 1
        BY <3>5
      <4> HIDE DEF Body, part, next, block
      <4>3. QED
        BY <3>5, <4>1, <4>2
    <3>6. QED
      BY <3>1, <3>2, <3>3, <3>4, <3>5
  <2>2. ASSUME NEW f
        PROVE  Chained(f, N, part, next) <=> f = [i \in 1 .. Len(line) + 1 |-> Body(f, i)]
    <3>1. CASE f[N + 1] = <<>>
      <4>1. \A i \in 1 .. N + 1 :
              (IF i > N THEN <<>> ELSE part[i] \o f[next[i]]) = Body(f, i)
        BY <2>1, <3>1
      <4> HIDE DEF Body, part, next
      <4>2. QED
        BY <4>1 DEF Chained
    <3>2. CASE f[N + 1] # <<>>
      <4>1. N + 1 \in 1 .. N + 1 /\ N + 1 > N /\ Body(f, N + 1) = <<>>
        OBVIOUS
      <4> HIDE DEF Body, part, next
      <4>2. QED
        BY <3>2, <4>1 DEF Chained
    <3>3. QED
      BY <3>1, <3>2
  <2> HIDE DEF Body, part, next
  <2>3. QED
    BY <2>2
<1>3. from[1] \in Seq(X)
  <2> HIDE DEF N, part, next, from, X
  <2>1. QED
    BY <1>1, <1>2, ChainIsSeq
<1>4. Tokens(line) = from[1]
  BY DEF Tokens
<1>5. QED
  BY <1>3, <1>4 DEF IsSeq

LEMMA RawArgsIsSeq ==
  ASSUME NEW S, NEW t \in Seq(S)
  PROVE  RawArgs(t) \in Seq(S)
<1> DEFINE closes == {i \in DOMAIN t : t[i].tok = "RParen"}
           between == SubSeq(t, 2, Min(closes) - 1)
<1>1. CASE t # <<>> /\ t[1].tok = "LParen" /\ closes # {}
  <2>1. closes \in SUBSET Nat /\ closes \subseteq 1 .. Len(t)
    OBVIOUS
  <2>2. Min(closes) \in 1 .. Len(t)
    <3> HIDE DEF closes
    <3>1. QED
      BY <1>1, <2>1, MinIsLeast
  <2>3. \A i \in 2 .. Min(closes) - 1 : t[i] \in S
    <3> HIDE DEF closes
    <3>1. QED
      BY <2>2
  <2>4. between \in Seq(S)
    <3> HIDE DEF closes
    <3>1. QED
      BY <2>2, <2>3, SubSeqProperties
  <2>5. RawArgs(t) = Without(between, {"Comma"})
    BY <1>1 DEF RawArgs
  <2>6. QED
    BY <2>4, <2>5, WithoutIsSeq
<1>2. CASE ~ (t # <<>> /\ t[1].tok = "LParen" /\ closes # {})
  <2>1. RawArgs(t) = Without(t, {"Comma"})
    BY <1>2 DEF RawArgs
  <2>2. QED
    BY <2>1, WithoutIsSeq
<1>3. QED
  BY <1>1, <1>2

LEMMA ArgsIsSeq ==
  ASSUME NEW S, NEW t \in Seq(S)
  PROVE  IsSeq(parse_rpc_args(t))
<1> DEFINE raw == RawArgs(t)
           N == Len(raw)
           arg(i) == IF IsOffset(raw, i) THEN Reference(raw[i], Offset(raw, i))
                     ELSE IF raw[i].tok = "VarRef" THEN Reference(raw[i], Null)
                     ELSE Literal(ValueOf(raw[i]))
           X == {arg(i) : i \in 1 .. N}
           part == [i \in 1 .. N |-> <<arg(i)>>]
           next == [i \in 1 .. N |-> IF IsOffset(raw, i) THEN i + 3 ELSE i + 1]
           Body(f, i) ==
             IF i > Len(raw) THEN <<>>
             ELSE IF IsOffset(raw, i) THEN <<Reference(raw[i], Offset(raw, i))>> \o f[i + 3]
             ELSE IF raw[i].tok = "VarRef" THEN <<Reference(raw[i], Null)>> \o f[i + 1]
             ELSE <<Literal(ValueOf(raw[i]))>> \o f[i + 1]
           from == CHOOSE f : f = [i \in 1 .. Len(raw) + 1 |-> Body(f, i)]
<1>1. raw \in Seq(S) /\ N \in Nat
  BY RawArgsIsSeq
<1>2. parse_rpc_args(t) = from[1]
  BY DEF parse_rpc_args
<1> HIDE DEF raw
<1>3. part \in [1 .. N -> Seq(X)]
  <2>1. \A i \in 1 .. N : arg(i) \in X
    OBVIOUS
  <2> HIDE DEF arg, X
  <2>2. QED
    BY <2>1
<1>4. next \in [1 .. N -> 1 .. N + 1] /\ \A i \in 1 .. N : next[i] > i
  <2>1. \A i \in 1 .. N : IsOffset(raw, i) => i + 2 <= N
    BY DEF IsOffset
  <2>2. QED
    BY <1>1, <2>1
<1>5. from = CHOOSE f : Chained(f, N, part, next)
  <2>1. ASSUME NEW f, NEW i \in 1 .. N + 1
        PROVE  (IF i > N THEN <<>> ELSE part[i] \o f[next[i]]) = Body(f, i)
    <3>1. CASE i > N
      BY <3>1
    <3>2. CASE i \in 1 .. N
      <4>1. part[i] = <<arg(i)>> /\ next[i] = IF IsOffset(raw, i) THEN i + 3 ELSE i + 1
        BY <3>2
      <4>2. Body(f, i) = <<arg(i)>> \o f[IF IsOffset(raw, i) THEN i + 3 ELSE i + 1]
        BY <1>1, <3>2
      <4> HIDE DEF Body, part, next, arg
      <4>3. QED
        BY <1>1, <3>2, <4>1, <4>2
    <3>3. QED
      BY <1>1, <3>1, <3>2
  <2>2. ASSUME NEW f
        PROVE  Chained(f, N, part, next) <=> f = [i \in 1 .. Len(raw) + 1 |-> Body(f, i)]
    <3> HIDE DEF Body, part, next
    <3>1. QED
      BY <2>1 DEF Chained
  <2> HIDE DEF Body, part, next
  <2>3. QED
    BY <2>2
<1>6. from[1] \in Seq(X)
  <2> HIDE DEF N, part, next, from, X
  <2>1. QED
    BY <1>1, <1>3, <1>4, <1>5, ChainIsSeq
<1>7. QED
  BY <1>2, <1>6 DEF IsSeq

\* The arguments of a call are a sequence, whatever was typed.
LEMMA CommandArgs ==
  ASSUME NEW S, NEW t \in Seq(S), Command(t).command = "RpcCall"
  PROVE  IsSeq(Command(t).args)
<1> DEFINE rest == SubSeq(t, 4, Len(t))
<1>1. t # <<>>
  BY DEF Command, Empty
<1>2. /\ Len(t) >= 3 /\ t[1].tok = "Ident" /\ t[2].tok = "Dot" /\ t[3].tok = "Ident"
      /\ Command(t).args = parse_rpc_args(rest)
  BY <1>1 DEF Command, ParseError
<1>3. rest \in Seq(S)
  BY SubSeqProperties
<1>4. QED
  BY <1>2, <1>3, ArgsIsSeq

LEMMA ParsedArgs ==
  ASSUME NEW S, NEW line \in Seq(S)
  PROVE  /\ Parse(line).command = "RpcCall" => IsSeq(Parse(line).args)
         /\ Parse(line).command = "Assignment" /\ Parse(line).inner.command = "RpcCall"
              => IsSeq(Parse(line).inner.args)
<1> DEFINE t == Tokens(line)
           inner == SubSeq(t, 3, Len(t))
<1>1. PICK X : t \in Seq(X)
  BY TokensIsSeq DEF IsSeq
<1>2. Parse(line).command = "RpcCall" => Parse(line) = Command(t)
  BY DEF Parse, Empty, ParseError
<1>3. Parse(line).command = "Assignment" => Parse(line) = Command(t) \/ Parse(line).inner = Command(inner)
  BY DEF Parse, Empty, ParseError
<1>4. Command(t).command # "Assignment"
  BY DEF Command, Empty, ParseError
<1> HIDE DEF t
<1>5. inner \in Seq(X)
  BY <1>1, SubSeqProperties
<1>6. QED
  BY <1>1, <1>2, <1>3, <1>4, <1>5, CommandArgs

-----------------------------------------------------------------------------
(* The registry.                                                           *)

Types == {"Address", "Hash", "HexData", "BlockId", "Uint", "Bool", "Object", "Array",
          "StringParam"}

\* A method takes a sequence of parameters of known types.
Param == [type : Types, required : BOOLEAN, default : {Null, Text("latest"), Text("false")}]

\* An address has no default, so it is never made up.
NoDefaultAddress(params) ==
    \A i \in DOMAIN params : params[i].type = "Address" => params[i].default = Null

WellFormed(params) == params \in Seq(Param) /\ NoDefaultAddress(params)

LEMMA ParamKinds ==
  /\ \A type \in Types : Required(type) \in Param /\ Optional(type) \in Param
  /\ \A type \in Types : Required(type).default = Null /\ Optional(type).default = Null
  /\ AtLatest \in Param /\ AtLatest.type # "Address"
  /\ FullTxs \in Param /\ FullTxs.type # "Address"
BY DEF Param, Types, Required, Optional, AtLatest, FullTxs, Default

LEMMA ListsWellFormed ==
  /\ WellFormed(ADDR_BLOCK)
  /\ WellFormed(BLOCK_FULLTXS)
  /\ WellFormed(HASH_FULLTXS)
  /\ WellFormed(TX_OBJECT_BLOCK)
  /\ WellFormed(FILTER_OBJECT)
  /\ WellFormed(FILTER_ID)
  /\ WellFormed(GET_STORAGE_AT)
  /\ WellFormed(BLOCK_INDEX)
  /\ WellFormed(HASH_INDEX)
  /\ WellFormed(SEND_RAW_TX)
  /\ WellFormed(FEE_HISTORY)
  /\ WellFormed(GET_PROOF)
  /\ WellFormed(HASH_OPTIONS)
  /\ WellFormed(BLOCK_OPTIONS)
  /\ WellFormed(<<>>) /\ WellFormed(<<Block>>) /\ WellFormed(<<Hash>>)
<1> USE ParamKinds DEF WellFormed, NoDefaultAddress, Block, Hash, Address, Types
<1> HIDE DEF Required, Optional, AtLatest, FullTxs, Param
<1>1. WellFormed(ADDR_BLOCK)
  BY DEF ADDR_BLOCK
<1>2. WellFormed(BLOCK_FULLTXS)
  BY DEF BLOCK_FULLTXS
<1>3. WellFormed(HASH_FULLTXS)
  BY DEF HASH_FULLTXS
<1>4. WellFormed(TX_OBJECT_BLOCK)
  BY DEF TX_OBJECT_BLOCK
<1>5. WellFormed(FILTER_OBJECT)
  BY DEF FILTER_OBJECT
<1>6. WellFormed(FILTER_ID)
  BY DEF FILTER_ID
<1>7. WellFormed(GET_STORAGE_AT)
  BY DEF GET_STORAGE_AT
<1>8. WellFormed(BLOCK_INDEX)
  BY DEF BLOCK_INDEX
<1>9. WellFormed(HASH_INDEX)
  BY DEF HASH_INDEX
<1>10. WellFormed(SEND_RAW_TX)
  BY DEF SEND_RAW_TX
<1>11. WellFormed(FEE_HISTORY)
  BY DEF FEE_HISTORY
<1>12. WellFormed(GET_PROOF)
  BY DEF GET_PROOF
<1>13. WellFormed(HASH_OPTIONS)
  BY DEF HASH_OPTIONS
<1>14. WellFormed(BLOCK_OPTIONS)
  BY DEF BLOCK_OPTIONS
<1>15. WellFormed(<<>>)
  OBVIOUS
<1>16. WellFormed(<<Block>>)
  OBVIOUS
<1>17. WellFormed(<<Hash>>)
  OBVIOUS
<1>18. QED
  BY <1>1, <1>2, <1>3, <1>4, <1>5, <1>6, <1>7, <1>8, <1>9, <1>10, <1>11, <1>12, <1>13, <1>14, <1>15, <1>16, <1>17

\* What is asked for is what one of the commands says.
LEMMA TableWellFormed ==
  ASSUME NEW commands, \A c \in commands : WellFormed(c[2])
  PROVE  \A method \in DOMAIN Table(commands) : WellFormed(Table(commands)[method])
BY DEF Table

LEMMA CommandsWellFormed ==
  ASSUME NEW names, NEW params, WellFormed(params)
  PROVE  \A c \in Commands(names, params) : WellFormed(c[2])
BY DEF Commands

\* Every method of every namespace takes well-formed parameters.
LEMMA RegistryWellFormed ==
  ASSUME NEW namespace, NEW method, Known(namespace, method)
  PROVE  WellFormed(Registry[namespace][method])
<1> DEFINE Fine(commands) == \A c \in commands : WellFormed(c[2])
<1> HIDE DEF WellFormed, Fine
<1>1. ASSUME NEW names, NEW params, WellFormed(params)
      PROVE  Fine(Commands(names, params))
  BY <1>1, CommandsWellFormed DEF Fine
<1>2. ASSUME NEW C, NEW D, Fine(C), Fine(D)
      PROVE  Fine(C \cup D)
  BY <1>2 DEF Fine
<1>3. Fine(eth_accounts)
  BY <1>1, <1>2, ListsWellFormed DEF eth_accounts
<1>4. Fine(eth_blocks)
  BY <1>1, <1>2, ListsWellFormed DEF eth_blocks
<1>5. Fine(eth_calls)
  BY <1>1, <1>2, ListsWellFormed DEF eth_calls
<1>6. /\ WellFormed(<<Required("Object"), Optional("Object")>>)
      /\ WellFormed(<<Required("HexData")>>) /\ WellFormed(<<Required("StringParam")>>)
      /\ WellFormed(<<Required("Object"), Required("Array"), Hash, Required("Array")>>)
  BY ParamKinds DEF WellFormed, NoDefaultAddress, Hash, Types
<1>7. Fine(engine)
  BY <1>1, <1>2, <1>6 DEF engine
<1>8. Fine(debug)
  BY <1>1, <1>2, ListsWellFormed DEF debug
<1>9. Fine(admin)
  BY <1>1, <1>2, <1>6, ListsWellFormed DEF admin
<1>10. Fine(net) /\ Fine(web3) /\ Fine(txpool)
  BY <1>1, <1>2, ListsWellFormed DEF net, web3, txpool
<1>11. \E C : Fine(C) /\ Registry[namespace] = Table(C)
  <2>1. Fine(eth_accounts \cup eth_blocks \cup eth_calls)
    BY <1>2, <1>3, <1>4, <1>5
  <2>2. namespace \in {"eth", "engine", "debug", "admin", "net", "web3", "txpool"}
    BY DEF Known, Registry
  <2>3. QED
    BY <1>7, <1>8, <1>9, <1>10, <2>1, <2>2 DEF Registry
<1>12. QED
  BY <1>11, TableWellFormed DEF Fine, Known

-----------------------------------------------------------------------------
(* Arguments.                                                              *)

\* A number that is accepted is sent as this number, unless JSON is too narrow for it.
LEMMA ConvertedNumber ==
  ASSUME NEW v, NEW n, NEW type \in Types, Denotes(v, n), Converted(v, type) # Invalid
  PROVE  \/ Denotes(Converted(v, type), n)
         \/ /\ type \in {"Object", "Array"} /\ v.kind = "decimal" /\ n \notin JsonIntegers
            /\ Converted(v, type) = Float
<1> USE DEF Denotes, IsNumber, Converted, Invalid, Hex, JsonNumber, Text, IsString, Is0x,
            IsAddress, value_as_str, Decimal, JsonInteger, Float
<1>1. CASE type = "Address"
  BY <1>1
<1>2. CASE type = "Hash"
  BY <1>2
<1>3. CASE type = "HexData"
  BY <1>3
<1>4. CASE type = "BlockId"
  BY <1>4
<1>5. CASE type = "Uint"
  BY <1>5
<1>6. CASE type = "Bool"
  BY <1>6
<1>7. CASE type = "Object"
  BY <1>7
<1>8. CASE type = "Array"
  BY <1>8
<1>9. CASE type = "StringParam"
  BY <1>9
<1>10. QED
  BY <1>1, <1>2, <1>3, <1>4, <1>5, <1>6, <1>7, <1>8, <1>9 DEF Types

LEMMA ConvertedAddress ==
  ASSUME NEW v, Converted(v, "Address") # Invalid
  PROVE  Converted(v, "Address").kind = "address"
BY DEF Converted, IsAddress

\* The parameters that are built: one for every argument, converted, and then defaults.
LEMMA BuiltParams ==
  ASSUME NEW params, WellFormed(params), NEW S, NEW args \in Seq(S), Built(params, args).ok
  PROVE  LET p == Built(params, args).params
         IN /\ Len(p) \in Nat /\ DOMAIN p = 1 .. Len(p)
            /\ Len(args) <= Len(p) /\ Len(p) <= Len(params)
            /\ \A i \in 1 .. Len(args) : /\ p[i] = Converted(args[i], params[i].type)
                                          /\ p[i] # Invalid
            /\ \A i \in 1 .. Len(p) : i > Len(args) =>
                  p[i] = params[i].default /\ params[i].default # Null
<1> DEFINE absent == {i \in DOMAIN params : i > Len(args) /\ params[i].default = Null}
           last == IF absent = {} THEN Len(params) ELSE Min(absent) - 1
           built == [i \in 1 .. last |->
                       IF i <= Len(args) THEN Converted(args[i], params[i].type)
                       ELSE params[i].default]
           required == Cardinality({i \in DOMAIN params : params[i].required})
<1>1. /\ Built(params, args).params = built
      /\ Len(args) \in required .. Len(params) /\ \A i \in 1 .. last : built[i] # Invalid
  BY DEF Built
<1>2. Len(params) \in Nat /\ DOMAIN params = 1 .. Len(params) /\ Len(args) \in Nat
  BY DEF WellFormed
<1>3. Len(args) <= Len(params)
  <2> HIDE DEF required, absent, built
  <2>1. QED
    BY <1>1, <1>2
<1>4. /\ last \in Nat /\ Len(args) <= last /\ last <= Len(params)
      /\ \A i \in 1 .. last : i \notin absent
  <2>1. absent \in SUBSET Nat /\ \A i \in absent : i > Len(args) /\ i <= Len(params)
    BY <1>2
  <2> HIDE DEF absent
  <2>2. CASE absent = {}
    BY <1>2, <1>3, <2>2
  <2>3. CASE absent # {}
    <3>1. Min(absent) \in absent /\ \A m \in absent : Min(absent) <= m
      BY <2>1, <2>3, MinIsLeast
    <3>2. Min(absent) > Len(args) /\ Min(absent) <= Len(params) /\ Min(absent) \in Nat
      BY <2>1, <3>1
    <3>3. last = Min(absent) - 1
      BY <2>3
    <3>4. \A i \in 1 .. last : ~ (Min(absent) <= i)
      BY <3>2, <3>3
    <3>5. QED
      BY <1>2, <3>1, <3>2, <3>3, <3>4
  <2>4. QED
    BY <2>2, <2>3
<1>5. Len(built) = last /\ DOMAIN built = 1 .. last
  <2> HIDE DEF absent, last
  <2>1. QED
    BY <1>4
<1>6. \A i \in 1 .. last : built[i] = IF i <= Len(args) THEN Converted(args[i], params[i].type)
                                      ELSE params[i].default
  <2> HIDE DEF absent, last
  <2>1. QED
    OBVIOUS
<1>7. ASSUME NEW i \in 1 .. last, i > Len(args)
      PROVE  params[i].default # Null
  BY <1>2, <1>4, <1>7
<1> HIDE DEF absent, last, built, required
<1>8. QED
  BY <1>1, <1>2, <1>4, <1>5, <1>6, <1>7

-----------------------------------------------------------------------------
(* What was written and what is asked.                                     *)

\* A value stands for the argument: when a number was meant it is this one, or the
\* u64 of its bits.
StandsFor(v, arg) ==
    LET meant == Meant(arg) IN IsNumber(meant) => Denotes(v, meant.n) \/ v = Wrapped(meant)

\* What may be sent for the argument: the same, or a float for a number too wide.
SentFor(v, type, arg) ==
    LET meant == Meant(arg)
    IN IsNumber(meant) =>
         \/ Denotes(v, meant.n)
         \/ v = Wrapped(meant)
         \/ type \in {"Object", "Array"} /\ meant.n \notin JsonIntegers /\ v = Float

\* A wrapped result is a quantity, and as such is sent or refused.
LEMMA ConvertedWrapped ==
  ASSUME NEW meant, NEW type \in Types, Wrapped(meant) # meant,
         Converted(Wrapped(meant), type) # Invalid
  PROVE  Converted(Wrapped(meant), type) = Wrapped(meant)
<1>1. Wrapped(meant).kind = "hex"
  BY DEF Wrapped, Hex
<1> DEFINE w == Wrapped(meant)
<1> HIDE DEF w
<1>2. w.kind = "hex" /\ Converted(w, type) # Invalid => Converted(w, type) = w
  BY DEF Converted, Invalid, Text, Hex, IsString, Is0x, IsAddress, value_as_str, Types
<1>3. QED
  BY <1>1, <1>2 DEF w

\* Building the parameters sends what an argument stands for.
LEMMA ConvertedStandsFor ==
  ASSUME NEW v, NEW type \in Types, NEW arg, StandsFor(v, arg), Converted(v, type) # Invalid
  PROVE  SentFor(Converted(v, type), type, arg)
<1> DEFINE meant == Meant(arg)
<1>1. SUFFICES ASSUME IsNumber(meant)
               PROVE  \/ Denotes(Converted(v, type), meant.n)
                      \/ Converted(v, type) = Wrapped(meant)
                      \/ /\ type \in {"Object", "Array"} /\ meant.n \notin JsonIntegers
                         /\ Converted(v, type) = Float
  BY DEF SentFor
<1>2. Denotes(v, meant.n) \/ v = Wrapped(meant)
  BY <1>1 DEF StandsFor
<1> HIDE DEF meant
<1>3. CASE Denotes(v, meant.n)
  BY <1>3, ConvertedNumber
<1>4. CASE v = Wrapped(meant) /\ v # meant
  BY <1>4, ConvertedWrapped
<1>5. CASE v = Wrapped(meant) /\ v = meant
  BY <1>1, <1>3, <1>5 DEF Denotes
<1>6. QED
  BY <1>2, <1>3, <1>4, <1>5

\* Variables are looked up and offsets added without losing the number.
LEMMA ResolvedStandsFor ==
  ASSUME NEW args, NEW i \in DOMAIN args, resolve_var_args(args)[i] # Invalid
  PROVE  StandsFor(resolve_var_args(args)[i], args[i])
<1> DEFINE arg == args[i]
           v == resolve_var_args(args)[i]
           meant == Meant(arg)
<1>1. v = IF arg.arg = "Literal" THEN resolve_vars_in_value(arg.value) ELSE ValueOfRef(arg)
  BY DEF resolve_var_args
<1> HIDE DEF v, arg
<1>2. SUFFICES ASSUME IsNumber(meant) PROVE Denotes(v, meant.n) \/ v = Wrapped(meant)
  BY DEF StandsFor, arg, v
<1>3. CASE arg.arg = "Literal"
  <2>1. meant = arg.value
    BY <1>3 DEF Meant
  <2>2. v = arg.value
    BY <1>1, <1>2, <1>3, <2>1 DEF resolve_vars_in_value, IsNumber
  <2>3. QED
    BY <1>2, <2>1, <2>2 DEF Denotes
<1>4. CASE arg.arg # "Literal"
  <2> DEFINE w == resolve_var_ref(arg.name, arg.path)
  <2>1. w # Invalid
    BY <1>1, <1>4 DEF ValueOfRef, arg, v
  <2>2. CASE arg.offset = Null
    <3>1. v = w /\ meant = w
      BY <1>1, <1>4, <2>2 DEF ValueOfRef, Meant
    <3>2. QED
      BY <1>2, <3>1 DEF Denotes
  <2>3. CASE arg.offset # Null
    <3>1. v = apply_offset(w, arg.offset.n)
      BY <1>1, <1>4, <2>1, <2>3 DEF ValueOfRef
    <3>2. meant = Sum0x(w, w.n + arg.offset.n)
      BY <1>4, <2>3 DEF Meant
    <3> HIDE DEF w, meant
    <3>3. apply_offset(w, arg.offset.n) # Invalid
      BY <3>1 DEF v, arg
    <3>4. QED
      BY <3>1, <3>2, <3>3 DEF apply_offset
  <2>4. QED
    BY <2>2, <2>3
<1>5. QED
  BY <1>3, <1>4

-----------------------------------------------------------------------------
(* The session.                                                            *)

IsCall(c) ==
    c \in [namespace : {c.namespace}, method : {c.method}, given : {c.given}, args : {c.args},
           target : {c.target}, resolver : {c.resolver}]

\* The call under way: a method of the registry, an argument that stands for every one
\* that was typed, and after the last look-up a request that was built from them.
CallInv ==
    status = "calling" =>
      /\ IsCall(call) /\ Known(call.namespace, call.method)
      /\ IsSeq(call.given) /\ IsSeq(call.args) /\ Len(call.args) = Len(call.given)
      /\ \A i \in DOMAIN call.given : StandsFor(call.args[i], call.given[i])
      /\ IsSeq(sent)
      /\ Asked => /\ Built(Params, call.args).ok
                  /\ Last(sent).params = Built(Params, call.args).params

ReplInv == IsSeq(buffer) /\ CallInv

\* A call that starts has resolved all its arguments, and has asked nothing yet.
LEMMA CallStarts ==
  ASSUME NEW c, NEW target, IsSeq(c.args), StartsCall(c, target)
  PROVE  CallInv'
<1> DEFINE args == resolve_var_args(c.args)
<1> SUFFICES ASSUME status' = "calling" PROVE CallInv'
  BY DEF CallInv
<1>1. /\ \A i \in DOMAIN args : args[i] # Invalid
      /\ Known(c.namespace, c.method) /\ variables' = variables /\ sent' = <<>>
      /\ call' = [namespace |-> c.namespace, method |-> c.method, given |-> c.args,
                  args |-> args, target |-> target, resolver |-> FALSE]
  BY DEF StartsCall, Prints, Same
<1>2. DOMAIN args = DOMAIN c.args
  BY DEF resolve_var_args
<1>3. PICK S : c.args \in Seq(S)
  BY DEF IsSeq
<1>4. /\ IsSeq(args) /\ Len(args) = Len(c.args)
  <2>1. args = [i \in 1 .. Len(c.args) |-> args[i]]
    BY <1>3 DEF resolve_var_args
  <2> HIDE DEF args
  <2>2. args \in Seq({args[i] : i \in 1 .. Len(c.args)}) /\ Len(args) = Len(c.args)
    BY <1>3, <2>1, IsASeq
  <2>3. QED
    BY <2>2 DEF IsSeq
<1>5. \A i \in DOMAIN c.args : StandsFor(args[i], c.args[i])
  BY <1>1, <1>2, ResolvedStandsFor
<1>7. IsCall(call)'
  <2> HIDE DEF args
  <2>1. QED
    BY <1>1 DEF IsCall
<1>8. /\ call.given' = c.args /\ call.args' = args
      /\ call.namespace' = c.namespace /\ call.method' = c.method
  <2> HIDE DEF args
  <2>1. QED
    BY <1>1
<1>9. ~ Asked' /\ IsSeq(sent)'
  <2>1. <<>> \in Seq({})
    OBVIOUS
  <2>2. QED
    BY <1>1, <2>1 DEF Asked, IsSeq
<1> HIDE DEF args
<1>10. (\A i \in DOMAIN call.given : StandsFor(call.args[i], call.given[i]))'
  <2>1. \A i \in DOMAIN call'.given : StandsFor(call'.args[i], call'.given[i])
    BY <1>5, <1>8
  <2>2. QED
    BY <1>1, <2>1 DEF StandsFor, Meant, resolve_var_ref
<1>11. QED
  BY <1>1, <1>3, <1>4, <1>7, <1>8, <1>9, <1>10 DEF CallInv, IsSeq

LEMMA AppendedLast ==
  ASSUME NEW s, IsSeq(s), NEW x
  PROVE  /\ IsSeq(Append(s, x)) /\ Append(s, x) # <<>>
         /\ Last(Append(s, x)) = x
<1>1. PICK S : s \in Seq(S)
  BY DEF IsSeq
<1>2. s \in Seq(S \cup {x}) /\ Len(s) \in Nat
  BY <1>1, SeqMonotonic
<1>3. /\ Append(s, x) \in Seq(S \cup {x}) /\ Append(s, x) # <<>>
      /\ Len(Append(s, x)) = Len(s) + 1 /\ Append(s, x)[Len(s) + 1] = x
  BY <1>2, AppendProperties
<1>4. QED
  BY <1>3 DEF IsSeq, Last

\* A look-up puts an address where a name was, and nothing else.
LEMMA LookUpKeeps ==
  ASSUME CallInv, LookUp
  PROVE  CallInv'
<1> SUFFICES ASSUME status' = "calling" PROVE CallInv'
  BY DEF CallInv
<1> DEFINE i == Min(EnsArgs)
           address == Bytes("address", call.args[i].s)
           args == IF call.resolver THEN [call.args EXCEPT ![i] = address] ELSE call.args
<1>1. /\ IsCall(call) /\ Known(call.namespace, call.method)
      /\ IsSeq(call.given) /\ IsSeq(call.args) /\ Len(call.args) = Len(call.given)
      /\ \A j \in DOMAIN call.given : StandsFor(call.args[j], call.given[j])
      /\ IsSeq(sent)
  BY DEF CallInv, LookUp
<1>2. /\ variables' = variables
      /\ sent' = Append(sent, [to |-> IF call.resolver THEN "resolver" ELSE "registry",
                               params |-> <<call.args[i]>>])
      /\ call' = IF call.resolver
                 THEN [call EXCEPT !.args[i] = Bytes("address", @.s), !.resolver = FALSE]
                 ELSE [call EXCEPT !.resolver = TRUE]
  BY DEF LookUp, CallFails, Prints
<1>3. i \in 1 .. Len(call.args) /\ LooksLikeEns(call.args[i])
  <2>1. Params \in Seq(Param)
    BY <1>1, RegistryWellFormed DEF Params, WellFormed
  <2>2. EnsArgs \in SUBSET Nat /\ EnsArgs # {}
    BY <2>1 DEF EnsArgs, LookUp
  <2>3. i \in EnsArgs
    BY <2>2, MinIsLeast
  <2>4. DOMAIN Params = 1 .. Len(Params)
    BY <2>1
  <2>5. PICK S : call.args \in Seq(S)
    BY <1>1 DEF IsSeq
  <2> HIDE DEF i
  <2>6. QED
    BY <2>1, <2>3, <2>4, <2>5 DEF EnsArgs
<1> HIDE DEF i
<1>4. /\ call'.namespace = call.namespace /\ call'.method = call.method
      /\ call'.given = call.given /\ call'.args = args
      /\ IsCall(call)'
  BY <1>1, <1>2 DEF IsCall
<1>5. /\ IsSeq(args) /\ Len(args) = Len(call.args)
      /\ \A j \in 1 .. Len(call.args) : j # i => args[j] = call.args[j]
  <2>1. PICK S : call.args \in Seq(S)
    BY <1>1 DEF IsSeq
  <2> HIDE DEF address
  <2>2. args \in Seq(S \cup {address}) /\ Len(args) = Len(call.args)
    BY <1>3, <2>1
  <2>3. \A j \in 1 .. Len(call.args) : j # i => args[j] = call.args[j]
    BY <2>1
  <2> HIDE DEF args
  <2>4. QED
    BY <2>2, <2>3 DEF IsSeq
<1>6. DOMAIN call.given = 1 .. Len(call.args)
  <2>1. PICK S : call.given \in Seq(S)
    BY <1>1 DEF IsSeq
  <2>2. QED
    BY <1>1, <2>1
<1>7. \A j \in DOMAIN call.given : StandsFor(args[j], call.given[j])
  <2> SUFFICES ASSUME NEW j \in DOMAIN call.given PROVE StandsFor(args[j], call.given[j])
    OBVIOUS
  <2>1. StandsFor(call.args[j], call.given[j])
    BY <1>1
  <2>2. CASE j # i
    BY <1>5, <1>6, <2>1, <2>2
  <2>3. CASE j = i
    <3>1. \A n : ~ Denotes(call.args[j], n)
      BY <1>3, <2>3 DEF LooksLikeEns, Denotes, IsNumber
    <3>2. ASSUME NEW meant, IsNumber(meant)
          PROVE  call.args[j] # Wrapped(meant)
      <4>1. IsNumber(Wrapped(meant))
        BY <3>2 DEF IsNumber, Wrapped, Hex
      <4>2. QED
        BY <3>1, <4>1 DEF Denotes
    <3>3. QED
      BY <2>1, <3>1, <3>2 DEF StandsFor
  <2>4. QED
    BY <2>2, <2>3
<1> HIDE DEF args
<1>8. (\A j \in DOMAIN call.given : StandsFor(call.args[j], call.given[j]))'
  <2>1. \A j \in DOMAIN call'.given : StandsFor(call'.args[j], call'.given[j])
    BY <1>4, <1>7
  <2>2. variables' = variables
    BY <1>2
  <2>3. QED
    BY <2>1, <2>2 DEF StandsFor, Meant, resolve_var_ref
<1>9. IsSeq(sent)' /\ ~ Asked'
  BY <1>1, <1>2, AppendedLast DEF Asked
<1>10. QED
  BY <1>1, <1>4, <1>5, <1>8, <1>9 DEF CallInv

\* The request is what was built.
LEMMA SendKeeps ==
  ASSUME CallInv, Send
  PROVE  CallInv'
<1> SUFFICES ASSUME status' = "calling" PROVE CallInv'
  BY DEF CallInv
<1> DEFINE built == Built(Params, call.args)
<1>1. /\ variables' = variables /\ call' = call /\ status = "calling" /\ built.ok
      /\ sent' = Append(sent, [to |-> "node", params |-> built.params])
  BY DEF Send, CallFails, Prints
<1>2. /\ IsSeq(sent)' /\ Last(sent)'.params = built.params
  BY <1>1, AppendedLast DEF CallInv
<1>3. Params' = Params
  BY <1>1 DEF Params
<1>4. (\A j \in DOMAIN call.given : StandsFor(call.args[j], call.given[j]))'
  BY <1>1 DEF CallInv, StandsFor, Meant, resolve_var_ref
<1> HIDE DEF built
<1>5. QED
  BY <1>1, <1>2, <1>3, <1>4 DEF CallInv, built, IsCall

\* A line is parsed as one of these.
ParsedAs == {"Empty", "ParseError", "Panic", "RpcCall", "PrintVar", "BuiltinCommand",
             "UtilityCall", "Assignment"}

LEMMA ParsedCommand ==
  ASSUME NEW line
  PROVE  Parse(line).command \in ParsedAs
<1>1. \A t : Command(t).command \in ParsedAs
  BY DEF Command, ParsedAs, Empty, ParseError
<1>2. QED
  BY <1>1 DEF Parse, ParsedAs, Empty, ParseError

\* A command with its arguments in a sequence.
IsCommand(c) ==
    /\ c.command \in ParsedAs
    /\ c.command = "RpcCall" => IsSeq(c.args)
    /\ c.command = "Assignment" /\ c.inner.command = "RpcCall" => IsSeq(c.inner.args)

LEMMA LineIsCommand ==
  ASSUME NEW line, IsSeq(line)
  PROVE  IsCommand(Parse(line))
BY ParsedCommand, ParsedArgs DEF IsSeq, IsCommand

\* No command leaves a call under way but the one that starts it.
LEMMA InteractiveStarts ==
  ASSUME NEW c, IsCommand(c), status = "reading", Interactive(c)
  PROVE  CallInv'
<1> USE DEF Prints, PrintsRef, Builtin
<1>1. CASE c.command \in {"Empty", "ParseError", "Panic", "UtilityCall"}
  BY <1>1 DEF Interactive, CallInv
<1>2. CASE c.command = "RpcCall"
  <2>1. StartsCall(c, "")
    BY <1>2 DEF Interactive
  <2>2. QED
    BY <1>2, <2>1, CallStarts DEF IsCommand
<1>3. CASE c.command \in {"PrintVar", "BuiltinCommand"}
  BY <1>3 DEF Interactive, CallInv
<1>4. CASE c.command = "Assignment"
  <2>1. execute_assignment(c.name, c.inner)
    BY <1>4 DEF Interactive
  <2>2. CASE c.inner.command = "RpcCall"
    <3>1. StartsCall(c.inner, c.name)
      BY <2>1, <2>2 DEF execute_assignment
    <3>2. QED
      BY <1>4, <2>2, <3>1, CallStarts DEF IsCommand
  <2>3. CASE c.inner.command # "RpcCall"
    BY <2>1, <2>3 DEF execute_assignment, CallInv
  <2>4. QED
    BY <2>2, <2>3
<1>5. QED
  BY <1>1, <1>2, <1>3, <1>4 DEF IsCommand, ParsedAs

LEMMA ConcatIsSeq ==
  ASSUME NEW s, NEW t, IsSeq(s), IsSeq(t)
  PROVE  IsSeq(s \o t)
<1>1. PICK S : s \in Seq(S)
  BY DEF IsSeq
<1>2. PICK T : t \in Seq(T)
  BY DEF IsSeq
<1>3. s \in Seq(S \cup T) /\ t \in Seq(S \cup T)
  BY <1>1, <1>2, SeqMonotonic
<1>4. QED
  BY <1>3, ConcatProperties DEF IsSeq

LEMMA LineIsSeq ==
  ASSUME NEW line \in Lines
  PROVE  IsSeq(line)
<1>1. Len(line) \in Nat /\ line = [i \in 1 .. Len(line) |-> line[i]]
  BY ReplAssumption
<1>2. line \in Seq({line[i] : i \in 1 .. Len(line)})
  BY <1>1, IsASeq
<1>3. QED
  BY <1>2 DEF IsSeq

LEMMA TypeLineKeeps ==
  ASSUME ReplInv, NEW line \in Lines, TypeLine(line)
  PROVE  ReplInv'
<1>1. IsSeq(line) /\ IsSeq(buffer \o line)
  BY LineIsSeq, ConcatIsSeq DEF ReplInv
<1>2. IsCommand(Parse(line)) /\ IsCommand(Parse(buffer \o line))
  BY <1>1, LineIsCommand
<1>3. status = "reading"
  BY DEF TypeLine
<1>4. CASE OneShot(Parse(line)) /\ UNCHANGED buffer
  <2>1. CASE Parse(line).command \in {"Empty", "UtilityCall", "RpcCall", "ParseError", "Panic"}
    <3>1. Interactive(Parse(line))
      BY <1>4, <2>1 DEF OneShot
    <3>2. QED
      BY <1>2, <1>3, <1>4, <3>1, InteractiveStarts DEF ReplInv, IsSeq
  <2>2. CASE ~ (Parse(line).command \in {"Empty", "UtilityCall", "RpcCall", "ParseError", "Panic"})
    BY <1>4, <2>2 DEF OneShot, Prints, ReplInv, CallInv, IsSeq
  <2>3. QED
    BY <2>1, <2>2
<1>5. CASE buffer' = <<>> /\ Interactive(Parse(buffer \o line))
  <2>1. IsSeq(buffer)'
    BY <1>5 DEF IsSeq
  <2>2. QED
    BY <1>2, <1>3, <1>5, <2>1, InteractiveStarts DEF ReplInv
<1>6. CASE buffer' = buffer \o line /\ UNCHANGED <<status, variables, call, sent, shown>>
  BY <1>1, <1>3, <1>6 DEF ReplInv, CallInv, IsSeq
<1>7. QED
  BY <1>4, <1>5, <1>6 DEF TypeLine

LEMMA ReplInitial == Init => ReplInv
<1>1. <<>> \in Seq({})
  OBVIOUS
<1>2. QED
  BY <1>1 DEF Init, ReplInv, CallInv, IsSeq

LEMMA ReplInductive == ReplInv /\ [Next]_vars => ReplInv'
<1> SUFFICES ASSUME ReplInv, [Next]_vars PROVE ReplInv'
  OBVIOUS
<1>1. ASSUME NEW line \in Lines, TypeLine(line)
      PROVE  ReplInv'
  BY <1>1, TypeLineKeeps
<1>2. CASE Interrupted
  BY <1>2 DEF Interrupted, ReplInv, CallInv, IsSeq
<1>3. CASE Eof
  BY <1>3 DEF Eof, ReplInv, CallInv, IsSeq
<1>4. CASE Killed
  BY <1>4 DEF Killed, ReplInv, CallInv, IsSeq
<1>5. CASE LookUp
  <2>1. CallInv'
    BY <1>5, LookUpKeeps DEF ReplInv
  <2>2. buffer' = buffer
    BY <1>5 DEF LookUp, CallFails
  <2>3. QED
    BY <2>1, <2>2 DEF ReplInv, IsSeq
<1>6. CASE Send
  <2>1. CallInv'
    BY <1>6, SendKeeps DEF ReplInv
  <2>2. buffer' = buffer
    BY <1>6 DEF Send, CallFails
  <2>3. QED
    BY <2>1, <2>2 DEF ReplInv, IsSeq
<1>7. CASE Answer
  BY <1>7 DEF Answer, CallFails, Prints, ReplInv, CallInv, IsSeq
<1>8. CASE UNCHANGED vars
  <2>1. (\A j \in DOMAIN call.given : StandsFor(call.args[j], call.given[j]))'
          <=> \A j \in DOMAIN call.given : StandsFor(call.args[j], call.given[j])
    BY <1>8 DEF vars, StandsFor, Meant, resolve_var_ref
  <2>2. Params' = Params /\ Asked' = Asked
    BY <1>8 DEF vars, Params, Asked
  <2>3. QED
    BY <1>8, <2>1, <2>2 DEF vars, ReplInv, CallInv, IsSeq, IsCall
<1>9. QED
  BY <1>1, <1>2, <1>3, <1>4, <1>5, <1>6, <1>7, <1>8 DEF Next

LEMMA ReplInvariant == Spec => []ReplInv
BY ReplInitial, ReplInductive, PTL DEF Spec

-----------------------------------------------------------------------------
(* The request.                                                            *)

\* The node is asked what the user wrote, whatever the line, the variables and the
\* widths of integers: a number arrives as this number, through look-ups, offsets,
\* names and the conversion to hexadecimal (call_rpc_raw, build_params).  It becomes
\* another one in two ways and no others: the wrap of a 0x string below zero, and the
\* float of an integer of more than 64 bits in the place of an object or an array.
THEOREM AskedAsMeant == Spec => []SentAsMeant
<1>1. ReplInv => SentAsMeant
  <2> SUFFICES ASSUME CallInv, status = "calling", Asked
               PROVE  LET params == Last(sent).params
                      IN /\ Len(params) >= Len(call.given)
                         /\ \A i \in DOMAIN call.given :
                               SentFor(params[i], Params[i].type, call.given[i])
    BY DEF ReplInv, SentAsMeant, SentFor
  <2> DEFINE p == Built(Params, call.args).params
  <2>1. /\ Last(sent).params = p /\ WellFormed(Params)
        /\ Len(call.args) = Len(call.given)
    BY RegistryWellFormed DEF CallInv, Params
  <2>2. PICK S : call.args \in Seq(S)
    BY DEF CallInv, IsSeq
  <2>3. DOMAIN call.given = 1 .. Len(call.args) /\ Len(call.args) \in Nat
    <3>1. PICK T : call.given \in Seq(T)
      BY DEF CallInv, IsSeq
    <3>2. QED
      BY <2>1, <2>2, <3>1
  <2>4. /\ Len(p) \in Nat /\ Len(call.args) <= Len(p) /\ Len(p) <= Len(Params)
        /\ \A i \in 1 .. Len(call.args) : /\ p[i] = Converted(call.args[i], Params[i].type)
                                           /\ p[i] # Invalid
    BY <2>1, <2>2, BuiltParams DEF CallInv
  <2> HIDE DEF p
  <2>5. ASSUME NEW i \in 1 .. Len(call.args)
        PROVE  SentFor(p[i], Params[i].type, call.given[i])
    <3>1. StandsFor(call.args[i], call.given[i])
      BY <2>3 DEF CallInv
    <3>2. Params[i].type \in Types
      <4>1. Params \in Seq(Param) /\ i \in 1 .. Len(Params)
        BY <2>1, <2>3, <2>4 DEF WellFormed
      <4>2. Params[i] \in Param
        BY <4>1, ElementOfSeq
      <4>3. QED
        BY <4>2 DEF Param
    <3>3. p[i] = Converted(call.args[i], Params[i].type) /\ p[i] # Invalid
      BY <2>4
    <3>4. QED
      BY <3>1, <3>2, <3>3, ConvertedStandsFor
  <2>6. QED
    BY <2>1, <2>3, <2>4, <2>5
<1>2. QED
  BY <1>1, ReplInvariant, PTL

\* No name reaches the node in the place of an address: one that was looked up half
\* way fails the call, and an address has no default (resolve_ens_in_args, resolve).
THEOREM AskedForAddresses == Spec => []AddressesAreAddresses
<1>1. ReplInv => AddressesAreAddresses
  <2> SUFFICES ASSUME CallInv, status = "calling", Asked, NEW i \in DOMAIN Last(sent).params,
                      Params[i].type = "Address"
               PROVE  Last(sent).params[i].kind = "address"
    BY DEF ReplInv, AddressesAreAddresses
  <2> DEFINE p == Built(Params, call.args).params
  <2>1. Last(sent).params = p /\ WellFormed(Params)
    BY RegistryWellFormed DEF CallInv, Params
  <2>2. PICK S : call.args \in Seq(S)
    BY DEF CallInv, IsSeq
  <2>3. /\ Len(p) \in Nat /\ DOMAIN p = 1 .. Len(p) /\ Len(p) <= Len(Params)
        /\ \A j \in 1 .. Len(call.args) : /\ p[j] = Converted(call.args[j], Params[j].type)
                                           /\ p[j] # Invalid
        /\ \A j \in 1 .. Len(p) : j > Len(call.args) => Params[j].default # Null
    BY <2>1, <2>2, BuiltParams DEF CallInv
  <2> HIDE DEF p
  <2>4. i \in 1 .. Len(p) /\ i \in DOMAIN Params
    BY <2>1, <2>3 DEF WellFormed
  <2>5. CASE i > Len(call.args)
    BY <2>1, <2>3, <2>4, <2>5 DEF WellFormed, NoDefaultAddress
  <2>6. CASE i \in 1 .. Len(call.args)
    BY <2>1, <2>3, <2>6, ConvertedAddress
  <2>7. QED
    BY <2>2, <2>3, <2>4, <2>5, <2>6
<1>2. QED
  BY <1>1, ReplInvariant, PTL

\* A variable keeps its value when the call that was to be assigned to it fails, at
\* whichever of its requests (execute_assignment).
THEOREM FailedCallsAssignNothing == Spec => FailuresAssignNothing
<1>1. [Next]_vars => [status = "calling" /\ shown' = ErrorText => variables' = variables]_vars
  <2> SUFFICES ASSUME [Next]_vars, status = "calling", shown' = ErrorText
               PROVE  variables' = variables
    OBVIOUS
  <2>1. CASE Answer
    <3>1. ASSUME NEW v \in Answers, Prints(v)
          PROVE  FALSE
      BY <3>1, ReplAssumption DEF Prints, Shown, Decimal, ErrorText
    <3>2. QED
      BY <2>1, <3>1 DEF Answer, CallFails
  <2>2. QED
    BY <2>1 DEF Next, TypeLine, Interrupted, Eof, Killed, LookUp, Send, CallFails, vars
<1>2. QED
  BY <1>1, PTL DEF Spec, FailuresAssignNothing

-----------------------------------------------------------------------------
(* Amounts.                                                                *)

LEMMA DivisionAndRest ==
  ASSUME NEW a \in Nat, NEW b \in Nat \ {0}
  PROVE  a \div b \in Nat /\ a % b \in 0 .. b - 1 /\ a = (a \div b) * b + (a % b)
<1>1. a \in Int /\ b \in Int /\ b > 0
  OBVIOUS
<1>2. a = (a \div b) * b + (a % b)
  BY <1>1
<1>3. QED
  BY <1>2

LEMMA DivisionOfProduct ==
  ASSUME NEW m \in Nat, NEW b \in Nat \ {0}
  PROVE  (m * b) \div b = m /\ (m * b) % b = 0
OBVIOUS

\* The parts of a unit: 10^18 is a multiple of it.
LEMMA UnitParts ==
  ASSUME NEW unit, Scale(unit) # 0
  PROVE  /\ Scale(unit) \in Nat \ {0} /\ Base * Base \in Nat \ {0}
         /\ (Base * Base) \div Scale(unit) \in Nat
         /\ ((Base * Base) \div Scale(unit)) * Scale(unit) = Base * Base
<1>1. Base \in Nat \ {0}
  BY ReplAssumption
<1>2. Base * Base \in Nat \ {0}
  BY <1>1
<1>3. Scale(unit) \in {1, Base, Base * Base}
  BY DEF Scale
<1>4. CASE Scale(unit) = 1
  BY <1>2, <1>4
<1>5. CASE Scale(unit) = Base
  <2>1. (Base * Base) \div Base = Base
    BY <1>1, DivisionOfProduct
  <2>2. QED
    BY <1>1, <1>2, <1>5, <2>1
<1>6. CASE Scale(unit) = Base * Base
  <2>1. (1 * (Base * Base)) \div (Base * Base) = 1
    BY <1>2, DivisionOfProduct
  <2>2. QED
    BY <1>2, <1>6, <2>1
<1>7. QED
  BY <1>3, <1>4, <1>5, <1>6

\* An amount in wei that is written in gwei or ether and read back is the same amount,
\* for every amount that fits into a u128 (format_from_wei, parse_wei_amount).
THEOREM WeiThereAndBack ==
  ASSUME NEW n \in 0 .. MaxWide, NEW unit, Scale(unit) # 0
  PROVE  toWei(fromWei(Decimal(n), unit), unit) = Decimal(n)
<1> DEFINE s == Scale(unit)
           one == Base * Base
           whole == n \div s
           rest == n % s
           parts == one \div s
<1>1. /\ s \in Nat \ {0} /\ one \in Nat \ {0} /\ parts \in Nat /\ parts * s = one
  BY UnitParts
<1>2. n \in Nat /\ n <= MaxWide
  BY ReplCommandsAssumption
<1> HIDE DEF s, one
<1>3. whole \in Nat /\ rest \in Nat /\ n = whole * s + rest
  BY <1>1, <1>2, DivisionAndRest
<1> HIDE DEF whole, rest, parts
<1>4. \A m : Decimal(m).kind = "decimal" /\ Decimal(m).n = m
  BY DEF Decimal
<1>5. s # 0 /\ ~ (n > MaxWide)
  BY <1>1, <1>2, ReplCommandsAssumption
<1>6. CASE rest = 0
  <2>1. fromWei(Decimal(n), unit) = Decimal(whole)
    BY <1>4, <1>5, <1>6 DEF fromWei, s, whole, rest
  <2>2. toWei(Decimal(whole), unit)
          = IF whole * s > MaxWide THEN ErrorText ELSE Decimal(whole * s)
    BY <1>4, <1>5 DEF toWei, s
  <2>3. whole * s = n
    BY <1>1, <1>3, <1>6
  <2>4. QED
    BY <1>5, <2>1, <2>2, <2>3
<1>7. CASE rest # 0
  <2> DEFINE part == rest * parts
             f == Fraction(whole, part)
  <2>1. part * s = rest * one
    BY <1>1, <1>3
  <2>2. (part * s) \div one = rest /\ (part * s) % one = 0
    BY <1>1, <1>3, <2>1, DivisionOfProduct
  <2>3. fromWei(Decimal(n), unit) = f
    <3>1. part = (n % Scale(unit)) * ((Base * Base) \div Scale(unit))
      BY DEF rest, parts, s, one
    <3> HIDE DEF part
    <3>2. QED
      BY <1>4, <1>5, <1>7, <3>1 DEF fromWei, s, whole, rest
  <2> HIDE DEF part
  <2>4. f.kind = "fraction" /\ f.whole = whole /\ f.n = part
    BY DEF Fraction
  <2> HIDE DEF f
  <2> DEFINE wei == f.whole * Scale(unit) + (f.n * Scale(unit)) \div (Base * Base)
  <2>5. wei = n
    BY <1>3, <2>2, <2>4 DEF s, one
  <2>6. (f.n * Scale(unit)) % (Base * Base) = 0
    BY <2>2, <2>4 DEF s, one
  <2>7. toWei(f, unit) = IF wei > MaxWide THEN ErrorText ELSE Decimal(wei)
    <3> HIDE DEF wei
    <3>1. wei = f.whole * Scale(unit) + (f.n * Scale(unit)) \div (Base * Base)
      BY DEF wei
    <3>2. QED
      BY <1>5, <2>4, <2>6, <3>1 DEF toWei, s
  <2>8. QED
    BY <1>5, <2>3, <2>5, <2>7
<1>8. QED
  BY <1>6, <1>7

-----------------------------------------------------------------------------
(* Brackets.                                                               *)

Pairs == {<<"LBrace", "RBrace">>, <<"LBracket", "RBracket">>}

\* Some bracket is closed that was not open.
Overclosed(line) ==
    \E pair \in Pairs : \E to \in DOMAIN line :
        Count(line, to, {pair[2]}) > Count(line, to, {pair[1]})

LEMMA CountTyped ==
  ASSUME NEW line, NEW to \in Nat, NEW toks
  PROVE  Count(line, to, toks) \in Nat
<1>1. IsFiniteSet(1 .. to)
  BY FS_Interval
<1>2. IsFiniteSet({i \in 1 .. to : line[i].tok \in toks})
  BY <1>1, FS_Subset
<1>3. QED
  BY <1>2, FS_CardinalityType DEF Count

LEMMA OverclosedIsUnbalanced ==
  ASSUME NEW S, NEW line \in Seq(S), Overclosed(line)
  PROVE  ~ IsBalanced(line)
<1>1. PICK pair \in Pairs : \E to \in DOMAIN line :
        Count(line, to, {pair[2]}) > Count(line, to, {pair[1]})
  BY DEF Overclosed
<1>2. PICK to \in DOMAIN line : Count(line, to, {pair[2]}) > Count(line, to, {pair[1]})
  BY <1>1
<1>3. Count(line, to, {pair[2]}) \in Nat /\ Count(line, to, {pair[1]}) \in Nat
  BY CountTyped
<1>4. ~ (Count(line, to, {pair[2]}) <= Count(line, to, {pair[1]}))
  BY <1>2, <1>3
<1>5. QED
  BY <1>4 DEF IsBalanced, Pairs

LEMMA OverclosedStays ==
  ASSUME NEW S, NEW line \in Seq(S), NEW more \in Seq(S), Overclosed(line)
  PROVE  Overclosed(line \o more)
<1>1. PICK pair \in Pairs : \E to \in DOMAIN line :
        Count(line, to, {pair[2]}) > Count(line, to, {pair[1]})
  BY DEF Overclosed
<1>2. PICK to \in DOMAIN line : Count(line, to, {pair[2]}) > Count(line, to, {pair[1]})
  BY <1>1
<1>3. /\ to \in 1 .. Len(line) /\ to \in DOMAIN (line \o more)
      /\ \A i \in 1 .. to : (line \o more)[i] = line[i]
  BY ConcatProperties
<1>4. ASSUME NEW toks
      PROVE  Count(line \o more, to, toks) = Count(line, to, toks)
  <2>1. {i \in 1 .. to : (line \o more)[i].tok \in toks} = {i \in 1 .. to : line[i].tok \in toks}
    BY <1>3
  <2>2. QED
    BY <2>1 DEF Count
<1>5. QED
  BY <1>2, <1>3, <1>4 DEF Overclosed

\* Lines are only kept at the prompt.
BufferInv == (status = "calling" \/ ~ options.interactive) => buffer = <<>>

LEMMA BufferInductive == BufferInv /\ [Next]_vars => BufferInv'
<1> SUFFICES ASSUME BufferInv, [Next]_vars PROVE BufferInv'
  OBVIOUS
<1>1. ASSUME NEW line \in Lines, TypeLine(line)
      PROVE  BufferInv'
  BY <1>1 DEF TypeLine, BufferInv
<1>2. QED
  BY <1>1 DEF Next, BufferInv, Interrupted, Eof, Killed, LookUp, Send, Answer, CallFails, Prints, vars

\* A bracket too many at the end of a line takes every later line with it: until
\* Ctrl-C nothing is executed or printed and no variable changes (is_balanced).
THEOREM StrayBracketStaysOpen ==
  Spec => [][Overclosed(buffer) =>
               \/ Interrupted
               \/ Overclosed(buffer)' /\ UNCHANGED <<variables, call, sent, shown>>]_vars
<1>1. Init => BufferInv
  BY DEF Init, BufferInv
<1>2. ReplInv /\ BufferInv /\ [Next]_vars
        => [Overclosed(buffer) =>
               \/ Interrupted
               \/ Overclosed(buffer)' /\ UNCHANGED <<variables, call, sent, shown>>]_vars
  <2> SUFFICES ASSUME ReplInv, BufferInv, [Next]_vars, Overclosed(buffer)
               PROVE  \/ Interrupted
                      \/ Overclosed(buffer)' /\ UNCHANGED <<variables, call, sent, shown>>
    OBVIOUS
  <2>1. buffer # <<>>
    BY DEF Overclosed
  <2>2. ASSUME NEW line \in Lines, TypeLine(line)
        PROVE  Overclosed(buffer)' /\ UNCHANGED <<variables, call, sent, shown>>
    <3>1. PICK S : buffer \in Seq(S)
      BY DEF ReplInv, IsSeq
    <3>2. PICK T : line \in Seq(T)
      BY LineIsSeq DEF IsSeq
    <3>3. buffer \in Seq(S \cup T) /\ line \in Seq(S \cup T)
      BY <3>1, <3>2, SeqMonotonic
    <3>4. Overclosed(buffer \o line)
      BY <3>3, OverclosedStays
    <3>5. ~ IsBalanced(buffer \o line)
      BY <3>3, <3>4, ConcatProperties, OverclosedIsUnbalanced
    <3>6. buffer' = buffer \o line /\ UNCHANGED <<status, variables, call, sent, shown>>
      BY <2>1, <2>2, <3>5 DEF TypeLine, BufferInv
    <3>7. QED
      BY <3>4, <3>6
  <2>3. CASE buffer' = buffer /\ UNCHANGED <<variables, call, sent, shown>>
    BY <2>3 DEF Overclosed, Count
  <2>4. QED
    BY <2>1, <2>2, <2>3 DEF Next, BufferInv, Eof, Killed, LookUp, Send, Answer, vars
<1>3. QED
  BY <1>1, <1>2, BufferInductive, ReplInvariant, PTL DEF Spec
=============================================================================
