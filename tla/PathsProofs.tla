---------------------------- MODULE PathsProofs -----------------------------
(***************************************************************************)
(* __realpath and chdir (internal/vitafs.c), for any drives, names,       *)
(* lengths and PATH_MAX: the loop of __resolve_path over a text, the names  *)
(* its buffer holds after each turn, and the path that comes out of it.     *)
(***************************************************************************)
EXTENDS Paths, FiniteSetTheorems, SequenceTheorems, WellFoundedInduction, TLAPS

-----------------------------------------------------------------------------
(* Induction over the turns of a loop.                                      *)

LEMMA FirstNumber ==
    ASSUME NEW T, T \subseteq Nat, T # {}
    PROVE  \E x \in T : \A y \in T : ~(y < x)
<1>1. PICK R : R = {p \in Nat \X Nat : p[1] < p[2]}
  OBVIOUS
<1>2. IsWellFoundedOn(R, Nat)
  BY <1>1, NatLessThanWellFounded DEF OpToRel
<1>3. PICK x \in T : \A y \in T : ~ (<<y, x>> \in R)
  BY <1>2, WFMin
<1>4. ASSUME NEW y \in T, y < x PROVE <<y, x>> \in R
  <2>1. x \in Nat /\ y \in Nat
    OBVIOUS
  <2> QED
    BY <1>1, <1>4, <2>1
<1> QED
  BY <1>3, <1>4

LEMMA Turns ==
    ASSUME NEW n \in Nat, NEW A, 0 \in A, \A i \in 0 .. n : i < n /\ i \in A => i + 1 \in A
    PROVE  \A i \in 0 .. n : i \in A
<1> SUFFICES ASSUME \E i \in 0 .. n : i \notin A PROVE FALSE
  OBVIOUS
<1>1. PICK T : T = {i \in 0 .. n : i \notin A}
  OBVIOUS
<1>2. T \subseteq Nat /\ T # {}
  BY <1>1
<1>3. PICK x \in T : \A y \in T : ~(y < x)
  BY <1>2, FirstNumber
<1>4. x \in 0 .. n /\ x \notin A
  BY <1>1
<1>5. x # 0
  BY <1>4
<1>6. x - 1 \in 0 .. n /\ x - 1 < n /\ x - 1 < x /\ (x - 1) + 1 = x
  BY <1>4, <1>5
<1>7. x - 1 \notin T
  BY <1>3, <1>6
<1>8. x - 1 \in A
  BY <1>1, <1>6, <1>7
<1> QED
  BY <1>4, <1>6, <1>8

(* The values of a loop with the body G[i] in its turn i.                   *)
Iteration(f, n, s0, G) == f[0] = s0 /\ \A i \in 1 .. n : f[i] = G[i][f[i - 1]]

LEMMA Iterates ==
    ASSUME NEW n \in Nat, NEW S, NEW s0 \in S, NEW G \in [1 .. n -> [S -> S]]
    PROVE  \E f \in [0 .. n -> S] : Iteration(f, n, s0, G)
<1>1. PICK A : A = {m \in 0 .. n : \E f \in [0 .. m -> S] : Iteration(f, m, s0, G)}
  OBVIOUS
<1>2. 0 \in A
  <2>1. PICK f : f = [i \in 0 .. 0 |-> s0]
    OBVIOUS
  <2>2. f \in [0 .. 0 -> S] /\ f[0] = s0
    BY <2>1
  <2>3. Iteration(f, 0, s0, G)
    BY <2>2 DEF Iteration
  <2> QED
    BY <1>1, <2>2, <2>3
<1>3. ASSUME NEW m \in 0 .. n, m < n, m \in A PROVE m + 1 \in A
  <2>1. PICK f \in [0 .. m -> S] : Iteration(f, m, s0, G)
    BY <1>1, <1>3
  <2>2. PICK s : s = G[m + 1][f[m]]
    OBVIOUS
  <2>3. s \in S
    <3>1. m + 1 \in 1 .. n /\ m \in 0 .. m
      BY <1>3
    <3>2. G[m + 1] \in [S -> S] /\ f[m] \in S
      BY <3>1
    <3> QED
      BY <2>2, <3>2
  <2>4. PICK g : g = [i \in 0 .. m + 1 |-> IF i = m + 1 THEN s ELSE f[i]]
    OBVIOUS
  <2>5. \A i \in 0 .. m + 1 : i # m + 1 => i \in 0 .. m
    BY <1>3
  <2>6. g \in [0 .. m + 1 -> S]
    BY <2>3, <2>4, <2>5
  <2>7. \A i \in 0 .. m : g[i] = f[i]
    BY <2>4
  <2>8. g[m + 1] = s
    BY <2>4
  <2>9. g[0] = s0
    BY <2>1, <2>7 DEF Iteration
  <2>10. ASSUME NEW i \in 1 .. m + 1 PROVE g[i] = G[i][g[i - 1]]
    <3>1. CASE i = m + 1
      <4>1. g[m] = f[m] /\ i - 1 = m
        BY <2>7, <3>1
      <4> QED
        BY <2>2, <2>8, <3>1, <4>1
    <3>2. CASE i # m + 1
      <4>1. i \in 1 .. m /\ i \in 0 .. m /\ i - 1 \in 0 .. m
        BY <3>2
      <4> QED
        BY <2>1, <2>7, <4>1 DEF Iteration
    <3> QED
      BY <3>1, <3>2
  <2>11. Iteration(g, m + 1, s0, G)
    BY <2>9, <2>10 DEF Iteration
  <2>12. m + 1 \in 0 .. n
    BY <1>3
  <2> QED
    BY <1>1, <2>6, <2>11, <2>12
<1>4. n \in A
  <2>1. \A i \in 0 .. n : i \in A
    BY <1>2, <1>3, Turns
  <2> QED
    BY <2>1
<1> QED
  BY <1>1, <1>4

-----------------------------------------------------------------------------
(* The characters of a text.                                                *)

Gap(i) == IF i = 1 THEN 0 ELSE 1

(* The lengths of the beginnings of a text.                                 *)
Measures(f, s) ==
    /\ f \in [0 .. Len(s) -> Nat] /\ f[0] = 0
    /\ \A i \in 1 .. Len(s) : f[i] = f[i - 1] + Chars(s[i]) + Gap(i)

LEMMA CharsNat ==
    /\ \A tok \in Tokens : Chars(tok) \in Nat
    /\ Chars("") = 0
    /\ \A name \in DirNames : Chars(name) \in Nat \ {0} /\ Chars(name) = Length[name]
<1>1. /\ Length \in [Drives \cup DirNames -> Nat \ {0}]
      /\ \A name \in DirNames : name # "" /\ name # "." /\ name # ".."
  BY PathAssumption
<1>2. \A name \in DirNames : Length[name] \in Nat \ {0}
  BY <1>1
<1> QED
  BY <1>1, <1>2 DEF Chars, Tokens

LEMMA SeqFacts ==
    ASSUME NEW S, NEW s \in Seq(S)
    PROVE  Len(s) \in Nat /\ s \in [1 .. Len(s) -> S] /\ \A i \in 1 .. Len(s) : s[i] \in S
OBVIOUS

LEMMA AppendFacts ==
    ASSUME NEW S, NEW s \in Seq(S), NEW x \in S
    PROVE  /\ Append(s, x) \in Seq(S) /\ Len(Append(s, x)) = Len(s) + 1
           /\ Append(s, x)[Len(s) + 1] = x /\ \A i \in 1 .. Len(s) : Append(s, x)[i] = s[i]
OBVIOUS

LEMMA TextLens ==
    ASSUME NEW s \in Seq(Tokens)
    PROVE  \E f : Measures(f, s) /\ TextLen(s) = f[Len(s)]
<1>0. PICK n \in Nat : n = Len(s)
  BY SeqFacts
<1>00. \A i \in 1 .. n : Chars(s[i]) \in Nat /\ Gap(i) \in Nat
  BY <1>0, SeqFacts, CharsNat DEF Gap
<1>1. PICK G : G = [i \in 1 .. n |-> [x \in Nat |-> x + Chars(s[i]) + Gap(i)]]
  OBVIOUS
<1>2. G \in [1 .. n -> [Nat -> Nat]]
  <2>1. ASSUME NEW i \in 1 .. n PROVE [x \in Nat |-> x + Chars(s[i]) + Gap(i)] \in [Nat -> Nat]
    BY <1>00
  <2> QED
    BY <1>1, <2>1
<1>3. PICK g \in [0 .. n -> Nat] : Iteration(g, n, 0, G)
  BY <1>2, Iterates
<1>4. ASSUME NEW i \in 1 .. n PROVE g[i] = g[i - 1] + Chars(s[i]) + Gap(i)
  <2>1. g[i] = G[i][g[i - 1]]
    BY <1>3 DEF Iteration
  <2>2. g[i - 1] \in Nat
    BY <1>3
  <2>3. G[i] = [x \in Nat |-> x + Chars(s[i]) + Gap(i)]
    BY <1>1
  <2> QED
    BY <2>1, <2>2, <2>3
<1>5. g = [i \in 0 .. n |-> IF i = 0 THEN 0 ELSE g[i - 1] + Chars(s[i]) + IF i = 1 THEN 0 ELSE 1]
  <2>1. g[0] = 0
    BY <1>3 DEF Iteration
  <2>2. ASSUME NEW i \in 0 .. n, i # 0
        PROVE  g[i] = g[i - 1] + Chars(s[i]) + IF i = 1 THEN 0 ELSE 1
    BY <1>4, <2>2 DEF Gap
  <2> QED
    BY <1>3, <2>1, <2>2
<1>6. PICK f : /\ f = [i \in 0 .. Len(s) |->
                          IF i = 0 THEN 0 ELSE f[i - 1] + Chars(s[i]) + IF i = 1 THEN 0 ELSE 1]
               /\ TextLen(s) = f[Len(s)]
  BY <1>0, <1>5 DEF TextLen
<1>7. ASSUME NEW i \in 0 .. n PROVE f[i] = IF i = 0 THEN 0 ELSE f[i - 1] + Chars(s[i]) + Gap(i)
  BY <1>0, <1>6 DEF Gap
<1>8. \A i \in 0 .. n : f[i] \in Nat
  <2>1. PICK A : A = {i \in 0 .. n : f[i] \in Nat}
    OBVIOUS
  <2>2. 0 \in A
    BY <1>7, <2>1
  <2>3. ASSUME NEW i \in 0 .. n, i < n, i \in A PROVE i + 1 \in A
    <3>1. i + 1 \in 0 .. n /\ i + 1 \in 1 .. n /\ i + 1 # 0 /\ (i + 1) - 1 = i
      BY <2>3
    <3>2. f[i + 1] = f[i] + Chars(s[i + 1]) + Gap(i + 1)
      BY <1>7, <3>1
    <3>3. f[i] \in Nat
      BY <2>1, <2>3
    <3>4. Chars(s[i + 1]) \in Nat /\ Gap(i + 1) \in Nat
      BY <1>00, <3>1
    <3>5. f[i + 1] \in Nat
      BY <3>2, <3>3, <3>4
    <3> QED
      BY <2>1, <3>1, <3>5
  <2>4. \A i \in 0 .. n : i \in A
    BY <2>2, <2>3, Turns
  <2> QED
    BY <2>1, <2>4
<1>9. f \in [0 .. n -> Nat]
  BY <1>0, <1>6, <1>8
<1>10. f[0] = 0 /\ \A i \in 1 .. n : f[i] = f[i - 1] + Chars(s[i]) + Gap(i)
  BY <1>7
<1> QED
  BY <1>0, <1>6, <1>9, <1>10 DEF Measures

(* Two texts that begin with the same tokens.                               *)
LEMMA MeasuresAgree ==
    ASSUME NEW s \in Seq(Tokens), NEW t \in Seq(Tokens), NEW f, NEW g,
           Measures(f, s), Measures(g, t), Len(s) <= Len(t),
           \A i \in 1 .. Len(s) : t[i] = s[i]
    PROVE  \A i \in 0 .. Len(s) : g[i] = f[i]
<1>0. PICK n \in Nat : n = Len(s)
  BY SeqFacts
<1>1. PICK A : A = {i \in 0 .. n : g[i] = f[i]}
  OBVIOUS
<1>2. 0 \in A
  BY <1>1 DEF Measures
<1>3. ASSUME NEW i \in 0 .. n, i < n, i \in A PROVE i + 1 \in A
  <2>1. i + 1 \in 1 .. Len(s) /\ i + 1 \in 1 .. Len(t) /\ (i + 1) - 1 = i /\ i + 1 \in 0 .. n
    BY <1>0, <1>3, SeqFacts
  <2>2. f[i + 1] = f[i] + Chars(s[i + 1]) + Gap(i + 1)
    BY <2>1 DEF Measures
  <2>3. g[i + 1] = g[i] + Chars(t[i + 1]) + Gap(i + 1)
    BY <2>1 DEF Measures
  <2>4. g[i] = f[i] /\ t[i + 1] = s[i + 1]
    BY <1>1, <1>3, <2>1
  <2> QED
    BY <1>1, <2>1, <2>2, <2>3, <2>4
<1>4. \A i \in 0 .. n : i \in A
  BY <1>2, <1>3, Turns
<1> QED
  BY <1>0, <1>1, <1>4

LEMMA TextLenNat ==
    ASSUME NEW s \in Seq(Tokens)
    PROVE  TextLen(s) \in Nat
<1>1. PICK f : Measures(f, s) /\ TextLen(s) = f[Len(s)]
  BY TextLens
<1>2. Len(s) \in 0 .. Len(s)
  BY SeqFacts
<1> QED
  BY <1>1, <1>2 DEF Measures

LEMMA TextLenEmpty == TextLen(<<>>) = 0
<1>1. <<>> \in Seq(Tokens) /\ Len(<<>>) = 0
  OBVIOUS
<1>2. PICK f : Measures(f, <<>>) /\ TextLen(<<>>) = f[Len(<<>>)]
  BY <1>1, TextLens
<1> QED
  BY <1>1, <1>2 DEF Measures

LEMMA TextLenAppend ==
    ASSUME NEW s \in Seq(Tokens), NEW x \in Tokens
    PROVE  TextLen(Append(s, x)) = TextLen(s) + Chars(x) + IF s = <<>> THEN 0 ELSE 1
<1>0. PICK n \in Nat : n = Len(s)
  BY SeqFacts
<1>1. PICK t : t = Append(s, x)
  OBVIOUS
<1>2. /\ t \in Seq(Tokens) /\ Len(t) = n + 1 /\ t[n + 1] = x
      /\ \A i \in 1 .. Len(s) : t[i] = s[i]
  BY <1>0, <1>1
<1>3. PICK f : Measures(f, s) /\ TextLen(s) = f[Len(s)]
  BY TextLens
<1>4. PICK g : Measures(g, t) /\ TextLen(t) = g[Len(t)]
  BY <1>2, TextLens
<1>5. g[n] = f[n]
  <2>1. Len(s) <= Len(t) /\ n \in 0 .. Len(s)
    BY <1>0, <1>2
  <2>2. \A i \in 0 .. Len(s) : g[i] = f[i]
    BY <1>2, <1>3, <1>4, <2>1, MeasuresAgree
  <2> QED
    BY <2>1, <2>2
<1>6. n + 1 \in 1 .. Len(t) /\ (n + 1) - 1 = n
  BY <1>2
<1>7. g[n + 1] = g[n] + Chars(t[n + 1]) + Gap(n + 1)
  BY <1>4, <1>6 DEF Measures
<1>8. Gap(n + 1) = IF s = <<>> THEN 0 ELSE 1
  <2>1. s = <<>> <=> n = 0
    BY <1>0, EmptySeq
  <2> QED
    BY <2>1 DEF Gap
<1> QED
  BY <1>0, <1>1, <1>2, <1>3, <1>4, <1>5, <1>7, <1>8

LEMMA ConcatFacts ==
    ASSUME NEW S, NEW s \in Seq(S), NEW t \in Seq(S)
    PROVE  /\ s \o t \in Seq(S) /\ Len(s \o t) = Len(s) + Len(t)
           /\ \A i \in 1 .. Len(s) : (s \o t)[i] = s[i]
           /\ \A j \in 1 .. Len(t) : (s \o t)[Len(s) + j] = t[j]
<1>1. Len(s) \in Nat /\ Len(t) \in Nat
  BY SeqFacts
<1>2. s \o t \in Seq(S) /\ Len(s \o t) = Len(s) + Len(t)
      /\ \A i \in 1 .. Len(s) + Len(t) :
            (s \o t)[i] = IF i <= Len(s) THEN s[i] ELSE t[i - Len(s)]
  BY ConcatProperties
<1>3. ASSUME NEW i \in 1 .. Len(s) PROVE (s \o t)[i] = s[i]
  BY <1>1, <1>2
<1>4. ASSUME NEW j \in 1 .. Len(t) PROVE (s \o t)[Len(s) + j] = t[j]
  <2>1. Len(s) + j \in 1 .. Len(s) + Len(t) /\ ~(Len(s) + j <= Len(s)) /\ (Len(s) + j) - Len(s) = j
    BY <1>1
  <2> QED
    BY <1>2, <2>1
<1> QED
  BY <1>2, <1>3, <1>4

LEMMA TextLenConcat ==
    ASSUME NEW s \in Seq(Tokens), NEW t \in Seq(Tokens)
    PROVE  TextLen(s \o t) = TextLen(s) + TextLen(t) + IF s = <<>> \/ t = <<>> THEN 0 ELSE 1
<1>0. PICK n \in Nat, m \in Nat : n = Len(s) /\ m = Len(t)
  BY SeqFacts
<1>1. PICK u : u = s \o t
  OBVIOUS
<1>2. /\ u \in Seq(Tokens) /\ Len(u) = n + m
      /\ \A i \in 1 .. Len(s) : u[i] = s[i]
      /\ \A j \in 1 .. m : u[n + j] = t[j]
  BY <1>0, <1>1, ConcatFacts
<1>3. PICK f : Measures(f, s) /\ TextLen(s) = f[Len(s)]
  BY TextLens
<1>4. PICK g : Measures(g, t) /\ TextLen(t) = g[Len(t)]
  BY TextLens
<1>5. PICK h : Measures(h, u) /\ TextLen(u) = h[Len(u)]
  BY <1>2, TextLens
<1>6. h[n] = f[n]
  <2>1. Len(s) <= Len(u) /\ n \in 0 .. Len(s)
    BY <1>0, <1>2
  <2>2. \A i \in 0 .. Len(s) : h[i] = f[i]
    BY <1>2, <1>3, <1>5, <2>1, MeasuresAgree
  <2> QED
    BY <2>1, <2>2
<1>7. f[n] \in Nat /\ g[0] = 0 /\ \A j \in 0 .. m : g[j] \in Nat
  <2>1. f \in [0 .. n -> Nat] /\ g \in [0 .. m -> Nat] /\ g[0] = 0
    BY <1>0, <1>3, <1>4, Zenon DEF Measures
  <2> QED
    BY <2>1
<1>8. PICK A : A = {j \in 0 .. m : h[n + j] = f[n] + g[j] + IF n = 0 \/ j = 0 THEN 0 ELSE 1}
  OBVIOUS
<1>9. 0 \in A
  BY <1>6, <1>7, <1>8
<1>10. ASSUME NEW j \in 0 .. m, j < m, j \in A PROVE j + 1 \in A
  <2>1. /\ j + 1 \in 1 .. Len(t) /\ j + 1 \in 1 .. m /\ (j + 1) - 1 = j /\ j + 1 \in 0 .. m
        /\ n + (j + 1) \in 1 .. Len(u) /\ (n + (j + 1)) - 1 = n + j
    <3>1. Len(u) = n + m /\ Len(t) = m
      BY <1>0, <1>2
    <3>2. j < m
      BY <1>10
    <3> QED
      BY <3>1, <3>2
  <2>2. g[j + 1] = g[j] + Chars(t[j + 1]) + Gap(j + 1)
    BY <1>4, <2>1 DEF Measures
  <2>3. h[n + (j + 1)] = h[n + j] + Chars(u[n + (j + 1)]) + Gap(n + (j + 1))
    BY <1>5, <2>1 DEF Measures
  <2>4. u[n + (j + 1)] = t[j + 1]
    BY <1>2, <2>1
  <2>5. h[n + j] = f[n] + g[j] + IF n = 0 \/ j = 0 THEN 0 ELSE 1
    BY <1>8, <1>10
  <2>6. PICK x \in Nat : x = Chars(t[j + 1])
    <3>1. t[j + 1] \in Tokens
      BY <2>1, SeqFacts
    <3> QED
      BY <3>1, CharsNat
  <2>7. /\ Gap(j + 1) = IF j = 0 THEN 0 ELSE 1
        /\ Gap(n + (j + 1)) = IF n = 0 /\ j = 0 THEN 0 ELSE 1
    BY DEF Gap
  <2>8. g[j] \in Nat
    BY <1>7
  <2>9. h[n + (j + 1)] = f[n] + g[j + 1] + IF n = 0 \/ j + 1 = 0 THEN 0 ELSE 1
    <3>1. PICK a \in Nat, b \in Nat : a = f[n] /\ b = g[j]
      BY <1>7, <2>8
    <3>2. (a + b + (IF n = 0 \/ j = 0 THEN 0 ELSE 1)) + x + (IF n = 0 /\ j = 0 THEN 0 ELSE 1)
             = a + (b + x + (IF j = 0 THEN 0 ELSE 1)) + IF n = 0 \/ j + 1 = 0 THEN 0 ELSE 1
      <4>1. j \in Nat
        OBVIOUS
      <4> QED
        BY <4>1
    <3>3. h[n + (j + 1)]
             = (a + b + (IF n = 0 \/ j = 0 THEN 0 ELSE 1)) + x + (IF n = 0 /\ j = 0 THEN 0 ELSE 1)
      BY <2>3, <2>4, <2>5, <2>6, <2>7, <3>1, Zenon
    <3>4. g[j + 1] = b + x + (IF j = 0 THEN 0 ELSE 1)
      BY <2>2, <2>6, <2>7, <3>1, Zenon
    <3> QED
      BY <3>1, <3>2, <3>3, <3>4, Zenon
  <2> QED
    BY <1>8, <2>1, <2>9
<1>11. \A j \in 0 .. m : j \in A
  BY <1>9, <1>10, Turns
<1>12. h[n + m] = f[n] + g[m] + IF n = 0 \/ m = 0 THEN 0 ELSE 1
  BY <1>8, <1>11
<1>13. (s = <<>> <=> n = 0) /\ (t = <<>> <=> m = 0)
  BY <1>0, EmptySeq
<1> QED
  BY <1>0, <1>1, <1>2, <1>3, <1>4, <1>5, <1>12, <1>13

-----------------------------------------------------------------------------
(* The buffer of __resolve_path.                                            *)

Buf == [slash : BOOLEAN, names : Seq(DirNames), tail : BOOLEAN, long : BOOLEAN, wild : BOOLEAN]

LEMMA SlashedType ==
    ASSUME NEW r \in Buf, NEW before \in BOOLEAN
    PROVE  Slashed(r, before) \in Buf
<1>1. PICK n : n = BufLen(r)
  OBVIOUS
<1>2. [r EXCEPT !.slash = ~before] \in Buf /\ [r EXCEPT !.long = TRUE] \in Buf
      /\ [r EXCEPT !.tail = TRUE] \in Buf
  BY DEF Buf
<1>3. Slashed(r, before) \in {[r EXCEPT !.slash = ~before], r, [r EXCEPT !.long = TRUE],
                              [r EXCEPT !.tail = TRUE]}
  BY Zenon DEF Slashed
<1> QED
  BY <1>2, <1>3

FrontOf(S, s, up) ==
    /\ up \in Seq(S) /\ Len(up) = Len(s) - 1 /\ Len(s) \in Nat \ {0}
    /\ \A i \in 1 .. Len(s) - 1 : up[i] = s[i]
    /\ s = Append(up, s[Len(s)]) /\ s[Len(s)] \in S

LEMMA FrontFacts ==
    ASSUME NEW S, NEW s \in Seq(S), s # <<>>, NEW up, up = SubSeq(s, 1, Len(s) - 1)
    PROVE  FrontOf(S, s, up)
<1>1. Len(s) \in Nat \ {0}
  BY EmptySeq, SeqFacts
<1>2. up \in Seq(S) /\ Len(up) = Len(s) - 1 /\ \A i \in 1 .. Len(s) - 1 : up[i] = s[i]
  <2>1. PICK n \in Nat : n = Len(s) - 1 /\ n < Len(s)
    BY <1>1
  <2>2. up = SubSeq(s, 1, n)
    BY <2>1
  <2>3. \A i \in 1 .. n : i \in 1 .. Len(s)
    BY <1>1, <2>1
  <2>4. up = [i \in 1 .. n |-> s[i]]
    BY <1>1, <2>1, <2>2, <2>3
  <2>5. up \in [1 .. n -> S]
    BY <2>3, <2>4, SeqFacts
  <2> QED
    BY <2>1, <2>4, <2>5
<1>3. s[Len(s)] \in S
  BY <1>1
<1>4. PICK t : t = Append(up, s[Len(s)])
  OBVIOUS
<1>5. t \in Seq(S) /\ Len(t) = Len(s) /\ \A i \in 1 .. Len(s) : t[i] = s[i]
  BY <1>1, <1>2, <1>3, <1>4
<1>6. s = t
  BY <1>5, SeqEqual
<1> QED
  BY <1>1, <1>2, <1>3, <1>4, <1>6, Zenon DEF FrontOf

LEMMA StrippedType ==
    ASSUME NEW r \in Buf
    PROVE  Stripped(r) \in Buf
<1>1. CASE r.names = <<>>
  BY <1>1 DEF Stripped
<1>2. CASE r.names # <<>>
  <2>1. PICK up : up = SubSeq(r.names, 1, Len(r.names) - 1)
    OBVIOUS
  <2>2. up \in Seq(DirNames)
    <3>1. PICK names \in Seq(DirNames) : names = r.names
      BY DEF Buf
    <3>2. FrontOf(DirNames, names, up)
      BY <1>2, <2>1, <3>1, FrontFacts
    <3> QED
      BY <3>2 DEF FrontOf
  <2>3. PICK b \in BOOLEAN, w \in BOOLEAN : b = (up # <<>>) /\ w = (~r.slash /\ up = <<>>)
    OBVIOUS
  <2>4. Stripped(r) = [r EXCEPT !.names = up, !.tail = b, !.wild = w]
    BY <1>2, <2>1, <2>3, Zenon DEF Stripped
  <2> QED
    BY <2>2, <2>4 DEF Buf
<1> QED
  BY <1>1, <1>2

LEMMA AppendedType ==
    ASSUME NEW r \in Buf, NEW name \in DirNames
    PROVE  Appended(r, name) \in Buf
<1>1. PICK a : a = [r EXCEPT !.names = Append(@, name), !.tail = FALSE]
  OBVIOUS
<1>2. a \in Buf /\ [r EXCEPT !.long = TRUE] \in Buf
  <2>0. PICK old \in Seq(DirNames) : old = r.names
    BY DEF Buf
  <2>1. PICK names \in Seq(DirNames) : names = Append(r.names, name)
    BY <2>0, AppendProperties
  <2>2. a = [r EXCEPT !.names = names, !.tail = FALSE]
    BY <1>1, <2>1
  <2> QED
    BY <2>2 DEF Buf
<1>3. Appended(r, name) = IF BufLen(a) >= PATH_MAX THEN [r EXCEPT !.long = TRUE] ELSE a
  BY <1>1, Zenon DEF Appended
<1> QED
  BY <1>2, <1>3

LEMMA TokenKinds ==
    /\ \A tok \in Tokens : \/ tok \in {"", "."} \/ tok = ".." \/ tok \in DirNames
    /\ \A name \in DirNames : name \notin {"", "."} /\ name # ".."
BY PathAssumption DEF Tokens

(* What a token makes of the buffer s with the slash before the token.      *)
TakenOf(s, tok, new) ==
    /\ s.long \/ tok \in {"", "."} => new = s
    /\ ~s.long /\ tok = ".." => new = Stripped(s)
    /\ ~s.long /\ tok \in DirNames => new = Appended(s, tok)

LEMMA TakenIs ==
    ASSUME NEW r, NEW tok \in Tokens, NEW before
    PROVE  TakenOf(Slashed(r, before), tok, Taken(r, tok, before))
<1>0. PICK s : s = Slashed(r, before)
  OBVIOUS
<1>1. tok = ".." => tok \notin {"", "."}
  OBVIOUS
<1>2. Taken(r, tok, before) = CASE s.long \/ tok \in {"", "."} -> s
                                [] ~s.long /\ tok = ".." -> Stripped(s)
                                [] OTHER -> Appended(s, tok)
  BY <1>0, Zenon DEF Taken
<1> QED
  BY <1>0, <1>1, <1>2, TokenKinds DEF TakenOf

LEMMA TakenType ==
    ASSUME NEW r \in Buf, NEW tok \in Tokens, NEW before \in BOOLEAN
    PROVE  Taken(r, tok, before) \in Buf
<1>1. PICK s : s = Slashed(r, before)
  OBVIOUS
<1>2. s \in Buf
  BY <1>1, SlashedType
<1>3. Stripped(s) \in Buf
  BY <1>2, StrippedType
<1>4. tok \in DirNames => Appended(s, tok) \in Buf
  BY <1>2, AppendedType
<1>5. /\ s.long \/ tok \in {"", "."} => Taken(r, tok, before) = s
      /\ ~s.long /\ tok = ".." => Taken(r, tok, before) = Stripped(s)
      /\ ~s.long /\ tok \in DirNames => Taken(r, tok, before) = Appended(s, tok)
  <2>1. TakenOf(s, tok, Taken(r, tok, before))
    BY <1>1, TakenIs, Zenon
  <2> QED
    BY <2>1 DEF TakenOf
<1> QED
  <2>1. CASE s.long \/ tok \in {"", "."}
    <3>1. Taken(r, tok, before) = s
      BY <1>5, <2>1
    <3> QED
      BY <1>2, <3>1
  <2>2. CASE ~s.long /\ tok = ".."
    <3>1. Taken(r, tok, before) = Stripped(s)
      BY <1>5, <2>2
    <3> QED
      BY <1>3, <3>1
  <2>3. CASE ~s.long /\ tok \in DirNames
    <3>1. Taken(r, tok, before) = Appended(s, tok)
      BY <1>5, <2>3
    <3> QED
      BY <1>4, <2>3, <3>1
  <2> QED
    BY <2>1, <2>2, <2>3, TokenKinds, Zenon

(* One turn of the loop.                                                    *)
Turn(r, tok, before) == IF r.long \/ r.wild THEN r ELSE Taken(r, tok, before)

LEMMA TurnType ==
    ASSUME NEW r \in Buf, NEW tok \in Tokens, NEW before \in BOOLEAN
    PROVE  Turn(r, tok, before) \in Buf
BY TakenType DEF Turn

(* The buffer after each turn.                                              *)
Fills(f, slash, tokens, before) ==
    /\ f \in [0 .. Len(tokens) -> Buf] /\ f[0] = StartBuf(slash)
    /\ \A i \in 1 .. Len(tokens) : f[i] = Turn(f[i - 1], tokens[i], before)

LEMMA StartType ==
    ASSUME NEW slash \in BOOLEAN
    PROVE  StartBuf(slash) \in Buf
BY DEF StartBuf, Buf

LEMMA BufferFilled ==
    ASSUME NEW slash \in BOOLEAN, NEW tokens \in Seq(Tokens), NEW before \in BOOLEAN
    PROVE  \E f : /\ Fills(f, slash, tokens, before)
                  /\ resolve_path(slash, tokens, before) =
                        IF TextLen(tokens) >= PATH_MAX THEN StartBuf(slash) ELSE f[Len(tokens)]
<1>0. PICK n \in Nat : n = Len(tokens)
  BY SeqFacts
<1>00. \A i \in 1 .. n : tokens[i] \in Tokens
  BY <1>0, SeqFacts
<1>01. PICK start \in Buf : start = StartBuf(slash)
  BY StartType
<1>1. PICK G : G = [i \in 1 .. n |-> [r \in Buf |-> Turn(r, tokens[i], before)]]
  OBVIOUS
<1>2. G \in [1 .. n -> [Buf -> Buf]]
  <2>1. ASSUME NEW i \in 1 .. n, NEW r \in Buf PROVE Turn(r, tokens[i], before) \in Buf
    BY <1>00, TurnType
  <2> QED
    BY <1>1, <2>1
<1>3. PICK g \in [0 .. n -> Buf] : Iteration(g, n, start, G)
  BY <1>2, Iterates
<1>4. ASSUME NEW i \in 1 .. n PROVE g[i] = Turn(g[i - 1], tokens[i], before)
  <2>1. g[i] = G[i][g[i - 1]]
    BY <1>3 DEF Iteration
  <2>2. g[i - 1] \in Buf
    BY <1>3
  <2>3. G[i] = [r \in Buf |-> Turn(r, tokens[i], before)]
    BY <1>1
  <2> QED
    BY <2>1, <2>2, <2>3
<1>5. g = [i \in 0 .. n |-> IF i = 0 THEN StartBuf(slash) ELSE Turn(g[i - 1], tokens[i], before)]
  <2>1. g[0] = start
    BY <1>3 DEF Iteration
  <2>2. ASSUME NEW i \in 0 .. n, i # 0 PROVE g[i] = Turn(g[i - 1], tokens[i], before)
    BY <1>4, <2>2
  <2> QED
    BY <1>01, <1>3, <2>1, <2>2
<1>6. g = [i \in 0 .. Len(tokens) |->
              IF i = 0 THEN StartBuf(slash)
              ELSE LET r == g[i - 1]
                   IN  IF r.long \/ r.wild THEN r ELSE Taken(r, tokens[i], before)]
  BY <1>0, <1>5, Zenon DEF Turn
<1>7. PICK f : /\ f = [i \in 0 .. Len(tokens) |->
                          IF i = 0 THEN StartBuf(slash)
                          ELSE LET r == f[i - 1]
                               IN  IF r.long \/ r.wild THEN r ELSE Taken(r, tokens[i], before)]
               /\ resolve_path(slash, tokens, before) =
                     IF TextLen(tokens) >= PATH_MAX THEN StartBuf(slash) ELSE f[Len(tokens)]
  BY <1>6, Zenon DEF resolve_path
<1>8. f = [i \in 0 .. n |-> IF i = 0 THEN StartBuf(slash) ELSE Turn(f[i - 1], tokens[i], before)]
  BY <1>0, <1>7, Zenon DEF Turn
<1>9. f[0] = start /\ \A i \in 1 .. n : f[i] = Turn(f[i - 1], tokens[i], before)
  BY <1>01, <1>8
<1>10. PICK A : A = {i \in 0 .. n : f[i] \in Buf}
  OBVIOUS
<1>11. 0 \in A
  BY <1>9, <1>10
<1>12. ASSUME NEW i \in 0 .. n, i < n, i \in A PROVE i + 1 \in A
  <2>1. i + 1 \in 0 .. n /\ i + 1 \in 1 .. n /\ (i + 1) - 1 = i
    BY <1>12
  <2>2. f[i + 1] = Turn(f[i], tokens[i + 1], before)
    BY <1>9, <2>1
  <2>3. f[i] \in Buf /\ tokens[i + 1] \in Tokens
    BY <1>00, <1>10, <1>12, <2>1
  <2>4. f[i + 1] \in Buf
    BY <2>2, <2>3, TurnType
  <2> QED
    BY <1>10, <2>1, <2>4
<1>13. \A i \in 0 .. n : f[i] \in Buf
  <2>1. \A i \in 0 .. n : i \in A
    BY <1>11, <1>12, Turns
  <2> QED
    BY <1>10, <2>1
<1>14. f \in [0 .. n -> Buf]
  BY <1>8, <1>13
<1>15. Fills(f, slash, tokens, before)
  BY <1>0, <1>01, <1>9, <1>14 DEF Fills
<1> QED
  BY <1>7, <1>15

-----------------------------------------------------------------------------
(* The names at places of a text, in order.                                 *)

Spells(T, A, names) ==
    /\ Len(names) = Cardinality(A)
    /\ \A k \in A : names[Cardinality(A \cap 1 .. k)] = T[k]

LEMMA Places ==
    ASSUME NEW i \in Nat, NEW A, A \subseteq 1 .. i
    PROVE  /\ IsFiniteSet(A) /\ Cardinality(A) \in Nat
           /\ \A a, b \in Nat : IsFiniteSet(A \cap a .. b) /\ Cardinality(A \cap a .. b) \in Nat
<1>1. IsFiniteSet(1 .. i)
  BY FS_Interval
<1>2. IsFiniteSet(A)
  BY <1>1, FS_Subset
<1>3. ASSUME NEW a \in Nat, NEW b \in Nat
      PROVE  IsFiniteSet(A \cap a .. b) /\ Cardinality(A \cap a .. b) \in Nat
  <2>1. PICK B : B = A \cap a .. b
    OBVIOUS
  <2>2. IsFiniteSet(B)
    BY <1>2, <2>1, FS_Subset
  <2> QED
    BY <2>1, <2>2, FS_CardinalityType
<1> QED
  BY <1>2, <1>3, FS_CardinalityType

LEMMA SpellsAdd ==
    ASSUME NEW T, NEW i \in Nat, NEW A, A \subseteq 1 .. i, NEW names \in Seq(DirNames),
           Spells(T, A, names), T[i + 1] \in DirNames
    PROVE  Spells(T, A \cup {i + 1}, Append(names, T[i + 1]))
<1>0. PICK x, name : x = i + 1 /\ name = T[x]
  OBVIOUS
<1>1. PICK new : new = Append(names, name)
  OBVIOUS
<1>2. PICK n \in Nat : n = Len(names) /\ n = Cardinality(A)
  BY Places DEF Spells
<1>3. Len(new) = n + 1 /\ new[n + 1] = name /\ \A j \in 1 .. n : new[j] = names[j]
  <2>1. name \in DirNames
    BY <1>0
  <2> QED
    <3>1. /\ Len(Append(names, name)) = Len(names) + 1
          /\ Append(names, name)[Len(names) + 1] = name
          /\ \A j \in 1 .. Len(names) : Append(names, name)[j] = names[j]
      BY <2>1, SMTT(20)
    <3> QED
      BY <1>1, <1>2, <3>1, Zenon
<1>4. x \notin A /\ Cardinality(A \cup {x}) = n + 1
  <2>1. x \notin A
    BY <1>0
  <2> QED
    BY <1>2, <2>1, Places, FS_AddElement
<1>5. ASSUME NEW k \in A PROVE new[Cardinality((A \cup {x}) \cap 1 .. k)] = T[k]
  <2>1. k \in 1 .. i /\ k < x
    BY <1>0
  <2>2. PICK B : B = A \cap 1 .. k
    OBVIOUS
  <2>3. (A \cup {x}) \cap 1 .. k = B
    BY <1>0, <2>1, <2>2
  <2>40. k \in B
    BY <2>1, <2>2
  <2>4. IsFiniteSet(A) /\ B \subseteq A /\ B # {}
    BY <2>2, <2>40, Places
  <2>5. IsFiniteSet(B) /\ Cardinality(B) <= n /\ Cardinality(B) \in Nat
    BY <1>2, <2>4, FS_Subset, FS_CardinalityType
  <2>6. Cardinality(B) # 0
    BY <2>4, <2>5, FS_EmptySet
  <2>7. Cardinality(B) \in 1 .. n
    BY <2>5, <2>6
  <2>8. names[Cardinality(B)] = T[k]
    BY <2>2 DEF Spells
  <2> QED
    BY <1>3, <2>3, <2>7, <2>8
<1>6. new[Cardinality((A \cup {x}) \cap 1 .. x)] = T[x]
  <2>1. (A \cup {x}) \cap 1 .. x = A \cup {x}
    <3>1. \A k \in A : k \in 1 .. x
      BY <1>0
    <3>2. x \in 1 .. x
      BY <1>0
    <3> QED
      BY <3>1, <3>2, Zenon
  <2> QED
    BY <1>0, <1>3, <1>4, <2>1
<1>7. Spells(T, A \cup {x}, new)
  <2>1. Len(new) = Cardinality(A \cup {x})
    BY <1>3, <1>4
  <2>2. ASSUME NEW k \in A \cup {x} PROVE new[Cardinality((A \cup {x}) \cap 1 .. k)] = T[k]
    BY <1>5, <1>6, Zenon
  <2> QED
    BY <2>1, <2>2 DEF Spells
<1> QED
  BY <1>0, <1>1, <1>7

LEMMA SpellsDrop ==
    ASSUME NEW T, NEW i \in Nat, NEW A, A \subseteq 1 .. i, NEW names \in Seq(DirNames),
           Spells(T, A, names), NEW m \in A, \A k \in A : k <= m
    PROVE  names # <<>> /\ Spells(T, A \ {m}, SubSeq(names, 1, Len(names) - 1))
<1>1. PICK n \in Nat : n = Len(names) /\ n = Cardinality(A)
  BY Places DEF Spells
<1>2. n # 0
  BY <1>1, Places, FS_EmptySet
<1>3. names # <<>>
  BY <1>1, <1>2, EmptySeq
<1>4. PICK up : up = SubSeq(names, 1, Len(names) - 1)
  OBVIOUS
<1>5. Len(up) = n - 1 /\ \A j \in 1 .. n - 1 : up[j] = names[j]
  <2>1. Len(up) = Len(names) - 1 /\ \A j \in 1 .. Len(names) - 1 : up[j] = names[j]
    <3>1. FrontOf(DirNames, names, up)
      BY <1>3, <1>4, FrontFacts
    <3> QED
      BY <3>1, Zenon DEF FrontOf
  <2> QED
    BY <1>1, <2>1
<1>6. PICK C : C = A \ {m}
  OBVIOUS
<1>7. IsFiniteSet(C) /\ Cardinality(C) = n - 1
  BY <1>1, <1>6, Places, FS_RemoveElement
<1>8. ASSUME NEW k \in C PROVE up[Cardinality(C \cap 1 .. k)] = T[k]
  <2>1. k \in 1 .. i /\ m \in 1 .. i /\ k < m /\ k \in A
    BY <1>6
  <2>2. PICK B : B = A \cap 1 .. k
    OBVIOUS
  <2>3. C \cap 1 .. k = B
    BY <1>6, <2>1, <2>2
  <2>4. B \subseteq C /\ B # {}
    BY <2>1, <2>2, <2>3
  <2>5. IsFiniteSet(B) /\ Cardinality(B) <= n - 1 /\ Cardinality(B) \in Nat
    BY <1>7, <2>4, FS_Subset, FS_CardinalityType
  <2>6. Cardinality(B) # 0
    BY <2>4, <2>5, FS_EmptySet
  <2>7. Cardinality(B) \in 1 .. n - 1
    BY <2>5, <2>6
  <2>8. names[Cardinality(B)] = T[k]
    BY <2>1, <2>2 DEF Spells
  <2> QED
    BY <1>5, <2>3, <2>7, <2>8
<1>9. Spells(T, C, up)
  BY <1>5, <1>7, <1>8 DEF Spells
<1> QED
  BY <1>3, <1>4, <1>6, <1>9

-----------------------------------------------------------------------------
(* The names that survive the first i tokens of T.                          *)

Cnt(T, S, k, j) == Cardinality({l \in k + 1 .. j : T[l] \in S})

Alive(T, i) ==
    {k \in 1 .. i : /\ T[k] \in DirNames
                    /\ \A j \in k + 1 .. i : Cnt(T, {".."}, k, j) <= Cnt(T, DirNames, k, j)}

LEMMA CntFacts ==
    ASSUME NEW T, NEW S, NEW k \in Nat, NEW j \in Nat
    PROVE  /\ Cnt(T, S, k, j) \in Nat
           /\ j <= k => Cnt(T, S, k, j) = 0
           /\ k <= j => Cnt(T, S, k, j + 1) = Cnt(T, S, k, j) + IF T[j + 1] \in S THEN 1 ELSE 0
<1>1. PICK B : B = {l \in k + 1 .. j : T[l] \in S}
  OBVIOUS
<1>2. IsFiniteSet(k + 1 .. j)
  BY FS_Interval
<1>3. IsFiniteSet(B)
  BY <1>1, <1>2, FS_Subset
<1>4. Cardinality(B) \in Nat
  BY <1>3, FS_CardinalityType
<1>5. ASSUME j <= k PROVE B = {}
  BY <1>1, <1>5
<1>6. ASSUME k <= j
      PROVE  {l \in k + 1 .. j + 1 : T[l] \in S} = IF T[j + 1] \in S THEN B \cup {j + 1} ELSE B
  <2>1. \A l : l \in k + 1 .. j + 1 <=> l \in k + 1 .. j \/ l = j + 1
    BY <1>6
  <2> QED
    BY <1>1, <2>1, Zenon
<1>7. j + 1 \notin B
  BY <1>1
<1>8. Cardinality(B \cup {j + 1}) = Cardinality(B) + 1
  BY <1>3, <1>7, FS_AddElement
<1>9. Cnt(T, S, k, j) = Cardinality(B)
  BY <1>1 DEF Cnt
<1>10. ASSUME k <= j PROVE Cnt(T, S, k, j + 1) = Cnt(T, S, k, j) + IF T[j + 1] \in S THEN 1 ELSE 0
  <2>1. CASE T[j + 1] \in S
    <3>1. Cnt(T, S, k, j + 1) = Cardinality(B \cup {j + 1})
      BY <1>6, <1>10, <2>1, Zenon DEF Cnt
    <3> QED
      BY <1>8, <1>9, <2>1, <3>1
  <2>2. CASE T[j + 1] \notin S
    <3>1. Cnt(T, S, k, j + 1) = Cardinality(B)
      BY <1>6, <1>10, <2>2, Zenon DEF Cnt
    <3> QED
      BY <1>4, <1>9, <2>2, <3>1
  <2> QED
    BY <2>1, <2>2
<1> QED
  BY <1>4, <1>5, <1>9, <1>10, FS_EmptySet

(* What is known after the first i tokens: the names in the buffer are the  *)
(* ones that survive; and after each of them there are as many names more   *)
(* than ".." as there are later survivors.                                  *)
Kept(T, i, names) ==
    /\ Spells(T, Alive(T, i), names)
    /\ \A k \in Alive(T, i) :
          Cnt(T, DirNames, k, i) = Cnt(T, {".."}, k, i) + Cardinality(Alive(T, i) \cap k + 1 .. i)

LEMMA AliveBound ==
    ASSUME NEW T, NEW i \in Nat
    PROVE  Alive(T, i) \subseteq 1 .. i
BY DEF Alive

LEMMA AliveNext ==
    ASSUME NEW T, NEW i \in Nat
    PROVE  /\ \A k \in 1 .. i : k \in Alive(T, i + 1) <=>
                 k \in Alive(T, i) /\ Cnt(T, {".."}, k, i + 1) <= Cnt(T, DirNames, k, i + 1)
           /\ i + 1 \in Alive(T, i + 1) <=> T[i + 1] \in DirNames
<1>1. ASSUME NEW k \in 1 .. i
      PROVE  k \in Alive(T, i + 1) <=>
                 k \in Alive(T, i) /\ Cnt(T, {".."}, k, i + 1) <= Cnt(T, DirNames, k, i + 1)
  <2>1. k \in 1 .. i + 1
    OBVIOUS
  <2>2. \A j : j \in k + 1 .. i + 1 <=> j \in k + 1 .. i \/ j = i + 1
    OBVIOUS
  <2> QED
    BY <2>1, <2>2, Zenon DEF Alive
<1>2. i + 1 \in Alive(T, i + 1) <=> T[i + 1] \in DirNames
  <2>1. i + 1 \in 1 .. i + 1 /\ \A j : j \notin (i + 1) + 1 .. i + 1
    OBVIOUS
  <2> QED
    BY <2>1, Zenon DEF Alive
<1> QED
  BY <1>1, <1>2

(* The counts up to the next token, of a survivor k.                        *)
LEMMA NextCounts ==
    ASSUME NEW T, NEW i \in Nat, NEW names, Kept(T, i, names), NEW k \in Alive(T, i)
    PROVE  \E d \in Nat, c \in Nat :
              /\ c = Cardinality(Alive(T, i) \cap k + 1 .. i)
              /\ Cnt(T, {".."}, k, i + 1) = d + IF T[i + 1] = ".." THEN 1 ELSE 0
              /\ Cnt(T, DirNames, k, i + 1) = d + c + IF T[i + 1] \in DirNames THEN 1 ELSE 0
<1>1. k \in 1 .. i /\ k \in Nat /\ k <= i
  BY AliveBound
<1>2. PICK d \in Nat : d = Cnt(T, {".."}, k, i)
  BY <1>1, CntFacts
<1>3. PICK c \in Nat : c = Cardinality(Alive(T, i) \cap k + 1 .. i)
  <2>1. k + 1 \in Nat
    BY <1>1
  <2> QED
    BY <2>1, AliveBound, Places
<1>4. Cnt(T, DirNames, k, i) = d + c
  BY <1>2, <1>3 DEF Kept
<1>5. Cnt(T, {".."}, k, i + 1) = d + IF T[i + 1] \in {".."} THEN 1 ELSE 0
  BY <1>1, <1>2, CntFacts
<1>6. Cnt(T, DirNames, k, i + 1) = d + c + IF T[i + 1] \in DirNames THEN 1 ELSE 0
  BY <1>1, <1>4, CntFacts
<1> QED
  BY <1>3, <1>5, <1>6

LEMMA KeptStart ==
    ASSUME NEW T
    PROVE  Kept(T, 0, <<>>)
<1>1. Alive(T, 0) = {}
  BY DEF Alive
<1> QED
  BY <1>1, FS_EmptySet DEF Kept, Spells

LEMMA KeptOther ==
    ASSUME NEW T, NEW i \in Nat, NEW names, Kept(T, i, names),
           T[i + 1] \notin DirNames, T[i + 1] # ".."
    PROVE  Kept(T, i + 1, names)
<1>0. i + 1 \in Nat
  OBVIOUS
<1>1. PICK A : A = Alive(T, i)
  OBVIOUS
<1>2. ASSUME NEW k \in A
      PROVE  /\ k \in Alive(T, i + 1)
             /\ Cnt(T, DirNames, k, i + 1) = Cnt(T, {".."}, k, i + 1) + Cardinality(A \cap k + 1 .. i)
  <2>1. PICK d \in Nat, c \in Nat :
              /\ c = Cardinality(A \cap k + 1 .. i)
              /\ Cnt(T, {".."}, k, i + 1) = d
              /\ Cnt(T, DirNames, k, i + 1) = d + c
    <3>1. PICK d \in Nat, c \in Nat :
              /\ c = Cardinality(A \cap k + 1 .. i)
              /\ Cnt(T, {".."}, k, i + 1) = d + IF T[i + 1] = ".." THEN 1 ELSE 0
              /\ Cnt(T, DirNames, k, i + 1) = d + c + IF T[i + 1] \in DirNames THEN 1 ELSE 0
      BY <1>1, NextCounts, Zenon
    <3>2. Cnt(T, {".."}, k, i + 1) = d /\ Cnt(T, DirNames, k, i + 1) = d + c
      BY <3>1
    <3> QED
      BY <3>1, <3>2
  <2>2. k \in 1 .. i
    BY <1>1, AliveBound
  <2>3. Cnt(T, {".."}, k, i + 1) <= Cnt(T, DirNames, k, i + 1)
    BY <2>1
  <2>4. k \in Alive(T, i + 1)
    BY <1>1, <2>2, <2>3, AliveNext, Zenon
  <2> QED
    BY <2>1, <2>4
<1>3. Alive(T, i + 1) = A
  <2>1. ASSUME NEW k \in Alive(T, i + 1) PROVE k \in A
    <3>1. k \in 1 .. i + 1
      BY <1>0, AliveBound
    <3>2. k # i + 1
      BY <2>1, AliveNext, Zenon
    <3>3. k \in 1 .. i
      BY <3>1, <3>2
    <3> QED
      BY <1>1, <3>3, AliveNext
  <2> QED
    BY <1>2, <2>1
<1>4. ASSUME NEW k \in A PROVE A \cap k + 1 .. i + 1 = A \cap k + 1 .. i
  <2>1. A \subseteq 1 .. i
    BY <1>1, AliveBound
  <2> QED
    BY <2>1
<1>5. Spells(T, A, names)
  BY <1>1 DEF Kept
<1>6. ASSUME NEW k \in A
      PROVE  Cnt(T, DirNames, k, i + 1) = Cnt(T, {".."}, k, i + 1) + Cardinality(A \cap k + 1 .. i + 1)
  BY <1>2, <1>4, Zenon
<1> QED
  BY <1>3, <1>5, <1>6, Zenon DEF Kept

LEMMA KeptName ==
    ASSUME NEW T, NEW i \in Nat, NEW names \in Seq(DirNames), Kept(T, i, names),
           T[i + 1] \in DirNames
    PROVE  Kept(T, i + 1, Append(names, T[i + 1]))
<1>0. T[i + 1] # ".."
  BY TokenKinds
<1>1. PICK A : A = Alive(T, i)
  OBVIOUS
<1>10. A \subseteq 1 .. i
  BY <1>1, AliveBound
<1>2. ASSUME NEW k \in A
      PROVE  /\ k \in Alive(T, i + 1) /\ Cardinality(A \cap k + 1 .. i) \in Nat
             /\ Cnt(T, DirNames, k, i + 1) = Cnt(T, {".."}, k, i + 1) + (Cardinality(A \cap k + 1 .. i) + 1)
  <2>1. PICK d \in Nat, c \in Nat :
              /\ c = Cardinality(A \cap k + 1 .. i)
              /\ Cnt(T, {".."}, k, i + 1) = d
              /\ Cnt(T, DirNames, k, i + 1) = d + c + 1
    <3>1. PICK d \in Nat, c \in Nat :
              /\ c = Cardinality(A \cap k + 1 .. i)
              /\ Cnt(T, {".."}, k, i + 1) = d + IF T[i + 1] = ".." THEN 1 ELSE 0
              /\ Cnt(T, DirNames, k, i + 1) = d + c + IF T[i + 1] \in DirNames THEN 1 ELSE 0
      BY <1>1, NextCounts, Zenon
    <3>2. Cnt(T, {".."}, k, i + 1) = d /\ Cnt(T, DirNames, k, i + 1) = d + c + 1
      BY <1>0, <3>1
    <3> QED
      BY <3>1, <3>2
  <2>2. k \in 1 .. i
    BY <1>10
  <2>3. Cnt(T, {".."}, k, i + 1) <= Cnt(T, DirNames, k, i + 1)
    BY <2>1
  <2>4. k \in Alive(T, i + 1)
    BY <1>1, <2>2, <2>3, AliveNext, Zenon
  <2> QED
    BY <2>1, <2>4
<1>3. Alive(T, i + 1) = A \cup {i + 1}
  <2>1. ASSUME NEW k \in Alive(T, i + 1), k # i + 1 PROVE k \in A
    <3>1. k \in 1 .. i + 1
      BY AliveBound
    <3>3. k \in 1 .. i
      BY <3>1, <2>1
    <3> QED
      BY <1>1, <3>3, AliveNext
  <2>2. i + 1 \in Alive(T, i + 1)
    BY AliveNext
  <2> QED
    BY <1>2, <2>1, <2>2
<1>4. ASSUME NEW k \in A
      PROVE  Cardinality((A \cup {i + 1}) \cap k + 1 .. i + 1) = Cardinality(A \cap k + 1 .. i) + 1
  <2>1. k \in 1 .. i
    BY <1>10
  <2>2. PICK B, x : B = A \cap k + 1 .. i /\ x = i + 1
    OBVIOUS
  <2>3. (A \cup {i + 1}) \cap k + 1 .. i + 1 = B \cup {x} /\ x \notin B
    BY <1>10, <2>1, <2>2
  <2>4. IsFiniteSet(B)
    BY <1>10, <2>1, <2>2, Places
  <2>5. Cardinality(B \cup {x}) = Cardinality(B) + 1
    BY <2>3, <2>4, FS_AddElement
  <2> QED
    BY <2>2, <2>3, <2>5, Zenon
<1>5. Spells(T, A \cup {i + 1}, Append(names, T[i + 1]))
  BY <1>1, <1>10, SpellsAdd DEF Kept
<1>6. ASSUME NEW k \in A \cup {i + 1}
      PROVE  Cnt(T, DirNames, k, i + 1)
                = Cnt(T, {".."}, k, i + 1) + Cardinality((A \cup {i + 1}) \cap k + 1 .. i + 1)
  <2>1. CASE k \in A
    BY <1>2, <1>4, <2>1
  <2>2. CASE k = i + 1
    <3>1. (A \cup {i + 1}) \cap k + 1 .. i + 1 = {}
      BY <2>2
    <3>2. Cnt(T, DirNames, k, i + 1) = 0 /\ Cnt(T, {".."}, k, i + 1) = 0
      BY <2>2, CntFacts
    <3> QED
      BY <3>1, <3>2, FS_EmptySet
  <2> QED
    BY <2>1, <2>2
<1> QED
  BY <1>3, <1>5, <1>6, Zenon DEF Kept

LEMMA LastPlace ==
    ASSUME NEW i \in Nat, NEW A, A \subseteq 1 .. i, A # {}
    PROVE  \E m \in A : \A k \in A : k <= m
<1>1. PICK D : D = {x \in Nat : i - x \in A}
  OBVIOUS
<1>2. ASSUME NEW k \in A PROVE i - k \in D
  <2>1. k \in 1 .. i
    OBVIOUS
  <2>2. i - k \in Nat /\ i - (i - k) = k
    BY <2>1
  <2> QED
    BY <1>1, <2>2
<1>3. D \subseteq Nat /\ D # {}
  BY <1>1, <1>2
<1>4. PICK x \in D : \A y \in D : ~(y < x)
  BY <1>3, FirstNumber
<1>5. x \in Nat /\ i - x \in A
  BY <1>1
<1>6. ASSUME NEW k \in A PROVE k <= i - x
  <2>1. k \in 1 .. i /\ ~(i - k < x)
    BY <1>2, <1>4
  <2> QED
    BY <1>5, <2>1
<1> QED
  BY <1>5, <1>6

LEMMA KeptUpNone ==
    ASSUME NEW T, NEW i \in Nat, Kept(T, i, <<>>), T[i + 1] = ".."
    PROVE  Kept(T, i + 1, <<>>)
<1>0. T[i + 1] \notin DirNames /\ i + 1 \in Nat
  <2>1. ".." \notin DirNames
    BY PathAssumption
  <2>2. T[i + 1] \notin DirNames
    BY <2>1
  <2> QED
    BY <2>2
<1>00. i + 1 \notin Alive(T, i + 1)
  <2>1. i + 1 \in Alive(T, i + 1) <=> T[i + 1] \in DirNames
    BY AliveNext
  <2> QED
    BY <1>0, <2>1
<1>1. Alive(T, i) = {}
  <2>1. Cardinality(Alive(T, i)) = 0
    BY DEF Kept, Spells
  <2>2. IsFiniteSet(Alive(T, i))
    BY AliveBound, Places
  <2> QED
    BY <2>1, <2>2, FS_EmptySet
<1>2. Alive(T, i + 1) = {}
  <2>1. ASSUME NEW k \in Alive(T, i + 1) PROVE FALSE
    <3>1. k \in 1 .. i + 1
      BY <1>0, AliveBound
    <3>2. k # i + 1
      BY <1>00, <2>1
    <3>3. k \in 1 .. i
      BY <3>1, <3>2
    <3> QED
      BY <1>1, <2>1, <3>3, AliveNext, Zenon
  <2> QED
    BY <2>1
<1> QED
  BY <1>2, FS_EmptySet DEF Kept, Spells

LEMMA KeptUp ==
    ASSUME NEW T, NEW i \in Nat, NEW names \in Seq(DirNames), Kept(T, i, names),
           names # <<>>, T[i + 1] = ".."
    PROVE  Kept(T, i + 1, SubSeq(names, 1, Len(names) - 1))
<1>0. T[i + 1] \notin DirNames /\ i + 1 \in Nat
  <2>1. ".." \notin DirNames
    BY PathAssumption
  <2>2. T[i + 1] \notin DirNames
    BY <2>1
  <2> QED
    BY <2>2
<1>00. i + 1 \notin Alive(T, i + 1)
  <2>1. i + 1 \in Alive(T, i + 1) <=> T[i + 1] \in DirNames
    BY AliveNext
  <2> QED
    BY <1>0, <2>1
<1>1. PICK A : A = Alive(T, i)
  OBVIOUS
<1>10. A \subseteq 1 .. i /\ Spells(T, A, names)
  BY <1>1, AliveBound DEF Kept
<1>11. A # {}
  <2>1. Len(names) = Cardinality(A)
    BY <1>10 DEF Spells
  <2> QED
    BY <2>1, FS_EmptySet, EmptySeq
<1>12. PICK m \in A : \A k \in A : k <= m
  BY <1>10, <1>11, LastPlace
<1>13. PICK C : C = A \ {m}
  OBVIOUS
<1>2. ASSUME NEW k \in A
      PROVE  /\ k \in 1 .. i /\ Cardinality(A \cap k + 1 .. i) \in Nat
             /\ k \in Alive(T, i + 1) <=> Cardinality(A \cap k + 1 .. i) # 0
             /\ Cnt(T, DirNames, k, i + 1) = Cnt(T, {".."}, k, i + 1) + (Cardinality(A \cap k + 1 .. i) - 1)
  <2>1. PICK d \in Nat, c \in Nat :
              /\ c = Cardinality(A \cap k + 1 .. i)
              /\ Cnt(T, {".."}, k, i + 1) = d + 1
              /\ Cnt(T, DirNames, k, i + 1) = d + c
    <3>1. PICK d \in Nat, c \in Nat :
              /\ c = Cardinality(A \cap k + 1 .. i)
              /\ Cnt(T, {".."}, k, i + 1) = d + IF T[i + 1] = ".." THEN 1 ELSE 0
              /\ Cnt(T, DirNames, k, i + 1) = d + c + IF T[i + 1] \in DirNames THEN 1 ELSE 0
      BY <1>1, NextCounts, Zenon
    <3>2. Cnt(T, {".."}, k, i + 1) = d + 1 /\ Cnt(T, DirNames, k, i + 1) = d + c
      BY <1>0, <3>1
    <3> QED
      BY <3>1, <3>2
  <2>2. k \in 1 .. i
    BY <1>10
  <2>3. Cnt(T, {".."}, k, i + 1) <= Cnt(T, DirNames, k, i + 1) <=> c # 0
    BY <2>1
  <2>4. k \in Alive(T, i + 1) <=> c # 0
    BY <1>1, <2>2, <2>3, AliveNext, Zenon
  <2> QED
    BY <2>1, <2>2, <2>4
<1>3. ASSUME NEW k \in A PROVE Cardinality(A \cap k + 1 .. i) # 0 <=> k # m
  <2>1. k \in 1 .. i /\ m \in 1 .. i /\ k <= m
    BY <1>10, <1>12
  <2>2. PICK B : B = A \cap k + 1 .. i
    OBVIOUS
  <2>3. IsFiniteSet(B)
    BY <1>10, <2>1, <2>2, Places
  <2>4. ASSUME k # m PROVE m \in B
    BY <2>1, <2>2, <2>4
  <2>5. ASSUME k = m PROVE B = {}
    BY <1>12, <2>1, <2>2, <2>5
  <2> QED
    BY <2>2, <2>3, <2>4, <2>5, FS_EmptySet
<1>4. Alive(T, i + 1) = C
  <2>1. ASSUME NEW k \in Alive(T, i + 1) PROVE k \in A
    <3>1. k \in 1 .. i + 1
      BY <1>0, AliveBound
    <3>2. k # i + 1
      BY <1>00, <2>1
    <3>3. k \in 1 .. i
      BY <3>1, <3>2
    <3> QED
      BY <1>1, <2>1, <3>3, AliveNext, Zenon
  <2>2. \A k \in A : k \in Alive(T, i + 1) <=> k # m
    BY <1>2, <1>3, Zenon
  <2> QED
    BY <1>13, <2>1, <2>2, Zenon
<1>5. ASSUME NEW k \in C
      PROVE  Cardinality(C \cap k + 1 .. i + 1) = Cardinality(A \cap k + 1 .. i) - 1
  <2>1. k \in 1 .. i /\ m \in 1 .. i /\ k <= m /\ k # m /\ k \in A
    BY <1>10, <1>12, <1>13
  <2>2. PICK B : B = A \cap k + 1 .. i
    OBVIOUS
  <2>3. m \in B /\ IsFiniteSet(B)
    BY <1>10, <2>1, <2>2, Places
  <2>4. C \cap k + 1 .. i + 1 = B \ {m}
    BY <1>10, <1>13, <2>1, <2>2
  <2>5. Cardinality(B \ {m}) = Cardinality(B) - 1
    BY <2>3, FS_RemoveElement
  <2> QED
    BY <2>2, <2>4, <2>5, Zenon
<1>6. Spells(T, C, SubSeq(names, 1, Len(names) - 1))
  BY <1>10, <1>12, <1>13, SpellsDrop
<1>7. ASSUME NEW k \in C
      PROVE  Cnt(T, DirNames, k, i + 1) = Cnt(T, {".."}, k, i + 1) + Cardinality(C \cap k + 1 .. i + 1)
  <2>1. k \in A
    BY <1>13
  <2> QED
    BY <1>2, <1>5, <2>1, Zenon
<1> QED
  BY <1>4, <1>6, <1>7, Zenon DEF Kept

-----------------------------------------------------------------------------
(* One turn of the loop, once the buffer starts with a slash.               *)

Sound(r) == r \in Buf /\ r.slash /\ ~r.wild /\ ~r.long

LEMMA NamesAreTokens ==
    ASSUME NEW names \in Seq(DirNames)
    PROVE  names \in Seq(Tokens)
<1>1. DirNames \subseteq Tokens
  BY DEF Tokens
<1>2. PICK n \in Nat : n = Len(names)
  BY SeqFacts
<1>3. names \in [1 .. n -> DirNames]
  BY <1>2, SeqFacts
<1>4. names \in [1 .. n -> Tokens]
  BY <1>1, <1>3
<1> QED
  BY <1>4

(* The length of a buffer.                                                  *)
LEMMA SoundLen ==
    ASSUME NEW r, Sound(r)
    PROVE  /\ r.names \in Seq(DirNames) /\ TextLen(r.names) \in Nat
           /\ BufLen(r) = 1 + TextLen(r.names) + Bit(r.tail)
           /\ EndLen(r) = 1 + TextLen(r.names)
           /\ Bit(r.tail) \in {0, 1} /\ (r.tail => Bit(r.tail) = 1) /\ (~r.tail => Bit(r.tail) = 0)
           /\ (r.names = <<>> => TextLen(r.names) = 0)
<1>1. r.names \in Seq(DirNames) /\ r.tail \in BOOLEAN /\ r.slash = TRUE /\ r.long = FALSE
  BY DEF Sound, Buf
<1>2. TextLen(r.names) \in Nat
  BY <1>1, NamesAreTokens, TextLenNat
<1>3. Bit(TRUE) = 1 /\ Bit(FALSE) = 0
  BY DEF Bit
<1>4. BufLen(r) = 1 + TextLen(r.names) + Bit(r.tail) /\ EndLen(r) = 1 + TextLen(r.names)
  BY <1>1, <1>3 DEF BufLen, EndLen
<1>5. r.names = <<>> => TextLen(r.names) = 0
  BY TextLenEmpty
<1> QED
  BY <1>1, <1>2, <1>3, <1>4, <1>5

(* The slash before a token.                                                *)
Extra(names) == IF names = <<>> THEN 0 ELSE 1

Slid(r, s) ==
    /\ s \in Buf /\ s.slash /\ ~s.wild /\ s.names = r.names
    /\ s.long => r.names # <<>> /\ BufLen(r) + 1 >= PATH_MAX
    /\ ~s.long => (s.tail \/ s.names = <<>>) /\ BufLen(s) <= BufLen(r) + Extra(r.names)

LEMMA SlashedSlid ==
    ASSUME NEW r, Sound(r), NEW before \in BOOLEAN, NEW s, s = Slashed(r, before)
    PROVE  Slid(r, s)
<1>0. r \in Buf /\ r.slash /\ ~r.wild /\ ~r.long /\ r.tail \in BOOLEAN
  BY DEF Sound, Buf
<1>1. PICK n \in Nat : n = TextLen(r.names)
  BY SoundLen
<1>2. PICK b \in Nat : b = BufLen(r) /\ b = 1 + n + Bit(r.tail)
  BY <1>1, SoundLen
<1>3. PATH_MAX \in Nat
  BY PathAssumption
<1>4. s = IF r.tail \/ r.names = <<>> THEN r
          ELSE IF b + 1 >= PATH_MAX THEN [r EXCEPT !.long = TRUE] ELSE [r EXCEPT !.tail = TRUE]
  <2>1. b > 0 /\ b # 0
    BY <1>1, <1>2, SoundLen
  <2> QED
    BY <1>2, <2>1 DEF Slashed
<1>5. CASE r.tail \/ r.names = <<>>
  <2>1. s = r
    BY <1>4, <1>5
  <2>2. BufLen(s) <= BufLen(r) + Extra(r.names)
    <3>1. PICK e \in {0, 1} : e = Extra(r.names)
      BY DEF Extra
    <3>2. b <= b + e
      OBVIOUS
    <3> QED
      BY <1>2, <2>1, <3>1, <3>2, Zenon
  <2> QED
    BY <1>0, <1>5, <2>1, <2>2 DEF Slid
<1>6. CASE ~(r.tail \/ r.names = <<>>) /\ b + 1 >= PATH_MAX
  <2>1. s = [r EXCEPT !.long = TRUE]
    BY <1>4, <1>6
  <2>2. s \in Buf /\ s.slash /\ ~s.wild /\ s.names = r.names /\ s.long
    BY <1>0, <2>1 DEF Buf
  <2> QED
    BY <1>2, <1>6, <2>2 DEF Slid
<1>7. CASE ~(r.tail \/ r.names = <<>>) /\ ~(b + 1 >= PATH_MAX)
  <2>1. s = [r EXCEPT !.tail = TRUE]
    BY <1>4, <1>7
  <2>2. s \in Buf /\ s.slash /\ ~s.wild /\ s.names = r.names /\ ~s.long /\ s.tail
    BY <1>0, <2>1 DEF Buf
  <2>3. Sound(s)
    BY <2>2 DEF Sound
  <2>4. BufLen(s) = 1 + n + 1
    BY <1>1, <2>2, <2>3, SoundLen
  <2>5. BufLen(r) = 1 + n + 0 /\ Extra(r.names) = 1
    <3>1. Bit(r.tail) = 0
      BY <1>7, SoundLen
    <3> QED
      BY <1>2, <1>7, <3>1 DEF Extra
  <2>6. BufLen(s) <= BufLen(r) + Extra(r.names)
    BY <2>4, <2>5
  <2> QED
    BY <2>2, <2>6 DEF Slid
<1> QED
  BY <1>5, <1>6, <1>7

LEMMA StrippedSound ==
    ASSUME NEW s, Sound(s), NEW new, new = Stripped(s)
    PROVE  /\ Sound(new) /\ BufLen(new) <= BufLen(s)
           /\ s.names = <<>> => new.names = s.names
           /\ s.names # <<>> => new.names = SubSeq(s.names, 1, Len(s.names) - 1)
<1>0. s \in Buf /\ s.slash = TRUE /\ ~s.wild /\ ~s.long
  BY DEF Sound, Buf
<1>1. CASE s.names = <<>>
  <2>1. new = s
    BY <1>1 DEF Stripped
  <2>2. BufLen(s) <= BufLen(s)
    BY SoundLen
  <2> QED
    BY <1>1, <2>1, <2>2
<1>2. CASE s.names # <<>>
  <2>1. PICK names \in Seq(DirNames) : names = s.names
    BY <1>0 DEF Buf
  <2>2. PICK up : up = SubSeq(names, 1, Len(names) - 1)
    OBVIOUS
  <2>3. FrontOf(DirNames, names, up)
    BY <1>2, <2>1, <2>2, FrontFacts
  <2>4. PICK b \in BOOLEAN : b = (up # <<>>)
    OBVIOUS
  <2>5. new = [s EXCEPT !.names = up, !.tail = b, !.wild = FALSE]
    <3>1. (~s.slash /\ up = <<>>) = FALSE
      BY <1>0
    <3>2. new = [s EXCEPT !.names = up, !.tail = (up # <<>>), !.wild = (~s.slash /\ up = <<>>)]
      BY <1>2, <2>1, <2>2, Zenon DEF Stripped
    <3> QED
      BY <2>4, <3>1, <3>2
  <2>6. up \in Seq(DirNames)
    BY <2>3 DEF FrontOf
  <2>7. new \in Buf /\ new.names = up /\ new.tail = b /\ new.slash /\ ~new.wild /\ ~new.long
    BY <1>0, <2>5, <2>6 DEF Buf
  <2>8. Sound(new)
    BY <2>7 DEF Sound
  <2>9. PICK last \in DirNames : names = Append(up, last)
    BY <2>3 DEF FrontOf
  <2>10. TextLen(names) = TextLen(up) + Chars(last) + IF up = <<>> THEN 0 ELSE 1
    <3>1. up \in Seq(Tokens) /\ last \in Tokens
      BY <2>6, NamesAreTokens DEF Tokens
    <3> QED
      BY <2>9, <3>1, TextLenAppend
  <2>11. Chars(last) \in Nat /\ TextLen(up) \in Nat
    BY <2>6, CharsNat, NamesAreTokens, TextLenNat
  <2>12. BufLen(new) = 1 + TextLen(up) + Bit(b) /\ BufLen(s) = 1 + TextLen(names) + Bit(s.tail)
         /\ Bit(s.tail) \in {0, 1}
    BY <2>1, <2>7, <2>8, SoundLen
  <2>13. Bit(b) = IF up = <<>> THEN 0 ELSE 1
    BY <2>4 DEF Bit
  <2>14. BufLen(new) <= BufLen(s)
    BY <2>10, <2>11, <2>12, <2>13
  <2> QED
    BY <1>2, <2>1, <2>2, <2>7, <2>8, <2>14
<1> QED
  BY <1>1, <1>2

LEMMA AppendedSound ==
    ASSUME NEW s, Sound(s), s.tail \/ s.names = <<>>, NEW name \in DirNames,
           NEW new, new = Appended(s, name)
    PROVE  \/ new.long /\ BufLen(s) + Chars(name) >= PATH_MAX
           \/ /\ Sound(new) /\ new.names = Append(s.names, name)
              /\ BufLen(new) <= BufLen(s) + Chars(name)
<1>0. s \in Buf /\ s.slash /\ ~s.wild /\ ~s.long
  BY DEF Sound, Buf
<1>1. PICK names \in Seq(DirNames) : names = s.names
  BY <1>0 DEF Buf
<1>2. PICK more \in Seq(DirNames) : more = Append(names, name)
  BY AppendFacts
<1>3. PICK a : a = [s EXCEPT !.names = more, !.tail = FALSE]
  OBVIOUS
<1>4. new = IF BufLen(a) >= PATH_MAX THEN [s EXCEPT !.long = TRUE] ELSE a
  <2>1. a = [s EXCEPT !.names = Append(@, name), !.tail = FALSE]
    BY <1>1, <1>2, <1>3
  <2> QED
    BY <2>1, Zenon DEF Appended
<1>5. a \in Buf /\ a.names = more /\ a.tail = FALSE /\ a.slash /\ ~a.wild /\ ~a.long
  BY <1>0, <1>3 DEF Buf
<1>6. Sound(a)
  BY <1>5 DEF Sound
<1>7. TextLen(more) = TextLen(names) + Chars(name) + IF names = <<>> THEN 0 ELSE 1
  <2>1. names \in Seq(Tokens) /\ name \in Tokens
    BY NamesAreTokens DEF Tokens
  <2> QED
    BY <1>2, <2>1, TextLenAppend
<1>8. Chars(name) \in Nat /\ TextLen(names) \in Nat
  BY CharsNat, NamesAreTokens, TextLenNat
<1>9. /\ BufLen(a) = 1 + TextLen(more) + Bit(a.tail) /\ Bit(a.tail) = 0
      /\ BufLen(s) = 1 + TextLen(names) + Bit(s.tail)
      /\ Bit(s.tail) \in {0, 1} /\ (s.tail => Bit(s.tail) = 1)
  BY <1>1, <1>5, <1>6, SoundLen
<1>10. PICK e \in {0, 1} : e = (IF names = <<>> THEN 0 ELSE 1) /\ e <= Bit(s.tail)
  <2>1. CASE names = <<>>
    BY <1>9, <2>1
  <2>2. CASE names # <<>>
    BY <1>1, <1>9, <2>2
  <2> QED
    BY <2>1, <2>2
<1>11. BufLen(a) <= BufLen(s) + Chars(name) /\ BufLen(a) \in Nat /\ BufLen(s) \in Nat
  BY <1>7, <1>8, <1>9, <1>10
<1>12. CASE BufLen(a) >= PATH_MAX
  <2>1. new = [s EXCEPT !.long = TRUE]
    BY <1>4, <1>12
  <2>2. new.long
    BY <1>0, <2>1 DEF Buf
  <2>3. BufLen(s) + Chars(name) >= PATH_MAX
    <3>1. PATH_MAX \in Nat
      BY PathAssumption
    <3> QED
      BY <1>8, <1>11, <1>12, <3>1
  <2> QED
    BY <2>2, <2>3
<1>13. CASE ~(BufLen(a) >= PATH_MAX)
  <2>1. new = a
    BY <1>4, <1>13
  <2> QED
    BY <1>1, <1>2, <1>5, <1>6, <1>11, <2>1
<1> QED
  BY <1>12, <1>13

(* The buffer after the first i tokens of T, which have x characters.       *)
NextLen(T, i, x, y) == y = x + Chars(T[i + 1]) + Gap(i + 1)

GoodBuf(r, T, i, x) == Sound(r) /\ Kept(T, i, r.names) /\ BufLen(r) <= 1 + x

LEMMA FirstSlash ==
    ASSUME NEW T, NEW i \in Nat, NEW names, Kept(T, i, names)
    PROVE  Extra(names) \in Nat /\ Extra(names) <= Gap(i + 1) /\ Gap(i + 1) \in {0, 1}
<1>1. CASE i = 0
  <2>1. Alive(T, i) = {}
    BY <1>1 DEF Alive
  <2>2. Len(names) = 0
    BY <2>1, FS_EmptySet DEF Kept, Spells
  <2> QED
    BY <1>1, <2>2 DEF Extra, Gap
<1>2. CASE i # 0
  BY <1>2 DEF Extra, Gap
<1> QED
  BY <1>1, <1>2

LEMMA BufferRoom ==
    ASSUME NEW x \in Nat, NEW c \in Nat, NEW g \in Nat, NEW e \in Nat, NEW b \in Nat,
           NEW P \in Nat, e <= g, b <= 1 + x
    PROVE  /\ b + e + c <= 1 + (x + c + g)
           /\ \A f \in Nat : f <= b + e + c => f <= 1 + (x + c + g)
           /\ \A d \in Nat : d <= b + e /\ d + c >= P => ~(1 + (x + c + g) < P)
           /\ e = 1 /\ b + 1 >= P => ~(1 + (x + c + g) < P)
           /\ ~(1 + x < P) => ~(1 + (x + c + g) < P)
OBVIOUS

LEMMA TurnGood ==
    ASSUME NEW T, NEW i \in Nat, NEW x \in Nat, T[i + 1] \in Tokens, NEW before \in BOOLEAN,
           NEW r, GoodBuf(r, T, i, x),
           NEW y, NextLen(T, i, x, y),
           NEW new, new = Turn(r, T[i + 1], before)
    PROVE  \/ new.long /\ ~(1 + y < PATH_MAX)
           \/ GoodBuf(new, T, i + 1, y)
<1>0. Sound(r) /\ Kept(T, i, r.names) /\ BufLen(r) <= 1 + x
  BY DEF GoodBuf
<1>1. PICK tok \in Tokens : tok = T[i + 1]
  OBVIOUS
<1>2. PICK c \in Nat : c = Chars(tok)
  BY CharsNat
<1>3. PICK g \in Nat, e \in Nat : g = Gap(i + 1) /\ e = Extra(r.names) /\ e <= g
  BY <1>0, FirstSlash
<1>4. y = x + c + g /\ y \in Nat /\ PATH_MAX \in Nat
  <2>1. y = x + c + g
    BY <1>1, <1>2, <1>3, Zenon DEF NextLen
  <2>2. PATH_MAX \in Nat
    BY PathAssumption
  <2> QED
    BY <2>1, <2>2
<1>5. PICK s : s = Slashed(r, before)
  OBVIOUS
<1>6. Slid(r, s)
  BY <1>0, <1>5, SlashedSlid
<1>7. new = Taken(r, tok, before)
  BY <1>0, <1>1 DEF Turn, Sound
<1>8. TakenOf(s, tok, new)
  BY <1>5, <1>7, TakenIs
<1>9. PICK b \in Nat : b = BufLen(r) /\ b <= 1 + x
  BY <1>0, SoundLen
<1>95. /\ \A f \in Nat : f <= b + e + c => f <= 1 + y
       /\ \A d \in Nat : d <= b + e /\ d + c >= PATH_MAX => ~(1 + y < PATH_MAX)
       /\ e = 1 /\ b + 1 >= PATH_MAX => ~(1 + y < PATH_MAX)
  BY <1>3, <1>4, <1>9, BufferRoom, Zenon
<1>10. CASE s.long
  <2>1. new = s
    BY <1>8, <1>10 DEF TakenOf
  <2>2. r.names # <<>> /\ b + 1 >= PATH_MAX
    BY <1>6, <1>9, <1>10 DEF Slid
  <2>3. e = 1
    BY <1>3, <2>2 DEF Extra
  <2>4. ~(1 + y < PATH_MAX)
    BY <1>95, <2>2, <2>3, Zenon
  <2> QED
    BY <1>10, <2>1, <2>4
<1>11. CASE ~s.long
  <2>1. Sound(s) /\ s.names = r.names /\ (s.tail \/ s.names = <<>>)
    BY <1>6, <1>11 DEF Slid, Sound
  <2>2. PICK d \in Nat : d = BufLen(s) /\ d <= b + e
    <3>1. BufLen(s) <= b + e
      BY <1>3, <1>6, <1>9, <1>11 DEF Slid
    <3>2. BufLen(s) \in Nat
      BY <2>1, SoundLen
    <3> QED
      BY <3>1, <3>2
  <2>3. Kept(T, i, s.names)
    BY <1>0, <2>1
  <2>4. PICK names \in Seq(DirNames) : names = s.names
    BY <2>1 DEF Sound, Buf
  <2>5. CASE tok \in {"", "."}
    <3>1. new = s
      BY <1>8, <2>5 DEF TakenOf
    <3>2. T[i + 1] \notin DirNames /\ T[i + 1] # ".."
      BY <1>1, <2>5, TokenKinds
    <3>3. Kept(T, i + 1, s.names)
      BY <2>3, <3>2, KeptOther
    <3>4. BufLen(s) <= 1 + y
      <4>1. d <= b + e + c
        BY <2>2
      <4> QED
        BY <1>95, <2>2, <4>1, Zenon
    <3> QED
      BY <2>1, <3>1, <3>3, <3>4 DEF GoodBuf
  <2>6. CASE tok = ".."
    <3>1. new = Stripped(s)
      BY <1>8, <1>11, <2>6 DEF TakenOf
    <3>2. /\ Sound(new) /\ BufLen(new) <= BufLen(s)
          /\ s.names = <<>> => new.names = s.names
          /\ s.names # <<>> => new.names = SubSeq(s.names, 1, Len(s.names) - 1)
      BY <2>1, <3>1, StrippedSound
    <3>3. BufLen(new) <= 1 + y
      <4>1. PICK f \in Nat : f = BufLen(new) /\ f <= d
        BY <2>2, <3>2, SoundLen
      <4> QED
        <5>1. f <= b + e + c
          BY <2>2, <4>1
        <5> QED
          BY <1>95, <4>1, <5>1, Zenon
    <3>4. T[i + 1] = ".."
      BY <1>1, <2>6
    <3>5. Kept(T, i + 1, new.names)
      <4>1. CASE s.names = <<>>
        <5>1. Kept(T, i + 1, <<>>)
          BY <2>3, <3>4, <4>1, KeptUpNone
        <5> QED
          BY <3>2, <4>1, <5>1
      <4>2. CASE s.names # <<>>
        <5>1. Kept(T, i, names) /\ names # <<>>
          BY <2>3, <2>4, <4>2
        <5>2. Kept(T, i + 1, SubSeq(names, 1, Len(names) - 1))
          BY <3>4, <5>1, KeptUp
        <5> QED
          BY <2>4, <3>2, <4>2, <5>2
      <4> QED
        BY <4>1, <4>2
    <3> QED
      BY <3>2, <3>3, <3>5 DEF GoodBuf
  <2>7. CASE tok \in DirNames
    <3>1. new = Appended(s, tok)
      BY <1>8, <1>11, <2>7 DEF TakenOf
    <3>2. \/ new.long /\ BufLen(s) + Chars(tok) >= PATH_MAX
          \/ /\ Sound(new) /\ new.names = Append(s.names, tok)
             /\ BufLen(new) <= BufLen(s) + Chars(tok)
      BY <2>1, <2>7, <3>1, AppendedSound
    <3>3. CASE new.long /\ BufLen(s) + Chars(tok) >= PATH_MAX
      <4>1. d + c >= PATH_MAX
        BY <1>2, <2>2, <3>3
      <4>2. ~(1 + y < PATH_MAX)
        BY <1>95, <2>2, <4>1, Zenon
      <4> QED
        BY <3>3, <4>2
    <3>4. CASE /\ Sound(new) /\ new.names = Append(s.names, tok)
               /\ BufLen(new) <= BufLen(s) + Chars(tok)
      <4>1. BufLen(new) <= 1 + y
        <5>1. PICK f \in Nat : f = BufLen(new) /\ f <= d + c
          <6>1. BufLen(new) \in Nat
            BY <3>4, SoundLen
          <6>2. BufLen(new) <= d + c
            BY <1>2, <2>2, <3>4, Zenon
          <6> QED
            BY <6>1, <6>2
        <5>2. f <= b + e + c
          BY <2>2, <5>1
        <5> QED
          BY <1>95, <5>1, <5>2, Zenon
      <4>2. Kept(T, i + 1, Append(names, T[i + 1]))
        <5>1. Kept(T, i, names) /\ T[i + 1] \in DirNames
          BY <1>1, <2>3, <2>4, <2>7
        <5> QED
          BY <5>1, KeptName
      <4>3. Kept(T, i + 1, new.names)
        BY <1>1, <2>4, <3>4, <4>2
      <4> QED
        BY <3>4, <4>1, <4>3 DEF GoodBuf
    <3> QED
      BY <3>2, <3>3, <3>4
  <2> QED
    BY <2>5, <2>6, <2>7, TokenKinds
<1> QED
  BY <1>10, <1>11

(* The buffer at the end, of a text that starts with a slash.               *)
LEMMA ResolvedBuf ==
    ASSUME NEW T \in Seq(Tokens), NEW before \in BOOLEAN,
           NEW r, r = resolve_path(TRUE, T, before), TextLen(T) < PATH_MAX
    PROVE  \/ r.long /\ ~(1 + TextLen(T) < PATH_MAX)
           \/ GoodBuf(r, T, Len(T), TextLen(T))
<1>0. PICK n \in Nat : n = Len(T)
  BY SeqFacts
<1>1. PICK f : /\ Fills(f, TRUE, T, before)
               /\ resolve_path(TRUE, T, before) =
                        IF TextLen(T) >= PATH_MAX THEN StartBuf(TRUE) ELSE f[Len(T)]
  BY BufferFilled
<1>2. PICK len : Measures(len, T) /\ TextLen(T) = len[Len(T)]
  BY TextLens
<1>3. PATH_MAX \in Nat /\ TextLen(T) \in Nat
  BY PathAssumption, TextLenNat
<1>4. r = f[n]
  <2>1. ~(TextLen(T) >= PATH_MAX)
    BY <1>3
  <2> QED
    BY <1>0, <1>1, <2>1, Zenon
<1>5. PICK A : A = {i \in 0 .. n : \/ f[i].long /\ ~(1 + len[i] < PATH_MAX)
                                   \/ GoodBuf(f[i], T, i, len[i])}
  OBVIOUS
<1>6. 0 \in A
  <2>1. f[0] = StartBuf(TRUE) /\ len[0] = 0
    BY <1>1, <1>2 DEF Fills, Measures
  <2>2. PICK b : b = StartBuf(TRUE)
    OBVIOUS
  <2>3. b \in Buf /\ b.slash /\ ~b.wild /\ ~b.long /\ b.names = <<>> /\ b.tail = FALSE
    BY <2>2, StartType DEF StartBuf
  <2>4. Sound(b)
    BY <2>3 DEF Sound
  <2>5. BufLen(b) <= 1 + 0
    BY <2>3, <2>4, SoundLen
  <2>6. Kept(T, 0, b.names)
    BY <2>3, KeptStart
  <2>7. GoodBuf(b, T, 0, 0)
    BY <2>4, <2>5, <2>6 DEF GoodBuf
  <2>8. GoodBuf(f[0], T, 0, len[0])
    BY <2>1, <2>2, <2>7, Zenon
  <2> QED
    BY <1>5, <2>8
<1>7. ASSUME NEW i \in 0 .. n, i < n, i \in A PROVE i + 1 \in A
  <2>1. i + 1 \in 1 .. n /\ (i + 1) - 1 = i /\ i \in Nat /\ i + 1 \in 0 .. n
    BY <1>7
  <2>2. f[i + 1] = Turn(f[i], T[i + 1], before) /\ f[i] \in Buf
    BY <1>0, <1>1, <2>1 DEF Fills
  <2>3. len[i + 1] = len[i] + Chars(T[i + 1]) + Gap(i + 1)
    BY <1>0, <1>2, <2>1 DEF Measures
  <2>4. len[i] \in Nat /\ T[i + 1] \in Tokens
    <3>1. len \in [0 .. n -> Nat]
      BY <1>0, <1>2 DEF Measures
    <3> QED
      BY <1>0, <2>1, <3>1, SeqFacts
  <2>5. PICK x, y, r0, new : x \in Nat /\ x = len[i] /\ y = len[i + 1] /\ r0 = f[i] /\ new = f[i + 1]
    BY <2>4
  <2>6. NextLen(T, i, x, y) /\ new = Turn(r0, T[i + 1], before)
    BY <2>2, <2>3, <2>5, Zenon DEF NextLen
  <2>7. CASE r0.long /\ ~(1 + x < PATH_MAX)
    <3>1. new = r0
      BY <2>6, <2>7 DEF Turn
    <3>2. PICK c \in Nat : c = Chars(T[i + 1])
      BY <2>4, CharsNat
    <3>3. PICK g \in Nat : g = Gap(i + 1)
      BY DEF Gap
    <3>4. y = x + c + g
      BY <2>6, <3>2, <3>3, Zenon DEF NextLen
    <3>5. ~(1 + y < PATH_MAX)
      <4>1. ~(1 + x < PATH_MAX) => ~(1 + (x + c + g) < PATH_MAX)
        BY <1>3, <2>5
      <4> QED
        BY <2>7, <3>4, <4>1, Zenon
    <3> QED
      BY <1>5, <2>1, <2>5, <2>7, <3>1, <3>5
  <2>8. CASE GoodBuf(r0, T, i, x)
    <3>1. \/ new.long /\ ~(1 + y < PATH_MAX)
          \/ GoodBuf(new, T, i + 1, y)
      BY <2>1, <2>4, <2>5, <2>6, <2>8, TurnGood
    <3> QED
      BY <1>5, <2>1, <2>5, <3>1
  <2> QED
    BY <1>5, <1>7, <2>5, <2>7, <2>8
<1>8. n \in A
  <2>1. \A i \in 0 .. n : i \in A
    BY <1>6, <1>7, Turns
  <2> QED
    BY <2>1
<1> QED
  BY <1>0, <1>2, <1>4, <1>5, <1>8

-----------------------------------------------------------------------------
(* __realpath.                                                              *)

LEMMA SurvivorsAre ==
    ASSUME NEW T
    PROVE  Survivors(T) = Alive(T, Len(T))
BY Zenon DEF Survivors, Survives, Alive, Cnt

LEMMA ResolveType ==
    ASSUME NEW slash \in BOOLEAN, NEW T \in Seq(Tokens), NEW before \in BOOLEAN
    PROVE  resolve_path(slash, T, before) \in Buf
<1>1. PICK f : /\ Fills(f, slash, T, before)
               /\ resolve_path(slash, T, before) =
                        IF TextLen(T) >= PATH_MAX THEN StartBuf(slash) ELSE f[Len(T)]
  BY BufferFilled
<1>2. f[Len(T)] \in Buf
  BY <1>1, SeqFacts DEF Fills
<1> QED
  BY <1>1, <1>2, StartType

LEMMA ResolveNothing ==
    ASSUME NEW slash \in BOOLEAN, NEW before \in BOOLEAN
    PROVE  resolve_path(slash, <<>>, before) = StartBuf(slash)
<1>0. <<>> \in Seq(Tokens) /\ Len(<<>>) = 0
  OBVIOUS
<1>1. PICK f : /\ Fills(f, slash, <<>>, before)
               /\ resolve_path(slash, <<>>, before) =
                        IF TextLen(<<>>) >= PATH_MAX THEN StartBuf(slash) ELSE f[Len(<<>>)]
  BY <1>0, BufferFilled
<1>2. f[0] = StartBuf(slash)
  BY <1>1 DEF Fills
<1> QED
  BY <1>0, <1>1, <1>2

(* An empty token at the start changes nothing but the length.              *)
LEMMA OneToken ==
    ASSUME NEW S, NEW x \in S
    PROVE  <<x>> \in Seq(S) /\ Len(<<x>>) = 1 /\ <<x>>[1] = x /\ <<x>> = Append(<<>>, x)
OBVIOUS

LEMMA EmptyToken ==
    ASSUME NEW x \in Tokens, Chars(x) = 0
    PROVE  TextLen(<<x>>) = 0
<1>0. <<>> \in Seq(Tokens)
  BY EmptySeq
<1>1. PICK s \in Seq(Tokens) : s = <<>>
  BY <1>0, Zenon
<1>2. TextLen(Append(s, x)) = TextLen(s) + Chars(x) + IF s = <<>> THEN 0 ELSE 1
  BY TextLenAppend
<1>3. TextLen(s) = 0
  BY <1>1, TextLenEmpty, Zenon
<1>4. TextLen(Append(s, x)) = 0
  BY <1>1, <1>2, <1>3
<1>5. Append(s, x) = <<x>>
  BY <1>1, OneToken
<1> QED
  BY <1>4, <1>5, Zenon

(* J is T after an empty token.                                             *)
After1(J, T) ==
    Len(J) = Len(T) + 1 /\ J[1] = "" /\ \A j \in 1 .. Len(T) : J[j + 1] = T[j]

LEMMA EmptyFirst ==
    ASSUME NEW T \in Seq(Tokens), NEW J \in Seq(Tokens), NEW before \in BOOLEAN, After1(J, T),
           TextLen(J) < PATH_MAX, TextLen(T) < PATH_MAX
    PROVE  resolve_path(TRUE, J, before) = resolve_path(TRUE, T, before)
<1>0. PICK n \in Nat : n = Len(T)
  BY SeqFacts
<1>2. Len(J) = n + 1 /\ J[1] = "" /\ \A j \in 1 .. n : J[j + 1] = T[j]
  BY <1>0 DEF After1
<1>3. PICK f : /\ Fills(f, TRUE, J, before)
               /\ resolve_path(TRUE, J, before) =
                        IF TextLen(J) >= PATH_MAX THEN StartBuf(TRUE) ELSE f[Len(J)]
  BY BufferFilled
<1>4. PICK g : /\ Fills(g, TRUE, T, before)
               /\ resolve_path(TRUE, T, before) =
                        IF TextLen(T) >= PATH_MAX THEN StartBuf(TRUE) ELSE g[Len(T)]
  BY BufferFilled
<1>5. resolve_path(TRUE, J, before) = f[n + 1] /\ resolve_path(TRUE, T, before) = g[n]
  <2>1. PATH_MAX \in Nat /\ TextLen(J) \in Nat /\ TextLen(T) \in Nat
    BY PathAssumption, TextLenNat
  <2>2. ~(TextLen(J) >= PATH_MAX) /\ ~(TextLen(T) >= PATH_MAX)
    BY <2>1
  <2> QED
    BY <1>0, <1>2, <1>3, <1>4, <2>2, Zenon
<1>6. f[1] = StartBuf(TRUE)
  <2>1. PICK b : b = StartBuf(TRUE)
    OBVIOUS
  <2>2. b \in Buf /\ b.slash /\ ~b.wild /\ ~b.long /\ b.names = <<>> /\ b.tail = FALSE
    BY <2>1, StartType DEF StartBuf
  <2>3. BufLen(b) = 1
    <3>1. Sound(b)
      BY <2>2 DEF Sound
    <3> QED
      BY <2>2, <3>1, SoundLen
  <2>4. Slashed(b, before) = b
    BY <2>2, <2>3 DEF Slashed
  <2>5. TakenOf(Slashed(b, before), "", Taken(b, "", before))
    BY TakenIs DEF Tokens
  <2>6. Taken(b, "", before) = b
    BY <2>4, <2>5 DEF TakenOf
  <2>7. Turn(b, "", before) = b
    BY <2>6 DEF Turn
  <2>8. f[0] = b /\ 1 \in 1 .. Len(J) /\ \A i \in 1 .. Len(J) : f[i] = Turn(f[i - 1], J[i], before)
    <3>1. Len(J) = n + 1
      BY <1>2, Zenon
    <3>2. 1 \in 1 .. Len(J)
      BY <3>1
    <3> QED
      BY <1>3, <2>1, <3>2, Zenon DEF Fills
  <2>9. f[1] = Turn(f[0], J[1], before)
    BY <2>8
  <2> QED
    BY <1>2, <2>1, <2>7, <2>8, <2>9
<1>7. PICK A : A = {i \in 0 .. n : f[i + 1] = g[i]}
  OBVIOUS
<1>8. 0 \in A
  <2>1. g[0] = StartBuf(TRUE) /\ f[0 + 1] = f[1]
    BY <1>4 DEF Fills
  <2>2. f[0 + 1] = g[0]
    BY <1>6, <2>1, Zenon
  <2>3. 0 \in 0 .. n
    OBVIOUS
  <2> QED
    BY <1>7, <2>2, <2>3, Zenon
<1>9. ASSUME NEW i \in 0 .. n, i < n, i \in A PROVE i + 1 \in A
  <2>1. /\ i + 1 \in 1 .. n /\ (i + 1) - 1 = i /\ i + 1 \in 0 .. n
        /\ (i + 1) + 1 \in 1 .. n + 1 /\ ((i + 1) + 1) - 1 = i + 1
    BY <1>9
  <2>2. g[i + 1] = Turn(g[i], T[i + 1], before)
    BY <1>0, <1>4, <2>1 DEF Fills
  <2>3. f[(i + 1) + 1] = Turn(f[i + 1], J[(i + 1) + 1], before)
    BY <1>2, <1>3, <2>1 DEF Fills
  <2>4. J[(i + 1) + 1] = T[i + 1] /\ f[i + 1] = g[i]
    BY <1>2, <1>7, <1>9, <2>1
  <2> QED
    BY <1>7, <2>1, <2>2, <2>3, <2>4
<1>10. f[n + 1] = g[n]
  <2>1. \A i \in 0 .. n : i \in A
    BY <1>8, <1>9, Turns
  <2> QED
    BY <1>7, <2>1
<1> QED
  BY <1>5, <1>10

(* A buffer on its drive.                                                   *)
LEMMA OnDriveType ==
    ASSUME NEW drive \in Drives, NEW r \in Buf
    PROVE  OnDrive(drive, r) \in FullPath \cup {NULL}
<1>1. [drive |-> drive, slash |-> r.slash, names |-> r.names] \in FullPath
  BY DEF Buf, FullPath
<1> QED
  BY <1>1 DEF OnDrive

RightPath(result, drive, T) ==
    /\ result # NULL /\ TextLen(T) < PATH_MAX =>
          result.drive = drive /\ result.slash /\ Spells(T, Survivors(T), result.names)
    /\ Length[drive] + 1 + TextLen(T) < PATH_MAX => result # NULL

LEMMA DriveLen ==
    ASSUME NEW drive \in Drives
    PROVE  Length[drive] \in Nat \ {0} /\ PATH_MAX \in Nat
<1>1. Length \in [Drives \cup DirNames -> Nat \ {0}] /\ PATH_MAX \in Nat
  BY PathAssumption
<1> QED
  BY <1>1

LEMMA RightOnDrive ==
    ASSUME NEW T \in Seq(Tokens), NEW before \in BOOLEAN, NEW drive \in Drives,
           NEW result, result = OnDrive(drive, resolve_path(TRUE, T, before))
    PROVE  RightPath(result, drive, T)
<1>1. PICK r \in Buf : r = resolve_path(TRUE, T, before)
  BY ResolveType
<1>2. PICK full : full = [drive |-> drive, slash |-> r.slash, names |-> r.names]
  OBVIOUS
<1>3. full \in FullPath /\ full # NULL
  BY <1>2, NullIsNoPath DEF Buf, FullPath
<1>4. result = IF ~r.wild /\ EndLen(r) + Length[drive] < PATH_MAX THEN full ELSE NULL
  BY <1>1, <1>2, Zenon DEF OnDrive
<1>5. PICK l \in Nat, P \in Nat, t \in Nat :
         l = Length[drive] /\ l # 0 /\ P = PATH_MAX /\ t = TextLen(T)
  BY DriveLen, TextLenNat
<1>6. t < P => \/ r.long /\ ~(1 + t < P)
               \/ GoodBuf(r, T, Len(T), t)
  BY <1>1, <1>5, ResolvedBuf
<1>7. r.long => result = NULL
  <2>1. r.long => EndLen(r) = P - 1
    BY <1>5 DEF EndLen
  <2>2. ~((P - 1) + l < P)
    BY <1>5
  <2> QED
    BY <1>4, <1>5, <2>1, <2>2
<1>8. ASSUME result # NULL, t < P
      PROVE  result.drive = drive /\ result.slash /\ Spells(T, Survivors(T), result.names)
  <2>1. GoodBuf(r, T, Len(T), t)
    BY <1>6, <1>7, <1>8
  <2>2. result = full
    BY <1>4, <1>8
  <2>3. full.drive = drive /\ full.slash = r.slash /\ full.names = r.names
    BY <1>2
  <2>4. r.slash
    BY <2>1 DEF GoodBuf, Sound
  <2>5. Spells(T, Survivors(T), r.names)
    BY <2>1, SurvivorsAre DEF GoodBuf, Kept
  <2> QED
    BY <2>2, <2>3, <2>4, <2>5
<1>9. ASSUME l + 1 + t < P PROVE result # NULL
  <2>1. t < P /\ 1 + t < P
    BY <1>9
  <2>2. GoodBuf(r, T, Len(T), t)
    BY <1>6, <2>1
  <2>3. Sound(r) /\ ~r.wild /\ BufLen(r) <= 1 + t
    BY <2>2 DEF GoodBuf, Sound
  <2>4. PICK e \in Nat : e = EndLen(r) /\ e <= 1 + t
    <3>1. PICK x \in Nat, b \in {0, 1} : x = TextLen(r.names) /\ b = Bit(r.tail)
      BY <2>3, SoundLen
    <3>2. BufLen(r) = 1 + x + b /\ EndLen(r) = 1 + x
      BY <2>3, <3>1, SoundLen
    <3> QED
      BY <2>3, <3>1, <3>2
  <2>5. e + l < P
    BY <1>9, <2>4
  <2> QED
    BY <1>3, <1>4, <1>5, <2>3, <2>4, <2>5
<1> QED
  BY <1>5, <1>8, <1>9, Zenon DEF RightPath

(* The tokens of a path and of a full path.                                 *)
LEMMA PathFacts ==
    ASSUME NEW p \in Path
    PROVE  /\ p.drive \in Drives \cup {NULL} /\ p.slash \in BOOLEAN /\ p.tokens \in Seq(Tokens)
           /\ NULL \notin Drives
<1>1. p.drive \in Drives \cup {NULL} /\ p.slash \in BOOLEAN /\ p.tokens \in TokenSeqs
  BY DEF Path
<1>2. PICK n \in Nat : p.tokens \in [1 .. n -> Tokens]
  <2>1. PICK F \in {[1 .. n -> Tokens] : n \in 0 .. MaxTokens} : p.tokens \in F
    BY <1>1, Zenon DEF TokenSeqs
  <2>2. PICK n \in 0 .. MaxTokens : F = [1 .. n -> Tokens]
    BY <2>1, Zenon
  <2>3. n \in Nat
    <3>1. MaxTokens \in Nat
      BY PathAssumption
    <3> QED
      BY <3>1
  <2> QED
    BY <2>1, <2>2, <2>3
<1>3. p.tokens \in Seq(Tokens)
  BY <1>2
<1> QED
  BY <1>1, <1>3, PathAssumption

LEMMA FullFacts ==
    ASSUME NEW c \in FullPath
    PROVE  c.drive \in Drives /\ c.slash \in BOOLEAN /\ c.names \in Seq(DirNames)
           /\ c.names \in Seq(Tokens)
<1>1. c.drive \in Drives /\ c.slash \in BOOLEAN /\ c.names \in Seq(DirNames)
  BY DEF FullPath
<1> QED
  BY <1>1, NamesAreTokens

LEMMA EmptyIsToken == "" \in Tokens /\ Chars("") = 0
BY CharsNat DEF Tokens

LEMMA JoinedFacts ==
    ASSUME NEW c \in FullPath, NEW tokens \in Seq(Tokens), NEW J, J = Joined(c, tokens)
    PROVE  /\ J \in Seq(Tokens)
           /\ ~(c.names = <<>> /\ c.slash) => J = c.names \o tokens
           /\ c.names = <<>> /\ c.slash =>
                 After1(J, tokens) /\ TextLen(J) <= 1 + TextLen(tokens) /\ c.names \o tokens = tokens
<1>0. c.names \in Seq(Tokens)
  BY FullFacts
<1>1. CASE ~(c.names = <<>> /\ c.slash)
  <2>1. J = c.names \o tokens
    BY <1>1, Zenon DEF Joined
  <2> QED
    BY <1>0, <1>1, <2>1, ConcatFacts
<1>2. CASE c.names = <<>> /\ c.slash
  <2>1. PICK x \in Tokens : x = "" /\ Chars(x) = 0
    BY EmptyIsToken, Zenon
  <2>2. J = <<x>> \o tokens
    BY <1>2, <2>1, Zenon DEF Joined
  <2>3. PICK s \in Seq(Tokens) : s = <<x>> /\ Len(s) = 1 /\ s[1] = x
    BY OneToken
  <2>4. /\ s \o tokens \in Seq(Tokens) /\ Len(s \o tokens) = Len(s) + Len(tokens)
        /\ \A i \in 1 .. Len(s) : (s \o tokens)[i] = s[i]
        /\ \A j \in 1 .. Len(tokens) : (s \o tokens)[Len(s) + j] = tokens[j]
    BY ConcatFacts
  <2>5. J = s \o tokens
    BY <2>2, <2>3, Zenon
  <2>6. PICK n \in Nat : n = Len(tokens)
    BY SeqFacts
  <2>7. Len(J) = n + 1 /\ J[1] = x /\ \A j \in 1 .. n : J[j + 1] = tokens[j]
    <3>1. Len(J) = 1 + n /\ J[1] = s[1] /\ \A j \in 1 .. n : J[1 + j] = tokens[j]
      BY <2>3, <2>4, <2>5, <2>6
    <3> QED
      BY <2>3, <3>1
  <2>8. After1(J, tokens)
    BY <2>1, <2>6, <2>7, Zenon DEF After1
  <2>9. TextLen(s \o tokens) = TextLen(s) + TextLen(tokens) + IF s = <<>> \/ tokens = <<>> THEN 0 ELSE 1
    BY TextLenConcat
  <2>10. TextLen(s) = 0 /\ TextLen(tokens) \in Nat
    BY <2>1, <2>3, EmptyToken, TextLenNat
  <2>11. TextLen(J) <= 1 + TextLen(tokens)
    BY <2>5, <2>9, <2>10
  <2>12. c.names \o tokens = tokens
    BY <1>2, ConcatEmptySeq
  <2> QED
    BY <1>2, <2>4, <2>5, <2>8, <2>11, <2>12
<1> QED
  BY <1>1, <1>2

(* Two sums of lengths.                                                     *)
LEMMA SumFits ==
    ASSUME NEW l \in Nat, NEW u \in Nat, NEW t \in Nat, NEW P \in Nat, NEW j \in Nat,
           l # 0, l + 1 + u + t < P, j <= 1 + t
    PROVE  j < P /\ t < P
OBVIOUS

LEMMA SumExceeds ==
    ASSUME NEW l \in Nat, NEW u \in Nat, NEW t \in Nat, NEW P \in Nat,
           NEW e \in {0, 1}, NEW k \in {0, 1}, ~(l + e + u + t < P)
    PROVE  ~(l + 1 + (u + t + k) < P)
OBVIOUS

(* The empty path.                                                          *)
LEMMA RealpathEmpty ==
    ASSUME NEW c, NEW before
    PROVE  realpath(EmptyPath, c, before) = NULL
<1>1. EmptyPath.drive = NULL /\ EmptyPath.slash = FALSE
  BY DEF EmptyPath
<1>2. PICK p : p = EmptyPath
  OBVIOUS
<1>3. realpath(p, c, before) = NULL
  BY <1>1, <1>2 DEF realpath
<1> QED
  BY <1>2, <1>3, Zenon

(* A relative path.                                                         *)
LEMMA RightRelative ==
    ASSUME NEW c \in FullPath, NEW tokens \in Seq(Tokens), NEW before \in BOOLEAN,
           c.names # <<>> => c.slash,
           NEW result,
           result = IF FullLen(c) + TextLen(tokens) < PATH_MAX
                    THEN OnDrive(c.drive, resolve_path(c.slash \/ c.names = <<>>,
                                                       Joined(c, tokens), before))
                    ELSE NULL
    PROVE  RightPath(result, c.drive, c.names \o tokens)
<1>0. PICK drive \in Drives, names \in Seq(Tokens) : drive = c.drive /\ names = c.names
  BY FullFacts
<1>1. PICK l \in Nat, P \in Nat, t \in Nat, u \in Nat :
         l = Length[drive] /\ l # 0 /\ P = PATH_MAX /\ t = TextLen(tokens) /\ u = TextLen(names)
  BY DriveLen, TextLenNat
<1>2. PICK e \in {0, 1} : e = Bit(c.slash) /\ (c.slash => e = 1)
  BY FullFacts DEF Bit
<1>3. FullLen(c) = l + e + u
  BY <1>0, <1>1, <1>2 DEF FullLen
<1>4. PICK J \in Seq(Tokens) : J = Joined(c, tokens)
  BY JoinedFacts
<1>5. (c.slash \/ c.names = <<>>) = TRUE
  BY FullFacts
<1>6. PICK T \in Seq(Tokens) : T = names \o tokens
  BY ConcatFacts
<1>7. PICK k \in {0, 1} : /\ TextLen(T) = u + t + k
                          /\ names = <<>> => k = 0 /\ u = 0
  <2>1. TextLen(T) = u + t + IF names = <<>> \/ tokens = <<>> THEN 0 ELSE 1
    BY <1>1, <1>6, TextLenConcat
  <2>2. names = <<>> => u = 0
    BY <1>1, TextLenEmpty
  <2>3. PICK k \in {0, 1} : k = IF names = <<>> \/ tokens = <<>> THEN 0 ELSE 1
    OBVIOUS
  <2> QED
    BY <2>1, <2>2, <2>3
<1>8. ASSUME l + e + u + t < P
      PROVE  result = OnDrive(drive, resolve_path(TRUE, T, before))
  <2>1. result = OnDrive(drive, resolve_path(TRUE, J, before))
    <3>1. FullLen(c) + TextLen(tokens) < PATH_MAX
      BY <1>1, <1>3, <1>8
    <3>2. result = OnDrive(c.drive, resolve_path(c.slash \/ c.names = <<>>, Joined(c, tokens), before))
      BY <3>1, Zenon
    <3> QED
      BY <1>0, <1>4, <1>5, <3>2
  <2>2. CASE ~(c.names = <<>> /\ c.slash)
    <3>1. J = T
      BY <1>0, <1>4, <1>6, <2>2, JoinedFacts
    <3> QED
      BY <2>1, <3>1, Zenon
  <2>3. CASE c.names = <<>> /\ c.slash
    <3>1. After1(J, tokens) /\ TextLen(J) <= 1 + t /\ T = tokens
      BY <1>0, <1>1, <1>4, <1>6, <2>3, JoinedFacts
    <3>2. PICK j \in Nat : j = TextLen(J)
      BY TextLenNat
    <3>3. e = 1
      BY <1>2, <2>3
    <3>4. j < P /\ t < P
      <4>1. l + 1 + u + t < P
        BY <1>8, <3>3, Zenon
      <4>2. j <= 1 + t
        BY <3>1, <3>2, Zenon
      <4>3. l # 0
        BY <1>1, Zenon
      <4> QED
        BY <4>1, <4>2, <4>3, SumFits
    <3>5. resolve_path(TRUE, J, before) = resolve_path(TRUE, tokens, before)
      BY <1>1, <3>1, <3>2, <3>4, EmptyFirst
    <3> QED
      BY <2>1, <3>1, <3>5, Zenon
  <2> QED
    BY <2>2, <2>3
<1>9. CASE l + e + u + t < P
  <2>1. RightPath(result, drive, T)
    BY <1>8, <1>9, RightOnDrive
  <2> QED
    BY <1>0, <1>6, <2>1, Zenon
<1>10. CASE ~(l + e + u + t < P)
  <2>1. result = NULL
    <3>1. ~(FullLen(c) + TextLen(tokens) < PATH_MAX)
      BY <1>1, <1>3, <1>10
    <3> QED
      BY <3>1, Zenon
  <2>2. ~(l + 1 + TextLen(T) < P)
    <3>1. ~(l + 1 + (u + t + k) < P)
      BY <1>10, SumExceeds
    <3> QED
      BY <1>7, <3>1, Zenon
  <2>3. ~(Length[drive] + 1 + TextLen(T) < PATH_MAX)
    BY <1>1, <2>2, Zenon
  <2>4. RightPath(result, drive, T)
    BY <2>1, <2>3, Zenon DEF RightPath
  <2> QED
    BY <1>0, <1>6, <2>4, Zenon
<1> QED
  BY <1>9, <1>10

(* What ResolvedExact says of an answer.                                    *)
AnswerRight(p, c, result) ==
    /\ result # NULL /\ TextLen(FromRoot(p, c)) < PATH_MAX =>
          /\ result.drive = OwnDrive(p, c)
          /\ result.slash \/ (p.drive # NULL /\ p.tokens = <<>> /\ ~p.slash)
          /\ Spells(FromRoot(p, c), Survivors(FromRoot(p, c)), result.names)
    /\ p # EmptyPath /\ WholeLen(p, c) < PATH_MAX => result # NULL

LEMMA RightIsAnswer ==
    ASSUME NEW p, NEW c, NEW result, RightPath(result, OwnDrive(p, c), FromRoot(p, c))
    PROVE  AnswerRight(p, c, result)
BY Zenon DEF RightPath, AnswerRight, WholeLen

LEMMA RealpathRight ==
    ASSUME NEW p \in Path, NEW c \in FullPath, NEW before \in BOOLEAN, Rooted(p, c),
           NEW result, result = realpath(p, c, before)
    PROVE  AnswerRight(p, c, result)
<1>0. /\ p.drive \in Drives \cup {NULL} /\ p.slash \in BOOLEAN /\ p.tokens \in Seq(Tokens)
      /\ NULL \notin Drives /\ c.drive \in Drives
  BY PathFacts, FullFacts
<1>1. CASE p = EmptyPath
  <2>1. result = NULL
    BY <1>1, RealpathEmpty, Zenon
  <2> QED
    BY <1>1, <2>1, Zenon DEF AnswerRight
<1>2. CASE p # EmptyPath /\ p.drive # NULL
  <2>1. result = OnDrive(p.drive, resolve_path(p.slash, p.tokens, before))
    BY <1>2 DEF realpath
  <2>2. OwnDrive(p, c) = p.drive /\ FromRoot(p, c) = p.tokens /\ p.drive \in Drives
    BY <1>0, <1>2, Zenon DEF OwnDrive, FromRoot, Relative
  <2>3. CASE p.slash
    <3>1. result = OnDrive(p.drive, resolve_path(TRUE, p.tokens, before))
      <4>1. p.slash = TRUE
        BY <1>0, <2>3
      <4> QED
        BY <2>1, <4>1, Zenon
    <3>2. RightPath(result, p.drive, p.tokens)
      BY <1>0, <2>2, <3>1, RightOnDrive
    <3> QED
      BY <2>2, <3>2, RightIsAnswer
  <2>4. CASE ~p.slash
    <3>1. p.tokens = <<>>
      BY <1>2, <2>4, Zenon DEF Rooted
    <3>2. PICK r : r = StartBuf(FALSE)
      OBVIOUS
    <3>3. p.slash = FALSE
      BY <1>0, <2>4
    <3>4. resolve_path(p.slash, p.tokens, before) = r
      BY <3>1, <3>2, <3>3, ResolveNothing
    <3>5. r.names = <<>> /\ r.long = FALSE /\ r.wild = FALSE /\ r.slash = FALSE
      BY <3>2 DEF StartBuf
    <3>6. EndLen(r) = 0
      BY <3>5, TextLenEmpty DEF EndLen, Bit
    <3>7. PICK full : full = [drive |-> p.drive, slash |-> r.slash, names |-> r.names]
      OBVIOUS
    <3>8. full \in FullPath /\ full # NULL /\ full.drive = p.drive /\ full.names = <<>>
      <4>1. PICK d \in Drives : d = p.drive
        BY <2>2
      <4>2. PICK none \in Seq(DirNames) : none = <<>>
        BY EmptySeq
      <4>3. full = [drive |-> d, slash |-> FALSE, names |-> none]
        BY <3>5, <3>7, <4>1, <4>2, Zenon
      <4>4. full \in FullPath
        BY <4>3 DEF FullPath
      <4>5. full # NULL
        BY <4>4, NullIsNoPath, Zenon
      <4>6. full.drive = d /\ full.names = none
        BY <4>3
      <4> QED
        BY <4>1, <4>2, <4>4, <4>5, <4>6, Zenon
    <3>9. result = IF Length[p.drive] < PATH_MAX THEN full ELSE NULL
      <4>1. result = IF ~r.wild /\ EndLen(r) + Length[p.drive] < PATH_MAX THEN full ELSE NULL
        BY <2>1, <3>4, <3>7, Zenon DEF OnDrive
      <4>2. EndLen(r) + Length[p.drive] = Length[p.drive]
        BY <2>2, <3>6, DriveLen
      <4> QED
        BY <3>5, <4>1, <4>2
    <3>10. Spells(<<>>, Survivors(<<>>), <<>>)
      <4>1. Kept(<<>>, 0, <<>>) /\ Len(<<>>) = 0
        BY KeptStart
      <4> QED
        BY <4>1, SurvivorsAre DEF Kept
    <3>11. WholeLen(p, c) < PATH_MAX => Length[p.drive] < PATH_MAX
      <4>1. WholeLen(p, c) = Length[p.drive] + 1 + 0
        BY <2>2, <3>1, TextLenEmpty DEF WholeLen
      <4> QED
        BY <2>2, <4>1, DriveLen
    <3> QED
      BY <1>2, <2>2, <2>4, <3>1, <3>8, <3>9, <3>10, <3>11 DEF AnswerRight
  <2> QED
    BY <2>3, <2>4
<1>3. CASE p # EmptyPath /\ p.drive = NULL /\ p.slash
  <2>1. result = OnDrive(c.drive, resolve_path(TRUE, p.tokens, before))
    BY <1>3 DEF realpath
  <2>2. OwnDrive(p, c) = c.drive /\ FromRoot(p, c) = p.tokens
    BY <1>3, Zenon DEF OwnDrive, FromRoot, Relative
  <2>3. RightPath(result, c.drive, p.tokens)
    BY <1>0, <2>1, RightOnDrive
  <2> QED
    BY <2>2, <2>3, RightIsAnswer
<1>4. CASE p # EmptyPath /\ p.drive = NULL /\ ~p.slash
  <2>1. result = IF FullLen(c) + TextLen(p.tokens) < PATH_MAX
                 THEN OnDrive(c.drive, resolve_path(c.slash \/ c.names = <<>>,
                                                    Joined(c, p.tokens), before))
                 ELSE NULL
    BY <1>4 DEF realpath
  <2>2. OwnDrive(p, c) = c.drive /\ FromRoot(p, c) = c.names \o p.tokens
    BY <1>4, Zenon DEF OwnDrive, FromRoot, Relative
  <2>3. c.names # <<>> => c.slash
    BY <1>4, Zenon DEF Rooted, Relative
  <2>4. RightPath(result, c.drive, c.names \o p.tokens)
    BY <1>0, <2>1, <2>3, RightRelative
  <2> QED
    BY <2>2, <2>4, RightIsAnswer
<1> QED
  BY <1>1, <1>2, <1>3, <1>4

LEMMA RealpathType ==
    ASSUME NEW p \in Path, NEW c \in FullPath, NEW before \in BOOLEAN
    PROVE  realpath(p, c, before) \in FullPath \cup {NULL}
<1>0. /\ p.drive \in Drives \cup {NULL} /\ p.slash \in BOOLEAN /\ p.tokens \in Seq(Tokens)
      /\ c.drive \in Drives
  BY PathFacts, FullFacts
<1>1. ASSUME NEW drive \in Drives, NEW slash \in BOOLEAN, NEW T \in Seq(Tokens)
      PROVE  OnDrive(drive, resolve_path(slash, T, before)) \in FullPath \cup {NULL}
  BY ResolveType, OnDriveType
<1>2. CASE p = EmptyPath
  BY <1>2, RealpathEmpty, Zenon
<1>3. CASE p # EmptyPath /\ p.drive # NULL
  <2>1. realpath(p, c, before) = OnDrive(p.drive, resolve_path(p.slash, p.tokens, before))
    BY <1>3 DEF realpath
  <2>2. p.drive \in Drives
    BY <1>0, <1>3
  <2> QED
    BY <1>0, <1>1, <2>1, <2>2, Zenon
<1>4. CASE p # EmptyPath /\ p.drive = NULL /\ p.slash
  <2>1. realpath(p, c, before) = OnDrive(c.drive, resolve_path(TRUE, p.tokens, before))
    BY <1>4 DEF realpath
  <2> QED
    BY <1>0, <1>1, <2>1, Zenon
<1>5. CASE p # EmptyPath /\ p.drive = NULL /\ ~p.slash
  <2>1. PICK slash \in BOOLEAN : slash = (c.slash \/ c.names = <<>>)
    OBVIOUS
  <2>2. PICK J \in Seq(Tokens) : J = Joined(c, p.tokens)
    BY <1>0, JoinedFacts
  <2>3. realpath(p, c, before) = IF FullLen(c) + TextLen(p.tokens) < PATH_MAX
                                 THEN OnDrive(c.drive, resolve_path(slash, J, before))
                                 ELSE NULL
    BY <1>5, <2>1, <2>2 DEF realpath
  <2>4. OnDrive(c.drive, resolve_path(slash, J, before)) \in FullPath \cup {NULL}
    BY <1>0, <1>1
  <2> QED
    BY <2>3, <2>4
<1> QED
  BY <1>2, <1>3, <1>4, <1>5

-----------------------------------------------------------------------------
(* The states: the answer kept is right for the path and the directory it   *)
(* was made of, and both are paths.                                         *)
PathInv ==
    /\ PathTypeOK
    /\ resolved # NULL /\ ~resolved.smashed /\ Rooted(resolved.path, resolved.cwd) =>
          AnswerRight(resolved.path, resolved.cwd, resolved.result)

LEMMA InitCwdType ==
    ASSUME cwd \in FullPath \cup {NULL}
    PROVE  init_cwd \in FullPath
<1>1. CASE cwd = NULL
  <2>1. PICK d \in Drives : d = DefaultDrive
    BY PathAssumption
  <2>2. PICK none \in Seq(DirNames) : none = <<>>
    BY EmptySeq
  <2>3. init_cwd = [drive |-> d, slash |-> FALSE, names |-> none]
    BY <1>1, <2>1, <2>2, Zenon DEF init_cwd
  <2> QED
    BY <2>3 DEF FullPath
<1>2. CASE cwd # NULL
  BY <1>2 DEF init_cwd
<1> QED
  BY <1>1, <1>2

LEMMA PathInvRealpath ==
    ASSUME PathInv, NEW p \in Path, NEW before \in BOOLEAN, Realpath(p, before)
    PROVE  PathInv'
<1>1. PICK c \in FullPath : c = init_cwd
  BY InitCwdType DEF PathInv, PathTypeOK
<1>2. PICK result : result = realpath(p, c, before)
  OBVIOUS
<1>3. resolved' = [path |-> p, cwd |-> c, smashed |-> FALSE, result |-> result]
  BY <1>1, <1>2, Zenon DEF Realpath
<1>4. /\ resolved'.path = p /\ resolved'.cwd = c /\ resolved'.result = result
      /\ resolved'.smashed \in BOOLEAN
  BY <1>3
<1>5. cwd' \in FullPath \cup {NULL}
  <2>1. cwd \in FullPath \cup {NULL}
    BY DEF PathInv, PathTypeOK
  <2>2. cwd' = cwd \/ cwd' = c
    BY <1>1 DEF Realpath
  <2> QED
    BY <2>1, <2>2
<1>6. result \in FullPath \cup {NULL}
  BY <1>2, RealpathType
<1>7. Rooted(p, c) => AnswerRight(p, c, result)
  BY <1>2, RealpathRight
<1>8. PathTypeOK'
  BY <1>4, <1>5, <1>6, Zenon DEF PathTypeOK
<1>9. Rooted(resolved'.path, resolved'.cwd) => AnswerRight(resolved'.path, resolved'.cwd, resolved'.result)
  BY <1>4, <1>7, Zenon
<1> QED
  BY <1>8, <1>9, Zenon DEF PathInv

LEMMA PathInvKept ==
    ASSUME PathInv, cwd' \in FullPath \cup {NULL}, resolved' = resolved
    PROVE  PathInv'
<1>1. PathTypeOK'
  BY Zenon DEF PathInv, PathTypeOK
<1>2. resolved' # NULL /\ ~resolved'.smashed /\ Rooted(resolved'.path, resolved'.cwd) =>
          AnswerRight(resolved'.path, resolved'.cwd, resolved'.result)
  BY Zenon DEF PathInv
<1> QED
  BY <1>1, <1>2, Zenon DEF PathInv

LEMMA PathInvChdir ==
    ASSUME PathInv, NEW p \in Path, NEW before \in BOOLEAN, chdir(p, before)
    PROVE  PathInv'
<1>1. PICK c \in FullPath : c = init_cwd
  BY InitCwdType DEF PathInv, PathTypeOK
<1>2. cwd' \in FullPath \cup {NULL}
  <2>1. cwd' = realpath(p, c, before)
    BY <1>1, Zenon DEF chdir
  <2> QED
    BY <2>1, RealpathType, Zenon
<1>3. resolved' = resolved
  BY DEF chdir
<1> QED
  BY <1>2, <1>3, PathInvKept, Zenon

LEMMA PathInvSmash ==
    ASSUME PathInv, NEW p \in Path, SmashStack(p)
    PROVE  PathInv'
<1>1. PICK c \in FullPath : c = init_cwd
  BY InitCwdType DEF PathInv, PathTypeOK
<1>2. resolved' = [path |-> p, cwd |-> c, smashed |-> TRUE, result |-> NULL] /\ cwd' = c
  BY <1>1, Zenon DEF SmashStack
<1>3. /\ resolved'.path = p /\ resolved'.cwd = c /\ resolved'.result = NULL
      /\ resolved'.smashed = TRUE
  BY <1>2
<1>4. PathTypeOK'
  BY <1>2, <1>3 DEF PathTypeOK
<1> QED
  BY <1>3, <1>4, Zenon DEF PathInv

LEMMA PathInvOthers ==
    ASSUME PathInv, getcwd \/ FreePath \/ UNCHANGED pathVars
    PROVE  PathInv'
<1>0. cwd \in FullPath \cup {NULL}
  BY DEF PathInv, PathTypeOK
<1>1. CASE getcwd
  <2>1. cwd' \in FullPath
    BY <1>0, <1>1, InitCwdType DEF getcwd
  <2>2. resolved' = resolved
    BY <1>1 DEF getcwd
  <2> QED
    BY <2>1, <2>2, PathInvKept
<1>2. CASE FreePath
  BY <1>0, <1>2 DEF FreePath, PathInv, PathTypeOK
<1>3. CASE UNCHANGED pathVars
  BY <1>0, <1>3, PathInvKept DEF pathVars
<1> QED
  BY <1>1, <1>2, <1>3

LEMMA PathInvStep == PathInv /\ [PathNext]_pathVars => PathInv'
<1> SUFFICES ASSUME PathInv, [PathNext]_pathVars
             PROVE  PathInv'
  OBVIOUS
<1>1. ASSUME NEW p \in Path, NEW before \in BOOLEAN, Realpath(p, before) \/ chdir(p, before)
      PROVE  PathInv'
  BY <1>1, PathInvRealpath, PathInvChdir, Zenon
<1>2. ASSUME NEW p \in Path, SmashStack(p)
      PROVE  PathInv'
  BY <1>2, PathInvSmash, Zenon
<1>3. CASE getcwd \/ FreePath \/ UNCHANGED pathVars
  BY <1>3, PathInvOthers, Zenon
<1> QED
  BY <1>1, <1>2, <1>3, Zenon DEF PathNext

LEMMA PathInvInit == PathInit => PathInv
BY DEF PathInit, PathInv, PathTypeOK

LEMMA PathInvExact == PathInv => ResolvedExact
<1> SUFFICES ASSUME PathInv, resolved # NULL, ~resolved.smashed, Rooted(resolved.path, resolved.cwd)
             PROVE  ResolvedExact
  BY Zenon DEF ResolvedExact
<1>1. AnswerRight(resolved.path, resolved.cwd, resolved.result)
  BY Zenon DEF PathInv
<1> QED
  BY <1>1, Zenon DEF ResolvedExact, AnswerRight, Spells

(* Of any drives, names and lengths, whatever chdir made the working        *)
(* directory, what __realpath answers is the path that was meant, unless    *)
(* the NUL of full_path smashed the stack before it could answer.           *)
THEOREM ResolvedCorrect == PathSpec => [](PathTypeOK /\ ResolvedExact)
<1>1. PathInv => PathTypeOK
  BY DEF PathInv
<1> QED
  BY <1>1, PathInvInit, PathInvStep, PathInvExact, PTL DEF PathSpec

=============================================================================
