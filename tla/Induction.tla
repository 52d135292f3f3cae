------------------------------ MODULE Induction ------------------------------
(***************************************************************************)
(* Induction over natural numbers and finite sets, and what recursive      *)
(* definitions over sequences compute.  The theorems of the library that   *)
(* take a predicate as a parameter are replaced by statements about the    *)
(* set of its counterexamples.                                             *)
(***************************************************************************)
EXTENDS Integers, Descent, SequencesExt, SequenceTheorems, FiniteSetTheorems, TLAPS

\* A set of finite sets that is not empty has a member of which no proper
\* subset is a member.
LEMMA MinimalSet ==
  ASSUME NEW S, IsFiniteSet(S), NEW F \in SUBSET (SUBSET S), F # {}
  PROVE  \E T \in F : \A U \in F : U \subseteq T => U = T
<1>1. IsWellFoundedOn(StrictSubsetOrdering(S), SUBSET S)
  BY FS_StrictSubsetOrderingWellFounded, FS_FiniteSubsetsOfFinite
<1>2. PICK T \in F : \A U \in F : ~(<<U, T>> \in StrictSubsetOrdering(S))
  BY <1>1, WFMin
<1>3. ASSUME NEW U \in F, U \subseteq T PROVE U = T
  BY <1>2, <1>3 DEF StrictSubsetOrdering
<1> QED
  BY <1>3

\* A finite set of which the elements are ordered has a first one.
LEMMA FirstExists ==
  ASSUME NEW S, IsFiniteSet(S), S # {}, NEW R,
         \A x, y, z \in S : <<x, y>> \in R /\ <<y, z>> \in R => <<x, z>> \in R,
         \A x, y \in S : x # y => <<x, y>> \in R \/ <<y, x>> \in R
  PROVE  \E x \in S : \A y \in S \ {x} : <<x, y>> \in R
<1> DEFINE First(T, x) == x \in T /\ \A y \in T \ {x} : <<x, y>> \in R
           F == {T \in SUBSET S : T # {} /\ ~\E x \in T : First(T, x)}
<1>1. SUFFICES F = {}
  BY <1>1
<1>2. SUFFICES ASSUME F # {} PROVE FALSE
  OBVIOUS
<1>3. PICK T \in F : \A U \in F : U \subseteq T => U = T
  <2>1. F \in SUBSET (SUBSET S)
    OBVIOUS
  <2> HIDE DEF F
  <2> QED
    BY <1>2, <2>1, MinimalSet
<1>4. PICK x \in T : TRUE
  BY <1>3
<1>5. T \ {x} \notin F
  <2> HIDE DEF F
  <2> QED
    BY <1>3, <1>4
<1>6. CASE T \ {x} = {}
  <2>1. First(T, x)
    BY <1>4, <1>6
  <2> QED
    BY <1>3, <1>4, <2>1
<1>7. CASE T \ {x} # {}
  <2>1. PICK y \in T \ {x} : First(T \ {x}, y)
    BY <1>3, <1>5, <1>7
  <2>2. x \in S /\ y \in S /\ x # y
    BY <1>3, <1>4, <2>1
  <2>3. <<x, y>> \in R \/ <<y, x>> \in R
    BY <2>2
  <2>4. CASE <<y, x>> \in R
    <3>1. First(T, y)
      BY <2>1, <2>4
    <3> QED
      BY <1>3, <3>1
  <2>5. CASE <<x, y>> \in R
    <3>1. ASSUME NEW z \in T \ {x} PROVE <<x, z>> \in R
      <4>1. CASE z = y
        BY <2>5, <4>1
      <4>2. CASE z # y
        <5>1. <<y, z>> \in R /\ z \in S
          BY <1>3, <2>1, <4>2
        <5> QED
          BY <2>2, <2>5, <5>1
      <4> QED
        BY <4>1, <4>2
    <3>2. First(T, x)
      BY <1>4, <3>1
    <3> QED
      BY <1>3, <1>4, <3>2
  <2> QED
    BY <2>3, <2>4, <2>5
<1> QED
  BY <1>6, <1>7

\* A set of natural numbers that is not empty has a least member.
LEMMA LeastNumber ==
  ASSUME NEW S \in SUBSET Nat, S # {}
  PROVE  \E n \in S : \A m \in S : n <= m
<1>1. PICK k \in S : TRUE
  OBVIOUS
<1> DEFINE T == {m \in S : m <= k}
           R == {p \in Nat \X Nat : p[1] < p[2]}
<1>2. IsFiniteSet(T)
  <2>1. k \in Nat /\ \A m \in T : m \in Nat /\ m <= k
    BY <1>1
  <2>2. T \in SUBSET Nat
    OBVIOUS
  <2> HIDE DEF T
  <2> QED
    BY <2>1, <2>2, FS_BoundedSetOfNaturals
<1>3. T # {}
  BY <1>1
<1>4. \A x, y \in Nat : <<x, y>> \in R <=> x < y
  OBVIOUS
<1>5. T \subseteq Nat
  OBVIOUS
<1>6. \E n \in T : \A m \in T \ {n} : <<n, m>> \in R
  <2> HIDE DEF T, R
  <2>1. \A x, y, z \in T : <<x, y>> \in R /\ <<y, z>> \in R => <<x, z>> \in R
    BY <1>4, <1>5
  <2>2. \A x, y \in T : x # y => <<x, y>> \in R \/ <<y, x>> \in R
    BY <1>4, <1>5
  <2> QED
    BY <1>2, <1>3, <2>1, <2>2, FirstExists
<1>7. PICK n \in T : \A m \in T \ {n} : <<n, m>> \in R
  BY <1>6
<1>8. \A m \in S : n <= m
  <2> TAKE m \in S
  <2>1. CASE m \in T
    <3>1. m = n \/ <<n, m>> \in R
      BY <1>7, <2>1
    <3>2. n \in Nat /\ m \in Nat
      OBVIOUS
    <3> HIDE DEF R
    <3> QED
      BY <1>4, <3>1, <3>2
  <2>2. CASE m \notin T
    BY <1>1, <1>7, <2>2
  <2> QED
    BY <2>1, <2>2
<1> QED
  BY <1>7, <1>8

\* A set of numbers up to a bound that is not empty has a greatest member.
LEMMA MostNumber ==
  ASSUME NEW n \in Nat, NEW S \in SUBSET (1 .. n), S # {}
  PROVE  \E m \in S : \A k \in S : m >= k
<1>0. \A k \in S : k \in Nat /\ k <= n
  OBVIOUS
<1> DEFINE R == {n - k : k \in S}
<1>1. R \in SUBSET Nat /\ R # {}
  <2>1. \A k \in S : n - k \in Nat
    BY <1>0
  <2>2. n - (CHOOSE k \in S : TRUE) \in R
    OBVIOUS
  <2> QED BY <2>1, <2>2
<1>2. PICK r \in R : \A k \in R : r <= k
  <2> HIDE DEF R
  <2> QED BY <1>1, LeastNumber
<1>3. PICK m \in S : r = n - m
  BY <1>2
<1>4. ASSUME NEW k \in S PROVE m >= k
  <2>1. n - k \in R
    OBVIOUS
  <2>2. m \in Nat /\ k \in Nat
    BY <1>0, <1>3
  <2>3. n - m <= n - k
    BY <1>2, <1>3, <2>1
  <2> QED BY <2>2, <2>3
<1> QED BY <1>4

\* Induction: what holds at the first number of an interval, and at every next
\* one, holds throughout.
LEMMA NumbersUpTo ==
  ASSUME NEW P, NEW a \in Nat, NEW b \in Nat, a <= b => a \in P,
         \A i \in a .. b - 1 : i \in P => i + 1 \in P
  PROVE  a .. b \subseteq P
<1> DEFINE Bad == {i \in a .. b : i \notin P}
<1> SUFFICES ASSUME Bad # {} PROVE FALSE
  OBVIOUS
<1>1. PICK i \in Bad : \A k \in Bad : i <= k
  <2>1. Bad \in SUBSET Nat
    OBVIOUS
  <2> HIDE DEF Bad
  <2> QED
    BY <2>1, LeastNumber
<1>2. i # a /\ i - 1 \in a .. b - 1
  BY <1>1
<1>3. i - 1 \in P
  BY <1>1, <1>2
<1> QED
  BY <1>1, <1>2, <1>3

Below == {p \in Nat \X Nat : p[1] < p[2]}

\* No sequence of natural numbers descends for ever.
LEMMA BelowIsWellFounded ==
  ASSUME NEW S \in SUBSET Nat
  PROVE  IsWellFoundedOn(Below, S)
<1> SUFFICES ASSUME NEW f \in [Nat -> S], \A n \in Nat : <<f[n+1], f[n]>> \in Below
             PROVE  FALSE
  BY DEF IsWellFoundedOn
<1> DEFINE R == {f[n] : n \in Nat}
<1>1. R \in SUBSET Nat /\ R # {}
  OBVIOUS
<1>2. PICK m \in R : \A k \in R : m <= k
  <2> HIDE DEF R
  <2> QED
    BY <1>1, LeastNumber
<1>3. PICK n \in Nat : m = f[n]
  BY <1>2
<1>4. f[n+1] \in R /\ <<f[n+1], m>> \in Below
  BY <1>3
<1>5. f[n+1] < m /\ m \in Nat /\ f[n+1] \in Nat
  BY <1>4 DEF Below
<1> QED
  BY <1>2, <1>4, <1>5

\* A recursive definition whose value at n depends on smaller arguments defines
\* the function that it says.
LEMMA RecursionHolds ==
  ASSUME NEW f, NEW S \in SUBSET Nat, NEW Def(_, _),
         WFDefOn(Below, S, Def), OpDefinesFcn(f, S, Def)
  PROVE  WFInductiveDefines(f, S, Def)
  BY BelowIsWellFounded, WFInductiveDef

\* No sequence of ranks descends for ever: a system of which every step lowers
\* a tuple of naturals makes finitely many steps, whatever its schedule.
THEOREM NoEndlessDescent ==
  ASSUME NEW n \in Nat, NEW f \in [Nat -> [1 .. n -> Nat]]
  PROVE  \E k \in Nat : ~Lower(f[k + 1], f[k])
<1> DEFINE Lex == LexProductOrdering(Below, Nat, n)
<1>1. IsWellFoundedOn(Lex, [1 .. n -> Nat])
  <2>1. IsWellFoundedOn(Below, Nat)
    BY BelowIsWellFounded
  <2> QED BY <2>1, WFLexProductOrdering
<1>2. PICK k \in Nat : <<f[k + 1], f[k]>> \notin Lex
  <2> HIDE DEF Lex
  <2> QED BY <1>1 DEF IsWellFoundedOn
<1>3. SUFFICES ASSUME Lower(f[k + 1], f[k]) PROVE FALSE
  OBVIOUS
<1>4. f[k] \in [1 .. n -> Nat] /\ f[k + 1] \in [1 .. n -> Nat]
  OBVIOUS
<1>5. PICK i \in 1 .. n : /\ f[k + 1][i] < f[k][i]
                          /\ \A j \in 1 .. i - 1 : f[k + 1][j] = f[k][j]
  BY <1>3, <1>4 DEF Lower
<1>6. <<f[k + 1][i], f[k][i]>> \in Below
  BY <1>4, <1>5 DEF Below
<1>7. <<f[k + 1], f[k]>> \in Lex
  BY <1>4, <1>5, <1>6 DEF LexProductOrdering
<1> QED BY <1>2, <1>7

\* When a tuple of four is lower than another.
LEMMA LowerOfFour ==
  ASSUME NEW a, NEW b, NEW c, NEW d, NEW p, NEW q, NEW r, NEW s,
         \/ a < p
         \/ a = p /\ b < q
         \/ a = p /\ b = q /\ c < r
         \/ a = p /\ b = q /\ c = r /\ d < s
  PROVE  Lower(<<a, b, c, d>>, <<p, q, r, s>>)
<1> DEFINE t == <<a, b, c, d>>
           u == <<p, q, r, s>>
<1>1. /\ t[1] = a /\ t[2] = b /\ t[3] = c /\ t[4] = d
      /\ u[1] = p /\ u[2] = q /\ u[3] = r /\ u[4] = s
      /\ DOMAIN u = 1 .. 4
  OBVIOUS
<1> HIDE DEF t, u
<1>2. Lower(t, u)
  BY <1>1 DEF Lower
<1> QED BY <1>2 DEF t, u

\* When a tuple of six is lower than another.
LEMMA LowerOfSix ==
  ASSUME NEW a, NEW b, NEW c, NEW d, NEW e, NEW f, NEW p, NEW q, NEW r, NEW s, NEW t, NEW u,
         \/ a < p
         \/ a = p /\ b < q
         \/ a = p /\ b = q /\ Lower(<<c, d, e, f>>, <<r, s, t, u>>)
  PROVE  Lower(<<a, b, c, d, e, f>>, <<p, q, r, s, t, u>>)
<1> DEFINE x == <<a, b, c, d, e, f>>
           y == <<p, q, r, s, t, u>>
           v == <<c, d, e, f>>
           w == <<r, s, t, u>>
<1>1. /\ x[1] = a /\ x[2] = b /\ \A i \in 1 .. 4 : x[i + 2] = v[i]
      /\ y[1] = p /\ y[2] = q /\ \A i \in 1 .. 4 : y[i + 2] = w[i]
      /\ DOMAIN y = 1 .. 6 /\ DOMAIN w = 1 .. 4
  OBVIOUS
<1>2. CASE a < p \/ (a = p /\ b < q)
  <2> HIDE DEF x, y
  <2>1. Lower(x, y)
    BY <1>1, <1>2 DEF Lower
  <2> QED BY <2>1 DEF x, y
<1>3. CASE a = p /\ b = q /\ Lower(v, w)
  <2> HIDE DEF x, y, v, w
  <2>1. PICK i \in 1 .. 4 : v[i] < w[i] /\ \A j \in 1 .. i - 1 : v[j] = w[j]
    BY <1>1, <1>3 DEF Lower
  <2>2. i + 2 \in 1 .. 6 /\ x[i + 2] < y[i + 2]
    BY <1>1, <2>1
  <2>3. ASSUME NEW j \in 1 .. (i + 2) - 1 PROVE x[j] = y[j]
    <3>1. CASE j \in {1, 2}
      BY <1>1, <1>3, <3>1
    <3>2. CASE j - 2 \in 1 .. i - 1
      BY <1>1, <2>1, <3>2
    <3> QED BY <3>1, <3>2
  <2>4. Lower(x, y)
    BY <1>1, <2>2, <2>3 DEF Lower
  <2> QED BY <2>4 DEF x, y
<1> QED BY <1>2, <1>3

\* When a tuple of seven is lower than another.
LEMMA LowerOfSeven ==
  ASSUME NEW a, NEW b, NEW c, NEW d, NEW e, NEW f, NEW g,
         NEW p, NEW q, NEW r, NEW s, NEW t, NEW u, NEW v,
         \/ a < p
         \/ a = p /\ b < q
         \/ a = p /\ b = q /\ c < r
         \/ a = p /\ b = q /\ c = r /\ d < s
         \/ a = p /\ b = q /\ c = r /\ d = s /\ e < t
         \/ a = p /\ b = q /\ c = r /\ d = s /\ e = t /\ f < u
         \/ a = p /\ b = q /\ c = r /\ d = s /\ e = t /\ f = u /\ g < v
  PROVE  Lower(<<a, b, c, d, e, f, g>>, <<p, q, r, s, t, u, v>>)
<1> DEFINE x == <<a, b, c, d, e, f, g>>
           y == <<p, q, r, s, t, u, v>>
<1>1. /\ x[1] = a /\ x[2] = b /\ x[3] = c /\ x[4] = d /\ x[5] = e /\ x[6] = f /\ x[7] = g
      /\ y[1] = p /\ y[2] = q /\ y[3] = r /\ y[4] = s /\ y[5] = t /\ y[6] = u /\ y[7] = v
      /\ DOMAIN y = 1 .. 7
  OBVIOUS
<1> HIDE DEF x, y
<1>2. Lower(x, y)
  BY <1>1 DEF Lower
<1> QED BY <1>2 DEF x, y

\* When a tuple of nine is lower than another.
LEMMA LowerOfNine ==
  ASSUME NEW a, NEW b, NEW c, NEW d, NEW e, NEW f, NEW g, NEW h, NEW k,
         NEW p, NEW q, NEW r, NEW s, NEW t, NEW u, NEW v, NEW w, NEW z,
         \/ a < p
         \/ a = p /\ b < q
         \/ a = p /\ b = q /\ c < r
         \/ a = p /\ b = q /\ c = r /\ d < s
         \/ a = p /\ b = q /\ c = r /\ d = s /\ e < t
         \/ a = p /\ b = q /\ c = r /\ d = s /\ e = t /\ f < u
         \/ a = p /\ b = q /\ c = r /\ d = s /\ e = t /\ f = u /\ g < v
         \/ a = p /\ b = q /\ c = r /\ d = s /\ e = t /\ f = u /\ g = v /\ h < w
         \/ a = p /\ b = q /\ c = r /\ d = s /\ e = t /\ f = u /\ g = v /\ h = w /\ k < z
  PROVE  Lower(<<a, b, c, d, e, f, g, h, k>>, <<p, q, r, s, t, u, v, w, z>>)
<1> DEFINE x == <<a, b, c, d, e, f, g, h, k>>
           y == <<p, q, r, s, t, u, v, w, z>>
<1>1. /\ x[1] = a /\ x[2] = b /\ x[3] = c /\ x[4] = d /\ x[5] = e /\ x[6] = f /\ x[7] = g
      /\ x[8] = h /\ x[9] = k
      /\ y[1] = p /\ y[2] = q /\ y[3] = r /\ y[4] = s /\ y[5] = t /\ y[6] = u /\ y[7] = v
      /\ y[8] = w /\ y[9] = z
      /\ DOMAIN y = 1 .. 9
  OBVIOUS
<1> HIDE DEF x, y
<1>2. Lower(x, y)
  BY <1>1 DEF Lower
<1> QED BY <1>2 DEF x, y

\* The recursion by which FlattenSeq is defined.
LEMMA FlattenDef ==
  ASSUME NEW S, NEW seqs \in Seq(Seq(S)), seqs # <<>>
  PROVE \E f : /\ FlattenSeq(seqs) = f[Len(seqs)]
               /\ f = [i \in 1 .. Len(seqs) |-> IF i = 1 THEN seqs[i] ELSE f[i-1] \o seqs[i]]
<1> DEFINE Def(g, i) == IF i = 1 THEN seqs[i] ELSE g[i-1] \o seqs[i]
           f[i \in 1 .. Len(seqs)] == IF i = 1 THEN seqs[i] ELSE f[i-1] \o seqs[i]
<1>0. 1 .. Len(seqs) \in SUBSET Nat /\ Len(seqs) # 0
  BY EmptySeq
<1>1. WFDefOn(Below, 1 .. Len(seqs), Def)
  <2> SUFFICES ASSUME NEW g, NEW h, NEW i \in 1 .. Len(seqs),
                      \A y \in SetLessThan(i, Below, 1 .. Len(seqs)) : g[y] = h[y]
               PROVE  Def(g, i) = Def(h, i)
    BY Zenon DEF WFDefOn
  <2>1. CASE i = 1
    BY <2>1
  <2>2. CASE i # 1
    <3>1. i - 1 \in SetLessThan(i, Below, 1 .. Len(seqs))
      BY <2>2 DEF SetLessThan, Below
    <3> QED
      BY <2>2, <3>1
  <2> QED
    BY <2>1, <2>2
<1>2. OpDefinesFcn(f, 1 .. Len(seqs), Def)
  BY DEF OpDefinesFcn
<1>3. WFInductiveDefines(f, 1 .. Len(seqs), Def)
  BY <1>0, <1>1, <1>2, RecursionHolds
<1>4. FlattenSeq(seqs) = f[Len(seqs)]
  BY <1>0 DEF FlattenSeq
<1>5. f = [i \in 1 .. Len(seqs) |-> IF i = 1 THEN seqs[i] ELSE f[i-1] \o seqs[i]]
  BY <1>3 DEF WFInductiveDefines
<1> HIDE DEF f
<1> QED
  BY <1>4, <1>5

\* A flattened sequence is the empty one, or its recursion goes on.
LEMMA FlattenBasics ==
  ASSUME NEW S
  PROVE  /\ FlattenSeq(<<>>) = <<>>
         /\ \A seqs \in Seq(Seq(S)) : FlattenSeq(seqs) \in Seq(S)
         /\ \A seqs \in Seq(Seq(S)), s \in Seq(S) :
              FlattenSeq(Append(seqs, s)) = FlattenSeq(seqs) \o s
<1>1. FlattenSeq(<<>>) = <<>>
  BY DEF FlattenSeq
<1>2. ASSUME NEW seqs \in Seq(Seq(S)) PROVE FlattenSeq(seqs) \in Seq(S)
  <2>1. CASE seqs = <<>>
    <3>1. FlattenSeq(seqs) = <<>>
      BY <1>1, <2>1, Zenon
    <3> QED BY <3>1, EmptySeq
  <2>2. CASE seqs # <<>>
    <3>1. PICK f : /\ FlattenSeq(seqs) = f[Len(seqs)]
                   /\ f = [i \in 1 .. Len(seqs) |-> IF i = 1 THEN seqs[i] ELSE f[i-1] \o seqs[i]]
      BY <2>2, FlattenDef
    <3> DEFINE P == {i \in 1 .. Len(seqs) : f[i] \in Seq(S)}
    <3>2. Len(seqs) \in Nat /\ Len(seqs) >= 1 /\ \A i \in 1 .. Len(seqs) : seqs[i] \in Seq(S)
      BY <2>2, EmptySeq
    <3>3. 1 \in P
      BY <3>1, <3>2
    <3>4. ASSUME NEW i \in 1 .. Len(seqs) - 1, i \in P PROVE i + 1 \in P
      <4>1. f[i + 1] = f[i] \o seqs[i + 1]
        <5>1. i + 1 \in 1 .. Len(seqs) /\ i + 1 # 1 /\ (i + 1) - 1 = i
          BY <3>2
        <5> QED BY <3>1, <5>1
      <4>2. i + 1 \in 1 .. Len(seqs) /\ f[i] \in Seq(S) /\ seqs[i + 1] \in Seq(S)
        BY <3>2, <3>4
      <4>3. f[i + 1] \in Seq(S)
        BY <4>1, <4>2, ConcatProperties
      <4> QED BY <4>2, <4>3
    <3>5. 1 .. Len(seqs) \subseteq P
      <4> HIDE DEF P
      <4> QED BY <3>2, <3>3, <3>4, NumbersUpTo
    <3>6. Len(seqs) \in P
      <4> HIDE DEF P
      <4> QED BY <3>2, <3>5
    <3> QED BY <3>1, <3>6
  <2> QED BY <2>1, <2>2
<1>3. ASSUME NEW seqs \in Seq(Seq(S)), NEW s \in Seq(S)
      PROVE  FlattenSeq(Append(seqs, s)) = FlattenSeq(seqs) \o s
  <2> DEFINE more == Append(seqs, s)
  <2>1. /\ more \in Seq(Seq(S)) /\ more # <<>> /\ Len(more) = Len(seqs) + 1 /\ Len(seqs) \in Nat
        /\ \A i \in 1 .. Len(seqs) : more[i] = seqs[i]
        /\ more[Len(seqs) + 1] = s
    BY AppendProperties, LenProperties
  <2> HIDE DEF more
  <2>2. PICK g : /\ FlattenSeq(more) = g[Len(more)]
                 /\ g = [i \in 1 .. Len(more) |-> IF i = 1 THEN more[i] ELSE g[i-1] \o more[i]]
    BY <2>1, FlattenDef
  <2>3. CASE seqs = <<>>
    <3>1. FlattenSeq(more) = s
      BY <2>1, <2>2, <2>3, EmptySeq
    <3> QED BY <1>1, <2>3, <3>1, ConcatEmptySeq DEF more
  <2>4. CASE seqs # <<>>
    <3>1. PICK f : /\ FlattenSeq(seqs) = f[Len(seqs)]
                   /\ f = [i \in 1 .. Len(seqs) |-> IF i = 1 THEN seqs[i] ELSE f[i-1] \o seqs[i]]
      BY <2>4, FlattenDef
    <3> DEFINE P == {i \in 1 .. Len(seqs) : f[i] = g[i]}
    <3>2. Len(seqs) >= 1
      BY <2>4, EmptySeq
    <3>3. 1 \in P
      BY <2>1, <2>2, <3>1, <3>2
    <3>4. ASSUME NEW i \in 1 .. Len(seqs) - 1, i \in P PROVE i + 1 \in P
      <4>1. i + 1 \in 1 .. Len(seqs) /\ i + 1 \in 1 .. Len(more) /\ i + 1 # 1 /\ (i + 1) - 1 = i
        BY <2>1
      <4>2. f[i + 1] = f[i] \o seqs[i + 1] /\ g[i + 1] = g[i] \o more[i + 1]
        BY <2>2, <3>1, <4>1
      <4> QED BY <2>1, <3>4, <4>1, <4>2
    <3>5. 1 .. Len(seqs) \subseteq P
      <4> HIDE DEF P
      <4> QED BY <2>1, <3>2, <3>3, <3>4, NumbersUpTo
    <3>6. f[Len(seqs)] = g[Len(seqs)]
      BY <2>1, <3>2, <3>5
    <3>7. g[Len(more)] = g[Len(seqs)] \o s
      <4>1. Len(seqs) + 1 \in 1 .. Len(more) /\ Len(seqs) + 1 # 1 /\ (Len(seqs) + 1) - 1 = Len(seqs)
        BY <2>1, <3>2
      <4> QED BY <2>1, <2>2, <4>1
    <3> QED BY <2>2, <3>1, <3>6, <3>7 DEF more
  <2> QED BY <2>3, <2>4
<1> QED BY <1>1, <1>2, <1>3

\* Flattening commutes with concatenation.
LEMMA FlattenConcat ==
  ASSUME NEW S, NEW a \in Seq(Seq(S)), NEW b \in Seq(Seq(S))
  PROVE  FlattenSeq(a \o b) = FlattenSeq(a) \o FlattenSeq(b)
<1> DEFINE First(m) == SubSeq(b, 1, m)
           P == {m \in 0 .. Len(b) : FlattenSeq(a \o First(m)) = FlattenSeq(a) \o FlattenSeq(First(m))}
<1>1. Len(b) \in Nat /\ FlattenSeq(a) \in Seq(S)
  BY FlattenBasics
<1>2. First(0) = <<>> /\ First(Len(b)) = b
  BY <1>1, SubSeqFull, SubSeqEmpty
<1>3. 0 \in P
  <2>1. a \o First(0) = a
    BY <1>2, ConcatEmptySeq
  <2>2. FlattenSeq(First(0)) = <<>>
    BY <1>2, FlattenBasics, Zenon
  <2>3. FlattenSeq(a) \o <<>> = FlattenSeq(a)
    BY <1>1, ConcatEmptySeq
  <2> HIDE DEF First
  <2>4. FlattenSeq(a \o First(0)) = FlattenSeq(a) \o FlattenSeq(First(0))
    BY <2>1, <2>2, <2>3, Zenon
  <2>5. 0 \in 0 .. Len(b)
    BY <1>1
  <2> QED BY <2>4, <2>5
<1>4. ASSUME NEW m \in 0 .. Len(b) - 1, m \in P PROVE m + 1 \in P
  <2>1. b[m + 1] \in Seq(S) /\ First(m) \in Seq(Seq(S))
    <3>1. m + 1 \in 1 .. Len(b) /\ \A i \in 1 .. m : b[i] \in Seq(S)
      BY <1>1
    <3> QED BY <3>1, <1>1, SubSeqProperties
  <2>2. First(m + 1) = Append(First(m), b[m + 1])
    <3>1. m + 1 \in 1 .. Len(b) /\ 1 \in 1 .. Len(b) /\ m + 1 \in 1 .. Len(b) /\ (m + 1) - 1 = m
      BY <1>1
    <3>2. SubSeq(b, 1, m + 1) = SubSeq(b, 1, m) \o <<b[m + 1]>>
      BY <3>1, SubSeqRecursiveSecond, Z3
    <3> QED BY <2>1, <3>2, AppendIsConcat
  <2> HIDE DEF First
  <2>3. a \o First(m + 1) = Append(a \o First(m), b[m + 1])
    <3>1. Append(First(m), b[m + 1]) = First(m) \o <<b[m + 1]>>
      BY <2>1, AppendIsConcat
    <3>2. Append(a \o First(m), b[m + 1]) = (a \o First(m)) \o <<b[m + 1]>>
      BY <2>1, ConcatProperties, AppendIsConcat
    <3>3. <<b[m + 1]>> \in Seq(Seq(S))
      BY <2>1
    <3>4. a \o (First(m) \o <<b[m + 1]>>) = (a \o First(m)) \o <<b[m + 1]>>
      BY <2>1, <3>3, ConcatAssociative, SMTT(20)
    <3> QED BY <2>2, <3>1, <3>2, <3>4
  <2>4. a \o First(m) \in Seq(Seq(S)) /\ FlattenSeq(First(m)) \in Seq(S)
    BY <2>1, ConcatProperties, FlattenBasics
  <2>5. FlattenSeq(a \o First(m + 1)) = (FlattenSeq(a) \o FlattenSeq(First(m))) \o b[m + 1]
    BY <1>4, <2>1, <2>3, <2>4, FlattenBasics
  <2>6. FlattenSeq(First(m + 1)) = FlattenSeq(First(m)) \o b[m + 1]
    BY <2>1, <2>2, FlattenBasics
  <2>7. FlattenSeq(a \o First(m + 1)) = FlattenSeq(a) \o FlattenSeq(First(m + 1))
    <3>1. (FlattenSeq(a) \o FlattenSeq(First(m))) \o b[m + 1]
            = FlattenSeq(a) \o (FlattenSeq(First(m)) \o b[m + 1])
      <4>1. \A x, y, z \in Seq(S) : (x \o y) \o z = x \o (y \o z)
        BY ConcatAssociative, SMTT(20)
      <4> QED BY <1>1, <2>1, <2>4, <4>1, Zenon
    <3> QED BY <2>5, <2>6, <3>1
  <2> QED BY <1>1, <2>7
<1>5. 0 .. Len(b) \subseteq P
  <2> HIDE DEF P
  <2> QED BY <1>1, <1>3, <1>4, NumbersUpTo
<1>6. Len(b) \in P
  <2> HIDE DEF P
  <2> QED BY <1>1, <1>5
<1>7. FlattenSeq(a \o First(Len(b))) = FlattenSeq(a) \o FlattenSeq(First(Len(b)))
  BY <1>6
<1> HIDE DEF First
<1> QED BY <1>2, <1>7

\* The member at place b of a flattened sequence, between what comes before and after.
LEMMA FlattenSplit ==
  ASSUME NEW S, NEW seqs \in Seq(Seq(S)), NEW b \in 1 .. Len(seqs)
  PROVE  LET before == FlattenSeq(SubSeq(seqs, 1, b - 1))
             after  == FlattenSeq(SubSeq(seqs, b + 1, Len(seqs)))
         IN  /\ before \in Seq(S)
             /\ after \in Seq(S)
             /\ FlattenSeq(SubSeq(seqs, 1, b)) = before \o seqs[b]
             /\ FlattenSeq(SubSeq(seqs, b, Len(seqs))) = seqs[b] \o after
             /\ FlattenSeq(seqs) = before \o (seqs[b] \o after)
<1> DEFINE pre == SubSeq(seqs, 1, b - 1)
           suf == SubSeq(seqs, b + 1, Len(seqs))
<1>1. Len(seqs) \in Nat /\ seqs[b] \in Seq(S)
  OBVIOUS
<1>2. pre \in Seq(Seq(S)) /\ suf \in Seq(Seq(S)) /\ <<seqs[b]>> \in Seq(Seq(S))
  <2>1. \A i \in 1 .. b - 1 : seqs[i] \in Seq(S)
    BY <1>1
  <2>2. \A i \in b + 1 .. Len(seqs) : seqs[i] \in Seq(S)
    BY <1>1
  <2> QED BY <1>1, <2>1, <2>2, SubSeqProperties
<1>3. SubSeq(seqs, 1, b) = pre \o <<seqs[b]>> /\ SubSeq(seqs, b, Len(seqs)) = <<seqs[b]>> \o suf
  <2>1. 1 \in 1 .. Len(seqs) /\ b \in 1 .. Len(seqs) /\ Len(seqs) \in b .. Len(seqs)
    BY <1>1
  <2> QED BY <1>1, <2>1, SubSeqRecursiveFirst, SubSeqRecursiveSecond
<1>4. seqs = pre \o (<<seqs[b]>> \o suf)
  <2>1. /\ 1 \in 1 .. Len(seqs) + 1 /\ b - 1 \in 1 - 1 .. Len(seqs) /\ (b - 1) + 1 = b
        /\ Len(seqs) \in b - 1 .. Len(seqs)
    BY <1>1
  <2>2. pre \o SubSeq(seqs, b, Len(seqs)) = SubSeq(seqs, 1, Len(seqs))
    BY <2>1, ConcatAdjacentSubSeq
  <2> QED BY <1>3, <2>2, SubSeqFull
<1> HIDE DEF pre, suf
<1>5. FlattenSeq(<<seqs[b]>>) = seqs[b]
  <2>1. <<seqs[b]>> = Append(<<>>, seqs[b]) /\ <<>> \in Seq(Seq(S))
    OBVIOUS
  <2>2. FlattenSeq(Append(<<>>, seqs[b])) = FlattenSeq(<<>>) \o seqs[b]
    BY <1>1, <2>1, FlattenBasics
  <2>3. FlattenSeq(<<>>) = <<>>
    BY FlattenBasics, Zenon
  <2> QED BY <1>1, <2>1, <2>2, <2>3, ConcatEmptySeq
<1>6. <<seqs[b]>> \o suf \in Seq(Seq(S))
  BY <1>2, ConcatProperties
<1>7. /\ FlattenSeq(pre) \in Seq(S) /\ FlattenSeq(suf) \in Seq(S)
      /\ FlattenSeq(SubSeq(seqs, 1, b)) = FlattenSeq(pre) \o seqs[b]
      /\ FlattenSeq(SubSeq(seqs, b, Len(seqs))) = seqs[b] \o FlattenSeq(suf)
  <2>1. FlattenSeq(pre) \in Seq(S) /\ FlattenSeq(suf) \in Seq(S)
    BY <1>2, FlattenBasics
  <2>2. FlattenSeq(pre \o <<seqs[b]>>) = FlattenSeq(pre) \o FlattenSeq(<<seqs[b]>>)
    BY <1>2, FlattenConcat
  <2>3. FlattenSeq(<<seqs[b]>> \o suf) = FlattenSeq(<<seqs[b]>>) \o FlattenSeq(suf)
    BY <1>2, FlattenConcat
  <2> QED BY <1>3, <1>5, <2>1, <2>2, <2>3
<1>8. FlattenSeq(seqs) = FlattenSeq(pre) \o (seqs[b] \o FlattenSeq(suf))
  <2>1. FlattenSeq(seqs) = FlattenSeq(pre) \o FlattenSeq(<<seqs[b]>> \o suf)
    BY <1>2, <1>4, <1>6, FlattenConcat
  <2> QED BY <1>3, <1>7, <2>1
<1> QED BY <1>7, <1>8 DEF pre, suf

\* The beginnings of a sequence of two and of one of four.
LEMMA FirstOfFew ==
  ASSUME NEW w, NEW x, NEW y, NEW z
  PROVE  /\ SubSeq(<<w, x>>, 1, 1) = <<w>>
         /\ SubSeq(<<w, x, y>>, 1, 2) = <<w, x>>
         /\ SubSeq(<<w, x, y, z>>, 1, 1) = <<w>>
         /\ SubSeq(<<w, x, y, z>>, 1, 2) = <<w, x>>
         /\ SubSeq(<<w, x, y, z>>, 1, 3) = <<w, x, y>>
<1> DEFINE S == {w, x, y, z}
<1>1. ASSUME NEW s \in Seq(S), NEW n \in 0 .. Len(s)
      PROVE  /\ SubSeq(s, 1, n) \in Seq(S) /\ Len(SubSeq(s, 1, n)) = n
             /\ \A i \in 1 .. n : SubSeq(s, 1, n)[i] = s[i]
  <2> HIDE DEF S
  <2> QED BY \A i \in 1 .. n : s[i] \in S
<1>2. /\ <<w>> \in Seq(S) /\ <<w, x>> \in Seq(S) /\ <<w, x, y>> \in Seq(S)
      /\ <<w, x, y, z>> \in Seq(S)
  OBVIOUS
<1>3. ASSUME NEW s \in Seq(S), NEW t \in Seq(S), NEW n \in Nat,
             Len(t) = n, n <= Len(s), \A i \in 1 .. n : s[i] = t[i]
      PROVE  SubSeq(s, 1, n) = t
  <2> HIDE DEF S
  <2>1. n \in 0 .. Len(s)
    BY <1>3, LenProperties
  <2> QED BY <1>1, <1>3, <2>1, SeqEqual
<1> HIDE DEF S
<1>4. SubSeq(<<w, x>>, 1, 1) = <<w>>
  <2>1. Len(<<w>>) = 1 /\ 1 <= Len(<<w, x>>) /\ \A i \in 1 .. 1 : <<w, x>>[i] = <<w>>[i]
    OBVIOUS
  <2> QED BY <1>2, <1>3, <2>1
<1>5. SubSeq(<<w, x, y>>, 1, 2) = <<w, x>>
  <2>1. Len(<<w, x>>) = 2 /\ 2 <= Len(<<w, x, y>>) /\ \A i \in 1 .. 2 : <<w, x, y>>[i] = <<w, x>>[i]
    OBVIOUS
  <2> QED BY <1>2, <1>3, <2>1
<1>6. SubSeq(<<w, x, y, z>>, 1, 1) = <<w>>
  <2>1. Len(<<w>>) = 1 /\ 1 <= Len(<<w, x, y, z>>) /\ \A i \in 1 .. 1 : <<w, x, y, z>>[i] = <<w>>[i]
    OBVIOUS
  <2> QED BY <1>2, <1>3, <2>1
<1>7. SubSeq(<<w, x, y, z>>, 1, 2) = <<w, x>>
  <2>1. Len(<<w, x>>) = 2 /\ 2 <= Len(<<w, x, y, z>>) /\ \A i \in 1 .. 2 : <<w, x, y, z>>[i] = <<w, x>>[i]
    OBVIOUS
  <2> QED BY <1>2, <1>3, <2>1
<1>8. SubSeq(<<w, x, y, z>>, 1, 3) = <<w, x, y>>
  <2>1. Len(<<w, x, y>>) = 3 /\ 3 <= Len(<<w, x, y, z>>)
        /\ \A i \in 1 .. 3 : <<w, x, y, z>>[i] = <<w, x, y>>[i]
    OBVIOUS
  <2> QED BY <1>2, <1>3, <2>1
<1> QED BY <1>4, <1>5, <1>6, <1>7, <1>8
=============================================================================
