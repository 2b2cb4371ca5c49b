------------------------- MODULE EarlierConsumerProofs -------------------------
(* Theorems about EarlierConsumer, for any number of threads and all lengths   *)
(* that LengthAssumption admits: the completions, the rendezvous, and the      *)
(* cursor of each connection with the records it publishes.                    *)
EXTENDS EarlierConsumer, FiniteSetTheorems, TLAPS

-----------------------------------------------------------------------------
(* Induction and recursion over the natural numbers. *)

\* A set of natural numbers that is not empty has a least element.
LEMMA LeastNat ==
  ASSUME NEW S \in SUBSET Nat, S # {}
  PROVE  \E n \in S : \A m \in S : n <= m
<1> DEFINE T == {1 .. n : n \in S}
           R == StrictSubsetOrdering(Nat)
<1>1. T \subseteq FiniteSubsetsOf(Nat) /\ T # {}
  <2>1. \A n \in S : IsFiniteSet(1 .. n) /\ 1 .. n \in SUBSET Nat
    BY FS_Interval
  <2> QED
    BY <2>1 DEF FiniteSubsetsOf
<1>2. PICK X \in T : \A Y \in T : ~ (<<Y, X>> \in R)
  <2>1. IsWellFoundedOn(R, FiniteSubsetsOf(Nat))
    BY FS_StrictSubsetOrderingWellFounded
  <2> HIDE DEF T, R
  <2> QED
    BY <1>1, <2>1, WFMin
<1>3. PICK n \in S : X = 1 .. n
  OBVIOUS
<1>4. ASSUME NEW m \in S, m < n PROVE FALSE
  <2>1. 1 .. m \in T /\ 1 .. m \in SUBSET Nat /\ X \in SUBSET Nat
    BY <1>3
  <2>2. 1 .. m \subseteq X /\ 1 .. m # X
    BY <1>3, <1>4
  <2>3. <<1 .. m, X>> \in R
    BY <2>1, <2>2 DEF StrictSubsetOrdering
  <2> QED
    BY <1>2, <2>1, <2>3
<1> QED
  BY <1>4

\* A set of natural numbers that has 0 and with each number the next is all of
\* them.
LEMMA Induction ==
  ASSUME NEW S \in SUBSET Nat, 0 \in S, \A n \in S : n + 1 \in S
  PROVE  S = Nat
<1> SUFFICES ASSUME Nat \ S # {} PROVE FALSE
  OBVIOUS
<1>1. PICK x \in Nat \ S : \A y \in Nat \ S : x <= y
  BY LeastNat
<1>2. x # 0 /\ x - 1 \in Nat /\ x - 1 \notin Nat \ S
  BY <1>1
<1> QED
  BY <1>2

\* A function on the natural numbers, its first value, and the next of each value.
StepOn(V, step) == step \in [Nat -> [V -> V]]
Follows(g, V, b, step) ==
    /\ g \in [Nat -> V]
    /\ g[0] = b /\ \A n \in Nat : g[n + 1] = step[n][g[n]]


\* A first value and a step, which may depend on how far one is, define a function.
LEMMA Recursion ==
  ASSUME NEW V, NEW b \in V, NEW step, StepOn(V, step)
  PROVE  \E g : Follows(g, V, b, step)
<1> USE DEF StepOn
<1> DEFINE Upto(h, m) == /\ h \in [0 .. m -> V] /\ h[0] = b
                         /\ \A i \in 0 .. m - 1 : h[i + 1] = step[i][h[i]]
           D == {m \in Nat : \E h : Upto(h, m)}
<1>1. D = Nat
  <2>1. 0 \in D
    <3>1. Upto([i \in 0 .. 0 |-> b], 0) /\ 0 \in Nat
      OBVIOUS
    <3> HIDE DEF Upto
    <3> QED
      BY <3>1
  <2>2. ASSUME NEW m \in D PROVE m + 1 \in D
    <3>1. PICK h : Upto(h, m)
      OBVIOUS
    <3> DEFINE k == [i \in 0 .. m + 1 |->
                        IF i = m + 1 THEN step[m][h[m]] ELSE h[i]]
    <3>2. m \in Nat /\ m + 1 \in Nat /\ h[m] \in V /\ step[m][h[m]] \in V
      BY <3>1
    <3>3. Upto(k, m + 1)
      BY <3>1, <3>2
    <3> HIDE DEF k, Upto
    <3> QED
      BY <3>2, <3>3
  <2> HIDE DEF D
  <2>3. D \subseteq Nat
    BY DEF D
  <2> QED
    BY <2>1, <2>2, <2>3, Induction
<1> DEFINE a == [m \in Nat |-> CHOOSE h : Upto(h, m)]
           g == [m \in Nat |-> a[m][m]]
<1>2. \A m \in Nat : Upto(a[m], m)
  <2>1. \A m \in Nat : \E h : Upto(h, m)
    BY <1>1
  <2> HIDE DEF Upto
  <2> QED
    BY <2>1
<1> HIDE DEF a
<1>3. ASSUME NEW m \in Nat PROVE a[m + 1][m] = a[m][m]
  <2> DEFINE E == {i \in Nat : i <= m => a[m + 1][i] = a[m][i]}
             h == a[m]
             k == a[m + 1]
  <2>1. Upto(h, m) /\ Upto(k, m + 1)
    BY <1>2
  <2> HIDE DEF h, k
  <2>2. 0 \in E
    BY <2>1 DEF h, k
  <2>3. ASSUME NEW i \in E PROVE i + 1 \in E
    <3> SUFFICES ASSUME i + 1 <= m PROVE k[i + 1] = h[i + 1]
      BY DEF h, k
    <3>1. i \in 0 .. m - 1 /\ i \in 0 .. (m + 1) - 1 /\ k[i] = h[i]
      BY DEF h, k
    <3> QED
      BY <2>1, <3>1
  <2>4. E = Nat
    <3> HIDE DEF E
    <3>1. E \subseteq Nat
      BY DEF E
    <3> QED
      BY <2>2, <2>3, <3>1, Induction
  <2>5. m \in E
    BY <2>4
  <2> QED
    BY <2>5
<1>4. g \in [Nat -> V] /\ g[0] = b
  <2>1. \A m \in Nat : a[m][m] \in V
    BY <1>2
  <2>2. Upto(a[0], 0)
    BY <1>2
  <2> QED
    BY <2>1, <2>2
<1>5. ASSUME NEW n \in Nat PROVE g[n + 1] = step[n][g[n]]
  <2>1. n + 1 \in Nat /\ n \in 0 .. (n + 1) - 1
    OBVIOUS
  <2>2. a[n + 1][n + 1] = step[n][a[n + 1][n]]
    BY <1>2, <2>1
  <2> QED
    BY <1>3, <2>1, <2>2
<1>6. Follows(g, V, b, step)
  <2> HIDE DEF g
  <2> QED
    BY <1>4, <1>5 DEF Follows
<1> QED
  BY <1>6

-----------------------------------------------------------------------------
(* Numbers in digits, and the strings and numbers a buffer starts with. *)

\* The recursion of Place, and that no place is worth nothing.
LEMMA PlaceIs ==
  /\ Place \in [Nat -> Nat \ {0}]
  /\ Place[0] = 1
  /\ \A k \in Nat : Place[k + 1] = Base * Place[k]
<1> DEFINE V == Nat \ {0}
           first == 1
           step == [n \in Nat |-> [v \in V |-> Base * v]]
<1>1. StepOn(V, step) /\ first \in V
  <2>1. \A a, b \in Nat \ {0} : a * b \in Nat \ {0}
    BY SMT
  <2>2. Base \in Nat \ {0}
    BY ParameterAssumption
  <2> QED
    BY <2>1, <2>2 DEF StepOn
<1>2. PICK g : Follows(g, V, first, step)
  <2> HIDE DEF V, step, first
  <2> QED
    BY <1>1, Recursion
<1>3. g = [k \in Nat |-> IF k = 0 THEN 1 ELSE Base * g[k - 1]]
  <2>1. ASSUME NEW k \in Nat \ {0} PROVE g[k] = Base * g[k - 1]
    <3>1. k - 1 \in Nat /\ (k - 1) + 1 = k
      OBVIOUS
    <3>2. g[k - 1 + 1] = step[k - 1][g[k - 1]] /\ g[k - 1] \in V
      BY <1>2, <3>1 DEF Follows
    <3> QED
      BY <3>1, <3>2
  <2> QED
    BY <1>2, <2>1 DEF Follows
<1> DEFINE Q(h) == h = [k \in Nat |-> IF k = 0 THEN 1 ELSE Base * h[k - 1]]
<1>4. Q(Place)
  <2>1. Q(g)
    BY <1>3
  <2>2. Place = CHOOSE h : Q(h)
    BY DEF Place
  <2> HIDE DEF Q
  <2> QED
    BY <2>1, <2>2
<1>5. Place[0] = 1 /\ \A k \in Nat : Place[k + 1] = Base * Place[k]
  BY <1>4
<1>6. Place \in [Nat -> V]
  <2> DEFINE E == {k \in Nat : Place[k] \in V}
  <2>1. 0 \in E
    BY <1>5
  <2>2. ASSUME NEW k \in E PROVE k + 1 \in E
    <3>1. \A a, b \in Nat \ {0} : a * b \in Nat \ {0}
      BY SMT
    <3>2. Base * Place[k] \in Nat \ {0}
      BY <3>1, ParameterAssumption
    <3> QED
      BY <1>5, <3>2
  <2>3. E = Nat
    <3> HIDE DEF E
    <3>1. E \subseteq Nat
      BY DEF E
    <3> QED
      BY <2>1, <2>2, <3>1, Induction
  <2> QED
    BY <1>4, <2>3
<1> QED
  BY <1>5, <1>6

\* The least of some numbers is one of them and not above any.
LEMMA MinIs ==
  ASSUME NEW S \in SUBSET Nat, S # {}
  PROVE  Min(S) \in S /\ \A m \in S : Min(S) <= m
<1>1. \E n \in S : \A m \in S : n <= m
  BY LeastNat
<1> QED
  BY <1>1 DEF Min

\* A string is the cells before the first NUL.
LEMMA StringOf ==
  ASSUME NEW cells \in Seq(Cells)
  PROVE  \E n \in 0 .. Len(cells) :
            /\ String(cells) = SubSeq(cells, 1, n)
            /\ \A i \in 1 .. n : cells[i] # NUL
            /\ n < Len(cells) => cells[n + 1] = NUL
<1> DEFINE S == {i \in 1 .. Len(cells) : cells[i] = NUL} \cup {Len(cells) + 1}
           m == Min(S)
<1>1. S \in SUBSET Nat /\ S # {} /\ S \subseteq 1 .. Len(cells) + 1
  OBVIOUS
<1>2. m \in S /\ \A i \in S : m <= i
  <2> HIDE DEF S
  <2> QED
    BY <1>1, MinIs
<1>3. String(cells) = SubSeq(cells, 1, m - 1)
  BY DEF String
<1> HIDE DEF m
<1>4. /\ m - 1 \in 0 .. Len(cells)
      /\ \A i \in 1 .. m - 1 : cells[i] # NUL
      /\ m - 1 < Len(cells) => cells[(m - 1) + 1] = NUL
  BY <1>1, <1>2
<1> QED
  BY <1>3, <1>4

\* It has no NUL, and is the whole block if that has none.
LEMMA StringType ==
  ASSUME NEW cells \in Seq(Cells)
  PROVE  /\ String(cells) \in Seq(Cells \ {NUL})
         /\ (\A i \in DOMAIN cells : cells[i] # NUL) => String(cells) = cells
<1>1. PICK n \in 0 .. Len(cells) :
            /\ String(cells) = SubSeq(cells, 1, n)
            /\ \A i \in 1 .. n : cells[i] # NUL
            /\ n < Len(cells) => cells[n + 1] = NUL
  BY StringOf
<1>2. SubSeq(cells, 1, n) \in Seq(Cells \ {NUL})
  BY <1>1
<1>3. ASSUME \A i \in DOMAIN cells : cells[i] # NUL
      PROVE  SubSeq(cells, 1, n) = cells
  <2>1. n = Len(cells)
    BY <1>1, <1>3
  <2> QED
    BY <2>1
<1> QED
  BY <1>1, <1>2, <1>3

\* The digits that a string starts with, and the number they make.
LEMMA AtoiOf ==
  ASSUME NEW cells \in Seq(Cells)
  PROVE  \E n \in 0 .. Len(cells) : \E g \in [0 .. n -> Nat] :
            /\ \A i \in 1 .. n : cells[i][1] = "digit"
            /\ n < Len(cells) => cells[n + 1][1] # "digit"
            /\ g[0] = 0
            /\ \A k \in 0 .. n - 1 :
                  g[k + 1] = Base * g[k] + cells[k + 1][2]
            /\ Atoi(cells) = g[n]
<1> DEFINE S == {i \in 1 .. Len(cells) : cells[i][1] # "digit"} \cup {Len(cells) + 1}
           n == Min(S) - 1
<1>1. /\ n \in 0 .. Len(cells)
      /\ \A i \in 1 .. n : cells[i][1] = "digit"
      /\ n < Len(cells) => cells[n + 1][1] # "digit"
  <2> DEFINE m == Min(S)
  <2>1. S \in SUBSET Nat /\ S # {} /\ S \subseteq 1 .. Len(cells) + 1
    OBVIOUS
  <2>2. m \in S /\ \A i \in S : m <= i
    <3> HIDE DEF S
    <3> QED
      BY <2>1, MinIs
  <2>3. n = m - 1
    OBVIOUS
  <2> HIDE DEF m, n
  <2> QED
    BY <2>1, <2>2, <2>3
<1> DEFINE Q(h) == h = [k \in 0 .. n |->
                          IF k = 0 THEN 0 ELSE Base * h[k - 1] + cells[k][2]]
           value == CHOOSE h : Q(h)
<1>2. Atoi(cells) = value[n]
  BY DEF Atoi
<1> HIDE DEF n
<1>3. \E h \in [0 .. n -> Nat] : Q(h)
  <2> DEFINE zero == 0
             digit == [k \in Nat |-> IF k < n THEN cells[k + 1][2] ELSE 0]
             step == [k \in Nat |-> [v \in Nat |-> Base * v + digit[k]]]
  <2>1. \A k \in 1 .. n : cells[k][2] \in Nat
    BY <1>1 DEF Cells
  <2>2. StepOn(Nat, step) /\ zero \in Nat
    <3>1. digit \in [Nat -> Nat]
      BY <1>1, <2>1
    <3>2. Base \in Nat
      BY ParameterAssumption
    <3>3. \A v, d \in Nat : Base * v + d \in Nat
      BY <3>2
    <3> HIDE DEF digit
    <3> QED
      BY <3>1, <3>3 DEF StepOn
  <2>3. PICK g : Follows(g, Nat, zero, step)
    <3> HIDE DEF zero, step
    <3> QED
      BY <2>2, Recursion
  <2> DEFINE h == [k \in 0 .. n |-> g[k]]
  <2>4. h \in [0 .. n -> Nat]
    BY <1>1, <2>3 DEF Follows
  <2>5. ASSUME NEW k \in 1 .. n PROVE h[k] = Base * h[k - 1] + cells[k][2]
    <3>1. k - 1 \in Nat /\ k - 1 \in 0 .. n /\ k \in 0 .. n /\ k - 1 < n
      BY <1>1
    <3>2. g[k - 1] \in Nat /\ g[(k - 1) + 1] = step[k - 1][g[k - 1]]
      BY <2>3, <3>1 DEF Follows
    <3>3. step[k - 1][g[k - 1]] = Base * g[k - 1] + cells[k][2]
      BY <3>1, <3>2
    <3> QED
      BY <3>1, <3>2, <3>3
  <2>6. h[0] = 0
    BY <1>1, <2>3 DEF Follows
  <2>7. Q(h)
    <3>1. h = [k \in 0 .. n |-> h[k]]
      OBVIOUS
    <3>2. ASSUME NEW k \in 0 .. n
          PROVE  h[k] = IF k = 0 THEN 0 ELSE Base * h[k - 1] + cells[k][2]
      <4>1. CASE k = 0
        BY <2>6, <4>1
      <4>2. CASE k # 0
        <5>1. k \in 1 .. n
          BY <1>1, <4>2
        <5> HIDE DEF h
        <5> QED
          BY <2>5, <4>2, <5>1
      <4> QED
        BY <4>1, <4>2
    <3> HIDE DEF h
    <3> QED
      BY <3>1, <3>2
  <2> HIDE DEF h, Q
  <2> QED
    BY <2>4, <2>7
<1>4. Q(value)
  <2> HIDE DEF Q
  <2> QED
    BY <1>3
<1> HIDE DEF value
<1>5. value[0] = 0
  BY <1>1, <1>4
<1>6. ASSUME NEW k \in 0 .. n - 1
      PROVE  value[k + 1] = Base * value[k] + cells[k + 1][2]
  BY <1>1, <1>4, <1>6
<1>7. value \in [0 .. n -> Nat]
  <2> DEFINE E == {k \in Nat : k <= n => value[k] \in Nat}
  <2>1. 0 \in E
    BY <1>5
  <2>2. ASSUME NEW k \in E PROVE k + 1 \in E
    <3> SUFFICES ASSUME k + 1 <= n PROVE value[k + 1] \in Nat
      OBVIOUS
    <3>1. value[k] \in Nat /\ k \in 0 .. n - 1 /\ k + 1 \in 1 .. n
      BY <1>1
    <3>2. cells[k + 1][2] \in Nat
      BY <1>1, <3>1 DEF Cells
    <3>3. Base * value[k] \in Nat
      BY <3>1, ParameterAssumption
    <3> QED
      BY <1>6, <3>1, <3>2, <3>3
  <2>3. E = Nat
    <3> HIDE DEF E
    <3>1. E \subseteq Nat
      BY DEF E
    <3> QED
      BY <2>1, <2>2, <3>1, Induction
  <2>4. \A k \in 0 .. n : value[k] \in Nat
    BY <1>1, <2>3
  <2> QED
    BY <1>4, <2>4
<1> HIDE DEF Q
<1> QED
  BY <1>1, <1>2, <1>5, <1>6, <1>7

\* Division in two steps, by the last digits first.
LEMMA DivTwice ==
  ASSUME NEW n \in Nat, NEW a \in Nat \ {0}, NEW b \in Nat \ {0}
  PROVE  n \div (b * a) = (n \div a) \div b
  BY SMT

\* The digits of a header are digits.
LEMMA HeaderType ==
  ASSUME NEW n \in Nat
  PROVE  /\ Header(n) \in Seq(Cells) /\ Len(Header(n)) = VAL_LENGTH
         /\ \A i \in 1 .. VAL_LENGTH :
               /\ Header(n)[i][1] = "digit"
               /\ Header(n)[i][2] = (n \div Place[VAL_LENGTH - i]) % Base
<1> DEFINE w == VAL_LENGTH
           d(i) == (n \div Place[w - i]) % Base
<1>1. w \in Nat
  BY ParameterAssumption
<1>2. ASSUME NEW i \in 1 .. w PROVE d(i) \in Nat
  <2>1. w - i \in Nat
    BY <1>1
  <2>2. Place[w - i] \in Nat \ {0}
    BY <2>1, PlaceIs
  <2>3. n \div Place[w - i] \in Nat
    BY <2>2
  <2> QED
    BY <2>3, ParameterAssumption
<1>3. Header(n) = [i \in 1 .. w |-> <<"digit", d(i)>>]
  BY DEF Header, Digit
<1> HIDE DEF w, d
<1>4. [i \in 1 .. w |-> <<"digit", d(i)>>] \in Seq(Cells)
  BY <1>1, <1>2 DEF Cells
<1>5. \A i \in 1 .. w : Header(n)[i][1] = "digit" /\ Header(n)[i][2] = d(i)
  BY <1>3
<1>6. Len(Header(n)) = w
  BY <1>1, <1>3
<1> QED
  BY <1>3, <1>4, <1>5, <1>6 DEF w, d

\* What does not start with a digit is parsed to zero.
LEMMA AtoiOfNone ==
  ASSUME NEW cells \in Seq(Cells), cells[1][1] # "digit"
  PROVE  Atoi(cells) = 0
<1>1. PICK n \in 0 .. Len(cells) : \E g \in [0 .. n -> Nat] :
            /\ \A i \in 1 .. n : cells[i][1] = "digit"
            /\ n < Len(cells) => cells[n + 1][1] # "digit"
            /\ g[0] = 0
            /\ \A k \in 0 .. n - 1 : g[k + 1] = Base * g[k] + cells[k + 1][2]
            /\ Atoi(cells) = g[n]
  BY AtoiOf
<1>2. n = 0
  BY <1>1
<1> QED
  BY <1>1, <1>2

\* What a whole header is parsed to, if no digit is behind it: the number it was
\* made of.
LEMMA AtoiOfHeader ==
  ASSUME NEW n \in Nat, n < Place[VAL_LENGTH],
         NEW c \in Seq(Cells), Len(c) >= VAL_LENGTH,
         \A i \in 1 .. VAL_LENGTH : c[i] = Header(n)[i],
         Len(c) > VAL_LENGTH => c[VAL_LENGTH + 1][1] # "digit"
  PROVE  Atoi(c) = n
<1> DEFINE w == VAL_LENGTH
<1>1. /\ c \in Seq(Cells) /\ w \in Nat /\ n < Place[w] /\ Len(c) >= w
      /\ \A i \in 1 .. w : c[i][1] = "digit"
      /\ \A i \in 1 .. w : c[i][2] = (n \div Place[w - i]) % Base
      /\ Len(c) > w => c[w + 1][1] # "digit"
  <2>1. w \in Nat
    BY ParameterAssumption
  <2>2. \A i \in 1 .. w : /\ Header(n)[i][1] = "digit"
                          /\ Header(n)[i][2] = (n \div Place[w - i]) % Base
    BY HeaderType
  <2>3. \A i \in 1 .. w : c[i] = Header(n)[i]
    OBVIOUS
  <2> QED
    BY <2>1, <2>2, <2>3
<1> HIDE DEF w
<1>2. PICK g \in [0 .. w -> Nat] :
         /\ g[0] = 0
         /\ \A k \in 0 .. w - 1 : g[k + 1] = Base * g[k] + c[k + 1][2]
         /\ Atoi(c) = g[w]
  <2>1. PICK m \in 0 .. Len(c) : \E g \in [0 .. m -> Nat] :
            /\ \A i \in 1 .. m : c[i][1] = "digit"
            /\ m < Len(c) => c[m + 1][1] # "digit"
            /\ g[0] = 0
            /\ \A k \in 0 .. m - 1 : g[k + 1] = Base * g[k] + c[k + 1][2]
            /\ Atoi(c) = g[m]
    BY AtoiOf
  <2>2. m = w
    <3>1. m \in Nat /\ m <= Len(c) /\ Len(c) \in Nat
      BY <1>1
    <3>2. ASSUME m < w PROVE FALSE
      <4>1. m + 1 \in 1 .. w /\ m < Len(c)
        BY <1>1, <3>1, <3>2
      <4> QED
        BY <1>1, <2>1, <4>1
    <3>3. ASSUME m > w PROVE FALSE
      <4>1. w + 1 \in 1 .. m /\ Len(c) > w
        BY <1>1, <3>1, <3>3
      <4> QED
        BY <1>1, <2>1, <4>1
    <3> QED
      BY <1>1, <3>1, <3>2, <3>3
  <2> QED
    BY <2>1, <2>2
<1> DEFINE E == {k \in Nat : k <= w => g[k] = n \div Place[w - k]}
<1>3. 0 \in E
  <2>1. n \div Place[w] = 0
    <3>1. \A a \in Nat \ {0} : n < a => n \div a = 0
      OBVIOUS
    <3>2. Place[w] \in Nat \ {0}
      BY <1>1, PlaceIs
    <3> QED
      BY <1>1, <3>1, <3>2
  <2> QED
    BY <1>1, <1>2, <2>1
<1>4. ASSUME NEW k \in E PROVE k + 1 \in E
  <2> SUFFICES ASSUME k + 1 <= w
               PROVE  g[k + 1] = n \div Place[w - (k + 1)]
    OBVIOUS
  <2> DEFINE j == w - (k + 1)
             m == n \div Place[j]
  <2>1. /\ j \in Nat /\ w - k = j + 1 /\ k \in 0 .. w - 1
        /\ k + 1 \in 1 .. w
    BY <1>1
  <2>2. g[k] = n \div Place[j + 1]
    <3>1. k <= w /\ g[k] = n \div Place[w - k]
      BY <1>1
    <3> HIDE DEF j
    <3> QED
      BY <2>1, <3>1
  <2>3. Place[j] \in Nat \ {0} /\ Place[j + 1] = Base * Place[j]
    BY <2>1, PlaceIs
  <2> HIDE DEF j
  <2>4. m \in Nat
    BY <2>3
  <2>5. Base \in Nat \ {0}
    BY ParameterAssumption
  <2>6. g[k] = m \div Base
    BY <2>2, <2>3, <2>5, DivTwice
  <2>7. g[k + 1] = Base * g[k] + (m % Base)
    <3>1. c[k + 1][2] = m % Base
      BY <1>1, <2>1 DEF j
    <3> HIDE DEF m
    <3> QED
      BY <1>2, <2>1, <3>1
  <2> HIDE DEF m
  <2>8. Base * (m \div Base) + (m % Base) = m
    BY <2>4, <2>5
  <2> QED
    BY <2>6, <2>7, <2>8 DEF m, j
<1>5. E = Nat
  <2> HIDE DEF E
  <2>1. E \subseteq Nat
    BY DEF E
  <2> QED
    BY <1>3, <1>4, <2>1, Induction
<1>6. g[w] = n \div Place[0]
  <2>1. w \in E
    BY <1>1, <1>5
  <2> QED
    BY <1>1, <2>1
<1> QED
  BY <1>2, <1>6, PlaceIs

-----------------------------------------------------------------------------
(* The layout of the buffer. *)

\* Every record has a size, and at least one byte.
LEMMA SizeIs == \A r \in Records : r \in Nat /\ Lengths[r] \in Nat \ {0}
  BY ParameterAssumption DEF Records

\* A record is as long as its size says, has no NUL, and has its separator.
LEMMA BodyType ==
  ASSUME NEW r \in Records
  PROVE  /\ Body(r) \in Seq(Cells \ {NUL}) /\ Len(Body(r)) = Lengths[r]
         /\ HasSep(Body(r))
<1> DEFINE n == Lengths[r]
           p == n \div 2 + 1
<1>1. n \in Nat \ {0} /\ r \in Nat
  BY ParameterAssumption DEF Records
<1>2. p \in 1 .. n
  BY <1>1
<1> HIDE DEF p
<1>3. Body(r) = [i \in 1 .. n |-> IF i = p THEN <<"sep", r>> ELSE <<"text", r>>]
  BY DEF Body, Sep, Text, p
<1> HIDE DEF n
<1>4. \A i \in 1 .. n : Body(r)[i] \in Cells \ {NUL}
  BY <1>1, <1>3 DEF Cells, NUL
<1>5. Body(r) \in Seq(Cells \ {NUL}) /\ Len(Body(r)) = n
  <2>1. /\ DOMAIN Body(r) = 1 .. n
        /\ Body(r) = [i \in 1 .. n |-> Body(r)[i]]
    BY <1>3
  <2> QED
    BY <1>1, <1>4, <2>1
<1>6. Body(r)[p][1] = "sep" /\ p \in DOMAIN Body(r)
  BY <1>2, <1>3
<1> QED
  BY <1>5, <1>6 DEF HasSep, n

\* A frame is a header and then a record.
LEMMA FrameType ==
  ASSUME NEW r \in Records
  PROVE  /\ Frame(r) \in Seq(Cells)
         /\ Len(Frame(r)) = VAL_LENGTH + Lengths[r]
         /\ \A i \in 1 .. VAL_LENGTH :
               Frame(r)[i] = Header(CountedLength(r))[i]
         /\ \A i \in 1 .. Lengths[r] : Frame(r)[VAL_LENGTH + i] = Body(r)[i]
<1> DEFINE h == Header(CountedLength(r))
           b == Body(r)
           w == VAL_LENGTH
           n == Lengths[r]
<1>1. n \in Nat /\ w \in Nat /\ CountedLength(r) \in Nat
  BY SizeIs, ParameterAssumption DEF CountedLength
<1>2. h \in Seq(Cells) /\ Len(h) = w
  BY <1>1, HeaderType
<1>3. b \in Seq(Cells) /\ Len(b) = n
  <2>1. b \in Seq(Cells \ {NUL}) /\ Len(b) = n
    BY BodyType
  <2> HIDE DEF b, n
  <2> QED
    BY <2>1
<1>4. Frame(r) = h \o b
  BY DEF Frame
<1> HIDE DEF h, b, w, n
<1>5. /\ h \o b \in Seq(Cells) /\ Len(h \o b) = w + n
      /\ \A i \in 1 .. w : (h \o b)[i] = h[i]
      /\ \A i \in 1 .. n : (h \o b)[w + i] = b[i]
  BY <1>1, <1>2, <1>3
<1> QED
  BY <1>4, <1>5 DEF h, b, w, n

\* The recursion of Log.
LEMMA LogIs ==
  /\ Log \in [0 .. Len(Lengths) -> Seq(Cells)]
  /\ Log[0] = <<>>
  /\ \A r \in Records : Log[r] = Log[r - 1] \o Frame(r)
<1> DEFINE N == Len(Lengths)
           V == Seq(Cells)
           none == <<>>
           step == [n \in Nat |-> [s \in V |->
                       IF n < N THEN s \o Frame(n + 1) ELSE s]]
           Q(h) == h = [r \in 0 .. N |->
                          IF r = 0 THEN <<>> ELSE h[r - 1] \o Frame(r)]
<1>1. N \in Nat /\ Records = 1 .. N
  BY ParameterAssumption DEF Records
<1>2. StepOn(V, step) /\ none \in V
  <2>1. ASSUME NEW n \in Nat, NEW s \in V
        PROVE  (IF n < N THEN s \o Frame(n + 1) ELSE s) \in V
    <3>1. CASE n < N
      <4>1. n + 1 \in Records
        BY <1>1, <3>1
      <4>2. Frame(n + 1) \in V
        BY <4>1, FrameType
      <4> QED
        BY <3>1, <4>2
    <3>2. CASE ~ (n < N)
      BY <3>2
    <3> QED
      BY <3>1, <3>2
  <2> HIDE DEF V, N
  <2>2. StepOn(V, step)
    BY <2>1 DEF StepOn
  <2> QED
    BY <2>2 DEF V
<1>3. PICK g : Follows(g, V, none, step)
  <2> HIDE DEF V, none, step
  <2> QED
    BY <1>2, Recursion
<1> DEFINE h == [r \in 0 .. N |-> g[r]]
<1> HIDE DEF N, V
<1>4. h \in [0 .. N -> V] /\ h[0] = <<>>
  BY <1>1, <1>3 DEF Follows
<1>5. ASSUME NEW r \in 1 .. N PROVE h[r] = h[r - 1] \o Frame(r)
  <2>1. /\ r - 1 \in Nat /\ r - 1 \in 0 .. N /\ r \in 0 .. N
        /\ r - 1 < N /\ (r - 1) + 1 = r
    BY <1>1
  <2>2. g[r - 1] \in V /\ g[(r - 1) + 1] = step[r - 1][g[r - 1]]
    BY <1>3, <2>1 DEF Follows
  <2>3. step[r - 1][g[r - 1]] = g[r - 1] \o Frame((r - 1) + 1)
    BY <2>1, <2>2
  <2> QED
    BY <2>1, <2>2, <2>3
<1>6. Q(h)
  <2>1. h = [r \in 0 .. N |-> h[r]]
    OBVIOUS
  <2> HIDE DEF h
  <2>2. ASSUME NEW r \in 0 .. N
        PROVE  h[r] = IF r = 0 THEN <<>> ELSE h[r - 1] \o Frame(r)
    <3>1. r = 0 \/ (r # 0 /\ r \in 1 .. N)
      BY <1>1
    <3> QED
      BY <1>4, <1>5, <3>1
  <2> QED
    BY <2>1, <2>2
<1>7. Q(Log)
  <2>1. Log = CHOOSE k : Q(k)
    BY DEF Log, N
  <2> HIDE DEF Q, h
  <2> QED
    BY <1>6, <2>1
<1>8. DOMAIN Log = 0 .. N /\ Log[0] = <<>>
  BY <1>1, <1>7
<1>9. ASSUME NEW r \in 1 .. N PROVE Log[r] = Log[r - 1] \o Frame(r)
  <2>1. r \in 0 .. N /\ r # 0
    BY <1>1
  <2> QED
    BY <1>7, <2>1
<1>10. \A r \in 0 .. N : Log[r] \in V
  <2> DEFINE E == {r \in Nat : r <= N => Log[r] \in V}
  <2>1. 0 \in E
    <3>1. Log[0] \in V
      BY <1>8 DEF V
    <3> QED
      BY <3>1
  <2>2. ASSUME NEW r \in E PROVE r + 1 \in E
    <3> SUFFICES ASSUME r + 1 <= N PROVE Log[r + 1] \in V
      OBVIOUS
    <3>1. r + 1 \in 1 .. N /\ (r + 1) - 1 = r /\ Log[r] \in V
      BY <1>1
    <3>2. Log[r + 1] = Log[r] \o Frame(r + 1)
      BY <1>9, <3>1
    <3>3. Frame(r + 1) \in V
      BY <1>1, <3>1, FrameType DEF V
    <3> QED
      BY <3>1, <3>2, <3>3 DEF V
  <2>3. E = Nat
    <3> HIDE DEF E
    <3>1. E \subseteq Nat
      BY DEF E
    <3> QED
      BY <2>1, <2>2, <3>1, Induction
  <2> QED
    BY <1>1, <2>3
<1> QED
  <2>1. Log = [r \in 0 .. N |-> Log[r]]
    BY <1>7
  <2> HIDE DEF Q
  <2> QED
    BY <1>1, <1>8, <1>9, <1>10, <2>1 DEF N, V

\* What is in the log of the first records stays where it is.
LEMMA LogGrows ==
  ASSUME NEW r \in 0 .. Len(Lengths), NEW q \in 0 .. Len(Lengths), r <= q
  PROVE  /\ Len(Log[r]) <= Len(Log[q])
         /\ \A i \in 1 .. Len(Log[r]) : Log[q][i] = Log[r][i]
<1> DEFINE N == Len(Lengths)
           In(s, t) == Len(s) <= Len(t) /\ \A i \in 1 .. Len(s) : t[i] = s[i]
           E == {d \in Nat : r + d <= N => In(Log[r], Log[r + d])}
<1>1. N \in Nat /\ Records = 1 .. N
  BY ParameterAssumption DEF Records
<1> HIDE DEF N
<1>2. 0 \in E
  <2>1. Log[r] \in Seq(Cells) /\ r + 0 = r
    BY LogIs
  <2> QED
    BY <2>1
<1>3. ASSUME NEW d \in E PROVE d + 1 \in E
  <2> SUFFICES ASSUME r + (d + 1) <= N PROVE In(Log[r], Log[r + (d + 1)])
    OBVIOUS
  <2> DEFINE m == r + d
  <2>1. /\ m \in 0 .. N /\ m + 1 \in Records /\ (m + 1) - 1 = m
        /\ r + (d + 1) = m + 1
    BY <1>1 DEF N
  <2>2. In(Log[r], Log[m])
    BY <1>1, <2>1
  <2> HIDE DEF m
  <2>3. Log[m + 1] = Log[m] \o Frame(m + 1)
    BY <2>1, LogIs
  <2>4. Log[r] \in Seq(Cells) /\ Log[m] \in Seq(Cells)
    BY <2>1, LogIs DEF N
  <2>5. Frame(m + 1) \in Seq(Cells)
    BY <2>1, FrameType
  <2>6. ASSUME NEW s \in Seq(Cells), NEW t \in Seq(Cells), NEW u \in Seq(Cells),
               In(u, s)
        PROVE  In(u, s \o t)
    <3>1. /\ Len(s \o t) = Len(s) + Len(t) /\ Len(s) \in Nat /\ Len(t) \in Nat
          /\ Len(u) \in Nat
      OBVIOUS
    <3>2. \A i \in 1 .. Len(s) : (s \o t)[i] = s[i]
      OBVIOUS
    <3>3. \A i \in 1 .. Len(u) : i \in 1 .. Len(s)
      BY <2>6, <3>1
    <3> QED
      BY <2>6, <3>1, <3>2, <3>3
  <2>7. In(Log[r], Log[m + 1])
    <3> HIDE DEF In
    <3> QED
      BY <2>2, <2>3, <2>4, <2>5, <2>6
  <2> QED
    BY <2>1, <2>7
<1>4. E = Nat
  <2> HIDE DEF E
  <2>1. E \subseteq Nat
    BY DEF E
  <2> QED
    BY <1>2, <1>3, <2>1, Induction
<1>5. q - r \in Nat /\ r + (q - r) = q /\ q <= N
  BY DEF N
<1>6. In(Log[r], Log[r + (q - r)])
  <2>1. \A d \in Nat : r + d <= N => In(Log[r], Log[r + d])
    BY <1>4
  <2> HIDE DEF In
  <2> QED
    BY <1>5, <2>1
<1> QED
  BY <1>5, <1>6

\* The buffer after the last call.
FullLog == Log[Len(Lengths)]

\* Where a frame is in it.
LEMMA FrameInLog ==
  ASSUME NEW r \in Records
  PROVE  /\ HeaderAt(r) \in Nat /\ HeaderAt(r + 1) \in Nat
         /\ HeaderAt(r + 1) = HeaderAt(r) + VAL_LENGTH + Lengths[r]
         /\ HeaderAt(r + 1) <= Len(FullLog)
         /\ \A i \in 1 .. Len(Frame(r)) : FullLog[HeaderAt(r) + i] = Frame(r)[i]
<1> DEFINE N == Len(Lengths)
           s == Log[r - 1]
           t == Log[r]
           f == Frame(r)
<1>1. N \in Nat /\ Records = 1 .. N
  BY ParameterAssumption DEF Records
<1>2. r \in 1 .. N /\ r - 1 \in 0 .. N /\ r \in 0 .. N /\ N \in 0 .. N
  BY <1>1
<1>3. s \in Seq(Cells) /\ t \in Seq(Cells) /\ t = s \o f
  BY <1>2, LogIs
<1>4. f \in Seq(Cells) /\ Len(f) = VAL_LENGTH + Lengths[r]
  BY FrameType
<1>5. /\ HeaderAt(r) = Len(s) /\ HeaderAt(r + 1) = Len(t)
  <2>1. (r + 1) - 1 = r
    BY <1>2
  <2> QED
    BY <2>1 DEF HeaderAt
<1>6. /\ Len(t) <= Len(FullLog)
      /\ \A i \in 1 .. Len(t) : FullLog[i] = t[i]
  BY <1>2, LogGrows DEF FullLog
<1> HIDE DEF s, t, f
<1>7. /\ Len(t) = Len(s) + Len(f) /\ Len(s) \in Nat /\ Len(t) \in Nat
      /\ Len(f) \in Nat
      /\ \A i \in 1 .. Len(f) : t[Len(s) + i] = f[i]
  <2>1. f \in Seq(Cells)
    BY <1>4
  <2> QED
    BY <1>3, <2>1
<1>8. \A i \in 1 .. Len(f) : FullLog[Len(s) + i] = f[i]
  <2>1. \A i \in 1 .. Len(f) : Len(s) + i \in 1 .. Len(t)
    BY <1>7
  <2> QED
    BY <1>6, <1>7, <2>1
<1>9. VAL_LENGTH \in Nat /\ Lengths[r] \in Nat
  BY SizeIs, ParameterAssumption
<1>10. \A i \in 1 .. Len(f) : FullLog[HeaderAt(r) + i] = f[i]
  BY <1>5, <1>8
<1>11. HeaderAt(r + 1) = HeaderAt(r) + VAL_LENGTH + Lengths[r]
  <2>1. Len(f) = VAL_LENGTH + Lengths[r]
    BY <1>4 DEF f
  <2>2. Len(t) = Len(s) + VAL_LENGTH + Lengths[r]
    BY <1>7, <1>9, <2>1
  <2> QED
    BY <1>5, <2>2
<1> QED
  BY <1>5, <1>6, <1>7, <1>10, <1>11 DEF f

\* Where the first header is, and one before the other.
LEMMA Starts ==
  /\ HeaderAt(1) = 0
  /\ FullLog \in Seq(Cells) /\ Len(FullLog) \in Nat
  /\ HeaderAt(Len(Lengths) + 1) = Len(FullLog)
  /\ \A r \in 1 .. Len(Lengths) + 1 : HeaderAt(r) \in Nat
<1> DEFINE M == Len(Lengths)
<1>1. M \in Nat /\ M \in 0 .. M
  BY ParameterAssumption
<1>2. HeaderAt(1) = 0
  BY LogIs DEF HeaderAt
<1>3. FullLog \in Seq(Cells) /\ Len(FullLog) \in Nat
  BY <1>1, LogIs DEF FullLog
<1>4. HeaderAt(M + 1) = Len(FullLog)
  <2>1. (M + 1) - 1 = M
    BY <1>1
  <2> QED
    BY <2>1 DEF HeaderAt, FullLog
<1>5. ASSUME NEW r \in 1 .. M + 1 PROVE HeaderAt(r) \in Nat
  <2>1. r - 1 \in 0 .. M
    BY <1>1
  <2>2. Log[r - 1] \in Seq(Cells)
    BY <2>1, LogIs
  <2> QED
    BY <2>2 DEF HeaderAt
<1> QED
  BY <1>2, <1>3, <1>4, <1>5

\* Behind the first header's place, a buffer holds what it holds in the end.
LEMMA ContentsIs ==
  ASSUME NEW n \in 0 .. LastPart
  PROVE  /\ Contents[n] \in Seq(Cells)
         /\ \A i \in DOMAIN Contents[n] :
               \/ i <= VAL_LENGTH
               \/ i \in DOMAIN FullLog /\ Contents[n][i] = FullLog[i]
<1> DEFINE M == Len(Lengths)
           k == n \div 2
           c == Contents[n]
           In(s) == /\ s \in Seq(Cells)
                    /\ \A i \in DOMAIN s : i \in DOMAIN FullLog /\ s[i] = FullLog[i]
<1>1. M \in Nat /\ Records = 1 .. M /\ n \in Nat /\ n <= 2 * M + 1
  BY ParameterAssumption DEF Records, LastPart
<1>2. k \in 0 .. M
  BY <1>1
<1>3. c = IF n = 1 THEN Header(0)
          ELSE IF n = 0 \/ n % 2 = 1 THEN Log[k]
          ELSE Log[k - 1] \o Header(CountedLength(k))
  BY DEF Contents
<1>4. ASSUME NEW q \in 0 .. M PROVE In(Log[q])
  <2>1. M \in 0 .. M /\ q <= M
    BY <1>1
  <2>2. Log[q] \in Seq(Cells) /\ FullLog \in Seq(Cells)
    BY LogIs, Starts
  <2>3. /\ Len(Log[q]) <= Len(FullLog)
        /\ \A i \in 1 .. Len(Log[q]) : FullLog[i] = Log[q][i]
    BY <2>1, LogGrows DEF FullLog
  <2> QED
    BY <2>2, <2>3
<1> HIDE DEF c, k, In
<1>5. CASE n = 1
  <2>1. /\ c \in Seq(Cells) /\ Len(c) = VAL_LENGTH
    BY <1>3, <1>5, HeaderType
  <2>2. \A i \in DOMAIN c : i <= VAL_LENGTH
    BY <2>1
  <2> QED
    BY <2>1, <2>2 DEF c
<1>6. CASE n # 1 /\ (n = 0 \/ n % 2 = 1)
  <2>1. In(c)
    BY <1>2, <1>3, <1>4, <1>6
  <2> QED
    BY <2>1 DEF c, In
<1>7. CASE n # 1 /\ ~ (n = 0 \/ n % 2 = 1)
  <2> DEFINE s == Log[k - 1]
             h == Header(CountedLength(k))
             b == Body(k)
  <2>1. k \in Records /\ k - 1 \in 0 .. M
    BY <1>1, <1>2, <1>7 DEF k
  <2>2. In(s) /\ In(Log[k])
    BY <1>2, <1>4, <2>1
  <2>3. Log[k] = s \o (h \o b)
    BY <2>1, LogIs DEF Frame
  <2>4. CountedLength(k) \in Nat
    BY <2>1, SizeIs DEF CountedLength
  <2>5. h \in Seq(Cells)
    BY <2>4, HeaderType
  <2>6. b \in Seq(Cells)
    <3>1. b \in Seq(Cells \ {NUL})
      BY <2>1, BodyType
    <3> HIDE DEF b
    <3> QED
      BY <3>1
  <2>7. s \in Seq(Cells)
    BY <2>2 DEF In
  <2>8. c = s \o h
    BY <1>3, <1>7
  <2> HIDE DEF s, h, b
  <2>9. \A i \in DOMAIN (s \o h) :
           i \in DOMAIN (s \o (h \o b)) /\ (s \o h)[i] = (s \o (h \o b))[i]
    <3>1. /\ Len(s \o h) = Len(s) + Len(h)
          /\ Len(h \o b) = Len(h) + Len(b) /\ h \o b \in Seq(Cells)
          /\ Len(s) \in Nat /\ Len(h) \in Nat /\ Len(b) \in Nat
      BY <2>5, <2>6, <2>7
    <3>2. /\ Len(s \o (h \o b)) = Len(s) + (Len(h) + Len(b))
          /\ s \o (h \o b) \in Seq(Cells) /\ s \o h \in Seq(Cells)
      BY <2>5, <2>7, <3>1
    <3>3. ASSUME NEW i \in 1 .. Len(s)
          PROVE  (s \o h)[i] = (s \o (h \o b))[i]
      BY <2>5, <2>7, <3>1
    <3>4. ASSUME NEW i \in 1 .. Len(s) + Len(h), i > Len(s)
          PROVE  (s \o h)[i] = (s \o (h \o b))[i]
      <4>1. i - Len(s) \in 1 .. Len(h) /\ i - Len(s) \in 1 .. Len(h \o b)
        BY <3>1, <3>4
      <4>2. (h \o b)[i - Len(s)] = h[i - Len(s)]
        BY <2>5, <2>6, <4>1
      <4>3. (s \o h)[i] = h[i - Len(s)]
        BY <2>5, <2>7, <3>1, <3>4
      <4>4. (s \o (h \o b))[i] = (h \o b)[i - Len(s)]
        BY <2>7, <3>1, <3>4
      <4> QED
        BY <4>2, <4>3, <4>4
    <3>5. DOMAIN (s \o h) = 1 .. Len(s) + Len(h)
      BY <3>1, <3>2
    <3>6. DOMAIN (s \o (h \o b)) = 1 .. Len(s) + (Len(h) + Len(b))
      BY <3>2
    <3>7. ASSUME NEW i \in 1 .. Len(s) + Len(h)
          PROVE  /\ i \in 1 .. Len(s) + (Len(h) + Len(b))
                 /\ i > Len(s) \/ i \in 1 .. Len(s)
      BY <3>1
    <3> QED
      BY <3>3, <3>4, <3>5, <3>6, <3>7
  <2>10. c \in Seq(Cells)
    BY <2>5, <2>7, <2>8
  <2>11. \A i \in DOMAIN c : i \in DOMAIN FullLog /\ c[i] = FullLog[i]
    BY <2>2, <2>3, <2>8, <2>9 DEF In
  <2> QED
    BY <2>10, <2>11 DEF c
<1> QED
  BY <1>5, <1>6, <1>7

\* After the last call the buffer is whole.
LEMMA ContentsLast == LastPart \in 0 .. LastPart /\ Contents[LastPart] = FullLog
<1>1. Len(Lengths) \in Nat /\ Len(Lengths) # 0
  BY ParameterAssumption
<1>2. /\ LastPart \in Nat /\ LastPart # 1 /\ LastPart % 2 = 1
      /\ LastPart \div 2 = Len(Lengths)
  BY <1>1 DEF LastPart
<1> QED
  BY <1>2 DEF Contents, FullLog

\* A read returns cells, as many as were asked for.
LEMMA BlockType ==
  ASSUME NEW n \in 0 .. LastPart, NEW addr \in Nat, NEW len \in Nat
  PROVE  Block(n, addr, len) \in Seq(Cells) /\ Len(Block(n, addr, len)) = len
<1> DEFINE c == Contents[n]
           cell(i) == IF addr + i \in DOMAIN c THEN c[addr + i] ELSE NUL
<1>1. c \in Seq(Cells)
  BY ContentsIs
<1> HIDE DEF c
<1>2. \A i \in 1 .. len : cell(i) \in Cells
  BY <1>1 DEF NUL, Cells
<1>3. Block(n, addr, len) = [i \in 1 .. len |-> cell(i)]
  BY DEF Block, c
<1> HIDE DEF cell
<1> QED
  BY <1>2, <1>3

\* What there is to read, in the end, where the header and the body of a record are.
LEMMA FrameBlocks ==
  ASSUME NEW r \in Records
  PROVE  /\ \A i \in 1 .. VAL_LENGTH :
               Block(LastPart, HeaderAt(r), VAL_LENGTH)[i]
                  = Header(CountedLength(r))[i]
         /\ \A i \in 1 .. Lengths[r] :
               Block(LastPart, HeaderAt(r) + VAL_LENGTH, Lengths[r])[i]
                  = Body(r)[i]
<1> DEFINE a == HeaderAt(r)
           w == VAL_LENGTH
           n == Lengths[r]
           f == Frame(r)
<1>1. w \in Nat /\ n \in Nat /\ a \in Nat /\ HeaderAt(r + 1) \in Nat
  BY SizeIs, FrameInLog, ParameterAssumption
<1>2. /\ a + w + n <= Len(FullLog) /\ DOMAIN FullLog = 1 .. Len(FullLog)
      /\ Len(FullLog) \in Nat
  BY FrameInLog, Starts
<1>3. /\ Len(f) = w + n
      /\ \A i \in 1 .. w : f[i] = Header(CountedLength(r))[i]
      /\ \A i \in 1 .. n : f[w + i] = Body(r)[i]
  BY FrameType
<1>4. \A i \in 1 .. Len(f) : FullLog[a + i] = f[i]
  BY FrameInLog
<1> HIDE DEF a, w, n, f
<1>5. ASSUME NEW addr \in Nat, NEW len \in Nat, addr + len <= Len(FullLog),
             NEW i \in 1 .. len
      PROVE  Block(LastPart, addr, len)[i] = FullLog[addr + i]
  <2>1. addr + i \in DOMAIN Contents[LastPart]
    BY <1>2, <1>5, ContentsLast
  <2> QED
    BY <2>1, ContentsLast DEF Block
<1>6. ASSUME NEW i \in 1 .. w
      PROVE  Block(LastPart, a, w)[i] = Header(CountedLength(r))[i]
  <2>1. a + w <= Len(FullLog) /\ i \in 1 .. w + n
    BY <1>1, <1>2
  <2> QED
    BY <1>1, <1>3, <1>4, <1>5, <2>1
<1>7. ASSUME NEW i \in 1 .. n
      PROVE  Block(LastPart, a + w, n)[i] = Body(r)[i]
  <2>1. w + i \in 1 .. w + n /\ (a + w) + i = a + (w + i) /\ a + w \in Nat
    BY <1>1
  <2>2. Block(LastPart, a + w, n)[i] = FullLog[(a + w) + i]
    BY <1>1, <1>2, <1>5, <2>1
  <2> QED
    BY <1>3, <1>4, <2>1, <2>2
<1> QED
  BY <1>6, <1>7 DEF a, w, n

\* Nothing is behind the last record.
LEMMA LastBlock ==
  Block(LastPart, HeaderAt(Len(Lengths) + 1), VAL_LENGTH)[1] = NUL
<1>1. /\ DOMAIN FullLog = 1 .. Len(FullLog) /\ Len(FullLog) \in Nat
      /\ HeaderAt(Len(Lengths) + 1) = Len(FullLog)
  BY Starts
<1>2. HeaderAt(Len(Lengths) + 1) + 1 \notin DOMAIN Contents[LastPart]
  BY <1>1, ContentsLast
<1>3. 1 \in 1 .. VAL_LENGTH
  BY ParameterAssumption
<1> QED
  BY <1>2, <1>3 DEF Block

\* Where a record's terminator is counted, there is one, or the next header.
LEMMA BodyEnd ==
  ASSUME NEW n \in 0 .. LastPart, NEW r \in Records
  PROVE  \/ Block(n, HeaderAt(r) + VAL_LENGTH, CountedLength(r))[CountedLength(r)]
               = NUL
         \/ /\ r < Len(Lengths)
            /\ Block(n, HeaderAt(r) + VAL_LENGTH, CountedLength(r))[CountedLength(r)]
                  = Header(CountedLength(r + 1))[1]
<1> DEFINE M == Len(Lengths)
           c == Contents[n]
           l == CountedLength(r)
           e == HeaderAt(r + 1)
           cell == Block(n, HeaderAt(r) + VAL_LENGTH, l)[l]
<1>1. /\ M \in Nat /\ Records = 1 .. M /\ r \in Nat /\ r <= M
      /\ VAL_LENGTH \in Nat /\ VAL_LENGTH # 0
  BY ParameterAssumption DEF Records
<1>2. /\ l \in Nat /\ l = Lengths[r] + 1 /\ Lengths[r] \in Nat
      /\ l \in 1 .. l
  BY SizeIs DEF CountedLength
<1>3. /\ HeaderAt(r) \in Nat /\ e \in Nat
      /\ e = HeaderAt(r) + VAL_LENGTH + Lengths[r]
  BY FrameInLog
<1>4. cell = IF (HeaderAt(r) + VAL_LENGTH) + l \in DOMAIN c
             THEN c[(HeaderAt(r) + VAL_LENGTH) + l] ELSE NUL
  BY <1>2 DEF Block
<1>5. (HeaderAt(r) + VAL_LENGTH) + l = e + 1
  BY <1>1, <1>2, <1>3
<1>6. cell = IF e + 1 \in DOMAIN c THEN c[e + 1] ELSE NUL
  BY <1>4, <1>5
<1>7. e + 1 > VAL_LENGTH
  BY <1>1, <1>2, <1>3
<1>8. ASSUME e + 1 \in DOMAIN c
      PROVE  r < M /\ c[e + 1] = Header(CountedLength(r + 1))[1]
  <2>1. e + 1 \in DOMAIN FullLog /\ c[e + 1] = FullLog[e + 1]
    <3>1. \A i \in DOMAIN c : i <= VAL_LENGTH
                              \/ (i \in DOMAIN FullLog /\ c[i] = FullLog[i])
      BY ContentsIs
    <3> HIDE DEF c, e
    <3> QED
      BY <1>1, <1>3, <1>7, <1>8, <3>1
  <2>2. r # M
    <3>1. DOMAIN FullLog = 1 .. Len(FullLog) /\ HeaderAt(M + 1) = Len(FullLog)
          /\ Len(FullLog) \in Nat
      BY Starts
    <3> QED
      BY <2>1, <3>1
  <2>3. r + 1 \in Records /\ r < M
    BY <1>1, <2>2
  <2>4. /\ Len(Frame(r + 1)) = VAL_LENGTH + Lengths[r + 1]
        /\ \A i \in 1 .. VAL_LENGTH :
              Frame(r + 1)[i] = Header(CountedLength(r + 1))[i]
    BY <2>3, FrameType
  <2>5. \A i \in 1 .. Len(Frame(r + 1)) : FullLog[e + i] = Frame(r + 1)[i]
    BY <2>3, FrameInLog
  <2>6. 1 \in 1 .. VAL_LENGTH /\ 1 \in 1 .. VAL_LENGTH + Lengths[r + 1]
    BY <1>1, <2>3, SizeIs
  <2>7. FullLog[e + 1] = Header(CountedLength(r + 1))[1]
    BY <2>4, <2>5, <2>6
  <2> QED
    BY <2>1, <2>3, <2>7
<1> HIDE DEF cell, c, e, l, M
<1>9. cell = NUL \/ (r < M /\ cell = Header(CountedLength(r + 1))[1])
  BY <1>6, <1>8
<1> QED
  BY <1>9 DEF cell, l, M

-----------------------------------------------------------------------------
(* Types; one read or one completion of each connection. *)

Busy(t) == poller # "idle" /\ on = t
Queued(t) == \E i \in DOMAIN cq : cq[i] = t

\* A connection has a message or a read on its way, or a completion in the queue, or
\* is the one that the poller is at: never two of them, and no two completions.
TokenInv ==
    /\ \A i, j \in DOMAIN cq : cq[i] = cq[j] => i = j
    /\ \A t \in Threads : pending[t] # "none" => ~Queued(t) /\ ~Busy(t)
    /\ \A t \in Threads : Queued(t) => ~Busy(t)

\* What parsing returns is a number.
LEMMA AtoiType == ASSUME NEW cells \in Seq(Cells) PROVE Atoi(cells) \in Nat
<1>1. PICK n \in 0 .. Len(cells) : \E g \in [0 .. n -> Nat] :
            /\ \A i \in 1 .. n : cells[i][1] = "digit"
            /\ n < Len(cells) => cells[n + 1][1] # "digit"
            /\ g[0] = 0
            /\ \A k \in 0 .. n - 1 : g[k + 1] = Base * g[k] + cells[k + 1][2]
            /\ Atoi(cells) = g[n]
  BY AtoiOf
<1> QED
  BY <1>1

\* A queue in which no thread is twice holds no more than there are threads.
LEMMA QueueBound ==
  ASSUME NEW q \in Seq(Threads), \A i, j \in DOMAIN q : q[i] = q[j] => i = j
  PROVE  Len(q) <= Cardinality(Threads)
<1>1. Len(q) \in Nat /\ DOMAIN q = 1 .. Len(q) /\ q \in [1 .. Len(q) -> Threads]
  OBVIOUS
<1>2. q \in Injection(1 .. Len(q), Threads)
  BY <1>1 DEF Injection, IsInjective
<1>3. Cardinality(1 .. Len(q)) <= Cardinality(Threads)
  BY <1>2, ParameterAssumption, FS_Injection
<1>4. Cardinality(1 .. Len(q)) = Len(q)
  <2>1. 1 \in Int /\ Len(q) \in Int
    BY <1>1
  <2>2. Cardinality(1 .. Len(q)) = IF 1 > Len(q) THEN 0 ELSE Len(q) - 1 + 1
    BY <2>1, FS_Interval
  <2> QED
    BY <1>1, <2>2
<1> QED
  BY <1>3, <1>4

\* The first completion leaves the queue.
LEMMA Dequeued ==
  ASSUME NEW q \in Seq(Threads), q # <<>>,
         \A i, j \in DOMAIN q : q[i] = q[j] => i = j
  PROVE  /\ Head(q) \in Threads /\ \E i \in DOMAIN q : q[i] = Head(q)
         /\ Tail(q) \in Seq(Threads)
         /\ \A i, j \in DOMAIN Tail(q) : Tail(q)[i] = Tail(q)[j] => i = j
         /\ \A i \in DOMAIN Tail(q) :
               Tail(q)[i] # Head(q) /\ \E j \in DOMAIN q : q[j] = Tail(q)[i]
<1>1. /\ Tail(q) \in Seq(Threads) /\ Len(Tail(q)) = Len(q) - 1
      /\ Len(q) \in Nat \ {0} /\ DOMAIN q = 1 .. Len(q)
      /\ Head(q) = q[1] /\ 1 \in DOMAIN q
  OBVIOUS
<1>2. DOMAIN Tail(q) = 1 .. Len(q) - 1
  BY <1>1
<1>3. ASSUME NEW i \in 1 .. Len(q) - 1
      PROVE  Tail(q)[i] = q[i + 1] /\ i + 1 \in DOMAIN q /\ i + 1 # 1
  BY <1>1
<1>4. ASSUME NEW i \in 1 .. Len(q) - 1, NEW j \in 1 .. Len(q) - 1,
             Tail(q)[i] = Tail(q)[j]
      PROVE  i = j
  <2>1. i + 1 = j + 1
    BY <1>3, <1>4
  <2> QED
    BY <2>1
<1>5. ASSUME NEW i \in 1 .. Len(q) - 1 PROVE Tail(q)[i] # q[1]
  BY <1>1, <1>3
<1> QED
  BY <1>1, <1>2, <1>3, <1>4, <1>5

\* A completion of a connection that has none enters the queue.
LEMMA Enqueued ==
  ASSUME NEW q \in Seq(Threads), NEW t \in Threads,
         \A i, j \in DOMAIN q : q[i] = q[j] => i = j,
         \A i \in DOMAIN q : q[i] # t
  PROVE  /\ Append(q, t) \in Seq(Threads)
         /\ \A i, j \in DOMAIN Append(q, t) :
               Append(q, t)[i] = Append(q, t)[j] => i = j
         /\ \A s \in Threads : (\E i \in DOMAIN Append(q, t) : Append(q, t)[i] = s)
                                  <=> (\E i \in DOMAIN q : q[i] = s) \/ s = t
<1> DEFINE n == Len(q) + 1
           a == Append(q, t)
<1>1. /\ a \in Seq(Threads) /\ DOMAIN a = 1 .. n /\ DOMAIN q = 1 .. Len(q)
      /\ a[n] = t /\ Len(q) \in Nat /\ \A i \in 1 .. Len(q) : a[i] = q[i]
  OBVIOUS
<1>2. \A i \in 1 .. n : i = n \/ i \in 1 .. Len(q)
  BY <1>1
<1>3. n \in 1 .. n /\ \A i \in 1 .. Len(q) : i \in 1 .. n
  BY <1>1
<1> HIDE DEF n, a
<1> QED
  BY <1>1, <1>2, <1>3 DEF a

LEMMA TypeInit == Init => TypeOK /\ TokenInv
<1> SUFFICES ASSUME Init PROVE TypeOK /\ TokenInv
  OBVIOUS
<1>1. VAL_LENGTH \in Nat \ {0} /\ Len(Lengths) \in Nat
  BY ParameterAssumption
<1>2. [i \in 1 .. VAL_LENGTH |-> NUL] \in Seq(Cells)
  BY <1>1 DEF NUL, Cells
<1>3. 0 \in 0 .. LastPart
  BY <1>1 DEF LastPart
<1>4. <<>> \in Seq(Threads) /\ Len(<<>>) <= Cardinality(Threads)
  <2>1. <<>> \in Seq(Threads) /\ Len(<<>>) = 0
    OBVIOUS
  <2>2. Cardinality(Threads) \in Nat
    BY ParameterAssumption, FS_CardinalityType
  <2> QED
    BY <2>1, <2>2
<1>5. TypeOK
  <2>1. /\ calls \in [Threads -> Nat]
        /\ spurious \in 0 .. MaxSpurious
        /\ producer_record \in Seq(Cells)
        /\ published \in [Threads -> Seq(Seq(Cells))]
    BY ParameterAssumption DEF Init
  <2>2. /\ peer_addr \in [Threads -> Nat] /\ size \in [Threads -> Nat \ {0}]
        /\ buffer \in [Threads -> Seq(Cells)]
    BY <1>1, <1>2 DEF Init
  <2>3. cq \in Seq(Threads) /\ Len(cq) <= Cardinality(Threads)
    BY <1>4 DEF Init
  <2> QED
    BY <1>3, <2>1, <2>2, <2>3 DEF Init, TypeOK, AppStates
<1>6. TokenInv
  BY DEF Init, TokenInv, Busy, Queued
<1> QED
  BY <1>5, <1>6

LEMMA TypeStep == TypeOK /\ TokenInv /\ [Next]_vars => TypeOK' /\ TokenInv'
<1> SUFFICES ASSUME TypeOK, TokenInv, [Next]_vars PROVE TypeOK' /\ TokenInv'
  OBVIOUS
<1>1. VAL_LENGTH \in Nat \ {0} /\ LastPart \in Nat
  BY ParameterAssumption DEF LastPart
<1>2. CASE Produce
  <2>1. TypeOK'
    BY <1>1, <1>2 DEF TypeOK, Produce, appVars, recVars, readVars
  <2>2. TokenInv'
    BY <1>2 DEF TokenInv, Busy, Queued, Produce
  <2> QED
    BY <2>1, <2>2
<1>3. ASSUME NEW t \in Threads, AppStep(t) PROVE TypeOK' /\ TokenInv'
  <2>1. CASE ConsumeRecord(t)
    <3>1. TypeOK'
      BY <2>1 DEF TypeOK, AppStates, ConsumeRecord, recVars, readVars
    <3>2. TokenInv'
      BY <2>1 DEF TokenInv, Busy, Queued, ConsumeRecord
    <3> QED
      BY <3>1, <3>2
  <2>2. CASE WaitForPolling(t) \/ Terminate(t)
    <3>1. TypeOK'
      BY <2>2 DEF TypeOK, AppStates, WaitForPolling, Terminate, recVars, readVars
    <3>2. TokenInv'
      BY <2>2 DEF TokenInv, Busy, Queued, WaitForPolling, Terminate
    <3> QED
      BY <3>1, <3>2
  <2>3. CASE ReturnRecord(t)
    <3>1. calls' \in [Threads -> Nat] /\ crashed' \in {"no", "wild", "nullderef"}
      BY <2>3 DEF TypeOK, ReturnRecord
    <3>2. TypeOK'
      BY <2>3, <3>1 DEF TypeOK, AppStates, ReturnRecord, recVars, readVars
    <3>3. TokenInv'
      BY <2>3 DEF TokenInv, Busy, Queued, ReturnRecord
    <3> QED
      BY <3>2, <3>3
  <2> QED
    BY <1>3, <2>1, <2>2, <2>3 DEF AppStep
<1>4. ASSUME NEW t \in Threads, Complete(t) PROVE TypeOK' /\ TokenInv'
  <2> DEFINE block == Block(produced, peer_addr[t], size[t])
             rest == SubSeq(buffer[t], size[t] + 1, Len(buffer[t]))
  <2>1. buffer' \in [Threads -> Seq(Cells)]
    <3>1. block \in Seq(Cells)
      BY BlockType DEF TypeOK
    <3>2. rest \in Seq(Cells)
      <4>1. buffer[t] \in Seq(Cells) /\ size[t] \in Nat
        BY DEF TypeOK
      <4> QED
        BY <4>1
    <3>3. block \o rest \in Seq(Cells)
      BY <3>1, <3>2
    <3> HIDE DEF block, rest
    <3>4. buffer' = buffer \/ buffer' = [buffer EXCEPT ![t] = block \o rest]
      BY <1>4 DEF Complete, block, rest
    <3> QED
      BY <3>3, <3>4 DEF TypeOK
  <2>2. cq \in Seq(Threads) /\ pending[t] # "none" /\ cq' = Append(cq, t)
    BY <1>4 DEF TypeOK, Complete
  <2>3. ~Queued(t) /\ ~Busy(t)
    BY <2>2 DEF TokenInv
  <2>4. /\ cq' \in Seq(Threads)
        /\ \A i, j \in DOMAIN cq' : cq'[i] = cq'[j] => i = j
        /\ \A s \in Threads : Queued(s)' <=> Queued(s) \/ s = t
    BY <2>2, <2>3, Enqueued DEF TokenInv, Queued
  <2>5. Len(cq') <= Cardinality(Threads)
    <3>1. PICK q \in Seq(Threads) : q = cq'
      BY <2>4
    <3> QED
      BY <2>4, <3>1, QueueBound
  <2>6. TypeOK'
    BY <1>4, <2>1, <2>4, <2>5 DEF TypeOK, Complete, appVars, recVars, readVars
  <2>7. \A s \in Threads : Busy(s)' <=> Busy(s)
    BY <1>4 DEF Complete, Busy
  <2>8. pending' = [pending EXCEPT ![t] = "none"]
        /\ pending \in [Threads -> {"none", "READY", "read"}]
    BY <1>4 DEF Complete, TypeOK
  <2>9. TokenInv'
    BY <2>3, <2>4, <2>7, <2>8 DEF TokenInv
  <2> QED
    BY <2>6, <2>9
<1>5. CASE PollCq
  <2>1. cq \in Seq(Threads) /\ cq # <<>> /\ on' = Head(cq) /\ cq' = Tail(cq)
    BY <1>5 DEF TypeOK, PollCq
  <2>2. /\ cq' \in Seq(Threads) /\ on' \in Threads /\ Queued(on')
        /\ \A i, j \in DOMAIN cq' : cq'[i] = cq'[j] => i = j
        /\ \A s \in Threads : Queued(s)' => Queued(s) /\ s # on'
    BY <2>1, Dequeued DEF TokenInv, Queued
  <2>3. Len(cq') <= Cardinality(Threads)
    <3>1. PICK q \in Seq(Threads) : q = cq'
      BY <2>2
    <3> QED
      BY <2>2, <3>1, QueueBound
  <2>4. TypeOK'
    BY <1>5, <2>2, <2>3 DEF TypeOK, PollCq, appVars, recVars, readVars
  <2>5. \A s \in Threads : Busy(s)' <=> s = on'
    BY <1>5 DEF PollCq, Busy
  <2>6. pending' = pending
    BY <1>5 DEF PollCq
  <2>7. ASSUME NEW s \in Threads, pending[s] # "none" PROVE ~Queued(s)' /\ ~Busy(s)'
    <3>1. ~Queued(s)
      BY <2>7 DEF TokenInv
    <3> QED
      BY <2>2, <2>5, <3>1
  <2>8. TokenInv'
    BY <2>2, <2>5, <2>6, <2>7 DEF TokenInv
  <2> QED
    BY <2>4, <2>8
<1>6. ASSUME /\ poller # "idle" /\ poller' = "idle" /\ on' = on /\ cq' = cq
             /\ pending' = [pending EXCEPT ![on] = "read"]
      PROVE  TokenInv'
  <2>1. /\ on \in Threads /\ pending \in [Threads -> {"none", "READY", "read"}]
        /\ Busy(on)
    BY <1>6 DEF TypeOK, Busy
  <2>2. \A s \in Threads : ~Busy(s)' /\ (Queued(s)' <=> Queued(s))
    BY <1>6 DEF Busy, Queued
  <2>3. ~Queued(on)
    BY <2>1 DEF TokenInv
  <2> QED
    BY <1>6, <2>1, <2>2, <2>3 DEF TokenInv
<1>7. CASE PollAgain
  <2>1. TypeOK'
    BY <1>7 DEF TypeOK, PollAgain, PostRead, appVars, recVars, readVars
  <2> QED
    BY <1>6, <1>7, <2>1 DEF PollAgain, PostRead
<1>8. CASE LengthFound
  <2>1. Atoi(buffer[on]) \in Nat \ {0}
    <3>1. Atoi(buffer[on]) \in Nat
      BY AtoiType DEF TypeOK
    <3> QED
      BY <1>8, <3>1 DEF LengthFound, HasLength
  <2>2. peer_addr[on] + VAL_LENGTH \in Nat
    BY <1>1 DEF TypeOK
  <2>3. torn' \in BOOLEAN
    BY <1>8 DEF TypeOK, LengthFound
  <2>4. TypeOK'
    BY <1>8, <2>1, <2>2, <2>3 DEF TypeOK, LengthFound, PostRead, appVars, recVars
  <2> QED
    BY <1>6, <1>8, <2>4 DEF LengthFound, PostRead
<1>9. CASE Deserialize
  <2> DEFINE s == String(buffer[on])
  <2>1. s \in Seq(Cells)
    <3>1. buffer[on] \in Seq(Cells)
      BY DEF TypeOK
    <3>2. s \in Seq(Cells \ {NUL})
      BY <3>1, StringType
    <3> HIDE DEF s
    <3> QED
      BY <3>2
  <2>2. producer_record' = s /\ published' = [published EXCEPT ![on] = Append(@, s)]
    BY <1>9 DEF Deserialize
  <2> HIDE DEF s
  <2>3. published' \in [Threads -> Seq(Seq(Cells))]
    <3>1. Append(published[on], s) \in Seq(Seq(Cells))
      BY <2>1 DEF TypeOK
    <3> QED
      BY <2>2, <3>1 DEF TypeOK
  <2>4. torn' \in BOOLEAN
    BY <1>9 DEF TypeOK, Deserialize
  <2>5. TypeOK'
    BY <1>9, <2>1, <2>2, <2>3, <2>4 DEF TypeOK, Deserialize, appVars, readVars
  <2>6. TokenInv'
    BY <1>9 DEF TokenInv, Busy, Queued, Deserialize
  <2> QED
    BY <2>5, <2>6
<1>10. CASE NoSeparator
  <2>1. torn' \in BOOLEAN /\ crashed' = "wild"
    BY <1>10 DEF TypeOK, NoSeparator
  <2>2. TypeOK'
    BY <1>10, <2>1 DEF TypeOK, NoSeparator, appVars, recVars, readVars
  <2>3. TokenInv'
    BY <1>10 DEF TokenInv, Busy, Queued, NoSeparator
  <2> QED
    BY <2>2, <2>3
<1>11. CASE SignalConsumer
  <2>1. app' \in [Threads -> AppStates]
    BY <1>11 DEF TypeOK, AppStates, SignalConsumer
  <2>2. TypeOK'
    BY <1>11, <2>1 DEF TypeOK, SignalConsumer, recVars, readVars
  <2>3. TokenInv'
    BY <1>11 DEF TokenInv, Busy, Queued, SignalConsumer
  <2> QED
    BY <2>2, <2>3
<1>12. CASE WaitForConsumer
  <2>1. TypeOK'
    BY <1>12 DEF TypeOK, WaitForConsumer, appVars, recVars, readVars
  <2>2. TokenInv'
    BY <1>12 DEF TokenInv, Busy, Queued, WaitForConsumer
  <2> QED
    BY <2>1, <2>2
<1>13. CASE Resume
  <2>1. peer_addr[on] \in Nat /\ size[on] \in Nat \ {0}
    BY DEF TypeOK
  <2>2. NextAddr(on) \in Nat
    BY <2>1 DEF NextAddr
  <2>3. TypeOK'
    BY <1>1, <1>13, <2>2 DEF TypeOK, Resume, PostRead, appVars, recVars
  <2> QED
    BY <1>6, <1>13, <2>3 DEF Resume, PostRead
<1>14. CASE UNCHANGED vars
  <2>1. TypeOK'
    BY <1>14 DEF TypeOK, vars, appVars, recVars, readVars
  <2>2. TokenInv'
    BY <1>14 DEF TokenInv, Busy, Queued, vars
  <2> QED
    BY <2>1, <2>2
<1>15. CASE SpuriousWakeup
  <2>1. app' \in [Threads -> AppStates] /\ spurious' \in 0 .. MaxSpurious
    <3>1. app' \in [Threads -> AppStates]
      BY <1>15 DEF TypeOK, AppStates, SpuriousWakeup
    <3>2. spurious' \in 0 .. MaxSpurious
      BY <1>15, ParameterAssumption DEF TypeOK, SpuriousWakeup
    <3> QED
      BY <3>1, <3>2
  <2>2. TypeOK'
    BY <1>15, <2>1 DEF TypeOK, SpuriousWakeup, recVars, readVars
  <2>3. TokenInv'
    BY <1>15 DEF TokenInv, Busy, Queued, SpuriousWakeup
  <2> QED
    BY <2>2, <2>3
<1> QED
  BY <1>2, <1>3, <1>4, <1>5, <1>7, <1>8, <1>9, <1>10, <1>11, <1>12, <1>13,
     <1>14, <1>15 DEF Next, PollerStep

\* Every variable has its type, and the completion queue, which the connections
\* share, never holds two completions of one.
THEOREM Completions == Spec => [](TypeOK /\ TokenInv)
  BY TypeInit, TypeStep, PTL DEF Spec

\* Every variable has its type: in particular the completion queue has room for one
\* completion of each connection, and needs no more.
THEOREM TypeCorrect == Spec => []TypeOK
  BY Completions, PTL

-----------------------------------------------------------------------------
(* The rendezvous. *)

\* Before the first record there is nothing that signals a call.
NullInv ==
    producer_record = <<>> =>
        /\ poller \in {"idle", "completion"}
        /\ \A t \in Threads : app[t] # "woken"

LEMMA NullStep == TypeOK /\ NullInv /\ [Next]_vars => NullInv'
<1> SUFFICES ASSUME TypeOK, NullInv, [Next]_vars PROVE NullInv'
  OBVIOUS
<1> USE DEF NullInv
<1>1. ASSUME NEW t \in Threads, AppStep(t) PROVE NullInv'
  <2>1. CASE ConsumeRecord(t)
    <3>1. app \in [Threads -> AppStates]
      BY DEF TypeOK
    <3> QED
      BY <2>1, <3>1 DEF ConsumeRecord, recVars
  <2>2. CASE WaitForPolling(t) \/ Terminate(t)
    <3>1. app \in [Threads -> AppStates]
      BY DEF TypeOK
    <3> QED
      BY <2>2, <3>1 DEF WaitForPolling, Terminate, recVars
  <2>3. CASE ReturnRecord(t)
    <3>1. app \in [Threads -> AppStates]
      BY DEF TypeOK
    <3> QED
      BY <2>3, <3>1 DEF ReturnRecord, recVars
  <2> QED
    BY <1>1, <2>1, <2>2, <2>3 DEF AppStep
<1>2. ASSUME NEW t \in Threads, Complete(t) PROVE NullInv'
  BY <1>2 DEF Complete, appVars, recVars
<1>3. CASE Deserialize
  <2>1. producer_record' = String(buffer[on]) /\ HasSep(String(buffer[on]))
    BY <1>3 DEF Deserialize
  <2>2. producer_record' # <<>>
    BY <2>1 DEF HasSep
  <2> QED
    BY <1>3, <2>2 DEF Deserialize, appVars
<1>4. CASE SignalConsumer
  BY <1>4 DEF SignalConsumer, recVars
<1>5. CASE Resume
  BY <1>5 DEF Resume, PostRead, appVars, recVars
<1>6. CASE PollAgain \/ LengthFound
  BY <1>6 DEF PollAgain, LengthFound, PostRead, appVars, recVars
<1>7. CASE Produce \/ PollCq \/ NoSeparator \/ WaitForConsumer \/ UNCHANGED vars
  BY <1>7 DEF Produce, PollCq, NoSeparator, WaitForConsumer, vars, appVars, recVars
<1>8. CASE SpuriousWakeup
  <2>1. app \in [Threads -> AppStates]
    BY DEF TypeOK
  <2> QED
    BY <1>8, <2>1 DEF SpuriousWakeup, recVars
<1> QED
  BY <1>1, <1>2, <1>3, <1>4, <1>5, <1>6, <1>7, <1>8 DEF Next, PollerStep

\* However the calls of the threads and the completions of the connections mix, a
\* call that was signalled does not return NULL.
THEOREM NullNeedsSpurious == Spec => NullOnlySpuriously
<1>1. Init => NullInv
  BY DEF Init, NullInv
<1>2. TypeOK /\ NullInv /\ [Next]_vars =>
         [\A t \in Threads :
             calls'[t] # calls[t] /\ producer_record = <<>> => app[t] = "roused"]_vars
  <2> SUFFICES ASSUME TypeOK, NullInv, Next, NEW t \in Threads,
                      calls'[t] # calls[t], producer_record = <<>>
               PROVE  app[t] = "roused"
    OBVIOUS
  <2>1. PICK s \in Threads : ReturnRecord(s)
    BY DEF Next, AppStep, PollerStep, Produce, ConsumeRecord, WaitForPolling,
       Terminate, Complete, PollCq, PollAgain, LengthFound, Deserialize, NoSeparator,
       SignalConsumer, WaitForConsumer, Resume, SpuriousWakeup, appVars
  <2>2. s = t
    BY <2>1 DEF ReturnRecord, TypeOK
  <2> QED
    BY <2>1, <2>2 DEF ReturnRecord, NullInv
<1> QED
  BY <1>1, <1>2, NullStep, TypeCorrect, PTL DEF Spec, NullOnlySpuriously

-----------------------------------------------------------------------------
(* The cursor of a connection, and what is in its buffer. *)

\* The poller has published the record that connection t is at.
Told(t) == Busy(t) /\ poller # "completion"

\* Connection t polls the header of record r, or past the last record.  What is in
\* its buffer behind a header does not start with a digit, and is not longer than
\* the block of record r, if another one follows it.
AtHeader(t, r) ==
    /\ read_status[t] = "READ_POLLING" /\ ~Told(t)
    /\ peer_addr[t] = HeaderAt(r) /\ size[t] = VAL_LENGTH
    /\ r \in Records =>
          /\ Len(buffer[t]) >= VAL_LENGTH
          /\ Len(buffer[t]) > VAL_LENGTH => buffer[t][VAL_LENGTH + 1][1] # "digit"
          /\ r < Len(Lengths) => Len(buffer[t]) <= CountedLength(r)
    /\ Len(published[t]) = r - 1

\* Connection t is at the body of record r.
AtBody(t, r) ==
    /\ read_status[t] = "READ_READY" /\ pending[t] # "READY"
    /\ r \in Records
    /\ peer_addr[t] = HeaderAt(r) + VAL_LENGTH /\ size[t] = CountedLength(r)
    /\ r < Len(Lengths) => Len(buffer[t]) <= CountedLength(r)

\* A block that was read ends with a NUL or the first digit of the next header.
Ends(cells, r) ==
    /\ Len(cells) >= CountedLength(r)
    /\ \/ cells[CountedLength(r)] = NUL
       \/ /\ r < Len(Lengths)
          /\ cells[CountedLength(r)] = Header(CountedLength(r + 1))[1]

\* It reads the body, or has read it and is to be polled.
Reads(t, r) ==
    /\ AtBody(t, r) /\ ~Told(t)
    /\ Queued(t) \/ Busy(t) => Ends(buffer[t], r)
    /\ Len(published[t]) = r - 1

\* It has published record r, which is still in its buffer.
HasRead(t, r) ==
    /\ AtBody(t, r) /\ Told(t)
    /\ Len(buffer[t]) >= Lengths[r]
    /\ \A i \in 1 .. Lengths[r] : buffer[t][i] = Body(r)[i]
    /\ Len(published[t]) = r

OnFrame(t, r) == AtHeader(t, r) \/ Reads(t, r) \/ HasRead(t, r)

\* As long as no read was torn.
FrameInv == ~torn => \A t \in Threads : \E r \in 1 .. Len(Lengths) + 1 : OnFrame(t, r)

\* A step that does not touch what is known of a connection leaves it where it is.
LEMMA FrameStays ==
  ASSUME NEW t \in Threads, NEW r \in 1 .. Len(Lengths) + 1, OnFrame(t, r),
         UNCHANGED <<read_status[t], peer_addr[t], size[t], buffer[t], published[t]>>,
         Told(t)' <=> Told(t), Queued(t)' \/ Busy(t)' => Queued(t) \/ Busy(t),
         pending[t]' = "READY" => pending[t] = "READY"
  PROVE  OnFrame(t, r)'
<1>1. CASE AtHeader(t, r)
  BY <1>1 DEF AtHeader, OnFrame
<1>2. CASE Reads(t, r)
  BY <1>2 DEF Reads, AtBody, OnFrame
<1>3. CASE HasRead(t, r)
  BY <1>3 DEF HasRead, AtBody, OnFrame
<1> QED
  BY <1>1, <1>2, <1>3 DEF OnFrame

\* What a read of l cells makes of a buffer.
LEMMA Replaced ==
  ASSUME NEW b \in Seq(Cells), NEW block \in Seq(Cells), NEW l \in Nat,
         Len(block) = l
  PROVE  LET c == block \o SubSeq(b, l + 1, Len(b)) IN
            /\ c \in Seq(Cells)
            /\ Len(c) = IF Len(b) > l THEN Len(b) ELSE l
            /\ \A i \in 1 .. l : c[i] = block[i]
            /\ \A i \in l + 1 .. Len(b) : c[i] = b[i]
<1> DEFINE rest == SubSeq(b, l + 1, Len(b))
           c == block \o rest
           n == IF Len(b) > l THEN Len(b) - l ELSE 0
<1>1. /\ rest \in Seq(Cells) /\ Len(rest) = n /\ Len(b) \in Nat /\ n \in Nat
  OBVIOUS
<1>2. \A i \in 1 .. n : rest[i] = b[l + i]
  OBVIOUS
<1> HIDE DEF rest, n
<1>3. /\ c \in Seq(Cells) /\ Len(c) = l + n
      /\ \A i \in 1 .. l : c[i] = block[i]
      /\ \A i \in 1 .. n : c[l + i] = rest[i]
  <2>1. c \in Seq(Cells) /\ Len(c) = l + n
    BY <1>1
  <2>2. \A i \in 1 .. l : c[i] = block[i]
    BY <1>1
  <2>3. ASSUME NEW i \in 1 .. n PROVE c[l + i] = rest[i]
    <3>1. /\ l + i \in 1 .. Len(block) + Len(rest) /\ l + i > Len(block)
          /\ (l + i) - Len(block) = i
      BY <1>1
    <3>2. c[l + i] = rest[(l + i) - Len(block)]
      BY <1>1, <3>1
    <3> QED
      BY <3>1, <3>2
  <2> QED
    BY <2>1, <2>2, <2>3
<1>4. ASSUME NEW i \in l + 1 .. Len(b) PROVE c[i] = b[i]
  <2>1. i - l \in 1 .. n /\ l + (i - l) = i
    BY <1>1 DEF n
  <2> HIDE DEF c
  <2>2. c[l + (i - l)] = rest[i - l] /\ rest[i - l] = b[l + (i - l)]
    BY <1>2, <1>3, <2>1
  <2> QED
    BY <2>1, <2>2
<1>5. l + n = IF Len(b) > l THEN Len(b) ELSE l
  BY <1>1 DEF n
<1> HIDE DEF c
<1>6. /\ c \in Seq(Cells)
      /\ Len(c) = IF Len(b) > l THEN Len(b) ELSE l
      /\ \A i \in 1 .. l : c[i] = block[i]
      /\ \A i \in l + 1 .. Len(b) : c[i] = b[i]
  BY <1>3, <1>4, <1>5
<1> QED
  BY <1>6 DEF c, rest

\* A read of a header leaves what is behind it, and one of a body ends as it should.
LEMMA FrameComplete ==
  ASSUME TypeOK, TokenInv, NEW t \in Threads, NEW r \in 1 .. Len(Lengths) + 1,
         OnFrame(t, r), Complete(t)
  PROVE  OnFrame(t, r)'
<1> DEFINE l == size[t]
           b == buffer[t]
           block == Block(produced, peer_addr[t], l)
           c == block \o SubSeq(b, l + 1, Len(b))
<1>1. /\ b \in Seq(Cells) /\ l \in Nat /\ l # 0 /\ peer_addr[t] \in Nat
      /\ produced \in 0 .. LastPart /\ VAL_LENGTH \in Nat \ {0}
  BY ParameterAssumption DEF TypeOK
<1>2. /\ pending[t] # "none" /\ ~Busy(t)
  BY DEF Complete, TokenInv
<1>3. /\ ~Told(t) /\ ~Told(t)'
      /\ UNCHANGED <<read_status, peer_addr, size, published>>
      /\ pending'[t] # "READY"
  BY <1>2 DEF Complete, Told, Busy, TypeOK, readVars, recVars
<1>4. pending[t] = "READY" => buffer' = buffer
  BY DEF Complete
<1>5. pending[t] # "READY" => buffer'[t] = c
  BY DEF Complete, TypeOK
<1>6. block \in Seq(Cells) /\ Len(block) = l
  BY <1>1, BlockType
<1>7. /\ Len(c) = IF Len(b) > l THEN Len(b) ELSE l
      /\ \A i \in 1 .. l : c[i] = block[i]
      /\ \A i \in l + 1 .. Len(b) : c[i] = b[i]
  <2> HIDE DEF b, block, l
  <2> QED
    BY <1>1, <1>6, Replaced
<1> HIDE DEF c
<1>8. CASE AtHeader(t, r)
  <2>1. l = VAL_LENGTH
    BY <1>8 DEF AtHeader
  <2>2. ASSUME r \in Records
        PROVE  /\ Len(buffer'[t]) = Len(b)
               /\ Len(b) > VAL_LENGTH =>
                     buffer'[t][VAL_LENGTH + 1] = b[VAL_LENGTH + 1]
    <3>1. CASE pending[t] = "READY"
      BY <1>4, <3>1
    <3>2. CASE pending[t] # "READY"
      <4>1. Len(b) >= VAL_LENGTH /\ Len(b) \in Nat
        BY <1>1, <1>8, <2>2 DEF AtHeader
      <4>2. Len(c) = Len(b)
        BY <1>1, <1>7, <2>1, <4>1
      <4>3. ASSUME Len(b) > VAL_LENGTH PROVE c[VAL_LENGTH + 1] = b[VAL_LENGTH + 1]
        <5>1. VAL_LENGTH + 1 \in l + 1 .. Len(b)
          BY <1>1, <2>1, <4>1, <4>3
        <5> QED
          BY <1>7, <5>1
      <4> QED
        BY <1>5, <3>2, <4>2, <4>3
    <3> QED
      BY <3>1, <3>2
  <2>3. AtHeader(t, r)'
    BY <1>3, <1>8, <2>2 DEF AtHeader
  <2> QED
    BY <2>3 DEF OnFrame
<1>9. CASE Reads(t, r)
  <2>1. /\ l = CountedLength(r) /\ peer_addr[t] = HeaderAt(r) + VAL_LENGTH
        /\ pending[t] # "READY" /\ r \in Records
        /\ r < Len(Lengths) => Len(b) <= CountedLength(r)
    BY <1>9 DEF Reads, AtBody
  <2>2. buffer'[t] = c
    BY <1>5, <2>1
  <2>3. Len(c) >= l /\ (Len(b) <= l => Len(c) <= l)
    <3>1. Len(b) \in Nat
      BY <1>1
    <3> QED
      BY <1>1, <1>7, <3>1
  <2>4. c[l] = block[l]
    BY <1>1, <1>7
  <2>5. \/ block[l] = NUL
        \/ r < Len(Lengths) /\ block[l] = Header(CountedLength(r + 1))[1]
    BY <1>1, <2>1, BodyEnd
  <2>6. Ends(c, r)
    BY <2>1, <2>3, <2>4, <2>5 DEF Ends
  <2>7. AtBody(t, r)'
    BY <1>3, <1>9, <2>1, <2>2, <2>3 DEF Reads, AtBody
  <2>8. Ends(buffer[t], r)'
    BY <2>2, <2>6 DEF Ends
  <2>9. Len(published'[t]) = r - 1
    BY <1>3, <1>9 DEF Reads
  <2> QED
    BY <1>3, <2>7, <2>8, <2>9 DEF Reads, OnFrame
<1>10. CASE HasRead(t, r)
  BY <1>3, <1>10 DEF HasRead
<1> QED
  BY <1>8, <1>9, <1>10 DEF OnFrame

\* A whole header is parsed to the length of its record.
LEMMA FrameLength ==
  ASSUME TypeOK, TokenInv, NEW t \in Threads, NEW r \in 1 .. Len(Lengths) + 1,
         OnFrame(t, r), LengthFound, t = on, ~torn'
  PROVE  OnFrame(t, r)'
<1> DEFINE b == buffer[t]
           w == VAL_LENGTH
<1>1. /\ b \in Seq(Cells) /\ w \in Nat \ {0} /\ Len(Lengths) \in Nat
      /\ Records = 1 .. Len(Lengths)
  BY ParameterAssumption DEF TypeOK, Records
<1>2. /\ read_status[t] = "READ_POLLING" /\ HasLength(b) /\ Whole(t)
      /\ read_status'[t] = "READ_READY" /\ size'[t] = Atoi(b)
      /\ peer_addr'[t] = peer_addr[t] + w
      /\ pending'[t] = "read" /\ buffer' = buffer /\ published' = published
      /\ poller = "completion" /\ poller' = "idle" /\ on' = on /\ cq' = cq
  BY DEF LengthFound, PostRead, TypeOK, recVars
<1>3. AtHeader(t, r)
  BY <1>2 DEF OnFrame, Reads, HasRead, AtBody
<1>4. size[t] = w /\ peer_addr[t] = HeaderAt(r)
  BY <1>3 DEF AtHeader
<1>5. \A i \in 1 .. w : b[i] = Block(LastPart, HeaderAt(r), w)[i]
  <2>1. SubSeq(b, 1, w) = Block(LastPart, HeaderAt(r), w)
    BY <1>2, <1>4 DEF Whole
  <2>2. \A i \in 1 .. w : SubSeq(b, 1, w)[i] = b[i]
    BY <1>1
  <2> QED
    BY <2>1, <2>2
<1>6. r \in Records
  <2> SUFFICES ASSUME r = Len(Lengths) + 1 PROVE FALSE
    BY <1>1
  <2>1. 1 \in 1 .. w
    BY <1>1
  <2>2. b[1] = NUL
    BY <1>5, <2>1, LastBlock
  <2>3. b[1][1] # "digit"
    BY <2>2 DEF NUL
  <2>4. Atoi(b) = 0
    BY <1>1, <2>3, AtoiOfNone
  <2> QED
    BY <1>2, <2>4 DEF HasLength
<1>7. Atoi(b) = CountedLength(r)
  <2>1. CountedLength(r) \in Nat /\ CountedLength(r) < Place[w]
    BY <1>6, SizeIs, LengthAssumption DEF CountedLength
  <2>2. \A i \in 1 .. w : b[i] = Header(CountedLength(r))[i]
    BY <1>5, <1>6, FrameBlocks
  <2>3. Len(b) >= w /\ (Len(b) > w => b[w + 1][1] # "digit")
    BY <1>3, <1>6 DEF AtHeader
  <2> HIDE DEF b
  <2> QED
    BY <1>1, <2>1, <2>2, <2>3, AtoiOfHeader
<1>8. AtBody(t, r)'
  BY <1>2, <1>3, <1>4, <1>6, <1>7 DEF AtBody, AtHeader
<1>9. ~Told(t)' /\ ~Busy(t)' /\ ~Queued(t)'
  <2>1. Busy(t) /\ ~Busy(t)'
    BY <1>2 DEF Busy
  <2>2. ~Queued(t)
    BY <2>1 DEF TokenInv
  <2>3. ~Queued(t)'
    BY <1>2, <2>2 DEF Queued
  <2> QED
    BY <2>1, <2>3 DEF Told
<1>10. Len(published'[t]) = r - 1
  BY <1>2, <1>3 DEF AtHeader
<1>11. Reads(t, r)'
  BY <1>8, <1>9, <1>10 DEF Reads
<1> QED
  BY <1>11 DEF OnFrame

\* The string in a buffer that starts with a record, and that ends as it should.
LEMMA RecordOf ==
  ASSUME NEW b \in Seq(Cells), NEW r \in Records, Ends(b, r),
         r < Len(Lengths) => Len(b) <= CountedLength(r),
         \A i \in 1 .. Lengths[r] : b[i] = Body(r)[i]
  PROVE  \/ String(b) = Body(r)
         \/ r + 1 \in Records /\ String(b) = Body(r) \o NextDigit(r)
<1> DEFINE l == Lengths[r]
           d == Header(CountedLength(r + 1))
<1>1. /\ r \in Nat /\ l \in Nat \ {0} /\ CountedLength(r) = l + 1
      /\ Len(Lengths) \in Nat /\ Records = 1 .. Len(Lengths)
  BY SizeIs, ParameterAssumption DEF CountedLength, Records
<1>2. Body(r) \in Seq(Cells \ {NUL}) /\ Len(Body(r)) = l
  BY BodyType
<1>3. /\ Len(b) >= l + 1 /\ Len(b) \in Nat
      /\ \/ b[l + 1] = NUL
         \/ r < Len(Lengths) /\ b[l + 1] = d[1]
  BY <1>1 DEF Ends
<1>4. PICK n \in 0 .. Len(b) :
         /\ String(b) = SubSeq(b, 1, n)
         /\ \A i \in 1 .. n : b[i] # NUL
         /\ n < Len(b) => b[n + 1] = NUL
  BY StringOf
<1>5. \A i \in 1 .. l : b[i] # NUL
  <2>1. \A i \in 1 .. l : Body(r)[i] # NUL
    BY <1>1, <1>2
  <2> QED
    BY <2>1
<1>6. n >= l
  <2> SUFFICES ASSUME n < l PROVE FALSE
    BY <1>1
  <2>1. n + 1 \in 1 .. l /\ n < Len(b)
    BY <1>1, <1>3
  <2> QED
    BY <1>4, <1>5, <2>1
<1>7. CASE b[l + 1] = NUL
  <2>1. n = l
    <3> SUFFICES ASSUME n > l PROVE FALSE
      BY <1>1, <1>6
    <3>1. l + 1 \in 1 .. n
      BY <1>1
    <3> QED
      BY <1>4, <1>7, <3>1
  <2>2. SubSeq(b, 1, l) = Body(r)
    <3>1. SubSeq(b, 1, l) = [i \in 1 .. l |-> b[i]]
      BY <1>1, <1>3
    <3>2. Body(r) = [i \in 1 .. l |-> Body(r)[i]]
      BY <1>1, <1>2
    <3> QED
      BY <3>1, <3>2
  <2> QED
    BY <1>4, <2>1, <2>2
<1>8. CASE b[l + 1] # NUL
  <2>1. r < Len(Lengths) /\ b[l + 1] = d[1] /\ r + 1 \in Records
    BY <1>1, <1>3, <1>8
  <2>2. Len(b) = l + 1
    BY <1>1, <1>3, <2>1
  <2>3. n = l + 1
    <3> SUFFICES ASSUME n = l PROVE FALSE
      BY <1>1, <1>6, <2>2
    <3> QED
      BY <1>4, <1>8, <2>2
  <2>4. NextDigit(r) = <<d[1]>>
    <3>1. CountedLength(r + 1) \in Nat
      BY <2>1, SizeIs DEF CountedLength
    <3>2. d \in Seq(Cells) /\ Len(d) = VAL_LENGTH /\ VAL_LENGTH \in Nat \ {0}
      BY <3>1, HeaderType, ParameterAssumption
    <3>3. NextDigit(r) = SubSeq(d, 1, 1)
      BY DEF NextDigit
    <3> HIDE DEF d
    <3>4. SubSeq(d, 1, 1) = [i \in 1 .. 1 |-> d[i]]
      BY <3>2
    <3>5. [i \in 1 .. 1 |-> d[i]] = <<d[1]>>
      OBVIOUS
    <3> QED
      BY <3>3, <3>4, <3>5
  <2>5. SubSeq(b, 1, l + 1) = Body(r) \o <<d[1]>>
    <3> DEFINE x == d[1]
               y == Body(r)
    <3>1. y \in Seq(Cells \ {NUL}) /\ Len(y) = l /\ \A i \in 1 .. l : b[i] = y[i]
      BY <1>2
    <3>2. b[l + 1] = x
      BY <2>1
    <3> HIDE DEF x, y
    <3>3. SubSeq(b, 1, l + 1) = [i \in 1 .. l + 1 |-> b[i]]
      BY <1>1, <2>2
    <3>4. y \o <<x>> = [i \in 1 .. l + 1 |-> IF i <= l THEN y[i] ELSE x]
      BY <1>1, <3>1
    <3>5. ASSUME NEW i \in 1 .. l + 1
          PROVE  b[i] = IF i <= l THEN y[i] ELSE x
      <4>1. CASE i = l + 1
        BY <1>1, <3>2, <4>1
      <4>2. CASE i # l + 1
        <5>1. i \in 1 .. l /\ i <= l
          BY <1>1, <4>2
        <5> QED
          BY <3>1, <5>1
      <4> QED
        BY <4>1, <4>2
    <3> QED
      BY <3>3, <3>4, <3>5 DEF x, y
  <2> QED
    BY <1>4, <2>1, <2>3, <2>4, <2>5
<1> QED
  BY <1>7, <1>8

\* A whole record is published as it is, or with the first digit of the next header.
LEMMA FrameRecord ==
  ASSUME TypeOK, NEW t \in Threads, NEW r \in 1 .. Len(Lengths) + 1,
         OnFrame(t, r), Deserialize, t = on, ~torn'
  PROVE  /\ OnFrame(t, r)'
         /\ Len(published[t]) = r - 1
         /\ \/ String(buffer[t]) = Body(r)
            \/ r + 1 \in Records /\ String(buffer[t]) = Body(r) \o NextDigit(r)
<1> DEFINE b == buffer[t]
<1>1. /\ b \in Seq(Cells) /\ read_status[t] = "READ_READY" /\ WholeBody(t)
      /\ poller = "completion" /\ poller' = "signal" /\ on' = on
      /\ UNCHANGED <<read_status, peer_addr, size, buffer, pending>>
  BY DEF Deserialize, TypeOK, readVars
<1>2. Reads(t, r)
  BY <1>1 DEF OnFrame, AtHeader, HasRead, Told
<1>3. /\ r \in Records /\ size[t] = CountedLength(r)
      /\ peer_addr[t] = HeaderAt(r) + VAL_LENGTH
      /\ r < Len(Lengths) => Len(b) <= CountedLength(r)
  BY <1>2 DEF Reads, AtBody
<1>4. Ends(b, r)
  BY <1>1, <1>2 DEF Reads, Busy
<1>5. Lengths[r] \in Nat /\ CountedLength(r) = Lengths[r] + 1
      /\ Len(b) \in Nat /\ Len(b) >= Lengths[r]
  <2>1. Lengths[r] \in Nat /\ CountedLength(r) = Lengths[r] + 1 /\ Len(b) \in Nat
    BY <1>1, <1>3, SizeIs DEF CountedLength
  <2> QED
    BY <1>4, <2>1 DEF Ends
<1>6. \A i \in 1 .. Lengths[r] : b[i] = Body(r)[i]
  <2>1. size[t] - 1 = Lengths[r]
    BY <1>3, <1>5
  <2>2. SubSeq(b, 1, Lengths[r])
           = Block(LastPart, HeaderAt(r) + VAL_LENGTH, Lengths[r])
    BY <1>1, <1>3, <2>1 DEF WholeBody
  <2>3. \A i \in 1 .. Lengths[r] : SubSeq(b, 1, Lengths[r])[i] = b[i]
    BY <1>1, <1>5
  <2>4. \A i \in 1 .. Lengths[r] :
           Block(LastPart, HeaderAt(r) + VAL_LENGTH, Lengths[r])[i] = Body(r)[i]
    BY <1>3, FrameBlocks
  <2> QED
    BY <2>2, <2>3, <2>4
<1>7. Len(published[t]) = r - 1
  BY <1>2 DEF Reads
<1>8. Len(published'[t]) = r
  <2>1. published[t] \in Seq(Seq(Cells))
    BY DEF TypeOK
  <2>2. published'[t] = Append(published[t], String(b))
    BY DEF Deserialize, TypeOK
  <2>3. Len(Append(published[t], String(b))) = Len(published[t]) + 1
    BY <2>1
  <2> QED
    BY <1>3, <1>7, <2>2, <2>3, SizeIs
<1>9. AtBody(t, r)'
  BY <1>1, <1>2 DEF Reads, AtBody
<1>10. Told(t)'
  BY <1>1 DEF Told, Busy
<1>11. HasRead(t, r)'
  BY <1>1, <1>5, <1>6, <1>8, <1>9, <1>10 DEF HasRead
<1>12. \/ String(b) = Body(r)
       \/ r + 1 \in Records /\ String(b) = Body(r) \o NextDigit(r)
  BY <1>1, <1>3, <1>4, <1>6, RecordOf
<1> QED
  BY <1>7, <1>11, <1>12 DEF OnFrame

\* From a record the cursor goes to the next header, or past the last record.
LEMMA FrameResume ==
  ASSUME TypeOK, NEW t \in Threads, NEW r \in 1 .. Len(Lengths) + 1,
         OnFrame(t, r), Resume, t = on
  PROVE  \E q \in 1 .. Len(Lengths) + 1 : OnFrame(t, q)'
<1> DEFINE b == buffer[t]
           M == Len(Lengths)
<1>1. /\ b \in Seq(Cells) /\ buffer' = buffer /\ published' = published
      /\ poller = "woken" /\ poller' = "idle"
      /\ read_status'[t] = "READ_POLLING" /\ size'[t] = VAL_LENGTH
      /\ peer_addr'[t] = peer_addr[t] + size[t] - 1
  BY DEF Resume, PostRead, NextAddr, TypeOK, recVars
<1>2. HasRead(t, r)
  BY <1>1 DEF OnFrame, AtHeader, Reads, Told, Busy
<1>3. /\ r \in Records /\ size[t] = CountedLength(r)
      /\ peer_addr[t] = HeaderAt(r) + VAL_LENGTH
      /\ r < M => Len(b) <= CountedLength(r)
      /\ Len(b) >= Lengths[r] /\ Len(published[t]) = r
      /\ \A i \in 1 .. Lengths[r] : b[i] = Body(r)[i]
  BY <1>2 DEF HasRead, AtBody
<1>4. /\ M \in Nat /\ Records = 1 .. M /\ r \in Nat
      /\ Lengths[r] \in Nat /\ CountedLength(r) = Lengths[r] + 1
      /\ VAL_LENGTH \in Nat /\ Len(b) \in Nat
  BY <1>1, <1>3, SizeIs, ParameterAssumption DEF Records, CountedLength
<1>5. PICK q \in 1 .. M + 1 : q = r + 1
  BY <1>3, <1>4
<1>6. peer_addr'[t] = HeaderAt(q)
  <2>1. /\ HeaderAt(r) \in Nat
        /\ HeaderAt(q) = HeaderAt(r) + VAL_LENGTH + Lengths[r]
    BY <1>3, <1>5, FrameInLog
  <2> QED
    BY <1>1, <1>3, <1>4, <2>1
<1>7. ASSUME q \in Records
      PROVE  /\ Len(b) >= VAL_LENGTH
             /\ Len(b) > VAL_LENGTH => b[VAL_LENGTH + 1][1] # "digit"
             /\ q < M => Len(b) <= CountedLength(q)
  <2>1. r < M
    BY <1>4, <1>5, <1>7
  <2>2. Lengths[r] > VAL_LENGTH
    BY <1>3, <2>1, LengthAssumption
  <2>3. VAL_LENGTH + 1 \in 1 .. Lengths[r]
    BY <1>4, <2>2
  <2>4. b[VAL_LENGTH + 1] = Body(r)[VAL_LENGTH + 1]
    BY <1>3, <2>3
  <2>5. Body(r)[VAL_LENGTH + 1][1] # "digit"
    BY <2>3 DEF Body, Sep, Text
  <2>6. ASSUME q < M PROVE Len(b) <= CountedLength(q)
    <3>1. r < q
      BY <1>4, <1>5
    <3>2. Lengths[r] <= Lengths[q] /\ Lengths[q] \in Nat
      BY <1>3, <1>7, <2>6, <3>1, LengthAssumption, SizeIs
    <3> QED
      BY <1>3, <1>4, <2>1, <3>2 DEF CountedLength
  <2> QED
    BY <1>3, <1>4, <2>2, <2>4, <2>5, <2>6
<1>8. ~Told(t)'
  BY <1>1 DEF Told, Busy
<1>9. Len(published'[t]) = q - 1
  BY <1>1, <1>3, <1>4, <1>5
<1>10. AtHeader(t, q)'
  BY <1>1, <1>6, <1>7, <1>8, <1>9 DEF AtHeader
<1> QED
  BY <1>10 DEF OnFrame

LEMMA FrameInit == Init => FrameInv /\ PublishedInOrder
<1> SUFFICES ASSUME Init PROVE FrameInv /\ PublishedInOrder
  OBVIOUS
<1>1. 1 \in 1 .. Len(Lengths) + 1 /\ VAL_LENGTH \in Nat
  BY ParameterAssumption
<1>2. ASSUME NEW t \in Threads PROVE AtHeader(t, 1)
  <2>1. buffer[t] = [i \in 1 .. VAL_LENGTH |-> NUL]
    BY DEF Init
  <2>2. Len(buffer[t]) = VAL_LENGTH
    BY <1>1, <2>1
  <2>3. 1 < Len(Lengths) => VAL_LENGTH <= CountedLength(1)
    <3> SUFFICES ASSUME 1 < Len(Lengths) PROVE VAL_LENGTH <= CountedLength(1)
      OBVIOUS
    <3>1. 1 \in Records
      BY ParameterAssumption DEF Records
    <3>2. Lengths[1] > VAL_LENGTH /\ Lengths[1] \in Nat
      BY <3>1, LengthAssumption, SizeIs
    <3> QED
      BY <1>1, <3>2 DEF CountedLength
  <2>4. ~Told(t) /\ published[t] = <<>>
    BY DEF Init, Told, Busy
  <2> QED
    BY <1>1, <2>2, <2>3, <2>4, Starts DEF Init, AtHeader
<1>3. FrameInv
  BY <1>1, <1>2 DEF FrameInv, OnFrame
<1>4. PublishedInOrder
  BY DEF Init, PublishedInOrder
<1> QED
  BY <1>3, <1>4

LEMMA FrameStep ==
  TypeOK /\ TokenInv /\ FrameInv /\ PublishedInOrder /\ [Next]_vars
     => FrameInv' /\ PublishedInOrder'
<1> SUFFICES ASSUME TypeOK, TokenInv, FrameInv, PublishedInOrder, [Next]_vars, ~torn'
             PROVE  /\ \A t \in Threads :
                          \E r \in 1 .. Len(Lengths) + 1 : OnFrame(t, r)'
                    /\ PublishedInOrder'
  BY DEF FrameInv, PublishedInOrder
<1>1. ~torn
  BY DEF Next, AppStep, PollerStep, Produce, ConsumeRecord, WaitForPolling,
     ReturnRecord, Terminate, Complete, PollCq, PollAgain, LengthFound, Deserialize,
     NoSeparator, SignalConsumer, WaitForConsumer, Resume, SpuriousWakeup, vars
<1>2. \A t \in Threads : \E r \in 1 .. Len(Lengths) + 1 : OnFrame(t, r)
  BY <1>1 DEF FrameInv
<1>3. on \in Threads
  BY DEF TypeOK
<1>4. published' = published => PublishedInOrder'
  BY <1>1 DEF PublishedInOrder
\* A step of the poller at one connection leaves the others where they are.
<1>5. ASSUME /\ on' = on /\ cq' = cq
             /\ \A t \in Threads \ {on} :
                   UNCHANGED <<read_status[t], peer_addr[t], size[t], buffer[t],
                               published[t], pending[t]>>,
             \E q \in 1 .. Len(Lengths) + 1 : OnFrame(on, q)'
      PROVE  \A t \in Threads : \E r \in 1 .. Len(Lengths) + 1 : OnFrame(t, r)'
  <2> TAKE t \in Threads
  <2>1. CASE t = on
    BY <1>5, <2>1
  <2>2. CASE t # on
    <3>1. PICK r \in 1 .. Len(Lengths) + 1 : OnFrame(t, r)
      BY <1>2
    <3>2. /\ ~Busy(t) /\ ~Busy(t)' /\ ~Told(t) /\ ~Told(t)'
          /\ Queued(t)' <=> Queued(t)
      BY <1>5, <2>2 DEF Busy, Told, Queued
    <3>3. OnFrame(t, r)'
      BY <1>5, <2>2, <3>1, <3>2, FrameStays
    <3> QED
      BY <3>3
  <2> QED
    BY <2>1, <2>2
\* A step that does not touch what is known of any connection.
<1>6. ASSUME /\ UNCHANGED <<readVars, buffer, published>>
             /\ \A t \in Threads :
                   /\ Told(t)' <=> Told(t)
                   /\ Queued(t)' \/ Busy(t)' => Queued(t) \/ Busy(t)
                   /\ pending[t]' = "READY" => pending[t] = "READY"
      PROVE  /\ \A t \in Threads : \E r \in 1 .. Len(Lengths) + 1 : OnFrame(t, r)'
             /\ PublishedInOrder'
  <2>1. ASSUME NEW t \in Threads
        PROVE  \E r \in 1 .. Len(Lengths) + 1 : OnFrame(t, r)'
    <3>1. PICK r \in 1 .. Len(Lengths) + 1 : OnFrame(t, r)
      BY <1>2
    <3>2. OnFrame(t, r)'
      BY <1>6, <3>1, FrameStays DEF readVars
    <3> QED
      BY <3>2
  <2> QED
    BY <1>4, <1>6, <2>1
<1>7. CASE \/ Produce \/ NoSeparator \/ SignalConsumer \/ WaitForConsumer
            \/ SpuriousWakeup \/ UNCHANGED vars
  BY <1>6, <1>7 DEF Produce, NoSeparator, SignalConsumer, WaitForConsumer,
     SpuriousWakeup, vars, recVars, Told, Busy, Queued
<1>8. ASSUME NEW t \in Threads, AppStep(t)
      PROVE  /\ \A s \in Threads : \E r \in 1 .. Len(Lengths) + 1 : OnFrame(s, r)'
             /\ PublishedInOrder'
  BY <1>6, <1>8 DEF AppStep, ConsumeRecord, WaitForPolling, ReturnRecord, Terminate,
     recVars, Told, Busy, Queued
<1>9. CASE PollCq
  <2>1. cq \in Seq(Threads) /\ cq # <<>> /\ on' = Head(cq) /\ cq' = Tail(cq)
    BY <1>9 DEF TypeOK, PollCq
  <2>2. Queued(on') /\ \A s \in Threads : Queued(s)' => Queued(s)
    BY <2>1, Dequeued DEF TokenInv, Queued
  <2>3. \A s \in Threads : /\ Busy(s)' <=> s = on'
                           /\ ~Told(s) /\ ~Told(s)'
    BY <1>9 DEF PollCq, Busy, Told
  <2>4. \A s \in Threads : Queued(s)' \/ Busy(s)' => Queued(s) \/ Busy(s)
    BY <2>2, <2>3
  <2>5. UNCHANGED <<readVars, buffer, published, pending>>
    BY <1>9 DEF PollCq, recVars
  <2> QED
    BY <1>6, <2>3, <2>4, <2>5
<1>10. ASSUME NEW t \in Threads, Complete(t)
       PROVE  /\ \A s \in Threads : \E r \in 1 .. Len(Lengths) + 1 : OnFrame(s, r)'
              /\ PublishedInOrder'
  <2>1. cq \in Seq(Threads) /\ cq' = Append(cq, t) /\ ~Queued(t)
    BY <1>10 DEF TypeOK, Complete, TokenInv
  <2>2. \A s \in Threads : Queued(s)' <=> Queued(s) \/ s = t
    BY <2>1, Enqueued DEF TokenInv, Queued
  <2>3. ASSUME NEW s \in Threads
        PROVE  \E r \in 1 .. Len(Lengths) + 1 : OnFrame(s, r)'
    <3>1. PICK r \in 1 .. Len(Lengths) + 1 : OnFrame(s, r)
      BY <1>2
    <3>2. CASE s = t
      BY <1>10, <3>1, <3>2, FrameComplete
    <3>3. CASE s # t
      <4>1. UNCHANGED <<read_status[s], peer_addr[s], size[s], buffer[s],
                        published[s], pending[s]>>
        BY <1>10, <3>3 DEF Complete, TypeOK, readVars, recVars
      <4>2. (Told(s)' <=> Told(s)) /\ (Busy(s)' <=> Busy(s))
        BY <1>10 DEF Complete, Told, Busy
      <4>3. OnFrame(s, r)'
        BY <2>2, <3>1, <3>3, <4>1, <4>2, FrameStays
      <4> QED
        BY <4>3
    <3> QED
      BY <3>2, <3>3
  <2>4. published' = published
    BY <1>10 DEF Complete, recVars
  <2> QED
    BY <1>4, <2>3, <2>4
<1>11. PICK r \in 1 .. Len(Lengths) + 1 : OnFrame(on, r)
  BY <1>2, <1>3
<1>12. CASE PollAgain
  <2>1. /\ UNCHANGED <<readVars, buffer, published, on, cq>>
        /\ poller = "completion" /\ poller' = "idle"
        /\ pending' = [pending EXCEPT ![on] = "read"]
        /\ pending \in [Threads -> {"none", "READY", "read"}]
    BY <1>12 DEF PollAgain, PostRead, recVars, TypeOK
  <2>2. \A t \in Threads : /\ ~Told(t) /\ ~Told(t)' /\ ~Busy(t)'
                           /\ Queued(t)' <=> Queued(t)
                           /\ pending[t]' = "READY" => pending[t] = "READY"
    BY <1>3, <2>1 DEF Told, Busy, Queued
  <2> QED
    BY <1>6, <2>1, <2>2
<1>13. CASE LengthFound
  <2>1. PICK t \in Threads : t = on
    BY <1>3
  <2>2. OnFrame(t, r)'
    BY <1>11, <1>13, <2>1, FrameLength
  <2>3. /\ on' = on /\ cq' = cq /\ published' = published
        /\ \A s \in Threads \ {on} :
              UNCHANGED <<read_status[s], peer_addr[s], size[s], buffer[s],
                          published[s], pending[s]>>
    BY <1>13 DEF LengthFound, PostRead, recVars, TypeOK
  <2>4. OnFrame(on, r)'
    BY <2>1, <2>2, <2>3 DEF OnFrame, AtHeader, Reads, HasRead, AtBody, Told, Busy,
       Queued
  <2> QED
    BY <1>4, <1>5, <2>3, <2>4
<1>14. CASE Resume
  <2>1. PICK t \in Threads : t = on
    BY <1>3
  <2>2. PICK q \in 1 .. Len(Lengths) + 1 : OnFrame(t, q)'
    BY <1>11, <1>14, <2>1, FrameResume
  <2>3. /\ on' = on /\ cq' = cq /\ published' = published
        /\ \A s \in Threads \ {on} :
              UNCHANGED <<read_status[s], peer_addr[s], size[s], buffer[s],
                          published[s], pending[s]>>
    BY <1>14 DEF Resume, PostRead, recVars, TypeOK
  <2>4. OnFrame(on, q)'
    BY <2>1, <2>2, <2>3 DEF OnFrame, AtHeader, Reads, HasRead, AtBody, Told, Busy,
       Queued
  <2> QED
    BY <1>4, <1>5, <2>3, <2>4
<1>15. CASE Deserialize
  <2> DEFINE s == String(buffer[on])
             Right(x, i) == \/ x = Body(i)
                            \/ i + 1 \in Records /\ x = Body(i) \o NextDigit(i)
  <2>1. PICK t \in Threads : t = on
    BY <1>3
  <2>2. /\ OnFrame(t, r)' /\ Len(published[t]) = r - 1 /\ Right(s, r)
    BY <1>11, <1>15, <2>1, FrameRecord
  <2>3. /\ on' = on /\ cq' = cq
        /\ published' = [published EXCEPT ![on] = Append(@, s)]
        /\ published \in [Threads -> Seq(Seq(Cells))]
        /\ UNCHANGED <<readVars, buffer, pending>>
    BY <1>15 DEF Deserialize, TypeOK
  <2>4. OnFrame(on, r)'
    BY <2>1, <2>2, <2>3 DEF OnFrame, AtHeader, Reads, HasRead, AtBody, Told, Busy,
       Queued
  <2> HIDE DEF s
  <2>5. \A c \in Threads \ {on} :
           UNCHANGED <<read_status[c], peer_addr[c], size[c], buffer[c],
                       published[c], pending[c]>>
    BY <2>3 DEF readVars
  <2>6. \A c \in Threads : \A i \in DOMAIN published[c] : Right(published[c][i], i)
    BY <1>1 DEF PublishedInOrder
  <2>7. ASSUME NEW c \in Threads, NEW i \in DOMAIN published'[c]
        PROVE  Right(published'[c][i], i)
    <3>1. CASE c # on
      <4>1. published'[c] = published[c]
        BY <2>3, <3>1
      <4> QED
        BY <2>6, <2>7, <4>1
    <3>2. CASE c = on
      <4> DEFINE p == published[on]
      <4>1. published'[c] = Append(p, s) /\ p \in Seq(Seq(Cells)) /\ Len(p) = r - 1
        BY <1>3, <2>1, <2>2, <2>3, <3>2
      <4> HIDE DEF p
      <4>2. /\ DOMAIN Append(p, s) = 1 .. Len(p) + 1 /\ DOMAIN p = 1 .. Len(p)
            /\ Append(p, s)[Len(p) + 1] = s /\ Len(p) \in Nat
            /\ \A k \in 1 .. Len(p) : Append(p, s)[k] = p[k]
        BY <4>1
      <4>3. Len(p) + 1 = r
        BY <4>1
      <4>4. i = r \/ i \in 1 .. Len(p)
        BY <2>7, <4>1, <4>2, <4>3
      <4>5. \A k \in DOMAIN p : Right(p[k], k)
        BY <1>3, <2>6 DEF p
      <4> HIDE DEF Right
      <4> QED
        BY <2>2, <4>1, <4>2, <4>3, <4>4, <4>5
    <3> QED
      BY <3>1, <3>2
  <2>8. PublishedInOrder'
    BY <2>7 DEF PublishedInOrder
  <2>9. \A c \in Threads : \E q \in 1 .. Len(Lengths) + 1 : OnFrame(c, q)'
    BY <1>5, <2>3, <2>4, <2>5
  <2> QED
    BY <2>8, <2>9
<1> QED
  BY <1>7, <1>8, <1>9, <1>10, <1>12, <1>13, <1>14, <1>15 DEF Next, PollerStep

\* As long as no read was torn, each connection is at a header or at a record of the
\* buffer, knows what it is at, and has published what is before it.
THEOREM Frames == Spec => [](FrameInv /\ PublishedInOrder)
  BY Completions, FrameInit, FrameStep, PTL DEF Spec

\* The cursor goes from frame to frame over lengths that count a terminator that the
\* buffer does not keep, for each connection, until a read is torn.
THEOREM CursorIsOnFrame == Spec => []CursorOnFrame
<1>1. FrameInv => CursorOnFrame
  <2> SUFFICES ASSUME FrameInv, ~torn, NEW t \in Threads
               PROVE  IF read_status[t] = "READ_POLLING"
                      THEN \/ peer_addr[t] = Len(Log[Len(Lengths)])
                           \/ \E r \in Records : peer_addr[t] = HeaderAt(r)
                      ELSE \E r \in Records :
                              /\ peer_addr[t] = HeaderAt(r) + VAL_LENGTH
                              /\ size[t] = CountedLength(r)
    BY DEF CursorOnFrame
  <2>1. PICK r \in 1 .. Len(Lengths) + 1 : OnFrame(t, r)
    BY DEF FrameInv
  <2>2. r \in Records \/ HeaderAt(r) = Len(Log[Len(Lengths)])
    <3>1. r \in 1 .. Len(Lengths) \/ r = Len(Lengths) + 1
      BY ParameterAssumption
    <3>2. Records = 1 .. Len(Lengths)
      BY ParameterAssumption DEF Records
    <3>3. HeaderAt(Len(Lengths) + 1) = Len(Log[Len(Lengths)])
      BY Starts DEF FullLog
    <3> QED
      BY <3>1, <3>2, <3>3
  <2> QED
    BY <2>1, <2>2 DEF OnFrame, AtHeader, Reads, HasRead, AtBody
<1> QED
  BY <1>1, Frames, PTL

\* Each connection publishes the records from the first on, in order, none left out
\* and none twice, each as it was written or with the first digit of the next header,
\* until a read is torn.
THEOREM RecordsArePublishedInOrder == Spec => []PublishedInOrder
  BY Frames, PTL

=============================================================================
