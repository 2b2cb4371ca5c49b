-------------------------- MODULE ConsumerClientProofs --------------------------
(* Theorems about ConsumerClient, for every log and every number of calls: its *)
(* types, the cursor over the frames, the rendezvous of consumeRecord and the  *)
(* poller, and the records that are returned.                                  *)
EXTENDS ConsumerClient, FiniteSetTheorems, TLAPS

-----------------------------------------------------------------------------
(* Induction and recursion over the natural numbers. *)

\* A set of natural numbers that is not empty has a least element.
LEMMA LeastNat ==
  ASSUME NEW S \in SUBSET Nat, S # {}
  PROVE  \E n \in S : \A m \in S : n <= m
<1> DEFINE T == {1 .. n : n \in S}
           R == StrictSubsetOrdering(Nat)
<1>1. T \subseteq FiniteSubsetsOf(Nat) /\ T # {}
  <2>1. \A n \in S : IsFiniteSet(1 .. n) /\ 1 .. n \in SUBSET Nat
    BY FS_Interval
  <2> QED
    BY <2>1 DEF FiniteSubsetsOf
<1>2. PICK X \in T : \A Y \in T : ~ (<<Y, X>> \in R)
  <2>1. IsWellFoundedOn(R, FiniteSubsetsOf(Nat))
    BY FS_StrictSubsetOrderingWellFounded
  <2> HIDE DEF T, R
  <2> QED
    BY <1>1, <2>1, WFMin
<1>3. PICK n \in S : X = 1 .. n
  OBVIOUS
<1>4. ASSUME NEW m \in S, m < n PROVE FALSE
  <2>1. 1 .. m \in T /\ 1 .. m \in SUBSET Nat /\ X \in SUBSET Nat
    BY <1>3
  <2>2. 1 .. m \subseteq X /\ 1 .. m # X
    BY <1>3, <1>4
  <2>3. <<1 .. m, X>> \in R
    BY <2>1, <2>2 DEF StrictSubsetOrdering
  <2> QED
    BY <1>2, <2>1, <2>3
<1> QED
  BY <1>4

\* A set of natural numbers that has 0 and with each number the next is all of
\* them.
LEMMA Induction ==
  ASSUME NEW S \in SUBSET Nat, 0 \in S, \A n \in S : n + 1 \in S
  PROVE  S = Nat
<1> SUFFICES ASSUME Nat \ S # {} PROVE FALSE
  OBVIOUS
<1>1. PICK x \in Nat \ S : \A y \in Nat \ S : x <= y
  BY LeastNat
<1>2. x # 0 /\ x - 1 \in Nat /\ x - 1 \notin Nat \ S
  BY <1>1
<1> QED
  BY <1>2

\* A function on the natural numbers, its first value, and the next of each value.
StepOn(V, step) == step \in [Nat -> [V -> V]]
Follows(g, V, b, step) ==
    /\ g \in [Nat -> V]
    /\ g[0] = b /\ \A n \in Nat : g[n + 1] = step[n][g[n]]

\* A first value and a step, which may depend on how far one is, define a function.
LEMMA Recursion ==
  ASSUME NEW V, NEW b \in V, NEW step, StepOn(V, step)
  PROVE  \E g : Follows(g, V, b, step)
<1> USE DEF StepOn
<1> DEFINE Upto(h, m) == /\ h \in [0 .. m -> V] /\ h[0] = b
                         /\ \A i \in 0 .. m - 1 : h[i + 1] = step[i][h[i]]
           D == {m \in Nat : \E h : Upto(h, m)}
<1>1. D = Nat
  <2>1. 0 \in D
    <3>1. Upto([i \in 0 .. 0 |-> b], 0) /\ 0 \in Nat
      OBVIOUS
    <3> HIDE DEF Upto
    <3> QED
      BY <3>1
  <2>2. ASSUME NEW m \in D PROVE m + 1 \in D
    <3>1. PICK h : Upto(h, m)
      OBVIOUS
    <3> DEFINE k == [i \in 0 .. m + 1 |->
                        IF i = m + 1 THEN step[m][h[m]] ELSE h[i]]
    <3>2. m \in Nat /\ m + 1 \in Nat /\ h[m] \in V /\ step[m][h[m]] \in V
      BY <3>1
    <3>3. Upto(k, m + 1)
      BY <3>1, <3>2
    <3> HIDE DEF k, Upto
    <3> QED
      BY <3>2, <3>3
  <2> HIDE DEF D
  <2>3. D \subseteq Nat
    BY DEF D
  <2> QED
    BY <2>1, <2>2, <2>3, Induction
<1> DEFINE a == [m \in Nat |-> CHOOSE h : Upto(h, m)]
           g == [m \in Nat |-> a[m][m]]
<1>2. \A m \in Nat : Upto(a[m], m)
  <2>1. \A m \in Nat : \E h : Upto(h, m)
    BY <1>1
  <2> HIDE DEF Upto
  <2> QED
    BY <2>1
<1> HIDE DEF a
<1>3. ASSUME NEW m \in Nat PROVE a[m + 1][m] = a[m][m]
  <2> DEFINE E == {i \in Nat : i <= m => a[m + 1][i] = a[m][i]}
             h == a[m]
             k == a[m + 1]
  <2>1. Upto(h, m) /\ Upto(k, m + 1)
    BY <1>2
  <2> HIDE DEF h, k
  <2>2. 0 \in E
    BY <2>1 DEF h, k
  <2>3. ASSUME NEW i \in E PROVE i + 1 \in E
    <3> SUFFICES ASSUME i + 1 <= m PROVE k[i + 1] = h[i + 1]
      BY DEF h, k
    <3>1. i \in 0 .. m - 1 /\ i \in 0 .. (m + 1) - 1 /\ k[i] = h[i]
      BY DEF h, k
    <3> QED
      BY <2>1, <3>1
  <2>4. E = Nat
    <3> HIDE DEF E
    <3>1. E \subseteq Nat
      BY DEF E
    <3> QED
      BY <2>2, <2>3, <3>1, Induction
  <2>5. m \in E
    BY <2>4
  <2> QED
    BY <2>5
<1>4. g \in [Nat -> V] /\ g[0] = b
  <2>1. \A m \in Nat : a[m][m] \in V
    BY <1>2
  <2>2. Upto(a[0], 0)
    BY <1>2
  <2> QED
    BY <2>1, <2>2
<1>5. ASSUME NEW n \in Nat PROVE g[n + 1] = step[n][g[n]]
  <2>1. n + 1 \in Nat /\ n \in 0 .. (n + 1) - 1
    OBVIOUS
  <2>2. a[n + 1][n + 1] = step[n][a[n + 1][n]]
    BY <1>2, <2>1
  <2> QED
    BY <1>3, <2>1, <2>2
<1>6. Follows(g, V, b, step)
  <2> HIDE DEF g
  <2> QED
    BY <1>4, <1>5 DEF Follows
<1> QED
  BY <1>6

-----------------------------------------------------------------------------
(* Numbers in digits. *)

\* The recursion of Place, and that no place is worth nothing.
LEMMA PlaceIs ==
  /\ Place \in [Nat -> Nat \ {0}]
  /\ Place[0] = 1
  /\ \A k \in Nat : Place[k + 1] = Base * Place[k]
<1> DEFINE V == Nat \ {0}
           first == 1
           step == [n \in Nat |-> [v \in V |-> Base * v]]
<1>1. StepOn(V, step) /\ first \in V
  <2>1. \A a, b \in Nat \ {0} : a * b \in Nat \ {0}
    BY SMT
  <2>2. Base \in Nat \ {0}
    BY ParameterAssumption
  <2> QED
    BY <2>1, <2>2 DEF StepOn
<1>2. PICK g : Follows(g, V, first, step)
  <2> HIDE DEF V, step, first
  <2> QED
    BY <1>1, Recursion
<1>3. g = [k \in Nat |-> IF k = 0 THEN 1 ELSE Base * g[k - 1]]
  <2>1. ASSUME NEW k \in Nat \ {0} PROVE g[k] = Base * g[k - 1]
    <3>1. k - 1 \in Nat /\ (k - 1) + 1 = k
      OBVIOUS
    <3>2. g[k - 1 + 1] = step[k - 1][g[k - 1]] /\ g[k - 1] \in V
      BY <1>2, <3>1 DEF Follows
    <3> QED
      BY <3>1, <3>2
  <2> QED
    BY <1>2, <2>1 DEF Follows
<1> DEFINE Q(h) == h = [k \in Nat |-> IF k = 0 THEN 1 ELSE Base * h[k - 1]]
<1>4. Q(Place)
  <2>1. Q(g)
    BY <1>3
  <2>2. Place = CHOOSE h : Q(h)
    BY DEF Place
  <2> HIDE DEF Q
  <2> QED
    BY <2>1, <2>2
<1>5. Place[0] = 1 /\ \A k \in Nat : Place[k + 1] = Base * Place[k]
  BY <1>4
<1>6. Place \in [Nat -> V]
  <2> DEFINE E == {k \in Nat : Place[k] \in V}
  <2>1. 0 \in E
    BY <1>5
  <2>2. ASSUME NEW k \in E PROVE k + 1 \in E
    <3>1. \A a, b \in Nat \ {0} : a * b \in Nat \ {0}
      BY SMT
    <3>2. Base * Place[k] \in Nat \ {0}
      BY <3>1, ParameterAssumption
    <3> QED
      BY <1>5, <3>2
  <2>3. E = Nat
    <3> HIDE DEF E
    <3>1. E \subseteq Nat
      BY DEF E
    <3> QED
      BY <2>1, <2>2, <3>1, Induction
  <2> QED
    BY <1>4, <2>3
<1> QED
  BY <1>5, <1>6

\* Places do not get less, and the place before the last k digits is above k.
LEMMA PlaceGrows ==
  /\ \A k, m \in Nat : k <= m => Place[k] <= Place[m]
  /\ \A k \in Nat : k < Place[k]
<1>1. ASSUME NEW k \in Nat PROVE Place[k] + 1 <= Place[k + 1]
  <2>1. \A a, b \in Nat : a >= 2 /\ b >= 1 => b + 1 <= a * b
    BY SMT
  <2>2. Place[k] \in Nat \ {0} /\ Place[k + 1] = Base * Place[k]
    BY PlaceIs
  <2>3. Base \in Nat /\ Base >= 2
    BY ParameterAssumption
  <2>4. Place[k] + 1 <= Base * Place[k]
    BY <2>1, <2>2, <2>3
  <2> QED
    BY <2>2, <2>4
<1>2. ASSUME NEW k \in Nat, NEW m \in Nat, k <= m PROVE Place[k] <= Place[m]
  <2> DEFINE E == {d \in Nat : Place[k] <= Place[k + d]}
  <2>1. 0 \in E
    BY PlaceIs
  <2>2. ASSUME NEW d \in E PROVE d + 1 \in E
    <3>1. /\ k + d \in Nat /\ k + (d + 1) = (k + d) + 1
          /\ k + (d + 1) \in Nat
      OBVIOUS
    <3>2. Place[k + d] <= Place[(k + d) + 1]
      BY <1>1, <3>1, PlaceIs
    <3> QED
      BY <3>1, <3>2, PlaceIs
  <2>3. E = Nat
    <3> HIDE DEF E
    <3>1. E \subseteq Nat
      BY DEF E
    <3> QED
      BY <2>1, <2>2, <3>1, Induction
  <2>4. m - k \in Nat /\ k + (m - k) = m
    BY <1>2
  <2> QED
    BY <2>3, <2>4
<1>3. ASSUME NEW k \in Nat PROVE k < Place[k]
  <2> DEFINE E == {d \in Nat : d < Place[d]}
  <2>1. 0 \in E
    BY PlaceIs
  <2>2. ASSUME NEW d \in E PROVE d + 1 \in E
    BY <1>1, PlaceIs
  <2>3. E = Nat
    <3> HIDE DEF E
    <3>1. E \subseteq Nat
      BY DEF E
    <3> QED
      BY <2>1, <2>2, <3>1, Induction
  <2> QED
    BY <2>3
<1> QED
  BY <1>2, <1>3

\* A header has as many digits as its number needs, and is no longer than
\* VAL_LENGTH if they suffice.
LEMMA WidthOf ==
  ASSUME NEW n \in Nat
  PROVE  /\ HeaderWidth(n) \in Nat /\ HeaderWidth(n) >= VAL_LENGTH
         /\ n < Place[HeaderWidth(n)]
         /\ n < Place[VAL_LENGTH] => HeaderWidth(n) = VAL_LENGTH
<1> DEFINE K == VAL_LENGTH .. VAL_LENGTH + n
           Q(k) == n < Place[k] /\ (k = VAL_LENGTH \/ n >= Place[k - 1])
<1>1. \E k \in K : Q(k)
  <2> DEFINE S == {k \in K : n < Place[k]}
  <2>1. S # {} /\ S \in SUBSET Nat
    <3>1. VAL_LENGTH + n \in Nat /\ VAL_LENGTH \in Nat
      BY ParameterAssumption
    <3>2. VAL_LENGTH + n < Place[VAL_LENGTH + n]
      BY <3>1, PlaceGrows
    <3>3. Place[VAL_LENGTH + n] \in Nat
      BY <3>1, PlaceIs
    <3> QED
      BY <3>1, <3>2, <3>3
  <2>2. PICK k \in S : \A m \in S : k <= m
    <3> HIDE DEF S
    <3> QED
      BY <2>1, LeastNat
  <2>3. ASSUME k # VAL_LENGTH PROVE n >= Place[k - 1]
    <3>1. k - 1 \in K /\ k - 1 \notin S /\ k - 1 \in Nat
      BY <2>2, <2>3, ParameterAssumption
    <3> QED
      BY <3>1, PlaceIs
  <2> QED
    BY <2>2, <2>3
<1> DEFINE w == CHOOSE k \in K : Q(k)
<1>2. w \in K /\ Q(w)
  <2> HIDE DEF K, Q
  <2> QED
    BY <1>1
<1>3. HeaderWidth(n) = w
  BY DEF HeaderWidth
<1> HIDE DEF w
<1>4. w \in Nat /\ w >= VAL_LENGTH /\ n < Place[w]
  BY <1>2, ParameterAssumption
<1>5. ASSUME n < Place[VAL_LENGTH], w # VAL_LENGTH PROVE FALSE
  <2>1. n >= Place[w - 1] /\ w - 1 \in Nat /\ VAL_LENGTH <= w - 1
    BY <1>2, <1>4, <1>5, ParameterAssumption
  <2>2. Place[VAL_LENGTH] <= Place[w - 1]
    BY <2>1, PlaceGrows, ParameterAssumption
  <2>3. Place[VAL_LENGTH] \in Nat /\ Place[w - 1] \in Nat
    BY <2>1, PlaceIs, ParameterAssumption
  <2> QED
    BY <1>5, <2>1, <2>2, <2>3
<1> QED
  BY <1>3, <1>4, <1>5

\* The least of some numbers is one of them and not above any.
LEMMA MinIs ==
  ASSUME NEW S \in SUBSET Nat, S # {}
  PROVE  Min(S) \in S /\ \A m \in S : Min(S) <= m
<1>1. \E n \in S : \A m \in S : n <= m
  BY LeastNat
<1> QED
  BY <1>1 DEF Min

-----------------------------------------------------------------------------
(* Strings and numbers in a block of cells. *)

\* A string is the cells before the first NUL.
LEMMA StringOf ==
  ASSUME NEW cells \in Seq(Cells)
  PROVE  \E n \in 0 .. Len(cells) :
            /\ String(cells) = SubSeq(cells, 1, n)
            /\ \A i \in 1 .. n : cells[i] # NUL
            /\ n < Len(cells) => cells[n + 1] = NUL
<1> DEFINE S == {i \in 1 .. Len(cells) : cells[i] = NUL} \cup {Len(cells) + 1}
           m == Min(S)
<1>1. S \in SUBSET Nat /\ S # {} /\ S \subseteq 1 .. Len(cells) + 1
  OBVIOUS
<1>2. m \in S /\ \A i \in S : m <= i
  <2> HIDE DEF S
  <2> QED
    BY <1>1, MinIs
<1>3. String(cells) = SubSeq(cells, 1, m - 1)
  BY DEF String
<1> HIDE DEF m
<1>4. /\ m - 1 \in 0 .. Len(cells)
      /\ \A i \in 1 .. m - 1 : cells[i] # NUL
      /\ m - 1 < Len(cells) => cells[(m - 1) + 1] = NUL
  BY <1>1, <1>2
<1> QED
  BY <1>3, <1>4

\* It has no NUL, and is the whole block if that has none.
LEMMA StringType ==
  ASSUME NEW cells \in Seq(Cells)
  PROVE  /\ String(cells) \in Seq(Cells \ {NUL})
         /\ (\A i \in DOMAIN cells : cells[i] # NUL) => String(cells) = cells
<1>1. PICK n \in 0 .. Len(cells) :
            /\ String(cells) = SubSeq(cells, 1, n)
            /\ \A i \in 1 .. n : cells[i] # NUL
            /\ n < Len(cells) => cells[n + 1] = NUL
  BY StringOf
<1>2. SubSeq(cells, 1, n) \in Seq(Cells \ {NUL})
  BY <1>1
<1>3. ASSUME \A i \in DOMAIN cells : cells[i] # NUL
      PROVE  SubSeq(cells, 1, n) = cells
  <2>1. n = Len(cells)
    BY <1>1, <1>3
  <2> QED
    BY <2>1
<1> QED
  BY <1>1, <1>2, <1>3

\* The digits that a string starts with, and the number they make.
LEMMA AtoiOf ==
  ASSUME NEW cells \in Seq(Cells)
  PROVE  \E n \in 0 .. Len(String(cells)) : \E g \in [0 .. n -> Nat] :
            /\ \A i \in 1 .. n : String(cells)[i][1] = "digit"
            /\ n < Len(String(cells)) => String(cells)[n + 1][1] # "digit"
            /\ g[0] = 0
            /\ \A k \in 0 .. n - 1 :
                  g[k + 1] = Base * g[k] + String(cells)[k + 1][2]
            /\ Atoi(cells) = g[n]
<1> DEFINE s == String(cells)
           S == {i \in 1 .. Len(s) : s[i][1] # "digit"} \cup {Len(s) + 1}
           n == Min(S) - 1
<1>1. s \in Seq(Cells)
  <2>1. s \in Seq(Cells \ {NUL})
    BY StringType
  <2> HIDE DEF s
  <2> QED
    BY <2>1
<1>2. /\ n \in 0 .. Len(s)
      /\ \A i \in 1 .. n : s[i][1] = "digit"
      /\ n < Len(s) => s[n + 1][1] # "digit"
  <2> HIDE DEF s
  <2> DEFINE m == Min(S)
  <2>1. S \in SUBSET Nat /\ S # {} /\ S \subseteq 1 .. Len(s) + 1
    BY <1>1
  <2>2. m \in S /\ \A i \in S : m <= i
    <3> HIDE DEF S
    <3> QED
      BY <2>1, MinIs
  <2>3. n = m - 1
    OBVIOUS
  <2> HIDE DEF m, n
  <2> QED
    BY <1>1, <2>1, <2>2, <2>3
<1> DEFINE Q(h) == h = [k \in 0 .. n |->
                          IF k = 0 THEN 0 ELSE Base * h[k - 1] + s[k][2]]
           value == CHOOSE h : Q(h)
<1>3. Atoi(cells) = value[n]
  BY DEF Atoi
<1> HIDE DEF n, s
<1>4. \E h \in [0 .. n -> Nat] : Q(h)
  <2> DEFINE zero == 0
             digit == [k \in Nat |-> IF k < n THEN s[k + 1][2] ELSE 0]
             step == [k \in Nat |-> [v \in Nat |-> Base * v + digit[k]]]
  <2>1. \A k \in 1 .. n : s[k][2] \in Nat
    BY <1>1, <1>2 DEF Cells
  <2>2. StepOn(Nat, step) /\ zero \in Nat
    <3>1. digit \in [Nat -> Nat]
      BY <1>2, <2>1
    <3>2. Base \in Nat
      BY ParameterAssumption
    <3>3. \A v, d \in Nat : Base * v + d \in Nat
      BY <3>2
    <3> HIDE DEF digit
    <3> QED
      BY <3>1, <3>3 DEF StepOn
  <2>3. PICK g : Follows(g, Nat, zero, step)
    <3> HIDE DEF zero, step
    <3> QED
      BY <2>2, Recursion
  <2> DEFINE h == [k \in 0 .. n |-> g[k]]
  <2>4. h \in [0 .. n -> Nat]
    <3>1. \A k \in 0 .. n : g[k] \in Nat
      <4>1. \A k \in 0 .. n : k \in Nat
        BY <1>2
      <4> QED
        BY <2>3, <4>1 DEF Follows
    <3> HIDE DEF zero, step
    <3> QED
      BY <3>1
  <2>5. ASSUME NEW k \in 1 .. n PROVE h[k] = Base * h[k - 1] + s[k][2]
    <3>1. k - 1 \in Nat /\ k - 1 \in 0 .. n /\ k \in 0 .. n /\ k - 1 < n
      BY <1>2
    <3>2. g[k - 1] \in Nat /\ g[(k - 1) + 1] = step[k - 1][g[k - 1]]
      BY <2>3, <3>1 DEF Follows
    <3>3. step[k - 1][g[k - 1]] = Base * g[k - 1] + s[k][2]
      BY <3>1, <3>2
    <3> QED
      BY <3>1, <3>2, <3>3
  <2>6. h[0] = 0
    BY <1>2, <2>3 DEF Follows
  <2>7. Q(h)
    <3>1. h = [k \in 0 .. n |-> h[k]]
      OBVIOUS
    <3>2. ASSUME NEW k \in 0 .. n
          PROVE  h[k] = IF k = 0 THEN 0 ELSE Base * h[k - 1] + s[k][2]
      <4>1. CASE k = 0
        BY <2>6, <4>1
      <4>2. CASE k # 0
        <5>1. k \in 1 .. n
          BY <1>2, <4>2
        <5> HIDE DEF h
        <5> QED
          BY <2>5, <4>2, <5>1
      <4> QED
        BY <4>1, <4>2
    <3> HIDE DEF h
    <3> QED
      BY <3>1, <3>2
  <2> HIDE DEF h, Q
  <2> QED
    BY <2>4, <2>7
<1>5. Q(value)
  <2> HIDE DEF Q
  <2> QED
    BY <1>4
<1> HIDE DEF value
<1>6. value[0] = 0
  BY <1>2, <1>5
<1>7. ASSUME NEW k \in 0 .. n - 1
      PROVE  value[k + 1] = Base * value[k] + s[k + 1][2]
  BY <1>2, <1>5, <1>7
<1>8. value \in [0 .. n -> Nat]
  <2> DEFINE E == {k \in Nat : k <= n => value[k] \in Nat}
  <2>1. 0 \in E
    BY <1>6
  <2>2. ASSUME NEW k \in E PROVE k + 1 \in E
    <3> SUFFICES ASSUME k + 1 <= n PROVE value[k + 1] \in Nat
      OBVIOUS
    <3>1. value[k] \in Nat /\ k \in 0 .. n - 1 /\ k + 1 \in 1 .. n
      BY <1>2
    <3>2. s[k + 1][2] \in Nat
      BY <1>1, <1>2, <3>1 DEF Cells
    <3>3. Base * value[k] \in Nat
      BY <3>1, ParameterAssumption
    <3> QED
      BY <1>7, <3>1, <3>2, <3>3
  <2>3. E = Nat
    <3> HIDE DEF E
    <3>1. E \subseteq Nat
      BY DEF E
    <3> QED
      BY <2>1, <2>2, <3>1, Induction
  <2>4. \A k \in 0 .. n : value[k] \in Nat
    BY <1>2, <2>3
  <2> QED
    BY <1>5, <2>4
<1> HIDE DEF Q
<1> QED
  BY <1>2, <1>3, <1>6, <1>7, <1>8 DEF s

\* The number a string of digits makes: the last of the values of its beginnings.
LEMMA AtoiDigits ==
  ASSUME NEW cells \in Seq(Cells), \A i \in DOMAIN cells : cells[i][1] = "digit"
  PROVE  \E g \in [0 .. Len(cells) -> Nat] :
            /\ g[0] = 0
            /\ \A k \in 0 .. Len(cells) - 1 :
                  g[k + 1] = Base * g[k] + cells[k + 1][2]
            /\ Atoi(cells) = g[Len(cells)]
<1>1. String(cells) = cells
  <2>1. \A i \in DOMAIN cells : cells[i] # NUL
    BY DEF NUL
  <2> QED
    BY <2>1, StringType
<1>2. PICK n \in 0 .. Len(cells) : \E g \in [0 .. n -> Nat] :
            /\ \A i \in 1 .. n : cells[i][1] = "digit"
            /\ n < Len(cells) => cells[n + 1][1] # "digit"
            /\ g[0] = 0
            /\ \A k \in 0 .. n - 1 : g[k + 1] = Base * g[k] + cells[k + 1][2]
            /\ Atoi(cells) = g[n]
  <2>1. \E n \in 0 .. Len(String(cells)) : \E g \in [0 .. n -> Nat] :
            /\ \A i \in 1 .. n : String(cells)[i][1] = "digit"
            /\ n < Len(String(cells)) => String(cells)[n + 1][1] # "digit"
            /\ g[0] = 0
            /\ \A k \in 0 .. n - 1 :
                  g[k + 1] = Base * g[k] + String(cells)[k + 1][2]
            /\ Atoi(cells) = g[n]
    BY AtoiOf
  <2> QED
    BY <1>1, <2>1
<1>3. n = Len(cells)
  <2>1. n + 1 \in 1 .. Len(cells) \/ n = Len(cells)
    OBVIOUS
  <2> QED
    BY <1>2, <2>1
<1> QED
  BY <1>2, <1>3

\* Division in two steps, by the last digits first.
LEMMA DivTwice ==
  ASSUME NEW n \in Nat, NEW a \in Nat \ {0}, NEW b \in Nat \ {0}
  PROVE  n \div (b * a) = (n \div a) \div b
  BY SMT

\* The digits of a header are digits.
LEMMA HeaderType ==
  ASSUME NEW n \in Nat
  PROVE  /\ Header(n) \in Seq(Cells) /\ Len(Header(n)) = HeaderWidth(n)
         /\ \A i \in DOMAIN Header(n) :
               /\ Header(n)[i][1] = "digit"
               /\ Header(n)[i][2] =
                     (n \div Place[HeaderWidth(n) - i]) % Base
<1> DEFINE w == HeaderWidth(n)
           d(i) == (n \div Place[w - i]) % Base
<1>1. w \in Nat
  BY WidthOf
<1>2. ASSUME NEW i \in 1 .. w PROVE d(i) \in Nat
  <2>1. w - i \in Nat
    BY <1>1
  <2>2. Place[w - i] \in Nat \ {0}
    BY <2>1, PlaceIs
  <2>3. n \div Place[w - i] \in Nat
    BY <2>2
  <2> QED
    BY <2>3, ParameterAssumption
<1>3. Header(n) = [i \in 1 .. w |-> <<"digit", d(i)>>]
  BY DEF Header, Digit
<1> HIDE DEF w, d
<1>4. [i \in 1 .. w |-> <<"digit", d(i)>>] \in Seq(Cells)
  BY <1>1, <1>2 DEF Cells
<1>5. \A i \in 1 .. w : Header(n)[i][1] = "digit" /\ Header(n)[i][2] = d(i)
  BY <1>3
<1>6. Len(Header(n)) = w /\ DOMAIN Header(n) = 1 .. w
  BY <1>1, <1>3
<1> QED
  BY <1>3, <1>4, <1>5, <1>6 DEF w, d

\* What a header that is read as a whole is parsed to: the number it was made of.
LEMMA AtoiOfHeader ==
  ASSUME NEW n \in Nat
  PROVE  Atoi(Header(n)) = n
<1> DEFINE c == Header(n)
           w == Len(c)
<1>1. /\ c \in Seq(Cells) /\ w \in Nat /\ n < Place[w]
      /\ \A i \in DOMAIN c : c[i][1] = "digit"
      /\ \A i \in 1 .. w : c[i][2] = (n \div Place[w - i]) % Base
  <2>1. /\ c \in Seq(Cells) /\ w = HeaderWidth(n)
        /\ \A i \in DOMAIN c : c[i][1] = "digit"
        /\ \A i \in DOMAIN c :
              c[i][2] = (n \div Place[HeaderWidth(n) - i]) % Base
    BY HeaderType
  <2>2. w \in Nat /\ n < Place[w]
    BY <2>1, WidthOf
  <2> HIDE DEF c
  <2> QED
    BY <2>1, <2>2
<1> HIDE DEF c, w
<1>2. PICK g \in [0 .. w -> Nat] :
         /\ g[0] = 0
         /\ \A k \in 0 .. w - 1 : g[k + 1] = Base * g[k] + c[k + 1][2]
         /\ Atoi(c) = g[w]
  BY <1>1, AtoiDigits DEF w
<1> DEFINE E == {k \in Nat : k <= w => g[k] = n \div Place[w - k]}
<1>3. 0 \in E
  <2>1. n \div Place[w] = 0
    <3>1. \A a \in Nat \ {0} : n < a => n \div a = 0
      OBVIOUS
    <3>2. Place[w] \in Nat \ {0}
      BY <1>1, PlaceIs
    <3> QED
      BY <1>1, <3>1, <3>2
  <2> QED
    BY <1>1, <1>2, <2>1
<1>4. ASSUME NEW k \in E PROVE k + 1 \in E
  <2> SUFFICES ASSUME k + 1 <= w
               PROVE  g[k + 1] = n \div Place[w - (k + 1)]
    OBVIOUS
  <2> DEFINE j == w - (k + 1)
             m == n \div Place[j]
  <2>1. /\ j \in Nat /\ w - k = j + 1 /\ k \in 0 .. w - 1
        /\ k + 1 \in 1 .. w
    BY <1>1
  <2>2. g[k] = n \div Place[j + 1]
    <3>1. k <= w /\ g[k] = n \div Place[w - k]
      BY <1>1
    <3> HIDE DEF j
    <3> QED
      BY <2>1, <3>1
  <2>3. Place[j] \in Nat \ {0} /\ Place[j + 1] = Base * Place[j]
    BY <2>1, PlaceIs
  <2> HIDE DEF j
  <2>4. m \in Nat
    BY <2>3
  <2>5. Base \in Nat \ {0}
    BY ParameterAssumption
  <2>6. g[k] = m \div Base
    BY <2>2, <2>3, <2>5, DivTwice
  <2>7. g[k + 1] = Base * g[k] + (m % Base)
    <3>1. c[k + 1][2] = m % Base
      BY <1>1, <2>1 DEF j
    <3> HIDE DEF m
    <3> QED
      BY <1>2, <2>1, <3>1
  <2> HIDE DEF m
  <2>8. Base * (m \div Base) + (m % Base) = m
    BY <2>4, <2>5
  <2> QED
    BY <2>6, <2>7, <2>8 DEF m, j
<1>5. E = Nat
  <2> HIDE DEF E
  <2>1. E \subseteq Nat
    BY DEF E
  <2> QED
    BY <1>3, <1>4, <2>1, Induction
<1>6. g[w] = n \div Place[0]
  <2>1. w \in E
    BY <1>1, <1>5
  <2> QED
    BY <1>1, <2>1
<1> QED
  BY <1>2, <1>6, PlaceIs DEF c

-----------------------------------------------------------------------------
(* The layout of the log. *)

\* Every record has a size, and at least one byte.
LEMMA SizeIs == \A r \in Records : r \in Nat /\ Sizes[r] \in Nat \ {0}
  BY ParameterAssumption DEF Records

\* A record is as long as its size says, has no NUL, and has its separator.
LEMMA BodyType ==
  ASSUME NEW r \in Records
  PROVE  /\ Body(r) \in Seq(Cells \ {NUL}) /\ Len(Body(r)) = Sizes[r]
         /\ HasSep(Body(r))
<1> DEFINE n == Sizes[r]
           p == SepAt(n)
<1>1. n \in Nat \ {0} /\ r \in Nat
  BY ParameterAssumption DEF Records
<1>2. p \in 1 .. n
  <2> DEFINE S == {2, n}
  <2>1. S \in SUBSET Nat /\ S # {} /\ 2 \in S /\ n \in S
    BY <1>1
  <2>2. Min(S) \in S /\ \A m \in S : Min(S) <= m
    <3> HIDE DEF S
    <3> QED
      BY <2>1, MinIs
  <2>3. p = Min(S)
    BY DEF SepAt
  <2> QED
    BY <1>1, <2>2, <2>3
<1> HIDE DEF p
<1>3. Body(r) = [i \in 1 .. n |-> IF i = p THEN <<"sep", r>> ELSE <<"text", r>>]
  BY DEF Body, Sep, Text, p
<1> HIDE DEF n
<1>4. \A i \in 1 .. n : Body(r)[i] \in Cells \ {NUL}
  BY <1>1, <1>3 DEF Cells, NUL
<1>5. Body(r) \in Seq(Cells \ {NUL}) /\ Len(Body(r)) = n
  <2>1. /\ DOMAIN Body(r) = 1 .. n
        /\ Body(r) = [i \in 1 .. n |-> Body(r)[i]]
    BY <1>3
  <2> QED
    BY <1>1, <1>4, <2>1
<1>6. Body(r)[p][1] = "sep" /\ p \in DOMAIN Body(r)
  BY <1>2, <1>3
<1> QED
  BY <1>5, <1>6 DEF HasSep, n

\* A frame is a header and then a record.
LEMMA FrameType ==
  ASSUME NEW r \in Records
  PROVE  /\ Frame(r) \in Seq(Cells)
         /\ Len(Frame(r)) = HeaderWidth(Sizes[r]) + Sizes[r]
         /\ \A i \in 1 .. HeaderWidth(Sizes[r]) :
               Frame(r)[i] = Header(Sizes[r])[i]
         /\ \A i \in 1 .. Sizes[r] :
               Frame(r)[HeaderWidth(Sizes[r]) + i] = Body(r)[i]
<1> DEFINE h == Header(Sizes[r])
           b == Body(r)
           w == HeaderWidth(Sizes[r])
           n == Sizes[r]
<1>1. n \in Nat /\ w \in Nat
  BY WidthOf, ParameterAssumption DEF Records
<1>2. h \in Seq(Cells) /\ Len(h) = w
  BY <1>1, HeaderType
<1>3. b \in Seq(Cells) /\ Len(b) = n
  <2>1. b \in Seq(Cells \ {NUL}) /\ Len(b) = n
    BY BodyType
  <2> HIDE DEF b, n
  <2> QED
    BY <2>1
<1>4. Frame(r) = h \o b
  BY DEF Frame
<1> HIDE DEF h, b, w, n
<1>5. /\ h \o b \in Seq(Cells) /\ Len(h \o b) = w + n
      /\ \A i \in 1 .. w : (h \o b)[i] = h[i]
      /\ \A i \in 1 .. n : (h \o b)[w + i] = b[i]
  BY <1>1, <1>2, <1>3
<1> QED
  BY <1>4, <1>5 DEF h, b, w, n

\* The recursion of Log.
LEMMA LogIs ==
  /\ Log \in [0 .. Len(Sizes) -> Seq(Cells)]
  /\ Log[0] = <<>>
  /\ \A r \in Records : Log[r] = Log[r - 1] \o Frame(r)
<1> DEFINE N == Len(Sizes)
           V == Seq(Cells)
           none == <<>>
           step == [n \in Nat |-> [s \in V |->
                       IF n < N THEN s \o Frame(n + 1) ELSE s]]
           Q(h) == h = [r \in 0 .. N |->
                          IF r = 0 THEN <<>> ELSE h[r - 1] \o Frame(r)]
<1>1. N \in Nat /\ Records = 1 .. N
  BY ParameterAssumption DEF Records
<1>2. StepOn(V, step) /\ none \in V
  <2>1. ASSUME NEW n \in Nat, NEW s \in V
        PROVE  (IF n < N THEN s \o Frame(n + 1) ELSE s) \in V
    <3>1. CASE n < N
      <4>1. n + 1 \in Records
        BY <1>1, <3>1
      <4>2. Frame(n + 1) \in V
        BY <4>1, FrameType
      <4> QED
        BY <3>1, <4>2
    <3>2. CASE ~ (n < N)
      BY <3>2
    <3> QED
      BY <3>1, <3>2
  <2> HIDE DEF V, N
  <2>2. StepOn(V, step)
    BY <2>1 DEF StepOn
  <2> QED
    BY <2>2 DEF V
<1>3. PICK g : Follows(g, V, none, step)
  <2> HIDE DEF V, none, step
  <2> QED
    BY <1>2, Recursion
<1> DEFINE h == [r \in 0 .. N |-> g[r]]
<1> HIDE DEF N, V
<1>4. h \in [0 .. N -> V] /\ h[0] = <<>>
  BY <1>1, <1>3 DEF Follows
<1>5. ASSUME NEW r \in 1 .. N PROVE h[r] = h[r - 1] \o Frame(r)
  <2>1. /\ r - 1 \in Nat /\ r - 1 \in 0 .. N /\ r \in 0 .. N
        /\ r - 1 < N /\ (r - 1) + 1 = r
    BY <1>1
  <2>2. g[r - 1] \in V /\ g[(r - 1) + 1] = step[r - 1][g[r - 1]]
    BY <1>3, <2>1 DEF Follows
  <2>3. step[r - 1][g[r - 1]] = g[r - 1] \o Frame((r - 1) + 1)
    BY <2>1, <2>2
  <2> QED
    BY <2>1, <2>2, <2>3
<1>6. Q(h)
  <2>1. h = [r \in 0 .. N |-> h[r]]
    OBVIOUS
  <2> HIDE DEF h
  <2>2. ASSUME NEW r \in 0 .. N
        PROVE  h[r] = IF r = 0 THEN <<>> ELSE h[r - 1] \o Frame(r)
    <3>1. r = 0 \/ (r # 0 /\ r \in 1 .. N)
      BY <1>1
    <3> QED
      BY <1>4, <1>5, <3>1
  <2> QED
    BY <2>1, <2>2
<1>7. Q(Log)
  <2>1. Log = CHOOSE k : Q(k)
    BY DEF Log, N
  <2> HIDE DEF Q, h
  <2> QED
    BY <1>6, <2>1
<1>8. DOMAIN Log = 0 .. N /\ Log[0] = <<>>
  BY <1>1, <1>7
<1>9. ASSUME NEW r \in 1 .. N PROVE Log[r] = Log[r - 1] \o Frame(r)
  <2>1. r \in 0 .. N /\ r # 0
    BY <1>1
  <2> QED
    BY <1>7, <2>1
<1>10. \A r \in 0 .. N : Log[r] \in V
  <2> DEFINE E == {r \in Nat : r <= N => Log[r] \in V}
  <2>1. 0 \in E
    <3>1. Log[0] \in V
      BY <1>8 DEF V
    <3> QED
      BY <3>1
  <2>2. ASSUME NEW r \in E PROVE r + 1 \in E
    <3> SUFFICES ASSUME r + 1 <= N PROVE Log[r + 1] \in V
      OBVIOUS
    <3>1. r + 1 \in 1 .. N /\ (r + 1) - 1 = r /\ Log[r] \in V
      BY <1>1
    <3>2. Log[r + 1] = Log[r] \o Frame(r + 1)
      BY <1>9, <3>1
    <3>3. Frame(r + 1) \in V
      BY <1>1, <3>1, FrameType DEF V
    <3> QED
      BY <3>1, <3>2, <3>3 DEF V
  <2>3. E = Nat
    <3> HIDE DEF E
    <3>1. E \subseteq Nat
      BY DEF E
    <3> QED
      BY <2>1, <2>2, <3>1, Induction
  <2> QED
    BY <1>1, <2>3
<1> QED
  <2>1. Log = [r \in 0 .. N |-> Log[r]]
    BY <1>7
  <2> HIDE DEF Q
  <2> QED
    BY <1>1, <1>8, <1>9, <1>10, <2>1 DEF N, V

\* What is in the log of the first records stays where it is.
LEMMA LogGrows ==
  ASSUME NEW r \in 0 .. Len(Sizes), NEW q \in 0 .. Len(Sizes), r <= q
  PROVE  /\ Len(Log[r]) <= Len(Log[q])
         /\ \A i \in 1 .. Len(Log[r]) : Log[q][i] = Log[r][i]
<1> DEFINE N == Len(Sizes)
           In(s, t) == Len(s) <= Len(t) /\ \A i \in 1 .. Len(s) : t[i] = s[i]
           E == {d \in Nat : r + d <= N => In(Log[r], Log[r + d])}
<1>1. N \in Nat /\ Records = 1 .. N
  BY ParameterAssumption DEF Records
<1> HIDE DEF N
<1>2. 0 \in E
  <2>1. Log[r] \in Seq(Cells) /\ r + 0 = r
    BY LogIs
  <2> QED
    BY <2>1
<1>3. ASSUME NEW d \in E PROVE d + 1 \in E
  <2> SUFFICES ASSUME r + (d + 1) <= N PROVE In(Log[r], Log[r + (d + 1)])
    OBVIOUS
  <2> DEFINE m == r + d
  <2>1. /\ m \in 0 .. N /\ m + 1 \in Records /\ (m + 1) - 1 = m
        /\ r + (d + 1) = m + 1
    BY <1>1 DEF N
  <2>2. In(Log[r], Log[m])
    BY <1>1, <2>1
  <2> HIDE DEF m
  <2>3. Log[m + 1] = Log[m] \o Frame(m + 1)
    BY <2>1, LogIs
  <2>4. Log[r] \in Seq(Cells) /\ Log[m] \in Seq(Cells)
    BY <2>1, LogIs DEF N
  <2>5. Frame(m + 1) \in Seq(Cells)
    BY <2>1, FrameType
  <2>6. ASSUME NEW s \in Seq(Cells), NEW t \in Seq(Cells), NEW u \in Seq(Cells),
               In(u, s)
        PROVE  In(u, s \o t)
    <3>1. /\ Len(s \o t) = Len(s) + Len(t) /\ Len(s) \in Nat /\ Len(t) \in Nat
          /\ Len(u) \in Nat
      OBVIOUS
    <3>2. \A i \in 1 .. Len(s) : (s \o t)[i] = s[i]
      OBVIOUS
    <3>3. \A i \in 1 .. Len(u) : i \in 1 .. Len(s)
      BY <2>6, <3>1
    <3> QED
      BY <2>6, <3>1, <3>2, <3>3
  <2>7. In(Log[r], Log[m + 1])
    <3> HIDE DEF In
    <3> QED
      BY <2>2, <2>3, <2>4, <2>5, <2>6
  <2> QED
    BY <2>1, <2>7
<1>4. E = Nat
  <2> HIDE DEF E
  <2>1. E \subseteq Nat
    BY DEF E
  <2> QED
    BY <1>2, <1>3, <2>1, Induction
<1>5. q - r \in Nat /\ r + (q - r) = q /\ q <= N
  BY DEF N
<1>6. In(Log[r], Log[r + (q - r)])
  <2>1. \A d \in Nat : r + d <= N => In(Log[r], Log[r + d])
    BY <1>4
  <2> HIDE DEF In
  <2> QED
    BY <1>5, <2>1
<1> QED
  BY <1>5, <1>6

\* Where a frame is in the log.
LEMMA FrameInLog ==
  ASSUME NEW r \in Records
  PROVE  /\ FrameStart(r) \in Nat /\ FrameStart(r + 1) \in Nat
         /\ FrameStart(r + 1) =
               FrameStart(r) + HeaderWidth(Sizes[r]) + Sizes[r]
         /\ FrameStart(r + 1) <= Len(FullLog)
         /\ \A i \in 1 .. Len(Frame(r)) :
               FullLog[FrameStart(r) + i] = Frame(r)[i]
<1> DEFINE N == Len(Sizes)
           s == Log[r - 1]
           t == Log[r]
           f == Frame(r)
<1>1. N \in Nat /\ Records = 1 .. N
  BY ParameterAssumption DEF Records
<1>2. r \in 1 .. N /\ r - 1 \in 0 .. N /\ r \in 0 .. N /\ N \in 0 .. N
  BY <1>1
<1>3. s \in Seq(Cells) /\ t \in Seq(Cells) /\ t = s \o f
  BY <1>2, LogIs
<1>4. f \in Seq(Cells) /\ Len(f) = HeaderWidth(Sizes[r]) + Sizes[r]
  BY FrameType
<1>5. /\ FrameStart(r) = Len(s) /\ FrameStart(r + 1) = Len(t)
      /\ FullLog = Log[N]
  <2>1. (r + 1) - 1 = r
    BY <1>2
  <2> QED
    BY <2>1 DEF FrameStart, FullLog
<1>6. /\ Len(t) <= Len(FullLog)
      /\ \A i \in 1 .. Len(t) : FullLog[i] = t[i]
  BY <1>2, <1>5, LogGrows
<1> HIDE DEF s, t, f
<1>7. /\ Len(t) = Len(s) + Len(f) /\ Len(s) \in Nat /\ Len(t) \in Nat
      /\ Len(f) \in Nat
      /\ \A i \in 1 .. Len(f) : t[Len(s) + i] = f[i]
  <2>1. f \in Seq(Cells)
    BY <1>4
  <2> QED
    BY <1>3, <2>1
<1>8. \A i \in 1 .. Len(f) : FullLog[Len(s) + i] = f[i]
  <2>1. \A i \in 1 .. Len(f) : Len(s) + i \in 1 .. Len(t)
    BY <1>7
  <2> QED
    BY <1>6, <1>7, <2>1
<1>9. HeaderWidth(Sizes[r]) \in Nat /\ Sizes[r] \in Nat
  BY SizeIs, WidthOf
<1> QED
  BY <1>4, <1>5, <1>6, <1>7, <1>8, <1>9 DEF f

\* The records before the first unfit one are fit.
LEMMA FirstUnfitIs ==
  /\ FirstUnfit \in 1 .. Len(Sizes) + 1
  /\ \A r \in 1 .. FirstUnfit - 1 :
        r \in Records /\ Sizes[r] \in Nat /\ HeaderWidth(Sizes[r]) = VAL_LENGTH
<1> DEFINE N == Len(Sizes)
           S == {r \in Records : Sizes[r] >= Place[VAL_LENGTH]} \cup {N + 1}
<1>1. N \in Nat /\ Records = 1 .. N
  BY ParameterAssumption DEF Records
<1>2. S \in SUBSET Nat /\ S # {} /\ S \subseteq 1 .. N + 1
  BY <1>1
<1>3. FirstUnfit = Min(S)
  BY DEF FirstUnfit
<1>4. FirstUnfit \in S /\ \A r \in S : FirstUnfit <= r
  <2> HIDE DEF S
  <2> QED
    BY <1>2, <1>3, MinIs
<1> HIDE DEF N
<1>5. ASSUME NEW r \in 1 .. FirstUnfit - 1
      PROVE  r \in Records /\ Sizes[r] \in Nat
                /\ HeaderWidth(Sizes[r]) = VAL_LENGTH
  <2>1. r \in Records /\ r \notin S
    BY <1>1, <1>2, <1>4
  <2>2. Sizes[r] \in Nat /\ Place[VAL_LENGTH] \in Nat
    BY <2>1, SizeIs, PlaceIs, ParameterAssumption
  <2>3. Sizes[r] < Place[VAL_LENGTH]
    BY <2>1, <2>2
  <2> QED
    BY <2>1, <2>2, <2>3, WidthOf
<1> QED
  BY <1>2, <1>4, <1>5 DEF N

\* Where the frames of the records that fit are, and that a later frame is not
\* before an earlier one.
LEMMA Starts ==
  /\ FrameStart(1) = 0
  /\ \A r \in 1 .. Len(Sizes) + 1 : FrameStart(r) \in Nat
  /\ \A r \in 1 .. FirstUnfit - 1 :
        FrameStart(r + 1) = FrameStart(r) + VAL_LENGTH + Sizes[r]
  /\ \A r, q \in 1 .. Len(Sizes) + 1 : r <= q => FrameStart(r) <= FrameStart(q)
<1> DEFINE N == Len(Sizes)
<1>1. N \in Nat
  BY ParameterAssumption
<1>2. FrameStart(1) = 0
  BY LogIs DEF FrameStart
<1>3. ASSUME NEW r \in 1 .. N + 1 PROVE FrameStart(r) \in Nat
  <2>1. r - 1 \in 0 .. N
    BY <1>1
  <2>2. Log[r - 1] \in Seq(Cells)
    BY <2>1, LogIs
  <2> QED
    BY <2>2 DEF FrameStart
<1>4. ASSUME NEW r \in 1 .. FirstUnfit - 1
      PROVE  FrameStart(r + 1) = FrameStart(r) + VAL_LENGTH + Sizes[r]
  BY FrameInLog, FirstUnfitIs
<1>5. ASSUME NEW r \in 1 .. N + 1, NEW q \in 1 .. N + 1, r <= q
      PROVE  FrameStart(r) <= FrameStart(q)
  <2>1. r - 1 \in 0 .. N /\ q - 1 \in 0 .. N /\ r - 1 <= q - 1
    BY <1>1, <1>5
  <2>2. Len(Log[r - 1]) <= Len(Log[q - 1])
    BY <2>1, LogGrows
  <2> QED
    BY <2>2 DEF FrameStart
<1> QED
  BY <1>2, <1>3, <1>4, <1>5

\* What is in the log where the header and the body of a record that fits are.
LEMMA FrameCells ==
  ASSUME NEW r \in 1 .. FirstUnfit - 1
  PROVE  /\ SubSeq(FullLog, FrameStart(r) + 1, FrameStart(r) + VAL_LENGTH)
               = Header(Sizes[r])
         /\ SubSeq(FullLog, FrameStart(r) + VAL_LENGTH + 1,
                   FrameStart(r) + VAL_LENGTH + Sizes[r]) = Body(r)
<1> DEFINE a == FrameStart(r)
           n == Sizes[r]
           w == VAL_LENGTH
           h == Header(n)
           b == Body(r)
           f == Frame(r)
<1>1. /\ r \in Records /\ HeaderWidth(n) = w /\ n \in Nat /\ w \in Nat
      /\ a \in Nat
  BY FirstUnfitIs, FrameInLog, ParameterAssumption
<1>2. h \in Seq(Cells) /\ Len(h) = w
  BY <1>1, HeaderType
<1>3. b \in Seq(Cells \ {NUL}) /\ Len(b) = n
  BY <1>1, BodyType
<1>4. /\ Len(f) = w + n
      /\ \A i \in 1 .. w : f[i] = h[i]
      /\ \A i \in 1 .. n : f[w + i] = b[i]
  BY <1>1, FrameType
<1>5. \A i \in 1 .. Len(f) : FullLog[a + i] = f[i]
  BY <1>1, FrameInLog
<1> HIDE DEF a, n, w, h, b, f
<1>6. \A i \in 1 .. w : FullLog[a + i] = h[i]
  <2>1. \A i \in 1 .. w : i \in 1 .. w + n
    BY <1>1
  <2> QED
    BY <1>4, <1>5, <2>1
<1>7. \A i \in 1 .. n : FullLog[(a + w) + i] = b[i]
  <2>1. \A i \in 1 .. n : w + i \in 1 .. w + n /\ a + (w + i) = (a + w) + i
    BY <1>1
  <2> QED
    BY <1>4, <1>5, <2>1
<1>8. ASSUME NEW c \in Nat, NEW k \in Nat, NEW S, NEW s \in Seq(S),
             Len(s) = k, \A i \in 1 .. k : FullLog[c + i] = s[i]
      PROVE  SubSeq(FullLog, c + 1, c + k) = s
  <2>1. SubSeq(FullLog, c + 1, c + k) =
           [i \in 1 .. (c + k) - (c + 1) + 1 |-> FullLog[i + (c + 1) - 1]]
    OBVIOUS
  <2>2. (c + k) - (c + 1) + 1 = k
    OBVIOUS
  <2>3. \A i \in 1 .. k : i + (c + 1) - 1 = c + i
    OBVIOUS
  <2>4. s = [i \in 1 .. k |-> s[i]]
    BY <1>8
  <2> QED
    BY <1>8, <2>1, <2>2, <2>3, <2>4
<1>9. SubSeq(FullLog, a + 1, a + w) = h
  BY <1>1, <1>2, <1>6, <1>8
<1>10. SubSeq(FullLog, a + w + 1, a + w + n) = b
  BY <1>1, <1>3, <1>7, <1>8
<1> QED
  BY <1>9, <1>10 DEF a, n, w, h, b

-----------------------------------------------------------------------------
(* Types. *)

LEMMA LogType == FullLog \in Seq(Cells) /\ Len(FullLog) \in Nat
  BY LogIs, ParameterAssumption DEF FullLog

\* What a length is parsed to is a number.
LEMMA AtoiType == ASSUME NEW cells \in Seq(Cells) PROVE Atoi(cells) \in Nat
<1>1. PICK n \in 0 .. Len(String(cells)) : \E g \in [0 .. n -> Nat] :
            /\ \A i \in 1 .. n : String(cells)[i][1] = "digit"
            /\ n < Len(String(cells)) => String(cells)[n + 1][1] # "digit"
            /\ g[0] = 0
            /\ \A k \in 0 .. n - 1 :
                  g[k + 1] = Base * g[k] + String(cells)[k + 1][2]
            /\ Atoi(cells) = g[n]
  BY AtoiOf
<1>2. n \in 0 .. n
  <2>1. String(cells) \in Seq(Cells \ {NUL})
    BY StringType
  <2> QED
    BY <2>1
<1> QED
  BY <1>1, <1>2

\* A read returns cells of the log and NULs, as many as were asked for.
LEMMA ReadType ==
  ASSUME TypeOK, NEW addr \in Nat, NEW len \in Nat,
         NEW cells \in ReadResults(addr, len)
  PROVE  cells \in Seq(Cells)
<1> DEFINE lo == Max({readFrom, addr}) + 1
           hi == Min({written, addr + len})
           cell(k, late) ==
              IF k <= readFrom \/ k \in late THEN FullLog[k] ELSE NUL
<1>1. /\ FullLog \in Seq(Cells) /\ Len(FullLog) \in Nat
      /\ written \in 0 .. Len(FullLog) /\ readFrom \in -1 .. written
  BY LogType DEF TypeOK
<1>2. hi \in {written, addr + len} /\ hi <= written
  <2> DEFINE S == {written, addr + len}
  <2>1. S \in SUBSET Nat /\ S # {} /\ written \in S
    BY <1>1
  <2> HIDE DEF S
  <2>2. Min(S) \in S /\ \A m \in S : Min(S) <= m
    BY <2>1, MinIs
  <2> QED
    BY <2>1, <2>2 DEF S
<1>3. lo \in Int /\ lo >= addr + 1
  <2> DEFINE S == {readFrom, addr}
  <2>1. \E x \in S : \A y \in S : x >= y
    BY <1>1
  <2>2. Max(S) \in S /\ \A y \in S : Max(S) >= y
    <3> HIDE DEF S
    <3> QED
      BY <2>1 DEF Max
  <2> QED
    BY <1>1, <2>2
<1>4. PICK late \in SUBSET (lo .. hi) :
         cells = [i \in 1 .. len |-> cell(addr + i, late)]
  BY DEF ReadResults
<1> HIDE DEF lo, hi
<1>5. ASSUME NEW i \in 1 .. len PROVE cell(addr + i, late) \in Cells
  <2>1. CASE addr + i <= readFrom \/ addr + i \in late
    <3>1. addr + i \in 1 .. Len(FullLog)
      <4>1. addr + i \in Nat /\ addr + i >= 1
        OBVIOUS
      <4>2. hi \in Int /\ addr + i <= written
        BY <1>1, <1>2, <1>3, <2>1
      <4> QED
        BY <1>1, <4>1, <4>2
    <3>2. FullLog[addr + i] \in Cells
      BY <1>1, <3>1
    <3> QED
      BY <2>1, <3>2
  <2>2. CASE ~ (addr + i <= readFrom \/ addr + i \in late)
    BY <2>2 DEF NUL, Cells
  <2> QED
    BY <2>1, <2>2
<1> HIDE DEF cell
<1> QED
  BY <1>4, <1>5

LEMMA TypeInit == Init => TypeOK
<1> SUFFICES ASSUME Init PROVE TypeOK
  OBVIOUS
<1>1. VAL_LENGTH \in Nat \ {0} /\ MaxSpurious \in Nat
  BY ParameterAssumption
<1>2. Len(FullLog) \in Nat
  BY LogType
<1>3. buffer \in Seq(Cells)
  BY <1>1 DEF Init, NUL, Cells
<1>4. producer_record \in Seq(Cells \ {NUL}) /\ consumed \in Seq(Seq(Cells \ {NUL}))
  BY DEF Init
<1>5. /\ written \in 0 .. Len(FullLog) /\ readFrom \in -1 .. written
      /\ peer_addr \in Nat /\ size \in Nat \ {0} /\ spurious \in 0 .. MaxSpurious
  BY <1>1, <1>2 DEF Init
<1> QED
  BY <1>3, <1>4, <1>5 DEF Init, TypeOK

LEMMA TypeStep == TypeOK /\ [Next]_vars => TypeOK'
<1> SUFFICES ASSUME TypeOK, [Next]_vars PROVE TypeOK'
  OBVIOUS
<1>1. Len(FullLog) \in Nat /\ VAL_LENGTH \in Nat \ {0} /\ MaxSpurious \in Nat
  BY LogType, ParameterAssumption
<1>2. CASE WriteCell
  BY <1>1, <1>2 DEF TypeOK, WriteCell, appVars, readVars
<1>3. CASE ConsumeRecord
  BY <1>3 DEF TypeOK, ConsumeRecord, readVars
<1>4. CASE WaitForPolling \/ Terminate
  BY <1>4 DEF TypeOK, WaitForPolling, Terminate, readVars
<1>5. CASE ReturnRecord
  <2>1. consumed' \in Seq(Seq(Cells \ {NUL}))
    BY <1>5 DEF TypeOK, ReturnRecord
  <2> QED
    BY <1>5, <2>1 DEF TypeOK, ReturnRecord, readVars
<1>6. CASE SpuriousWakeup
  BY <1>1, <1>6 DEF TypeOK, SpuriousWakeup, readVars
<1>7. CASE AddrResolved \/ RouteResolved \/ Established \/ BrokerExit
  <2>1. CASE AddrResolved
    BY <2>1 DEF TypeOK, AddrResolved, Goes, appVars, readVars
  <2>2. CASE RouteResolved
    BY <2>2 DEF TypeOK, RouteResolved, Goes, appVars, readVars
  <2>3. CASE Established
    BY <2>3 DEF TypeOK, Established, Goes, appVars, readVars
  <2>4. CASE BrokerExit
    BY <2>4 DEF TypeOK, BrokerExit, Goes, appVars, readVars
  <2> QED
    BY <1>7, <2>1, <2>2, <2>3, <2>4
<1>8. CASE CmError \/ ReadFails \/ StaleContext
  BY <1>8 DEF TypeOK, CmError, ReadFails, StaleContext, Dies, appVars, readVars
<1>9. CASE ConnectionLost
  BY <1>9 DEF TypeOK, ConnectionLost, appVars, readVars
<1>10. CASE OnReady \/ PollAgain
  BY <1>1, <1>10 DEF TypeOK, OnReady, PollAgain, PostRead, appVars, readVars
<1>11. CASE ReadDone
  <2>1. buffer' \in Seq(Cells)
    BY <1>11, ReadType DEF TypeOK, ReadDone
  <2> QED
    BY <1>1, <1>11, <2>1 DEF TypeOK, ReadDone, appVars, readVars
<1>12. CASE LengthFound
  <2>1. Atoi(buffer) \in Nat \ {0}
    BY <1>12, AtoiType DEF TypeOK, LengthFound
  <2> QED
    BY <1>1, <1>12, <2>1 DEF TypeOK, LengthFound, PostRead, BodyAddr, appVars
<1>13. CASE Deserialize
  <2>1. String(buffer) \in Seq(Cells \ {NUL})
    BY StringType DEF TypeOK
  <2> QED
    BY <1>13, <2>1 DEF TypeOK, Deserialize, appVars, readVars
<1>14. CASE NoSeparator
  BY <1>14 DEF TypeOK, NoSeparator, appVars, readVars
<1>15. CASE SignalConsumer \/ WaitForConsumer
  BY <1>15 DEF TypeOK, SignalConsumer, WaitForConsumer, appVars, readVars
<1>16. CASE Resume
  BY <1>1, <1>16 DEF TypeOK, Resume, PostRead, NextAddr, appVars
<1>17. CASE UNCHANGED vars
  BY <1>17 DEF TypeOK, vars, appVars, readVars
<1> QED
  BY <1>2, <1>3, <1>4, <1>5, <1>6, <1>7, <1>8, <1>9, <1>10, <1>11, <1>12,
     <1>13, <1>14, <1>15, <1>16, <1>17 DEF Next, AppStep, PollerStep, CmStep

\* Every variable has its type: in particular what is parsed and what is returned
\* are strings without a NUL, and a read starts from no more than is written.
THEOREM TypeCorrect == Spec => []TypeOK
  BY TypeInit, TypeStep, PTL DEF Spec

-----------------------------------------------------------------------------
(* The cursor. *)

\* The poller is to read the header of record r, or past the last record; or it is
\* to read, or has read, its body.
OnHeader(r) ==
    /\ read_status = "READ_POLLING" /\ r \in 1 .. FirstUnfit
    /\ peer_addr = FrameStart(r) /\ size = VAL_LENGTH
OnBody(r) ==
    /\ read_status = "READ_READY" /\ r \in 1 .. FirstUnfit - 1
    /\ peer_addr = FrameStart(r) + VAL_LENGTH /\ size = Sizes[r]

\* From its signal to the next read, the poller has the body of a record.
CursorInv ==
    /\ poller \in {"signal", "prewait", "waiting", "woken"} =>
          read_status = "READ_READY"
    /\ ~torn /\ ~PastUnfit =>
          /\ crashed # "wild"
          /\ (\E r \in 1 .. FirstUnfit : OnHeader(r))
                \/ (\E r \in 1 .. FirstUnfit - 1 : OnBody(r))

\* The cursor on a header is on that of a record that fits, or at the end.
LEMMA OnHeaderIs ==
  ASSUME NEW r, OnHeader(r)
  PROVE  /\ r \in Nat /\ r <= FirstUnfit /\ r \in 1 .. Len(Sizes) + 1
         /\ r # FirstUnfit => r \in 1 .. FirstUnfit - 1
         /\ ~PastUnfit
<1>1. FirstUnfit \in 1 .. Len(Sizes) + 1 /\ Len(Sizes) \in Nat
  BY FirstUnfitIs, ParameterAssumption
<1>2. r \in 1 .. FirstUnfit /\ r \in 1 .. Len(Sizes) + 1
  BY <1>1 DEF OnHeader
<1>3. FrameStart(r) <= FrameStart(FirstUnfit)
  BY <1>1, <1>2, Starts
<1>4. FrameStart(r) \in Nat /\ FrameStart(FirstUnfit) \in Nat
  BY <1>1, <1>2, Starts
<1>5. ~PastUnfit
  BY <1>3, <1>4 DEF OnHeader, PastUnfit
<1> QED
  BY <1>1, <1>2, <1>5

\* So is the cursor on a body, and its end is where the next header is.
LEMMA OnBodyIs ==
  ASSUME NEW r, OnBody(r)
  PROVE  /\ r \in Nat /\ r < FirstUnfit /\ r + 1 \in 1 .. FirstUnfit
         /\ peer_addr + size = FrameStart(r + 1)
         /\ ~PastUnfit
<1>1. FirstUnfit \in 1 .. Len(Sizes) + 1 /\ Len(Sizes) \in Nat
  BY FirstUnfitIs, ParameterAssumption
<1>2. /\ r \in 1 .. FirstUnfit - 1 /\ r + 1 \in 1 .. FirstUnfit
      /\ r \in 1 .. Len(Sizes) + 1 /\ r + 1 \in 1 .. Len(Sizes) + 1
      /\ r + 1 <= FirstUnfit
  BY <1>1 DEF OnBody
<1>3. FrameStart(r + 1) = FrameStart(r) + VAL_LENGTH + Sizes[r]
  BY <1>2, Starts
<1>4. FrameStart(r + 1) <= FrameStart(FirstUnfit)
  BY <1>1, <1>2, Starts
<1>5. /\ FrameStart(r) \in Nat /\ FrameStart(r + 1) \in Nat
      /\ FrameStart(FirstUnfit) \in Nat
  BY <1>1, <1>2, Starts
<1>6. Sizes[r] \in Nat /\ VAL_LENGTH \in Nat
  BY <1>2, FirstUnfitIs, ParameterAssumption
<1>7. peer_addr = FrameStart(r) + VAL_LENGTH /\ size = Sizes[r]
  BY DEF OnBody
<1>8. ~PastUnfit
  BY <1>3, <1>4, <1>5, <1>6, <1>7 DEF PastUnfit
<1> QED
  BY <1>1, <1>2, <1>3, <1>5, <1>6, <1>7, <1>8

\* On either, it has not got past the records that fit.
OnFrame == \E r : OnHeader(r) \/ OnBody(r)

LEMMA FrameFits == OnFrame => ~PastUnfit
  BY OnHeaderIs, OnBodyIs DEF OnFrame

\* A length that is found at a header is that of its record, if the read was whole;
\* one that is found past the records that fit leads past them.
LEMMA HeaderToBody ==
  ASSUME TypeOK, NEW r, OnHeader(r), LengthFound
  PROVE  /\ r = FirstUnfit => PastUnfit'
         /\ r # FirstUnfit /\ ~torn' => OnBody(r)'
<1>1. /\ VAL_LENGTH \in Nat \ {0} /\ FirstUnfit \in 1 .. Len(Sizes) + 1
      /\ FrameStart(r) \in Nat
  BY OnHeaderIs, FirstUnfitIs, Starts, ParameterAssumption
<1>2. peer_addr' = FrameStart(r) + VAL_LENGTH /\ read_status' = "READ_READY"
  BY DEF LengthFound, OnHeader, BodyAddr
<1>3. ASSUME r = FirstUnfit PROVE PastUnfit'
  <2>1. FrameStart(r)' = FrameStart(r) /\ FirstUnfit' = FirstUnfit
    BY DEF FrameStart, FirstUnfit, Log, Records
  <2> QED
    BY <1>1, <1>2, <1>3, <2>1 DEF PastUnfit
<1>4. ASSUME r # FirstUnfit, ~torn' PROVE OnBody(r)'
  <2>1. r \in 1 .. FirstUnfit - 1
    BY <1>4, OnHeaderIs
  <2>2. buffer = SubSeq(FullLog, FrameStart(r) + 1, FrameStart(r) + VAL_LENGTH)
    BY <1>4 DEF LengthFound, Whole, OnHeader
  <2>3. buffer = Header(Sizes[r])
    BY <2>1, <2>2, FrameCells
  <2>4. size' = Sizes[r]
    BY <2>1, <2>3, AtoiOfHeader, FirstUnfitIs DEF LengthFound
  <2> QED
    BY <1>2, <2>1, <2>4 DEF OnBody
<1> QED
  BY <1>3, <1>4

\* What is in the buffer after a whole read of a body is a record.
LEMMA BodyRead ==
  ASSUME NEW r, OnBody(r), Whole
  PROVE  String(buffer) = Body(r) /\ HasSep(String(buffer))
<1>1. r \in 1 .. FirstUnfit - 1 /\ r \in Records
  BY FirstUnfitIs DEF OnBody
<1>2. buffer = SubSeq(FullLog, FrameStart(r) + VAL_LENGTH + 1,
                      FrameStart(r) + VAL_LENGTH + Sizes[r])
  BY DEF OnBody, Whole
<1>3. buffer = Body(r)
  BY <1>1, <1>2, FrameCells
<1>4. Body(r) \in Seq(Cells \ {NUL}) /\ HasSep(Body(r))
  BY <1>1, BodyType
<1>5. String(Body(r)) = Body(r)
  <2> DEFINE b == Body(r)
  <2>1. b \in Seq(Cells) /\ \A i \in DOMAIN b : b[i] # NUL
    <3>1. b \in Seq(Cells \ {NUL})
      BY <1>4
    <3> HIDE DEF b
    <3> QED
      BY <3>1
  <2> HIDE DEF b
  <2>2. String(b) = b
    BY <2>1, StringType
  <2> QED
    BY <2>2 DEF b
<1> QED
  BY <1>3, <1>4, <1>5

\* Steps that do not move the cursor.
LEMMA CursorStays ==
  ASSUME CursorInv,
         UNCHANGED <<torn, read_status, size, peer_addr>>,
         crashed' = "wild" => crashed = "wild",
         poller' \in {"signal", "prewait", "waiting", "woken"} =>
            poller \in {"signal", "prewait", "waiting", "woken"}
  PROVE  CursorInv'
<1>1. PastUnfit' = PastUnfit
  BY DEF PastUnfit, FrameStart, FirstUnfit, Log, Records
<1>2. \A r : OnHeader(r) => OnHeader(r)'
  BY DEF OnHeader
<1>3. \A r : OnBody(r) => OnBody(r)'
  BY DEF OnBody
<1> QED
  BY <1>1, <1>2, <1>3 DEF CursorInv

LEMMA CursorInit == Init => CursorInv
<1> SUFFICES ASSUME Init PROVE CursorInv
  OBVIOUS
<1>1. 1 \in 1 .. FirstUnfit
  BY FirstUnfitIs, ParameterAssumption
<1>2. OnHeader(1)
  BY <1>1, Starts DEF Init, OnHeader
<1> QED
  BY <1>1, <1>2 DEF Init, CursorInv

LEMMA CursorStep == TypeOK /\ CursorInv /\ [Next]_vars => CursorInv'
<1> SUFFICES ASSUME TypeOK, CursorInv, [Next]_vars PROVE CursorInv'
  OBVIOUS
<1> DEFINE OfBody == {"signal", "prewait", "waiting", "woken"}
<1>1. CASE \/ WriteCell \/ ReturnRecord \/ WaitForPolling \/ Terminate
           \/ ConnectionLost \/ UNCHANGED vars
  <2>1. UNCHANGED <<torn, read_status, size, peer_addr, crashed, poller>>
    BY <1>1 DEF WriteCell, ReturnRecord, WaitForPolling, Terminate,
       ConnectionLost, vars, appVars, readVars
  <2> QED
    BY <2>1, CursorStays
<1>2. CASE ConsumeRecord \/ SpuriousWakeup \/ SignalConsumer \/ WaitForConsumer
  <2>1. /\ UNCHANGED <<torn, read_status, size, peer_addr, crashed>>
        /\ poller' \in OfBody => poller \in OfBody
    BY <1>2 DEF ConsumeRecord, SpuriousWakeup, SignalConsumer, WaitForConsumer,
       appVars, readVars
  <2> QED
    BY <2>1, CursorStays
<1>3. CASE \/ AddrResolved \/ RouteResolved \/ Established \/ BrokerExit
           \/ CmError \/ ReadFails \/ StaleContext
  <2>1. /\ UNCHANGED <<torn, read_status, size, peer_addr, poller>>
        /\ crashed' # "wild" \/ crashed' = crashed
    BY <1>3 DEF AddrResolved, RouteResolved, Established, BrokerExit, Goes, CmError,
       ReadFails, StaleContext, Dies, appVars, readVars
  <2> QED
    BY <2>1, CursorStays
<1>4. CASE OnReady \/ ReadDone \/ PollAgain
  <2>1. /\ UNCHANGED <<torn, read_status, size, peer_addr, crashed>>
        /\ poller' \notin OfBody
    BY <1>4 DEF OnReady, ReadDone, PollAgain, PostRead, appVars, readVars
  <2> QED
    BY <2>1, CursorStays
<1>5. CASE LengthFound
  <2>1. poller' = "idle" /\ crashed' = "no" /\ read_status = "READ_POLLING"
    BY <1>5 DEF LengthFound, PostRead, HasContext, Running
  <2> SUFFICES ASSUME ~torn', ~PastUnfit'
               PROVE  \E r \in 1 .. FirstUnfit - 1 : OnBody(r)'
    BY <2>1 DEF CursorInv, FirstUnfit, Records
  <2>2. ~torn /\ ~PastUnfit
    <3>1. peer_addr' = peer_addr + VAL_LENGTH /\ peer_addr \in Nat
      BY <1>5 DEF LengthFound, BodyAddr, TypeOK
    <3>2. FrameStart(FirstUnfit) \in Nat /\ VAL_LENGTH \in Nat
      BY Starts, FirstUnfitIs, ParameterAssumption
    <3>3. ~ (peer_addr' > FrameStart(FirstUnfit))
      BY DEF PastUnfit, FrameStart, FirstUnfit, Log, Records
    <3>4. ~PastUnfit
      BY <3>1, <3>2, <3>3 DEF PastUnfit
    <3> QED
      BY <1>5, <3>4 DEF LengthFound
  <2>3. PICK r \in 1 .. FirstUnfit : OnHeader(r)
    BY <2>1, <2>2 DEF CursorInv, OnBody
  <2>4. r # FirstUnfit /\ OnBody(r)'
    BY <1>5, <2>3, HeaderToBody
  <2> QED
    BY <2>3, <2>4, OnHeaderIs
<1>6. CASE Deserialize
  <2>1. /\ UNCHANGED <<read_status, size, peer_addr, crashed>>
        /\ read_status = "READ_READY"
        /\ torn' = (torn \/ ~Whole)
    BY <1>6 DEF Deserialize, readVars
  <2>2. CASE torn'
    BY <2>1, <2>2 DEF CursorInv
  <2>3. CASE ~torn'
    <3>1. PastUnfit' = PastUnfit
      BY <2>1 DEF PastUnfit, FrameStart, FirstUnfit, Log, Records
    <3>2. (\A r : OnHeader(r) => OnHeader(r)') /\ \A r : OnBody(r) => OnBody(r)'
      BY <2>1 DEF OnHeader, OnBody
    <3> QED
      BY <2>1, <2>3, <3>1, <3>2 DEF CursorInv
  <2> QED
    BY <2>2, <2>3
<1>7. CASE NoSeparator
  <2>1. /\ UNCHANGED <<read_status, size, peer_addr, poller>>
        /\ read_status = "READ_READY" /\ ~HasSep(String(buffer))
        /\ torn' = (torn \/ ~Whole)
    BY <1>7 DEF NoSeparator, readVars
  <2>2. PastUnfit' = PastUnfit
    BY <2>1 DEF PastUnfit, FrameStart, FirstUnfit, Log, Records
  <2>3. ASSUME ~torn', ~PastUnfit PROVE FALSE
    <3>1. PICK r : OnBody(r)
      BY <2>1, <2>3 DEF CursorInv, OnHeader
    <3> QED
      BY <2>1, <2>3, <3>1, BodyRead
  <2> QED
    BY <2>1, <2>2, <2>3 DEF CursorInv
<1>8. CASE Resume
  <2>1. /\ poller = "woken" /\ poller' = "idle" /\ crashed' = "no"
        /\ read_status = "READ_READY" /\ read_status' = "READ_POLLING"
        /\ peer_addr' = peer_addr + size /\ size' = VAL_LENGTH /\ torn' = torn
    BY <1>8 DEF Resume, PostRead, NextAddr, HasContext, Running, CursorInv
  <2> SUFFICES ASSUME ~torn', ~PastUnfit'
               PROVE  \E r \in 1 .. FirstUnfit : OnHeader(r)'
    BY <2>1 DEF CursorInv, FirstUnfit, Records
  <2>2. ~torn /\ ~PastUnfit
    <3>1. peer_addr \in Nat /\ size \in Nat
      BY DEF TypeOK
    <3>2. FrameStart(FirstUnfit) \in Nat
      BY Starts, FirstUnfitIs
    <3>3. ~ (peer_addr' > FrameStart(FirstUnfit))
      BY DEF PastUnfit, FrameStart, FirstUnfit, Log, Records
    <3>4. ~PastUnfit
      BY <2>1, <3>1, <3>2, <3>3 DEF PastUnfit
    <3> QED
      BY <2>1, <3>4
  <2>3. PICK r : OnBody(r)
    BY <2>1, <2>2 DEF CursorInv, OnHeader
  <2>4. r + 1 \in 1 .. FirstUnfit /\ peer_addr' = FrameStart(r + 1)
    BY <2>1, <2>3, OnBodyIs
  <2> QED
    BY <2>1, <2>4 DEF OnHeader, FrameStart, FirstUnfit, Log, Records
<1> QED
  BY <1>1, <1>2, <1>3, <1>4, <1>5, <1>6, <1>7, <1>8
     DEF Next, AppStep, PollerStep, CmStep

\* The inductive invariant holds throughout.
THEOREM Cursor == Spec => [](TypeOK /\ CursorInv)
<1>1. Init => TypeOK /\ CursorInv
  BY TypeInit, CursorInit
<1>2. TypeOK /\ CursorInv /\ [Next]_vars => (TypeOK /\ CursorInv)'
  BY TypeStep, CursorStep
<1> QED
  BY <1>1, <1>2, PTL DEF Spec

\* Until a read is torn or a length cut, every step of issue_one_sided_read leaves
\* peer_addr and size on a header or on the body after it, and its strchr finds a
\* separator.
THEOREM CursorIsOnFrame == Spec => []CursorOnFrame
<1>1. CursorInv => CursorOnFrame
  BY DEF CursorInv, CursorOnFrame, OnHeader, OnBody
<1> QED
  BY <1>1, Cursor, PTL

-----------------------------------------------------------------------------
(* The rendezvous. *)

\* Between the poller's signal and the return of consumeRecord that it wakes, the
\* poller is on its way into the wait that only the next call ends.
RendezvousInv ==
    /\ spurious \in Nat
    /\ app = "woken" /\ spurious = 0 => poller \in {"prewait", "waiting"}

LEMMA RendezvousInit == Init => RendezvousInv
  BY DEF Init, RendezvousInv

LEMMA RendezvousStep == RendezvousInv /\ [Next]_vars => RendezvousInv'
<1> SUFFICES ASSUME RendezvousInv, [Next]_vars PROVE RendezvousInv'
  OBVIOUS
<1> USE DEF RendezvousInv
<1>1. CASE ConsumeRecord \/ WaitForPolling \/ ReturnRecord \/ Terminate
  BY <1>1 DEF ConsumeRecord, WaitForPolling, ReturnRecord, Terminate
<1>2. CASE SpuriousWakeup
  BY <1>2 DEF SpuriousWakeup
<1>3. CASE SignalConsumer \/ WaitForConsumer
  BY <1>3 DEF SignalConsumer, WaitForConsumer
<1>4. CASE \/ OnReady \/ ReadDone \/ PollAgain \/ LengthFound \/ Deserialize
           \/ NoSeparator \/ Resume \/ StaleContext
  <2>1. poller \notin {"prewait", "waiting"} /\ UNCHANGED <<app, spurious>>
    BY <1>4 DEF OnReady, ReadDone, PollAgain, LengthFound, Deserialize,
       NoSeparator, Resume, StaleContext, Dies, appVars
  <2> QED
    BY <2>1
<1>5. CASE \/ WriteCell \/ CmError \/ BrokerExit \/ ReadFails \/ CmStep
           \/ UNCHANGED vars
  <2>1. UNCHANGED <<app, poller, spurious>>
    BY <1>5 DEF WriteCell, CmError, BrokerExit, ReadFails, CmStep, AddrResolved,
       RouteResolved, Established, ConnectionLost, Goes, Dies, appVars, vars
  <2> QED
    BY <2>1
<1> QED
  BY <1>1, <1>2, <1>3, <1>4, <1>5 DEF Next, AppStep, PollerStep

\* The inductive invariant holds throughout.
THEOREM Rendezvous == Spec => []RendezvousInv
  BY RendezvousInit, RendezvousStep, PTL DEF Spec

\* The poller does not replace producer_record between its signal and the read of
\* it by the call of consumeRecord that was woken, though no lock keeps it from it.
THEOREM RecordIsStable == Spec => RecordStable
<1>1. RendezvousInv /\ [Next]_vars =>
        [producer_record' # producer_record /\ spurious = 0 =>
            app # "woken"]_vars
  <2> SUFFICES ASSUME RendezvousInv, Next, producer_record' # producer_record,
                      spurious = 0
               PROVE  app # "woken"
    OBVIOUS
  <2>1. Deserialize
    BY DEF Next, AppStep, PollerStep, CmStep, ConsumeRecord, WaitForPolling,
       ReturnRecord, Terminate, SpuriousWakeup, SignalConsumer,
       WaitForConsumer, OnReady, ReadDone, PollAgain, LengthFound, NoSeparator,
       Resume, StaleContext, WriteCell, CmError, BrokerExit, ReadFails,
       AddrResolved, RouteResolved, Established, ConnectionLost, Goes, Dies
  <2> QED
    BY <2>1 DEF RendezvousInv, Deserialize
<1> QED
  BY <1>1, Rendezvous, PTL DEF Spec, RecordStable
-----------------------------------------------------------------------------
(* The records that consumeRecord returns. *)

AtRest == poller \in {"prewait", "waiting"}
Idle == app \in {"idle", "terminated"}

\* consumeRecord has returned the records from first on, and next is the one after
\* them.  The poller fetches next, or waits with it for the call it has woken, or
\* with the one before until there is a call; or it has signalled in vain.  Calls
\* are behind it only before the first one.
FollowsFrom(first) ==
    LET next == first + Len(consumed)
    IN  /\ \A i \in DOMAIN consumed :
              first + i - 1 < FirstUnfit => consumed[i] = Body(first + i - 1)
        /\ app = "woken" => AtRest
        /\ Idle /\ ~AtRest => first = 1 /\ consumed = <<>>
        /\ PastUnfit => next >= FirstUnfit
        /\ ~PastUnfit =>
              /\ poller \in {"connecting", "idle", "completion"} =>
                    OnHeader(next) \/ OnBody(next)
              /\ poller = "signal" => OnBody(next) /\ producer_record = Body(next)
              /\ poller = "woken" => OnBody(next - 1)
              /\ AtRest /\ app = "woken" =>
                    OnBody(next) /\ producer_record = Body(next)
              /\ AtRest /\ Idle => OnBody(next - 1)

SuccessiveInv ==
    ~torn /\ spurious = 0 => \E first \in {1, 2} : FollowsFrom(first)

\* Steps that neither move the cursor nor take the poller or the application on.
LEMMA FollowStays ==
  ASSUME NEW first \in {1, 2}, FollowsFrom(first),
         UNCHANGED <<consumed, read_status, size, peer_addr, producer_record>>,
         \/ UNCHANGED poller
         \/ {poller, poller'} \subseteq {"connecting", "idle", "completion"}
         \/ {poller, poller'} \subseteq {"prewait", "waiting"},
         UNCHANGED app \/ (Idle /\ Idle') \/ {app, app'} \subseteq {"lock", "waiting"}
  PROVE  FollowsFrom(first)'
<1>1. PastUnfit' = PastUnfit /\ FirstUnfit' = FirstUnfit
  BY DEF PastUnfit, FrameStart, FirstUnfit, Log, Records
<1>2. \A r : (OnHeader(r) <=> OnHeader(r)') /\ (OnBody(r) <=> OnBody(r)')
  BY DEF OnHeader, OnBody, FrameStart, FirstUnfit, Log, Records
<1>3. \A r : Body(r)' = Body(r)
  BY DEF Body
<1> QED
  BY <1>1, <1>2, <1>3 DEF FollowsFrom, AtRest, Idle

LEMMA SuccessiveInit == Init => SuccessiveInv
<1> SUFFICES ASSUME Init PROVE SuccessiveInv
  OBVIOUS
<1>1. 1 \in 1 .. FirstUnfit
  BY FirstUnfitIs, ParameterAssumption
<1>2. OnHeader(1)
  BY <1>1, Starts DEF Init, OnHeader
<1>3. ~PastUnfit
  BY <1>2, OnHeaderIs
<1>4. consumed = <<>> /\ Len(consumed) = 0 /\ poller = "connecting" /\ app = "idle"
  BY DEF Init
<1>5. FollowsFrom(1)
  BY <1>2, <1>3, <1>4 DEF FollowsFrom, AtRest, Idle
<1> QED
  BY <1>5 DEF SuccessiveInv

\* A record more has been returned, and it is the next one.
LEMMA FollowReturn ==
  ASSUME TypeOK, NEW first \in {1, 2}, FollowsFrom(first), ReturnRecord
  PROVE  FollowsFrom(first)'
<1> DEFINE n == Len(consumed)
           next == first + n
<1>1. /\ app = "woken" /\ app' = "idle" /\ AtRest /\ AtRest'
      /\ UNCHANGED <<poller, read_status, size, peer_addr, producer_record>>
      /\ consumed' = Append(consumed, producer_record)
  BY DEF FollowsFrom, ReturnRecord, AtRest, readVars
<1>2. /\ consumed \in Seq(Seq(Cells \ {NUL})) /\ n \in Nat
      /\ producer_record \in Seq(Cells \ {NUL})
  BY DEF TypeOK
<1>3. /\ Len(consumed') = n + 1 /\ DOMAIN consumed' = 1 .. n + 1
      /\ DOMAIN consumed = 1 .. n
      /\ \A i \in 1 .. n : consumed'[i] = consumed[i]
      /\ consumed'[n + 1] = producer_record
  BY <1>1, <1>2
<1>4. PastUnfit' = PastUnfit /\ FirstUnfit' = FirstUnfit /\ FirstUnfit \in Nat
  BY <1>1, FirstUnfitIs, ParameterAssumption
     DEF PastUnfit, FrameStart, FirstUnfit, Log, Records
<1>5. \A r : OnBody(r) <=> OnBody(r)'
  BY <1>1 DEF OnBody, FrameStart, FirstUnfit, Log, Records
<1>6. \A r : Body(r)' = Body(r)
  BY DEF Body
<1>7. /\ \A i \in 1 .. n :
            first + i - 1 < FirstUnfit => consumed[i] = Body(first + i - 1)
      /\ PastUnfit => next >= FirstUnfit
      /\ ~PastUnfit => OnBody(next) /\ producer_record = Body(next)
  BY <1>1, <1>3 DEF FollowsFrom
<1>8. next \in Nat /\ first + (n + 1) - 1 = next /\ first + (n + 1) = next + 1
      /\ (next + 1) - 1 = next
  BY <1>2
<1> HIDE DEF n, next
<1>9. ASSUME NEW i \in 1 .. n + 1, first + i - 1 < FirstUnfit
      PROVE  consumed'[i] = Body(first + i - 1)
  <2>1. CASE i = n + 1
    BY <1>3, <1>4, <1>7, <1>8, <1>9, <2>1
  <2>2. CASE i # n + 1
    <3>1. i \in 1 .. n
      BY <1>2, <2>2
    <3> QED
      BY <1>3, <1>7, <1>9, <3>1
  <2> QED
    BY <2>1, <2>2
<1>10. PastUnfit => next + 1 >= FirstUnfit
  BY <1>4, <1>7, <1>8
<1>11. ~PastUnfit => OnBody((next + 1) - 1)
  BY <1>7, <1>8
<1> QED
  BY <1>1, <1>3, <1>4, <1>5, <1>6, <1>8, <1>9, <1>10, <1>11
     DEF FollowsFrom, AtRest, Idle

\* consumeRecord calls: it wakes the poller that waits with the record before the
\* next, or it is the first call, or the poller is going to wait in vain.
LEMMA FollowCall ==
  ASSUME TypeOK, NEW first \in {1, 2}, FollowsFrom(first), ConsumeRecord
  PROVE  FollowsFrom(first)'
<1>1. /\ app = "idle" /\ app' = "lock" /\ Idle /\ ~Idle'
      /\ UNCHANGED <<consumed, read_status, size, peer_addr, producer_record>>
      /\ \/ poller = "waiting" /\ poller' = "woken"
         \/ poller # "waiting" /\ UNCHANGED poller
  BY DEF ConsumeRecord, readVars, Idle
<1>2. PastUnfit' = PastUnfit /\ FirstUnfit' = FirstUnfit
  BY <1>1 DEF PastUnfit, FrameStart, FirstUnfit, Log, Records
<1>3. \A r : (OnHeader(r) <=> OnHeader(r)') /\ (OnBody(r) <=> OnBody(r)')
  BY <1>1 DEF OnHeader, OnBody, FrameStart, FirstUnfit, Log, Records
<1>4. \A r : Body(r)' = Body(r)
  BY DEF Body
<1> QED
  BY <1>1, <1>2, <1>3, <1>4 DEF FollowsFrom, AtRest

\* The poller has found the length of the next record, or has got past the records
\* that fit.
LEMMA FollowLength ==
  ASSUME TypeOK, NEW first \in {1, 2}, FollowsFrom(first), LengthFound, ~torn'
  PROVE  FollowsFrom(first)'
<1> DEFINE next == first + Len(consumed)
<1>1. /\ UNCHANGED <<consumed, app, producer_record>>
      /\ poller = "completion" /\ poller' = "idle"
      /\ read_status = "READ_POLLING" /\ peer_addr' = peer_addr + VAL_LENGTH
  BY DEF LengthFound, PostRead, appVars, BodyAddr
<1>2. FirstUnfit' = FirstUnfit /\ (\A r : Body(r)' = Body(r)) /\ next' = next
  BY <1>1 DEF FirstUnfit, Body, Records
<1>3. next \in Nat /\ FirstUnfit \in Nat
  BY FirstUnfitIs, ParameterAssumption DEF TypeOK
<1>4. /\ PastUnfit' => next >= FirstUnfit
      /\ ~PastUnfit' => OnBody(next)'
  <2>1. CASE PastUnfit
    <3>1. next >= FirstUnfit
      BY <2>1 DEF FollowsFrom
    <3>2. PastUnfit'
      <4>1. peer_addr \in Nat /\ VAL_LENGTH \in Nat
        BY ParameterAssumption DEF TypeOK
      <4>2. FrameStart(FirstUnfit) \in Nat
        BY Starts, FirstUnfitIs
      <4>3. peer_addr' > FrameStart(FirstUnfit)
        BY <1>1, <2>1, <4>1, <4>2 DEF PastUnfit
      <4> QED
        BY <4>3 DEF PastUnfit, FrameStart, FirstUnfit, Log, Records
    <3> QED
      BY <3>1, <3>2
  <2>2. CASE ~PastUnfit
    <3> PICK r : r = next
      OBVIOUS
    <3>1. OnHeader(r)
      BY <1>1, <2>2 DEF FollowsFrom, OnBody
    <3>2. CASE r = FirstUnfit
      BY <1>3, <3>1, <3>2, HeaderToBody
    <3>3. CASE r # FirstUnfit
      <4> HIDE DEF next
      <4>1. OnBody(r)'
        BY <3>1, <3>3, HeaderToBody
      <4>2. ~PastUnfit'
        <5>1. OnFrame'
          BY <4>1 DEF OnFrame
        <5> QED
          BY <5>1, FrameFits, PTL
      <4> QED
        BY <1>2, <4>1, <4>2
    <3> QED
      BY <3>2, <3>3
  <2> QED
    BY <2>1, <2>2
<1> HIDE DEF next
<1> QED
  BY <1>1, <1>2, <1>4 DEF FollowsFrom, AtRest, Idle, next

\* The poller has taken the next record.
LEMMA FollowRecord ==
  ASSUME TypeOK, NEW first \in {1, 2}, FollowsFrom(first), Deserialize, ~torn'
  PROVE  FollowsFrom(first)'
<1> DEFINE next == first + Len(consumed)
<1>1. /\ UNCHANGED <<consumed, app, read_status, size, peer_addr>>
      /\ poller = "completion" /\ poller' = "signal"
      /\ read_status = "READ_READY" /\ producer_record' = String(buffer) /\ Whole
  BY DEF Deserialize, appVars, readVars
<1>2. PastUnfit' = PastUnfit /\ FirstUnfit' = FirstUnfit
  BY <1>1 DEF PastUnfit, FrameStart, FirstUnfit, Log, Records
<1>3. (\A r : OnBody(r) <=> OnBody(r)') /\ \A r : Body(r)' = Body(r)
  BY <1>1 DEF OnBody, FrameStart, FirstUnfit, Log, Records, Body
<1>4. ~PastUnfit => OnBody(next) /\ producer_record' = Body(next)
  <2>1. ~PastUnfit => OnBody(next)
    BY <1>1 DEF FollowsFrom, OnHeader
  <2> QED
    BY <1>1, <2>1, BodyRead
<1> QED
  BY <1>1, <1>2, <1>3, <1>4 DEF FollowsFrom, AtRest, Idle

\* The poller goes on from the record before the next.
LEMMA FollowResume ==
  ASSUME TypeOK, NEW first \in {1, 2}, FollowsFrom(first), Resume
  PROVE  FollowsFrom(first)'
<1> DEFINE next == first + Len(consumed)
<1>1. /\ UNCHANGED <<consumed, app, producer_record>>
      /\ poller = "woken" /\ poller' = "idle"
      /\ read_status' = "READ_POLLING" /\ size' = VAL_LENGTH
      /\ peer_addr' = peer_addr + size
  BY DEF Resume, PostRead, appVars, NextAddr
<1>2. FirstUnfit' = FirstUnfit /\ (\A r : Body(r)' = Body(r)) /\ next' = next
  BY <1>1 DEF FirstUnfit, Body, Records
<1>3. next \in Nat /\ FirstUnfit \in Nat
  BY FirstUnfitIs, ParameterAssumption DEF TypeOK
<1>4. /\ PastUnfit' => next >= FirstUnfit
      /\ ~PastUnfit' => OnHeader(next)'
  <2>1. CASE PastUnfit
    <3>1. next >= FirstUnfit
      BY <2>1 DEF FollowsFrom
    <3>2. PastUnfit'
      <4>1. peer_addr \in Nat /\ size \in Nat
        BY DEF TypeOK
      <4>2. FrameStart(FirstUnfit) \in Nat
        BY Starts, FirstUnfitIs
      <4>3. peer_addr' > FrameStart(FirstUnfit)
        BY <1>1, <2>1, <4>1, <4>2 DEF PastUnfit
      <4> QED
        BY <4>3 DEF PastUnfit, FrameStart, FirstUnfit, Log, Records
    <3> QED
      BY <3>1, <3>2
  <2>2. CASE ~PastUnfit
    <3> PICK r : r = next - 1
      OBVIOUS
    <3>1. OnBody(r) /\ r + 1 = next
      BY <1>1, <1>3, <2>2 DEF FollowsFrom
    <3>2. next \in 1 .. FirstUnfit /\ peer_addr' = FrameStart(next)
      BY <1>1, <3>1, OnBodyIs
    <3>3. OnHeader(next)'
      BY <1>1, <1>2, <3>2 DEF OnHeader, FrameStart, Log
    <3>4. ~PastUnfit'
      <4>1. OnFrame'
        BY <3>3 DEF OnFrame
      <4> QED
        BY <4>1, FrameFits, PTL
    <3> QED
      BY <3>3, <3>4
  <2> QED
    BY <2>1, <2>2
<1> HIDE DEF next
<1> QED
  BY <1>1, <1>2, <1>4 DEF FollowsFrom, AtRest, Idle, next

\* The poller signals: to the call that waits for the next record, to no one before
\* the first call, which is going to have the second record, or in vain.
LEMMA FollowSignal ==
  ASSUME TypeOK, NEW first \in {1, 2}, FollowsFrom(first), SignalConsumer
  PROVE  FollowsFrom(first)' \/ FollowsFrom(2)'
<1> DEFINE next == first + Len(consumed)
<1>1. /\ UNCHANGED <<consumed, read_status, size, peer_addr, producer_record>>
      /\ poller = "signal" /\ poller' = "prewait"
      /\ app' = IF app = "waiting" THEN "woken" ELSE app
  BY DEF SignalConsumer, readVars
<1>2. PastUnfit' = PastUnfit /\ FirstUnfit' = FirstUnfit
  BY <1>1 DEF PastUnfit, FrameStart, FirstUnfit, Log, Records
<1>3. (\A r : OnBody(r) <=> OnBody(r)') /\ \A r : Body(r)' = Body(r)
  BY <1>1 DEF OnBody, FrameStart, FirstUnfit, Log, Records, Body
<1>4. app # "woken"
  BY <1>1 DEF FollowsFrom, AtRest
<1>5. CASE ~Idle \/ PastUnfit
  <2>1. FollowsFrom(first)'
    BY <1>1, <1>2, <1>3, <1>4, <1>5 DEF FollowsFrom, AtRest, Idle
  <2> QED
    BY <2>1
<1>6. CASE Idle /\ ~PastUnfit
  <2>1. first = 1 /\ consumed = <<>> /\ OnBody(1 + Len(consumed))
    BY <1>1, <1>6 DEF FollowsFrom, AtRest
  <2>2. Len(consumed) = 0 /\ consumed' = <<>> /\ Len(consumed') = 0 /\ OnBody(1)'
    BY <1>1, <1>3, <2>1
  <2>3. Idle' /\ AtRest' /\ app' # "woken"
    BY <1>1, <1>6 DEF Idle, AtRest
  <2>4. FollowsFrom(2)'
    BY <1>1, <1>2, <1>6, <2>2, <2>3 DEF FollowsFrom
  <2> QED
    BY <2>4
<1> QED
  BY <1>5, <1>6

LEMMA SuccessiveStep == TypeOK /\ SuccessiveInv /\ [Next]_vars => SuccessiveInv'
<1> SUFFICES ASSUME TypeOK, SuccessiveInv, [Next]_vars, ~torn', spurious' = 0
             PROVE  \E first \in {1, 2} : FollowsFrom(first)'
  BY DEF SuccessiveInv
<1>1. ~torn /\ spurious = 0
  <2>1. CASE SpuriousWakeup
    BY <2>1 DEF SpuriousWakeup, TypeOK
  <2>2. CASE LengthFound \/ Deserialize \/ NoSeparator
    <3>1. torn' = (torn \/ ~Whole) /\ spurious' = spurious
      BY <2>2 DEF LengthFound, Deserialize, NoSeparator
    <3> QED
      BY <3>1
  <2>3. CASE ~ (SpuriousWakeup \/ LengthFound \/ Deserialize \/ NoSeparator)
    <3>1. UNCHANGED <<torn, spurious>>
      BY <2>3 DEF Next, AppStep, PollerStep, CmStep, ConsumeRecord,
         WaitForPolling, ReturnRecord, Terminate, SignalConsumer, WaitForConsumer,
         OnReady, ReadDone, PollAgain, Resume, StaleContext, WriteCell, CmError,
         BrokerExit, ReadFails, AddrResolved, RouteResolved, Established,
         ConnectionLost, Goes, Dies, vars
    <3> QED
      BY <3>1
  <2> QED
    BY <2>1, <2>2, <2>3
<1>2. PICK first \in {1, 2} : FollowsFrom(first)
  BY <1>1 DEF SuccessiveInv
<1>3. CASE ReturnRecord
  BY <1>2, <1>3, FollowReturn
<1>4. CASE ConsumeRecord
  BY <1>2, <1>4, FollowCall
<1>5. CASE LengthFound
  BY <1>2, <1>5, FollowLength
<1>6. CASE Deserialize
  BY <1>2, <1>6, FollowRecord
<1>7. CASE Resume
  BY <1>2, <1>7, FollowResume
<1>8. CASE SignalConsumer
  BY <1>2, <1>8, FollowSignal
<1>9. CASE WaitForPolling \/ Terminate
  <2>1. /\ UNCHANGED <<consumed, read_status, size, peer_addr, producer_record,
                       poller>>
        /\ (Idle /\ Idle') \/ {app, app'} \subseteq {"lock", "waiting"}
    BY <1>9 DEF WaitForPolling, Terminate, readVars, Idle
  <2> QED
    BY <1>2, <2>1, FollowStays
<1>10. CASE OnReady \/ ReadDone \/ PollAgain
  <2>1. /\ UNCHANGED <<consumed, read_status, size, peer_addr, producer_record, app>>
        /\ {poller, poller'} \subseteq {"connecting", "idle", "completion"}
    BY <1>10 DEF OnReady, ReadDone, PollAgain, PostRead, appVars, readVars
  <2> QED
    BY <1>2, <2>1, FollowStays
<1>11. CASE WaitForConsumer
  <2>1. /\ UNCHANGED <<consumed, read_status, size, peer_addr, producer_record, app>>
        /\ {poller, poller'} \subseteq {"prewait", "waiting"}
    BY <1>11 DEF WaitForConsumer, appVars, readVars
  <2> QED
    BY <1>2, <2>1, FollowStays
<1>12. CASE \/ WriteCell \/ CmError \/ BrokerExit \/ ReadFails \/ CmStep
            \/ NoSeparator \/ StaleContext \/ UNCHANGED vars
  <2>1. UNCHANGED <<consumed, read_status, size, peer_addr, producer_record, app,
                    poller>>
    BY <1>12 DEF WriteCell, CmError, BrokerExit, ReadFails, CmStep, AddrResolved,
       RouteResolved, Established, ConnectionLost, NoSeparator, StaleContext, Goes,
       Dies, appVars, readVars, vars
  <2> QED
    BY <1>2, <2>1, FollowStays
<1>13. CASE SpuriousWakeup
  BY <1>1, <1>13 DEF SpuriousWakeup
<1> QED
  BY <1>3, <1>4, <1>5, <1>6, <1>7, <1>8, <1>9, <1>10, <1>11, <1>12, <1>13
     DEF Next, AppStep, PollerStep

\* The inductive invariant holds throughout.
THEOREM Successive == Spec => []SuccessiveInv
  BY TypeCorrect, SuccessiveInit, SuccessiveStep, PTL DEF Spec

\* Without torn reads and spurious wakeups consumeRecord returns one record after the
\* other, whole, up to the first that does not fit its header; a first call that comes
\* late starts from the second.
THEOREM RecordsAreSuccessive == Spec => []SuccessiveRecords
<1>1. SuccessiveInv => SuccessiveRecords
  BY DEF SuccessiveInv, FollowsFrom, SuccessiveRecords
<1> QED
  BY <1>1, Successive, PTL
=============================================================================
