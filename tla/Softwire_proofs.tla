--------------------------- MODULE Softwire_proofs ---------------------------
(***************************************************************************)
(* Theorems about the data path, for any tunnels, sessions, sizes and      *)
(* datagrams: cutting and reassembly, the incremental checksums for every  *)
(* width of a word, the ICMP errors, and that what leaves the tunnel is    *)
(* whole, unchanged and at the right host.  Some definitions recurse over  *)
(* sets and over offsets; what is proved of those is proved for a smallest *)
(* counterexample.                                                         *)
(***************************************************************************)
EXTENDS Softwire, FiniteSetTheorems, WellFoundedInduction, TLAPS

-----------------------------------------------------------------------------
(***************************************************************************)
(* Induction, in a form without operators.                                 *)
(***************************************************************************)

\* Of a nonempty collection of finite sets one contains no other.
LEMMA SmallestSet ==
  ASSUME NEW S, NEW Bad \in SUBSET SUBSET S, Bad # {}, \A T \in Bad : IsFiniteSet(T)
  PROVE  \E T \in Bad : \A U \in SUBSET T : U # T => U \notin Bad
<1>1. Bad \subseteq FiniteSubsetsOf(S)
  BY DEF FiniteSubsetsOf
<1>2. PICK T \in Bad : \A U \in Bad : <<U, T>> \notin StrictSubsetOrdering(S)
  BY <1>1, FS_StrictSubsetOrderingWellFounded, WFMin
<1> QED
  BY <1>2 DEF StrictSubsetOrdering

\* Of a nonempty set of numbers below a bound one is the largest.
LEMMA LargestNumber ==
  ASSUME NEW n \in Nat, NEW Bad \in SUBSET (0 .. n), Bad # {}
  PROVE  \E m \in Bad : \A k \in Bad : k <= m
<1> DEFINE Above(m) == m .. n
           Sets     == {Above(m) : m \in Bad}
<1>0. \A m \in Bad : Above(m) \subseteq 0 .. n
  OBVIOUS
<1>1. Sets \in SUBSET SUBSET (0 .. n) /\ Sets # {}
  BY <1>0
<1>2. \A T \in Sets : IsFiniteSet(T)
  BY FS_Interval
<1>3. PICK T \in Sets : \A U \in SUBSET T : U # T => U \notin Sets
  BY <1>1, <1>2, SmallestSet
<1>4. PICK m \in Bad : T = Above(m)
  OBVIOUS
<1>5. ASSUME NEW k \in Bad, k > m
      PROVE  FALSE
  <2>1. Above(k) \subseteq Above(m) /\ m \in Above(m) /\ m \notin Above(k)
    BY <1>5
  <2> QED
    BY <1>3, <1>4, <2>1
<1> QED
  BY <1>5

-----------------------------------------------------------------------------
(***************************************************************************)
(* Sums.  f adds up the weights of the members of every subset of S, taking*)
(* them one by one in the order CHOOSE gives them.                         *)
(***************************************************************************)
Chosen(s) == CHOOSE x \in s : TRUE

AddsUp(f, S, w) ==
  f = [s \in SUBSET S |-> IF s = {} THEN 0 ELSE w[Chosen(s)] + f[s \ {Chosen(s)}]]

\* Two functions that add the same weights up agree where both are defined.
LEMMA OneSum ==
  ASSUME NEW S, IsFiniteSet(S), NEW R, S \subseteq R, NEW w, NEW f, NEW g,
         AddsUp(f, S, w), AddsUp(g, R, w)
  PROVE  f[S] = g[S]
<1> DEFINE Bad == {T \in SUBSET S : f[T] # g[T]}
<1>1. CASE Bad = {}
  BY <1>1
<1>2. CASE Bad # {}
  <2>1. Bad \in SUBSET SUBSET S /\ \A T \in Bad : IsFiniteSet(T)
    BY FS_Subset
  <2>2. PICK T \in Bad : \A U \in SUBSET T : U # T => U \notin Bad
    <3> HIDE DEF Bad
    <3> QED
      BY <1>2, <2>1, SmallestSet
  <2>3. T # {} => Chosen(T) \in T
    BY DEF Chosen
  <2>4. T # {} => f[T \ {Chosen(T)}] = g[T \ {Chosen(T)}]
    BY <2>2, <2>3
  <2>5. /\ f[T] = IF T = {} THEN 0 ELSE w[Chosen(T)] + f[T \ {Chosen(T)}]
        /\ g[T] = IF T = {} THEN 0 ELSE w[Chosen(T)] + g[T \ {Chosen(T)}]
    BY <2>2 DEF AddsUp
  <2> QED
    BY <2>2, <2>4, <2>5
<1> QED
  BY <1>1, <1>2

\* There is one for every finite set.
LEMMA SumExists ==
  ASSUME NEW S, IsFiniteSet(S), NEW w
  PROVE  \E f : AddsUp(f, S, w)
<1> DEFINE Bad == {T \in SUBSET S : ~\E f : AddsUp(f, T, w)}
<1>1. CASE Bad = {}
  BY <1>1
<1>2. CASE Bad # {}
  <2>1. Bad \in SUBSET SUBSET S /\ \A T \in Bad : IsFiniteSet(T)
    BY FS_Subset
  <2>2. PICK T \in Bad : \A U \in SUBSET T : U # T => U \notin Bad
    <3> HIDE DEF Bad
    <3> QED
      BY <1>2, <2>1, SmallestSet
  <2> DEFINE Part(s) == CHOOSE f : AddsUp(f, s, w)
             Rest(s) == s \ {Chosen(s)}
             g == [s \in SUBSET T |->
                     IF s = {} THEN 0 ELSE w[Chosen(s)] + Part(Rest(s))[Rest(s)]]
  <2>3. ASSUME NEW U \in SUBSET T, U # T
        PROVE  AddsUp(Part(U), U, w)
    BY <2>2, <2>3
  <2>4. ASSUME NEW U \in SUBSET T, U # T, U # {}
        PROVE  Part(U)[U] = w[Chosen(U)] + Part(Rest(U))[Rest(U)]
    <3>0. AddsUp(Part(U), U, w)
      BY <2>3, <2>4
    <3>1. Part(U)[U] = w[Chosen(U)] + Part(U)[Rest(U)]
      <4> HIDE DEF Part
      <4> QED
        BY <3>0, <2>4 DEF AddsUp
    <3>2. Rest(U) \in SUBSET T /\ Rest(U) # T /\ Rest(U) \subseteq U /\ Chosen(U) \in U
      BY <2>4 DEF Chosen
    <3>3. AddsUp(Part(Rest(U)), Rest(U), w) /\ AddsUp(Part(U), U, w)
      BY <2>3, <2>4, <3>2
    <3>4. IsFiniteSet(Rest(U))
      BY FS_Subset, <3>2
    <3> HIDE DEF Part, Rest
    <3>5. Part(Rest(U))[Rest(U)] = Part(U)[Rest(U)]
      BY <3>2, <3>3, <3>4, OneSum
    <3> QED
      BY <3>1, <3>5
  <2>5. ASSUME NEW U \in SUBSET T, U # T
        PROVE  g[U] = Part(U)[U]
    <3>1. CASE U = {}
      <4>1. AddsUp(Part({}), {}, w)
        BY <2>3, <2>5, <3>1
      <4> QED
        BY <3>1, <4>1 DEF AddsUp
    <3>2. CASE U # {}
      BY <2>4, <2>5, <3>2
    <3> QED
      BY <3>1, <3>2
  <2>6. ASSUME NEW s \in SUBSET T, s # {}
        PROVE  Part(Rest(s))[Rest(s)] = g[Rest(s)]
    <3>1. Rest(s) \in SUBSET T /\ Rest(s) # T
      BY <2>6 DEF Chosen
    <3> HIDE DEF Rest, g, Part
    <3> QED
      BY <2>5, <3>1
  <2>7. AddsUp(g, T, w)
    <3> DEFINE h == [s \in SUBSET T |-> IF s = {} THEN 0 ELSE w[Chosen(s)] + g[Rest(s)]]
    <3>1. ASSUME NEW s \in SUBSET T
          PROVE  g[s] = h[s]
      <4> HIDE DEF Part, Rest
      <4> QED
        BY <2>6
    <3>2. g = h
      <4> HIDE DEF Part, Rest
      <4>1. DOMAIN g = SUBSET T /\ DOMAIN h = SUBSET T
        OBVIOUS
      <4>2. g = [s \in SUBSET T |-> g[s]] /\ h = [s \in SUBSET T |-> h[s]]
        OBVIOUS
      <4> HIDE DEF g, h
      <4> QED
        BY <3>1, <4>2
    <3> HIDE DEF g
    <3> QED
      BY <3>2 DEF AddsUp
  <2> QED
    BY <2>2, <2>7
<1> QED
  BY <1>1, <1>2

\* A sum of numbers is a number.
LEMMA SumType ==
  ASSUME NEW S, IsFiniteSet(S), NEW w \in [S -> Int], NEW f, AddsUp(f, S, w)
  PROVE  \A T \in SUBSET S : f[T] \in Int
<1> DEFINE Bad == {T \in SUBSET S : f[T] \notin Int}
<1>1. CASE Bad = {}
  BY <1>1
<1>2. CASE Bad # {}
  <2>1. Bad \in SUBSET SUBSET S /\ \A T \in Bad : IsFiniteSet(T)
    BY FS_Subset
  <2>2. PICK T \in Bad : \A U \in SUBSET T : U # T => U \notin Bad
    <3> HIDE DEF Bad
    <3> QED
      BY <1>2, <2>1, SmallestSet
  <2>3. T # {} => Chosen(T) \in T
    BY DEF Chosen
  <2>4. T # {} => f[T \ {Chosen(T)}] \in Int
    BY <2>2, <2>3
  <2>5. f[T] = IF T = {} THEN 0 ELSE w[Chosen(T)] + f[T \ {Chosen(T)}]
    BY <2>2 DEF AddsUp
  <2>6. T # {} => w[Chosen(T)] \in Int
    BY <2>3
  <2>7. f[T] \in Int
    BY <2>4, <2>5, <2>6
  <2> QED
    BY <2>7
<1> QED
  BY <1>1, <1>2

\* A sum grows by the weight of what is added, in whatever order it is taken.
LEMMA SumAdds ==
  ASSUME NEW S, IsFiniteSet(S), NEW w \in [S -> Int], NEW f, AddsUp(f, S, w),
         NEW T \in SUBSET S, NEW x \in T
  PROVE  f[T] = w[x] + f[T \ {x}]
<1> DEFINE Bad == {U \in SUBSET S : \E z \in U : f[U] # w[z] + f[U \ {z}]}
<1>1. CASE Bad = {}
  BY <1>1
<1>2. CASE Bad # {}
  <2>1. Bad \in SUBSET SUBSET S /\ \A U \in Bad : IsFiniteSet(U)
    BY FS_Subset
  <2>2. PICK U \in Bad : \A V \in SUBSET U : V # U => V \notin Bad
    <3> HIDE DEF Bad
    <3> QED
      BY <1>2, <2>1, SmallestSet
  <2>3. PICK z \in U : f[U] # w[z] + f[U \ {z}]
    BY <2>2
  <2> DEFINE y == Chosen(U)
  <2>4. y \in U /\ f[U] = w[y] + f[U \ {y}]
    BY <2>2 DEF Chosen, AddsUp
  <2> HIDE DEF y
  <2>5. y # z
    BY <2>3, <2>4
  <2>6. /\ U \ {y} \in SUBSET U /\ U \ {y} # U /\ z \in U \ {y}
        /\ U \ {z} \in SUBSET U /\ U \ {z} # U /\ y \in U \ {z}
        /\ (U \ {y}) \ {z} = (U \ {z}) \ {y}
    BY <2>4, <2>5
  <2>7. f[U \ {y}] = w[z] + f[(U \ {y}) \ {z}]
    BY <2>2, <2>6
  <2>8. f[U \ {z}] = w[y] + f[(U \ {y}) \ {z}]
    <3>1. f[U \ {z}] = w[y] + f[(U \ {z}) \ {y}]
      BY <2>2, <2>6
    <3> QED
      BY <2>6, <3>1
  <2>9. w[y] \in Int /\ w[z] \in Int /\ f[(U \ {y}) \ {z}] \in Int
    BY <2>2, <2>4, SumType
  <2> QED
    BY <2>3, <2>4, <2>7, <2>8, <2>9
<1> QED
  BY <1>1, <1>2

-----------------------------------------------------------------------------
(***************************************************************************)
(* The bytes a piece stands for, and pieces that lie side by side: then    *)
(* the sum of the lengths is the number of bytes they cover.               *)
(***************************************************************************)
Bytes(p)   == p.off .. p.off + p.len - 1
Covered(S) == UNION {Bytes(p) : p \in S}

Sized(S)  == \A p \in S : p.off \in Nat /\ p.len \in Nat \ {0}
Apart(S)  == \A p, q \in S : p # q => Bytes(p) \cap Bytes(q) = {}

\* Members of S stand for sets B that have nothing in common, and weigh what those have.
LEMMA SumOfParts ==
  ASSUME NEW S, IsFiniteSet(S), NEW B, NEW w \in [S -> Nat], NEW f, AddsUp(f, S, w),
         \A x \in S : IsFiniteSet(B[x]) /\ w[x] = Cardinality(B[x]),
         \A x, y \in S : x # y => B[x] \cap B[y] = {},
         NEW R, R = UNION {B[x] : x \in S}
  PROVE  IsFiniteSet(R) /\ f[S] = Cardinality(R)
<1> DEFINE All(T)  == UNION {B[x] : x \in T}
           Good(T) == IsFiniteSet(All(T)) /\ f[T] = Cardinality(All(T))
           Bad == {T \in SUBSET S : ~Good(T)}
<1>1. CASE Bad = {}
  BY <1>1
<1>2. CASE Bad # {}
  <2>1. Bad \in SUBSET SUBSET S /\ \A U \in Bad : IsFiniteSet(U)
    BY FS_Subset
  <2>2. PICK T \in Bad : \A U \in SUBSET T : U # T => U \notin Bad
    <3> HIDE DEF Bad
    <3> QED
      BY <1>2, <2>1, SmallestSet
  <2>3. CASE T = {}
    <3>1. f[{}] = 0 /\ All({}) = {}
      BY DEF AddsUp
    <3> QED
      BY <2>2, <2>3, <3>1, FS_EmptySet
  <2>4. CASE T # {}
    <3>1. PICK x \in T : TRUE
      BY <2>4
    <3>2. Good(T \ {x})
      BY <2>2
    <3>3. w \in [S -> Int] /\ x \in S /\ T \in SUBSET S
      BY <2>2
    <3>4. f[T] = w[x] + f[T \ {x}]
      BY <3>3, SumAdds
    <3>5. All(T) = All(T \ {x}) \cup B[x] /\ All(T \ {x}) \cap B[x] = {}
      BY <2>2
    <3> DEFINE V == All(T \ {x})
               C == B[x]
    <3>6. IsFiniteSet(V) /\ f[T \ {x}] = Cardinality(V)
      BY <3>2
    <3>7. IsFiniteSet(C) /\ Cardinality(C) = w[x]
      BY <3>3
    <3>8. All(T) = V \cup C /\ V \cap C = {}
      BY <3>5
    <3> HIDE DEF V, C, All
    <3>9. Cardinality(V) \in Nat /\ w[x] \in Nat
      BY <3>3, <3>6, FS_CardinalityType
    <3>10. IsFiniteSet(V \cup C) /\ Cardinality(V \cup C) = Cardinality(V) + Cardinality(C) - 0
      BY <3>6, <3>7, <3>8, FS_Union, FS_EmptySet
    <3>11. f[T] = Cardinality(All(T)) /\ IsFiniteSet(All(T))
      BY <3>4, <3>6, <3>7, <3>8, <3>9, <3>10
    <3> QED
      BY <2>2, <3>11
  <2> QED
    BY <2>3, <2>4
<1> QED
  BY <1>1, <1>2

\* The length of a packet is the sum of its fragments' lengths (fragprocess).
LEMMA LenAddsUp ==
  ASSUME NEW frags, IsFiniteSet(frags)
  PROVE  \E f : AddsUp(f, frags, [p \in frags |-> p.len]) /\ PacketLen(frags) = f[frags]
<1> DEFINE w     == [p \in frags |-> p.len]
           Eq(f) == f = [s \in SUBSET frags |->
                           IF s = {} THEN 0
                           ELSE (CHOOSE x \in s : TRUE).len + f[s \ {CHOOSE x \in s : TRUE}]]
<1>1. ASSUME NEW f
      PROVE  Eq(f) <=> AddsUp(f, frags, w)
  <2>1. \A s \in SUBSET frags : s # {} => (CHOOSE x \in s : TRUE).len = w[Chosen(s)]
    BY DEF Chosen
  <2> HIDE DEF w
  <2> QED
    BY <2>1 DEF AddsUp, Chosen
<1>2. PICK g : AddsUp(g, frags, w)
  BY SumExists
<1>3. Eq(CHOOSE f : Eq(f))
  <2>1. Eq(g)
    BY <1>1, <1>2
  <2> HIDE DEF Eq
  <2> QED
    BY <2>1, Zenon
<1>4. PacketLen(frags) = (CHOOSE f : Eq(f))[frags]
  BY DEF PacketLen, MapThenSumSet, MapThenFoldSet
<1> QED
  BY <1>1, <1>3, <1>4

\* What the IPv4 packets S carry is the sum of what each does (pkt_fraghandle).
PayloadLen(S) == MapThenSumSet(LAMBDA o : o.len - HDR4, S)

LEMMA PayloadAddsUp ==
  ASSUME NEW S, IsFiniteSet(S)
  PROVE  \E f : AddsUp(f, S, [o \in S |-> o.len - HDR4]) /\ PayloadLen(S) = f[S]
<1> DEFINE w     == [o \in S |-> o.len - HDR4]
           Eq(f) == f = [s \in SUBSET S |->
                           IF s = {} THEN 0
                           ELSE (CHOOSE x \in s : TRUE).len - HDR4 + f[s \ {CHOOSE x \in s : TRUE}]]
<1>1. ASSUME NEW f
      PROVE  Eq(f) <=> AddsUp(f, S, w)
  <2>1. \A s \in SUBSET S : s # {} => (CHOOSE x \in s : TRUE).len - HDR4 = w[Chosen(s)]
    BY DEF Chosen
  <2> HIDE DEF w
  <2> QED
    BY <2>1 DEF AddsUp, Chosen
<1>2. PICK g : AddsUp(g, S, w)
  BY SumExists
<1>3. Eq(CHOOSE f : Eq(f))
  <2>1. Eq(g)
    BY <1>1, <1>2
  <2> HIDE DEF Eq
  <2> QED
    BY <2>1, Zenon
<1>4. PayloadLen(S) = (CHOOSE f : Eq(f))[S]
  BY DEF PayloadLen, MapThenSumSet, MapThenFoldSet
<1> QED
  BY <1>1, <1>3, <1>4

LEMMA FirstBytes ==
  ASSUME NEW n \in Nat
  PROVE  IsFiniteSet(0 .. n - 1) /\ Cardinality(0 .. n - 1) = n
<1>1. 0 \in Int /\ n - 1 \in Int
  OBVIOUS
<1>2. IsFiniteSet(0 .. n - 1) /\ Cardinality(0 .. n - 1) = IF 0 > n - 1 THEN 0 ELSE n - 1 - 0 + 1
  BY <1>1, FS_Interval, Zenon
<1> QED
  BY <1>2

LEMMA BytesOfOne ==
  ASSUME NEW p, p.off \in Nat, p.len \in Nat \ {0}
  PROVE  IsFiniteSet(Bytes(p)) /\ Cardinality(Bytes(p)) = p.len
<1>1. ASSUME NEW a \in Nat, NEW l \in Nat \ {0}
      PROVE  IsFiniteSet(a .. a + l - 1) /\ Cardinality(a .. a + l - 1) = l
  <2> DEFINE b == a + l - 1
  <2>1. a \in Int /\ b \in Int /\ ~(a > b) /\ b - a + 1 = l
    OBVIOUS
  <2> HIDE DEF b
  <2>2. IsFiniteSet(a .. b) /\ Cardinality(a .. b) = IF a > b THEN 0 ELSE b - a + 1
    BY <2>1, FS_Interval, Zenon
  <2> QED
    BY <2>1, <2>2 DEF b
<1> QED
  BY <1>1 DEF Bytes

\* The length of a packet whose fragments lie side by side is the number of the
\* bytes that have arrived: it grows with each, by as much as that brings.
THEOREM LengthIsBytes ==
  ASSUME NEW frags, IsFiniteSet(frags), Sized(frags), Apart(frags)
  PROVE  IsFiniteSet(Covered(frags)) /\ PacketLen(frags) = Cardinality(Covered(frags))
<1> DEFINE B == [p \in frags |-> Bytes(p)]
           w == [p \in frags |-> p.len]
<1>1. PICK f : AddsUp(f, frags, w) /\ PacketLen(frags) = f[frags]
  BY LenAddsUp
<1>2. ASSUME NEW p \in frags
      PROVE  IsFiniteSet(Bytes(p)) /\ p.len = Cardinality(Bytes(p))
  BY BytesOfOne DEF Sized
<1>3. /\ w \in [frags -> Nat]
      /\ \A x \in frags : IsFiniteSet(B[x]) /\ w[x] = Cardinality(B[x])
      /\ \A x, y \in frags : x # y => B[x] \cap B[y] = {}
  BY <1>2 DEF Sized, Apart
<1>4. UNION {B[x] : x \in frags} = Covered(frags)
  BY DEF Covered
<1> HIDE DEF B, w
<1> QED
  BY <1>1, <1>3, <1>4, SumOfParts

-----------------------------------------------------------------------------
(***************************************************************************)
(* Cutting.  A cut of the bytes from lo to n: pieces that lie side by side *)
(* and cover them.                                                         *)
(***************************************************************************)
Cut(S, lo, n) == /\ IsFiniteSet(S) /\ Sized(S) /\ Apart(S)
                 /\ Covered(S) = lo .. n - 1

Piece(y, step) == [off |-> y, len |-> step[y]]

\* from[y] are the pieces from y on, each as long as step says.
CutsOn(from, n, step) ==
  from = [y \in 0 .. n |-> IF y = n THEN {} ELSE {Piece(y, step)} \cup from[y + step[y]]]

Steps(n, step) == /\ step \in [0 .. n - 1 -> Nat \ {0}]
                  /\ \A y \in 0 .. n - 1 : y + step[y] <= n

\* There is such a function: the places reached from y are in every set that has y
\* and is closed under the steps.
LEMMA CutExists ==
  ASSUME NEW n \in Nat, NEW step, Steps(n, step)
  PROVE  \E from : CutsOn(from, n, step)
<1> DEFINE Closed(X) == \A x \in X : x # n => x + step[x] \in X
           Reach(y)  == {x \in 0 .. n : \A X \in SUBSET (0 .. n) : y \in X /\ Closed(X) => x \in X}
           from      == [y \in 0 .. n |-> {Piece(x, step) : x \in Reach(y) \ {n}}]
<1>1. ASSUME NEW y \in 0 .. n
      PROVE  y \in Reach(y) /\ Reach(y) \subseteq 0 .. n
  OBVIOUS
<1>2. Reach(n) = {n}
  <2>1. Closed({n}) /\ {n} \in SUBSET (0 .. n)
    OBVIOUS
  <2>2. Reach(n) \subseteq {n}
    BY <2>1
  <2> QED
    BY <1>1, <2>2
<1>3. ASSUME NEW y \in 0 .. n - 1
      PROVE  Reach(y) = {y} \cup Reach(y + step[y])
  <2> DEFINE z == y + step[y]
  <2>1. y \in 0 .. n /\ z \in 0 .. n /\ y # n
    BY DEF Steps
  <2> HIDE DEF z
  <2>2. ASSUME NEW X \in SUBSET (0 .. n), y \in X, Closed(X)
        PROVE  z \in X
    BY <2>1, <2>2 DEF z
  <2>3. Reach(z) \subseteq Reach(y)
    BY <2>2
  <2>4. Closed({y} \cup Reach(z))
    <3>1. ASSUME NEW x \in Reach(z), x # n
          PROVE  x + step[x] \in Reach(z)
      <4>1. x + step[x] \in 0 .. n
        BY <3>1 DEF Steps
      <4> QED
        BY <3>1, <4>1
    <3>2. z \in Reach(z)
      BY <1>1, <2>1
    <3> QED
      BY <2>1, <3>1, <3>2 DEF z
  <2>5. {y} \cup Reach(z) \in SUBSET (0 .. n)
    BY <1>1, <2>1
  <2>6. Reach(y) \subseteq {y} \cup Reach(z)
    <3> DEFINE C == {y} \cup Reach(z)
    <3>1. C \in SUBSET (0 .. n) /\ y \in C /\ Closed(C)
      BY <2>4, <2>5
    <3> HIDE DEF C, Closed
    <3> QED
      BY <3>1 DEF C
  <2>7. y \in Reach(y)
    BY <1>1, <2>1
  <2> QED
    BY <2>3, <2>6, <2>7 DEF z
<1> HIDE DEF Reach
<1>4. ASSUME NEW y \in 0 .. n
      PROVE  from[y] = IF y = n THEN {} ELSE {Piece(y, step)} \cup from[y + step[y]]
  <2>1. CASE y = n
    BY <1>2, <2>1
  <2>2. CASE y # n
    <3>1. y \in 0 .. n - 1 /\ y + step[y] \in 0 .. n
      BY <2>2 DEF Steps
    <3>2. Reach(y) \ {n} = {y} \cup (Reach(y + step[y]) \ {n})
      BY <1>3, <3>1
    <3>3. {Piece(x, step) : x \in Reach(y) \ {n}}
            = {Piece(y, step)} \cup {Piece(x, step) : x \in Reach(y + step[y]) \ {n}}
      BY <3>2
    <3> QED
      BY <2>2, <3>1, <3>3
  <2> QED
    BY <2>1, <2>2
<1>5. CutsOn(from, n, step)
  <2> DEFINE g == [y \in 0 .. n |-> IF y = n THEN {} ELSE {Piece(y, step)} \cup from[y + step[y]]]
  <2>1. from = [y \in 0 .. n |-> from[y]]
    OBVIOUS
  <2> HIDE DEF from
  <2>2. from = g
    BY <1>4, <2>1
  <2> QED
    BY <2>2 DEF CutsOn
<1> QED
  BY <1>5

\* What such a function yields is a cut, and steps that are multiples of m but for
\* the last keep every piece at a multiple of m.
LEMMA CutsRight ==
  ASSUME NEW n \in Nat, NEW step, Steps(n, step), NEW from, CutsOn(from, n, step),
         \A y \in 0 .. n - 1 : y % 8 = 0 => y + step[y] = n \/ (y + step[y]) % 8 = 0
  PROVE  \A y \in 0 .. n :
           /\ Cut(from[y], y, n)
           /\ \A p \in from[y] : p.off \in 0 .. n - 1 /\ p = Piece(p.off, step)
           /\ y % 8 = 0 => \A p \in from[y] : p.off % 8 = 0
<1> DEFINE Good(y) == /\ Cut(from[y], y, n)
                      /\ \A p \in from[y] : p.off \in 0 .. n - 1 /\ p = Piece(p.off, step)
                      /\ y % 8 = 0 => \A p \in from[y] : p.off % 8 = 0
           Bad == {y \in 0 .. n : ~Good(y)}
<1>1. CASE Bad = {}
  BY <1>1
<1>2. CASE Bad # {}
  <2>1. PICK y \in Bad : \A k \in Bad : k <= y
    <3>1. Bad \in SUBSET (0 .. n)
      OBVIOUS
    <3> HIDE DEF Bad
    <3> QED
      BY <1>2, <3>1, LargestNumber
  <2>2. y \in 0 .. n /\ ~Good(y)
    OBVIOUS
  <2>3. CASE y = n
    <3>1. from[y] = {} /\ y .. n - 1 = {}
      BY <2>2, <2>3 DEF CutsOn
    <3> QED
      BY <2>2, <3>1, FS_EmptySet DEF Cut, Sized, Apart, Covered
  <2>4. CASE y # n
    <3> DEFINE z == y + step[y]
               x == Piece(y, step)
    <3>1. y \in 0 .. n - 1 /\ step[y] \in Nat \ {0} /\ z \in 0 .. n /\ z > y
      BY <2>2, <2>4 DEF Steps
    <3>2. from[y] = {x} \cup from[z]
      BY <2>2, <2>4 DEF CutsOn
    <3>3. Good(z)
      <4>1. z \notin Bad
        <5> HIDE DEF Bad, z
        <5> QED
          BY <2>1, <2>2, <3>1
      <4> QED
        BY <3>1, <4>1
    <3>4. x.off = y /\ x.len = step[y] /\ Bytes(x) = y .. z - 1 /\ x = Piece(x.off, step)
      BY <3>1 DEF Piece, Bytes
    <3> HIDE DEF x, z, Good
    <3>5. IsFiniteSet(from[y])
      <4>1. IsFiniteSet(from[z])
        BY <3>3 DEF Good, Cut
      <4> QED
        BY <3>2, <4>1, FS_AddElement
    <3>6. Sized(from[y])
      BY <2>2, <3>1, <3>2, <3>3, <3>4 DEF Good, Cut, Sized
    <3>7. \A p \in from[z] : Bytes(p) \subseteq z .. n - 1
      BY <3>3 DEF Good, Cut, Covered
    <3>8. \A p \in from[z] : Bytes(p) \cap Bytes(x) = {}
      BY <2>2, <3>1, <3>4, <3>7
    <3>9. Apart(from[y])
      BY <3>2, <3>3, <3>8 DEF Good, Cut, Apart
    <3>10. Covered(from[y]) = y .. n - 1
      <4>1. Covered(from[y]) = Bytes(x) \cup Covered(from[z])
        BY <3>2 DEF Covered
      <4>2. Covered(from[z]) = z .. n - 1
        BY <3>3 DEF Good, Cut
      <4>3. (y .. z - 1) \cup (z .. n - 1) = y .. n - 1
        BY <2>2, <3>1
      <4> QED
        BY <3>4, <4>1, <4>2, <4>3
    <3>11. \A p \in from[y] : p.off \in 0 .. n - 1 /\ p = Piece(p.off, step)
      BY <3>1, <3>2, <3>3, <3>4 DEF Good
    <3>12. y % 8 = 0 => \A p \in from[y] : p.off % 8 = 0
      <4>1. CASE z = n
        <5>1. from[z] = {}
          BY <4>1 DEF CutsOn
        <5> QED
          BY <3>2, <3>4, <5>1
      <4>2. CASE z # n
        <5>1. y % 8 = 0 => z % 8 = 0
          BY <3>1, <4>2 DEF z
        <5> QED
          BY <3>2, <3>3, <3>4, <5>1 DEF Good
      <4> QED
        BY <4>1, <4>2
    <3> QED
      BY <2>2, <3>5, <3>6, <3>9, <3>10, <3>11, <3>12 DEF Good, Cut
  <2> QED
    BY <2>3, <2>4
<1> QED
  BY <1>1, <1>2

-----------------------------------------------------------------------------
(***************************************************************************)
(* The sizes IPv4FragandIPinIP and pkt_fraghandle choose.                  *)
(***************************************************************************)
LEMMA RoundDown ==
  ASSUME NEW n \in Int
  PROVE  Down8(n) \in Int /\ Down8(n) % 8 = 0 /\ Down8(n) <= n /\ n - 7 <= Down8(n)
BY DEF Down8

LEMMA RoundUp ==
  ASSUME NEW n \in Int
  PROVE  Up8(n) \in Int /\ Up8(n) % 8 = 0 /\ n <= Up8(n) /\ Up8(n) <= n + 7
<1>1. n + 7 \in Int /\ Up8(n) = Down8(n + 7)
  BY DEF Up8
<1> HIDE DEF Up8
<1> QED
  BY <1>1, RoundDown

LEMMA RoundUpTo ==
  ASSUME NEW n \in Int, NEW m \in Int, m % 8 = 0, n <= m
  PROVE  Up8(n) <= m
BY RoundUp

LEMMA Quotient ==
  ASSUME NEW n \in Nat, NEW d \in Nat \ {0}
  PROVE  /\ n \div d \in Nat
         /\ (n \div d) * d <= n /\ n < (n \div d) * d + d
<1>1. n \div d \in Int /\ n % d \in 0 .. d - 1 /\ n = (n \div d) * d + (n % d) /\ n \div d >= 0
  <2>1. n \div d \in Int /\ n % d \in 0 .. d - 1
    OBVIOUS
  <2>2. n = (n \div d) * d + (n % d)
    OBVIOUS
  <2>3. n \div d >= 0
    OBVIOUS
  <2> QED
    BY <2>1, <2>2, <2>3
<1> DEFINE q == n \div d
           r == n % d
<1>2. q \in Nat /\ r \in 0 .. d - 1 /\ n = q * d + r
  BY <1>1
<1> HIDE DEF q, r
<1>3. q * d \in Int
  BY <1>2
<1>4. q * d <= n /\ n < q * d + d
  BY <1>2, <1>3
<1> QED
  BY <1>2, <1>4 DEF q

LEMMA MultiplesAdd ==
  ASSUME NEW a \in Int, NEW b \in Int, a % 8 = 0, b % 8 = 0
  PROVE  (a + b) % 8 = 0
OBVIOUS

LEMMA MultipleOf ==
  ASSUME NEW i \in Int, NEW m \in Int, m % 8 = 0
  PROVE  (i * m) % 8 = 0
<1>1. PICK k \in Int : m = 8 * k
  <2>1. m = 8 * (m \div 8) + (m % 8) /\ m \div 8 \in Int
    OBVIOUS
  <2> QED
    BY <2>1
<1>2. i * m = 8 * (i * k) /\ i * k \in Int
  BY <1>1
<1> DEFINE j == i * k
<1>3. (8 * j) % 8 = 0 /\ i * m = 8 * j
  <2>1. j \in Int
    BY <1>2
  <2> HIDE DEF j
  <2> QED
    BY <1>2, <2>1 DEF j
<1> QED
  BY <1>3

LEMMA Larger ==
  ASSUME NEW a \in Nat, NEW b \in Nat, NEW k \in Nat, a <= b
  PROVE  a * k <= b * k
OBVIOUS

\* All fragments but the last are at least 8 bytes and fit, whatever is rounded.
LEMMA MediumSizeFits ==
  ASSUME NEW fmtu \in Nat, fmtu >= 8, fmtu % 8 = 0, NEW len \in Nat, len > fmtu,
         NEW nfrag, nfrag = (len + fmtu - 1) \div fmtu,
         NEW fleno, fleno = MediumSize(len, nfrag, fmtu),
         NEW rest, rest = Up8(len - fleno * (nfrag - 1))
  PROVE  /\ nfrag \in Nat /\ fleno \in 8 .. fmtu /\ fleno % 8 = 0
         /\ rest \in Int /\ rest % 8 = 0 /\ rest <= fmtu
<1>1. nfrag \in Nat /\ nfrag * fmtu <= len + fmtu - 1 /\ len + fmtu - 1 < nfrag * fmtu + fmtu
  <2>1. len + fmtu - 1 \in Nat /\ fmtu \in Nat \ {0}
    OBVIOUS
  <2> QED
    BY <2>1, Quotient
<1>2. nfrag # 0
  <2>1. 0 * fmtu = 0
    OBVIOUS
  <2> QED
    BY <1>1, <2>1
<1> DEFINE q   == len \div nfrag
           low == Down8(q)
<1>3. q \in Nat /\ q * nfrag <= len /\ len < q * nfrag + nfrag
  BY <1>1, <1>2, Quotient
<1> HIDE DEF q
<1>4. low \in Int /\ low % 8 = 0 /\ low <= q /\ q - 7 <= low
  <2>1. q \in Int
    BY <1>3
  <2> QED
    BY <2>1, RoundDown DEF low
<1>5. low \in Nat
  BY <1>3, <1>4
<1> HIDE DEF low
<1>6. q <= fmtu
  <2>1. ASSUME q > fmtu PROVE FALSE
    <3>1. (fmtu + 1) * nfrag <= q * nfrag
      BY <1>1, <1>3, <2>1, Larger
    <3>2. (fmtu + 1) * nfrag = nfrag * fmtu + nfrag /\ nfrag * fmtu \in Nat /\ q * nfrag \in Nat
      BY <1>1, <1>3
    <3> QED
      BY <1>1, <1>2, <1>3, <3>1, <3>2
  <2> QED
    BY <1>3, <2>1
<1> DEFINE P == low * (nfrag - 1)
<1>7. P \in Nat /\ P + low = low * nfrag
  BY <1>1, <1>2, <1>5
<1>8. low * nfrag \in Nat /\ low * nfrag <= len
  <2>1. low * nfrag <= q * nfrag
    BY <1>1, <1>3, <1>4, <1>5, Larger
  <2>2. low * nfrag \in Nat /\ q * nfrag \in Nat
    BY <1>1, <1>3, <1>5
  <2> QED
    BY <1>3, <2>1, <2>2
<1>9. fleno = IF Up8(len - P) > fmtu THEN low + 8 ELSE low
  BY DEF MediumSize, low, q
<1>10. rest = Up8(len - fleno * (nfrag - 1))
  OBVIOUS
<1>11. CASE Up8(len - P) <= fmtu
  <2>1. fleno = low /\ rest = Up8(len - P)
    <3>1. len - P \in Int
      BY <1>7
    <3>2. Up8(len - P) \in Int
      BY <3>1, RoundUp
    <3> QED
      BY <1>9, <1>10, <1>11, <3>2
  <2>2. rest \in Int /\ rest % 8 = 0 /\ rest <= fmtu /\ len - P <= rest
    BY <1>7, <1>11, <2>1, RoundUp
  <2>3. low # 0
    <3>1. low = 0 => P = 0
      BY <1>1, <1>2
    <3> HIDE DEF P
    <3> QED
      BY <1>7, <2>2, <3>1
  <2>4. low >= 8
    BY <1>4, <1>5, <2>3
  <2> QED
    BY <1>1, <1>3, <1>4, <1>5, <1>6, <2>1, <2>2, <2>4
<1>12. CASE Up8(len - P) > fmtu
  <2>1. fleno = low + 8
    BY <1>9, <1>12
  <2>2. low # fmtu
    <3>1. ASSUME low = fmtu PROVE FALSE
      <4>1. len - P <= fmtu
        <5>1. P + fmtu = nfrag * fmtu /\ nfrag * fmtu \in Nat
          BY <1>1, <1>7, <3>1
        <5> HIDE DEF P
        <5> QED
          BY <1>1, <1>7, <5>1
      <4>2. Up8(len - P) <= fmtu
        BY <1>7, <4>1, RoundUpTo
      <4> QED
        BY <1>7, <1>12, <4>2, RoundUp
    <3> QED
      BY <3>1
  <2>3. low + 8 <= fmtu /\ (low + 8) % 8 = 0
    BY <1>3, <1>4, <1>5, <1>6, <2>2
  <2> DEFINE R == (low + 8) * (nfrag - 1)
  <2>4. R \in Nat /\ R = P + 8 * nfrag - 8
    BY <1>1, <1>2, <1>5, <1>7
  <2>5. len < (low + 8) * nfrag
    <3>1. (q + 1) * nfrag <= (low + 8) * nfrag
      BY <1>1, <1>3, <1>4, <1>5, Larger
    <3>2. (q + 1) * nfrag = q * nfrag + nfrag /\ q * nfrag \in Nat /\ (low + 8) * nfrag \in Nat
      BY <1>1, <1>3, <1>5
    <3> QED
      BY <1>1, <1>3, <3>1, <3>2
  <2>6. (low + 8) * nfrag = R + low + 8
    BY <1>1, <1>2, <1>5
  <2>7. rest = Up8(len - R)
    BY <1>10, <2>1
  <2> HIDE DEF R
  <2>8. len - R \in Int /\ len - R <= low + 8
    BY <1>5, <2>4, <2>5, <2>6
  <2>9. rest \in Int /\ rest % 8 = 0 /\ rest <= low + 8
    BY <1>5, <2>3, <2>7, <2>8, RoundUp, RoundUpTo
  <2> QED
    BY <1>1, <1>5, <2>1, <2>3, <2>9
<1> QED
  <2>1. len - P \in Int /\ Up8(len - P) \in Int
    BY <1>7, RoundUp
  <2> QED
    BY <1>11, <1>12, <2>1

(***************************************************************************)
(* What both ways to cut promise: the pieces of a packet of n bytes lie    *)
(* side by side from its first byte to its last, none is larger than room, *)
(* and all begin and all but the last end at a multiple of eight.          *)
(***************************************************************************)
FitsAt(p, n, room) ==
  /\ p = [off |-> p.off, len |-> p.len]
  /\ p.len <= room /\ p.off % 8 = 0
  /\ p.off + p.len = n \/ p.len % 8 = 0

FittingCut(S, n, room) == Cut(S, 0, n) /\ \A p \in S : FitsAt(p, n, room)

\* IPv4FragandIPinIP and pkt_fraghandle, for every length and every room; what fits
\* is left in one piece.
THEOREM BigFirstCuts ==
  ASSUME NEW len \in Nat, NEW room \in Nat, room >= 8
  PROVE  /\ FittingCut(BigFirst(len, room), len, room)
         /\ len # 0 /\ len <= room => BigFirst(len, room) = {[off |-> 0, len |-> len]}
<1> DEFINE fmtu  == Down8(room)
           nfrag == (len + fmtu - 1) \div fmtu
           fleno == MediumSize(len, nfrag, fmtu)
           rest  == Up8(len - fleno * (nfrag - 1))
           flen0 == IF rest < fleno THEN fleno ELSE rest
           flen(off) == IF len - off <= room THEN len - off
                        ELSE IF off = 0 THEN flen0 ELSE fleno
           step  == [y \in 0 .. len - 1 |-> flen(y)]
           Eq(f) == f = [off \in 0 .. len |->
                           IF off = len THEN {}
                           ELSE {[off |-> off, len |-> flen(off)]} \cup f[off + flen(off)]]
<1>1. fmtu \in Nat /\ fmtu >= 8 /\ fmtu % 8 = 0 /\ fmtu <= room
  <2>1. room \in Int
    OBVIOUS
  <2>2. Down8(room) \in Int /\ Down8(room) % 8 = 0 /\ Down8(room) <= room /\ room - 7 <= Down8(room)
    BY <2>1, RoundDown
  <2>3. fmtu \in Int /\ fmtu % 8 = 0 /\ fmtu <= room /\ room - 7 <= fmtu
    BY <2>2
  <2> HIDE DEF fmtu
  <2> QED
    BY <2>3
<1>2. len > room => /\ flen0 \in 8 .. fmtu /\ flen0 % 8 = 0
                    /\ fleno \in 8 .. fmtu /\ fleno % 8 = 0
  <2> SUFFICES ASSUME len > room
               PROVE  /\ flen0 \in 8 .. fmtu /\ flen0 % 8 = 0
                      /\ fleno \in 8 .. fmtu /\ fleno % 8 = 0
    OBVIOUS
  <2> HIDE DEF fmtu
  <2>1. len > fmtu
    BY <1>1
  <2>2. /\ nfrag \in Nat /\ fleno \in 8 .. fmtu /\ fleno % 8 = 0
        /\ rest \in Int /\ rest % 8 = 0 /\ rest <= fmtu
    BY <1>1, <2>1, MediumSizeFits
  <2> HIDE DEF nfrag, fleno, rest
  <2> QED
    BY <1>1, <2>2
<1> HIDE DEF fmtu, nfrag, fleno, rest, flen0
<1>3. ASSUME NEW y \in 0 .. len - 1
      PROVE  /\ flen(y) \in Nat \ {0} /\ y + flen(y) <= len /\ flen(y) <= room
             /\ y + flen(y) = len \/ flen(y) % 8 = 0
  <2>1. CASE len - y <= room
    <3>1. flen(y) = len - y
      BY <2>1
    <3> HIDE DEF flen
    <3> QED
      BY <2>1, <3>1
  <2>2. CASE len - y > room
    <3>1. len > room /\ flen(y) \in {flen0, fleno}
      BY <2>2
    <3> HIDE DEF flen
    <3>2. flen(y) \in 8 .. fmtu /\ flen(y) % 8 = 0
      BY <1>2, <3>1
    <3> QED
      BY <1>1, <2>2, <3>2
  <2>3. len - y <= room \/ len - y > room
    OBVIOUS
  <2> QED
    BY <2>1, <2>2, <2>3
<1> HIDE DEF flen
<1>4. Steps(len, step)
  BY <1>3 DEF Steps
<1>5. ASSUME NEW y \in 0 .. len - 1, y % 8 = 0
      PROVE  y + step[y] = len \/ (y + step[y]) % 8 = 0
  <2>1. step[y] = flen(y) /\ flen(y) \in Nat /\ y \in Nat
    BY <1>3
  <2>2. y + step[y] = y + flen(y)
    BY <2>1
  <2>3. CASE y + flen(y) = len
    BY <2>2, <2>3
  <2>4. CASE flen(y) % 8 = 0
    <3>1. y \in Int /\ flen(y) \in Int
      BY <2>1
    <3>2. (y + flen(y)) % 8 = 0
      BY <1>5, <2>4, <3>1, MultiplesAdd
    <3> QED
      BY <2>2, <3>2
  <2> QED
    BY <1>3, <2>3, <2>4
<1>6. ASSUME NEW f
      PROVE  Eq(f) <=> CutsOn(f, len, step)
  <2>1. \A y \in 0 .. len : y # len => step[y] = flen(y) /\ Piece(y, step) = [off |-> y, len |-> flen(y)]
    BY DEF Piece
  <2> HIDE DEF step
  <2> QED
    BY <2>1 DEF CutsOn
<1>7. PICK g : CutsOn(g, len, step)
  <2> HIDE DEF step
  <2> QED
    BY <1>4, CutExists
<1> DEFINE from == CHOOSE f : Eq(f)
<1>8. CutsOn(from, len, step)
  <2>1. Eq(g)
    BY <1>6, <1>7
  <2>2. Eq(from)
    <3> HIDE DEF Eq
    <3> QED
      BY <2>1, Zenon
  <2> HIDE DEF from
  <2> QED
    BY <1>6, <2>2
<1>9. BigFirst(len, room) = from[0]
  BY DEF BigFirst, fmtu, nfrag, fleno, rest, flen0, flen
<1> HIDE DEF from, Eq
<1>10. /\ Cut(from[0], 0, len)
       /\ \A p \in from[0] : p.off \in 0 .. len - 1 /\ p = Piece(p.off, step)
       /\ \A p \in from[0] : p.off % 8 = 0
  <2> HIDE DEF step
  <2> QED
    BY <1>4, <1>5, <1>8, CutsRight
<1>11. ASSUME NEW p \in from[0]
       PROVE  FitsAt(p, len, room)
  <2>1. p.off \in 0 .. len - 1 /\ p.off % 8 = 0 /\ p = [off |-> p.off, len |-> flen(p.off)]
    BY <1>10 DEF Piece
  <2>2. p.len = flen(p.off)
    BY <2>1
  <2> QED
    BY <1>3, <2>1, <2>2 DEF FitsAt
<1>12. ASSUME len # 0, len <= room
       PROVE  from[0] = {[off |-> 0, len |-> len]}
  <2>1. step[0] = len
    BY <1>12 DEF flen
  <2>2. from[0] = {Piece(0, step)} \cup from[0 + step[0]] /\ from[len] = {}
    <3> HIDE DEF step
    <3>1. from = [y \in 0 .. len |-> IF y = len THEN {}
                                     ELSE {Piece(y, step)} \cup from[y + step[y]]]
      BY <1>8 DEF CutsOn
    <3>2. 0 \in 0 .. len /\ len \in 0 .. len
      OBVIOUS
    <3> HIDE DEF Piece
    <3> QED
      BY <1>12, <3>1, <3>2
  <2>3. from[0 + step[0]] = {}
    <3>1. 0 + step[0] = len
      BY <2>1
    <3> QED
      BY <2>2, <3>1
  <2>4. Piece(0, step) = [off |-> 0, len |-> len]
    BY <2>1 DEF Piece
  <2> QED
    BY <2>2, <2>3, <2>4
<1> QED
  BY <1>9, <1>10, <1>11, <1>12 DEF FittingCut

\* Pieces that lie side by side in finitely many bytes are finitely many.
LEMMA ApartFinite ==
  ASSUME NEW S, Sized(S), Apart(S), IsFiniteSet(Covered(S))
  PROVE  IsFiniteSet(S)
<1> DEFINE f == [p \in S |-> p.off]
<1>1. ASSUME NEW p \in S
      PROVE  p.off \in Bytes(p)
  BY DEF Sized, Bytes
<1>2. f \in [S -> Covered(S)]
  BY <1>1 DEF Covered
<1>3. ASSUME NEW p \in S, NEW q \in S, p.off = q.off
      PROVE  p = q
  BY <1>1, <1>3 DEF Apart
<1>4. f \in Injection(S, Covered(S))
  BY <1>2, <1>3 DEF Injection, IsInjective
<1> HIDE DEF f
<1> QED
  BY <1>4, FS_Injection

\* ipv6_frag_handl, for every length and every size of a piece that is a multiple of
\* eight.
THEOREM EqualPiecesCut ==
  ASSUME NEW len \in Nat \ {0}, NEW max \in Nat, max >= 8, max % 8 = 0
  PROVE  FittingCut(EqualPieces(len, max), len, max)
<1> DEFINE last == (len - 1) \div max
           L(i) == IF len - i * max > max THEN max ELSE len - i * max
           P(i) == [off |-> i * max, len |-> L(i)]
           S    == {P(i) : i \in 0 .. last}
<1>1. last \in Nat /\ last * max <= len - 1 /\ len - 1 < last * max + max
  BY Quotient
<1>2. EqualPieces(len, max) = S
  BY DEF EqualPieces
<1> HIDE DEF last
<1>3. ASSUME NEW i \in 0 .. last
      PROVE  /\ i * max \in Nat /\ i * max < len
             /\ L(i) \in Nat \ {0} /\ L(i) <= max /\ i * max + L(i) <= len
             /\ i * max + L(i) = len \/ L(i) = max
  <2>1. i * max <= last * max
    BY <1>1, Larger
  <2>2. i * max \in Nat /\ last * max \in Nat
    BY <1>1
  <2> DEFINE o == i * max
  <2> HIDE DEF o
  <2> QED
    BY <1>1, <2>1, <2>2 DEF o
<1>4. ASSUME NEW i \in 0 .. last, NEW j \in 0 .. last, i < j
      PROVE  i * max + L(i) <= j * max
  <2>1. (i + 1) * max <= j * max
    BY <1>1, <1>4, Larger
  <2>2. (i + 1) * max = i * max + max /\ j * max \in Nat
    BY <1>1
  <2>3. i * max + L(i) <= i * max + max
    BY <1>3
  <2> HIDE DEF L
  <2> QED
    BY <1>3, <2>1, <2>2, <2>3
<1> HIDE DEF L
<1>5. Sized(S)
  BY <1>3 DEF Sized
<1>6. Apart(S)
  <2> SUFFICES ASSUME NEW i \in 0 .. last, NEW j \in 0 .. last, P(i) # P(j)
               PROVE  Bytes(P(i)) \cap Bytes(P(j)) = {}
    BY DEF Apart
  <2>1. i < j \/ j < i
    <3>1. i # j
      OBVIOUS
    <3> QED
      BY <1>1, <3>1
  <2>2. CASE i < j
    BY <1>3, <1>4, <2>2 DEF Bytes
  <2>3. CASE j < i
    BY <1>3, <1>4, <2>3 DEF Bytes
  <2> QED
    BY <2>1, <2>2, <2>3
<1>7. Covered(S) = 0 .. len - 1
  <2>1. ASSUME NEW i \in 0 .. last, NEW b \in Bytes(P(i))
        PROVE  b \in 0 .. len - 1
    BY <1>3 DEF Bytes
  <2>2. ASSUME NEW b \in 0 .. len - 1
        PROVE  \E i \in 0 .. last : b \in Bytes(P(i))
    <3> DEFINE i == b \div max
    <3>1. i \in Nat /\ i * max <= b /\ b < i * max + max
      BY Quotient
    <3> HIDE DEF i
    <3>2. i <= last
      <4>1. ASSUME i > last
            PROVE  FALSE
        <5>1. (last + 1) * max <= i * max
          BY <1>1, <3>1, <4>1, Larger
        <5>2. (last + 1) * max = last * max + max /\ last * max \in Nat /\ i * max \in Nat
          BY <1>1, <3>1
        <5> QED
          BY <1>1, <3>1, <5>1, <5>2
      <4> QED
        BY <1>1, <3>1, <4>1
    <3>3. i \in 0 .. last
      BY <1>1, <3>1, <3>2
    <3>4. b \in Bytes(P(i))
      BY <1>3, <3>1, <3>3 DEF Bytes
    <3> QED
      BY <3>3, <3>4
  <2> QED
    BY <2>1, <2>2 DEF Covered
<1>8. ASSUME NEW i \in 0 .. last
      PROVE  FitsAt(P(i), len, max)
  <2>1. (i * max) % 8 = 0
    <3>1. i \in Int /\ max \in Int
      OBVIOUS
    <3> QED
      BY <3>1, MultipleOf
  <2>2. i * max + L(i) = len \/ L(i) % 8 = 0
    BY <1>3
  <2>3. L(i) <= max
    BY <1>3
  <2> DEFINE o == i * max
             l == L(i)
  <2> HIDE DEF o, l
  <2>4. /\ P(i) = [off |-> o, len |-> l] /\ o % 8 = 0 /\ l <= max
        /\ o + l = len \/ l % 8 = 0
    BY <2>1, <2>2, <2>3 DEF o, l
  <2> HIDE DEF P
  <2> QED
    BY <2>4 DEF FitsAt
<1>9. IsFiniteSet(S)
  BY <1>5, <1>6, <1>7, ApartFinite, FS_Interval
<1> HIDE DEF S
<1>10. Cut(S, 0, len)
  BY <1>5, <1>6, <1>7, <1>9 DEF Cut
<1> QED
  BY <1>2, <1>8, <1>10 DEF FittingCut, S

-----------------------------------------------------------------------------
(***************************************************************************)
(* Putting together.  P are the fragments of a packet of n bytes, of which *)
(* those in N have yet to arrive; t is the tuple of their key.             *)
(***************************************************************************)
PiecesOf(P, n) == Cut(P, 0, n) /\ \A p \in P : p.more <=> p.off + p.len < n

\* What has arrived is shorter than the packet, unless it is all of it.
LEMMA PartLen ==
  ASSUME NEW n \in Nat, NEW P, PiecesOf(P, n), NEW F \in SUBSET P
  PROVE  /\ IsFiniteSet(F) /\ PacketLen(F) \in 0 .. n
         /\ PacketLen(F) = n => F = P
         /\ F = P => PacketLen(F) = n
         /\ \A x \in F : x.len \in Nat \ {0} /\ x.len <= PacketLen(F)
<1>1. IsFiniteSet(P) /\ Sized(P) /\ Apart(P) /\ Covered(P) = 0 .. n - 1
  BY DEF PiecesOf, Cut
<1>2. IsFiniteSet(F) /\ Sized(F) /\ Apart(F) /\ Covered(F) \subseteq Covered(P)
  BY <1>1, FS_Subset DEF Sized, Apart, Covered
<1>3. IsFiniteSet(Covered(F)) /\ PacketLen(F) = Cardinality(Covered(F))
  BY <1>2, LengthIsBytes
<1>4. IsFiniteSet(0 .. n - 1) /\ Cardinality(0 .. n - 1) = n
  BY FirstBytes
<1>5. PacketLen(F) \in 0 .. n /\ (PacketLen(F) = n => Covered(F) = Covered(P))
  <2>1. Cardinality(Covered(F)) \in Nat
    BY <1>3, FS_CardinalityType
  <2>2. /\ Cardinality(Covered(F)) <= Cardinality(Covered(P))
        /\ Cardinality(Covered(F)) = Cardinality(Covered(P)) => Covered(F) = Covered(P)
    BY <1>1, <1>2, <1>4, FS_Subset
  <2> QED
    BY <1>1, <1>3, <1>4, <2>1, <2>2
<1>6. ASSUME Covered(F) = Covered(P)
      PROVE  F = P
  <2>1. ASSUME NEW p \in P
        PROVE  p \in F
    <3>1. p.off \in Bytes(p)
      BY <1>1 DEF Sized, Bytes
    <3>2. p.off \in Covered(F)
      BY <1>6, <3>1 DEF Covered
    <3>3. PICK q \in F : p.off \in Bytes(q)
      BY <3>2 DEF Covered
    <3> QED
      BY <1>1, <3>1, <3>3 DEF Apart
  <2> QED
    BY <2>1
<1>7. ASSUME NEW x \in F
      PROVE  x.len \in Nat \ {0} /\ x.len <= PacketLen(F)
  <2>1. Sized({x}) /\ Apart({x}) /\ Covered({x}) = Bytes(x) /\ Bytes(x) \subseteq Covered(F)
    BY <1>2 DEF Sized, Apart, Covered
  <2>2. IsFiniteSet(Bytes(x)) /\ Cardinality(Bytes(x)) = x.len /\ x.len \in Nat \ {0}
    BY <1>2, BytesOfOne DEF Sized
  <2>3. Cardinality(Bytes(x)) <= Cardinality(Covered(F))
    BY <1>3, <2>1, FS_Subset
  <2> QED
    BY <1>3, <2>2, <2>3
<1> QED
  BY <1>1, <1>2, <1>3, <1>4, <1>5, <1>6, <1>7

\* It grows by what arrives.
LEMMA PartGrows ==
  ASSUME NEW n \in Nat, NEW P, PiecesOf(P, n), NEW F \in SUBSET P, NEW x \in P \ F
  PROVE  PacketLen(F \cup {x}) = PacketLen(F) + x.len
<1>1. /\ IsFiniteSet(F) /\ Sized(F) /\ Apart(F)
      /\ Sized(F \cup {x}) /\ Apart(F \cup {x})
      /\ IsFiniteSet(F \cup {x})
  <2>1. IsFiniteSet(F \cup {x}) /\ IsFiniteSet(F)
    BY FS_Subset DEF PiecesOf, Cut
  <2> QED
    BY <2>1 DEF PiecesOf, Cut, Sized, Apart
<1> DEFINE A == Covered(F)
           B == Bytes(x)
<1>2. Covered(F \cup {x}) = A \cup B /\ A \cap B = {}
  BY DEF PiecesOf, Cut, Covered, Apart
<1>3. /\ IsFiniteSet(A) /\ PacketLen(F) = Cardinality(A)
      /\ PacketLen(F \cup {x}) = Cardinality(Covered(F \cup {x}))
  BY <1>1, LengthIsBytes
<1>4. IsFiniteSet(B) /\ Cardinality(B) = x.len /\ x.len \in Nat
  BY BytesOfOne DEF PiecesOf, Cut, Sized
<1> HIDE DEF A, B
<1>5. Cardinality(A) \in Nat
  BY <1>3, FS_CardinalityType
<1>6. Cardinality(A \cup B) = Cardinality(A) + Cardinality(B) - Cardinality(A \cap B)
  BY <1>3, <1>4, FS_Union
<1>7. Cardinality(A \cap B) = 0
  BY <1>2, FS_EmptySet
<1>8. PacketLen(F \cup {x}) = Cardinality(A \cup B) /\ Cardinality(B) = x.len
  BY <1>2, <1>3, <1>4
<1> QED
  BY <1>3, <1>4, <1>5, <1>6, <1>7, <1>8

\* The pieces of a cut leave no gap.
LEMMA NoGapInCut ==
  ASSUME NEW n \in Nat \ {0}, NEW P, Cut(P, 0, n)
  PROVE  /\ \E p \in P : p.off = 0
         /\ \A p \in P : p.off + p.len = n \/ \E q \in P : q.off = p.off + p.len
         /\ \A p \in P : p.off + p.len <= n
         /\ \A p, q \in P : p.off = q.off => p = q
<1>1. Sized(P) /\ Apart(P) /\ Covered(P) = 0 .. n - 1
  BY DEF Cut
<1>2. ASSUME NEW b \in 0 .. n - 1
      PROVE  \E q \in P : b \in Bytes(q)
  BY <1>1 DEF Covered
<1>3. ASSUME NEW p \in P
      PROVE  p.off + p.len <= n
  <2>1. p.off + p.len - 1 \in Bytes(p)
    BY <1>1 DEF Sized, Bytes
  <2>2. p.off + p.len - 1 \in 0 .. n - 1
    BY <1>1, <2>1 DEF Covered
  <2> QED
    BY <1>1, <2>2 DEF Sized
<1>4. \E p \in P : p.off = 0
  <2>1. PICK p \in P : 0 \in Bytes(p)
    BY <1>2
  <2> QED
    BY <1>1, <2>1 DEF Bytes, Sized
<1>5. ASSUME NEW p \in P, p.off + p.len # n
      PROVE  \E q \in P : q.off = p.off + p.len
  <2>1. p.off \in Nat /\ p.len \in Nat \ {0} /\ p.off + p.len \in 0 .. n - 1
    BY <1>1, <1>3, <1>5 DEF Sized
  <2>2. PICK q \in P : p.off + p.len \in Bytes(q)
    BY <1>2, <2>1
  <2>3. q.off \in Nat /\ q.len \in Nat \ {0}
    BY <1>1 DEF Sized
  <2>4. q.off <= p.off + p.len
    BY <2>1, <2>2, <2>3 DEF Bytes
  <2>5. ASSUME q.off < p.off + p.len
        PROVE  FALSE
    <3>1. p.off + p.len - 1 \in Bytes(q) /\ p.off + p.len - 1 \in Bytes(p)
      BY <2>1, <2>2, <2>3, <2>5 DEF Bytes
    <3>2. p = q
      BY <1>1, <3>1 DEF Apart
    <3> QED
      BY <2>1, <2>2, <3>2 DEF Bytes
  <2> QED
    BY <2>1, <2>3, <2>4, <2>5
<1>6. ASSUME NEW p \in P, NEW q \in P, p.off = q.off
      PROVE  p = q
  <2>1. p.off \in Bytes(p) /\ p.off \in Bytes(q)
    BY <1>1, <1>6 DEF Sized, Bytes
  <2> QED
    BY <1>1, <2>1 DEF Apart
<1> QED
  BY <1>3, <1>4, <1>5, <1>6

\* The fragments of a packet do not either (fragprocess copies each to its offset).
LEMMA NoGap ==
  ASSUME NEW n \in Nat \ {0}, NEW P, PiecesOf(P, n)
  PROVE  /\ \E p \in P : p.off = 0
         /\ \A p \in P : p.off + p.len = n \/ \E q \in P : q.off = p.off + p.len
         /\ \A p \in P : p.off + p.len <= n
         /\ \A p, q \in P : p.off = q.off => p = q
BY NoGapInCut DEF PiecesOf

LEMMA PayloadIs ==
  ASSUME NEW S, IsFiniteSet(S), NEW B,
         NEW w, w = [o \in S |-> o.len - HDR4],
         w \in [S -> Nat],
         \A x \in S : IsFiniteSet(B[x]) /\ w[x] = Cardinality(B[x]),
         \A x, y \in S : x # y => B[x] \cap B[y] = {},
         NEW U, U = UNION {B[x] : x \in S}
  PROVE  PayloadLen(S) = Cardinality(U)
<1>1. PICK f : AddsUp(f, S, w) /\ PayloadLen(S) = f[S]
  BY PayloadAddsUp
<1>2. IsFiniteSet(U) /\ f[S] = Cardinality(U)
  BY <1>1, SumOfParts
<1> QED
  BY <1>1, <1>2

\* IPv4 packets that carry the pieces of a cut, one each, carry all of its bytes.
Carries(o) == [off |-> o.off, len |-> o.len - HDR4]

LEMMA CarriedWhole ==
  ASSUME NEW n \in Nat \ {0}, NEW room, NEW C, FittingCut(C, n, room),
         NEW S, \A o \in S : o.len \in Int /\ Carries(o) \in C,
         \A p \in C : \E o \in S : Carries(o) = p,
         \A o, q \in S : o.off = q.off => o = q
  PROVE  PayloadLen(S) = n
<1>1. /\ IsFiniteSet(C) /\ Sized(C) /\ Apart(C) /\ Covered(C) = 0 .. n - 1
  BY DEF FittingCut, Cut
<1>2. ASSUME NEW o \in S
      PROVE  Carries(o).off = o.off /\ Carries(o).len = o.len - HDR4
  BY DEF Carries
<1>3. IsFiniteSet(S)
  <2> DEFINE h == [o \in S |-> Carries(o)]
  <2>1. h \in [S -> C]
    OBVIOUS
  <2>2. \A o, q \in S : h[o] = h[q] => o = q
    BY <1>2
  <2>3. h \in Injection(S, C)
    BY <2>1, <2>2 DEF Injection, IsInjective
  <2> HIDE DEF h
  <2> QED
    BY <1>1, <2>3, FS_Injection
<1> DEFINE B == [o \in S |-> Bytes(Carries(o))]
           w == [o \in S |-> o.len - HDR4]
<1>5. ASSUME NEW o \in S
      PROVE  /\ o.len - HDR4 \in Nat
             /\ IsFiniteSet(Bytes(Carries(o)))
             /\ Cardinality(Bytes(Carries(o))) = o.len - HDR4
  <2>1. Carries(o).off \in Nat /\ Carries(o).len \in Nat \ {0}
    BY <1>1 DEF Sized
  <2> QED
    BY <1>2, <2>1, BytesOfOne
<1>6. /\ w \in [S -> Nat]
      /\ \A x \in S : IsFiniteSet(B[x]) /\ w[x] = Cardinality(B[x])
  BY <1>5
<1>7. \A x, y \in S : x # y => B[x] \cap B[y] = {}
  <2>1. \A x, y \in S : x # y => Carries(x) # Carries(y)
    BY <1>2
  <2> QED
    BY <1>1, <2>1 DEF Apart
<1>8. UNION {B[x] : x \in S} = 0 .. n - 1
  <2>1. UNION {B[x] : x \in S} = Covered(C)
    BY DEF Covered
  <2> QED
    BY <1>1, <2>1
<1> HIDE DEF B, w
<1>9. PayloadLen(S) = Cardinality(0 .. n - 1)
  <2>1. w = [o \in S |-> o.len - HDR4]
    BY DEF w
  <2> DEFINE U == 0 .. n - 1
  <2>2. U = UNION {B[x] : x \in S}
    BY <1>8
  <2> HIDE DEF U
  <2>3. PayloadLen(S) = Cardinality(U)
    BY <1>3, <1>6, <1>7, <2>1, <2>2, PayloadIs
  <2> QED
    BY <2>3 DEF U
<1>10. Cardinality(0 .. n - 1) = n
  BY FirstBytes
<1> QED
  BY <1>8, <1>9, <1>10

LEMMA LastPiece ==
  ASSUME NEW n \in Nat \ {0}, NEW P, PiecesOf(P, n)
  PROVE  \E q \in P : ~q.more
<1>1. n - 1 \in Covered(P)
  BY DEF PiecesOf, Cut
<1>2. PICK q \in P : n - 1 \in Bytes(q)
  BY <1>1 DEF Covered
<1>3. q.off \in Nat /\ q.len \in Nat /\ q.off + q.len >= n
  BY <1>2 DEF PiecesOf, Cut, Sized, Bytes
<1> QED
  BY <1>3 DEF PiecesOf

TupleFields == {"len", "length", "flag", "life", "frags", "cnt"}

IsTuple(t) == DOMAIN t = TupleFields /\ t.flag \in BOOLEAN

\* What fragnodeinsert makes of the tuple t of a key: it is counted and no more when
\* too many have come for it, or the fragment is.
TakenIn(t, p, r, u) ==
  /\ u.len = t.len + p.len
  /\ u.length = IF p.more THEN t.length ELSE p.off + p.len
  /\ u.flag <=> t.flag \/ ~p.more
  /\ r.done <=> u.flag /\ u.len = u.length
  /\ r.done => u.frags = {} /\ r.frags = Linked(t.frags, p)
  /\ ~r.done => u.frags = Linked(t.frags, p)

Refused(t, r, u) ==
  /\ ~r.done
  /\ u.len = t.len /\ u.length = t.length /\ u.flag = t.flag /\ u.frags = t.frags

LEMMA Inserts ==
  ASSUME NEW tab, NEW key, NEW p, p.more \in BOOLEAN,
         NEW t, t = ShashBucketFind(tab, key), IsTuple(t),
         NEW r, r = fragnodeinsert(tab, key, p), NEW u, u = r.tab[key]
  PROVE  /\ DOMAIN r.tab = DOMAIN tab \cup {key}
         /\ \A k \in DOMAIN tab \ {key} : r.tab[k] = tab[k]
         /\ IsTuple(u)
         /\ (key \in DOMAIN tab /\ Refused(t, r, u)) \/ TakenIn(t, p, r, u)
<1> DEFINE counted == [t EXCEPT !.cnt = @ + 1]
           linked  == [counted EXCEPT !.life = FragTimeout, !.frags = Linked(@, p)]
           c       == Counted(linked, p)
           refused == key \in DOMAIN tab /\ counted.cnt > MaxFragCnt
           done    == ~refused /\ Complete(c, p)
           new     == CASE refused           -> counted
                        [] ~refused /\ done  -> [c EXCEPT !.frags = {}]
                        [] ~refused /\ ~done -> c
<1>1. r = [tab |-> ShashInsert(tab, key, new), done |-> done,
           frags |-> IF done THEN c.frags ELSE {}]
  BY DEF fragnodeinsert
<1>2. /\ IsTuple(counted)
      /\ counted.len = t.len /\ counted.length = t.length /\ counted.flag = t.flag
      /\ counted.frags = t.frags
  BY DEF IsTuple, TupleFields
<1> HIDE DEF counted
<1>3. /\ IsTuple(linked)
      /\ linked.len = t.len /\ linked.length = t.length /\ linked.flag = t.flag
      /\ linked.frags = Linked(t.frags, p)
  BY <1>2 DEF IsTuple, TupleFields
<1> HIDE DEF linked
<1>4. /\ IsTuple(c) /\ c.frags = Linked(t.frags, p)
      /\ c.len = t.len + p.len
      /\ c.length = IF p.more THEN t.length ELSE p.off + p.len
      /\ c.flag <=> t.flag \/ ~p.more
  <2>1. CASE p.more
    BY <1>3, <2>1 DEF IsTuple, TupleFields, Counted
  <2>2. CASE ~p.more
    BY <1>3, <2>2 DEF IsTuple, TupleFields, Counted
  <2> QED
    BY <2>1, <2>2
<1> HIDE DEF c
<1>5. refused \in BOOLEAN /\ done \in BOOLEAN /\ (done <=> ~refused /\ c.flag /\ c.len = c.length)
  BY <1>4 DEF Complete, IsTuple
<1>6. refused => key \in DOMAIN tab
  OBVIOUS
<1> HIDE DEF refused, done
<1>7. /\ IsTuple(new)
      /\ refused => new = counted
      /\ ~refused => /\ new.len = c.len /\ new.length = c.length /\ new.flag = c.flag
                     /\ done => new.frags = {}
                     /\ ~done => new.frags = c.frags
  <2>1. CASE refused
    BY <1>2, <2>1
  <2>2. CASE ~refused /\ done
    BY <1>4, <2>2 DEF IsTuple, TupleFields
  <2>3. CASE ~refused /\ ~done
    BY <1>4, <2>3
  <2> QED
    BY <1>5, <2>1, <2>2, <2>3
<1> HIDE DEF new
<1>8. r.tab = ShashInsert(tab, key, new) /\ r.done = done /\ r.frags = IF done THEN c.frags ELSE {}
  BY <1>1
<1>9. /\ DOMAIN r.tab = DOMAIN tab \cup {key}
      /\ \A k \in DOMAIN tab \ {key} : r.tab[k] = tab[k]
      /\ r.tab[key] = new
  BY <1>8 DEF ShashInsert
<1>10. CASE refused
  <2>1. Refused(t, r, new)
    BY <1>2, <1>5, <1>7, <1>8, <1>10 DEF Refused
  <2> QED
    BY <1>6, <1>7, <1>9, <1>10, <2>1
<1>11. CASE ~refused
  <2>1. r.done <=> c.flag /\ c.len = c.length
    BY <1>5, <1>8, <1>11
  <2>2. /\ r.done => new.frags = {} /\ r.frags = Linked(t.frags, p)
        /\ ~r.done => new.frags = Linked(t.frags, p)
    BY <1>4, <1>5, <1>7, <1>8, <1>11
  <2>3. TakenIn(t, p, r, new)
    BY <1>4, <1>7, <1>11, <2>1, <2>2 DEF TakenIn
  <2> QED
    BY <1>7, <1>9, <2>3
<1> QED
  BY <1>5, <1>10, <1>11

\* A tuple of which every fragment has arrived once: it counts what it holds.
Filling(t, P, n, N) ==
  /\ t.frags \in SUBSET P /\ t.frags \cap N = {}
  /\ t.len = PacketLen(t.frags) /\ t.len < n
  /\ t.flag => t.length = n
  /\ \A p \in t.frags : ~p.more => t.flag

Alone(t, P, n, N) == Filling(t, P, n, N) \/ (t.frags = {} /\ N = {})

\* One fragment may arrive twice: it is among the fragments and is still to come, or
\* has been counted twice, or the packet is over.
Twice(t, P, n, N) ==
  /\ t.frags \in SUBSET P
  /\ t.flag => t.length = n
  /\ \/ t.len = PacketLen(t.frags) /\ \E x \in P : t.frags \cap N \subseteq {x}
     \/ t.frags \cap N = {} /\ \E x \in t.frags : t.len = PacketLen(t.frags) + x.len
     \/ t.flag /\ t.len \in Nat /\ t.len >= n

\* What is left when the fragment p comes: of a packet of which none came twice, ...
AfterOne(P, n, N, p, r, u) ==
  /\ Alone(u, P, n, N \ {p}) /\ Twice(u, P, n, N)
  /\ r.done => r.frags = P /\ N = {p}

\* ... and of one of which one may have: the packet is at most one fragment too short.
AfterTwo(P, n, N, p, r, u) ==
  /\ Twice(u, P, n, N \ {p})
  /\ r.done => /\ r.frags \in SUBSET P /\ r.frags # {}
               /\ \/ PacketLen(r.frags) = n
                  \/ \E x \in r.frags : PacketLen(r.frags) + x.len = n

\* The last fragment says how long the packet is.
LEMMA LengthKnown ==
  ASSUME NEW n \in Nat \ {0}, NEW P, PiecesOf(P, n), NEW p \in P,
         NEW t, t.flag => t.length = n, NEW r, NEW u, TakenIn(t, p, r, u)
  PROVE  u.flag => u.length = n
<1>1. CASE p.more
  BY <1>1 DEF TakenIn
<1>2. CASE ~p.more
  <2>1. p.off + p.len <= n /\ ~(p.off + p.len < n) /\ p.off \in Nat /\ p.len \in Nat
    BY <1>2, NoGap DEF PiecesOf, Cut, Sized
  <2>2. p.off + p.len = n
    BY <2>1
  <2> QED
    BY <1>2, <2>2 DEF TakenIn
<1> QED
  BY <1>1, <1>2

LEMMA LinkedIs ==
  ASSUME NEW n \in Nat \ {0}, NEW P, PiecesOf(P, n), NEW F \in SUBSET P, NEW p \in P
  PROVE  Linked(F, p) = F \cup {p}
<1>1. \A q \in F : q.off = p.off => q = p
  BY NoGap
<1> QED
  BY <1>1 DEF Linked

\* A fragment arrives and none has arrived twice: the packet is complete when all have,
\* and otherwise waits.
LEMMA FilledIn ==
  ASSUME NEW n \in Nat \ {0}, NEW P, PiecesOf(P, n), NEW N \in SUBSET P, NEW p \in N,
         NEW t, t.flag \in BOOLEAN, Filling(t, P, n, N),
         NEW r, NEW u, Refused(t, r, u) \/ TakenIn(t, p, r, u)
  PROVE  AfterOne(P, n, N, p, r, u)
<1> USE DEF AfterOne
<1> DEFINE F == t.frags \cup {p}
<1>0. t.frags \in SUBSET P /\ p \notin t.frags /\ p \in P /\ F \in SUBSET P
  BY DEF Filling
<1>1. CASE Refused(t, r, u)
  <2>1. Filling(u, P, n, N \ {p})
    BY <1>1 DEF Refused, Filling
  <2>2. Twice(u, P, n, N)
    BY <1>0, <1>1 DEF Refused, Filling, Twice
  <2> QED
    BY <1>1, <2>1, <2>2 DEF Alone, Refused
<1>2. CASE TakenIn(t, p, r, u)
  <2>1. Linked(t.frags, p) = F
    BY <1>0, LinkedIs
  <2>2. u.len = PacketLen(F)
    BY <1>0, <1>2, PartGrows DEF TakenIn, Filling
  <2>3. u.flag => u.length = n
    BY <1>0, <1>2, LengthKnown DEF Filling
  <2>4. PacketLen(F) \in 0 .. n /\ (PacketLen(F) = n => F = P)
    BY <1>0, PartLen
  <2>5. \A q \in F : ~q.more => u.flag
    BY <1>2 DEF Filling, TakenIn
  <2>6. F \cap (N \ {p}) = {}
    BY DEF Filling
  <2>7. CASE r.done
    <3>1. u.flag /\ u.len = n /\ F = P /\ u.frags = {} /\ r.frags = F
      BY <1>2, <2>1, <2>2, <2>3, <2>4, <2>7 DEF TakenIn
    <3>2. N = {p}
      BY <2>6, <3>1
    <3>3. Twice(u, P, n, N)
      BY <2>3, <3>1 DEF Twice
    <3> QED
      BY <3>1, <3>2, <3>3 DEF Alone
  <2>8. CASE ~r.done
    <3>1. u.frags = F
      BY <1>2, <2>1, <2>8 DEF TakenIn
    <3>2. u.len # n
      <4>1. ASSUME u.len = n
            PROVE  FALSE
        <5>1. F = P
          BY <2>2, <2>4, <4>1
        <5>2. PICK q \in P : ~q.more
          BY LastPiece
        <5>3. u.flag
          BY <2>5, <5>1, <5>2
        <5> QED
          BY <1>2, <2>3, <2>8, <4>1, <5>3 DEF TakenIn
      <4> QED
        BY <4>1
    <3>3. Filling(u, P, n, N \ {p})
      BY <1>0, <2>2, <2>3, <2>4, <2>5, <2>6, <3>1, <3>2 DEF Filling
    <3>4. Twice(u, P, n, N)
      <4>1. u.frags \cap N \subseteq {p}
        BY <2>6, <3>1
      <4> QED
        BY <1>0, <2>2, <2>3, <3>1, <4>1 DEF Twice
    <3> QED
      BY <2>8, <3>3, <3>4 DEF Alone
  <2> QED
    BY <2>7, <2>8
<1> QED
  BY <1>1, <1>2

\* A fragment arrives and one may have arrived twice: what is taken for complete is at
\* most the length of one fragment too short.
LEMMA FilledTwice ==
  ASSUME NEW n \in Nat \ {0}, NEW P, PiecesOf(P, n), NEW N \in SUBSET P, NEW p \in N,
         NEW t, t.flag \in BOOLEAN, Twice(t, P, n, N),
         NEW r, NEW u, Refused(t, r, u) \/ TakenIn(t, p, r, u)
  PROVE  AfterTwo(P, n, N, p, r, u)
<1> USE DEF AfterTwo
<1> DEFINE T == t.frags
           F == t.frags \cup {p}
<1>0. T \in SUBSET P /\ p \in P /\ F \in SUBSET P
  BY DEF Twice
<1>1. CASE Refused(t, r, u)
  BY <1>0, <1>1 DEF Refused, Twice
<1>2. CASE TakenIn(t, p, r, u)
  <2>1. Linked(t.frags, p) = F
    BY <1>0, LinkedIs
  <2>2. u.flag => u.length = n
    BY <1>0, <1>2, LengthKnown DEF Twice
  <2>3. u.len = t.len + p.len /\ (r.done => u.flag /\ u.len = n)
    BY <1>2, <2>2 DEF TakenIn
  <2>4. /\ r.done => u.frags = {} /\ r.frags = F
        /\ ~r.done => u.frags = F
    BY <1>2, <2>1 DEF TakenIn
  <2>5. /\ PacketLen(T) \in Nat
        /\ \A x \in P : x.len \in Nat \ {0}
    BY <1>0, PartLen
  <2>6. ASSUME r.done
        PROVE  Twice(u, P, n, N \ {p})
    BY <2>2, <2>3, <2>4, <2>6 DEF Twice
  <2>7. CASE t.len = PacketLen(T) /\ p \notin T /\ \E x \in P : T \cap N \subseteq {x}
    <3>1. u.len = PacketLen(F)
      BY <1>0, <2>3, <2>7, PartGrows
    <3>2. PICK x \in P : F \cap (N \ {p}) \subseteq {x}
      BY <2>7
    <3>3. ~r.done => Twice(u, P, n, N \ {p})
      BY <1>0, <2>2, <2>4, <3>1, <3>2 DEF Twice
    <3> QED
      BY <1>0, <2>3, <2>4, <2>6, <3>1, <3>3
  <2>8. CASE t.len = PacketLen(T) /\ p \in T /\ \E x \in P : T \cap N \subseteq {x}
    <3>1. F = T /\ T \cap (N \ {p}) = {}
      BY <2>8
    <3>2. u.len = PacketLen(F) + p.len /\ p \in F
      BY <2>3, <2>8, <3>1
    <3>3. ~r.done => Twice(u, P, n, N \ {p})
      BY <1>0, <2>2, <2>4, <3>1, <3>2 DEF Twice
    <3> QED
      BY <1>0, <2>3, <2>4, <2>6, <3>2, <3>3
  <2>9. CASE T \cap N = {} /\ \E x \in T : t.len = PacketLen(T) + x.len
    <3>1. p \in P \ T /\ F \cap (N \ {p}) = {}
      BY <1>0, <2>9
    <3>2. PICK x \in T : t.len = PacketLen(T) + x.len
      BY <2>9
    <3>3. PacketLen(F) = PacketLen(T) + p.len
      BY <1>0, <3>1, PartGrows
    <3>4. u.len = PacketLen(F) + x.len /\ x \in F
      BY <1>0, <2>3, <2>5, <3>2, <3>3
    <3>5. ~r.done => Twice(u, P, n, N \ {p})
      BY <1>0, <2>2, <2>4, <3>1, <3>4 DEF Twice
    <3> QED
      BY <1>0, <2>3, <2>4, <2>6, <3>4, <3>5
  <2>10. CASE t.flag /\ t.len \in Nat /\ t.len >= n
    <3>1. u.flag /\ u.len \in Nat /\ u.len > n
      BY <1>0, <1>2, <2>3, <2>5, <2>10 DEF TakenIn
    <3>2. ~r.done
      BY <2>3, <3>1
    <3> QED
      BY <1>0, <2>2, <2>4, <3>1, <3>2 DEF Twice
  <2> QED
    BY <2>7, <2>8, <2>9, <2>10 DEF Twice
<1> QED
  BY <1>1, <1>2

-----------------------------------------------------------------------------
(***************************************************************************)
(* One's complement arithmetic.  Folding a sum takes a multiple of the     *)
(* largest word from it, and only a sum of zero is folded to zero.         *)
(***************************************************************************)
Largest == Word - 1

LEMMA WordsAre == Words = 0 .. Largest
BY DEF Words, Largest

\* Eight words may be added up before two foldings are too few.
Wide == Word >= 8

LEMMA Division ==
  ASSUME NEW w \in Nat \ {0}, NEW q \in Nat, NEW r \in 0 .. w - 1
  PROVE  (q * w + r) \div w = q /\ (q * w + r) % w = r
OBVIOUS

LEMMA Divided ==
  ASSUME NEW w \in Nat \ {0}, NEW s \in Nat
  PROVE  /\ s \div w \in Nat /\ s % w \in 0 .. w - 1
         /\ s = (s \div w) * w + (s % w)
<1>1. s \div w \in Int /\ s % w \in 0 .. w - 1
  OBVIOUS
<1>2. s = (s \div w) * w + (s % w)
  OBVIOUS
<1>3. s \div w >= 0
  OBVIOUS
<1> QED
  BY <1>1, <1>2, <1>3

LEMMA Distributes ==
  ASSUME NEW i \in Int, NEW j \in Int, NEW m \in Int
  PROVE  i * m + j * m = (i + j) * m /\ i * m - j * m = (i - j) * m
OBVIOUS

LEMMA FoldIs ==
  ASSUME Wide, NEW s \in 0 .. 7 * Word
  PROVE  /\ Fold(s) \in Words
         /\ Fold(s) = 0 <=> s = 0
         /\ \E k \in Int : s = Fold(s) + k * Largest
<1> DEFINE q == s \div Word
           r == s % Word
           a == q + r
<1>1. Word \in Nat \ {0} /\ Word >= 8 /\ s \in Nat
  BY WordAssumption DEF Wide
<1>2. q \in Nat /\ r \in 0 .. Word - 1 /\ s = q * Word + r
  BY <1>1, Divided
<1>3. Fold(s) = (a + a \div Word) % Word
  BY DEF Fold
<1> HIDE DEF q, r
<1>4. q <= 7
  BY <1>1, <1>2
<1>5. s = a + q * Largest
  BY <1>1, <1>2 DEF Largest
<1>6. CASE a < Word
  <2>1. a = 0 * Word + a /\ a \in 0 .. Word - 1
    BY <1>1, <1>2, <1>6
  <2>2. a \div Word = 0 /\ a % Word = a
    BY <1>1, <2>1, Division
  <2>3. Fold(s) = a
    BY <1>2, <1>3, <2>2
  <2>4. s = Fold(s) + q * Largest /\ q \in Int
    BY <1>2, <1>5, <2>3
  <2>5. Fold(s) = 0 <=> s = 0
    BY <1>1, <1>2, <2>3
  <2>6. Fold(s) \in Words
    BY <1>1, <2>1, <2>3 DEF Words, Largest
  <2> QED
    BY <2>4, <2>5, <2>6
<1>7. CASE a >= Word
  <2>1. a - Word \in 0 .. Word - 2
    BY <1>1, <1>2, <1>4, <1>7
  <2>2. a = 1 * Word + (a - Word) /\ a - Word \in 0 .. Word - 1
    BY <1>1, <1>2, <2>1
  <2>3. a \div Word = 1
    BY <1>1, <2>2, Division
  <2>4. a + 1 = 1 * Word + (a + 1 - Word) /\ a + 1 - Word \in 0 .. Word - 1
    BY <1>1, <1>2, <2>1
  <2>5. (a + 1) % Word = a + 1 - Word
    BY <1>1, <2>4, Division
  <2>6. Fold(s) = a - Largest
    BY <1>1, <1>2, <1>3, <2>3, <2>5 DEF Largest
  <2>7. s = Fold(s) + (q + 1) * Largest /\ q + 1 \in Int
    BY <1>1, <1>2, <1>5, <2>6 DEF Largest
  <2>8. Fold(s) \in 1 .. Largest /\ s > 0
    BY <1>1, <1>2, <1>7, <2>1, <2>6 DEF Largest
  <2>9. Fold(s) \in Words /\ (Fold(s) = 0 <=> s = 0)
    BY <1>1, <2>8 DEF Words, Largest
  <2> QED
    BY <2>7, <2>9
<1> QED
  BY <1>1, <1>2, <1>6, <1>7

\* A sum that is right.
RightSum(S, ck) == S + ck > 0 /\ \E k \in Int : S + ck = k * Largest

LEMMA HoldsIs ==
  ASSUME Wide, NEW S \in 0 .. 6 * Largest, NEW ck \in Words
  PROVE  Fold(S + ck) = Largest <=> RightSum(S, ck)
<1>1. Largest \in Nat /\ Largest >= 7 /\ S + ck \in 0 .. 7 * Word
  BY WordAssumption DEF Wide, Words, Largest
<1>2. PICK k \in Int : S + ck = Fold(S + ck) + k * Largest
  BY <1>1, FoldIs
<1>3. Fold(S + ck) \in Words /\ (Fold(S + ck) = 0 <=> S + ck = 0)
  BY <1>1, FoldIs
<1> DEFINE F == Fold(S + ck)
<1> HIDE DEF F
<1>4. ASSUME F = Largest
      PROVE  RightSum(S, ck)
  <2>1. S + ck = (k + 1) * Largest /\ k + 1 \in Int
    BY <1>1, <1>2, <1>4 DEF F
  <2>2. S + ck > 0
    BY <1>1, <1>3, <1>4 DEF F
  <2> QED
    BY <2>1, <2>2 DEF RightSum
<1>5. ASSUME RightSum(S, ck)
      PROVE  F = Largest
  <2>1. PICK j \in Int : S + ck = j * Largest
    BY <1>5 DEF RightSum
  <2>2. F = (j - k) * Largest
    <3>1. F \in Int /\ S + ck = F + k * Largest
      BY <1>2, <1>3, WordAssumption DEF F, Words, Largest
    <3>2. F = j * Largest - k * Largest
      BY <1>1, <2>1, <3>1
    <3>3. j * Largest - k * Largest = (j - k) * Largest
      BY <1>1, Distributes
    <3> QED
      BY <3>2, <3>3
  <2>3. F \in 1 .. Largest
    BY <1>1, <1>3, <1>5, WordsAre DEF F, RightSum
  <2>4. j - k = 1
    <3>1. j - k >= 1
      BY <1>1, <2>2, <2>3
    <3>2. j - k < 2
      BY <1>1, <2>2, <2>3
    <3> QED
      BY <3>1, <3>2
  <2> QED
    BY <1>1, <2>2, <2>4
<1> QED
  BY <1>4, <1>5 DEF F

\* The updated checksum makes up for the change of a word.
LEMMA UpdateMakesUp ==
  ASSUME Wide, NEW ck \in Words, NEW old \in Words, NEW new \in Words
  PROVE  /\ csum_incremental_update(ck, old, new) \in Words
         /\ \E k \in Int : csum_incremental_update(ck, old, new) = ck + old - new + k * Largest
<1> DEFINE x == Neg(ck) + Neg(old) + new
           F == Fold(x)
<1>1. Largest \in Nat /\ x = 2 * Largest - ck - old + new /\ x \in 0 .. 7 * Word
  BY WordAssumption DEF Wide, Words, Largest, Neg
<1>2. F \in Words
  BY <1>1, FoldIs
<1>3. PICK j \in Int : x = F + j * Largest
  BY <1>1, FoldIs
<1>4. csum_incremental_update(ck, old, new) = Largest - F
  BY <1>2, WordAssumption DEF csum_incremental_update, Neg, Largest
<1> HIDE DEF F, x
<1>5. Largest - F = ck + old - new + (j - 1) * Largest /\ j - 1 \in Int
  BY <1>1, <1>2, <1>3, WordsAre
<1>6. Largest - F \in Words
  BY <1>1, <1>2, WordsAre
<1> QED
  BY <1>4, <1>5, <1>6

-----------------------------------------------------------------------------
(***************************************************************************)
(* Headers: words where words are, and a sum that no step changes and that *)
(* is not zero (it has the protocol's number, or an ICMP type).            *)
(***************************************************************************)
LEMMA SumOfType ==
  ASSUME Wide, NEW h, IsHeader(h)
  PROVE  SumOf(h) \in 1 .. 6 * Largest
<1>1. Largest \in Nat
  BY WordAssumption DEF Largest
<1>2. h.addr[1] \in Words /\ h.addr[2] \in Words
  BY DEF IsHeader
<1>3. h.rest \in 0 .. Largest /\ h.port \in 0 .. Largest /\ h.mss \in 0 .. Largest
  BY WordsAre DEF IsHeader
<1>4. h.addr[1] \in 0 .. Largest /\ h.addr[2] \in 0 .. Largest
  BY <1>2, WordsAre
<1>5. h.rest # 0 \/ (h.port # 0 /\ h.proto # "other")
  BY DEF IsHeader
<1>6. CASE h.proto \in {"tcp", "udp"}
  <2>1. SumOf(h) = h.addr[1] + h.addr[2] + h.port + h.mss + h.rest
    BY <1>6 DEF SumOf
  <2>2. ASSUME NEW a \in 0 .. Largest, NEW b \in 0 .. Largest, NEW c \in 0 .. Largest,
               NEW d \in 0 .. Largest, NEW e \in 0 .. Largest, c # 0 \/ e # 0
        PROVE  a + b + c + d + e \in 1 .. 6 * Largest
    <3>1. /\ a \in Nat /\ b \in Nat /\ c \in Nat /\ d \in Nat /\ e \in Nat
          /\ a <= Largest /\ b <= Largest /\ c <= Largest /\ d <= Largest /\ e <= Largest
      BY <1>1
    <3>2. a + b + c + d + e >= 1
      BY <2>2, <3>1
    <3> QED
      BY <1>1, <3>1, <3>2
  <2>3. h.port # 0 \/ h.rest # 0
    BY <1>5
  <2>4. h.addr[1] + h.addr[2] + h.port + h.mss + h.rest \in 1 .. 6 * Largest
    BY <1>3, <1>4, <2>2, <2>3
  <2> QED
    BY <2>1, <2>4
<1>7. CASE h.proto = "icmp"
  BY <1>1, <1>3, <1>5, <1>7 DEF SumOf
<1>8. CASE h.proto = "other"
  BY <1>1, <1>3, <1>5, <1>8 DEF SumOf
<1> QED
  BY <1>6, <1>7, <1>8 DEF IsHeader

\* What a receiver tests, as a sum.
LEMMA HoldsRight ==
  ASSUME Wide, NEW h, IsHeader(h)
  PROVE  ChecksumHolds(h) <=> \E k \in Int : SumOf(h) + h.ck = k * Largest
<1>1. SumOf(h) \in 1 .. 6 * Largest /\ h.ck \in Words /\ Largest \in Nat
  BY SumOfType, WordAssumption DEF IsHeader, Largest
<1>2. SumOf(h) \in 0 .. 6 * Largest /\ SumOf(h) + h.ck > 0
  BY <1>1 DEF Words
<1>3. ChecksumHolds(h) <=> RightSum(SumOf(h), h.ck)
  BY <1>1, <1>2, HoldsIs DEF ChecksumHolds, Largest
<1> QED
  BY <1>2, <1>3 DEF RightSum

LEMMA ClampHolds ==
  ASSUME Wide, NEW h, IsHeader(h), ChecksumHolds(h), NEW mtu, MssFor(mtu) \in Words
  PROVE  IsHeader(patch_tcpmss(h, mtu)) /\ ChecksumHolds(patch_tcpmss(h, mtu))
<1>1. CASE patch_tcpmss(h, mtu) = h
  BY <1>1
<1>2. CASE Clampable(h) /\ patch_tcpmss(h, mtu) = fix_msscksum(h, MssFor(mtu))
  <2> DEFINE mss == MssFor(mtu)
             ck  == csum_incremental_update(h.ck, h.mss, mss)
             new == [h EXCEPT !.mss = mss, !.ck = ck]
  <2>0. Largest \in Int
    BY WordAssumption DEF Largest
  <2>1. h.proto = "tcp" /\ h.ck \in Words /\ h.mss \in Words
    BY <1>2 DEF Clampable, IsHeader
  <2>2. ck \in Words
    BY <2>1, UpdateMakesUp
  <2>3. PICK k \in Int : ck = h.ck + h.mss - mss + k * Largest
    BY <2>1, UpdateMakesUp
  <2> HIDE DEF ck, mss
  <2>4. IsHeader(new)
    BY <2>2 DEF IsHeader, Fields, mss
  <2>5. /\ new.proto = "tcp" /\ new.addr = h.addr /\ new.port = h.port /\ new.rest = h.rest
        /\ new.mss = mss /\ new.ck = ck
    BY <2>1 DEF IsHeader, Fields
  <2>6. PICK j \in Int : SumOf(h) + h.ck = j * Largest
    BY HoldsRight
  <2> HIDE DEF new
  <2>7. SumOf(new) + new.ck = SumOf(h) + h.ck + k * Largest
    <3>1. /\ h.addr[1] \in Int /\ h.addr[2] \in Int /\ h.port \in Int /\ h.rest \in Int
          /\ h.mss \in Int /\ mss \in Int /\ h.ck \in Int
      BY <2>0, <2>1 DEF IsHeader, Words, mss
    <3> QED
      BY <2>0, <2>1, <2>3, <2>5, <3>1 DEF SumOf
  <2>8. SumOf(new) + new.ck = (j + k) * Largest /\ j + k \in Int
    BY <2>0, <2>6, <2>7, Distributes
  <2> QED
    BY <1>2, <2>4, <2>8, HoldsRight DEF fix_msscksum, new, ck, mss
<1> QED
  BY <1>1, <1>2 DEF patch_tcpmss

LEMMA ReaddressedHolds ==
  ASSUME Wide, NEW h, IsHeader(h), ChecksumHolds(h), h.proto # "other",
         NEW addr \in Words \X Words, NEW port \in Words, h.rest # 0 \/ port # 0
  PROVE  IsHeader(Readdressed(h, addr, port)) /\ ChecksumHolds(Readdressed(h, addr, port))
<1> DEFINE ck1 == csum_incremental_update(h.ck, h.addr[1], addr[1])
           ck2 == csum_incremental_update(ck1, h.addr[2], addr[2])
           old == IF h.proto \in {"tcp", "udp"} THEN ck2 ELSE h.ck
           ck  == csum_incremental_update(old, h.port, port)
           new == [h EXCEPT !.addr = addr, !.port = port, !.ck = ck]
<1>0. /\ Largest \in Int
      /\ h.ck \in Words /\ h.port \in Words
      /\ h.addr[1] \in Words /\ h.addr[2] \in Words /\ addr[1] \in Words /\ addr[2] \in Words
  BY WordAssumption DEF Largest, IsHeader
<1>1. Readdressed(h, addr, port) = new
  BY DEF Readdressed, pktchecksum, UpdatedAddr
<1>u. \A x, y, z \in Words :
        \E k \in Int : csum_incremental_update(x, y, z) = x + y - z + k * Largest
  BY UpdateMakesUp
<1>2. PICK k1 \in Int : ck1 = h.ck + h.addr[1] - addr[1] + k1 * Largest
  BY <1>0, <1>u, ZenonT(40)
<1>3. ck1 \in Words
  BY <1>0, UpdateMakesUp, Zenon
<1> HIDE DEF ck1
<1>4. PICK k2 \in Int : ck2 = ck1 + h.addr[2] - addr[2] + k2 * Largest
  BY <1>0, <1>3, <1>u, Zenon
<1>5. ck2 \in Words
  BY <1>0, <1>3, UpdateMakesUp, Zenon
<1> HIDE DEF ck2
<1>6. old \in Words
  BY <1>0, <1>5
<1> HIDE DEF old
<1>7. PICK k \in Int : ck = old + h.port - port + k * Largest
  BY <1>0, <1>6, <1>u, Zenon
<1>8. ck \in Words
  BY <1>0, <1>6, UpdateMakesUp, Zenon
<1> HIDE DEF ck
<1>9. IsHeader(new)
  BY <1>8 DEF IsHeader, Fields
<1>10. /\ new.proto = h.proto /\ new.addr = addr /\ new.port = port /\ new.rest = h.rest
       /\ new.mss = h.mss /\ new.ck = ck
  BY DEF IsHeader, Fields
<1> HIDE DEF new
<1>11. PICK j \in Int : SumOf(h) + h.ck = j * Largest
  BY HoldsRight
<1>12. /\ h.addr[1] \in Int /\ h.addr[2] \in Int /\ addr[1] \in Int /\ addr[2] \in Int
       /\ h.port \in Int /\ port \in Int /\ h.rest \in Int /\ h.mss \in Int /\ h.ck \in Int
       /\ ck1 \in Int /\ ck2 \in Int /\ old \in Int /\ ck \in Int
  BY <1>0, <1>3, <1>5, <1>6, <1>8 DEF IsHeader, Words
<1>13. \E i \in Int : SumOf(new) + new.ck = i * Largest
  <2>1. CASE h.proto \in {"tcp", "udp"}
    <3>1. old = ck2
      BY <2>1 DEF old
    <3>2. /\ SumOf(h) = h.addr[1] + h.addr[2] + h.port + h.mss + h.rest
          /\ SumOf(new) = addr[1] + addr[2] + port + h.mss + h.rest
      BY <1>10, <2>1 DEF SumOf
    <3>3. SumOf(new) + new.ck = SumOf(h) + h.ck + k1 * Largest + k2 * Largest + k * Largest
      BY <1>0, <1>2, <1>4, <1>7, <1>10, <1>12, <3>1, <3>2
    <3>4. SumOf(new) + new.ck = (((j + k1) + k2) + k) * Largest
      BY <1>0, <1>11, <3>3, Distributes
    <3> QED
      BY <3>4
  <2>2. CASE h.proto = "icmp"
    <3>1. old = h.ck
      BY <2>2 DEF old
    <3>2. SumOf(h) = h.port + h.rest /\ SumOf(new) = port + h.rest
      BY <1>10, <2>2 DEF SumOf
    <3>3. SumOf(new) + new.ck = SumOf(h) + h.ck + k * Largest
      BY <1>0, <1>7, <1>10, <1>12, <3>1, <3>2
    <3>4. SumOf(new) + new.ck = (j + k) * Largest /\ j + k \in Int
      BY <1>0, <1>11, <3>3, Distributes
    <3> QED
      BY <3>4
  <2> QED
    BY <2>1, <2>2 DEF IsHeader
<1> QED
  BY <1>1, <1>9, <1>13, HoldsRight DEF new

LEMMA RequotedHolds ==
  ASSUME Wide, NEW h, IsHeader(h), h.proto = "icmp",
         NEW addr \in Words \X Words, NEW port
  PROVE  ChecksumHolds(Requoted(h, addr, port))
<1> DEFINE moved == [h EXCEPT !.addr = addr, !.quoted.addr = addr, !.quoted.port = port]
           ck    == ip_checksum(moved)
           new   == [moved EXCEPT !.ck = ck]
           F     == Fold(SumOf(moved))
<1>0. Largest \in Nat
  BY WordAssumption DEF Largest
<1>1. Requoted(h, addr, port) = new
  BY DEF Requoted
<1>2. IsHeader(moved)
  BY DEF IsHeader, Fields
<1>3. SumOf(moved) \in 1 .. 6 * Largest
  BY <1>2, SumOfType
<1>4. SumOf(moved) \in 0 .. 7 * Word
  BY <1>3, WordAssumption DEF Largest
<1>5. F \in Words
  BY <1>4, FoldIs
<1>6. PICK k \in Int : SumOf(moved) = F + k * Largest
  BY <1>4, FoldIs
<1>7. ck = Largest - F
  BY <1>5, WordAssumption DEF ip_checksum, Neg, Largest
<1> HIDE DEF F, ck
<1>8. ck \in Words
  BY <1>0, <1>5, <1>7, WordsAre
<1>9. IsHeader(new)
  BY <1>2, <1>8 DEF IsHeader, Fields
<1>10. SumOf(new) = SumOf(moved) /\ new.ck = ck
  BY DEF IsHeader, Fields, SumOf
<1>11. SumOf(new) + new.ck = (k + 1) * Largest /\ k + 1 \in Int
  BY <1>0, <1>3, <1>5, <1>6, <1>7, <1>10 DEF Words
<1> QED
  BY <1>1, <1>9, <1>11, HoldsRight

\* A header without the words: what a step changes of it, and what it does not.
Shaped(h) == h = [x \in Fields |-> h[x]] /\ h.mss \in Int

SameBut(S, h, g) == \A x \in Fields \ S : h[x] = g[x]

LEMMA ClampShape ==
  ASSUME NEW h, Shaped(h), NEW mtu \in Int
  PROVE  LET g == patch_tcpmss(h, mtu)
         IN  /\ Shaped(g) /\ SameBut({"mss", "ck"}, g, h)
             /\ Clampable(g) <=> Clampable(h)
             /\ g.mss <= h.mss \/ ~Clampable(h)
             /\ Clampable(h) => g.mss + MinimalSyn + HDR6 <= mtu
<1> DEFINE ck == csum_incremental_update(h.ck, h.mss, MssFor(mtu))
           new == [h EXCEPT !.mss = MssFor(mtu), !.ck = ck]
<1>1. MssFor(mtu) \in Int /\ MssFor(mtu) + MinimalSyn + HDR6 = mtu
  BY DEF MssFor, MinimalSyn, HDR4, HDR6, HDRT
<1>2. MinimalSyn \in Int /\ HDR6 \in Int /\ h.mss \in Int
  BY DEF MinimalSyn, HDR4, HDR6, HDRT, Shaped
<1> HIDE DEF ck
<1>3. CASE Clampable(h) /\ h.mss + MinimalSyn > mtu - HDR6
  <2>1. patch_tcpmss(h, mtu) = new
    BY <1>3 DEF patch_tcpmss, fix_msscksum, ck
  <2>2. /\ new = [x \in Fields |-> new[x]] /\ new.mss = MssFor(mtu)
        /\ \A x \in Fields \ {"mss", "ck"} : new[x] = h[x]
    BY DEF Shaped, Fields
  <2> HIDE DEF new
  <2>3. /\ new.proto = h.proto /\ new.syn = h.syn /\ new.data = h.data /\ new.opts = h.opts
    BY <2>2 DEF Fields
  <2>4. Clampable(new)
    BY <1>3, <2>3 DEF Clampable
  <2> HIDE DEF Clampable
  <2>5. new.mss <= h.mss /\ new.mss + MinimalSyn + HDR6 <= mtu
    BY <1>1, <1>2, <1>3, <2>2
  <2> QED
    BY <1>1, <1>3, <2>1, <2>2, <2>4, <2>5 DEF Shaped, SameBut
<1>4. CASE ~(Clampable(h) /\ h.mss + MinimalSyn > mtu - HDR6)
  <2>1. patch_tcpmss(h, mtu) = h
    BY <1>4 DEF patch_tcpmss
  <2>2. Clampable(h) => h.mss + MinimalSyn + HDR6 <= mtu
    BY <1>2, <1>4
  <2> QED
    BY <1>2, <2>1, <2>2 DEF SameBut
<1> QED
  BY <1>3, <1>4

LEMMA ReaddressShape ==
  ASSUME NEW h, Shaped(h), NEW addr, NEW port
  PROVE  LET g == Readdressed(h, addr, port)
         IN  /\ Shaped(g) /\ SameBut({"addr", "port", "ck"}, g, h)
             /\ g.addr = addr /\ g.port = port
             /\ Clampable(g) <=> Clampable(h)
<1> DEFINE ck == pktchecksum(h, addr, port)
           new == [h EXCEPT !.addr = addr, !.port = port, !.ck = ck]
<1>1. Readdressed(h, addr, port) = new
  BY DEF Readdressed
<1> HIDE DEF ck
<1>2. /\ new = [x \in Fields |-> new[x]] /\ new.mss = h.mss
      /\ new.addr = addr /\ new.port = port
      /\ \A x \in Fields \ {"addr", "port", "ck"} : new[x] = h[x]
  BY DEF Shaped, Fields
<1> HIDE DEF new
<1>3. /\ new.proto = h.proto /\ new.syn = h.syn /\ new.data = h.data /\ new.opts = h.opts
  BY <1>2 DEF Fields
<1>4. Clampable(new) <=> Clampable(h)
  BY <1>3 DEF Clampable
<1> HIDE DEF Clampable
<1> QED
  BY <1>1, <1>2, <1>4 DEF Shaped, SameBut

LEMMA RequoteShape ==
  ASSUME NEW h, Shaped(h), NEW addr, NEW port
  PROVE  LET g == Requoted(h, addr, port)
         IN  /\ Shaped(g) /\ SameBut({"addr", "quoted", "ck"}, g, h)
             /\ g.addr = addr
             /\ g.quoted = [h.quoted EXCEPT !.addr = addr, !.port = port]
             /\ Clampable(g) <=> Clampable(h)
<1> DEFINE moved == [h EXCEPT !.addr = addr, !.quoted.addr = addr, !.quoted.port = port]
           ck    == ip_checksum(moved)
           new   == [moved EXCEPT !.ck = ck]
<1>1. Requoted(h, addr, port) = new
  BY DEF Requoted
<1> HIDE DEF ck
<1>2. /\ new = [x \in Fields |-> new[x]] /\ new.mss = h.mss
      /\ new.addr = addr /\ new.quoted = [h.quoted EXCEPT !.addr = addr, !.port = port]
      /\ \A x \in Fields \ {"addr", "quoted", "ck"} : new[x] = h[x]
  BY DEF Shaped, Fields
<1> HIDE DEF new
<1>3. /\ new.proto = h.proto /\ new.syn = h.syn /\ new.data = h.data /\ new.opts = h.opts
  BY <1>2 DEF Fields
<1>4. Clampable(new) <=> Clampable(h)
  BY <1>3 DEF Clampable
<1> HIDE DEF Clampable
<1> QED
  BY <1>1, <1>2, <1>4 DEF Shaped, SameBut

LEMMA NewQuote ==
  ASSUME NEW h, Shaped(h), NEW addr, NEW port,
         h.quoted = [x \in {"proto", "addr", "port", "peer"} |-> h.quoted[x]]
  PROVE  LET g == Requoted(h, addr, port)
         IN  g.addr = addr /\ g.quoted.addr = addr /\ g.quoted.port = port
<1> DEFINE q     == [h.quoted EXCEPT !.addr = addr, !.port = port]
           moved == [h EXCEPT !.addr = addr, !.quoted.addr = addr, !.quoted.port = port]
           ck    == ip_checksum(moved)
           new   == [moved EXCEPT !.ck = ck]
<1>1. Requoted(h, addr, port) = new
  BY DEF Requoted
<1>2. q.addr = addr /\ q.port = port
  OBVIOUS
<1> HIDE DEF ck
<1>3. new.addr = addr /\ new.quoted = q
  BY DEF Shaped, Fields
<1> HIDE DEF new, q
<1> QED
  BY <1>1, <1>2, <1>3

\* What nathandle makes of a header.
LEMMA Translated ==
  ASSUME NEW h, Shaped(h), NEW c
  PROVE  LET n == nathandle(c, h)
             S == SessionsOf(c, DownKey(h))
             s == CHOOSE x \in S : TRUE
         IN  /\ n.ok <=> S # {}
             /\ ~n.ok => n.h = h
             /\ n.ok => /\ s \in S /\ s \in Session /\ h.proto # "other"
                        /\ IF IsOutICMPErrPacket(h) THEN n.h = Requoted(h, s.host, s.oldport)
                           ELSE n.h = Readdressed(h, s.host, s.oldport)
             /\ Shaped(n.h) /\ n.h.mss = h.mss
             /\ Clampable(n.h) <=> Clampable(h)
<1> DEFINE n == nathandle(c, h)
           S == SessionsOf(c, DownKey(h))
           s == CHOOSE x \in S : TRUE
<1>1. CASE S = {}
  BY <1>1 DEF nathandle
<1>2. CASE S # {}
  <2>1. s \in S
    BY <1>2
  <2>2. s \in Session /\ s.proto = DownKey(h).proto
    BY <2>1 DEF SessionsOf
  <2>3. h.proto # "other"
    BY <2>2, WordsAssumption DEF DownKey, IsOutICMPErrPacket
  <2>4. CASE IsOutICMPErrPacket(h)
    <3>1. n = [ok |-> TRUE, h |-> Requoted(h, s.host, s.oldport)]
      BY <1>2, <2>4 DEF nathandle
    <3> DEFINE g == Requoted(h, s.host, s.oldport)
    <3>2. /\ Shaped(g) /\ SameBut({"addr", "quoted", "ck"}, g, h)
          /\ Clampable(g) <=> Clampable(h)
      BY RequoteShape
    <3> HIDE DEF g, s
    <3>3. g.mss = h.mss
      BY <3>2 DEF SameBut, Fields
    <3> QED
      BY <1>2, <2>1, <2>2, <2>3, <2>4, <3>1, <3>2, <3>3 DEF g, s
  <2>5. CASE ~IsOutICMPErrPacket(h)
    <3>1. n = [ok |-> TRUE, h |-> Readdressed(h, s.host, s.oldport)]
      BY <1>2, <2>3, <2>5 DEF nathandle
    <3> DEFINE g == Readdressed(h, s.host, s.oldport)
    <3>2. /\ Shaped(g) /\ SameBut({"addr", "port", "ck"}, g, h)
          /\ Clampable(g) <=> Clampable(h)
      BY ReaddressShape
    <3> HIDE DEF g, s
    <3>3. g.mss = h.mss
      BY <3>2 DEF SameBut, Fields
    <3> QED
      BY <1>2, <2>1, <2>2, <2>3, <2>5, <3>1, <3>2, <3>3 DEF g, s
  <2> QED
    BY <2>4, <2>5
<1> QED
  BY <1>1, <1>2

\* What a host of a gateway is sent has a right checksum if what the gateway was sent
\* had (nathandle).
LEMMA TranslationHolds ==
  ASSUME Wide, NEW h, IsHeader(h), ChecksumHolds(h), NEW c,
         h.rest # 0 \/ \A s \in Session : s.oldport # 0
  PROVE  ChecksumHolds(nathandle(c, h).h)
<1> DEFINE n == nathandle(c, h)
           S == SessionsOf(c, DownKey(h))
           s == CHOOSE x \in S : TRUE
<1>0. Shaped(h)
  BY DEF Shaped, IsHeader, Words
<1>1. CASE ~n.ok
  BY <1>0, <1>1, Translated
<1>2. CASE n.ok
  <2>1. /\ s \in Session /\ h.proto # "other"
        /\ IF IsOutICMPErrPacket(h) THEN n.h = Requoted(h, s.host, s.oldport)
           ELSE n.h = Readdressed(h, s.host, s.oldport)
    BY <1>0, <1>2, Translated
  <2> HIDE DEF n, s
  <2>2. s.host \in Words \X Words /\ s.oldport \in Words /\ (h.rest # 0 \/ s.oldport # 0)
    BY <2>1, WordsAssumption
  <2>3. IsOutICMPErrPacket(h) => ChecksumHolds(Requoted(h, s.host, s.oldport))
    BY <2>2, RequotedHolds DEF IsOutICMPErrPacket
  <2>4. ChecksumHolds(Readdressed(h, s.host, s.oldport))
    BY <2>1, <2>2, ReaddressedHolds
  <2> QED
    BY <2>1, <2>3, <2>4 DEF n
<1> QED
  BY <1>1, <1>2

\* The clamped header of a right datagram.
LEMMA ClampedHolds ==
  ASSUME Wide, NEW h, IsHeader(h), ChecksumHolds(h), NEW mtu \in {TcMtu, UpMtu}
  PROVE  LET g == patch_tcpmss(h, mtu)
         IN  IsHeader(g) /\ ChecksumHolds(g) /\ g.rest = h.rest /\ g.proto = h.proto
<1>1. IsHeader(patch_tcpmss(h, mtu)) /\ ChecksumHolds(patch_tcpmss(h, mtu))
  BY ClampHolds, WordsAssumption
<1>2. Shaped(h) /\ mtu \in Int
  BY LinksAssumption DEF Shaped, IsHeader, Words
<1>3. SameBut({"mss", "ck"}, patch_tcpmss(h, mtu), h)
  BY <1>2, ClampShape
<1> QED
  BY <1>1, <1>3 DEF SameBut, Fields

\* What a host of a gateway is sent has a right checksum if the datagram that the
\* concentrator took from the Internet had: after both clampings of the segment
\* size and the translation, or the new quotation of an ICMP error, for every
\* width of a word and all sessions (csum_incremental_update, nathandle).
THEOREM HostFindsItRight ==
  ASSUME Wide, NEW h, IsHeader(h), ChecksumHolds(h), NEW c,
         h.rest # 0 \/ \A s \in Session : s.oldport # 0
  PROVE  /\ ChecksumHolds(nathandle(c, patch_tcpmss(patch_tcpmss(h, TcMtu), UpMtu)).h)
         /\ ChecksumHolds(nathandle(c, patch_tcpmss(h, TcMtu)).h)
<1> DEFINE h1 == patch_tcpmss(h, TcMtu)
           h2 == patch_tcpmss(h1, UpMtu)
<1>1. IsHeader(h1) /\ ChecksumHolds(h1) /\ h1.rest = h.rest
  BY ClampedHolds
<1> HIDE DEF h1
<1>2. IsHeader(h2) /\ ChecksumHolds(h2) /\ h2.rest = h.rest
  BY <1>1, ClampedHolds
<1> HIDE DEF h2
<1>3. ChecksumHolds(nathandle(c, h1).h) /\ ChecksumHolds(nathandle(c, h2).h)
  BY <1>1, <1>2, TranslationHolds
<1> QED
  BY <1>3 DEF h1, h2

\* The same towards the Internet: what the concentrator sends has a right checksum
\* if the host's datagram had (stream_up_hook, HandleIPinIP_skbuf, HandleFragment).
THEOREM InternetFindsItRight ==
  ASSUME Wide, NEW h, IsHeader(h), ChecksumHolds(h), NEW c \in Client,
         NEW s \in SessionFrom(c, h), h.rest # 0 \/ s.newport # 0
  PROVE  LET g == Readdressed(patch_tcpmss(h, UpMtu), PubIP[c], s.newport)
         IN  ChecksumHolds(g) /\ ChecksumHolds(patch_tcpmss(g, TcMtu))
<1> DEFINE h1 == patch_tcpmss(h, UpMtu)
           h2 == Readdressed(h1, PubIP[c], s.newport)
<1>1. IsHeader(h1) /\ ChecksumHolds(h1) /\ h1.rest = h.rest /\ h1.proto = h.proto
  BY ClampedHolds
<1>2. /\ PubIP[c] \in Words \X Words /\ s.newport \in Words
      /\ h.proto \in {"tcp", "udp", "icmp"}
  BY WordsAssumption DEF SessionFrom
<1> HIDE DEF h1
<1>3. IsHeader(h2) /\ ChecksumHolds(h2)
  BY <1>1, <1>2, ReaddressedHolds
<1> HIDE DEF h2
<1>4. ChecksumHolds(patch_tcpmss(h2, TcMtu))
  BY <1>3, ClampedHolds
<1> QED
  BY <1>3, <1>4 DEF h1, h2

-----------------------------------------------------------------------------
(***************************************************************************)
(* Who is told.  A datagram that the gateway refuses for its length is     *)
(* nowhere in the tunnel: not in a frame, not among the fragments that     *)
(* wait, not in what left.  Its report is on its way or has been answered, *)
(* and of the other reports only those about a gateway without a tunnel    *)
(* are answered.                                                           *)
(***************************************************************************)
Lessees == {Lease[b] : b \in DOMAIN Lease}

TooLongUp(d) == d.dir = "up" /\ ~ipdst_filter(d.h) /\ ~IPv4LenCheck(d, UpMtu)

RightReport(r) ==
  \/ r.msgdef = "crash" /\ r.at = Tc /\ r.to \in Client \ Lessees
  \/ r.msgdef = "toolong" /\ r.at \in Client /\ TooLongUp(r.of)
  \/ r.msgdef = "packet" /\ r.at = Tc

RightFrame(f) == ~TooLongUp(f.of) /\ (f.to = Tc => f.from \in Client)

Carried(tab) ==
  \A k \in DOMAIN tab :
    /\ DOMAIN tab[k] = {"len", "length", "flag", "life", "frags", "cnt"}
    /\ \A p \in tab[k].frags : ~TooLongUp(p.of)

Answered(S) == \A d \in sent : TooLongUp(d) =>
              \E r \in S : r.of = d /\ r.to = d.h.addr /\ r.msgdef = "toolong"

TellInv ==
  /\ load \in Loads /\ sent \subseteq load
  /\ Answered(reports \cup told)
  /\ \A r \in reports \cup told : RightReport(r)
  /\ \A r \in told : r.msgdef # "packet"
  /\ \A f \in net : RightFrame(f)
  /\ \A o \in out : ~TooLongUp(o.of)
  /\ DOMAIN tc = {"tab", "buf"} /\ Carried(tc.tab)
  /\ DOMAIN gw = Client
  /\ \A c \in Client : DOMAIN gw[c] = {"tab", "buf"} /\ Carried(gw[c].tab)

LEMMA InsertCarries ==
  ASSUME NEW tab, Carried(tab), NEW key, NEW p, ~TooLongUp(p.of)
  PROVE  LET r == fragnodeinsert(tab, key, p)
         IN  /\ Carried(r.tab)
             /\ r.done => r.frags # {} /\ \A q \in r.frags : ~TooLongUp(q.of)
<1> DEFINE Tuple(t) == /\ DOMAIN t = {"len", "length", "flag", "life", "frags", "cnt"}
                       /\ \A q \in t.frags : ~TooLongUp(q.of)
           counted == [ShashBucketFind(tab, key) EXCEPT !.cnt = @ + 1]
           linked  == [counted EXCEPT !.life = FragTimeout, !.frags = Linked(@, p)]
           t       == Counted(linked, p)
           refused == key \in DOMAIN tab /\ counted.cnt > MaxFragCnt
           done    == ~refused /\ Complete(t, p)
           new     == CASE refused           -> counted
                        [] ~refused /\ done  -> [t EXCEPT !.frags = {}]
                        [] ~refused /\ ~done -> t
           r       == fragnodeinsert(tab, key, p)
<1>1. Tuple(ShashBucketFind(tab, key))
  BY DEF Carried, ShashBucketFind, NewTuple
<1>2. Tuple(counted)
  BY <1>1
<1> HIDE DEF counted
<1>3. Linked(counted.frags, p) # {} /\ \A q \in Linked(counted.frags, p) : ~TooLongUp(q.of)
  BY <1>2 DEF Linked
<1>4. Tuple(linked) /\ linked.frags # {}
  BY <1>2, <1>3
<1> HIDE DEF linked
<1>5. Tuple(t) /\ t.frags = linked.frags
  BY <1>4 DEF Counted
<1>6. r = [tab |-> ShashInsert(tab, key, new), done |-> done,
           frags |-> IF done THEN t.frags ELSE {}]
  BY DEF fragnodeinsert, counted, linked
<1> HIDE DEF t
<1>7. Tuple(new)
  BY <1>2, <1>5
<1> HIDE DEF new
<1>8. Carried(ShashInsert(tab, key, new))
  BY <1>7 DEF ShashInsert, Carried
<1>9. /\ r.tab = ShashInsert(tab, key, new)
      /\ r.done => r.frags = linked.frags
  <2>1. done \in BOOLEAN
    OBVIOUS
  <2> HIDE DEF r, done
  <2>2. r.tab = ShashInsert(tab, key, new) /\ r.done = done
    BY <1>6
  <2>3. r.frags = IF done THEN t.frags ELSE {}
    BY <1>6
  <2> QED
    BY <1>5, <2>1, <2>2, <2>3
<1> HIDE DEF r
<1> QED
  BY <1>4, <1>8, <1>9 DEF r

LEMMA TimerCarries ==
  ASSUME NEW tab, Carried(tab)
  PROVE  Carried(fragtimeouthandle(tab))
BY DEF Carried, fragtimeouthandle, Restrict

\* What the reassembled packet is of, is one of its fragments.
LEMMA AssembledOf ==
  ASSUME NEW frags, frags # {}, NEW buf, \A q \in frags : ~TooLongUp(q.of)
  PROVE  ~TooLongUp(Assembled(frags, buf).of)
BY DEF Assembled

\* Reports and answers that only grow.
LEMMA MoreReports ==
  ASSUME TellInv, NEW S, reports \cup told \subseteq S
  PROVE  Answered(S)
BY DEF TellInv, Answered

\* The concentrator takes a datagram from the Internet.
LEMMA TellDown ==
  ASSUME TellInv, NEW d \in load \ sent, HandleIPv4_skbuf(d)
  PROVE  TellInv'
<1>1. /\ ~TooLongUp(d) /\ sent' = sent \cup {d}
      /\ UNCHANGED <<load, tc, gw, out, told>>
  BY DEF HandleIPv4_skbuf, TooLongUp
<1>2. ASSUME NEW f \in net' \ net
      PROVE  RightFrame(f)
  <2>1. PICK b \in DOMAIN Lease : f.of = d /\ f.to = Lease[b]
    BY <1>2 DEF HandleIPv4_skbuf, IPv4FragandIPinIP, Fragments, Whole
  <2> QED
    BY <1>1, <2>1, SoftwireAssumption DEF RightFrame
<1>3. ASSUME NEW r \in reports' \ reports
      PROVE  r.msgdef = "packet" /\ r.at = Tc
  BY <1>3 DEF HandleIPv4_skbuf, TooLong, Report
<1>4. reports \subseteq reports'
  BY DEF HandleIPv4_skbuf
<1>5. Answered(reports \cup told)'
  BY <1>1, <1>4, MoreReports DEF Answered
<1> QED
  BY <1>1, <1>2, <1>3, <1>5 DEF TellInv, RightReport

\* The gateway takes a datagram from a host.
LEMMA TellUp ==
  ASSUME TellInv, NEW d \in load \ sent, stream_up_hook(d)
  PROVE  TellInv'
<1> DEFINE c == d.client
<1>1. /\ d.dir = "up" /\ sent' = sent \cup {d} /\ reports' = reports \cup TooLongForTunnel(c, d)
      /\ UNCHANGED <<load, tc, gw, out, told>>
  BY DEF stream_up_hook
<1>2. c \in Client
  BY <1>1, SoftwireAssumption DEF TellInv
<1>3. ASSUME NEW f \in net' \ net
      PROVE  RightFrame(f)
  <2>1. ipdst_filter(d.h) \/ IPv4LenCheck(d, UpMtu)
    BY <1>3 DEF stream_up_hook
  <2>2. f.of = d /\ f.from = c
    BY <1>3 DEF stream_up_hook, ipv6_frag_handl, Fragments, Whole
  <2> QED
    BY <1>2, <2>1, <2>2 DEF RightFrame, TooLongUp
<1>4. ASSUME NEW r \in TooLongForTunnel(c, d)
      PROVE  /\ r.at = c /\ r.msgdef = "toolong" /\ r.of = d /\ r.to = d.h.addr
             /\ TooLongUp(d)
  BY <1>1, <1>4 DEF TooLongForTunnel, Report, TooLongUp
<1>5. TooLongUp(d) => TooLongForTunnel(c, d) # {}
  BY DEF TooLongForTunnel, Report, TooLongUp
<1>6. Answered(reports \cup told)'
  BY <1>1, <1>4, <1>5 DEF Answered, TellInv
<1> QED
  BY <1>1, <1>2, <1>3, <1>4, <1>6 DEF TellInv, RightReport

\* A frame reaches the concentrator.
LEMMA TellTc ==
  ASSUME TellInv, NEW f \in net, HandleIPv6_skbuf(f)
  PROVE  TellInv'
<1>1. /\ f.to = Tc /\ net' \subseteq net /\ RightFrame(f)
      /\ UNCHANGED <<load, sent, gw, told>>
  BY DEF HandleIPv6_skbuf, Arrives, TellInv
<1>2. ~TooLongUp(f.of) /\ f.from \in Client
  BY <1>1 DEF RightFrame
<1>3. SUFFICES
        /\ reports \subseteq reports' /\ \A r \in reports' \ reports : RightReport(r)
        /\ \A o \in out' \ out : ~TooLongUp(o.of)
        /\ DOMAIN tc' = {"tab", "buf"} /\ Carried(tc'.tab)
  <2>1. ASSUME reports \subseteq reports'
        PROVE  Answered(reports \cup told)'
    BY <1>1, <2>1, MoreReports DEF Answered
  <2> QED
    BY <1>1, <2>1 DEF TellInv
<1>4. CASE HandleIPinIP_skbuf(f)
  BY <1>2, <1>4 DEF HandleIPinIP_skbuf, Single, Leaving, TellInv
<1>5. CASE HandleFragment(f)
  <2> DEFINE r == fragnodeinsert(tc.tab, FragKey(f), f)
             d == Assembled(r.frags, tc.buf)
  <2>1. /\ Carried(r.tab)
        /\ r.done => r.frags # {} /\ \A q \in r.frags : ~TooLongUp(q.of)
    BY <1>2, InsertCarries DEF TellInv
  <2> HIDE DEF r
  <2>2. r.done => ~TooLongUp(d.of)
    BY <2>1, AssembledOf
  <2> HIDE DEF d
  <2>3. UNCHANGED reports
    BY <1>5 DEF HandleFragment
  <2>4. CASE r.done
    <3>1. tc' = [tab |-> r.tab, buf |-> d.h] /\ out' = out \cup SentToInternet(d)
      BY <1>5, <2>4 DEF HandleFragment, r, d
    <3>2. \A o \in SentToInternet(d) : o.of = d.of
      BY DEF SentToInternet, Single, Leaving
    <3> QED
      BY <2>1, <2>2, <2>3, <2>4, <3>1, <3>2
  <2>5. CASE ~r.done
    <3>1. tc' = [tc EXCEPT !.tab = r.tab] /\ out' = out
      BY <1>5, <2>5 DEF HandleFragment, r
    <3> QED
      BY <2>1, <2>3, <3>1 DEF TellInv
  <2> QED
    BY <2>4, <2>5
<1>6. CASE NoTunnel(f)
  <2>1. f.from \notin Lessees /\ UNCHANGED <<tc, out>>
    BY <1>1, <1>6 DEF NoTunnel, FromTunnel, Lessees
  <2>2. /\ reports \subseteq reports'
        /\ \A r \in reports' \ reports : r.at = Tc /\ r.msgdef = "crash" /\ r.to = f.from
    BY <1>6 DEF NoTunnel, Report
  <2> QED
    BY <1>2, <2>1, <2>2 DEF RightReport, TellInv
<1> QED
  BY <1>4, <1>5, <1>6 DEF HandleIPv6_skbuf

\* A frame reaches a gateway.
LEMMA TellGateway ==
  ASSUME TellInv, NEW f \in net, NEW c \in Client, stream_down_hook(c, f)
  PROVE  TellInv'
<1>1. /\ net' \subseteq net /\ ~TooLongUp(f.of)
      /\ UNCHANGED <<load, sent, tc, reports, told>>
  BY DEF stream_down_hook, Arrives, TellInv, RightFrame, errors
<1>2. SUFFICES
        /\ \A o \in out' \ out : ~TooLongUp(o.of)
        /\ \E new : /\ gw' = [gw EXCEPT ![c] = new] \/ (gw' = gw /\ new = gw[c])
                    /\ DOMAIN new = {"tab", "buf"} /\ Carried(new.tab)
  <2>1. PICK new : /\ gw' = [gw EXCEPT ![c] = new] \/ (gw' = gw /\ new = gw[c])
                   /\ DOMAIN new = {"tab", "buf"} /\ Carried(new.tab)
    BY <1>2
  <2>2. DOMAIN gw' = Client /\ \A e \in Client : gw'[e] = IF e = c THEN new ELSE gw[e]
    BY <2>1 DEF TellInv
  <2>3. Answered(reports \cup told)'
    BY <1>1 DEF Answered, TellInv
  <2> QED
    BY <1>1, <1>2, <2>1, <2>2, <2>3 DEF TellInv
<1>3. DOMAIN gw[c] = {"tab", "buf"} /\ Carried(gw[c].tab) /\ DOMAIN gw = Client
  BY DEF TellInv
<1>4. CASE ipiphandle(c, f)
  <2>1. gw' = gw
    BY <1>4 DEF ipiphandle
  <2>2. \A o \in out' \ out : o.of = f.of
    BY <1>4 DEF ipiphandle, Single, Leaving
  <2> QED
    BY <1>1, <1>3, <2>1, <2>2
<1>5. CASE GatewayFragment(c, f)
  <2> DEFINE r == fragnodeinsert(gw[c].tab, FragKey(f), f)
             d == Assembled(r.frags, gw[c].buf)
             n == nathandle(c, d.h)
  <2>1. /\ Carried(r.tab)
        /\ r.done => r.frags # {} /\ \A q \in r.frags : ~TooLongUp(q.of)
    BY <1>1, <1>3, InsertCarries
  <2> HIDE DEF r
  <2>2. r.done => ~TooLongUp(d.of)
    BY <2>1, AssembledOf
  <2> HIDE DEF d, n
  <2>3. CASE r.done
    <3>1. /\ gw' = [gw EXCEPT ![c] = [tab |-> r.tab, buf |-> d.h]]
          /\ out' = out \cup frag_nathandle(c, d, n)
      BY <1>5, <2>3 DEF GatewayFragment, GwInserted, GwAssembled, r, d, n
    <3>2. \A o \in frag_nathandle(c, d, n) : o.of = d.of
      BY DEF frag_nathandle, Leaving
    <3> DEFINE new == [tab |-> r.tab, buf |-> d.h]
    <3>3. DOMAIN new = {"tab", "buf"} /\ Carried(new.tab)
      BY <2>1
    <3> HIDE DEF new
    <3> QED
      BY <2>2, <2>3, <3>1, <3>2, <3>3 DEF new
  <2>4. CASE ~r.done
    <3> DEFINE new == [gw[c] EXCEPT !.tab = r.tab]
    <3>1. gw' = [gw EXCEPT ![c] = new] /\ out' = out
      BY <1>5, <2>4 DEF GatewayFragment, GwInserted, r
    <3>2. DOMAIN new = {"tab", "buf"} /\ Carried(new.tab)
      BY <1>3, <2>1
    <3> HIDE DEF new
    <3> QED
      BY <3>1, <3>2
  <2> QED
    BY <2>3, <2>4
<1> QED
  BY <1>4, <1>5 DEF stream_down_hook

\* A daemon takes a report: one about a refused datagram it answers.
LEMMA TellTold ==
  ASSUME TellInv, NEW r \in reports, Told(r)
  PROVE  TellInv'
<1>1. reports' = reports \ {r} /\ UNCHANGED <<load, sent, net, tc, gw, out>>
  BY DEF Told
<1>2. RightReport(r) /\ Tc \notin Client
  BY SoftwireAssumption DEF TellInv
<1>3. /\ told' \in {told, told \cup {r}}
      /\ r.msgdef = "packet" => told' = told
      /\ r.msgdef = "toolong" => told' = told \cup {r}
  BY <1>2 DEF Told, HandlAsyncMessage, handleIcmpv4Error, IcmpErrorSend, RightReport
<1>4. reports' \cup told' \subseteq reports \cup told
  BY <1>1, <1>3
<1>5. Answered(reports \cup told)'
  <2>1. ASSUME NEW e \in reports \cup told, e.msgdef = "toolong"
        PROVE  e \in reports' \cup told'
    BY <1>1, <1>3, <2>1
  <2> QED
    BY <1>1, <2>1 DEF Answered, TellInv
<1> QED
  BY <1>1, <1>3, <1>4, <1>5 DEF TellInv

LEMMA TellStep ==
  ASSUME TellInv, [Next]_vars
  PROVE  TellInv'
<1>1. CASE TcTimer
  <2>1. tc' = [tc EXCEPT !.tab = fragtimeouthandle(tc.tab)]
    BY <1>1 DEF TcTimer
  <2>2. DOMAIN tc' = {"tab", "buf"} /\ Carried(tc'.tab)
    BY <2>1, TimerCarries DEF TellInv
  <2> QED
    BY <1>1, <2>2 DEF TcTimer, TellInv, Answered, errors
<1>2. ASSUME NEW c \in Client, GwTimer(c)
      PROVE  TellInv'
  <2>1. gw' = [gw EXCEPT ![c] = [gw[c] EXCEPT !.tab = fragtimeouthandle(gw[c].tab)]]
    BY <1>2 DEF GwTimer
  <2>2. /\ DOMAIN gw' = Client
        /\ \A e \in Client : DOMAIN gw'[e] = {"tab", "buf"} /\ Carried(gw'[e].tab)
    BY <2>1, TimerCarries DEF TellInv
  <2> QED
    BY <1>2, <2>2 DEF GwTimer, TellInv, Answered, errors
<1>3. CASE UNCHANGED vars
  BY <1>3 DEF vars, errors, TellInv, Answered
<1> QED
  BY <1>1, <1>2, <1>3, TellDown, TellUp, TellTc, TellGateway, TellTold
  DEF Next, Handle_skbuf

\* A host whose datagram must not be fragmented and does not fit is told, and only
\* he and gateways without a tunnel are, for any tunnels, sessions, sizes, loads and
\* losses (stream_len_check, IsCrashIPinPool, HandlAsyncMessage).
THEOREM SendersAreTold == Spec => []SendersTold
<1>1. Init => TellInv
  BY DEF Init, initfragmodule, TellInv, Answered, Carried
<1>2. TellInv /\ [Next]_vars => TellInv'
  BY TellStep
<1>3. ASSUME TellInv
      PROVE  SendersTold
  <2>1. ASSUME NEW d \in sent, TooLongUp(d)
        PROVE  \E r \in reports \cup told : r.of = d /\ r.to = d.h.addr
    BY <1>3, <2>1 DEF TellInv, Answered
  <2>2. ASSUME NEW r \in told
        PROVE  IF r.msgdef = "crash" THEN r.to \in Client \ Lessees
               ELSE Of(r.of) = {} /\ \A f \in net : f.of # r.of
    <3>1. RightReport(r) /\ r.msgdef # "packet"
      BY <1>3, <2>2 DEF TellInv
    <3>2. \A o \in out : ~TooLongUp(o.of)
      BY <1>3 DEF TellInv
    <3>3. \A f \in net : ~TooLongUp(f.of)
      BY <1>3 DEF TellInv, RightFrame
    <3> QED
      BY <3>1, <3>2, <3>3 DEF RightReport, Of
  <2> QED
    BY <2>1, <2>2 DEF SendersTold, TooLongUp, Lessees
<1> QED
  BY <1>1, <1>2, <1>3, PTL DEF Spec

-----------------------------------------------------------------------------
(***************************************************************************)
(* Where a datagram is.  Everything on its way or waiting is one of the    *)
(* frames of its datagram for the place it is at.  Of a datagram d that    *)
(* met no other with its key, and is received at r, everything on its way  *)
(* is one of Frames(d, r); while something of it is, or waits, the tuple   *)
(* of its key holds nothing else and counts as Alone and Twice say; and    *)
(* nothing is on its way or waits any more once it has left the tunnel,    *)
(* which it does all at once.                                              *)
(***************************************************************************)
Places == Client \cup {Tc}
Buf(a) == IF a = Tc THEN tc.buf ELSE gw[a].buf

UpSession(d)  == CHOOSE x \in SessionFrom(d.client, d.h) : TRUE
WireHeader(d) ==
  IF d.dir = "up" THEN Readdressed(patch_tcpmss(d.h, UpMtu), PubIP[d.client], UpSession(d).newport)
  ELSE patch_tcpmss(d.h, TcMtu)

Cutting(d) == IF d.dir = "up" THEN EqualPieces(d.len, Down8(UpMtu) - (HDR6 + HDRF))
              ELSE BigFirst(d.len, TcMtu - (HDR6 + HDRF))

Frames(d, r) ==
  IF InFragments(d) THEN Fragments(Sender(d), r, d, WireHeader(d), Cutting(d))
  ELSE Whole(Sender(d), r, d, WireHeader(d))

\* The receivers a datagram may be sent to.
Route(d, r) ==
  /\ IPv4LenCheck(d, Link(d))
  /\ IF d.dir = "up" THEN r = Tc /\ SessionFrom(d.client, d.h) # {}
     ELSE \E at \in FetchIPAndPort(d.h) : BlockOf(at) \in DOMAIN Lease /\ r = Lease[BlockOf(at)]

\* The IPv4 packets a datagram leaves the tunnel in; a is the address the gateway
\* writes into all fragments but the first.
Body(d) == [of |-> d, h |-> WireHeader(d), len |-> d.len, whole |-> TRUE]

ToInternet(d) ==
  IF InFragments(d) THEN SentToInternet(Body(d))
  ELSE {Single("inet", Tc, Body(d), patch_tcpmss(WireHeader(d), TcMtu))}

RestHeader(d, a) == [WireHeader(d) EXCEPT !.addr = a]

HostHeader(d, r) ==
  nathandle(r, IF InFragments(d) THEN WireHeader(d) ELSE patch_tcpmss(WireHeader(d), UpMtu))

ToHost(d, r, a) ==
  LET n == HostHeader(d, r)
  IN  IF InFragments(d)
      THEN {Leaving("lan", r, Body(d), IF p.off = 0 THEN n.h ELSE RestHeader(d, a),
                    p.off, p.len, p.more) : p \in Refragmented(d.len, LanMtu)}
      ELSE {Single("lan", r, Body(d), n.h)}

Delivered(d, r, S) ==
  IF r = Tc THEN S = ToInternet(d) /\ d.client \in Lessees
  ELSE LET n == HostHeader(d, r)
       IN  /\ ~InFragments(d) => n.ok
           /\ \E a : (n.ok => a = n.h.addr) /\ S = ToHost(d, r, a)

Waits(t, d, r) ==
  IF d \in dups THEN Twice(t, Frames(d, r), d.len, OnWay(d))
  ELSE Alone(t, Frames(d, r), d.len, OnWay(d))

\* A fragment of the datagram waits at a place.
Held(d, a) == \E k \in DOMAIN Tab(a) : \E q \in Tab(a)[k].frags : q.of = d

InPlace(d, r) ==
  /\ Route(d, r)
  /\ OnWay(d) \subseteq Frames(d, r)
  /\ \A a \in Places : Held(d, a) => a = r
  /\ InFragments(d) /\ Live(d) /\ Key(d) \in DOMAIN Tab(r) => Waits(Tab(r)[Key(d)], d, r)
  /\ d \notin dups /\ Of(d) # {} => ~Live(d) /\ Delivered(d, r, Of(d))

Nowhere(d) == ~Live(d) /\ Of(d) = {}

Placed(d) == Nowhere(d) \/ \E r \in Places : InPlace(d, r)

\* Of two datagrams with one key and one receiver, one is over before the other is
\* sent, unless they are said to have met.
Separate ==
  \A d \in sent \ mixed : \A e \in sent : Alike(d, e) => ~Live(d) \/ ~Live(e)

\* What fits, whatever arrived twice: the packets that leave and the header that a
\* buffer keeps.
Offers(h, mtu) == Clampable(h) => h.mss + MinimalSyn + HDR6 <= mtu

MtuAt(a) == IF a = Tc THEN UpMtu ELSE TcMtu

SmallOut(o) ==
  /\ o.of \notin mixed => o.len <= IF o.side = "inet" THEN TcMtu ELSE LanMtu
  /\ o.off = 0 => Offers(o.h, OfferedMtu(o))

SmallBuf(a) == Shaped(Buf(a)) /\ Offers(Buf(a), MtuAt(a))

\* A frame at a place, or on its way to it.
Belongs(f, a) == f.of \in sent /\ Route(f.of, a) /\ f \in Frames(f.of, a)

\* A fragment in the tuple of a key.
Kin(q, a, k) == Belongs(q, a) /\ InFragments(q.of) /\ Key(q.of) = k

DataType ==
  /\ load \in Loads /\ sent \subseteq load
  /\ DOMAIN tc = {"tab", "buf"} /\ DOMAIN gw = Client
  /\ \A c \in Client : DOMAIN gw[c] = {"tab", "buf"}
  /\ \A f \in net : f.to \in Places /\ Belongs(f, f.to)
  /\ \A o \in out : o.of \in sent
  /\ \A a \in Places : \A k \in DOMAIN Tab(a) :
       IsTuple(Tab(a)[k]) /\ \A q \in Tab(a)[k].frags : Kin(q, a, k)

DataInv ==
  /\ DataType
  /\ \A o \in out : SmallOut(o)
  /\ \A a \in Places : SmallBuf(a)
  /\ Separate
  /\ \A d \in sent \ mixed : Placed(d)

-----------------------------------------------------------------------------
(***************************************************************************)
(* Datagrams and the frames that carry them.                               *)
(***************************************************************************)
IsDatagram(d) ==
  /\ d.dir \in {"up", "down"} /\ d.len \in Nat /\ d.len > HDR4
  /\ IsHeader(d.h)
  /\ d.h.quoted = [x \in {"proto", "addr", "port", "peer"} |-> d.h.quoted[x]]
  /\ d.h.quoted.port \in Words
  /\ d.h.rest # 0 \/ \A s \in Session : s.oldport # 0 /\ s.newport # 0
  /\ d.dir = "up" => d.client \in Client

LEMMA DatagramsAre ==
  ASSUME DataType
  PROVE  \A d \in load : IsDatagram(d)
<1>1. load \in Loads
  BY DEF DataType
<1> QED
  BY <1>1, DatagramsAssumption, SoftwireAssumption DEF IsDatagram

LEMMA HeaderShape ==
  ASSUME NEW h, IsHeader(h)
  PROVE  Shaped(h)
BY DEF Shaped, IsHeader, Words

\* The room in a frame.
LEMMA CuttingFits ==
  ASSUME NEW d, IsDatagram(d)
  PROVE  \E room \in Nat : /\ FittingCut(Cutting(d), d.len, room)
                           /\ room + (HDR6 + HDRF) <= Link(d)
                           /\ d.dir = "down" => room >= 2 * HDR4
                           /\ d.dir = "down" /\ d.len <= room =>
                                Cutting(d) = {[off |-> 0, len |-> d.len]}
<1>0. /\ TcMtu \in Nat /\ TcMtu >= HDR6 + HDRF + 2 * HDR4
      /\ UpMtu \in Nat /\ UpMtu >= HDR6 + HDRF + 2 * HDR4
  BY LinksAssumption
<1>h. HDR6 = 40 /\ HDRF = 8 /\ HDR4 = 20
  BY DEF HDR6, HDRF, HDR4
<1>d. d.len \in Nat \ {0} /\ d.dir \in {"up", "down"}
  BY <1>h DEF IsDatagram
<1>1. CASE d.dir = "up"
  <2> DEFINE down == Down8(UpMtu)
             max == down - (HDR6 + HDRF)
  <2>1. down \in Int /\ down % 8 = 0 /\ down <= UpMtu /\ UpMtu - 7 <= down
    <3>1. UpMtu \in Int
      BY <1>0
    <3> QED
      BY <3>1, RoundDown
  <2> HIDE DEF down
  <2>2. max \in Nat /\ max >= 8 /\ max % 8 = 0 /\ max + (HDR6 + HDRF) <= UpMtu
    BY <1>0, <1>h, <2>1
  <2>3. Cutting(d) = EqualPieces(d.len, max)
    BY <1>1 DEF Cutting, down
  <2> HIDE DEF max
  <2>4. FittingCut(Cutting(d), d.len, max)
    BY <1>d, <2>2, <2>3, EqualPiecesCut
  <2> QED
    BY <1>1, <2>2, <2>4 DEF Link
<1>2. CASE d.dir = "down"
  <2> DEFINE room == TcMtu - (HDR6 + HDRF)
  <2>1. room \in Nat /\ room >= 8 /\ room >= 2 * HDR4 /\ room + (HDR6 + HDRF) <= TcMtu
    BY <1>0, <1>h
  <2>2. Cutting(d) = BigFirst(d.len, room)
    BY <1>2 DEF Cutting
  <2> HIDE DEF room
  <2>3. /\ FittingCut(Cutting(d), d.len, room)
        /\ d.len <= room => Cutting(d) = {[off |-> 0, len |-> d.len]}
    <3>1. d.len \in Nat /\ d.len # 0
      BY <1>d
    <3> QED
      BY <2>1, <2>2, <3>1, BigFirstCuts
  <2> QED
    BY <1>2, <2>1, <2>3 DEF Link
<1> QED
  BY <1>1, <1>2, <1>d

\* Fragments of a packet are its pieces.
LEMMA FragmentsAre ==
  ASSUME NEW d, d.len \in Nat, NEW from, NEW to, NEW h, NEW C, NEW room, FittingCut(C, d.len, room)
  PROVE  LET P == Fragments(from, to, d, h, C)
         IN  /\ PiecesOf(P, d.len)
             /\ \A f \in P : /\ f.kind = "frag" /\ f.from = from /\ f.to = to /\ f.of = d
                             /\ f.h = (IF f.off = 0 THEN h ELSE NoBuf) /\ f.more \in BOOLEAN
                             /\ f.len <= room /\ (f.more => f.len % 8 = 0)
             /\ \A p \in C : \E f \in P : f.off = p.off /\ f.len = p.len
             /\ \A f \in P : \E p \in C : f.off = p.off /\ f.len = p.len
<1> DEFINE P == Fragments(from, to, d, h, C)
           F(p) == [kind |-> "frag", from |-> from, to |-> to, of |-> d,
                    h |-> IF p.off = 0 THEN h ELSE NoBuf,
                    len |-> p.len, off |-> p.off, more |-> p.off + p.len < d.len]
<1>1. P = {F(p) : p \in C}
  BY DEF Fragments
<1>2. \A p \in C : /\ F(p).off = p.off /\ F(p).len = p.len /\ F(p).of = d
                   /\ F(p).kind = "frag" /\ F(p).from = from /\ F(p).to = to
                   /\ F(p).h = (IF p.off = 0 THEN h ELSE NoBuf)
                   /\ F(p).more <=> p.off + p.len < d.len
                   /\ F(p).more \in BOOLEAN
  <2> SUFFICES ASSUME NEW p \in C
               PROVE  /\ F(p).off = p.off /\ F(p).len = p.len /\ F(p).of = d
                      /\ F(p).kind = "frag" /\ F(p).from = from /\ F(p).to = to
                      /\ F(p).h = (IF p.off = 0 THEN h ELSE NoBuf)
                      /\ F(p).more <=> p.off + p.len < d.len
                      /\ F(p).more \in BOOLEAN
    OBVIOUS
  <2>1. /\ F(p).off = p.off /\ F(p).len = p.len /\ F(p).of = d
        /\ F(p).kind = "frag" /\ F(p).from = from /\ F(p).to = to
        /\ F(p).h = (IF p.off = 0 THEN h ELSE NoBuf)
    OBVIOUS
  <2> DEFINE more == p.off + p.len < d.len
  <2>2. F(p).more = more
    OBVIOUS
  <2>3. more \in BOOLEAN
    OBVIOUS
  <2> HIDE DEF F
  <2>4. (F(p).more <=> more) /\ F(p).more \in BOOLEAN
    <3> HIDE DEF more
    <3> QED
      BY <2>2, <2>3
  <2> QED
    BY <2>1, <2>4
<1> HIDE DEF P, F
<1>3. /\ IsFiniteSet(C) /\ Sized(C) /\ Apart(C) /\ Covered(C) = 0 .. d.len - 1
      /\ \A p \in C : FitsAt(p, d.len, room)
  BY DEF FittingCut, Cut
<1>4. Sized(P)
  BY <1>1, <1>2, <1>3 DEF Sized
<1>5. Apart(P)
  <2> SUFFICES ASSUME NEW p \in C, NEW q \in C, F(p) # F(q)
               PROVE  Bytes(F(p)) \cap Bytes(F(q)) = {}
    BY <1>1 DEF Apart
  <2>1. p # q
    OBVIOUS
  <2>2. Bytes(F(p)) = Bytes(p) /\ Bytes(F(q)) = Bytes(q)
    BY <1>2 DEF Bytes
  <2> QED
    BY <1>3, <2>1, <2>2 DEF Apart
<1>6. Covered(P) = 0 .. d.len - 1
  <2>1. \A p \in C : Bytes(F(p)) = Bytes(p)
    BY <1>2 DEF Bytes
  <2>2. Covered(P) = Covered(C)
    BY <1>1, <2>1 DEF Covered
  <2> QED
    BY <1>3, <2>2
<1>7. IsFiniteSet(P)
  <2>1. IsFiniteSet(Covered(P))
    BY <1>6, FirstBytes
  <2> QED
    BY <1>4, <1>5, <2>1, ApartFinite
<1>8. PiecesOf(P, d.len)
  <2>1. \A p \in C : F(p).more <=> F(p).off + F(p).len < d.len
    BY <1>2
  <2>2. \A f \in P : f.more <=> f.off + f.len < d.len
    BY <1>1, <2>1
  <2> QED
    BY <1>4, <1>5, <1>6, <1>7, <2>2 DEF PiecesOf, Cut
<1>9. ASSUME NEW p \in C
      PROVE  F(p).len <= room /\ (F(p).more => F(p).len % 8 = 0) /\ F(p).more \in BOOLEAN
  <2>1. p.len <= room /\ p.off \in Nat /\ p.len \in Nat
        /\ (p.off + p.len = d.len \/ p.len % 8 = 0)
    BY <1>3 DEF FitsAt, Sized
  <2>2. F(p).more => p.off + p.len # d.len
    BY <1>2, <2>1
  <2> QED
    BY <1>2, <2>1, <2>2
<1> QED
  BY <1>1, <1>2, <1>8, <1>9 DEF P

LEMMA FramesAre ==
  ASSUME NEW d, IsDatagram(d), NEW r
  PROVE  /\ \A f \in Frames(d, r) :
              /\ f.of = d /\ f.to = r /\ f.from = Sender(d)
              /\ f.kind = (IF InFragments(d) THEN "frag" ELSE "ipip") /\ f.more \in BOOLEAN
              /\ f.h \in {WireHeader(d), NoBuf} /\ (f.off = 0 => f.h = WireHeader(d))
              /\ f.len + HDR6 + (IF f.kind = "frag" THEN HDRF ELSE 0) <= Link(d)
              /\ f.more => f.len % 8 = 0
         /\ InFragments(d) => PiecesOf(Frames(d, r), d.len)
         /\ ~InFragments(d) => \A f, g \in Frames(d, r) : f.len = d.len /\ f.off = 0 /\ f = g
<1>h. HDR6 = 40 /\ HDRF = 8 /\ Link(d) \in Nat /\ d.len \in Nat
  BY LinksAssumption DEF HDR6, HDRF, Link, IsDatagram
<1>1. CASE InFragments(d)
  <2>1. PICK room \in Nat : FittingCut(Cutting(d), d.len, room) /\ room + (HDR6 + HDRF) <= Link(d)
    BY CuttingFits
  <2>2. Frames(d, r) = Fragments(Sender(d), r, d, WireHeader(d), Cutting(d))
    BY <1>1 DEF Frames
  <2>3. /\ PiecesOf(Frames(d, r), d.len)
        /\ \A f \in Frames(d, r) :
              /\ f.kind = "frag" /\ f.from = Sender(d) /\ f.to = r /\ f.of = d
              /\ f.h = (IF f.off = 0 THEN WireHeader(d) ELSE NoBuf) /\ f.more \in BOOLEAN
              /\ f.len <= room /\ (f.more => f.len % 8 = 0)
    <3> DEFINE w == WireHeader(d)
               C == Cutting(d)
               P == Fragments(Sender(d), r, d, w, C)
    <3>1. P = Frames(d, r)
      BY <2>2
    <3>2. d.len \in Nat /\ FittingCut(C, d.len, room)
      BY <1>h, <2>1
    <3> HIDE DEF w, C
    <3>3. /\ PiecesOf(P, d.len)
          /\ \A f \in P : /\ f.kind = "frag" /\ f.from = Sender(d) /\ f.to = r /\ f.of = d
                          /\ f.h = (IF f.off = 0 THEN w ELSE NoBuf) /\ f.more \in BOOLEAN
                          /\ f.len <= room /\ (f.more => f.len % 8 = 0)
      BY <3>2, FragmentsAre
    <3> HIDE DEF P
    <3> QED
      BY <3>1, <3>3 DEF w
  <2>4. \A f \in Frames(d, r) : f.len \in Nat
    BY <2>3 DEF PiecesOf, Cut, Sized
  <2>5. \A f \in Frames(d, r) : f.len + HDR6 + HDRF <= Link(d)
    <3> SUFFICES ASSUME NEW f \in Frames(d, r)
                 PROVE  f.len + HDR6 + HDRF <= Link(d)
      OBVIOUS
    <3>1. f.len \in Nat /\ f.len <= room
      BY <2>3, <2>4
    <3> QED
      BY <1>h, <2>1, <3>1
  <2> QED
    BY <1>1, <2>3, <2>5
<1>2. CASE ~InFragments(d)
  <2> DEFINE w == WireHeader(d)
             g == [kind |-> "ipip", from |-> Sender(d), to |-> r, of |-> d, h |-> w,
                   len |-> d.len, off |-> 0, more |-> FALSE]
  <2>1. Frames(d, r) = {g}
    BY <1>2 DEF Frames, Whole
  <2> HIDE DEF w
  <2>2. /\ g.kind = "ipip" /\ g.from = Sender(d) /\ g.to = r /\ g.of = d /\ g.h = w
        /\ g.len = d.len /\ g.off = 0 /\ g.more = FALSE
    OBVIOUS
  <2> HIDE DEF g
  <2>3. d.len + HDR6 + 0 <= Link(d)
    BY <1>2, <1>h DEF InFragments
  <2> QED
    BY <1>2, <2>1, <2>2, <2>3 DEF w
<1> QED
  BY <1>1, <1>2

LEMMA WireFits ==
  ASSUME NEW d, IsDatagram(d)
  PROVE  Shaped(WireHeader(d)) /\ Offers(WireHeader(d), Link(d))
<1>1. Shaped(d.h) /\ TcMtu \in Int /\ UpMtu \in Int
  BY HeaderShape, LinksAssumption DEF IsDatagram
<1>2. CASE d.dir = "up"
  <2> DEFINE g == patch_tcpmss(d.h, UpMtu)
  <2>1. Shaped(g) /\ (Clampable(g) => g.mss + MinimalSyn + HDR6 <= UpMtu)
    BY <1>1, ClampShape
  <2> HIDE DEF g
  <2> DEFINE w == Readdressed(g, PubIP[d.client], UpSession(d).newport)
  <2>2. Shaped(w) /\ SameBut({"addr", "port", "ck"}, w, g) /\ (Clampable(w) <=> Clampable(g))
    BY <2>1, ReaddressShape
  <2>3. WireHeader(d) = w
    BY <1>2 DEF WireHeader, g
  <2> HIDE DEF w
  <2>4. w.mss = g.mss
    BY <2>2 DEF SameBut, Fields
  <2> QED
    BY <1>2, <2>1, <2>2, <2>3, <2>4 DEF Offers, Link
<1>3. CASE d.dir # "up"
  <2> DEFINE g == patch_tcpmss(d.h, TcMtu)
  <2>1. Shaped(g) /\ (Clampable(g) => g.mss + MinimalSyn + HDR6 <= TcMtu)
    BY <1>1, ClampShape
  <2>2. WireHeader(d) = g
    BY <1>3 DEF WireHeader
  <2> HIDE DEF g
  <2> QED
    BY <1>3, <2>1, <2>2 DEF Offers, Link
<1> QED
  BY <1>2, <1>3

\* What fragprocess puts together, of all fragments and of some.
LEMMA AssembledPart ==
  ASSUME NEW d, IsDatagram(d), NEW r, NEW F \in SUBSET Frames(d, r), F # {}, NEW buf
  PROVE  LET a == Assembled(F, buf)
         IN  a.of = d /\ a.len = PacketLen(F) /\ a.h \in {WireHeader(d), buf}
<1> DEFINE first == {p \in F : p.off = 0}
           head  == IF first = {} THEN buf ELSE (CHOOSE p \in first : TRUE).h
           some  == CHOOSE p \in F : TRUE
<1>1. Assembled(F, buf) = [of |-> some.of, h |-> head, len |-> PacketLen(F), whole |-> Gapless(F)]
  BY DEF Assembled
<1>2. some \in F /\ some.of = d
  <2>1. some \in F
    OBVIOUS
  <2> HIDE DEF some
  <2> QED
    BY <2>1, FramesAre
<1>3. head \in {WireHeader(d), buf}
  <2>1. CASE first = {}
    BY <2>1
  <2>2. CASE first # {}
    <3> DEFINE p == CHOOSE x \in first : TRUE
    <3>1. p \in first
      BY <2>2
    <3>2. head = p.h
      BY <2>2
    <3> HIDE DEF p, head
    <3>3. p \in F /\ p.off = 0
      BY <3>1
    <3> QED
      BY <3>2, <3>3, FramesAre
  <2> QED
    BY <2>1, <2>2
<1> HIDE DEF some, head
<1> QED
  BY <1>1, <1>2, <1>3

LEMMA AssembledAll ==
  ASSUME NEW d, IsDatagram(d), NEW r, InFragments(d), NEW buf
  PROVE  Assembled(Frames(d, r), buf) = Body(d)
<1> DEFINE P     == Frames(d, r)
           first == {p \in P : p.off = 0}
           head  == IF first = {} THEN buf ELSE (CHOOSE p \in first : TRUE).h
           some  == CHOOSE p \in P : TRUE
<1>0. d.len \in Nat \ {0} /\ PiecesOf(P, d.len)
  BY FramesAre DEF IsDatagram, HDR4
<1>1. /\ \E p \in P : p.off = 0
      /\ \A p \in P : p.off + p.len = d.len \/ \E q \in P : q.off = p.off + p.len
      /\ \A p \in P : p.off \in Nat /\ p.len \in Nat /\ (p.more <=> p.off + p.len < d.len)
  BY <1>0, NoGap DEF PiecesOf, Cut, Sized
<1>2. Assembled(P, buf) = [of |-> some.of, h |-> head, len |-> PacketLen(P), whole |-> Gapless(P)]
  BY DEF Assembled
<1>3. PacketLen(P) = d.len
  BY <1>0, PartLen
<1>4. \A p \in P : p.of = d /\ (p.off = 0 => p.h = WireHeader(d))
  BY FramesAre
<1> HIDE DEF P
<1>5. head = WireHeader(d)
  <2>1. first # {}
    BY <1>1
  <2> DEFINE p == CHOOSE x \in first : TRUE
  <2>2. p \in first /\ head = p.h
    BY <2>1
  <2> HIDE DEF p, head
  <2> QED
    BY <1>4, <2>2
<1>6. some.of = d
  <2>1. some \in P
    BY <1>1
  <2> HIDE DEF some
  <2> QED
    BY <1>4, <2>1
<1>7. Gapless(P)
  <2>1. {p.of : p \in P} = {d}
    BY <1>1, <1>4
  <2>2. Cardinality({p.of : p \in P}) = 1
    BY <2>1, FS_Singleton
  <2>3. \A p \in P : ~p.more \/ \E q \in P : q.off = p.off + p.len
    BY <1>1
  <2> QED
    BY <1>1, <2>2, <2>3 DEF Gapless
<1>8. Gapless(P) = TRUE
  <2> DEFINE g == Gapless(P)
  <2>1. g \in BOOLEAN
    BY DEF Gapless
  <2>2. g
    BY <1>7
  <2> HIDE DEF g
  <2>3. g = TRUE
    BY <2>1, <2>2
  <2> QED
    BY <2>3 DEF g
<1> HIDE DEF head, some
<1> QED
  BY <1>2, <1>3, <1>5, <1>6, <1>8 DEF Body, P

-----------------------------------------------------------------------------
(***************************************************************************)
(* The IPv4 packets a datagram leaves in.  They carry the pieces of a cut  *)
(* of what follows its header, one each.                                   *)
(***************************************************************************)
CarryAll(S, C, n) ==
  /\ \A o \in S : /\ o.len \in Int /\ Carries(o) \in C
                  /\ o.more <=> o.off + (o.len - HDR4) < n
  /\ \A p \in C : \E o \in S : Carries(o) = p
  /\ \A o, q \in S : o.off = q.off => o = q

LEMMA TilesAre ==
  ASSUME NEW d, d.len \in Nat, d.len > HDR4, NEW room, NEW C,
         FittingCut(C, d.len - HDR4, room), CarryAll(Of(d), C, d.len - HDR4)
  PROVE  Tiles(d)
<1> DEFINE n == d.len - HDR4
           S == Of(d)
<1>0. n \in Nat \ {0} /\ HDR4 \in Nat
  BY DEF HDR4
<1>1. CarryAll(S, C, n) /\ FittingCut(C, n, room)
  OBVIOUS
<1> HIDE DEF n, S
<1>2. Cut(C, 0, n) /\ Sized(C) /\ \A p \in C : FitsAt(p, n, room)
  BY <1>1 DEF FittingCut, Cut
<1>3. PayloadLen(S) = n
  BY <1>0, <1>1, CarriedWhole DEF CarryAll
<1>4. \A o \in S : Carries(o).off = o.off /\ Carries(o).len = o.len - HDR4
  BY DEF Carries
<1>5. /\ \E p \in C : p.off = 0
      /\ \A p \in C : p.off + p.len = n \/ \E q \in C : q.off = p.off + p.len
      /\ \A p \in C : p.off + p.len <= n /\ p.off \in Nat /\ p.len \in Nat \ {0}
  BY <1>0, <1>2, NoGapInCut DEF Sized
<1>6. \E o \in S : o.off = 0
  <2>1. PICK p \in C : p.off = 0
    BY <1>5
  <2>2. PICK o \in S : Carries(o) = p
    BY <1>1 DEF CarryAll
  <2> QED
    BY <1>4, <2>1, <2>2
<1>7. ASSUME NEW o \in S
      PROVE  /\ o.more <=> \E q \in S : q.off = o.off + o.len - HDR4
             /\ o.more => o.off % 8 = 0 /\ (o.len - HDR4) % 8 = 0
  <2> DEFINE p == Carries(o)
  <2>1. p \in C /\ p.off = o.off /\ p.len = o.len - HDR4 /\ o.len \in Int
    BY <1>1, <1>4 DEF CarryAll
  <2>2. o.more <=> p.off + p.len < n
    BY <1>1, <2>1 DEF CarryAll
  <2> HIDE DEF p
  <2>3. p.off + p.len <= n /\ p.off \in Nat /\ p.len \in Nat \ {0}
    BY <1>5, <2>1
  <2>4. p.off + p.len = o.off + o.len - HDR4
    BY <1>0, <2>1, <2>3
  <2>5. ASSUME o.more
        PROVE  \E q \in S : q.off = o.off + o.len - HDR4
    <3>1. PICK c \in C : c.off = p.off + p.len
      BY <1>0, <1>5, <2>1, <2>2, <2>3, <2>5
    <3>2. PICK q \in S : Carries(q) = c
      BY <1>1 DEF CarryAll
    <3> QED
      BY <1>4, <2>4, <3>1, <3>2
  <2>6. ASSUME NEW q \in S, q.off = o.off + o.len - HDR4
        PROVE  o.more
    <3>1. /\ Carries(q).off = p.off + p.len /\ Carries(q).len \in Nat \ {0}
          /\ Carries(q).off + Carries(q).len <= n
      BY <1>1, <1>4, <1>5, <2>4, <2>6 DEF CarryAll
    <3> QED
      BY <1>0, <2>2, <2>3, <3>1
  <2>7. o.more => p.off % 8 = 0 /\ p.len % 8 = 0
    BY <1>0, <1>2, <2>1, <2>2, <2>3 DEF FitsAt
  <2> QED
    BY <2>1, <2>5, <2>6, <2>7
<1> QED
  BY <1>3, <1>6, <1>7 DEF Tiles, PayloadLen, S, n

\* What pkt_fraghandle makes of a packet.
LEMMA RefragIs ==
  ASSUME NEW len \in Nat, len > HDR4, NEW mtu \in {TcMtu, LanMtu}
  PROVE  LET R == Refragmented(len, mtu)
         IN  /\ \E C, room : FittingCut(C, len - HDR4, room) /\ CarryAll(R, C, len - HDR4)
             /\ \A q \in R : q.len \in Int /\ q.len <= mtu
             /\ len <= mtu => \A q \in R : q.off = 0 /\ q.len = len /\ q.more = FALSE
<1> DEFINE n    == len - HDR4
           room == mtu - HDR4
           C    == BigFirst(n, room)
           Q(p) == [off |-> p.off, len |-> p.len + HDR4, more |-> p.off + p.len < n]
           R    == Refragmented(len, mtu)
<1>0. HDR4 = 20 /\ HDR6 = 40 /\ HDRF = 8
  BY DEF HDR4, HDR6, HDRF
<1>1. n \in Nat \ {0} /\ room \in Nat /\ room >= 8 /\ mtu \in Nat
  BY <1>0, LinksAssumption
<1>2. R = {Q(p) : p \in C}
  BY DEF Refragmented
<1>l. n = len - HDR4 /\ room = mtu - HDR4
  OBVIOUS
<1> HIDE DEF n, room, R
<1>3. /\ FittingCut(C, n, room)
      /\ n <= room => C = {[off |-> 0, len |-> n]}
  BY <1>1, BigFirstCuts
<1> HIDE DEF C
<1>4. /\ \A p \in C : /\ p.off \in Nat /\ p.len \in Nat \ {0} /\ p.len <= room
                      /\ p = [off |-> p.off, len |-> p.len]
      /\ \A p, q \in C : p.off = q.off => p = q
  <2>1. Cut(C, 0, n) /\ Sized(C) /\ \A p \in C : FitsAt(p, n, room)
    BY <1>3 DEF FittingCut, Cut
  <2> QED
    BY <1>1, <2>1, NoGapInCut DEF Sized, FitsAt
<1>5. ASSUME NEW p \in C
      PROVE  /\ Q(p).off = p.off /\ Q(p).len = p.len + HDR4 /\ Q(p).more \in BOOLEAN
             /\ Q(p).more <=> p.off + p.len < n
  <2> DEFINE more == p.off + p.len < n
  <2>1. Q(p).off = p.off /\ Q(p).len = p.len + HDR4
    OBVIOUS
  <2>2. Q(p).more = more
    OBVIOUS
  <2>3. more \in BOOLEAN
    OBVIOUS
  <2> HIDE DEF Q
  <2>4. Q(p).more \in BOOLEAN /\ (Q(p).more <=> more)
    <3> HIDE DEF more
    <3> QED
      BY <2>2, <2>3
  <2> QED
    BY <2>1, <2>4
<1> HIDE DEF Q
<1>6. ASSUME NEW p \in C
      PROVE  /\ Q(p).len \in Int /\ Carries(Q(p)) = p /\ Q(p).len <= mtu
             /\ Q(p).more <=> Q(p).off + (Q(p).len - HDR4) < n
  <2>1. p.len + HDR4 \in Int /\ (p.len + HDR4) - HDR4 = p.len /\ p.len + HDR4 <= mtu
    BY <1>0, <1>1, <1>4, <1>l
  <2> QED
    BY <1>4, <1>5, <2>1 DEF Carries
<1>7. CarryAll(R, C, n)
  <2>1. \A p, q \in C : Q(p).off = Q(q).off => Q(p) = Q(q)
    BY <1>4, <1>5
  <2> QED
    BY <1>2, <1>6, <2>1 DEF CarryAll
<1>8. ASSUME len <= mtu
      PROVE  \A q \in R : q.off = 0 /\ q.len = len /\ q.more = FALSE
  <2> DEFINE p == [off |-> 0, len |-> n]
  <2>1. n <= room
    BY <1>0, <1>1, <1>8, <1>l
  <2>2. R = {Q(p)} /\ p \in C
    BY <1>2, <1>3, <2>1
  <2>3. p.off = 0 /\ p.len = n
    OBVIOUS
  <2> HIDE DEF p
  <2>4. ~Q(p).more
    BY <1>1, <1>5, <2>2, <2>3
  <2>5. Q(p).off = 0 /\ Q(p).len = len
    BY <1>0, <1>5, <1>l, <2>2, <2>3
  <2> QED
    BY <1>5, <2>2, <2>4, <2>5
<1> QED
  BY <1>3, <1>6, <1>7, <1>8, <1>2, <1>l DEF R

\* Packets of the same places and lengths.
LEMMA ImageCarries ==
  ASSUME NEW R, NEW C, NEW n, CarryAll(R, C, n), NEW S,
         \A o \in S : \E p \in R : o.off = p.off /\ o.len = p.len /\ o.more = p.more,
         \A p \in R : \E o \in S : o.off = p.off /\ o.len = p.len /\ o.more = p.more,
         \A o, q \in S : o.off = q.off => o = q
  PROVE  CarryAll(S, C, n)
<1>1. ASSUME NEW o, NEW p, o.off = p.off, o.len = p.len
      PROVE  Carries(o) = Carries(p)
  BY <1>1 DEF Carries
<1>2. ASSUME NEW o \in S
      PROVE  /\ o.len \in Int /\ Carries(o) \in C
             /\ o.more <=> o.off + (o.len - HDR4) < n
  <2>1. PICK p \in R : o.off = p.off /\ o.len = p.len /\ o.more = p.more
    OBVIOUS
  <2>2. Carries(o) = Carries(p)
    BY <1>1, <2>1
  <2>3. p.len \in Int /\ Carries(p) \in C /\ (p.more <=> p.off + (p.len - HDR4) < n)
    BY DEF CarryAll
  <2> QED
    BY <2>1, <2>2, <2>3
<1>3. ASSUME NEW p \in C
      PROVE  \E o \in S : Carries(o) = p
  <2>1. PICK x \in R : Carries(x) = p
    BY DEF CarryAll
  <2>2. PICK o \in S : o.off = x.off /\ o.len = x.len
    OBVIOUS
  <2>3. Carries(o) = Carries(x)
    BY <1>1, <2>2
  <2> QED
    BY <2>1, <2>3
<1> QED
  BY <1>2, <1>3 DEF CarryAll

LEMMA SingleCarries ==
  ASSUME NEW len \in Nat, len > HDR4,
         NEW o, o.off = 0, o.len = len, o.more = FALSE
  PROVE  \E C, room : FittingCut(C, len - HDR4, room) /\ CarryAll({o}, C, len - HDR4)
<1> DEFINE n == len - HDR4
           room == n + 8
           p == [off |-> 0, len |-> n]
<1>1. n \in Nat \ {0} /\ room \in Nat /\ room >= 8 /\ n <= room /\ HDR4 \in Int
  BY DEF HDR4
<1>2. o.off + (o.len - HDR4) = n
  BY <1>1
<1>l. o.len - HDR4 = n
  OBVIOUS
<1> HIDE DEF n, room
<1>3. FittingCut({p}, n, room)
  BY <1>1, BigFirstCuts
<1>4. Carries(o) = p
  BY <1>l DEF Carries
<1> HIDE DEF p
<1>5. CarryAll({o}, {p}, n)
  BY <1>1, <1>2, <1>4 DEF CarryAll
<1> QED
  BY <1>3, <1>5 DEF n

LEMMA LeavingIs ==
  ASSUME NEW s, NEW at, NEW b, NEW h, NEW off, NEW len, NEW more
  PROVE  LET o == Leaving(s, at, b, h, off, len, more)
         IN  /\ o.side = s /\ o.at = at /\ o.of = b.of /\ o.whole = b.whole /\ o.h = h
             /\ o.off = off /\ o.len = len /\ o.more = more
BY DEF Leaving

\* fragprocess of the concentrator and frag_nathandle, of whatever was put together.
LEMMA OneHeader ==
  ASSUME NEW b, NEW c, NEW n
  PROVE  /\ \A o \in SentToInternet(b) : o.side = "inet" /\ o.of = b.of /\ o.h = b.h
         /\ \A o \in frag_nathandle(c, b, n) :
              o.side = "lan" /\ o.of = b.of /\ (o.off = 0 => o.h = n.h)
<1>1. \A o \in SentToInternet(b) : o.side = "inet" /\ o.of = b.of /\ o.h = b.h
  <2>1. CASE b.len > TcMtu
    <3> DEFINE R == Refragmented(b.len, TcMtu)
    <3>1. SentToInternet(b) = {Leaving("inet", Tc, b, b.h, p.off, p.len, p.more) : p \in R}
      BY <2>1 DEF SentToInternet
    <3> HIDE DEF R
    <3> QED
      BY <3>1, LeavingIs
  <2>2. CASE ~(b.len > TcMtu)
    <3> DEFINE o == Leaving("inet", Tc, b, b.h, 0, b.len, FALSE)
    <3>1. SentToInternet(b) = {o}
      BY <2>2 DEF SentToInternet, Single
    <3>2. o.side = "inet" /\ o.of = b.of /\ o.h = b.h
      BY DEF Leaving
    <3> HIDE DEF o
    <3> QED
      BY <3>1, <3>2
  <2> QED
    BY <2>1, <2>2
<1>2. ASSUME NEW o \in frag_nathandle(c, b, n)
      PROVE  o.side = "lan" /\ o.of = b.of /\ (o.off = 0 => o.h = n.h)
  <2> DEFINE R     == Refragmented(b.len, LanMtu)
             hd(p) == IF p.off = 0 THEN n.h ELSE [b.h EXCEPT !.addr = RestTo(n, destip[c])]
  <2>1. frag_nathandle(c, b, n) = {Leaving("lan", c, b, hd(p), p.off, p.len, p.more) : p \in R}
    BY DEF frag_nathandle
  <2>2. PICK p \in R : o = Leaving("lan", c, b, hd(p), p.off, p.len, p.more)
    BY <1>2, <2>1
  <2>3. p.off = 0 => hd(p) = n.h
    OBVIOUS
  <2> HIDE DEF R, hd
  <2>4. o.side = "lan" /\ o.of = b.of /\ o.off = p.off /\ o.h = hd(p)
    BY <2>2, LeavingIs
  <2> QED
    BY <2>3, <2>4
<1> QED
  BY <1>1, <1>2

\* And their sizes.
LEMMA SmallToInternet ==
  ASSUME NEW b, b.len \in Nat
  PROVE  \A o \in SentToInternet(b) :
           o.side = "inet" /\ o.at = Tc /\ o.of = b.of /\ o.whole = b.whole /\ o.h = b.h
           /\ o.len <= TcMtu
<1>0. TcMtu \in Nat /\ TcMtu > HDR4
  BY LinksAssumption DEF HDR4, HDR6, HDRF
<1>1. CASE b.len > TcMtu
  <2> DEFINE R == Refragmented(b.len, TcMtu)
  <2>1. \A q \in R : q.len <= TcMtu
    <3>1. b.len > HDR4
      BY <1>0, <1>1 DEF HDR4
    <3> QED
      BY <3>1, RefragIs
  <2>2. SentToInternet(b) = {Leaving("inet", Tc, b, b.h, p.off, p.len, p.more) : p \in R}
    BY <1>1 DEF SentToInternet
  <2> HIDE DEF R
  <2> QED
    BY <2>1, <2>2, LeavingIs
<1>2. CASE ~(b.len > TcMtu)
  <2>1. SentToInternet(b) = {Single("inet", Tc, b, b.h)}
    BY <1>2 DEF SentToInternet
  <2> QED
    <3> DEFINE o == Single("inet", Tc, b, b.h)
    <3>1. /\ o.side = "inet" /\ o.at = Tc /\ o.of = b.of /\ o.whole = b.whole /\ o.h = b.h
          /\ o.len = b.len
      BY DEF Single, Leaving
    <3>2. SentToInternet(b) = {o}
      BY <2>1
    <3> HIDE DEF o
    <3> QED
      BY <1>0, <1>2, <3>1, <3>2
<1> QED
  BY <1>1, <1>2

LEMMA SmallToHost ==
  ASSUME NEW b, b.len \in Nat, b.len > HDR4, NEW c, NEW n
  PROVE  \A o \in frag_nathandle(c, b, n) :
           o.side = "lan" /\ o.of = b.of /\ o.len <= LanMtu /\ (o.off = 0 => o.h = n.h)
<1> DEFINE R == Refragmented(b.len, LanMtu)
           hd(p) == IF p.off = 0 THEN n.h ELSE [b.h EXCEPT !.addr = RestTo(n, destip[c])]
<1>1. \A q \in R : q.len <= LanMtu
  BY RefragIs
<1>2. frag_nathandle(c, b, n) = {Leaving("lan", c, b, hd(p), p.off, p.len, p.more) : p \in R}
  BY DEF frag_nathandle
<1>3. \A p \in R : p.off = 0 => hd(p) = n.h
  OBVIOUS
<1> HIDE DEF R, hd
<1> QED
  BY <1>1, <1>2, <1>3, LeavingIs

LEMMA BodyIs ==
  ASSUME NEW d
  PROVE  /\ Body(d).of = d /\ Body(d).h = WireHeader(d) /\ Body(d).len = d.len
         /\ Body(d).whole = TRUE
BY DEF Body

\* The packets S that a datagram leaves in, on one side of the tunnel.
Packets(S, d, side, at, mtu) ==
  /\ \E C, room : FittingCut(C, d.len - HDR4, room) /\ CarryAll(S, C, d.len - HDR4)
  /\ \A o \in S : o.side = side /\ o.at = at /\ o.of = d /\ o.whole = TRUE /\ o.len <= mtu
  /\ IPv4LenCheck(d, Link(d)) /\ d.df => \A o \in S : o.off = 0 /\ o.more = FALSE

\* A datagram to the Internet.
LEMMA InternetIs ==
  ASSUME NEW d, IsDatagram(d), d.dir = "up"
  PROVE  /\ Packets(ToInternet(d), d, "inet", Tc, TcMtu)
         /\ \A o \in ToInternet(d) : o.h \in {WireHeader(d), patch_tcpmss(WireHeader(d), TcMtu)}
<1> DEFINE b == Body(d)
<1>0. /\ d.len \in Nat /\ d.len > HDR4 /\ TcMtu \in Nat /\ UpMtu \in Nat /\ UpMtu <= TcMtu
      /\ HDR6 = 40 /\ Link(d) = UpMtu
  BY LinksAssumption, SoftwireAssumption DEF IsDatagram, HDR6, Link
<1>1. b.of = d /\ b.h = WireHeader(d) /\ b.len = d.len /\ b.whole = TRUE
  BY BodyIs
<1>2. IPv4LenCheck(d, Link(d)) /\ d.df => d.len <= TcMtu
  BY <1>0 DEF IPv4LenCheck
<1> HIDE DEF b
<1>3. CASE InFragments(d) /\ d.len > TcMtu
  <2> DEFINE R == Refragmented(d.len, TcMtu)
             O(p) == Leaving("inet", Tc, b, b.h, p.off, p.len, p.more)
  <2>1. ToInternet(d) = {O(p) : p \in R}
    BY <1>1, <1>3 DEF ToInternet, SentToInternet, b
  <2>2. PICK C, room : FittingCut(C, d.len - HDR4, room) /\ CarryAll(R, C, d.len - HDR4)
    BY <1>0, RefragIs
  <2>3. \A q \in R : q.len <= TcMtu
    BY <1>0, RefragIs
  <2>4. \A p \in R : /\ O(p).side = "inet" /\ O(p).at = Tc /\ O(p).of = d /\ O(p).whole = TRUE
                     /\ O(p).h = WireHeader(d)
                     /\ O(p).off = p.off /\ O(p).len = p.len /\ O(p).more = p.more
    BY <1>1, LeavingIs
  <2>5. \A p, q \in R : p.off = q.off => p = q
    BY <2>2 DEF CarryAll
  <2> HIDE DEF R, O
  <2>6. CarryAll(ToInternet(d), C, d.len - HDR4)
    <3> DEFINE S == ToInternet(d)
    <3>1. S = {O(p) : p \in R}
      BY <2>1
    <3> HIDE DEF S
    <3>2. /\ \A o \in S : \E p \in R : o.off = p.off /\ o.len = p.len /\ o.more = p.more
          /\ \A p \in R : \E o \in S : o.off = p.off /\ o.len = p.len /\ o.more = p.more
          /\ \A o, q \in S : o.off = q.off => o = q
      BY <2>4, <2>5, <3>1
    <3> QED
      BY <2>2, <3>2, ImageCarries DEF S
  <2>7. ASSUME NEW o \in ToInternet(d)
        PROVE  /\ o.side = "inet" /\ o.at = Tc /\ o.of = d /\ o.whole = TRUE /\ o.len <= TcMtu
               /\ o.h = WireHeader(d)
    <3>1. PICK p \in R : o = O(p)
      BY <2>1
    <3> QED
      BY <2>3, <2>4, <3>1
  <2>8. ~(IPv4LenCheck(d, Link(d)) /\ d.df)
    BY <1>0, <1>2, <1>3
  <2> QED
    BY <2>2, <2>6, <2>7, <2>8 DEF Packets
<1>4. CASE ~(InFragments(d) /\ d.len > TcMtu)
  <2> DEFINE w == WireHeader(d)
             v == IF InFragments(d) THEN w ELSE patch_tcpmss(w, TcMtu)
             o == Single("inet", Tc, b, v)
  <2>1. ToInternet(d) = {o}
    BY <1>1, <1>4 DEF ToInternet, SentToInternet, b
  <2>2. /\ o.side = "inet" /\ o.at = Tc /\ o.of = d /\ o.whole = TRUE /\ o.h = v
        /\ o.off = 0 /\ o.len = d.len /\ o.more = FALSE
    BY <1>1 DEF Single, Leaving
  <2>3. v \in {WireHeader(d), patch_tcpmss(WireHeader(d), TcMtu)}
    OBVIOUS
  <2> HIDE DEF o, v
  <2>4. d.len <= TcMtu
    BY <1>0, <1>4 DEF InFragments
  <2>5. \E C, room : FittingCut(C, d.len - HDR4, room) /\ CarryAll({o}, C, d.len - HDR4)
    BY <1>0, <2>2, SingleCarries
  <2>6. \A x \in ToInternet(d) :
          /\ x.side = "inet" /\ x.at = Tc /\ x.of = d /\ x.whole = TRUE /\ x.len <= TcMtu
          /\ x.h \in {WireHeader(d), patch_tcpmss(WireHeader(d), TcMtu)}
          /\ x.off = 0 /\ x.more = FALSE
    BY <2>1, <2>2, <2>3, <2>4
  <2> QED
    BY <2>1, <2>5, <2>6 DEF Packets
<1> QED
  BY <1>3, <1>4

\* A datagram to a host.
LEMMA HostIs ==
  ASSUME NEW d, IsDatagram(d), d.dir = "down", NEW r, NEW a, NEW S, S = ToHost(d, r, a)
  PROVE  /\ Packets(S, d, "lan", r, LanMtu)
         /\ \A o \in S : o.h = IF o.off = 0 THEN HostHeader(d, r).h ELSE RestHeader(d, a)
<1> DEFINE b == Body(d)
           n == HostHeader(d, r)
<1>0. /\ d.len \in Nat /\ d.len > HDR4 /\ TcMtu \in Nat /\ LanMtu \in Nat /\ LanMtu + HDR6 >= TcMtu
      /\ HDR6 = 40 /\ Link(d) = TcMtu
  BY LinksAssumption, SoftwireAssumption DEF IsDatagram, HDR6, Link
<1>1. b.of = d /\ b.len = d.len /\ b.whole = TRUE
  BY BodyIs
<1>2. IPv4LenCheck(d, Link(d)) /\ d.df => d.len <= LanMtu
  BY <1>0 DEF IPv4LenCheck
<1> HIDE DEF b, n
<1>3. CASE InFragments(d)
  <2> DEFINE R == Refragmented(d.len, LanMtu)
             hd(p) == IF p.off = 0 THEN n.h ELSE RestHeader(d, a)
             O(p) == Leaving("lan", r, b, hd(p), p.off, p.len, p.more)
  <2>1. S = {O(p) : p \in R}
    BY <1>3 DEF ToHost, b, n
  <2>2. PICK C, room : FittingCut(C, d.len - HDR4, room) /\ CarryAll(R, C, d.len - HDR4)
    BY <1>0, RefragIs
  <2>3. /\ \A q \in R : q.len <= LanMtu
        /\ d.len <= LanMtu => \A q \in R : q.off = 0 /\ q.more = FALSE
    BY <1>0, RefragIs
  <2>4. \A p \in R : /\ O(p).side = "lan" /\ O(p).at = r /\ O(p).of = d /\ O(p).whole = TRUE
                     /\ O(p).h = hd(p)
                     /\ O(p).off = p.off /\ O(p).len = p.len /\ O(p).more = p.more
    BY <1>1, LeavingIs
  <2>5. \A p, q \in R : p.off = q.off => p = q
    BY <2>2 DEF CarryAll
  <2> HIDE DEF R, O
  <2>6. CarryAll(S, C, d.len - HDR4)
    <3>1. /\ \A o \in S : \E p \in R : o.off = p.off /\ o.len = p.len /\ o.more = p.more
          /\ \A p \in R : \E o \in S : o.off = p.off /\ o.len = p.len /\ o.more = p.more
          /\ \A o, q \in S : o.off = q.off => o = q
      BY <2>1, <2>4, <2>5
    <3> QED
      BY <2>2, <3>1, ImageCarries
  <2>7. \A o \in S :
          /\ o.side = "lan" /\ o.at = r /\ o.of = d /\ o.whole = TRUE /\ o.len <= LanMtu
          /\ o.off = 0 => o.h = n.h
          /\ o.off # 0 => o.h = RestHeader(d, a)
          /\ d.len <= LanMtu => o.off = 0 /\ o.more = FALSE
    BY <2>1, <2>3, <2>4
  <2> QED
    BY <1>2, <2>2, <2>6, <2>7 DEF n, Packets
<1>4. CASE ~InFragments(d)
  <2> DEFINE o == Single("lan", r, b, n.h)
  <2>1. S = {o}
    BY <1>4 DEF ToHost, b, n
  <2>2. /\ o.side = "lan" /\ o.at = r /\ o.of = d /\ o.whole = TRUE /\ o.h = n.h
        /\ o.off = 0 /\ o.len = d.len /\ o.more = FALSE
    BY <1>1 DEF Single, Leaving
  <2> HIDE DEF o
  <2>3. d.len <= LanMtu
    BY <1>0, <1>4 DEF InFragments
  <2>4. \E C, room : FittingCut(C, d.len - HDR4, room) /\ CarryAll({o}, C, d.len - HDR4)
    BY <1>0, <2>2, SingleCarries
  <2> QED
    BY <2>1, <2>2, <2>3, <2>4 DEF n, Packets
<1> QED
  BY <1>3, <1>4

\* What a packet that was put together from fragments, all or some, may be.
LEMMA AssembledLen ==
  ASSUME NEW d, IsDatagram(d), InFragments(d), NEW r, NEW F \in SUBSET Frames(d, r), F # {},
         \/ PacketLen(F) = d.len
         \/ \E x \in F : PacketLen(F) + x.len = d.len
  PROVE  PacketLen(F) \in Nat /\ (d.dir = "down" => PacketLen(F) > HDR4)
<1>0. d.len \in Nat /\ d.len > HDR4 /\ HDR4 = 20
  BY DEF IsDatagram, HDR4
<1>1. PiecesOf(Frames(d, r), d.len)
  BY FramesAre
<1>2. /\ PacketLen(F) \in 0 .. d.len
      /\ \A x \in F : x.len \in Nat \ {0} /\ x.len <= PacketLen(F)
      /\ F = Frames(d, r) => PacketLen(F) = d.len
  BY <1>0, <1>1, PartLen
<1>3. CASE PacketLen(F) = d.len
  BY <1>0, <1>3
<1>4. ASSUME NEW x \in F, PacketLen(F) + x.len = d.len, d.dir = "down"
      PROVE  PacketLen(F) > HDR4
  <2>1. PICK room \in Nat : /\ room >= 2 * HDR4
                            /\ d.len <= room => Cutting(d) = {[off |-> 0, len |-> d.len]}
    BY <1>4, CuttingFits
  <2>2. CASE d.len <= room
    <3> DEFINE P == Fragments(Sender(d), r, d, WireHeader(d), Cutting(d))
    <3>1. Frames(d, r) = P
      BY DEF Frames
    <3>2. \A f, g \in P : f = g
      BY <2>1, <2>2 DEF Fragments
    <3> HIDE DEF P
    <3>3. F = Frames(d, r)
      BY <3>1, <3>2
    <3> QED
      BY <1>0, <1>2, <1>4, <3>3
  <2>3. CASE ~(d.len <= room)
    BY <1>0, <1>2, <1>4, <2>1, <2>3
  <2> QED
    BY <2>2, <2>3
<1> QED
  BY <1>2, <1>3, <1>4

LEMMA LinkIs ==
  ASSUME NEW d, IsDatagram(d)
  PROVE  Link(d) = IF d.dir = "up" THEN UpMtu ELSE TcMtu
BY DEF Link

\* No step raises the segment size that is offered.
LEMMA OffersKept ==
  ASSUME NEW h, Shaped(h), NEW mtu \in Int, Offers(h, mtu)
  PROVE  /\ \A m \in {TcMtu, UpMtu} : Shaped(patch_tcpmss(h, m)) /\ Offers(patch_tcpmss(h, m), mtu)
         /\ \A c : Shaped(nathandle(c, h).h) /\ Offers(nathandle(c, h).h, mtu)
<1>1. ASSUME NEW m \in {TcMtu, UpMtu}
      PROVE  Shaped(patch_tcpmss(h, m)) /\ Offers(patch_tcpmss(h, m), mtu)
  <2> DEFINE g == patch_tcpmss(h, m)
  <2>1. m \in Int
    BY LinksAssumption
  <2>2. /\ Shaped(g) /\ (Clampable(g) <=> Clampable(h))
        /\ g.mss <= h.mss \/ ~Clampable(h)
    BY <2>1, ClampShape
  <2> HIDE DEF g
  <2>3. g.mss \in Int /\ h.mss \in Int /\ MinimalSyn \in Int /\ HDR6 \in Int
    BY <2>2 DEF Shaped, MinimalSyn, HDR4, HDRT, HDR6
  <2> QED
    BY <2>2, <2>3 DEF Offers, g
<1>2. ASSUME NEW c
      PROVE  Shaped(nathandle(c, h).h) /\ Offers(nathandle(c, h).h, mtu)
  <2> DEFINE g == nathandle(c, h).h
  <2>1. Shaped(g) /\ g.mss = h.mss /\ (Clampable(g) <=> Clampable(h))
    BY Translated
  <2> HIDE DEF g
  <2> QED
    BY <2>1 DEF Offers, g
<1> QED
  BY <1>1, <1>2

\* All that leaves fits.
LEMMA SmallInternet ==
  ASSUME NEW d, IsDatagram(d), d.dir = "up"
  PROVE  \A o \in ToInternet(d) : SmallOut(o) /\ Shaped(o.h)
<1>1. Shaped(WireHeader(d)) /\ Offers(WireHeader(d), UpMtu) /\ UpMtu \in Int
  BY WireFits, LinkIs, LinksAssumption
<1>2. \A h \in {WireHeader(d), patch_tcpmss(WireHeader(d), TcMtu)} : Shaped(h) /\ Offers(h, UpMtu)
  BY <1>1, OffersKept
<1>3. /\ Packets(ToInternet(d), d, "inet", Tc, TcMtu)
      /\ \A o \in ToInternet(d) : o.h \in {WireHeader(d), patch_tcpmss(WireHeader(d), TcMtu)}
  BY InternetIs
<1> QED
  BY <1>2, <1>3 DEF SmallOut, Packets, OfferedMtu

LEMMA HostHeaderFits ==
  ASSUME NEW d, IsDatagram(d), d.dir = "down", NEW r
  PROVE  /\ Shaped(HostHeader(d, r).h)
         /\ Offers(HostHeader(d, r).h, IF InFragments(d) THEN TcMtu ELSE UpMtu)
<1> DEFINE m == IF InFragments(d) THEN TcMtu ELSE UpMtu
<1>1. Shaped(WireHeader(d)) /\ Offers(WireHeader(d), TcMtu) /\ TcMtu \in Int /\ UpMtu \in Int
  BY WireFits, LinkIs, LinksAssumption
<1> DEFINE h == IF InFragments(d) THEN WireHeader(d) ELSE patch_tcpmss(WireHeader(d), UpMtu)
<1>2. Shaped(h) /\ Offers(h, m) /\ m \in Int
  <2> DEFINE g == patch_tcpmss(WireHeader(d), UpMtu)
  <2>1. Shaped(g) /\ Offers(g, UpMtu)
    BY <1>1, ClampShape DEF Offers
  <2> HIDE DEF g
  <2> QED
    BY <1>1, <2>1 DEF g
<1>3. HostHeader(d, r) = nathandle(r, h)
  BY DEF HostHeader
<1> HIDE DEF h, m
<1>4. Shaped(HostHeader(d, r).h) /\ Offers(HostHeader(d, r).h, m)
  BY <1>2, <1>3, OffersKept
<1> QED
  BY <1>4 DEF m

LEMMA SmallHost ==
  ASSUME NEW d, IsDatagram(d), d.dir = "down", NEW r, NEW a, NEW S, S = ToHost(d, r, a)
  PROVE  \A o \in S : SmallOut(o)
<1>1. Offers(HostHeader(d, r).h, IF InFragments(d) THEN TcMtu ELSE UpMtu)
  BY HostHeaderFits
<1>2. /\ Packets(S, d, "lan", r, LanMtu)
      /\ \A o \in S : o.h = IF o.off = 0 THEN HostHeader(d, r).h ELSE RestHeader(d, a)
  BY HostIs
<1> QED
  BY <1>1, <1>2 DEF SmallOut, Packets, OfferedMtu

-----------------------------------------------------------------------------
(***************************************************************************)
(* Every step keeps every datagram in its place.                           *)
(***************************************************************************)
SameTuple(t, u) ==
  /\ u.len = t.len /\ u.length = t.length /\ u.flag = t.flag /\ u.frags = t.frags

LEMMA WaitsKept ==
  ASSUME NEW t, NEW u, SameTuple(t, u), NEW P, NEW n, NEW N, NEW M, M \subseteq N
  PROVE  /\ Alone(t, P, n, N) => Alone(u, P, n, M)
         /\ Twice(t, P, n, N) => Twice(u, P, n, M)
<1>1. Alone(t, P, n, N) => Alone(u, P, n, M)
  <2>1. Filling(t, P, n, N) => Filling(u, P, n, M)
    BY DEF SameTuple, Filling
  <2> QED
    BY <2>1 DEF SameTuple, Alone
<1>2. Twice(t, P, n, N) => Twice(u, P, n, M)
  <2>1. CASE t.len = PacketLen(t.frags) /\ \E x \in P : t.frags \cap N \subseteq {x}
    <3>1. PICK x \in P : t.frags \cap N \subseteq {x}
      BY <2>1
    <3>2. u.frags \cap M \subseteq {x}
      BY <3>1 DEF SameTuple
    <3> QED
      BY <2>1, <3>2 DEF SameTuple, Twice
  <2>2. CASE t.frags \cap N = {} /\ \E x \in t.frags : t.len = PacketLen(t.frags) + x.len
    BY <2>2 DEF SameTuple, Twice
  <2>3. CASE t.flag /\ t.len \in Nat /\ t.len >= n
    BY <2>3 DEF SameTuple, Twice
  <2> QED
    BY <2>1, <2>2, <2>3 DEF Twice
<1> QED
  BY <1>1, <1>2

\* What is on its way or waits, now and after a step.
LEMMA LiveIs ==
  ASSUME NEW d
  PROVE  Live(d) <=> OnWay(d) # {} \/ \E a \in Places : Held(d, a)
BY DEF Live, Waiting, Held, Places

LEMMA LiveLater ==
  ASSUME NEW d
  PROVE  Live(d)' <=> OnWay(d)' # {} \/ \E a \in Places : Held(d, a)'
BY DEF Live, Waiting, Held, Places

\* Nothing of a datagram comes up that was not there.
NoMore(d) ==
  /\ OnWay(d)' \subseteq OnWay(d)
  /\ \A a \in Places : Held(d, a)' => Held(d, a) \/ \E q \in OnWay(d) : q.to = a

LEMMA StaysOver ==
  ASSUME NEW d, NoMore(d)
  PROVE  Live(d)' => Live(d)
BY LiveIs, LiveLater DEF NoMore

LEMMA Fewer ==
  ASSUME net' \subseteq net, NEW d,
         \A a \in Places : \A k \in DOMAIN Tab(a)' : \A q \in Tab(a)'[k].frags :
           \/ q \in net /\ q.to = a
           \/ k \in DOMAIN Tab(a) /\ q \in Tab(a)[k].frags
  PROVE  NoMore(d)
<1>1. OnWay(d)' \subseteq OnWay(d)
  BY DEF OnWay
<1>2. ASSUME NEW a \in Places, Held(d, a)'
      PROVE  Held(d, a) \/ \E q \in OnWay(d) : q.to = a
  <2>1. PICK k \in DOMAIN Tab(a)' : \E q \in Tab(a)'[k].frags : q.of = d
    BY <1>2 DEF Held
  <2>2. PICK q \in Tab(a)'[k].frags : q.of = d
    BY <2>1
  <2> QED
    BY <2>2 DEF Held, OnWay
<1> QED
  BY <1>1, <1>2 DEF NoMore

LEMMA SeparateKept ==
  ASSUME Separate, sent' = sent, mixed' = mixed, \A d : NoMore(d)
  PROVE  Separate'
<1>1. \A d : Live(d)' => Live(d)
  BY StaysOver
<1> QED
  BY <1>1 DEF Separate

\* Datagrams that may meet.
LEMMA Turned ==
  ASSUME NEW d, NEW e, Alike(d, e)
  PROVE  Alike(e, d)
BY DEF Alike

LEMMA Received ==
  ASSUME NEW d, NEW r, Route(d, r)
  PROVE  r \in Receivers(d)
BY DEF Route, Receivers

LEMMA OneReceiver ==
  ASSUME NEW d, NEW e, d # e, InFragments(d), InFragments(e), Key(d) = Key(e),
         NEW r, Route(d, r), Route(e, r)
  PROVE  Alike(d, e)
BY Received DEF Alike

LEMMA MeetsAre ==
  ASSUME NEW d
  PROVE  /\ \A e \in sent : Alike(d, e) /\ Live(e) => d \in Meets(d) /\ e \in Meets(d)
         /\ \A r \in Receivers(d) :
              InFragments(d) /\ Key(d) \in DOMAIN Tab(r) => d \in Meets(d)
BY DEF Meets

\* A datagram of which nothing comes.
LEMMA Kept ==
  ASSUME NEW d, IsDatagram(d), Placed(d), NoMore(d), Of(d)' = Of(d), d \in dups' <=> d \in dups,
         \A a \in Places : Live(d) /\ InFragments(d) /\ Route(d, a) /\ Key(d) \in DOMAIN Tab(a)' =>
           Key(d) \in DOMAIN Tab(a) /\ SameTuple(Tab(a)[Key(d)], Tab(a)'[Key(d)])
  PROVE  Placed(d)'
<1>0. (Live(d)' => Live(d)) /\ OnWay(d)' \subseteq OnWay(d)
  BY StaysOver DEF NoMore
<1>1. CASE Nowhere(d)
  <2>1. Nowhere(d)'
    BY <1>0, <1>1 DEF Nowhere
  <2> QED
    BY <2>1 DEF Placed
<1>2. ASSUME NEW r \in Places, InPlace(d, r)
      PROVE  InPlace(d, r)'
  <2>1. Route(d, r) /\ OnWay(d) \subseteq Frames(d, r) /\ OnWay(d)' \subseteq Frames(d, r)
    BY <1>0, <1>2 DEF InPlace
  <2>2. ASSUME NEW a \in Places, Held(d, a)'
        PROVE  a = r
    <3>1. CASE Held(d, a)
      BY <1>2, <3>1 DEF InPlace
    <3>2. ASSUME NEW q \in OnWay(d), q.to = a
          PROVE  a = r
      BY <2>1, <3>2, FramesAre
    <3> QED
      BY <2>2, <3>1, <3>2 DEF NoMore
  <2>3. ASSUME InFragments(d), Live(d)', Key(d) \in DOMAIN Tab(r)'
        PROVE  Waits(Tab(r)[Key(d)], d, r)'
    <3> DEFINE t == Tab(r)[Key(d)]
               u == Tab(r)'[Key(d)]
    <3>1. Waits(t, d, r) /\ SameTuple(t, u)
      BY <1>0, <1>2, <2>1, <2>3 DEF InPlace
    <3> HIDE DEF t, u
    <3>2. /\ Alone(t, Frames(d, r), d.len, OnWay(d)) => Alone(u, Frames(d, r), d.len, OnWay(d)')
          /\ Twice(t, Frames(d, r), d.len, OnWay(d)) => Twice(u, Frames(d, r), d.len, OnWay(d)')
      BY <1>0, <3>1, WaitsKept
    <3>3. IF d \in dups' THEN Twice(u, Frames(d, r), d.len, OnWay(d)')
          ELSE Alone(u, Frames(d, r), d.len, OnWay(d)')
      BY <3>1, <3>2 DEF Waits
    <3> QED
      BY <3>3 DEF u, Waits
  <2>4. d \notin dups' /\ Of(d)' # {} => ~Live(d)' /\ Delivered(d, r, Of(d)')
    BY <1>0, <1>2 DEF InPlace
  <2>5. Delivered(d, r, Of(d))' <=> Delivered(d, r, Of(d)')
    BY DEF Delivered
  <2> QED
    BY <2>1, <2>2, <2>3, <2>4, <2>5 DEF InPlace
<1> QED
  BY <1>1, <1>2 DEF Placed

\* A datagram that is nowhere yet is let into the tunnel, or is not.
LEMMA SendStep ==
  ASSUME DataInv, NEW d \in load \ sent, load' = load, sent' = sent \cup {d},
         UNCHANGED <<tc, gw, out, dups>>, Met(d), NEW X, net' = net \cup X,
         X = {} \/ \E r \in Places : Route(d, r) /\ X = Frames(d, r)
  PROVE  DataInv'
<1>0. /\ DataType /\ sent \subseteq load /\ (\A f \in net : f.of \in sent)
      /\ (\A o \in out : o.of \in sent)
      /\ \A a \in Places : \A k \in DOMAIN Tab(a) : \A q \in Tab(a)[k].frags : q.of \in sent
  BY DEF DataInv, DataType, Belongs, Kin
<1>1. \A e \in sent' : IsDatagram(e)
  BY <1>0, DatagramsAre
<1>2. \A f \in X : f.of = d
  BY <1>1, FramesAre
<1>3. \A a \in Places : Tab(a)' = Tab(a) /\ Buf(a)' = Buf(a)
  BY DEF Tab, Buf
<1>4. \A e : \A a \in Places : Held(e, a)' <=> Held(e, a)
  BY <1>3 DEF Held
<1>5. (\A e \in sent : OnWay(e)' = OnWay(e)) /\ OnWay(d)' = X
  BY <1>0, <1>2 DEF OnWay
<1>6. \A a \in Places : ~Held(d, a)
  BY <1>0 DEF Held
<1>7. (\A e \in sent : Live(e)' <=> Live(e)) /\ (Live(d)' <=> X # {})
  BY <1>4, <1>5, <1>6, LiveIs, LiveLater
<1>8. X # {} => net' # net
  BY <1>0, <1>2
<1>9. mixed \subseteq mixed' /\ (X # {} => Meets(d) \subseteq mixed')
  BY <1>8 DEF Met
<1>10. DataType'
  <2>1. ASSUME NEW f \in net'
        PROVE  f.to \in Places /\ Belongs(f, f.to)'
    <3>1. CASE f \in net
      BY <3>1 DEF DataInv, DataType, Belongs
    <3>2. CASE f \in X
      <4>1. PICK r \in Places : Route(d, r) /\ X = Frames(d, r)
        BY <3>2
      <4>2. f.to = r /\ f.of = d
        BY <1>1, <3>2, <4>1, FramesAre
      <4> QED
        BY <3>2, <4>1, <4>2 DEF Belongs
    <3> QED
      BY <3>1, <3>2
  <2>2. \A a \in Places : \A k \in DOMAIN Tab(a)' :
          IsTuple(Tab(a)'[k]) /\ \A q \in Tab(a)'[k].frags : Kin(q, a, k)'
    BY <1>0, <1>3 DEF DataType, Kin, Belongs
  <2>3. \A o \in out' : o.of \in sent'
    BY <1>0
  <2> QED
    BY <1>0, <2>1, <2>2, <2>3 DEF DataType
<1>11. (\A o \in out' : SmallOut(o)') /\ \A a \in Places : SmallBuf(a)'
  <2>1. \A o \in out' : SmallOut(o)'
    BY <1>9 DEF DataInv, SmallOut
  <2>2. \A a \in Places : SmallBuf(a)'
    BY <1>3 DEF DataInv, SmallBuf
  <2> QED
    BY <2>1, <2>2
<1>12. Separate'
  <2> SUFFICES ASSUME NEW x \in sent', x \notin mixed', NEW y \in sent', Alike(x, y),
                      Live(x)', Live(y)'
               PROVE  FALSE
    BY DEF Separate
  <2>1. CASE x \in sent /\ y \in sent
    <3>1. Live(x) /\ Live(y) /\ x \notin mixed
      BY <1>7, <1>9, <2>1
    <3> QED
      BY <2>1, <3>1 DEF DataInv, Separate
  <2>2. CASE x = d
    <3>1. y \in sent
      BY <2>2 DEF Alike
    <3>2. Live(y) /\ d \notin Meets(d)
      BY <1>7, <1>9, <2>2, <3>1
    <3> QED
      BY <2>2, <3>1, <3>2, MeetsAre
  <2>3. CASE y = d
    <3>1. x \in sent /\ Alike(d, x)
      BY <2>3, Turned DEF Alike
    <3>2. Live(x) /\ x \notin Meets(d)
      BY <1>7, <1>9, <2>3, <3>1
    <3> QED
      BY <3>1, <3>2, MeetsAre
  <2> QED
    BY <2>1, <2>2, <2>3
<1>13. ASSUME NEW e \in sent, e \notin mixed'
       PROVE  Placed(e)'
  <2>1. NoMore(e) /\ Of(e)' = Of(e)
    BY <1>4, <1>5 DEF NoMore, Of
  <2>2. Placed(e) /\ IsDatagram(e)
    BY <1>1, <1>9, <1>13 DEF DataInv
  <2>3. \A t : SameTuple(t, t)
    BY DEF SameTuple
  <2> QED
    BY <1>3, <2>1, <2>2, <2>3, Kept
<1>14. ASSUME d \notin mixed'
       PROVE  Placed(d)'
  <2>1. Of(d)' = {}
    BY <1>0 DEF Of
  <2>2. CASE X = {}
    <3>1. Nowhere(d)'
      BY <1>7, <2>1, <2>2 DEF Nowhere
    <3> QED
      BY <3>1 DEF Placed
  <2>3. CASE X # {}
    <3>1. PICK r \in Places : Route(d, r) /\ X = Frames(d, r)
      BY <2>3
    <3>2. InFragments(d) => Key(d) \notin DOMAIN Tab(r)'
      BY <1>3, <1>9, <1>14, <2>3, <3>1, Received, MeetsAre
    <3>3. \A a \in Places : ~Held(d, a)'
      BY <1>4, <1>6
    <3>4. InPlace(d, r)'
      BY <1>5, <2>1, <3>1, <3>2, <3>3 DEF InPlace
    <3> QED
      BY <3>4 DEF Placed
  <2> QED
    BY <2>2, <2>3
<1> QED
  BY <1>10, <1>11, <1>12, <1>13, <1>14 DEF DataInv

LEMMA DataDown ==
  ASSUME DataInv, NEW d \in load \ sent, HandleIPv4_skbuf(d)
  PROVE  DataInv'
<1>1. /\ d.dir = "down" /\ sent' = sent \cup {d} /\ load' = load /\ UNCHANGED <<tc, gw, out, dups>>
      /\ Met(d)
  BY DEF HandleIPv4_skbuf
<1>2. \E X : /\ net' = net \cup X
             /\ X = {} \/ \E r \in Places : Route(d, r) /\ X = Frames(d, r)
  <2>1. PICK at \in FetchIPAndPort(d.h) :
          net' = net \cup
            IF ~(/\ IPFilter("ipv4", d.h.peer, d.h.addr)
                 /\ IPv4LenCheck(d, TcMtu) /\ BlockOf(at) \in DOMAIN Lease) THEN {}
            ELSE IF InFragments(d)
                 THEN IPv4FragandIPinIP(Lease[BlockOf(at)], d, patch_tcpmss(d.h, TcMtu))
                 ELSE Whole(Tc, Lease[BlockOf(at)], d, patch_tcpmss(d.h, TcMtu))
    BY DEF HandleIPv4_skbuf
  <2> DEFINE r == Lease[BlockOf(at)]
             S == IF InFragments(d)
                  THEN IPv4FragandIPinIP(r, d, patch_tcpmss(d.h, TcMtu))
                  ELSE Whole(Tc, r, d, patch_tcpmss(d.h, TcMtu))
  <2>2. S = Frames(d, r)
    BY <1>1 DEF Frames, Sender, WireHeader, Cutting, IPv4FragandIPinIP
  <2> HIDE DEF S
  <2>3. CASE IPv4LenCheck(d, TcMtu) /\ BlockOf(at) \in DOMAIN Lease
    <3>1. r \in Places /\ Route(d, r)
      BY <1>1, <2>3, SoftwireAssumption DEF Places, Route, Link
    <3>2. net' = net \cup {} \/ net' = net \cup S
      BY <2>1 DEF S
    <3> QED
      BY <2>2, <3>1, <3>2
  <2>4. CASE ~(IPv4LenCheck(d, TcMtu) /\ BlockOf(at) \in DOMAIN Lease)
    <3>1. net' = net \cup {}
      BY <2>1, <2>4
    <3> QED
      BY <3>1
  <2> QED
    BY <2>3, <2>4
<1> QED
  BY <1>1, <1>2, SendStep

LEMMA DataUp ==
  ASSUME DataInv, NEW d \in load \ sent, stream_up_hook(d)
  PROVE  DataInv'
<1>1. /\ d.dir = "up" /\ sent' = sent \cup {d} /\ load' = load /\ UNCHANGED <<tc, gw, out, dups>>
      /\ Met(d)
  BY DEF stream_up_hook
<1>2. \E X : /\ net' = net \cup X
             /\ X = {} \/ \E r \in Places : Route(d, r) /\ X = Frames(d, r)
  <2> DEFINE c == d.client
             h == Readdressed(patch_tcpmss(d.h, UpMtu), PubIP[c], UpSession(d).newport)
             S == IF InFragments(d) THEN ipv6_frag_handl(c, d, h)
                  ELSE Whole(c, Tc, d, h)
             no == ipdst_filter(d.h) \/ ~IPv4LenCheck(d, UpMtu) \/ SessionFrom(c, d.h) = {}
  <2>1. net' = net \cup IF no THEN {} ELSE S
    BY DEF stream_up_hook, UpSession
  <2>2. S = Frames(d, Tc)
    BY <1>1 DEF Frames, Sender, WireHeader, Cutting, ipv6_frag_handl
  <2> HIDE DEF S
  <2>3. CASE no
    <3>1. net' = net \cup {}
      BY <2>1, <2>3
    <3> QED
      BY <3>1
  <2>4. CASE ~no
    <3>1. Tc \in Places /\ Route(d, Tc)
      BY <1>1, <2>4 DEF Places, Route, Link
    <3> QED
      BY <2>1, <2>2, <2>4, <3>1
  <2> QED
    BY <2>3, <2>4
<1> QED
  BY <1>1, <1>2, SendStep

LEMMA RouteIs ==
  ASSUME NEW d, IsDatagram(d), NEW r, Route(d, r)
  PROVE  /\ \/ d.dir = "up" /\ r = Tc /\ Link(d) = UpMtu
            \/ d.dir = "down" /\ r \in Client /\ Link(d) = TcMtu
         /\ r # Tc => r \in Client
         /\ Tc \notin Client
<1>1. Tc \notin Client /\ \A b \in DOMAIN Lease : Lease[b] \in Client
  <2>1. Lease \in [DOMAIN Lease -> Client] /\ Tc \notin Client
    BY SoftwireAssumption
  <2> DEFINE D == DOMAIN Lease
  <2> HIDE DEF D
  <2>2. Lease \in [D -> Client]
    BY <2>1 DEF D
  <2>3. \A b \in D : Lease[b] \in Client
    BY <2>2
  <2> QED
    BY <2>1, <2>3 DEF D
<1>2. CASE d.dir = "up"
  <2>1. r = Tc
    BY <1>2 DEF Route
  <2>2. Link(d) = UpMtu
    BY <1>2 DEF Link
  <2> QED
    BY <1>1, <1>2, <2>1, <2>2
<1>3. CASE d.dir = "down"
  <2>1. r \in Client
    BY <1>1, <1>3 DEF Route
  <2> QED
    BY <1>1, <1>3, <2>1 DEF Link
<1> QED
  BY <1>2, <1>3 DEF IsDatagram

\* What comes is a frame of its datagram, for the place it comes to.
LEMMA Arriving ==
  ASSUME DataInv, NEW f \in net
  PROVE  /\ f.of \in sent /\ IsDatagram(f.of) /\ f \in OnWay(f.of) /\ Live(f.of)
         /\ f.to \in Places /\ f \in Frames(f.of, f.to) /\ Route(f.of, f.to)
         /\ FragKey(f) = Key(f.of) /\ f.from = Sender(f.of)
         /\ f.kind = (IF InFragments(f.of) THEN "frag" ELSE "ipip")
         /\ f.more \in BOOLEAN
         /\ f.of \notin mixed => InPlace(f.of, f.to)
<1> DEFINE d == f.of
<1>1. d \in sent /\ IsDatagram(d) /\ f \in OnWay(d) /\ f.to \in Places /\ Belongs(f, f.to)
  BY DatagramsAre DEF DataInv, DataType, OnWay, Belongs
<1>2. f \in Frames(d, f.to) /\ Route(d, f.to)
  BY <1>1 DEF Belongs
<1>3. Live(d)
  BY <1>1 DEF Live
<1>4. /\ f.from = Sender(d) /\ f.more \in BOOLEAN
      /\ f.kind = IF InFragments(d) THEN "frag" ELSE "ipip"
  BY <1>1, <1>2, FramesAre
<1>5. FragKey(f) = Key(d)
  BY <1>4 DEF FragKey, Key
<1>6. ASSUME d \notin mixed
      PROVE  InPlace(d, f.to)
  <2>1. PICK r \in Places : InPlace(d, r)
    BY <1>1, <1>3, <1>6 DEF DataInv, Placed, Nowhere
  <2>2. f \in Frames(d, r)
    BY <1>1, <2>1 DEF InPlace
  <2>3. f.to = r
    BY <1>1, <2>2, FramesAre
  <2> QED
    BY <2>1, <2>3
<1> QED
  BY <1>1, <1>2, <1>3, <1>4, <1>5, <1>6

\* A step that moves the datagram d, and takes something from others that met.
LEMMA OthersKept ==
  ASSUME DataInv, NEW d \in sent, sent' = sent, \A e : NoMore(e),
         dups' \in {dups, dups \cup {d}},
         NEW O, out' = out \cup O, \A o \in O : o.of = d \/ o.of \in mixed,
         \A a \in Places : \A k \in DOMAIN Tab(a)' :
           \/ k = Key(d) /\ InFragments(d) /\ Live(d) /\ Route(d, a)
           \/ k \in DOMAIN Tab(a) /\ SameTuple(Tab(a)[k], Tab(a)'[k])
  PROVE  \A e \in sent \ (mixed \cup {d}) : Placed(e)'
<1> SUFFICES ASSUME NEW e \in sent, e \notin mixed, e # d
             PROVE  Placed(e)'
  OBVIOUS
<1>1. Placed(e) /\ IsDatagram(e)
  BY DatagramsAre DEF DataInv, DataType
<1>2. Of(e)' = Of(e) /\ (e \in dups' <=> e \in dups)
  BY DEF Of
<1>3. ASSUME NEW a \in Places, Live(e), InFragments(e), Route(e, a), Key(e) \in DOMAIN Tab(a)'
      PROVE  Key(e) \in DOMAIN Tab(a) /\ SameTuple(Tab(a)[Key(e)], Tab(a)'[Key(e)])
  <2>1. CASE Key(e) = Key(d) /\ InFragments(d) /\ Live(d) /\ Route(d, a)
    <3>1. Alike(e, d)
      BY <1>3, <2>1, OneReceiver
    <3> QED
      BY <1>3, <2>1, <3>1 DEF DataInv, Separate
  <2> QED
    BY <1>3, <2>1
<1> QED
  BY <1>1, <1>2, <1>3, Kept

LEMMA DeliveredSmall ==
  ASSUME NEW d, IsDatagram(d), NEW r, Route(d, r), NEW O, Delivered(d, r, O)
  PROVE  \A o \in O : o.of = d /\ SmallOut(o)
<1>1. CASE d.dir = "up" /\ r = Tc
  <2>1. O = ToInternet(d)
    BY <1>1 DEF Delivered
  <2>2. Packets(ToInternet(d), d, "inet", Tc, TcMtu) /\ \A o \in ToInternet(d) : SmallOut(o)
    BY <1>1, InternetIs, SmallInternet
  <2> QED
    BY <2>1, <2>2 DEF Packets
<1>2. CASE d.dir = "down" /\ r # Tc
  <2>1. PICK a : O = ToHost(d, r, a)
    BY <1>2 DEF Delivered
  <2>2. Packets(O, d, "lan", r, LanMtu) /\ \A o \in O : SmallOut(o)
    BY <1>2, <2>1, HostIs, SmallHost
  <2> QED
    BY <2>2 DEF Packets
<1> QED
  BY <1>1, <1>2, RouteIs

LEMMA FillingTwice ==
  ASSUME NEW t, NEW P, NEW n, NEW N, NEW p \in N, p \in P, Alone(t, P, n, N)
  PROVE  Filling(t, P, n, N) /\ Twice(t, P, n, N)
<1>1. Filling(t, P, n, N)
  BY DEF Alone
<1>2. t.frags \cap N \subseteq {p}
  BY <1>1 DEF Filling
<1> QED
  BY <1>1, <1>2 DEF Filling, Twice

\* A step that leaves the tables alone.
LEMMA StillTables ==
  ASSUME DataInv, load' = load, sent' = sent, mixed' = mixed, UNCHANGED <<tc, gw>>,
         net' \subseteq net,
         NEW O, out' = out \cup O, \A o \in O : o.of \in sent /\ SmallOut(o),
         (\A e : NoMore(e)) => \A d \in sent \ mixed : Placed(d)'
  PROVE  DataInv'
<1>1. \A a \in Places : Tab(a)' = Tab(a) /\ Buf(a)' = Buf(a)
  BY DEF Tab, Buf
<1>2. DataType'
  <2>1. \A a \in Places : \A k \in DOMAIN Tab(a)' :
          IsTuple(Tab(a)'[k]) /\ \A q \in Tab(a)'[k].frags : Kin(q, a, k)'
    BY <1>1 DEF DataInv, DataType, Kin, Belongs
  <2>2. \A f \in net' : f.to \in Places /\ Belongs(f, f.to)'
    BY DEF DataInv, DataType, Belongs
  <2>3. \A o \in out' : o.of \in sent'
    BY DEF DataInv, DataType
  <2> QED
    BY <2>1, <2>2, <2>3 DEF DataInv, DataType
<1>3. \A o \in out' : SmallOut(o)'
  BY DEF DataInv, SmallOut
<1>4. \A a \in Places : SmallBuf(a)'
  BY <1>1 DEF DataInv, SmallBuf
<1>5. \A e : NoMore(e)
  BY <1>1, Fewer
<1>6. Separate'
  BY <1>5, SeparateKept DEF DataInv
<1> QED
  BY <1>2, <1>3, <1>4, <1>5, <1>6 DEF DataInv

\* A packet in one frame comes and leaves the tunnel, or is dropped.
LEMMA WholeStep ==
  ASSUME DataInv, NEW f \in net, f.kind = "ipip", Arrives(f), load' = load, sent' = sent,
         mixed' = mixed, UNCHANGED <<tc, gw>>,
         NEW O, out' = out \cup O, O = {} \/ (~InFragments(f.of) => Delivered(f.of, f.to, O))
  PROVE  DataInv'
<1> DEFINE d == f.of
           r == f.to
<1>1. /\ d \in sent /\ IsDatagram(d) /\ f \in OnWay(d) /\ r \in Places /\ Route(d, r)
      /\ f \in Frames(d, r) /\ ~InFragments(d) /\ (d \notin mixed => InPlace(d, r))
  BY Arriving
<1>2. O = {} \/ Delivered(d, r, O)
  BY <1>1
<1> HIDE DEF d, r
<1>3. \A a \in Places : Tab(a)' = Tab(a)
  BY DEF Tab
<1>4. net' = net \ {f} /\ dups' = dups
  BY DEF Arrives
<1>5. \A o \in O : o.of = d /\ SmallOut(o)
  BY <1>1, <1>2, DeliveredSmall
<1>6. \A t : SameTuple(t, t)
  BY DEF SameTuple
<1>7. ASSUME \A e : NoMore(e)
      PROVE  \A e \in sent \ (mixed \cup {d}) : Placed(e)'
  BY <1>1, <1>3, <1>4, <1>5, <1>6, <1>7, OthersKept
<1>8. ASSUME d \notin mixed
      PROVE  Placed(d)'
  <2>1. OnWay(d)' = {}
    <3>1. OnWay(d) \subseteq {f}
      BY <1>1, <1>8, FramesAre DEF InPlace
    <3>2. OnWay(d)' = OnWay(d) \ {f}
      BY <1>4 DEF OnWay
    <3> QED
      BY <3>1, <3>2
  <2>2. \A a \in Places : ~Held(d, a)'
    BY <1>1, <1>3 DEF Held, DataInv, DataType, Kin
  <2>3. ~Live(d)'
    BY <2>1, <2>2, LiveLater
  <2>4. Of(d)' = Of(d) \cup O
    BY <1>5 DEF Of
  <2>5. d \notin dups => Of(d) = {}
    BY <1>1, <1>8, LiveIs DEF InPlace
  <2>6. d \notin dups' /\ Of(d)' # {} => Delivered(d, r, Of(d)')
    BY <1>2, <1>4, <2>4, <2>5
  <2>7. Delivered(d, r, Of(d))' <=> Delivered(d, r, Of(d)')
    BY DEF Delivered
  <2>8. InPlace(d, r)'
    BY <1>1, <2>1, <2>2, <2>3, <2>6, <2>7 DEF InPlace
  <2> QED
    BY <1>1, <2>8 DEF Placed
<1>9. \A o \in O : o.of \in sent /\ SmallOut(o)
  BY <1>1, <1>5
<1>10. /\ net' \subseteq net
       /\ (\A e : NoMore(e)) => \A e \in sent \ mixed : Placed(e)'
  BY <1>4, <1>7, <1>8
<1> QED
  BY <1>9, <1>10, StillTables

\* A frame comes and is dropped.
LEMMA DropStep ==
  ASSUME DataInv, NEW f \in net, Arrives(f), load' = load, sent' = sent, mixed' = mixed,
         UNCHANGED <<tc, gw, out>>
  PROVE  DataInv'
<1> DEFINE d == f.of
           r == f.to
<1>1. /\ d \in sent /\ IsDatagram(d) /\ f \in OnWay(d) /\ Live(d) /\ r \in Places
      /\ f \in Frames(d, r) /\ (d \notin mixed => InPlace(d, r))
  BY Arriving
<1> HIDE DEF d, r
<1>2. \A a \in Places : Tab(a)' = Tab(a)
  BY DEF Tab
<1>3. net' \subseteq net /\ (dups' = dups \/ dups' = dups \cup {d})
  <2>1. \/ net' = net \ {f} /\ dups' = dups
        \/ net' = net /\ dups' = dups \cup {f.of}
    BY DEF Arrives
  <2> QED
    BY <2>1 DEF d
<1>4. \A t : SameTuple(t, t)
  BY DEF SameTuple
<1> DEFINE O == {}
<1>5. out' = out \cup O /\ (\A o \in O : o.of \in sent /\ SmallOut(o))
      /\ \A o \in O : o.of = d \/ o.of \in mixed
  OBVIOUS
<1> HIDE DEF O
<1>6. ASSUME \A e : NoMore(e)
      PROVE  \A e \in sent \ (mixed \cup {d}) : Placed(e)'
  BY <1>1, <1>2, <1>3, <1>4, <1>5, <1>6, OthersKept
<1>7. OnWay(d)' \subseteq OnWay(d) /\ Of(d)' = Of(d)
  BY <1>3 DEF OnWay, Of
<1>8. ASSUME \A e : NoMore(e), d \notin mixed
      PROVE  Placed(d)'
  <2>1. CASE d \in dups' <=> d \in dups
    <3>1. Placed(d)
      BY <1>1, <1>8 DEF Placed
    <3> QED
      BY <1>1, <1>2, <1>4, <1>7, <1>8, <2>1, <3>1, Kept
  <2>2. CASE ~(d \in dups' <=> d \in dups)
    <3>1. d \notin dups /\ d \in dups'
      BY <1>3, <2>2
    <3>2. ASSUME InFragments(d), Key(d) \in DOMAIN Tab(r)'
          PROVE  Waits(Tab(r)[Key(d)], d, r)'
      <4> DEFINE t == Tab(r)[Key(d)]
      <4>1. Waits(t, d, r)
        BY <1>1, <1>2, <1>8, <3>2 DEF InPlace
      <4>5. Tab(r)'[Key(d)] = t
        BY <1>1, <1>2
      <4> HIDE DEF t
      <4>2. Alone(t, Frames(d, r), d.len, OnWay(d))
        BY <3>1, <4>1 DEF Waits
      <4>3. Twice(t, Frames(d, r), d.len, OnWay(d))
        BY <1>1, <4>2, FillingTwice
      <4>4. Twice(t, Frames(d, r), d.len, OnWay(d)')
        BY <1>4, <1>7, <4>3, WaitsKept
      <4> QED
        BY <3>1, <4>4, <4>5 DEF Waits
    <3>3. \A a \in Places : Held(d, a)' => a = r
      BY <1>1, <1>2, <1>8 DEF InPlace, Held
    <3>4. InPlace(d, r)'
      BY <1>1, <1>7, <1>8, <3>1, <3>2, <3>3 DEF InPlace
    <3> QED
      BY <1>1, <3>4 DEF Placed
  <2> QED
    BY <2>1, <2>2
<1> QED
  <2>1. (\A e : NoMore(e)) => \A e \in sent \ mixed : Placed(e)'
    BY <1>6, <1>8
  <2> QED
    BY <1>3, <1>5, <2>1, StillTables

\* The timer only takes tuples away.
LEMMA Aged ==
  ASSUME NEW tab, \A k \in DOMAIN tab : IsTuple(tab[k])
  PROVE  LET u == fragtimeouthandle(tab)
         IN  \A k \in DOMAIN u : k \in DOMAIN tab /\ IsTuple(u[k]) /\ SameTuple(tab[k], u[k])
<1> DEFINE aged == [k \in DOMAIN tab |-> [tab[k] EXCEPT !.life = @ - 1]]
           D == {k \in DOMAIN tab : aged[k].life > 0}
           u == fragtimeouthandle(tab)
<1>1. u = [k \in D |-> aged[k]]
  BY DEF fragtimeouthandle, Restrict
<1>2. ASSUME NEW k \in DOMAIN tab
      PROVE  IsTuple(aged[k]) /\ SameTuple(tab[k], aged[k])
  <2> DEFINE t == tab[k]
             v == [t EXCEPT !.life = @ - 1]
  <2>1. IsTuple(t) /\ aged[k] = v
    OBVIOUS
  <2> HIDE DEF t
  <2>2. IsTuple(v) /\ SameTuple(t, v)
    BY <2>1 DEF IsTuple, TupleFields, SameTuple
  <2> HIDE DEF v
  <2> QED
    BY <2>1, <2>2 DEF t
<1>3. D \subseteq DOMAIN tab
  OBVIOUS
<1> HIDE DEF aged, D, u
<1> QED
  BY <1>1, <1>2, <1>3 DEF u

Records == /\ DOMAIN tc = {"tab", "buf"} /\ DOMAIN gw = Client
           /\ \A c \in Client : DOMAIN gw[c] = {"tab", "buf"}

LEMMA TimerStep ==
  ASSUME DataInv, NEW a \in Places, UNCHANGED <<load, sent, net, out, dups, mixed>>, Records',
         \A p \in Places : Buf(p)' = Buf(p),
         \A p \in Places : Tab(p)' = IF p = a THEN fragtimeouthandle(Tab(p)) ELSE Tab(p)
  PROVE  DataInv'
<1>1. \A p \in Places : \A k \in DOMAIN Tab(p) :
        IsTuple(Tab(p)[k]) /\ \A q \in Tab(p)[k].frags : Kin(q, p, k)
  BY DEF DataInv, DataType
<1>2. ASSUME NEW p \in Places, NEW k \in DOMAIN Tab(p)'
      PROVE  /\ k \in DOMAIN Tab(p) /\ IsTuple(Tab(p)'[k])
             /\ SameTuple(Tab(p)[k], Tab(p)'[k])
  <2>1. CASE p = a
    <3>1. Tab(p)' = fragtimeouthandle(Tab(p))
      BY <2>1
    <3> QED
      BY <1>1, <1>2, <3>1, Aged
  <2>2. CASE p # a
    <3>1. Tab(p)' = Tab(p)
      BY <2>2
    <3> QED
      BY <1>1, <1>2, <3>1 DEF SameTuple
  <2> QED
    BY <2>1, <2>2
<1>3. \A p \in Places : \A k \in DOMAIN Tab(p)' : k \in DOMAIN Tab(p) /\ Tab(p)'[k].frags = Tab(p)[k].frags
  BY <1>2 DEF SameTuple
<1>4. DataType'
  <2>1. \A p \in Places : \A k \in DOMAIN Tab(p)' :
          IsTuple(Tab(p)'[k]) /\ \A q \in Tab(p)'[k].frags : Kin(q, p, k)'
    BY <1>1, <1>2, <1>3 DEF Kin, Belongs
  <2>2. \A f \in net' : f.to \in Places /\ Belongs(f, f.to)'
    BY DEF DataInv, DataType, Belongs
  <2> QED
    BY <2>1, <2>2 DEF DataInv, DataType, Records
<1>5. (\A o \in out' : SmallOut(o)') /\ \A p \in Places : SmallBuf(p)'
  BY DEF DataInv, SmallBuf, SmallOut
<1>6. \A e : NoMore(e)
  BY <1>3, Fewer
<1>7. Separate'
  BY <1>6, SeparateKept DEF DataInv
<1>8. ASSUME NEW d \in sent, d \notin mixed
      PROVE  Placed(d)'
  <2>1. Of(d)' = Of(d) /\ Placed(d) /\ IsDatagram(d)
    BY <1>8, DatagramsAre DEF Of, DataInv, DataType
  <2>2. \A p \in Places : Key(d) \in DOMAIN Tab(p)' =>
          Key(d) \in DOMAIN Tab(p) /\ SameTuple(Tab(p)[Key(d)], Tab(p)'[Key(d)])
    BY <1>2
  <2> QED
    BY <1>6, <2>1, <2>2, Kept
<1> QED
  BY <1>4, <1>5, <1>7, <1>8 DEF DataInv

LEMMA NothingIsZero == PacketLen({}) = 0
<1>1. IsFiniteSet({}) /\ Sized({}) /\ Apart({}) /\ Covered({}) = {} /\ Cardinality({}) = 0
  BY FS_EmptySet DEF Sized, Apart, Covered
<1> QED
  BY <1>1, LengthIsBytes

\* The tuple that a fragment finds: the one that waits, or a new one.
LEMMA FoundTuple ==
  ASSUME DataInv, NEW d, IsDatagram(d), NEW a \in Places, InPlace(d, a), InFragments(d), OnWay(d) # {},
         NEW t, t = ShashBucketFind(Tab(a), Key(d))
  PROVE  IsTuple(t) /\ Waits(t, d, a)
<1> DEFINE P == Frames(d, a)
           N == OnWay(d)
<1>1. CASE Key(d) \in DOMAIN Tab(a)
  <2>1. t = Tab(a)[Key(d)]
    BY <1>1 DEF ShashBucketFind
  <2> QED
    BY <1>1, <2>1, LiveIs DEF DataInv, DataType, InPlace
<1>2. CASE Key(d) \notin DOMAIN Tab(a)
  <2>1. t = NewTuple
    BY <1>2 DEF ShashBucketFind
  <2>2. /\ IsTuple(t) /\ t.frags = {} /\ t.len = 0 /\ t.flag = FALSE
    BY <2>1 DEF NewTuple, IsTuple, TupleFields
  <2>3. t.len = PacketLen(t.frags)
    BY <2>2, NothingIsZero
  <2>4. d.len \in Nat /\ d.len > 0
    BY DEF IsDatagram, HDR4
  <2>5. N \subseteq P /\ N # {}
    BY DEF InPlace
  <2> HIDE DEF P, N
  <2>6. Filling(t, P, d.len, N)
    BY <2>2, <2>3, <2>4 DEF Filling
  <2>7. Twice(t, P, d.len, N)
    <3>1. PICK x \in P : TRUE
      BY <2>5
    <3>2. t.frags \cap N \subseteq {x}
      BY <2>2
    <3> QED
      BY <2>2, <2>3, <3>1, <3>2 DEF Twice
  <2> QED
    BY <2>2, <2>6, <2>7 DEF Waits, Alone, P, N
<1> QED
  BY <1>1, <1>2

\* What the receiver's table holds after a fragment has come, of whatever datagrams.
LEMMA Inserted ==
  ASSUME DataInv, NEW f \in net, f.kind = "frag",
         NEW d, d = f.of, NEW a, a = f.to,
         NEW r, r = fragnodeinsert(Tab(a), FragKey(f), f),
         NEW t, t = ShashBucketFind(Tab(a), Key(d)),
         NEW u, u = r.tab[Key(d)]
  PROVE  /\ d \in sent /\ IsDatagram(d) /\ InFragments(d) /\ Live(d) /\ Route(d, a) /\ a \in Places
         /\ f.more \in BOOLEAN
         /\ DOMAIN r.tab = DOMAIN Tab(a) \cup {Key(d)}
         /\ \A k \in DOMAIN Tab(a) \ {Key(d)} : r.tab[k] = Tab(a)[k]
         /\ IsTuple(t) /\ IsTuple(u) /\ (Refused(t, r, u) \/ TakenIn(t, f, r, u))
         /\ \A q \in u.frags \cup IF r.done THEN r.frags ELSE {} :
              /\ q = f \/ (Key(d) \in DOMAIN Tab(a) /\ q \in Tab(a)[Key(d)].frags)
              /\ Kin(q, a, Key(d))
         /\ r.done => u.frags = {} /\ r.frags # {}
<1>1. /\ d \in sent /\ IsDatagram(d) /\ InFragments(d) /\ Live(d) /\ Route(d, a) /\ a \in Places
      /\ FragKey(f) = Key(d) /\ f.more \in BOOLEAN
  BY Arriving
<1>2. Kin(f, a, Key(d))
  BY <1>1, Arriving DEF Kin, Belongs
<1>3. /\ IsTuple(t)
      /\ \A q \in t.frags : Key(d) \in DOMAIN Tab(a) /\ q \in Tab(a)[Key(d)].frags /\ Kin(q, a, Key(d))
  <2>1. CASE Key(d) \in DOMAIN Tab(a)
    <3>1. t = Tab(a)[Key(d)]
      BY <2>1 DEF ShashBucketFind
    <3> QED
      BY <1>1, <2>1, <3>1 DEF DataInv, DataType
  <2>2. CASE Key(d) \notin DOMAIN Tab(a)
    <3>1. t = NewTuple
      BY <2>2 DEF ShashBucketFind
    <3> QED
      BY <3>1 DEF NewTuple, IsTuple, TupleFields
  <2> QED
    BY <2>1, <2>2
<1>4. /\ DOMAIN r.tab = DOMAIN Tab(a) \cup {Key(d)}
      /\ \A k \in DOMAIN Tab(a) \ {Key(d)} : r.tab[k] = Tab(a)[k]
      /\ IsTuple(u) /\ (Refused(t, r, u) \/ TakenIn(t, f, r, u))
  <2>1. r = fragnodeinsert(Tab(a), Key(d), f)
    BY <1>1
  <2> QED
    BY <1>1, <1>3, <2>1, Inserts
<1>5. Linked(t.frags, f) \subseteq t.frags \cup {f} /\ Linked(t.frags, f) # {}
  BY DEF Linked
<1>6. /\ u.frags \subseteq t.frags \cup {f}
      /\ r.done => u.frags = {} /\ r.frags # {} /\ r.frags \subseteq t.frags \cup {f}
  BY <1>4, <1>5 DEF Refused, TakenIn
<1>7. ASSUME NEW q \in u.frags \cup IF r.done THEN r.frags ELSE {}
      PROVE  /\ q = f \/ (Key(d) \in DOMAIN Tab(a) /\ q \in Tab(a)[Key(d)].frags)
             /\ Kin(q, a, Key(d))
  <2>1. q \in t.frags \cup {f}
    BY <1>6, <1>7
  <2> QED
    BY <1>2, <1>3, <2>1
<1> QED
  BY <1>1, <1>3, <1>4, <1>6, <1>7

\* And of a datagram that met no other.
LEMMA InsertedAlone ==
  ASSUME DataInv, NEW f \in net, f.kind = "frag",
         NEW d, d = f.of, d \notin mixed, NEW a, a = f.to,
         NEW r, r = fragnodeinsert(Tab(a), FragKey(f), f),
         NEW u, u = r.tab[Key(d)]
  PROVE  /\ InPlace(d, a) /\ f \in OnWay(d)
         /\ d \notin dups => AfterOne(Frames(d, a), d.len, OnWay(d), f, r, u)
         /\ d \in dups => AfterTwo(Frames(d, a), d.len, OnWay(d), f, r, u)
         /\ r.done => PacketLen(Frames(d, a)) = d.len /\ Frames(d, a) # {}
<1> DEFINE t == ShashBucketFind(Tab(a), Key(d))
           P == Frames(d, a)
           N == OnWay(d)
           n == d.len
<1>1. /\ IsDatagram(d) /\ InFragments(d) /\ f \in N /\ InPlace(d, a) /\ a \in Places
      /\ f.more \in BOOLEAN
  BY Arriving
<1>2. IsTuple(t) /\ Waits(t, d, a)
  BY <1>1, FoundTuple
<1>3. PiecesOf(P, n) /\ n \in Nat \ {0} /\ N \in SUBSET P
  BY <1>1, FramesAre DEF IsDatagram, InPlace, HDR4
<1>4. Refused(t, r, u) \/ TakenIn(t, f, r, u)
  BY Inserted
<1>5. t.flag \in BOOLEAN
  BY <1>2 DEF IsTuple
<1>6. d \notin dups => Alone(t, P, n, N)
  BY <1>2 DEF Waits
<1>7. d \in dups => Twice(t, P, n, N)
  BY <1>2 DEF Waits
<1> HIDE DEF t, P, N, n
<1>9. ASSUME d \notin dups
      PROVE  AfterOne(P, n, N, f, r, u)
  <2>1. Filling(t, P, n, N)
    BY <1>1, <1>3, <1>6, <1>9, FillingTwice
  <2> QED
    BY <1>1, <1>3, <1>4, <1>5, <2>1, FilledIn, SMTT(30)
<1>10. ASSUME d \in dups
       PROVE  AfterTwo(P, n, N, f, r, u)
  BY <1>1, <1>3, <1>4, <1>5, <1>7, <1>10, FilledTwice
<1>11. P # {} /\ PacketLen(P) = n
  BY <1>1, <1>3, PartLen
<1> QED
  BY <1>1, <1>9, <1>10, <1>11 DEF P, N, n

\* What fragprocess puts together from the fragments of one tuple, of whatever
\* datagrams: a packet of one of them, with the header of one of them or the last one's.
LEMMA AssembledKin ==
  ASSUME NEW a, NEW F, F # {}, \A q \in F : q \in Frames(q.of, a) /\ IsDatagram(q.of), NEW buf
  PROVE  LET b == Assembled(F, buf)
         IN  /\ \E q \in F : b.of = q.of
             /\ b.h = buf \/ \E q \in F : b.h = WireHeader(q.of)
<1> DEFINE first == {p \in F : p.off = 0}
           head  == IF first = {} THEN buf ELSE (CHOOSE p \in first : TRUE).h
           some  == CHOOSE p \in F : TRUE
<1>1. Assembled(F, buf) = [of |-> some.of, h |-> head, len |-> PacketLen(F), whole |-> Gapless(F)]
  BY DEF Assembled
<1>2. some \in F
  OBVIOUS
<1>3. head = buf \/ \E q \in F : head = WireHeader(q.of)
  <2>1. CASE first = {}
    BY <2>1
  <2>2. CASE first # {}
    <3> DEFINE p == CHOOSE x \in first : TRUE
    <3>1. p \in first
      BY <2>2
    <3>2. head = p.h
      BY <2>2
    <3> HIDE DEF p, head
    <3>3. p \in F /\ p.off = 0
      BY <3>1
    <3>4. p \in Frames(p.of, a) /\ IsDatagram(p.of)
      BY <3>3
    <3>5. p.h = WireHeader(p.of)
      BY <3>3, <3>4, FramesAre
    <3> QED
      BY <3>2, <3>3, <3>5
  <2> QED
    BY <2>1, <2>2
<1> HIDE DEF some, head
<1> QED
  BY <1>1, <1>2, <1>3

\* A fragment comes to a: a packet is put together, or it waits.
LEMMA FragmentStep ==
  ASSUME DataInv, NEW f \in net, f.kind = "frag", Arrives(f), load' = load, sent' = sent,
         mixed' = mixed,
         NEW d, d = f.of, NEW a, a = f.to,
         NEW r, r = fragnodeinsert(Tab(a), FragKey(f), f),
         NEW b, b = Assembled(r.frags, Buf(a)),
         Records',
         \A p \in Places : Tab(p)' = IF p = a THEN r.tab ELSE Tab(p),
         \A p \in Places : Buf(p)' = IF p = a /\ r.done THEN b.h ELSE Buf(p),
         NEW O, out' = out \cup O, ~r.done => O = {}, \A o \in O : o.of = b.of,
         r.done /\ b = Body(d) => Delivered(d, a, O),
         r.done /\ Shaped(b.h) /\ Offers(b.h, MtuAt(a)) /\ InFragments(b.of)
           /\ (b.of \notin mixed => b.len \in Nat /\ (a # Tc => b.len > HDR4))
             => \A o \in O : SmallOut(o)
  PROVE  DataInv'
<1> DEFINE u == r.tab[Key(d)]
           t == ShashBucketFind(Tab(a), Key(d))
<1>0. u = r.tab[Key(d)] /\ t = ShashBucketFind(Tab(a), Key(d))
  OBVIOUS
<1> HIDE DEF u, t
<1>1. /\ d \in sent /\ IsDatagram(d) /\ InFragments(d) /\ Live(d) /\ Route(d, a) /\ a \in Places
      /\ DOMAIN r.tab = DOMAIN Tab(a) \cup {Key(d)}
      /\ \A k \in DOMAIN Tab(a) \ {Key(d)} : r.tab[k] = Tab(a)[k]
      /\ IsTuple(u)
  BY <1>0, Inserted, SMTT(40)
<1>2. /\ \A q \in u.frags : /\ q = f \/ (Key(d) \in DOMAIN Tab(a) /\ q \in Tab(a)[Key(d)].frags)
                            /\ Kin(q, a, Key(d))
      /\ r.done => \A q \in r.frags :
           /\ q = f \/ (Key(d) \in DOMAIN Tab(a) /\ q \in Tab(a)[Key(d)].frags)
           /\ Kin(q, a, Key(d))
      /\ r.done => u.frags = {} /\ r.frags # {}
  <2>1. /\ \A q \in u.frags \cup IF r.done THEN r.frags ELSE {} :
             /\ q = f \/ (Key(d) \in DOMAIN Tab(a) /\ q \in Tab(a)[Key(d)].frags)
             /\ Kin(q, a, Key(d))
        /\ r.done => u.frags = {} /\ r.frags # {}
    BY <1>0, Inserted
  <2> QED
    BY <2>1
<1>3. /\ net' \subseteq net /\ dups' \in {dups, dups \cup {d}}
      /\ \/ net' = net \ {f} /\ dups' = dups
         \/ net' = net /\ dups' = dups \cup {d} /\ d \notin dups
  BY DEF Arrives
<1>4. ASSUME NEW p \in Places, NEW k \in DOMAIN Tab(p)'
      PROVE  /\ k # Key(d) \/ p # a => k \in DOMAIN Tab(p) /\ Tab(p)'[k] = Tab(p)[k]
             /\ k = Key(d) /\ p = a => Tab(p)'[k] = u
  BY <1>1, <1>4 DEF u
<1>5. ASSUME NEW p \in Places, NEW k \in DOMAIN Tab(p)', NEW q \in Tab(p)'[k].frags
      PROVE  /\ (q \in net /\ q.to = p) \/ (k \in DOMAIN Tab(p) /\ q \in Tab(p)[k].frags)
             /\ Kin(q, p, k)
  <2>1. CASE k = Key(d) /\ p = a
    BY <1>2, <1>4, <1>5, <2>1
  <2>2. CASE ~(k = Key(d) /\ p = a)
    <3>1. k \in DOMAIN Tab(p) /\ Tab(p)'[k] = Tab(p)[k]
      BY <1>4, <1>5, <2>2
    <3> QED
      BY <1>5, <3>1 DEF DataInv, DataType
  <2> QED
    BY <2>1, <2>2
<1>6. \A e : NoMore(e)
  BY <1>3, <1>5, Fewer
\* The packet that is put together, ...
<1>7. r.done => /\ InFragments(b.of) /\ b.of \in sent /\ Shaped(b.h) /\ Offers(b.h, MtuAt(a))
                /\ d \in mixed => b.of \in mixed
  <2> SUFFICES ASSUME r.done
               PROVE  /\ InFragments(b.of) /\ b.of \in sent /\ Shaped(b.h) /\ Offers(b.h, MtuAt(a))
                      /\ d \in mixed => b.of \in mixed
    OBVIOUS
  <2>1. \A q \in r.frags : Kin(q, a, Key(d)) /\ IsDatagram(q.of) /\ q.of \in sent /\ Route(q.of, a)
    BY <1>2, DatagramsAre DEF DataInv, DataType, Kin, Belongs
  <2>2. /\ \E q \in r.frags : b.of = q.of
        /\ b.h = Buf(a) \/ \E q \in r.frags : b.h = WireHeader(q.of)
    <3> DEFINE F   == r.frags
               buf == Buf(a)
    <3>1. F # {} /\ b = Assembled(F, buf) /\ \A q \in F : q \in Frames(q.of, a) /\ IsDatagram(q.of)
      BY <1>2, <2>1 DEF Kin, Belongs
    <3> HIDE DEF F, buf
    <3>2. LET g == Assembled(F, buf)
          IN  /\ \E q \in F : g.of = q.of
              /\ g.h = buf \/ \E q \in F : g.h = WireHeader(q.of)
      BY ONLY <3>1, AssembledKin, Zenon
    <3> QED
      BY <3>1, <3>2 DEF F, buf
  <2>3. PICK q \in r.frags : b.of = q.of
    BY <2>2
  <2>4. InFragments(b.of) /\ b.of \in sent /\ Key(b.of) = Key(d) /\ Route(b.of, a)
    BY <2>1, <2>3 DEF Kin
  <2>5. ASSUME NEW p \in r.frags
        PROVE  Shaped(WireHeader(p.of)) /\ Offers(WireHeader(p.of), MtuAt(a))
    <3>1. IsDatagram(p.of) /\ Route(p.of, a)
      BY <2>1
    <3>2. Link(p.of) = MtuAt(a)
      BY <3>1, RouteIs DEF MtuAt
    <3> QED
      BY <3>1, <3>2, WireFits
  <2>6. Shaped(Buf(a)) /\ Offers(Buf(a), MtuAt(a))
    BY <1>1 DEF DataInv, SmallBuf
  <2>7. ASSUME d \in mixed, b.of \notin mixed
        PROVE  FALSE
    <3>1. Alike(b.of, d)
      BY <1>1, <2>4, <2>7, OneReceiver
    <3>2. q # f /\ q \in Tab(a)[Key(d)].frags /\ Key(d) \in DOMAIN Tab(a)
      BY <1>2, <2>3, <2>7
    <3>3. Held(b.of, a)
      BY <2>3, <3>2 DEF Held
    <3>4. Live(b.of)
      BY <1>1, <3>3, LiveIs
    <3> QED
      BY <1>1, <2>4, <2>7, <3>1, <3>4 DEF DataInv, Separate
  <2> QED
    BY <2>2, <2>4, <2>5, <2>6, <2>7
\* ... if it met no other.
<1>8. ASSUME d \notin mixed
      PROVE  /\ InPlace(d, a) /\ f \in OnWay(d)
             /\ d \notin dups => AfterOne(Frames(d, a), d.len, OnWay(d), f, r, u)
             /\ d \in dups => AfterTwo(Frames(d, a), d.len, OnWay(d), f, r, u)
             /\ r.done => PacketLen(Frames(d, a)) = d.len /\ Frames(d, a) # {}
  BY <1>0, <1>8, InsertedAlone
<1>9. ASSUME d \notin mixed, r.done
      PROVE  b.of = d /\ b.len \in Nat /\ (a # Tc => b.len > HDR4)
  <2> DEFINE F == r.frags
  <2>1. /\ F \in SUBSET Frames(d, a) /\ F # {}
        /\ PacketLen(F) = d.len \/ \E x \in F : PacketLen(F) + x.len = d.len
    BY <1>8, <1>9 DEF AfterOne, AfterTwo
  <2>2. b.of = d /\ b.len = PacketLen(F)
    BY <1>1, <2>1, AssembledPart
  <2> HIDE DEF F
  <2>3. PacketLen(F) \in Nat /\ (d.dir = "down" => PacketLen(F) > HDR4)
    BY <1>1, <2>1, AssembledLen
  <2>4. a # Tc => d.dir = "down"
    BY <1>1, RouteIs
  <2> QED
    BY <2>2, <2>3, <2>4
<1>10. \A o \in O : o.of \in sent /\ SmallOut(o) /\ (o.of = d \/ o.of \in mixed)
  <2>1. CASE r.done
    <3>1. b.of \notin mixed => d \notin mixed
      BY <1>7, <2>1
    <3>2. \A o \in O : SmallOut(o)
      BY <1>7, <1>9, <2>1, <3>1
    <3> QED
      BY <1>7, <1>9, <2>1, <3>2
  <2>2. CASE ~r.done
    BY <2>2
  <2> QED
    BY <2>1, <2>2
<1>11. DataType'
  <2>1. ASSUME NEW p \in Places, NEW k \in DOMAIN Tab(p)'
        PROVE  IsTuple(Tab(p)'[k]) /\ \A q \in Tab(p)'[k].frags : Kin(q, p, k)'
    <3>1. IsTuple(Tab(p)'[k])
      <4>1. CASE k = Key(d) /\ p = a
        BY <1>1, <1>4, <2>1, <4>1
      <4>2. CASE ~(k = Key(d) /\ p = a)
        BY <1>4, <2>1, <4>2 DEF DataInv, DataType
      <4> QED
        BY <4>1, <4>2
    <3>2. \A q \in Tab(p)'[k].frags : Kin(q, p, k)'
      BY <1>5, <2>1 DEF Kin, Belongs
    <3> QED
      BY <3>1, <3>2
  <2>2. (\A g \in net' : g.to \in Places /\ Belongs(g, g.to)') /\ \A o \in out' : o.of \in sent'
    BY <1>3, <1>10 DEF DataInv, DataType, Belongs
  <2> QED
    BY <2>1, <2>2 DEF DataInv, DataType, Records
<1>12. (\A o \in out' : SmallOut(o)') /\ \A p \in Places : SmallBuf(p)'
  BY <1>7, <1>10 DEF DataInv, SmallBuf, SmallOut
<1>13. Separate'
  BY <1>6, SeparateKept DEF DataInv
<1>14. \A e \in sent \ (mixed \cup {d}) : Placed(e)'
  <2>1. \A x : SameTuple(x, x)
    BY DEF SameTuple
  <2>2. \A p \in Places : \A k \in DOMAIN Tab(p)' :
          \/ k = Key(d) /\ InFragments(d) /\ Live(d) /\ Route(d, p)
          \/ k \in DOMAIN Tab(p) /\ SameTuple(Tab(p)[k], Tab(p)'[k])
    BY <1>1, <1>4, <2>1
  <2> QED
    BY <1>1, <1>3, <1>6, <1>10, <2>2, OthersKept
<1>15. ASSUME d \notin mixed
       PROVE  Placed(d)'
  <2>0. /\ d \notin dups => /\ Alone(u, Frames(d, a), d.len, OnWay(d) \ {f})
                            /\ Twice(u, Frames(d, a), d.len, OnWay(d))
                            /\ r.done => r.frags = Frames(d, a) /\ OnWay(d) = {f}
        /\ d \in dups => Twice(u, Frames(d, a), d.len, OnWay(d) \ {f})
    BY <1>8, <1>15 DEF AfterOne, AfterTwo
  <2>1. Route(d, a) /\ OnWay(d)' \subseteq Frames(d, a) /\ InPlace(d, a)
    BY <1>3, <1>8, <1>15 DEF InPlace, OnWay
  <2>2. Tab(a)' = r.tab
    BY <1>1
  <2>3. OnWay(d)' = IF net' = net THEN OnWay(d) ELSE OnWay(d) \ {f}
    BY <1>3 DEF OnWay
  <2>4. Waits(u, d, a)'
    <3>1. IF d \in dups' THEN Twice(u, Frames(d, a), d.len, OnWay(d)')
          ELSE Alone(u, Frames(d, a), d.len, OnWay(d)')
      <4>1. CASE net' = net \ {f} /\ dups' = dups
        <5>1. OnWay(d)' = OnWay(d) \ {f}
          BY <4>1 DEF OnWay
        <5> QED
          BY <2>0, <4>1, <5>1
      <4>2. CASE net' = net /\ dups' = dups \cup {d} /\ d \notin dups
        BY <2>0, <2>3, <4>2
      <4> QED
        BY <1>3, <4>1, <4>2
    <3> QED
      BY <3>1 DEF Waits
  <2>5. Waits(Tab(a)[Key(d)], d, a)'
    <3>1. Tab(a)'[Key(d)] = u
      BY <1>0, <2>2
    <3>2. Waits(Tab(a)[Key(d)], d, a)' <=> Waits(u, d, a)'
      BY <3>1 DEF Waits
    <3> QED
      BY <2>4, <3>2
  <2>6. ASSUME NEW p \in Places, Held(d, p)'
        PROVE  p = a
    <3>1. Held(d, p) \/ \E q \in OnWay(d) : q.to = p
      BY <1>6, <2>6 DEF NoMore
    <3>2. \A q \in OnWay(d) : q.to = a
      BY <1>1, <2>1, FramesAre DEF InPlace
    <3> QED
      BY <2>1, <3>1, <3>2 DEF InPlace
  <2>7. ASSUME d \notin dups', Of(d)' # {}
        PROVE  ~Live(d)' /\ Delivered(d, a, Of(d)')
    <3>1. d \notin dups /\ net' = net \ {f}
      BY <1>3, <2>7
    <3>2. Of(d) = {}
      BY <1>1, <2>1, <3>1 DEF InPlace
    <3>3. Of(d)' = {o \in O : o.of = d}
      BY <3>2 DEF Of
    <3>4. r.done
      BY <2>7, <3>3
    <3>5. r.frags = Frames(d, a) /\ OnWay(d) = {f} /\ u.frags = {}
      BY <1>2, <2>0, <3>1, <3>4
    <3>6. b = Body(d)
      BY <1>1, <3>5, AssembledAll
    <3>7. Of(d)' = O
      BY <1>9, <1>15, <3>3, <3>4
    <3>8. OnWay(d)' = {}
      BY <3>1, <3>5 DEF OnWay
    <3>9. ~Held(d, a)'
      <4> SUFFICES ASSUME NEW k \in DOMAIN Tab(a)', NEW q \in Tab(a)'[k].frags, q.of = d
                   PROVE  FALSE
        BY DEF Held
      <4>1. k = Key(d)
        BY <1>1, <1>5 DEF Kin
      <4>2. Tab(a)'[k] = u
        BY <1>0, <2>2, <4>1
      <4> QED
        BY <3>5, <4>2
    <3>10. ~Live(d)'
      BY <2>6, <3>8, <3>9, LiveLater
    <3> QED
      BY <3>4, <3>6, <3>7, <3>10
  <2>8. Delivered(d, a, Of(d))' <=> Delivered(d, a, Of(d)')
    BY DEF Delivered
  <2>9. InPlace(d, a)'
    BY <2>1, <2>5, <2>6, <2>7, <2>8 DEF InPlace
  <2> QED
    BY <1>1, <2>9 DEF Placed
<1> QED
  <2>1. \A e \in sent' \ mixed' : Placed(e)'
    BY <1>14, <1>15
  <2> QED
    BY <1>11, <1>12, <1>13, <2>1 DEF DataInv

LEMMA DataTc ==
  ASSUME DataInv, NEW f \in net, HandleIPv6_skbuf(f)
  PROVE  DataInv'
<1> DEFINE d == f.of
<1>1. /\ f.to = Tc /\ Arrives(f) /\ load' = load /\ sent' = sent /\ gw' = gw /\ mixed' = mixed
      /\ HandleIPinIP_skbuf(f) \/ HandleFragment(f) \/ NoTunnel(f)
  BY DEF HandleIPv6_skbuf
<1>2. /\ d \in sent /\ IsDatagram(d) /\ Route(d, Tc) /\ Tc \in Places /\ f \in Frames(d, Tc)
      /\ f.from = Sender(d) /\ f.kind = IF InFragments(d) THEN "frag" ELSE "ipip"
  BY <1>1, Arriving
<1>3. d.dir = "up" /\ f.from = d.client /\ Tc \notin Client
  BY <1>2, RouteIs DEF Sender
<1> HIDE DEF d
<1>4. CASE HandleIPinIP_skbuf(f)
  <2> DEFINE O == {Single("inet", Tc, [of |-> f.of, len |-> f.len, whole |-> TRUE],
                          patch_tcpmss(f.h, TcMtu))}
  <2>1. f.kind = "ipip" /\ f.from \in Lessees /\ out' = out \cup O /\ tc' = tc
    BY <1>4 DEF HandleIPinIP_skbuf, FromTunnel, Lessees
  <2>2. ~InFragments(d) /\ f.len = d.len /\ f.off = 0 /\ f.h = WireHeader(d)
    <3>1. ~InFragments(d)
      BY <1>2, <2>1
    <3>2. f.len = d.len /\ f.off = 0
      BY <1>2, <3>1, FramesAre
    <3> QED
      BY <1>2, <3>1, <3>2, FramesAre
  <2>3. O = ToInternet(d)
    BY <2>2 DEF ToInternet, Single, Leaving, Body, d
  <2> HIDE DEF O
  <2>4. Delivered(f.of, f.to, O)
    BY <1>1, <1>3, <2>1, <2>3 DEF Delivered, d
  <2> QED
    BY <1>1, <2>1, <2>4, WholeStep
<1>5. CASE HandleFragment(f)
  <2> DEFINE r == fragnodeinsert(Tab(Tc), FragKey(f), f)
             b == Assembled(r.frags, Buf(Tc))
             O == IF r.done THEN SentToInternet(b) ELSE {}
  <2>1. f.kind = "frag" /\ f.from \in Lessees
    BY <1>5 DEF HandleFragment, FromTunnel, Lessees
  <2>2. /\ tc' = IF r.done THEN [tab |-> r.tab, buf |-> b.h] ELSE [tc EXCEPT !.tab = r.tab]
        /\ out' = out \cup O
    BY <1>5 DEF HandleFragment, Tab, Buf
  <2>a. r = fragnodeinsert(Tab(Tc), FragKey(f), f) /\ b = Assembled(r.frags, Buf(Tc))
    OBVIOUS
  <2> HIDE DEF r, b
  <2>3. DOMAIN tc = {"tab", "buf"}
    BY DEF DataInv, DataType
  <2>4. /\ DOMAIN tc' = {"tab", "buf"} /\ tc'.tab = r.tab
        /\ tc'.buf = IF r.done THEN b.h ELSE tc.buf
    BY <2>2, <2>3
  <2>5. Records'
    BY <1>1, <2>4 DEF DataInv, DataType, Records
  <2>6. /\ \A p \in Places : Tab(p)' = IF p = Tc THEN r.tab ELSE Tab(p)
        /\ \A p \in Places : Buf(p)' = IF p = Tc /\ r.done THEN b.h ELSE Buf(p)
    BY <1>1, <2>4 DEF Tab, Buf
  <2>7. r.done /\ b = Body(d) => Delivered(d, Tc, O)
    BY <1>2, <1>3, <2>1 DEF Delivered, ToInternet
  <2>8. /\ \A o \in O : o.of = b.of
        /\ r.done /\ Offers(b.h, MtuAt(Tc)) /\ (b.of \notin mixed => b.len \in Nat) =>
             \A o \in O : SmallOut(o)
    <3>1. ASSUME r.done, Offers(b.h, MtuAt(Tc)), b.of \notin mixed => b.len \in Nat
          PROVE  \A o \in O : SmallOut(o)
      <4>1. \A o \in SentToInternet(b) : o.side = "inet" /\ o.h = b.h /\ o.of = b.of
        BY OneHeader
      <4>2. b.of \notin mixed => \A o \in SentToInternet(b) : o.len <= TcMtu
        BY <3>1, SmallToInternet
      <4> QED
        BY <3>1, <4>1, <4>2 DEF SmallOut, OfferedMtu, MtuAt
    <3>2. \A o \in SentToInternet(b) : o.of = b.of
      BY OneHeader
    <3> QED
      BY <3>1, <3>2
  <2>9. ~r.done => O = {}
    OBVIOUS
  <2> HIDE DEF O
  <2> QED
    BY <1>1, <2>1, <2>2, <2>a, <2>5, <2>6, <2>7, <2>8, <2>9, FragmentStep DEF d
<1>6. CASE NoTunnel(f)
  <2>1. UNCHANGED <<tc, gw, out>>
    BY <1>1, <1>6 DEF NoTunnel
  <2> QED
    BY <1>1, <2>1, DropStep
<1> QED
  BY <1>1, <1>4, <1>5, <1>6

LEMMA DataGateway ==
  ASSUME DataInv, NEW f \in net, NEW c \in Client, stream_down_hook(c, f)
  PROVE  DataInv'
<1> DEFINE d == f.of
<1>1. /\ f.to = c /\ Arrives(f) /\ load' = load /\ sent' = sent /\ tc' = tc /\ mixed' = mixed
      /\ ipiphandle(c, f) \/ GatewayFragment(c, f)
  BY DEF stream_down_hook
<1>2. /\ d \in sent /\ IsDatagram(d) /\ Route(d, c) /\ c \in Places /\ f \in Frames(d, c)
      /\ f.kind = IF InFragments(d) THEN "frag" ELSE "ipip"
  BY <1>1, Arriving
<1>3. d.dir = "down" /\ c # Tc /\ Tc \notin Client
  BY <1>2, RouteIs
<1> HIDE DEF d
<1>4. CASE ipiphandle(c, f)
  <2> DEFINE n == nathandle(c, patch_tcpmss(f.h, UpMtu))
             O == IF n.ok
                  THEN {Single("lan", c, [of |-> f.of, len |-> f.len, whole |-> TRUE], n.h)}
                  ELSE {}
  <2>1. f.kind = "ipip" /\ out' = out \cup O /\ gw' = gw
    BY <1>4 DEF ipiphandle
  <2>2. ~InFragments(d) /\ f.len = d.len /\ f.off = 0 /\ f.h = WireHeader(d)
    <3>1. ~InFragments(d)
      BY <1>2, <2>1
    <3>2. f.len = d.len /\ f.off = 0
      BY <1>2, <3>1, FramesAre
    <3> QED
      BY <1>2, <3>1, <3>2, FramesAre
  <2>3. n = HostHeader(d, c)
    BY <2>2 DEF HostHeader
  <2> HIDE DEF n
  <2>4. n.ok => O = ToHost(d, c, n.h.addr)
    BY <2>2, <2>3 DEF ToHost, Single, Leaving, Body, d
  <2>5. ~n.ok => O = {}
    OBVIOUS
  <2> HIDE DEF O
  <2>6. O = {} \/ Delivered(f.of, f.to, O)
    <3>1. n.ok => Delivered(d, c, O)
      BY <1>3, <2>3, <2>4 DEF Delivered
    <3> QED
      BY <1>1, <2>5, <3>1 DEF d
  <2> QED
    BY <1>1, <2>1, <2>6, WholeStep
<1>5. CASE GatewayFragment(c, f)
  <2> DEFINE r == fragnodeinsert(Tab(c), FragKey(f), f)
             b == Assembled(r.frags, Buf(c))
             n == nathandle(c, b.h)
             O == IF r.done THEN frag_nathandle(c, b, n) ELSE {}
  <2>0. Tab(c) = gw[c].tab /\ Buf(c) = gw[c].buf
    BY <1>3 DEF Tab, Buf
  <2>1. f.kind = "frag"
    BY <1>5 DEF GatewayFragment
  <2>2. /\ gw' = [gw EXCEPT ![c] = IF r.done THEN [tab |-> r.tab, buf |-> b.h]
                                   ELSE [gw[c] EXCEPT !.tab = r.tab]]
        /\ out' = out \cup O
    BY <1>5, <2>0 DEF GatewayFragment, GwInserted, GwAssembled
  <2>a. /\ r = fragnodeinsert(Tab(c), FragKey(f), f) /\ b = Assembled(r.frags, Buf(c))
        /\ n = nathandle(c, b.h)
    OBVIOUS
  <2> HIDE DEF r, b, n
  <2>3. DOMAIN gw = Client /\ \A e \in Client : DOMAIN gw[e] = {"tab", "buf"}
    BY DEF DataInv, DataType
  <2>4. /\ DOMAIN gw' = Client /\ (\A e \in Client : e # c => gw'[e] = gw[e])
        /\ DOMAIN gw'[c] = {"tab", "buf"} /\ gw'[c].tab = r.tab
        /\ gw'[c].buf = IF r.done THEN b.h ELSE gw[c].buf
    BY <2>2, <2>3
  <2>5. Records'
    BY <1>1, <2>3, <2>4 DEF DataInv, DataType, Records
  <2>6. /\ \A p \in Places : Tab(p)' = IF p = c THEN r.tab ELSE Tab(p)
        /\ \A p \in Places : Buf(p)' = IF p = c /\ r.done THEN b.h ELSE Buf(p)
    BY <1>1, <1>3, <2>4 DEF Tab, Buf, Places
  <2>7. r.done /\ b = Body(d) => Delivered(d, c, O)
    <3> SUFFICES ASSUME r.done /\ b = Body(d)
                 PROVE  Delivered(d, c, O)
      OBVIOUS
    <3>1. InFragments(d)
      BY <1>2, <2>1
    <3>2. b.h = WireHeader(d) /\ b.len = d.len
      BY BodyIs
    <3>3. n = HostHeader(d, c)
      BY <2>a, <3>1, <3>2 DEF HostHeader
    <3> DEFINE a == RestTo(n, destip[c])
    <3>4. n.ok => a = n.h.addr
      BY DEF RestTo
    <3>5. O = ToHost(d, c, a)
      BY <3>1, <3>2, <3>3 DEF ToHost, RestHeader, frag_nathandle
    <3> HIDE DEF a, O
    <3> QED
      BY <1>3, <3>1, <3>3, <3>4, <3>5 DEF Delivered
  <2>8. /\ \A o \in O : o.of = b.of
        /\ r.done /\ Shaped(b.h) /\ Offers(b.h, MtuAt(c)) /\ InFragments(b.of)
             /\ (b.of \notin mixed => b.len \in Nat /\ b.len > HDR4) =>
             \A o \in O : SmallOut(o)
    <3>1. ASSUME r.done, Shaped(b.h), Offers(b.h, MtuAt(c)), InFragments(b.of),
                 b.of \notin mixed => b.len \in Nat /\ b.len > HDR4
          PROVE  \A o \in O : SmallOut(o)
      <4>1. \A o \in frag_nathandle(c, b, n) :
              o.side = "lan" /\ o.of = b.of /\ (o.off = 0 => o.h = n.h)
        BY OneHeader
      <4>2. b.of \notin mixed => \A o \in frag_nathandle(c, b, n) : o.len <= LanMtu
        BY <3>1, SmallToHost
      <4>3. Offers(n.h, TcMtu)
        <5>1. TcMtu \in Int /\ Offers(b.h, TcMtu)
          BY <1>3, <3>1, LinksAssumption DEF MtuAt
        <5> QED
          BY <2>a, <3>1, <5>1, OffersKept
      <4> QED
        BY <3>1, <4>1, <4>2, <4>3 DEF SmallOut, OfferedMtu
    <3>2. \A o \in frag_nathandle(c, b, n) : o.of = b.of
      BY OneHeader
    <3> QED
      BY <3>1, <3>2
  <2>9. ~r.done => O = {}
    OBVIOUS
  <2> HIDE DEF O
  <2> QED
    BY <1>1, <1>3, <2>1, <2>2, <2>a, <2>5, <2>6, <2>7, <2>8, <2>9, FragmentStep DEF d
<1> QED
  BY <1>1, <1>4, <1>5

LEMMA DataStep ==
  ASSUME DataInv, [Next]_vars
  PROVE  DataInv'
<1>0. /\ DOMAIN tc = {"tab", "buf"} /\ DOMAIN gw = Client
      /\ \A c \in Client : DOMAIN gw[c] = {"tab", "buf"}
  BY DEF DataInv, DataType
<1>t. Tc \notin Client /\ Tc \in Places /\ Client \subseteq Places
  BY SoftwireAssumption DEF Places
<1>1. CASE TcTimer
  <2>1. /\ tc' = [tc EXCEPT !.tab = fragtimeouthandle(tc.tab)] /\ gw' = gw
        /\ UNCHANGED <<load, sent, net, out, dups, mixed>>
    BY <1>1 DEF TcTimer
  <2>2. /\ DOMAIN tc' = {"tab", "buf"} /\ tc'.tab = fragtimeouthandle(tc.tab) /\ tc'.buf = tc.buf
    BY <1>0, <2>1
  <2>3. Records'
    BY <1>0, <2>1, <2>2 DEF Records
  <2>4. /\ \A p \in Places : Buf(p)' = Buf(p)
        /\ \A p \in Places : Tab(p)' = IF p = Tc THEN fragtimeouthandle(Tab(p)) ELSE Tab(p)
    BY <2>1, <2>2 DEF Buf, Tab
  <2> QED
    BY <1>t, <2>1, <2>3, <2>4, TimerStep
<1>2. ASSUME NEW c \in Client, GwTimer(c)
      PROVE  DataInv'
  <2>1. /\ gw' = [gw EXCEPT ![c] = [gw[c] EXCEPT !.tab = fragtimeouthandle(gw[c].tab)]]
        /\ tc' = tc /\ UNCHANGED <<load, sent, net, out, dups, mixed>>
    BY <1>2 DEF GwTimer
  <2>2. /\ DOMAIN gw' = Client /\ (\A e \in Client : e # c => gw'[e] = gw[e])
        /\ DOMAIN gw'[c] = {"tab", "buf"} /\ gw'[c].tab = fragtimeouthandle(gw[c].tab)
        /\ gw'[c].buf = gw[c].buf
    BY <1>0, <2>1
  <2>3. Records'
    BY <1>0, <2>1, <2>2 DEF Records
  <2>4. /\ \A p \in Places : Buf(p)' = Buf(p)
        /\ \A p \in Places : Tab(p)' = IF p = c THEN fragtimeouthandle(Tab(p)) ELSE Tab(p)
    BY <1>t, <2>1, <2>2 DEF Buf, Tab, Places
  <2>5. c \in Places
    BY <1>t
  <2> QED
    BY <2>1, <2>3, <2>4, <2>5, TimerStep
<1>3. ASSUME UNCHANGED <<load, sent, net, tc, gw, out, dups, mixed>>
      PROVE  DataInv'
  <2> DEFINE O == {}
  <2>1. \A a \in Places : Tab(a)' = Tab(a)
    BY <1>3 DEF Tab
  <2>2. \A d \in sent : Of(d)' = Of(d) /\ IsDatagram(d)
    BY <1>3, DatagramsAre DEF Of, DataInv, DataType
  <2>3. \A t : SameTuple(t, t)
    BY DEF SameTuple
  <2>4. (\A e : NoMore(e)) => \A d \in sent \ mixed : Placed(d)'
    BY <1>3, <2>1, <2>2, <2>3, Kept DEF DataInv
  <2>5. out' = out \cup O /\ net' \subseteq net /\ \A o \in O : o.of \in sent /\ SmallOut(o)
    BY <1>3
  <2> HIDE DEF O
  <2> QED
    BY <1>3, <2>4, <2>5, StillTables
<1>4. ASSUME NEW r \in reports, Told(r)
      PROVE  DataInv'
  BY <1>3, <1>4 DEF Told
<1>5. CASE UNCHANGED vars
  BY <1>3, <1>5 DEF vars
<1> QED
  BY <1>1, <1>2, <1>4, <1>5, DataDown, DataUp, DataTc, DataGateway DEF Next, Handle_skbuf

LEMMA DataInit == Init => DataInv
<1> SUFFICES ASSUME Init
             PROVE  DataInv
  OBVIOUS
<1>1. /\ load \in Loads /\ sent = {} /\ net = {} /\ out = {}
      /\ tc = initfragmodule /\ gw = [c \in Client |-> initfragmodule]
  BY DEF Init
<1>2. /\ DOMAIN initfragmodule = {"tab", "buf"} /\ DOMAIN initfragmodule.tab = {}
      /\ initfragmodule.buf = NoBuf
  BY DEF initfragmodule
<1>3. \A a \in Places : DOMAIN Tab(a) = {} /\ Buf(a) = NoBuf
  BY <1>1, <1>2 DEF Tab, Buf, Places
<1>4. Shaped(NoBuf) /\ \A mtu : Offers(NoBuf, mtu)
  BY DEF Shaped, NoBuf, Fields, Offers, Clampable
<1>5. DataType
  BY <1>1, <1>2, <1>3 DEF DataType
<1>6. Separate
  BY <1>1 DEF Separate
<1> QED
  BY <1>1, <1>3, <1>4, <1>5, <1>6 DEF DataInv, SmallBuf

LEMMA DataAlways == Spec => []DataInv
BY DataInit, DataStep, PTL DEF Spec

\* None that is all there waits for the timer, for all sizes of datagrams and links,
\* all tunnels and identifications and every order and loss of fragments: when the last
\* fragment has come the packet is put together (updatelength, fragprocess), and a tuple
\* that still has fragments lacks bytes, unless one came twice or datagrams met in it.
THEOREM CompletePacketsAreSent == Spec => []CompleteIsSent
<1>1. ASSUME DataInv
      PROVE  CompleteIsSent
  <2> SUFFICES ASSUME NEW frags \in Waiting, NEW p \in frags, p.of \notin dups \cup mixed
               PROVE  PacketLen({q \in frags : q.of = p.of}) < p.of.len
    BY DEF CompleteIsSent
  <2>1. PICK a \in Places : \E k \in DOMAIN Tab(a) : frags = Tab(a)[k].frags
    BY DEF Waiting, Places
  <2>2. PICK k \in DOMAIN Tab(a) : frags = Tab(a)[k].frags
    BY <2>1
  <2> DEFINE d == p.of
  <2>3. \A q \in frags : Kin(q, a, k)
    BY <1>1, <2>2 DEF DataInv, DataType
  <2>4. d \in sent /\ InFragments(d) /\ Key(d) = k /\ Route(d, a)
    BY <2>3 DEF Kin, Belongs
  <2>5. Live(d) /\ Held(d, a)
    BY <2>2, LiveIs DEF Held
  <2> HIDE DEF d
  <2>6. \A q \in frags : q.of = d
    <3> SUFFICES ASSUME NEW q \in frags, q.of # d
                 PROVE  FALSE
      OBVIOUS
    <3>1. q.of \in sent /\ Alike(d, q.of)
      BY <2>3, <2>4, OneReceiver DEF Kin, Belongs
    <3>2. Live(q.of)
      BY <2>2, LiveIs DEF Held
    <3> QED
      BY <1>1, <2>4, <2>5, <3>1, <3>2 DEF DataInv, Separate, d
  <2>7. PICK r \in Places : InPlace(d, r)
    BY <1>1, <2>4, <2>5 DEF DataInv, Placed, Nowhere, d
  <2>8. Waits(Tab(a)[k], d, a)
    BY <2>2, <2>4, <2>5, <2>7 DEF InPlace
  <2>9. {q \in frags : q.of = p.of} = frags /\ frags # {} /\ d \notin dups
    BY <2>6 DEF d
  <2>10. PacketLen(frags) < d.len
    BY <2>2, <2>8, <2>9 DEF Waits, Alone, Filling
  <2> QED
    BY <2>9, <2>10 DEF d
<1> QED
  BY <1>1, DataAlways, PTL

\* The packets of a datagram that has left the tunnel.
LEMMA WhatLeft ==
  ASSUME DataInv, NEW o \in out, o.of \notin dups \cup mixed, NEW d, d = o.of
  PROVE  /\ IsDatagram(d)
         /\ \E r \in Places : /\ Route(d, r) /\ Delivered(d, r, Of(d))
                              /\ Packets(Of(d), d, IF r = Tc THEN "inet" ELSE "lan", r,
                                         IF r = Tc THEN TcMtu ELSE LanMtu)
<1>1. d \in sent /\ IsDatagram(d) /\ o \in Of(d)
  BY DatagramsAre DEF DataInv, DataType, Of
<1>2. PICK r \in Places : InPlace(d, r)
  BY <1>1 DEF DataInv, Placed, Nowhere
<1>3. Route(d, r) /\ Delivered(d, r, Of(d))
  BY <1>1, <1>2 DEF InPlace
<1>4. CASE r = Tc
  <2>1. Of(d) = ToInternet(d) /\ d.dir = "up"
    BY <1>1, <1>3, <1>4, RouteIs DEF Delivered
  <2>2. Packets(ToInternet(d), d, "inet", Tc, TcMtu)
    BY <1>1, <2>1, InternetIs
  <2> QED
    BY <1>1, <1>3, <1>4, <2>1, <2>2
<1>5. CASE r # Tc
  <2>1. d.dir = "down" /\ \E a : Of(d) = ToHost(d, r, a)
    BY <1>1, <1>3, <1>5, RouteIs DEF Delivered
  <2>2. PICK a : Of(d) = ToHost(d, r, a)
    BY <2>1
  <2> DEFINE S == Of(d)
  <2> HIDE DEF S
  <2>3. S = ToHost(d, r, a)
    BY <2>2 DEF S
  <2>4. Packets(S, d, "lan", r, LanMtu)
    BY <1>1, <2>1, <2>3, HostIs
  <2> QED
    BY <1>1, <1>3, <1>5, <2>4 DEF S
<1> QED
  BY <1>4, <1>5

\* Nothing is larger than the link it is sent on, fragments are cut at multiples of
\* eight, what must not be fragmented leaves in one piece, and no host is offered a
\* segment size that the gateway would have to cut on its way up, but for the hosts a
\* SYN came to in IPv6 fragments: for all links, datagrams, tunnels and sessions
\* (pkt_fraghandle, ipv6_frag_handl, stream_len_check, patch_tcpmss).  Datagrams that
\* met may leave in any size.
THEOREM FramesAlwaysFit == Spec => []FramesFit
<1>1. ASSUME DataInv, NEW f \in net
      PROVE  /\ f.len + HDR6 + (IF f.kind = "frag" THEN HDRF ELSE 0)
                  <= IF f.from = Tc THEN TcMtu ELSE UpMtu
             /\ f.more => f.len % 8 = 0
  <2> DEFINE d == f.of
             r == f.to
  <2>1. /\ IsDatagram(d) /\ f \in Frames(d, r) /\ f.from = Sender(d) /\ Route(d, r)
    BY <1>1, Arriving
  <2> HIDE DEF d, r
  <2>2. /\ f.len + HDR6 + (IF f.kind = "frag" THEN HDRF ELSE 0) <= Link(d)
        /\ f.more => f.len % 8 = 0
    BY <2>1, FramesAre
  <2>3. Link(d) = IF f.from = Tc THEN TcMtu ELSE UpMtu
    BY <2>1, RouteIs DEF Sender, IsDatagram
  <2> QED
    BY <2>2, <2>3
<1>2. ASSUME DataInv, NEW o \in out
      PROVE  /\ o.of \notin mixed => o.len <= IF o.side = "inet" THEN TcMtu ELSE LanMtu
             /\ o.of.df /\ o.of \notin dups \cup mixed => o.off = 0 /\ ~o.more
             /\ o.off = 0 /\ Clampable(o.h) => o.h.mss + MinimalSyn + HDR6 <= OfferedMtu(o)
  <2>1. SmallOut(o)
    BY <1>2 DEF DataInv
  <2>2. ASSUME o.of \notin dups \cup mixed, o.of.df
        PROVE  o.off = 0 /\ ~o.more
    <3> DEFINE d == o.of
    <3>1. o \in Of(d)
      BY DEF Of
    <3>2. PICK r \in Places : /\ Route(d, r)
                              /\ Packets(Of(d), d, IF r = Tc THEN "inet" ELSE "lan", r,
                                         IF r = Tc THEN TcMtu ELSE LanMtu)
      BY <1>2, <2>2, WhatLeft
    <3>3. IPv4LenCheck(d, Link(d))
      BY <3>2 DEF Route
    <3> QED
      BY <2>2, <3>1, <3>2, <3>3 DEF Packets
  <2> QED
    BY <2>1, <2>2 DEF SmallOut, Offers
<1>3. DataInv => FramesFit
  BY <1>1, <1>2 DEF FramesFit
<1> QED
  BY <1>3, DataAlways, PTL

\* A datagram of which no fragment arrived twice, and that met no other with its
\* identification, IPv6 source and receiver, leaves the tunnel with all of its bytes,
\* each in its place, in fragments that fit together, and with a right checksum if it
\* came with one: for every width of a word from three bits on, all sizes, tunnels,
\* sessions and identifications, and every order and loss of fragments (fragprocess,
\* pkt_fraghandle, patch_tcpmss, nathandle).
THEOREM DatagramsLeaveIntact ==
  ASSUME Wide
  PROVE  Spec => []Intact
<1>1. ASSUME DataInv
      PROVE  Intact
  <2> SUFFICES ASSUME NEW e \in out, e.of \notin dups \cup mixed, NEW d, d = e.of
               PROVE  /\ \A o \in Of(d) : o.whole
                      /\ Tiles(d)
                      /\ \A o \in Of(d) : o.off = 0 /\ ChecksumHolds(d.h) /\ ~NoChecksum(d.h)
                           => ChecksumHolds(o.h)
    BY DEF Intact
  <2>1. PICK r \in Places : /\ Route(d, r) /\ Delivered(d, r, Of(d))
                            /\ Packets(Of(d), d, IF r = Tc THEN "inet" ELSE "lan", r,
                                       IF r = Tc THEN TcMtu ELSE LanMtu)
    BY <1>1, WhatLeft
  <2>2. IsDatagram(d)
    BY <1>1, WhatLeft
  <2>3. \A o \in Of(d) : o.whole
    BY <2>1 DEF Packets
  <2>4. Tiles(d)
    <3>1. PICK C, room : /\ FittingCut(C, d.len - HDR4, room)
                         /\ CarryAll(Of(d), C, d.len - HDR4)
      BY <2>1 DEF Packets
    <3> QED
      BY <2>2, <3>1, TilesAre DEF IsDatagram
  <2>5. ASSUME NEW o \in Of(d), o.off = 0, ChecksumHolds(d.h)
        PROVE  ChecksumHolds(o.h)
    <3>0. IsHeader(d.h) /\ (d.h.rest # 0 \/ \A s \in Session : s.oldport # 0 /\ s.newport # 0)
      BY <2>2 DEF IsDatagram
    <3>1. CASE r = Tc
      <4> DEFINE s == UpSession(d)
                 g == Readdressed(patch_tcpmss(d.h, UpMtu), PubIP[d.client], s.newport)
      <4>1. Of(d) = ToInternet(d) /\ d.dir = "up" /\ d.client \in Client
        BY <2>1, <2>2, <3>1, RouteIs DEF Delivered, IsDatagram
      <4>2. s \in SessionFrom(d.client, d.h) /\ s \in Session
        BY <2>1, <4>1 DEF Route, UpSession, SessionFrom
      <4>3. o.h \in {WireHeader(d), patch_tcpmss(WireHeader(d), TcMtu)}
        BY <2>2, <2>5, <4>1, InternetIs
      <4>4. WireHeader(d) = g
        BY <4>1 DEF WireHeader
      <4> HIDE DEF s
      <4>5. ChecksumHolds(g) /\ ChecksumHolds(patch_tcpmss(g, TcMtu))
        BY <2>5, <3>0, <4>1, <4>2, InternetFindsItRight
      <4> QED
        BY <4>3, <4>4, <4>5
    <3>2. CASE r # Tc
      <4>1. d.dir = "down" /\ \E a : Of(d) = ToHost(d, r, a)
        BY <2>1, <2>2, <3>2, RouteIs DEF Delivered
      <4>2. PICK a : Of(d) = ToHost(d, r, a)
        BY <4>1
      <4>3. o.h = HostHeader(d, r).h
        BY <2>2, <2>5, <4>1, <4>2, HostIs
      <4>4. WireHeader(d) = patch_tcpmss(d.h, TcMtu)
        BY <4>1 DEF WireHeader
      <4>5. /\ ChecksumHolds(nathandle(r, patch_tcpmss(patch_tcpmss(d.h, TcMtu), UpMtu)).h)
            /\ ChecksumHolds(nathandle(r, patch_tcpmss(d.h, TcMtu)).h)
        BY <2>5, <3>0, HostFindsItRight
      <4> QED
        BY <4>3, <4>4, <4>5 DEF HostHeader
    <3> QED
      BY <3>1, <3>2
  <2> QED
    BY <2>3, <2>4, <2>5
<1> QED
  BY <1>1, DataAlways, PTL

-----------------------------------------------------------------------------
(***************************************************************************)
(* The right host.  A port lies in one block at most, the one getstartport *)
(* finds; so the gateway that holds the port is the one the datagram is    *)
(* sent to, and its sessions are those the datagram can belong to.         *)
(***************************************************************************)
LEMMA SameQuotient ==
  ASSUME NEW n \in Nat, NEW k \in Nat, NEW w \in Nat \ {0}, k * w <= n, n < k * w + w
  PROVE  n \div w = k
<1> DEFINE r == n - k * w
<1>1. k * w \in Nat
  OBVIOUS
<1>2. r \in 0 .. w - 1 /\ n = k * w + r
  BY <1>1
<1> HIDE DEF r
<1> QED
  BY <1>2, Division

LEMMA BlockIs ==
  ASSUME NEW p \in Nat, p >= START_PORT
  PROVE  /\ getstartport(p) \in Nat /\ p \in getstartport(p) .. getstartport(p) + usPortRange - 1
         /\ \A b \in DOMAIN Lease : p \in b.port .. b.port + usPortRange - 1 => b.port = getstartport(p)
<1> DEFINE n == p - START_PORT
           w == usPortRange
           q == n \div w
<1>0. START_PORT \in Nat /\ w \in Nat \ {0} /\ n \in Nat /\ p = START_PORT + n
  BY BlocksAssumption
<1>1. getstartport(p) = q * w + START_PORT
  BY DEF getstartport
<1>n. n = p - START_PORT
  OBVIOUS
<1> HIDE DEF n, w
<1>2. q \in Nat /\ q * w <= n /\ n < q * w + w
  BY <1>0, Quotient
<1> HIDE DEF q
<1>3. q * w \in Nat
  BY <1>0, <1>2
<1>4. ASSUME NEW b \in DOMAIN Lease, p \in b.port .. b.port + w - 1
      PROVE  b.port = getstartport(p)
  <2> DEFINE m == b.port - START_PORT
             k == m \div w
  <2>1. b.port \in Nat /\ b.port >= START_PORT /\ m % w = 0
    BY BlocksAssumption DEF w
  <2>2. m \in Nat /\ b.port = START_PORT + m
    BY <1>0, <2>1
  <2> HIDE DEF m
  <2>3. k \in Nat /\ m = k * w + (m % w)
    BY <1>0, <2>2, Divided
  <2> HIDE DEF k
  <2>4. k * w \in Nat /\ m = k * w
    BY <1>0, <2>1, <2>2, <2>3
  <2>5. k * w <= n /\ n < k * w + w
    BY <1>0, <1>4, <2>2, <2>4
  <2>6. n \div w = k
    BY <1>0, <2>3, <2>5, SameQuotient
  <2>7. q = k
    BY <2>6 DEF q
  <2> QED
    BY <1>0, <1>1, <2>2, <2>4, <2>7
<1>5. getstartport(p) \in Nat /\ p \in getstartport(p) .. getstartport(p) + w - 1
  BY <1>0, <1>1, <1>2, <1>3
<1> QED
  BY <1>4, <1>5 DEF w

\* Who holds the port a datagram is for: the gateway it is sent to.
HoldersOf(o) == {Lease[b] : b \in {x \in DOMAIN Lease :
                   /\ x.addr = o.addr
                   /\ o.port \in x.port .. x.port + usPortRange - 1}}

LEMMA HoldersAre ==
  ASSUME NEW o, o.port \in Nat, NEW b, b = [addr |-> o.addr, port |-> getstartport(o.port)],
         b \in DOMAIN Lease
  PROVE  IF o.port >= START_PORT THEN HoldersOf(o) = {Lease[b]} ELSE HoldersOf(o) = {}
<1>0. b.addr = o.addr /\ b.port = getstartport(o.port)
  OBVIOUS
<1>1. CASE o.port >= START_PORT
  <2> DEFINE D == {x \in DOMAIN Lease : /\ x.addr = o.addr
                                        /\ o.port \in x.port .. x.port + usPortRange - 1}
  <2>1. b \in D
    BY <1>0, <1>1, BlockIs
  <2>2. ASSUME NEW x \in D
        PROVE  x = b
    <3>1. x.addr = o.addr /\ x.port = getstartport(o.port)
      BY <1>1, BlockIs
    <3>2. x = [addr |-> x.addr, port |-> x.port]
      BY BlocksAssumption
    <3> QED
      BY <3>1, <3>2
  <2>3. HoldersOf(o) = {Lease[x] : x \in D}
    BY DEF HoldersOf
  <2> HIDE DEF D
  <2> QED
    BY <1>1, <2>1, <2>2, <2>3
<1>2. CASE ~(o.port >= START_PORT)
  <2>1. \A x \in DOMAIN Lease : x.port \in Nat /\ x.port >= START_PORT
    BY BlocksAssumption
  <2>2. START_PORT \in Nat
    BY BlocksAssumption
  <2>3. \A x \in DOMAIN Lease : ~(o.port \in x.port .. x.port + usPortRange - 1)
    BY <1>2, <2>1, <2>2
  <2> QED
    BY <1>2, <2>3 DEF HoldersOf
<1> QED
  BY <1>1, <1>2

KnownError(d) ==
  IsOutICMPErrPacket(d.h) /\ ~FilterIcmpErrOuter(d.h) =>
    [addr |-> d.h.addr, port |-> getstartport(d.h.port)] \notin DOMAIN Lease

LEMMA SessionsAre ==
  ASSUME NEW d, IsDatagram(d), d.dir = "down", KnownError(d), NEW r, Route(d, r)
  PROVE  SessionsOf(r, DownKey(d.h)) = SessionsFor(d)
<1> DEFINE h   == d.h
           o   == Own(h)
           key == DownKey(h)
           A   == SessionsOf(r, key)
           B   == SessionsFor(d)
<1>1. PICK at \in FetchIPAndPort(h) : BlockOf(at) \in DOMAIN Lease /\ r = Lease[BlockOf(at)]
  BY DEF Route
<1>2. \A s \in Session : s.proto # "other" /\ s.newport >= START_PORT /\ s.newport \in Nat
  BY WordsAssumption, BlocksAssumption, WordAssumption DEF Words
<1>3. /\ A = {s \in Session : s.client = r /\ s.proto = key.proto /\ s.peer = key.peer
                              /\ s.newport = key.port}
      /\ B = {s \in Session : /\ s.client \in HoldersOf(o)
                              /\ s.proto = key.proto /\ s.proto # "other"
                              /\ s.peer = key.peer /\ s.newport = key.port}
  BY DEF SessionsOf, SessionsFor, Holders, HoldersOf
<1>4. /\ h.proto \in {"tcp", "udp", "icmp", "other"} /\ h.port \in Nat /\ h.quoted.port \in Nat
  BY WordAssumption DEF IsDatagram, IsHeader, Words
<1>5. CASE h.proto = "other"
  <2>1. key.proto = "other"
    BY <1>5 DEF DownKey, IsOutICMPErrPacket
  <2> HIDE DEF A, B, key
  <2>2. A = {} /\ B = {}
    BY <1>2, <1>3, <2>1
  <2> QED
    BY <2>2 DEF A, B, key
<1>6. CASE h.proto # "other"
  <2>1. at = [addr |-> o.addr, port |-> o.port] /\ o.port = key.port /\ o.port \in Nat
    <3>1. CASE FilterIcmpErrOuter(h)
      <4>1. IsOutICMPErrPacket(h)
        BY <3>1 DEF FilterIcmpErrOuter, IsOutICMPErrPacket
      <4>2. FetchIPAndPort(h) = {OuterICMPErr_get(h)}
        BY <1>6, <3>1 DEF FetchIPAndPort
      <4>3. at = [addr |-> h.quoted.addr, port |-> h.quoted.port]
        BY <1>1, <4>2 DEF OuterICMPErr_get
      <4>4. o = h.quoted
        BY <4>1 DEF Own
      <4>5. key = QuotedKey(h)
        BY <4>1 DEF DownKey
      <4>6. key.port = h.quoted.port
        BY <4>5 DEF QuotedKey
      <4> QED
        BY <1>4, <4>3, <4>4, <4>6
    <3>2. CASE ~FilterIcmpErrOuter(h)
      <4>1. at = [addr |-> h.addr, port |-> h.port]
        BY <1>1, <1>6, <3>2 DEF FetchIPAndPort
      <4>2. ~IsOutICMPErrPacket(h)
        BY <1>1, <3>2, <4>1 DEF KnownError, BlockOf
      <4> QED
        BY <1>4, <1>6, <4>1, <4>2 DEF Own, DownKey
    <3> QED
      BY <3>1, <3>2
  <2> HIDE DEF o, key, A, B
  <2> DEFINE b == BlockOf(at)
  <2>2. b = [addr |-> o.addr, port |-> getstartport(o.port)] /\ b \in DOMAIN Lease
    BY <1>1, <2>1 DEF BlockOf
  <2>3. r = Lease[b]
    BY <1>1
  <2> HIDE DEF b
  <2>4. IF o.port >= START_PORT THEN HoldersOf(o) = {Lease[b]} ELSE HoldersOf(o) = {}
    BY <2>1, <2>2, HoldersAre
  <2>5. CASE o.port >= START_PORT
    <3>1. HoldersOf(o) = {r}
      BY <2>3, <2>4, <2>5
    <3>2. A = B
      BY <1>2, <1>3, <3>1
    <3> QED
      BY <3>2 DEF A, B, key
  <2>6. CASE ~(o.port >= START_PORT)
    <3>1. HoldersOf(o) = {}
      BY <2>4, <2>6
    <3>2. A = {} /\ B = {}
      BY <1>2, <1>3, <2>1, <2>6, <3>1
    <3> QED
      BY <3>2 DEF A, B, key
  <2> QED
    BY <2>5, <2>6
<1> QED
  BY <1>5, <1>6

\* Clamping the segment size changes nothing that a session is found by.
LEMMA SameKey ==
  ASSUME NEW h, NEW g, SameBut({"mss", "ck"}, g, h)
  PROVE  /\ DownKey(g) = DownKey(h) /\ g.quoted = h.quoted
         /\ IsOutICMPErrPacket(g) <=> IsOutICMPErrPacket(h)
<1>1. \A x \in {"proto", "port", "peer", "type", "quoted"} : g[x] = h[x]
  BY DEF SameBut, Fields
<1>2. /\ g.proto = h.proto /\ g.port = h.port /\ g.peer = h.peer /\ g.type = h.type
      /\ g.quoted = h.quoted
  BY <1>1
<1> QED
  BY <1>2 DEF DownKey, IsOutICMPErrPacket, QuotedKey

\* The header a gateway translates.
LEMMA TunnelHeader ==
  ASSUME NEW d, IsDatagram(d), d.dir = "down", NEW r, NEW h,
         h = IF InFragments(d) THEN WireHeader(d) ELSE patch_tcpmss(WireHeader(d), UpMtu)
  PROVE  /\ HostHeader(d, r) = nathandle(r, h)
         /\ Shaped(h) /\ Shaped(WireHeader(d)) /\ SameBut({"mss", "ck"}, h, d.h)
<1> DEFINE w == WireHeader(d)
<1>1. w = patch_tcpmss(d.h, TcMtu) /\ TcMtu \in Int /\ UpMtu \in Int
  BY LinksAssumption DEF WireHeader
<1>2. Shaped(d.h)
  BY HeaderShape DEF IsDatagram
<1>3. Shaped(w) /\ SameBut({"mss", "ck"}, w, d.h)
  BY <1>1, <1>2, ClampShape
<1> HIDE DEF w
<1>4. Shaped(patch_tcpmss(w, UpMtu)) /\ SameBut({"mss", "ck"}, patch_tcpmss(w, UpMtu), w)
  BY <1>1, <1>3, ClampShape
<1>5. SameBut({"mss", "ck"}, patch_tcpmss(w, UpMtu), d.h)
  BY <1>3, <1>4 DEF SameBut
<1>6. h = IF InFragments(d) THEN w ELSE patch_tcpmss(w, UpMtu)
  BY DEF w
<1>7. HostHeader(d, r) = nathandle(r, h)
  BY DEF HostHeader
<1> QED
  BY <1>3, <1>4, <1>5, <1>6, <1>7 DEF w

\* What a host gets, in the first piece and in the others.
Reached(d, r, o) ==
  LET s == CHOOSE x \in SessionsFor(d) : TRUE
  IN  /\ r = s.client /\ o.h.addr = s.host
      /\ o.off = 0 => IF IsOutICMPErrPacket(d.h)
                      THEN o.h.quoted.addr = s.host /\ o.h.quoted.port = s.oldport
                      ELSE o.h.port = s.oldport

LEMMA HostReached ==
  ASSUME NEW d, IsDatagram(d), d.dir = "down", KnownError(d),
         NEW r, Route(d, r), NEW a, HostHeader(d, r).ok => a = HostHeader(d, r).h.addr,
         ~InFragments(d) => HostHeader(d, r).ok, NEW S, S = ToHost(d, r, a), NEW o \in S
  PROVE  IF SessionsFor(d) # {} THEN Reached(d, r, o) ELSE InFragments(d)
<1> DEFINE h == IF InFragments(d) THEN WireHeader(d) ELSE patch_tcpmss(WireHeader(d), UpMtu)
           n == nathandle(r, h)
           s == CHOOSE x \in SessionsFor(d) : TRUE
<1>1. /\ HostHeader(d, r) = n
      /\ Shaped(h) /\ Shaped(WireHeader(d)) /\ SameBut({"mss", "ck"}, h, d.h)
  BY TunnelHeader
<1> HIDE DEF h
<1>2. /\ DownKey(h) = DownKey(d.h) /\ h.quoted = d.h.quoted
      /\ IsOutICMPErrPacket(h) <=> IsOutICMPErrPacket(d.h)
  BY <1>1, SameKey
<1>3. SessionsOf(r, DownKey(h)) = SessionsFor(d)
  BY <1>2, SessionsAre
<1>4. /\ n.ok <=> SessionsFor(d) # {}
      /\ n.ok => /\ s \in SessionsOf(r, DownKey(h))
                 /\ IF IsOutICMPErrPacket(h) THEN n.h = Requoted(h, s.host, s.oldport)
                    ELSE n.h = Readdressed(h, s.host, s.oldport)
  BY <1>1, <1>3, Translated
<1>5. o.h = IF o.off = 0 THEN n.h ELSE RestHeader(d, a)
  BY <1>1, HostIs
<1>6. n.ok => a = n.h.addr
  BY <1>1
<1>7. ~InFragments(d) => n.ok
  BY <1>1
<1>8. RestHeader(d, a).addr = a
  <2>1. "addr" \in Fields
    BY DEF Fields
  <2> QED
    BY <1>1, <2>1 DEF RestHeader, Shaped
<1> HIDE DEF n, s
<1>9. CASE SessionsFor(d) # {}
  <2>1. r = s.client
    BY <1>4, <1>9 DEF SessionsOf
  <2>2. /\ n.h.addr = s.host
        /\ IF IsOutICMPErrPacket(d.h)
           THEN n.h.quoted.addr = s.host /\ n.h.quoted.port = s.oldport
           ELSE n.h.port = s.oldport
    <3>1. CASE IsOutICMPErrPacket(d.h)
      <4>1. n.h = Requoted(h, s.host, s.oldport)
        BY <1>2, <1>4, <1>9, <3>1
      <4>2. h.quoted = [x \in {"proto", "addr", "port", "peer"} |-> h.quoted[x]]
        BY <1>2 DEF IsDatagram
      <4>3. n.h.addr = s.host /\ n.h.quoted.addr = s.host /\ n.h.quoted.port = s.oldport
        BY <1>1, <4>1, <4>2, NewQuote
      <4> QED
        BY <3>1, <4>3
    <3>2. CASE ~IsOutICMPErrPacket(d.h)
      <4>1. n.h = Readdressed(h, s.host, s.oldport)
        BY <1>2, <1>4, <1>9, <3>2
      <4>2. n.h.addr = s.host /\ n.h.port = s.oldport
        BY <1>1, <4>1, ReaddressShape
      <4> QED
        BY <3>2, <4>2
    <3> QED
      BY <3>1, <3>2
  <2>3. o.h.addr = s.host
    BY <1>4, <1>5, <1>6, <1>8, <1>9, <2>2
  <2> QED
    BY <1>5, <1>9, <2>1, <2>2, <2>3 DEF Reached, s
<1>10. CASE SessionsFor(d) = {}
  BY <1>4, <1>7, <1>10
<1> QED
  BY <1>9, <1>10

\* A datagram to the Internet, with the header of its sender's tunnel.
LEMMA InternetReached ==
  ASSUME NEW d, IsDatagram(d), d.dir = "up", Route(d, Tc), NEW o \in ToInternet(d)
  PROVE  \E s \in SessionFrom(d.client, d.h) :
           s.client = d.client /\ o.h.addr = PubIP[d.client] /\ o.h.port = s.newport
<1> DEFINE s == UpSession(d)
           g == patch_tcpmss(d.h, UpMtu)
           w == WireHeader(d)
           v == patch_tcpmss(w, TcMtu)
<1>1. TcMtu \in Int /\ UpMtu \in Int
  BY LinksAssumption
<1>2. s \in SessionFrom(d.client, d.h) /\ s.client = d.client
  BY DEF Route, UpSession, SessionFrom
<1>3. w = Readdressed(g, PubIP[d.client], s.newport)
  BY DEF WireHeader
<1>4. Shaped(d.h)
  BY HeaderShape DEF IsDatagram
<1>5. Shaped(g)
  BY <1>1, <1>4, ClampShape
<1>6. o.h \in {w, v}
  BY InternetIs
<1> HIDE DEF s, g, w
<1>7. Shaped(w) /\ w.addr = PubIP[d.client] /\ w.port = s.newport
  BY <1>3, <1>5, ReaddressShape
<1>8. SameBut({"mss", "ck"}, v, w)
  BY <1>1, <1>7, ClampShape
<1> HIDE DEF v
<1>9. v.addr = w.addr /\ v.port = w.port
  <2>1. \A x \in {"addr", "port"} : v[x] = w[x]
    BY <1>8 DEF SameBut, Fields
  <2> QED
    BY <2>1
<1> QED
  BY <1>2, <1>6, <1>7, <1>9

\* A datagram of which no fragment arrived twice, and that met no other with its
\* identification, IPv6 source and receiver, reaches the host whose session it belongs
\* to, in every piece, behind the gateway that holds its port; and one to the Internet
\* has the public address and a port of its sender's tunnel: for all blocks, sessions,
\* datagrams, sizes and identifications, and every order and loss of fragments
\* (FetchIPAndPort_skbuf, getstartport, nathandle, frag_nathandle, stream_up_hook).
THEOREM DatagramsReachTheRightHost ==
  ASSUME ErrorsKnown
  PROVE  Spec => []RightHost
<1>1. ASSUME DataInv, NEW o \in out, o.of \notin dups \cup mixed, NEW d, d = o.of
      PROVE  IF o.side = "lan"
             THEN IF SessionsFor(d) # {} THEN ReachedHost(o) ELSE InFragments(d)
             ELSE o.off = 0 =>
                    \E s \in SessionFrom(d.client, d.h) :
                      /\ o.h.addr = PubIP[s.client] /\ o.h.port = s.newport
                      /\ s.client \in {Lease[b] : b \in DOMAIN Lease}
  <2>1. PICK r \in Places : /\ Route(d, r) /\ Delivered(d, r, Of(d))
                            /\ Packets(Of(d), d, IF r = Tc THEN "inet" ELSE "lan", r,
                                       IF r = Tc THEN TcMtu ELSE LanMtu)
    BY <1>1, WhatLeft
  <2>2. IsDatagram(d)
    BY <1>1, WhatLeft
  <2>3. o \in Of(d) /\ o.side = (IF r = Tc THEN "inet" ELSE "lan") /\ o.at = r
    BY <1>1, <2>1 DEF Of, Packets
  <2>4. CASE r = Tc
    <3>1. Of(d) = ToInternet(d) /\ d.client \in Lessees /\ d.dir = "up"
      BY <2>1, <2>2, <2>4, RouteIs DEF Delivered
    <3>2. \E s \in SessionFrom(d.client, d.h) :
            s.client = d.client /\ o.h.addr = PubIP[d.client] /\ o.h.port = s.newport
      BY <2>1, <2>2, <2>3, <2>4, <3>1, InternetReached
    <3> QED
      BY <2>3, <2>4, <3>1, <3>2 DEF Lessees
  <2>5. CASE r # Tc
    <3>1. d.dir = "down"
      BY <2>1, <2>2, <2>5, RouteIs
    <3>2. d \in load /\ load \in Loads
      BY <1>1 DEF DataInv, DataType
    <3>3. KnownError(d)
      BY <3>1, <3>2 DEF ErrorsKnown, KnownError
    <3>4. /\ ~InFragments(d) => HostHeader(d, r).ok
          /\ \E a : (HostHeader(d, r).ok => a = HostHeader(d, r).h.addr) /\ Of(d) = ToHost(d, r, a)
      BY <2>1, <2>5 DEF Delivered
    <3>5. PICK a : (HostHeader(d, r).ok => a = HostHeader(d, r).h.addr) /\ Of(d) = ToHost(d, r, a)
      BY <3>4
    <3> DEFINE S == Of(d)
    <3>6. o \in S
      BY <2>3
    <3> HIDE DEF S
    <3>7. S = ToHost(d, r, a)
      BY <3>5 DEF S
    <3>8. IF SessionsFor(d) # {} THEN Reached(d, r, o) ELSE InFragments(d)
      BY <2>1, <2>2, <3>1, <3>3, <3>4, <3>5, <3>6, <3>7, HostReached
    <3>9. SessionsFor(d) # {} => ReachedHost(o)
      BY <1>1, <2>3, <3>8 DEF Reached, ReachedHost
    <3> QED
      BY <2>3, <2>5, <3>8, <3>9
  <2> QED
    BY <2>4, <2>5
<1>2. DataInv => RightHost
  BY <1>1 DEF RightHost
<1> QED
  BY <1>2, DataAlways, PTL

=============================================================================
