---------------------------- MODULE DomainProofs ----------------------------
(***************************************************************************)
(* The domain of numbers, for every word width: words by their bits, what  *)
(* each operation on tracked numbers does to the words that they stand for,*)
(* and what check_alu, refine_branch, widening and pruning do to what a    *)
(* scalar register says of its word.                                       *)
(*                                                                         *)
(* Powers of two come from counting subsets (FS_SUBSET), induction from    *)
(* the well-founded order of the naturals.  BothBits is shown to satisfy   *)
(* its own equation, and from there on a word is the set of its bits (On): *)
(* And, Or, Xor, Not, the shifts and the halves are stated in these terms, *)
(* and the tnum lemmas follow bit by bit.  Addition is the exception: its  *)
(* proof follows the carries from bit to bit.                              *)
(*                                                                         *)
(* Of registers: first the steps of refine_bounds one by one (Keeps), then *)
(* refine_branch (KeepsWord), the tracked numbers of results, and widening.*)
(***************************************************************************)
EXTENDS Alu, Branch, Semantics, FiniteSetTheorems, FunctionTheorems, WellFoundedInduction, TLAPS

(* A set that has zero and with each number the next has every number. *)
LEMMA FromZeroOn ==
  ASSUME NEW S, 0 \in S, \A k \in Nat : k \in S => k + 1 \in S
  PROVE  \A k \in Nat : k \in S
<1>. DEFINE T == Nat \ S
           R == OpToRel(<, Nat)
<1>. SUFFICES ASSUME T # {} PROVE FALSE
  OBVIOUS
<1>1. IsWellFoundedOn(R, Nat)
  BY NatLessThanWellFounded
<1>2. \A x, y \in Nat : x < y => <<x, y>> \in R
  BY DEF OpToRel
<1>3. T \subseteq Nat
  OBVIOUS
<1>. HIDE DEF R, T
<1>4. PICK x \in T : \A y \in T : ~(<<y, x>> \in R)
  BY <1>1, <1>3, WFMin
<1>5. x \in Nat /\ x \notin S /\ x # 0
  BY DEF T
<1>6. x - 1 \in Nat /\ x - 1 < x
  BY <1>5
<1>7. x - 1 \notin T
  BY <1>2, <1>4, <1>5, <1>6
<1>8. x - 1 \in S
  BY <1>6, <1>7 DEF T
<1>. QED BY <1>5, <1>6, <1>8

-----------------------------------------------------------------------------
(* Powers of two. *)
LEMMA PowerNat == \A n \in Nat : 2^n \in Nat
<1>. SUFFICES ASSUME NEW n \in Nat PROVE 2^n \in Nat
  OBVIOUS
<1>1. IsFiniteSet(1 .. n) /\ Cardinality(1 .. n) = n
  BY FS_Interval
<1>2. IsFiniteSet(SUBSET (1 .. n)) /\ Cardinality(SUBSET (1 .. n)) = 2^n
  BY <1>1, FS_SUBSET
<1>. QED BY <1>2, FS_CardinalityType

(* The subsets of 1 .. n + 1 are those of 1 .. n, and those with n + 1     *)
(* added.                                                                  *)
LEMMA PowerNext == \A n \in Nat : 2^(n + 1) = 2 * 2^n
<1>. SUFFICES ASSUME NEW n \in Nat PROVE 2^(n + 1) = 2 * 2^n
  OBVIOUS
<1>. DEFINE A == SUBSET (1 .. n)
            B == {T \in SUBSET (1 .. n + 1) : n + 1 \in T}
            f == [T \in A |-> T \cup {n + 1}]
<1>1. IsFiniteSet(1 .. n) /\ Cardinality(1 .. n) = n /\ IsFiniteSet(1 .. n + 1) /\ Cardinality(1 .. n + 1) = n + 1
  BY FS_Interval
<1>2. IsFiniteSet(A) /\ Cardinality(A) = 2^n
  BY <1>1, FS_SUBSET
<1>3. Cardinality(SUBSET (1 .. n + 1)) = 2^(n + 1)
  BY <1>1, FS_SUBSET
<1>4. f \in Bijection(A, B)
  <2>1. f \in [A -> B]
    OBVIOUS
  <2>2. ASSUME NEW x \in A, NEW y \in A, f[x] = f[y] PROVE x = y
    <3>1. n + 1 \notin x /\ n + 1 \notin y
      OBVIOUS
    <3>. QED BY <2>2, <3>1
  <2>3. ASSUME NEW y \in B PROVE \E x \in A : f[x] = y
    <3>1. y \ {n + 1} \in A /\ f[y \ {n + 1}] = y
      OBVIOUS
    <3>. QED BY <3>1
  <2>. QED BY <2>1, <2>2, <2>3 DEF Bijection, Injection, Surjection, IsInjective
<1>5. IsFiniteSet(B) /\ Cardinality(B) = 2^n
  BY <1>2, <1>4, FS_Bijection DEF ExistsBijection
<1>6. A \cup B = SUBSET (1 .. n + 1)
  <2>1. ASSUME NEW T \in SUBSET (1 .. n + 1), n + 1 \notin T PROVE T \in A
    BY <2>1
  <2>. QED BY <2>1
<1>7. A \cap B = {}
  OBVIOUS
<1>8. Cardinality(A \cup B) = Cardinality(A) + Cardinality(B) - Cardinality(A \cap B)
  BY <1>2, <1>5, FS_Union
<1>9. Cardinality({}) = 0 /\ 2^n \in Nat
  BY FS_EmptySet, PowerNat
<1>. HIDE DEF A, B, f
<1>10. 2^(n + 1) = 2^n + 2^n - 0
  BY <1>2, <1>3, <1>5, <1>6, <1>7, <1>8, <1>9, Zenon
<1>. QED BY <1>9, <1>10

(* No power of two is zero. *)
LEMMA PowerPositive == \A n \in Nat : 2^n \in Nat \ {0}
<1>. DEFINE S == {n \in Nat : 2^n # 0}
<1>1. 0 \in S
  OBVIOUS
<1>2. ASSUME NEW n \in Nat, n \in S PROVE n + 1 \in S
  <2>1. 2^n \in Nat /\ 2^n # 0 /\ 2^(n + 1) = 2 * 2^n
    BY <1>2, PowerNat, PowerNext
  <2>. QED BY <2>1
<1>3. \A n \in Nat : n \in S
  <2>. HIDE DEF S
  <2>. QED BY <1>1, <1>2, FromZeroOn
<1>. QED BY <1>3, PowerNat

(* Exponents add up. *)
LEMMA PowerSum == \A a, b \in Nat : 2^(a + b) = 2^a * 2^b
<1>. SUFFICES ASSUME NEW a \in Nat PROVE \A b \in Nat : 2^(a + b) = 2^a * 2^b
  OBVIOUS
<1>. DEFINE S == {b \in Nat : 2^(a + b) = 2^a * 2^b}
<1>1. 0 \in S
  BY PowerNat
<1>2. ASSUME NEW n \in Nat, n \in S PROVE n + 1 \in S
  <2>1. 2^(a + n) = 2^a * 2^n /\ 2^n \in Nat /\ 2^a \in Nat
    BY <1>2, PowerNat
  <2>2. 2^(n + 1) = 2 * 2^n /\ 2^((a + n) + 1) = 2 * 2^(a + n) /\ a + n \in Nat
    BY PowerNext
  <2>3. 2^(a + (n + 1)) = 2^a * (2 * 2^n)
    BY <2>1, <2>2
  <2>. QED BY <2>2, <2>3
<1>3. \A n \in Nat : n \in S
  <2>. HIDE DEF S
  <2>. QED BY <1>1, <1>2, FromZeroOn
<1>. QED BY <1>3

-----------------------------------------------------------------------------
(* Division. *)
LEMMA Division ==
  \A a \in Int, m \in Nat \ {0} :
    a \div m \in Int /\ a % m \in 0 .. m - 1 /\ a = m * (a \div m) + (a % m)
OBVIOUS

(* There is one quotient and one remainder. *)
LEMMA DivisionUnique ==
  ASSUME NEW a \in Int, NEW m \in Nat \ {0}, NEW q \in Int, NEW r \in 0 .. m - 1, a = m * q + r
  PROVE  a \div m = q /\ a % m = r
<1>. DEFINE d == a \div m
            e == a % m
<1>1. d \in Int /\ e \in 0 .. m - 1 /\ a = m * d + e
  BY Division
<1>. HIDE DEF d, e
<1>2. m * (q - d) = e - r
  BY <1>1
<1>3. q - d >= 1 => m * (q - d) >= m
  BY <1>1
<1>4. d - q >= 1 => m * (d - q) >= m
  BY <1>1
<1>5. m * (d - q) = r - e
  BY <1>1
<1>6. q = d
  BY <1>1, <1>2, <1>3, <1>4, <1>5
<1>7. r = e
  BY <1>1, <1>6
<1>. QED BY <1>6, <1>7 DEF d, e
(* To divide by m and then by n is to divide by m * n. *)
LEMMA DivisionTwice ==
  ASSUME NEW a \in Int, NEW m \in Nat \ {0}, NEW n \in Nat \ {0}
  PROVE  /\ m * n \in Nat \ {0}
         /\ (a \div m) \div n = a \div (m * n)
         /\ a % (m * n) = (a % m) + m * ((a \div m) % n)
<1>. DEFINE q == a \div m
            r == a % m
            h == q \div n
            b == q % n
<1>1. q \in Int /\ r \in 0 .. m - 1 /\ a = m * q + r
  BY Division
<1>2. h \in Int /\ b \in 0 .. n - 1 /\ q = n * h + b
  BY <1>1, Division
<1>. HIDE DEF q, r, h, b
<1>3. m * n \in Nat \ {0}
  <2>1. m * n >= m * 1
    OBVIOUS
  <2>. QED BY <2>1
<1>4. a = (m * n) * h + (r + m * b)
  BY <1>1, <1>2
<1>5. r + m * b \in 0 .. m * n - 1
  <2>1. m * b \in Nat /\ m * b <= m * (n - 1)
    BY <1>2
  <2>2. m * (n - 1) = m * n - m
    OBVIOUS
  <2>. QED BY <1>1, <1>3, <2>1, <2>2
<1>6. a \div (m * n) = h /\ a % (m * n) = r + m * b
  BY <1>2, <1>3, <1>4, <1>5, DivisionUnique
<1>. QED BY <1>3, <1>6 DEF q, r, h, b

-----------------------------------------------------------------------------
(* Bits. *)
LEMMA BitType == \A w \in Int, k \in Nat : Bit(w, k) \in {0, 1}
<1>. SUFFICES ASSUME NEW w \in Int, NEW k \in Nat PROVE Bit(w, k) \in {0, 1}
  OBVIOUS
<1>1. w \div 2^k \in Int
  BY PowerPositive, Division
<1>. QED BY <1>1 DEF Bit

(* The rest by the next power has one more bit. *)
LEMMA NextBit ==
  ASSUME NEW w \in Int, NEW k \in Nat
  PROVE  w % 2^(k + 1) = (w % 2^k) + 2^k * Bit(w, k)
<1>. DEFINE p == 2^k
<1>1. p \in Nat \ {0} /\ 2^(k + 1) = p * 2 /\ 2 \in Nat \ {0}
  BY PowerPositive, PowerNext
<1>2. w % (p * 2) = (w % p) + p * ((w \div p) % 2)
  <2>. HIDE DEF p
  <2>. QED BY <1>1, DivisionTwice
<1>. QED BY <1>1, <1>2 DEF Bit

(* A quotient by a power of two has the bits from there on. *)
LEMMA BitOfQuotient ==
  ASSUME NEW w \in Int, NEW n \in Nat, NEW k \in Nat
  PROVE  Bit(w \div 2^n, k) = Bit(w, n + k)
<1>1. 2^n \in Nat \ {0} /\ 2^k \in Nat \ {0} /\ 2^(n + k) = 2^n * 2^k
  BY PowerPositive, PowerSum
<1>2. (w \div 2^n) \div 2^k = w \div (2^n * 2^k)
  BY <1>1, DivisionTwice
<1>. QED BY <1>1, <1>2 DEF Bit

(* Half a number has its bits but the first. *)
LEMMA BitOfHalf ==
  ASSUME NEW w \in Int, NEW k \in Nat
  PROVE  Bit(w \div 2, k) = Bit(w, k + 1)
<1>1. 2^1 = 2 /\ 1 + k = k + 1 /\ 1 \in Nat
  OBVIOUS
<1>2. Bit(w \div 2^1, k) = Bit(w, 1 + k)
  BY <1>1, BitOfQuotient
<1>. QED BY <1>1, <1>2

(* The first bit is the number's parity. *)
LEMMA BitZero == \A w \in Int : Bit(w, 0) = w % 2
<1>1. 2^0 = 1 /\ \A w \in Int : w \div 1 = w
  OBVIOUS
<1>. QED BY <1>1 DEF Bit

(* The first n bits. *)
LEMMA BitOfRest ==
  ASSUME NEW w \in Int, NEW n \in Nat, NEW k \in Nat
  PROVE  Bit(w % 2^n, k) = IF k < n THEN Bit(w, k) ELSE 0
<1>. DEFINE r == w % 2^n
            q == w \div 2^n
<1>1. 2^n \in Nat \ {0} /\ q \in Int /\ r \in 0 .. 2^n - 1 /\ w = 2^n * q + r
  BY PowerPositive, Division
<1>2. 2^k \in Nat \ {0}
  BY PowerPositive
<1>. HIDE DEF r, q
<1>3. CASE k < n
  <2>1. n - k - 1 \in Nat /\ 2^n = 2^k * 2^(n - k) /\ 2^(n - k) = 2 * 2^(n - k - 1)
    BY <1>3, PowerSum, PowerNext
  <2>. DEFINE p == 2^(n - k - 1)
              d == r \div 2^k
              e == r % 2^k
  <2>2. p \in Nat \ {0} /\ d \in Int /\ e \in 0 .. 2^k - 1 /\ r = 2^k * d + e
    <3>1. p \in Nat \ {0}
      BY <2>1, PowerPositive
    <3>2. r \in Int
      BY <1>1
    <3>. QED BY <1>2, <3>1, <3>2, Division
  <2>. HIDE DEF p, d, e
  <2>3. w = 2^k * (2 * (p * q) + d) + e
    <3>1. 2^n * q = 2^k * (2 * (p * q))
      BY <1>1, <1>2, <2>1, <2>2 DEF p
    <3>. QED BY <1>1, <1>2, <2>2, <3>1
  <2>4. w \div 2^k = 2 * (p * q) + d
    <3>1. 2 * (p * q) + d \in Int /\ w \in Int
      BY <1>1, <2>2
    <3>. QED BY <1>2, <2>2, <2>3, <3>1, DivisionUnique
  <2>5. \A x \in Int : (2 * x + d) % 2 = d % 2
    BY <2>2
  <2>6. p * q \in Int
    BY <1>1, <2>2
  <2>. QED BY <1>3, <2>4, <2>5, <2>6 DEF Bit, d, r
<1>4. CASE k >= n
  <2>1. 2^k >= 2^n
    <3>1. 2^k = 2^n * 2^(k - n) /\ 2^(k - n) \in Nat \ {0}
      <4>1. k - n \in Nat /\ n + (k - n) = k
        BY <1>4
      <4>. QED BY <4>1, PowerSum, PowerPositive
    <3>2. 2^n * 2^(k - n) >= 2^n * 1
      BY <1>1, <3>1
    <3>. QED BY <1>1, <3>1, <3>2
  <2>2. r \div 2^k = 0
    <3>1. r \in 0 .. 2^k - 1 /\ r = 2^k * 0 + r
      BY <1>1, <1>2, <2>1
    <3>. QED BY <1>2, <3>1, DivisionUnique
  <2>3. Bit(r, k) = 0
    BY <2>2 DEF Bit
  <2>. QED BY <1>4, <2>3 DEF r
<1>. QED BY <1>3, <1>4

(* A word whose bits are all below those of another is below it. *)
LEMMA BitsBelow ==
  ASSUME NEW v \in Int, NEW w \in Int, NEW n \in Nat, \A k \in 0 .. n - 1 : Bit(v, k) <= Bit(w, k)
  PROVE  v % 2^n <= w % 2^n
<1>. DEFINE S == {k \in Nat : k <= n => v % 2^k <= w % 2^k}
<1>1. 0 \in S
  <2>1. 2^0 = 1 /\ v % 1 = 0 /\ w % 1 = 0
    OBVIOUS
  <2>. QED BY <2>1
<1>2. ASSUME NEW k \in Nat, k \in S PROVE k + 1 \in S
  <2>. SUFFICES ASSUME k < n PROVE v % 2^(k + 1) <= w % 2^(k + 1)
    OBVIOUS
  <2>. DEFINE p == 2^k
  <2>1. v % 2^(k + 1) = (v % p) + p * Bit(v, k) /\ w % 2^(k + 1) = (w % p) + p * Bit(w, k)
    BY NextBit
  <2>2. v % p <= w % p /\ v % p \in Int /\ w % p \in Int /\ p \in Nat
    BY <1>2, PowerPositive, Division
  <2>3. Bit(v, k) <= Bit(w, k) /\ Bit(v, k) \in {0, 1} /\ Bit(w, k) \in {0, 1}
    BY BitType
  <2>. HIDE DEF p
  <2>. QED BY <2>1, <2>2, <2>3
<1>3. \A k \in Nat : k \in S
  <2>. HIDE DEF S
  <2>. QED BY <1>1, <1>2, FromZeroOn
<1>. QED BY <1>3

(* Numbers with the same first n bits have the same rest. *)
LEMMA SameBits ==
  ASSUME NEW v \in Int, NEW w \in Int, NEW n \in Nat, \A k \in 0 .. n - 1 : Bit(v, k) = Bit(w, k)
  PROVE  v % 2^n = w % 2^n
<1>1. \A k \in 0 .. n - 1 : Bit(v, k) <= Bit(w, k) /\ Bit(w, k) <= Bit(v, k)
  BY BitType
<1>2. v % 2^n <= w % 2^n /\ w % 2^n <= v % 2^n
  BY <1>1, BitsBelow
<1>3. v % 2^n \in Int /\ w % 2^n \in Int
  BY PowerPositive, Division
<1>. QED BY <1>2, <1>3

-----------------------------------------------------------------------------
(* Words. *)
LEMMA WordFacts ==
  /\ WordBits \in Nat /\ HalfBits \in Nat \ {0} /\ HalfBits < WordBits
  /\ 2^WordBits \in Nat \ {0} /\ 2^HalfBits \in Nat \ {0}
  /\ Word = {w \in Int : 0 <= w /\ w < 2^WordBits}
  /\ MaxWord = 2^WordBits - 1 /\ MaxWord \in Word /\ 0 \in Word
BY WidthAssumption, PowerPositive DEF Word, MaxWord

(* A word is its own rest. *)
LEMMA WordRest == \A w \in Word : w \in Int /\ w % 2^WordBits = w
<1>. SUFFICES ASSUME NEW w \in Word PROVE w \in Int /\ w % 2^WordBits = w
  OBVIOUS
<1>. DEFINE p == 2^WordBits
<1>1. w \in Int /\ 0 <= w /\ w < p /\ p \in Nat \ {0}
  BY WordFacts
<1>2. w = p * 0 + w /\ w \in 0 .. p - 1
  <2>. HIDE DEF p
  <2>. QED BY <1>1
<1>. HIDE DEF p
<1>3. w % p = w
  BY <1>1, <1>2, DivisionUnique
<1>. QED BY <1>1, <1>3 DEF p

(* Wrapping makes a word of any number. *)
LEMMA WrapIsWord == \A n \in Int : Wrap(n) \in Word
BY WordFacts, Division DEF Wrap

(* A word has no bits beyond its width, and is known by its bits. *)
LEMMA BitBeyond == \A w \in Word, k \in Nat : k >= WordBits => Bit(w, k) = 0
<1>. SUFFICES ASSUME NEW w \in Word, NEW k \in Nat, k >= WordBits PROVE Bit(w, k) = 0
  OBVIOUS
<1>1. w \in Int /\ w % 2^WordBits = w /\ WordBits \in Nat
  BY WordRest, WordFacts
<1>2. Bit(w % 2^WordBits, k) = 0
  BY <1>1, BitOfRest
<1>. QED BY <1>1, <1>2

(* Words are compared bit by bit. *)
LEMMA WordsByBits ==
  ASSUME NEW v \in Word, NEW w \in Word
  PROVE  /\ (\A k \in BitPos : Bit(v, k) = Bit(w, k)) => v = w
         /\ (\A k \in BitPos : Bit(v, k) <= Bit(w, k)) => v <= w
<1>1. v \in Int /\ w \in Int /\ v % 2^WordBits = v /\ w % 2^WordBits = w /\ WordBits \in Nat
  BY WordRest, WordFacts
<1>. QED BY <1>1, SameBits, BitsBelow DEF BitPos

(* Wrapping keeps the bits of a word. *)
LEMMA BitOfWrap == \A n \in Int, k \in BitPos : Bit(Wrap(n), k) = Bit(n, k)
BY WordFacts, BitOfRest DEF Wrap, BitPos

(* The low half has the low bits. *)
LEMMA BitOfLow ==
  \A w \in Int, k \in BitPos : Bit(Low(w), k) = IF k < HalfBits THEN Bit(w, k) ELSE 0
<1>1. ASSUME NEW w \in Int, NEW k \in BitPos PROVE Bit(w % 2^HalfBits, k) = IF k < HalfBits THEN Bit(w, k) ELSE 0
  <2>1. HalfBits \in Nat /\ k \in Nat
    BY WordFacts DEF BitPos
  <2>. QED BY <2>1, BitOfRest
<1>. QED BY <1>1 DEF Low

-----------------------------------------------------------------------------
(* Bitwise and. *)
HalfOf(p) == <<p[1] \div 2, p[2] \div 2>>
(* The bits of a pair from a function on pairs of halves. *)
BitsFrom(f, p) ==
  IF p[1] = 0 \/ p[2] = 0 THEN 0 ELSE (p[1] % 2) * (p[2] % 2) + 2 * f[HalfOf(p)]

(* f satisfies the equation of BothBits up to n. *)
IsBothBits(f, n) ==
  /\ f \in [(0 .. n) \X (0 .. n) -> Nat]
  /\ \A p \in (0 .. n) \X (0 .. n) : f[p] = BitsFrom(f, p)

(* Halving stays below a bound. *)
LEMMA HalvesStay ==
  ASSUME NEW n \in Nat, NEW p \in (0 .. n) \X (0 .. n)
  PROVE  /\ HalfOf(p) \in (0 .. n) \X (0 .. n)
         /\ p[1] \in 0 .. n /\ p[2] \in 0 .. n
         /\ HalfOf(p)[1] = p[1] \div 2 /\ HalfOf(p)[2] = p[2] \div 2
BY DEF HalfOf

(* There is a function on pairs with the equation of BothBits: the         *)
(* recursion goes down.                                                    *)
LEMMA BothBitsExist ==
  ASSUME NEW n \in Nat
  PROVE  \E f : IsBothBits(f, n)
<1>. DEFINE S == {m \in Nat : \E f : IsBothBits(f, m)}
<1>1. 0 \in S
  <2>. DEFINE f == [p \in (0 .. 0) \X (0 .. 0) |-> 0]
  <2>1. f \in [(0 .. 0) \X (0 .. 0) -> Nat]
    OBVIOUS
  <2>2. \A p \in (0 .. 0) \X (0 .. 0) : f[p] = 0 /\ p[1] = 0
    OBVIOUS
  <2>. HIDE DEF f
  <2>3. IsBothBits(f, 0)
    BY <2>1, <2>2 DEF IsBothBits, BitsFrom
  <2>. QED BY <2>3
<1>2. ASSUME NEW m \in Nat, m \in S PROVE m + 1 \in S
  <2>1. PICK f : IsBothBits(f, m)
    BY <1>2
  <2>. DEFINE N == (0 .. m) \X (0 .. m)
              M == (0 .. m + 1) \X (0 .. m + 1)
              g == [p \in M |-> IF p \in N THEN f[p] ELSE BitsFrom(f, p)]
  <2>2. f \in [N -> Nat] /\ \A p \in N : f[p] = BitsFrom(f, p)
    BY <2>1 DEF IsBothBits
  <2>3. ASSUME NEW p \in M, p[1] # 0, p[2] # 0
        PROVE  HalfOf(p) \in N /\ HalfOf(p) \in M
    <3>1. p[1] \in 1 .. m + 1 /\ p[2] \in 1 .. m + 1
      BY <2>3
    <3>2. p[1] \div 2 \in 0 .. m /\ p[2] \div 2 \in 0 .. m
      BY <3>1
    <3>. QED BY <3>2 DEF HalfOf
  <2>4. \A p \in M : p[1] \in Nat /\ p[2] \in Nat /\ p[1] % 2 \in {0, 1} /\ p[2] % 2 \in {0, 1}
    OBVIOUS
  <2>5. \A p \in M : BitsFrom(f, p) \in Nat
    BY <2>2, <2>3, <2>4 DEF BitsFrom
  <2>6. g \in [M -> Nat]
    BY <2>2, <2>5
  <2>7. ASSUME NEW p \in M PROVE g[p] = BitsFrom(f, p)
    BY <2>2
  <2>8. ASSUME NEW p \in M PROVE BitsFrom(f, p) = BitsFrom(g, p)
    <3>1. CASE p[1] = 0 \/ p[2] = 0
      BY <3>1 DEF BitsFrom
    <3>2. CASE p[1] # 0 /\ p[2] # 0
      <4>1. g[HalfOf(p)] = f[HalfOf(p)]
        BY <2>3, <3>2
      <4>. HIDE DEF g
      <4>. QED BY <4>1 DEF BitsFrom
    <3>. QED BY <3>1, <3>2
  <2>. HIDE DEF g
  <2>9. IsBothBits(g, m + 1)
    BY <2>6, <2>7, <2>8 DEF IsBothBits
  <2>. QED BY <2>9
<1>3. \A m \in Nat : m \in S
  <2>. HIDE DEF S
  <2>. QED BY <1>1, <1>2, FromZeroOn
<1>. QED BY <1>3

(* So BothBits of Word satisfies its own equation. *)
LEMMA BothBitsIs == IsBothBits(BothBits, MaxWord)
<1>1. MaxWord \in Nat /\ Word = 0 .. MaxWord
  BY WordFacts DEF Word, MaxWord
<1>2. PICK f : IsBothBits(f, MaxWord)
  BY <1>1, BothBitsExist
<1>3. f = [p \in Word \X Word |-> BitsFrom(f, p)]
  BY <1>1, <1>2 DEF IsBothBits
<1>4. f = [p \in Word \X Word |->
             IF p[1] = 0 \/ p[2] = 0 THEN 0
             ELSE (p[1] % 2) * (p[2] % 2) + 2 * f[<<p[1] \div 2, p[2] \div 2>>]]
  BY <1>3 DEF BitsFrom, HalfOf
<1>5. BothBits = [p \in Word \X Word |->
             IF p[1] = 0 \/ p[2] = 0 THEN 0
             ELSE (p[1] % 2) * (p[2] % 2) + 2 * BothBits[<<p[1] \div 2, p[2] \div 2>>]]
  BY <1>4 DEF BothBits
<1>. DEFINE B == BothBits
<1>6. \A p \in Word \X Word : B[p] = BitsFrom(B, p)
  BY <1>5 DEF BitsFrom, HalfOf
<1>7. B = [p \in Word \X Word |-> B[p]]
  BY <1>5, Zenon
<1>8. f \in [Word \X Word -> Nat] /\ \A p \in Word \X Word : f[p] = BitsFrom(f, p)
  BY <1>1, <1>2 DEF IsBothBits
<1>. HIDE DEF B
<1>. DEFINE S == {m \in Nat : \A p \in Word \X Word : p[1] <= m => B[p] = f[p]}
<1>9. 0 \in S
  <2>1. ASSUME NEW p \in Word \X Word, p[1] <= 0 PROVE p[1] = 0
    BY <1>1, <2>1
  <2>2. ASSUME NEW p \in Word \X Word, p[1] = 0 PROVE B[p] = 0 /\ f[p] = 0
    BY <1>6, <1>8, <2>2 DEF BitsFrom
  <2>. QED BY <2>1, <2>2
<1>10. ASSUME NEW m \in Nat, m \in S PROVE m + 1 \in S
  <2>1. ASSUME NEW p \in Word \X Word, p[1] <= m + 1, p[1] # 0 PROVE B[p] = f[p]
    <3>1. HalfOf(p) \in Word \X Word /\ HalfOf(p)[1] <= m
      <4>1. HalfOf(p) \in Word \X Word /\ HalfOf(p)[1] = p[1] \div 2 /\ p[1] \in 0 .. MaxWord
        BY <1>1, HalvesStay
      <4>. QED BY <1>1, <2>1, <4>1
    <3>2. B[HalfOf(p)] = f[HalfOf(p)]
      BY <1>10, <3>1
    <3>. QED BY <1>6, <1>8, <3>2 DEF BitsFrom
  <2>2. ASSUME NEW p \in Word \X Word, p[1] = 0 PROVE B[p] = f[p]
    BY <1>6, <1>8, <2>2 DEF BitsFrom
  <2>. QED BY <2>1, <2>2
<1>11. \A m \in Nat : m \in S
  <2>. HIDE DEF S
  <2>. QED BY <1>9, <1>10, FromZeroOn
<1>12. \A p \in Word \X Word : B[p] = f[p]
  <2>1. \A p \in Word \X Word : p[1] \in Nat
    BY <1>1
  <2>. QED BY <1>11, <2>1
<1>13. B = f
  BY <1>7, <1>8, <1>12
<1>. QED BY <1>2, <1>13 DEF B

(* One step of And. *)
LEMMA AndIs ==
  ASSUME NEW a \in Word, NEW b \in Word
  PROVE  /\ And(a, b) \in Nat
         /\ a \div 2 \in Word /\ b \div 2 \in Word
         /\ And(a, b) = (a % 2) * (b % 2) + 2 * And(a \div 2, b \div 2)
         /\ And(0, b) = 0
<1>1. MaxWord \in Nat /\ Word = 0 .. MaxWord
  BY WordFacts DEF Word, MaxWord
<1>2. \A p \in Word \X Word : BothBits[p] \in Nat /\ BothBits[p] = BitsFrom(BothBits, p)
  BY <1>1, BothBitsIs DEF IsBothBits
<1>3. a \div 2 \in Word /\ b \div 2 \in Word
  BY <1>1
<1>4. ASSUME NEW x \in Word, NEW y \in Word
      PROVE  /\ And(x, y) \in Nat
             /\ And(x, y) = IF x = 0 \/ y = 0 THEN 0 ELSE (x % 2) * (y % 2) + 2 * And(x \div 2, y \div 2)
  <2>1. <<x, y>> \in Word \X Word
    OBVIOUS
  <2>. QED BY <1>2, <2>1 DEF And, BitsFrom, HalfOf
<1>5. 0 \in Word /\ 0 \div 2 = 0 /\ 0 % 2 = 0
  BY WordFacts
<1>6. \A y \in Word : And(0, y) = 0 /\ And(y, 0) = 0
  BY <1>4, <1>5
<1>7. CASE a = 0 \/ b = 0
  <2>1. a % 2 \in {0, 1} /\ b % 2 \in {0, 1}
    BY <1>1
  <2>2. (a % 2) * (b % 2) = 0 /\ And(a, b) = 0 /\ And(a \div 2, b \div 2) = 0
    BY <1>3, <1>5, <1>6, <1>7, <2>1
  <2>. QED BY <1>3, <1>6, <2>2
<1>8. CASE a # 0 /\ b # 0
  BY <1>3, <1>4, <1>6, <1>8
<1>. QED BY <1>7, <1>8

(* And is the product of the bits. *)
LEMMA BitOfAnd ==
  ASSUME NEW a \in Word, NEW b \in Word
  PROVE  /\ And(a, b) \in Word /\ And(a, b) <= a /\ And(a, b) <= b
         /\ \A k \in Nat : Bit(And(a, b), k) = Bit(a, k) * Bit(b, k)
<1>1. MaxWord \in Nat /\ Word = 0 .. MaxWord
  BY WordFacts DEF Word, MaxWord
<1>2. ASSUME NEW x \in Word, NEW y \in Word
      PROVE  /\ And(x, y) % 2 = (x % 2) * (y % 2)
             /\ And(x, y) \div 2 = And(x \div 2, y \div 2)
             /\ And(x, y) \in Nat
  <2>1. /\ And(x, y) \in Nat /\ And(x \div 2, y \div 2) \in Nat
        /\ And(x, y) = (x % 2) * (y % 2) + 2 * And(x \div 2, y \div 2)
    BY AndIs
  <2>2. x % 2 \in {0, 1} /\ y % 2 \in {0, 1}
    BY <1>1
  <2>3. (x % 2) * (y % 2) \in {0, 1}
    BY <2>2
  <2>. QED BY <2>1, <2>3
<1>. DEFINE S == {k \in Nat : \A x, y \in Word : Bit(And(x, y), k) = Bit(x, k) * Bit(y, k)}
<1>3. 0 \in S
  <2>. SUFFICES ASSUME NEW x \in Word, NEW y \in Word
                PROVE  Bit(And(x, y), 0) = Bit(x, 0) * Bit(y, 0)
    OBVIOUS
  <2>1. x \in Int /\ y \in Int /\ And(x, y) \in Int
    BY <1>1, <1>2
  <2>2. Bit(x, 0) = x % 2 /\ Bit(y, 0) = y % 2 /\ Bit(And(x, y), 0) = And(x, y) % 2
    BY <2>1, BitZero
  <2>. QED BY <1>2, <2>2
<1>4. ASSUME NEW k \in Nat, k \in S PROVE k + 1 \in S
  <2>. SUFFICES ASSUME NEW x \in Word, NEW y \in Word
                PROVE  Bit(And(x, y), k + 1) = Bit(x, k + 1) * Bit(y, k + 1)
    OBVIOUS
  <2>1. x \div 2 \in Word /\ y \div 2 \in Word /\ x \in Int /\ y \in Int /\ And(x, y) \in Int
    <3>1. x \in Int /\ y \in Int
      BY <1>1
    <3>. QED BY <1>2, <3>1, AndIs
  <2>2. Bit(And(x, y), k + 1) = Bit(And(x, y) \div 2, k)
    BY <2>1, BitOfHalf
  <2>3. Bit(x, k + 1) = Bit(x \div 2, k) /\ Bit(y, k + 1) = Bit(y \div 2, k)
    BY <2>1, BitOfHalf
  <2>. QED BY <1>2, <1>4, <2>1, <2>2, <2>3
<1>5. \A k \in Nat : k \in S
  <2>. HIDE DEF S
  <2>. QED BY <1>3, <1>4, FromZeroOn
<1>6. And(a, b) <= a /\ And(a, b) <= b
  <2>. DEFINE T == {m \in Nat : \A x, y \in Word : x <= m => And(x, y) <= x /\ And(x, y) <= y}
  <2>1. 0 \in T
    <3>1. ASSUME NEW x \in Word, NEW y \in Word, x <= 0 PROVE And(x, y) <= x /\ And(x, y) <= y
      <4>1. x = 0 /\ y >= 0
        BY <1>1, <3>1
      <4>2. And(0, y) = 0
        BY <1>1, AndIs
      <4>. QED BY <4>1, <4>2
    <3>. QED BY <3>1
  <2>2. ASSUME NEW m \in Nat, m \in T PROVE m + 1 \in T
    <3>1. ASSUME NEW x \in Word, NEW y \in Word, x <= m + 1, x # 0 PROVE And(x, y) <= x /\ And(x, y) <= y
      <4>1. x \div 2 \in Word /\ y \div 2 \in Word /\ x \div 2 <= m /\ x \in Nat /\ y \in Nat
        BY <1>1, <3>1
      <4>2. And(x \div 2, y \div 2) <= x \div 2 /\ And(x \div 2, y \div 2) <= y \div 2
        BY <2>2, <4>1
      <4>3. And(x, y) = (x % 2) * (y % 2) + 2 * And(x \div 2, y \div 2) /\ And(x \div 2, y \div 2) \in Nat
        BY <4>1, AndIs
      <4>4. x % 2 \in {0, 1} /\ y % 2 \in {0, 1} /\ x = 2 * (x \div 2) + (x % 2) /\ y = 2 * (y \div 2) + (y % 2)
        BY <4>1
      <4>5. (x % 2) * (y % 2) <= x % 2 /\ (x % 2) * (y % 2) <= y % 2 /\ (x % 2) * (y % 2) \in Nat
        BY <4>4
      <4>. QED BY <4>1, <4>2, <4>3, <4>4, <4>5
    <3>2. ASSUME NEW x \in Word, NEW y \in Word, x = 0 PROVE And(x, y) <= x /\ And(x, y) <= y
      BY <2>1, <3>2
    <3>. QED BY <3>1, <3>2
  <2>3. \A m \in Nat : m \in T
    <3>. HIDE DEF T
    <3>. QED BY <2>1, <2>2, FromZeroOn
  <2>4. a \in Nat /\ a <= a
    BY <1>1
  <2>. QED BY <2>3, <2>4
<1>7. And(a, b) \in Word
  <2>1. And(a, b) \in Nat
    BY <1>2
  <2>2. a \in Nat /\ a <= MaxWord
    BY <1>1
  <2>. QED BY <1>1, <1>6, <2>1, <2>2
<1>. QED BY <1>5, <1>6, <1>7

-----------------------------------------------------------------------------
(* Differences and sums that carry nothing. *)
LEMMA BitOfDifference ==
  ASSUME NEW v \in Int, NEW w \in Int, NEW n \in Nat, \A k \in 0 .. n : Bit(w, k) <= Bit(v, k)
  PROVE  Bit(v - w, n) = Bit(v, n) - Bit(w, n)
<1>. DEFINE p == 2^n
            vq == v \div p
            wq == w \div p
            vr == v % p
            wr == w % p
<1>1. p \in Nat \ {0}
  BY PowerPositive
<1>2. wr <= vr
  BY BitsBelow
<1>3. vq \in Int /\ vr \in 0 .. p - 1 /\ v = p * vq + vr
  BY <1>1, Division
<1>4. wq \in Int /\ wr \in 0 .. p - 1 /\ w = p * wq + wr
  BY <1>1, Division
<1>5. wq % 2 <= vq % 2
  BY DEF Bit
<1>. HIDE DEF vq, wq, vr, wr, p
<1>6. v - w = p * (vq - wq) + (vr - wr) /\ vq - wq \in Int /\ vr - wr \in 0 .. p - 1 /\ v - w \in Int
  BY <1>1, <1>2, <1>3, <1>4
<1>7. (v - w) \div p = vq - wq
  BY <1>1, <1>6, DivisionUnique
<1>8. (vq - wq) % 2 = (vq % 2) - (wq % 2)
  BY <1>3, <1>4, <1>5
<1>. QED BY <1>7, <1>8 DEF Bit, p, vq, wq

(* Every bit of the greatest word is set. *)
LEMMA BitOfMax == \A k \in BitPos : Bit(MaxWord, k) = 1
<1>. SUFFICES ASSUME NEW k \in BitPos PROVE Bit(MaxWord, k) = 1
  OBVIOUS
<1>. DEFINE j == WordBits - k - 1
            p == 2^k
            q == 2^j
<1>1. k \in Nat /\ j \in Nat /\ k + (j + 1) = WordBits
  BY WordFacts DEF BitPos
<1>2. 2^WordBits = p * 2^(j + 1) /\ 2^(j + 1) = 2 * q /\ p \in Nat \ {0} /\ q \in Nat \ {0}
  <2>. HIDE DEF j
  <2>1. 2^(k + (j + 1)) = 2^k * 2^(j + 1)
    BY <1>1, PowerSum
  <2>. QED BY <1>1, <2>1, PowerPositive, PowerNext
<1>3. MaxWord = 2^WordBits - 1
  BY WordFacts
<1>. HIDE DEF p, q, j
<1>4. MaxWord = p * (2 * q - 1) + (p - 1) /\ 2 * q - 1 \in Int /\ p - 1 \in 0 .. p - 1
  BY <1>2, <1>3
<1>5. MaxWord \div p = 2 * q - 1
  <2>1. MaxWord \in Int
    BY <1>2, <1>4
  <2>. QED BY <1>2, <1>4, <2>1, DivisionUnique
<1>6. (2 * q - 1) % 2 = 1
  BY <1>2
<1>. QED BY <1>5, <1>6 DEF Bit, p

(* A word less another that has none but its bits. *)
LEMMA WordDifference ==
  ASSUME NEW v \in Word, NEW w \in Word, \A k \in BitPos : Bit(w, k) <= Bit(v, k)
  PROVE  v - w \in Word /\ \A k \in BitPos : Bit(v - w, k) = Bit(v, k) - Bit(w, k)
<1>1. w <= v /\ v \in Int /\ w \in Int
  BY WordsByBits, WordFacts
<1>2. v - w \in Word
  BY <1>1, WordFacts
<1>3. ASSUME NEW k \in BitPos PROVE Bit(v - w, k) = Bit(v, k) - Bit(w, k)
  <2>1. k \in Nat /\ \A j \in 0 .. k : j \in BitPos
    BY WordFacts DEF BitPos
  <2>2. \A j \in 0 .. k : Bit(w, j) <= Bit(v, j)
    BY <2>1
  <2>. QED BY <1>1, <2>1, <2>2, BitOfDifference
<1>. QED BY <1>2, <1>3

(* Not flips every bit. *)
LEMMA BitOfNot ==
  ASSUME NEW w \in Word
  PROVE  Not(w) \in Word /\ \A k \in BitPos : Bit(Not(w), k) = 1 - Bit(w, k)
<1>1. \A k \in BitPos : Bit(MaxWord, k) = 1 /\ Bit(w, k) \in {0, 1} /\ Bit(w, k) <= Bit(MaxWord, k)
  <2>1. w \in Int /\ BitPos \subseteq Nat
    BY WordFacts DEF BitPos
  <2>. QED BY <2>1, BitType, BitOfMax
<1>2. MaxWord \in Word
  BY WordFacts
<1>. QED BY <1>1, <1>2, WordDifference DEF Not

(* Words without a common bit add up to the bits of both. *)
LEMMA WordSum ==
  ASSUME NEW v \in Word, NEW w \in Word, \A k \in BitPos : Bit(v, k) + Bit(w, k) <= 1
  PROVE  v + w \in Word /\ \A k \in BitPos : Bit(v + w, k) = Bit(v, k) + Bit(w, k)
<1>. DEFINE n == Not(v)
            d == n - w
<1>1. v \in Int /\ w \in Int /\ MaxWord \in Int /\ BitPos \subseteq Nat
  BY WordFacts DEF BitPos
<1>2. \A k \in BitPos : Bit(v, k) \in {0, 1} /\ Bit(w, k) \in {0, 1}
  BY <1>1, BitType
<1>3. n \in Word /\ \A k \in BitPos : Bit(n, k) = 1 - Bit(v, k)
  BY BitOfNot
<1>. HIDE DEF n
<1>4. \A k \in BitPos : Bit(w, k) <= Bit(n, k)
  BY <1>2, <1>3
<1>5. d \in Word /\ \A k \in BitPos : Bit(d, k) = Bit(n, k) - Bit(w, k)
  BY <1>3, <1>4, WordDifference
<1>6. v + w = Not(d)
  BY <1>1 DEF d, n, Not
<1>. HIDE DEF d
<1>7. Not(d) \in Word /\ \A k \in BitPos : Bit(Not(d), k) = 1 - Bit(d, k)
  BY <1>5, BitOfNot
<1>8. \A k \in BitPos : Bit(Not(d), k) = Bit(v, k) + Bit(w, k)
  BY <1>2, <1>3, <1>5, <1>7
<1>. QED BY <1>6, <1>7, <1>8

-----------------------------------------------------------------------------
(* The operations on words, bit by bit. *)
On(w, k) == Bit(w, k) = 1

(* A bit is set or clear. *)
LEMMA OnOrOff ==
  ASSUME NEW w \in Word, NEW k \in BitPos
  PROVE  Bit(w, k) = IF On(w, k) THEN 1 ELSE 0
<1>1. w \in Int /\ k \in Nat
  BY WordFacts DEF BitPos
<1>2. Bit(w, k) \in {0, 1}
  BY <1>1, BitType
<1>. QED BY <1>2 DEF On

(* Words with the same set bits are the same. *)
LEMMA EqualWords ==
  ASSUME NEW v \in Word, NEW w \in Word, \A k \in BitPos : On(v, k) <=> On(w, k)
  PROVE  v = w
<1>1. \A k \in BitPos : Bit(v, k) = Bit(w, k)
  BY OnOrOff
<1>. QED BY <1>1, WordsByBits

(* Fewer set bits, lesser word. *)
LEMMA LesserWord ==
  ASSUME NEW v \in Word, NEW w \in Word, \A k \in BitPos : On(v, k) => On(w, k)
  PROVE  v <= w
<1>1. \A k \in BitPos : Bit(v, k) <= Bit(w, k)
  <2>. SUFFICES ASSUME NEW k \in BitPos PROVE Bit(v, k) <= Bit(w, k)
    OBVIOUS
  <2>1. On(v, k) => On(w, k)
    OBVIOUS
  <2>2. /\ Bit(v, k) = IF On(v, k) THEN 1 ELSE 0
        /\ Bit(w, k) = IF On(w, k) THEN 1 ELSE 0
    BY OnOrOff
  <2>. QED BY <2>1, <2>2
<1>. QED BY <1>1, WordsByBits

(* Zero has no set bit. *)
LEMMA ZeroOff == \A k \in BitPos : ~On(0, k)
<1>. SUFFICES ASSUME NEW k \in BitPos PROVE Bit(0, k) # 1
  BY DEF On
<1>1. k \in Nat /\ 2^k \in Nat \ {0}
  BY PowerPositive, WordFacts DEF BitPos
<1>2. 0 = 2^k * 0 + 0 /\ 0 \in 0 .. 2^k - 1
  BY <1>1
<1>3. 0 \div 2^k = 0
  BY <1>1, <1>2, DivisionUnique
<1>. QED BY <1>3 DEF Bit

(* The greatest word has all. *)
LEMMA MaxOn == \A k \in BitPos : On(MaxWord, k)
BY BitOfMax DEF On

(* Not, in terms of set bits. *)
LEMMA NotOn ==
  ASSUME NEW w \in Word
  PROVE  Not(w) \in Word /\ \A k \in BitPos : On(Not(w), k) <=> ~On(w, k)
<1>1. Not(w) \in Word /\ \A k \in BitPos : Bit(Not(w), k) = 1 - Bit(w, k)
  BY BitOfNot
<1>. QED BY <1>1, OnOrOff DEF On

(* And, in terms of set bits. *)
LEMMA AndOn ==
  ASSUME NEW v \in Word, NEW w \in Word
  PROVE  /\ And(v, w) \in Word
         /\ \A k \in BitPos : On(And(v, w), k) <=> On(v, k) /\ On(w, k)
<1>1. And(v, w) \in Word /\ \A k \in Nat : Bit(And(v, w), k) = Bit(v, k) * Bit(w, k)
  BY BitOfAnd
<1>2. ASSUME NEW k \in BitPos PROVE On(And(v, w), k) <=> On(v, k) /\ On(w, k)
  <2>1. k \in Nat
    BY WordFacts DEF BitPos
  <2>2. /\ Bit(v, k) = IF On(v, k) THEN 1 ELSE 0
        /\ Bit(w, k) = IF On(w, k) THEN 1 ELSE 0
    BY OnOrOff
  <2>3. Bit(And(v, w), k) = Bit(v, k) * Bit(w, k)
    BY <1>1, <2>1
  <2>. QED BY <2>2, <2>3 DEF On
<1>. QED BY <1>1, <1>2

(* w less the bits it shares with v. *)
LEMMA RestOn ==
  ASSUME NEW v \in Word, NEW w \in Word
  PROVE  /\ w - And(v, w) \in Word /\ v - And(v, w) \in Word
         /\ \A k \in BitPos : On(w - And(v, w), k) <=> On(w, k) /\ ~On(v, k)
         /\ \A k \in BitPos : On(v - And(v, w), k) <=> On(v, k) /\ ~On(w, k)
<1>1. And(v, w) \in Word
  BY AndOn
<1>2. ASSUME NEW k \in BitPos
      PROVE  /\ Bit(And(v, w), k) = IF On(v, k) /\ On(w, k) THEN 1 ELSE 0
             /\ Bit(v, k) = IF On(v, k) THEN 1 ELSE 0
             /\ Bit(w, k) = IF On(w, k) THEN 1 ELSE 0
  BY <1>1, AndOn, OnOrOff
<1>3. \A k \in BitPos : Bit(And(v, w), k) <= Bit(v, k) /\ Bit(And(v, w), k) <= Bit(w, k)
  <2>. SUFFICES ASSUME NEW k \in BitPos PROVE Bit(And(v, w), k) <= Bit(v, k) /\ Bit(And(v, w), k) <= Bit(w, k)
    OBVIOUS
  <2>. QED BY <1>2
<1>4. /\ w - And(v, w) \in Word
      /\ \A k \in BitPos : Bit(w - And(v, w), k) = Bit(w, k) - Bit(And(v, w), k)
  BY <1>1, <1>3, WordDifference
<1>5. /\ v - And(v, w) \in Word
      /\ \A k \in BitPos : Bit(v - And(v, w), k) = Bit(v, k) - Bit(And(v, w), k)
  BY <1>1, <1>3, WordDifference
<1>6. ASSUME NEW k \in BitPos
      PROVE  /\ On(w - And(v, w), k) <=> On(w, k) /\ ~On(v, k)
             /\ On(v - And(v, w), k) <=> On(v, k) /\ ~On(w, k)
  <2>1. /\ Bit(w - And(v, w), k) = Bit(w, k) - Bit(And(v, w), k)
        /\ Bit(v - And(v, w), k) = Bit(v, k) - Bit(And(v, w), k)
    BY <1>4, <1>5
  <2>2. On(w - And(v, w), k) <=> Bit(w, k) - Bit(And(v, w), k) = 1
    BY <2>1 DEF On
  <2>3. On(v - And(v, w), k) <=> Bit(v, k) - Bit(And(v, w), k) = 1
    BY <2>1 DEF On
  <2>. QED BY <1>2, <2>2, <2>3
<1>. QED BY <1>4, <1>5, <1>6

(* The sum of two words without a bit in common. *)
LEMMA SumOn ==
  ASSUME NEW v \in Word, NEW w \in Word, \A k \in BitPos : ~(On(v, k) /\ On(w, k))
  PROVE  v + w \in Word /\ \A k \in BitPos : On(v + w, k) <=> On(v, k) \/ On(w, k)
<1>1. ASSUME NEW k \in BitPos
      PROVE  /\ Bit(v, k) = IF On(v, k) THEN 1 ELSE 0
             /\ Bit(w, k) = IF On(w, k) THEN 1 ELSE 0
  BY OnOrOff
<1>2. \A k \in BitPos : Bit(v, k) + Bit(w, k) <= 1
  <2>. SUFFICES ASSUME NEW k \in BitPos PROVE Bit(v, k) + Bit(w, k) <= 1
    OBVIOUS
  <2>1. ~(On(v, k) /\ On(w, k))
    OBVIOUS
  <2>. QED BY <1>1, <2>1
<1>3. v + w \in Word /\ \A k \in BitPos : Bit(v + w, k) = Bit(v, k) + Bit(w, k)
  BY <1>2, WordSum
<1>4. ASSUME NEW k \in BitPos PROVE On(v + w, k) <=> On(v, k) \/ On(w, k)
  <2>1. On(v + w, k) <=> Bit(v, k) + Bit(w, k) = 1
    BY <1>3 DEF On
  <2>2. ~(On(v, k) /\ On(w, k))
    OBVIOUS
  <2>. QED BY <1>1, <2>1, <2>2
<1>. QED BY <1>3, <1>4

(* Or is the union of the set bits, by its definition as an arithmetic     *)
(* expression.                                                             *)
LEMMA OrOn ==
  ASSUME NEW v \in Word, NEW w \in Word
  PROVE  /\ Or(v, w) \in Word
         /\ \A k \in BitPos : On(Or(v, w), k) <=> On(v, k) \/ On(w, k)
<1>. DEFINE d == w - And(v, w)
<1>1. d \in Word /\ \A k \in BitPos : On(d, k) <=> On(w, k) /\ ~On(v, k)
  BY RestOn
<1>2. Or(v, w) = v + d
  <2>1. And(v, w) \in Int /\ v \in Int /\ w \in Int
    BY AndOn, WordFacts
  <2>. QED BY <2>1 DEF Or
<1>. HIDE DEF d
<1>3. v + d \in Word /\ \A k \in BitPos : On(v + d, k) <=> On(v, k) \/ On(d, k)
  BY <1>1, SumOn
<1>. QED BY <1>1, <1>2, <1>3

(* Xor, likewise. *)
LEMMA XorOn ==
  ASSUME NEW v \in Word, NEW w \in Word
  PROVE  /\ Xor(v, w) \in Word
         /\ \A k \in BitPos : On(Xor(v, w), k) <=> ~(On(v, k) <=> On(w, k))
<1>. DEFINE c == v - And(v, w)
            d == w - And(v, w)
<1>1. /\ c \in Word /\ \A k \in BitPos : On(c, k) <=> On(v, k) /\ ~On(w, k)
      /\ d \in Word /\ \A k \in BitPos : On(d, k) <=> On(w, k) /\ ~On(v, k)
  BY RestOn
<1>2. Xor(v, w) = c + d
  <2>1. And(v, w) \in Int /\ v \in Int /\ w \in Int
    BY AndOn, WordFacts
  <2>. QED BY <2>1 DEF Xor
<1>. HIDE DEF c, d
<1>3. c + d \in Word /\ \A k \in BitPos : On(c + d, k) <=> On(c, k) \/ On(d, k)
  BY <1>1, SumOn
<1>. QED BY <1>1, <1>2, <1>3

(* A shift to the left moves the set bits up. *)
LEMMA ShlOn ==
  ASSUME NEW w \in Word, NEW n \in Nat
  PROVE  /\ Shl(w, n) \in Word
         /\ \A k \in BitPos : On(Shl(w, n), k) <=> k >= n /\ On(w, k - n)
<1>. DEFINE p == 2^n
            x == w * p
<1>1. w \in Int /\ p \in Nat \ {0} /\ x \in Int
  BY WordFacts, PowerPositive
<1>2. Shl(w, n) = Wrap(x)
  BY DEF Shl
<1>. HIDE DEF x, p
<1>3. Shl(w, n) \in Word
  BY <1>1, <1>2, WrapIsWord
<1>4. ASSUME NEW k \in BitPos PROVE Bit(x, k) = IF k >= n THEN Bit(w, k - n) ELSE 0
  <2>1. k \in Nat /\ 2^k \in Nat \ {0}
    BY WordFacts, PowerPositive DEF BitPos
  <2>2. CASE k >= n
    <3>1. k - n \in Nat /\ n + (k - n) = k
      BY <2>1, <2>2
    <3>2. x \div p = w
      <4>1. x = p * w + 0 /\ 0 \in 0 .. p - 1
        BY <1>1 DEF x
      <4>. QED BY <1>1, <4>1, DivisionUnique
    <3>3. Bit(x \div p, k - n) = Bit(x, n + (k - n))
      BY <1>1, <3>1, BitOfQuotient DEF p
    <3>. QED BY <2>2, <3>1, <3>2, <3>3
  <2>3. CASE k < n
    <3>. DEFINE q == 2^(n - k - 1)
                m == 2^k
    <3>1. n - k - 1 \in Nat /\ k + ((n - k - 1) + 1) = n
      BY <2>1, <2>3
    <3>2. p = m * (2 * q) /\ q \in Nat \ {0}
      <4>. DEFINE j == n - k - 1
      <4>1. j \in Nat /\ k + (j + 1) = n
        BY <3>1
      <4>. HIDE DEF j
      <4>2. j + 1 \in Nat /\ 2^(j + 1) = 2 * 2^j /\ 2^j \in Nat \ {0}
        BY <4>1, PowerNext, PowerPositive
      <4>3. 2^(k + (j + 1)) = 2^k * 2^(j + 1)
        BY <2>1, <4>2, PowerSum
      <4>. QED BY <4>1, <4>2, <4>3 DEF p, j
    <3>3. m \in Nat \ {0}
      BY <2>1
    <3>. HIDE DEF q, m
    <3>4. x = m * (2 * (w * q)) + 0 /\ 2 * (w * q) \in Int /\ 0 \in 0 .. m - 1
      BY <1>1, <3>2, <3>3 DEF x
    <3>5. x \div m = 2 * (w * q)
      BY <1>1, <3>3, <3>4, DivisionUnique
    <3>6. \A i \in Int : (2 * i) % 2 = 0
      OBVIOUS
    <3>7. w * q \in Int
      BY <1>1, <3>2
    <3>8. Bit(x, k) = 0
      BY <3>5, <3>6, <3>7 DEF Bit, m
    <3>9. ~(k >= n)
      BY <2>1, <2>3
    <3>. QED BY <3>8, <3>9
  <2>. QED BY <2>1, <2>2, <2>3
<1>5. \A k \in BitPos : Bit(Shl(w, n), k) = Bit(x, k)
  BY <1>1, <1>2, BitOfWrap
<1>. QED BY <1>3, <1>4, <1>5 DEF On

(* A shift to the right moves them down. *)
LEMMA ShrOn ==
  ASSUME NEW w \in Word, NEW n \in Nat
  PROVE  /\ Shr(w, n) \in Word
         /\ \A k \in BitPos : On(Shr(w, n), k) <=> n + k \in BitPos /\ On(w, n + k)
<1>. DEFINE p == 2^n
            q == w \div p
<1>1. w \in Int /\ w >= 0 /\ p \in Nat \ {0}
  BY WordFacts, PowerPositive
<1>2. q \in Int /\ w % p \in 0 .. p - 1 /\ w = p * q + (w % p)
  BY <1>1, Division
<1>. HIDE DEF p, q
<1>3. q >= 0 /\ q <= w
  <2>1. q < 0 => p * q <= -p
    BY <1>1, <1>2
  <2>2. q >= 0 => p * q >= q
    BY <1>1, <1>2
  <2>. QED BY <1>1, <1>2, <2>1, <2>2
<1>4. q \in Word
  BY <1>1, <1>2, <1>3, WordFacts
<1>5. ASSUME NEW k \in BitPos PROVE On(q, k) <=> n + k \in BitPos /\ On(w, n + k)
  <2>1. k \in Nat /\ n + k \in Nat
    BY WordFacts DEF BitPos
  <2>2. Bit(q, k) = Bit(w, n + k)
    BY <1>1, <2>1, BitOfQuotient DEF q, p
  <2>3. n + k \notin BitPos => n + k >= WordBits
    BY <2>1, WordFacts DEF BitPos
  <2>4. n + k >= WordBits => Bit(w, n + k) = 0
    BY <2>1, BitBeyond
  <2>. QED BY <2>2, <2>3, <2>4 DEF On
<1>. QED BY <1>4, <1>5 DEF Shr, q, p

-----------------------------------------------------------------------------
(* Words as signed numbers. *)
LEMMA SignedFacts ==
  /\ 2^(WordBits - 1) \in Nat \ {0} /\ 2^WordBits = 2 * 2^(WordBits - 1)
  /\ MaxSigned = 2^(WordBits - 1) - 1 /\ MinSigned = -(2^(WordBits - 1))
  /\ SignedWord = {n \in Int : MinSigned <= n /\ n <= MaxSigned}
  /\ MaxSigned \in SignedWord /\ MinSigned \in SignedWord
  /\ MaxSigned \in Nat /\ MinSigned \in Int
<1>1. WordBits - 1 \in Nat /\ (WordBits - 1) + 1 = WordBits
  BY WordFacts
<1>2. 2^(WordBits - 1) \in Nat \ {0} /\ 2^((WordBits - 1) + 1) = 2 * 2^(WordBits - 1)
  BY <1>1, PowerPositive, PowerNext
<1>. QED BY <1>1, <1>2 DEF MaxSigned, MinSigned, SignedWord

(* A half of a word is at most its non-negative part. *)
LEMMA HalfOfSigned ==
  /\ 2^HalfBits <= 2^(WordBits - 1)
  /\ 2^HalfBits = 2 * 2^(HalfBits - 1) /\ 2^(HalfBits - 1) \in Nat \ {0}
<1>1. WordBits - 1 - HalfBits \in Nat /\ HalfBits + (WordBits - 1 - HalfBits) = WordBits - 1
      /\ HalfBits - 1 \in Nat /\ (HalfBits - 1) + 1 = HalfBits /\ HalfBits \in Nat
  BY WordFacts
<1>2. 2^(HalfBits + (WordBits - 1 - HalfBits)) = 2^HalfBits * 2^(WordBits - 1 - HalfBits)
  BY <1>1, PowerSum
<1>3. 2^HalfBits \in Nat \ {0} /\ 2^(WordBits - 1 - HalfBits) \in Nat \ {0} /\ 2^(HalfBits - 1) \in Nat \ {0}
  BY <1>1, PowerPositive
<1>4. ASSUME NEW x \in Nat \ {0}, NEW y \in Nat \ {0} PROVE x <= x * y
  <2>1. x * y >= x * 1
    OBVIOUS
  <2>. QED BY <2>1
<1>5. 2^((HalfBits - 1) + 1) = 2 * 2^(HalfBits - 1)
  BY <1>1, PowerNext
<1>. QED BY <1>1, <1>2, <1>3, <1>4, <1>5

(* Word to signed word. *)
LEMMA SignedOfWord ==
  ASSUME NEW w \in Word
  PROVE  /\ Signed(w) \in SignedWord
         /\ Signed(w) = IF w <= MaxSigned THEN w ELSE w - 2^WordBits
         /\ w <= MaxSigned <=> Signed(w) >= 0
         /\ w \in Int
BY SignedFacts, WordFacts DEF Signed

(* Signed word to word. *)
LEMMA WrapOfSigned ==
  ASSUME NEW n \in SignedWord
  PROVE  Wrap(n) \in Word /\ Wrap(n) = IF n >= 0 THEN n ELSE n + 2^WordBits
<1>. DEFINE p == 2^WordBits
<1>1. n \in Int /\ p \in Nat \ {0} /\ n < p /\ n >= -p
  BY SignedFacts, WordFacts
<1>2. CASE n >= 0
  <2>1. n = p * 0 + n /\ n \in 0 .. p - 1
    <3>. HIDE DEF p
    <3>. QED BY <1>1, <1>2
  <2>. HIDE DEF p
  <2>2. n % p = n
    BY <1>1, <2>1, DivisionUnique
  <2>. QED BY <1>1, <1>2, <2>2, WrapIsWord DEF Wrap, p
<1>3. CASE n < 0
  <2>1. n = p * (-1) + (n + p) /\ n + p \in 0 .. p - 1
    <3>. HIDE DEF p
    <3>. QED BY <1>1, <1>3
  <2>. HIDE DEF p
  <2>2. n % p = n + p
    BY <1>1, <2>1, DivisionUnique
  <2>3. ~(n >= 0)
    BY <1>1, <1>3
  <2>. QED BY <1>1, <2>2, <2>3, WrapIsWord DEF Wrap, p
<1>. QED BY <1>1, <1>2, <1>3

(* The signed low half is a signed word. *)
LEMMA SignedHalfRange == \A w \in Int : SignedHalf(w) \in SignedWord
<1>. SUFFICES ASSUME NEW w \in Int PROVE SignedHalf(w) \in SignedWord
  OBVIOUS
<1>1. Low(w) \in 0 .. 2^HalfBits - 1
  BY WordFacts, Division DEF Low
<1>2. 2^HalfBits <= 2^(WordBits - 1) /\ 2^HalfBits = 2 * 2^(HalfBits - 1) /\ 2^(HalfBits - 1) \in Nat \ {0}
  BY HalfOfSigned
<1>. QED BY <1>1, <1>2, SignedFacts DEF SignedHalf

(* The low half is a word. *)
LEMMA LowIsWord == \A n \in Int : Low(n) \in Word /\ Low(n) \in 0 .. MaxHalf
<1>. SUFFICES ASSUME NEW n \in Int PROVE Low(n) \in Word /\ Low(n) \in 0 .. MaxHalf
  OBVIOUS
<1>1. Low(n) \in 0 .. 2^HalfBits - 1
  BY WordFacts, Division DEF Low
<1>2. 2^HalfBits <= 2^WordBits
  BY HalfOfSigned, SignedFacts
<1>. QED BY <1>1, <1>2, WordFacts DEF MaxHalf

(* The low half, in terms of set bits. *)
LEMMA LowOn ==
  ASSUME NEW w \in Word
  PROVE  /\ Low(w) \in Word
         /\ \A k \in BitPos : On(Low(w), k) <=> k < HalfBits /\ On(w, k)
<1>1. w \in Int
  BY WordFacts
<1>2. \A k \in BitPos : Bit(Low(w), k) = IF k < HalfBits THEN Bit(w, k) ELSE 0
  BY <1>1, BitOfLow
<1>. QED BY <1>1, <1>2, LowIsWord DEF On

(* The high half, in terms of set bits. *)
LEMMA HighOn ==
  ASSUME NEW w \in Word
  PROVE  /\ High(w) \in Word
         /\ \A k \in BitPos : On(High(w), k) <=> k >= HalfBits /\ On(w, k)
<1>1. Low(w) \in Word /\ w \in Int /\ HalfBits \in Int /\ \A k \in BitPos : k \in Int
  BY LowOn, WordFacts DEF BitPos
<1>2. And(Low(w), w) = Low(w)
  <2>1. And(Low(w), w) \in Word /\ \A k \in BitPos : On(And(Low(w), w), k) <=> On(Low(w), k) /\ On(w, k)
    BY <1>1, AndOn
  <2>2. \A k \in BitPos : On(Low(w), k) => On(w, k)
    BY LowOn
  <2>. QED BY <1>1, <2>1, <2>2, EqualWords
<1>3. /\ w - And(Low(w), w) \in Word
      /\ \A k \in BitPos : On(w - And(Low(w), w), k) <=> On(w, k) /\ ~On(Low(w), k)
  BY <1>1, RestOn
<1>4. High(w) \in Word /\ \A k \in BitPos : On(High(w), k) <=> On(w, k) /\ ~On(Low(w), k)
  BY <1>2, <1>3 DEF High
<1>5. \A k \in BitPos : On(Low(w), k) <=> k < HalfBits /\ On(w, k)
  BY LowOn
<1>. QED BY <1>1, <1>4, <1>5

(* One has the first bit alone. *)
LEMMA OneOn == \A k \in BitPos : On(1, k) <=> k = 0
<1>. SUFFICES ASSUME NEW k \in BitPos PROVE On(1, k) <=> k = 0
  OBVIOUS
<1>1. k \in Nat
  BY WordFacts DEF BitPos
<1>2. CASE k = 0
  <2>1. Bit(1, 0) = 1 % 2
    BY BitZero
  <2>. QED BY <1>2, <2>1 DEF On
<1>3. CASE k # 0
  <2>1. k - 1 \in Nat /\ (k - 1) + 1 = k /\ k - 1 \in BitPos /\ 1 \div 2 = 0
    BY <1>1, <1>3, WordFacts DEF BitPos
  <2>2. Bit(1 \div 2, k - 1) = Bit(1, (k - 1) + 1)
    BY <2>1, BitOfHalf
  <2>3. ~On(0, k - 1)
    BY <2>1, ZeroOff
  <2>. QED BY <1>3, <2>1, <2>2, <2>3 DEF On
<1>. QED BY <1>2, <1>3

(* A power of two has one bit. *)
LEMMA PowerOn ==
  ASSUME NEW j \in BitPos
  PROVE  2^j \in Word /\ \A k \in BitPos : On(2^j, k) <=> k = j
<1>1. j \in Nat /\ 1 \in Word /\ \A k \in BitPos : k \in Nat /\ k < WordBits
  <2>1. MaxWord >= 1
    BY SignedFacts, WordFacts
  <2>. QED BY <2>1, WordFacts DEF BitPos
<1>2. 2^j \in Word
  <2>1. WordBits - j \in Nat \ {0} /\ j + (WordBits - j) = WordBits
    BY <1>1, WordFacts DEF BitPos
  <2>2. 2^(j + (WordBits - j)) = 2^j * 2^(WordBits - j)
    BY <1>1, <2>1, PowerSum
  <2>. DEFINE i == WordBits - j - 1
  <2>3. i \in Nat /\ i + 1 = WordBits - j
    BY <2>1, WordFacts
  <2>. HIDE DEF i
  <2>4. 2^(i + 1) = 2 * 2^i /\ 2^i \in Nat \ {0} /\ 2^j \in Nat \ {0}
    BY <1>1, <2>3, PowerNext, PowerPositive
  <2>5. ASSUME NEW x \in Nat \ {0}, NEW y \in Nat \ {0} PROVE x < x * (2 * y)
    <3>1. x * (2 * y) >= x * 2
      OBVIOUS
    <3>. QED BY <3>1
  <2>6. 2^j < 2^WordBits
    BY <2>1, <2>2, <2>3, <2>4, <2>5
  <2>. QED BY <2>4, <2>6, WordFacts
<1>3. Shl(1, j) = 2^j
  <2>1. 1 * 2^j = 2^j
    BY <1>2, WordFacts
  <2>2. 2^j % 2^WordBits = 2^j
    BY <1>2, WordRest
  <2>. QED BY <2>1, <2>2 DEF Shl, Wrap
<1>4. \A k \in BitPos : On(Shl(1, j), k) <=> k >= j /\ On(1, k - j)
  BY <1>1, ShlOn
<1>5. ASSUME NEW k \in BitPos PROVE On(2^j, k) <=> k = j
  <2>1. On(2^j, k) <=> k >= j /\ On(1, k - j)
    BY <1>3, <1>4
  <2>2. k >= j => (On(1, k - j) <=> k - j = 0)
    <3>1. k >= j => k - j \in BitPos
      BY <1>1, WordFacts DEF BitPos
    <3>. QED BY <3>1, OneOn
  <2>. QED BY <1>1, <2>1, <2>2
<1>. QED BY <1>2, <1>5

-----------------------------------------------------------------------------
(* Sums, by the carry into each bit. *)
Carry(x, y, k) == IF (x % 2^k) + (y % 2^k) >= 2^k THEN 1 ELSE 0

(* The bit of a sum is that of the addends and the carry. *)
LEMMA BitOfSum ==
  ASSUME NEW x \in Int, NEW y \in Int, NEW k \in Nat
  PROVE  Bit(x + y, k) = (Bit(x, k) + Bit(y, k) + Carry(x, y, k)) % 2
<1>. DEFINE p == 2^k
            xq == x \div p
            yq == y \div p
            xr == x % p
            yr == y % p
            c  == Carry(x, y, k)
<1>1. p \in Nat \ {0}
  BY PowerPositive
<1>2. xq \in Int /\ xr \in 0 .. p - 1 /\ x = p * xq + xr
  BY <1>1, Division
<1>3. yq \in Int /\ yr \in 0 .. p - 1 /\ y = p * yq + yr
  BY <1>1, Division
<1>4. c = IF xr + yr >= p THEN 1 ELSE 0
  BY DEF Carry
<1>5. Bit(x, k) = xq % 2 /\ Bit(y, k) = yq % 2 /\ Bit(x + y, k) = ((x + y) \div p) % 2
  BY DEF Bit
<1>. HIDE DEF p, xq, yq, xr, yr, c
<1>6. c \in {0, 1} /\ xr + yr - p * c \in 0 .. p - 1
  <2>1. CASE xr + yr >= p
    BY <1>1, <1>2, <1>3, <1>4, <2>1
  <2>2. CASE ~(xr + yr >= p)
    BY <1>1, <1>2, <1>3, <1>4, <2>2
  <2>. QED BY <2>1, <2>2
<1>7. x + y = p * (xq + yq + c) + (xr + yr - p * c)
  BY <1>1, <1>2, <1>3, <1>6
<1>8. (x + y) \div p = xq + yq + c
  <2>1. xq + yq + c \in Int /\ x + y \in Int
    BY <1>2, <1>3, <1>6
  <2>. QED BY <1>1, <1>6, <1>7, <2>1, DivisionUnique
<1>9. (xq + yq + c) % 2 = ((xq % 2) + (yq % 2) + c) % 2
  BY <1>2, <1>3, <1>6
<1>. QED BY <1>5, <1>8, <1>9 DEF c

(* More bits carry at least as much. *)
LEMMA CarryGrows ==
  ASSUME NEW x \in Int, NEW y \in Int, NEW v \in Int, NEW w \in Int, NEW k \in Nat,
         \A j \in 0 .. k - 1 : Bit(x, j) <= Bit(v, j) /\ Bit(y, j) <= Bit(w, j)
  PROVE  Carry(x, y, k) <= Carry(v, w, k)
<1>1. x % 2^k <= v % 2^k /\ y % 2^k <= w % 2^k
  BY BitsBelow
<1>2. 2^k \in Nat \ {0} /\ x % 2^k \in Int /\ y % 2^k \in Int /\ v % 2^k \in Int /\ w % 2^k \in Int
  BY PowerPositive, Division
<1>3. (x % 2^k) + (y % 2^k) >= 2^k => (v % 2^k) + (w % 2^k) >= 2^k
  BY <1>1, <1>2
<1>. QED BY <1>3 DEF Carry

(* A carry is a bit. *)
LEMMA CarryType == \A x, y, k : Carry(x, y, k) \in {0, 1}
BY DEF Carry

-----------------------------------------------------------------------------
(* Remainders: what Wrap and Low forget does not matter. *)
LEMMA SumOfRests ==
  ASSUME NEW x \in Int, NEW y \in Int, NEW m \in Nat \ {0}
  PROVE  /\ ((x % m) + (y % m)) % m = (x + y) % m
         /\ (x + (y % m)) % m = (x + y) % m
         /\ ((x % m) * (y % m)) % m = (x * y) % m
<1>. DEFINE xq == x \div m
            yq == y \div m
            xr == x % m
            yr == y % m
<1>1. xq \in Int /\ xr \in 0 .. m - 1 /\ x = m * xq + xr
  BY Division
<1>2. yq \in Int /\ yr \in 0 .. m - 1 /\ y = m * yq + yr
  BY Division
<1>. HIDE DEF xq, yq, xr, yr
<1>3. ASSUME NEW i \in Int, NEW j \in Int, NEW h \in Int, j = i + m * h PROVE j % m = i % m
  <2>. DEFINE q == i \div m
              r == i % m
  <2>1. q \in Int /\ r \in 0 .. m - 1 /\ i = m * q + r
    BY Division
  <2>. HIDE DEF q, r
  <2>2. j = m * (q + h) + r /\ q + h \in Int
    BY <1>3, <2>1
  <2>3. j % m = r
    BY <2>1, <2>2, DivisionUnique
  <2>. QED BY <2>3 DEF r
<1>4. (xr + yr) % m = (x + y) % m
  <2>1. x + y = (xr + yr) + m * (xq + yq) /\ xr + yr \in Int /\ x + y \in Int /\ xq + yq \in Int
    BY <1>1, <1>2
  <2>. QED BY <1>3, <2>1
<1>5. (x + yr) % m = (x + y) % m
  <2>1. x + y = (x + yr) + m * yq /\ x + yr \in Int /\ x + y \in Int
    BY <1>1, <1>2
  <2>. QED BY <1>2, <1>3, <2>1
<1>6. (xr * yr) % m = (x * y) % m
  <2>. DEFINE h == xq * (m * yq) + xq * yr + xr * yq
  <2>1. x * y = (xr * yr) + m * h
    <3>1. x * y = (m * xq + xr) * (m * yq + yr)
      BY <1>1, <1>2
    <3>2. (m * xq + xr) * (m * yq + yr) = (m * xq) * (m * yq) + (m * xq) * yr + xr * (m * yq) + xr * yr
      BY <1>1, <1>2
    <3>3. m * h = m * (xq * (m * yq)) + m * (xq * yr) + m * (xr * yq)
      BY <1>1, <1>2
    <3>. HIDE DEF h
    <3>4. (m * xq) * (m * yq) = m * (xq * (m * yq)) /\ (m * xq) * yr = m * (xq * yr) /\ xr * (m * yq) = m * (xr * yq)
      BY <1>1, <1>2
    <3>. QED BY <1>1, <1>2, <3>1, <3>2, <3>3, <3>4
  <2>2. xr * yr \in Int /\ x * y \in Int /\ h \in Int
    BY <1>1, <1>2
  <2>. HIDE DEF h
  <2>. QED BY <1>3, <2>1, <2>2
<1>. QED BY <1>4, <1>5, <1>6 DEF xr, yr

(* A product of rests leaves the rest of the product. *)
LEMMA ProductOfRests ==
  \A x, y \in Int, m \in Nat \ {0} : ((x % m) * (y % m)) % m = (x * y) % m
BY SumOfRests

(* The low half of a wrapped number is that of the number. *)
LEMMA LowOfWrap == \A n \in Int : Low(Wrap(n)) = Low(n)
<1>. SUFFICES ASSUME NEW n \in Int PROVE Low(Wrap(n)) = Low(n)
  OBVIOUS
<1>1. Wrap(n) \in Int /\ HalfBits \in Nat
  BY WrapIsWord, WordFacts
<1>2. ASSUME NEW k \in 0 .. HalfBits - 1 PROVE Bit(Wrap(n), k) = Bit(n, k)
  <2>1. k \in BitPos
    BY WordFacts DEF BitPos
  <2>. QED BY <2>1, BitOfWrap
<1>. QED BY <1>1, <1>2, SameBits DEF Low

(* A number is less than its power of two. *)
LEMMA PowerAbove == \A n \in Nat : n < 2^n
<1>. DEFINE S == {n \in Nat : n < 2^n}
<1>1. 0 \in S
  BY PowerPositive
<1>2. ASSUME NEW n \in Nat, n \in S PROVE n + 1 \in S
  <2>1. 2^(n + 1) = 2 * 2^n /\ 2^n \in Nat \ {0} /\ n < 2^n
    BY <1>2, PowerNext, PowerPositive
  <2>. QED BY <2>1
<1>3. \A n \in Nat : n \in S
  <2>. HIDE DEF S
  <2>. QED BY <1>1, <1>2, FromZeroOn
<1>. QED BY <1>3

(* The signed shift makes a word. *)
LEMMA AshrIsWord == \A w \in Word, n \in Nat : Ashr(w, n) \in Word
<1>. SUFFICES ASSUME NEW w \in Word, NEW n \in Nat PROVE Ashr(w, n) \in Word
  OBVIOUS
<1>1. Signed(w) \in Int /\ 2^n \in Nat \ {0}
  BY SignedOfWord, SignedFacts, PowerPositive
<1>2. Signed(w) \div 2^n \in Int
  BY <1>1, Division
<1>. QED BY <1>2, WrapIsWord DEF Ashr

(* A quotient and a remainder of words are words. *)
LEMMA QuotientIsWord ==
  ASSUME NEW w \in Word, NEW n \in Word, n # 0
  PROVE  w \div n \in Word /\ w % n \in Word
<1>1. w \in Int /\ w >= 0 /\ n \in Nat \ {0}
  BY WordFacts
<1>. DEFINE q == w \div n
            r == w % n
<1>2. q \in Int /\ r \in 0 .. n - 1 /\ w = n * q + r
  BY <1>1, Division
<1>. HIDE DEF q, r
<1>3. q < 0 => n * q <= -n
  BY <1>1, <1>2
<1>4. q >= 0 => n * q >= q
  BY <1>1, <1>2
<1>5. q >= 0 /\ q <= w
  BY <1>1, <1>2, <1>3, <1>4
<1>6. r \in Word /\ q \in Word
  BY <1>1, <1>2, <1>5, WordFacts
<1>. QED BY <1>6 DEF q, r

-----------------------------------------------------------------------------
(* Tracked numbers, bit by bit. *)
IsTnum(t) == t \in [value : Word, mask : Word] /\ And(t.value, t.mask) = 0

(* A tnum's known and unknown bits do not meet. *)
LEMMA TnumOn ==
  ASSUME NEW v \in Word, NEW m \in Word
  PROVE  And(v, m) = 0 <=> \A k \in BitPos : ~(On(v, k) /\ On(m, k))
<1>1. And(v, m) \in Word /\ \A k \in BitPos : On(And(v, m), k) <=> On(v, k) /\ On(m, k)
  BY AndOn
<1>2. 0 \in Word /\ \A k \in BitPos : ~On(0, k)
  BY WordFacts, ZeroOff
<1>3. (\A k \in BitPos : ~On(And(v, m), k)) => And(v, m) = 0
  BY <1>1, <1>2, EqualWords
<1>. QED BY <1>1, <1>2, <1>3

(* A word belongs to a tnum when it has the known bits. *)
LEMMA InTnumOn ==
  ASSUME NEW w \in Word, NEW t, t.value \in Word, t.mask \in Word
  PROVE  InTnum(w, t) <=> \A k \in BitPos : On(t.mask, k) \/ (On(w, k) <=> On(t.value, k))
<1>1. \A k \in BitPos : Bit(w, k) = Bit(t.value, k) <=> (On(w, k) <=> On(t.value, k))
  <2>. SUFFICES ASSUME NEW k \in BitPos
                PROVE  Bit(w, k) = Bit(t.value, k) <=> (On(w, k) <=> On(t.value, k))
    OBVIOUS
  <2>1. /\ Bit(w, k) = IF On(w, k) THEN 1 ELSE 0
        /\ Bit(t.value, k) = IF On(t.value, k) THEN 1 ELSE 0
    BY OnOrOff
  <2>. QED BY <2>1
<1>. QED BY <1>1 DEF InTnum, On

(* What a tracked number says of the size of a word. *)
LEMMA TnumRange ==
  ASSUME NEW t, IsTnum(t)
  PROVE  /\ min_value(t) \in Word /\ max_value(t) \in Word /\ min_value(t) <= max_value(t)
         /\ \A w \in Word : InTnum(w, t) => min_value(t) <= w /\ w <= max_value(t)
         /\ \A w \in Word : InTnum(w, t) /\ is_known(t) => w = t.value
         /\ \A k \in BitPos : On(max_value(t), k) <=> On(t.value, k) \/ On(t.mask, k)
<1>1. t.value \in Word /\ t.mask \in Word /\ And(t.value, t.mask) = 0
  BY DEF IsTnum
<1>2. /\ Or(t.value, t.mask) \in Word
      /\ \A k \in BitPos : On(Or(t.value, t.mask), k) <=> On(t.value, k) \/ On(t.mask, k)
  BY <1>1, OrOn
<1>3. \A k \in BitPos : ~(On(t.value, k) /\ On(t.mask, k))
  BY <1>1, TnumOn
<1>4. t.value <= Or(t.value, t.mask)
  BY <1>1, <1>2, LesserWord
<1>5. ASSUME NEW w \in Word, InTnum(w, t)
      PROVE  /\ t.value <= w /\ w <= Or(t.value, t.mask)
             /\ t.mask = 0 => w = t.value
  <2>1. \A k \in BitPos : On(t.mask, k) \/ (On(w, k) <=> On(t.value, k))
    BY <1>1, <1>5, InTnumOn
  <2>2. \A k \in BitPos : On(t.value, k) => On(w, k)
    BY <1>3, <2>1
  <2>3. \A k \in BitPos : On(w, k) => On(Or(t.value, t.mask), k)
    BY <1>2, <2>1
  <2>4. t.value <= w /\ w <= Or(t.value, t.mask)
    BY <1>1, <1>2, <2>2, <2>3, LesserWord
  <2>5. t.mask = 0 => \A k \in BitPos : On(w, k) <=> On(t.value, k)
    BY <2>1, ZeroOff
  <2>6. t.mask = 0 => w = t.value
    BY <1>1, <2>5, EqualWords
  <2>. QED BY <2>4, <2>6
<1>. QED BY <1>1, <1>2, <1>4, <1>5 DEF min_value, max_value, is_known

(* constant(v) holds v (state.rs). *)
LEMMA ConstantTnum ==
  ASSUME NEW v \in Word
  PROVE  IsTnum(constant(v)) /\ InTnum(v, constant(v))
<1>1. 0 \in Word /\ \A k \in BitPos : ~On(0, k)
  BY WordFacts, ZeroOff
<1>2. And(v, 0) = 0
  BY <1>1, TnumOn
<1>. QED BY <1>1, <1>2 DEF constant, IsTnum, InTnum

(* unknown holds every word. *)
LEMMA UnknownTnum == IsTnum(unknown) /\ \A w \in Word : InTnum(w, unknown)
<1>1. 0 \in Word /\ MaxWord \in Word /\ \A k \in BitPos : ~On(0, k) /\ On(MaxWord, k)
  BY WordFacts, ZeroOff, MaxOn
<1>2. And(0, MaxWord) = 0
  BY <1>1, TnumOn
<1>. QED BY <1>1, <1>2 DEF unknown, IsTnum, InTnum, On

(* A result put together from a value and a mask. *)
LEMMA MaskedTnum ==
  ASSUME NEW v \in Word, NEW m \in Word
  PROVE  IsTnum([value |-> And(v, Not(m)), mask |-> m])
<1>1. Not(m) \in Word /\ \A k \in BitPos : On(Not(m), k) <=> ~On(m, k)
  BY NotOn
<1>2. And(v, Not(m)) \in Word /\ \A k \in BitPos : On(And(v, Not(m)), k) <=> On(v, k) /\ On(Not(m), k)
  BY <1>1, AndOn
<1>3. And(And(v, Not(m)), m) = 0
  BY <1>1, <1>2, TnumOn
<1>. QED BY <1>2, <1>3 DEF IsTnum

(* The mask without the value's bits makes a tnum of any pair. *)
LEMMA UnmaskedTnum ==
  ASSUME NEW v \in Word, NEW m \in Word
  PROVE  IsTnum([value |-> v, mask |-> And(m, Not(v))])
<1>1. Not(v) \in Word /\ \A k \in BitPos : On(Not(v), k) <=> ~On(v, k)
  BY NotOn
<1>2. And(m, Not(v)) \in Word /\ \A k \in BitPos : On(And(m, Not(v)), k) <=> On(m, k) /\ On(Not(v), k)
  BY <1>1, AndOn
<1>3. And(v, And(m, Not(v))) = 0
  BY <1>1, <1>2, TnumOn
<1>. QED BY <1>2, <1>3 DEF IsTnum

(* And of members is a member of tnum_and. *)
LEMMA TnumAnd ==
  ASSUME NEW s, NEW t, IsTnum(s), IsTnum(t)
  PROVE  /\ IsTnum(tnum_and(s, t))
         /\ \A x, y \in Word : InTnum(x, s) /\ InTnum(y, t) => InTnum(And(x, y), tnum_and(s, t))
<1>. DEFINE v == And(s.value, t.value)
            a == Or(s.value, s.mask)
            b == Or(t.value, t.mask)
            m == And(And(a, b), Not(v))
            r == [value |-> v, mask |-> m]
<1>1. /\ s.value \in Word /\ s.mask \in Word /\ And(s.value, s.mask) = 0
      /\ t.value \in Word /\ t.mask \in Word /\ And(t.value, t.mask) = 0
  BY DEF IsTnum
<1>2. v \in Word /\ \A k \in BitPos : On(v, k) <=> On(s.value, k) /\ On(t.value, k)
  BY <1>1, AndOn
<1>3. /\ a \in Word /\ \A k \in BitPos : On(a, k) <=> On(s.value, k) \/ On(s.mask, k)
      /\ b \in Word /\ \A k \in BitPos : On(b, k) <=> On(t.value, k) \/ On(t.mask, k)
  BY <1>1, OrOn
<1>. HIDE DEF v, a, b
<1>4. And(a, b) \in Word /\ \A k \in BitPos : On(And(a, b), k) <=> On(a, k) /\ On(b, k)
  BY <1>3, AndOn
<1>5. Not(v) \in Word /\ \A k \in BitPos : On(Not(v), k) <=> ~On(v, k)
  BY <1>2, NotOn
<1>6. m \in Word /\ \A k \in BitPos : On(m, k) <=> On(And(a, b), k) /\ On(Not(v), k)
  BY <1>4, <1>5, AndOn
<1>7. r = tnum_and(s, t)
  BY DEF tnum_and, v, a, b
<1>8. IsTnum(r)
  BY <1>2, <1>4, UnmaskedTnum
<1>9. r.value = v /\ r.mask = m /\ r = [value |-> v, mask |-> m]
  OBVIOUS
<1>. HIDE DEF m, r
<1>10. ASSUME NEW x \in Word, NEW y \in Word, InTnum(x, s), InTnum(y, t) PROVE InTnum(And(x, y), r)
  <2>1. And(x, y) \in Word /\ \A k \in BitPos : On(And(x, y), k) <=> On(x, k) /\ On(y, k)
    BY AndOn
  <2>2. \A k \in BitPos : ~(On(s.value, k) /\ On(s.mask, k)) /\ ~(On(t.value, k) /\ On(t.mask, k))
    BY <1>1, TnumOn
  <2>3. /\ \A k \in BitPos : On(s.mask, k) \/ (On(x, k) <=> On(s.value, k))
        /\ \A k \in BitPos : On(t.mask, k) \/ (On(y, k) <=> On(t.value, k))
    BY <1>1, <1>10, InTnumOn
  <2>4. ASSUME NEW k \in BitPos PROVE On(m, k) \/ (On(And(x, y), k) <=> On(v, k))
    <3>1. On(m, k) <=> (On(s.value, k) \/ On(s.mask, k)) /\ (On(t.value, k) \/ On(t.mask, k)) /\ ~On(v, k)
      BY <1>3, <1>4, <1>5, <1>6
    <3>. QED BY <1>2, <2>1, <2>3, <2>2, <3>1
  <2>. QED BY <1>2, <1>6, <1>9, <2>1, <2>4, InTnumOn
<1>. QED BY <1>7, <1>8, <1>10

(* Or of members is a member of tnum_or. *)
LEMMA TnumOr ==
  ASSUME NEW s, NEW t, IsTnum(s), IsTnum(t)
  PROVE  /\ IsTnum(tnum_or(s, t))
         /\ \A x, y \in Word : InTnum(x, s) /\ InTnum(y, t) => InTnum(Or(x, y), tnum_or(s, t))
<1>. DEFINE v == Or(s.value, t.value)
            n == Or(s.mask, t.mask)
            m == And(n, Not(v))
            r == [value |-> v, mask |-> m]
<1>1. /\ s.value \in Word /\ s.mask \in Word /\ And(s.value, s.mask) = 0
      /\ t.value \in Word /\ t.mask \in Word /\ And(t.value, t.mask) = 0
  BY DEF IsTnum
<1>2. /\ v \in Word /\ \A k \in BitPos : On(v, k) <=> On(s.value, k) \/ On(t.value, k)
      /\ n \in Word /\ \A k \in BitPos : On(n, k) <=> On(s.mask, k) \/ On(t.mask, k)
  BY <1>1, OrOn
<1>. HIDE DEF v, n
<1>3. Not(v) \in Word /\ \A k \in BitPos : On(Not(v), k) <=> ~On(v, k)
  BY <1>2, NotOn
<1>4. m \in Word /\ \A k \in BitPos : On(m, k) <=> On(n, k) /\ On(Not(v), k)
  BY <1>2, <1>3, AndOn
<1>5. r = tnum_or(s, t)
  BY DEF tnum_or, v, n
<1>6. IsTnum(r)
  BY <1>2, UnmaskedTnum
<1>7. r.value = v /\ r.mask = m /\ r = [value |-> v, mask |-> m]
  OBVIOUS
<1>. HIDE DEF m, r
<1>8. ASSUME NEW x \in Word, NEW y \in Word, InTnum(x, s), InTnum(y, t) PROVE InTnum(Or(x, y), r)
  <2>1. Or(x, y) \in Word /\ \A k \in BitPos : On(Or(x, y), k) <=> On(x, k) \/ On(y, k)
    BY OrOn
  <2>2. \A k \in BitPos : ~(On(s.value, k) /\ On(s.mask, k)) /\ ~(On(t.value, k) /\ On(t.mask, k))
    BY <1>1, TnumOn
  <2>3. /\ \A k \in BitPos : On(s.mask, k) \/ (On(x, k) <=> On(s.value, k))
        /\ \A k \in BitPos : On(t.mask, k) \/ (On(y, k) <=> On(t.value, k))
    BY <1>1, <1>8, InTnumOn
  <2>4. ASSUME NEW k \in BitPos PROVE On(m, k) \/ (On(Or(x, y), k) <=> On(v, k))
    BY <1>2, <1>3, <1>4, <2>1, <2>3, <2>2
  <2>. QED BY <1>2, <1>4, <1>7, <2>1, <2>4, InTnumOn
<1>. QED BY <1>5, <1>6, <1>8

(* Xor of members is a member of tnum_xor. *)
LEMMA TnumXor ==
  ASSUME NEW s, NEW t, IsTnum(s), IsTnum(t)
  PROVE  /\ IsTnum(tnum_xor(s, t))
         /\ \A x, y \in Word : InTnum(x, s) /\ InTnum(y, t) => InTnum(Xor(x, y), tnum_xor(s, t))
<1>. DEFINE n == Xor(s.value, t.value)
            m == Or(s.mask, t.mask)
            v == And(n, Not(m))
            r == [value |-> v, mask |-> m]
<1>1. /\ s.value \in Word /\ s.mask \in Word /\ And(s.value, s.mask) = 0
      /\ t.value \in Word /\ t.mask \in Word /\ And(t.value, t.mask) = 0
  BY DEF IsTnum
<1>2. /\ n \in Word /\ \A k \in BitPos : On(n, k) <=> ~(On(s.value, k) <=> On(t.value, k))
      /\ m \in Word /\ \A k \in BitPos : On(m, k) <=> On(s.mask, k) \/ On(t.mask, k)
  BY <1>1, OrOn, XorOn
<1>. HIDE DEF m, n
<1>3. Not(m) \in Word /\ \A k \in BitPos : On(Not(m), k) <=> ~On(m, k)
  BY <1>2, NotOn
<1>4. v \in Word /\ \A k \in BitPos : On(v, k) <=> On(n, k) /\ On(Not(m), k)
  BY <1>2, <1>3, AndOn
<1>5. r = tnum_xor(s, t)
  BY DEF tnum_xor, m, n
<1>6. IsTnum(r)
  BY <1>2, MaskedTnum
<1>7. r.value = v /\ r.mask = m /\ r = [value |-> v, mask |-> m]
  OBVIOUS
<1>. HIDE DEF v, r
<1>8. ASSUME NEW x \in Word, NEW y \in Word, InTnum(x, s), InTnum(y, t) PROVE InTnum(Xor(x, y), r)
  <2>1. Xor(x, y) \in Word /\ \A k \in BitPos : On(Xor(x, y), k) <=> ~(On(x, k) <=> On(y, k))
    BY XorOn
  <2>2. /\ \A k \in BitPos : On(s.mask, k) \/ (On(x, k) <=> On(s.value, k))
        /\ \A k \in BitPos : On(t.mask, k) \/ (On(y, k) <=> On(t.value, k))
    BY <1>1, <1>8, InTnumOn
  <2>3. ASSUME NEW k \in BitPos PROVE On(m, k) \/ (On(Xor(x, y), k) <=> On(v, k))
    BY <1>2, <1>3, <1>4, <2>1, <2>2
  <2>. QED BY <1>2, <1>4, <1>7, <2>1, <2>3, InTnumOn
<1>. QED BY <1>5, <1>6, <1>8

(* lsh by a count below the width shifts the members. *)
LEMMA TnumShl ==
  ASSUME NEW t, IsTnum(t), NEW n \in Nat
  PROVE  /\ IsTnum(lsh(t, n))
         /\ n < WordBits => \A w \in Word : InTnum(w, t) => InTnum(Shl(w, n), lsh(t, n))
<1>1. t.value \in Word /\ t.mask \in Word /\ And(t.value, t.mask) = 0 /\ WordBits \in Nat
  BY WordFacts DEF IsTnum
<1>2. CASE n >= WordBits
  <2>1. lsh(t, n) = constant(0)
    BY <1>2 DEF lsh
  <2>2. 0 \in Word /\ ~(n < WordBits)
    BY <1>1, <1>2, WordFacts
  <2>. QED BY <2>1, <2>2, ConstantTnum
<1>3. CASE n < WordBits
  <2>. DEFINE v == Shl(t.value, n)
              m == Shl(t.mask, n)
              r == [value |-> v, mask |-> m]
  <2>1. r = lsh(t, n)
    BY <1>1, <1>3 DEF lsh
  <2>2. \A k \in BitPos : k >= n => k - n \in BitPos
    BY WordFacts DEF BitPos
  <2>3. \A k \in BitPos : ~(On(t.value, k) /\ On(t.mask, k))
    BY <1>1, TnumOn
  <2>4. /\ v \in Word /\ \A k \in BitPos : On(v, k) <=> k >= n /\ On(t.value, k - n)
        /\ m \in Word /\ \A k \in BitPos : On(m, k) <=> k >= n /\ On(t.mask, k - n)
    BY <1>1, ShlOn
  <2>5. r.value = v /\ r.mask = m /\ r = [value |-> v, mask |-> m]
    OBVIOUS
  <2>. HIDE DEF v, m, r
  <2>6. \A k \in BitPos : ~(On(v, k) /\ On(m, k))
    BY <2>2, <2>3, <2>4
  <2>7. IsTnum(r)
    BY <2>4, <2>5, <2>6, TnumOn DEF IsTnum
  <2>8. ASSUME NEW w \in Word, InTnum(w, t) PROVE InTnum(Shl(w, n), r)
    <3>1. Shl(w, n) \in Word /\ \A k \in BitPos : On(Shl(w, n), k) <=> k >= n /\ On(w, k - n)
      BY ShlOn
    <3>2. \A k \in BitPos : On(t.mask, k) \/ (On(w, k) <=> On(t.value, k))
      BY <1>1, <2>8, InTnumOn
    <3>3. ASSUME NEW k \in BitPos PROVE On(m, k) \/ (On(Shl(w, n), k) <=> On(v, k))
      BY <2>2, <2>4, <3>1, <3>2
    <3>. QED BY <2>4, <2>5, <3>1, <3>3, InTnumOn
  <2>. QED BY <2>1, <2>7, <2>8
<1>. QED BY <1>1, <1>2, <1>3

(* rsh likewise; the count is what check_alu bounds. *)
LEMMA TnumShr ==
  ASSUME NEW t, IsTnum(t), NEW n \in Nat
  PROVE  /\ IsTnum(rsh(t, n))
         /\ n < WordBits => \A w \in Word : InTnum(w, t) => InTnum(Shr(w, n), rsh(t, n))
<1>1. t.value \in Word /\ t.mask \in Word /\ And(t.value, t.mask) = 0 /\ WordBits \in Nat
  BY WordFacts DEF IsTnum
<1>2. CASE n >= WordBits
  <2>1. rsh(t, n) = constant(0)
    BY <1>2 DEF rsh
  <2>2. 0 \in Word /\ ~(n < WordBits)
    BY <1>1, <1>2, WordFacts
  <2>. QED BY <2>1, <2>2, ConstantTnum
<1>3. CASE n < WordBits
  <2>. DEFINE v == Shr(t.value, n)
              m == Shr(t.mask, n)
              r == [value |-> v, mask |-> m]
  <2>1. r = rsh(t, n)
    BY <1>1, <1>3 DEF rsh
  <2>3. \A k \in BitPos : ~(On(t.value, k) /\ On(t.mask, k))
    BY <1>1, TnumOn
  <2>4. /\ v \in Word /\ \A k \in BitPos : On(v, k) <=> n + k \in BitPos /\ On(t.value, n + k)
        /\ m \in Word /\ \A k \in BitPos : On(m, k) <=> n + k \in BitPos /\ On(t.mask, n + k)
    BY <1>1, ShrOn
  <2>5. r.value = v /\ r.mask = m /\ r = [value |-> v, mask |-> m]
    OBVIOUS
  <2>. HIDE DEF v, m, r
  <2>6. \A k \in BitPos : ~(On(v, k) /\ On(m, k))
    BY <2>3, <2>4
  <2>7. IsTnum(r)
    BY <2>4, <2>5, <2>6, TnumOn DEF IsTnum
  <2>8. ASSUME NEW w \in Word, InTnum(w, t) PROVE InTnum(Shr(w, n), r)
    <3>1. Shr(w, n) \in Word /\ \A k \in BitPos : On(Shr(w, n), k) <=> n + k \in BitPos /\ On(w, n + k)
      BY ShrOn
    <3>2. \A k \in BitPos : On(t.mask, k) \/ (On(w, k) <=> On(t.value, k))
      BY <1>1, <2>8, InTnumOn
    <3>3. ASSUME NEW k \in BitPos PROVE On(m, k) \/ (On(Shr(w, n), k) <=> On(v, k))
      BY <2>4, <3>1, <3>2
    <3>. QED BY <2>4, <2>5, <3>1, <3>3, InTnumOn
  <2>. QED BY <2>1, <2>7, <2>8
<1>. QED BY <1>1, <1>2, <1>3

(* trunc32 keeps the low halves of the members. *)
LEMMA TnumLow ==
  ASSUME NEW t, IsTnum(t)
  PROVE  /\ IsTnum(trunc32(t))
         /\ \A w \in Word : InTnum(w, t) => InTnum(Low(w), trunc32(t))
<1>. DEFINE v == Low(t.value)
            m == Low(t.mask)
            r == [value |-> v, mask |-> m]
<1>1. t.value \in Word /\ t.mask \in Word /\ And(t.value, t.mask) = 0
  BY DEF IsTnum
<1>2. \A k \in BitPos : ~(On(t.value, k) /\ On(t.mask, k))
  BY <1>1, TnumOn
<1>3. /\ v \in Word /\ \A k \in BitPos : On(v, k) <=> k < HalfBits /\ On(t.value, k)
      /\ m \in Word /\ \A k \in BitPos : On(m, k) <=> k < HalfBits /\ On(t.mask, k)
  BY <1>1, LowOn
<1>4. r = trunc32(t) /\ r.value = v /\ r.mask = m /\ r = [value |-> v, mask |-> m]
  BY DEF trunc32
<1>. HIDE DEF v, m, r
<1>5. IsTnum(r)
  BY <1>2, <1>3, <1>4, TnumOn DEF IsTnum
<1>6. ASSUME NEW w \in Word, InTnum(w, t) PROVE InTnum(Low(w), r)
  <2>1. Low(w) \in Word /\ \A k \in BitPos : On(Low(w), k) <=> k < HalfBits /\ On(w, k)
    BY LowOn
  <2>2. \A k \in BitPos : On(t.mask, k) \/ (On(w, k) <=> On(t.value, k))
    BY <1>1, <1>6, InTnumOn
  <2>3. ASSUME NEW k \in BitPos PROVE On(m, k) \/ (On(Low(w), k) <=> On(v, k))
    BY <1>3, <2>1, <2>2
  <2>. QED BY <1>3, <1>4, <2>1, <2>3, InTnumOn
<1>. QED BY <1>4, <1>5, <1>6

(* The bits of s.value + t.value that no unknown bit reaches are those of  *)
(* every sum: where the least and the greatest sum agree on a bit whose    *)
(* summands are known, the carries into it agree, and so does each carry   *)
(* between them.                                                           *)
LEMMA TnumAddSound ==
  ASSUME NEW s, NEW t, IsTnum(s), IsTnum(t),
         NEW x \in Word, NEW y \in Word, InTnum(x, s), InTnum(y, t), NEW k \in BitPos,
         ~On(s.mask, k), ~On(t.mask, k),
         Bit(max_value(s) + max_value(t), k) = Bit(s.value + t.value, k)
  PROVE  Bit(x + y, k) = Bit(s.value + t.value, k)
<1>. DEFINE a == s.value
            b == t.value
            A == max_value(s)
            B == max_value(t)
<1>1. /\ a \in Word /\ s.mask \in Word /\ And(s.value, s.mask) = 0
      /\ b \in Word /\ t.mask \in Word /\ And(t.value, t.mask) = 0
  BY DEF IsTnum
<1>2. /\ A \in Word /\ \A j \in BitPos : On(A, j) <=> On(a, j) \/ On(s.mask, j)
      /\ B \in Word /\ \A j \in BitPos : On(B, j) <=> On(b, j) \/ On(t.mask, j)
  BY TnumRange
<1>3. /\ \A j \in BitPos : ~(On(a, j) /\ On(s.mask, j)) /\ (On(s.mask, j) \/ (On(x, j) <=> On(a, j)))
      /\ \A j \in BitPos : ~(On(b, j) /\ On(t.mask, j)) /\ (On(t.mask, j) \/ (On(y, j) <=> On(b, j)))
  BY <1>1, TnumOn, InTnumOn
<1>4. ~On(s.mask, k) /\ ~On(t.mask, k) /\ Bit(A + B, k) = Bit(a + b, k)
  OBVIOUS
<1>. HIDE DEF a, b, A, B
<1>5. /\ a \in Int /\ b \in Int /\ A \in Int /\ B \in Int /\ x \in Int /\ y \in Int
      /\ k \in Nat /\ \A j \in 0 .. k - 1 : j \in BitPos
  BY <1>1, <1>2, WordFacts DEF BitPos
<1>6. ASSUME NEW j \in BitPos
      PROVE  /\ Bit(a, j) <= Bit(x, j) /\ Bit(x, j) <= Bit(A, j)
             /\ Bit(b, j) <= Bit(y, j) /\ Bit(y, j) <= Bit(B, j)
  <2>1. /\ Bit(a, j) = IF On(a, j) THEN 1 ELSE 0
        /\ Bit(x, j) = IF On(x, j) THEN 1 ELSE 0
        /\ Bit(A, j) = IF On(A, j) THEN 1 ELSE 0
    BY <1>1, <1>2, OnOrOff
  <2>2. /\ Bit(b, j) = IF On(b, j) THEN 1 ELSE 0
        /\ Bit(y, j) = IF On(y, j) THEN 1 ELSE 0
        /\ Bit(B, j) = IF On(B, j) THEN 1 ELSE 0
    BY <1>1, <1>2, OnOrOff
  <2>3. (On(a, j) => On(x, j)) /\ (On(x, j) => On(A, j))
    BY <1>2, <1>3
  <2>4. (On(b, j) => On(y, j)) /\ (On(y, j) => On(B, j))
    BY <1>2, <1>3
  <2>. QED BY <2>1, <2>2, <2>3, <2>4
<1>7. Carry(a, b, k) <= Carry(x, y, k)
  BY <1>5, <1>6, CarryGrows
<1>8. Carry(x, y, k) <= Carry(A, B, k)
  BY <1>5, <1>6, CarryGrows
<1>9. /\ Bit(a + b, k) = (Bit(a, k) + Bit(b, k) + Carry(a, b, k)) % 2
      /\ Bit(x + y, k) = (Bit(x, k) + Bit(y, k) + Carry(x, y, k)) % 2
      /\ Bit(A + B, k) = (Bit(A, k) + Bit(B, k) + Carry(A, B, k)) % 2
  BY <1>5, BitOfSum
<1>10. /\ Bit(x, k) = Bit(a, k) /\ Bit(A, k) = Bit(a, k)
       /\ Bit(y, k) = Bit(b, k) /\ Bit(B, k) = Bit(b, k)
  <2>1. (On(x, k) <=> On(a, k)) /\ (On(A, k) <=> On(a, k)) /\ (On(y, k) <=> On(b, k)) /\ (On(B, k) <=> On(b, k))
    BY <1>2, <1>3, <1>4
  <2>2. /\ Bit(a, k) = IF On(a, k) THEN 1 ELSE 0
        /\ Bit(x, k) = IF On(x, k) THEN 1 ELSE 0
        /\ Bit(A, k) = IF On(A, k) THEN 1 ELSE 0
    BY <1>1, <1>2, OnOrOff
  <2>3. /\ Bit(b, k) = IF On(b, k) THEN 1 ELSE 0
        /\ Bit(y, k) = IF On(y, k) THEN 1 ELSE 0
        /\ Bit(B, k) = IF On(B, k) THEN 1 ELSE 0
    BY <1>1, <1>2, OnOrOff
  <2>. QED BY <2>1, <2>2, <2>3
<1>11. Bit(a, k) \in {0, 1} /\ Bit(b, k) \in {0, 1}
  BY <1>5, BitType
<1>12. Carry(a, b, k) = Carry(A, B, k)
  <2>1. (Bit(a, k) + Bit(b, k) + Carry(A, B, k)) % 2 = (Bit(a, k) + Bit(b, k) + Carry(a, b, k)) % 2
    BY <1>4, <1>9, <1>10
  <2>2. Carry(a, b, k) \in {0, 1} /\ Carry(A, B, k) \in {0, 1}
    BY CarryType
  <2>. QED BY <1>11, <2>1, <2>2
<1>13. Carry(x, y, k) = Carry(a, b, k)
  BY <1>7, <1>8, <1>12, CarryType
<1>14. Bit(x + y, k) = Bit(a + b, k)
  BY <1>9, <1>10, <1>13
<1>. QED BY <1>14 DEF a, b

(* tnum_add makes a tnum, of any pairs, that holds the wrapped sums of the *)
(* members.                                                                *)
LEMMA TnumAdd ==
  ASSUME NEW s, NEW t, s.value \in Word, s.mask \in Word, t.value \in Word, t.mask \in Word
  PROVE  /\ IsTnum(tnum_add(s, t))
         /\ IsTnum(s) /\ IsTnum(t) =>
              \A x, y \in Word : InTnum(x, s) /\ InTnum(y, t) => InTnum(Wrap(x + y), tnum_add(s, t))
<1>. DEFINE sv  == Wrap(s.value + t.value)
            M   == Wrap(sv + Wrap(s.mask + t.mask))
            chi == Xor(M, sv)
            n   == Or(s.mask, t.mask)
            mu  == Or(chi, n)
            v   == And(sv, Not(mu))
            r   == [value |-> v, mask |-> mu]
<1>1. s.value \in Int /\ s.mask \in Int /\ t.value \in Int /\ t.mask \in Int
  BY WordFacts
<1>2. sv \in Word /\ M \in Word /\ sv \in Int
  <2>1. sv \in Word /\ Wrap(s.mask + t.mask) \in Word
    BY <1>1, WrapIsWord
  <2>2. sv + Wrap(s.mask + t.mask) \in Int /\ sv \in Int
    <3>. HIDE DEF sv
    <3>. QED BY <2>1, WordFacts
  <2>. QED BY <2>1, <2>2, WrapIsWord
<1>3. M = Wrap((s.value + s.mask) + (t.value + t.mask))
  <2>. DEFINE p == 2^WordBits
              c == s.value + t.value
              d == s.mask + t.mask
  <2>1. p \in Nat \ {0} /\ c \in Int /\ d \in Int /\ c % p \in Int /\ d % p \in Int
    <3>1. p \in Nat \ {0} /\ c \in Int /\ d \in Int
      BY <1>1, WordFacts
    <3>. HIDE DEF p, c, d
    <3>. QED BY <3>1, Division
  <2>2. c + d = (s.value + s.mask) + (t.value + t.mask)
    BY <1>1
  <2>3. M = ((c % p) + (d % p)) % p
    BY DEF Wrap
  <2>. HIDE DEF p, c, d, M
  <2>4. ((c % p) + (d % p)) % p = (c + d) % p
    BY <2>1, SumOfRests
  <2>. QED BY <2>2, <2>3, <2>4 DEF Wrap, p
<1>4. r = tnum_add(s, t)
  BY DEF tnum_add
<1>5. r.value = v /\ r.mask = mu
  OBVIOUS
<1>6. \A k \in BitPos : Bit(sv, k) = Bit(s.value + t.value, k)
  BY <1>1, BitOfWrap
<1>. HIDE DEF sv, M
<1>7. chi \in Word /\ \A k \in BitPos : On(chi, k) <=> ~(On(M, k) <=> On(sv, k))
  BY <1>2, XorOn
<1>8. n \in Word /\ \A k \in BitPos : On(n, k) <=> On(s.mask, k) \/ On(t.mask, k)
  BY OrOn
<1>. HIDE DEF chi, n
<1>9. mu \in Word /\ \A k \in BitPos : On(mu, k) <=> On(chi, k) \/ On(n, k)
  BY <1>7, <1>8, OrOn
<1>. HIDE DEF mu
<1>10. Not(mu) \in Word /\ \A k \in BitPos : On(Not(mu), k) <=> ~On(mu, k)
  BY <1>9, NotOn
<1>11. v \in Word /\ \A k \in BitPos : On(v, k) <=> On(sv, k) /\ On(Not(mu), k)
  BY <1>2, <1>10, AndOn
<1>12. IsTnum(r)
  BY <1>2, <1>9, MaskedTnum
<1>. HIDE DEF v, r
<1>13. ASSUME IsTnum(s), IsTnum(t), NEW x \in Word, NEW y \in Word, InTnum(x, s), InTnum(y, t)
       PROVE  InTnum(Wrap(x + y), r)
  <2>1. x + y \in Int /\ Wrap(x + y) \in Word
    <3>1. x + y \in Int
      BY WordFacts
    <3>. QED BY <3>1, WrapIsWord
  <2>2. max_value(s) = s.value + s.mask /\ max_value(t) = t.value + t.mask
    BY <1>1, <1>13 DEF IsTnum, max_value, Or
  <2>3. ASSUME NEW k \in BitPos PROVE On(mu, k) \/ (On(Wrap(x + y), k) <=> On(v, k))
    <3>. SUFFICES ASSUME ~On(mu, k) PROVE On(Wrap(x + y), k) <=> On(v, k)
      OBVIOUS
    <3>1. ~On(s.mask, k) /\ ~On(t.mask, k) /\ (On(M, k) <=> On(sv, k))
      BY <1>7, <1>8, <1>9
    <3>2. /\ Bit(M, k) = IF On(M, k) THEN 1 ELSE 0
          /\ Bit(sv, k) = IF On(sv, k) THEN 1 ELSE 0
      BY <1>2, OnOrOff
    <3>3. Bit(M, k) = Bit(sv, k)
      BY <3>1, <3>2
    <3>4. Bit(M, k) = Bit(max_value(s) + max_value(t), k)
      <4>1. (s.value + s.mask) + (t.value + t.mask) \in Int
        BY <1>1
      <4>. QED BY <1>3, <2>2, <4>1, BitOfWrap
    <3>5. Bit(x + y, k) = Bit(s.value + t.value, k)
      <4>1. Bit(max_value(s) + max_value(t), k) = Bit(s.value + t.value, k)
        BY <1>6, <3>3, <3>4
      <4>. QED BY <1>13, <3>1, <4>1, TnumAddSound
    <3>6. Bit(Wrap(x + y), k) = Bit(sv, k)
      BY <1>6, <2>1, <3>5, BitOfWrap
    <3>7. On(v, k) <=> On(sv, k)
      BY <1>10, <1>11
    <3>. QED BY <3>6, <3>7 DEF On
  <2>. QED BY <1>5, <1>9, <1>11, <2>1, <2>3, InTnumOn
<1>. QED BY <1>4, <1>12, <1>13

(* tnum_sub makes a tnum.  That it holds the differences is not so in      *)
(* general.                                                                *)
LEMMA TnumSub ==
  ASSUME NEW s, NEW t, IsTnum(s), IsTnum(t)
  PROVE  IsTnum(tnum_sub(s, t))
<1>. DEFINE u == [value |-> Wrap(-t.value), mask |-> t.mask]
<1>1. s.value \in Word /\ s.mask \in Word /\ t.value \in Word /\ t.mask \in Word /\ -t.value \in Int
  BY WordFacts DEF IsTnum
<1>2. u.value \in Word /\ u.mask \in Word
  BY <1>1, WrapIsWord
<1>3. tnum_sub(s, t) = tnum_add(s, u)
  BY DEF tnum_sub
<1>. HIDE DEF u
<1>. QED BY <1>1, <1>2, <1>3, TnumAdd

(* Widening keeps the words of both, and a narrower tracked number has no  *)
(* words that the wider one has not.                                       *)
LEMMA TnumJoin ==
  ASSUME NEW s, NEW t, IsTnum(s), IsTnum(t)
  PROVE  /\ IsTnum(tnum_join(s, t))
         /\ \A w \in Word : InTnum(w, s) \/ InTnum(w, t) => InTnum(w, tnum_join(s, t))
<1>. DEFINE v == And(s.value, t.value)
            n == Or(s.mask, t.mask)
            x == Xor(s.value, t.value)
            m == Or(n, x)
            r == [value |-> v, mask |-> m]
<1>1. /\ s.value \in Word /\ s.mask \in Word /\ And(s.value, s.mask) = 0
      /\ t.value \in Word /\ t.mask \in Word /\ And(t.value, t.mask) = 0
  BY DEF IsTnum
<1>2. \A k \in BitPos : ~(On(s.value, k) /\ On(s.mask, k)) /\ ~(On(t.value, k) /\ On(t.mask, k))
  BY <1>1, TnumOn
<1>3. v \in Word /\ \A k \in BitPos : On(v, k) <=> On(s.value, k) /\ On(t.value, k)
  BY <1>1, AndOn
<1>4. n \in Word /\ \A k \in BitPos : On(n, k) <=> On(s.mask, k) \/ On(t.mask, k)
  BY <1>1, OrOn
<1>5. x \in Word /\ \A k \in BitPos : On(x, k) <=> ~(On(s.value, k) <=> On(t.value, k))
  BY <1>1, XorOn
<1>6. r = tnum_join(s, t)
  BY DEF tnum_join
<1>. HIDE DEF v, n, x
<1>7. m \in Word /\ \A k \in BitPos : On(m, k) <=> On(n, k) \/ On(x, k)
  BY <1>4, <1>5, OrOn
<1>8. r.value = v /\ r.mask = m /\ r = [value |-> v, mask |-> m]
  OBVIOUS
<1>. HIDE DEF m, r
<1>9. \A k \in BitPos : ~(On(v, k) /\ On(m, k))
  BY <1>2, <1>3, <1>4, <1>5, <1>7
<1>10. IsTnum(r)
  BY <1>3, <1>7, <1>8, <1>9, TnumOn DEF IsTnum
<1>11. ASSUME NEW w \in Word, InTnum(w, s) \/ InTnum(w, t) PROVE InTnum(w, r)
  <2>1. \/ \A k \in BitPos : On(s.mask, k) \/ (On(w, k) <=> On(s.value, k))
        \/ \A k \in BitPos : On(t.mask, k) \/ (On(w, k) <=> On(t.value, k))
    BY <1>1, <1>11, InTnumOn
  <2>2. ASSUME NEW k \in BitPos PROVE On(m, k) \/ (On(w, k) <=> On(v, k))
    BY <1>3, <1>4, <1>5, <1>7, <2>1
  <2>. QED BY <1>3, <1>7, <1>8, <2>2, InTnumOn
<1>. QED BY <1>6, <1>10, <1>11

(* A tnum that tnum_leq finds below another has no member that the other   *)
(* lacks.                                                                  *)
LEMMA TnumLeq ==
  ASSUME NEW s, NEW t, IsTnum(s), IsTnum(t), tnum_leq(s, t), NEW w \in Word, InTnum(w, s)
  PROVE  InTnum(w, t)
<1>. DEFINE c == Not(t.mask)
<1>1. s.value \in Word /\ s.mask \in Word /\ t.value \in Word /\ t.mask \in Word
  BY DEF IsTnum
<1>2. And(s.mask, c) = 0 /\ And(s.value, c) = And(t.value, c)
  BY DEF tnum_leq
<1>3. c \in Word /\ \A k \in BitPos : On(c, k) <=> ~On(t.mask, k)
  BY <1>1, NotOn
<1>. HIDE DEF c
<1>4. \A k \in BitPos : ~(On(s.mask, k) /\ On(c, k))
  BY <1>1, <1>2, <1>3, TnumOn
<1>5. /\ \A k \in BitPos : On(And(s.value, c), k) <=> On(s.value, k) /\ On(c, k)
      /\ \A k \in BitPos : On(And(t.value, c), k) <=> On(t.value, k) /\ On(c, k)
  BY <1>1, <1>3, AndOn
<1>6. \A k \in BitPos : On(s.mask, k) \/ (On(w, k) <=> On(s.value, k))
  BY <1>1, InTnumOn
<1>7. ASSUME NEW k \in BitPos PROVE On(t.mask, k) \/ (On(w, k) <=> On(t.value, k))
  <2>1. On(s.value, k) /\ On(c, k) <=> On(t.value, k) /\ On(c, k)
    BY <1>2, <1>5
  <2>. QED BY <1>3, <1>4, <1>6, <2>1
<1>. QED BY <1>1, <1>7, InTnumOn

-----------------------------------------------------------------------------
(* Every instruction makes a word of words. *)
LEMMA Alu64IsWord ==
  ASSUME NEW op \in AluOp, NEW d \in Word, NEW s \in Word
  PROVE  alu64(op, d, s) \in Word
<1>. DEFINE n == s % WordBits
<1>1. d \in Int /\ s \in Int /\ n \in Nat /\ 0 \in Word
  <2>1. WordBits \in Nat \ {0} /\ s \in Int /\ d \in Int
    BY WordFacts
  <2>. QED BY <2>1, Division, WordFacts
<1>. HIDE DEF n
<1>2. d + s \in Int /\ d - s \in Int /\ d * s \in Int /\ -d \in Int
  BY <1>1
<1>3. Wrap(d + s) \in Word /\ Wrap(d - s) \in Word /\ Wrap(d * s) \in Word /\ Wrap(-d) \in Word
  BY <1>2, WrapIsWord
<1>4. And(d, s) \in Word /\ Or(d, s) \in Word /\ Xor(d, s) \in Word
  BY AndOn, OrOn, XorOn
<1>5. Shl(d, n) \in Word /\ Shr(d, n) \in Word /\ Ashr(d, n) \in Word
  BY <1>1, ShlOn, ShrOn, AshrIsWord
<1>6. s # 0 => d \div s \in Word /\ d % s \in Word
  BY QuotientIsWord
<1>7. alu64(op, d, s) =
        CASE op = "Add"  -> Wrap(d + s)
          [] op = "Sub"  -> Wrap(d - s)
          [] op = "Mul"  -> Wrap(d * s)
          [] op = "Div"  -> IF s = 0 THEN 0 ELSE d \div s
          [] op = "Mod"  -> IF s = 0 THEN d ELSE d % s
          [] op = "Or"   -> Or(d, s)
          [] op = "And"  -> And(d, s)
          [] op = "Xor"  -> Xor(d, s)
          [] op = "Lsh"  -> Shl(d, n)
          [] op = "Rsh"  -> Shr(d, n)
          [] op = "Arsh" -> Ashr(d, n)
          [] op = "Neg"  -> Wrap(-d)
          [] op = "Mov"  -> s
  BY DEF alu64, n
<1>. QED BY <1>1, <1>3, <1>4, <1>5, <1>6, <1>7 DEF AluOp

(* The 32-bit operations of the run yield words. *)
LEMMA Alu32IsWord ==
  ASSUME NEW op \in AluOp, NEW x \in Word, NEW y \in Word
  PROVE  alu32(op, x, y) \in Word
<1>. DEFINE d == Low(x)
            s == Low(y)
            n == s % HalfBits
<1>1. d \in Word /\ s \in Word
  BY LowOn
<1>2. d \in Int /\ s \in Int /\ n \in Nat /\ 2^n \in Nat \ {0}
  <2>. HIDE DEF s, d
  <2>1. HalfBits \in Nat \ {0} /\ s \in Int /\ d \in Int
    BY <1>1, WordFacts
  <2>2. n \in Nat
    BY <2>1, Division
  <2>. QED BY <2>1, <2>2, PowerPositive
<1>3. alu32(op, x, y) =
        CASE op \in {"Add", "Sub", "Mul", "Div", "Or", "And", "Xor", "Neg", "Mov"} ->
               Low(alu64(op, d, s))
          [] op = "Mod"  -> IF s = 0 THEN x ELSE d % s
          [] op = "Lsh"  -> Low(d * 2^n)
          [] op = "Rsh"  -> Shr(d, n)
          [] op = "Arsh" -> Low(SignedHalf(d) \div 2^n)
  BY DEF alu32, d, s, n, Shr, Low
<1>. HIDE DEF d, s, n
<1>4. alu64(op, d, s) \in Int
  BY <1>1, Alu64IsWord, WordFacts
<1>5. SignedHalf(d) \in Int
  BY <1>2, SignedHalfRange, SignedFacts
<1>6. d * 2^n \in Int /\ SignedHalf(d) \div 2^n \in Int
  BY <1>2, <1>5, Division
<1>7. Low(alu64(op, d, s)) \in Word /\ Low(d * 2^n) \in Word /\ Low(SignedHalf(d) \div 2^n) \in Word
  BY <1>4, <1>6, LowIsWord
<1>8. Shr(d, n) \in Word
  BY <1>1, <1>2, ShrOn
<1>9. s # 0 => d % s \in Word
  BY <1>1, QuotientIsWord
<1>. QED BY <1>3, <1>7, <1>8, <1>9 DEF AluOp

(* Every operation of the run yields a word. *)
LEMMA AluIsWord ==
  ASSUME NEW op \in AluOp, NEW is_64, NEW d \in Word, NEW s \in Word
  PROVE  alu(op, is_64, d, s) \in Word
BY Alu64IsWord, Alu32IsWord DEF alu

(* The operations whose low half depends on the low halves alone. *)
LEMMA LowOfAlu ==
  ASSUME NEW op \in {"Add", "Mul", "Or", "And", "Xor"}, NEW x \in Word, NEW y \in Word
  PROVE  Low(alu64(op, Low(x), Low(y))) = Low(alu64(op, x, y))
<1>. DEFINE m == 2^HalfBits
            d == Low(x)
            s == Low(y)
<1>1. x \in Int /\ y \in Int /\ m \in Nat \ {0} /\ d \in Word /\ s \in Word /\ d \in Int /\ s \in Int
  BY LowOn, WordFacts
<1>2. d = x % m /\ s = y % m
  BY DEF Low
<1>3. /\ \A k \in BitPos : On(d, k) <=> k < HalfBits /\ On(x, k)
      /\ \A k \in BitPos : On(s, k) <=> k < HalfBits /\ On(y, k)
  BY LowOn
<1>4. \A n : Low(n) = n % m
  BY DEF Low
<1>. HIDE DEF m, d, s
<1>5. CASE op = "Add"
  <2>1. (d + s) % m = (x + y) % m
    BY <1>1, <1>2, SumOfRests
  <2>2. d + s \in Int /\ x + y \in Int
    BY <1>1
  <2>3. Low(Wrap(d + s)) = (d + s) % m /\ Low(Wrap(x + y)) = (x + y) % m
    BY <1>4, <2>2, LowOfWrap
  <2>4. alu64(op, d, s) = Wrap(d + s) /\ alu64(op, x, y) = Wrap(x + y)
    BY <1>5 DEF alu64
  <2>. QED BY <2>1, <2>3, <2>4 DEF d, s
<1>6. CASE op = "Mul"
  <2>1. (d * s) % m = (x * y) % m
    BY <1>1, <1>2, SumOfRests
  <2>2. d * s \in Int /\ x * y \in Int
    BY <1>1
  <2>3. Low(Wrap(d * s)) = (d * s) % m /\ Low(Wrap(x * y)) = (x * y) % m
    BY <1>4, <2>2, LowOfWrap
  <2>4. alu64(op, d, s) = Wrap(d * s) /\ alu64(op, x, y) = Wrap(x * y)
    BY <1>6 DEF alu64
  <2>. QED BY <2>1, <2>3, <2>4 DEF d, s
<1>7. CASE op \in {"Or", "And", "Xor"}
  <2>. DEFINE v == alu64(op, d, s)
              w == alu64(op, x, y)
  <2>1. /\ op = "Or" => v = Or(d, s) /\ w = Or(x, y)
        /\ op = "And" => v = And(d, s) /\ w = And(x, y)
        /\ op = "Xor" => v = Xor(d, s) /\ w = Xor(x, y)
    BY <1>7 DEF alu64
  <2>. HIDE DEF v, w
  <2>2. v \in Word /\ w \in Word
    BY <1>1, <1>7, <2>1, OrOn, AndOn, XorOn
  <2>3. ASSUME NEW k \in BitPos, k < HalfBits PROVE On(v, k) <=> On(w, k)
    <3>1. (On(d, k) <=> On(x, k)) /\ (On(s, k) <=> On(y, k))
      BY <1>3, <2>3
    <3>2. CASE op = "Or"
      <4>1. (On(v, k) <=> On(d, k) \/ On(s, k)) /\ (On(w, k) <=> On(x, k) \/ On(y, k))
        BY <1>1, <2>1, <3>2, OrOn
      <4>. QED BY <3>1, <4>1
    <3>3. CASE op = "And"
      <4>1. (On(v, k) <=> On(d, k) /\ On(s, k)) /\ (On(w, k) <=> On(x, k) /\ On(y, k))
        BY <1>1, <2>1, <3>3, AndOn
      <4>. QED BY <3>1, <4>1
    <3>4. CASE op = "Xor"
      <4>1. (On(v, k) <=> ~(On(d, k) <=> On(s, k))) /\ (On(w, k) <=> ~(On(x, k) <=> On(y, k)))
        BY <1>1, <2>1, <3>4, XorOn
      <4>. QED BY <3>1, <4>1
    <3>. QED BY <1>7, <3>2, <3>3, <3>4
  <2>4. /\ Low(v) \in Word /\ \A k \in BitPos : On(Low(v), k) <=> k < HalfBits /\ On(v, k)
        /\ Low(w) \in Word /\ \A k \in BitPos : On(Low(w), k) <=> k < HalfBits /\ On(w, k)
    BY <2>2, LowOn
  <2>5. \A k \in BitPos : On(Low(v), k) <=> On(Low(w), k)
    BY <2>3, <2>4
  <2>6. Low(v) = Low(w)
    BY <2>4, <2>5, EqualWords
  <2>. QED BY <2>6 DEF v, w, d, s
<1>. QED BY <1>5, <1>6, <1>7

(* A left shift by n of the low half, and the low half of a left shift. *)
LEMMA LowOfShl ==
  ASSUME NEW x \in Word, NEW n \in Nat
  PROVE  Low(Low(x) * 2^n) = Low(Shl(x, n))
<1>. DEFINE m == 2^HalfBits
            p == 2^n
<1>1. x \in Int /\ m \in Nat \ {0} /\ p \in Int
  BY WordFacts, PowerPositive
<1>2. \A i : Low(i) = i % m
  BY DEF Low
<1>3. Shl(x, n) = Wrap(x * p)
  BY DEF Shl
<1>. HIDE DEF m, p
<1>4. x % m \in Int /\ x * p \in Int /\ (x % m) * p \in Int
  <2>1. x % m \in Int
    BY <1>1, Division
  <2>. QED BY <1>1, <2>1
<1>5. (((x % m) % m) * (p % m)) % m = ((x % m) * p) % m
  BY <1>1, <1>4, ProductOfRests, Zenon
<1>6. ((x % m) * (p % m)) % m = (x * p) % m
  BY <1>1, ProductOfRests, Zenon
<1>7. (x % m) % m = x % m
  BY <1>1
<1>8. Low(Wrap(x * p)) = (x * p) % m
  BY <1>2, <1>4, LowOfWrap
<1>. QED BY <1>2, <1>3, <1>5, <1>6, <1>7, <1>8 DEF p

-----------------------------------------------------------------------------
(* Scalar registers. *)

(* What a register says of a word, as far as the unsigned bounds need it. *)
Sound(r, w) == KnownBits(r, w) /\ UnsignedBounds(r, w) /\ WrappedBounds(r, w)

(* s is well formed and speaks for every word that r speaks for. *)
Keeps(r, s) ==
  /\ WellFormed(s)
  /\ \A w \in Word : Sound(r, w) => Sound(s, w) /\ (SignedBounds(r, w) => SignedBounds(s, w))

(* Words and signed words are integers. *)
LEMMA WordInt == (\A w \in Word : w \in Int /\ w >= 0) /\ (\A n \in SignedWord : n \in Int)
BY WordFacts, SignedFacts

(* The parts of a well-formed register. *)
LEMMA Fields ==
  ASSUME NEW r, WellFormed(r)
  PROVE  /\ r.type = Scalar /\ IsTnum(r.tnum)
         /\ r.smin \in SignedWord /\ r.smax \in SignedWord /\ r.umin \in Word /\ r.umax \in Word
         /\ r.smin \in Int /\ r.smax \in Int /\ r.umin \in Int /\ r.umax \in Int
         /\ r.umin >= 0 /\ r.umax >= 0
<1>1. /\ r.type = Scalar /\ IsTnum(r.tnum)
      /\ r.smin \in SignedWord /\ r.smax \in SignedWord /\ r.umin \in Word /\ r.umax \in Word
  BY DEF WellFormed, IsTnum, Tnum
<1>. QED BY <1>1, WordInt

(* A register made of such parts is well formed. *)
LEMMA FieldsMake ==
  ASSUME NEW t, IsTnum(t), NEW a \in SignedWord, NEW b \in SignedWord, NEW c \in Word, NEW d \in Word
  PROVE  WellFormed([type |-> Scalar, tnum |-> t, smin |-> a, smax |-> b, umin |-> c, umax |-> d])
BY DEF WellFormed, IsTnum, Tnum

(* The lesser and the greater of two numbers is one of them. *)
LEMMA LesserGreater ==
  \A a, b \in Int : /\ Lesser(a, b) \in {a, b} /\ Lesser(a, b) <= a /\ Lesser(a, b) <= b
                    /\ Greater(a, b) \in {a, b} /\ Greater(a, b) >= a /\ Greater(a, b) >= b
BY DEF Lesser, Greater

(* Bounds are all that a step may have changed. *)
LEMMA KeepsTransitive ==
  ASSUME NEW r, NEW s, NEW t, Keeps(r, s), Keeps(s, t)
  PROVE  Keeps(r, t)
BY DEF Keeps

-----------------------------------------------------------------------------
(* First step of refine_bounds: the unsigned bounds from the tnum. *)
LEMMA KeepsUnsignedFromTnum ==
  ASSUME NEW r, WellFormed(r)
  PROVE  Keeps(r, UnsignedFromTnum(r))
<1>. DEFINE a == Greater(r.umin, min_value(r.tnum))
            b == Lesser(r.umax, max_value(r.tnum))
            s == UnsignedFromTnum(r)
<1>1. /\ min_value(r.tnum) \in Word /\ max_value(r.tnum) \in Word
      /\ r.umin \in Word /\ r.umax \in Word /\ r.tnum.value \in Word
      /\ \A w \in Word : InTnum(w, r.tnum) => min_value(r.tnum) <= w /\ w <= max_value(r.tnum)
  BY Fields, TnumRange DEF IsTnum
<1>2. a \in {r.umin, min_value(r.tnum)} /\ b \in {r.umax, max_value(r.tnum)}
  BY <1>1, WordInt, LesserGreater
<1>3. s = [r EXCEPT !.umin = a, !.umax = b]
  BY DEF UnsignedFromTnum
<1>. HIDE DEF a, b, s
<1>4. a \in Word /\ b \in Word
  BY <1>1, <1>2
<1>5. /\ WellFormed(s)
      /\ s.tnum = r.tnum /\ s.smin = r.smin /\ s.smax = r.smax /\ s.umin = a /\ s.umax = b
  BY <1>3, <1>4 DEF WellFormed
<1>6. ASSUME NEW w \in Word, Sound(r, w) PROVE Sound(s, w) /\ (SignedBounds(r, w) => SignedBounds(s, w))
  <2>1. min_value(r.tnum) <= w /\ w <= max_value(r.tnum) /\ r.umin <= w /\ w <= r.umax
    BY <1>1, <1>6 DEF Sound, KnownBits, UnsignedBounds
  <2>2. a <= w /\ w <= b
    BY <1>2, <2>1
  <2>. QED BY <1>5, <1>6, <2>2 DEF Sound, KnownBits, UnsignedBounds, WrappedBounds, SignedBounds
<1>. QED BY <1>5, <1>6 DEF Keeps, s

(* Second step: equal unsigned bounds make the tnum a constant. *)
LEMMA KeepsTnumFromUnsigned ==
  ASSUME NEW r, WellFormed(r)
  PROVE  Keeps(r, TnumFromUnsigned(r))
<1>. DEFINE s == TnumFromUnsigned(r)
<1>1. CASE r.umin # r.umax
  BY <1>1 DEF Keeps, TnumFromUnsigned
<1>2. CASE r.umin = r.umax
  <2>1. r.umin \in Word /\ r.umax \in Word
    BY Fields
  <2>2. IsTnum(constant(r.umin)) /\ InTnum(r.umin, constant(r.umin))
    BY <2>1, ConstantTnum
  <2>3. s = [r EXCEPT !.tnum = constant(r.umin)]
    BY <1>2 DEF TnumFromUnsigned
  <2>. HIDE DEF s
  <2>4. /\ WellFormed(s) /\ s.tnum = constant(r.umin)
        /\ s.smin = r.smin /\ s.smax = r.smax /\ s.umin = r.umin /\ s.umax = r.umax
    BY <2>2, <2>3 DEF WellFormed, IsTnum, Tnum
  <2>5. ASSUME NEW w \in Word, Sound(r, w) PROVE w = r.umin
    BY <1>2, <2>1, <2>5, WordInt DEF Sound, UnsignedBounds
  <2>. QED BY <2>2, <2>4, <2>5 DEF Keeps, Sound, KnownBits, UnsignedBounds, WrappedBounds, SignedBounds, s
<1>. QED BY <1>1, <1>2

(* Third step: the signed bounds from unsigned ones that are not negative  *)
(* as signed numbers; such a word is its own signed reading.               *)
LEMMA KeepsSignedFromUnsigned ==
  ASSUME NEW r, WellFormed(r)
  PROVE  Keeps(r, SignedFromUnsigned(r))
<1>. DEFINE s == SignedFromUnsigned(r)
            a == Greater(r.smin, r.umin)
            b == Lesser(r.smax, r.umax)
<1>1. CASE ~(r.umin <= MaxSigned /\ r.umax <= MaxSigned)
  BY <1>1 DEF Keeps, SignedFromUnsigned
<1>2. CASE r.umin <= MaxSigned /\ r.umax <= MaxSigned
  <2>1. /\ r.umin \in Word /\ r.umax \in Word /\ r.smin \in SignedWord /\ r.smax \in SignedWord
        /\ r.smin \in Int /\ r.smax \in Int /\ r.umin \in Int /\ r.umax \in Int
        /\ r.umin >= 0 /\ r.umax >= 0
    BY Fields
  <2>2. a \in {r.smin, r.umin} /\ a >= r.smin /\ a >= r.umin /\ b \in {r.smax, r.umax}
    BY <2>1, WordInt, LesserGreater
  <2>3. r.umin \in SignedWord /\ r.umax \in SignedWord
    BY <1>2, <2>1, WordFacts, SignedFacts
  <2>4. s = [r EXCEPT !.smin = a, !.smax = b]
    BY <1>2 DEF SignedFromUnsigned
  <2>. HIDE DEF s, a, b
  <2>5. a \in SignedWord /\ b \in SignedWord
    BY <2>1, <2>2, <2>3
  <2>6. /\ WellFormed(s) /\ s.tnum = r.tnum
        /\ s.smin = a /\ s.smax = b /\ s.umin = r.umin /\ s.umax = r.umax
    BY <2>4, <2>5 DEF WellFormed
  <2>7. ASSUME NEW w \in Word, Sound(r, w)
        PROVE  WrappedBounds(s, w) /\ (SignedBounds(r, w) => SignedBounds(s, w))
    <3>1. w \in Int /\ r.umin <= w /\ w <= r.umax /\ w <= MaxSigned /\ Signed(w) = w
      <4>1. w \in Int /\ r.umin <= w /\ w <= r.umax
        BY <2>7, WordInt DEF Sound, UnsignedBounds
      <4>2. w <= MaxSigned
        BY <1>2, <2>1, <4>1, SignedFacts, WordInt
      <4>. QED BY <4>1, <4>2, SignedOfWord
    <3>2. a >= 0 /\ a \in Int /\ b \in Int
      BY <2>1, <2>2
    <3>3. /\ Wrap(r.smax) = IF r.smax >= 0 THEN r.smax ELSE r.smax + 2^WordBits
          /\ Wrap(b) = IF b >= 0 THEN b ELSE b + 2^WordBits
      BY <2>1, <2>5, WrapOfSigned
    <3>4. a <= w
      <4>1. r.smin <= w
        BY <2>7, <3>1 DEF Sound, WrappedBounds, SignedBounds
      <4>. QED BY <2>2, <3>1, <4>1
    <3>5. w <= Wrap(b)
      <4>1. CASE r.smin < 0
        <5>1. w <= r.smax
          BY <2>7, <3>1, <4>1 DEF Sound, WrappedBounds, SignedBounds
        <5>2. w <= b /\ b >= 0
          BY <2>1, <2>2, <3>1, <5>1
        <5>. QED BY <3>3, <5>2
      <4>2. CASE ~(r.smin < 0)
        <5>1. w <= Wrap(r.smax)
          BY <2>7, <4>2 DEF Sound, WrappedBounds
        <5>2. b = r.umax \/ b = r.smax
          BY <2>2
        <5>. QED BY <2>1, <3>1, <3>3, <5>1, <5>2
      <4>. QED BY <4>1, <4>2
    <3>6. WrappedBounds(s, w)
      BY <2>6, <3>2, <3>4, <3>5 DEF WrappedBounds
    <3>7. SignedBounds(r, w) => w <= b
      BY <2>2, <3>1 DEF SignedBounds
    <3>. QED BY <2>6, <3>1, <3>4, <3>6, <3>7 DEF SignedBounds
  <2>. QED BY <2>6, <2>7 DEF Keeps, Sound, KnownBits, UnsignedBounds, s
<1>. QED BY <1>1, <1>2

(* Fourth step: the unsigned bounds from signed ones that are not          *)
(* negative.  It needs of the signed bounds what WrappedBounds says of     *)
(* them, and no more.                                                      *)
LEMMA KeepsUnsignedFromSigned ==
  ASSUME NEW r, WellFormed(r)
  PROVE  Keeps(r, UnsignedFromSigned(r))
<1>. DEFINE s == UnsignedFromSigned(r)
            a == Greater(r.umin, Wrap(r.smin))
            b == Lesser(r.umax, Wrap(r.smax))
<1>1. CASE ~(r.smin >= 0)
  BY <1>1 DEF Keeps, UnsignedFromSigned
<1>2. CASE r.smin >= 0
  <2>1. /\ r.umin \in Word /\ r.umax \in Word /\ r.smin \in SignedWord /\ r.smax \in SignedWord
        /\ r.smin \in Int /\ r.smax \in Int /\ r.umin \in Int /\ r.umax \in Int
        /\ r.umin >= 0 /\ r.umax >= 0
    BY Fields
  <2>2. Wrap(r.smin) \in Word /\ Wrap(r.smax) \in Word /\ Wrap(r.smin) = r.smin
    BY <1>2, <2>1, WrapOfSigned
  <2>3. a \in {r.umin, Wrap(r.smin)} /\ b \in {r.umax, Wrap(r.smax)}
    BY <2>1, <2>2, WordInt, LesserGreater
  <2>4. s = [r EXCEPT !.umin = a, !.umax = b]
    BY <1>2 DEF UnsignedFromSigned
  <2>. HIDE DEF s, a, b
  <2>5. a \in Word /\ b \in Word
    BY <2>1, <2>2, <2>3
  <2>6. /\ WellFormed(s) /\ s.tnum = r.tnum
        /\ s.smin = r.smin /\ s.smax = r.smax /\ s.umin = a /\ s.umax = b
    BY <2>4, <2>5 DEF WellFormed
  <2>7. ASSUME NEW w \in Word, Sound(r, w) PROVE a <= w /\ w <= b
    <3>1. ~(r.smin < 0)
      BY <1>2, <2>1
    <3>2. r.umin <= w /\ w <= r.umax /\ r.smin <= w /\ w <= Wrap(r.smax)
      BY <2>7, <3>1 DEF Sound, UnsignedBounds, WrappedBounds
    <3>. QED BY <2>2, <2>3, <3>2
  <2>. QED BY <2>6, <2>7 DEF Keeps, Sound, KnownBits, UnsignedBounds, WrappedBounds, SignedBounds, s
<1>. QED BY <1>1, <1>2

(* A word by its signed reading. *)
LEMMA WrappedBySigned ==
  ASSUME NEW w \in Word
  PROVE  w = IF Signed(w) >= 0 THEN Signed(w) ELSE Signed(w) + 2^WordBits
BY SignedOfWord, SignedFacts, WordFacts

(* A register of one word. *)
LEMMA OneWord ==
  ASSUME NEW r, NEW w \in Word, r.umin = w, r.umax = w, r.smin = Signed(w), r.smax = Signed(w),
         r.tnum = constant(w)
  PROVE  Sound(r, w) /\ SignedBounds(r, w)
<1>1. Signed(w) \in SignedWord /\ Signed(w) \in Int /\ w \in Int
  BY SignedOfWord, WordInt
<1>2. SignedBounds(r, w) /\ UnsignedBounds(r, w)
  BY <1>1 DEF SignedBounds, UnsignedBounds
<1>3. Wrap(Signed(w)) = w
  BY <1>1, WrapOfSigned, WrappedBySigned
<1>4. ~(Signed(w) < 0) => Signed(w) = w
  BY <1>1, WrappedBySigned
<1>5. WrappedBounds(r, w)
  BY <1>1, <1>2, <1>3, <1>4 DEF WrappedBounds
<1>6. KnownBits(r, w)
  BY ConstantTnum DEF KnownBits
<1>. QED BY <1>2, <1>5, <1>6 DEF Sound

(* Last step: equal unsigned bounds make a constant of the register. *)
LEMMA KeepsCollapsed ==
  ASSUME NEW r, WellFormed(r)
  PROVE  Keeps(r, Collapsed(r))
<1>. DEFINE s == Collapsed(r)
            u == r.umin
<1>1. CASE r.umin # r.umax
  BY <1>1 DEF Keeps, Collapsed
<1>2. CASE r.umin = r.umax
  <2>1. u \in Word /\ r.umax = u
    BY <1>2, Fields
  <2>2. IsTnum(constant(u)) /\ Signed(u) \in SignedWord
    BY <2>1, ConstantTnum, SignedOfWord
  <2>3. s = [r EXCEPT !.tnum = constant(u), !.smin = Signed(u), !.smax = Signed(u)]
    BY <1>2 DEF Collapsed
  <2>. HIDE DEF s
  <2>4. /\ WellFormed(s) /\ s.tnum = constant(u)
        /\ s.smin = Signed(u) /\ s.smax = Signed(u) /\ s.umin = u /\ s.umax = u
    BY <2>1, <2>2, <2>3 DEF WellFormed, IsTnum, Tnum
  <2>. HIDE DEF u
  <2>5. Sound(s, u) /\ SignedBounds(s, u)
    BY <2>1, <2>4, OneWord
  <2>6. ASSUME NEW w \in Word, Sound(r, w) PROVE w = u
    <3>1. u <= w /\ w <= u
      BY <2>1, <2>6 DEF Sound, UnsignedBounds, u
    <3>2. u \in Int /\ w \in Int
      BY <2>1, WordInt
    <3>. QED BY <3>1, <3>2
  <2>. QED BY <2>4, <2>5, <2>6 DEF Keeps, s
<1>. QED BY <1>1, <1>2

(* refine_bounds forgets no word that the register spoke for. *)
LEMMA KeepsRefined ==
  ASSUME NEW r, WellFormed(r)
  PROVE  Keeps(r, refine_bounds(r))
<1>. DEFINE a == UnsignedFromTnum(r)
            b == TnumFromUnsigned(a)
            c == SignedFromUnsigned(b)
            d == UnsignedFromSigned(c)
            e == Collapsed(d)
<1>1. e = refine_bounds(r)
  BY DEF refine_bounds
<1>2. Keeps(r, a) /\ WellFormed(a)
  BY KeepsUnsignedFromTnum DEF Keeps
<1>. HIDE DEF a
<1>3. Keeps(a, b) /\ WellFormed(b)
  BY <1>2, KeepsTnumFromUnsigned DEF Keeps
<1>. HIDE DEF b
<1>4. Keeps(b, c) /\ WellFormed(c)
  BY <1>3, KeepsSignedFromUnsigned DEF Keeps
<1>. HIDE DEF c
<1>5. Keeps(c, d) /\ WellFormed(d)
  BY <1>4, KeepsUnsignedFromSigned DEF Keeps
<1>. HIDE DEF d
<1>6. Keeps(d, e)
  BY <1>5, KeepsCollapsed
<1>. HIDE DEF e
<1>7. Keeps(r, b) /\ Keeps(r, c) /\ Keeps(r, d)
  BY <1>2, <1>3, <1>4, <1>5, KeepsTransitive
<1>. QED BY <1>1, <1>6, <1>7, KeepsTransitive

-----------------------------------------------------------------------------
(* What a branch teaches.  KeepsWord is Keeps for one word. *)
KeepsWord(r, s, w) ==
  Sound(r, w) => Sound(s, w) /\ (SignedBounds(r, w) => SignedBounds(s, w))

(* What keeps a word keeps it through refine_bounds. *)
LEMMA RefinedKeeps ==
  ASSUME NEW r, NEW s, WellFormed(s), NEW w \in Word, KeepsWord(r, s, w)
  PROVE  KeepsWord(r, refine_bounds(s), w)
BY KeepsRefined DEF Keeps, KeepsWord

(* refine_bounds keeps registers well formed. *)
LEMMA RefinedForm ==
  ASSUME NEW r, WellFormed(r) PROVE WellFormed(refine_bounds(r))
BY KeepsRefined DEF Keeps

(* A lower bound may be raised to v for the words from v on. *)
LEMMA AtLeastKeeps ==
  ASSUME NEW r, WellFormed(r), NEW v \in Word
  PROVE  WellFormed(AtLeast(r, v)) /\ \A w \in Word : v <= w => KeepsWord(r, AtLeast(r, v), w)
<1>. DEFINE a == Greater(r.umin, v)
            s == [r EXCEPT !.umin = Greater(@, v)]
<1>1. r.umin \in Word /\ r.umax \in Word /\ r.umin \in Int /\ v \in Int
  BY Fields, WordInt
<1>2. a \in {r.umin, v}
  BY <1>1, LesserGreater
<1>3. s = [r EXCEPT !.umin = a]
  OBVIOUS
<1>4. AtLeast(r, v) = refine_bounds(s)
  BY DEF AtLeast
<1>. HIDE DEF a, s
<1>5. a \in Word
  BY <1>1, <1>2
<1>6. /\ WellFormed(s) /\ s.tnum = r.tnum
      /\ s.smin = r.smin /\ s.smax = r.smax /\ s.umin = a /\ s.umax = r.umax
  BY <1>3, <1>5 DEF WellFormed
<1>7. ASSUME NEW w \in Word, v <= w PROVE KeepsWord(r, s, w)
  <2>1. r.umin <= w => a <= w
    BY <1>2, <1>7
  <2>. QED BY <1>6, <2>1 DEF KeepsWord, Sound, KnownBits, UnsignedBounds, WrappedBounds, SignedBounds
<1>. QED BY <1>4, <1>6, <1>7, RefinedKeeps, RefinedForm

(* An upper bound may be lowered to v for the words up to v. *)
LEMMA AtMostKeeps ==
  ASSUME NEW r, WellFormed(r), NEW v \in Word
  PROVE  WellFormed(AtMost(r, v)) /\ \A w \in Word : w <= v => KeepsWord(r, AtMost(r, v), w)
<1>. DEFINE a == Lesser(r.umax, v)
            s == [r EXCEPT !.umax = Lesser(@, v)]
<1>1. r.umin \in Word /\ r.umax \in Word /\ r.umax \in Int /\ v \in Int
  BY Fields, WordInt
<1>2. a \in {r.umax, v}
  BY <1>1, LesserGreater
<1>3. s = [r EXCEPT !.umax = a]
  OBVIOUS
<1>4. AtMost(r, v) = refine_bounds(s)
  BY DEF AtMost
<1>. HIDE DEF a, s
<1>5. a \in Word
  BY <1>1, <1>2
<1>6. /\ WellFormed(s) /\ s.tnum = r.tnum
      /\ s.smin = r.smin /\ s.smax = r.smax /\ s.umin = r.umin /\ s.umax = a
  BY <1>3, <1>5 DEF WellFormed
<1>7. ASSUME NEW w \in Word, w <= v PROVE KeepsWord(r, s, w)
  <2>1. w <= r.umax => w <= a
    BY <1>2, <1>7
  <2>. QED BY <1>6, <2>1 DEF KeepsWord, Sound, KnownBits, UnsignedBounds, WrappedBounds, SignedBounds
<1>. QED BY <1>4, <1>6, <1>7, RefinedKeeps, RefinedForm

(* A word and its reading as a signed number. *)
LEMMA SignedCases ==
  ASSUME NEW w \in Word
  PROVE  /\ w \in Int /\ Signed(w) \in Int /\ Signed(w) <= w
         /\ Signed(w) >= 0 => w = Signed(w)
         /\ Signed(w) < 0 => w = Signed(w) + 2^WordBits
         /\ Signed(w) \in SignedWord /\ 2^WordBits \in Nat
BY SignedOfWord, SignedFacts, WordFacts

(* A signed lower bound may be raised, for a word that is as great as a    *)
(* signed number.  The words that WrappedBounds alone speaks for survive,  *)
(* too.                                                                    *)
LEMMA SAtLeastKeeps ==
  ASSUME NEW r, WellFormed(r), NEW n \in SignedWord
  PROVE  /\ WellFormed(SAtLeast(r, n))
         /\ \A w \in Word : n <= Signed(w) => KeepsWord(r, SAtLeast(r, n), w)
<1>. DEFINE a == Greater(r.smin, n)
            s == [r EXCEPT !.smin = Greater(@, n)]
<1>1. /\ r.smin \in SignedWord /\ r.smax \in SignedWord
      /\ r.smin \in Int /\ r.smax \in Int /\ n \in Int
  BY Fields, WordInt
<1>2. a \in {r.smin, n} /\ a >= r.smin /\ a >= n
  BY <1>1, LesserGreater
<1>3. s = [r EXCEPT !.smin = a]
  OBVIOUS
<1>4. SAtLeast(r, n) = refine_bounds(s)
  BY DEF SAtLeast
<1>. HIDE DEF a, s
<1>5. a \in SignedWord
  BY <1>1, <1>2
<1>6. /\ WellFormed(s) /\ s.tnum = r.tnum
      /\ s.smin = a /\ s.smax = r.smax /\ s.umin = r.umin /\ s.umax = r.umax
  BY <1>3, <1>5 DEF WellFormed
<1>7. ASSUME NEW w \in Word, n <= Signed(w) PROVE KeepsWord(r, s, w)
  <2>1. /\ w \in Int /\ Signed(w) \in Int /\ Signed(w) <= w
        /\ Signed(w) >= 0 => w = Signed(w)
    BY SignedCases
  <2>2. r.smin <= Signed(w) => a <= Signed(w)
    BY <1>2, <1>7
  <2>3. WrappedBounds(r, w) => WrappedBounds(s, w)
    <3>1. CASE r.smin < 0 /\ a < 0
      BY <1>6, <2>2, <3>1 DEF WrappedBounds, SignedBounds
    <3>2. CASE r.smin < 0 /\ ~(a < 0)
      <4>1. a = n /\ n >= 0 /\ w = Signed(w) /\ n <= w
        BY <1>1, <1>2, <1>7, <2>1, <3>2
      <4>2. WrappedBounds(r, w) => w <= r.smax
        BY <3>2, <4>1 DEF WrappedBounds, SignedBounds
      <4>3. w <= r.smax => w <= Wrap(r.smax)
        BY <1>1, <2>1, <4>1, WrapOfSigned
      <4>. QED BY <1>6, <3>2, <4>1, <4>2, <4>3 DEF WrappedBounds
    <3>3. CASE ~(r.smin < 0)
      <4>1. ~(a < 0)
        BY <1>1, <1>2, <3>3
      <4>2. r.smin <= w => a <= w
        BY <1>1, <1>2, <1>7, <2>1
      <4>. QED BY <1>6, <3>3, <4>1, <4>2 DEF WrappedBounds
    <3>. QED BY <3>1, <3>2, <3>3
  <2>. QED BY <1>6, <2>2, <2>3 DEF KeepsWord, Sound, KnownBits, UnsignedBounds, SignedBounds
<1>. QED BY <1>4, <1>6, <1>7, RefinedKeeps, RefinedForm

(* A signed upper bound may be lowered, likewise. *)
LEMMA SAtMostKeeps ==
  ASSUME NEW r, WellFormed(r), NEW n \in SignedWord
  PROVE  /\ WellFormed(SAtMost(r, n))
         /\ \A w \in Word : Signed(w) <= n => KeepsWord(r, SAtMost(r, n), w)
<1>. DEFINE a == Lesser(r.smax, n)
            s == [r EXCEPT !.smax = Lesser(@, n)]
<1>1. /\ r.smin \in SignedWord /\ r.smax \in SignedWord
      /\ r.smin \in Int /\ r.smax \in Int /\ n \in Int
  BY Fields, WordInt
<1>2. a \in {r.smax, n} /\ a <= r.smax /\ a <= n
  BY <1>1, LesserGreater
<1>3. s = [r EXCEPT !.smax = a]
  OBVIOUS
<1>4. SAtMost(r, n) = refine_bounds(s)
  BY DEF SAtMost
<1>. HIDE DEF a, s
<1>5. a \in SignedWord
  BY <1>1, <1>2
<1>6. /\ WellFormed(s) /\ s.tnum = r.tnum
      /\ s.smin = r.smin /\ s.smax = a /\ s.umin = r.umin /\ s.umax = r.umax
  BY <1>3, <1>5 DEF WellFormed
<1>7. ASSUME NEW w \in Word, Signed(w) <= n PROVE KeepsWord(r, s, w)
  <2>1. /\ w \in Int /\ Signed(w) \in Int /\ Signed(w) <= w
        /\ Signed(w) >= 0 => w = Signed(w)
        /\ Signed(w) < 0 => w = Signed(w) + 2^WordBits
        /\ 2^WordBits \in Nat /\ MaxSigned \in Int
        /\ w <= MaxSigned <=> Signed(w) >= 0
    BY SignedCases, SignedOfWord, SignedFacts
  <2>2. Signed(w) <= r.smax => Signed(w) <= a
    BY <1>2, <1>7
  <2>3. w <= Wrap(r.smax) => w <= Wrap(a)
    <3>1. CASE a = r.smax
      BY <3>1
    <3>2. CASE a = n /\ n >= 0
      <4>1. Wrap(a) = a /\ Wrap(r.smax) = r.smax /\ r.smax <= MaxSigned
        BY <1>1, <1>2, <1>5, <3>2, WrapOfSigned, SignedFacts
      <4>. QED BY <1>1, <1>7, <2>1, <3>2, <4>1
    <3>3. CASE a = n /\ n < 0
      <4>1. Wrap(a) = n + 2^WordBits
        BY <1>1, <3>3, WrapOfSigned
      <4>. QED BY <1>1, <1>7, <2>1, <3>3, <4>1
    <3>. QED BY <1>1, <1>2, <3>1, <3>2, <3>3
  <2>. QED BY <1>6, <2>2, <2>3 DEF KeepsWord, Sound, KnownBits, UnsignedBounds, WrappedBounds, SignedBounds
<1>. QED BY <1>4, <1>6, <1>7, RefinedKeeps, RefinedForm

(* Saturating steps stay words, and miss nothing below or above. *)
LEMMA IncDec ==
  ASSUME NEW v \in Word
  PROVE  /\ Inc(v) \in Word /\ Dec(v) \in Word
         /\ \A w \in Word : (w > v => Inc(v) <= w) /\ (w < v => w <= Dec(v))
BY WordFacts DEF Inc, Dec, Lesser, Greater

(* Saturating steps of signed words. *)
LEMMA SIncDec ==
  ASSUME NEW n \in SignedWord
  PROVE  /\ SInc(n) \in SignedWord /\ SDec(n) \in SignedWord
         /\ \A m \in SignedWord : (m > n => SInc(n) <= m) /\ (m < n => m <= SDec(n))
BY SignedFacts DEF SInc, SDec, Lesser, Greater

(* scalar_value(v) speaks for v. *)
LEMMA ScalarValueKeeps ==
  ASSUME NEW v \in Word
  PROVE  /\ WellFormed(scalar_value(v)) /\ Sound(scalar_value(v), v) /\ SignedBounds(scalar_value(v), v)
<1>1. IsTnum(constant(v)) /\ Signed(v) \in SignedWord
  BY ConstantTnum, SignedOfWord
<1>2. WellFormed(scalar_value(v))
  BY <1>1, FieldsMake DEF scalar_value
<1>3. /\ scalar_value(v).umin = v /\ scalar_value(v).umax = v /\ scalar_value(v).smin = Signed(v)
      /\ scalar_value(v).smax = Signed(v) /\ scalar_value(v).tnum = constant(v)
  BY DEF scalar_value
<1>. QED BY <1>2, <1>3, OneWord

(* The comparisons: all jumps but JSET. *)
Orders == JmpOp \ {"Jset"}

(* refine_scalar_64: what holds of the two words may be learnt, for every  *)
(* order.                                                                  *)
LEMMA Holds64Keeps ==
  ASSUME NEW r, WellFormed(r), NEW op \in Orders, NEW v \in Word
  PROVE  /\ WellFormed(Holds64(r, op, v))
         /\ \A w \in Word : Compares(op, w, v, Signed(w), Signed(v)) => KeepsWord(r, Holds64(r, op, v), w)
<1>1. Inc(v) \in Word /\ Dec(v) \in Word
      /\ \A w \in Word : (w > v => Inc(v) <= w) /\ (w < v => w <= Dec(v))
  BY IncDec
<1>2. Signed(v) \in SignedWord /\ \A w \in Word : Signed(w) \in SignedWord
  BY SignedOfWord
<1>3. SInc(Signed(v)) \in SignedWord /\ SDec(Signed(v)) \in SignedWord
      /\ \A w \in Word : /\ Signed(w) > Signed(v) => SInc(Signed(v)) <= Signed(w)
                         /\ Signed(w) < Signed(v) => Signed(w) <= SDec(Signed(v))
  BY <1>2, SIncDec
<1>4. v \in Int /\ Signed(v) \in Int /\ \A w \in Word : w \in Int /\ Signed(w) \in Int
  BY <1>2, WordInt
<1>5. CASE op = "Jeq"
  BY <1>5, ScalarValueKeeps DEF Holds64, Compares, KeepsWord
<1>6. CASE op = "Jne"
  BY <1>6 DEF Holds64, Compares, KeepsWord
<1>7. CASE op = "Jgt"
  BY <1>1, <1>7, AtLeastKeeps DEF Holds64, Compares
<1>8. CASE op = "Jge"
  BY <1>4, <1>8, AtLeastKeeps DEF Holds64, Compares
<1>9. CASE op = "Jlt"
  BY <1>1, <1>9, AtMostKeeps DEF Holds64, Compares
<1>10. CASE op = "Jle"
  BY <1>10, AtMostKeeps DEF Holds64, Compares
<1>11. CASE op = "Jsgt"
  BY <1>3, <1>11, SAtLeastKeeps DEF Holds64, Compares
<1>12. CASE op = "Jsge"
  BY <1>2, <1>4, <1>12, SAtLeastKeeps DEF Holds64, Compares
<1>13. CASE op = "Jslt"
  BY <1>3, <1>13, SAtMostKeeps DEF Holds64, Compares
<1>14. CASE op = "Jsle"
  BY <1>2, <1>14, SAtMostKeeps DEF Holds64, Compares
<1>. QED BY <1>5, <1>6, <1>7, <1>8, <1>9, <1>10, <1>11, <1>12, <1>13, <1>14 DEF Orders, JmpOp

-----------------------------------------------------------------------------
(* A register that fits in a half is its low half. *)
LEMMA MaxHalfRange == MaxHalf \in Word /\ MaxHalf \in SignedWord /\ MaxHalf \in Int /\ MaxHalf >= 0
BY HalfOfSigned, SignedFacts, WordFacts DEF MaxHalf

(* A word in a half is its low half. *)
LEMMA LowFits == \A w \in Word : w <= MaxHalf => Low(w) = w
<1>. SUFFICES ASSUME NEW w \in Word, w <= MaxHalf PROVE Low(w) = w
  OBVIOUS
<1>. DEFINE p == 2^HalfBits
<1>1. w \in Int /\ w >= 0 /\ p \in Nat \ {0} /\ MaxHalf = p - 1
  BY WordInt, WordFacts DEF MaxHalf
<1>. HIDE DEF p
<1>2. w = p * 0 + w /\ w \in 0 .. p - 1
  BY <1>1
<1>3. w % p = w
  BY <1>1, <1>2, DivisionUnique
<1>. QED BY <1>3 DEF Low, p

(* A register that fits a half holds words that do. *)
LEMMA FitsLow ==
  ASSUME NEW r, WellFormed(r), FitsHalf(r), NEW w \in Word, Sound(r, w)
  PROVE  Low(w) = w
<1>1. w <= r.umax /\ r.umax <= MaxHalf
  BY DEF Sound, UnsignedBounds, FitsHalf
<1>2. w \in Int /\ r.umax \in Int /\ MaxHalf \in Int
  BY WordInt, Fields, MaxHalfRange
<1>. QED BY <1>1, <1>2, LowFits

(* The lower bound of a 32-bit comparison. *)
LEMMA AtLeast32Keeps ==
  ASSUME NEW r, WellFormed(r), NEW v \in Word
  PROVE  /\ WellFormed(AtLeast32(r, v))
         /\ \A w \in Word : v <= Low(w) => KeepsWord(r, AtLeast32(r, v), w)
<1>1. CASE FitsHalf(r)
  <2>1. AtLeast32(r, v) = AtLeast(r, v)
    BY <1>1 DEF AtLeast32, AtLeast
  <2>. QED BY <1>1, <2>1, FitsLow, AtLeastKeeps DEF KeepsWord
<1>2. CASE ~FitsHalf(r)
  <2>1. AtLeast32(r, v) = refine_bounds(r)
    BY <1>2 DEF AtLeast32
  <2>. QED BY <2>1, KeepsRefined DEF Keeps, KeepsWord
<1>. QED BY <1>1, <1>2

(* The upper bound of a 32-bit comparison. *)
LEMMA AtMost32Keeps ==
  ASSUME NEW r, WellFormed(r), NEW v \in Word
  PROVE  /\ WellFormed(AtMost32(r, v))
         /\ \A w \in Word : Low(w) <= v => KeepsWord(r, AtMost32(r, v), w)
<1>1. CASE FitsHalf(r)
  <2>1. AtMost32(r, v) = AtMost(r, v)
    BY <1>1 DEF AtMost32, AtMost
  <2>. QED BY <1>1, <2>1, FitsLow, AtMostKeeps DEF KeepsWord
<1>2. CASE ~FitsHalf(r)
  <2>1. AtMost32(r, v) = refine_bounds(r)
    BY <1>2 DEF AtMost32
  <2>. QED BY <2>1, KeepsRefined DEF Keeps, KeepsWord
<1>. QED BY <1>1, <1>2

(* The signed 32-bit bounds make well-formed registers.  What they say of  *)
(* the word is wrong for some (a finding), so no more is stated.           *)
LEMMA Signed32Form ==
  ASSUME NEW r, WellFormed(r), NEW n \in SignedWord
  PROVE  WellFormed(SAtLeast32(r, n)) /\ WellFormed(SAtMost32(r, n))
BY SAtLeastKeeps, SAtMostKeeps DEF SAtLeast32, SAtMost32

(* The high half of a register with another low half. *)
LowTnum(r, v) == [value |-> High(r.tnum.value) + v, mask |-> High(r.tnum.mask)]

(* A known low half under the old high half. *)
LEMMA LowTnumIs ==
  ASSUME NEW r, WellFormed(r), NEW x \in Word
  PROVE  /\ IsTnum(LowTnum(r, Low(x)))
         /\ \A w \in Word : Low(w) = Low(x) /\ InTnum(w, r.tnum) => InTnum(w, LowTnum(r, Low(x)))
<1>. DEFINE t == r.tnum
            v == Low(x)
            hv == High(t.value)
            hm == High(t.mask)
            s == [value |-> hv + v, mask |-> hm]
<1>1. t.value \in Word /\ t.mask \in Word /\ And(t.value, t.mask) = 0
  BY Fields DEF IsTnum
<1>2. \A k \in BitPos : ~(On(t.value, k) /\ On(t.mask, k))
  BY <1>1, TnumOn
<1>3. v \in Word /\ \A k \in BitPos : On(v, k) <=> k < HalfBits /\ On(x, k)
  BY LowOn
<1>4. /\ hv \in Word /\ \A k \in BitPos : On(hv, k) <=> k >= HalfBits /\ On(t.value, k)
      /\ hm \in Word /\ \A k \in BitPos : On(hm, k) <=> k >= HalfBits /\ On(t.mask, k)
  BY <1>1, HighOn
<1>5. HalfBits \in Int /\ \A k \in BitPos : k \in Int
  BY WordFacts DEF BitPos
<1>6. s = LowTnum(r, v) /\ s.value = hv + v /\ s.mask = hm
  BY DEF LowTnum
<1>7. s = [value |-> hv + v, mask |-> hm]
  OBVIOUS
<1>. HIDE DEF hv, hm, s
<1>8. \A k \in BitPos : ~(On(hv, k) /\ On(v, k))
  BY <1>3, <1>4, <1>5
<1>9. hv + v \in Word /\ \A k \in BitPos : On(hv + v, k) <=> On(hv, k) \/ On(v, k)
  BY <1>3, <1>4, <1>8, SumOn
<1>10. \A k \in BitPos : ~(On(hv + v, k) /\ On(hm, k))
  BY <1>2, <1>3, <1>4, <1>5, <1>9
<1>11. And(hv + v, hm) = 0
  BY <1>4, <1>9, <1>10, TnumOn
<1>12. IsTnum(s)
  BY <1>4, <1>7, <1>9, <1>11 DEF IsTnum
<1>13. ASSUME NEW w \in Word, Low(w) = v, InTnum(w, t) PROVE InTnum(w, s)
  <2>1. \A k \in BitPos : On(t.mask, k) \/ (On(w, k) <=> On(t.value, k))
    BY <1>1, <1>13, InTnumOn
  <2>2. \A k \in BitPos : On(v, k) <=> k < HalfBits /\ On(w, k)
    BY <1>13, LowOn
  <2>3. ASSUME NEW k \in BitPos PROVE On(hm, k) \/ (On(w, k) <=> On(hv + v, k))
    <3>1. CASE k < HalfBits
      <4>1. ~(k >= HalfBits)
        BY <1>5, <3>1
      <4>. QED BY <1>4, <1>9, <2>2, <3>1, <4>1
    <3>2. CASE ~(k < HalfBits)
      <4>1. k >= HalfBits
        BY <1>5, <3>2
      <4>. QED BY <1>4, <1>9, <2>1, <2>2, <3>2, <4>1
    <3>. QED BY <3>1, <3>2
  <2>. QED BY <1>4, <1>6, <1>9, <2>3, InTnumOn
<1>. QED BY <1>6, <1>12, <1>13

(* A 32-bit equality fixes the low half. *)
LEMMA LowIsKeeps ==
  ASSUME NEW r, WellFormed(r), NEW x \in Word
  PROVE  /\ WellFormed(LowIs(r, Low(x)))
         /\ \A w \in Word : Low(w) = Low(x) => KeepsWord(r, LowIs(r, Low(x)), w)
<1>. DEFINE v == Low(x)
            t == LowTnum(r, v)
            s == [r EXCEPT !.tnum = t]
            a == Greater(r.umin, v)
            b == Lesser(r.umax, v)
            u == IF FitsHalf(r) THEN [s EXCEPT !.umin = Greater(@, v), !.umax = Lesser(@, v)] ELSE s
<1>1. LowIs(r, v) = refine_bounds(u)
  BY DEF LowIs, LowTnum
<1>2. v \in Word /\ v \in Int /\ r.umin \in Word /\ r.umax \in Word /\ r.umin \in Int /\ r.umax \in Int
  BY LowOn, Fields, WordInt
<1>3. IsTnum(t) /\ \A w \in Word : Low(w) = v /\ InTnum(w, r.tnum) => InTnum(w, t)
  BY LowTnumIs
<1>4. a \in {r.umin, v} /\ b \in {r.umax, v}
  BY <1>2, LesserGreater
<1>. HIDE DEF t
<1>5. /\ WellFormed(s) /\ s.tnum = t
      /\ s.smin = r.smin /\ s.smax = r.smax /\ s.umin = r.umin /\ s.umax = r.umax
  BY <1>3 DEF WellFormed, IsTnum, Tnum
<1>6. u = IF FitsHalf(r) THEN [s EXCEPT !.umin = a, !.umax = b] ELSE s
  BY <1>5
<1>. HIDE DEF s, u, a, b
<1>7. a \in Word /\ b \in Word
  BY <1>2, <1>4
<1>8. CASE FitsHalf(r)
  <2>1. u = [s EXCEPT !.umin = a, !.umax = b]
    BY <1>6, <1>8
  <2>2. /\ WellFormed(u) /\ u.tnum = t
        /\ u.smin = r.smin /\ u.smax = r.smax /\ u.umin = a /\ u.umax = b
    BY <1>5, <1>7, <2>1 DEF WellFormed
  <2>3. ASSUME NEW w \in Word, Low(w) = v, Sound(r, w)
        PROVE  Sound(u, w) /\ (SignedBounds(r, w) => SignedBounds(u, w))
    <3>1. w = v
      BY <1>8, <2>3, FitsLow
    <3>2. a <= w /\ w <= b
      BY <1>2, <1>4, <2>3, <3>1 DEF Sound, UnsignedBounds
    <3>. QED BY <1>3, <2>2, <2>3, <3>2 DEF Sound, KnownBits, UnsignedBounds, WrappedBounds, SignedBounds
  <2>. QED BY <1>1, <2>2, <2>3, RefinedKeeps, RefinedForm DEF KeepsWord
<1>9. CASE ~FitsHalf(r)
  <2>1. u = s
    BY <1>6, <1>9
  <2>2. ASSUME NEW w \in Word, Low(w) = v PROVE KeepsWord(r, s, w)
    BY <1>3, <1>5, <2>2 DEF KeepsWord, Sound, KnownBits, UnsignedBounds, WrappedBounds, SignedBounds
  <2>. QED BY <1>1, <1>5, <2>1, <2>2, RefinedKeeps, RefinedForm
<1>. QED BY <1>8, <1>9

(* The comparisons that do not read signs. *)
Unsigned == {"Jeq", "Jne", "Jgt", "Jge", "Jlt", "Jle"}

(* refine_scalar_32, for the unsigned comparisons. *)
LEMMA Holds32Keeps ==
  ASSUME NEW r, WellFormed(r), NEW op \in Orders, NEW x \in Word
  PROVE  /\ WellFormed(Holds32(r, op, x))
         /\ op \in Unsigned =>
              \A w \in Word : Compares(op, Low(w), Low(x), SignedHalf(w), SignedHalf(x)) =>
                KeepsWord(r, Holds32(r, op, x), w)
<1>. DEFINE v == Low(x)
            n == SignedHalf(x)
<1>1. v \in Word /\ v \in Int /\ \A w \in Word : Low(w) \in Word /\ Low(w) \in Int
  BY LowOn, WordInt
<1>2. n \in SignedWord
  BY WordInt, SignedHalfRange
<1>3. Holds32(r, op, x) =
        CASE op = "Jeq"  -> LowIs(r, v)
          [] op = "Jne"  -> r
          [] op = "Jgt"  -> AtLeast32(r, Inc(v))
          [] op = "Jge"  -> AtLeast32(r, v)
          [] op = "Jlt"  -> AtMost32(r, Dec(v))
          [] op = "Jle"  -> AtMost32(r, v)
          [] op = "Jsgt" -> SAtLeast32(r, SInc(n))
          [] op = "Jsge" -> SAtLeast32(r, n)
          [] op = "Jslt" -> SAtMost32(r, SDec(n))
          [] op = "Jsle" -> SAtMost32(r, n)
  BY DEF Holds32
<1>4. WellFormed(LowIs(r, v)) /\ \A w \in Word : Low(w) = v => KeepsWord(r, LowIs(r, v), w)
  BY LowIsKeeps
<1>. HIDE DEF v, n
<1>5. Inc(v) \in Word /\ Dec(v) \in Word
      /\ \A w \in Word : (Low(w) > v => Inc(v) <= Low(w)) /\ (Low(w) < v => Low(w) <= Dec(v))
  BY <1>1, IncDec
<1>6. SInc(n) \in SignedWord /\ SDec(n) \in SignedWord
  BY <1>2, SIncDec
<1>7. CASE op = "Jeq"
  BY <1>3, <1>4, <1>7 DEF Compares, v
<1>8. CASE op = "Jne"
  BY <1>3, <1>8 DEF KeepsWord
<1>9. CASE op = "Jgt"
  BY <1>3, <1>5, <1>9, AtLeast32Keeps DEF Compares, v
<1>10. CASE op = "Jge"
  <2>1. \A w \in Word : Low(w) >= v => v <= Low(w)
    BY <1>1
  <2>. QED BY <1>1, <1>3, <1>10, <2>1, AtLeast32Keeps DEF Compares, v
<1>11. CASE op = "Jlt"
  BY <1>3, <1>5, <1>11, AtMost32Keeps DEF Compares, v
<1>12. CASE op = "Jle"
  BY <1>1, <1>3, <1>12, AtMost32Keeps DEF Compares, v
<1>13. CASE op \in {"Jsgt", "Jsge", "Jslt", "Jsle"}
  BY <1>2, <1>3, <1>6, <1>13, Signed32Form DEF Unsigned
<1>. QED BY <1>7, <1>8, <1>9, <1>10, <1>11, <1>12, <1>13 DEF Orders, JmpOp

-----------------------------------------------------------------------------
(* A test of bits. *)
LEMMA BitsClearIs ==
  ASSUME NEW t, IsTnum(t), NEW v \in Word
  PROVE  /\ IsTnum(BitsClear(t, v))
         /\ \A w \in Word : And(w, v) = 0 /\ InTnum(w, t) => InTnum(w, BitsClear(t, v))
<1>. DEFINE c == Not(v)
            a == And(t.value, c)
            m == And(t.mask, c)
            s == [value |-> a, mask |-> m]
<1>1. t.value \in Word /\ t.mask \in Word /\ And(t.value, t.mask) = 0
  BY DEF IsTnum
<1>2. \A k \in BitPos : ~(On(t.value, k) /\ On(t.mask, k))
  BY <1>1, TnumOn
<1>3. c \in Word /\ \A k \in BitPos : On(c, k) <=> ~On(v, k)
  BY NotOn
<1>4. s = BitsClear(t, v)
  BY DEF BitsClear
<1>. HIDE DEF c
<1>5. /\ a \in Word /\ \A k \in BitPos : On(a, k) <=> On(t.value, k) /\ On(c, k)
      /\ m \in Word /\ \A k \in BitPos : On(m, k) <=> On(t.mask, k) /\ On(c, k)
  BY <1>1, <1>3, AndOn
<1>6. s.value = a /\ s.mask = m /\ s = [value |-> a, mask |-> m]
  OBVIOUS
<1>. HIDE DEF a, m, s
<1>7. \A k \in BitPos : ~(On(a, k) /\ On(m, k))
  BY <1>2, <1>5
<1>8. IsTnum(s)
  BY <1>5, <1>6, <1>7, TnumOn DEF IsTnum
<1>9. ASSUME NEW w \in Word, And(w, v) = 0, InTnum(w, t) PROVE InTnum(w, s)
  <2>1. \A k \in BitPos : On(t.mask, k) \/ (On(w, k) <=> On(t.value, k))
    BY <1>1, <1>9, InTnumOn
  <2>2. \A k \in BitPos : ~(On(w, k) /\ On(v, k))
    BY <1>9, TnumOn
  <2>3. ASSUME NEW k \in BitPos PROVE On(m, k) \/ (On(w, k) <=> On(a, k))
    BY <1>3, <1>5, <2>1, <2>2
  <2>. QED BY <1>5, <1>6, <2>3, InTnumOn
<1>. QED BY <1>4, <1>8, <1>9

(* Set bits may be learnt of a word that has them. *)
LEMMA BitsSetIs ==
  ASSUME NEW t, IsTnum(t), NEW v \in Word
  PROVE  /\ IsTnum(BitsSet(t, v))
         /\ \A w \in Word : (\A k \in BitPos : On(v, k) => On(w, k)) /\ InTnum(w, t) =>
                              InTnum(w, BitsSet(t, v))
<1>. DEFINE c == Not(v)
            a == Or(t.value, v)
            m == And(t.mask, c)
            s == [value |-> a, mask |-> m]
<1>1. t.value \in Word /\ t.mask \in Word /\ And(t.value, t.mask) = 0
  BY DEF IsTnum
<1>2. \A k \in BitPos : ~(On(t.value, k) /\ On(t.mask, k))
  BY <1>1, TnumOn
<1>3. c \in Word /\ \A k \in BitPos : On(c, k) <=> ~On(v, k)
  BY NotOn
<1>4. s = BitsSet(t, v)
  BY DEF BitsSet
<1>. HIDE DEF c
<1>5. /\ a \in Word /\ \A k \in BitPos : On(a, k) <=> On(t.value, k) \/ On(v, k)
      /\ m \in Word /\ \A k \in BitPos : On(m, k) <=> On(t.mask, k) /\ On(c, k)
  BY <1>1, <1>3, AndOn, OrOn
<1>6. s.value = a /\ s.mask = m /\ s = [value |-> a, mask |-> m]
  OBVIOUS
<1>. HIDE DEF a, m, s
<1>7. \A k \in BitPos : ~(On(a, k) /\ On(m, k))
  BY <1>2, <1>3, <1>5
<1>8. IsTnum(s)
  BY <1>5, <1>6, <1>7, TnumOn DEF IsTnum
<1>9. ASSUME NEW w \in Word, \A k \in BitPos : On(v, k) => On(w, k), InTnum(w, t) PROVE InTnum(w, s)
  <2>1. \A k \in BitPos : On(t.mask, k) \/ (On(w, k) <=> On(t.value, k))
    BY <1>1, <1>9, InTnumOn
  <2>3. ASSUME NEW k \in BitPos PROVE On(m, k) \/ (On(w, k) <=> On(a, k))
    BY <1>3, <1>5, <1>9, <2>1
  <2>. QED BY <1>5, <1>6, <2>3, InTnumOn
<1>. QED BY <1>4, <1>8, <1>9

(* A word that shares a bit with a single bit has that bit. *)
LEMMA TestedBit ==
  ASSUME NEW w \in Word, NEW v \in Word, OneBit(v), And(w, v) # 0
  PROVE  \A k \in BitPos : On(v, k) => On(w, k)
<1>1. PICK j \in BitPos : v = 2^j
  BY DEF OneBit
<1>2. \A k \in BitPos : On(v, k) <=> k = j
  BY <1>1, PowerOn
<1>3. \E k \in BitPos : On(w, k) /\ On(v, k)
  BY TnumOn
<1>. QED BY <1>2, <1>3

(* Cutting the bounds to those of the tnum loses no word. *)
LEMMA CutKeeps ==
  ASSUME NEW r, WellFormed(r)
  PROVE  WellFormed(CutToTnum(r)) /\ \A w \in Word : KeepsWord(r, CutToTnum(r), w)
<1>1. CutToTnum(r) = UnsignedFromTnum(r)
  BY DEF CutToTnum, UnsignedFromTnum
<1>. QED BY <1>1, KeepsUnsignedFromTnum DEF Keeps, KeepsWord

(* The four forms of JSET: another tracked number, perhaps cut, refined. *)
LEMMA NewTnumKeeps ==
  ASSUME NEW r, WellFormed(r), NEW t, IsTnum(t), NEW s, s = [r EXCEPT !.tnum = t]
  PROVE  /\ WellFormed(refine_bounds(s)) /\ WellFormed(refine_bounds(CutToTnum(s)))
         /\ \A w \in Word : (InTnum(w, r.tnum) => InTnum(w, t)) =>
              KeepsWord(r, refine_bounds(s), w) /\ KeepsWord(r, refine_bounds(CutToTnum(s)), w)
<1>1. /\ WellFormed(s) /\ s.tnum = t
      /\ s.smin = r.smin /\ s.smax = r.smax /\ s.umin = r.umin /\ s.umax = r.umax
  BY DEF WellFormed, IsTnum, Tnum
<1>2. WellFormed(CutToTnum(s)) /\ \A w \in Word : KeepsWord(s, CutToTnum(s), w)
  BY <1>1, CutKeeps
<1>3. ASSUME NEW w \in Word, InTnum(w, r.tnum) => InTnum(w, t)
      PROVE  KeepsWord(r, s, w) /\ KeepsWord(r, CutToTnum(s), w)
  <2>1. KeepsWord(r, s, w)
    BY <1>1, <1>3 DEF KeepsWord, Sound, KnownBits, UnsignedBounds, WrappedBounds, SignedBounds
  <2>. QED BY <1>2, <2>1 DEF KeepsWord
<1>. QED BY <1>1, <1>2, <1>3, RefinedKeeps, RefinedForm

(* JSET taken: the one tested bit is set. *)
LEMMA SetKeeps ==
  ASSUME NEW r, WellFormed(r), NEW x \in Word, OneBit(x),
         NEW s, s = [r EXCEPT !.tnum = BitsSet(@, x)]
  PROVE  /\ WellFormed(refine_bounds(s)) /\ WellFormed(refine_bounds(CutToTnum(s)))
         /\ \A w \in Word : And(w, x) # 0 =>
              KeepsWord(r, refine_bounds(s), w) /\ KeepsWord(r, refine_bounds(CutToTnum(s)), w)
<1>. DEFINE t == BitsSet(r.tnum, x)
<1>1. /\ IsTnum(t)
      /\ \A w \in Word : (\A k \in BitPos : On(x, k) => On(w, k)) /\ InTnum(w, r.tnum) => InTnum(w, t)
  BY Fields, BitsSetIs
<1>2. \A w \in Word : And(w, x) # 0 => (InTnum(w, r.tnum) => InTnum(w, t))
  BY <1>1, TestedBit
<1>3. s = [r EXCEPT !.tnum = t]
  OBVIOUS
<1>. HIDE DEF t
<1>. QED BY <1>1, <1>2, <1>3, NewTnumKeeps

(* JSET not taken: the tested bits are clear. *)
LEMMA ClearKeeps ==
  ASSUME NEW r, WellFormed(r), NEW x \in Word,
         NEW s, s = [r EXCEPT !.tnum = BitsClear(@, x)]
  PROVE  /\ WellFormed(refine_bounds(s)) /\ WellFormed(refine_bounds(CutToTnum(s)))
         /\ \A w \in Word : And(w, x) = 0 =>
              KeepsWord(r, refine_bounds(s), w) /\ KeepsWord(r, refine_bounds(CutToTnum(s)), w)
<1>. DEFINE t == BitsClear(r.tnum, x)
<1>1. /\ IsTnum(t)
      /\ \A w \in Word : And(w, x) = 0 /\ InTnum(w, r.tnum) => InTnum(w, t)
  BY Fields, BitsClearIs
<1>3. s = [r EXCEPT !.tnum = t]
  OBVIOUS
<1>. HIDE DEF t
<1>. QED BY <1>1, <1>3, NewTnumKeeps

(* A common bit of two low halves is one of the word and the low half. *)
LEMMA LowShares ==
  ASSUME NEW w \in Word, NEW v \in Word
  PROVE  And(Low(w), Low(v)) = And(w, Low(v)) /\ Low(v) \in Word
<1>. DEFINE a == Low(w)
            b == Low(v)
<1>1. /\ a \in Word /\ \A k \in BitPos : On(a, k) <=> k < HalfBits /\ On(w, k)
      /\ b \in Word /\ \A k \in BitPos : On(b, k) <=> k < HalfBits /\ On(v, k)
  BY LowOn
<1>. HIDE DEF a, b
<1>2. /\ And(a, b) \in Word /\ \A k \in BitPos : On(And(a, b), k) <=> On(a, k) /\ On(b, k)
      /\ And(w, b) \in Word /\ \A k \in BitPos : On(And(w, b), k) <=> On(w, k) /\ On(b, k)
  BY <1>1, AndOn
<1>3. \A k \in BitPos : On(And(a, b), k) <=> On(And(w, b), k)
  BY <1>1, <1>2
<1>4. And(a, b) = And(w, b)
  BY <1>2, <1>3, EqualWords
<1>. QED BY <1>1, <1>4 DEF a, b

(* JSET taken, in both widths. *)
LEMMA JsetTakenKeeps ==
  ASSUME NEW r, WellFormed(r), NEW v \in Word, NEW is_32
  PROVE  /\ WellFormed(RefineTaken(r, "Jset", is_32, v))
         /\ \A w \in Word : Jumps("Jset", is_32, w, v) => KeepsWord(r, RefineTaken(r, "Jset", is_32, v), w)
<1>1. CASE ~is_32
  <2>1. RefineTaken(r, "Jset", is_32, v) = JsetTaken64(r, v)
        /\ \A w : Jumps("Jset", is_32, w, v) <=> And(w, v) # 0
    BY <1>1 DEF RefineTaken, Jumps, eval_jmp64, Compares
  <2>2. CASE OneBit(v)
    <3>. DEFINE s == [r EXCEPT !.tnum = BitsSet(@, v)]
    <3>1. JsetTaken64(r, v) = refine_bounds(CutToTnum(s))
      BY <2>2 DEF JsetTaken64
    <3>. HIDE DEF s
    <3>2. s = [r EXCEPT !.tnum = BitsSet(@, v)]
      BY DEF s
    <3>. QED BY <2>1, <2>2, <3>1, <3>2, SetKeeps
  <2>3. CASE ~OneBit(v)
    BY <2>1, <2>3 DEF JsetTaken64, KeepsWord
  <2>. QED BY <2>2, <2>3
<1>2. CASE is_32
  <2>. DEFINE x == Low(v)
  <2>1. RefineTaken(r, "Jset", is_32, v) = JsetTaken32(r, v)
        /\ \A w : Jumps("Jset", is_32, w, v) <=> And(Low(w), x) # 0
    BY <1>2 DEF RefineTaken, Jumps, eval_jmp32, Compares
  <2>2. x \in Word /\ \A w \in Word : And(Low(w), x) = And(w, x)
    BY LowShares
  <2>3. CASE OneBit(x)
    <3>. DEFINE s == [r EXCEPT !.tnum = BitsSet(@, x)]
    <3>1. JsetTaken32(r, v) = IF FitsHalf(r) THEN refine_bounds(CutToTnum(s)) ELSE refine_bounds(s)
      BY <2>3 DEF JsetTaken32
    <3>. HIDE DEF s, x
    <3>2. s = [r EXCEPT !.tnum = BitsSet(@, x)]
      BY DEF s
    <3>3. /\ WellFormed(refine_bounds(s)) /\ WellFormed(refine_bounds(CutToTnum(s)))
          /\ \A w \in Word : And(w, x) # 0 =>
               KeepsWord(r, refine_bounds(s), w) /\ KeepsWord(r, refine_bounds(CutToTnum(s)), w)
      BY <2>2, <2>3, <3>2, SetKeeps
    <3>. QED BY <2>1, <2>2, <3>1, <3>3
  <2>4. CASE ~OneBit(x)
    BY <2>1, <2>4 DEF JsetTaken32, KeepsWord
  <2>. QED BY <2>3, <2>4
<1>. QED BY <1>1, <1>2

(* JSET not taken, in both widths. *)
LEMMA JsetFallKeeps ==
  ASSUME NEW r, WellFormed(r), NEW v \in Word, NEW is_32
  PROVE  /\ WellFormed(RefineFall(r, "Jset", is_32, v))
         /\ \A w \in Word : ~Jumps("Jset", is_32, w, v) => KeepsWord(r, RefineFall(r, "Jset", is_32, v), w)
<1>1. CASE ~is_32
  <2>1. RefineFall(r, "Jset", is_32, v) = JsetFall64(r, v)
        /\ \A w : Jumps("Jset", is_32, w, v) <=> And(w, v) # 0
    BY <1>1 DEF RefineFall, Jumps, eval_jmp64, Compares
  <2>. DEFINE s == [r EXCEPT !.tnum = BitsClear(@, v)]
  <2>2. JsetFall64(r, v) = refine_bounds(CutToTnum(s))
    BY DEF JsetFall64
  <2>. HIDE DEF s
  <2>3. s = [r EXCEPT !.tnum = BitsClear(@, v)]
    BY DEF s
  <2>. QED BY <2>1, <2>2, <2>3, ClearKeeps
<1>2. CASE is_32
  <2>. DEFINE x == Low(v)
              s == [r EXCEPT !.tnum = BitsClear(@, x)]
  <2>1. RefineFall(r, "Jset", is_32, v) = JsetFall32(r, v)
        /\ \A w : Jumps("Jset", is_32, w, v) <=> And(Low(w), x) # 0
    BY <1>2 DEF RefineFall, Jumps, eval_jmp32, Compares
  <2>2. x \in Word /\ \A w \in Word : And(Low(w), x) = And(w, x)
    BY LowShares
  <2>3. JsetFall32(r, v) = IF FitsHalf(r) THEN refine_bounds(CutToTnum(s)) ELSE refine_bounds(s)
    BY DEF JsetFall32
  <2>. HIDE DEF s, x
  <2>4. s = [r EXCEPT !.tnum = BitsClear(@, x)]
    BY DEF s
  <2>5. /\ WellFormed(refine_bounds(s)) /\ WellFormed(refine_bounds(CutToTnum(s)))
        /\ \A w \in Word : And(w, x) = 0 =>
             KeepsWord(r, refine_bounds(s), w) /\ KeepsWord(r, refine_bounds(CutToTnum(s)), w)
    BY <2>2, <2>4, ClearKeeps
  <2>. QED BY <2>1, <2>2, <2>3, <2>5
<1>. QED BY <1>1, <1>2

(* The fallthrough is the other comparison. *)
LEMMA OppositeHolds ==
  ASSUME NEW op \in Orders, NEW a \in Int, NEW b \in Int, NEW c \in Int, NEW d \in Int,
         ~Compares(op, a, b, c, d)
  PROVE  Compares(Opposite(op), a, b, c, d)
<1>1. CASE op = "Jeq"
  BY <1>1 DEF Compares, Opposite
<1>2. CASE op = "Jne"
  BY <1>2 DEF Compares, Opposite
<1>3. CASE op = "Jgt"
  BY <1>3 DEF Compares, Opposite
<1>4. CASE op = "Jge"
  BY <1>4 DEF Compares, Opposite
<1>5. CASE op = "Jlt"
  BY <1>5 DEF Compares, Opposite
<1>6. CASE op = "Jle"
  BY <1>6 DEF Compares, Opposite
<1>7. CASE op = "Jsgt"
  BY <1>7 DEF Compares, Opposite
<1>8. CASE op = "Jsge"
  BY <1>8 DEF Compares, Opposite
<1>9. CASE op = "Jslt"
  BY <1>9 DEF Compares, Opposite
<1>10. CASE op = "Jsle"
  BY <1>10 DEF Compares, Opposite
<1>. QED BY <1>1, <1>2, <1>3, <1>4, <1>5, <1>6, <1>7, <1>8, <1>9, <1>10 DEF Orders, JmpOp

(* The branches of a jump keep the words that take them. *)
LEMMA TakenKeeps ==
  ASSUME NEW r, WellFormed(r), NEW op \in JmpOp, NEW is_32 \in BOOLEAN, NEW v \in Word
  PROVE  /\ WellFormed(RefineTaken(r, op, is_32, v))
         /\ (is_32 => op \in Unsigned \cup {"Jset"}) =>
              \A w \in Word : Jumps(op, is_32, w, v) => KeepsWord(r, RefineTaken(r, op, is_32, v), w)
<1>1. CASE op = "Jset"
  BY <1>1, JsetTakenKeeps
<1>2. CASE op # "Jset" /\ is_32
  <2>1. op \in Orders /\ RefineTaken(r, op, is_32, v) = Holds32(r, op, v)
    BY <1>2 DEF Orders, RefineTaken
  <2>2. \A w : Jumps(op, is_32, w, v) <=> Compares(op, Low(w), Low(v), SignedHalf(w), SignedHalf(v))
    BY <1>2 DEF Jumps, eval_jmp32
  <2>. QED BY <1>2, <2>1, <2>2, Holds32Keeps
<1>3. CASE op # "Jset" /\ ~is_32
  <2>1. op \in Orders /\ RefineTaken(r, op, is_32, v) = Holds64(r, op, v)
    BY <1>3 DEF Orders, RefineTaken
  <2>2. \A w : Jumps(op, is_32, w, v) <=> Compares(op, w, v, Signed(w), Signed(v))
    BY <1>3 DEF Jumps, eval_jmp64
  <2>. QED BY <1>3, <2>1, <2>2, Holds64Keeps
<1>. QED BY <1>1, <1>2, <1>3

(* The opposite of an order is one, of the same signedness. *)
LEMMA OppositeOrder ==
  \A op \in Orders : Opposite(op) \in Orders /\ (op \in Unsigned => Opposite(op) \in Unsigned)
BY DEF Orders, JmpOp, Opposite, Unsigned

(* What refine_branch makes of the register on the fallthrough speaks for  *)
(* every word that does not jump.                                          *)
LEMMA FallKeeps ==
  ASSUME NEW r, WellFormed(r), NEW op \in JmpOp, NEW is_32 \in BOOLEAN, NEW v \in Word
  PROVE  /\ WellFormed(RefineFall(r, op, is_32, v))
         /\ (is_32 => op \in Unsigned \cup {"Jset"}) =>
              \A w \in Word : ~Jumps(op, is_32, w, v) => KeepsWord(r, RefineFall(r, op, is_32, v), w)
<1>1. CASE op = "Jset"
  BY <1>1, JsetFallKeeps
<1>. DEFINE o == Opposite(op)
<1>2. CASE op # "Jset" /\ is_32
  <2>1. op \in Orders /\ RefineFall(r, op, is_32, v) = Holds32(r, o, v)
    BY <1>2 DEF Orders, RefineFall
  <2>2. o \in Orders /\ (op \in Unsigned => o \in Unsigned)
    BY <2>1, OppositeOrder
  <2>3. ASSUME NEW w \in Word, ~Jumps(op, is_32, w, v)
        PROVE  Compares(o, Low(w), Low(v), SignedHalf(w), SignedHalf(v))
    <3>1. ~Compares(op, Low(w), Low(v), SignedHalf(w), SignedHalf(v))
      BY <1>2, <2>3 DEF Jumps, eval_jmp32
    <3>2. Low(w) \in Int /\ Low(v) \in Int
      BY LowOn, WordInt
    <3>3. SignedHalf(w) \in Int /\ SignedHalf(v) \in Int
      BY WordInt, SignedHalfRange
    <3>. QED BY <2>1, <3>1, <3>2, <3>3, OppositeHolds
  <2>. HIDE DEF o
  <2>. QED BY <1>2, <2>1, <2>2, <2>3, Holds32Keeps
<1>3. CASE op # "Jset" /\ ~is_32
  <2>1. op \in Orders /\ RefineFall(r, op, is_32, v) = Holds64(r, o, v)
    BY <1>3 DEF Orders, RefineFall
  <2>2. o \in Orders
    BY <2>1, OppositeOrder
  <2>3. ASSUME NEW w \in Word, ~Jumps(op, is_32, w, v)
        PROVE  Compares(o, w, v, Signed(w), Signed(v))
    <3>1. ~Compares(op, w, v, Signed(w), Signed(v))
      BY <1>3, <2>3 DEF Jumps, eval_jmp64
    <3>2. w \in Int /\ v \in Int /\ Signed(w) \in Int /\ Signed(v) \in Int
      BY SignedCases
    <3>. QED BY <2>1, <3>1, <3>2, OppositeHolds
  <2>. HIDE DEF o
  <2>. QED BY <1>3, <2>1, <2>2, <2>3, Holds64Keeps
<1>. QED BY <1>1, <1>2, <1>3

-----------------------------------------------------------------------------
(* What an arithmetic instruction makes. *)
LEMMA FromTnumKeeps ==
  ASSUME NEW t, IsTnum(t)
  PROVE  WellFormed(FromTnum(t)) /\ \A w \in Word : InTnum(w, t) => Sound(FromTnum(t), w)
<1>. DEFINE a == min_value(t)
            b == max_value(t)
            s == [type |-> Scalar, tnum |-> t, smin |-> Signed(a), smax |-> Signed(b),
                  umin |-> a, umax |-> b]
<1>1. /\ a \in Word /\ b \in Word /\ a <= b
      /\ \A w \in Word : InTnum(w, t) => a <= w /\ w <= b
  BY TnumRange
<1>2. FromTnum(t) = refine_bounds(s)
  BY DEF FromTnum
<1>3. /\ s.tnum = t /\ s.smin = Signed(a) /\ s.smax = Signed(b) /\ s.umin = a /\ s.umax = b
      /\ s = [type |-> Scalar, tnum |-> t, smin |-> Signed(a), smax |-> Signed(b),
              umin |-> a, umax |-> b]
  OBVIOUS
<1>. HIDE DEF a, b, s
<1>4. Signed(a) \in SignedWord /\ Signed(b) \in SignedWord
  BY <1>1, SignedOfWord
<1>5. WellFormed(s)
  BY <1>1, <1>3, <1>4, FieldsMake
<1>6. ASSUME NEW w \in Word, InTnum(w, t) PROVE Sound(s, w)
  <2>1. a <= w /\ w <= b
    BY <1>1, <1>6
  <2>2. /\ a \in Int /\ b \in Int /\ w \in Int /\ MaxSigned \in Int /\ 2^WordBits \in Int
        /\ Signed(a) = IF a <= MaxSigned THEN a ELSE a - 2^WordBits
        /\ Signed(w) = IF w <= MaxSigned THEN w ELSE w - 2^WordBits
        /\ Signed(b) = IF b <= MaxSigned THEN b ELSE b - 2^WordBits
        /\ (a <= MaxSigned <=> Signed(a) >= 0)
    BY <1>1, SignedOfWord, SignedFacts, WordFacts
  <2>3. Wrap(Signed(b)) = b
    <3>1. /\ Signed(b) \in Int /\ b = IF Signed(b) >= 0 THEN Signed(b) ELSE Signed(b) + 2^WordBits
          /\ Wrap(Signed(b)) = IF Signed(b) >= 0 THEN Signed(b) ELSE Signed(b) + 2^WordBits
      BY <1>1, <1>4, WrappedBySigned, WrapOfSigned, WordInt
    <3>. QED BY <3>1
  <2>4. WrappedBounds(s, w)
    <3>1. CASE a <= MaxSigned
      BY <1>3, <2>1, <2>2, <2>3, <3>1 DEF WrappedBounds
    <3>2. CASE ~(a <= MaxSigned)
      <4>1. /\ ~(w <= MaxSigned) /\ ~(b <= MaxSigned)
        BY <2>1, <2>2, <3>2
      <4>2. Signed(a) <= Signed(w) /\ Signed(w) <= Signed(b) /\ Signed(a) < 0
        <5>1. Signed(a) \in Int
          BY <1>4, WordInt
        <5>. QED BY <2>1, <2>2, <3>2, <4>1, <5>1
      <4>. QED BY <1>3, <4>2 DEF WrappedBounds, SignedBounds
    <3>. QED BY <3>1, <3>2
  <2>. QED BY <1>3, <1>6, <2>1, <2>4 DEF Sound, KnownBits, UnsignedBounds
<1>7. WellFormed(refine_bounds(s)) /\ \A w \in Word : Sound(s, w) => Sound(refine_bounds(s), w)
  BY <1>5, KeepsRefined DEF Keeps
<1>. QED BY <1>2, <1>6, <1>7

Shifts     == {"Lsh", "Rsh", "Arsh"}
(* The operations whose result is computed by its tnum. *)
Arithmetic == AluOp \ {"Mov", "Neg"}

(* The tnum of a result is a tnum. *)
LEMMA ResultIsTnum ==
  ASSUME NEW op \in Arithmetic, NEW a, NEW b, IsTnum(a), IsTnum(b)
  PROVE  IsTnum(ResultTnum(op, a, b))
<1>. DEFINE x == a.value
            y == b.value
            known == is_known(a) /\ is_known(b)
<1>1. x \in Word /\ y \in Word /\ x \in Int /\ y \in Nat /\ y \in Int
  BY WordInt DEF IsTnum
<1>2. ResultTnum(op, a, b) =
        CASE op = "Add"  -> tnum_add(a, b)
          [] op = "Sub"  -> tnum_sub(a, b)
          [] op = "And"  -> tnum_and(a, b)
          [] op = "Or"   -> tnum_or(a, b)
          [] op = "Xor"  -> tnum_xor(a, b)
          [] op = "Lsh"  -> IF is_known(b) THEN lsh(a, y) ELSE unknown
          [] op = "Rsh"  -> IF is_known(b) THEN rsh(a, y) ELSE unknown
          [] op = "Arsh" -> IF known THEN constant(Ashr(x, y)) ELSE unknown
          [] op = "Mul"  -> IF known THEN constant(Wrap(x * y)) ELSE unknown
          [] op = "Div"  -> IF known /\ y # 0 THEN constant(x \div y) ELSE unknown
          [] op = "Mod"  -> IF known /\ y # 0 THEN constant(x % y) ELSE unknown
  BY DEF ResultTnum
<1>3. IsTnum(tnum_add(a, b))
  BY TnumAdd DEF IsTnum
<1>4. IsTnum(tnum_sub(a, b)) /\ IsTnum(tnum_and(a, b)) /\ IsTnum(tnum_or(a, b)) /\ IsTnum(tnum_xor(a, b))
  BY TnumSub, TnumAnd, TnumOr, TnumXor
<1>. HIDE DEF x, y, known
<1>5. IsTnum(lsh(a, y)) /\ IsTnum(rsh(a, y)) /\ IsTnum(unknown)
  BY <1>1, TnumShl, TnumShr, UnknownTnum
<1>6. Ashr(x, y) \in Word /\ Wrap(x * y) \in Word /\ (y # 0 => x \div y \in Word /\ x % y \in Word)
  <2>1. x * y \in Int
    BY <1>1
  <2>. QED BY <1>1, <2>1, AshrIsWord, WrapIsWord, QuotientIsWord
<1>7. IsTnum(constant(Ashr(x, y))) /\ IsTnum(constant(Wrap(x * y)))
      /\ (y # 0 => IsTnum(constant(x \div y)) /\ IsTnum(constant(x % y)))
  BY <1>6, ConstantTnum
<1>. QED BY <1>2, <1>3, <1>4, <1>5, <1>7 DEF Arithmetic, AluOp

(* The tnum of a 64-bit result holds the run's result, for every operation *)
(* but SUB.                                                                *)
LEMMA ResultSound ==
  ASSUME NEW op \in Arithmetic \ {"Sub"}, NEW a, NEW b, IsTnum(a), IsTnum(b),
         NEW d \in Word, NEW s \in Word, InTnum(d, a), InTnum(s, b), op \in Shifts => s < WordBits
  PROVE  InTnum(alu64(op, d, s), ResultTnum(op, a, b))
<1>1. alu64(op, d, s) \in Word
  BY Alu64IsWord DEF Arithmetic
<1>2. InTnum(alu64(op, d, s), unknown)
  BY <1>1, UnknownTnum
<1>3. (is_known(a) => d = a.value) /\ (is_known(b) => s = b.value)
  BY TnumRange
<1>4. s \in Nat /\ d \in Int
  BY WordInt
<1>5. op \in Shifts => s % WordBits = s
  <2>. SUFFICES ASSUME s < WordBits PROVE s % WordBits = s
    OBVIOUS
  <2>1. WordBits \in Nat \ {0} /\ s \in Int /\ s \in 0 .. WordBits - 1 /\ s = WordBits * 0 + s
    BY <1>4, WordFacts
  <2>. QED BY <2>1, DivisionUnique
<1>6. CASE op = "Add"
  BY <1>6, TnumAdd DEF alu64, ResultTnum, IsTnum
<1>7. CASE op = "And"
  BY <1>7, TnumAnd DEF alu64, ResultTnum
<1>8. CASE op = "Or"
  BY <1>8, TnumOr DEF alu64, ResultTnum
<1>9. CASE op = "Xor"
  BY <1>9, TnumXor DEF alu64, ResultTnum
<1>10. CASE op = "Lsh"
  <2>1. alu64(op, d, s) = Shl(d, s)
    BY <1>5, <1>10 DEF alu64, Shifts
  <2>2. InTnum(Shl(d, s), lsh(a, s))
    BY <1>4, <1>10, TnumShl DEF Shifts
  <2>. QED BY <1>2, <1>3, <1>10, <2>1, <2>2 DEF ResultTnum
<1>11. CASE op = "Rsh"
  <2>1. alu64(op, d, s) = Shr(d, s)
    BY <1>5, <1>11 DEF alu64, Shifts
  <2>2. InTnum(Shr(d, s), rsh(a, s))
    BY <1>4, <1>11, TnumShr DEF Shifts
  <2>. QED BY <1>2, <1>3, <1>11, <2>1, <2>2 DEF ResultTnum
<1>12. CASE op = "Arsh"
  <2>1. alu64(op, d, s) = Ashr(d, s)
    BY <1>5, <1>12 DEF alu64, Shifts
  <2>2. InTnum(Ashr(d, s), constant(Ashr(d, s)))
    BY <1>1, <2>1, ConstantTnum
  <2>. QED BY <1>2, <1>3, <1>12, <2>1, <2>2 DEF ResultTnum
<1>13. CASE op = "Mul"
  <2>1. alu64(op, d, s) = Wrap(d * s)
    BY <1>13 DEF alu64
  <2>2. InTnum(Wrap(d * s), constant(Wrap(d * s)))
    BY <1>1, <2>1, ConstantTnum
  <2>. QED BY <1>2, <1>3, <1>13, <2>1, <2>2 DEF ResultTnum
<1>14. CASE op = "Div"
  <2>1. s # 0 => alu64(op, d, s) = d \div s
    BY <1>14 DEF alu64
  <2>2. s # 0 => InTnum(d \div s, constant(d \div s))
    BY <1>1, <2>1, ConstantTnum
  <2>. QED BY <1>2, <1>3, <1>14, <2>1, <2>2 DEF ResultTnum
<1>15. CASE op = "Mod"
  <2>1. s # 0 => alu64(op, d, s) = d % s
    BY <1>15 DEF alu64
  <2>2. s # 0 => InTnum(d % s, constant(d % s))
    BY <1>1, <2>1, ConstantTnum
  <2>. QED BY <1>2, <1>3, <1>15, <2>1, <2>2 DEF ResultTnum
<1>. QED BY <1>6, <1>7, <1>8, <1>9, <1>10, <1>11, <1>12, <1>13, <1>14, <1>15 DEF Arithmetic, AluOp

(* The operations after which the register still speaks for the run: in    *)
(* the 64-bit form all but SUB, whose tracked number may miss the          *)
(* difference, and in the 32-bit form those whose low half depends on the  *)
(* low halves alone.                                                       *)
Sound64 == AluOp \ {"Sub"}
Sound32 == {"Add", "Mul", "Or", "And", "Xor", "Lsh", "Neg"}

(* A count below the half's width is its own low half. *)
LEMMA ShortShift ==
  ASSUME NEW s \in Word, s <= HalfBits - 1
  PROVE  Low(s) = s /\ s % HalfBits = s /\ s < WordBits
<1>1. s \in Int /\ s >= 0 /\ HalfBits \in Nat \ {0} /\ HalfBits < WordBits /\ WordBits \in Nat
  BY WordInt, WordFacts
<1>2. HalfBits < 2^HalfBits /\ 2^HalfBits \in Nat /\ MaxHalf = 2^HalfBits - 1
  BY <1>1, PowerAbove, WordFacts DEF MaxHalf
<1>3. s <= MaxHalf
  BY <1>1, <1>2
<1>4. s \in 0 .. HalfBits - 1 /\ s = HalfBits * 0 + s
  BY <1>1
<1>. QED BY <1>1, <1>3, <1>4, LowFits, DivisionUnique

(* The tnum of a 32-bit result, for the operations whose low half depends  *)
(* on low halves only.                                                     *)
LEMMA Result32Sound ==
  ASSUME NEW op \in Sound32 \ {"Neg"}, NEW a, NEW b, IsTnum(a), IsTnum(b),
         NEW d \in Word, NEW s \in Word, InTnum(d, a), InTnum(s, b),
         op = "Lsh" => s <= HalfBits - 1
  PROVE  InTnum(alu32(op, d, s), trunc32(ResultTnum(op, a, b)))
<1>1. op \in Arithmetic \ {"Sub"} /\ (op \in Shifts => op = "Lsh")
  BY DEF Sound32, Arithmetic, AluOp, Shifts
<1>2. op \in Shifts => s < WordBits
  BY <1>1, ShortShift
<1>3. InTnum(alu64(op, d, s), ResultTnum(op, a, b)) /\ IsTnum(ResultTnum(op, a, b))
  BY <1>1, <1>2, ResultSound, ResultIsTnum
<1>4. alu64(op, d, s) \in Word
  BY <1>1, Alu64IsWord DEF Arithmetic
<1>5. InTnum(Low(alu64(op, d, s)), trunc32(ResultTnum(op, a, b)))
  BY <1>3, <1>4, TnumLow
<1>6. alu32(op, d, s) = Low(alu64(op, d, s))
  <2>1. CASE op \in {"Add", "Mul", "Or", "And", "Xor"}
    <3>1. alu32(op, d, s) = Low(alu64(op, Low(d), Low(s)))
      BY <2>1 DEF alu32
    <3>. QED BY <2>1, <3>1, LowOfAlu
  <2>2. CASE op = "Lsh"
    <3>1. Low(s) = s /\ s % HalfBits = s /\ s \in Nat
      BY <2>2, ShortShift, WordInt
    <3>2. s % WordBits = s
      <4>1. WordBits \in Nat \ {0} /\ s \in Int /\ s \in 0 .. WordBits - 1 /\ s = WordBits * 0 + s
        BY <2>2, <3>1, ShortShift, WordFacts
      <4>. QED BY <4>1, DivisionUnique
    <3>3. alu32(op, d, s) = Low(Low(d) * 2^s)
      BY <2>2, <3>1 DEF alu32
    <3>4. alu64(op, d, s) = Shl(d, s)
      BY <2>2, <3>2 DEF alu64
    <3>. QED BY <3>1, <3>3, <3>4, LowOfShl
  <2>. QED BY <2>1, <2>2 DEF Sound32
<1>. QED BY <1>5, <1>6

(* What check_alu makes of two scalars when it has no error. *)
LEMMA ScalarCheckAlu ==
  ASSUME NEW r, NEW q, WellFormed(r), WellFormed(q), NEW op \in AluOp, NEW is_64 \in BOOLEAN,
         check_alu(op, is_64, r, q).err = {}
  PROVE  /\ op = "Mov" => check_alu(op, is_64, r, q).reg = IF is_64 THEN q ELSE MovLow(q)
         /\ op = "Neg" => check_alu(op, is_64, r, q).reg = scalar_unknown
         /\ op \in Arithmetic => check_alu(op, is_64, r, q).reg = ScalarAlu(op, is_64, r, q)
         /\ op \in Shifts => ~(q.umax > MaxShift(is_64))
<1>. DEFINE c == check_alu(op, is_64, r, q)
<1>1. ~is_ptr(r.type) /\ ~is_ptr(q.type)
  <2>1. r.type = Scalar /\ q.type = Scalar
    BY Fields
  <2>. QED BY <2>1 DEF is_ptr, Scalar
<1>2. CASE op = "Mov"
  <2>1. c = Becomes(IF is_64 THEN q ELSE MovLow(q))
    BY <1>2 DEF check_alu
  <2>. QED BY <1>2, <2>1 DEF Becomes, Arithmetic, Shifts
<1>3. CASE op = "Neg"
  <2>1. c = Becomes(scalar_unknown)
    BY <1>1, <1>3 DEF check_alu
  <2>. QED BY <1>3, <2>1 DEF Becomes, Arithmetic, Shifts
<1>4. CASE op \in Arithmetic
  <2>1. op # "Mov" /\ op # "Neg"
    BY <1>4 DEF Arithmetic
  <2>2. CASE op \in {"Div", "Mod"} /\ q.umin = 0
    <3>1. c = Rejected(r, "DivByZero")
      BY <2>1, <2>2 DEF check_alu
    <3>. QED BY <3>1 DEF Rejected
  <2>3. CASE op \in Shifts /\ q.umax > MaxShift(is_64)
    <3>1. c = Rejected(r, "ShiftOverflow")
      BY <2>1, <2>3 DEF check_alu, Shifts
    <3>. QED BY <3>1 DEF Rejected
  <2>4. CASE ~(op \in {"Div", "Mod"} /\ q.umin = 0) /\ ~(op \in Shifts /\ q.umax > MaxShift(is_64))
    <3>1. c = Becomes(ScalarAlu(op, is_64, r, q))
      BY <1>1, <2>1, <2>4 DEF check_alu, Shifts
    <3>. QED BY <2>1, <2>4, <3>1 DEF Becomes
  <2>. QED BY <2>2, <2>3, <2>4
<1>. QED BY <1>2, <1>3, <1>4 DEF Arithmetic

(* The 32-bit MOV leaves a well-formed register. *)
LEMMA MovLowForm ==
  ASSUME NEW q, WellFormed(q)
  PROVE  WellFormed(MovLow(q))
<1>. DEFINE t == trunc32(q.tnum)
            a == Greater(q.smin, 0)
            b == Lesser(q.smax, MaxHalf)
            c == Lesser(q.umax, MaxHalf)
            s == MovLow(q)
<1>1. s = [q EXCEPT !.type = Scalar, !.tnum = t, !.umax = c, !.smin = a, !.smax = b]
  BY DEF MovLow
<1>2. IsTnum(t)
  BY Fields, TnumLow
<1>3. a \in {q.smin, 0} /\ b \in {q.smax, MaxHalf} /\ c \in {q.umax, MaxHalf}
  BY Fields, LesserGreater, MaxHalfRange
<1>4. q.smin \in SignedWord /\ q.smax \in SignedWord /\ q.umax \in Word /\ 0 \in SignedWord
      /\ MaxHalf \in Word /\ MaxHalf \in SignedWord
  BY Fields, MaxHalfRange, SignedFacts
<1>. HIDE DEF t, a, b, c, s
<1>5. a \in SignedWord /\ b \in SignedWord /\ c \in Word
  BY <1>3, <1>4
<1>6. WellFormed(s)
  BY <1>1, <1>2, <1>5 DEF WellFormed, IsTnum, Tnum
<1>. QED BY <1>6 DEF s

(* The unknown scalar speaks for every word. *)
LEMMA UnknownScalar ==
  /\ WellFormed(scalar_unknown)
  /\ \A w \in Word : Sound(scalar_unknown, w) /\ SignedBounds(scalar_unknown, w)
<1>. DEFINE s == scalar_unknown
<1>1. s = [type |-> Scalar, tnum |-> unknown, smin |-> MinSigned, smax |-> MaxSigned,
           umin |-> 0, umax |-> MaxWord]
  BY DEF scalar_unknown, RegOf
<1>2. /\ s.tnum = unknown /\ s.smin = MinSigned /\ s.smax = MaxSigned /\ s.umin = 0 /\ s.umax = MaxWord
  BY <1>1
<1>. HIDE DEF s
<1>3. /\ IsTnum(unknown) /\ 0 \in Word /\ MaxWord \in Word
      /\ MinSigned \in SignedWord /\ MaxSigned \in SignedWord /\ MinSigned < 0
  BY UnknownTnum, WordFacts, SignedFacts
<1>4. WellFormed(s)
  BY <1>1, <1>3, FieldsMake
<1>5. ASSUME NEW w \in Word PROVE Sound(s, w) /\ SignedBounds(s, w)
  <2>1. InTnum(w, unknown)
    BY UnknownTnum
  <2>2. 0 <= w /\ w <= MaxWord /\ MinSigned <= Signed(w) /\ Signed(w) <= MaxSigned
    BY SignedOfWord, SignedFacts, WordFacts
  <2>. QED BY <1>2, <1>3, <2>1, <2>2 DEF Sound, KnownBits, UnsignedBounds, WrappedBounds, SignedBounds
<1>. QED BY <1>4, <1>5 DEF s

(* Every accepted instruction leaves a well-formed register. *)
LEMMA AluForm ==
  ASSUME NEW r, NEW q, WellFormed(r), WellFormed(q), NEW op \in AluOp, NEW is_64 \in BOOLEAN,
         check_alu(op, is_64, r, q).err = {}
  PROVE  WellFormed(check_alu(op, is_64, r, q).reg)
<1>1. CASE op = "Mov"
  BY <1>1, ScalarCheckAlu, MovLowForm
<1>2. CASE op = "Neg"
  BY <1>2, ScalarCheckAlu, UnknownScalar
<1>3. CASE op \in Arithmetic
  <2>. DEFINE t == ResultTnum(op, r.tnum, q.tnum)
  <2>1. IsTnum(t)
    BY <1>3, Fields, ResultIsTnum
  <2>2. ScalarAlu(op, is_64, r, q) = FromTnum(IF is_64 THEN t ELSE trunc32(t))
    BY DEF ScalarAlu
  <2>. HIDE DEF t
  <2>3. IsTnum(trunc32(t))
    BY <2>1, TnumLow
  <2>. QED BY <1>3, <2>1, <2>2, <2>3, ScalarCheckAlu, FromTnumKeeps
<1>. QED BY <1>1, <1>2, <1>3 DEF Arithmetic

(* An accepted instruction of the sound ones keeps the run's word known. *)
LEMMA AluSound ==
  ASSUME NEW r, NEW q, WellFormed(r), WellFormed(q), NEW is_64 \in BOOLEAN,
         NEW op \in IF is_64 THEN Sound64 ELSE Sound32,
         check_alu(op, is_64, r, q).err = {},
         NEW d \in Word, NEW s \in Word, Sound(r, d), Sound(q, s)
  PROVE  Sound(check_alu(op, is_64, r, q).reg, alu(op, is_64, d, s))
<1>1. op \in AluOp
  BY DEF Sound64, Sound32, AluOp
<1>2. alu(op, is_64, d, s) \in Word
  BY <1>1, AluIsWord
<1>3. CASE op = "Mov"
  <2>1. is_64 /\ alu(op, is_64, d, s) = s
    BY <1>3 DEF Sound32, alu, alu64
  <2>2. check_alu(op, is_64, r, q).reg = IF is_64 THEN q ELSE MovLow(q)
    BY <1>1, <1>3, ScalarCheckAlu
  <2>3. check_alu(op, is_64, r, q).reg = q
    BY <2>1, <2>2
  <2>. QED BY <2>1, <2>3
<1>4. CASE op = "Neg"
  <2>1. check_alu(op, is_64, r, q).reg = scalar_unknown
    BY <1>1, <1>4, ScalarCheckAlu
  <2>. QED BY <1>2, <2>1, UnknownScalar
<1>5. CASE op \in Arithmetic
  <2>. DEFINE t == ResultTnum(op, r.tnum, q.tnum)
  <2>1. IsTnum(r.tnum) /\ IsTnum(q.tnum) /\ InTnum(d, r.tnum) /\ InTnum(s, q.tnum)
    BY Fields DEF Sound, KnownBits
  <2>2. IsTnum(t) /\ IsTnum(trunc32(t))
    BY <1>5, <2>1, ResultIsTnum, TnumLow
  <2>3. op \in Shifts => s <= MaxShift(is_64)
    <3>1. s <= q.umax /\ q.umax \in Int /\ s \in Int
      BY Fields, WordInt DEF Sound, UnsignedBounds
    <3>2. MaxShift(is_64) \in Int
      BY WordFacts DEF MaxShift
    <3>3. op \in Shifts => ~(q.umax > MaxShift(is_64))
      BY <1>1, ScalarCheckAlu
    <3>. QED BY <3>1, <3>2, <3>3
  <2>4. ScalarAlu(op, is_64, r, q) = FromTnum(IF is_64 THEN t ELSE trunc32(t))
    BY DEF ScalarAlu
  <2>5. check_alu(op, is_64, r, q).reg = ScalarAlu(op, is_64, r, q)
    BY <1>1, <1>5, ScalarCheckAlu
  <2>6. CASE is_64
    <3>1. op \in Shifts => s < WordBits
      BY <2>3, <2>6, WordInt, WordFacts DEF MaxShift
    <3>2. op \in Arithmetic \ {"Sub"}
      BY <1>5, <2>6 DEF Sound64
    <3>3. InTnum(alu64(op, d, s), t)
      BY <2>1, <3>1, <3>2, ResultSound
    <3>4. alu(op, is_64, d, s) = alu64(op, d, s)
      BY <2>6 DEF alu
    <3>. HIDE DEF t
    <3>5. check_alu(op, is_64, r, q).reg = FromTnum(t)
      BY <2>4, <2>6, <2>5
    <3>. QED BY <1>2, <2>2, <3>3, <3>4, <3>5, FromTnumKeeps
  <2>7. CASE ~is_64
    <3>1. op = "Lsh" => s <= HalfBits - 1
      BY <2>3, <2>7 DEF MaxShift, Shifts
    <3>2. op \in Sound32 \ {"Neg"}
      BY <1>5, <2>7 DEF Arithmetic
    <3>3. InTnum(alu32(op, d, s), trunc32(t))
      BY <2>1, <3>1, <3>2, Result32Sound
    <3>4. alu(op, is_64, d, s) = alu32(op, d, s)
      BY <2>7 DEF alu
    <3>. HIDE DEF t
    <3>5. check_alu(op, is_64, r, q).reg = FromTnum(trunc32(t))
      BY <2>4, <2>7, <2>5
    <3>. QED BY <1>2, <2>2, <3>3, <3>4, <3>5, FromTnumKeeps
  <2>. QED BY <2>6, <2>7
<1>. QED BY <1>1, <1>3, <1>4, <1>5 DEF Arithmetic

-----------------------------------------------------------------------------
(* Widening and pruning. *)
LEMMA SignedIsWrapped ==
  ASSUME NEW r, WellFormed(r), NEW w \in Word, SignedBounds(r, w)
  PROVE  WrappedBounds(r, w)
<1>1. /\ r.smin <= Signed(w) /\ Signed(w) <= r.smax
      /\ r.smin \in Int /\ r.smax \in Int /\ r.smax \in SignedWord
  BY Fields DEF SignedBounds
<1>2. w \in Int /\ Signed(w) \in Int /\ (Signed(w) >= 0 => w = Signed(w))
  BY SignedCases
<1>3. r.smax >= 0 => Wrap(r.smax) = r.smax
  BY <1>1, WrapOfSigned
<1>. QED BY <1>1, <1>2, <1>3 DEF WrappedBounds, SignedBounds

(* To speak for a word is to be sound for it and to hold its signed reading. *)
LEMMA SpeaksIsSound ==
  ASSUME NEW r, WellFormed(r), NEW w \in Word
  PROVE  Speaks(r, w) <=> Sound(r, w) /\ SignedBounds(r, w)
BY SignedIsWrapped DEF Speaks, Sound

(* A state that is_substate_of finds below another speaks for no word that *)
(* the other does not.                                                     *)
LEMMA SubstateSpeaks ==
  ASSUME NEW r, NEW s, WellFormed(r), WellFormed(s), is_substate_of(r, s), NEW w \in Word, Speaks(r, w)
  PROVE  Speaks(s, w)
<1>1. ScalarLeq(r, s)
  <2>1. IsScalar(r)
    BY Fields DEF IsScalar, Scalar
  <2>. QED BY <2>1 DEF is_substate_of
<1>2. /\ r.umin \in Int /\ r.umax \in Int /\ r.smin \in Int /\ r.smax \in Int /\ IsTnum(r.tnum)
      /\ s.umin \in Int /\ s.umax \in Int /\ s.smin \in Int /\ s.smax \in Int /\ IsTnum(s.tnum)
      /\ w \in Int /\ Signed(w) \in Int
  BY Fields, SignedCases
<1>3. InTnum(w, s.tnum)
  BY <1>1, <1>2, TnumLeq DEF ScalarLeq, Speaks, KnownBits
<1>4. UnsignedBounds(s, w) /\ SignedBounds(s, w)
  BY <1>1, <1>2 DEF ScalarLeq, Speaks, UnsignedBounds, SignedBounds
<1>. QED BY <1>3, <1>4 DEF Speaks, KnownBits

(* Widening speaks for the words of both states. *)
LEMMA WidenSpeaks ==
  ASSUME NEW r, NEW s, WellFormed(r), WellFormed(s)
  PROVE  /\ WellFormed(widen(r, s))
         /\ \A w \in Word : Speaks(r, w) \/ Speaks(s, w) => Speaks(widen(r, s), w)
<1>. DEFINE t == tnum_join(r.tnum, s.tnum)
            a == Lesser(r.smin, s.smin)
            b == Greater(r.smax, s.smax)
            c == Lesser(r.umin, s.umin)
            d == Greater(r.umax, s.umax)
            u == [type |-> Scalar, tnum |-> t, smin |-> a, smax |-> b, umin |-> c, umax |-> d]
<1>1. widen(r, s) = refine_bounds(u)
  <2>1. r.type = s.type /\ IsScalar(r)
    BY Fields DEF IsScalar, Scalar
  <2>. QED BY <2>1 DEF widen, WidenScalar
<1>2. IsTnum(t) /\ \A w \in Word : InTnum(w, r.tnum) \/ InTnum(w, s.tnum) => InTnum(w, t)
  BY Fields, TnumJoin
<1>3. /\ r.umin \in Int /\ r.umax \in Int /\ r.smin \in Int /\ r.smax \in Int
      /\ s.umin \in Int /\ s.umax \in Int /\ s.smin \in Int /\ s.smax \in Int
      /\ r.umin \in Word /\ r.umax \in Word /\ r.smin \in SignedWord /\ r.smax \in SignedWord
      /\ s.umin \in Word /\ s.umax \in Word /\ s.smin \in SignedWord /\ s.smax \in SignedWord
  BY Fields
<1>4. /\ a \in {r.smin, s.smin} /\ a <= r.smin /\ a <= s.smin
      /\ b \in {r.smax, s.smax} /\ b >= r.smax /\ b >= s.smax
      /\ c \in {r.umin, s.umin} /\ c <= r.umin /\ c <= s.umin
      /\ d \in {r.umax, s.umax} /\ d >= r.umax /\ d >= s.umax
  BY <1>3, LesserGreater
<1>5. /\ u.tnum = t /\ u.smin = a /\ u.smax = b /\ u.umin = c /\ u.umax = d
      /\ u = [type |-> Scalar, tnum |-> t, smin |-> a, smax |-> b, umin |-> c, umax |-> d]
  OBVIOUS
<1>. HIDE DEF t, a, b, c, d, u
<1>6. a \in SignedWord /\ b \in SignedWord /\ c \in Word /\ d \in Word
      /\ a \in Int /\ b \in Int /\ c \in Int /\ d \in Int
  BY <1>3, <1>4
<1>7. WellFormed(u)
  BY <1>2, <1>5, <1>6, FieldsMake
<1>8. ASSUME NEW w \in Word, Speaks(r, w) \/ Speaks(s, w) PROVE Speaks(u, w)
  <2>1. w \in Int /\ Signed(w) \in Int
    BY SignedCases
  <2>2. c <= w /\ w <= d
    BY <1>3, <1>4, <1>6, <1>8, <2>1 DEF Speaks, UnsignedBounds
  <2>3. a <= Signed(w) /\ Signed(w) <= b
    BY <1>3, <1>4, <1>6, <1>8, <2>1 DEF Speaks, SignedBounds
  <2>. QED BY <1>2, <1>5, <1>8, <2>2, <2>3 DEF Speaks, KnownBits, UnsignedBounds, SignedBounds
<1>9. WellFormed(refine_bounds(u)) /\ \A w \in Word : Speaks(u, w) => Speaks(refine_bounds(u), w)
  BY <1>7, KeepsRefined, SpeaksIsSound DEF Keeps
<1>. QED BY <1>1, <1>8, <1>9
=============================================================================
