---------------------------- MODULE LayoutProofs ----------------------------
(***************************************************************************)
(* Induction along a list, for what is computed by walking it once from    *)
(* the front: the decoding loop here, the scans of object verification in  *)
(* ObjectVerifyProofs.  A number that would break a chain of steps has a   *)
(* least one among its like, and the step before that one holds.           *)
(***************************************************************************)
EXTENDS Layout, WellFoundedInduction, TLAPS

(* Some set of numbers has a least one. *)
LEMMA LeastNumber ==
  ASSUME NEW T, T \subseteq Nat, T # {}
  PROVE  \E x \in T : \A y \in T : x <= y
<1>. DEFINE R == OpToRel(<, Nat)
<1>1. IsWellFoundedOn(R, Nat)
  BY NatLessThanWellFounded
<1>2. \A x, y \in Nat : x < y => <<x, y>> \in R
  BY DEF OpToRel
<1>. HIDE DEF R
<1>3. PICK x \in T : \A y \in T : ~(<<y, x>> \in R)
  BY <1>1, WFMin
<1>4. \A y \in T : x \in Nat /\ y \in Nat /\ ~(y < x)
  BY <1>2, <1>3
<1>. QED BY <1>4

(* What holds before a list and goes on from each position to the next     *)
(* holds at every position.  S is the set of positions where it holds.     *)
LEMMA AlongTheList ==
  ASSUME NEW S, NEW n \in Nat, 0 \in S, \A k \in 0 .. n - 1 : k \in S => k + 1 \in S
  PROVE  \A k \in 0 .. n : k \in S
<1>. DEFINE T == {k \in 0 .. n : k \notin S}
<1>. SUFFICES ASSUME T # {} PROVE FALSE
  OBVIOUS
<1>1. T \subseteq Nat
  OBVIOUS
<1>. HIDE DEF T
<1>2. PICK x \in T : \A y \in T : x <= y
  BY <1>1, LeastNumber
<1>. USE DEF T
<1>3. x # 0 /\ x - 1 \in 0 .. n - 1
  OBVIOUS
<1>4. x - 1 \in S
  BY <1>2, <1>3
<1>. QED BY <1>3, <1>4

(* f is what n turns of F make of c, one value of V after another. *)
IsFold(n, V, c, F, f) ==
  f \in [0 .. n -> V] /\ f[0] = c /\ \A k \in 1 .. n : f[k] = F[<<f[k - 1], k>>]

(* A recursion that takes one of some values and a position to the next    *)
(* value defines all of them.                                              *)
LEMMA FoldExists ==
  ASSUME NEW n \in Nat, NEW V, NEW c \in V, NEW F \in [V \X (1 .. n) -> V]
  PROVE  \E f : IsFold(n, V, c, F, f)
<1>. DEFINE S == {m \in 0 .. n : \E f : IsFold(m, V, c, F, f)}
<1>1. 0 \in S
  <2>1. IsFold(0, V, c, F, [k \in 0 .. 0 |-> c])
    BY DEF IsFold
  <2>. QED BY <2>1
<1>2. ASSUME NEW m \in 0 .. n - 1, m \in S PROVE m + 1 \in S
  <2>1. PICK f : IsFold(m, V, c, F, f)
    BY <1>2
  <2>. DEFINE g == [k \in 0 .. m + 1 |-> IF k = m + 1 THEN F[<<f[m], m + 1>>] ELSE f[k]]
  <2>2. <<f[m], m + 1>> \in V \X (1 .. n)
    BY <2>1 DEF IsFold
  <2>3. F[<<f[m], m + 1>>] \in V
    BY <2>2
  <2>4. g \in [0 .. m + 1 -> V] /\ g[0] = c
    BY <2>1, <2>3 DEF IsFold
  <2>5. ASSUME NEW k \in 1 .. m + 1 PROVE g[k] = F[<<g[k - 1], k>>]
    <3>1. CASE k = m + 1
      <4>1. g[k] = F[<<f[m], m + 1>>] /\ g[k - 1] = f[m]
        BY <3>1
      <4>. QED BY <4>1, <3>1
    <3>2. CASE k # m + 1
      <4>1. k \in 1 .. m /\ k - 1 \in 0 .. m
        BY <3>2
      <4>2. g[k] = f[k] /\ g[k - 1] = f[k - 1]
        BY <4>1
      <4>. QED BY <4>1, <4>2, <2>1 DEF IsFold
    <3>. QED BY <3>1, <3>2
  <2>6. IsFold(m + 1, V, c, F, g)
    BY <2>4, <2>5 DEF IsFold
  <2>7. m + 1 \in 0 .. n
    OBVIOUS
  <2>. HIDE DEF g
  <2>. QED BY <2>6, <2>7
<1>3. \A m \in 0 .. n : m \in S
  <2>. HIDE DEF S
  <2>. QED BY <1>1, <1>2, AlongTheList
<1>. QED BY <1>3

-----------------------------------------------------------------------------
(* An instruction without its relocation is one still. *)
LEMMA WithoutReloc ==
  ASSUME NEW i \in Instructions
  PROVE  [i EXCEPT !.reloc = "none"] \in Instructions
<1>. DEFINE j == [i EXCEPT !.reloc = "none"]
<1>1. j.kind = i.kind /\ j.src = i.src /\ j.op = i.op
  BY DEF Instructions
<1>2. j \in [kind : Kind, dst : Reg, src : Reg \cup {Imm}, imm : Int, off : Int, width : Nat,
             op : AluOpcode \cup JmpOpcode, wide : BOOLEAN, helper : STRING, reloc : {"none", "map", "data", "core"}]
  BY DEF Instructions
<1>. HIDE DEF j
<1>. QED BY <1>1, <1>2 DEF Instructions

(* The decoding loop of parse_elf, one slot after another: it makes a list *)
(* of instructions out of a section of instructions.                       *)
LEMMA DecodingUnrolled ==
  ASSUME NEW raw \in Seq(Instructions)
  PROVE  /\ decoding(raw) \in [0 .. Len(raw) -> Seq(Instructions)]
         /\ decoding(raw)[0] = <<>>
         /\ \A k \in 1 .. Len(raw) : decoding(raw)[k] = Pushed(decoding(raw)[k - 1], raw, k)
<1>. DEFINE n == Len(raw)
            V == Seq(Instructions)
            F == [x \in V \X (1 .. n) |-> Pushed(x[1], raw, x[2])]
<1>1. n \in Nat /\ <<>> \in V
  OBVIOUS
<1>2. ASSUME NEW list \in V, NEW k \in 1 .. n PROVE Pushed(list, raw, k) \in V
  <2>1. raw[k] \in Instructions
    OBVIOUS
  <2>2. [raw[k] EXCEPT !.reloc = "none"] \in Instructions
    BY <2>1, WithoutReloc
  <2>. QED BY <2>1, <2>2 DEF Pushed
<1>3. F \in [V \X (1 .. n) -> V]
  BY <1>2
<1>4. \A list \in V, k \in 1 .. n : F[<<list, k>>] = Pushed(list, raw, k)
  OBVIOUS
<1>. HIDE DEF F, n, V
<1>5. PICK f : IsFold(n, V, <<>>, F, f)
  BY <1>1, <1>3, FoldExists
<1>6. \A k \in 1 .. n : f[k] = Pushed(f[k - 1], raw, k)
  BY <1>1, <1>4, <1>5 DEF IsFold
<1>7. f = [k \in 0 .. n |-> IF k = 0 THEN <<>> ELSE Pushed(f[k - 1], raw, k)]
  BY <1>1, <1>5, <1>6 DEF IsFold
<1>8. decoding(raw) = [k \in 0 .. n |-> IF k = 0 THEN <<>> ELSE Pushed(decoding(raw)[k - 1], raw, k)]
  BY <1>7 DEF decoding, n
<1>9. decoding(raw)[0] = <<>> /\ \A k \in 1 .. n : decoding(raw)[k] = Pushed(decoding(raw)[k - 1], raw, k)
  BY <1>1, <1>8
<1>10. \A k \in 0 .. n : decoding(raw)[k] \in V
  <2>. DEFINE S == {k \in 0 .. n : decoding(raw)[k] \in V}
  <2>1. 0 \in S
    BY <1>1, <1>9
  <2>2. \A k \in 0 .. n - 1 : k \in S => k + 1 \in S
    BY <1>1, <1>2, <1>9
  <2>. HIDE DEF S
  <2>3. \A k \in 0 .. n : k \in S
    BY <1>1, <2>1, <2>2, AlongTheList
  <2>. QED BY <2>3 DEF S
<1>. QED BY <1>8, <1>9, <1>10 DEF n, V

(* So the list that is worked on is one of instructions. *)
LEMMA DecodedList ==
  ASSUME NEW raw \in Seq(Instructions)
  PROVE  decode(raw) \in Seq(Instructions)
  BY DecodingUnrolled DEF decode

-----------------------------------------------------------------------------
(* Which slots are second halves, one slot after another. *)
LEMMA SecondHalves ==
  ASSUME NEW raw \in Seq(Instructions)
  PROVE  /\ \A k \in 1 .. Len(raw) : SecondHalf(raw)[k] \in BOOLEAN
         /\ Len(raw) > 0 => ~SecondHalf(raw)[1]
         /\ \A k \in 1 .. Len(raw) - 1 :
              SecondHalf(raw)[k + 1] <=> raw[k].kind = "ldimm64" /\ ~SecondHalf(raw)[k]
<1>. DEFINE n == Len(raw)
            F == [x \in BOOLEAN \X (1 .. n) |-> x[2] > 1 /\ raw[x[2] - 1].kind = "ldimm64" /\ ~x[1]]
<1>1. n \in Nat /\ DOMAIN raw = 1 .. n
  OBVIOUS
<1>2. F \in [BOOLEAN \X (1 .. n) -> BOOLEAN]
  OBVIOUS
<1>3. \A b \in BOOLEAN, k \in 1 .. n : F[<<b, k>>] = (k > 1 /\ raw[k - 1].kind = "ldimm64" /\ ~b)
  OBVIOUS
<1>. HIDE DEF F, n
<1>4. PICK f : IsFold(n, BOOLEAN, FALSE, F, f)
  BY <1>1, <1>2, FoldExists
<1>. DEFINE g == [k \in 1 .. n |-> f[k]]
<1>5. \A k \in 1 .. n : k - 1 \in 0 .. n /\ (k > 1 => k - 1 \in 1 .. n)
  BY <1>1
<1>6. \A k \in 1 .. n : f[k] = (k > 1 /\ raw[k - 1].kind = "ldimm64" /\ ~f[k - 1])
  BY <1>3, <1>4, <1>5 DEF IsFold
<1>7. \A k \in 1 .. n : f[k] = (k > 1 /\ raw[k - 1].kind = "ldimm64" /\ ~g[k - 1])
  BY <1>5, <1>6
<1>8. g = [k \in DOMAIN raw |-> k > 1 /\ raw[k - 1].kind = "ldimm64" /\ ~g[k - 1]]
  BY <1>1, <1>7
<1>. HIDE DEF g
<1>. DEFINE s == SecondHalf(raw)
<1>9. s = [k \in DOMAIN raw |-> k > 1 /\ raw[k - 1].kind = "ldimm64" /\ ~s[k - 1]]
  BY <1>8 DEF SecondHalf
<1>. HIDE DEF s
<1>10. \A k \in 1 .. n : s[k] = (k > 1 /\ raw[k - 1].kind = "ldimm64" /\ ~s[k - 1])
  BY <1>1, <1>9
<1>11. ASSUME NEW k \in 1 .. n - 1 PROVE s[k + 1] <=> raw[k].kind = "ldimm64" /\ ~s[k]
  <2>1. k + 1 \in 1 .. n /\ k + 1 > 1 /\ (k + 1) - 1 = k
    BY <1>1
  <2>. QED BY <1>10, <2>1
<1>12. \A k \in 1 .. n : s[k] \in BOOLEAN
  BY <1>10
<1>13. ASSUME n > 0 PROVE ~s[1]
  <2>1. 1 \in 1 .. n /\ ~(1 > 1)
    BY <1>1, <1>13
  <2>2. s[1] = (1 > 1 /\ raw[1 - 1].kind = "ldimm64" /\ ~s[1 - 1])
    BY <1>10, <2>1
  <2>. QED BY <2>1, <2>2
<1>. QED BY <1>11, <1>12, <1>13 DEF s, n

(* build_pc_map: where the instructions of a list begin, one after another.*)
LEMMA PositionsUnrolled ==
  ASSUME NEW code \in Seq(Instructions)
  PROVE  /\ \A k \in 0 .. Len(code) : collapsed_to_raw(code, k) \in Nat
         /\ collapsed_to_raw(code, 0) = 0
         /\ \A k \in 0 .. Len(code) - 1 :
              collapsed_to_raw(code, k + 1) = collapsed_to_raw(code, k) + Slots64(code[k + 1])
<1>. DEFINE n == Len(code)
            F == [x \in Nat \X (1 .. n) |-> x[1] + Slots64(code[x[2]])]
<1>1. n \in Nat
  OBVIOUS
<1>2. \A k \in 1 .. n : Slots64(code[k]) \in Nat
  BY DEF Slots64
<1>. HIDE DEF n
<1>3. F \in [Nat \X (1 .. n) -> Nat] /\ \A a \in Nat, k \in 1 .. n : F[<<a, k>>] = a + Slots64(code[k])
  BY <1>2
<1>. HIDE DEF F
<1>4. PICK f : IsFold(n, Nat, 0, F, f)
  BY <1>1, <1>3, FoldExists
<1>5. f = [k \in 0 .. n |-> IF k = 0 THEN 0 ELSE f[k - 1] + Slots64(code[k])]
  <2>1. \A k \in 1 .. n : f[k] = f[k - 1] + Slots64(code[k])
    <3>1. \A k \in 1 .. n : f[k - 1] \in Nat
      BY <1>1, <1>4 DEF IsFold
    <3>. QED BY <1>3, <1>4, <3>1 DEF IsFold
  <2>. QED BY <1>1, <1>4, <2>1 DEF IsFold
<1>. DEFINE Is(g) == g = [k \in 0 .. n |-> IF k = 0 THEN 0 ELSE g[k - 1] + Slots64(code[k])]
            c == CHOOSE g : Is(g)
<1>6. Is(c)
  BY <1>5
<1>7. \A k : collapsed_to_raw(code, k) = c[k]
  BY DEF collapsed_to_raw, n
<1>8. c = [k \in 0 .. n |-> IF k = 0 THEN 0 ELSE c[k - 1] + Slots64(code[k])]
  <2>. HIDE DEF c
  <2>. QED BY <1>6
<1>. HIDE DEF c, Is
<1>9. c[0] = 0
  BY <1>1, <1>8
<1>10. ASSUME NEW k \in 0 .. n - 1 PROVE c[k + 1] = c[k] + Slots64(code[k + 1])
  <2>1. k + 1 \in 0 .. n /\ k + 1 # 0 /\ (k + 1) - 1 = k
    BY <1>1
  <2>. QED BY <1>8, <2>1
<1>11. \A k \in 0 .. n : c[k] \in Nat
  <2>. DEFINE S == {k \in 0 .. n : c[k] \in Nat}
  <2>1. 0 \in S
    BY <1>1, <1>9
  <2>2. ASSUME NEW k \in 0 .. n - 1, k \in S PROVE k + 1 \in S
    <3>1. k + 1 \in 1 .. n /\ k + 1 \in 0 .. n
      BY <1>1
    <3>2. Slots64(code[k + 1]) \in Nat
      BY <1>2, <3>1
    <3>. QED BY <1>10, <2>2, <3>1, <3>2
  <2>. HIDE DEF S
  <2>3. \A k \in 0 .. n : k \in S
    BY <1>1, <2>1, <2>2, AlongTheList
  <2>. QED BY <2>3 DEF S
<1>. QED BY <1>7, <1>9, <1>10, <1>11 DEF n

(* From one instruction to a later one there are as many slots as there    *)
(* are instructions, if and only if no LD_IMM64 is among them.             *)
LEMMA SlotsBetween ==
  ASSUME NEW code \in Seq(Instructions), NEW a \in 0 .. Len(code), NEW b \in a .. Len(code)
  PROVE  /\ collapsed_to_raw(code, b) - collapsed_to_raw(code, a) >= b - a
         /\ collapsed_to_raw(code, b) - collapsed_to_raw(code, a) = b - a <=>
              \A j \in a .. b - 1 : At(code, j).kind # "ldimm64"
<1>. DEFINE c(k) == collapsed_to_raw(code, k)
            Short(k) == At(code, k).kind # "ldimm64"
            n == Len(code)
            S == {d \in 0 .. n - a : /\ c(a + d) - c(a) >= d
                                     /\ c(a + d) - c(a) = d <=> \A j \in a .. a + d - 1 : Short(j)}
<1>1. n \in Nat /\ a \in Nat /\ n - a \in Nat
  OBVIOUS
<1>2. \A k \in 0 .. n : c(k) \in Nat
  BY PositionsUnrolled
<1>3. \A k \in 0 .. n - 1 : c(k + 1) = c(k) + (IF Short(k) THEN 1 ELSE 2)
  BY PositionsUnrolled DEF At, Slots64
<1>. HIDE DEF c, Short, n
<1>4. 0 \in S
  BY <1>1, <1>2
<1>5. ASSUME NEW d \in 0 .. n - a - 1, d \in S PROVE d + 1 \in S
  <2>1. a + d \in 0 .. n - 1 /\ a + d \in 0 .. n /\ a \in 0 .. n /\ d + 1 \in 0 .. n - a
    BY <1>1
  <2>2. c(a + (d + 1)) = c(a + d) + (IF Short(a + d) THEN 1 ELSE 2)
    BY <1>1, <1>3, <2>1
  <2>3. c(a) \in Nat /\ c(a + d) \in Nat
    BY <1>2, <2>1
  <2>4. (\A j \in a .. a + (d + 1) - 1 : Short(j)) <=> (\A j \in a .. a + d - 1 : Short(j)) /\ Short(a + d)
    <3>1. \A j : j \in a .. a + (d + 1) - 1 <=> j \in a .. a + d - 1 \/ j = a + d
      BY <1>1, <2>1
    <3>. QED BY <3>1
  <2>5. c(a + d) - c(a) >= d /\ (c(a + d) - c(a) = d <=> \A j \in a .. a + d - 1 : Short(j))
    BY <1>5
  <2>6. c(a + (d + 1)) - c(a) >= d + 1
    BY <2>1, <2>2, <2>3, <2>5
  <2>7. c(a + (d + 1)) - c(a) = d + 1 <=> c(a + d) - c(a) = d /\ Short(a + d)
    <3>1. CASE Short(a + d)
      BY <2>1, <2>2, <2>3, <3>1
    <3>2. CASE ~Short(a + d)
      BY <2>1, <2>2, <2>3, <2>5, <3>2
    <3>. QED BY <3>1, <3>2
  <2>. QED BY <2>1, <2>4, <2>5, <2>6, <2>7
<1>6. \A d \in 0 .. n - a : d \in S
  <2>. HIDE DEF S
  <2>1. \A d \in 0 .. (n - a) - 1 : d \in S => d + 1 \in S
    BY <1>1, <1>5
  <2>. QED BY <1>1, <1>4, <2>1, AlongTheList
<1>7. b - a \in S /\ a + (b - a) = b
  BY <1>1, <1>6 DEF n
<1>. QED BY <1>7 DEF S, c, Short

(* An instruction more leaves the positions of the ones before it. *)
LEMMA PositionsKept ==
  ASSUME NEW code \in Seq(Instructions), NEW i \in Instructions
  PROVE  \A k \in 0 .. Len(code) : collapsed_to_raw(Append(code, i), k) = collapsed_to_raw(code, k)
<1>. DEFINE more == Append(code, i)
            S == {k \in 0 .. Len(code) : collapsed_to_raw(more, k) = collapsed_to_raw(code, k)}
<1>1. more \in Seq(Instructions) /\ Len(more) = Len(code) + 1 /\ Len(code) \in Nat
      /\ \A k \in 1 .. Len(code) : more[k] = code[k]
  OBVIOUS
<1>. HIDE DEF more
<1>2. 0 \in S
  BY <1>1, PositionsUnrolled
<1>3. ASSUME NEW k \in 0 .. Len(code) - 1, k \in S PROVE k + 1 \in S
  <2>1. k + 1 \in 0 .. Len(code) /\ k + 1 \in 1 .. Len(code) /\ k \in 0 .. Len(more) - 1
    BY <1>1
  <2>2. collapsed_to_raw(more, k + 1) = collapsed_to_raw(more, k) + Slots64(more[k + 1])
    BY <1>1, <2>1, PositionsUnrolled
  <2>3. collapsed_to_raw(code, k + 1) = collapsed_to_raw(code, k) + Slots64(code[k + 1])
    BY PositionsUnrolled
  <2>4. more[k + 1] = code[k + 1]
    BY <1>1, <2>1
  <2>. QED BY <1>3, <2>1, <2>2, <2>3, <2>4
<1>. HIDE DEF S
<1>4. \A k \in 0 .. Len(code) : k \in S
  BY <1>1, <1>2, <1>3, AlongTheList
<1>. QED BY <1>4 DEF S, more

-----------------------------------------------------------------------------
(* The list of the first n slots: where it ends, and which slots its       *)
(* instructions are.  A last LD_IMM64 ends after a slot still to come.     *)
IsOpen(raw, n) == n > 0 /\ raw[n].kind = "ldimm64" /\ ~SecondHalf(raw)[n]

(* The same instruction, but for the relocation of its LD_IMM64. *)
Alike(i, j) ==
  \A field \in {"kind", "dst", "src", "imm", "off", "width", "op", "wide", "helper"} : i[field] = j[field]

IsSlotOf(raw, code, k) ==
  LET s == collapsed_to_raw(code, k) IN s \in Indices(raw) /\ Alike(At(raw, s), At(code, k))

LaidOut(raw, n) ==
  LET code == decoding(raw)[n] IN
  /\ collapsed_to_raw(code, Len(code)) = IF IsOpen(raw, n) THEN n + 1 ELSE n
  /\ \A k \in Indices(code) : IsSlotOf(raw, code, k) /\ collapsed_to_raw(code, k) < n

LEMMA LaidOutNext ==
  ASSUME NEW raw \in Seq(Instructions), Decodes(raw), NEW n \in 0 .. Len(raw) - 1, LaidOut(raw, n)
  PROVE  LaidOut(raw, n + 1)
<1>. DEFINE code == decoding(raw)[n]
            more == decoding(raw)[n + 1]
            k1   == n + 1
<1>1. /\ n \in 0 .. Len(raw) /\ k1 \in 1 .. Len(raw) /\ k1 - 1 = n /\ Len(raw) \in Nat
      /\ raw[k1] \in Instructions /\ raw[k1].kind # "undecodable"
  BY DEF Decodes
<1>2. code \in Seq(Instructions) /\ more = Pushed(code, raw, k1)
  BY <1>1, DecodingUnrolled
<1>3. SecondHalf(raw)[k1] <=> IsOpen(raw, n)
  <2>1. CASE n = 0
    BY <1>1, <2>1, SecondHalves DEF IsOpen
  <2>2. CASE n # 0
    <3>1. n \in 1 .. Len(raw) - 1 /\ n > 0
      BY <2>2
    <3>. QED BY <3>1, SecondHalves DEF IsOpen
  <2>. QED BY <2>1, <2>2
<1>4. IsOpen(raw, k1) <=> raw[k1].kind = "ldimm64" /\ ~IsOpen(raw, n)
  BY <1>1, <1>3 DEF IsOpen
<1>5. /\ collapsed_to_raw(code, Len(code)) = IF IsOpen(raw, n) THEN n + 1 ELSE n
      /\ \A k \in Indices(code) : IsSlotOf(raw, code, k) /\ collapsed_to_raw(code, k) < n
  BY DEF LaidOut
<1>. HIDE DEF code, more, k1
<1>6. CASE IsOpen(raw, n)
  <2>1. more = code
    BY <1>2, <1>3, <1>6 DEF Pushed
  <2>2. n + 1 = k1
    BY DEF k1
  <2>3. \A k \in Indices(code) : collapsed_to_raw(code, k) < k1
    <3>1. \A k \in Indices(code) : collapsed_to_raw(code, k) \in Nat
      BY <1>2, PositionsUnrolled DEF Indices
    <3>. QED BY <1>1, <1>5, <2>2, <3>1
  <2>. QED BY <1>4, <1>5, <1>6, <2>1, <2>2, <2>3 DEF LaidOut, more, code
<1>7. CASE ~IsOpen(raw, n)
  <2>. DEFINE i == IF raw[k1].kind = "ldimm64" /\ k1 = Len(raw)
                     THEN [raw[k1] EXCEPT !.reloc = "none"] ELSE raw[k1]
              l == Len(code)
  <2>1. more = Append(code, i)
    BY <1>1, <1>2, <1>3, <1>7 DEF Pushed
  <2>2. i \in Instructions /\ i.kind = raw[k1].kind /\ Alike(raw[k1], i)
    <3>1. [raw[k1] EXCEPT !.reloc = "none"] \in Instructions
      BY <1>1, WithoutReloc
    <3>2. Alike(raw[k1], [raw[k1] EXCEPT !.reloc = "none"]) /\ Alike(raw[k1], raw[k1])
      BY <1>1 DEF Instructions, Alike
    <3>3. Alike(raw[k1], i)
      BY <3>2
    <3>. QED BY <1>1, <3>1, <3>3 DEF Alike
  <2>. HIDE DEF i
  <2>3. more \in Seq(Instructions) /\ Len(more) = l + 1 /\ l \in Nat /\ more[l + 1] = i
        /\ \A k \in 1 .. l : more[k] = code[k]
    BY <1>2, <2>1, <2>2
  <2>4. \A k \in 0 .. l : collapsed_to_raw(more, k) = collapsed_to_raw(code, k)
    BY <1>2, <2>1, <2>2, PositionsKept
  <2>5. collapsed_to_raw(more, l) = n
    BY <1>5, <1>7, <2>3, <2>4
  <2>6. collapsed_to_raw(more, l + 1) = n + Slots64(i)
    <3>1. l \in 0 .. Len(more) - 1
      BY <2>3
    <3>. QED BY <2>3, <2>5, <3>1, PositionsUnrolled
  <2>7. collapsed_to_raw(more, Len(more)) = IF IsOpen(raw, k1) THEN k1 + 1 ELSE k1
    BY <1>1, <1>4, <1>7, <2>2, <2>3, <2>6 DEF Slots64
  <2>8. ASSUME NEW k \in Indices(more) PROVE IsSlotOf(raw, more, k) /\ collapsed_to_raw(more, k) < k1
    <3>1. CASE k = l
      <4>1. collapsed_to_raw(more, k) = n /\ n \in Indices(raw) /\ n < k1
        BY <1>1, <2>5, <3>1 DEF Indices
      <4>2. At(raw, n) = raw[k1] /\ At(more, k) = i
        BY <1>1, <2>3, <3>1 DEF At, k1
      <4>. QED BY <2>2, <4>1, <4>2 DEF IsSlotOf
    <3>2. CASE k # l
      <4>1. k \in Indices(code) /\ k \in 0 .. l /\ k + 1 \in 1 .. l
        BY <2>3, <3>2 DEF Indices
      <4>2. collapsed_to_raw(more, k) = collapsed_to_raw(code, k) /\ At(more, k) = At(code, k)
        BY <2>3, <2>4, <4>1 DEF At
      <4>3. IsSlotOf(raw, code, k) /\ collapsed_to_raw(code, k) < n /\ collapsed_to_raw(code, k) \in Nat
        BY <1>2, <1>5, <4>1, PositionsUnrolled
      <4>4. IsSlotOf(raw, more, k)
        BY <4>2, <4>3 DEF IsSlotOf
      <4>5. n < k1 /\ n \in Nat /\ k1 \in Nat
        BY <1>1
      <4>. QED BY <4>2, <4>3, <4>4, <4>5
    <3>. QED BY <3>1, <3>2
  <2>. QED BY <2>7, <2>8 DEF LaidOut, more, k1
<1>. QED BY <1>6, <1>7

(* An instruction of the list is one of the section, at the slot that      *)
(* build_pc_map gives it, when every slot decodes.                         *)
LEMMA EveryInsnHasItsSlot ==
  ASSUME NEW raw \in Seq(Instructions), Decodes(raw)
  PROVE  \A k \in Indices(decode(raw)) : IsSlotOf(raw, decode(raw), k)
<1>. DEFINE S == {n \in 0 .. Len(raw) : LaidOut(raw, n)}
<1>1. Len(raw) \in Nat
  OBVIOUS
<1>2. 0 \in S
  <2>1. decoding(raw)[0] = <<>> /\ collapsed_to_raw(<<>>, 0) = 0 /\ Indices(<<>>) = {}
    BY DecodingUnrolled, PositionsUnrolled DEF Indices
  <2>. QED BY <1>1, <2>1 DEF LaidOut, IsOpen
<1>3. \A n \in 0 .. Len(raw) - 1 : n \in S => n + 1 \in S
  BY <1>1, LaidOutNext
<1>. HIDE DEF S
<1>4. \A n \in 0 .. Len(raw) : n \in S
  BY <1>1, <1>2, <1>3, AlongTheList
<1>5. Len(raw) \in S
  BY <1>1, <1>4
<1>. QED BY <1>5 DEF S, LaidOut, decode
=============================================================================
