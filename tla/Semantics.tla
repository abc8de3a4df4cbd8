------------------------------ MODULE Semantics ------------------------------
(***************************************************************************)
(* What the instructions compute on words: alu64, alu32, eval_jmp64 and    *)
(* eval_jmp32 of fstar/obj/BPF.Semantics.fst, the repository's own         *)
(* definition of a run.  A shift count and a divisor here are any word:    *)
(* shifts are taken modulo the width, x / 0 is 0 and x % 0 is x.           *)
(***************************************************************************)
EXTENDS Word

AluOp == {"Add", "Sub", "Mul", "Div", "Or", "And", "Lsh", "Rsh", "Neg",
          "Mod", "Xor", "Mov", "Arsh"}
JmpOp == {"Jeq", "Jne", "Jgt", "Jge", "Jlt", "Jle",
          "Jsgt", "Jsge", "Jslt", "Jsle", "Jset"}

alu64(op, d, s) ==
  LET n == s % WordBits IN
  CASE op = "Add"  -> Wrap(d + s)
    [] op = "Sub"  -> Wrap(d - s)
    [] op = "Mul"  -> Wrap(d * s)
    [] op = "Div"  -> IF s = 0 THEN 0 ELSE d \div s
    [] op = "Mod"  -> IF s = 0 THEN d ELSE d % s
    [] op = "Or"   -> Or(d, s)
    [] op = "And"  -> And(d, s)
    [] op = "Xor"  -> Xor(d, s)
    [] op = "Lsh"  -> Shl(d, n)
    [] op = "Rsh"  -> Shr(d, n)
    [] op = "Arsh" -> Ashr(d, n)
    [] op = "Neg"  -> Wrap(-d)
    [] op = "Mov"  -> s

(* The low halves, the result extended with zeros; but x % 0 keeps x whole. *)
alu32(op, x, y) ==
  LET d == Low(x)
      s == Low(y)
      n == s % HalfBits
  IN CASE op \in {"Add", "Sub", "Mul", "Div", "Or", "And", "Xor", "Neg", "Mov"} ->
            Low(alu64(op, d, s))
       [] op = "Mod"  -> IF s = 0 THEN x ELSE d % s
       [] op = "Lsh"  -> Low(d * 2^n)
       [] op = "Rsh"  -> d \div 2^n
       [] op = "Arsh" -> (SignedHalf(d) \div 2^n) % 2^HalfBits

alu(op, is_64, d, s) == IF is_64 THEN alu64(op, d, s) ELSE alu32(op, d, s)

(* a and b as numbers, sa and sb the same words as signed numbers. *)
Compares(op, a, b, sa, sb) ==
  CASE op = "Jeq"  -> a = b
    [] op = "Jne"  -> a # b
    [] op = "Jgt"  -> a > b
    [] op = "Jge"  -> a >= b
    [] op = "Jlt"  -> a < b
    [] op = "Jle"  -> a <= b
    [] op = "Jsgt" -> sa > sb
    [] op = "Jsge" -> sa >= sb
    [] op = "Jslt" -> sa < sb
    [] op = "Jsle" -> sa <= sb
    [] op = "Jset" -> And(a, b) # 0

eval_jmp64(op, a, b) == Compares(op, a, b, Signed(a), Signed(b))
eval_jmp32(op, a, b) == Compares(op, Low(a), Low(b), SignedHalf(a), SignedHalf(b))

Jumps(op, is_32, a, b) == IF is_32 THEN eval_jmp32(op, a, b) ELSE eval_jmp64(op, a, b)
==============================================================================
