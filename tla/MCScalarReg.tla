----------------------------- MODULE MCScalarReg -----------------------------
(***************************************************************************)
(* ScalarReg on words of three bits with halves of two, and at a loop head *)
(* of two bits with halves of one: all words, all tnums and all the        *)
(* wrap-arounds of the code occur.                                         *)
(***************************************************************************)
EXTENDS ScalarReg

(* Immediates and constants. *)
Constants(S) == {[reg |-> scalar_value(v), val |-> v] : v \in S}

(* Loaded from memory: any word. *)
Loaded == {[reg |-> scalar_unknown, val |-> v] : v \in Word}

(* Any word known not to be zero, and any word below a bound. *)
Positive  == {[reg |-> AtLeast(scalar_unknown, 1), val |-> v] : v \in Word \ {0}}
Below(n)  == {[reg |-> AtMost(scalar_unknown, n), val |-> v] : v \in 0 .. n}

(* Two or three: (x & 1) | 2 for any x. *)
TwoOrThree == {[reg |-> FromTnum([value |-> 2, mask |-> 1]), val |-> v] : v \in {2, 3}}

MCOperands   == Constants(Word) \cup Loaded \cup Positive \cup Below(1) \cup TwoOrThree

AllJmps      == JmpOp
SoundOps64   == AluOp \ {"Sub"}
SoundOps32   == {"Add", "Mul", "Or", "And", "Xor", "Lsh", "Neg"}
UnsignedJmps == {"Jeq", "Jne", "Jgt", "Jge", "Jlt", "Jle", "Jset"}
CopyOps      == {"Mov", "Neg"}
===============================================================================
