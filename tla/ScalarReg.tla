------------------------------ MODULE ScalarReg ------------------------------
(***************************************************************************)
(* One scalar register along one path of the verifier, next to the word    *)
(* that a run of the program has in it.  The verifier's half of a step is  *)
(* check_alu, refine_branch on a scalar, and widening and pruning at a     *)
(* loop head; the run's half is Semantics.  The run decides which way a    *)
(* jump goes.                                                              *)
(***************************************************************************)
EXTENDS Alu, Branch, Semantics, Sequences

CONSTANTS
  Operands,    \* other registers and immediates: [reg |-> ..., val |-> ...]
  Ops64,       \* operations used in the 64-bit and in the 32-bit form
  Ops32,
  Jmps64,
  Jmps32,
  LoopHead     \* does the path come back to a loop head

ASSUME OperandsAssumption ==
  \A o \in Operands : /\ WellFormed(o.reg) /\ o.val \in Word
                      /\ KnownBits(o.reg, o.val)
                      /\ UnsignedBounds(o.reg, o.val)

ASSUME OperationsAssumption ==
  /\ Ops64 \subseteq AluOp /\ Ops32 \subseteq AluOp
  /\ Jmps64 \subseteq JmpOp /\ Jmps32 \subseteq JmpOp
  /\ LoopHead \in BOOLEAN

VARIABLES
  reg,      \* what the verifier knows of the register
  val,      \* the word in it
  head      \* the states remembered at the loop head: none or one

vars == <<reg, val, head>>

Init ==
  /\ \E o \in Operands : reg = o.reg /\ val = o.val
  /\ head = <<>>

(* Another operand, or the register itself. *)
Operand == Operands \cup {[reg |-> reg, val |-> val]}

AluStep(op, is_64) ==
  \E o \in Operand :
    LET out == check_alu(op, is_64, reg, o.reg) IN
    /\ out.err = {}
    /\ reg' = out.reg
    /\ val' = alu(op, is_64, val, o.val)
    /\ UNCHANGED head

(* A jump on the register refines it when the other side is known, which   *)
(* refine_branch reads off the whole register also for a 32-bit compare.   *)
JumpTaken(op, is_32) ==
  \E o \in Operand :
    /\ Jumps(op, is_32, val, o.val)
    /\ reg' = IF is_known(o.reg.tnum) THEN RefineTaken(reg, op, is_32, o.reg.tnum.value)
                                      ELSE reg
    /\ UNCHANGED <<val, head>>

JumpFalls(op, is_32) ==
  \E o \in Operand :
    /\ ~Jumps(op, is_32, val, o.val)
    /\ reg' = IF is_known(o.reg.tnum) THEN RefineFall(reg, op, is_32, o.reg.tnum.value)
                                      ELSE reg
    /\ UNCHANGED <<val, head>>

(* The three things that happen to a state arriving at a loop head: it is  *)
(* the first, it is covered by the remembered one, which speaks for it     *)
(* from here on, or it is widened into the remembered one.                 *)
FirstArrival ==
  /\ LoopHead
  /\ head = <<>>
  /\ head' = <<reg>>
  /\ UNCHANGED <<reg, val>>

Covered ==
  /\ head # <<>>
  /\ is_substate_of(reg, head[1])
  /\ reg' = head[1]
  /\ UNCHANGED <<val, head>>

Widened ==
  /\ head # <<>>
  /\ ~is_substate_of(reg, head[1])
  /\ reg' = widen(head[1], reg)
  /\ head' = <<reg'>>
  /\ UNCHANGED val

Next ==
  \/ \E op \in Ops64 : AluStep(op, TRUE)
  \/ \E op \in Ops32 : AluStep(op, FALSE)
  \/ \E op \in Jmps64 : JumpTaken(op, FALSE) \/ JumpFalls(op, FALSE)
  \/ \E op \in Jmps32 : JumpTaken(op, TRUE) \/ JumpFalls(op, TRUE)
  \/ FirstArrival
  \/ Covered
  \/ Widened

Spec == Init /\ [][Next]_vars

-----------------------------------------------------------------------------
(* A scalar register stays well formed; "value & mask == 0" of the tnum is *)
(* part of it (state.rs:11).                                               *)
TypeOK ==
  /\ WellFormed(reg)
  /\ val \in Word
  /\ head # <<>> => Len(head) = 1 /\ WellFormed(head[1])

(* "value holds bits known to be 1 ... known-zero bits have value=0,       *)
(* mask=0" (state.rs:7-9): the run agrees with every bit that the verifier *)
(* takes for known, after any mix of operations, jumps and widenings.      *)
KnownBitsHold == KnownBits(reg, val)

(* The unsigned bounds, which alone stand between a program and a division *)
(* by zero or a shift too far, contain the word of the run.                *)
UnsignedBoundsHold == UnsignedBounds(reg, val)

(* From a lower signed bound that is not negative on, the code takes the   *)
(* signed bounds for bounds of the word itself (UnsignedFromSigned): they  *)
(* are.  The unsigned bounds rest on this, and need no more of them.       *)
WrappedBoundsHold == WrappedBounds(reg, val)

(* The signed bounds contain the word of the run read as a signed number.  *)
SignedBoundsHold == SignedBounds(reg, val)

(* Widening at a loop head loses no earlier arrival: a word that the       *)
(* remembered state spoke for is one that its successor speaks for, though *)
(* refine_bounds may draw single bounds closer again.                      *)
HeadGrows ==
  [][head # <<>> => \A w \in Word : Speaks(head[1], w) => Speaks(head'[1], w)]_vars

(* An accepted division or modulo has a divisor other than zero, in the    *)
(* half of the register that the instruction reads.                        *)
NoDivisionByZero ==
  \A is_64 \in BOOLEAN, o \in Operand :
    check_alu("Div", is_64, reg, o.reg).err = {} =>
      (IF is_64 THEN o.val ELSE Low(o.val)) # 0
==============================================================================
