--------------------------- MODULE ScalarRegProofs ---------------------------
(***************************************************************************)
(* The scalar register along a path, for every word width: it stays well   *)
(* formed whatever the path does, and it speaks for the word of the run    *)
(* after the operations listed in SoundOperations and, at loop heads, in   *)
(* CopyOperations.  For each operation left out there is a counterexample. *)
(***************************************************************************)
EXTENDS ScalarReg, DomainProofs

-----------------------------------------------------------------------------
(* Every operand is well formed and holds a word. *)
LEMMA OperandForm ==
  ASSUME TypeOK, NEW o \in Operand
  PROVE  /\ WellFormed(o.reg) /\ o.val \in Word
         /\ is_known(o.reg.tnum) => o.reg.tnum.value \in Word
         /\ is_known(o.reg.tnum) /\ KnownBits(o.reg, o.val) => o.reg.tnum.value = o.val
<1>1. WellFormed(o.reg) /\ o.val \in Word
  <2>1. CASE o \in Operands
    BY <2>1, OperandsAssumption
  <2>2. CASE o = [reg |-> reg, val |-> val]
    <3>1. o.reg = reg /\ o.val = val
      BY <2>2
    <3>. QED BY <3>1 DEF TypeOK
  <2>. QED BY <2>1, <2>2 DEF Operand
<1>2. IsTnum(o.reg.tnum)
  BY <1>1, Fields
<1>3. o.reg.tnum.value \in Word
  BY <1>2 DEF IsTnum
<1>4. InTnum(o.val, o.reg.tnum) /\ is_known(o.reg.tnum) => o.val = o.reg.tnum.value
  BY <1>1, <1>2, TnumRange
<1>. QED BY <1>1, <1>3, <1>4 DEF KnownBits

(* The state remembered at the loop head is well formed. *)
LEMMA HeadForm ==
  ASSUME TypeOK
  PROVE  head # <<>> => WellFormed(head[1])
BY DEF TypeOK


(* TypeOK: whatever is accepted, every register on the path stays well     *)
(* formed (value & mask == 0, state.rs:11), for every word width, every    *)
(* set of operations and every operand.                                    *)
THEOREM TypeInvariant == Spec => []TypeOK
<1>1. Init => TypeOK
  BY OperandsAssumption DEF Init, TypeOK
<1>2. TypeOK /\ [Next]_vars => TypeOK'
  <2>. SUFFICES ASSUME TypeOK, [Next]_vars PROVE TypeOK'
    OBVIOUS
  <2>0. WellFormed(reg) /\ val \in Word
    BY DEF TypeOK
  <2>h. UNCHANGED head /\ WellFormed(reg') /\ val' \in Word => TypeOK'
    BY DEF TypeOK
  <2>1. ASSUME NEW op \in AluOp, NEW is_64 \in BOOLEAN, AluStep(op, is_64) PROVE TypeOK'
    <3>1. PICK o \in Operand : /\ check_alu(op, is_64, reg, o.reg).err = {}
                               /\ reg' = check_alu(op, is_64, reg, o.reg).reg
                               /\ val' = alu(op, is_64, val, o.val)
      BY <2>1 DEF AluStep
    <3>2. WellFormed(o.reg) /\ o.val \in Word
      BY OperandForm
    <3>3. WellFormed(check_alu(op, is_64, reg, o.reg).reg)
      BY <2>0, <3>1, <3>2, AluForm
    <3>4. alu(op, is_64, val, o.val) \in Word
      BY <2>0, <3>2, AluIsWord
    <3>5. UNCHANGED head
      BY <2>1 DEF AluStep
    <3>. QED BY <2>h, <3>1, <3>3, <3>4, <3>5
  <2>2. ASSUME NEW op \in JmpOp, NEW is_32 \in BOOLEAN, JumpTaken(op, is_32) PROVE TypeOK'
    <3>1. PICK o \in Operand :
            reg' = IF is_known(o.reg.tnum) THEN RefineTaken(reg, op, is_32, o.reg.tnum.value) ELSE reg
      BY <2>2 DEF JumpTaken
    <3>2. is_known(o.reg.tnum) => WellFormed(RefineTaken(reg, op, is_32, o.reg.tnum.value))
      BY <2>0, OperandForm, TakenKeeps
    <3>3. UNCHANGED <<val, head>>
      BY <2>2 DEF JumpTaken
    <3>. QED BY <2>0, <2>h, <3>1, <3>2, <3>3
  <2>3. ASSUME NEW op \in JmpOp, NEW is_32 \in BOOLEAN, JumpFalls(op, is_32) PROVE TypeOK'
    <3>1. PICK o \in Operand :
            reg' = IF is_known(o.reg.tnum) THEN RefineFall(reg, op, is_32, o.reg.tnum.value) ELSE reg
      BY <2>3 DEF JumpFalls
    <3>2. is_known(o.reg.tnum) => WellFormed(RefineFall(reg, op, is_32, o.reg.tnum.value))
      BY <2>0, OperandForm, FallKeeps
    <3>3. UNCHANGED <<val, head>>
      BY <2>3 DEF JumpFalls
    <3>. QED BY <2>0, <2>h, <3>1, <3>2, <3>3
  <2>4. CASE FirstArrival
    BY <2>0, <2>4 DEF FirstArrival, TypeOK
  <2>5. CASE Covered
    BY <2>0, <2>h, <2>5, HeadForm DEF Covered
  <2>6. CASE Widened
    <3>1. WellFormed(reg')
      BY <2>0, <2>6, HeadForm, WidenSpeaks DEF Widened
    <3>2. head' = <<reg'>> /\ val' = val
      BY <2>6 DEF Widened
    <3>3. head' # <<>> /\ Len(head') = 1 /\ head'[1] = reg'
      BY <3>2
    <3>. QED BY <2>0, <3>1, <3>2, <3>3 DEF TypeOK
  <2>7. CASE UNCHANGED vars
    BY <2>0, <2>h, <2>7 DEF vars
  <2>. QED BY <2>1, <2>2, <2>3, <2>4, <2>5, <2>6, <2>7, OperationsAssumption DEF Next
<1>. QED BY <1>1, <1>2, PTL DEF Spec

-----------------------------------------------------------------------------
(* The operations that keep a run's word known where paths do not meet.    *)
SoundOperations ==
  /\ ~LoopHead
  /\ Ops64 \subseteq Sound64 /\ Ops32 \subseteq Sound32
  /\ Jmps32 \subseteq Unsigned \cup {"Jset"}
  /\ \A o \in Operands : WrappedBounds(o.reg, o.val)

(* The inductive invariant of those paths. *)
PathInv == TypeOK /\ head = <<>> /\ Sound(reg, val)

(* A jump refines the register by the other side's word. *)
LEMMA JumpTakenKeeps ==
  ASSUME TypeOK, NEW op \in JmpOp, NEW is_32 \in BOOLEAN, is_32 => op \in Unsigned \cup {"Jset"},
         \A o \in Operand : KnownBits(o.reg, o.val),
         JumpTaken(op, is_32), Sound(reg, val)
  PROVE  Sound(reg', val') /\ (SignedBounds(reg, val) => SignedBounds(reg', val'))
<1>1. PICK o \in Operand :
        /\ Jumps(op, is_32, val, o.val)
        /\ reg' = IF is_known(o.reg.tnum) THEN RefineTaken(reg, op, is_32, o.reg.tnum.value) ELSE reg
        /\ val' = val
  BY DEF JumpTaken
<1>2. WellFormed(reg) /\ val \in Word
  BY DEF TypeOK
<1>3. CASE is_known(o.reg.tnum)
  <2>1. o.reg.tnum.value = o.val /\ o.val \in Word
    BY <1>3, OperandForm
  <2>2. reg' = RefineTaken(reg, op, is_32, o.val)
    BY <1>1, <1>3, <2>1
  <2>3. KeepsWord(reg, RefineTaken(reg, op, is_32, o.val), val)
    BY <1>1, <1>2, <2>1, TakenKeeps
  <2>. QED BY <1>1, <2>2, <2>3 DEF KeepsWord
<1>. QED BY <1>1, <1>3

(* The same where the jump falls through. *)
LEMMA JumpFallsKeeps ==
  ASSUME TypeOK, NEW op \in JmpOp, NEW is_32 \in BOOLEAN, is_32 => op \in Unsigned \cup {"Jset"},
         \A o \in Operand : KnownBits(o.reg, o.val),
         JumpFalls(op, is_32), Sound(reg, val)
  PROVE  Sound(reg', val') /\ (SignedBounds(reg, val) => SignedBounds(reg', val'))
<1>1. PICK o \in Operand :
        /\ ~Jumps(op, is_32, val, o.val)
        /\ reg' = IF is_known(o.reg.tnum) THEN RefineFall(reg, op, is_32, o.reg.tnum.value) ELSE reg
        /\ val' = val
  BY DEF JumpFalls
<1>2. WellFormed(reg) /\ val \in Word
  BY DEF TypeOK
<1>3. CASE is_known(o.reg.tnum)
  <2>1. o.reg.tnum.value = o.val /\ o.val \in Word
    BY <1>3, OperandForm
  <2>2. reg' = RefineFall(reg, op, is_32, o.val)
    BY <1>1, <1>3, <2>1
  <2>3. KeepsWord(reg, RefineFall(reg, op, is_32, o.val), val)
    BY <1>1, <1>2, <2>1, FallKeeps
  <2>. QED BY <1>1, <2>2, <2>3 DEF KeepsWord
<1>. QED BY <1>1, <1>3

(* An operand holds a word that its register knows. *)
LEMMA OperandKnown ==
  ASSUME Sound(reg, val)
  PROVE  \A o \in Operand : KnownBits(o.reg, o.val) /\ UnsignedBounds(o.reg, o.val)
<1>1. \A o \in Operands : KnownBits(o.reg, o.val) /\ UnsignedBounds(o.reg, o.val)
  BY OperandsAssumption
<1>2. KnownBits(reg, val) /\ UnsignedBounds(reg, val)
  BY DEF Sound
<1>. QED BY <1>1, <1>2 DEF Operand

(* The same with the wrapped signed bounds. *)
LEMMA OperandSound ==
  ASSUME Sound(reg, val), \A o \in Operands : WrappedBounds(o.reg, o.val)
  PROVE  \A o \in Operand : Sound(o.reg, o.val)
<1>1. \A o \in Operands : Sound(o.reg, o.val)
  BY OperandsAssumption DEF Sound
<1>. QED BY <1>1 DEF Operand

(* PathInv is inductive. *)
LEMMA PathInvariant == SoundOperations => (Spec => []PathInv)
<1>. SUFFICES ASSUME SoundOperations PROVE Spec => []PathInv
  OBVIOUS
<1>1. Init => PathInv
  <2>. SUFFICES ASSUME Init PROVE PathInv
    OBVIOUS
  <2>1. PICK o \in Operands : reg = o.reg /\ val = o.val
    BY DEF Init
  <2>2. Sound(o.reg, o.val)
    BY OperandsAssumption DEF Sound, SoundOperations
  <2>3. TypeOK /\ head = <<>>
    BY OperandsAssumption, <2>1 DEF Init, TypeOK
  <2>. QED BY <2>1, <2>2, <2>3 DEF PathInv
<1>2. TypeOK' /\ PathInv /\ [Next]_vars => PathInv'
  <2>. SUFFICES ASSUME TypeOK', PathInv, [Next]_vars PROVE head' = <<>> /\ Sound(reg', val')
    BY DEF PathInv
  <2>0. TypeOK /\ head = <<>> /\ Sound(reg, val) /\ WellFormed(reg) /\ val \in Word
    BY DEF PathInv, TypeOK
  <2>1. ASSUME NEW is_64 \in BOOLEAN, NEW op \in IF is_64 THEN Sound64 ELSE Sound32, AluStep(op, is_64)
        PROVE  head' = <<>> /\ Sound(reg', val')
    <3>1. PICK o \in Operand : /\ check_alu(op, is_64, reg, o.reg).err = {}
                               /\ reg' = check_alu(op, is_64, reg, o.reg).reg
                               /\ val' = alu(op, is_64, val, o.val)
      BY <2>1 DEF AluStep
    <3>2. WellFormed(o.reg) /\ o.val \in Word /\ Sound(o.reg, o.val)
      BY <2>0, OperandForm, OperandSound DEF SoundOperations
    <3>3. Sound(check_alu(op, is_64, reg, o.reg).reg, alu(op, is_64, val, o.val))
      BY <2>0, <3>1, <3>2, AluSound
    <3>4. UNCHANGED head
      BY <2>1 DEF AluStep
    <3>. QED BY <2>0, <3>1, <3>3, <3>4
  <2>2. ASSUME NEW op \in JmpOp, NEW is_32 \in BOOLEAN, is_32 => op \in Unsigned \cup {"Jset"},
               JumpTaken(op, is_32) \/ JumpFalls(op, is_32)
        PROVE  head' = <<>> /\ Sound(reg', val')
    <3>1. \A o \in Operand : KnownBits(o.reg, o.val)
      BY <2>0, OperandKnown
    <3>2. Sound(reg', val')
      BY <2>0, <2>2, <3>1, JumpTakenKeeps, JumpFallsKeeps
    <3>3. UNCHANGED head
      BY <2>2 DEF JumpTaken, JumpFalls
    <3>. QED BY <2>0, <3>2, <3>3
  <2>3. CASE \E op \in Ops64 : AluStep(op, TRUE)
    BY <2>1, <2>3 DEF SoundOperations
  <2>4. CASE \E op \in Ops32 : AluStep(op, FALSE)
    BY <2>1, <2>4 DEF SoundOperations
  <2>5. CASE \E op \in Jmps64 : JumpTaken(op, FALSE) \/ JumpFalls(op, FALSE)
    BY <2>2, <2>5, OperationsAssumption
  <2>6. CASE \E op \in Jmps32 : JumpTaken(op, TRUE) \/ JumpFalls(op, TRUE)
    BY <2>2, <2>6, OperationsAssumption DEF SoundOperations
  <2>7. CASE FirstArrival \/ Covered \/ Widened
    BY <2>0, <2>7 DEF FirstArrival, Covered, Widened, SoundOperations
  <2>8. CASE UNCHANGED vars
    BY <2>0, <2>8 DEF vars
  <2>. QED BY <2>3, <2>4, <2>5, <2>6, <2>7, <2>8 DEF Next
<1>. QED BY <1>1, <1>2, TypeInvariant, PTL DEF Spec

-----------------------------------------------------------------------------
(* The operations that keep the signed bounds, too: at a loop head these   *)
(* are what the comparison of states goes by.                              *)
CopyOperations ==
  /\ Ops64 \subseteq {"Mov", "Neg"} /\ Ops32 \subseteq {"Neg"}
  /\ Jmps32 \subseteq Unsigned \cup {"Jset"}
  /\ \A o \in Operands : SignedBounds(o.reg, o.val)

(* The inductive invariant of paths that come back to a loop head. *)
LoopInv == TypeOK /\ Speaks(reg, val)

(* LoopInv is inductive. *)
LEMMA LoopInvariant == CopyOperations => (Spec => []LoopInv)
<1>. SUFFICES ASSUME CopyOperations PROVE Spec => []LoopInv
  OBVIOUS
<1>1. Init => LoopInv
  <2>. SUFFICES ASSUME Init PROVE LoopInv
    OBVIOUS
  <2>1. PICK o \in Operands : reg = o.reg /\ val = o.val
    BY DEF Init
  <2>2. Speaks(o.reg, o.val)
    BY OperandsAssumption DEF Speaks, CopyOperations
  <2>3. TypeOK
    BY OperandsAssumption, <2>1 DEF Init, TypeOK
  <2>. QED BY <2>1, <2>2, <2>3 DEF LoopInv
<1>2. TypeOK' /\ LoopInv /\ [Next]_vars => LoopInv'
  <2>. SUFFICES ASSUME TypeOK', LoopInv, [Next]_vars PROVE Speaks(reg', val')
    BY DEF LoopInv
  <2>0. /\ TypeOK /\ Speaks(reg, val) /\ WellFormed(reg) /\ val \in Word
        /\ Sound(reg, val) /\ SignedBounds(reg, val) /\ WellFormed(reg') /\ val' \in Word
    BY SpeaksIsSound DEF LoopInv, TypeOK
  <2>h. Sound(reg', val') /\ SignedBounds(reg', val') => Speaks(reg', val')
    BY <2>0, SpeaksIsSound
  <2>1. ASSUME NEW is_64 \in BOOLEAN, NEW op \in {"Mov", "Neg"}, is_64 \/ op = "Neg", AluStep(op, is_64)
        PROVE  Speaks(reg', val')
    <3>1. PICK o \in Operand : /\ check_alu(op, is_64, reg, o.reg).err = {}
                               /\ reg' = check_alu(op, is_64, reg, o.reg).reg
                               /\ val' = alu(op, is_64, val, o.val)
      BY <2>1 DEF AluStep
    <3>2. WellFormed(o.reg) /\ op \in AluOp
      BY <2>0, OperandForm DEF AluOp
    <3>3. CASE op = "Neg"
      <4>1. reg' = scalar_unknown
        BY <2>0, <3>1, <3>2, <3>3, ScalarCheckAlu
      <4>. QED BY <2>0, <2>h, <4>1, UnknownScalar
    <3>4. CASE op = "Mov" /\ is_64
      <4>0. /\ WellFormed(reg) /\ WellFormed(o.reg) /\ op \in AluOp /\ op = "Mov"
            /\ check_alu(op, is_64, reg, o.reg).err = {}
        BY <2>0, <3>1, <3>2, <3>4
      <4>1. check_alu(op, is_64, reg, o.reg).reg = IF is_64 THEN o.reg ELSE MovLow(o.reg)
        BY <4>0, ScalarCheckAlu
      <4>2. reg' = o.reg
        BY <3>1, <3>4, <4>1
      <4>3. val' = o.val
        BY <3>1, <3>4 DEF alu, alu64
      <4>4. Speaks(o.reg, o.val)
        <5>1. CASE o \in Operands
          BY <5>1, OperandsAssumption DEF Speaks, CopyOperations
        <5>2. CASE o = [reg |-> reg, val |-> val]
          <6>1. o.reg = reg /\ o.val = val
            BY <5>2
          <6>. QED BY <2>0, <6>1
        <5>. QED BY <5>1, <5>2 DEF Operand
      <4>. QED BY <4>2, <4>3, <4>4
    <3>. QED BY <2>1, <3>3, <3>4
  <2>2. ASSUME NEW op \in JmpOp, NEW is_32 \in BOOLEAN, is_32 => op \in Unsigned \cup {"Jset"},
               JumpTaken(op, is_32) \/ JumpFalls(op, is_32)
        PROVE  Speaks(reg', val')
    <3>1. \A o \in Operand : KnownBits(o.reg, o.val)
      BY <2>0, OperandKnown
    <3>2. Sound(reg', val') /\ SignedBounds(reg', val')
      BY <2>0, <2>2, <3>1, JumpTakenKeeps, JumpFallsKeeps
    <3>. QED BY <2>h, <3>2
  <2>3. CASE \E op \in Ops64 : AluStep(op, TRUE)
    BY <2>1, <2>3 DEF CopyOperations
  <2>4. CASE \E op \in Ops32 : AluStep(op, FALSE)
    BY <2>1, <2>4 DEF CopyOperations
  <2>5. CASE \E op \in Jmps64 : JumpTaken(op, FALSE) \/ JumpFalls(op, FALSE)
    BY <2>2, <2>5, OperationsAssumption
  <2>6. CASE \E op \in Jmps32 : JumpTaken(op, TRUE) \/ JumpFalls(op, TRUE)
    BY <2>2, <2>6, OperationsAssumption DEF CopyOperations
  <2>7. CASE FirstArrival
    BY <2>0, <2>7 DEF FirstArrival
  <2>8. CASE Covered
    BY <2>0, <2>8, HeadForm, SubstateSpeaks DEF Covered
  <2>9. CASE Widened
    BY <2>0, <2>9, HeadForm, WidenSpeaks DEF Widened
  <2>10. CASE UNCHANGED vars
    BY <2>0, <2>10 DEF vars
  <2>. QED BY <2>3, <2>4, <2>5, <2>6, <2>7, <2>8, <2>9, <2>10 DEF Next
<1>. QED BY <1>1, <1>2, TypeInvariant, PTL DEF Spec

(* KnownBitsHold (state.rs:7-9): the run's word agrees with the known bits *)
(* of check_alu, refine_branch, widen and is_substate_of, at every width,  *)
(* for these operations.                                                   *)
THEOREM KnownBitsInvariant == SoundOperations \/ CopyOperations => (Spec => []KnownBitsHold)
<1>1. PathInv => KnownBitsHold
  BY DEF PathInv, Sound, KnownBitsHold
<1>2. LoopInv => KnownBitsHold
  BY DEF LoopInv, Speaks, KnownBitsHold
<1>. QED BY <1>1, <1>2, PathInvariant, LoopInvariant, PTL

(* UnsignedBoundsHold: the run's word is within the bounds that the checks *)
(* of divisors and shift counts read.                                      *)
THEOREM UnsignedBoundsInvariant == SoundOperations \/ CopyOperations => (Spec => []UnsignedBoundsHold)
<1>1. PathInv => UnsignedBoundsHold
  BY DEF PathInv, Sound, UnsignedBoundsHold
<1>2. LoopInv => UnsignedBoundsHold
  BY DEF LoopInv, Speaks, UnsignedBoundsHold
<1>. QED BY <1>1, <1>2, PathInvariant, LoopInvariant, PTL

(* WrappedBoundsHold: what the unsigned bounds need of the signed ones. *)
THEOREM WrappedBoundsInvariant == SoundOperations \/ CopyOperations => (Spec => []WrappedBoundsHold)
<1>1. PathInv => WrappedBoundsHold
  BY DEF PathInv, Sound, WrappedBoundsHold
<1>2. LoopInv => WrappedBoundsHold
  BY SpeaksIsSound DEF LoopInv, TypeOK, Sound, WrappedBoundsHold
<1>. QED BY <1>1, <1>2, PathInvariant, LoopInvariant, PTL

(* SignedBoundsHold: the signed bounds hold the word at loop heads, where  *)
(* states are compared by them.                                            *)
THEOREM SignedBoundsInvariant == CopyOperations => (Spec => []SignedBoundsHold)
<1>1. LoopInv => SignedBoundsHold
  BY DEF LoopInv, Speaks, SignedBoundsHold
<1>. QED BY <1>1, LoopInvariant, PTL

(* HeadGrows: whatever the operations, widening at a loop head loses no    *)
(* word that the remembered state spoke for.                               *)
THEOREM WideningGrows == Spec => HeadGrows
<1>1. TypeOK /\ [Next]_vars =>
        [head # <<>> => \A w \in Word : Speaks(head[1], w) => Speaks(head'[1], w)]_vars
  <2>. SUFFICES ASSUME TypeOK, Next, head # <<>>, NEW w \in Word, Speaks(head[1], w)
                PROVE  Speaks(head'[1], w)
    OBVIOUS
  <2>1. CASE Widened
    <3>1. head'[1] = widen(head[1], reg)
      BY <2>1 DEF Widened
    <3>2. WellFormed(reg) /\ WellFormed(head[1])
      BY HeadForm DEF TypeOK
    <3>. QED BY <3>1, <3>2, WidenSpeaks
  <2>2. CASE UNCHANGED head
    BY <2>2
  <2>. QED BY <2>1, <2>2 DEF Next, AluStep, JumpTaken, JumpFalls, FirstArrival, Covered
<1>. QED BY <1>1, TypeInvariant, PTL DEF Spec, HeadGrows
=============================================================================
