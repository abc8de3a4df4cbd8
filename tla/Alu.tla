--------------------------------- MODULE Alu ---------------------------------
(***************************************************************************)
(* check_alu of src/kverify/check.rs: what an arithmetic instruction makes *)
(* of its destination register.  d and s are the states of the destination *)
(* and of the source; an immediate is the constant register of its value,  *)
(* sign-extended for the 64-bit and zero-extended for the 32-bit form.     *)
(* Both registers are readable: the caller has checked that.               *)
(***************************************************************************)
EXTENDS RegState

Offsets  == {"FramePtr", "CtxPtr", "MapValuePtr", "RingBufPtr"}

(* A pointer moved by a known distance, and by one that is not known. *)
Moved(type, by) == IF type.kind \in Offsets THEN [type EXCEPT !.off = WrapSigned(@ + by)] ELSE type
Rebased(type)   == IF type.kind \in Offsets THEN [type EXCEPT !.off = 0] ELSE type

(* ptr + scalar, ptr - scalar and scalar + ptr. *)
Displaced(type, sign, t) ==
  RegOf(IF is_known(t) THEN Moved(type, sign * Signed(t.value)) ELSE Rebased(type))

-----------------------------------------------------------------------------
(* The tnum of a scalar result.  shift and known operands as the code asks. *)
ResultTnum(op, a, b) ==
  LET known == is_known(a) /\ is_known(b)
      x == a.value
      y == b.value
  IN CASE op = "Add"  -> tnum_add(a, b)
       [] op = "Sub"  -> tnum_sub(a, b)
       [] op = "And"  -> tnum_and(a, b)
       [] op = "Or"   -> tnum_or(a, b)
       [] op = "Xor"  -> tnum_xor(a, b)
       [] op = "Lsh"  -> IF is_known(b) THEN lsh(a, y) ELSE unknown
       [] op = "Rsh"  -> IF is_known(b) THEN rsh(a, y) ELSE unknown
       [] op = "Arsh" -> IF known THEN constant(Ashr(x, y)) ELSE unknown
       [] op = "Mul"  -> IF known THEN constant(Wrap(x * y)) ELSE unknown
       [] op = "Div"  -> IF known /\ y # 0 THEN constant(x \div y) ELSE unknown
       [] op = "Mod"  -> IF known /\ y # 0 THEN constant(x % y) ELSE unknown

(* The bounds of a result are those of its tnum. *)
FromTnum(t) ==
  refine_bounds([type |-> Scalar, tnum |-> t,
                 smin |-> Signed(min_value(t)), smax |-> Signed(max_value(t)),
                 umin |-> min_value(t), umax |-> max_value(t)])

ScalarAlu(op, is_64, d, s) ==
  LET t == ResultTnum(op, d.tnum, s.tnum) IN FromTnum(IF is_64 THEN t ELSE trunc32(t))

(* MOV copies the source; the 32-bit form cuts it to the low half. *)
MovLow(s) ==
  [s EXCEPT !.type = Scalar, !.tnum = trunc32(@), !.umax = Lesser(@, MaxHalf),
            !.smin = Greater(@, 0), !.smax = Lesser(@, MaxHalf)]

-----------------------------------------------------------------------------
Becomes(reg) == [err |-> {}, reg |-> reg]
Rejected(d, kind) == [err |-> {kind}, reg |-> d]

MaxShift(is_64) == IF is_64 THEN WordBits - 1 ELSE HalfBits - 1

check_alu(op, is_64, d, s) ==
  CASE op = "Mov" -> Becomes(IF is_64 THEN s ELSE MovLow(s))
    [] op = "Neg" -> IF is_ptr(d.type) THEN Rejected(d, "InvalidPointerArith")
                     ELSE Becomes(scalar_unknown)
    [] op \in {"Div", "Mod"} /\ s.umin = 0 -> Rejected(d, "DivByZero")
    [] op \in {"Lsh", "Rsh", "Arsh"} /\ s.umax > MaxShift(is_64) -> Rejected(d, "ShiftOverflow")
    [] OTHER ->
       IF is_ptr(d.type)
         THEN CASE op = "Sub" /\ is_ptr(s.type) -> Becomes(scalar_unknown)
                [] op = "Add" /\ ~is_ptr(s.type) -> Becomes(Displaced(d.type, 1, s.tnum))
                [] op = "Sub" /\ ~is_ptr(s.type) -> Becomes(Displaced(d.type, -1, s.tnum))
                [] OTHER -> Rejected(d, "InvalidPointerArith")
       ELSE IF op = "Add" /\ is_ptr(s.type)
         THEN Becomes(Displaced(s.type, 1, d.tnum))
       ELSE Becomes(ScalarAlu(op, is_64, d, s))
==============================================================================
