------------------------------ MODULE RegState ------------------------------
(***************************************************************************)
(* Registers of the kernel-style verifier (src/kverify/state.rs): a type,  *)
(* and for scalars a tracked number with unsigned and signed bounds.  The  *)
(* provenance of a register (written_at) and of a pointer (origin_pc, a    *)
(* function of the id) is for messages only and is left out.               *)
(***************************************************************************)
EXTENDS Tnum

(* RegType.  off is the constant offset, size that of the object behind    *)
(* the pointer, id the number of the helper call that made it.             *)
Uninit    == [kind |-> "Uninit"]
Scalar    == [kind |-> "Scalar"]
Null      == [kind |-> "Null"]
KernelPtr == [kind |-> "KernelPtr"]
FramePtr(off) == [kind |-> "FramePtr", off |-> off]
CtxPtr(off)   == [kind |-> "CtxPtr", off |-> off]
DataPtr(name) == [kind |-> "DataPtr", name |-> name]
MapValuePtr(id, off, size) ==
  [kind |-> "MapValuePtr", id |-> id, off |-> off, size |-> size]
RingBufPtr(id, off, size) ==
  [kind |-> "RingBufPtr", id |-> id, off |-> off, size |-> size]
PtrOrNull(inner, id) == [kind |-> "PtrOrNull", inner |-> inner, id |-> id]

is_ptr(type) == type.kind \in
  {"FramePtr", "MapValuePtr", "CtxPtr", "RingBufPtr", "KernelPtr", "DataPtr"}

(* A register of the given type about whose value nothing is known. *)
RegOf(type) == [type |-> type, tnum |-> unknown, smin |-> MinSigned,
                smax |-> MaxSigned, umin |-> 0, umax |-> MaxWord]

uninit          == RegOf(Uninit)
scalar_unknown  == RegOf(Scalar)
kernel_ptr      == RegOf(KernelPtr)
frame_ptr(off)  == RegOf(FramePtr(off))
ctx_ptr(off)    == RegOf(CtxPtr(off))
scalar_value(v) == [type |-> Scalar, tnum |-> constant(v), smin |-> Signed(v),
                    smax |-> Signed(v), umin |-> v, umax |-> v]
null            == [scalar_value(0) EXCEPT !.type = Null]

is_readable(r)  == r.type.kind # "Uninit"
IsScalar(r)     == r.type.kind = "Scalar"

(* A scalar register; "value & mask == 0" of its tnum is part of it.       *)
WellFormed(r) ==
  r \in [type : {Scalar}, tnum : Tnum, smin : SignedWord, smax : SignedWord,
         umin : Word, umax : Word]

-----------------------------------------------------------------------------
(* The five steps of refine_bounds. *)
UnsignedFromTnum(r) ==
  [r EXCEPT !.umin = Greater(@, min_value(r.tnum)),
            !.umax = Lesser(@, max_value(r.tnum))]

TnumFromUnsigned(r) ==
  IF r.umin = r.umax THEN [r EXCEPT !.tnum = constant(r.umin)] ELSE r

SignedFromUnsigned(r) ==
  IF r.umin <= MaxSigned /\ r.umax <= MaxSigned
    THEN [r EXCEPT !.smin = Greater(@, r.umin), !.smax = Lesser(@, r.umax)]
    ELSE r

UnsignedFromSigned(r) ==
  IF r.smin >= 0
    THEN [r EXCEPT !.umin = Greater(@, Wrap(r.smin)), !.umax = Lesser(@, Wrap(r.smax))]
    ELSE r

Collapsed(r) ==
  IF r.umin = r.umax
    THEN [r EXCEPT !.tnum = constant(r.umin),
                   !.smin = Signed(r.umin), !.smax = Signed(r.umin)]
    ELSE r

refine_bounds(r) ==
  Collapsed(UnsignedFromSigned(SignedFromUnsigned(TnumFromUnsigned(UnsignedFromTnum(r)))))

-----------------------------------------------------------------------------
(* Mutant of WidenScalar: the lesser of the two upper bounds. *)
WidenScalarShort(r, s) ==
  refine_bounds([type |-> Scalar, tnum |-> tnum_join(r.tnum, s.tnum),
                 smin |-> Lesser(r.smin, s.smin), smax |-> Greater(r.smax, s.smax),
                 umin |-> Lesser(r.umin, s.umin), umax |-> Lesser(r.umax, s.umax)])

(* RegState::widen.  Types that differ, neither being Uninit, keep r. *)
WidenScalar(r, s) ==
  refine_bounds([type |-> Scalar, tnum |-> tnum_join(r.tnum, s.tnum),
                 smin |-> Lesser(r.smin, s.smin), smax |-> Greater(r.smax, s.smax),
                 umin |-> Lesser(r.umin, s.umin), umax |-> Greater(r.umax, s.umax)])

widen(r, s) ==
  IF r.type # s.type
    THEN IF is_readable(r) /\ is_readable(s) THEN r ELSE uninit
    ELSE IF IsScalar(r) THEN WidenScalar(r, s) ELSE r

(* Mutants of ScalarLeq: the upper unsigned bound, and the signed bounds,  *)
(* are not compared.                                                       *)
ScalarLeqLower(r, s) ==
  /\ s.umin <= r.umin
  /\ s.smin <= r.smin /\ r.smax <= s.smax
  /\ tnum_leq(r.tnum, s.tnum)

ScalarLeqUnsigned(r, s) ==
  /\ s.umin <= r.umin /\ r.umax <= s.umax
  /\ tnum_leq(r.tnum, s.tnum)

(* RegState::is_substate_of. *)
ScalarLeq(r, s) ==
  /\ s.umin <= r.umin /\ r.umax <= s.umax
  /\ s.smin <= r.smin /\ r.smax <= s.smax
  /\ tnum_leq(r.tnum, s.tnum)

(* Mutant of is_substate_of: the types are not compared. *)
is_substate_of_untyped(r, s) == (IsScalar(r) /\ IsScalar(s)) => ScalarLeq(r, s)

is_substate_of(r, s) ==
  /\ r.type = s.type
  /\ IsScalar(r) => ScalarLeq(r, s)

(* What a scalar register says of the word in it.  Only the tnum and the   *)
(* unsigned bounds are read by the checks of an instruction.               *)
KnownBits(r, w)      == InTnum(w, r.tnum)
UnsignedBounds(r, w) == r.umin <= w /\ w <= r.umax
SignedBounds(r, w)   == r.smin <= Signed(w) /\ Signed(w) <= r.smax
WrappedBounds(r, w)  == IF r.smin < 0 THEN SignedBounds(r, w)
                                      ELSE r.smin <= w /\ w <= Wrap(r.smax)
Speaks(r, w) == KnownBits(r, w) /\ UnsignedBounds(r, w) /\ SignedBounds(r, w)
=============================================================================
