------------------------------- MODULE Memory -------------------------------
(***************************************************************************)
(* Loads and stores of the kernel-style verifier: check_load and           *)
(* check_store of src/kverify/check.rs, for a base register of every type. *)
(* off is the displacement of the instruction, width its size in bytes.    *)
(***************************************************************************)
EXTENDS Stack

CONSTANT CTX_SIZE       \* bytes of the context: 4096

(* Offsets and ends are i64, and wrap. *)
Effective(type, off) == WrapSigned(type.off + off)

(* Mutant of Inside: the last byte is not looked at. *)
InsideStart(off, width, size) == 0 <= off /\ off < size

Inside(off, width, size) == 0 <= off /\ WrapSigned(off + width) <= size

(* The error of an access through a register of this type, for the checks  *)
(* that loads and stores have in common.                                   *)
AccessError(type, off, width) ==
  CASE type.kind = "FramePtr" ->
         IF check_bounds(Effective(type, off), width) THEN {} ELSE {"OutOfBoundsAccess"}
    [] type.kind = "CtxPtr" ->
         IF Inside(Effective(type, off), width, CTX_SIZE) THEN {} ELSE {"OutOfBoundsAccess"}
    [] type.kind \in {"MapValuePtr", "RingBufPtr"} ->
         IF Inside(Effective(type, off), width, type.size) THEN {} ELSE {"OutOfBoundsAccess"}
    [] type.kind \in {"KernelPtr", "DataPtr"} -> {}
    [] type.kind \in {"PtrOrNull", "Null"}    -> {"NullPointerDeref"}
    [] type.kind = "Scalar"                   -> {"InvalidPointerDeref"}
    [] type.kind = "Uninit"                   -> {"UninitRegRead"}

(* What a load that is in order puts into its register. *)
LoadedReg(stack, type, off, width) ==
  CASE type.kind = "FramePtr" /\ width = DW /\ Effective(type, off) \in DOMAIN stack.spills ->
         stack.spills[Effective(type, off)]
    [] type.kind \in {"CtxPtr", "KernelPtr"} /\ width = DW -> kernel_ptr
    [] OTHER -> scalar_unknown

check_load(regs, stack, dst, src, off, width) ==
  LET type == regs[src].type
      err  == AccessError(type, off, width) IN
  IF err # {} THEN [err |-> err, regs |-> regs]
  ELSE IF type.kind = "FramePtr" /\ ~check_readable(stack, Effective(type, off), width)
    THEN [err |-> {"UninitStackRead"}, regs |-> regs]
  ELSE [err  |-> {},
        regs |-> [regs EXCEPT ![dst] = LoadedReg(stack, type, off, width)]]

-----------------------------------------------------------------------------
(* Frame and context pointers may be stored to the stack, to map values    *)
(* and to ring buffers only.                                               *)
Leaks(base, value) ==
  /\ value.type.kind \in {"FramePtr", "CtxPtr"}
  /\ base.kind \notin {"FramePtr", "MapValuePtr", "RingBufPtr"}

Spilled(value) == is_ptr(value.type) \/ value.type.kind = "PtrOrNull"

(* The stack after a store of a whole register or of something else. *)
StoredStack(stack, off, width, value, is_st) ==
  IF ~is_st /\ width = DW /\ Spilled(value)
    THEN spill(stack, off, value)
    ELSE mark_written(clear_spill(stack, off), off, width)

(* value is the stored register, or that of the immediate when is_st. *)
check_store(regs, stack, dst, value, is_st, off, width) ==
  LET type == regs[dst].type
      err  == IF ~is_st /\ Leaks(type, value) THEN {"PtrLeak"} ELSE AccessError(type, off, width)
  IN [err   |-> err,
      stack |-> IF err = {} /\ type.kind = "FramePtr"
                  THEN StoredStack(stack, Effective(type, off), width, value, is_st)
                  ELSE stack]
==============================================================================
