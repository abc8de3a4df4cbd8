-------------------------------- MODULE Call --------------------------------
(***************************************************************************)
(* Helper calls of the kernel-style verifier: check_call of                *)
(* src/kverify/check.rs over the table of src/bpf/helpers.rs.              *)
(***************************************************************************)
EXTENDS Memory, Sequences, Helpers

CONSTANTS DEFAULT_MAP_VALUE_SIZE,   \* 65536
          DEFAULT_RINGBUF_SIZE,     \* 65536
          U8                        \* values of a u8: 256

ASSUME SizesAssumption ==
  /\ CTX_SIZE \in Nat /\ DEFAULT_MAP_VALUE_SIZE \in Nat /\ DEFAULT_RINGBUF_SIZE \in Nat
  /\ U8 \in Nat \ {0}

(* The kinds of register that an argument type accepts. *)
Accepts(arg) ==
  CASE arg \in {"Scalar", "Size", "Flags"} -> {"Scalar", "KernelPtr", "Null"}
    [] arg = "PtrToStack"   -> {"FramePtr"}
    [] arg = "MapPtr"       -> {"Scalar"}
    [] arg \in {"PtrToMapKey", "PtrToMapValue", "PtrToReadonlyMem"} ->
         {"FramePtr", "MapValuePtr", "DataPtr"}
    [] arg = "PtrToRingBuf" -> {"RingBufPtr"}
    [] arg = "PtrToMem"     -> {"FramePtr", "MapValuePtr", "RingBufPtr"}

(* Register i holds argument i; the first bad argument is the error. *)
ArgError(regs, args, i) ==
  CASE ~is_readable(regs[i])                                      -> {"UninitRegRead"}
    [] args[i] # "Any" /\ regs[i].type.kind \notin Accepts(args[i]) -> {"InvalidHelperArg"}
    [] OTHER                                                      -> {}

CallError(regs, args) ==
  LET bad == {i \in DOMAIN args : ArgError(regs, args, i) # {}} IN
  UNION {ArgError(regs, args, i) : i \in {k \in bad : \A j \in bad : k <= j}}

(* The size a reservation has for the verifier: r2 as u32, if it is known. *)
ReserveSize(r2) == IF is_known(r2.tnum) THEN Low(r2.tnum.value) ELSE DEFAULT_RINGBUF_SIZE

Returned(ret, r2, id) ==
  CASE ret \in {"Scalar", "ErrorCode"} -> scalar_unknown
    [] ret = "KernelPtr"  -> kernel_ptr
    [] ret = "MapPtr"     -> RegOf(PtrOrNull(MapValuePtr(id, 0, DEFAULT_MAP_VALUE_SIZE), id))
    [] ret = "RingBufPtr" -> RegOf(PtrOrNull(RingBufPtr(id, 0, ReserveSize(r2)), id))

(* Mutant of Fresh: every pointer gets the same id. *)
FreshNever(ret) == 0

(* Does the call draw an id from IdGen. *)
Fresh(ret) == IF ret \in {"MapPtr", "RingBufPtr"} THEN 1 ELSE 0

-----------------------------------------------------------------------------
(* Mutant of WriteSize: one byte less. *)
WriteSizeBelow(r2) ==
  IF is_known(r2.tnum) THEN Dec(Lesser(r2.tnum.value, STACK_SIZE)) % U8 ELSE 0

(* A helper that writes memory writes r2 bytes at r1.  The size is capped  *)
(* at the frame and then cut to a u8; nothing is recorded for a size that  *)
(* is not known.                                                           *)
WriteSize(r2) ==
  IF is_known(r2.tnum) THEN Lesser(r2.tnum.value, STACK_SIZE) % U8 ELSE 0

KernelReads == {"PROBE_READ", "PROBE_READ_KERNEL", "PROBE_READ_KERNEL_STR"}

WrittenByCall(stack, h, r1, r2) ==
  LET size == WriteSize(r2) IN
  IF ~( /\ HELPERS[h].args # <<>>
        /\ HELPERS[h].args[1] \in {"PtrToMem", "PtrToStack"}
        /\ r1.type.kind = "FramePtr"
        /\ size > 0 ) THEN stack
  ELSE IF size = DW /\ h \in KernelReads THEN spill(stack, r1.type.off, kernel_ptr)
  ELSE mark_written(stack, r1.type.off, size)

(* Mutant of Clobbered: the argument registers stay. *)
Clobbered_not(regs) == regs

(* r1 to r5 do not survive a call. *)
Clobbered(regs) == [r \in DOMAIN regs |-> IF r \in 1 .. 5 THEN uninit ELSE regs[r]]

check_call(regs, stack, h, next_id) ==
  IF h \notin DOMAIN HELPERS
    THEN [err |-> {"UnknownHelper"}, regs |-> regs, stack |-> stack, ids |-> 0]
  ELSE IF CallError(regs, HELPERS[h].args) # {}
    THEN [err |-> CallError(regs, HELPERS[h].args), regs |-> regs, stack |-> stack, ids |-> 0]
  ELSE [err   |-> {},
        regs  |-> Clobbered([regs EXCEPT ![0] = Returned(HELPERS[h].ret_type, regs[2], next_id)]),
        stack |-> WrittenByCall(stack, h, regs[1], regs[2]),
        ids   |-> Fresh(HELPERS[h].ret_type)]
==============================================================================
