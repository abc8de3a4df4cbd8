------------------------------ MODULE Helpers ------------------------------
(***************************************************************************)
(* The table of helper functions: HELPERS of src/bpf/helpers.rs.  The call *)
(* checks of the kernel-style verifier and the path analysis of object     *)
(* verification both read it; the F* side has a table of its own.          *)
(***************************************************************************)
(* A helper: what it returns and what it takes in r1, r2, ... *)
Helper(ret, args) == [ret_type |-> ret, args |-> args]

ProbeRead == Helper("ErrorCode", <<"PtrToMem", "Size", "Scalar">>)
NoArgs(ret) == Helper(ret, <<>>)

HELPERS == [
  MAP_LOOKUP_ELEM      |-> Helper("MapPtr", <<"MapPtr", "PtrToMapKey">>),
  MAP_UPDATE_ELEM      |-> Helper("ErrorCode", <<"MapPtr", "PtrToMapKey", "PtrToMapValue", "Flags">>),
  MAP_DELETE_ELEM      |-> Helper("ErrorCode", <<"MapPtr", "PtrToMapKey">>),
  PROBE_READ           |-> ProbeRead,
  KTIME_GET_NS         |-> NoArgs("Scalar"),
  TRACE_PRINTK         |-> Helper("ErrorCode", <<"PtrToReadonlyMem", "Size">>),
  GET_PRANDOM_U32      |-> NoArgs("Scalar"),
  GET_CURRENT_PID_TGID |-> NoArgs("Scalar"),
  GET_CURRENT_UID_GID  |-> NoArgs("Scalar"),
  GET_CURRENT_COMM     |-> Helper("ErrorCode", <<"PtrToMem", "Size">>),
  GET_CURRENT_TASK     |-> NoArgs("KernelPtr"),
  PROBE_READ_STR       |-> Helper("ErrorCode", <<"PtrToMem", "Size", "Any">>),
  PROBE_READ_USER      |-> ProbeRead,
  PROBE_READ_KERNEL    |-> ProbeRead,
  PROBE_READ_KERNEL_STR |-> ProbeRead,
  KTIME_GET_BOOT_NS    |-> NoArgs("Scalar"),
  RINGBUF_RESERVE      |-> Helper("RingBufPtr", <<"MapPtr", "Size", "Flags">>),
  RINGBUF_SUBMIT       |-> Helper("ErrorCode", <<"PtrToRingBuf", "Flags">>),
  RINGBUF_DISCARD      |-> Helper("ErrorCode", <<"PtrToRingBuf", "Flags">>),
  D_PATH               |-> Helper("ErrorCode", <<"Scalar", "PtrToMem", "Size">>),
  GET_CURRENT_TASK_BTF |-> NoArgs("KernelPtr"),
  LOOP                 |-> Helper("Scalar", <<"Scalar", "Any", "Any", "Flags">>) ]

(* Helpers that may return null. *)
returns_nullable_ptr(h) ==
  h \in DOMAIN HELPERS /\ HELPERS[h].ret_type \in {"MapPtr", "RingBufPtr"}

returns_map_ptr(h) == h \in DOMAIN HELPERS /\ HELPERS[h].ret_type = "MapPtr"
=============================================================================
