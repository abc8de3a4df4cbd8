------------------------------- MODULE Machine -------------------------------
(***************************************************************************)
(* The repository's own definition of a run: exec_insn of                  *)
(* fstar/obj/BPF.Semantics.fst over the state of BPF.State.fst, with the   *)
(* helpers of BPF.Helpers.fst and the choices of BPF.Exec.Path.fst.        *)
(*                                                                         *)
(* Where F* returns an option, an operator here returns the set of         *)
(* results: empty for None.  nulls is the set of choices that a nullable   *)
(* helper has at this point; found is the set of words that memory the     *)
(* programme did not write, and helpers that return numbers, may give: F*  *)
(* has 0 for all of them.                                                  *)
(***************************************************************************)
EXTENDS Semantics, Code, FiniteSets

CONSTANTS STACK_SIZE,   \* 512 bytes
          DW            \* bytes of W64, 8

(* Register values. *)
Scalar(w)       == [kind |-> "Scalar", n |-> w]
FramePtr(off)   == [kind |-> "FramePtr", n |-> off]
CtxPtr(off)     == [kind |-> "CtxPtr", n |-> off]
MapValuePtr(id) == [kind |-> "MapValuePtr", n |-> id]
RingBufPtr(id)  == [kind |-> "RingBufPtr", n |-> id]
Null            == [kind |-> "Null", n |-> 0]

IsNum(v) == v.kind = "Scalar"

(* A state: stack and ring keep the last word stored at an offset with a   *)
(* width, maps the lookups whose value can be read.                        *)
InitMachine(regs) ==
  [regs |-> [regs EXCEPT ![1] = CtxPtr(0), ![R10] = FramePtr(0)], pc |-> 0,
   stack |-> <<>>, maps |-> {}, ring |-> <<>>, next_id |-> 0]

(* f with the word w at x. *)
Put(f, x, w) == [y \in DOMAIN f \cup {x} |-> IF y = x THEN w ELSE f[y]]

-----------------------------------------------------------------------------
(* get_helper_spec: what a helper returns, and whether it writes through r1. *)
ScalarHelpers == {"KTIME_GET_NS", "KTIME_GET_BOOT_NS", "GET_PRANDOM_U32",
                  "GET_CURRENT_PID_TGID", "GET_CURRENT_UID_GID", "GET_CURRENT_TASK",
                  "GET_CURRENT_TASK_BTF"}
ReadIntoPtr   == {"PROBE_READ", "PROBE_READ_STR", "PROBE_READ_USER", "PROBE_READ_KERNEL",
                  "PROBE_READ_KERNEL_STR", "D_PATH", "GET_CURRENT_COMM"}
ErrorHelpers  == ReadIntoPtr \cup {"MAP_UPDATE_ELEM", "MAP_DELETE_ELEM", "TRACE_PRINTK",
                                   "RINGBUF_SUBMIT", "RINGBUF_DISCARD"}

ret_type(h) ==
  CASE h = "MAP_LOOKUP_ELEM" -> "RetMapPtr"
    [] h = "RINGBUF_RESERVE" -> "RetRingBufPtr"
    [] h \in ScalarHelpers   -> "RetScalar"
    [] h \in ErrorHelpers    -> "RetErrorCode"
    [] OTHER                 -> "None"

IsNullable(h) == ret_type(h) \in {"RetMapPtr", "RetRingBufPtr"}

apply_helper_effect(st, h) ==
  IF h \in ReadIntoPtr /\ st.regs[1].kind = "FramePtr"
    THEN [st EXCEPT !.stack = Put(@, <<st.regs[1].n, DW>>, 0)]
    ELSE st

(* exec_helper and exec_helper_path: an id is drawn for a pointer only. *)
exec_helper(st, h, nulls, found) ==
  LET after     == [apply_helper_effect(st, h) EXCEPT !.pc = @ + 1]
      Returns(v) == [after EXCEPT !.regs[R0] = v]
      id        == st.next_id
      pointer   == IF h = "MAP_LOOKUP_ELEM"
                     THEN [Returns(MapValuePtr(id)) EXCEPT !.maps = @ \cup {id}, !.next_id = id + 1]
                     ELSE [Returns(RingBufPtr(id)) EXCEPT !.next_id = id + 1]
  IN CASE IsNullable(h) -> {IF null THEN Returns(Null) ELSE pointer : null \in nulls}
       [] ret_type(h) \in {"RetScalar", "RetErrorCode"} -> {Returns(Scalar(w)) : w \in found}
       [] OTHER -> {}

-----------------------------------------------------------------------------
(* sign_extend_imm *)
ImmOf(i) == Wrap(i.imm)

(* A 32-bit move of an immediate cuts it; a 64-bit one of a register takes *)
(* pointers too, and those of the frame and the context can be moved.      *)
AluResults(i, d, s) ==
  CASE i.op = "Mov" /\ i.wide -> {s}
    [] i.op = "Mov" /\ ~i.wide -> IF IsNum(s) THEN {Scalar(Low(s.n))} ELSE {}
    [] Displaces(i) /\ d.kind \in {"FramePtr", "CtxPtr"} ->
         {MovedBy(d, i)}
    [] OTHER -> IF IsNum(d) /\ IsNum(s) THEN {Scalar(alu(i.op, i.wide, d.n, s.n))} ELSE {}

stack_offset_valid(off, width) == STACK_SIZE + off >= 0 /\ off + width <= 0

(* Words: the stack knows only what was stored with the same offset and    *)
(* width, a ring buffer gives something for what was not stored.           *)
LoadResults(st, base, off, width, found) ==
  CASE base.kind = "FramePtr" ->
         LET at == <<base.n + off, width>> IN
         IF stack_offset_valid(base.n + off, width) /\ at \in DOMAIN st.stack
           THEN {st.stack[at]} ELSE {}
    [] base.kind = "MapValuePtr" -> IF base.n \in st.maps THEN found ELSE {}
    [] base.kind = "RingBufPtr"  ->
         LET at == <<base.n, off, width>> IN IF at \in DOMAIN st.ring THEN {st.ring[at]} ELSE found
    [] base.kind = "CtxPtr" -> found
    [] OTHER                -> {}

StoreResults(st, base, off, width, v) ==
  CASE ~IsNum(v) -> {}
    [] IsNum(v) /\ base.kind = "FramePtr" ->
         IF stack_offset_valid(base.n + off, width)
           THEN {[st EXCEPT !.stack = Put(@, <<base.n + off, width>>, v.n)]} ELSE {}
    [] IsNum(v) /\ base.kind = "RingBufPtr" ->
         {[st EXCEPT !.ring = Put(@, <<base.n, off, width>>, v.n)]}
    [] OTHER -> {}

(* reg_val_is_zero, and reg_val_for_jmp. *)
IsZero(v)  == v.kind = "Null" \/ (IsNum(v) /\ v.n = 0)
ForJump(v) == CASE IsNum(v) -> {v.n} [] v.kind = "Null" -> {0} [] OTHER -> {}

(* Does a conditional jump go?  Equality with an immediate only asks       *)
(* whether the register is zero, whatever the immediate.                   *)
Conditions(i, d, s) ==
  CASE i.wide /\ i.src = Imm /\ i.op \in {"Jeq", "Jne"} ->
         {(IsZero(d) <=> ImmOf(i) = 0) <=> i.op = "Jeq"}
    [] i.wide /\ i.src # Imm ->
         {eval_jmp64(i.op, a, b) : a \in ForJump(d), b \in ForJump(s)}
    [] OTHER -> IF IsNum(d) /\ IsNum(s) THEN {Jumps(i.op, ~i.wide, d.n, s.n)} ELSE {}

(* Mutant of jump_pc: from the jump, not from the instruction after it. *)
jump_pc_short(pc, i) == pc + i.off

(* next_pc: an offset counts instructions of the list. *)
jump_pc(pc, i) == pc + 1 + i.off

exec_insn(st, i, nulls, found) ==
  LET d    == st.regs[i.dst]
      s    == IF i.src = Imm THEN Scalar(ImmOf(i)) ELSE st.regs[i.src]
      next == [st EXCEPT !.pc = @ + 1]
      Jump == [st EXCEPT !.pc = jump_pc(@, i)]
  IN CASE i.kind = "alu" -> {[next EXCEPT !.regs[i.dst] = v] : v \in AluResults(i, d, s)}
       [] i.kind = "ldimm64" -> {[next EXCEPT !.regs[i.dst] = Scalar(ImmOf(i))]}
       [] i.kind = "ldx" -> {[next EXCEPT !.regs[i.dst] = Scalar(w)] :
                               w \in LoadResults(st, s, i.off, i.width, found)}
       [] i.kind \in {"stx", "st"} -> StoreResults(next, d, i.off, i.width, s)
       [] i.kind = "jmp"  -> {IF c THEN Jump ELSE next : c \in Conditions(i, d, s)}
       [] i.kind = "ja"   -> {Jump}
       [] i.kind = "call" -> exec_helper(st, i.helper, nulls, found)
       [] i.kind = "exit" -> {st}
       [] OTHER           -> {}

-----------------------------------------------------------------------------
(* list_drop prog pc: a negative pc is taken for 0. *)
Fetched(code, pc) == IF pc < 0 THEN 0 ELSE pc
IsAt(code, pc)    == Fetched(code, pc) < Len(code)
InsnAt(code, pc)    == At(code, Fetched(code, pc))

(* One round of exec_program_path: a schedule that is used up stands for   *)
(* pointers.                                                               *)
Rounds(code, c) ==
  LET st == c.st IN
  IF ~IsAt(code, st.pc) \/ InsnAt(code, st.pc).kind = "exit" THEN {}
  ELSE LET i     == InsnAt(code, st.pc)
           takes == i.kind = "call" /\ IsNullable(i.helper) /\ c.sched # <<>>
       IN {[st |-> t, sched |-> IF takes THEN Tail(c.sched) ELSE c.sched] :
             t \in exec_insn(st, i, {takes /\ Head(c.sched) = "AsNull"}, {0})}

(* Where each number of rounds leads, with fuel for one per instruction.   *)
AllRounds(code, cs) == UNION {Rounds(code, c) : c \in cs}
after_rounds(code, init, sched) ==
  LET after[k \in 0 .. Len(code)] ==
        IF k = 0 THEN {[st |-> init, sched |-> sched]} ELSE AllRounds(code, after[k - 1])
  IN after

(* exec_program_path: the state it returns, none when a round gives None   *)
(* or the fuel runs out before an EXIT.  exec_program is the same with     *)
(* pointers only.                                                          *)
exec_program_path(code, init, sched) ==
  LET after   == after_rounds(code, init, sched)
      Ends(k) == {c \in after[k] : IsAt(code, c.st.pc) /\ InsnAt(code, c.st.pc).kind = "exit"}
  IN {c.st : c \in UNION {Ends(k) : k \in 0 .. Len(code) - 1}}

exec_program(code, init) == exec_program_path(code, init, <<>>)

(* A specification says what r0 is (any word when that is Unsaid) and what *)
(* must have been written to the ring buffer.                              *)
Unsaid == -1
Post(spec, st) ==
  /\ spec.returns # Unsaid => st.regs[R0] = Scalar(spec.returns)
  /\ \A e \in spec.written : <<e.id, e.off, e.width>> \in DOMAIN st.ring
                             /\ st.ring[<<e.id, e.off, e.width>>] = e.word

(* program_satisfies_path and program_satisfies: None satisfies all. *)
program_satisfies_path(code, spec, inits, sched) ==
  \A init \in inits : \A final \in exec_program_path(code, init, sched) : Post(spec, final)
program_satisfies(code, spec, inits) == program_satisfies_path(code, spec, inits, <<>>)
=============================================================================
