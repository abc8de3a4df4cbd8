----------------------------- MODULE StackBounds -----------------------------
(***************************************************************************)
(* The stack bounds scan: src/analysis/stack_bounds.rs, which leaves a     *)
(* witness, and fstar/obj/BPF.Check.StackBounds.fst, against which each    *)
(* step of the witness is checked.  A claim is that a register is the      *)
(* frame pointer or the context pointer moved by a known distance.         *)
(***************************************************************************)
EXTENDS Machine, Scans

AbsFramePtr(off) == [kind |-> "FramePtr", n |-> off]
AbsCtxPtr(off)   == [kind |-> "CtxPtr", n |-> off]
AbsOther         == [kind |-> "Other", n |-> 0]

(* RegState::init and abs_init. *)
abs_init == [r \in Reg |-> CASE r = 1   -> AbsCtxPtr(0)
                             [] r = R10 -> AbsFramePtr(0)
                             [] OTHER   -> AbsOther]

(* Mutant of check_mem_access: the width of the access is not looked at. *)
check_mem_access_start(base, off, width) ==
  base.kind = "FramePtr" => stack_offset_valid(base.n + off, 1)

(* An access through a register of which nothing is claimed is let through. *)
check_mem_access(base, off, width) ==
  base.kind = "FramePtr" => stack_offset_valid(base.n + off, width)

(* What an instruction makes of the claims, in both languages. *)
RegsAfter(s, i) ==
  LET d == s[i.dst]
      v == CASE IsCopy(i) -> s[i.src]
             [] Displaces(i) /\ d # AbsOther -> MovedBy(d, i)
             [] OTHER -> AbsOther
  IN CASE SetsDst(i)      -> [s EXCEPT ![i.dst] = v]
       [] i.kind = "call" -> Clobbered(AbsOther, s)
       [] OTHER           -> s

IsSafe(s, i) == IsMemory(i) => check_mem_access(s[Base(i)], i.off, i.width)

-----------------------------------------------------------------------------
(* The Rust scan. *)

(* Phase 1 inserts the same claims for every loop head. *)
Rust_heads(code) == init_loop_targets(AbsOther, code, abs_init)

(* RegState::join puts r10 back to the frame pointer. *)
RustJoin(s, t) == [Join(AbsOther, s, t) EXCEPT ![R10] = AbsFramePtr(0)]

RustMerged(s, pc, targets) == IF pc \in DOMAIN targets THEN RustJoin(s, targets[pc]) ELSE s

(* Mutant of RustTargets: a jump saves nothing where an entry exists. *)
RustTargetsFirst(s, i, pc, targets) ==
  LET to == target_pc(pc, i) IN
  IF IsCondJump(i) /\ to > pc /\ to \notin DOMAIN targets
    THEN [p \in DOMAIN targets \cup {to} |-> IF p = to THEN s ELSE targets[p]]
    ELSE targets

(* Mutant of RustTargets: backward jumps save their claims as well. *)
RustTargetsAll(s, i, pc, targets) ==
  IF IsCondJump(i) THEN add_target(AbsOther, targets, target_pc(pc, i), s) ELSE targets

(* Only conditional jumps that go forward save their claims. *)
RustTargets(s, i, pc, targets) ==
  LET to == target_pc(pc, i) IN
  IF IsCondJump(i) /\ to > pc
    THEN [p \in DOMAIN targets \cup {to} |->
            CASE p # to -> targets[p]
              [] p = to /\ to \in DOMAIN targets -> RustJoin(targets[to], s)
              [] OTHER -> s]
    ELSE targets

(* One round of phase 2. *)
RustStep(s, i, pc, targets) ==
  LET m == RustMerged(s, pc, targets) IN
  Found(IsSafe(m, i), RegsAfter(m, i), RustTargets(m, i, pc, Cleared(targets, pc)))

-----------------------------------------------------------------------------
(* The F* scan: every conditional jump saves its claims. *)
check_insn_sb(s, i, pc, targets) ==
  LET m == Merged(AbsOther, s, pc, targets)
      t == Cleared(targets, pc)
  IN Found(IsSafe(m, i), RegsAfter(m, i),
           IF IsCondJump(i) THEN add_target(AbsOther, t, target_pc(pc, i), m) ELSE t)

stack_bounds_scan(code) ==
  LET s[k \in 0 .. Len(code)] ==
        IF k = 0 THEN Found(TRUE, abs_init, Rust_heads(code))
        ELSE LET b == s[k - 1] IN Onward(b, check_insn_sb(b.regs, At(code, k - 1), k - 1, b.targets))
  IN s

(* What the F* scan claims when it judges the instruction at pc. *)
FrameClaims(code, pc) ==
  LET b == stack_bounds_scan(code)[pc] IN Merged(AbsOther, b.regs, pc, b.targets)
=============================================================================
