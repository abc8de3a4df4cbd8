-------------------------------- MODULE Stack --------------------------------
(***************************************************************************)
(* The stack frame as the kernel-style verifier tracks it (StackState of   *)
(* src/kverify/state.rs): which bytes were written, and which registers    *)
(* were stored whole, keyed by the offset of their first byte.  Offsets    *)
(* are relative to r10, so that the frame is -STACK_SIZE .. -1.            *)
(***************************************************************************)
EXTENDS RegState

CONSTANTS STACK_SIZE,   \* bytes of the frame: 512
          DW            \* bytes of a word, the widest access: 8

ASSUME FrameAssumption == DW \in Nat \ {0} /\ STACK_SIZE \in Nat /\ DW <= STACK_SIZE

Slots == -STACK_SIZE .. -1
Bytes(off, width) == off .. off + width - 1

new_stack == [init |-> {}, spills |-> <<>>]

(* Bytes outside the frame are passed over; so is one whose offset wraps,  *)
(* which is far below the frame.                                           *)
mark_written(s, off, width) == [s EXCEPT !.init = @ \cup (Bytes(off, width) \cap Slots)]

check_readable(s, off, width) == Bytes(off, width) \subseteq s.init

(* Both sums are of i64, which wraps: the end of an access that starts     *)
(* near i64::MAX is negative, and within the frame for this test.          *)
check_bounds(off, width) ==
  LET start == WrapSigned(STACK_SIZE + off) IN
  start >= 0 /\ WrapSigned(start + width) <= STACK_SIZE

(* Mutant of spill: keyed by the end of the slot. *)
spill_end(s, off, reg) ==
  [mark_written(s, off, DW) EXCEPT
     !.spills = [o \in DOMAIN @ \cup {off + DW} |-> IF o = off + DW THEN reg ELSE @[o]]]

spill(s, off, reg) ==
  [mark_written(s, off, DW) EXCEPT
     !.spills = [o \in DOMAIN @ \cup {off} |-> IF o = off THEN reg ELSE @[o]]]

(* Mutant of clear_spill: the spill stays. *)
clear_spill_not(s, off) == s

(* Only a spill at this very offset is forgotten. *)
clear_spill(s, off) ==
  [s EXCEPT !.spills = [o \in DOMAIN @ \ {off} |-> @[o]]]

(* Mutant of stack_is_substate_of: swapped. *)
stack_is_substate_swapped(s, t) == s.init \subseteq t.init

(* Spills are not compared. *)
stack_is_substate_of(s, t) == t.init \subseteq s.init

(* The spills of s, widened where t has one at the same offset. *)
stack_widen(s, t) ==
  [init   |-> s.init \cap t.init,
   spills |-> [o \in DOMAIN s.spills |->
                 IF o \in DOMAIN t.spills THEN widen(s.spills[o], t.spills[o])
                 ELSE s.spills[o]]]
==============================================================================
