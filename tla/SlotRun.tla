------------------------------ MODULE SlotRun ------------------------------
(***************************************************************************)
(* What a run does to the position in the code, and nothing else: the      *)
(* instruction set's own view, in slots.  A conditional jump may go either *)
(* way.  A run that stands where no instruction begins goes no further,    *)
(* and any run may stop where an instruction has no defined effect.        *)
(***************************************************************************)
EXTENDS Layout

VARIABLES raw,      \* the section that was loaded
          slot,     \* the position of the run
          running   \* "waits", "yes", "ended"

slot_vars == <<raw, slot, running>>

(* The slots after the instruction at s, or those it may jump to. *)
Follows(section, s) ==
  LET i == At(section, s) IN
  CASE i.kind = "ja"  -> {s + 1 + i.off}
    [] i.kind = "jmp" -> {s + 1, s + 1 + i.off}
    [] OTHER          -> {s + Slots64(i)}

(* A position at which there is an instruction that can be executed. *)
IsInsn(section, s) ==
  s \in 0 .. Len(section) - 1 /\ At(section, s).kind \notin {"unknown", "undecodable"}

SlotInit == slot = 0 /\ running = "waits"

SlotBegin == running = "waits" /\ running' = "yes" /\ UNCHANGED <<raw, slot>>

SlotStep ==
  /\ running = "yes"
  /\ IsInsn(raw, slot)
  /\ At(raw, slot).kind # "exit"
  /\ slot' \in Follows(raw, slot)
  /\ UNCHANGED <<raw, running>>

SlotEnd ==
  /\ running = "yes"
  /\ IsInsn(raw, slot)
  /\ At(raw, slot).kind = "exit"
  /\ running' = "ended"
  /\ UNCHANGED <<raw, slot>>

SlotNext == SlotBegin \/ SlotStep \/ SlotEnd
=============================================================================
