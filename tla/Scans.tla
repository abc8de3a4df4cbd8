-------------------------------- MODULE Scans --------------------------------
(***************************************************************************)
(* What the linear scans of object verification have in common: stack      *)
(* bounds, written once in Rust and once in F*, and null safety.  A scan   *)
(* walks the list once, front to back, with one claim per register.  A     *)
(* conditional jump leaves the claims that hold at its target in a map;    *)
(* the scan joins them in when it comes there.                             *)
(***************************************************************************)
EXTENDS Code

(* Where a jump of the list goes: the offset counts entries of the list.   *)
target_pc(pc, i) == pc + 1 + i.off

(* Mutant of Join: what the scan carries wins over what was saved. *)
JoinLeft(top, s, t) == s

(* Claims that differ become the claim that says nothing. *)
Join(top, s, t) == [r \in Reg |-> IF s[r] = t[r] THEN s[r] ELSE top]

add_target(top, targets, pc, s) ==
  [p \in DOMAIN targets \cup {pc} |->
     CASE p # pc -> targets[p]
       [] p = pc /\ pc \in DOMAIN targets -> Join(top, targets[pc], s)
       [] OTHER -> s]

(* apply_targets: the claims with which an instruction is judged, and the  *)
(* map without the entry that was used.                                    *)
Merged(top, s, pc, targets) ==
  IF pc \in DOMAIN targets THEN Join(top, s, targets[pc]) ELSE s
Cleared(targets, pc) == [p \in DOMAIN targets \ {pc} |-> targets[p]]

(* The targets of backward jumps have an entry before the scan begins.     *)
LoopHeads(code) ==
  {target_pc(k, At(code, k)) :
     k \in {k \in 0 .. Len(code) - 1 : IsJump(At(code, k)) /\ At(code, k).off < 0}}

(* The claim of nothing about r0 to r5. *)
Clobbered(top, s) == [r \in Reg |-> IF r <= 5 THEN top ELSE s[r]]
init_loop_targets(top, code, s) == [h \in LoopHeads(code) |-> Clobbered(top, s)]

-----------------------------------------------------------------------------
(* What a scan has found so far: whether no instruction was refused, and   *)
(* the claims and the map before the next one.                             *)
Found(ok, regs, targets) == [ok |-> ok, regs |-> regs, targets |-> targets]

(* A refusal ends the scan. *)
Onward(found, next) == IF found.ok THEN next ELSE found
=============================================================================
