------------------------------ MODULE MCSafeRun ------------------------------
(***************************************************************************)
(* SafeRun over the one-register programs of MCExplore.  The register of a *)
(* run holds garbage until it is written; reading it before is undefined.  *)
(***************************************************************************)
EXTENDS MCExplore, SafeRun

Garbage == [init |-> FALSE, val |-> 0]
Holds(v) == [init |-> TRUE, val |-> v]

MCConc == {Garbage} \cup {Holds(v) : v \in 0 .. MaxVal}

MCGamma(s) ==
  IF s.init THEN {Holds(v) : v \in s.umin .. s.umax} ELSE MCConc

MCConcEntry == {Garbage}

Place(q, c) == [pc |-> q, conc |-> c]

MCFault(p, q, c) ==
  LET i == Insn(p, q) IN
  \/ i.op = "unknown"
  \/ i.op \in {"exit", "add", "jlt"} /\ ~c.init

(* call returns any value; jcc depends on a register that is not modelled. *)
MCCStep(p, q, c) ==
  LET i == Insn(p, q) IN
  CASE i.op \in {"exit", "unknown"} -> {}
    [] i.op = "mov"  -> {Place(q + 1, Holds(0))}
    [] i.op = "call" -> {Place(q + 1, Holds(v)) : v \in 0 .. MaxVal}
    [] i.op = "add"  -> {Place(q + 1, Holds((c.val + 1) % (MaxVal + 1)))}
    [] i.op = "ja"   -> {Place(i.to, c)}
    [] i.op = "jcc"  -> {Place(i.to, c), Place(q + 1, c)}
    [] i.op = "jlt"  -> {Place(IF c.val < 1 THEN i.to ELSE q + 1, c)}

Goto(op, t) == [op |-> op, to |-> t]

(* Ranges cover what they replace and the instructions above are sound, so *)
(* that every visit of these runs is.                                      *)
ASSUME RangesAreSound == SoundDomain /\ SoundExec

(* Counts up from 0 while below 1, or forgets to count. *)
CountingLoops ==
  {<<Plain("mov"), Plain(a), Goto("jlt", 1), Plain("exit")>> : a \in {"add", "mov"}}

(* An EXIT on one way and none on the other. *)
TwoEnds == {<<Plain("mov"), Goto("jlt", 3), Plain("exit"), Plain("mov")>>}
=============================================================================
