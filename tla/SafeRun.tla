------------------------------- MODULE SafeRun -------------------------------
(***************************************************************************)
(* What a verdict is for: a program that passed the walk of Explore is run *)
(* on a machine.  Nothing runs before the verdict, and a rejected program  *)
(* never runs.  The run is exec_program of fstar/obj/BPF.Semantics.fst,    *)
(* seen from outside: an instruction is either undefined in the state it   *)
(* meets (exec_insn returns None) or leads to another place; EXIT leads    *)
(* nowhere and ends the run; past the end of the program all is undefined. *)
(***************************************************************************)
EXTENDS Explore

CONSTANTS
  Conc,               \* concrete states: registers and stack of a run
  ConcEntry,          \* the states a run may start in
  Gamma(_),           \* the concrete states an abstract state stands for
  CStep(_, _, _),     \* program, pc, concrete state -> set of places
  Fault(_, _, _)      \* is the instruction undefined in that state

CItem(p) == [pc : 0 .. Size(p), conc : Conc]

ASSUME RunAssumption ==
  /\ ConcEntry \subseteq Conc
  /\ \A p \in Program : \A q \in Pc(p), c \in Conc : CStep(p, q, c) \subseteq CItem(p)

VARIABLES
  run,        \* "none", "running" or "ended"
  cpc, conc   \* where the run is

runVars == <<run, cpc, conc>>
allVars == <<vars, run, cpc, conc>>

RunInit ==
  /\ Init
  /\ run = "none"
  /\ cpc = 0
  /\ conc \in ConcEntry

Walk == Next /\ UNCHANGED runVars

Load ==
  /\ Passed
  /\ run = "none"
  /\ run' = "running"
  /\ UNCHANGED <<vars, cpc, conc>>

Running == run = "running" /\ cpc \in Pc(prog) /\ ~Fault(prog, cpc, conc)

RunInsn ==
  /\ Running
  /\ \E d \in CStep(prog, cpc, conc) : cpc' = d.pc /\ conc' = d.conc
  /\ UNCHANGED <<vars, run>>

RunExit ==
  /\ Running
  /\ CStep(prog, cpc, conc) = {}
  /\ run' = "ended"
  /\ UNCHANGED <<vars, cpc, conc>>

RunNext == Walk \/ Load \/ RunInsn \/ RunExit

RunSpec == RunInit /\ [][RunNext]_allVars

(* The walk is a sequential loop, which keeps taking steps while it can,   *)
(* and so does the machine.                                                *)
FairRunSpec == RunSpec /\ WF_allVars(Walk) /\ WF_allVars(Load) /\ WF_allVars(RunInsn \/ RunExit)

-----------------------------------------------------------------------------
(* Where the walk relied on the domain.  It is asked of the states that    *)
(* this walk came to and of no others: is_substate_of and widen are not    *)
(* sound for every two states of the code (ScalarReg and Frame show where),*)
(* so that a program is as safe as the visits its own walk made.           *)

(* All that arrived anywhere: the entry, and what the visits sent on.      *)
Came == {[pc |-> 0, state |-> Entry]} \cup UNION {Successors(u) : u \in visits}

(* Widening covered what arrived, pruning left nothing to this visit that  *)
(* it does not stand for, and an instruction without an error is defined   *)
(* for every state the visit stands for, and takes it where the walk went. *)
SoundAt(v) ==
  /\ Gamma(v.arrived) \subseteq Gamma(v.state)
  /\ \A it \in Came :
       it.pc = v.pc /\ IsSubstate(it.state, v.state) => Gamma(it.state) \subseteq Gamma(v.state)
  /\ Exec(prog, v.pc, v.state, v.id).err = {} =>
       \A c \in Gamma(v.state) :
         /\ ~Fault(prog, v.pc, c)
         /\ \A d \in CStep(prog, v.pc, c) :
              \E it \in Successors(v) : it.pc = d.pc /\ d.conc \in Gamma(it.state)

SoundSoFar == ConcEntry \subseteq Gamma(Entry) /\ \A v \in visits : SoundAt(v)

(* A domain with which every walk is sound: pruning and widening cover the *)
(* state that they replace, and an instruction accepted for a state is     *)
(* defined for what it stands for and leads to what a successor stands for.*)
SoundDomain ==
  /\ ConcEntry \subseteq Gamma(Entry)
  /\ \A s, t \in State : IsSubstate(s, t) => Gamma(s) \subseteq Gamma(t)
  /\ \A s, t \in State : Gamma(t) \subseteq Gamma(Widen(s, t))

SoundExec ==
  \A p \in Program : \A q \in Pc(p), s \in State, n \in 0 .. ComplexityLimit :
    LET o == Exec(p, q, s, n) IN
    o.err = {} =>
      \A c \in Gamma(s) :
        /\ ~Fault(p, q, c)
        /\ \A d \in CStep(p, q, c) :
             \E it \in Goes(o) : it.pc = d.pc /\ d.conc \in Gamma(it.state)

-----------------------------------------------------------------------------
(* The promise of the verifier: a program that it passed never comes to an *)
(* instruction that is undefined in the state the run brings there; over   *)
(* all runs, although each instruction was looked at for a few abstract    *)
(* states only, some of them replaced by others on the way.                *)
NeverFaults ==
  run = "running" /\ cpc \in Pc(prog) => ~Fault(prog, cpc, conc)

(* Where a run is, the walk has been, for a state that stands for the      *)
(* run's own; this is why NeverFaults holds.                               *)
RunWasVisited ==
  run = "running" /\ cpc \in Pc(prog) =>
    \E v \in visits : v.pc = cpc /\ conc \in Gamma(v.state)

(* error.rs:83, "Programme falls through without an exit instruction", is  *)
(* an error of the program: one that passed never runs past its end.       *)
NeverFallsThrough == run = "running" => cpc < Size(prog)

(* mod.rs:23-24, "bounded loops are verified via widening-based            *)
(* fixed-point iteration; truly unbounded loops are rejected": the run of  *)
(* a program that passed comes to an end, its own or that of the program.  *)
RunsEnd == run = "running" ~> (run = "ended" \/ cpc = Size(prog))
==============================================================================
