---------------------------- MODULE SafeRunProofs ----------------------------
(***************************************************************************)
(* The promise of the verifier, for all programs, bounds and domains: a    *)
(* program that passed never faults, unless the domain was unsound at a    *)
(* visit of this very walk (SoundSoFar).  Nothing is assumed of the domain,*)
(* so the theorems say the same of one that is not always sound: a fault   *)
(* of an accepted program has its cause at a visit, in what arrived there, *)
(* was pruned by it or came out of it, and never in the order of the walk. *)
(* It follows from the two facts about the walk proved in ExploreProofs    *)
(* (FixpointReached, VerdictCoversVisits) by induction along the run.      *)
(***************************************************************************)
EXTENDS SafeRun, ExploreProofs

(* What SafeRun adds leaves the walk alone. *)
LEMMA RunIsWalk == RunSpec => Spec
<1>1. RunInit => Init
  BY DEF RunInit
<1>2. [RunNext]_allVars => [Next]_vars
  BY DEF RunNext, Walk, Load, RunInsn, RunExit, allVars, vars
<1>. QED BY <1>1, <1>2, PTL DEF RunSpec, Spec

-----------------------------------------------------------------------------
(* A concrete state of a settled place is at the end of the program or in  *)
(* one of the states visited there.                                        *)
LEMMA SettledCovers ==
  ASSUME SoundSoFar, NEW it \in Came, Settled(it), NEW c \in Gamma(it.state),
         it.pc # Size(prog)
  PROVE  \E v \in visits : v.pc = it.pc /\ c \in Gamma(v.state)
<1>1. PICK v \in visits : /\ v.pc = it.pc
                          /\ v.arrived = it.state \/ IsSubstate(it.state, v.state)
  BY DEF Settled
<1>2. SoundAt(v)
  BY DEF SoundSoFar
<1>3. CASE IsSubstate(it.state, v.state)
  BY <1>1, <1>2, <1>3 DEF SoundAt
<1>4. CASE v.arrived = it.state
  BY <1>1, <1>2, <1>4 DEF SoundAt
<1>. QED BY <1>1, <1>3, <1>4

(* What is known of the instruction of a visit once the program passed.    *)
LEMMA VisitSound ==
  ASSUME SoundSoFar, VerdictCoversVisits, Passed, NEW v \in visits,
         NEW c \in Gamma(v.state)
  PROVE  /\ ~Fault(prog, v.pc, c)
         /\ \A d \in CStep(prog, v.pc, c) :
              \E it \in Successors(v) : it.pc = d.pc /\ d.conc \in Gamma(it.state)
         /\ Successors(v) \subseteq Came
<1>1. Exec(prog, v.pc, v.state, v.id).err = {}
  BY DEF VerdictCoversVisits
<1>2. SoundAt(v)
  BY DEF SoundSoFar
<1>. QED BY <1>1, <1>2 DEF SoundAt, Came

-----------------------------------------------------------------------------
(* Only passed programs run, and a run stays among its places.             *)
RunShape ==
  /\ run \in {"none", "running", "ended"}
  /\ run # "none" => Passed
  /\ cpc \in 0 .. Size(prog)
  /\ conc \in Conc

NotStarted == run = "none" => cpc = 0 /\ conc \in ConcEntry

RunInv == RunShape /\ NotStarted /\ (SoundSoFar => RunWasVisited)

(* The facts about the walk that hold throughout. *)
WalkInv == TypeOK /\ VisitShape /\ FixpointReached /\ VerdictCoversVisits

(* What was relied on is a matter of the walk, which a run leaves alone.   *)
LEMMA SameSound ==
  ASSUME UNCHANGED <<prog, visits>>
  PROVE  SoundSoFar' <=> SoundSoFar
BY DEF SoundSoFar, SoundAt, Came, Successors

LEMMA RunStart == RunInit => RunInv
<1>. SUFFICES ASSUME RunInit PROVE RunInv
  OBVIOUS
<1>1. Size(prog) \in Nat
  BY ExecAssumption DEF RunInit, Init
<1>2. cpc \in 0 .. Size(prog) /\ conc \in Conc /\ run = "none"
  BY <1>1, RunAssumption DEF RunInit
<1>. QED BY <1>2 DEF RunInit, RunInv, RunShape, NotStarted, RunWasVisited

LEMMA RunStep == WalkInv /\ RunInv /\ [RunNext]_allVars => RunInv'
<1>. SUFFICES ASSUME WalkInv, RunInv, [RunNext]_allVars PROVE RunInv'
  OBVIOUS
<1>0. Size(prog) \in Nat /\ prog \in Program /\ Entry \in State
  BY ExecAssumption, DomainAssumption DEF WalkInv, TypeOK
<1>1. CASE Walk
  <2>1. UNCHANGED <<prog, run, cpc, conc>>
    BY <1>1 DEF Walk, Next, PathOver, TooComplex, Prune, VisitLoopHead, VisitAndStore,
                VisitOnly, Counted, runVars
  <2>2. ~finished
    BY <1>1 DEF Walk, Next, PathOver, TooComplex, Prune, VisitLoopHead, VisitAndStore,
                VisitOnly, Counted
  <2>3. run = "none"
    BY <2>2 DEF RunInv, RunShape, Passed
  <2>. QED BY <2>1, <2>3 DEF RunInv, RunShape, NotStarted, RunWasVisited
<1>2. CASE Load
  <2>1. /\ Passed /\ Passed' /\ run' = "running" /\ run = "none"
        /\ UNCHANGED <<prog, visits, cpc, conc>>
    BY <1>2 DEF Load, vars, Passed
  <2>2. RunShape' /\ NotStarted'
    BY <2>1 DEF RunInv, RunShape, NotStarted
  <2>3. ASSUME SoundSoFar PROVE RunWasVisited'
    <3>. DEFINE start == [pc |-> 0, state |-> Entry]
    <3>1. start \in Came /\ Settled(start)
      BY <2>1 DEF Came, WalkInv, FixpointReached
    <3>2. start.pc = cpc /\ start.state = Entry /\ conc \in Gamma(start.state)
      BY <2>1, <2>3 DEF RunInv, NotStarted, SoundSoFar
    <3>. HIDE DEF start
    <3>3. cpc # Size(prog) => \E v \in visits : v.pc = cpc /\ conc \in Gamma(v.state)
      BY <2>3, <3>1, <3>2, SettledCovers
    <3>. QED BY <1>0, <2>1, <3>3 DEF RunWasVisited, Pc
  <2>. QED BY <2>1, <2>2, <2>3, SameSound DEF RunInv
<1>3. CASE RunInsn
  <2>1. /\ Running
        /\ UNCHANGED <<prog, visits, run, finished, errors>>
    BY <1>3 DEF RunInsn, vars
  <2>2. PICK d \in CStep(prog, cpc, conc) : cpc' = d.pc /\ conc' = d.conc
    BY <1>3 DEF RunInsn
  <2>3. Passed
    BY <2>1 DEF Running, RunInv, RunShape
  <2>4. d \in CItem(prog)
    BY <1>0, <2>1, <2>2, RunAssumption DEF Running, RunInv, RunShape
  <2>5. RunShape' /\ NotStarted'
    BY <2>1, <2>2, <2>3, <2>4 DEF RunShape, NotStarted, RunInv, Running, CItem, Passed
  <2>6. ASSUME SoundSoFar PROVE RunWasVisited'
    <3>1. PICK v \in visits : v.pc = cpc /\ conc \in Gamma(v.state)
      BY <2>1, <2>6 DEF Running, RunInv, RunWasVisited
    <3>2. /\ \E it \in Successors(v) : it.pc = d.pc /\ d.conc \in Gamma(it.state)
          /\ Successors(v) \subseteq Came
      BY <2>2, <2>3, <2>6, <3>1, VisitSound DEF WalkInv
    <3>3. PICK it \in Successors(v) : it.pc = d.pc /\ d.conc \in Gamma(it.state)
      BY <3>2
    <3>4. Settled(it) /\ it \in Came
      BY <2>3, <3>2 DEF WalkInv, FixpointReached
    <3>5. d.pc # Size(prog) => \E w \in visits : w.pc = d.pc /\ d.conc \in Gamma(w.state)
      BY <2>6, <3>3, <3>4, SettledCovers
    <3>. QED BY <1>0, <2>1, <2>2, <3>5 DEF RunWasVisited, Pc
  <2>. QED BY <2>1, <2>5, <2>6, SameSound DEF RunInv
<1>4. CASE RunExit
  <2>1. /\ run' = "ended" /\ run = "running"
        /\ UNCHANGED <<prog, visits, finished, errors, cpc, conc>>
    BY <1>4 DEF RunExit, Running, vars
  <2>. QED BY <2>1, SameSound DEF RunInv, RunShape, NotStarted, RunWasVisited, Passed
<1>5. CASE UNCHANGED allVars
  <2>1. UNCHANGED <<prog, visits, finished, errors, run, cpc, conc>>
    BY <1>5 DEF allVars, vars
  <2>. QED BY <2>1, SameSound DEF RunInv, RunShape, NotStarted, RunWasVisited, Passed, Pc
<1>. QED BY <1>1, <1>2, <1>3, <1>4, <1>5 DEF RunNext

(* The run never leaves what the walk visited. *)
LEMMA RunInductive == RunSpec => [](WalkInv /\ RunInv)
<1>1. Spec => []WalkInv
  BY TypeCorrect, VisitsShaped, FixpointTheorem, VerdictTheorem, PTL DEF WalkInv
<1>. QED BY <1>1, RunIsWalk, RunStart, RunStep, PTL DEF RunSpec

(* RunWasVisited: the walk has been wherever a run of the program gets to, *)
(* for a state that stands for the run's own.                              *)
THEOREM RunVisitedTheorem == RunSpec => [](SoundSoFar => RunWasVisited)
<1>1. RunInv => (SoundSoFar => RunWasVisited)
  BY DEF RunInv
<1>. QED BY <1>1, RunInductive, PTL

(* NeverFaults: the verdict of check_with_relocs can be trusted as far as  *)
(* the domain can at the visits of its walk: an accepted program that      *)
(* executes an undefined instruction had a visit that was unsound.         *)
THEOREM SafetyTheorem == RunSpec => [](SoundSoFar => NeverFaults)
<1>1. WalkInv /\ RunInv => (SoundSoFar => NeverFaults)
  <2>. SUFFICES ASSUME WalkInv, RunInv, SoundSoFar, run = "running", cpc \in Pc(prog)
                PROVE  ~Fault(prog, cpc, conc)
    BY DEF NeverFaults
  <2>1. PICK v \in visits : v.pc = cpc /\ conc \in Gamma(v.state)
    BY DEF RunInv, RunWasVisited
  <2>2. Passed
    BY DEF RunInv, RunShape
  <2>. QED BY <2>1, <2>2, VisitSound DEF WalkInv
<1>. QED BY <1>1, RunInductive, PTL

-----------------------------------------------------------------------------
(* With a domain that is sound throughout every walk is.                   *)
LEMMA SoundThroughout ==
  ASSUME SoundDomain, SoundExec, TypeOK, VisitShape
  PROVE  SoundSoFar
<1>1. ASSUME NEW u \in visits PROVE Successors(u) \subseteq Item(prog)
  <2>. DEFINE o == Exec(prog, u.pc, u.state, u.id)
  <2>1. prog \in Program /\ u.pc \in Pc(prog) /\ u.state \in State /\ u.id \in 0 .. ComplexityLimit
    BY DEF TypeOK, VisitShape
  <2>2. o \in Outcome(prog)
    BY <2>1, ExecAssumption DEF WellFormed
  <2>3. o.kind \in {"stop", "step", "branch"} /\ o.next \in Item(prog) /\ o.taken \in Item(prog)
    BY <2>2 DEF Outcome
  <2>. HIDE DEF o
  <2>4. Goes(o) \subseteq Item(prog)
    BY <2>3 DEF Goes
  <2>. QED BY <2>4 DEF Successors, o
<1>2. ASSUME NEW it \in Came PROVE it.state \in State
  BY <1>1, <1>2, DomainAssumption DEF Came, Item
<1>3. ASSUME NEW v \in visits PROVE SoundAt(v)
  <2>1. /\ prog \in Program /\ v.pc \in Pc(prog) /\ v.state \in State /\ v.arrived \in State
        /\ v.id \in 0 .. ComplexityLimit
        /\ v.state = v.arrived \/ \E s \in State : v.state = Widen(s, v.arrived)
    BY DEF TypeOK, VisitShape
  <2>2. Gamma(v.arrived) \subseteq Gamma(v.state)
    BY <2>1 DEF SoundDomain
  <2>3. ASSUME NEW it \in Came, IsSubstate(it.state, v.state)
        PROVE  Gamma(it.state) \subseteq Gamma(v.state)
    BY <1>2, <2>1, <2>3 DEF SoundDomain
  <2>4. ASSUME Exec(prog, v.pc, v.state, v.id).err = {}, NEW c \in Gamma(v.state)
        PROVE  /\ ~Fault(prog, v.pc, c)
               /\ \A d \in CStep(prog, v.pc, c) :
                    \E it \in Successors(v) : it.pc = d.pc /\ d.conc \in Gamma(it.state)
    BY <2>1, <2>4 DEF SoundExec, Successors
  <2>. QED BY <2>2, <2>3, <2>4 DEF SoundAt
<1>. QED BY <1>3 DEF SoundSoFar, SoundDomain
==============================================================================
