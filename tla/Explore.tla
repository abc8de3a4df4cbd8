------------------------------- MODULE Explore -------------------------------
(***************************************************************************)
(* The path walk of the kernel-style verifier: the loop of                 *)
(* check_with_relocs in src/kverify/check.rs.                              *)
(*                                                                         *)
(* The walk follows one path at a time.  At a conditional jump it goes on  *)
(* with the fallthrough and pushes the taken branch on a stack; where a    *)
(* path ends (EXIT, an error, a state already covered) it pops the stack.  *)
(* States seen at an instruction are remembered, up to MaxStatesPerPc of   *)
(* them, and prune later arrivals; at the target of a backward jump there  *)
(* is one remembered state, widened by every new arrival.                  *)
(*                                                                         *)
(* What an instruction does to a state is a parameter: Exec stands for the *)
(* arms of the match on the opcode, IsSubstate and Widen for the two       *)
(* operations of the domain.  A state here is the pair (registers, stack). *)
(***************************************************************************)
EXTENDS Naturals, Sequences

CONSTANTS
  Program,            \* the programs the walk is started on
  State,              \* abstract states: VerifierState and StackState
  Entry,              \* VerifierState::entry() and StackState::new()
  ErrorKind,          \* discriminants of ErrorKind
  MaxStatesPerPc,     \* MAX_STATES_PER_PC (32)
  ComplexityLimit,    \* COMPLEXITY_LIMIT (1_000_000)
  Size(_),            \* number of instructions of a program
  IsBackEdge(_, _),   \* is this pc the target of a backward jump
  IsSubstate(_, _),   \* is_substate_of on registers and stack
  Widen(_, _),        \* widen on registers and stack
  Exec(_, _, _, _)    \* program, pc, state, next fresh id -> Outcome

Pc(p) == 0 .. Size(p) - 1

(* A place to continue from.  pc = Size(p) is any pc past the end, which   *)
(* the loop treats alike, usize::MAX included.                             *)
Item(p) == [pc : 0 .. Size(p), state : State]

(* What one instruction makes of a state: it stops the path (EXIT or an    *)
(* error), goes on at next, or goes on at next and defers taken.           *)
Outcome(p) == [kind  : {"stop", "step", "branch"},
               err   : SUBSET ErrorKind,
               exit  : BOOLEAN,
               next  : Item(p),
               taken : Item(p),
               ids   : {0, 1}]

ASSUME BoundsAssumption ==
  /\ MaxStatesPerPc \in Nat \ {0}
  /\ ComplexityLimit \in Nat \ {0}

ASSUME DomainAssumption ==
  /\ Entry \in State
  /\ {"FallThrough", "ComplexityExceeded"} \subseteq ErrorKind
  /\ \A s, t \in State : Widen(s, t) \in State

(* At most one error per instruction, which stops the path; a jump that is *)
(* deferred has an instruction as its target.                              *)
WellFormed(p, o) ==
  /\ o \in Outcome(p)
  /\ "ComplexityExceeded" \notin o.err
  /\ o.err # {} => o.kind = "stop"
  /\ o.kind = "branch" => o.taken.pc \in Pc(p)

ASSUME ExecAssumption ==
  \A p \in Program :
    /\ Size(p) \in Nat
    /\ \A q \in Pc(p), s \in State, n \in 0 .. ComplexityLimit :
         WellFormed(p, Exec(p, q, s, n))

VARIABLES
  prog,           \* instructions
  pc, state,      \* the current state
  backtrack,      \* deferred branches, the top of the stack first
  explored,       \* remembered states of each pc
  errors,         \* pairs (pc, discriminant): what the final retain keeps
  total_visited,
  reached_exit,
  next_id,        \* the counter of IdGen
  finished,       \* the loop was left and the result returned
  visits          \* history: every (pc, arriving state, processed state, id)

vars == <<prog, pc, state, backtrack, explored, errors, total_visited,
          reached_exit, next_id, finished, visits>>

Visit(p) == [pc : Pc(p), arrived : State, state : State, id : Nat]

TypeOK ==
  /\ prog \in Program
  /\ pc \in 0 .. Size(prog)
  /\ state \in State
  /\ backtrack \in Seq(Item(prog))
  /\ explored \in [Pc(prog) -> Seq(State)]
  /\ errors \subseteq (0 .. Size(prog)) \X ErrorKind
  /\ total_visited \in 0 .. ComplexityLimit + 1
  /\ ~finished => total_visited <= ComplexityLimit
  /\ reached_exit \in BOOLEAN
  /\ next_id \in 0 .. total_visited
  /\ finished \in BOOLEAN
  /\ visits \subseteq Visit(prog)

(* CheckResult::passed *)
Passed == finished /\ errors = {}

Init ==
  /\ prog \in Program
  /\ pc = 0
  /\ state = Entry
  /\ backtrack = <<>>
  /\ explored = [q \in Pc(prog) |-> <<>>]
  /\ errors = IF Size(prog) = 0 THEN {<<0, "FallThrough">>} ELSE {}
  /\ total_visited = 0
  /\ reached_exit = FALSE
  /\ next_id = 0
  /\ finished = (Size(prog) = 0)
  /\ visits = {}

-----------------------------------------------------------------------------
(* Mutant of Concluded: an EXIT reached makes up for the errors.            *)
ConcludedByExit(errs) ==
  IF ~reached_exit /\ \A e \in errs : e[2] # "ComplexityExceeded"
    THEN errs \cup {<<0, "FallThrough">>}
    ELSE {}

(* The error the function adds after the loop when no EXIT was reached. *)
Concluded(errs) ==
  IF ~reached_exit /\ \A e \in errs : e[2] # "ComplexityExceeded"
    THEN errs \cup {<<0, "FallThrough">>}
    ELSE errs

(* Mutant of EndPath: the pc is restored, the state is not. *)
EndPathKeepingState ==
  \/ /\ backtrack # <<>>
     /\ pc' = Head(backtrack).pc
     /\ backtrack' = Tail(backtrack)
     /\ UNCHANGED <<state, errors, finished>>
  \/ /\ backtrack = <<>>
     /\ finished' = TRUE
     /\ errors' = Concluded(errors)
     /\ UNCHANGED <<pc, state, backtrack>>

(* Mutant of EndPath: the loop is left only once an EXIT was reached. *)
EndPathAfterExit ==
  \/ /\ backtrack # <<>>
     /\ pc' = Head(backtrack).pc
     /\ state' = Head(backtrack).state
     /\ backtrack' = Tail(backtrack)
     /\ UNCHANGED <<errors, finished>>
  \/ /\ backtrack = <<>>
     /\ reached_exit
     /\ finished' = TRUE
     /\ errors' = Concluded(errors)
     /\ UNCHANGED <<pc, state, backtrack>>

(* A path is over: pop the next deferred branch, or leave the loop. *)
EndPath ==
  \/ /\ backtrack # <<>>
     /\ pc' = Head(backtrack).pc
     /\ state' = Head(backtrack).state
     /\ backtrack' = Tail(backtrack)
     /\ UNCHANGED <<errors, finished>>
  \/ /\ backtrack = <<>>
     /\ finished' = TRUE
     /\ errors' = Concluded(errors)
     /\ UNCHANGED <<pc, state, backtrack>>

(* Mutant of Dominated: the two states compared the wrong way round. *)
DominatedSwapped ==
  \E i \in DOMAIN explored[pc] : IsSubstate(explored[pc][i], state)

(* An explored state of this pc subsumes the arriving one. *)
Dominated ==
  \E i \in DOMAIN explored[pc] : IsSubstate(state, explored[pc][i])

(* Mutant of AtLoopHead: widening waits for a second remembered state. *)
AtLoopHeadLate == IsBackEdge(prog, pc) /\ Len(explored[pc]) > 1

(* The arriving state is to be widened into the remembered one. *)
AtLoopHead == IsBackEdge(prog, pc) /\ explored[pc] # <<>>

(* The match on the opcode, for the state s the arriving one became. *)
Process(s) ==
  LET o == Exec(prog, pc, s, next_id) IN
  /\ errors' = errors \cup {<<pc, k>> : k \in o.err}
  /\ reached_exit' = (reached_exit \/ o.exit)
  /\ next_id' = next_id + o.ids
  /\ visits' = visits \cup
       {[pc |-> pc, arrived |-> state, state |-> s, id |-> next_id]}
  /\ \/ /\ o.kind = "stop"
        /\ pc' = Size(prog)
        /\ state' = s
        /\ UNCHANGED backtrack
     \/ /\ o.kind = "step"
        /\ pc' = o.next.pc
        /\ state' = o.next.state
        /\ UNCHANGED backtrack
     \/ /\ o.kind = "branch"
        /\ pc' = o.next.pc
        /\ state' = o.next.state
        /\ backtrack' = <<o.taken>> \o backtrack

(* Mutant of Counted: the limit is not looked at. *)
CountedUnlimited ==
  /\ ~finished
  /\ pc < Size(prog)
  /\ total_visited' = total_visited + 1

(* Mutant of Counted: an arrival that is pruned is not counted. *)
CountedUnlessPruned ==
  /\ ~finished
  /\ pc < Size(prog)
  /\ total_visited' = IF Dominated THEN total_visited ELSE total_visited + 1
  /\ total_visited' <= ComplexityLimit

(* The instruction at pc is counted and is within the limit. *)
Counted ==
  /\ ~finished
  /\ pc < Size(prog)
  /\ total_visited' = total_visited + 1
  /\ total_visited' <= ComplexityLimit

PathOver ==
  /\ ~finished
  /\ pc >= Size(prog)
  /\ EndPath
  /\ UNCHANGED <<prog, explored, total_visited, reached_exit, next_id, visits>>

TooComplex ==
  /\ ~finished
  /\ pc < Size(prog)
  /\ total_visited' = total_visited + 1
  /\ total_visited' > ComplexityLimit
  /\ finished' = TRUE
  /\ errors' = Concluded(errors \cup {<<pc, "ComplexityExceeded">>})
  /\ UNCHANGED <<prog, pc, state, backtrack, explored, reached_exit, next_id,
                 visits>>

Prune ==
  /\ Counted
  /\ Dominated
  /\ EndPath
  /\ UNCHANGED <<prog, explored, reached_exit, next_id, visits>>

VisitLoopHead ==
  /\ Counted
  /\ ~Dominated
  /\ AtLoopHead
  /\ LET s == Widen(explored[pc][1], state) IN
       /\ explored' = [explored EXCEPT ![pc] = [@ EXCEPT ![1] = s]]
       /\ Process(s)
  /\ UNCHANGED <<prog, finished>>

VisitAndStore ==
  /\ Counted
  /\ ~Dominated
  /\ ~AtLoopHead
  /\ Len(explored[pc]) < MaxStatesPerPc
  /\ explored' = [explored EXCEPT ![pc] = Append(@, state)]
  /\ Process(state)
  /\ UNCHANGED <<prog, finished>>

VisitOnly ==
  /\ Counted
  /\ ~Dominated
  /\ ~AtLoopHead
  /\ Len(explored[pc]) >= MaxStatesPerPc
  /\ Process(state)
  /\ UNCHANGED <<prog, explored, finished>>

Next ==
  \/ PathOver
  \/ TooComplex
  \/ Prune
  \/ VisitLoopHead
  \/ VisitAndStore
  \/ VisitOnly

Spec == Init /\ [][Next]_vars

-----------------------------------------------------------------------------
(* Where an outcome goes on, and so where the instruction of a visit does. *)
Goes(o) == CASE o.kind = "stop"   -> {}
             [] o.kind = "step"   -> {o.next}
             [] o.kind = "branch" -> {o.next, o.taken}

Successors(v) == Goes(Exec(prog, v.pc, v.state, v.id))

(* Still to be looked at: the current path and the deferred ones. *)
Pending == {[pc |-> pc, state |-> state]} \cup
           {backtrack[i] : i \in DOMAIN backtrack}

(* The place was visited for this very state, or for one that subsumes it. *)
Settled(it) ==
  \/ it.pc = Size(prog)
  \/ \E v \in visits : /\ v.pc = it.pc
                       /\ \/ v.arrived = it.state
                          \/ IsSubstate(it.state, v.state)

(* The walk loses no path: when a program passes, the entry state and      *)
(* every successor of every instruction visited has itself been visited,   *)
(* for that state or for one that subsumes it.  It rests on deferral,      *)
(* pruning, widening and the bound on remembered states all together.      *)
FixpointReached ==
  Passed =>
    /\ Settled([pc |-> 0, state |-> Entry])
    /\ \A v \in visits : \A it \in Successors(v) : Settled(it)

(* No error is lost on the way to the verdict: when a program passes, no   *)
(* visited instruction reported one and some visited instruction was an    *)
(* EXIT, although errors are collected over all paths in one vector.       *)
VerdictCoversVisits ==
  Passed =>
    /\ \A v \in visits : Exec(prog, v.pc, v.state, v.id).err = {}
    /\ \E v \in visits : Exec(prog, v.pc, v.state, v.id).exit

(* No state is made up: everything visited or waiting comes from the entry *)
(* state or out of the instruction of an earlier visit, so a popped branch *)
(* resumes with the state it was deferred with, at the pc it belongs to.   *)
Reached(q, s) ==
  \/ q = 0 /\ s = Entry
  \/ q = Size(prog)
  \/ \E u \in visits : [pc |-> q, state |-> s] \in Successors(u)

NothingInvented ==
  /\ \A v \in visits : Reached(v.pc, v.arrived)
  /\ ~finished => \A it \in Pending : Reached(it.pc, it.state)

(* A remembered state prunes only because its instruction was executed for *)
(* it; there are never more than MaxStatesPerPc of them, and only one at   *)
(* the target of a backward jump.                                          *)
ExploredWereVisited ==
  \A q \in Pc(prog) :
    /\ Len(explored[q]) <= MaxStatesPerPc
    /\ IsBackEdge(prog, q) => Len(explored[q]) <= 1
    /\ \A i \in DOMAIN explored[q] :
         \E v \in visits : v.pc = q /\ v.state = explored[q][i]

(* Every step brings the end closer: it counts an instruction, or it takes *)
(* a deferred branch off the stack and goes on inside the program, or it   *)
(* returns the result.  With the limit on the count this bounds the walk,  *)
(* loops that never converge included.                                     *)
WalkProgresses ==
  [][ \/ finished'
      \/ total_visited' = total_visited + 1
      \/ /\ pc = Size(prog)
         /\ pc' < Size(prog)
         /\ Len(backtrack') = Len(backtrack) - 1 ]_vars

(* The walk returns a result for every program, loops included.            *)
Termination == <>finished
==============================================================================
