----------------------------- MODULE CheckCommand -----------------------------
(***************************************************************************)
(* `object check` on an object of several programmes: run_check and        *)
(* find_program of src/main.rs, which walk one programme after another,    *)
(* and then the run of a programme that was reported as safe.              *)
(*                                                                         *)
(* The walk is that of Explore, over the registers and the stack of Insn   *)
(* and the list of Layout, where jumps are resolved from slots to indices. *)
(* The run is that of SlotRun: it goes by slots and either way at a branch.*)
(***************************************************************************)
EXTENDS Insn, Layout

CONSTANTS
  Objects,            \* what is checked: sequences of [name, raw]
  Requests,           \* the names given with --section
  MaxStatesPerPc,
  ComplexityLimit

(* An object is a list of programmes, and names are asked for in order. *)
ASSUME CommandAssumption ==
  /\ \A o \in Objects : o \in Seq([name : STRING, raw : Seq(Instructions)])
  /\ Requests \subseteq Seq(STRING)
  /\ MaxStatesPerPc \in Nat \ {0}
  /\ ComplexityLimit \in Nat \ {0}

VARIABLES
  programs, request,  \* the object and the names asked for
  chosen,             \* indices of the programmes to check, in order
  step,               \* "select", "next", "walk", "done"
  passed, failed,
  exit_code,          \* Running until the command returns
  judged,             \* history: the verdicts so far
  (* the walk *)
  prog, pc, state, backtrack, explored, errors, total_visited,
  reached_exit, next_id, finished, visits,
  (* the run *)
  raw, slot, running,
  written             \* history: registers that the run has written

command == <<programs, request, chosen, step, passed, failed, exit_code, judged>>
walk == <<prog, pc, state, backtrack, explored, errors, total_visited,
          reached_exit, next_id, finished, visits>>
run  == <<raw, slot, running, written>>
vars == <<command, walk, run>>

Running == -1

-----------------------------------------------------------------------------
(* The parameters of the walk. *)

RegTypes ==
  LET plain == {Uninit, Scalar, Null, KernelPtr}
              \cup [kind : {"FramePtr", "CtxPtr"}, off : Int]
              \cup [kind : {"DataPtr"}, name : {"section"}]
              \cup [kind : {"MapValuePtr", "RingBufPtr"}, id : Nat, off : Int, size : Nat]
  IN plain \cup [kind : {"PtrOrNull"}, inner : plain, id : Nat]

RegStates == [type : RegTypes, tnum : [value : Word, mask : Word],
              smin : Int, smax : Int, umin : Word, umax : Word]

VerifierState ==
  [regs  : [Reg -> RegStates],
   stack : [init : SUBSET Slots, spills : UNION {[o -> RegStates] : o \in SUBSET Int}]]

ErrorKinds ==
  {"FallThrough", "ComplexityExceeded", "UninitRegRead", "UninitReturn", "UninitStackRead",
   "UnknownOpcode", "UnknownHelper", "InvalidHelperArg", "InvalidPointerArith", "DivByZero",
   "OutOfBoundsAccess", "NullPointerDeref", "InvalidPointerDeref", "PtrLeak", "ShiftOverflow"}

IsBackEdge(p, q) == q \in find_back_edge_targets(p)

(* Where control goes after the effect e of the instruction i at q.        *)
Place(q, s) == [pc |-> q, state |-> s]
Outcome(i, q, s, e, goes) ==
  LET out  == [kind |-> "step", err |-> {}, exit |-> FALSE, next |-> Place(q + 1, e.fall),
               taken |-> Place(q + 1, e.fall), ids |-> e.ids]
      stop == [out EXCEPT !.kind = "stop", !.exit = i.kind = "exit"]
  IN CASE i.kind = "exit" \/ e.err # {} -> [stop EXCEPT !.err = e.err]
       [] IsJump(i) /\ e.err = {} /\ goes = {} -> [stop EXCEPT !.err = {"FallThrough"}]
       [] i.kind = "jmp" /\ e.err = {} /\ goes # {} ->
            [out EXCEPT !.kind = "branch", !.taken = Place(CHOOSE t \in goes : TRUE, e.taken)]
       [] i.kind = "ja" /\ e.err = {} /\ goes # {} -> [out EXCEPT !.next = Place(CHOOSE t \in goes : TRUE, s)]
       [] OTHER -> out

(* The match on the opcode: Execute of Insn, and where control goes.  A    *)
(* register that cannot be read is found before a target that is missing.  *)
Exec(p, q, s, id) ==
  Outcome(At(p, q), q, s, Execute(At(p, q), s, id), resolve_branch_target(p, q, At(p, q).off))

W == INSTANCE Explore WITH
       Program    <- UNION {{decode(o[k].raw) : k \in DOMAIN o} : o \in Objects},
       State      <- VerifierState,
       Entry      <- entry,
       ErrorKind  <- ErrorKinds,
       Size       <- Len,
       IsSubstate <- state_leq,
       Widen      <- state_widen

S == INSTANCE SlotRun

-----------------------------------------------------------------------------
Init ==
  /\ programs \in Objects
  /\ request \in Requests
  /\ chosen = <<>>
  /\ step = "select"
  /\ passed = 0 /\ failed = 0
  /\ exit_code = Running
  /\ judged = <<>>
  /\ prog = <<>> /\ pc = 0 /\ state = entry /\ backtrack = <<>> /\ explored = <<>> /\ errors = {}
  /\ total_visited = 0 /\ reached_exit = FALSE /\ next_id = 0 /\ finished = FALSE /\ visits = {}
  /\ raw = <<>> /\ slot = 0 /\ running = "waits"
  /\ written = {1, R10}

(* find_program: the first programme of a name, empty when there is none. *)
Named(name) == {k \in DOMAIN programs : programs[k].name = name}
find_program(name) == {k \in Named(name) : \A j \in Named(name) : k <= j}

(* A name that is not found ends the command before anything is checked. *)
Select ==
  /\ step = "select"
  /\ IF programs = <<>> \/ \E k \in DOMAIN request : find_program(request[k]) = {}
       THEN /\ step' = "done"
            /\ exit_code' = 2
            /\ UNCHANGED chosen
       ELSE /\ step' = "next"
            /\ chosen' = IF request = <<>>
                           THEN [k \in DOMAIN programs |-> k]
                           ELSE [k \in DOMAIN request |-> CHOOSE p \in find_program(request[k]) : TRUE]
            /\ UNCHANGED exit_code
  /\ UNCHANGED <<programs, request, passed, failed, judged, walk, run>>

(* Mutant of Begin: what the last walk reached is still there. *)
BeginKeeping(list) ==
  /\ prog' = list
  /\ pc' = 0
  /\ state' = entry
  /\ backtrack' = <<>>
  /\ explored' = [q \in Indices(list) |-> <<>>]
  /\ errors' = IF list = <<>> THEN {<<0, "FallThrough">>} ELSE {}
  /\ total_visited' = 0
  /\ next_id' = 0
  /\ finished' = (list = <<>>)
  /\ visits' = {}
  /\ UNCHANGED reached_exit

(* The locals of check_with_relocs at its start. *)
Begin(list) ==
  /\ prog' = list
  /\ pc' = 0
  /\ state' = entry
  /\ backtrack' = <<>>
  /\ explored' = [q \in Indices(list) |-> <<>>]
  /\ errors' = IF list = <<>> THEN {<<0, "FallThrough">>} ELSE {}
  /\ total_visited' = 0
  /\ reached_exit' = FALSE
  /\ next_id' = 0
  /\ finished' = (list = <<>>)
  /\ visits' = {}

StartWalk ==
  /\ step = "next"
  /\ Len(judged) < Len(chosen)
  /\ step' = "walk"
  /\ Begin(decode(programs[chosen[Len(judged) + 1]].raw))
  /\ UNCHANGED <<programs, request, chosen, passed, failed, exit_code, judged, run>>

Walk ==
  /\ step = "walk"
  /\ W!Next
  /\ UNCHANGED <<command, run>>

(* Mutant of Judge: a programme that fails is checked again. *)
JudgeAgain ==
  /\ step = "walk"
  /\ finished
  /\ step' = "next"
  /\ IF errors = {}
       THEN passed' = passed + 1 /\ judged' = Append(judged, TRUE)
       ELSE UNCHANGED <<passed, judged>>
  /\ UNCHANGED <<programs, request, chosen, failed, exit_code, walk, run>>

Judge ==
  /\ step = "walk"
  /\ finished
  /\ step' = "next"
  /\ judged' = Append(judged, errors = {})
  /\ IF errors = {}
       THEN passed' = passed + 1 /\ UNCHANGED failed
       ELSE failed' = failed + 1 /\ UNCHANGED passed
  /\ UNCHANGED <<programs, request, chosen, exit_code, walk, run>>

(* Mutant of Verdict: 0 as soon as one of them has passed. *)
VerdictAny == IF failed > 0 /\ passed = 0 THEN 1 ELSE 0

Verdict == IF failed > 0 THEN 1 ELSE 0

Return ==
  /\ step = "next"
  /\ Len(judged) = Len(chosen)
  /\ step' = "done"
  /\ exit_code' = Verdict
  /\ UNCHANGED <<programs, request, chosen, passed, failed, judged, walk, run>>

Command == Select \/ StartWalk \/ Walk \/ Judge \/ Return

-----------------------------------------------------------------------------
(* A programme that was reported as safe is loaded and run. *)
Load ==
  /\ step = "done"
  /\ running = "waits"
  /\ running' = "yes"
  /\ \E k \in DOMAIN judged : judged[k] /\ raw' = programs[chosen[k]].raw
  /\ UNCHANGED <<command, walk, slot, written>>

WrittenAfter(i) ==
  CASE SetsDst(i)      -> written \cup {i.dst}
    [] i.kind = "call" -> (written \ (1 .. 5)) \cup {R0}
    [] OTHER           -> written

RunInsn ==
  /\ S!SlotStep
  /\ written' = WrittenAfter(At(raw, slot))
  /\ UNCHANGED <<command, walk>>

RunExit ==
  /\ S!SlotEnd
  /\ UNCHANGED <<command, walk, written>>

(* A run may stop anywhere once the command has returned. *)
Rest == step = "done" /\ UNCHANGED vars

Next == Command \/ Load \/ RunInsn \/ RunExit \/ Rest

(* The command is one thread that runs until it returns: weak fairness of  *)
(* Command, which is possible exactly until then.  That it is possible is  *)
(* what the check for deadlocks shows.                                     *)
Spec == Init /\ [][Next]_vars /\ ([]<>(step = "done") \/ []<><<Command>>_vars)

-----------------------------------------------------------------------------
(* The walk keeps to its types, and every instruction it comes to gives an *)
(* outcome as Explore assumes it of Exec: at most one error, which stops   *)
(* the path, and deferred jumps only to instructions of the list.          *)
TypeOK ==
  /\ Len(judged) = passed + failed
  /\ Len(judged) <= Len(chosen)
  /\ \A k \in DOMAIN chosen : chosen[k] \in DOMAIN programs
  /\ written \subseteq Reg
  /\ step = "walk" =>
       /\ state.regs \in [Reg -> RegStates]
       /\ state.stack.init \subseteq Slots
       /\ \A o \in DOMAIN state.stack.spills : o \in Int /\ state.stack.spills[o] \in RegStates
       /\ pc < Len(prog) =>
            LET o == Exec(prog, pc, state, next_id) IN
            /\ o.err \subseteq ErrorKinds \ {"ComplexityExceeded"}
            /\ o.err # {} => o.kind = "stop"
            /\ o.next.pc \in 0 .. Len(prog)
            /\ o.taken.pc \in 0 .. Len(prog)
            /\ o.kind = "branch" => o.taken.pc \in Indices(prog)

(* The exit code tells of every programme asked for: 0 that each of them   *)
(* was judged and passed, 1 that each was judged and one failed, 2 that    *)
(* none was judged (the early returns and the last line of run_check).     *)
ExitCodeTellsAll ==
  step = "done" =>
    LET asked == IF request = <<>> THEN Len(programs) ELSE Len(request) IN
    /\ exit_code \in {0, 1, 2}
    /\ exit_code = 2 => judged = <<>>
    /\ exit_code \in {0, 1} => asked > 0 /\ Len(judged) = asked
    /\ exit_code = 1 => \E k \in DOMAIN judged : ~judged[k]
    /\ exit_code = 0 => \A k \in DOMAIN judged : judged[k]

(* The verdict on a programme is its own: it does not depend on what was   *)
(* checked before it in the same command (check_with_relocs starts from    *)
(* nothing).                                                               *)
VerdictIsItsOwn ==
  \A j, k \in DOMAIN judged : chosen[j] = chosen[k] => judged[j] = judged[k]

(* Sections that the decoding loop leaves in one piece, and whose last     *)
(* instruction is not one to run off from.                                 *)
WholeSection(section) ==
  /\ \A k \in DOMAIN section : section[k].kind # "undecodable"
  /\ LET list == decode(section) IN list # <<>> /\ list[Len(list)].kind \in {"exit", "ja"}

(* A run of a programme that passed always stands on an instruction: no    *)
(* jump leaves the section or comes down in the second half of an          *)
(* LD_IMM64, although the walk knows indices of a list and the run slots.  *)
SlotsExist == (running = "yes" /\ WholeSection(raw)) => S!IsInsn(raw, slot)

(* Registers that an instruction takes its operands from. *)
Needs(i) ==
  CASE i.kind = "call" -> DOMAIN HELPERS[i.helper].args
    [] i.kind = "exit" -> {R0}
    [] OTHER           -> Reads(i)

(* A run of a programme that passed reads no register that it has not      *)
(* written, on any way through branches and loops: check_reg_readable      *)
(* along one path, pruning, widening and the clobbering of calls together. *)
NoUninitRead ==
  (running = "yes" /\ WholeSection(raw) /\ S!IsInsn(raw, slot)) => Needs(At(raw, slot)) \subseteq written

(* The command comes to an end with an exit code, for every object.        *)
CommandEnds == <>(exit_code # Running)
=============================================================================
