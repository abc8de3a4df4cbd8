----------------------------- MODULE ObjectVerify -----------------------------
(***************************************************************************)
(* `object verify` on one programme, and the runs of a programme that it   *)
(* reports as verified: verify_program of src/main.rs, with the generated  *)
(* module of src/codegen/fstar.rs and src/templates/verify.fst.            *)
(*                                                                         *)
(* The Rust side scans the list for stack bounds, which leaves a witness,  *)
(* and tries the schedules of nullable calls; then F* is run on a module   *)
(* that states what there is to prove.  The prover is external: it may     *)
(* give up on a statement that holds, and proves none that does not.       *)
(***************************************************************************)
EXTENDS StackBounds, NullSafety, TypeSafety, Dataflow, Layout

CONSTANTS
  Jobs,       \* [raw |-> a section, spec |-> the specification it is held to]
  Registers,  \* register files at entry, r1 and r10 aside
  Unknown     \* words that memory and helpers may give to a run

ASSUME UnknownAssumption == Unknown \subseteq Word /\ 0 \in Unknown
ASSUME JobsAssumption == \A j \in Jobs : j.raw \in Seq(Instructions)

(* A processor's registers hold numbers. *)
ASSUME RegistersAssumption == Registers \subseteq [Reg -> {Scalar(w) : w \in Word}]

VARIABLES
  job,
  code,           \* the decoded list
  phase,          \* where the command or the run of the programme is
  pc,             \* the scan is at this instruction
  regs, targets,  \* state and targets of analyse
  steps,          \* the witness
  todo, paths,    \* schedules to try, and those that came to an EXIT
  m,              \* the run
  jumped,         \* history: the run has taken a jump
  stale           \* history: registers that hold what a call left in an argument register

vars == <<job, code, phase, pc, regs, targets, steps, todo, paths, m, jumped, stale>>
history == <<jumped, stale>>

Phase == {"scan", "paths", "passed", "failed", "error", "running", "ended"}

Initial   == {InitMachine(r) : r \in Registers}
NotLoaded == InitMachine([r \in Reg |-> Scalar(0)])

Init ==
  /\ job \in Jobs
  /\ code = decode(job.raw)
  /\ phase = "scan"
  /\ pc = 0
  /\ regs = abs_init
  /\ targets = Rust_heads(code)
  /\ steps = <<>>
  /\ todo = <<>>
  /\ paths = <<>>
  /\ m = NotLoaded
  /\ jumped = FALSE
  /\ stale = {}

-----------------------------------------------------------------------------
(* analyse: one instruction of the scan, with the step of the witness.     *)
(* A refusal is an error of the command, which exits with 2.               *)
ScanInsn ==
  /\ phase = "scan"
  /\ pc < Len(code)
  /\ steps' = Append(steps, [pc |-> pc, regs |-> regs, targets |-> targets])
  /\ LET o == RustStep(regs, At(code, pc), pc, targets) IN
     \/ /\ o.ok
        /\ pc' = pc + 1
        /\ regs' = o.regs
        /\ targets' = o.targets
        /\ UNCHANGED phase
     \/ /\ ~o.ok
        /\ phase' = "error"
        /\ UNCHANGED <<pc, regs, targets>>
  /\ UNCHANGED <<job, code, todo, paths, m, history>>

(* The ways the nullable calls may turn out, in the order of analyse. *)
Schedules == LET n == count_nullable_helpers(code) IN IF n = 0 THEN <<>> ELSE enumerate_schedules(n)

ListPaths ==
  /\ phase = "scan"
  /\ pc = Len(code)
  /\ phase' = "paths"
  /\ todo' = Schedules
  /\ UNCHANGED <<job, code, pc, regs, targets, steps, paths, m, history>>

TryPath ==
  /\ phase = "paths"
  /\ todo # <<>>
  /\ todo' = Tail(todo)
  /\ paths' = IF execute_path(code, Head(todo)) THEN Append(paths, Head(todo)) ELSE paths
  /\ UNCHANGED <<job, code, phase, pc, regs, targets, steps, m, history>>

-----------------------------------------------------------------------------
(* What the generated module states. *)

(* Instructions that F* has no constructor for make it ill-formed. *)
IsWellFormed ==
  \A k \in DOMAIN code : code[k].kind \notin {"unknown", "undecodable"} /\ code[k].helper # "LOOP"

WitnessValid ==
  \A k \in DOMAIN steps :
    check_insn_sb(steps[k].regs, At(code, steps[k].pc), steps[k].pc, steps[k].targets).ok

has_map_calls == \E k \in DOMAIN code : code[k].kind = "call" /\ returns_map_ptr(code[k].helper)

all_nonnull == [k \in DOMAIN code |-> "NonNull"]

(* Mutant of PathsProved: of the paths with a null only the later ones. *)
PathsProvedLater ==
  /\ program_satisfies_path(code, job.spec, Initial, all_nonnull)
  /\ \A k \in 3 .. Len(paths) : program_satisfies_path(code, job.spec, Initial, paths[k])

(* The path without a null, and each path kept but the first. *)
PathsProved ==
  /\ program_satisfies_path(code, job.spec, Initial, all_nonnull)
  /\ \A k \in 2 .. Len(paths) : program_satisfies_path(code, job.spec, Initial, paths[k])

Proved ==
  /\ IsWellFormed
  /\ WitnessValid
  /\ type_check(code)
  /\ has_map_calls => null_check(code)
  /\ IF paths # <<>> THEN PathsProved ELSE program_satisfies(code, job.spec, Initial)

(* FstarRunner::verify; there may be no F* to be found.                    *)
RunFstar ==
  /\ phase = "paths"
  /\ todo = <<>>
  /\ \/ Proved /\ phase' = "passed"
     \/ phase' = "failed"
     \/ phase' = "error"
  /\ UNCHANGED <<job, code, pc, regs, targets, steps, todo, paths, m, history>>

-----------------------------------------------------------------------------
(* The run: any entry state, and every nullable call may give null. *)
Load ==
  /\ phase = "passed"
  /\ phase' = "running"
  /\ m' \in Initial
  /\ UNCHANGED <<job, code, pc, regs, targets, steps, todo, paths, history>>

(* exec_helper leaves r1 to r5 as they are, on a processor a call does not;*)
(* a copy of such a register is as stale as the register.                  *)
StaleAfter(i) ==
  CASE i.kind = "call" -> (stale \cup 1 .. 5) \ {R0}
    [] IsCopy(i) /\ i.src \in stale -> stale \cup {i.dst}
    [] SetsDst(i) /\ ~(IsCopy(i) /\ i.src \in stale) -> stale \ {i.dst}
    [] OTHER -> stale

RunInsn ==
  /\ phase = "running"
  /\ IsAt(code, m.pc)
  /\ InsnAt(code, m.pc).kind # "exit"
  /\ m' \in exec_insn(m, InsnAt(code, m.pc), BOOLEAN, Unknown)
  /\ jumped' = (jumped \/ m'.pc # m.pc + 1)
  /\ stale' = StaleAfter(InsnAt(code, m.pc))
  /\ UNCHANGED <<job, code, phase, pc, regs, targets, steps, todo, paths>>

RunExit ==
  /\ phase = "running"
  /\ IsAt(code, m.pc)
  /\ InsnAt(code, m.pc).kind = "exit"
  /\ phase' = "ended"
  /\ UNCHANGED <<job, code, pc, regs, targets, steps, todo, paths, m, history>>

Next == ScanInsn \/ ListPaths \/ TryPath \/ RunFstar \/ Load \/ RunInsn \/ RunExit

Spec == Init /\ [][Next]_vars

-----------------------------------------------------------------------------
(* Which programmes the claims below are about. *)
KeepsFramePointer == \A k \in DOMAIN code : ~(SetsDst(code[k]) /\ code[k].dst = R10)
NoForwardJa  == \A k \in DOMAIN code : ~(code[k].kind = "ja" /\ code[k].off > 0)
NoJumpBefore == \A k \in DOMAIN code : IsJump(code[k]) => k + code[k].off >= 0
NoLoop       == \A k \in DOMAIN code : IsJump(code[k]) => code[k].off >= 0
PathsComplete == paths = Schedules

Ahead(t, k) == [p \in {p \in DOMAIN t : p >= k} |-> t[p]]

Running  == phase = "running" /\ IsAt(code, m.pc)
Accesses == Running /\ IsMemory(InsnAt(code, m.pc))
BaseReg  == Base(InsnAt(code, m.pc))

(* The scan of analyse: an entry of the map is for an instruction still to *)
(* come, and the witness has a step for each instruction before this one;  *)
(* a schedule has a choice for every nullable call of the list.            *)
TypeOK ==
  /\ code = decode(job.raw)
  /\ phase \in Phase
  /\ pc \in 0 .. Len(code)
  /\ \A r \in Reg : regs[r].kind \in {"FramePtr", "CtxPtr", "Other"}
  /\ \A p \in DOMAIN targets : p < 0 \/ p >= pc
  /\ Len(steps) = IF phase = "error" /\ pc < Len(code) THEN pc + 1 ELSE pc
  /\ \A l \in {todo, paths} : \A k \in DOMAIN l :
       l[k] \in [1 .. count_nullable_helpers(code) -> PathChoice]
  /\ DOMAIN m.regs = Reg
  /\ jumped \in BOOLEAN
  /\ stale \subseteq Reg

(* The scan that leaves the witness (analyse of src/analysis/              *)
(* stack_bounds.rs) and the one of BPF.Check.StackBounds.fst, which the    *)
(* proof is about, carry the same claims to every instruction, although    *)
(* they differ in which jumps they record and in how they join.            *)
ScansAgree ==
  (KeepsFramePointer /\ phase = "scan") =>
    LET b == stack_bounds_scan(code)[pc] IN
    b.ok /\ regs = b.regs /\ Ahead(targets, pc) = Ahead(b.targets, pc)

(* What the stack bounds scan claims at an instruction (check_insn_sb) is  *)
(* true of every run of a verified programme that comes there, by          *)
(* whichever way it comes and with loops; a forward jump that is not       *)
(* conditional is recorded by neither scan, and a jump to before the first *)
(* instruction, which no loader lets through, is one to that instruction   *)
(* for exec_program.                                                       *)
FrameClaimsHold ==
  (Running /\ KeepsFramePointer /\ NoForwardJa /\ NoJumpBefore) =>
    \A r \in Reg : LET c == FrameClaims(code, Fetched(code, m.pc))[r] IN
                   c # AbsOther => m.regs[r] = c

(* A verified programme accesses the stack inside of its STACK_SIZE bytes  *)
(* whenever the scan knew the register to point to the frame               *)
(* (check_mem_access).                                                     *)
ClaimedAccessesInside ==
  (Accesses /\ KeepsFramePointer /\ NoForwardJa /\ NoJumpBefore) =>
    LET i == InsnAt(code, m.pc) IN
    FrameClaims(code, Fetched(code, m.pc))[BaseReg].kind = "FramePtr" =>
      stack_offset_valid(m.regs[BaseReg].n + i.off, i.width)

(* No run of a verified programme loads or stores through null, whichever  *)
(* of its lookups and reservations fail: what null_check is there for.     *)
NoNullDereference == Accesses => m.regs[BaseReg].kind # "Null"

(* The same of the programmes of which null_check is stated (has_map_calls *)
(* in generate_verify) and whose jumps it follows: no loops, and no        *)
(* forward jump without a condition.  The scan takes r1 to r5 for no       *)
(* pointers after a call, although exec_helper leaves in them what they    *)
(* were: the claim is about values that did not come through a call there. *)
CheckedNullSafety ==
  (has_map_calls /\ NoLoop /\ NoForwardJa /\ Accesses /\ BaseReg \notin stale) =>
    m.regs[BaseReg].kind # "Null"

(* The types that type_check claims are those of a run that has not jumped *)
(* yet (check_insn_ts follows no jump).                                    *)
TypeClaimsHold ==
  (Running /\ ~jumped) =>
    \A r \in Reg : LET t == TypeClaims(code)[m.pc].regs[r] IN
      /\ t = "TScalar"   => m.regs[r].kind = "Scalar"
      /\ t = "TFramePtr" => m.regs[r].kind = "FramePtr"
      /\ t = "TCtxPtr"   => m.regs[r].kind = "CtxPtr"

(* What `object verify` promises: a run of a verified programme that comes *)
(* to its EXIT has returned and written what the specification says.       *)
SpecHolds == phase = "ended" => Post(job.spec, m)

(* The same of programmes without loops, on which the fuel of exec_program *)
(* suffices, none of whose schedules was dropped by execute_path: nothing  *)
(* is proved of those, and templates/verify.fst takes the first that is    *)
(* left for the one without a null.  What a run is not told is 0, as       *)
(* exec_helper has it.                                                     *)
LoopFreeSpecHolds == (NoLoop /\ PathsComplete /\ Unknown = {0}) => SpecHolds

(* The slot of an index, as build_pc_map has it; after the list and before *)
(* it there is nothing that would take two slots.                          *)
SlotOf(t) ==
  CASE t < 0 -> t
    [] t \in 0 .. Len(code) -> collapsed_to_raw(code, t)
    [] OTHER -> collapsed_to_raw(code, Len(code)) + (t - Len(code))

(* The LD_IMM64s that a jump from k to t passes over. *)
Crossed(k, t) ==
  {j \in Indices(code) : At(code, j).kind = "ldimm64" /\ j \in k + 1 .. t - 1 \cup t .. k - 1}

(* The list takes jump offsets as they are, and object verification has no *)
(* map such as build_pc_map: a jump over an LD_IMM64 lands elsewhere than  *)
(* the processor's, and exec_program goes on from before the first         *)
(* instruction.                                                            *)
Strays == m.pc < 0 \/ Crossed(m.pc, m'.pc) # {}

R == INSTANCE SlotRun WITH
       raw     <- job.raw,
       slot    <- SlotOf(m.pc),
       running <- CASE phase = "running" -> "yes" [] phase = "ended" -> "ended" [] OTHER -> "waits"

(* The run of the decoded list (exec_insn, by indices) is a run of the     *)
(* section (by slots) step for step, but for the steps that Strays names,  *)
(* and none of those is a step of the section.                             *)
RunsTheProgramme ==
  /\ R!SlotInit
  /\ [][Decodes(job.raw) => IF phase = "running" THEN R!SlotNext <=> ~Strays
                                                 ELSE [R!SlotBegin]_(R!slot_vars)]_vars
=============================================================================
