# A specification of bpf-verifier

TLA+ modules, TLC configurations and machine-checked proofs about the two ways in which
this repository judges a compiled BPF programme:

- `bpf-verifier object check`: the kernel-style verifier of `src/kverify`, a walk over
  all paths of a programme with an abstract domain of registers and stack, and the
  command around it;
- `bpf-verifier object verify`: linear scans and path schedules in Rust
  (`src/analysis`), the same scans and an executable semantics in F* (`fstar/obj`), and
  a generated module that states what F* has to prove.

Each is put next to a machine that runs the programme it accepted.

Paths below are relative to the repository's root. `check.rs` and `state.rs` are
those of `src/kverify`.

- [The system](#the-system)
- [How the parts interact](#how-the-parts-interact)
- [Modules](#modules)
- [Runs](#runs)
- [Where the code departs from its documentation](#where-the-code-departs-from-its-documentation)
- [Proofs](#proofs)
- [Abstractions and assumptions](#abstractions-and-assumptions)
- [Not modelled](#not-modelled)
- [Plan](#plan)
- [Running it](#running-it)

## The system

bpf-verifier takes a compiled BPF object, or its C source, and decides whether its
programmes are safe (and, given a specification in F*, correct).

| Component | State it keeps | Operations | What makes it correct |
|---|---|---|---|
| **Path walk**, `check.rs:58-425` | pc, current registers and stack, the stack of deferred branches, up to 32 remembered states per pc, errors, counters | visit an instruction, defer a branch, prune, widen at a loop head, resume a deferred branch, give up, conclude | no path and no error is lost; a pruned or widened state is spoken for; a verdict is always reached; a programme that passed never does anything undefined |
| **Scalars**, `state.rs:12-141, 242-494` | tracked number, signed and unsigned bounds | bit operations, `refine_bounds`, `widen`, `is_substate_of` | each register describes the word the programme has in it |
| **ALU and branches**, `check.rs:693-1025, 1420-1860` | (the registers) | `check_alu`, `refine_branch`, `refine_scalar_64/32` | results and refinements are sound; pointers and numbers are not confused; a null check reaches all copies and nothing else |
| **Stack**, `state.rs:556-680` | bytes written, registers spilled | mark, check, spill, clear, compare, widen | what is read was written; a reload yields what is there |
| **Memory and calls**, `check.rs:515-691, 1027-1412`, `src/bpf/helpers.rs` | (registers and stack) | `check_load`, `check_store`, `check_call` | an accepted access is inside its object; pointers do not leave; what a call destroys is not used |
| **Errors**, `error.rs` | - | formatting | - |
| **Stack-bounds scan**, `src/analysis/stack_bounds.rs` | abstract registers, a map of branch targets | one linear pass | an accepted stack access is inside the frame, on every path |
| **Dataflow**, `src/analysis/dataflow.rs` | abstract registers, ring-buffer writes, a schedule | one execution per schedule of null results | the schedules cover the paths |
| **F\* object semantics**, `fstar/obj/BPF.{State,Semantics,Helpers}.fst` | typed registers, stack, map values, ring buffer | `exec_insn`, `exec_program` | the definition of a run |
| **F\* safety layers**, `fstar/obj/BPF.Check.*.fst`, `BPF.Exec.*.fst` | abstract state, map of targets; schedule | linear passes; execution by paths | like the scans above |
| **F\* harness and tactics**, `BPF.{Spec,DefaultSpec,Verify,Witness,Tactic*}.fst` | - | what is to be proved, and how F* normalises it | the statement means what the user meant |
| **Code generation**, `src/codegen/fstar.rs`, `src/templates` | - | text of an F* module | the module speaks of this programme |
| **Decoding, basic blocks**, `src/bpf/{instruction,basic_block}.rs` | - | `decode`, `find_basic_blocks` | jumps land where they did in the object |
| **ELF parser**, `src/elf/parser.rs` | - | sections, relocations, BTF, decoding loop | indices and offsets stay aligned |
| **Command line, runner**, `src/main.rs`, `src/verify/runner.rs` | counts of passed and failed | `object check`, `object verify`, `ast verify`, ... | every programme gets its verdict and the exit code says so |
| **F\* diagnostics**, `src/verify/diagnostic.rs` | - | messages from prover output | - |
| **AST front end**, `src/ast`, `fstar/ast` | - | Clang JSON to F* terms; F* types and lemmas | a faithful translation |

### What is hard here

The program is sequential: nothing runs concurrently with a command and nothing
survives it. What is hard is the *order* in which one loop looks at many paths, and
the numbers.

- **Order of paths.** The fallthrough is followed first, the taken branch is deferred
  with a copy of registers and stack. A path ends in a dozen ways and whatever is on
  top of the stack is resumed. Remembered states of one path prune another, and at a
  loop head the remembered state is replaced while it is in use.
- **Limits.** 32 remembered states per pc and 1 000 000 visits can be hit anywhere.
- **Loops.** The walk ends only because widening converges or because of the limit.
- **Numeric edges.** Carries and borrows of unknown bits; bounds in two signs that are
  exchanged in five steps; 32-bit operations on 64-bit registers; strict comparisons
  at both ends of a range; offsets and widths at both ends of an object.
- **Linear scans against runs that jump.** The scans of `object verify` see each
  instruction once, front to back. What holds at a target must have been left in a map
  by every jump that may come there, and loop heads are seeded before the loop is seen.
  One of the scans exists twice, in Rust and in F*, with different rules.
- **Two counts of positions.** LD_IMM64 is two slots of a section and one entry of the
  list that both verifiers work on; jump offsets count slots.
- **Paths that are dropped.** Schedules of null results that the analysis cannot follow,
  fuel that runs out, a first path that is taken for another: each drops statements
  from what is proved, silently.
- **Several programmes, one exit code.** Selection by name, errors that end the command
  early, counts that decide the code.
- **Stale knowledge.** A spill whose bytes were overwritten, a copy of a pointer that
  missed a null check, a remembered state that says less or more than the one dropped.

`PROJECT.json` lists each of these at its line, with the properties that would notice.

## How the parts interact

`object check`:

```
main.rs run_check, find_program ── programmes, names, verdicts, exit code         CheckCommand
        │
        ├─ parse_elf ──> section of slots ──> list of instructions                 Layout Code
        v
  check_with_relocs ──────────── deferred branches, remembered states               Explore
        │  one instruction at a time                                               Insn
   ┌────┴───────┬──────────────┬──────────────┐
   v            v              v              v
check_alu  refine_branch  check_load/store  check_call                       Alu Branch Memory Call
   └────────────┴───────┬──────┴──────────────┘
                        v
     RegState  (Tnum, bounds)      StackState (bytes, spills)                RegState Tnum Stack
```

`object verify`:

```
main.rs verify_program                                                        ObjectVerify
        │ parse_elf ──> list of instructions                                       Layout Code
        ├─ stack_bounds::analyse ──> witness: one step per instruction             StackBounds Scans
        ├─ dataflow::analyse ──────> schedules that come to an EXIT                Dataflow
        └─ generate_verify, verify.fst ──> one F* module, which states
              the witness by check_insn_sb          BPF.Check.StackBounds          StackBounds
              type_check                            BPF.Check.TypeSafety           TypeSafety
              null_check, if there is a lookup      BPF.Check.NullSafety           NullSafety
              program_satisfies(_path)              BPF.Semantics, BPF.Exec.Path   Machine Helpers
        F* ──> Verified, Failed or an error
```

All of it is called synchronously. `Explore` knows the domain only through `Entry`,
`IsSubstate`, `Widen` and `Exec`; the domain modules know nothing of the walk. This is
the code's own division: `check_with_relocs` touches registers and stack only through
these calls and the arms of one `match`. The two commands share the decoded list and the
helper table and nothing else; `SlotRun`, the instruction set's own view of control, is
what both are held to.

## Modules

| Module | Models | State and actions |
|---|---|---|
| `Explore` | the loop of `check_with_relocs`, any domain | `pc state backtrack explored errors total_visited reached_exit next_id` are the locals of the function, `finished` is its return. `PathOver` (166-175), `TooComplex` (177-187), `Prune` (189-202), `VisitLoopHead` (204-213), `VisitAndStore` (214-216), `VisitOnly` are the ways through one iteration; the last three include the whole arm of the match (`Process`) |
| `SafeRun` | a machine that loads a programme that passed and runs it, next to `Explore` | adds `run cpc conc`; `Load`, `RunInsn`, `RunExit` follow `exec_program` of `BPF.Semantics.fst` |
| `MCExplore`, `MCSafeRun` | one register that is unwritten or a range, its instructions, its machine, the programmes | - |
| `Word` | `u64` and `i64` of any width | - |
| `Tnum`, `RegState` | `state.rs`: tracked numbers; register types, `refine_bounds`, `widen`, `is_substate_of` | operators |
| `Alu`, `Branch` | `check_alu`; `refine_scalar_64`, `refine_scalar_32` | operators |
| `Semantics` | `alu64 alu32 eval_jmp64 eval_jmp32` of `BPF.Semantics.fst` | operators |
| `ScalarReg` | one scalar along a path, next to the word in it | `reg`, `val`, and the state remembered at a loop head; `AluStep`, `JumpTaken`, `JumpFalls`, `FirstArrival`, `Covered`, `Widened` |
| `Stack`, `Memory`, `Call` | `StackState`; `check_load`, `check_store`; `check_call` and the helper table | operators |
| `Insn` | every arm of the match on the opcode, `refine_branch`, `check_exit` | `Execute(i, st, next_id)` |
| `Frame` | eleven registers and a stack along a path, next to a machine whose frame is bytes | `st next_id seen` and `cregs mem heap`; one action per kind of instruction, and what happens where paths meet |
| `MCScalarReg`, `MCFrame` | operands; programmes | - |
| `Code`, `Helpers` | the decoded instruction, what it reads and sets; the helper table of `src/bpf/helpers.rs` | operators |
| `Layout` | the decoding loop of `parser.rs`, `build_pc_map`, `resolve_branch_target`, `find_back_edge_targets` | operators |
| `SlotRun` | the position of a run in its section, nothing else | `raw slot running`; `SlotBegin`, `SlotStep`, `SlotEnd` |
| `CheckCommand` | `run_check` and `find_program`: one walk per chosen programme, then a run of one that passed | `chosen step passed failed exit_code judged`, the walk's locals, the run's `raw slot running`; `Select`, `StartWalk`, `Walk`, `Judge`, `Return`, then `Load`, `RunInsn`, `RunExit`, `Rest` |
| `Machine` | `bpf_state`, `exec_insn`, the helpers and `exec_program` of `fstar/obj`, by fuel and by path | operators |
| `Scans` | what the linear scans share: claims, the map of targets, loop heads | operators |
| `StackBounds`, `NullSafety`, `TypeSafety` | `stack_bounds.rs` and the F* scan of the same name; the null scan; the type scan | operators |
| `Dataflow` | `dataflow.rs`: schedules and the abstract execution that keeps or drops them | operators |
| `ObjectVerify` | `verify_program` on one programme, then a run of it if it was verified | `code phase pc regs targets steps todo paths`, the machine `m`, what the run has done (`jumped stale`); `ScanInsn`, `ListPaths`, `TryPath`, `RunFstar`, then `Load`, `RunInsn`, `RunExit` |
| `Assembler`, `MCCheckCommand`, `MCObjectVerify` | short names for instructions; objects and programmes | - |
| `ExploreProofs`, `SafeRunProofs` | theorems about the walk and about what its verdict promises | - |
| `LayoutProofs` | lemmas: what is computed along a list, the decoded list, the slots of its instructions | - |
| `ObjectVerifyProofs` | theorems about `object verify`; before them lemmas: what `exec_insn` and the helpers leave in the registers, how a run follows `exec_program_path`, what each scan carries from an instruction to the next and to a target | - |
| `CheckCommandProofs` | theorems about `object check`, and about the run of a programme that passed it; every arm of `Execute` | - |
| `DomainProofs` | lemmas: words by their bits, tracked numbers, bounds, what a register says of its word after every operation, jump and widening | - |
| `ScalarRegProofs` | theorems about one scalar along a path | - |
| `FrameProofs` | theorems about registers, spills and bytes along a path, next to the machine | - |

Five groups of modules look at the two verifiers from five sides, because no instance of
the whole fits a model checker.

- `Explore` and `SafeRun` say what the *order of work* guarantees over any abstract
  domain. That the domain was sound where a walk went is `SoundSoFar` of that walk; that it
  is sound everywhere, `SoundDomain` and `SoundExec`, is so of the one-register domain of
  `MCSafeRun`, where TLC evaluates it, and is not assumed of any other.
- `ScalarReg` checks the part of soundness that is about numbers, on every word
  of a small width.
- `Frame` checks the part that is about types, memory and calls, on small frames and
  objects. Its machine has bytes so that stores may overlap.

- `CheckCommand` is the composition: `INSTANCE Explore` with `Execute` of `Insn` as the
  domain's `Exec`, on lists that `Layout` decodes, under the command. It has far fewer
  programmes and values than the other three, and whole ones: what is checked is what no
  part has alone, the order of programmes, the map between slots and indices, and
  registers that are readable on one way and not on another.
- `ObjectVerify` is object verification from end to end. The prover is external to it: it
  may fail or be missing, and proves no statement that does not hold in the semantics.
  `RunsTheProgramme` relates the run of the decoded list, mapped back by
  `collapsed_to_raw`, to `SlotRun`: it names the steps at which one is not the other.

A programme in `Frame` is the *set* of its instructions, which may come in any order;
this covers all programmes over these instructions, of every length. Where its paths
meet is fixed per programme: never, at a join (pruned only) or at a loop head (widened).

Operators that end in a word like `Swapped`, `Short` or `Late`, commented as mutants,
are faulty forms of the definition that follows them. Each property of a passing run
is violated when one of them takes the place of that definition; `PROJECT.json` names
the pairs.

## Runs

### Passing

| Run | Configuration | Question | States |
|---|---|---|---|
| `verdict` | `MCSafeRun.cfg` | Is every path and every error accounted for, does the walk return, and is a programme that passed safe to run? | 19 007 |
| `scalar_path` | `MCScalarPath.cfg` | Do tracked numbers and unsigned bounds describe the word, through any arithmetic and any jumps? | 4 042 |
| `scalar_loop` | `MCScalarLoop.cfg` | Do they still, with signed bounds, where states are pruned and widened at a loop head? Does the remembered state only grow? | 7 171 |
| `frame` | `MCFrame.cfg` | Do types, spills and written bytes describe the machine; is every accepted access inside its object? | 115 753 |
| `check_command` | `MCCheck.cfg` | Does the exit code of `object check` say what was found, is each verdict its own, does a run of an accepted programme stay on instructions and read only what it wrote, does the command end? | 99 873 |
| `object` | `MCObject.cfg` | Do the two stack scans agree, are the claims of the three scans true of the runs, do verified programmes keep what was verified, and are runs of the list runs of the section? | 192 839 |

**verdict.** All programmes of one and two instructions over `exit`, an unknown opcode,
a move, an addition, a call, and three jumps to every target (past the end included);
1105 programmes of three and 784 of five instructions with branches into, out of and
around loops. `MaxStatesPerPc = 2` and `ComplexityLimit = 12` so that both are reached,
in the middle of loops and with branches deferred. The register has three values,
enough for a range to grow twice before it is full. Properties:
`FixpointReached` (no path lost), `VerdictCoversVisits` (no error lost),
`NothingInvented` (a resumed branch has its own state), `ExploredWereVisited` (what prunes
was executed), `WalkProgresses` and `Termination`, and for the machine `NeverFaults` and
`RunWasVisited`. TLC also evaluates `SoundDomain` and `SoundExec` here, for every
programme, state and id, so that `SoundSoFar` is true of all of these walks.

**scalar_path.** Words of three bits, halves of two: small enough for every word, every
tracked number and every bound to occur, and for every carry, wrap-around, sign change
and truncation. The other operand of each operation is any constant, any loaded word,
a word known to be non-zero, a word below a bound, a word with one unknown bit, or the
register itself. Left out are the operations with a configuration of their own below.
`WrappedBoundsHold` is about the signed bounds as `UnsignedFromSigned` reads them: from a
lower bound of 0 on, as bounds of the word itself. It is what `UnsignedBoundsHold` rests on,
and less than that the signed bounds hold, which is not so on this run: they may cross.

**scalar_loop.** Words of two bits, halves of one, arriving at a loop head after any
comparison. Of the operations `Mov` and `Neg` (which forgets everything) are in:
with others, widening is unsound (`scalar_widen`). `HeadGrows` is an action property:
what the remembered state described, it describes after every step.

**frame.** Words of four bits, a frame of four bytes, an access of at most two, contexts
and map values of two, a `u8` of two bits, memory that yields 0 or 1, up to two calls
that return a pointer. Three programmes: lookups whose results are copied, spilled,
reloaded, checked and used; helpers that write to the frame and reservations of known
size; a loop over numbers and bytes. `AccessesStayInside` quantifies over every
instruction of the programme that the verifier would accept in its state; offsets and ends
of accesses are added in `i64`, as in the code, and lie on both sides of both ends of the
objects. `OneNullPerId`
says that two registers or spills with one id hold the same result: it is what makes
refining *all* copies sound. `Careful` says that these programmes never come to do what the
programmes of the counterexamples below do: it is the premise of the theorems about `Frame`,
and here it is an invariant, so the premise has runs that satisfy it, these three programmes'.

**check_command.** 2662 objects of one programme: three places between a beginning and an
end, with moves, an addition, an LD_IMM64 with its second slot, a call, and jumps forward by
up to two slots and back by three, over, into and behind the LD_IMM64. Four objects of none, two
and three programmes: one that passes next to some that do not (no null check, a loop
without an exit, a stale argument, an empty section), a counter that ends only by the
limit, two programmes of one name, a section that does not decode. With each, no name,
one, three with a repeated one. `MaxStatesPerPc = 1` and `ComplexityLimit = 30` so that
both are reached. Properties: `ExitCodeTellsAll`, `VerdictIsItsOwn` (a repeated name gets
the same verdict whatever was walked in between), `SlotsExist` and `NoUninitRead` about
the run, `CommandEnds`. `SlotsExist` and `NoUninitRead` are about sections that the
decoding loop leaves whole and that do not end in an instruction to run off from
(`WholeSection`). The run goes either way at a branch, so it has the ways of every
real run among its own. The walk follows both ways too, but prunes and widens.

**object.** 9972 jobs, each a programme with its specification: pointers to frame
and context that are moved and copied on some ways to an access; loops by conditional
and plain jumps; lookups, one and two, whose results are copied, tested and used; values
of every type and width; sums and lookups held to what they return; reservations with
and without a check held to what they write; conditional and plain jumps forth and back over
LD_IMM64s, to behind one and to before the list. Words of four bits, halves of two, a frame
of four bytes. r2 starts with any of three words, so that branches on it go both ways;
every nullable call may fail. Every property has the premises without which it is not
true, each a hazard with a reproduction below: `KeepsFramePointer` (the Rust join puts
r10 back), `NoForwardJa` (no scan records the target of a plain forward jump), `NoLoop`
(loop heads of the null scan are seeded with the entry; fuel), `NoJumpBefore` (`list_drop`
takes a negative pc for 0, so that a jump to before the list begins the run anew, which
the stack scan does not know), `PathsComplete` (a schedule that
the analysis cannot follow is dropped, and the template takes the first one left for the
one without nulls), `Unknown = {0}` (what a map or the memory holds is 0 in a proof), `has_map_calls` (otherwise null_check is not stated), `BaseReg \notin
stale` (the null scan takes r1-r5 for no pointers after a call, `exec_helper` leaves in
them what they were), `~jumped` (the type scan follows no jump). `ScansAgree` and
`FrameClaimsHold` hold *with* loops: joining is what makes them true. `RunsTheProgramme` has no premise of this kind: a step of the
run is one of the section *if and only if* it neither jumps over an LD_IMM64 nor begins
before the list (`Strays`), and the run comes to jumps of both kinds. `NoJumpBefore` and
`stale` came out of the proofs below, where the invariant was not inductive without them;
`BeforeJobs` and `StaleJobs` are the programmes that show why.

The machine stops where a run is undefined or a programme at its end, so deadlock is
not checked in `verdict`, `frame` and `object`; that the walk itself does not stop early is
`Termination`. In `check_command` a run may rest only once the command has returned, so
the check for deadlocks is on, and shows that the command is never stuck.

**Fairness.** `FairRunSpec` has weak fairness on the walk, on loading and on the
instructions of the run. Each is a sequential loop that takes its next step as long as
there is one; no fairness between choices (which branch, which value) is assumed, so
`Termination` holds for every order of results. `Spec` of `CheckCommand` has weak fairness
of `Command`, written out: `[]<>(step = "done") \/ []<><<Command>>_vars`. `Command` is
possible exactly until `step = "done"`, which the check for deadlocks shows (every other
action needs the command to have returned); the written form spares the model checker
from evaluating a walk twice per step. The command is one thread that runs until it
returns.

### Violations

| Run | Configuration | Property |
|---|---|---|
| `saferun_loop` | `MCSafeRunLoop.cfg` | `RunsEnd` |
| `scalar_widen` | `MCScalarWiden.cfg` | `UnsignedBoundsHold` |
| `frame_ptr_add` | `MCFramePtrAdd.cfg` | `AccessesStayInside` |
| `frame_spill` | `MCFrameSpill.cfg` | `SpillsHold` |
| `object_ringbuf` | `MCObjectRingBuf.cfg` | `NoNullDereference` |
| `object_reads` | `MCObjectReads.cfg` | `SpecHolds` |

## Where the code departs from its documentation

The six runs above:

- **Unbounded loops are accepted** (`RunsEnd`). `src/kverify/mod.rs:23-24`: "truly
  unbounded loops are rejected". A state that comes back unchanged is pruned
  (`check.rs:189-202`); with an exit elsewhere the programme passes.
  `ErrorKind::UnboundedLoop` is produced nowhere.
- **Widening may exclude a word** (`UnsignedBoundsHold`). `state.rs:422-423`: "a sound
  overapproximation of both". Results of operations have `smin`/`smax` from their
  unsigned extremes (`check.rs:1014-1015`), 0 and -1 for an unknown word; minima and
  maxima of such pairs are not bounds, and `refine_bounds` cuts by them.
- **A pointer moved by an unknown distance is taken to be at offset 0**
  (`AccessesStayInside`). `src/kverify/mod.rs:11-12` promises bounds for every access;
  `check.rs:839-861` resets the offset.
- **Pruning ignores spills** (`SpillsHold`). `check.rs:189-190` against `state.rs:648-658`.
- **A reservation is not checked for null** (`NoNullDereference`). `README.md:67`: "Without
  `--spec`, the verifier checks that the programme can't crash — no null dereferences";
  likewise `BPF.DefaultSpec.fst:5-9`. `generate_fstar` counts map lookups only
  (`src/codegen/fstar.rs:38-40`), and without one the template states no `null_check`
  (`verify.fst:66-73`). The path on which the reservation fails ends in `None`, which
  satisfies every specification.
- **Map values are 0** (`SpecHolds`). `BPF.State.fst:131-133`: "a fully symbolic model — the
  spec cannot constrain what values are in the map". `exec_helper` enters 0
  (`BPF.Helpers.fst:127`, `BPF.Exec.Path.fst:58`), and a programme that returns what it
  looked up is verified to return 0.

More, each with a counterexample of a few steps. Where the first column names a set
rather than a configuration, take the configuration of the passing run, give `Programs`,
`Jobs` or `Objects` that set and check the property alone: `Programs <- HelperPrograms` in
`MCFrame.cfg`, `Jobs <- FuelJobs` in `MCObject.cfg`, `Objects <- SkippedObjects` in `MCCheck.cfg`;
for `Sub`, `MCScalarRsh32.cfg` with `Ops64 = {"Sub"}` and `Ops32 = {}`.

Kernel-style verifier:

| Instance | Property | Code | Against |
|---|---|---|---|
| `Ops64 = {"Sub"}` | `KnownBitsHold` | `Tnum::sub` adds the negated value with the same mask, `state.rs:101-108` | `state.rs:7-9`, "`value` holds bits known to be 1. `mask` holds bits that are unknown" |
| `MCScalarMov32.cfg` | `UnsignedBoundsHold` | 32-bit `Mov` keeps `umin`, `check.rs:730-737` | `check.rs:731`, "32-bit mov clears upper bits" |
| `MCScalarRsh32.cfg` | `KnownBitsHold` | 32-bit `Rsh` shifts the whole register, then truncates, `check.rs:960-966, 999-1000` | `alu32` of `BPF.Semantics.fst:110` |
| `MCScalarJsgt32.cfg` | `UnsignedBoundsHold` | signed 32-bit comparisons bound the 64-bit signed value, `check.rs:1740-1801` | `check.rs:1661-1662`, "Truncate the destination register's bounds to 32 bits. Apply the comparison constraint within the 32-bit domain." |
| `MCScalarDiv32.cfg` | `NoDivisionByZero` | a 32-bit divisor is tested as a whole register, `check.rs:762-770` | `check.rs:762`, "Check for division/modulo by zero" |
| `MCSafeRunEnd.cfg` | `NeverFallsThrough` | running past the end only ends the path, `check.rs:166-175, 410` | `error.rs:83`, "Programme falls through without an exit instruction" |
| `OverlapPrograms` | `SpillsHold` | a store inside a spill leaves it in place, `state.rs:639-641` | `state.rs:638` |
| `HelperPrograms` | `SpillsHold` | a helper's write leaves spills in place, `check.rs:660-671` | `state.rs:638` |
| `SizePrograms` | `WrittenIsInit` | `.min(512) as u8` makes 256 and 512 into 0, `check.rs:666-668` | `check.rs:660-662`, "Mark those stack bytes as initialised" |
| `ReservePrograms` | `AccessesStayInside` | a reservation of unknown size counts as 65536 bytes, `check.rs:638-641` | `check.rs:21-22`, "Set conservatively large" |
| `WrapPrograms`, `WrapFrames` | `AccessesStayInside` | an offset near `i64::MAX` that is known, plus the width, wraps to below 0 and passes the test for the end, `check.rs:1043, 1081-1082, 1101-1102` and `state.rs:621-625` (in a debug build it panics) | `src/kverify/mod.rs:11-12`, "every load/store must be within the proven bounds of the pointer's backing object" |
| `ReturnPrograms` | `NoPointerReturned` | an unchecked nullable pointer may be returned, `check.rs:493, 506-510` | `src/kverify/mod.rs:21-22`, "pointers cannot be returned in r0 at exit" |
| `RetypePrograms` | `TypesHold` | widening keeps the first of two different types, `state.rs:431-437` | `state.rs:422-423` |
| `AliasPrograms` | `OneNullPerId` | the same with the ids of two lookups, `state.rs:431-437` | `state.rs:182-184`, "`id` uniquely identifies this nullable allocation" |
| `SkippedObjects` | `EverySlotExists` | a slot that does not decode is left out of the list and stays in the section, `parser.rs:166` | the walk's list is taken for the section |

Object verification:

| Instance | Property | Code |
|---|---|---|
| `NullLoopJobs` | `NoNullDereference` | loop heads are seeded with the initial state, in which r6-r9 are what they were at entry, `BPF.Check.NullSafety.fst:343-356` |
| `StaleJobs` | `NoNullDereference` | after a call the scan takes r1-r5 for values that are no pointers from a map, `BPF.Check.NullSafety.fst:264-279`, and `exec_helper` leaves the unchecked pointer in them |
| `BeforeJobs` | `StackAccessesInside` | `list_drop` takes a negative pc for 0, `BPF.Semantics.fst:407`: a jump to before the list begins it again with registers that the scan does not expect there |
| `ForwardJaJobs` | `StackAccessesInside` | no scan records the target of a plain jump forward, `stack_bounds.rs:275`: the code there is judged by what stands before it |
| `FramePointerJobs` | `StackAccessesInside` | the Rust join takes r10 for the frame pointer whatever was written to it, `stack_bounds.rs:87` |
| `MeetingJobs` | `StackAccessesInside` | where two frame pointers meet nothing is claimed, and an access through such a register is let through, `stack_bounds.rs:163` |
| `FuelJobs` | `SpecHolds` | fuel is the length of the programme and a run that exhausts it satisfies everything, `BPF.Verify.fst:32-39` |
| `FirstPathJobs` | `SpecHolds` | a path the analysis cannot follow is dropped (`dataflow.rs:98-101, 173-174`), and the template skips the first of those kept as the one without nulls (`verify.fst:108-109`) |
| `DroppedPathJobs` | `SpecHolds` | a branch that the analysis cannot resolve falls through for it, off the list, and the schedule is dropped (`dataflow.rs:98-101, 170-174`); a run that takes the branch was proved by no one |
| `CrossingJobs` | none violated: `RunsTheProgramme` names the step (`Strays`) | raw jump offsets are applied to a list in which LD_IMM64 counts once, `stack_bounds.rs:175` and `exec_insn`: the run verified is not the run of the section |
| `EqualityJobs` | `JumpsCompare` | JEQ and JNE with an immediate other than 0 test for zero, `BPF.Semantics.fst:330-338` |

Read in the code and not run:

- `BPF.Exec.Safe`, `transfer_abstract` of `dataflow.rs`: a 32-bit move of an immediate is
  sign-extended; `resolve_branch` compares 32-bit jumps as 64-bit ones.
- The witness is stated step by step. No statement says that the steps follow from each
  other, and `stack_bounds_check` itself is not stated; `ScansAgree` is why this is enough.
- `find_program` takes the first programme of a name, and a `--spec` for a section that does
  not exist is ignored; an error in one programme returns 2 at once, without the others
  (`main.rs:393`).

## Proofs

TLC shows a property for one instance; the theorems below hold for every set of
programmes, every domain, every limit, every size of words and of the frame.

**`ExploreProofs`** assumes of the domain only the types of its operations
(`DomainAssumption`, `ExecAssumption`: at most one error per instruction, an error stops
the path, a deferred branch has an instruction as its target) and that the limits are
positive. In particular *nothing* is assumed of `IsSubstate` and `Widen`: the walk's
bookkeeping is right whatever they answer.

| Theorem | Statement |
|---|---|
| `TypeCorrect` | `Spec => []TypeOK` |
| `FixpointTheorem` | `Spec => []FixpointReached` |
| `VerdictTheorem` | `Spec => []VerdictCoversVisits` |
| `ProvenanceTheorem` | `Spec => []NothingInvented` |
| `ExploredTheorem` | `Spec => []ExploredWereVisited` |
| `ProgressTheorem` | `Spec => WalkProgresses` |

None of these is inductive alone: they speak of the verdict, which is computed once, at
the end. The inductive invariant `IInv` says what holds on the way:

- `NothingDropped`: the entry state and every successor of every visit is *settled*
  (visited, or subsumed by a visit) or is still *open* (the current place or a deferred
  one), unless the limit cut the walk short. A pop closes nothing, as the place it takes
  moves from the stack to the current one; a prune closes the current place because
  what pruned it was visited (`ExploredWereVisited`); a visit settles its place and
  opens its successors.
- `VerdictInv`: errors of visits are in `errors`, `reached_exit` is true only if an EXIT
  was visited, and when the walk has returned there is one of the two.
- `TargetsInv`: deferred places are instructions, so that a pop always makes progress.
- `NothingInvented` and `ExploredWereVisited` themselves.

When `finished` is set nothing is open, and `FixpointReached` is `NothingDropped` without
its second case. `PopInv`, `VisitInv` and `StoreInv` are one lemma per kind of step;
`SettledStays` and `ReachedStays` say that visits are never taken back.

**`SafeRunProofs`** assumes nothing more, of the domain or the machine. `SoundSoFar` is a state
predicate: the start stands for the run's start, and at each visit that this walk has made so far,
the visit's state stands for what arrived (widening) and for what was subsumed by it (pruning), and
the instruction, if it was accepted, is defined on all it stands for and leads into a successor
that was taken. It says nothing of states that the walk does not come to.

| Theorem | Statement |
|---|---|
| `RunVisitedTheorem` | `RunSpec => [](SoundSoFar => RunWasVisited)` |
| `SafetyTheorem` | `RunSpec => [](SoundSoFar => NeverFaults)` |

Read from its end, `SafetyTheorem` localises: if a programme that passed comes to an undefined
instruction, then one visit of *its own* walk was unsound, in its instruction, its pruning or
its widening. Deferral, order, limits and caps are never to blame.

The argument: `RunSpec` implies `Spec`, so the walk's theorems are available
(`RunIsWalk`). Visits are final once the walk has returned (`SameSound`), and a run begins after
that. `RunWasVisited` is then preserved by a step of the run: the step is into a successor of
the visit that speaks for the run, `FixpointReached` says that the successor is settled, and
`SoundAt` of the visit that settled it carries the run's state over. `NeverFaults` follows with
`VerdictCoversVisits`. `SoundThroughout` is the corollary for sound domains: with `SoundDomain` and
`SoundExec` every state is `SoundSoFar`.

How the two halves meet: whether the visits of a walk are sound is a question to the domain.
The one-register domain of `MCSafeRun` is sound everywhere (TLC evaluates it). The numbers of the
real domain are sound for the operations of the passing runs of `ScalarReg`, of every width
(`ScalarRegProofs`), its types, its stack and its ids on the careful runs of `Frame`, of every
size (`FrameProofs`), and neither is for the operations of the counterexamples above: a walk that
comes to one of these may have an unsound visit, and `frame_spill` and `scalar_widen` show two.
What does not depend on numbers and spills is proved of the real domain with no condition on
visits: a run of a programme that passed `object check` stands on an instruction and has written
what it reads (`CheckCommandProofs`).

**`ObjectVerifyProofs`** assumes that sections are sequences of instructions
(`JobsAssumption`: any sequences, with any offsets, immediates and operands), that registers
hold numbers at entry (`RegistersAssumption`) and that memory that was never written yields
words, 0 among them (`UnknownAssumption`).

| Theorem | Statement |
|---|---|
| `TypeCorrect` | `Spec => []TypeOK` |
| `ScansAlwaysAgree` | `Spec => []ScansAgree` |
| `FrameClaimsAreTrue` | `Spec => []FrameClaimsHold` |
| `ClaimedAccessesStayInside` | `Spec => []ClaimedAccessesInside` |
| `NullCheckIsSafe` | `Spec => []CheckedNullSafety` |
| `TypesAreTrue` | `Spec => []TypeClaimsHold` |
| `SpecificationsAreKept` | `Spec => []LoopFreeSpecHolds` |
| `ObjectRunsTheProgramme` | `Spec => RunsTheProgramme` |

The argument has three storeys.

- *Along the list.* A scan is a recursive function of the number of instructions it has
  read. What it has at the end cannot be computed for every list here, as induction over
  data is out of the provers' reach, but that it *has* its recursive equation can be shown
  from the least number at which it would not (`LeastNumber`, `AlongTheList` and
  `FoldExists` of `LayoutProofs`), and so can whatever one turn preserves. This gives, of
  every list: what was decoded is made of the section's instructions (`DecodedList`);
  the scan's claims at an instruction are below those before it, moved by it, and below
  those that *each* earlier jump there has left in the map (`ClaimsFall`,
  `ClaimsRecorded`); a loop head has its seed below it from the start
  (`ClaimsAtLoopHead`), in which nothing is claimed of r0 to r9, and r10 is the frame
  pointer at every instruction (`FramePointerKept`). The map matters: a target is
  overwritten, joined and cleared by others in between, and `RecordedUntil` is the fact
  that all this only ever weakens what it says.
- *One instruction.* The first half of the module says what `exec_insn` makes of each register, of every
  kind of instruction and for every helper (`ExecFacts`, `HelperFacts`, `AluFacts`,
  `NullTested`), and what the scans claim of it.
- *The command and its run.* `CommandInv` is the inductive invariant of the command: the
  list is the decoded section (`Listed`), the scan is where its witness says (`Scanned`), a
  programme that was verified was scanned to its end and has had `type_check` and, with a
  lookup, `null_check` accept it (`Phased`), schedules and machine have their types
  (`Scheduled`, `Loaded`). None of the safety properties is inductive, as they speak of
  accesses only, or of a phase. Each has its own strengthening: `Agreeing` (the Rust scan
  carries the claims of the F* one to this instruction and to every target ahead; those
  behind may differ, and do), `RunFrame` (wherever the run is, what is claimed of each
  register is true of it, and r10 is the frame pointer), `RunNull` (a register that the
  null scan lets through is not null, or a call has left it behind) and `RunTypes`.
  A step of the run falls or jumps, and the claims at the place it comes to are below what
  it brings, by the first storey.

`SpecificationsAreKept` needs a storey of its own, since a run may take any of the choices
that `program_satisfies_path` is told beforehand, and since fuel is counted in rounds and
not in instructions ahead. `RunOnPath` relates the two: there is an entry state, a number of
rounds and the list of the choices made so far, such that for *every* schedule that begins
with these choices `exec_program_path` has the state of the run among those it has after so
many rounds (`PathBegins`, `PathGoesOn`). The rounds are no more than the pc, as every
instruction of a loop-free programme goes ahead, so the fuel is never spent before an EXIT
(`PathEnds`); the choices are no more than the nullable calls before the pc. At the EXIT a
schedule is needed that begins with the choices made and of which something is proved: the
one without a null, or the one that `ScheduleBeginsWith` finds among those of
`enumerate_schedules`, which are all that there are (`EveryScheduleListed`: the bits of
the numbers below 2^n are all the lists of n choices). That is not the first of them when a
null was met, so that the one that the template replaces is never missed. The premises are
those of the property: without `NoLoop`, with a schedule dropped, or with other unknown words than the
0 of `exec_helper`, it is false: `FuelJobs`, `DroppedPathJobs` and the run of `MCObjectReads.cfg`
show so.

`ObjectRunsTheProgramme` is a refinement with its exceptions named: the run of the list, seen
through `SlotOf`, begins where `SlotRun` begins, and each of its steps is one of `SlotRun` if and
only if it is not one that `Strays` names. Its premise, in the property itself, is that every
slot of the section decodes. `EveryInsnHasItsSlot` is one lemma: the instruction at an
index is the one in the slot that `build_pc_map` gives it. `SlotDistance` is the other: two indices
lie as many slots apart as they lie instructions apart exactly when no LD_IMM64 is between
them (`SlotsBetween`). So a jump by indices that passes over one comes to a slot that is neither
the target by slots nor, for a conditional jump, the next one, and every other comes to the
target (`SlotAfter`). `RunSlots` is the invariant, which adds that what runs is well-formed. Object
verification never looks at which of the two a jump is.

**`CheckCommandProofs`** assumes that objects are sequences of named sections of
instructions, requests sequences of names, and limits positive (`CommandAssumption`).

| Theorem | Statement |
|---|---|
| `ExitCodeIsComplete` | `Spec => []ExitCodeTellsAll` |
| `VerdictsAreTheirOwn` | `Spec => []VerdictIsItsOwn` |

`ExitCodeTellsAll` is about the end of the command. Its invariant (`Chosen`, `Tallied`) keeps
what is asked for and what was counted together on the way: as many are chosen as were
asked for, no more are judged than chosen, and `failed` is positive exactly when one of
them failed. `VerdictIsItsOwn` compares two walks that may lie any number of walks
apart. A walk is one turn after another, and a turn is a *function* of the walk's locals
(`Turn`, `OneTurn`): `TooComplex`, `Prune` and the visits exclude each other and choose
nothing. So from the same beginning there is one sequence of locals (`TracesAgree`) and at
most one result (`NoLongerWalk`, `OneResult`); `WalkInv` says that the walk in progress is
on the way from the beginning of its list, and that each verdict given is the result of
its list.

The rest of `CheckCommandProofs` brings the two halves together without a sound domain, from
the same assumptions and no other: any object, any request, any width of words and half
words, any size of the frame, the context and map values, any limits.

| Theorem | Statement |
|---|---|
| `RunsStandOnInstructions` | `Spec => []SlotsExist` |
| `NothingUnwrittenIsRead` | `Spec => []NoUninitRead` |

Whether a register is readable and where control goes do not depend on numbers, so that
these two hold although the tracked numbers are not always right (see above). Their premise
is that of the properties: a section that decodes in full and does not end in an instruction to
run off from (`WholeSection`); `SkippedObjects` and `NeverFallsThrough` show that it is needed.
The argument:

- *Every arm of `Execute`* gives at most one error, and states told by the types of their
  registers and spills alone (`IsState`, `ExecuteMakes`); where it gives no error it reads
  only what had been written, and makes readable only what is written then
  (`ExecuteWrites`). These rest on a lemma for each of `check_alu`, `check_load`,
  `check_store`, `check_call` and the refinement of branches.
- *The walk of the command is a walk of `Explore`* for which `ExploreProofs` holds. Its
  assumptions are about one set of states that every operation stays in; `Universe` is that
  set: the states that can be computed from `entry`, level by level, closed under `Execute`
  and `widen` (`UniverseClosed`) and made of verifier states only (`UniverseOfStates`).
  `WalkBounds`, `WalkDomain` and `WalkExec` prove the assumptions of `ExploreProofs` for it.
- *A list that passes has a certificate* (`Certified`, `PassedIsCertified`): visits without
  errors, one for the entry state, and wherever one of them leads, another that finds no more
  registers readable than the first one left. It comes from `FixpointReached` and
  `VerdictCoversVisits`; a subsumed or widened state has no more readable registers than the
  arriving one (`LeqReads`, `WidenMakes`).
- *A run stands by a certificate* (`ComesToStand`, `RunsOn`): it is at the slot of a visited
  instruction, and what is readable there it has written. `EveryInsnHasItsSlot` says that
  the slot a jump comes to is that of the instruction that the walk went on with, also across
  the two slots of a 64-bit load.

`RunsInv` is the inductive invariant: the walk under way is on its list with the invariant
of `ExploreProofs` (`WalksOn`), each programme judged safe has its certificate
(`AllCertified`), and the run stands by that of its programme (`RunStands`). That certificates
outlive their walk is what makes the order of programmes harmless.

| Theorem | Statement |
|---|---|
| `TypesAreKept` | `Spec => []TypeOK` |

The types of the command do depend on numbers: each tracked number and bound of a register that the
walk computes is a word again, and spills lie at numbers. `Numbered` says so of a state; every arm of
`Execute` and `widen` keep it (`NumberedExecute`, `NumberedWiden`), one lemma for each of
`check_alu`, `check_load`, `check_store`, `check_call` and the branches, with `DomainProofs` for the
arithmetic. So the whole of `Universe` is numbered (`UniverseOfNumbers`), level by level, and the state of the walk
is in `Universe` by `RunsInv`. `TypesInv` adds to `RunsInv` that verdicts are counted once and that a run writes
registers. Besides `CommandAssumption` it asks that the sizes of contexts, map values and
reservations are numbers, and that a `u8` has a value (`SizesAssumption`).

**`ScalarRegProofs`**, on the lemmas of `DomainProofs`, is about the numbers of the domain for
every width of words and half words. It assumes that operands are well formed and hold the
word they come with (`OperandsAssumption`), and that the operations are operations.

| Theorem | Statement |
|---|---|
| `TypeInvariant` | `Spec => []TypeOK` |
| `KnownBitsInvariant` | `SoundOperations \/ CopyOperations => (Spec => []KnownBitsHold)` |
| `UnsignedBoundsInvariant` | `SoundOperations \/ CopyOperations => (Spec => []UnsignedBoundsHold)` |
| `WrappedBoundsInvariant` | `SoundOperations \/ CopyOperations => (Spec => []WrappedBoundsHold)` |
| `SignedBoundsInvariant` | `CopyOperations => (Spec => []SignedBoundsHold)` |
| `WideningGrows` | `Spec => HeadGrows` |

The two premises are on constants, and are the operations of the two passing runs:
`SoundOperations` has no loop head, every 64-bit operation but `Sub`, of the 32-bit ones `Add`,
`Mul`, `Or`, `And`, `Xor`, `Lsh` and `Neg`, and every jump but the signed 32-bit ones;
`CopyOperations` allows a loop head and has `Mov` and `Neg` (64-bit; of the 32-bit ones `Neg`) and the
same jumps; both ask of the operands what they ask of the register. They are as weak as the
code allows: of each operation that is left out, added alone to the run, TLC finds one of these
properties violated (the 32-bit `Sub`, `Div`, `Mod`, `Arsh`, `Rsh` and `Mov`, the 64-bit `Sub`,
each signed 32-bit jump; with a loop head each of the other 64-bit operations). The argument:

- *Words are sets of bits.* Nothing about `2^n` is built in: that it is a positive number and
  doubles comes from counting the subsets of a set (`PowerNext`). `And` is computed by
  `BothBits`, a recursive function of pairs of words; that it satisfies its equation is shown by induction on
  the words (`BothBitsIs`), and its bits follow (`AndOn`). From there on each operation
  is told by the bits that are on (`OrOn`, `XorOn`, `ShlOn`, `ShrOn`, `LowOn`, `HighOn`) and words
  with the same bits are equal (`EqualWords`).
- *Tracked numbers* then follow bit by bit, `tnum_and` to `tnum_join` and `tnum_leq`. `tnum_add` does not:
  a bit of a sum depends on all bits below it. `Carry` is the carry into a bit, and grows with both summands
  (`CarryGrows`); the code's two sums with and without the unknown bits are the greatest and the least
  there are, so that where their carries agree, the carry of the run agrees (`TnumAddSound`).
- *Bounds.* `Keeps(r, s)`: what `r` says of a word, `s` says of it. It holds of each of the five steps
  of `refine_bounds` only with `WrappedBounds` in what is said, since `UnsignedFromSigned` would cut
  the unsigned bounds otherwise. `Sound` is the tracked number, the unsigned bounds and `WrappedBounds`, and is
  inductive together with `TypeOK` (`PathInv`). Neither `UnsignedBoundsHold` nor `KnownBitsHold` is, nor are
  both: a known number is taken from equal bounds and bounds from a known number.
- *Jumps* (`TakenKeeps`, `FallKeeps`): each comparison that holds for the word is kept by what
  the register is refined to; 32-bit ones only move bounds when the register fits in the lower half (`FitsLow`).
- *At a loop head* states are compared by their signed bounds too, and `WrappedBounds` does not survive widening:
  the least of two lower bounds may be negative when one was not. `Speaks`, with signed bounds as they are, does
  (`SubstateSpeaks`, `WidenSpeaks`), and is kept by copies and jumps (`LoopInv`); arithmetic gives
  signed bounds that cross, which is why it is left out.
  `HeadGrows` needs no premise: it is about `widen` alone, whatever came to the head.

**`FrameProofs`**, on the lemmas of `DomainProofs`, is about eleven registers and a stack next to a machine with bytes:
for every set of programmes, every number of calls, every width of words and half words, every size of the
frame, the context, map values, reservations, `u8` and accesses. It assumes that programmes are made of
instructions whose stores of a number take it from the immediate (`ProgramsAssumption`), that unwritten memory
yields words (`UnknownAssumption`), and of the sizes what `FrameAssumption`, `SizesAssumption` and
`WidthAssumption` say.

| Theorem | Statement |
|---|---|
| `CarefulForm` | `Spec /\ []Careful => []TypeOK` |
| `CarefulRegisters` | `Spec /\ []Careful => []TypesHold` |
| `CarefulSpills` | `Spec /\ []Careful => []SpillsHold` |
| `CarefulMarks` | `Spec /\ []Careful => []InitIsWritten` |
| `CarefulMarksAll` | `Spec /\ []Careful => []WrittenIsInit` |
| `CarefulAccesses` | `Spec /\ []Careful => []AccessesStayInside` |
| `CarefulNullChecks` | `Spec /\ []Careful => []OneNullPerId` |

Without a premise five of them are false, as the counterexamples above show (`TypesHold`, `SpillsHold`, `WrittenIsInit`,
`AccessesStayInside`, `OneNullPerId`); the other two are proved along with these. The premise `Careful` leaves the
counterexamples out and says nothing about what the properties assert. It is a condition on the instruction that is
about to be accepted and on the states that meet, and has one part per divergence:

| Part of `Careful` | Leaves out | Shown by |
|---|---|---|
| `NumbersAreExact` | arithmetic whose tracked number is not sound, arithmetic on a path that meets another (widening), a 32-bit move of more than a half, arithmetic of a number with a pointer the verifier has lost track of | `Ops64 = {"Sub"}`, `scalar_widen`, `MCScalarMov32.cfg`, `MCScalarRsh32.cfg` |
| `OffsetsAreKnown` | a pointer moved by an unknown distance, or in 32 bits | `frame_ptr_add` |
| `ComparesNumbers` | a signed 32-bit comparison, a null check of the lower half only, a comparison with a number that is none | `MCScalarJsgt32.cfg` |
| `StoresAside` | a store that overlaps a spill from another place, or comes to the frame through kernel memory | `OverlapPrograms` |
| `EndsInRange` | a load or store whose address or whose end is no `i64` | `WrapPrograms`, `WrapFrames` |
| `SizesAreKnown` | a helper that writes over a spill, an unknown number of bytes, or more than a `u8` counts; a reservation of unknown size | `HelperPrograms`, `SizePrograms`, `ReservePrograms` |
| `MeetsItsLike` | a state pruned by one with more spills, a register widened with one of another type or id | `frame_spill`, `RetypePrograms`, `AliasPrograms` |

`Careful` is sufficient; that it is the weakest such condition is not claimed. It looks at the verifier's state
as well as the programme, because whether a distance is known, or a slot holds a spill, is decided on the way.
The argument:

- *None of the properties is inductive.* A load returns a register that was spilled, so registers depend on spills; a spill
  depends on bytes, since a store may tear it; bounds of a map value depend on the null check, and this on the ids
  of registers and spills alike. `Agree` is all of it at once: `Tells` (what a register says is true of the value, with
  `Sound` of `DomainProofs` for the numbers, and signed bounds as they stand where paths meet), `SpillTells` (the bytes of a spill
  are those of one value, and the spill is true of it), the marks of `StackState` are the bytes written (all of them on a path that meets no other), and `Names` (there
  is *one* value per id, and the ids are below `next_id`, so that a new one names nothing yet). `FrameInv` adds that the remembered
  state has the form of a state and that pointers stored outside the frame are pointers.
- *One lemma per action*: `AluKeeps`, `Imm64Keeps`, `JmpKeeps`, `LoadKeeps`, `StoreKeeps`, `CallKeeps`. A store
  is the hard one: of the bytes it writes, those of a spill at the same place make it anew, those of a spill elsewhere
  are excluded by `StoresAside`, and a byte of a number is no part of any pointer. A branch refines every copy with the
  id, in registers and spills (`RefinedAgree`); that this is right of *all* of them is `Names`.
- *Where paths meet*, a state is replaced by one that was remembered and is not about this run at all (`CoveredKeeps`, `WidenedKeeps`).
  That the remembered state, or the widening of both, still tells of the machine comes from `is_substate_of` and
  `widen` register by register (`MetRegister`), and for spills from `MeetsItsLike`, since the code does not compare them.

`AccessesStayInside` then follows from `Tells`: an accepted access is inside of the object *as the type has it*
(`AccessTells`), the offset of the type is that of the pointer, and the initialised bytes are written ones. The sums
of the code are in `i64`; `BoundsTell` is that they are the sums when the ends are in range (`WrapSignedSame`), which is
what `EndsInRange` of `Careful` is for.

Model-checked only:

- `Termination`, `CommandEnds` and `RunsEnd`: liveness under fairness.
- That runs are careful (`Careful` of `Frame`): a condition on programmes, true of some and not of others.

## Abstractions and assumptions

- `visits` in `Explore` is a history variable: what was executed, for which arriving
  state and with which id. It guards nothing.
- `pc = Size` stands for every pc past the end, `usize::MAX` included; the loop treats
  them alike.
- Errors are a set of pairs (pc, kind). The code's vector is reduced to the first of each
  such pair before it is returned (`check.rs:414-419`), and only its emptiness decides.
- Provenance (`written_at`, `origin_pc`), source locations and texts are left out.
  `origin_pc` takes part in comparing types but is a function of the id.
- Words have `WordBits` bits and halves `HalfBits`; frame, context, map values, `u8` are
  scaled likewise. The relations between them are kept: half < word, access <= frame,
  `u8` smaller than the frame can be.
- Numbers in `Semantics` are those of the register forms of jumps; shifts and divisions
  by out-of-range operands are defined as there. Immediates of 32-bit shifts are not
  negative.
- The machine of `Frame`: a map value has the size the verifier assumes, as the real
  size is not an input of the verifier; kernel memory and data sections have no known
  bounds and every access to them counts as in order, as in the code; a helper that
  writes outside the frame ends the run; a submitted reservation stays accessible;
  memory outside the frame yields any number, or a pointer stored there before.
- Pointers are compared with 0 or unknown numbers only; arithmetic on a pointer that
  yields no pointer yields any number.
- Targets of branches are the walk's business (`Layout`, `CheckCommand`), not `Execute`'s.
- The machine of `ObjectVerify` is `bpf_state` of F*: memory is empty at entry, and a load of
  what was never written gives a word of `Unknown`; so do helpers without a result of
  their own. `reg_origins`, which is for messages, is left out.
- F* itself is external: it answers `Failed` or an error at will and `Verified` only for
  statements that hold on the instance. Well-formedness of the module is that every
  instruction has a constructor.
- The run of `CheckCommand` has no values, only a position and the set of registers it
  has written; that is all its properties speak of, and it has every run of the real
  machine among its own.

## Not modelled

- `error.rs`, `diagnostic.rs`, `src/ast`, the text that `codegen` writes: text in, text out;
  no state. What the generated module *states* is `Proved` of `ObjectVerify`.
- `fstar/ast`, the lemmas of `fstar/obj`, the tactics: checked by F* itself, for all inputs.
- `BPF.Exec.Safe`: no generated module uses it.
- `find_basic_blocks`: decides how a proof is cut into chunks, not what is proved.
- The loop of `run_verify` around `verify_program`, `object list`, `object generate`,
  `ast verify`, argument parsing: each calls what is modelled once per programme and
  prints; the loop's early return is noted above.
- Preconditions and `ringbuf_written_any` of `BPF.Spec`: they narrow the states and the
  entries that a specification is about.
- ELF, BTF and DWARF reading: third-party crates over bytes. What of it decides a verdict,
  the decoding loop, is in `Layout`.

## Plan

Done: the walk and its promise (`Explore`, `SafeRun`, their proofs), the domain (`Tnum` to
`Frame`), the composition of both under the command (`Layout`, `CheckCommand`), object
verification with its scans, schedules and semantics (`Machine` to `ObjectVerify`).

Proved: the walk and its promise for every domain, the safety properties of `ObjectVerify`
and which of its steps are those of `SlotRun`, the exit code and the verdicts of `CheckCommand`, and what
these verdicts promise to a run: `SlotsExist` and `NoUninitRead`; the types of every state that the
walk of `CheckCommand` computes; the numbers of a scalar along a path (`ScalarReg`), for every width;
types, spills, bytes, accesses and ids along a careful path (`Frame`), for every width and size.

Left: a weaker `Careful`, such as arithmetic on paths that meet others, which needs a finer account of
signed bounds; and the theorem that gives `SoundSoFar` from `FrameProofs`, of a walk of careful
programmes by the real domain whose runs have values and not only positions.

## Running it

```
tlc -workers 2 -config MCSafeRun.cfg MCSafeRun        # or any other pair, see below
tlc -workers 2 -config MCScalarPath.cfg MCScalarReg
tlc -workers 2 -config MCFrame.cfg MCFrame
tlc -workers 2 -config MCCheck.cfg MCCheckCommand
tlc -workers 2 -config MCObject.cfg MCObjectVerify
tlapm ExploreProofs.tla
tlapm SafeRunProofs.tla
tlapm LayoutProofs.tla
tlapm ObjectVerifyProofs.tla
tlapm CheckCommandProofs.tla
tlapm DomainProofs.tla
tlapm ScalarRegProofs.tla
tlapm FrameProofs.tla
```

The configuration names its module up to the last part: `MCSafeRun*.cfg` go with
`MCSafeRun.tla`, `MCScalar*.cfg` with `MCScalarReg.tla`, `MCFrame*.cfg` with `MCFrame.tla`,
`MCObject*.cfg` with `MCObjectVerify.tla` and `MCCheck.cfg` with `MCCheckCommand.tla`.
