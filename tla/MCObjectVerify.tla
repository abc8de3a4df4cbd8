--------------------------- MODULE MCObjectVerify ---------------------------
(***************************************************************************)
(* ObjectVerify on words of four bits and a frame of four bytes, for       *)
(* programmes put together from menus of instructions.  A programme has a  *)
(* beginning and an end that its family shares and a few places between.   *)
(***************************************************************************)
EXTENDS ObjectVerify, Assembler, SequencesExt

(* r2 is the register that programmes may branch on. *)
MCRegisters == {[r \in Reg |-> Scalar(IF r = 2 THEN w ELSE 0)] : w \in {0, 1, 15}}

Returning(w) == [returns |-> w, written |-> {}]
Writing(w)   == [returns |-> Unsaid, written |-> {[id |-> 0, off |-> 0, width |-> 2, word |-> w]}]
Unheld       == Returning(Unsaid)

(* The section of a list: an LD_IMM64 gets its second slot. *)
Assembled(list) ==
  FoldLeft(LAMBDA raw, i : raw \o (IF i.kind = "ldimm64" THEN <<i, Second>> ELSE <<i>>), <<>>, list)

Job(list, spec) == [raw |-> Assembled(list), spec |-> spec]

(* Programmes with three and with four places. *)
Three(begin, a, b, c, end)   == {begin \o <<x, y, z>> \o end : x \in a, y \in b, z \in c}
Four(begin, a, b, c, d, end) == {begin \o <<w, x, y, z>> \o end : w \in a, x \in b, y \in c, z \in d}

Ret(w) == <<Set(0, w), Exit>>

-----------------------------------------------------------------------------
(* Pointers to the frame and the context that are moved and copied on some *)
(* of the ways to an access.                                               *)
Pointers == {Mov(6, R10), Mov(6, 1), Set(6, 0), AluImm("Add", 6, -2), AluImm("Add", 6, 1)}
Forks    == {To(JmpImm("Jeq", 2, 0), 1), To(JmpImm("Jgt", 2, 1), 2), To(JmpImm("Jne", 2, 0), 0)}
Uses     == {St(6, -2, 2), St(6, -4, 2), St(6, -1, 1), Stx(6, 2, -1, 2), Ldx(3, 6, 0, 2), Stx(R10, 2, -4, 2)}

Frames == Four(<<Mov(6, R10)>>, Pointers \cup Forks, Pointers \cup Forks,
               Pointers \cup {To(JmpImm("Jne", 2, 0), 0)}, Uses, Ret(0))

(* Loops that run until r2 is 0, by a conditional jump and by a plain one. *)
Bodies == {Mov(7, 6), Mov(6, R10), Mov(6, 1), Set(6, 0), Ldx(7, 1, 0, 2), St(R10, -2, 1),
           CallTo("KTIME_GET_NS")}
Loops ==
  Three(<<Mov(6, R10), Mov(7, R10)>>, Bodies, {AluImm("Sub", 2, 1)},
        {To(JmpImm("Jne", 2, 0), -3), To(JmpImm("Jgt", 2, 1), -1)}, <<St(7, -2, 2)>> \o Ret(0))
  \cup Three(<<Mov(6, R10), To(JmpImm("Jeq", 2, 0), 3)>>, {AluImm("Sub", 2, 1)}, Bodies,
             {Ja(-4), Ja(0)}, <<St(6, -2, 2)>> \o Ret(0))

(* Lookups whose result is copied, checked and used. *)
Lookup    == <<Map(1), Mov(2, R10), AluImm("Add", 2, -2), CallTo("MAP_LOOKUP_ELEM")>>
Checks == {Mov(6, 0), Set(6, 0), Ldx(3, 0, 0, 2), Ldx(3, 6, 0, 2)}
Tests  == {To(JmpImm("Jeq", 0, 0), 2), To(JmpImm("Jne", 0, 0), 1), To(JmpImm("Jeq", 6, 0), 1),
           To(JmpImm("Jne", 6, 0), 2)}
Nulls == Four(Lookup, Checks, Tests \cup {Mov(6, 0)}, Checks \cup Tests, Checks, Ret(0))
TwoLookups ==
  Three(Lookup \o <<Mov(6, 0)>> \o Lookup,
        {To(JmpImm("Jeq", 6, 0), 3), To(JmpImm("Jeq", 0, 0), 3)},
        {To(JmpImm("Jeq", 6, 0), 2), To(JmpImm("Jeq", 0, 0), 1), Mov(0, 6)},
        {Ldx(3, 6, 0, 2), Ldx(3, 0, 0, 2)}, Ret(0))

(* What an instruction may take, and what it leaves. *)
Values == {Mov(6, 1), Set(6, 3), Half(Mov(6, 2)), Half(AluImm("Add", 6, 1)), AluImm("Add", 6, -1),
           Alu("Sub", 6, R10), Ldx(6, 1, 0, 2), Ldx(6, R10, -2, 2), Stx(R10, 6, -2, 2),
           CallTo("KTIME_GET_NS"), CallTo("PROBE_READ_KERNEL"),
           To(JmpReg("Jlt", 2, 6), 1)}
Types == Four(<<Mov(6, R10)>>, Values \cup {Section(6)}, Values, Values, {Alu("Xor", 6, 2), Mov(0, 6)}, <<Exit>>)

(* Programmes that are held to what they return. *)
Results == {Set(0, 1), AluImm("Add", 0, 1), Alu("Add", 0, 2), Half(Alu("Rsh", 0, 2)), Ja(1),
            To(JmpImm("Jeq", 2, 0), 1), To(JmpImm("Jeq", 2, 1), 1), To(JmpReg("Jsgt", 0, 2), 1),
            To(Half(JmpImm("Jlt", 2, 3)), 2)}
Sums == Four(<<Set(0, 0)>>, Results, Results, Results, {Set(0, 1), AluImm("And", 0, 1)}, <<Exit>>)
Found1 == Three(Lookup \o <<Mov(6, 0)>>, {Set(0, 1), Set(0, 0)}, Tests,
                {Set(0, 1), Set(0, 0), Ldx(0, 6, 0, 2)}, <<Exit>>)

(* Reservations that are written to, with and without a check. *)
Reserve == <<Map(1), Set(2, 2), Set(3, 0), CallTo("RINGBUF_RESERVE")>>
Writes == Three(Reserve, {To(JmpImm("Jeq", 0, 0), 2), Mov(6, 0)},
                {St(0, 0, 2), St(0, 0, 1), Mov(6, 0)}, {Stx(0, 2, 0, 2), Set(2, 1)}, <<Exit>>)

(* Jumps both ways over an LD_IMM64, into the place after it and back to   *)
(* before the list.                                                        *)
Over  == {Section(6), Map(7), AluImm("Sub", 2, 1), Set(2, 0)}
Forth == {To(JmpImm("Jeq", 2, 0), 1), To(JmpImm("Jeq", 2, 0), 2), Ja(1), Ja(2)}
Back   == {To(JmpImm("Jeq", 2, 0), -6), To(JmpImm("Jeq", 2, 0), -2), To(JmpImm("Jeq", 2, 0), -1), Ja(-2)}
Crossings ==
  Three(<<>>, Over \cup Forth, Over, Over \cup Back, <<To(JmpImm("Jne", 2, 0), -3)>> \o Ret(0))

MCJobs ==
  {Job(p, Unheld) : p \in Frames \cup Loops \cup Nulls \cup TwoLookups \cup Types \cup Crossings}
  \cup {Job(p, Returning(w)) : p \in Sums \cup Found1, w \in {0, 1}}
  \cup {Job(p, s) : p \in Writes, s \in {Unheld, Writing(0)}}

-----------------------------------------------------------------------------
(* Single programmes, for the runs that end in a violation. *)

(* A reservation used without a check. *)
RingBufJobs == {Job(Reserve \o <<St(0, 0, 2)>> \o Ret(0), Unheld)}

(* A value of a map that is returned. *)
ReadJobs ==
  {Job(Lookup \o <<Mov(6, 0), Set(0, 0), To(JmpImm("Jeq", 6, 0), 1), Ldx(0, 6, 0, 2), Exit>>, Returning(0))}

(* A loop whose second round uses what the first one looked up. *)
NullLoopJobs ==
  {Job(<<Map(9), Mov(6, 1), Set(8, 1), Ldx(3, 6, 0, 2), Mov(1, 9), Mov(2, R10), AluImm("Add", 2, -2),
         CallTo("MAP_LOOKUP_ELEM"), Mov(6, 0), To(JmpImm("Jne", 8, 0), -7)>> \o Ret(0), Unheld)}

(* A lookup that is used through an argument register after another call.  *)
StaleJobs ==
  {Job(Lookup \o <<Mov(1, 0), CallTo("KTIME_GET_NS"), Ldx(3, 1, 0, 2)>> \o Ret(0), Unheld)}

(* A jump to before the first instruction, which begins again with r1 as   *)
(* it is.                                                                  *)
BeforeJobs ==
  {Job(<<Ldx(3, 1, 0, 2), Mov(1, R10), To(JmpImm("Jeq", 2, 0), -4)>> \o Ret(0), Unheld)}

(* A loop that takes more rounds than there are instructions. *)
FuelJobs == {Job(<<Set(2, 3), AluImm("Sub", 2, 1), To(JmpImm("Jne", 2, 0), -2)>> \o Ret(1), Returning(0))}

(* With a null the path analysis runs off the list, where the run need not *)
(* go: the schedule is dropped, and nothing is proved of its runs.         *)
DroppedPathJobs ==
  {Job(<<Mov(6, 2)>> \o Lookup \o <<To(JmpImm("Jne", 0, 0), 4), To(JmpImm("Jeq", 6, 0), 1), Ja(9)>>
       \o Ret(1) \o Ret(0), Returning(0))}

(* Without a null the programme runs off its list. *)
FirstPathJobs ==
  {Job(Lookup \o <<To(JmpImm("Jne", 0, 0), 9)>> \o Ret(1), Returning(0))}

(* The code after the target of a plain jump is judged by what stands      *)
(* before it.                                                              *)
ForwardJaJobs ==
  {Job(<<Mov(6, 1), Ja(1), Mov(6, R10), St(6, -2, 1)>> \o Ret(0), Unheld),
   Job(<<Mov(6, R10), AluImm("Add", 6, -4), Ja(1), Mov(6, R10), St(6, -2, 2)>> \o Ret(0), Unheld)}

(* A jump over an LD_IMM64. *)
CrossingJobs == {Job(<<To(JmpImm("Jeq", 2, 0), 2), Section(6)>> \o Ret(0) \o Ret(1), Unheld)}

(* Equality with an immediate other than 0, which the definition of a run  *)
(* takes for a test for zero.                                              *)
EqualityJobs == {Job(<<Set(0, 1), To(JmpImm("Jeq", 2, 2), 1), Set(0, 0), Exit>>, Unheld)}

(* Two pointers that meet: nothing is claimed, everything is let through. *)
MeetingJobs ==
  {Job(<<Mov(6, R10), To(JmpImm("Jeq", 2, 0), 1), AluImm("Add", 6, -4), St(6, -2, 2)>> \o Ret(0), Unheld)}

(* The frame pointer is overwritten on one of two ways. *)
FramePointerJobs ==
  {Job(<<To(JmpImm("Jeq", 2, 0), 1), AluImm("Add", R10, -4), St(R10, -2, 2)>> \o Ret(0), Unheld)}

(* A verified programme never accesses the stack outside of its bytes:     *)
(* what the bounds of BPF.Check.StackBounds.fst are there for, also for    *)
(* registers of which the scan claims nothing.                             *)
StackAccessesInside ==
  Accesses => LET i == InsnAt(code, m.pc) IN
    m.regs[BaseReg].kind = "FramePtr" => stack_offset_valid(m.regs[BaseReg].n + i.off, i.width)

(* A conditional jump on numbers compares them: eval_jmp64 and eval_jmp32  *)
(* of BPF.Semantics.fst, which exec_insn does not use for all of them.     *)
JumpsCompare ==
  (Running /\ IsCondJump(InsnAt(code, m.pc))) =>
    LET i == InsnAt(code, m.pc)
        d == m.regs[i.dst]
        s == IF i.src = Imm THEN Scalar(ImmOf(i)) ELSE m.regs[i.src]
    IN (IsNum(d) /\ IsNum(s)) => Conditions(i, d, s) = {Jumps(i.op, ~i.wide, d.n, s.n)}
=============================================================================
