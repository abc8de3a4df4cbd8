-------------------------------- MODULE Frame --------------------------------
(***************************************************************************)
(* Registers and stack along one path of the verifier, next to a run of    *)
(* the program on that path.  A program is known by the instructions it is *)
(* made of, which may come in any order, and by how its paths meet.  The   *)
(* verifier's half of a step is Execute of Insn, and what                  *)
(* check_with_relocs does where paths meet; the run's half is a machine    *)
(* whose memory is bytes, so that stores may overlap.                      *)
(***************************************************************************)
EXTENDS Insn, Semantics

CONSTANTS
  Programs,    \* [insns |-> a set of instructions, meeting |-> "never", "join" or "loop"]
  MaxIds,      \* bound: calls that return a pointer, along a path
  Unknown      \* words found in memory the program did not write

ASSUME UnknownAssumption == Unknown \subseteq Word /\ Unknown # {}

(* The operand of a store of a number is its immediate. *)
ASSUME ProgramsAssumption ==
  /\ \A p \in Programs : p.insns \subseteq {i \in Instructions : i.kind = "st" => i.src = Imm}
  /\ MaxIds \in Nat

VARIABLES
  prog,           \* the program
  st, next_id,    \* the verifier: registers and stack, and IdGen
  seen,           \* the states remembered where paths meet: none or one
  cregs, mem,     \* the run: registers, and the bytes of the frame
  heap            \* pointers that the run stored outside the frame

vars == <<prog, st, next_id, seen, cregs, mem, heap>>
machine  == <<cregs, mem, heap>>

-----------------------------------------------------------------------------
(* Values of the run: numbers, pointers into objects, and what registers   *)
(* and bytes hold before they are written.                                 *)
Garbage   == [kind |-> "garbage"]
Num(n)    == [kind |-> "num", num |-> n]
Pointer(obj, off) == [kind |-> "ptr", obj |-> obj, off |-> off]
IsNum(v)  == v.kind = "num"
IsPointer(v) == v.kind = "ptr"

Object(kind, id, size) == [kind |-> kind, id |-> id, size |-> size]
Frm    == Object("frame", 0, STACK_SIZE)
Ctx    == Object("ctx", 0, CTX_SIZE)
Kernel == Object("kernel", 0, 0)
Data   == Object("data", 0, 0)

(* The bytes of an object; those of kernel memory and of data sections are *)
(* not known here, and every access to them is taken to be in order.       *)
Extent(obj) == IF obj = Frm THEN Slots ELSE 0 .. obj.size - 1

(* An address is a word: the sum of a pointer and a displacement wraps. *)
Address(p, off) == WrapSigned(p.off + off)

InObject(p, off, width) ==
  /\ IsPointer(p)
  /\ p.obj \in {Kernel, Data} \/ Bytes(Address(p, off), width) \subseteq Extent(p.obj)

AnyNum  == {Num(n) : n \in Unknown}
LowNum  == {Num(Low(n)) : n \in Unknown}

(* Byte k of a value; a byte that a helper wrote is no part of one. *)
Byte(v, k) == [of |-> v, part |-> k]
Foreign    == Byte(Garbage, 1)
Blank      == Byte(Garbage, 0)

CEntry == [r \in Reg |-> CASE r = 1   -> Pointer(Ctx, 0)
                           [] r = R10 -> Pointer(Frm, 0)
                           [] OTHER   -> Garbage]

Init ==
  /\ prog \in Programs
  /\ st = entry
  /\ next_id = 0
  /\ seen = <<>>
  /\ cregs = CEntry
  /\ mem = [b \in Slots |-> Blank]
  /\ heap = {}

-----------------------------------------------------------------------------
(* The run. *)
Operand(i) == IF i.src = Imm THEN Num(ImmWord(i)) ELSE cregs[i.src]

Shifted(p, n) == {[p EXCEPT !.off = WrapSigned(@ + n)]}

(* Arithmetic.  The address of a pointer is no known number, so what is    *)
(* computed from it, other than a pointer, may be any.                     *)
CAlu(i, d, s) ==
  CASE i.op = "Mov" /\ i.wide -> {s}
    [] i.op = "Mov" /\ ~i.wide /\ IsNum(s) -> {Num(Low(s.num))}
    [] i.op = "Mov" /\ ~i.wide /\ ~IsNum(s) -> LowNum
    [] i.op # "Mov" /\ IsNum(d) /\ IsNum(s) -> {Num(alu(i.op, i.wide, d.num, s.num))}
    [] i.op = "Add" /\ i.wide /\ IsPointer(d) /\ IsNum(s) -> Shifted(d, Signed(s.num))
    [] i.op = "Add" /\ i.wide /\ IsNum(d) /\ IsPointer(s) -> Shifted(s, Signed(d.num))
    [] i.op = "Sub" /\ i.wide /\ IsPointer(d) /\ IsNum(s) -> Shifted(d, -Signed(s.num))
    [] OTHER -> IF i.wide THEN AnyNum ELSE LowNum

(* A pointer is not 0; its low half, or another number, it may well equal. *)
CJumps(i, d, s) ==
  CASE IsNum(d) /\ IsNum(s) -> {Jumps(i.op, ~i.wide, d.num, s.num)}
    [] i.wide /\ i.op \in {"Jeq", "Jne"} /\ IsPointer(d) /\ s = Num(0) -> {i.op = "Jne"}
    [] OTHER -> BOOLEAN

(* The value whose bytes lie at off, if they are those of one value. *)
Whole(off) ==
  {v \in {mem[off].of} : v # Garbage /\ \A k \in 0 .. DW - 1 : mem[off + k] = Byte(v, k)}

FromFrame(off, width) ==
  CASE width = DW /\ Whole(off) # {} -> Whole(off)
    [] width = DW /\ Whole(off) = {} -> AnyNum
    [] OTHER -> LowNum

(* Other memory holds numbers, and the pointers that were stored in it. *)
FromElsewhere(width) == IF width = DW THEN AnyNum \cup heap ELSE LowNum

CLoad(p, off, width) ==
  IF p.obj = Frm THEN FromFrame(Address(p, off), width) ELSE FromElsewhere(width)

Stored(off, width, v) ==
  [b \in Slots |-> IF b \notin Bytes(off, width) THEN mem[b]
                   ELSE IF width = DW THEN Byte(v, b - off) ELSE Foreign]

(* Helpers write, with bytes from outside, where an argument of the table  *)
(* points to memory, as many bytes as the argument after it says.          *)
Written(h) ==
  {k \in DOMAIN HELPERS[h].args :
     /\ HELPERS[h].args[k] = "PtrToMem"
     /\ IsPointer(cregs[k]) /\ cregs[k].obj = Frm /\ IsNum(cregs[k + 1])}

CallBytes(h) == UNION {Bytes(cregs[k].off, cregs[k + 1].num) : k \in Written(h)}

CCallMem(h) == [b \in Slots |-> IF b \in CallBytes(h) THEN Foreign ELSE mem[b]]

(* A map value has the default size; a reservation that of the argument.   *)
CReturn(h) ==
  CASE HELPERS[h].ret_type \in {"Scalar", "ErrorCode"} -> AnyNum
    [] HELPERS[h].ret_type = "KernelPtr"  -> {Pointer(Kernel, 0)}
    [] HELPERS[h].ret_type = "MapPtr"     ->
         {Num(0), Pointer(Object("map", next_id, DEFAULT_MAP_VALUE_SIZE), 0)}
    [] HELPERS[h].ret_type = "RingBufPtr" ->
         {Num(0)} \cup (IF IsNum(cregs[2])
                          THEN {Pointer(Object("ringbuf", next_id, Low(cregs[2].num)), 0)}
                          ELSE {})

-----------------------------------------------------------------------------
(* One action per kind of instruction: the verifier accepts it in its      *)
(* state, and the run executes it in its own.                              *)
Eff(i) == Execute(i, st, next_id)

Accepted(i, kind) ==
  /\ i.kind = kind
  /\ Eff(i).err = {}
  /\ next_id + Eff(i).ids <= MaxIds
  /\ next_id' = next_id + Eff(i).ids
  /\ UNCHANGED <<prog, seen>>

AluStep ==
  \E i \in prog.insns :
    /\ Accepted(i, "alu")
    /\ st' = Eff(i).fall
    /\ \E v \in CAlu(i, cregs[i.dst], Operand(i)) : cregs' = [cregs EXCEPT ![i.dst] = v]
    /\ UNCHANGED <<mem, heap>>

Imm64Step ==
  \E i \in prog.insns :
    /\ Accepted(i, "ldimm64")
    /\ st' = Eff(i).fall
    /\ \E v \in (CASE i.reloc = "none" -> {Num(Wrap(i.imm))}
                   [] i.reloc = "data" -> {Pointer(Data, 0)}
                   [] OTHER -> AnyNum) : cregs' = [cregs EXCEPT ![i.dst] = v]
    /\ UNCHANGED <<mem, heap>>

JmpStep ==
  \E i \in prog.insns :
    /\ Accepted(i, "jmp")
    /\ \E taken \in CJumps(i, cregs[i.dst], Operand(i)) :
         st' = IF taken THEN Eff(i).taken ELSE Eff(i).fall
    /\ UNCHANGED machine

(* A run that leaves the object is undefined and goes no further. *)
LoadStep ==
  \E i \in prog.insns :
    /\ Accepted(i, "ldx")
    /\ st' = Eff(i).fall
    /\ InObject(cregs[i.src], i.off, i.width)
    /\ \E v \in CLoad(cregs[i.src], i.off, i.width) : cregs' = [cregs EXCEPT ![i.dst] = v]
    /\ UNCHANGED <<mem, heap>>

StoreStep ==
  \E i \in prog.insns :
    /\ Accepted(i, "stx") \/ Accepted(i, "st")
    /\ st' = Eff(i).fall
    /\ InObject(cregs[i.dst], i.off, i.width)
    /\ LET p == cregs[i.dst]
           v == Operand(i)
       IN IF p.obj = Frm
            THEN mem' = Stored(Address(p, i.off), i.width, v) /\ UNCHANGED heap
            ELSE heap' = heap \cup (IF IsPointer(v) /\ i.width = DW THEN {v} ELSE {})
                 /\ UNCHANGED mem
    /\ UNCHANGED cregs

CallStep ==
  \E i \in prog.insns :
    /\ Accepted(i, "call")
    /\ st' = Eff(i).fall
    /\ \E v \in CReturn(i.helper) :
         cregs' = [r \in Reg |-> IF r = R0 THEN v ELSE IF r \in 1 .. 5 THEN Garbage ELSE cregs[r]]
    /\ CallBytes(i.helper) \subseteq Slots
    /\ mem' = CCallMem(i.helper)
    /\ UNCHANGED heap

(* Where paths meet: the state is the first one here, or is covered by the *)
(* remembered one, which speaks for it from here on, or at a loop head is  *)
(* widened into it.  The remembered state may be from another path: the    *)
(* walk turns to a deferred branch, and a run takes it from the start.     *)
FirstArrival ==
  /\ prog.meeting # "never"
  /\ seen = <<>>
  /\ seen' = <<st>>
  /\ UNCHANGED <<prog, st, next_id, machine>>

Covered ==
  /\ seen # <<>>
  /\ state_leq(st, seen[1])
  /\ st' = seen[1]
  /\ UNCHANGED <<prog, next_id, seen, machine>>

Widened ==
  /\ prog.meeting = "loop"
  /\ seen # <<>>
  /\ ~state_leq(st, seen[1])
  /\ st' = state_widen(seen[1], st)
  /\ seen' = <<st'>>
  /\ UNCHANGED <<prog, next_id, machine>>

AnotherPath ==
  /\ seen # <<>>
  /\ st' = entry
  /\ cregs' = CEntry
  /\ mem' = [b \in Slots |-> Blank]
  /\ heap' = {}
  /\ UNCHANGED <<prog, next_id, seen>>

Next ==
  \/ AluStep
  \/ Imm64Step
  \/ JmpStep
  \/ LoadStep
  \/ StoreStep
  \/ CallStep
  \/ FirstArrival
  \/ Covered
  \/ Widened
  \/ AnotherPath

Spec == Init /\ [][Next]_vars

-----------------------------------------------------------------------------
(* Registers, stack and ids of the verifier, and the run's own, keep their *)
(* form, and a spill begins in the frame.                                  *)
TypeOK ==
  /\ DOMAIN st.regs = Reg
  /\ st.stack.init \subseteq Slots
  /\ DOMAIN st.stack.spills \subseteq Slots
  /\ next_id \in 0 .. MaxIds
  /\ \A r \in Reg : cregs[r].kind \in {"garbage", "num", "ptr"}
  /\ DOMAIN mem = Slots
  /\ \A v \in heap : IsPointer(v)

(* What a register state says of a value.  A kernel pointer is an opaque   *)
(* word, and no word is claimed for a pointer held as a scalar.            *)
PointsInto(v, kind, off) == IsPointer(v) /\ v.obj.kind = kind /\ v.off = off

DescribesPtr(type, v) ==
  CASE type.kind = "FramePtr"    -> PointsInto(v, "frame", type.off)
    [] type.kind = "CtxPtr"      -> PointsInto(v, "ctx", type.off)
    [] type.kind = "MapValuePtr" -> PointsInto(v, "map", type.off) /\ v.obj.size = type.size
    [] type.kind = "RingBufPtr"  -> PointsInto(v, "ringbuf", type.off) /\ v.obj.size = type.size
    [] type.kind = "DataPtr"     -> IsPointer(v) /\ v.obj = Data
    [] type.kind = "KernelPtr"   -> v # Garbage

Describes(r, v) ==
  CASE r.type.kind = "Uninit"    -> TRUE
    [] r.type.kind = "Null"      -> v = Num(0)
    [] r.type.kind = "PtrOrNull" -> v = Num(0) \/ DescribesPtr(r.type.inner, v)
    [] r.type.kind = "Scalar"    ->
         /\ v # Garbage
         /\ IsNum(v) => KnownBits(r, v.num) /\ UnsignedBounds(r, v.num)
    [] OTHER -> DescribesPtr(r.type, v)

(* Every register holds what its type says, at the very offset the type    *)
(* gives, after any mix of moves, arithmetic, null checks, spills, reloads *)
(* and calls.                                                              *)
TypesHold == \A r \in Reg : Describes(st.regs[r], cregs[r])

WrittenBytes == {b \in Slots : mem[b] # Blank}

(* A spill describes the bytes that are at its place now: no store since   *)
(* has replaced any of them, and null checks made elsewhere hold for it.   *)
SpillsHold ==
  \A off \in DOMAIN st.stack.spills :
    \/ \E v \in Whole(off) : Describes(st.stack.spills[off], v)
    \/ st.stack.spills[off].type = KernelPtr /\ Bytes(off, DW) \subseteq WrittenBytes

(* Every byte that the stack state marks was written in the run, on        *)
(* whichever path it came here: no load that is let through sees leftovers *)
(* of the frame.                                                           *)
InitIsWritten == st.stack.init \subseteq WrittenBytes

(* Along one path the stack state misses no byte that a store or a helper  *)
(* wrote ("Mark those stack bytes as initialised so subsequent loads don't *)
(* trigger false positives", check.rs:660-662).                            *)
WrittenIsInit == prog.meeting = "never" => WrittenBytes \subseteq st.stack.init

StaysInside(p, i) ==
  /\ InObject(p, i.off, i.width)
  /\ i.kind = "ldx" /\ p.obj = Frm => Bytes(Address(p, i.off), i.width) \subseteq WrittenBytes

(* "every load/store must be within the proven bounds of the pointer's     *)
(* backing object" (mod.rs:11-12): an access accepted in the state of the  *)
(* verifier is inside the object that the run's pointer really points      *)
(* into, and in the frame it reads bytes that were written.                *)
AccessesStayInside ==
  \A i \in prog.insns :
    i.kind \in {"ldx", "stx", "st"} /\ Eff(i).err = {} /\ st.regs[Base(i)].type # KernelPtr
      => StaysInside(cregs[Base(i)], i)

(* The nullable pointers of registers and spills, by id. *)
Nullable ==
  {<<st.regs[r].type.id, cregs[r]>> :
     r \in {q \in Reg : st.regs[q].type.kind = "PtrOrNull"}} \cup
  UNION {{<<st.stack.spills[o].type.id, v>> : v \in Whole(o)} :
     o \in {o \in DOMAIN st.stack.spills : st.stack.spills[o].type.kind = "PtrOrNull"}}

(* Null checks reach every alias through the id, which is right only if    *)
(* nullable pointers with one id are null together.                        *)
OneNullPerId ==
  \A a, b \in Nullable : a[1] = b[1] => a[2] = b[2]

(* "pointers cannot be returned in r0 at exit (would leak kernel addresses *)
(* to userspace)" (mod.rs:21-22).                                          *)
NoPointerReturned == check_exit(st.regs) = {} => ~IsPointer(cregs[R0])

-----------------------------------------------------------------------------
(* Where the properties above hold.  Each of them fails on programmes that *)
(* do one of a few things, which have runs or configurations of their own. *)
(* Careful says that none of these is about to be done: of every           *)
(* instruction that the verifier accepts here, and of the states that meet.*)
ExactOps(wide) == IF wide THEN AluOp \ {"Sub"}
                          ELSE {"Add", "Mul", "Or", "And", "Xor", "Lsh", "Neg"}

MovesPointer(i) ==
  is_ptr(st.regs[i.dst].type) \/ (i.op = "Add" /\ is_ptr(SrcReg(st.regs, i).type))

(* Moves to a half keep the value.  Other arithmetic is of two numbers, on *)
(* a path that meets no other, by an operation with a sound tracked number.*)
NumbersAreExact(i) ==
  LET s == SrcReg(st.regs, i) IN
  \/ i.op = "Mov" /\ i.wide
  \/ /\ i.op = "Mov" /\ IsScalar(s) /\ IsNum(Operand(i))
     /\ s.umax <= MaxHalf /\ 0 <= s.smin /\ s.smax <= MaxHalf
  \/ i.op = "Neg"
  \/ i.op # "Mov" /\ MovesPointer(i)
  \/ /\ i.op \notin {"Mov", "Neg"}
     /\ prog.meeting = "never"
     /\ IsNum(cregs[i.dst]) /\ IsNum(Operand(i))
     /\ \/ i.op \in ExactOps(i.wide)
        \/ i.wide /\ ResultTnum(i.op, st.regs[i.dst].tnum, s.tnum) = unknown

(* A pointer into an object is moved by a known number, in 64 bits.        *)
MovedByKnown(p, n, v) ==
  p.type # KernelPtr /\ ~is_ptr(n.type) =>
    IsNum(v) /\ (p.type.kind \in Offsets => is_known(n.tnum))

OffsetsAreKnown(i) ==
  LET d == st.regs[i.dst]
      s == SrcReg(st.regs, i)
  IN CASE i.op \in {"Add", "Sub"} /\ is_ptr(d.type) ->
            MovedByKnown(d, s, Operand(i)) /\ (d.type # KernelPtr /\ ~is_ptr(s.type) => i.wide)
       [] i.op = "Add" /\ ~is_ptr(d.type) /\ is_ptr(s.type) ->
            MovedByKnown(s, d, cregs[i.dst]) /\ (s.type # KernelPtr => i.wide)
       [] OTHER -> TRUE

(* A comparison that teaches something is with a number, not of the lower  *)
(* halves as signed numbers, and a null check is of 64 bits.               *)
ComparesNumbers(i) ==
  LET d == st.regs[i.dst]
      s == SrcReg(st.regs, i)
  IN is_known(s.tnum) =>
       /\ IsNum(Operand(i))
       /\ IsScalar(d) /\ ~i.wide => i.op \notin {"Jsgt", "Jsge", "Jslt", "Jsle"}
       /\ d.type.kind = "PtrOrNull" /\ s.tnum.value = 0 => i.wide

(* What is written at other places than its own overwrites no spill.  (Of  *)
(* a kernel pointer a spill says no more than that there is something.)    *)
SparesSpills(bytes, own) ==
  \A o \in DOMAIN st.stack.spills \ own :
    bytes \cap Bytes(o, DW) # {} => st.stack.spills[o].type = KernelPtr

(* The end of an access, as the bounds checks compute it, is an i64.       *)
InRange(type, off, width) ==
  LET start == (IF type.kind = "FramePtr" THEN STACK_SIZE ELSE 0) + Effective(type, off) IN
  type.kind \in Offsets => start + width <= MaxSigned

EndsInRange(i) == InRange(st.regs[Base(i)].type, i.off, i.width)

StoresAside(i) ==
  LET p == st.regs[i.dst]
      at == Effective(p.type, i.off)
  IN CASE p.type.kind = "FramePtr"  -> SparesSpills(Bytes(at, i.width), {at})
       [] p.type.kind = "KernelPtr" -> IsPointer(cregs[i.dst]) => cregs[i.dst].obj # Frm
       [] OTHER -> TRUE

(* A helper writes to the frame through r1 alone, a number of bytes that   *)
(* is known and fits in a u8; what is reserved has a size that is known.   *)
FillsInFrame(h) == HELPERS[h].args # <<>> /\ HELPERS[h].args[1] = "PtrToMem"
                   /\ st.regs[1].type.kind = "FramePtr"

SizesAreKnown(i) ==
  LET h == i.helper
      r2 == st.regs[2]
  IN /\ Written(h) \subseteq {1}
     /\ FillsInFrame(h) => is_known(r2.tnum) /\ IsNum(cregs[2]) /\ r2.tnum.value < U8
     /\ SparesSpills(CallBytes(h), {})
     /\ HELPERS[h].ret_type = "RingBufPtr" => is_known(r2.tnum)

CarefulInsn(i) ==
  CASE i.kind = "alu"           -> NumbersAreExact(i) /\ OffsetsAreKnown(i)
    [] i.kind = "jmp"           -> ComparesNumbers(i)
    [] i.kind = "ldx"           -> EndsInRange(i)
    [] i.kind \in {"st", "stx"} -> EndsInRange(i) /\ StoresAside(i)
    [] i.kind = "call"          -> SizesAreKnown(i)
    [] OTHER                    -> TRUE

(* The remembered state has no spill that this one has not, too, and is    *)
(* not widened by a register of another type.                              *)
MeetsItsLike ==
  \A k \in DOMAIN seen :
    LET leq == state_leq(st, seen[k]) IN
    /\ leq \/ prog.meeting = "loop" =>
         \A o \in DOMAIN seen[k].stack.spills :
           o \in DOMAIN st.stack.spills /\ st.stack.spills[o].type = seen[k].stack.spills[o].type
    /\ ~leq /\ prog.meeting = "loop" =>
         \A r \in Reg : Uninit \notin {st.regs[r].type, seen[k].regs[r].type}
                          => st.regs[r].type = seen[k].regs[r].type

Careful ==
  /\ \A i \in prog.insns : Eff(i).err = {} => CarefulInsn(i)
  /\ MeetsItsLike
==============================================================================
