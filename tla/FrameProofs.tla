----------------------------- MODULE FrameProofs -----------------------------
(***************************************************************************)
(* Theorems about registers and stack along a path: for all programmes,    *)
(* widths and sizes, and on every run that is Careful, what the verifier   *)
(* says of registers, spills and bytes is true of the machine.  One        *)
(* invariant, Agree, holds of the verifier's state and the machine's; each *)
(* kind of instruction, and each way in which paths meet, keeps it.        *)
(***************************************************************************)
EXTENDS Frame, DomainProofs

(* The registers that may be spilled, and what a null check makes of them: *)
(* pointers, nullable pointers and null.                                   *)
InnerTypes == [kind : {"MapValuePtr", "RingBufPtr"}, id : Nat, off : Int, size : Nat]
PtrTypes   == {KernelPtr} \cup InnerTypes
                \cup [kind : {"FramePtr", "CtxPtr"}, off : Int]
                \cup [kind : {"DataPtr"}, name : {"section"}]
NullTypes  == [kind : {"PtrOrNull"}, inner : InnerTypes, id : Nat]
Held       == {RegOf(t) : t \in PtrTypes \cup NullTypes} \cup {null}

IsReg(r) == WellFormed(r) \/ r \in Held \/ r = uninit

Shaped(s) ==
  /\ s = [regs |-> s.regs, stack |-> [init |-> s.stack.init, spills |-> s.stack.spills]]
  /\ DOMAIN s.regs = Reg /\ s.regs = [r \in Reg |-> s.regs[r]]
  /\ \A r \in Reg : IsReg(s.regs[r])
  /\ is_readable(s.regs[R10])
  /\ s.stack.init \subseteq Slots
  /\ s.stack.spills = [o \in DOMAIN s.stack.spills |-> s.stack.spills[o]]
  /\ \A o \in DOMAIN s.stack.spills : o \in Slots /\ Bytes(o, DW) \subseteq Slots /\ s.stack.spills[o] \in Held

(* What the machine computes with. *)
Objects  == {Frm, Ctx, Kernel, Data} \cup {Object(k, id, size) : k \in {"map", "ringbuf"}, id \in Nat, size \in Nat}
Pointers == {Pointer(obj, off) : obj \in Objects, off \in Int}
Values   == {Num(n) : n \in Word} \cup Pointers
Content  == {Byte(v, k) : v \in Values \cup {Garbage}, k \in Int}

-----------------------------------------------------------------------------
(* Values are numbers or pointers, and objects are told by their kinds.    *)
LEMMA ValueKinds ==
  /\ \A v \in Values : v # Garbage
  /\ \A v \in Values : IsNum(v) => v.num \in Word /\ v = Num(v.num)
  /\ \A v \in Values : ~IsNum(v) => v \in Pointers /\ IsPointer(v)
  /\ \A v \in Pointers : v \in Values /\ IsPointer(v) /\ ~IsNum(v) /\ v.obj \in Objects /\ v.off \in Int
  /\ \A n \in Word : Num(n) \in Values /\ IsNum(Num(n)) /\ Num(n).num = n
  /\ \A obj \in Objects, off \in Int : Pointer(obj, off) \in Pointers
  /\ ~IsNum(Garbage) /\ ~IsPointer(Garbage) /\ \A v : ~(IsNum(v) /\ IsPointer(v))
BY DEF Values, Pointers, Num, Pointer, Garbage, IsNum, IsPointer

LEMMA ObjectKinds ==
  /\ \A o \in Objects : o.kind = "frame" <=> o = Frm
  /\ \A o \in Objects : o.kind = "ctx" <=> o = Ctx
  /\ \A o \in Objects : o.kind \in {"map", "ringbuf"} => o.size \in Nat /\ o \notin {Frm, Ctx, Kernel, Data}
  /\ \A k \in {"map", "ringbuf"} : \A id, size \in Nat :
       Object(k, id, size) \in Objects /\ Object(k, id, size).kind = k /\ Object(k, id, size).size = size
  /\ {Frm, Ctx, Kernel, Data} \subseteq Objects
  /\ Data # Frm /\ Kernel # Frm /\ Ctx # Frm /\ Ctx.size = CTX_SIZE
  /\ Frm.kind = "frame" /\ Ctx.kind = "ctx"
<1>1. /\ Frm.kind = "frame" /\ Ctx.kind = "ctx" /\ Kernel.kind = "kernel" /\ Data.kind = "data"
      /\ Ctx.size = CTX_SIZE
      /\ \A k, id, size : Object(k, id, size).kind = k /\ Object(k, id, size).size = size
  BY DEF Object, Frm, Ctx, Kernel, Data
<1>2. \A o \in Objects :
        o \in {Frm, Ctx, Kernel, Data} \/ (o.kind \in {"map", "ringbuf"} /\ o.size \in Nat)
  <2>1. \A o \in Objects :
          o \in {Frm, Ctx, Kernel, Data}
          \/ \E k \in {"map", "ringbuf"} : \E id, size \in Nat : o = Object(k, id, size)
    BY DEF Objects
  <2>. QED BY <1>1, <2>1
<1>3. \A k \in {"map", "ringbuf"} : \A id, size \in Nat : Object(k, id, size) \in Objects
  BY DEF Objects
<1>4. {Frm, Ctx, Kernel, Data} \subseteq Objects
  BY DEF Objects
<1>. QED BY <1>1, <1>2, <1>3, <1>4

(* The types of what is held. *)
LEMMA HeldTypes ==
  ASSUME NEW q \in Held
  PROVE  /\ q = null \/ (q = RegOf(q.type) /\ q.type \in PtrTypes \cup NullTypes)
         /\ is_readable(q) /\ ~IsScalar(q)
         /\ is_ptr(q.type) <=> q.type \in PtrTypes
         /\ is_ptr(q.type) => q = RegOf(q.type)
         /\ q.type.kind = "PtrOrNull" => q = RegOf(q.type) /\ q.type.inner \in InnerTypes /\ q.type.id \in Nat
         /\ q.type.kind = "Null" <=> q = null
         /\ \A p \in Held : p.type = q.type => p = q
<1>1. /\ null.type = Null
      /\ \A t : RegOf(t).type = t
  BY DEF null, RegOf, scalar_value
<1>2. \A p \in Held : p = null \/ (p = RegOf(p.type) /\ p.type \in PtrTypes \cup NullTypes)
  BY <1>1 DEF Held
<1>3. /\ \A t \in PtrTypes : is_ptr(t) /\ t.kind # "Uninit" /\ t.kind # "Scalar" /\ t.kind # "PtrOrNull" /\ t.kind # "Null"
      /\ \A t \in NullTypes : ~is_ptr(t) /\ t.kind = "PtrOrNull" /\ t.inner \in InnerTypes /\ t.id \in Nat
      /\ Null.kind = "Null" /\ ~is_ptr(Null)
  BY DEF PtrTypes, NullTypes, InnerTypes, KernelPtr, is_ptr, Null
<1>4. \A p \in Held : p.type = Null <=> p = null
  BY <1>1, <1>2, <1>3
<1>5. \A p \in Held : p.type = q.type => p = q
  BY <1>2, <1>4
<1>. QED BY <1>1, <1>2, <1>3, <1>4, <1>5 DEF is_readable, IsScalar

(* A register is a scalar, unwritten, or of the held ones. *)
LEMMA RegKinds ==
  ASSUME NEW r, IsReg(r)
  PROVE  /\ IsScalar(r) <=> WellFormed(r)
         /\ r.type.kind \notin {"Scalar", "Uninit"} => r \in Held
         /\ ~is_readable(r) <=> r = uninit
         /\ is_ptr(r.type) \/ r.type.kind = "PtrOrNull" => r \in Held
         /\ IsScalar(r) => r.type = Scalar
<1>1. WellFormed(r) => r.type = Scalar
  BY DEF WellFormed
<1>2. uninit.type = Uninit
  BY DEF uninit, RegOf
<1>3. Scalar.kind = "Scalar" /\ Uninit.kind = "Uninit" /\ ~is_ptr(Scalar) /\ ~is_ptr(Uninit)
  BY DEF Scalar, Uninit, is_ptr
<1>4. r \in Held => is_readable(r) /\ ~IsScalar(r)
  BY HeldTypes
<1>. QED BY <1>1, <1>2, <1>3, <1>4 DEF IsReg, IsScalar, is_readable

-----------------------------------------------------------------------------
(* What a register says of a value, with what makes it inductive: the      *)
(* signed bounds, as far as they are right.  Where paths meet they have to *)
(* be right as they stand.                                                 *)
Tells(meeting, r, v) ==
  /\ Describes(r, v)
  /\ IsScalar(r) /\ IsNum(v) =>
       Sound(r, v.num) /\ (meeting # "never" => SignedBounds(r, v.num))

(* The bytes m hold all of v at off.                                       *)
Lies(m, off, v) == v # Garbage /\ \A k \in 0 .. DW - 1 : m[off + k] = Byte(v, k)

WrittenIn(m) == {b \in Slots : m[b] # Blank}

SpillTells(m, q, off) ==
  \/ \E v \in Values : Lies(m, off, v) /\ Describes(q, v)
  \/ q.type = KernelPtr /\ Bytes(off, DW) \subseteq WrittenIn(m)

(* v is in a register or a spill that has the nullable pointer id. *)
HasId(q, id) == q.type.kind = "PtrOrNull" /\ q.type.id = id
Names(s, c, m, id, v) ==
  \/ \E r \in Reg : HasId(s.regs[r], id) /\ v = c[r]
  \/ \E o \in DOMAIN s.stack.spills : HasId(s.stack.spills[o], id) /\ Lies(m, o, v)

(* The state s of the verifier, which has drawn the ids below n, and       *)
(* registers c and bytes m of the machine.                                 *)
Agree(meeting, s, n, c, m) ==
  /\ Shaped(s) /\ n \in Nat
  /\ DOMAIN c = Reg /\ c = [r \in Reg |-> c[r]] /\ \A r \in Reg : c[r] \in Values \cup {Garbage}
  /\ DOMAIN m = Slots /\ \A b \in Slots : m[b] \in Content
  /\ \A r \in Reg : Tells(meeting, s.regs[r], c[r])
  /\ \A o \in DOMAIN s.stack.spills : SpillTells(m, s.stack.spills[o], o)
  /\ s.stack.init \subseteq WrittenIn(m)
  /\ meeting = "never" => WrittenIn(m) \subseteq s.stack.init
  /\ \A id, v, w : Names(s, c, m, id, v) /\ Names(s, c, m, id, w) => v = w
  /\ \A id, v : Names(s, c, m, id, v) => id < n

(* What a pointer type says of a value. *)
LEMMA PtrSays ==
  ASSUME NEW t \in PtrTypes, NEW v \in Values \cup {Garbage}
  PROVE  /\ DescribesPtr(t, v) => v \in Values
         /\ t = KernelPtr => (DescribesPtr(t, v) <=> v \in Values)
         /\ t # KernelPtr => (DescribesPtr(t, v) => v \in Pointers)
         /\ t.kind = "KernelPtr" <=> t = KernelPtr
         /\ t.kind = "FramePtr" => t.off \in Int /\ (DescribesPtr(t, v) <=> v \in Pointers /\ v.obj = Frm /\ v.off = t.off)
         /\ t.kind = "CtxPtr" => t.off \in Int /\ (DescribesPtr(t, v) <=> v \in Pointers /\ v.obj = Ctx /\ v.off = t.off)
         /\ t.kind = "DataPtr" => (DescribesPtr(t, v) <=> v \in Pointers /\ v.obj = Data)
         /\ t.kind \in {"MapValuePtr", "RingBufPtr"} =>
              /\ t.off \in Int /\ t.size \in Nat
              /\ DescribesPtr(t, v) <=>
                   /\ v \in Pointers /\ v.off = t.off /\ v.obj.size = t.size
                   /\ v.obj.kind = IF t.kind = "MapValuePtr" THEN "map" ELSE "ringbuf"
<1>1. IsPointer(v) <=> v \in Pointers
  BY ValueKinds
<1>2. v # Garbage <=> v \in Values
  BY ValueKinds
<1>3. v \in Pointers => (v.obj.kind = "frame" <=> v.obj = Frm) /\ (v.obj.kind = "ctx" <=> v.obj = Ctx)
  BY ValueKinds, ObjectKinds
<1>4. v \in Pointers => v \in Values
  BY ValueKinds
<1>5. CASE t = KernelPtr
  <2>1. t.kind = "KernelPtr"
    BY <1>5 DEF KernelPtr
  <2>. QED BY <1>2, <1>5, <2>1 DEF DescribesPtr
<1>6. CASE t \in InnerTypes
  <2>1. t.kind \in {"MapValuePtr", "RingBufPtr"} /\ t.off \in Int /\ t.size \in Nat /\ t # KernelPtr
    BY <1>6 DEF InnerTypes, KernelPtr
  <2>2. CASE t.kind = "MapValuePtr"
    BY <1>1, <1>4, <2>1, <2>2 DEF DescribesPtr, PointsInto
  <2>3. CASE t.kind = "RingBufPtr"
    BY <1>1, <1>4, <2>1, <2>3 DEF DescribesPtr, PointsInto
  <2>. QED BY <2>1, <2>2, <2>3
<1>7. CASE t \in [kind : {"FramePtr", "CtxPtr"}, off : Int]
  <2>1. t.kind \in {"FramePtr", "CtxPtr"} /\ t.off \in Int /\ t # KernelPtr
    BY <1>7 DEF KernelPtr
  <2>2. CASE t.kind = "FramePtr"
    BY <1>1, <1>3, <1>4, <2>1, <2>2 DEF DescribesPtr, PointsInto
  <2>3. CASE t.kind = "CtxPtr"
    BY <1>1, <1>3, <1>4, <2>1, <2>3 DEF DescribesPtr, PointsInto
  <2>. QED BY <2>1, <2>2, <2>3
<1>8. CASE t \in [kind : {"DataPtr"}, name : {"section"}]
  <2>1. t.kind = "DataPtr" /\ t # KernelPtr
    BY <1>8 DEF KernelPtr
  <2>. QED BY <1>1, <1>4, <2>1 DEF DescribesPtr
<1>. QED BY <1>5, <1>6, <1>7, <1>8 DEF PtrTypes

(* What the held registers say of a value. *)
LEMMA HeldSays ==
  ASSUME NEW q \in Held, NEW v \in Values \cup {Garbage}
  PROVE  /\ q = null => (Describes(q, v) <=> v = Num(0))
         /\ is_ptr(q.type) => (Describes(q, v) <=> DescribesPtr(q.type, v))
         /\ q.type.kind = "PtrOrNull" => (Describes(q, v) <=> v = Num(0) \/ DescribesPtr(q.type.inner, v))
         /\ Describes(q, v) => v \in Values
         /\ \A meeting : Tells(meeting, q, v) <=> Describes(q, v)
<1>1. q = null => q.type.kind = "Null"
  BY HeldTypes
<1>2. q = null => (Describes(q, v) <=> v = Num(0))
  BY <1>1 DEF Describes
<1>3. is_ptr(q.type) => (Describes(q, v) <=> DescribesPtr(q.type, v))
  BY DEF Describes, is_ptr
<1>4. q.type.kind = "PtrOrNull" => (Describes(q, v) <=> v = Num(0) \/ DescribesPtr(q.type.inner, v))
  BY DEF Describes
<1>5. InnerTypes \subseteq PtrTypes
  BY DEF PtrTypes
<1>6. Num(0) \in Values
  BY ValueKinds, WordFacts
<1>7. q = null \/ q.type \in PtrTypes \/ q.type \in NullTypes
  BY HeldTypes
<1>8. q.type \in NullTypes => q.type.kind = "PtrOrNull" /\ q.type.inner \in InnerTypes
  BY DEF NullTypes
<1>9. Describes(q, v) => v \in Values
  BY <1>2, <1>3, <1>4, <1>5, <1>6, <1>7, <1>8, PtrSays, HeldTypes
<1>. QED BY <1>2, <1>3, <1>4, <1>9, HeldTypes DEF Tells

(* A readable register tells of no garbage. *)
LEMMA ReadableValue ==
  ASSUME NEW meeting, NEW r, IsReg(r), is_readable(r), NEW v \in Values \cup {Garbage}, Tells(meeting, r, v)
  PROVE  v \in Values
<1>1. CASE r \in Held
  BY <1>1, HeldSays
<1>2. CASE IsScalar(r)
  BY <1>2 DEF Tells, Describes, IsScalar
<1>. QED BY <1>1, <1>2, RegKinds DEF IsReg

(* What is known of a number is the number. *)
LEMMA KnownNumber ==
  ASSUME NEW meeting, NEW r, IsReg(r), NEW v \in Values \cup {Garbage}, Tells(meeting, r, v),
         is_known(r.tnum), IsNum(v)
  PROVE  v = Num(r.tnum.value) /\ r.tnum.value \in Word
<1>1. 0 \in Word /\ MaxWord # 0
  <2>1. HalfBits < WordBits /\ HalfBits \in Nat \ {0} /\ WordBits - 1 \in Nat
    BY WidthAssumption
  <2>2. 2^WordBits = 2 * 2^(WordBits - 1) /\ 2^(WordBits - 1) \in Nat \ {0}
    BY SignedFacts
  <2>. QED BY <2>2, WordFacts DEF MaxWord
<1>2. unknown.mask # 0
  BY <1>1 DEF unknown
<1>3. CASE r = null
  <2>1. r.tnum.value = 0 /\ r \in Held
    BY <1>3 DEF null, scalar_value, constant, Held
  <2>. QED BY <1>1, <1>3, <2>1, HeldSays DEF Tells
<1>4. CASE \E t : r = RegOf(t)
  BY <1>2, <1>4 DEF RegOf, is_known
<1>5. CASE WellFormed(r)
  <2>1. IsScalar(r) /\ v.num \in Word /\ v = Num(v.num) /\ IsTnum(r.tnum)
    BY <1>5, RegKinds, ValueKinds, Fields
  <2>2. InTnum(v.num, r.tnum) /\ r.tnum.value \in Word /\ r.tnum.mask = 0
    BY <2>1 DEF Tells, Describes, IsScalar, KnownBits, IsTnum, is_known
  <2>3. v.num = r.tnum.value
    BY <1>1, <2>1, <2>2, EqualWords, ZeroOff, InTnumOn
  <2>. QED BY <2>1, <2>2, <2>3
<1>. QED BY <1>3, <1>4, <1>5, HeldTypes DEF IsReg, uninit

(* A made scalar tells of any value, and a constant of its number.         *)
LEMMA MadeTell ==
  ASSUME NEW meeting
  PROVE  /\ IsReg(scalar_unknown) /\ is_readable(scalar_unknown)
         /\ \A v \in Values : Tells(meeting, scalar_unknown, v)
         /\ kernel_ptr \in Held /\ kernel_ptr.type = KernelPtr /\ \A v \in Values : Tells(meeting, kernel_ptr, v)
         /\ \A n \in Word : /\ IsReg(scalar_value(n)) /\ is_readable(scalar_value(n))
                            /\ Tells(meeting, scalar_value(n), Num(n))
         /\ IsReg(uninit) /\ \A v : Tells(meeting, uninit, v)
         /\ null \in Held
<1>1. IsReg(scalar_unknown) /\ scalar_unknown.type = Scalar /\ scalar_unknown.type.kind = "Scalar"
  BY UnknownScalar DEF IsReg, scalar_unknown, RegOf, Scalar
<1>2. ASSUME NEW r, WellFormed(r), NEW v \in Values,
             IsNum(v) => Sound(r, v.num) /\ SignedBounds(r, v.num)
      PROVE  Tells(meeting, r, v)
  <2>1. r.type.kind = "Scalar" /\ IsScalar(r)
    BY <1>2 DEF WellFormed, Scalar, IsScalar
  <2>2. v # Garbage
    BY ValueKinds
  <2>. QED BY <1>2, <2>1, <2>2 DEF Tells, Describes, Sound
<1>3. \A v \in Values : Tells(meeting, scalar_unknown, v)
  BY <1>2, UnknownScalar, ValueKinds
<1>4. kernel_ptr \in Held /\ kernel_ptr.type = KernelPtr
  BY DEF kernel_ptr, Held, PtrTypes, RegOf
<1>5. is_ptr(KernelPtr)
  BY DEF is_ptr, KernelPtr
<1>6. \A v \in Values : Tells(meeting, kernel_ptr, v)
  BY <1>4, <1>5, HeldSays, PtrSays DEF PtrTypes
<1>7. \A n \in Word : /\ IsReg(scalar_value(n)) /\ is_readable(scalar_value(n))
                      /\ Tells(meeting, scalar_value(n), Num(n))
  <2>. SUFFICES ASSUME NEW n \in Word
                PROVE  IsReg(scalar_value(n)) /\ is_readable(scalar_value(n)) /\ Tells(meeting, scalar_value(n), Num(n))
    OBVIOUS
  <2>1. WellFormed(scalar_value(n)) /\ Sound(scalar_value(n), n) /\ SignedBounds(scalar_value(n), n)
    BY ScalarValueKeeps
  <2>2. Num(n) \in Values /\ Num(n).num = n
    BY ValueKinds
  <2>3. is_readable(scalar_value(n))
    BY DEF is_readable, scalar_value, Scalar
  <2>. QED BY <1>2, <2>1, <2>2, <2>3 DEF IsReg
<1>8. IsReg(uninit) /\ \A v : Tells(meeting, uninit, v)
  BY DEF IsReg, Tells, Describes, uninit, RegOf, Uninit, IsScalar
<1>9. null \in Held
  BY DEF Held
<1>. QED BY <1>1, <1>3, <1>4, <1>6, <1>7, <1>8, <1>9 DEF is_readable

(* One register is set to q and holds v from here on. *)
LEMMA SetRegister ==
  ASSUME NEW meeting, NEW s, NEW n, NEW c, NEW m, Agree(meeting, s, n, c, m),
         NEW x \in Reg, NEW q, IsReg(q), is_readable(q), NEW v \in Values, Tells(meeting, q, v),
         \A id : HasId(q, id) => Names(s, c, m, id, v)
  PROVE  Agree(meeting, [s EXCEPT !.regs[x] = q], n, [c EXCEPT ![x] = v], m)
<1>. DEFINE t == [s EXCEPT !.regs[x] = q]
            d == [c EXCEPT ![x] = v]
<1>1. Shaped(s) /\ DOMAIN c = Reg /\ c = [r \in Reg |-> c[r]]
  BY DEF Agree
<1>2. /\ t = [regs |-> t.regs, stack |-> s.stack] /\ t.stack = s.stack
      /\ DOMAIN t.regs = Reg /\ t.regs = [r \in Reg |-> t.regs[r]]
      /\ t.regs[x] = q /\ \A r \in Reg \ {x} : t.regs[r] = s.regs[r]
  BY <1>1 DEF Shaped
<1>3. /\ DOMAIN d = Reg /\ d = [r \in Reg |-> d[r]]
      /\ d[x] = v /\ \A r \in Reg \ {x} : d[r] = c[r]
  BY <1>1
<1>. HIDE DEF t, d
<1>4. s = [regs |-> s.regs, stack |-> s.stack] /\ s.stack = [init |-> s.stack.init, spills |-> s.stack.spills]
  BY <1>1 DEF Shaped
<1>5. Shaped(t)
  <2>1. \A r \in Reg : IsReg(t.regs[r])
    BY <1>1, <1>2 DEF Shaped
  <2>2. is_readable(t.regs[R10])
    BY <1>1, <1>2 DEF Shaped, Reg, R10
  <2>3. t = [regs |-> t.regs, stack |-> [init |-> t.stack.init, spills |-> t.stack.spills]]
    BY <1>2, <1>4
  <2>. QED BY <1>1, <1>2, <2>1, <2>2, <2>3 DEF Shaped
<1>6. \A id, w : Names(t, d, m, id, w) => Names(s, c, m, id, w)
  BY <1>2, <1>3 DEF Names
<1>7. \A r \in Reg : Tells(meeting, t.regs[r], d[r]) /\ d[r] \in Values \cup {Garbage}
  BY <1>2, <1>3 DEF Agree
<1>. QED BY <1>2, <1>3, <1>5, <1>6, <1>7 DEF Agree, t, d

-----------------------------------------------------------------------------
(* Arithmetic. *)
Agreed == Agree(prog.meeting, st, next_id, cregs, mem)

(* An instruction that is let through reads what is readable. *)
LEMMA ReadsReadable ==
  ASSUME NEW regs, is_readable(regs[R10]), NEW i, ReadErrors(regs, i) = {}
  PROVE  \A r \in Reads(i) : is_readable(regs[r])
<1>1. \A r \in Reads(i) : check_reg_readable(regs, r) = {}
  BY DEF ReadErrors
<1>. QED BY <1>1 DEF check_reg_readable

(* The operand, for the verifier and for the machine. *)
LEMMA OperandTells ==
  ASSUME Agreed, NEW i \in Instructions,
         i.src # Imm => is_readable(st.regs[i.src])
  PROVE  LET s == SrcReg(st.regs, i) IN
         /\ IsReg(s) /\ is_readable(s) /\ Operand(i) \in Values /\ Tells(prog.meeting, s, Operand(i))
         /\ \A id : HasId(s, id) => i.src # Imm /\ Names(st, cregs, mem, id, Operand(i))
<1>1. i.imm \in Int /\ (i.src # Imm => i.src \in Reg)
  BY DEF Instructions
<1>2. CASE i.src = Imm
  <2>1. Wrap(i.imm) \in Word
    BY <1>1, WrapIsWord
  <2>2. ImmWord(i) \in Word
    BY <2>1, LowIsWord, WordInt DEF ImmWord
  <2>3. SrcReg(st.regs, i) = scalar_value(ImmWord(i)) /\ Operand(i) = Num(ImmWord(i))
    BY <1>2 DEF SrcReg, Operand
  <2>4. Num(ImmWord(i)) \in Values /\ IsReg(scalar_value(ImmWord(i))) /\ is_readable(scalar_value(ImmWord(i)))
        /\ Tells(prog.meeting, scalar_value(ImmWord(i)), Num(ImmWord(i)))
    BY <2>2, MadeTell, ValueKinds
  <2>5. \A id : ~HasId(scalar_value(ImmWord(i)), id)
    BY DEF HasId, scalar_value, Scalar
  <2>. QED BY <2>3, <2>4, <2>5
<1>3. CASE i.src # Imm
  <2>. DEFINE r == i.src
  <2>1. r \in Reg /\ SrcReg(st.regs, i) = st.regs[r] /\ Operand(i) = cregs[r]
    BY <1>1, <1>3 DEF SrcReg, Operand
  <2>2. IsReg(st.regs[r]) /\ cregs[r] \in Values \cup {Garbage} /\ Tells(prog.meeting, st.regs[r], cregs[r])
    BY <2>1 DEF Agreed, Agree, Shaped
  <2>3. cregs[r] \in Values
    BY <1>3, <2>2, ReadableValue
  <2>4. \A id : HasId(st.regs[r], id) => Names(st, cregs, mem, id, cregs[r])
    BY <2>1 DEF Names
  <2>. QED BY <1>3, <2>1, <2>2, <2>3, <2>4
<1>. QED BY <1>2, <1>3

(* Numbers that the machine finds, and pointers that it moves.             *)
LEMMA FoundNumbers == AnyNum \subseteq Values /\ LowNum \subseteq Values
<1>1. \A n \in Unknown : n \in Word /\ Low(n) \in Word
  BY UnknownAssumption, LowIsWord, WordInt
<1>. QED BY <1>1, ValueKinds DEF AnyNum, LowNum

LEMMA WrapSignedInt == \A n \in Int : WrapSigned(n) \in Int
BY WrapIsWord, SignedOfWord DEF WrapSigned, SignedWord

(* An i64 is its own wrapped sum. *)
LEMMA WrapSignedSame == \A n \in Int : n \in SignedWord => WrapSigned(n) = n
BY WrapOfSigned, SignedOfWord, SignedFacts DEF WrapSigned

LEMMA WrapSignedRange == \A n \in Int : WrapSigned(n) \in SignedWord
BY WrapIsWord, SignedOfWord DEF WrapSigned

LEMMA ShiftedPointer ==
  ASSUME NEW p \in Pointers, NEW n \in Int, NEW v \in Shifted(p, n)
  PROVE  v \in Pointers /\ v \in Values /\ v.obj = p.obj /\ v.off = WrapSigned(p.off + n)
<1>1. p.obj \in Objects /\ p.off \in Int /\ p = Pointer(p.obj, p.off)
  BY DEF Pointers, Pointer
<1>2. p.off + n \in Int
  BY <1>1
<1>3. v = [p EXCEPT !.off = WrapSigned(p.off + n)]
  BY DEF Shifted
<1>4. v = Pointer(p.obj, WrapSigned(p.off + n))
  BY <1>1, <1>3 DEF Pointer
<1>5. WrapSigned(p.off + n) \in Int
  BY <1>2, WrapSignedInt
<1>. QED BY <1>1, <1>4, <1>5, ValueKinds DEF Pointer

(* What arithmetic leaves in a register of the machine. *)
LEMMA ComputedValue ==
  ASSUME NEW i \in Instructions, i.kind = "alu", NEW d, NEW s \in Values, i.op # "Mov" => d \in Values,
         NEW v \in CAlu(i, d, s)
  PROVE  v \in Values
<1>1. i.op \in AluOp /\ i.wide \in BOOLEAN
  BY DEF Instructions, AluOpcode, AluOp
<1>2. CASE i.op = "Mov"
  <2>1. IsNum(s) => Num(Low(s.num)) \in Values
    BY ValueKinds, LowIsWord, WordInt
  <2>. QED BY <1>1, <1>2, <2>1, FoundNumbers DEF CAlu
<1>3. CASE i.op # "Mov" /\ IsNum(d) /\ IsNum(s)
  <2>1. d.num \in Word /\ s.num \in Word
    BY <1>3, ValueKinds
  <2>2. alu(i.op, i.wide, d.num, s.num) \in Word
    BY <1>1, <2>1, AluIsWord
  <2>3. CAlu(i, d, s) = {Num(alu(i.op, i.wide, d.num, s.num))}
    BY <1>3 DEF CAlu, IsNum, IsPointer
  <2>. QED BY <2>2, <2>3, ValueKinds
<1>4. CASE i.op # "Mov" /\ ~(IsNum(d) /\ IsNum(s))
  <2>. DEFINE a == Signed(s.num)
              b == Signed(d.num)
  <2>1. (IsNum(s) => a \in Int /\ -a \in Int) /\ (IsNum(d) => b \in Int)
    BY <1>4, ValueKinds, SignedOfWord DEF SignedWord
  <2>2. \/ v \in AnyNum \cup LowNum
        \/ IsPointer(d) /\ IsNum(s) /\ (v \in Shifted(d, a) \/ v \in Shifted(d, -a))
        \/ IsPointer(s) /\ IsNum(d) /\ v \in Shifted(s, b)
    BY <1>4 DEF CAlu
  <2>3. (IsPointer(d) => d \in Pointers) /\ (IsPointer(s) => s \in Pointers)
    BY <1>4, ValueKinds
  <2>. HIDE DEF a, b
  <2>. QED BY <2>1, <2>2, <2>3, FoundNumbers, ShiftedPointer
<1>. QED BY <1>2, <1>3, <1>4

(* A 32-bit move of a number that fits in a half, by all that is known,    *)
(* leaves the number and what is known of it.                              *)
LEMMA HalfMove ==
  ASSUME NEW s, WellFormed(s), s.umax <= MaxHalf, 0 <= s.smin, s.smax <= MaxHalf,
         NEW w \in Word, Sound(s, w)
  PROVE  /\ WellFormed(MovLow(s)) /\ Low(w) = w
         /\ Sound(MovLow(s), w) /\ (SignedBounds(s, w) => SignedBounds(MovLow(s), w))
<1>1. Low(w) = w
  BY FitsLow DEF FitsHalf
<1>2. WellFormed(MovLow(s))
  BY MovLowForm
<1>3. MaxHalf \in Int /\ s.umax \in Int /\ s.smin \in Int /\ s.smax \in Int /\ s.type = Scalar /\ IsTnum(s.tnum)
  BY MaxHalfRange, Fields
<1>4. Lesser(s.umax, MaxHalf) = s.umax /\ Greater(s.smin, 0) = s.smin /\ Lesser(s.smax, MaxHalf) = s.smax
  BY <1>3 DEF Lesser, Greater
<1>5. /\ MovLow(s).umin = s.umin /\ MovLow(s).umax = s.umax
      /\ MovLow(s).smin = s.smin /\ MovLow(s).smax = s.smax
      /\ MovLow(s).tnum = trunc32(s.tnum)
  BY <1>4 DEF MovLow, WellFormed
<1>6. InTnum(w, trunc32(s.tnum))
  <2>1. InTnum(Low(w), trunc32(s.tnum))
    BY <1>3, TnumLow DEF Sound, KnownBits
  <2>. QED BY <1>1, <2>1
<1>. QED BY <1>1, <1>2, <1>5, <1>6 DEF Sound, KnownBits, UnsignedBounds, SignedBounds, WrappedBounds

(* Every readable register is, in arithmetic, a scalar. *)
AsScalar(r) == [r EXCEPT !.type = Scalar]

LEMMA TakenForScalar ==
  ASSUME NEW meeting, NEW r, IsReg(r), is_readable(r)
  PROVE  /\ WellFormed(AsScalar(r))
         /\ AsScalar(r).tnum = r.tnum /\ AsScalar(r).umin = r.umin /\ AsScalar(r).umax = r.umax
         /\ AsScalar(r).type = Scalar
         /\ \A w \in Word : Tells(meeting, r, Num(w)) => Sound(AsScalar(r), w)
<1>1. CASE WellFormed(r)
  <2>1. IsScalar(r) /\ r.type = Scalar
    BY <1>1, RegKinds
  <2>2. AsScalar(r) = r
    BY <1>1, <2>1 DEF AsScalar, WellFormed
  <2>3. \A w \in Word : IsNum(Num(w)) /\ Num(w).num = w
    BY ValueKinds
  <2>. QED BY <1>1, <2>1, <2>2, <2>3 DEF Tells
<1>2. CASE r = null
  <2>. DEFINE z == scalar_value(0)
  <2>0. z = [type |-> Scalar, tnum |-> z.tnum, smin |-> z.smin, smax |-> z.smax, umin |-> z.umin, umax |-> z.umax]
    BY DEF scalar_value
  <2>1. AsScalar(r) = z /\ AsScalar(r).tnum = r.tnum
        /\ AsScalar(r).umin = r.umin /\ AsScalar(r).umax = r.umax /\ AsScalar(r).type = Scalar
    <3>1. r = [z EXCEPT !.type = Null]
      BY <1>2 DEF null
    <3>. HIDE DEF z
    <3>2. r = [type |-> Null, tnum |-> z.tnum, smin |-> z.smin, smax |-> z.smax, umin |-> z.umin, umax |-> z.umax]
      BY <2>0, <3>1
    <3>3. AsScalar(r) = [type |-> Scalar, tnum |-> z.tnum, smin |-> z.smin, smax |-> z.smax, umin |-> z.umin, umax |-> z.umax]
      BY <3>2 DEF AsScalar
    <3>. QED BY <2>0, <3>2, <3>3
  <2>2. 0 \in Word
    BY WordFacts
  <2>3. ASSUME NEW w \in Word, Tells(meeting, r, Num(w)) PROVE w = 0
    <3>1. Num(w) = Num(0)
      BY <1>2, <2>3, HeldSays, MadeTell, ValueKinds
    <3>. QED BY <3>1 DEF Num
  <2>. QED BY <2>1, <2>2, <2>3, ScalarValueKeeps
<1>3. CASE \E t : r = RegOf(t)
  <2>1. AsScalar(r) = scalar_unknown /\ AsScalar(r).tnum = r.tnum
        /\ AsScalar(r).umin = r.umin /\ AsScalar(r).umax = r.umax /\ AsScalar(r).type = Scalar
    BY <1>3 DEF AsScalar, scalar_unknown, RegOf
  <2>. QED BY <2>1, UnknownScalar
<1>. QED BY <1>1, <1>2, <1>3, HeldTypes, RegKinds DEF IsReg

(* check_alu on two numbers. *)
LEMMA NumberArithmetic ==
  ASSUME NEW meeting, NEW op \in AluOp \ {"Mov", "Neg"}, NEW wide \in BOOLEAN,
         NEW d, IsReg(d), is_readable(d), NEW s, IsReg(s), is_readable(s),
         ~is_ptr(d.type), ~(op = "Add" /\ is_ptr(s.type)), check_alu(op, wide, d, s).err = {},
         NEW x \in Word, Tells(meeting, d, Num(x)), NEW y \in Word, Tells(meeting, s, Num(y)),
         op \in ExactOps(wide) \/ (wide /\ ResultTnum(op, d.tnum, s.tnum) = unknown)
  PROVE  WellFormed(check_alu(op, wide, d, s).reg) /\ Sound(check_alu(op, wide, d, s).reg, alu(op, wide, x, y))
<1>. DEFINE a == AsScalar(d)
            b == AsScalar(s)
<1>1. /\ WellFormed(a) /\ a.tnum = d.tnum /\ Sound(a, x) /\ a.type = Scalar
      /\ WellFormed(b) /\ b.tnum = s.tnum /\ b.umin = s.umin /\ b.umax = s.umax /\ Sound(b, y) /\ b.type = Scalar
  BY TakenForScalar
<1>2. ~is_ptr(Scalar)
  BY DEF is_ptr, Scalar
<1>. HIDE DEF a, b
<1>3. ScalarAlu(op, wide, a, b) = ScalarAlu(op, wide, d, s)
  BY <1>1 DEF ScalarAlu
<1>4. /\ check_alu(op, wide, d, s).err = {} => check_alu(op, wide, d, s) = Becomes(ScalarAlu(op, wide, d, s))
      /\ check_alu(op, wide, a, b).err = check_alu(op, wide, d, s).err
  BY <1>1, <1>2 DEF check_alu, Becomes, Rejected
<1>5. check_alu(op, wide, a, b) = Becomes(ScalarAlu(op, wide, d, s))
  BY <1>1, <1>2, <1>3, <1>4 DEF check_alu, Becomes, Rejected
<1>6. check_alu(op, wide, d, s).reg = ScalarAlu(op, wide, d, s) /\ check_alu(op, wide, a, b).reg = ScalarAlu(op, wide, d, s)
  BY <1>4, <1>5 DEF Becomes
<1>7. WellFormed(ScalarAlu(op, wide, d, s))
  <2>1. WellFormed(check_alu(op, wide, a, b).reg)
    BY <1>1, <1>4, AluForm
  <2>. QED BY <1>6, <2>1
<1>8. CASE op \in ExactOps(wide)
  <2>1. op \in IF wide THEN Sound64 ELSE Sound32
    BY <1>8 DEF ExactOps, Sound64, Sound32
  <2>2. Sound(check_alu(op, wide, a, b).reg, alu(op, wide, x, y))
    BY <1>1, <1>4, <2>1, AluSound
  <2>. QED BY <1>6, <1>7, <2>2
<1>9. CASE wide /\ ResultTnum(op, d.tnum, s.tnum) = unknown
  <2>1. ScalarAlu(op, wide, d, s) = FromTnum(unknown)
    BY <1>9 DEF ScalarAlu
  <2>2. alu(op, wide, x, y) \in Word
    BY AluIsWord
  <2>3. Sound(FromTnum(unknown), alu(op, wide, x, y))
    BY <2>2, FromTnumKeeps, UnknownTnum
  <2>. QED BY <1>6, <1>7, <2>1, <2>3
<1>. QED BY <1>8, <1>9

(* A pointer is moved by the verifier as by the machine. *)
LEMMA DisplacedTells ==
  ASSUME NEW t \in PtrTypes, t # KernelPtr, NEW p \in Values, DescribesPtr(t, p),
         NEW sign \in {1, -1}, NEW n, NEW w \in Word, t.kind \in Offsets => is_known(n) /\ n.value = w,
         NEW v \in Shifted(p, sign * Signed(w))
  PROVE  LET q == Displaced(t, sign, n) IN q \in Held /\ is_ptr(q.type) /\ Describes(q, v)
<1>. DEFINE k == sign * Signed(w)
            q == Displaced(t, sign, n)
<1>1. k \in Int
  BY SignedOfWord DEF SignedWord
<1>2. p \in Pointers
  BY PtrSays
<1>. HIDE DEF k
<1>3. v \in Pointers /\ v \in Values /\ v.obj = p.obj /\ v.off = WrapSigned(p.off + k) /\ v.off \in Int
  BY <1>1, <1>2, ShiftedPointer, ValueKinds DEF k
<1>. SUFFICES ASSUME NEW u \in PtrTypes, q = RegOf(u), DescribesPtr(u, v)
              PROVE  q \in Held /\ is_ptr(q.type) /\ Describes(q, v)
  <2>1. CASE t.kind \notin Offsets
    <3>1. q = RegOf(t)
      BY <2>1 DEF Displaced, Moved, Rebased
    <3>2. t.kind = "DataPtr"
      BY <2>1 DEF PtrTypes, InnerTypes, Offsets
    <3>3. DescribesPtr(t, v)
      BY <1>3, <3>2, PtrSays
    <3>. QED BY <3>1, <3>3
  <2>2. CASE t.kind \in Offsets
    <3>. DEFINE u == [t EXCEPT !.off = WrapSigned(t.off + k)]
    <3>1. q = RegOf(u)
      <4>1. is_known(n) /\ n.value = w
        BY <2>2
      <4>2. Moved(t, k) = u
        BY <2>2 DEF Moved, Offsets
      <4>3. q = RegOf(Moved(t, k))
        BY <4>1 DEF Displaced, k
      <4>. QED BY <4>2, <4>3
    <3>2. p.off = t.off
      BY <2>2, PtrSays DEF Offsets
    <3>3. v.off = WrapSigned(t.off + k) /\ WrapSigned(t.off + k) \in Int
      BY <1>3, <3>2
    <3>4. /\ u \in PtrTypes /\ u.kind = t.kind /\ u.off = v.off
          /\ t.kind \in {"MapValuePtr", "RingBufPtr"} => u.size = t.size
      BY <2>2, <3>3 DEF PtrTypes, InnerTypes, Offsets, KernelPtr
    <3>. HIDE DEF u
    <3>5. DescribesPtr(u, v)
      BY <1>3, <2>2, <3>4, PtrSays DEF Offsets
    <3>. QED BY <3>1, <3>4, <3>5
  <2>. QED BY <2>1, <2>2
<1>4. q \in Held /\ q.type = u
  BY DEF Held, RegOf
<1>5. is_ptr(q.type)
  BY <1>4, HeldTypes
<1>. QED BY <1>3, <1>4, <1>5, HeldSays

(* A scalar tells of a value by what it tells of a number. *)
LEMMA ScalarTells ==
  ASSUME NEW meeting, NEW r, WellFormed(r), NEW v \in Values,
         IsNum(v) => Sound(r, v.num) /\ (meeting # "never" => SignedBounds(r, v.num))
  PROVE  IsReg(r) /\ is_readable(r) /\ Tells(meeting, r, v) /\ \A id : ~HasId(r, id)
<1>1. r.type.kind = "Scalar"
  BY DEF WellFormed, Scalar
<1>2. v # Garbage
  BY ValueKinds
<1>. QED BY <1>1, <1>2 DEF IsReg, is_readable, Tells, Describes, Sound, HasId, IsScalar

(* The registers that an accepted instruction reads, all told of. *)
LEMMA AcceptedReads ==
  ASSUME Agreed, NEW i \in Instructions, Eff(i).err = {}
  PROVE  /\ ReadErrors(st.regs, i) = {}
         /\ \A r \in Reads(i) : /\ r \in Reg /\ is_readable(st.regs[r])
                                /\ cregs[r] \in Values
<1>1. ReadErrors(st.regs, i) = {}
  BY DEF Eff, Execute, Fails, Effect
<1>2. is_readable(st.regs[R10])
  BY DEF Agreed, Agree, Shaped
<1>3. \A r \in Reads(i) : is_readable(st.regs[r])
  BY <1>1, <1>2, ReadsReadable
<1>4. \A r \in Reads(i) : r \in Reg
  BY DEF Reads, Instructions
<1>5. \A r \in Reg : IsReg(st.regs[r]) /\ cregs[r] \in Values \cup {Garbage} /\ Tells(prog.meeting, st.regs[r], cregs[r])
  BY DEF Agreed, Agree, Shaped
<1>6. \A r \in Reg : is_readable(st.regs[r]) => cregs[r] \in Values
  BY <1>5, ReadableValue
<1>. QED BY <1>1, <1>3, <1>4, <1>6

(* Pointer arithmetic, with the pointer on either side. *)
LEMMA PointerArithmetic ==
  ASSUME NEW meeting, NEW p \in Held, is_ptr(p.type), NEW x \in Values, Tells(meeting, p, x),
         NEW n, IsReg(n), is_readable(n), ~is_ptr(n.type), NEW y \in Values, Tells(meeting, n, y),
         MovedByKnown(p, n, y), NEW sign \in {1, -1},
         NEW v \in Values, p.type # KernelPtr /\ IsPointer(x) /\ IsNum(y) => v \in Shifted(x, sign * Signed(y.num))
  PROVE  LET q == Displaced(p.type, sign, n.tnum) IN
         q \in Held /\ Tells(meeting, q, v) /\ \A id : ~HasId(q, id)
<1>. DEFINE q == Displaced(p.type, sign, n.tnum)
<1>1. p.type \in PtrTypes /\ DescribesPtr(p.type, x)
  BY HeldTypes, HeldSays
<1>2. CASE p.type = KernelPtr
  <2>1. q = kernel_ptr
    BY <1>2 DEF Displaced, Moved, Rebased, Offsets, KernelPtr, kernel_ptr
  <2>. QED BY <2>1, MadeTell DEF HasId, KernelPtr
<1>3. CASE p.type # KernelPtr
  <2>1. IsNum(y) /\ (p.type.kind \in Offsets => is_known(n.tnum))
    BY <1>3 DEF MovedByKnown
  <2>2. y.num \in Word
    BY <2>1, ValueKinds
  <2>3. x \in Pointers /\ IsPointer(x)
    BY <1>1, <1>3, PtrSays, ValueKinds
  <2>4. is_known(n.tnum) => n.tnum.value = y.num
    <3>1. is_known(n.tnum) => y = Num(n.tnum.value)
      BY <2>1, KnownNumber
    <3>. QED BY <3>1 DEF Num
  <2>5. v \in Shifted(x, sign * Signed(y.num))
    BY <1>3, <2>1, <2>3
  <2>6. q \in Held /\ is_ptr(q.type) /\ Describes(q, v)
    BY <1>1, <1>3, <2>1, <2>2, <2>4, <2>5, DisplacedTells
  <2>7. \A id : ~HasId(q, id)
    BY <2>6 DEF is_ptr, HasId
  <2>. QED BY <2>6, <2>7, HeldSays
<1>. QED BY <1>2, <1>3

(* What is left in the register of an accepted arithmetic instruction. *)
LEMMA AluTells ==
  ASSUME Agreed, NEW i \in Instructions, i.kind = "alu", Eff(i).err = {},
         NumbersAreExact(i), OffsetsAreKnown(i), NEW v \in CAlu(i, cregs[i.dst], Operand(i))
  PROVE  LET q == check_alu(i.op, i.wide, st.regs[i.dst], SrcReg(st.regs, i)).reg IN
         /\ v \in Values /\ IsReg(q) /\ is_readable(q) /\ Tells(prog.meeting, q, v)
         /\ \A id : HasId(q, id) => Names(st, cregs, mem, id, v)
         /\ Eff(i).fall = [st EXCEPT !.regs[i.dst] = q]
<1>. DEFINE d   == st.regs[i.dst]
            s   == SrcReg(st.regs, i)
            x   == cregs[i.dst]
            y   == Operand(i)
            out == check_alu(i.op, i.wide, d, s)
            q   == out.reg
<1>1. ReadErrors(st.regs, i) = {} /\ \A r \in Reads(i) : r \in Reg /\ is_readable(st.regs[r]) /\ cregs[r] \in Values
  BY AcceptedReads
<1>2. /\ Eff(i).err = out.err /\ Eff(i).fall = [st EXCEPT !.regs[i.dst] = q]
  BY <1>1 DEF Eff, Execute, Effect
<1>3. /\ i.op \in AluOp /\ i.wide \in BOOLEAN /\ i.dst \in Reg
      /\ i.src # Imm => i.src \in Reads(i)
      /\ i.op # "Mov" => i.dst \in Reads(i)
  BY DEF Instructions, AluOp, AluOpcode, Reads
<1>4. /\ IsReg(s) /\ is_readable(s) /\ y \in Values /\ Tells(prog.meeting, s, y)
      /\ \A id : HasId(s, id) => Names(st, cregs, mem, id, y)
  BY <1>1, <1>3, OperandTells
<1>5. IsReg(d) /\ Tells(prog.meeting, d, x)
  BY <1>3 DEF Agreed, Agree, Shaped
<1>6. i.op # "Mov" => is_readable(d) /\ x \in Values
  BY <1>1, <1>3
<1>7. v \in Values
  BY <1>4, <1>6, ComputedValue
<1>8. out.err = {}
  BY <1>2
<1>. SUFFICES /\ IsReg(q) /\ is_readable(q) /\ Tells(prog.meeting, q, v)
              /\ \A id : HasId(q, id) => Names(st, cregs, mem, id, v)
  BY <1>2, <1>7
<1>9. \A r \in Held : IsReg(r) /\ is_readable(r)
  BY HeldTypes DEF IsReg
<1>10. CASE i.op = "Mov" /\ i.wide
  <2>1. q = s
    BY <1>10 DEF check_alu, Becomes
  <2>2. v = y
    BY <1>10 DEF CAlu
  <2>. QED BY <1>4, <2>1, <2>2
<1>11. CASE i.op = "Mov" /\ ~i.wide
  <2>1. q = MovLow(s)
    BY <1>11 DEF check_alu, Becomes
  <2>2. IsScalar(s) /\ IsNum(y) /\ s.umax <= MaxHalf /\ 0 <= s.smin /\ s.smax <= MaxHalf
    BY <1>11 DEF NumbersAreExact
  <2>3. WellFormed(s) /\ y.num \in Word /\ y = Num(y.num)
    BY <1>4, <2>2, RegKinds, ValueKinds
  <2>4. v = Num(Low(y.num))
    BY <1>11, <2>2 DEF CAlu
  <2>5. Sound(s, y.num) /\ (prog.meeting # "never" => SignedBounds(s, y.num))
    BY <1>4, <2>2 DEF Tells
  <2>6. /\ WellFormed(q) /\ Low(y.num) = y.num /\ Sound(q, y.num)
        /\ prog.meeting # "never" => SignedBounds(q, y.num)
    BY <2>1, <2>2, <2>3, <2>5, HalfMove
  <2>7. v = y
    BY <2>3, <2>4, <2>6
  <2>. HIDE DEF q, y, s
  <2>. QED BY <1>7, <2>6, <2>7, ScalarTells
<1>12. CASE i.op = "Neg"
  <2>1. q = scalar_unknown
    BY <1>8, <1>12 DEF check_alu, Becomes, Rejected
  <2>. QED BY <1>7, <2>1, UnknownScalar, ScalarTells, ValueKinds
<1>13. CASE i.op \notin {"Mov", "Neg"} /\ is_ptr(d.type) /\ is_ptr(s.type)
  <2>1. q = scalar_unknown
    BY <1>8, <1>13 DEF check_alu, Becomes, Rejected
  <2>. QED BY <1>7, <2>1, UnknownScalar, ScalarTells, ValueKinds
<1>14. CASE i.op \notin {"Mov", "Neg"} /\ is_ptr(d.type) /\ ~is_ptr(s.type)
  <2>. DEFINE sign == IF i.op = "Add" THEN 1 ELSE -1
  <2>1. i.op \in {"Add", "Sub"} /\ q = Displaced(d.type, sign, s.tnum)
    BY <1>8, <1>14 DEF check_alu, Becomes, Rejected
  <2>2. MovedByKnown(d, s, y) /\ (d.type # KernelPtr => i.wide)
    BY <1>14, <2>1 DEF OffsetsAreKnown
  <2>3. d \in Held
    BY <1>5, <1>14, RegKinds
  <2>4. d.type # KernelPtr /\ IsPointer(x) /\ IsNum(y) => v \in Shifted(x, sign * Signed(y.num))
    <3>. SUFFICES ASSUME IsPointer(x), IsNum(y), i.wide PROVE v \in Shifted(x, sign * Signed(y.num))
      BY <2>2
    <3>1. ~IsNum(x) /\ ~IsPointer(y) /\ y.num \in Word
      BY <1>4, ValueKinds
    <3>2. Signed(y.num) \in Int
      BY <3>1, SignedOfWord DEF SignedWord
    <3>3. 1 * Signed(y.num) = Signed(y.num) /\ (-1) * Signed(y.num) = -Signed(y.num)
      BY <3>2
    <3>4. CASE i.op = "Add"
      BY <3>1, <3>3, <3>4 DEF CAlu
    <3>5. CASE i.op = "Sub"
      BY <3>1, <3>3, <3>5 DEF CAlu
    <3>. QED BY <2>1, <3>4, <3>5
  <2>5. sign \in {1, -1}
    OBVIOUS
  <2>. HIDE DEF q, d, s, x, y, sign
  <2>6. q \in Held /\ Tells(prog.meeting, q, v) /\ \A id : ~HasId(q, id)
    BY <1>4, <1>5, <1>6, <1>7, <1>14, <2>1, <2>2, <2>3, <2>4, <2>5, PointerArithmetic
  <2>. QED BY <1>9, <2>6
<1>15. CASE i.op = "Add" /\ ~is_ptr(d.type) /\ is_ptr(s.type)
  <2>1. q = Displaced(s.type, 1, d.tnum)
    BY <1>8, <1>15 DEF check_alu, Becomes, Rejected
  <2>2. MovedByKnown(s, d, x) /\ (s.type # KernelPtr => i.wide)
    BY <1>15 DEF OffsetsAreKnown
  <2>3. s \in Held
    BY <1>4, <1>15, RegKinds
  <2>4. s.type # KernelPtr /\ IsPointer(y) /\ IsNum(x) => v \in Shifted(y, 1 * Signed(x.num))
    <3>. SUFFICES ASSUME IsPointer(y), IsNum(x), i.wide PROVE v \in Shifted(y, 1 * Signed(x.num))
      BY <2>2
    <3>1. ~IsNum(y) /\ ~IsPointer(x) /\ x.num \in Word
      BY <1>4, <1>6, <1>15, ValueKinds
    <3>2. Signed(x.num) \in Int
      BY <3>1, SignedOfWord DEF SignedWord
    <3>3. 1 * Signed(x.num) = Signed(x.num)
      BY <3>2
    <3>. QED BY <1>15, <3>1, <3>3 DEF CAlu
  <2>. HIDE DEF q, d, s, x, y
  <2>5. q \in Held /\ Tells(prog.meeting, q, v) /\ \A id : ~HasId(q, id)
    BY <1>4, <1>5, <1>6, <1>7, <1>15, <2>1, <2>2, <2>3, <2>4, PointerArithmetic
  <2>. QED BY <1>9, <2>5
<1>16. CASE i.op \notin {"Mov", "Neg"} /\ ~is_ptr(d.type) /\ ~(i.op = "Add" /\ is_ptr(s.type))
  <2>1. /\ prog.meeting = "never" /\ IsNum(x) /\ IsNum(y)
        /\ i.op \in ExactOps(i.wide) \/ (i.wide /\ ResultTnum(i.op, d.tnum, s.tnum) = unknown)
    BY <1>16 DEF NumbersAreExact, MovesPointer
  <2>2. x.num \in Word /\ x = Num(x.num) /\ y.num \in Word /\ y = Num(y.num)
    BY <1>4, <1>6, <1>16, <2>1, ValueKinds
  <2>3. v = Num(alu(i.op, i.wide, x.num, y.num))
    BY <1>16, <2>1 DEF CAlu, IsNum, IsPointer
  <2>4. i.op \in AluOp \ {"Mov", "Neg"} /\ Tells(prog.meeting, d, Num(x.num)) /\ Tells(prog.meeting, s, Num(y.num))
    BY <1>3, <1>4, <1>5, <1>16, <2>2
  <2>. HIDE DEF d, s, x, y
  <2>5. WellFormed(q) /\ Sound(q, alu(i.op, i.wide, x.num, y.num))
    BY <1>3, <1>4, <1>5, <1>6, <1>8, <1>16, <2>1, <2>2, <2>4, NumberArithmetic
  <2>6. v.num = alu(i.op, i.wide, x.num, y.num)
    BY <2>3 DEF Num
  <2>. HIDE DEF q
  <2>. QED BY <1>7, <2>1, <2>5, <2>6, ScalarTells
<1>. QED BY <1>10, <1>11, <1>12, <1>13, <1>14, <1>15, <1>16

-----------------------------------------------------------------------------
(* Steps that set one register. *)
LEMMA SetStep ==
  ASSUME Agreed, NEW x \in Reg, NEW q, IsReg(q), is_readable(q), NEW v \in Values, Tells(prog.meeting, q, v),
         \A id : HasId(q, id) => Names(st, cregs, mem, id, v),
         st' = [st EXCEPT !.regs[x] = q], cregs' = [cregs EXCEPT ![x] = v],
         UNCHANGED <<prog, next_id, mem>>
  PROVE  Agreed'
BY SetRegister DEF Agreed

LEMMA AluKeeps ==
  ASSUME Agreed, prog.insns \subseteq Instructions, Careful, AluStep
  PROVE  Agreed'
<1>1. PICK i \in prog.insns :
        /\ Accepted(i, "alu") /\ st' = Eff(i).fall
        /\ \E v \in CAlu(i, cregs[i.dst], Operand(i)) : cregs' = [cregs EXCEPT ![i.dst] = v]
        /\ UNCHANGED <<mem, heap>>
  BY DEF AluStep
<1>2. PICK v \in CAlu(i, cregs[i.dst], Operand(i)) : cregs' = [cregs EXCEPT ![i.dst] = v]
  BY <1>1
<1>3. /\ i \in Instructions /\ i.dst \in Reg /\ i.kind = "alu" /\ Eff(i).err = {}
      /\ NumbersAreExact(i) /\ OffsetsAreKnown(i)
  BY <1>1 DEF Accepted, Careful, CarefulInsn, Instructions
<1>4. Eff(i).ids = 0
  BY <1>3 DEF Eff, Execute, Effect, Fails
<1>5. next_id' = next_id /\ UNCHANGED <<prog, mem>>
  BY <1>1, <1>4 DEF Accepted, Agreed, Agree
<1>. DEFINE q == check_alu(i.op, i.wide, st.regs[i.dst], SrcReg(st.regs, i)).reg
<1>6. /\ v \in Values /\ IsReg(q) /\ is_readable(q) /\ Tells(prog.meeting, q, v)
      /\ \A id : HasId(q, id) => Names(st, cregs, mem, id, v)
      /\ Eff(i).fall = [st EXCEPT !.regs[i.dst] = q]
  BY <1>2, <1>3, AluTells
<1>. HIDE DEF q
<1>. QED BY <1>1, <1>2, <1>3, <1>5, <1>6, SetStep

LEMMA Imm64Keeps ==
  ASSUME Agreed, prog.insns \subseteq Instructions, Imm64Step
  PROVE  Agreed'
<1>1. PICK i \in prog.insns :
        /\ Accepted(i, "ldimm64") /\ st' = Eff(i).fall
        /\ \E v \in (CASE i.reloc = "none" -> {Num(Wrap(i.imm))}
                       [] i.reloc = "data" -> {Pointer(Data, 0)}
                       [] OTHER -> AnyNum) : cregs' = [cregs EXCEPT ![i.dst] = v]
        /\ UNCHANGED <<mem, heap>>
  BY DEF Imm64Step
<1>2. PICK v : /\ cregs' = [cregs EXCEPT ![i.dst] = v]
               /\ i.reloc = "none" => v = Num(Wrap(i.imm))
               /\ i.reloc = "data" => v = Pointer(Data, 0)
               /\ i.reloc \in {"map", "core"} => v \in AnyNum
  <2>1. PICK v \in (CASE i.reloc = "none" -> {Num(Wrap(i.imm))}
                      [] i.reloc = "data" -> {Pointer(Data, 0)}
                      [] OTHER -> AnyNum) : cregs' = [cregs EXCEPT ![i.dst] = v]
    BY <1>1
  <2>. QED BY <2>1
<1>3. i \in Instructions /\ i.dst \in Reg /\ i.kind = "ldimm64" /\ Eff(i).err = {} /\ i.imm \in Int
      /\ i.reloc \in {"none", "map", "data", "core"}
  BY <1>1 DEF Accepted, Instructions
<1>. DEFINE q == LoadedImm64(i)
<1>4. Eff(i).ids = 0 /\ Eff(i).fall = [st EXCEPT !.regs[i.dst] = q]
  BY <1>3, AcceptedReads DEF Eff, Execute, Effect, Leads
<1>5. next_id' = next_id /\ UNCHANGED <<prog, mem>>
  BY <1>1, <1>4 DEF Accepted, Agreed, Agree
<1>6. /\ v \in Values /\ IsReg(q) /\ is_readable(q) /\ Tells(prog.meeting, q, v) /\ \A id : ~HasId(q, id)
  <2>1. CASE i.reloc = "none"
    <3>1. q = scalar_value(Wrap(i.imm)) /\ v = Num(Wrap(i.imm)) /\ Wrap(i.imm) \in Word
      BY <1>2, <1>3, <2>1, WrapIsWord DEF LoadedImm64
    <3>2. \A id : ~HasId(q, id)
      BY <3>1 DEF HasId, scalar_value, Scalar
    <3>. QED BY <3>1, <3>2, MadeTell, ValueKinds
  <2>2. CASE i.reloc = "map"
    <3>1. q = scalar_unknown /\ v \in Values
      BY <1>2, <2>2, FoundNumbers DEF LoadedImm64
    <3>2. \A id : ~HasId(q, id)
      BY <3>1 DEF HasId, scalar_unknown, RegOf, Scalar
    <3>. QED BY <3>1, <3>2, MadeTell
  <2>3. CASE i.reloc = "core"
    <3>1. q = kernel_ptr /\ v \in Values
      BY <1>2, <2>3, FoundNumbers DEF LoadedImm64
    <3>2. \A id : ~HasId(q, id)
      BY <3>1 DEF HasId, kernel_ptr, RegOf, KernelPtr
    <3>3. IsReg(q) /\ is_readable(q)
      BY <3>1, MadeTell, HeldTypes DEF IsReg
    <3>. QED BY <3>1, <3>2, <3>3, MadeTell
  <2>4. CASE i.reloc = "data"
    <3>1. q = RegOf(DataPtr("section")) /\ v = Pointer(Data, 0)
      BY <1>2, <2>4 DEF LoadedImm64
    <3>2. DataPtr("section") \in PtrTypes /\ DataPtr("section").kind = "DataPtr"
      BY DEF PtrTypes, DataPtr
    <3>3. q \in Held /\ q.type = DataPtr("section")
      BY <3>1, <3>2 DEF Held, RegOf
    <3>4. v \in Pointers /\ v \in Values /\ v.obj = Data
      BY <3>1, ValueKinds, ObjectKinds DEF Pointer
    <3>5. is_ptr(q.type) /\ DescribesPtr(q.type, v)
      BY <3>2, <3>3, <3>4, PtrSays DEF is_ptr
    <3>6. Tells(prog.meeting, q, v)
      BY <3>3, <3>4, <3>5, HeldSays
    <3>7. IsReg(q) /\ is_readable(q) /\ \A id : ~HasId(q, id)
      BY <3>2, <3>3, HeldTypes DEF IsReg, HasId
    <3>. QED BY <3>4, <3>6, <3>7
  <2>. QED BY <1>3, <2>1, <2>2, <2>3, <2>4
<1>. HIDE DEF q
<1>. QED BY <1>1, <1>2, <1>3, <1>4, <1>5, <1>6, SetStep

-----------------------------------------------------------------------------
(* Loads and stores. *)

(* Where the bounds checks compute no sum that wraps, they tell.           *)
LEMMA BoundsTell ==
  ASSUME NEW at \in SignedWord, NEW width \in Nat
  PROVE  /\ check_bounds(at, width) /\ STACK_SIZE + at + width <= MaxSigned
              => Bytes(at, width) \subseteq Slots
         /\ \A n \in Nat : Inside(at, width, n) /\ at + width <= MaxSigned
              => Bytes(at, width) \subseteq 0 .. n - 1
<1>1. STACK_SIZE \in Nat /\ at \in Int /\ MaxSigned \in Int /\ MinSigned \in Int /\ MinSigned <= at
      /\ SignedWord = {n \in Int : MinSigned <= n /\ n <= MaxSigned} /\ MinSigned <= 0
  BY FrameAssumption, SignedFacts
<1>2. ASSUME check_bounds(at, width), STACK_SIZE + at + width <= MaxSigned
      PROVE  Bytes(at, width) \subseteq Slots
  <2>1. STACK_SIZE + at \in SignedWord
    BY <1>1, <1>2
  <2>2. WrapSigned(STACK_SIZE + at) = STACK_SIZE + at
    BY <2>1, <1>1, WrapSignedSame
  <2>3. STACK_SIZE + at >= 0
    BY <1>2, <2>2 DEF check_bounds
  <2>4. STACK_SIZE + at + width \in SignedWord
    BY <1>1, <1>2, <2>3
  <2>5. WrapSigned(STACK_SIZE + at + width) = STACK_SIZE + at + width
    BY <2>4, <1>1, WrapSignedSame
  <2>6. STACK_SIZE + at + width <= STACK_SIZE
    BY <1>2, <2>2, <2>5 DEF check_bounds
  <2>. QED BY <1>1, <2>3, <2>6 DEF Bytes, Slots
<1>3. ASSUME NEW n \in Nat, Inside(at, width, n), at + width <= MaxSigned
      PROVE  Bytes(at, width) \subseteq 0 .. n - 1
  <2>1. 0 <= at /\ at + width \in SignedWord
    BY <1>1, <1>3 DEF Inside
  <2>2. WrapSigned(at + width) = at + width
    BY <2>1, <1>1, WrapSignedSame
  <2>3. at + width <= n
    BY <1>3, <2>2 DEF Inside
  <2>. QED BY <1>1, <2>1, <2>3 DEF Bytes
<1>. QED BY <1>2, <1>3

(* An access that is let through, its end in range, is inside the object   *)
(* that is pointed to.                                                     *)
LEMMA AccessTells ==
  ASSUME NEW meeting, NEW r, IsReg(r), NEW x \in Values \cup {Garbage}, Tells(meeting, r, x),
         NEW off \in Int, NEW width \in Nat, AccessError(r.type, off, width) = {},
         InRange(r.type, off, width)
  PROVE  /\ r \in Held /\ is_ptr(r.type) /\ r.type \in PtrTypes /\ DescribesPtr(r.type, x) /\ x \in Values
         /\ r.type # KernelPtr => InObject(x, off, width)
         /\ r.type.kind = "FramePtr" =>
              /\ x \in Pointers /\ x.obj = Frm /\ Address(x, off) = Effective(r.type, off)
              /\ Effective(r.type, off) \in Int /\ Bytes(Effective(r.type, off), width) \subseteq Slots
         /\ r.type.kind \in {"CtxPtr", "MapValuePtr", "RingBufPtr", "DataPtr"} => x \in Pointers /\ x.obj # Frm
<1>1. r \in Held
  <2>1. ~IsScalar(r) /\ is_readable(r)
    BY DEF AccessError, IsScalar, is_readable
  <2>. QED BY <2>1, RegKinds DEF IsReg
<1>. DEFINE t == r.type
            at == Effective(t, off)
<1>2. is_ptr(t)
  <2>1. t = Null \/ t \in PtrTypes \cup NullTypes
    BY <1>1, HeldTypes DEF null, scalar_value
  <2>2. t.kind # "PtrOrNull" /\ t.kind # "Null"
    BY DEF AccessError
  <2>. QED BY <1>1, <2>1, <2>2, HeldTypes DEF Null, NullTypes
<1>3. t \in PtrTypes /\ DescribesPtr(t, x) /\ x \in Values
  BY <1>1, <1>2, HeldTypes, HeldSays
<1>4. STACK_SIZE \in Nat
  BY FrameAssumption
<1>5. CASE t = KernelPtr
  <2>1. t.kind = "KernelPtr"
    BY <1>5 DEF KernelPtr
  <2>. QED BY <1>1, <1>2, <1>3, <1>5, <2>1
<1>6. CASE t.kind = "FramePtr"
  <2>1. t.off \in Int /\ x \in Pointers /\ x.obj = Frm /\ x.off = t.off /\ t # KernelPtr
    BY <1>3, <1>6, PtrSays
  <2>2. check_bounds(at, width)
    BY <1>6 DEF AccessError
  <2>3. at \in Int /\ at \in SignedWord /\ Address(x, off) = at
    BY <2>1, WrapSignedRange, WrapSignedInt DEF Effective, Address
  <2>4. STACK_SIZE + at + width <= MaxSigned
    BY <1>6 DEF InRange, Offsets
  <2>. HIDE DEF at
  <2>6. Bytes(at, width) \subseteq Slots
    BY <2>2, <2>3, <2>4, BoundsTell
  <2>5. InObject(x, off, width)
    BY <2>1, <2>3, <2>6, ValueKinds DEF InObject, Extent
  <2>. QED BY <1>1, <1>2, <1>3, <1>6, <2>1, <2>3, <2>5, <2>6 DEF at
<1>7. ASSUME NEW n \in Nat, x \in Pointers, x.obj # Frm, x.obj.size = n, x.off = t.off, t.off \in Int, Inside(at, width, n),
             t.kind \in Offsets, t.kind # "FramePtr"
      PROVE  InObject(x, off, width)
  <2>1. at \in Int /\ at \in SignedWord /\ Address(x, off) = at
    BY <1>7, WrapSignedRange, WrapSignedInt DEF Effective, Address
  <2>3. at + width <= MaxSigned
    BY <1>7, <2>1 DEF InRange
  <2>. HIDE DEF at
  <2>2. Bytes(at, width) \subseteq 0 .. n - 1
    BY <1>7, <2>1, <2>3, BoundsTell
  <2>. QED BY <1>7, <2>1, <2>2, ValueKinds DEF InObject, Extent
<1>8. CASE t.kind = "CtxPtr"
  <2>1. t.off \in Int /\ x \in Pointers /\ x.obj = Ctx /\ x.off = t.off
    BY <1>3, <1>8, PtrSays
  <2>2. Inside(at, width, CTX_SIZE) /\ CTX_SIZE \in Nat
    BY <1>8, SizesAssumption DEF AccessError
  <2>3. x.obj # Frm /\ x.obj.size = CTX_SIZE /\ t.kind \in Offsets /\ t.kind # "FramePtr"
    BY <1>8, <2>1, ObjectKinds DEF Offsets
  <2>. HIDE DEF t, at
  <2>4. InObject(x, off, width)
    BY <1>7, <2>1, <2>2, <2>3
  <2>. QED BY <1>1, <1>2, <1>3, <1>8, <2>1, <2>3, <2>4 DEF t
<1>9. CASE t.kind \in {"MapValuePtr", "RingBufPtr"}
  <2>1. /\ t.off \in Int /\ t.size \in Nat /\ x \in Pointers /\ x.off = t.off /\ x.obj.size = t.size
        /\ x.obj.kind \in {"map", "ringbuf"}
    BY <1>3, <1>9, PtrSays
  <2>2. Inside(at, width, t.size)
    BY <1>9 DEF AccessError
  <2>3. x.obj # Frm /\ t.kind \in Offsets /\ t.kind # "FramePtr"
    BY <1>9, <2>1, ObjectKinds DEF Offsets
  <2>. HIDE DEF t, at
  <2>4. InObject(x, off, width)
    BY <1>7, <2>1, <2>2, <2>3
  <2>. QED BY <1>1, <1>2, <1>3, <1>9, <2>1, <2>3, <2>4 DEF t
<1>10. CASE t.kind = "DataPtr"
  <2>1. x \in Pointers /\ x.obj = Data
    BY <1>3, <1>10, PtrSays
  <2>2. InObject(x, off, width)
    BY <2>1, ValueKinds DEF InObject
  <2>. QED BY <1>1, <1>2, <1>3, <1>10, <2>1, <2>2, ObjectKinds
<1>11. t = KernelPtr \/ t.kind \in {"FramePtr", "CtxPtr", "MapValuePtr", "RingBufPtr", "DataPtr"}
  BY <1>3 DEF PtrTypes, InnerTypes
<1>. QED BY <1>5, <1>6, <1>8, <1>9, <1>10, <1>11

(* The value that lies somewhere is the one that the bytes there are of. *)
LEMMA WholeLies ==
  /\ \A off \in Int : \A v : v \in Whole(off) <=> Lies(mem, off, v)
  /\ \A m : \A off \in Int : \A v, w : Lies(m, off, v) /\ Lies(m, off, w) => v = w
<1>1. 0 \in 0 .. DW - 1
  BY FrameAssumption
<1>2. ASSUME NEW m, NEW off \in Int, NEW v, Lies(m, off, v) PROVE m[off].of = v
  <2>1. off + 0 = off
    OBVIOUS
  <2>2. m[off] = Byte(v, 0)
    BY <1>1, <1>2, <2>1 DEF Lies
  <2>. QED BY <2>2 DEF Byte
<1>3. \A off : \A v : v \in Whole(off) <=> v = mem[off].of /\ Lies(mem, off, v)
  BY DEF Whole, Lies
<1>. QED BY <1>2, <1>3

(* What a load finds is a value. *)
LEMMA LoadedValue ==
  ASSUME Agreed, heap \subseteq Pointers, NEW p \in Pointers, NEW off \in Int, NEW width \in Nat,
         InObject(p, off, width), NEW v \in CLoad(p, off, width)
  PROVE  v \in Values
<1>1. CASE p.obj # Frm
  BY <1>1, FoundNumbers, ValueKinds DEF CLoad, FromElsewhere
<1>2. CASE p.obj = Frm /\ width # DW
  BY <1>2, FoundNumbers DEF CLoad, FromFrame
<1>3. CASE p.obj = Frm /\ width = DW
  <2>. DEFINE at == Address(p, off)
  <2>1. at \in Int /\ DW \in Nat \ {0}
    BY ValueKinds, WrapSignedInt, FrameAssumption DEF Address
  <2>2. Bytes(at, width) \subseteq Slots
    BY <1>3, ObjectKinds DEF InObject, Extent
  <2>3. at \in Slots
    BY <1>3, <2>1, <2>2 DEF Bytes
  <2>4. mem[at].of \in Values \cup {Garbage}
    BY <2>3 DEF Agreed, Agree, Content, Byte
  <2>5. Whole(at) \subseteq Values
    BY <2>4 DEF Whole
  <2>. QED BY <1>3, <2>5, FoundNumbers DEF CLoad, FromFrame
<1>. QED BY <1>1, <1>2, <1>3

LEMMA LoadKeeps ==
  ASSUME Agreed, prog.insns \subseteq Instructions, heap \subseteq Pointers, Careful, LoadStep
  PROVE  Agreed'
<1>1. PICK i \in prog.insns :
        /\ Accepted(i, "ldx") /\ st' = Eff(i).fall
        /\ InObject(cregs[i.src], i.off, i.width)
        /\ \E v \in CLoad(cregs[i.src], i.off, i.width) : cregs' = [cregs EXCEPT ![i.dst] = v]
        /\ UNCHANGED <<mem, heap>>
  BY DEF LoadStep
<1>2. PICK v \in CLoad(cregs[i.src], i.off, i.width) : cregs' = [cregs EXCEPT ![i.dst] = v]
  BY <1>1
<1>3. /\ i \in Instructions /\ i.dst \in Reg /\ i.src \in Reg /\ i.kind = "ldx" /\ Eff(i).err = {}
      /\ i.off \in Int /\ i.width \in Nat
  BY <1>1 DEF Accepted, Instructions
<1>. DEFINE r  == st.regs[i.src]
            x  == cregs[i.src]
            at == Effective(r.type, i.off)
            q  == LoadedReg(st.stack, r.type, i.off, i.width)
<1>4. ReadErrors(st.regs, i) = {}
  BY <1>3, AcceptedReads
<1>5. /\ AccessError(r.type, i.off, i.width) = {} /\ Eff(i).ids = 0
      /\ Eff(i).fall = [st EXCEPT !.regs = [st.regs EXCEPT ![i.dst] = q]]
  BY <1>3, <1>4 DEF Eff, Execute, Effect, check_load
<1>6. Eff(i).fall = [st EXCEPT !.regs[i.dst] = q]
  BY <1>5
<1>7. next_id' = next_id /\ UNCHANGED <<prog, mem>>
  BY <1>1, <1>5 DEF Accepted, Agreed, Agree
<1>8. IsReg(r) /\ x \in Values \cup {Garbage} /\ Tells(prog.meeting, r, x)
  BY <1>3 DEF Agreed, Agree, Shaped
<1>9. /\ r.type \in PtrTypes /\ IsPointer(x) /\ x \in Values
      /\ r.type.kind = "FramePtr" => x.obj = Frm /\ Address(x, i.off) = at /\ at \in Int
  <2>. HIDE DEF r
  <2>1. IsPointer(x)
    BY <1>1 DEF InObject
  <2>. HIDE DEF x
  <2>2. AccessError(r.type, i.off, i.width) = {} /\ i.off \in Int /\ i.width \in Nat
        /\ InRange(r.type, i.off, i.width)
    BY <1>1, <1>3, <1>5 DEF Careful, CarefulInsn, EndsInRange, Base, r
  <2>3. /\ r.type \in PtrTypes /\ x \in Values
        /\ r.type.kind = "FramePtr" => x.obj = Frm /\ Address(x, i.off) = at /\ at \in Int
    <3>1. IsReg(r) /\ x \in Values \cup {Garbage} /\ Tells(prog.meeting, r, x)
      BY <1>8
    <3>2. /\ r.type \in PtrTypes /\ x \in Values
          /\ r.type.kind = "FramePtr" =>
              /\ x \in Pointers /\ x.obj = Frm /\ Address(x, i.off) = Effective(r.type, i.off)
              /\ Effective(r.type, i.off) \in Int /\ Bytes(Effective(r.type, i.off), i.width) \subseteq Slots
      BY <2>2, <3>1, AccessTells, Zenon
    <3>. QED BY <3>2
  <2>. QED BY <2>1, <2>3
<1>10. v \in Values
  <2>1. x \in Pointers
    BY <1>9, ValueKinds
  <2>. HIDE DEF x
  <2>. QED BY <1>1, <1>2, <1>3, <2>1, LoadedValue DEF x
<1>11. /\ IsReg(q) /\ is_readable(q) /\ Tells(prog.meeting, q, v)
       /\ \A id : HasId(q, id) => Names(st, cregs, mem, id, v)
  <2>1. CASE r.type.kind = "FramePtr" /\ i.width = DW /\ at \in DOMAIN st.stack.spills
    <3>1. q = st.stack.spills[at]
      BY <2>1 DEF LoadedReg
    <3>2. q \in Held /\ SpillTells(mem, q, at)
      BY <2>1, <3>1 DEF Agreed, Agree, Shaped
    <3>3. IsReg(q) /\ is_readable(q)
      BY <3>2, HeldTypes DEF IsReg
    <3>4. CASE \E w \in Values : Lies(mem, at, w) /\ Describes(q, w)
      <4>1. PICK w \in Values : Lies(mem, at, w) /\ Describes(q, w)
        BY <3>4
      <4>2. Whole(at) = {w}
        BY <1>9, <2>1, <4>1, WholeLies
      <4>3. v = w
        BY <1>2, <1>9, <2>1, <4>2 DEF CLoad, FromFrame
      <4>4. \A id : HasId(q, id) => Names(st, cregs, mem, id, v)
        BY <2>1, <3>1, <4>1, <4>3 DEF Names
      <4>. QED BY <3>2, <3>3, <4>1, <4>3, <4>4, HeldSays
    <3>5. CASE q.type = KernelPtr
      <4>1. q = kernel_ptr
        BY <3>2, <3>5, MadeTell, HeldTypes
      <4>2. \A id : ~HasId(q, id)
        BY <3>5 DEF HasId, KernelPtr
      <4>. QED BY <1>10, <3>3, <4>1, <4>2, MadeTell
    <3>. QED BY <3>2, <3>4, <3>5 DEF SpillTells
  <2>2. CASE ~(r.type.kind = "FramePtr" /\ i.width = DW /\ at \in DOMAIN st.stack.spills)
             /\ r.type.kind \in {"CtxPtr", "KernelPtr"} /\ i.width = DW
    <3>1. q = kernel_ptr
      BY <2>2 DEF LoadedReg
    <3>2. \A id : ~HasId(q, id)
      BY <3>1, MadeTell DEF HasId, KernelPtr
    <3>3. IsReg(q) /\ is_readable(q)
      BY <3>1, MadeTell, HeldTypes DEF IsReg
    <3>. QED BY <1>10, <3>1, <3>2, <3>3, MadeTell
  <2>3. CASE ~(r.type.kind = "FramePtr" /\ i.width = DW /\ at \in DOMAIN st.stack.spills)
             /\ ~(r.type.kind \in {"CtxPtr", "KernelPtr"} /\ i.width = DW)
    <3>1. q = scalar_unknown
      BY <2>3 DEF LoadedReg
    <3>2. \A id : ~HasId(q, id)
      BY <3>1 DEF HasId, scalar_unknown, RegOf, Scalar
    <3>. QED BY <1>10, <3>1, <3>2, MadeTell
  <2>. QED BY <2>1, <2>2, <2>3
<1>. HIDE DEF q
<1>. QED BY <1>1, <1>2, <1>3, <1>6, <1>7, <1>10, <1>11, SetStep

(* Some bytes of the frame are written, and marked as such: what is left   *)
(* of the spills is of bytes that stay, or says no more than that they are *)
(* written, and what is new is told of by the bytes as they are now.       *)
Remains(s, t, bytes, o) ==
  /\ o \in DOMAIN s.spills /\ t.spills[o] = s.spills[o]
  /\ bytes \cap Bytes(o, DW) # {} => s.spills[o].type = KernelPtr

Enters(s, c, m, t, m2, o) ==
  /\ SpillTells(m2, t.spills[o], o)
  /\ \A id, w : HasId(t.spills[o], id) /\ Lies(m2, o, w) => Names(s, c, m, id, w)

LEMMA StackChanges ==
  ASSUME NEW meeting, NEW s, NEW n, NEW c, NEW m, Agree(meeting, s, n, c, m),
         NEW bytes \in SUBSET Slots, NEW m2, DOMAIN m2 = Slots, \A b \in Slots : m2[b] \in Content,
         \A b \in Slots \ bytes : m2[b] = m[b], \A b \in bytes : m2[b] # Blank,
         NEW t, t = [init |-> t.init, spills |-> t.spills], t.init = s.stack.init \cup bytes,
         t.spills = [o \in DOMAIN t.spills |-> t.spills[o]],
         \A o \in DOMAIN t.spills : o \in Slots /\ Bytes(o, DW) \subseteq Slots /\ t.spills[o] \in Held,
         \A o \in DOMAIN t.spills : Remains(s.stack, t, bytes, o) \/ Enters(s, c, m, t, m2, o)
  PROVE  Agree(meeting, [s EXCEPT !.stack = t], n, c, m2)
<1>. DEFINE u == [s EXCEPT !.stack = t]
<1>1. Shaped(s)
  BY DEF Agree
<1>2. u = [regs |-> s.regs, stack |-> t] /\ u.regs = s.regs /\ u.stack = t
  BY <1>1 DEF Shaped
<1>. HIDE DEF u
<1>3. Shaped(u)
  BY <1>1, <1>2 DEF Shaped
<1>4. WrittenIn(m2) = WrittenIn(m) \cup bytes
  BY DEF WrittenIn
<1>5. \A k \in 0 .. DW - 1 : \A o \in Int : o + k \in Bytes(o, DW) /\ o + k \in Int
  BY FrameAssumption DEF Bytes
<1>6. Slots \subseteq Int
  BY FrameAssumption DEF Slots
<1>7. ASSUME NEW o \in DOMAIN t.spills, Remains(s.stack, t, bytes, o)
      PROVE  /\ SpillTells(m2, t.spills[o], o)
             /\ \A id, w : HasId(t.spills[o], id) /\ Lies(m2, o, w) => Names(s, c, m, id, w)
  <2>. DEFINE q == t.spills[o]
  <2>1. o \in Int /\ Bytes(o, DW) \subseteq Slots /\ o \in DOMAIN s.stack.spills /\ q = s.stack.spills[o] /\ SpillTells(m, q, o)
    BY <1>6, <1>7 DEF Remains, Agree
  <2>2. CASE bytes \cap Bytes(o, DW) = {}
    <3>1. \A k \in 0 .. DW - 1 : m2[o + k] = m[o + k]
      <4>1. \A b \in Bytes(o, DW) : m2[b] = m[b]
        BY <2>1, <2>2
      <4>. QED BY <1>5, <2>1, <4>1
    <3>2. \A w : Lies(m2, o, w) <=> Lies(m, o, w)
      BY <3>1 DEF Lies
    <3>3. SpillTells(m2, q, o)
      BY <1>4, <2>1, <3>2 DEF SpillTells
    <3>. QED BY <2>1, <3>2, <3>3 DEF Names
  <2>3. CASE q.type = KernelPtr
    <3>1. Bytes(o, DW) \subseteq WrittenIn(m)
      <4>1. CASE \E w \in Values : Lies(m, o, w) /\ Describes(q, w)
        <5>1. PICK w \in Values : Lies(m, o, w)
          BY <4>1
        <5>2. \A b \in Bytes(o, DW) : b - o \in 0 .. DW - 1 /\ o + (b - o) = b
          BY <2>1, FrameAssumption DEF Bytes
        <5>3. \A b \in Bytes(o, DW) : m[b] = Byte(w, b - o)
          BY <5>1, <5>2 DEF Lies
        <5>4. \A k : Byte(w, k) # Blank
          BY <5>1 DEF Byte, Blank, Lies
        <5>. QED BY <2>1, <5>3, <5>4 DEF WrittenIn
      <4>. QED BY <2>1, <4>1 DEF SpillTells
    <3>2. \A id : ~HasId(q, id)
      BY <2>3 DEF HasId, KernelPtr
    <3>. QED BY <1>4, <2>3, <3>1, <3>2 DEF SpillTells
  <2>. QED BY <1>7, <2>1, <2>2, <2>3 DEF Remains
<1>8. \A o \in DOMAIN t.spills : Enters(s, c, m, t, m2, o)
  BY <1>7 DEF Enters
<1>9. \A id, w : Names(u, c, m2, id, w) => Names(s, c, m, id, w)
  <2>1. \A id, w : \A r \in Reg : HasId(u.regs[r], id) /\ w = c[r] => Names(s, c, m, id, w)
    BY <1>2 DEF Names
  <2>2. \A id, w : \A o \in DOMAIN u.stack.spills : HasId(u.stack.spills[o], id) /\ Lies(m2, o, w) => Names(s, c, m, id, w)
    BY <1>2, <1>8 DEF Enters
  <2>. QED BY <2>1, <2>2 DEF Names
<1>10. u.stack.init \subseteq WrittenIn(m2) /\ (meeting = "never" => WrittenIn(m2) \subseteq u.stack.init)
  BY <1>2, <1>4 DEF Agree
<1>11. \A o \in DOMAIN u.stack.spills : SpillTells(m2, u.stack.spills[o], o)
  BY <1>2, <1>8 DEF Enters
<1>12. Agree(meeting, u, n, c, m2)
  BY <1>2, <1>3, <1>9, <1>10, <1>11 DEF Agree
<1>. QED BY <1>12 DEF u

(* A stack of the verifier is a pair; what its operations make of it. *)
IsPair(s) == s = [init |-> s.init, spills |-> s.spills]

LEMMA MarkForm ==
  ASSUME NEW s, IsPair(s), NEW at, NEW n
  PROVE  mark_written(s, at, n) = [init |-> s.init \cup (Bytes(at, n) \cap Slots), spills |-> s.spills]
<1>. DEFINE e == s.init \cup (Bytes(at, n) \cap Slots)
<1>1. DOMAIN s = {"init", "spills"} /\ s = [x \in {"init", "spills"} |-> s[x]]
  BY DEF IsPair
<1>2. mark_written(s, at, n) = [s EXCEPT !.init = e]
  BY DEF mark_written
<1>. HIDE DEF e
<1>3. [s EXCEPT !.init = e] = [init |-> e, spills |-> s.spills]
  BY <1>1
<1>. QED BY <1>2, <1>3 DEF e

LEMMA ClearForm ==
  ASSUME NEW s, IsPair(s), NEW at
  PROVE  clear_spill(s, at) = [init |-> s.init, spills |-> [o \in DOMAIN s.spills \ {at} |-> s.spills[o]]]
<1>1. DOMAIN s = {"init", "spills"} /\ s = [x \in {"init", "spills"} |-> s[x]]
  BY DEF IsPair
<1>. QED BY <1>1 DEF clear_spill

WithSpill(f, at, q) == [o \in DOMAIN f \cup {at} |-> IF o = at THEN q ELSE f[o]]

LEMMA SpillForm ==
  ASSUME NEW s, IsPair(s), NEW at, NEW q
  PROVE  spill(s, at, q) = [init   |-> s.init \cup (Bytes(at, DW) \cap Slots),
                            spills |-> WithSpill(s.spills, at, q)]
<1>. DEFINE w == mark_written(s, at, DW)
<1>1. /\ w.init = s.init \cup (Bytes(at, DW) \cap Slots) /\ w.spills = s.spills
      /\ DOMAIN w = {"init", "spills"} /\ w = [x \in {"init", "spills"} |-> w[x]]
  BY MarkForm
<1>2. spill(s, at, q) = [w EXCEPT !.spills = [o \in DOMAIN @ \cup {at} |-> IF o = at THEN q ELSE @[o]]]
  BY DEF spill
<1>. HIDE DEF w
<1>. QED BY <1>1, <1>2 DEF WithSpill

(* A store to the frame. *)
LEMMA FrameStore ==
  ASSUME Agreed, NEW at \in Int, NEW width \in Nat, Bytes(at, width) \subseteq Slots,
         NEW q, IsReg(q), is_readable(q), NEW v \in Values, Tells(prog.meeting, q, v),
         \A id : HasId(q, id) => Names(st, cregs, mem, id, v),
         NEW is_st \in BOOLEAN, SparesSpills(Bytes(at, width), {at})
  PROVE  Agree(prog.meeting, [st EXCEPT !.stack = StoredStack(st.stack, at, width, q, is_st)],
               next_id, cregs, Stored(at, width, v))
<1>. DEFINE bytes  == Bytes(at, width)
            spills == st.stack.spills
            m2     == Stored(at, width, v)
            t      == StoredStack(st.stack, at, width, q, is_st)
            whole  == ~is_st /\ width = DW /\ Spilled(q)
<1>. SUFFICES Agree(prog.meeting, [st EXCEPT !.stack = t], next_id, cregs, m2)
  OBVIOUS
<1>0. Agree(prog.meeting, st, next_id, cregs, mem)
  BY DEF Agreed
<1>1. /\ Shaped(st) /\ IsPair(st.stack)
      /\ DOMAIN mem = Slots /\ \A b \in Slots : mem[b] \in Content
  BY DEF Agreed, Agree, Shaped, IsPair
<1>2. DOMAIN m2 = Slots /\ \A b \in Slots \ bytes : m2[b] = mem[b]
  BY DEF Stored
<1>3. bytes \subseteq Slots
  OBVIOUS
<1>4. \A b \in bytes : m2[b] = IF width = DW THEN Byte(v, b - at) ELSE Foreign
  BY <1>3 DEF Stored
<1>5. \A b \in bytes : b - at \in Int
  BY DEF Bytes
<1>6. \A k \in Int : Byte(v, k) \in Content /\ Byte(v, k) # Blank
  BY ValueKinds DEF Content, Byte, Blank
<1>7. Foreign \in Content /\ Foreign # Blank
  BY DEF Content, Foreign, Byte, Blank
<1>8. (\A b \in Slots : m2[b] \in Content) /\ (\A b \in bytes : m2[b] # Blank)
  <2>. HIDE DEF m2, bytes
  <2>. QED BY <1>1, <1>2, <1>4, <1>5, <1>6, <1>7
<1>9. bytes \cap Slots = bytes
  BY <1>3
<1>10. CASE whole
  <2>1. t = spill(st.stack, at, q)
    BY <1>10 DEF StoredStack
  <2>2. t = [init |-> st.stack.init \cup (Bytes(at, DW) \cap Slots),
             spills |-> WithSpill(spills, at, q)]
    BY <1>1, <2>1, SpillForm
  <2>. HIDE DEF t
  <2>3. /\ t = [init |-> t.init, spills |-> t.spills] /\ t.init = st.stack.init \cup bytes
        /\ DOMAIN t.spills = DOMAIN spills \cup {at} /\ t.spills = [o \in DOMAIN t.spills |-> t.spills[o]]
        /\ t.spills[at] = q /\ \A o \in DOMAIN spills \ {at} : t.spills[o] = spills[o]
    BY <1>9, <1>10, <2>2 DEF WithSpill
  <2>4. q \in Held
    BY <1>10, RegKinds DEF Spilled
  <2>5. at \in Slots
    BY <1>3, <1>10, FrameAssumption DEF Bytes
  <2>6. \A o \in DOMAIN t.spills : o \in Slots /\ Bytes(o, DW) \subseteq Slots /\ t.spills[o] \in Held
    BY <1>1, <1>3, <1>10, <2>3, <2>4, <2>5 DEF Shaped
  <2>7. Lies(m2, at, v)
    <3>1. \A k \in 0 .. DW - 1 : at + k \in bytes /\ (at + k) - at = k
      BY <1>10, FrameAssumption DEF Bytes
    <3>2. v # Garbage
      BY ValueKinds
    <3>. HIDE DEF m2, bytes
    <3>. QED BY <1>4, <1>10, <3>1, <3>2 DEF Lies
  <2>8. \A o \in DOMAIN t.spills : Remains(st.stack, t, bytes, o) \/ Enters(st, cregs, mem, t, m2, o)
    <3>1. ASSUME NEW o \in DOMAIN spills \ {at} PROVE Remains(st.stack, t, bytes, o)
      BY <2>3 DEF SparesSpills, Remains
    <3>2. SpillTells(m2, t.spills[at], at)
      BY <2>3, <2>4, <2>7, HeldSays DEF SpillTells
    <3>3. ASSUME NEW id, NEW w, HasId(t.spills[at], id), Lies(m2, at, w) PROVE Names(st, cregs, mem, id, w)
      <4>1. w = v
        BY <2>7, <3>3, WholeLies
      <4>. QED BY <2>3, <3>3, <4>1
    <3>4. Enters(st, cregs, mem, t, m2, at)
      BY <3>2, <3>3 DEF Enters
    <3>. QED BY <2>3, <3>1, <3>4
  <2>. HIDE DEF m2, bytes
  <2>. QED BY <1>0, <1>2, <1>3, <1>8, <2>3, <2>6, <2>8, StackChanges
<1>11. CASE ~whole
  <2>1. t = mark_written(clear_spill(st.stack, at), at, width)
    BY <1>11 DEF StoredStack
  <2>2. t = [init |-> st.stack.init \cup (bytes \cap Slots), spills |-> [o \in DOMAIN spills \ {at} |-> spills[o]]]
    <3>. DEFINE c == clear_spill(st.stack, at)
                g == [o \in DOMAIN spills \ {at} |-> spills[o]]
    <3>1. c = [init |-> st.stack.init, spills |-> g] /\ t = mark_written(c, at, width)
      BY <1>1, <2>1, ClearForm
    <3>. HIDE DEF c, g, t
    <3>2. c.init = st.stack.init /\ c.spills = g /\ IsPair(c)
      BY <3>1 DEF IsPair
    <3>3. t = [init |-> c.init \cup (bytes \cap Slots), spills |-> c.spills]
      BY <3>1, <3>2, MarkForm
    <3>. QED BY <3>2, <3>3 DEF g
  <2>. HIDE DEF t
  <2>3. /\ t = [init |-> t.init, spills |-> t.spills] /\ t.init = st.stack.init \cup bytes
        /\ DOMAIN t.spills = DOMAIN spills \ {at} /\ t.spills = [o \in DOMAIN t.spills |-> t.spills[o]]
        /\ \A o \in DOMAIN t.spills : t.spills[o] = spills[o]
    BY <1>9, <2>2
  <2>4. \A o \in DOMAIN t.spills : o \in Slots /\ Bytes(o, DW) \subseteq Slots /\ t.spills[o] \in Held
    BY <1>1, <2>3 DEF Shaped
  <2>5. \A o \in DOMAIN t.spills : Remains(st.stack, t, bytes, o)
    BY <2>3 DEF SparesSpills, Remains
  <2>. HIDE DEF m2, bytes
  <2>. QED BY <1>0, <1>2, <1>3, <1>8, <2>3, <2>4, <2>5, StackChanges
<1>. QED BY <1>10, <1>11

LEMMA StoreKeeps ==
  ASSUME Agreed, prog \in Programs, heap \subseteq Pointers, Careful, StoreStep
  PROVE  Agreed' /\ heap' \subseteq Pointers
<1>1. PICK i \in prog.insns :
        /\ Accepted(i, "stx") \/ Accepted(i, "st")
        /\ st' = Eff(i).fall
        /\ InObject(cregs[i.dst], i.off, i.width)
        /\ IF cregs[i.dst].obj = Frm
             THEN mem' = Stored(Address(cregs[i.dst], i.off), i.width, Operand(i)) /\ UNCHANGED heap
             ELSE heap' = heap \cup (IF IsPointer(Operand(i)) /\ i.width = DW THEN {Operand(i)} ELSE {})
                  /\ UNCHANGED mem
        /\ UNCHANGED cregs
  BY DEF StoreStep
<1>2. /\ i \in Instructions /\ i.dst \in Reg /\ i.kind \in {"stx", "st"} /\ Eff(i).err = {}
      /\ i.off \in Int /\ i.width \in Nat /\ (i.kind = "st" => i.src = Imm) /\ (i.kind = "stx" => i.src # Imm)
  BY <1>1, ProgramsAssumption DEF Accepted, Instructions
<1>. DEFINE r  == st.regs[i.dst]
            x  == cregs[i.dst]
            q  == SrcReg(st.regs, i)
            v  == Operand(i)
            at == Effective(r.type, i.off)
<1>3. ReadErrors(st.regs, i) = {} /\ \A k \in Reads(i) : is_readable(st.regs[k])
  BY <1>2, AcceptedReads
<1>4. i.src # Imm => i.src \in Reads(i)
  BY <1>2 DEF Reads
<1>5. /\ IsReg(q) /\ is_readable(q) /\ v \in Values /\ Tells(prog.meeting, q, v)
      /\ \A id : HasId(q, id) => Names(st, cregs, mem, id, v)
  BY <1>2, <1>3, <1>4, OperandTells
<1>. DEFINE out == check_store(st.regs, st.stack, i.dst, q, i.kind = "st", i.off, i.width)
<1>6. Eff(i).err = out.err /\ Eff(i).fall = [st EXCEPT !.stack = out.stack] /\ Eff(i).ids = 0
  BY <1>2, <1>3 DEF Eff, Execute, Effect
<1>7. /\ AccessError(r.type, i.off, i.width) = {}
      /\ out.stack = IF r.type.kind = "FramePtr" THEN StoredStack(st.stack, at, i.width, q, i.kind = "st") ELSE st.stack
  BY <1>2, <1>6 DEF check_store
<1>8. next_id' = next_id /\ UNCHANGED <<prog, cregs>>
  BY <1>1, <1>6 DEF Accepted, Agreed, Agree
<1>9. IsReg(r) /\ x \in Values \cup {Garbage} /\ Tells(prog.meeting, r, x)
  BY <1>2 DEF Agreed, Agree, Shaped
<1>10. StoresAside(i) /\ InRange(r.type, i.off, i.width)
  BY <1>1, <1>2 DEF Careful, CarefulInsn, EndsInRange, Base
<1>11. heap' \subseteq Pointers
  BY <1>1, <1>5, ValueKinds
<1>12. /\ r.type \in PtrTypes
       /\ r.type.kind = "FramePtr" =>
            /\ x \in Pointers /\ x.obj = Frm /\ Address(x, i.off) = Effective(r.type, i.off)
            /\ Effective(r.type, i.off) \in Int /\ Bytes(Effective(r.type, i.off), i.width) \subseteq Slots
       /\ r.type.kind \in {"CtxPtr", "MapValuePtr", "RingBufPtr", "DataPtr"} => x \in Pointers /\ x.obj # Frm
  <2>1. i.off \in Int /\ i.width \in Nat
    BY <1>2
  <2>. HIDE DEF r, x
  <2>. QED BY <1>7, <1>9, <1>10, <2>1, AccessTells, Zenon
<1>13. Agreed'
  <2>1. CASE r.type.kind = "FramePtr"
    <3>1. x.obj = Frm /\ Address(x, i.off) = at /\ at \in Int /\ Bytes(at, i.width) \subseteq Slots
      BY <1>12, <2>1
    <3>2. st' = [st EXCEPT !.stack = StoredStack(st.stack, at, i.width, q, i.kind = "st")]
      BY <1>1, <1>6, <1>7, <2>1
    <3>3. mem' = Stored(at, i.width, v)
      BY <1>1, <3>1
    <3>4. SparesSpills(Bytes(at, i.width), {at})
      BY <1>10, <2>1 DEF StoresAside
    <3>. DEFINE w == i.width
                b == i.kind = "st"
    <3>5. w \in Nat /\ b \in BOOLEAN
      BY <1>2
    <3>. HIDE DEF q, v, at, w, b
    <3>6. Agree(prog.meeting, [st EXCEPT !.stack = StoredStack(st.stack, at, w, q, b)], next_id, cregs, Stored(at, w, v))
      BY <1>5, <3>1, <3>4, <3>5, FrameStore DEF w
    <3>. QED BY <1>8, <3>2, <3>3, <3>6 DEF Agreed, w, b
  <2>2. CASE r.type.kind # "FramePtr"
    <3>1. x.obj # Frm
      <4>1. CASE r.type = KernelPtr
        <5>1. r.type.kind = "KernelPtr"
          BY <4>1 DEF KernelPtr
        <5>. QED BY <1>1, <1>10, <5>1 DEF StoresAside, InObject
      <4>. QED BY <1>12, <2>2, <4>1 DEF PtrTypes, InnerTypes
    <3>2. st' = [st EXCEPT !.stack = st.stack]
      BY <1>1, <1>6, <1>7, <2>2
    <3>3. st' = st
      BY <3>2 DEF Agreed, Agree, Shaped
    <3>. QED BY <1>1, <1>8, <3>1, <3>3 DEF Agreed
  <2>. QED BY <2>1, <2>2
<1>. QED BY <1>11, <1>13
-----------------------------------------------------------------------------
(* Helper calls. *)
Returns == {"Scalar", "ErrorCode", "KernelPtr", "MapPtr", "RingBufPtr"}

(* What the table says of every helper. *)
LEMMA HelperTable ==
  ASSUME NEW h \in DOMAIN HELPERS
  PROVE  /\ HELPERS[h].ret_type \in Returns
         /\ HELPERS[h].args # <<>> => /\ DOMAIN HELPERS[h].args \subseteq 1 .. 5 /\ 1 \in DOMAIN HELPERS[h].args
                                      /\ HELPERS[h].args[1] # "PtrToStack"
<1>1. HELPERS[h].ret_type \in Returns
  BY SMTT(60) DEF HELPERS, Helper, ProbeRead, NoArgs, Returns
<1>2. HELPERS[h].args # <<>> => DOMAIN HELPERS[h].args \subseteq 1 .. 5 /\ 1 \in DOMAIN HELPERS[h].args
  BY SMTT(60) DEF HELPERS, Helper, ProbeRead, NoArgs
<1>3. HELPERS[h].args # <<>> => HELPERS[h].args[1] # "PtrToStack"
  BY SMTT(60) DEF HELPERS, Helper, ProbeRead, NoArgs
<1>. QED BY <1>1, <1>2, <1>3

(* The first argument of an accepted call is in order. *)
LEMMA FirstArgument ==
  ASSUME NEW regs, NEW h \in DOMAIN HELPERS, CallError(regs, HELPERS[h].args) = {}, HELPERS[h].args # <<>>
  PROVE  ArgError(regs, HELPERS[h].args, 1) = {}
<1>. DEFINE args == HELPERS[h].args
            bad  == {i \in DOMAIN args : ArgError(regs, args, i) # {}}
<1>1. DOMAIN args \subseteq 1 .. 5 /\ 1 \in DOMAIN args
  BY HelperTable
<1>. SUFFICES ASSUME 1 \in bad PROVE FALSE
  BY <1>1
<1>2. 1 \in {k \in bad : \A j \in bad : k <= j}
  BY <1>1
<1>3. ArgError(regs, args, 1) \subseteq CallError(regs, args)
  BY <1>2 DEF CallError
<1>. QED BY <1>3

(* Registers after a call: r0 has what is returned, r1 to r5 are lost.     *)
LEMMA CallRegisters ==
  ASSUME NEW meeting, NEW s, NEW n, NEW c, NEW m, Agree(meeting, s, n, c, m),
         NEW k \in Nat, n <= k, NEW q, IsReg(q), NEW v \in Values, Tells(meeting, q, v),
         \A id : HasId(q, id) => id = n /\ n < k,
         NEW t, t = [regs |-> Clobbered([s.regs EXCEPT ![0] = q]), stack |-> s.stack],
         NEW d, d = [r \in Reg |-> IF r = R0 THEN v ELSE IF r \in 1 .. 5 THEN Garbage ELSE c[r]]
  PROVE  Agree(meeting, t, k, d, m)
<1>1. Shaped(s) /\ n \in Nat
  BY DEF Agree
<1>2. /\ DOMAIN t.regs = Reg /\ t.regs = [r \in Reg |-> t.regs[r]] /\ t = [regs |-> t.regs, stack |-> s.stack]
      /\ t.stack = s.stack
      /\ \A r \in Reg : t.regs[r] = IF r \in 1 .. 5 THEN uninit ELSE IF r = 0 THEN q ELSE s.regs[r]
  BY <1>1 DEF Shaped, Clobbered, Reg
<1>3. \A r \in Reg : /\ r = 0 => t.regs[r] = q /\ d[r] = v
                     /\ r \in 1 .. 5 => t.regs[r] = uninit /\ d[r] = Garbage
                     /\ r \notin 0 .. 5 => t.regs[r] = s.regs[r] /\ d[r] = c[r]
  BY <1>2 DEF Reg, R0
<1>4. Shaped(t)
  <2>1. \A r \in Reg : IsReg(t.regs[r])
    BY <1>1, <1>3, MadeTell DEF Shaped
  <2>2. is_readable(t.regs[R10])
    BY <1>1, <1>3 DEF Shaped, Reg, R10
  <2>. QED BY <1>1, <1>2, <2>1, <2>2 DEF Shaped
<1>5. \A r \in Reg : Tells(meeting, t.regs[r], d[r]) /\ d[r] \in Values \cup {Garbage}
  BY <1>3, MadeTell DEF Agree
<1>6. \A id : ~HasId(uninit, id)
  BY DEF HasId, uninit, RegOf, Uninit
<1>7. ASSUME NEW id, NEW w, Names(t, d, m, id, w)
      PROVE  (id = n /\ n < k /\ w = v) \/ Names(s, c, m, id, w)
  BY <1>2, <1>3, <1>6, <1>7 DEF Names
<1>8. \A id, w : Names(s, c, m, id, w) => id < n
  BY DEF Agree
<1>9. \A id, w : Names(t, d, m, id, w) => id < k
  <2>1. ASSUME NEW id, NEW w, Names(s, c, m, id, w) PROVE id < k
    <3>1. id \in Nat
      <4>1. \A p \in Held : \A j : HasId(p, j) => j \in Nat
        BY HeldTypes DEF HasId
      <4>2. \A r \in Reg : \A j : HasId(s.regs[r], j) => s.regs[r] \in Held
        BY <1>1, RegKinds DEF Shaped, HasId
      <4>. QED BY <1>1, <2>1, <4>1, <4>2 DEF Names, Shaped
    <3>. QED BY <1>1, <1>8, <2>1, <3>1
  <2>. QED BY <1>7, <2>1
<1>10. ASSUME NEW id, NEW w, NEW x, Names(t, d, m, id, w), Names(t, d, m, id, x) PROVE w = x
  <2>1. ~(n < n)
    BY <1>1
  <2>2. Names(s, c, m, id, w) /\ Names(s, c, m, id, x) => w = x
    BY DEF Agree
  <2>3. id = n => ~Names(s, c, m, id, w) /\ ~Names(s, c, m, id, x)
    BY <1>8, <2>1
  <2>. QED BY <1>7, <1>10, <2>2, <2>3
<1>11. DOMAIN d = Reg /\ d = [r \in Reg |-> d[r]]
  OBVIOUS
<1>. QED BY <1>2, <1>4, <1>5, <1>9, <1>10, <1>11 DEF Agree

(* A number in a register, known or not, is a word. *)
LEMMA TrackedWord ==
  ASSUME NEW r, IsReg(r)
  PROVE  r.tnum.value \in Word
<1>1. 0 \in Word
  BY WordFacts
<1>2. CASE WellFormed(r)
  BY <1>2, Fields DEF IsTnum
<1>3. CASE r = null
  BY <1>1, <1>3 DEF null, scalar_value, constant
<1>4. CASE \E t : r = RegOf(t)
  BY <1>1, <1>4 DEF RegOf, unknown
<1>. QED BY <1>2, <1>3, <1>4, HeldTypes DEF IsReg, uninit

(* What a call returns. *)
LEMMA ReturnTells ==
  ASSUME Agreed, NEW h \in DOMAIN HELPERS, NEW v \in CReturn(h),
         HELPERS[h].ret_type = "RingBufPtr" => is_known(st.regs[2].tnum)
  PROVE  LET ret == HELPERS[h].ret_type
             q   == Returned(ret, st.regs[2], next_id)
         IN /\ IsReg(q) /\ is_readable(q) /\ v \in Values /\ Tells(prog.meeting, q, v)
            /\ \A id : HasId(q, id) => id = next_id /\ Fresh(ret) = 1
            /\ Fresh(ret) \in {0, 1}
<1>. DEFINE ret == HELPERS[h].ret_type
            r2  == st.regs[2]
            q   == Returned(ret, r2, next_id)
<1>. SUFFICES /\ IsReg(q) /\ is_readable(q) /\ v \in Values /\ Tells(prog.meeting, q, v)
              /\ \A id : HasId(q, id) => id = next_id /\ Fresh(ret) = 1
              /\ Fresh(ret) \in {0, 1}
  OBVIOUS
<1>1. ret \in Returns
  BY HelperTable
<1>2. Fresh(ret) \in {0, 1} /\ (ret \in {"MapPtr", "RingBufPtr"} => Fresh(ret) = 1)
  BY DEF Fresh
<1>3. next_id \in Nat /\ IsReg(r2) /\ cregs[2] \in Values \cup {Garbage} /\ Tells(prog.meeting, r2, cregs[2])
  BY DEF Agreed, Agree, Shaped, Reg
<1>4. Num(0) \in Values
  BY ValueKinds, WordFacts
<1>5. CASE ret \in {"Scalar", "ErrorCode"}
  <2>1. q = scalar_unknown /\ v \in Values
    BY <1>5, FoundNumbers DEF Returned, CReturn
  <2>2. \A id : ~HasId(q, id)
    BY <2>1 DEF HasId, scalar_unknown, RegOf, Scalar
  <2>. QED BY <1>2, <2>1, <2>2, MadeTell
<1>6. CASE ret = "KernelPtr"
  <2>1. q = kernel_ptr /\ v = Pointer(Kernel, 0)
    BY <1>6 DEF Returned, CReturn
  <2>2. \A id : ~HasId(q, id)
    BY <2>1 DEF HasId, kernel_ptr, RegOf, KernelPtr
  <2>3. v \in Values
    BY <2>1, ValueKinds, ObjectKinds
  <2>4. IsReg(q) /\ is_readable(q)
    BY <2>1, MadeTell, HeldTypes DEF IsReg
  <2>. QED BY <1>2, <2>1, <2>2, <2>3, <2>4, MadeTell
<1>7. ASSUME NEW inner \in InnerTypes, inner.off = 0, q = RegOf(PtrOrNull(inner, next_id)),
             Fresh(ret) = 1,
             v = Num(0) \/ \E o \in Objects : /\ v = Pointer(o, 0) /\ o.size = inner.size
                                              /\ o.kind = IF inner.kind = "MapValuePtr" THEN "map" ELSE "ringbuf"
      PROVE  /\ IsReg(q) /\ is_readable(q) /\ v \in Values /\ Tells(prog.meeting, q, v)
             /\ \A id : HasId(q, id) => id = next_id /\ Fresh(ret) = 1
             /\ Fresh(ret) \in {0, 1}
  <2>. DEFINE t == PtrOrNull(inner, next_id)
  <2>1. t \in NullTypes /\ t.kind = "PtrOrNull" /\ t.id = next_id /\ t.inner = inner
    BY <1>3 DEF NullTypes, PtrOrNull
  <2>2. q \in Held /\ q.type = t
    BY <1>7, <2>1 DEF Held, RegOf
  <2>3. v = Num(0) \/ (v \in Pointers /\ DescribesPtr(inner, v))
    <3>1. inner \in PtrTypes /\ inner.kind \in {"MapValuePtr", "RingBufPtr"} /\ inner # KernelPtr
      BY DEF PtrTypes, InnerTypes, KernelPtr
    <3>2. ASSUME NEW o \in Objects, v = Pointer(o, 0), o.size = inner.size,
                 o.kind = IF inner.kind = "MapValuePtr" THEN "map" ELSE "ringbuf"
          PROVE  v \in Pointers /\ DescribesPtr(inner, v)
      <4>1. v \in Pointers /\ v \in Values
        BY <3>2, ValueKinds
      <4>2. v.obj = o /\ v.off = 0
        BY <3>2 DEF Pointer
      <4>. QED BY <1>7, <3>1, <3>2, <4>1, <4>2, PtrSays
    <3>. QED BY <1>7, <3>2
  <2>4. v \in Values
    BY <1>4, <2>3, ValueKinds
  <2>. HIDE DEF q, t
  <2>5. Tells(prog.meeting, q, v)
    BY <2>1, <2>2, <2>3, <2>4, HeldSays
  <2>6. IsReg(q) /\ is_readable(q)
    BY <2>2, HeldTypes DEF IsReg
  <2>7. \A id : HasId(q, id) => id = next_id
    BY <2>1, <2>2 DEF HasId
  <2>. QED BY <1>7, <2>4, <2>5, <2>6, <2>7
<1>8. CASE ret = "MapPtr"
  <2>. DEFINE size == DEFAULT_MAP_VALUE_SIZE
              inner == MapValuePtr(next_id, 0, size)
  <2>1. size \in Nat
    BY SizesAssumption
  <2>2. inner \in InnerTypes /\ inner.off = 0 /\ inner.size = size /\ inner.kind = "MapValuePtr"
    BY <1>3, <2>1 DEF InnerTypes, MapValuePtr
  <2>3. q = RegOf(PtrOrNull(inner, next_id)) /\ Fresh(ret) = 1
    BY <1>2, <1>8 DEF Returned
  <2>4. v = Num(0) \/ v = Pointer(Object("map", next_id, size), 0)
    BY <1>8 DEF CReturn
  <2>5. LET o == Object("map", next_id, size) IN o \in Objects /\ o.size = size /\ o.kind = "map"
    BY <1>3, <2>1, ObjectKinds
  <2>6. v = Num(0) \/ \E o \in Objects : /\ v = Pointer(o, 0) /\ o.size = inner.size
                                          /\ o.kind = IF inner.kind = "MapValuePtr" THEN "map" ELSE "ringbuf"
    BY <2>2, <2>4, <2>5
  <2>. HIDE DEF q, inner, size
  <2>. QED BY <1>7, <2>2, <2>3, <2>6
<1>9. CASE ret = "RingBufPtr"
  <2>. DEFINE size == Low(r2.tnum.value)
              inner == RingBufPtr(next_id, 0, size)
  <2>1. size \in Nat
    <3>1. r2.tnum.value \in Word /\ Low(r2.tnum.value) \in Word
      BY <1>3, TrackedWord, LowIsWord, WordInt
    <3>. QED BY <3>1, WordInt
  <2>2. inner \in InnerTypes /\ inner.off = 0 /\ inner.size = size /\ inner.kind = "RingBufPtr"
    BY <1>3, <2>1 DEF InnerTypes, RingBufPtr
  <2>3. q = RegOf(PtrOrNull(inner, next_id)) /\ Fresh(ret) = 1
    BY <1>2, <1>9 DEF Returned, ReserveSize
  <2>4. v = Num(0) \/ (IsNum(cregs[2]) /\ v = Pointer(Object("ringbuf", next_id, Low(cregs[2].num)), 0))
    BY <1>9 DEF CReturn
  <2>5. IsNum(cregs[2]) => cregs[2].num = r2.tnum.value
    <3>1. IsNum(cregs[2]) => cregs[2] = Num(r2.tnum.value)
      BY <1>3, <1>9, KnownNumber
    <3>. QED BY <3>1 DEF Num
  <2>6. LET o == Object("ringbuf", next_id, size) IN o \in Objects /\ o.size = size /\ o.kind = "ringbuf"
    BY <1>3, <2>1, ObjectKinds
  <2>7. v = Num(0) \/ v = Pointer(Object("ringbuf", next_id, size), 0)
    BY <2>4, <2>5
  <2>8. v = Num(0) \/ \E o \in Objects : /\ v = Pointer(o, 0) /\ o.size = inner.size
                                          /\ o.kind = IF inner.kind = "MapValuePtr" THEN "map" ELSE "ringbuf"
    BY <2>2, <2>6, <2>7
  <2>. HIDE DEF q, inner, size
  <2>. QED BY <1>7, <2>2, <2>3, <2>8
<1>. QED BY <1>1, <1>5, <1>6, <1>8, <1>9 DEF Returns

(* A write by a helper through its first argument is recorded in full.     *)
LEMMA FilledBytes ==
  ASSUME Agreed, NEW h \in DOMAIN HELPERS, CallError(st.regs, HELPERS[h].args) = {},
         Written(h) \subseteq {1}, CallBytes(h) \subseteq Slots,
         FillsInFrame(h) => is_known(st.regs[2].tnum) /\ IsNum(cregs[2]) /\ st.regs[2].tnum.value < U8
  PROVE  LET at == st.regs[1].type.off
             n  == WriteSize(st.regs[2])
         IN \/ FillsInFrame(h) /\ at \in Int /\ n \in Nat /\ CallBytes(h) = Bytes(at, n)
            \/ ~FillsInFrame(h) /\ CallBytes(h) = {}
<1>. DEFINE r1 == st.regs[1]
            r2 == st.regs[2]
            c1 == cregs[1]
            c2 == cregs[2]
            k  == r2.tnum.value
<1>1. /\ IsReg(r1) /\ c1 \in Values \cup {Garbage} /\ Tells(prog.meeting, r1, c1)
      /\ IsReg(r2) /\ c2 \in Values \cup {Garbage} /\ Tells(prog.meeting, r2, c2)
  BY DEF Agreed, Agree, Shaped, Reg
<1>2. CallBytes(h) = IF 1 \in Written(h) THEN Bytes(c1.off, c2.num) ELSE {}
  <2>1. CASE 1 \in Written(h)
    <3>1. Written(h) = {1}
      BY <2>1
    <3>. QED BY <2>1, <3>1 DEF CallBytes
  <2>2. CASE 1 \notin Written(h)
    <3>1. Written(h) = {}
      BY <2>2
    <3>. QED BY <2>2, <3>1 DEF CallBytes
  <2>. QED BY <2>1, <2>2
<1>3. HELPERS[h].args = <<>> => DOMAIN HELPERS[h].args = {}
  OBVIOUS
<1>4. HELPERS[h].args # <<>> => 1 \in DOMAIN HELPERS[h].args
  BY HelperTable
<1>5. CASE FillsInFrame(h)
  <2>1. r1.type.kind = "FramePtr" /\ HELPERS[h].args # <<>> /\ HELPERS[h].args[1] = "PtrToMem"
    BY <1>5 DEF FillsInFrame
  <2>2. r1 \in Held /\ is_ptr(r1.type)
    BY <1>1, <2>1, RegKinds DEF is_ptr
  <2>3. r1.type \in PtrTypes /\ DescribesPtr(r1.type, c1)
    BY <1>1, <2>2, HeldTypes, HeldSays
  <2>4. r1.type.off \in Int /\ c1 \in Pointers /\ c1.obj = Frm /\ c1.off = r1.type.off
    BY <1>1, <2>1, <2>3, PtrSays
  <2>5. IsPointer(c1) /\ IsNum(c2) /\ is_known(r2.tnum) /\ k < U8
    BY <1>5, <2>4, ValueKinds
  <2>6. c2 = Num(k) /\ k \in Word
    BY <1>1, <2>5, KnownNumber
  <2>7. c2.num = k /\ k \in Nat
    BY <2>6, WordInt DEF Num
  <2>8. 1 \in Written(h)
    BY <1>4, <2>1, <2>4, <2>5 DEF Written
  <2>9. CallBytes(h) = Bytes(r1.type.off, k)
    BY <1>2, <2>4, <2>7, <2>8
  <2>10. k <= STACK_SIZE
    <3>. DEFINE at == r1.type.off
    <3>. SUFFICES ASSUME k > 0 PROVE k <= STACK_SIZE
      BY <2>7, FrameAssumption
    <3>1. at \in Bytes(at, k) /\ at + k - 1 \in Bytes(at, k)
      BY <2>4, <2>7 DEF Bytes
    <3>2. at \in Slots /\ at + k - 1 \in Slots
      BY <2>9, <3>1
    <3>. QED BY <2>4, <2>7, <3>2, FrameAssumption DEF Slots
  <2>11. WriteSize(r2) = k % U8
    BY <2>5, <2>7, <2>10, FrameAssumption DEF WriteSize, Lesser
  <2>12. k % U8 = k
    BY <2>5, <2>7, SizesAssumption
  <2>. QED BY <1>5, <2>4, <2>7, <2>9, <2>11, <2>12
<1>6. CASE ~FillsInFrame(h)
  <2>. SUFFICES ASSUME 1 \in Written(h) PROVE FALSE
    BY <1>2, <1>6
  <2>1. HELPERS[h].args # <<>> /\ HELPERS[h].args[1] = "PtrToMem" /\ IsPointer(c1) /\ c1.obj = Frm
    BY <1>3 DEF Written
  <2>2. ArgError(st.regs, HELPERS[h].args, 1) = {}
    BY <2>1, FirstArgument
  <2>3. is_readable(r1) /\ r1.type.kind \in Accepts("PtrToMem")
    BY <2>1, <2>2 DEF ArgError
  <2>4. r1.type.kind \in {"MapValuePtr", "RingBufPtr"}
    BY <1>6, <2>1, <2>3 DEF Accepts, FillsInFrame
  <2>5. r1 \in Held /\ is_ptr(r1.type)
    BY <1>1, <2>4, RegKinds DEF is_ptr
  <2>6. r1.type \in PtrTypes /\ DescribesPtr(r1.type, c1)
    BY <1>1, <2>5, HeldTypes, HeldSays
  <2>7. c1.obj.kind \in {"map", "ringbuf"}
    BY <1>1, <2>4, <2>6, PtrSays
  <2>. QED BY <2>1, <2>7, ObjectKinds
<1>. QED BY <1>5, <1>6

LEMMA CallMemory ==
  ASSUME Agreed, NEW h \in DOMAIN HELPERS, CallError(st.regs, HELPERS[h].args) = {},
         Written(h) \subseteq {1}, CallBytes(h) \subseteq Slots, SparesSpills(CallBytes(h), {}),
         FillsInFrame(h) => is_known(st.regs[2].tnum) /\ IsNum(cregs[2]) /\ st.regs[2].tnum.value < U8
  PROVE  Agree(prog.meeting, [st EXCEPT !.stack = WrittenByCall(st.stack, h, st.regs[1], st.regs[2])],
               next_id, cregs, CCallMem(h))
<1>. DEFINE bytes  == CallBytes(h)
            spills == st.stack.spills
            m2     == CCallMem(h)
            at     == st.regs[1].type.off
            n      == WriteSize(st.regs[2])
            t      == WrittenByCall(st.stack, h, st.regs[1], st.regs[2])
<1>. SUFFICES Agree(prog.meeting, [st EXCEPT !.stack = t], next_id, cregs, m2)
  OBVIOUS
<1>1. Agree(prog.meeting, st, next_id, cregs, mem)
  BY DEF Agreed
<1>2. /\ Shaped(st) /\ IsPair(st.stack)
      /\ DOMAIN mem = Slots /\ \A b \in Slots : mem[b] \in Content
  BY <1>1 DEF Agree, Shaped, IsPair
<1>3. bytes \in SUBSET Slots
  OBVIOUS
<1>4. /\ DOMAIN m2 = Slots /\ \A b \in Slots \ bytes : m2[b] = mem[b]
      /\ \A b \in bytes : m2[b] = Foreign
  BY <1>3 DEF CCallMem
<1>5. Foreign \in Content /\ Foreign # Blank
  BY DEF Content, Foreign, Byte, Blank
<1>6. (\A b \in Slots : m2[b] \in Content) /\ (\A b \in bytes : m2[b] # Blank)
  <2>. HIDE DEF m2, bytes
  <2>. QED BY <1>2, <1>4, <1>5
<1>7. \/ FillsInFrame(h) /\ at \in Int /\ n \in Nat /\ bytes = Bytes(at, n)
      \/ ~FillsInFrame(h) /\ bytes = {}
  BY FilledBytes
<1>8. FillsInFrame(h) <=> /\ HELPERS[h].args # <<>>
                          /\ HELPERS[h].args[1] \in {"PtrToMem", "PtrToStack"}
                          /\ st.regs[1].type.kind = "FramePtr"
  BY HelperTable DEF FillsInFrame
<1>9. bytes \cap Slots = bytes
  BY <1>3
<1>10. DW \in Nat \ {0}
  BY FrameAssumption
<1>. HIDE DEF bytes, m2, at
<1>11. CASE FillsInFrame(h) /\ n > 0 /\ n = DW /\ h \in KernelReads
  <2>1. t = spill(st.stack, at, kernel_ptr)
    BY <1>8, <1>11 DEF WrittenByCall, at
  <2>2. t = [init |-> st.stack.init \cup (Bytes(at, DW) \cap Slots),
             spills |-> WithSpill(spills, at, kernel_ptr)]
    BY <1>2, <2>1, SpillForm
  <2>. HIDE DEF t
  <2>3. bytes = Bytes(at, DW) /\ at \in Int
    BY <1>7, <1>11
  <2>4. /\ t = [init |-> t.init, spills |-> t.spills] /\ t.init = st.stack.init \cup bytes
        /\ DOMAIN t.spills = DOMAIN spills \cup {at} /\ t.spills = [o \in DOMAIN t.spills |-> t.spills[o]]
        /\ t.spills[at] = kernel_ptr /\ \A o \in DOMAIN spills \ {at} : t.spills[o] = spills[o]
    BY <1>9, <2>2, <2>3 DEF WithSpill
  <2>5. at \in Slots
    BY <1>3, <1>10, <2>3 DEF Bytes
  <2>6. \A o \in DOMAIN t.spills : o \in Slots /\ Bytes(o, DW) \subseteq Slots /\ t.spills[o] \in Held
    BY <1>2, <1>3, <2>3, <2>4, <2>5, MadeTell DEF Shaped
  <2>7. \A o \in DOMAIN t.spills : Remains(st.stack, t, bytes, o) \/ Enters(st, cregs, mem, t, m2, o)
    <3>1. ASSUME NEW o \in DOMAIN spills \ {at} PROVE Remains(st.stack, t, bytes, o)
      BY <2>4 DEF SparesSpills, Remains, bytes
    <3>2. bytes \subseteq WrittenIn(m2)
      BY <1>3, <1>6 DEF WrittenIn
    <3>3. SpillTells(m2, t.spills[at], at)
      BY <2>3, <2>4, <3>2, MadeTell DEF SpillTells
    <3>4. \A id : ~HasId(t.spills[at], id)
      BY <2>4, MadeTell DEF HasId, KernelPtr
    <3>5. Enters(st, cregs, mem, t, m2, at)
      BY <3>3, <3>4 DEF Enters
    <3>. QED BY <2>4, <3>1, <3>5
  <2>. QED BY <1>1, <1>3, <1>4, <1>6, <2>4, <2>6, <2>7, StackChanges
<1>12. ASSUME t = [init |-> st.stack.init \cup bytes, spills |-> spills]
       PROVE  Agree(prog.meeting, [st EXCEPT !.stack = t], next_id, cregs, m2)
  <2>. HIDE DEF t
  <2>1. /\ t = [init |-> t.init, spills |-> t.spills] /\ t.init = st.stack.init \cup bytes /\ t.spills = spills
        /\ t.spills = [o \in DOMAIN t.spills |-> t.spills[o]]
    BY <1>2, <1>12 DEF Shaped
  <2>2. \A o \in DOMAIN t.spills : o \in Slots /\ Bytes(o, DW) \subseteq Slots /\ t.spills[o] \in Held
    BY <1>2, <2>1 DEF Shaped
  <2>3. \A o \in DOMAIN t.spills : Remains(st.stack, t, bytes, o)
    BY <2>1 DEF SparesSpills, Remains, bytes
  <2>. QED BY <1>1, <1>3, <1>4, <1>6, <2>1, <2>2, <2>3, StackChanges
<1>13. CASE FillsInFrame(h) /\ n > 0 /\ ~(n = DW /\ h \in KernelReads)
  <2>1. t = mark_written(st.stack, at, n)
    BY <1>8, <1>13 DEF WrittenByCall, at
  <2>2. t = [init |-> st.stack.init \cup (Bytes(at, n) \cap Slots), spills |-> spills]
    <3>. HIDE DEF n
    <3>. QED BY <1>2, <2>1, MarkForm
  <2>. HIDE DEF t, n
  <2>3. t = [init |-> st.stack.init \cup bytes, spills |-> spills]
    BY <1>7, <1>9, <1>13, <2>2
  <2>. QED BY <1>12, <2>3
<1>14. CASE ~(FillsInFrame(h) /\ n > 0)
  <2>1. t = st.stack
    BY <1>8, <1>14 DEF WrittenByCall
  <2>2. bytes = {}
    <3>1. CASE FillsInFrame(h)
      <4>. HIDE DEF n
      <4>1. n = 0 /\ at \in Int /\ bytes = Bytes(at, 0)
        BY <1>7, <1>14, <3>1
      <4>. QED BY <4>1 DEF Bytes
    <3>. QED BY <1>7, <3>1
  <2>3. t = [init |-> st.stack.init \cup bytes, spills |-> spills]
    BY <1>2, <2>1, <2>2 DEF IsPair
  <2>. HIDE DEF t
  <2>. QED BY <1>12, <2>3
<1>. QED BY <1>11, <1>13, <1>14

LEMMA CallKeeps ==
  ASSUME Agreed, prog.insns \subseteq Instructions, Careful, CallStep
  PROVE  Agreed'
<1>1. PICK i \in prog.insns :
        /\ Accepted(i, "call") /\ st' = Eff(i).fall
        /\ \E v \in CReturn(i.helper) :
             cregs' = [r \in Reg |-> IF r = R0 THEN v ELSE IF r \in 1 .. 5 THEN Garbage ELSE cregs[r]]
        /\ CallBytes(i.helper) \subseteq Slots
        /\ mem' = CCallMem(i.helper)
  BY DEF CallStep
<1>. DEFINE h   == i.helper
            ret == HELPERS[h].ret_type
            q   == Returned(ret, st.regs[2], next_id)
            stk == WrittenByCall(st.stack, h, st.regs[1], st.regs[2])
<1>2. PICK v \in CReturn(h) :
        cregs' = [r \in Reg |-> IF r = R0 THEN v ELSE IF r \in 1 .. 5 THEN Garbage ELSE cregs[r]]
  BY <1>1
<1>3. i \in Instructions /\ i.kind = "call" /\ Eff(i).err = {} /\ SizesAreKnown(i)
  BY <1>1 DEF Accepted, Careful, CarefulInsn
<1>4. ReadErrors(st.regs, i) = {}
  BY <1>3, AcceptedReads
<1>5. /\ h \in DOMAIN HELPERS /\ CallError(st.regs, HELPERS[h].args) = {}
      /\ Eff(i).ids = Fresh(ret)
      /\ Eff(i).fall = [regs |-> Clobbered([st.regs EXCEPT ![0] = q]), stack |-> stk]
  <2>. DEFINE out == check_call(st.regs, st.stack, h, next_id)
  <2>1. Eff(i) = Effect(out.err, [regs |-> out.regs, stack |-> out.stack], st, out.ids)
    BY <1>3, <1>4 DEF Eff, Execute
  <2>2. out.err = {} /\ Eff(i).ids = out.ids /\ Eff(i).fall = [regs |-> out.regs, stack |-> out.stack]
    BY <1>3, <2>1 DEF Effect
  <2>. QED BY <2>2 DEF check_call
<1>6. /\ Written(h) \subseteq {1} /\ SparesSpills(CallBytes(h), {})
      /\ FillsInFrame(h) => is_known(st.regs[2].tnum) /\ IsNum(cregs[2]) /\ st.regs[2].tnum.value < U8
      /\ ret = "RingBufPtr" => is_known(st.regs[2].tnum)
  BY <1>3 DEF SizesAreKnown
<1>7. /\ IsReg(q) /\ is_readable(q) /\ v \in Values /\ Tells(prog.meeting, q, v)
      /\ \A id : HasId(q, id) => id = next_id /\ Fresh(ret) = 1
      /\ Fresh(ret) \in {0, 1}
  BY <1>5, <1>6, ReturnTells
<1>. DEFINE s == [st EXCEPT !.stack = stk]
<1>8. Agree(prog.meeting, s, next_id, cregs, mem')
  BY <1>1, <1>5, <1>6, CallMemory
<1>9. s.regs = st.regs /\ s.stack = stk
  BY DEF Agreed, Agree, Shaped
<1>10. next_id \in Nat /\ next_id' = next_id + Fresh(ret) /\ prog' = prog
  BY <1>1, <1>5 DEF Accepted, Agreed, Agree
<1>11. st' = [regs |-> Clobbered([s.regs EXCEPT ![0] = q]), stack |-> s.stack]
  BY <1>1, <1>5, <1>9
<1>12. next_id' \in Nat /\ next_id <= next_id' /\ \A id : HasId(q, id) => id = next_id /\ next_id < next_id'
  BY <1>7, <1>10
<1>. HIDE DEF s, q, ret
<1>13. Agree(prog.meeting, st', next_id', cregs', mem')
  BY <1>2, <1>7, <1>8, <1>11, <1>12, CallRegisters
<1>. QED BY <1>10, <1>13 DEF Agreed

-----------------------------------------------------------------------------
(* Branches. *)

(* Whoever has the nullable pointer id becomes what it is found to be. *)
LEMMA RefinedAgree ==
  ASSUME NEW meeting, NEW s, NEW n, NEW c, NEW m, Agree(meeting, s, n, c, m),
         NEW id, NEW x \in Values, Names(s, c, m, id, x), NEW type,
         \/ type = Null /\ x = Num(0)
         \/ type \in InnerTypes /\ DescribesPtr(type, x)
  PROVE  Agree(meeting, WithId(s, id, type), n, c, m)
<1>. DEFINE t == WithId(s, id, type)
            q == IF type = Null THEN null ELSE RegOf(type)
<1>1. /\ q \in Held /\ is_readable(q) /\ IsReg(q) /\ Describes(q, x) /\ \A k : ~HasId(q, k)
  <2>1. CASE type = Null
    <3>1. q = null /\ q \in Held /\ x = Num(0)
      <4>1. Null \notin InnerTypes
        BY DEF Null, InnerTypes
      <4>. QED BY <2>1, <4>1, MadeTell
    <3>2. q.type.kind = "Null"
      BY <3>1, HeldTypes
    <3>. HIDE DEF q
    <3>. QED BY <3>1, <3>2, HeldTypes, HeldSays DEF HasId, IsReg
  <2>2. CASE type # Null
    <3>1. type \in PtrTypes /\ q = RegOf(type) /\ type.kind # "PtrOrNull"
      BY <2>2 DEF PtrTypes, InnerTypes
    <3>2. q \in Held /\ q.type = type
      BY <3>1 DEF Held, RegOf
    <3>. HIDE DEF q
    <3>. QED BY <2>2, <3>1, <3>2, HeldTypes, HeldSays DEF HasId, IsReg
  <2>. QED BY <2>1, <2>2
<1>2. ASSUME NEW r \in Held, HasId(r, id)
      PROVE  (IF type = Null THEN null ELSE [r EXCEPT !.type = type]) = q
  <2>1. r = RegOf(r.type)
    BY <1>2, HeldTypes DEF HasId
  <2>. QED BY <2>1 DEF RegOf
<1>3. Shaped(s)
  BY DEF Agree
<1>4. \A r \in Reg : HasId(s.regs[r], id) => s.regs[r] \in Held
  BY <1>3, RegKinds DEF Shaped, HasId
<1>5. \A o \in DOMAIN s.stack.spills : s.stack.spills[o] \in Held
  BY <1>3 DEF Shaped
<1>. HIDE DEF q
<1>6. /\ t = [regs |-> t.regs, stack |-> [init |-> t.stack.init, spills |-> t.stack.spills]]
      /\ t.stack.init = s.stack.init
      /\ t.regs = Refined(s.regs, id, type)
      /\ t.stack.spills = Refined(s.stack.spills, id, type)
  <2>. DEFINE sp == Refined(s.stack.spills, id, type)
              rg == Refined(s.regs, id, type)
              st0 == s.stack
  <2>1. s.stack = [init |-> st0.init, spills |-> st0.spills]
    <3>1. s = [regs |-> s.regs, stack |-> [init |-> s.stack.init, spills |-> s.stack.spills]]
      BY <1>3 DEF Shaped
    <3>. QED BY <3>1
  <2>2. t = [regs |-> rg, stack |-> [st0 EXCEPT !.spills = sp]]
    BY DEF WithId
  <2>. HIDE DEF sp, rg, st0, t
  <2>3. [st0 EXCEPT !.spills = sp] = [init |-> st0.init, spills |-> sp]
    BY <2>1 DEF st0
  <2>. QED BY <2>2, <2>3 DEF sp, rg, st0
<1>7. /\ DOMAIN t.regs = Reg /\ t.regs = [r \in Reg |-> t.regs[r]]
      /\ \A r \in Reg : t.regs[r] = IF HasId(s.regs[r], id) THEN q ELSE s.regs[r]
  <2>1. DOMAIN s.regs = Reg
    BY <1>3 DEF Shaped
  <2>. QED BY <1>2, <1>4, <1>6, <2>1 DEF Refined, HasId
<1>8. /\ DOMAIN t.stack.spills = DOMAIN s.stack.spills
      /\ t.stack.spills = [o \in DOMAIN t.stack.spills |-> t.stack.spills[o]]
      /\ \A o \in DOMAIN s.stack.spills :
           t.stack.spills[o] = IF HasId(s.stack.spills[o], id) THEN q ELSE s.stack.spills[o]
  BY <1>2, <1>5, <1>6 DEF Refined, HasId
<1>. HIDE DEF t
<1>9. Shaped(t)
  <2>1. \A r \in Reg : IsReg(t.regs[r])
    BY <1>1, <1>3, <1>7 DEF Shaped
  <2>2. is_readable(t.regs[R10])
    <3>1. R10 \in Reg
      BY DEF Reg, R10
    <3>. QED BY <1>1, <1>3, <1>7, <3>1 DEF Shaped
  <2>3. \A o \in DOMAIN t.stack.spills :
          o \in Slots /\ Bytes(o, DW) \subseteq Slots /\ t.stack.spills[o] \in Held
    BY <1>1, <1>3, <1>8 DEF Shaped
  <2>4. t.stack.init \subseteq Slots
    BY <1>3, <1>6 DEF Shaped
  <2>. QED BY <1>6, <1>7, <1>8, <2>1, <2>2, <2>3, <2>4 DEF Shaped
<1>10. \A r \in Reg : HasId(s.regs[r], id) => c[r] = x
  <2>1. \A v, w : Names(s, c, m, id, v) /\ Names(s, c, m, id, w) => v = w
    BY DEF Agree
  <2>. QED BY <2>1 DEF Names
<1>11. \A r \in Reg : Tells(meeting, t.regs[r], c[r])
  <2>1. Tells(meeting, q, x)
    BY <1>1, HeldSays
  <2>2. \A r \in Reg : Tells(meeting, s.regs[r], c[r])
    BY DEF Agree
  <2>. QED BY <1>7, <1>10, <2>1, <2>2
<1>12. \A o \in DOMAIN t.stack.spills : SpillTells(m, t.stack.spills[o], o)
  <2>. SUFFICES ASSUME NEW o \in DOMAIN s.stack.spills PROVE SpillTells(m, t.stack.spills[o], o)
    BY <1>8
  <2>1. SpillTells(m, s.stack.spills[o], o)
    BY DEF Agree
  <2>2. CASE HasId(s.stack.spills[o], id)
    <3>1. s.stack.spills[o].type # KernelPtr
      BY <2>2 DEF HasId, KernelPtr
    <3>2. PICK v \in Values : Lies(m, o, v)
      BY <2>1, <3>1 DEF SpillTells
    <3>3. Names(s, c, m, id, v)
      BY <2>2, <3>2 DEF Names
    <3>4. v = x
      BY <3>3 DEF Agree
    <3>. QED BY <1>1, <1>8, <2>2, <3>2, <3>4 DEF SpillTells
  <2>3. CASE ~HasId(s.stack.spills[o], id)
    BY <1>8, <2>1, <2>3
  <2>. QED BY <2>2, <2>3
<1>13. \A k, w : Names(t, c, m, k, w) => Names(s, c, m, k, w)
  BY <1>1, <1>7, <1>8 DEF Names
<1>. QED BY <1>6, <1>9, <1>11, <1>12, <1>13 DEF Agree, t

(* Where a conditional jump leads, what is refined is true of the machine. *)
LEMMA BranchTells ==
  ASSUME Agreed, NEW i \in Instructions, i.kind = "jmp", Eff(i).err = {}, ComparesNumbers(i),
         NEW taken \in CJumps(i, cregs[i.dst], Operand(i))
  PROVE  Agree(prog.meeting, IF taken THEN Eff(i).taken ELSE Eff(i).fall, next_id, cregs, mem)
<1>. DEFINE d  == st.regs[i.dst]
            s  == SrcReg(st.regs, i)
            x  == cregs[i.dst]
            y  == Operand(i)
            k  == s.tnum.value
            to == IF taken THEN Eff(i).taken ELSE Eff(i).fall
<1>1. ReadErrors(st.regs, i) = {} /\ \A r \in Reads(i) : r \in Reg /\ is_readable(st.regs[r]) /\ cregs[r] \in Values
  BY AcceptedReads
<1>2. Eff(i).taken = BranchStates(st, i).taken /\ Eff(i).fall = BranchStates(st, i).fall
  BY <1>1 DEF Eff, Execute, Effect
<1>3. /\ i.op \in JmpOp /\ i.wide \in BOOLEAN /\ i.dst \in Reg
      /\ i.src # Imm => i.src \in Reads(i)
      /\ i.dst \in Reads(i)
  BY DEF Instructions, JmpOpcode, JmpOp, Reads
<1>4. /\ IsReg(s) /\ is_readable(s) /\ y \in Values /\ Tells(prog.meeting, s, y)
  BY <1>1, <1>3, OperandTells
<1>5. IsReg(d) /\ Tells(prog.meeting, d, x) /\ is_readable(d) /\ x \in Values
  BY <1>1, <1>3 DEF Agreed, Agree, Shaped
<1>6. CASE Eff(i).taken = st /\ Eff(i).fall = st
  BY <1>6 DEF Agreed
<1>7. ASSUME is_known(s.tnum) PROVE y = Num(k) /\ k \in Word /\ IsNum(y)
  <2>1. IsNum(y)
    BY <1>7 DEF ComparesNumbers
  <2>. QED BY <1>4, <1>7, <2>1, KnownNumber
<1>8. CASE is_known(s.tnum) /\ d.type.kind = "PtrOrNull" /\ k = 0 /\ i.op \in {"Jeq", "Jne"}
  <2>. DEFINE id == d.type.id
              in == d.type.inner
  <2>1. i.wide
    BY <1>8 DEF ComparesNumbers
  <2>2. y = Num(0) /\ IsNum(y) /\ y.num = 0
    BY <1>7, <1>8 DEF Num
  <2>3. d \in Held /\ in \in InnerTypes
    BY <1>5, <1>8, RegKinds, HeldTypes
  <2>4. x = Num(0) \/ DescribesPtr(in, x)
    BY <1>5, <1>8, <2>3, HeldSays
  <2>5. Names(st, cregs, mem, id, x)
    BY <1>3, <1>8 DEF Names, HasId
  <2>6. /\ i.op = "Jeq" => Eff(i).taken = WithId(st, id, Null) /\ Eff(i).fall = WithId(st, id, in)
        /\ i.op = "Jne" => Eff(i).taken = WithId(st, id, in) /\ Eff(i).fall = WithId(st, id, Null)
    <3>1. /\ i.op = "Jeq" => BranchStates(st, i) = [taken |-> WithId(st, id, Null), fall |-> WithId(st, id, in)]
          /\ i.op = "Jne" => BranchStates(st, i) = [taken |-> WithId(st, id, in), fall |-> WithId(st, id, Null)]
      BY <1>8 DEF BranchStates, IsScalar
    <3>. QED BY <1>2, <3>1
  <2>7. CASE x = Num(0)
    <3>1. IsNum(x) /\ x.num = 0
      BY <2>7, <2>2
    <3>2. taken = Jumps(i.op, ~i.wide, 0, 0)
      <4>1. CJumps(i, x, y) = {Jumps(i.op, ~i.wide, x.num, y.num)}
        BY <2>2, <3>1 DEF CJumps, IsNum, IsPointer
      <4>. QED BY <2>2, <3>1, <4>1
    <3>3. taken = (i.op = "Jeq")
      BY <1>8, <2>1, <3>2 DEF Jumps, eval_jmp64, Compares
    <3>4. to = WithId(st, id, Null)
      BY <1>8, <2>6, <3>3
    <3>. QED BY <1>5, <2>5, <2>7, <3>4, RefinedAgree DEF Agreed
  <2>8. CASE x # Num(0)
    <3>1. DescribesPtr(in, x)
      BY <2>4, <2>8
    <3>2. in \in PtrTypes /\ in # KernelPtr
      BY <2>3 DEF PtrTypes, InnerTypes, KernelPtr
    <3>3. x \in Pointers /\ IsPointer(x) /\ ~IsNum(x)
      BY <1>5, <3>1, <3>2, PtrSays, ValueKinds
    <3>4. taken = (i.op = "Jne")
      BY <1>8, <2>1, <2>2, <3>3 DEF CJumps
    <3>5. to = WithId(st, id, in)
      BY <1>8, <2>6, <3>4
    <3>. QED BY <1>5, <2>3, <2>5, <3>1, <3>5, RefinedAgree DEF Agreed
  <2>. QED BY <2>7, <2>8
<1>9. CASE is_known(s.tnum) /\ IsScalar(d)
  <2>. DEFINE q == IF taken THEN RefineTaken(d, i.op, ~i.wide, k) ELSE RefineFall(d, i.op, ~i.wide, k)
  <2>1. to = [st EXCEPT !.regs[i.dst] = q]
    BY <1>2, <1>9 DEF BranchStates, IsScalar
  <2>2. WellFormed(d) /\ k \in Word /\ y = Num(k) /\ IsNum(y) /\ y.num = k
    BY <1>5, <1>7, <1>9, RegKinds DEF Num
  <2>3. (~i.wide) \in BOOLEAN /\ (~i.wide => i.op \in Unsigned \cup {"Jset"})
    <3>1. ~i.wide => i.op \notin {"Jsgt", "Jsge", "Jslt", "Jsle"}
      BY <1>9 DEF ComparesNumbers
    <3>2. ~i.wide => i.op \in Unsigned \cup {"Jset"}
      BY <1>3, <3>1 DEF Unsigned, JmpOp
    <3>. QED BY <3>2
  <2>4. WellFormed(q)
    BY <1>3, <2>2, <2>3, TakenKeeps, FallKeeps
  <2>5. ASSUME IsNum(x)
        PROVE  Sound(q, x.num) /\ (prog.meeting # "never" => SignedBounds(q, x.num))
    <3>1. x.num \in Word
      BY <1>5, <2>5, ValueKinds
    <3>2. Sound(d, x.num) /\ (prog.meeting # "never" => SignedBounds(d, x.num))
      BY <1>5, <1>9, <2>5 DEF Tells
    <3>3. taken = Jumps(i.op, ~i.wide, x.num, k)
      <4>1. CJumps(i, x, y) = {Jumps(i.op, ~i.wide, x.num, y.num)}
        BY <2>2, <2>5 DEF CJumps, IsNum, IsPointer
      <4>. QED BY <2>2, <4>1
    <3>4. KeepsWord(d, q, x.num)
      BY <1>3, <2>2, <2>3, <3>1, <3>3, TakenKeeps, FallKeeps
    <3>. HIDE DEF q, d
    <3>. QED BY <3>2, <3>4 DEF KeepsWord
  <2>. HIDE DEF q, d
  <2>6. IsReg(q) /\ is_readable(q) /\ Tells(prog.meeting, q, x) /\ \A id : ~HasId(q, id)
    BY <1>5, <2>4, <2>5, ScalarTells
  <2>7. [cregs EXCEPT ![i.dst] = x] = cregs
    BY DEF Agreed, Agree
  <2>8. Agree(prog.meeting, [st EXCEPT !.regs[i.dst] = q], next_id, [cregs EXCEPT ![i.dst] = x], mem)
    BY <1>3, <1>5, <2>6, SetRegister DEF Agreed
  <2>. QED BY <2>1, <2>7, <2>8
<1>10. CASE ~is_known(s.tnum) \/ (d.type.kind # "PtrOrNull" /\ ~IsScalar(d))
  <2>1. Eff(i).taken = st /\ Eff(i).fall = st
    BY <1>2, <1>10 DEF BranchStates
  <2>. QED BY <1>6, <2>1
<1>11. CASE is_known(s.tnum) /\ d.type.kind = "PtrOrNull" /\ ~(k = 0 /\ i.op \in {"Jeq", "Jne"})
  <2>1. ~IsScalar(d)
    BY <1>11 DEF IsScalar
  <2>2. Eff(i).taken = st /\ Eff(i).fall = st
    BY <1>2, <1>11, <2>1 DEF BranchStates
  <2>. QED BY <1>6, <2>2
<1>. QED BY <1>8, <1>9, <1>10, <1>11

LEMMA JmpKeeps ==
  ASSUME Agreed, prog.insns \subseteq Instructions, Careful, JmpStep
  PROVE  Agreed'
<1>1. PICK i \in prog.insns :
        /\ Accepted(i, "jmp")
        /\ \E taken \in CJumps(i, cregs[i.dst], Operand(i)) :
             st' = IF taken THEN Eff(i).taken ELSE Eff(i).fall
        /\ UNCHANGED machine
  BY DEF JmpStep
<1>2. PICK taken \in CJumps(i, cregs[i.dst], Operand(i)) : st' = IF taken THEN Eff(i).taken ELSE Eff(i).fall
  BY <1>1
<1>3. i \in Instructions /\ i.kind = "jmp" /\ Eff(i).err = {} /\ ComparesNumbers(i)
  BY <1>1 DEF Accepted, Careful, CarefulInsn
<1>4. Eff(i).ids = 0
  BY <1>3 DEF Eff, Execute, Effect, Fails
<1>5. next_id' = next_id /\ UNCHANGED <<prog, cregs, mem>>
  BY <1>1, <1>4 DEF Accepted, Agreed, Agree, machine
<1>6. Agree(prog.meeting, IF taken THEN Eff(i).taken ELSE Eff(i).fall, next_id, cregs, mem)
  BY <1>2, <1>3, BranchTells
<1>. QED BY <1>2, <1>5, <1>6 DEF Agreed

-----------------------------------------------------------------------------
(* Where paths meet. *)

(* A state that says no more than another, of which it keeps the spills. *)
LEMMA MetAgree ==
  ASSUME NEW meeting, meeting # "never", NEW s, NEW n, NEW c, NEW m, Agree(meeting, s, n, c, m),
         NEW t, Shaped(t),
         \A r \in Reg : Tells(meeting, t.regs[r], c[r]) /\ \A id : HasId(t.regs[r], id) => HasId(s.regs[r], id),
         t.stack.init \subseteq s.stack.init,
         \A o \in DOMAIN t.stack.spills : o \in DOMAIN s.stack.spills /\ t.stack.spills[o] = s.stack.spills[o]
  PROVE  Agree(meeting, t, n, c, m)
<1>1. \A id, v : Names(t, c, m, id, v) => Names(s, c, m, id, v)
  BY DEF Names
<1>2. t.stack.init \subseteq WrittenIn(m)
  BY DEF Agree
<1>3. \A o \in DOMAIN t.stack.spills : SpillTells(m, t.stack.spills[o], o)
  BY DEF Agree
<1>. QED BY <1>1, <1>2, <1>3 DEF Agree

(* A register that b is a substate of, or that is widened by b, tells of   *)
(* what b tells of.                                                        *)
LEMMA MetRegister ==
  ASSUME NEW meeting, meeting # "never", NEW a, IsReg(a), NEW b, IsReg(b),
         NEW v \in Values \cup {Garbage}, Tells(meeting, b, v)
  PROVE  /\ is_substate_of(b, a) => Tells(meeting, a, v) /\ \A id : HasId(a, id) => HasId(b, id)
         /\ (Uninit \notin {b.type, a.type} => b.type = a.type) =>
              /\ IsReg(widen(a, b)) /\ Tells(meeting, widen(a, b), v)
              /\ \A id : HasId(widen(a, b), id) => HasId(b, id)
              /\ is_readable(a) /\ is_readable(b) => is_readable(widen(a, b))
<1>0. Uninit.kind = "Uninit" /\ uninit.type = Uninit /\ Scalar.kind = "Scalar"
  BY DEF Uninit, uninit, RegOf, Scalar
<1>1. /\ ~is_readable(a) <=> a.type = Uninit
      /\ ~is_readable(b) <=> b.type = Uninit
  BY <1>0, RegKinds DEF is_readable
<1>2. ASSUME WellFormed(a), WellFormed(b), NEW w, WellFormed(w),
             \A x \in Word : Speaks(b, x) => Speaks(w, x)
      PROVE  IsReg(w) /\ is_readable(w) /\ Tells(meeting, w, v) /\ \A id : ~HasId(w, id)
  <2>1. IsScalar(b)
    BY <1>2, RegKinds
  <2>2. v # Garbage
    BY <2>1 DEF Tells, Describes, IsScalar
  <2>3. v \in Values /\ (IsNum(v) => v.num \in Word)
    BY <2>2, ValueKinds
  <2>4. ASSUME IsNum(v) PROVE Sound(w, v.num) /\ SignedBounds(w, v.num)
    <3>1. Sound(b, v.num) /\ SignedBounds(b, v.num)
      BY <2>1, <2>4 DEF Tells
    <3>. QED BY <1>2, <2>3, <2>4, <3>1, SpeaksIsSound
  <2>. QED BY <1>2, <2>3, <2>4, ScalarTells
<1>3. CASE a.type = b.type /\ IsScalar(b)
  <2>1. WellFormed(a) /\ WellFormed(b)
    BY <1>3, RegKinds DEF IsScalar
  <2>2. is_substate_of(b, a) => \A x \in Word : Speaks(b, x) => Speaks(a, x)
    BY <2>1, SubstateSpeaks
  <2>3. WellFormed(widen(a, b)) /\ \A x \in Word : Speaks(b, x) => Speaks(widen(a, b), x)
    BY <2>1, WidenSpeaks
  <2>. QED BY <1>2, <2>1, <2>2, <2>3
<1>4. CASE a.type = b.type /\ ~IsScalar(b)
  <2>1. a = b
    <3>1. CASE b.type = Uninit
      BY <1>1, <1>4, <3>1, RegKinds
    <3>2. CASE b.type # Uninit
      <4>1. a \in Held /\ b \in Held
        BY <1>1, <1>4, <3>2, RegKinds DEF IsReg, IsScalar
      <4>. QED BY <1>4, <4>1, HeldTypes
    <3>. QED BY <3>1, <3>2
  <2>2. widen(a, b) = a
    BY <1>4, <2>1 DEF widen
  <2>. QED BY <2>1, <2>2
<1>5. CASE a.type # b.type
  <2>1. ~is_substate_of(b, a)
    BY <1>5 DEF is_substate_of
  <2>2. ASSUME Uninit \in {b.type, a.type} PROVE widen(a, b) = uninit /\ ~(is_readable(a) /\ is_readable(b))
    BY <1>1, <1>5, <2>2 DEF widen
  <2>3. \A id : ~HasId(uninit, id)
    BY <1>0 DEF HasId
  <2>. QED BY <1>5, <2>1, <2>2, <2>3, MadeTell
<1>. QED BY <1>3, <1>4, <1>5

(* The same of whole states, by what Careful asks of their spills. *)
LEMMA CoveredAgree ==
  ASSUME NEW meeting, meeting # "never", NEW s, NEW n, NEW c, NEW m, Agree(meeting, s, n, c, m),
         NEW t, Shaped(t), state_leq(s, t),
         \A o \in DOMAIN t.stack.spills :
           o \in DOMAIN s.stack.spills /\ s.stack.spills[o].type = t.stack.spills[o].type
  PROVE  Agree(meeting, t, n, c, m)
<1>1. \A r \in Reg : /\ IsReg(s.regs[r]) /\ IsReg(t.regs[r]) /\ c[r] \in Values \cup {Garbage}
                     /\ Tells(meeting, s.regs[r], c[r]) /\ is_substate_of(s.regs[r], t.regs[r])
  BY DEF Agree, Shaped, state_leq
<1>2. ASSUME NEW r \in Reg
      PROVE  Tells(meeting, t.regs[r], c[r]) /\ \A id : HasId(t.regs[r], id) => HasId(s.regs[r], id)
  <2>. DEFINE a == t.regs[r]
              b == s.regs[r]
              v == c[r]
  <2>1. IsReg(a) /\ IsReg(b) /\ v \in Values \cup {Garbage} /\ Tells(meeting, b, v) /\ is_substate_of(b, a)
    BY <1>1
  <2>. HIDE DEF a, b, v
  <2>2. Tells(meeting, a, v) /\ \A id : HasId(a, id) => HasId(b, id)
    BY <2>1, MetRegister
  <2>. QED BY <2>2 DEF a, b, v
<1>3. t.stack.init \subseteq s.stack.init
  BY DEF state_leq, stack_is_substate_of
<1>4. \A o \in DOMAIN t.stack.spills : o \in DOMAIN s.stack.spills /\ t.stack.spills[o] = s.stack.spills[o]
  BY HeldTypes DEF Agree, Shaped
<1>. QED BY <1>2, <1>3, <1>4, MetAgree

LEMMA WidenedAgree ==
  ASSUME NEW meeting, meeting # "never", NEW s, NEW n, NEW c, NEW m, Agree(meeting, s, n, c, m),
         NEW t, Shaped(t),
         \A r \in Reg : Uninit \notin {s.regs[r].type, t.regs[r].type} => s.regs[r].type = t.regs[r].type,
         \A o \in DOMAIN t.stack.spills :
           o \in DOMAIN s.stack.spills /\ s.stack.spills[o].type = t.stack.spills[o].type
  PROVE  Agree(meeting, state_widen(t, s), n, c, m)
<1>. DEFINE w == state_widen(t, s)
<1>1. \A r \in Reg : /\ IsReg(s.regs[r]) /\ IsReg(t.regs[r]) /\ c[r] \in Values \cup {Garbage}
                     /\ Tells(meeting, s.regs[r], c[r])
  BY DEF Agree, Shaped
<1>2. \A r \in Reg : /\ IsReg(widen(t.regs[r], s.regs[r])) /\ Tells(meeting, widen(t.regs[r], s.regs[r]), c[r])
                     /\ \A id : HasId(widen(t.regs[r], s.regs[r]), id) => HasId(s.regs[r], id)
                     /\ is_readable(t.regs[r]) /\ is_readable(s.regs[r]) => is_readable(widen(t.regs[r], s.regs[r]))
  BY <1>1, MetRegister
<1>3. \A o \in DOMAIN t.stack.spills :
        /\ o \in DOMAIN s.stack.spills /\ t.stack.spills[o] = s.stack.spills[o] /\ t.stack.spills[o] \in Held
  BY HeldTypes DEF Agree, Shaped
<1>4. \A o \in DOMAIN t.stack.spills : widen(t.stack.spills[o], s.stack.spills[o]) = s.stack.spills[o]
  BY <1>3, HeldTypes DEF widen
<1>. DEFINE rg == [r \in Reg |-> widen(t.regs[r], s.regs[r])]
            sp == [o \in DOMAIN t.stack.spills |->
                     IF o \in DOMAIN s.stack.spills THEN widen(t.stack.spills[o], s.stack.spills[o])
                     ELSE t.stack.spills[o]]
            in == t.stack.init \cap s.stack.init
<1>5. w = [regs |-> rg, stack |-> [init |-> in, spills |-> sp]]
  BY DEF state_widen, stack_widen
<1>6. /\ DOMAIN rg = Reg /\ rg = [r \in Reg |-> rg[r]] /\ \A r \in Reg : rg[r] = widen(t.regs[r], s.regs[r])
      /\ DOMAIN sp = DOMAIN t.stack.spills /\ sp = [o \in DOMAIN sp |-> sp[o]]
      /\ \A o \in DOMAIN sp : sp[o] = s.stack.spills[o]
  BY <1>3, <1>4
<1>. HIDE DEF rg, sp, in, w
<1>7. w.regs = rg /\ w.stack.init = in /\ w.stack.spills = sp
      /\ w = [regs |-> w.regs, stack |-> [init |-> w.stack.init, spills |-> w.stack.spills]]
  BY <1>5
<1>8. Shaped(w)
  <2>1. \A r \in Reg : IsReg(rg[r])
    BY <1>2, <1>6
  <2>2. is_readable(rg[R10])
    <3>1. R10 \in Reg /\ is_readable(t.regs[R10]) /\ is_readable(s.regs[R10])
      BY DEF Agree, Shaped, Reg, R10
    <3>. QED BY <1>2, <1>6, <3>1
  <2>3. \A o \in DOMAIN sp : o \in Slots /\ Bytes(o, DW) \subseteq Slots /\ sp[o] \in Held
    BY <1>3, <1>6 DEF Shaped
  <2>4. in \subseteq Slots
    BY DEF Shaped, in
  <2>. QED BY <1>6, <1>7, <2>1, <2>2, <2>3, <2>4 DEF Shaped
<1>9. w.stack.init \subseteq s.stack.init
  BY <1>7 DEF in
<1>10. \A o \in DOMAIN w.stack.spills : o \in DOMAIN s.stack.spills /\ w.stack.spills[o] = s.stack.spills[o]
  BY <1>3, <1>6, <1>7
<1>11. \A r \in Reg : Tells(meeting, w.regs[r], c[r]) /\ \A id : HasId(w.regs[r], id) => HasId(s.regs[r], id)
  BY <1>2, <1>6, <1>7
<1>12. Agree(meeting, w, n, c, m)
  BY <1>8, <1>9, <1>10, <1>11, MetAgree
<1>. QED BY <1>12 DEF w

(* Where a path begins. *)
LEMMA EntryAgrees ==
  ASSUME NEW meeting, NEW n \in Nat
  PROVE  Agree(meeting, entry, n, CEntry, [b \in Slots |-> Blank])
<1>. DEFINE m == [b \in Slots |-> Blank]
<1>1. /\ entry = [regs |-> entry.regs, stack |-> [init |-> entry.stack.init, spills |-> entry.stack.spills]]
      /\ DOMAIN entry.regs = Reg /\ entry.regs = [r \in Reg |-> entry.regs[r]]
      /\ entry.stack.init = {} /\ entry.stack.spills = <<>>
  <2>. DEFINE rg == [r \in Reg |-> CASE r = 1 -> ctx_ptr(0) [] r = R10 -> frame_ptr(0) [] OTHER -> uninit]
              none == <<>>
  <2>1. entry = [regs |-> rg, stack |-> [init |-> {}, spills |-> none]]
    BY DEF entry, new_stack
  <2>2. DOMAIN rg = Reg /\ rg = [r \in Reg |-> rg[r]]
    OBVIOUS
  <2>. HIDE DEF rg, none
  <2>3. entry.regs = rg /\ entry.stack.init = {} /\ entry.stack.spills = none
    BY <2>1
  <2>. QED BY <2>1, <2>2, <2>3 DEF none
<1>2. DOMAIN entry.stack.spills = {} /\ entry.stack.spills = [o \in DOMAIN entry.stack.spills |-> entry.stack.spills[o]]
  BY <1>1
<1>3. R10 # 1 /\ R10 \in Reg /\ 1 \in Reg
  BY DEF R10, Reg
<1>4. /\ entry.regs[1] = ctx_ptr(0) /\ entry.regs[R10] = frame_ptr(0)
      /\ \A r \in Reg \ {1, R10} : entry.regs[r] = uninit
  BY <1>3 DEF entry
<1>5. /\ DOMAIN CEntry = Reg /\ CEntry = [r \in Reg |-> CEntry[r]]
      /\ CEntry[1] = Pointer(Ctx, 0) /\ CEntry[R10] = Pointer(Frm, 0)
      /\ \A r \in Reg \ {1, R10} : CEntry[r] = Garbage
  BY <1>3 DEF CEntry
<1>6. /\ Pointer(Ctx, 0) \in Pointers /\ Pointer(Frm, 0) \in Pointers
      /\ Pointer(Ctx, 0) \in Values /\ Pointer(Frm, 0) \in Values
      /\ Pointer(Ctx, 0).obj = Ctx /\ Pointer(Ctx, 0).off = 0
      /\ Pointer(Frm, 0).obj = Frm /\ Pointer(Frm, 0).off = 0
  BY ValueKinds, ObjectKinds DEF Pointer
<1>7. ASSUME NEW kind \in {"FramePtr", "CtxPtr"}
      PROVE  /\ RegOf([kind |-> kind, off |-> 0]) \in Held /\ is_readable(RegOf([kind |-> kind, off |-> 0]))
             /\ RegOf([kind |-> kind, off |-> 0]).type = [kind |-> kind, off |-> 0]
             /\ [kind |-> kind, off |-> 0] \in PtrTypes /\ is_ptr([kind |-> kind, off |-> 0])
             /\ \A id : ~HasId(RegOf([kind |-> kind, off |-> 0]), id)
  BY DEF Held, PtrTypes, RegOf, is_readable, is_ptr, HasId
<1>8. /\ ctx_ptr(0) \in Held /\ is_readable(ctx_ptr(0)) /\ \A id : ~HasId(ctx_ptr(0), id)
      /\ Tells(meeting, ctx_ptr(0), Pointer(Ctx, 0))
  <2>1. ctx_ptr(0) = RegOf([kind |-> "CtxPtr", off |-> 0])
    BY DEF ctx_ptr, CtxPtr
  <2>. DEFINE t == [kind |-> "CtxPtr", off |-> 0]
  <2>2. t.kind = "CtxPtr" /\ t.off = 0 /\ t \in PtrTypes /\ is_ptr(t) /\ ctx_ptr(0).type = t /\ ctx_ptr(0) \in Held
    BY <1>7, <2>1
  <2>. HIDE DEF t
  <2>3. DescribesPtr(t, Pointer(Ctx, 0))
    BY <1>6, <2>2, PtrSays
  <2>4. Tells(meeting, ctx_ptr(0), Pointer(Ctx, 0))
    BY <1>6, <2>2, <2>3, HeldSays
  <2>. QED BY <1>7, <2>1, <2>4
<1>9. /\ frame_ptr(0) \in Held /\ is_readable(frame_ptr(0)) /\ \A id : ~HasId(frame_ptr(0), id)
      /\ Tells(meeting, frame_ptr(0), Pointer(Frm, 0))
  <2>1. frame_ptr(0) = RegOf([kind |-> "FramePtr", off |-> 0])
    BY DEF frame_ptr, FramePtr
  <2>. DEFINE t == [kind |-> "FramePtr", off |-> 0]
  <2>2. t.kind = "FramePtr" /\ t.off = 0 /\ t \in PtrTypes /\ is_ptr(t) /\ frame_ptr(0).type = t /\ frame_ptr(0) \in Held
    BY <1>7, <2>1
  <2>. HIDE DEF t
  <2>3. DescribesPtr(t, Pointer(Frm, 0))
    BY <1>6, <2>2, PtrSays
  <2>4. Tells(meeting, frame_ptr(0), Pointer(Frm, 0))
    BY <1>6, <2>2, <2>3, HeldSays
  <2>. QED BY <1>7, <2>1, <2>4
<1>10. /\ IsReg(uninit) /\ Tells(meeting, uninit, Garbage) /\ \A id : ~HasId(uninit, id)
  BY MadeTell DEF HasId, uninit, RegOf, Uninit
<1>11. \A r \in Reg : /\ IsReg(entry.regs[r]) /\ Tells(meeting, entry.regs[r], CEntry[r])
                      /\ \A id : ~HasId(entry.regs[r], id)
                      /\ CEntry[r] \in Values \cup {Garbage}
  BY <1>4, <1>5, <1>6, <1>8, <1>9, <1>10 DEF IsReg
<1>12. Shaped(entry)
  BY <1>1, <1>2, <1>4, <1>9, <1>11 DEF Shaped
<1>13. DOMAIN m = Slots /\ (\A b \in Slots : m[b] \in Content) /\ WrittenIn(m) = {}
  <2>1. Blank \in Content
    BY DEF Blank, Content
  <2>. QED BY <2>1 DEF WrittenIn
<1>14. \A id, v : ~Names(entry, CEntry, m, id, v)
  BY <1>2, <1>11 DEF Names
<1>. HIDE DEF m
<1>15. Agree(meeting, entry, n, CEntry, m)
  BY <1>1, <1>2, <1>5, <1>11, <1>12, <1>13, <1>14 DEF Agree
<1>. QED BY <1>15 DEF m

-----------------------------------------------------------------------------
(* The invariant: the program is one of those given, the remembered state  *)
(* has the form of one, and the two halves of the path agree.              *)
FrameInv ==
  /\ prog \in Programs /\ next_id \in 0 .. MaxIds /\ heap \subseteq Pointers
  /\ seen = <<>> \/ (prog.meeting # "never" /\ seen = <<seen[1]>> /\ Shaped(seen[1]))
  /\ Agreed

(* The instructions of the programmes are instructions. *)
LEMMA TheirInsns == FrameInv => prog.insns \subseteq Instructions
BY ProgramsAssumption DEF FrameInv

LEMMA FrameInit == Init => FrameInv
<1>. SUFFICES ASSUME Init PROVE FrameInv
  OBVIOUS
<1>1. MaxIds \in Nat
  BY ProgramsAssumption
<1>2. Agreed
  BY EntryAgrees DEF Init, Agreed
<1>. QED BY <1>1, <1>2 DEF Init, FrameInv

(* An instruction leaves the ids within their bound.                       *)
LEMMA IdsStay ==
  ASSUME FrameInv, Agreed', NEW i, NEW kind, Accepted(i, kind), heap' \subseteq Pointers
  PROVE  FrameInv'
<1>1. prog' = prog /\ seen' = seen /\ next_id' <= MaxIds
  BY DEF Accepted
<1>2. next_id' \in Nat /\ MaxIds \in Nat
  BY ProgramsAssumption DEF Agreed, Agree
<1>3. next_id' \in 0 .. MaxIds
  BY <1>1, <1>2
<1>. QED BY <1>1, <1>3 DEF FrameInv

(* The remembered state, and what Careful asks where paths meet. *)
LEMMA Remembered ==
  ASSUME FrameInv, MeetsItsLike, seen # <<>>
  PROVE  /\ prog.meeting # "never" /\ Shaped(seen[1])
         /\ state_leq(st, seen[1]) \/ prog.meeting = "loop" =>
              \A o \in DOMAIN seen[1].stack.spills :
                /\ o \in DOMAIN st.stack.spills
                /\ st.stack.spills[o].type = seen[1].stack.spills[o].type
         /\ ~state_leq(st, seen[1]) /\ prog.meeting = "loop" =>
              \A r \in Reg : Uninit \notin {st.regs[r].type, seen[1].regs[r].type}
                               => st.regs[r].type = seen[1].regs[r].type
<1>1. prog.meeting # "never" /\ seen = <<seen[1]>> /\ Shaped(seen[1])
  BY DEF FrameInv
<1>2. 1 \in DOMAIN seen
  <2>1. DOMAIN <<seen[1]>> = {1}
    OBVIOUS
  <2>. QED BY <1>1, <2>1
<1>3. state_leq(st, seen[1]) \/ prog.meeting = "loop" =>
        \A o \in DOMAIN seen[1].stack.spills :
          /\ o \in DOMAIN st.stack.spills
          /\ st.stack.spills[o].type = seen[1].stack.spills[o].type
  BY <1>2 DEF MeetsItsLike
<1>4. ~state_leq(st, seen[1]) /\ prog.meeting = "loop" =>
        \A r \in Reg : Uninit \notin {st.regs[r].type, seen[1].regs[r].type}
                         => st.regs[r].type = seen[1].regs[r].type
  BY <1>2 DEF MeetsItsLike
<1>. QED BY <1>1, <1>3, <1>4

LEMMA CoveredKeeps ==
  ASSUME FrameInv, Careful, Covered
  PROVE  FrameInv'
<1>1. seen # <<>> /\ state_leq(st, seen[1]) /\ st' = seen[1] /\ UNCHANGED <<prog, next_id, seen, cregs, mem, heap>>
  BY DEF Covered, machine
<1>. DEFINE t == seen[1]
<1>2. /\ prog.meeting # "never" /\ Shaped(t) /\ state_leq(st, t)
      /\ \A o \in DOMAIN t.stack.spills :
           o \in DOMAIN st.stack.spills /\ st.stack.spills[o].type = t.stack.spills[o].type
  BY <1>1, Remembered DEF Careful
<1>3. Agree(prog.meeting, st, next_id, cregs, mem)
  BY DEF FrameInv, Agreed
<1>. HIDE DEF t
<1>4. Agree(prog.meeting, t, next_id, cregs, mem)
  BY <1>2, <1>3, CoveredAgree
<1>. QED BY <1>1, <1>4 DEF FrameInv, Agreed, t

LEMMA WidenedKeeps ==
  ASSUME FrameInv, Careful, Widened
  PROVE  FrameInv'
<1>1. /\ prog.meeting = "loop" /\ seen # <<>> /\ ~state_leq(st, seen[1])
      /\ st' = state_widen(seen[1], st) /\ seen' = <<st'>> /\ UNCHANGED <<prog, next_id, cregs, mem, heap>>
  BY DEF Widened, machine
<1>. DEFINE t == seen[1]
<1>2. /\ prog.meeting # "never" /\ Shaped(t)
      /\ \A r \in Reg : Uninit \notin {st.regs[r].type, t.regs[r].type} => st.regs[r].type = t.regs[r].type
      /\ \A o \in DOMAIN t.stack.spills :
           o \in DOMAIN st.stack.spills /\ st.stack.spills[o].type = t.stack.spills[o].type
  BY <1>1, Remembered DEF Careful
<1>3. Agree(prog.meeting, st, next_id, cregs, mem)
  BY DEF FrameInv, Agreed
<1>. HIDE DEF t
<1>4. Agree(prog.meeting, state_widen(t, st), next_id, cregs, mem)
  BY <1>2, <1>3, WidenedAgree
<1>5. Agreed'
  BY <1>1, <1>4 DEF Agreed, t
<1>6. Shaped(st') /\ seen' = <<st'>> /\ seen'[1] = st'
  BY <1>1, <1>5 DEF Agreed, Agree
<1>. QED BY <1>1, <1>5, <1>6 DEF FrameInv

LEMMA FrameNext == FrameInv /\ Careful /\ [Next]_vars => FrameInv'
<1>. SUFFICES ASSUME FrameInv, Careful, [Next]_vars PROVE FrameInv'
  OBVIOUS
<1>1. Agreed /\ prog \in Programs /\ prog.insns \subseteq Instructions /\ heap \subseteq Pointers
  BY TheirInsns DEF FrameInv
<1>2. CASE AluStep
  BY <1>1, <1>2, AluKeeps, IdsStay DEF AluStep
<1>3. CASE Imm64Step
  BY <1>1, <1>3, Imm64Keeps, IdsStay DEF Imm64Step
<1>4. CASE JmpStep
  BY <1>1, <1>4, JmpKeeps, IdsStay DEF JmpStep, machine
<1>5. CASE LoadStep
  BY <1>1, <1>5, LoadKeeps, IdsStay DEF LoadStep
<1>6. CASE StoreStep
  <2>1. Agreed' /\ heap' \subseteq Pointers
    BY <1>1, <1>6, StoreKeeps
  <2>2. PICK i \in prog.insns : Accepted(i, "stx") \/ Accepted(i, "st")
    BY <1>6 DEF StoreStep
  <2>. QED BY <2>1, <2>2, IdsStay
<1>7. CASE CallStep
  BY <1>1, <1>7, CallKeeps, IdsStay DEF CallStep
<1>8. CASE FirstArrival
  <2>1. /\ prog.meeting # "never" /\ seen' = <<st>> /\ seen'[1] = st
        /\ UNCHANGED <<prog, st, next_id, cregs, mem, heap>>
    BY <1>8 DEF FirstArrival, machine
  <2>2. Shaped(st)
    BY <1>1 DEF Agreed, Agree
  <2>. QED BY <1>1, <2>1, <2>2 DEF FrameInv, Agreed
<1>9. CASE Covered
  BY <1>9, CoveredKeeps
<1>10. CASE Widened
  BY <1>10, WidenedKeeps
<1>11. CASE AnotherPath
  <2>1. next_id \in Nat
    BY <1>1 DEF Agreed, Agree
  <2>2. Agreed'
    BY <1>11, <2>1, EntryAgrees DEF AnotherPath, Agreed
  <2>. QED BY <1>11, <2>2 DEF AnotherPath, FrameInv
<1>12. CASE UNCHANGED vars
  BY <1>12 DEF vars, FrameInv, Agreed
<1>. QED BY <1>2, <1>3, <1>4, <1>5, <1>6, <1>7, <1>8, <1>9, <1>10, <1>11, <1>12 DEF Next

-----------------------------------------------------------------------------
(* What the invariant says of the properties. *)
LEMMA InvTypeOK == FrameInv => TypeOK
<1>. SUFFICES ASSUME FrameInv PROVE TypeOK
  OBVIOUS
<1>1. Agreed
  BY DEF FrameInv
<1>2. DOMAIN st.regs = Reg /\ st.stack.init \subseteq Slots /\ DOMAIN st.stack.spills \subseteq Slots
  BY <1>1 DEF Agreed, Agree, Shaped
<1>3. \A r \in Reg : cregs[r].kind \in {"garbage", "num", "ptr"}
  <2>1. \A v \in Values : v.kind \in {"num", "ptr"}
    BY ValueKinds DEF IsNum, IsPointer
  <2>2. Garbage.kind = "garbage"
    BY DEF Garbage
  <2>3. \A r \in Reg : cregs[r] \in Values \/ cregs[r] = Garbage
    BY <1>1 DEF Agreed, Agree
  <2>. QED BY <2>1, <2>2, <2>3
<1>4. DOMAIN mem = Slots /\ \A v \in heap : IsPointer(v)
  BY <1>1, ValueKinds DEF Agreed, Agree, FrameInv
<1>. QED BY <1>2, <1>3, <1>4 DEF TypeOK, FrameInv

LEMMA InvRegisters == FrameInv => TypesHold
BY DEF FrameInv, Agreed, Agree, Tells, TypesHold

LEMMA InvBytes == FrameInv => InitIsWritten /\ WrittenIsInit
BY DEF FrameInv, Agreed, Agree, WrittenIn, WrittenBytes, InitIsWritten, WrittenIsInit

LEMMA InvSpills == FrameInv => SpillsHold
<1>. SUFFICES ASSUME FrameInv, NEW off \in DOMAIN st.stack.spills
              PROVE  \/ \E v \in Whole(off) : Describes(st.stack.spills[off], v)
                     \/ st.stack.spills[off].type = KernelPtr /\ Bytes(off, DW) \subseteq WrittenBytes
  BY DEF SpillsHold
<1>1. Agreed
  BY DEF FrameInv
<1>2. off \in Int
  <2>1. STACK_SIZE \in Nat
    BY FrameAssumption
  <2>2. off \in Slots
    BY <1>1 DEF Agreed, Agree, Shaped
  <2>. QED BY <2>1, <2>2 DEF Slots
<1>3. SpillTells(mem, st.stack.spills[off], off)
  BY <1>1 DEF Agreed, Agree
<1>4. \A v : Lies(mem, off, v) => v \in Whole(off)
  BY <1>2, WholeLies
<1>. QED BY <1>3, <1>4 DEF SpillTells, WrittenIn, WrittenBytes

LEMMA InvIds == FrameInv => OneNullPerId
<1>. SUFFICES ASSUME FrameInv PROVE OneNullPerId
  OBVIOUS
<1>1. Agreed
  BY DEF FrameInv
<1>2. \A o \in DOMAIN st.stack.spills : o \in Int
  <2>1. STACK_SIZE \in Nat
    BY FrameAssumption
  <2>. QED BY <1>1, <2>1 DEF Agreed, Agree, Shaped, Slots
<1>3. ASSUME NEW a \in Nullable PROVE Names(st, cregs, mem, a[1], a[2])
  <2>1. \/ \E r \in Reg : st.regs[r].type.kind = "PtrOrNull" /\ a = <<st.regs[r].type.id, cregs[r]>>
        \/ \E o \in DOMAIN st.stack.spills :
             /\ st.stack.spills[o].type.kind = "PtrOrNull"
             /\ \E v \in Whole(o) : a = <<st.stack.spills[o].type.id, v>>
    BY <1>3 DEF Nullable
  <2>2. CASE \E r \in Reg : st.regs[r].type.kind = "PtrOrNull" /\ a = <<st.regs[r].type.id, cregs[r]>>
    BY <2>2 DEF Names, HasId
  <2>3. CASE \E o \in DOMAIN st.stack.spills :
               /\ st.stack.spills[o].type.kind = "PtrOrNull"
               /\ \E v \in Whole(o) : a = <<st.stack.spills[o].type.id, v>>
    <3>1. PICK o \in DOMAIN st.stack.spills :
            /\ st.stack.spills[o].type.kind = "PtrOrNull"
            /\ \E v \in Whole(o) : a = <<st.stack.spills[o].type.id, v>>
      BY <2>3
    <3>2. PICK v \in Whole(o) : a = <<st.stack.spills[o].type.id, v>>
      BY <3>1
    <3>3. Lies(mem, o, v)
      BY <1>2, WholeLies
    <3>. QED BY <3>1, <3>2, <3>3 DEF Names, HasId
  <2>. QED BY <2>1, <2>2, <2>3
<1>4. \A id, v, w : Names(st, cregs, mem, id, v) /\ Names(st, cregs, mem, id, w) => v = w
  BY <1>1 DEF Agreed, Agree
<1>. QED BY <1>3, <1>4 DEF OneNullPerId

LEMMA InvAccesses == FrameInv /\ Careful => AccessesStayInside
<1>. SUFFICES ASSUME FrameInv, Careful, NEW i \in prog.insns, i.kind \in {"ldx", "stx", "st"}, Eff(i).err = {},
                     st.regs[Base(i)].type # KernelPtr
              PROVE  StaysInside(cregs[Base(i)], i)
  BY DEF AccessesStayInside
<1>. DEFINE r  == st.regs[Base(i)]
            x  == cregs[Base(i)]
            at == Effective(r.type, i.off)
<1>1. Agreed /\ i \in Instructions
  BY TheirInsns DEF FrameInv
<1>2. /\ Base(i) \in Reg /\ i.off \in Int /\ i.width \in Nat
      /\ i.kind = "ldx" => Base(i) = i.src
      /\ i.kind # "ldx" => Base(i) = i.dst
  BY <1>1 DEF Instructions, Base
<1>3. ReadErrors(st.regs, i) = {} /\ InRange(r.type, i.off, i.width)
  BY <1>1, AcceptedReads DEF Careful, CarefulInsn, EndsInRange
<1>4. CASE i.kind = "ldx"
  <2>. DEFINE out == check_load(st.regs, st.stack, i.dst, i.src, i.off, i.width)
  <2>1. out.err = {}
    BY <1>3, <1>4 DEF Eff, Execute, Effect
  <2>2. AccessError(r.type, i.off, i.width) = {} /\ (r.type.kind = "FramePtr" => check_readable(st.stack, at, i.width))
    BY <1>2, <1>4, <2>1 DEF check_load
  <2>3. IsReg(r) /\ x \in Values \cup {Garbage} /\ Tells(prog.meeting, r, x)
    BY <1>1, <1>2 DEF Agreed, Agree, Shaped
  <2>4. r.type # KernelPtr
    OBVIOUS
  <2>5. st.stack.init \subseteq WrittenBytes
    BY <1>1 DEF Agreed, Agree, WrittenIn, WrittenBytes
  <2>. HIDE DEF r, x
  <2>6. /\ r \in Held /\ r.type \in PtrTypes /\ InObject(x, i.off, i.width)
        /\ r.type.kind = "FramePtr" => Address(x, i.off) = at
        /\ r.type.kind \in {"CtxPtr", "MapValuePtr", "RingBufPtr", "DataPtr"} => x.obj # Frm
    <3>1. /\ r \in Held /\ is_ptr(r.type) /\ r.type \in PtrTypes /\ DescribesPtr(r.type, x) /\ x \in Values
          /\ r.type # KernelPtr => InObject(x, i.off, i.width)
          /\ r.type.kind = "FramePtr" =>
               /\ x \in Pointers /\ x.obj = Frm /\ Address(x, i.off) = Effective(r.type, i.off)
               /\ Effective(r.type, i.off) \in Int /\ Bytes(Effective(r.type, i.off), i.width) \subseteq Slots
          /\ r.type.kind \in {"CtxPtr", "MapValuePtr", "RingBufPtr", "DataPtr"} => x \in Pointers /\ x.obj # Frm
      BY <1>2, <1>3, <2>2, <2>3, AccessTells, Zenon
    <3>. QED BY <2>4, <3>1
  <2>7. r.type.kind \in {"FramePtr", "CtxPtr", "MapValuePtr", "RingBufPtr", "DataPtr"}
    BY <2>4, <2>6 DEF PtrTypes, InnerTypes
  <2>8. x.obj = Frm => Bytes(Address(x, i.off), i.width) \subseteq WrittenBytes
    BY <2>2, <2>5, <2>6, <2>7 DEF check_readable
  <2>9. StaysInside(x, i)
    BY <2>6, <2>8 DEF StaysInside
  <2>. QED BY <2>9 DEF x
<1>5. CASE i.kind # "ldx"
  <2>. DEFINE out == check_store(st.regs, st.stack, i.dst, SrcReg(st.regs, i), i.kind = "st", i.off, i.width)
  <2>1. out.err = {}
    BY <1>3, <1>5 DEF Eff, Execute, Effect
  <2>2. AccessError(r.type, i.off, i.width) = {}
    BY <1>2, <1>5, <2>1 DEF check_store
  <2>3. IsReg(r) /\ x \in Values \cup {Garbage} /\ Tells(prog.meeting, r, x)
    BY <1>1, <1>2 DEF Agreed, Agree, Shaped
  <2>4. r.type # KernelPtr
    OBVIOUS
  <2>. HIDE DEF r, x
  <2>5. InObject(x, i.off, i.width)
    BY <1>2, <1>3, <2>2, <2>3, <2>4, AccessTells, Zenon
  <2>6. StaysInside(x, i)
    BY <1>5, <2>5 DEF StaysInside
  <2>. QED BY <2>6 DEF x
<1>. QED BY <1>4, <1>5

(* On every careful run the invariant holds. *)
LEMMA AlwaysInv == Spec /\ []Careful => []FrameInv
<1>1. Init => FrameInv
  BY FrameInit
<1>2. FrameInv /\ Careful /\ [Next]_vars => FrameInv'
  BY FrameNext
<1>. QED BY <1>1, <1>2, PTL DEF Spec

-----------------------------------------------------------------------------
(* TypeOK: registers, stack and ids of the verifier, and the machine's     *)
(* registers, bytes and pointers, keep their form through every arm of     *)
(* check_with_relocs, on every careful run.                                *)
THEOREM CarefulForm == Spec /\ []Careful => []TypeOK
BY InvTypeOK, AlwaysInv, PTL

(* TypesHold: after any mix of check_alu, refine_branch, check_load,       *)
(* check_store and check_call, and of states that cover or widen others,   *)
(* the machine's registers hold what RegState says, pointers at the very   *)
(* offset.                                                                 *)
THEOREM CarefulRegisters == Spec /\ []Careful => []TypesHold
BY InvRegisters, AlwaysInv, PTL

(* SpillsHold: what StackState remembers of a spilled register is true of  *)
(* the bytes that lie there now.                                           *)
THEOREM CarefulSpills == Spec /\ []Careful => []SpillsHold
BY InvSpills, AlwaysInv, PTL

(* InitIsWritten: no byte is marked as initialised that the run has not    *)
(* written, so check_readable lets no load see leftovers of the frame.     *)
THEOREM CarefulMarks == Spec /\ []Careful => []InitIsWritten
BY InvBytes, AlwaysInv, PTL

(* WrittenIsInit: along one path StackState misses no byte that a store or *)
(* a helper wrote.                                                         *)
THEOREM CarefulMarksAll == Spec /\ []Careful => []WrittenIsInit
BY InvBytes, AlwaysInv, PTL

(* AccessesStayInside: what check_load and check_store accept is inside    *)
(* the object that the machine's pointer points into, and in the frame a   *)
(* load reads bytes that were written.                                     *)
THEOREM CarefulAccesses == Spec /\ []Careful => []AccessesStayInside
BY InvAccesses, AlwaysInv, PTL

(* OneNullPerId: nullable pointers with one id, in registers and spills,   *)
(* are null together, which is what refine_all_with_id relies on.          *)
THEOREM CarefulNullChecks == Spec /\ []Careful => []OneNullPerId
BY InvIds, AlwaysInv, PTL
==============================================================================
