------------------------- MODULE ObjectVerifyProofs -------------------------
(***************************************************************************)
(* What object verification promises, for every list of instructions,      *)
(* every width of words and every size of the frame: the two stack bounds  *)
(* scans agree, and what the scans of a verified programme claim is true   *)
(* of its runs.  Each is proved by induction along the command and the     *)
(* run.                                                                    *)
(*                                                                         *)
(* The first half is about operators.  What one instruction of a run does  *)
(* to the registers and to the program counter, for every state and every  *)
(* instruction; which schedules there are; how a run follows the rounds of *)
(* exec_program_path.  Then what the linear scans compute, for every list: *)
(* each is unrolled into its single steps, and what a scan claims at an    *)
(* instruction is related to what it claimed where control comes from.     *)
(*                                                                         *)
(* The second half is about the command and its runs.                      *)
(***************************************************************************)
EXTENDS ObjectVerify, LayoutProofs, FiniteSetTheorems, SequenceTheorems

IsValue(v) == v = [kind |-> v.kind, n |-> v.n]

IsFile(bank) == /\ bank = [r \in Reg |-> bank[r]]
                /\ \A r \in Reg : IsValue(bank[r])

IsMachine(st) ==
  /\ st = [regs |-> st.regs, pc |-> st.pc, stack |-> st.stack, maps |-> st.maps,
           ring |-> st.ring, next_id |-> st.next_id]
  /\ st.pc \in Int
  /\ IsFile(st.regs)

(* What is in the fields of an instruction. *)
LEMMA InstructionFacts ==
  ASSUME NEW i \in Instructions
  PROVE  /\ i.kind \in Kind /\ i.dst \in Reg /\ i.src \in Reg \cup {Imm}
         /\ i.imm \in Int /\ i.off \in Int /\ i.width \in Nat
         /\ IsCopy(i) => i.src \in Reg
         /\ IsMemory(i) => Base(i) \in Reg
  BY DEF Instructions, IsCopy, IsMemory, Base, Imm

(* A register takes a value, and the run goes on to the next instruction. *)
Taken(st, d, v) == [[st EXCEPT !.pc = @ + 1] EXCEPT !.regs[d] = v]

LEMMA TakenFacts ==
  ASSUME NEW st, IsMachine(st), NEW d \in Reg, NEW v, IsValue(v)
  PROVE  /\ IsMachine(Taken(st, d, v))
         /\ Taken(st, d, v).pc = st.pc + 1
         /\ Taken(st, d, v).regs[d] = v
         /\ \A r \in Reg \ {d} : Taken(st, d, v).regs[r] = st.regs[r]
<1>. DEFINE next == [st EXCEPT !.pc = @ + 1]
            t    == Taken(st, d, v)
            file == [r \in Reg |-> IF r = d THEN v ELSE st.regs[r]]
<1>1. next = [regs |-> st.regs, pc |-> st.pc + 1, stack |-> st.stack, maps |-> st.maps,
              ring |-> st.ring, next_id |-> st.next_id]
  BY DEF IsMachine
<1>2. [st.regs EXCEPT ![d] = v] = file
  BY DEF IsMachine, IsFile
<1>. HIDE DEF next
<1>3. t = [next EXCEPT !.regs = [st.regs EXCEPT ![d] = v]]
  BY <1>1 DEF next, Taken
<1>4. t = [regs |-> file, pc |-> st.pc + 1, stack |-> st.stack, maps |-> st.maps,
           ring |-> st.ring, next_id |-> st.next_id]
  BY <1>1, <1>2, <1>3
<1>5. IsFile(file) /\ file[d] = v /\ \A r \in Reg \ {d} : file[r] = st.regs[r]
  BY DEF IsMachine, IsFile
<1>. HIDE DEF t, file
<1>6. t.regs = file /\ t.pc = st.pc + 1 /\ st.pc + 1 \in Int
  BY <1>4 DEF IsMachine
<1>7. IsMachine(t)
  BY <1>4, <1>5, <1>6 DEF IsMachine
<1>. QED BY <1>5, <1>6, <1>7 DEF t

LEMMA ValuesAreValues ==
  /\ \A w : IsValue(Scalar(w)) /\ IsValue(MapValuePtr(w)) /\ IsValue(RingBufPtr(w)) /\ IsValue(CtxPtr(w))
            /\ IsValue(FramePtr(w))
  /\ IsValue(Null)
  BY DEF IsValue, Scalar, MapValuePtr, RingBufPtr, Null, CtxPtr, FramePtr

LEMMA MovedFacts ==
  ASSUME NEW v, IsValue(v), NEW i
  PROVE  IsValue(MovedBy(v, i)) /\ MovedBy(v, i).kind = v.kind
  BY DEF IsValue, MovedBy

(* What arithmetic and moves compute. *)
LEMMA AluFacts ==
  ASSUME NEW d, IsValue(d), NEW s, IsValue(s), NEW i, i.kind = "alu", NEW v \in AluResults(i, d, s),
         i.src = Imm => s.kind = "Scalar"
  PROVE  /\ IsValue(v)
         /\ IsCopy(i) => v = s
         /\ Displaces(i) /\ d.kind \in {"FramePtr", "CtxPtr"} => v = MovedBy(d, i)
         /\ ~IsCopy(i) /\ ~(Displaces(i) /\ d.kind \in {"FramePtr", "CtxPtr"}) => v.kind = "Scalar"
<1>1. CASE i.op = "Mov" /\ i.wide
  <2>1. v = s
    BY <1>1 DEF AluResults, Displaces
  <2>. QED BY <1>1, <2>1 DEF IsCopy, Displaces
<1>2. CASE i.op = "Mov" /\ ~i.wide
  <2>1. v = Scalar(Low(s.n))
    BY <1>2 DEF AluResults, Displaces
  <2>. QED BY <1>2, <2>1, ValuesAreValues DEF IsCopy, Displaces, Scalar
<1>3. CASE i.op # "Mov" /\ Displaces(i) /\ d.kind \in {"FramePtr", "CtxPtr"}
  <2>1. v = MovedBy(d, i)
    BY <1>3 DEF AluResults
  <2>. QED BY <1>3, <2>1, MovedFacts DEF IsCopy
<1>4. CASE i.op # "Mov" /\ ~(Displaces(i) /\ d.kind \in {"FramePtr", "CtxPtr"})
  <2>1. v = Scalar(alu(i.op, i.wide, d.n, s.n))
    BY <1>4 DEF AluResults
  <2>. QED BY <1>4, <2>1, ValuesAreValues DEF IsCopy, Scalar
<1>. QED BY <1>1, <1>2, <1>3, <1>4

(* A helper returns in R0 and leaves the other registers as they are. *)
LEMMA HelperFacts ==
  ASSUME NEW st, IsMachine(st), NEW h, NEW nulls, NEW found, NEW t \in exec_helper(st, h, nulls, found)
  PROVE  /\ IsMachine(t)
         /\ t.pc = st.pc + 1
         /\ \A r \in Reg \ {R0} : t.regs[r] = st.regs[r]
         /\ t.regs[R0].kind = "Null" => IsNullable(h)
         /\ ret_type(h) \in {"RetScalar", "RetErrorCode"} => t.regs[R0].kind = "Scalar"
<1>. DEFINE effect == apply_helper_effect(st, h)
            after  == [effect EXCEPT !.pc = @ + 1]
            Returns(v) == [after EXCEPT !.regs[R0] = v]
            id     == st.next_id
            first  == [Returns(MapValuePtr(id)) EXCEPT !.maps = @ \cup {id}, !.next_id = id + 1]
            second == [Returns(RingBufPtr(id)) EXCEPT !.next_id = id + 1]
            pointer == IF h = "MAP_LOOKUP_ELEM" THEN first ELSE second
<1>1. IsMachine(effect) /\ effect.pc = st.pc /\ effect.regs = st.regs
  BY DEF apply_helper_effect, IsMachine
<1>2. R0 \in Reg
  BY DEF R0, Reg
<1>. HIDE DEF effect
<1>3. ASSUME NEW v, IsValue(v)
      PROVE  /\ IsMachine(Returns(v)) /\ Returns(v).pc = st.pc + 1 /\ Returns(v).regs[R0] = v
             /\ \A r \in Reg \ {R0} : Returns(v).regs[r] = st.regs[r]
  <2>0. Returns(v) = Taken(effect, R0, v)
    BY DEF Taken
  <2>1. /\ IsMachine(Taken(effect, R0, v)) /\ Taken(effect, R0, v).pc = effect.pc + 1
        /\ Taken(effect, R0, v).regs[R0] = v
        /\ \A r \in Reg \ {R0} : Taken(effect, R0, v).regs[r] = effect.regs[r]
    <3>1. IsMachine(effect) /\ R0 \in Reg /\ IsValue(v)
      BY <1>1, <1>2, <1>3
    <3>. QED BY <3>1, TakenFacts
  <2>. HIDE DEF Returns
  <2>. QED BY <1>1, <2>0, <2>1, Zenon
<1>. HIDE DEF Returns
<1>4. /\ IsMachine(first) /\ first.pc = st.pc + 1
      /\ first.regs[R0].kind = "MapValuePtr" /\ \A r \in Reg \ {R0} : first.regs[r] = st.regs[r]
  <2>. DEFINE u == Returns(MapValuePtr(id))
  <2>1. /\ IsMachine(u) /\ u.pc = st.pc + 1 /\ u.regs[R0] = MapValuePtr(id)
        /\ \A r \in Reg \ {R0} : u.regs[r] = st.regs[r]
    BY <1>3, ValuesAreValues, Zenon
  <2>2. u.regs[R0].kind = "MapValuePtr"
    BY <2>1 DEF MapValuePtr
  <2>. HIDE DEF u
  <2>3. first = [[u EXCEPT !.maps = @ \cup {id}] EXCEPT !.next_id = id + 1]
    BY DEF u
  <2>. HIDE DEF first
  <2>4. first = [regs |-> u.regs, pc |-> u.pc, stack |-> u.stack, maps |-> u.maps \cup {id},
                 ring |-> u.ring, next_id |-> id + 1]
    BY <2>1, <2>3 DEF IsMachine
  <2>5. IsMachine(first) /\ first.pc = u.pc /\ first.regs = u.regs
    BY <2>1, <2>4 DEF IsMachine
  <2>. QED BY <2>1, <2>2, <2>5
<1>5. /\ IsMachine(second) /\ second.pc = st.pc + 1
      /\ second.regs[R0].kind = "RingBufPtr" /\ \A r \in Reg \ {R0} : second.regs[r] = st.regs[r]
  <2>. DEFINE u == Returns(RingBufPtr(id))
  <2>1. /\ IsMachine(u) /\ u.pc = st.pc + 1 /\ u.regs[R0] = RingBufPtr(id)
        /\ \A r \in Reg \ {R0} : u.regs[r] = st.regs[r]
    BY <1>3, ValuesAreValues, Zenon
  <2>2. u.regs[R0].kind = "RingBufPtr"
    BY <2>1 DEF RingBufPtr
  <2>. HIDE DEF u
  <2>3. IsMachine(second) /\ second.pc = u.pc /\ second.regs = u.regs
    BY <2>1 DEF IsMachine, u
  <2>. QED BY <2>1, <2>2, <2>3
<1>6. /\ IsMachine(Returns(Null)) /\ Returns(Null).pc = st.pc + 1
      /\ \A r \in Reg \ {R0} : Returns(Null).regs[r] = st.regs[r]
  BY <1>3, ValuesAreValues
<1>7. ASSUME NEW w
      PROVE  /\ IsMachine(Returns(Scalar(w))) /\ Returns(Scalar(w)).pc = st.pc + 1
             /\ Returns(Scalar(w)).regs[R0].kind = "Scalar"
             /\ \A r \in Reg \ {R0} : Returns(Scalar(w)).regs[r] = st.regs[r]
  BY <1>3, ValuesAreValues DEF Scalar
<1>8. exec_helper(st, h, nulls, found) =
        CASE IsNullable(h) -> {IF null THEN Returns(Null) ELSE pointer : null \in nulls}
          [] ret_type(h) \in {"RetScalar", "RetErrorCode"} -> {Returns(Scalar(w)) : w \in found}
          [] OTHER -> {}
  BY DEF exec_helper, effect, Returns
<1>. HIDE DEF first, second
<1>9. CASE IsNullable(h)
  <2>1. ret_type(h) \notin {"RetScalar", "RetErrorCode"}
    BY <1>9 DEF IsNullable
  <2>2. t \in {Returns(Null), first, second}
    BY <1>8, <1>9, <2>1
  <2>. QED BY <1>4, <1>5, <1>6, <1>9, <2>1, <2>2
<1>10. CASE ~IsNullable(h)
  <2>1. \E w : t = Returns(Scalar(w))
    BY <1>8, <1>10
  <2>. QED BY <1>7, <2>1
<1>. QED BY <1>9, <1>10
(* What an instruction leaves and sets, whichever of its results it takes: *)
(* a number unless it is a copy or a pointer moved.                        *)
SetsOnly(st, i, t) ==
  /\ \A r \in Reg \ {i.dst} : t.regs[r] = st.regs[r]
  /\ IsCopy(i) => t.regs[i.dst] = st.regs[i.src]
  /\ Displaces(i) /\ st.regs[i.dst].kind \in {"FramePtr", "CtxPtr"} =>
       t.regs[i.dst] = MovedBy(st.regs[i.dst], i)
  /\ ~IsCopy(i) /\ ~(Displaces(i) /\ st.regs[i.dst].kind \in {"FramePtr", "CtxPtr"}) =>
       t.regs[i.dst].kind = "Scalar"

CallsOnly(st, i, t) ==
  /\ \A r \in Reg \ {R0} : t.regs[r] = st.regs[r]
  /\ t.regs[R0].kind = "Null" => IsNullable(i.helper)
  /\ ret_type(i.helper) \in {"RetScalar", "RetErrorCode"} => t.regs[R0].kind = "Scalar"

LEMMA ExecFacts ==
  ASSUME NEW st, IsMachine(st), NEW i \in Instructions, i.kind # "exit", NEW nulls, NEW found,
         NEW t \in exec_insn(st, i, nulls, found)
  PROVE  /\ IsMachine(t)
         /\ t.pc = st.pc + 1 \/ (IsJump(i) /\ t.pc = st.pc + 1 + i.off)
         /\ i.kind = "ja" => t.pc = st.pc + 1 + i.off
         /\ SetsDst(i) => SetsOnly(st, i, t)
         /\ i.kind = "call" => CallsOnly(st, i, t)
         /\ ~SetsDst(i) /\ i.kind # "call" => t.regs = st.regs
<1>. DEFINE d == st.regs[i.dst]
            s == IF i.src = Imm THEN Scalar(ImmOf(i)) ELSE st.regs[i.src]
            next == [st EXCEPT !.pc = @ + 1]
            Jump == [st EXCEPT !.pc = @ + 1 + i.off]
<1>1. /\ i.dst \in Reg /\ i.off \in Int /\ (i.src # Imm => i.src \in Reg)
      /\ (IsCopy(i) => i.src # Imm /\ s = st.regs[i.src])
  BY InstructionFacts DEF IsCopy
<1>2. IsValue(d) /\ IsValue(s) /\ (i.src = Imm => s.kind = "Scalar")
  BY <1>1, ValuesAreValues DEF IsMachine, IsFile, Scalar
<1>3. IsMachine(next) /\ next.pc = st.pc + 1 /\ next.regs = st.regs
  BY DEF IsMachine
<1>4. IsMachine(Jump) /\ Jump.pc = st.pc + 1 + i.off /\ Jump.regs = st.regs
  BY <1>1 DEF IsMachine
<1>5. ASSUME NEW v, IsValue(v)
      PROVE  LET u == [next EXCEPT !.regs[i.dst] = v] IN
             /\ IsMachine(u) /\ u.pc = st.pc + 1 /\ u.regs[i.dst] = v
             /\ \A r \in Reg \ {i.dst} : u.regs[r] = st.regs[r]
  <2>1. [next EXCEPT !.regs[i.dst] = v] = Taken(st, i.dst, v)
    BY DEF Taken
  <2>2. IsMachine(st) /\ i.dst \in Reg /\ IsValue(v)
    BY <1>1, <1>5
  <2>3. /\ IsMachine(Taken(st, i.dst, v)) /\ Taken(st, i.dst, v).pc = st.pc + 1
        /\ Taken(st, i.dst, v).regs[i.dst] = v
        /\ \A r \in Reg \ {i.dst} : Taken(st, i.dst, v).regs[r] = st.regs[r]
    BY <2>2, TakenFacts
  <2>. HIDE DEF next
  <2>. QED BY <2>1, <2>3
<1>. HIDE DEF d, s, next, Jump
<1>6. CASE i.kind = "alu"
  <2>1. PICK v \in AluResults(i, d, s) : t = [next EXCEPT !.regs[i.dst] = v]
    BY <1>6 DEF exec_insn, d, s, next
  <2>2. /\ IsValue(v)
        /\ IsCopy(i) => v = s
        /\ Displaces(i) /\ d.kind \in {"FramePtr", "CtxPtr"} => v = MovedBy(d, i)
        /\ ~IsCopy(i) /\ ~(Displaces(i) /\ d.kind \in {"FramePtr", "CtxPtr"}) => v.kind = "Scalar"
    BY <1>2, <1>6, <2>1, AluFacts
  <2>3. /\ IsMachine(t) /\ t.pc = st.pc + 1 /\ t.regs[i.dst] = v
        /\ \A r \in Reg \ {i.dst} : t.regs[r] = st.regs[r]
    BY <1>5, <2>1, <2>2
  <2>4. SetsOnly(st, i, t)
    BY <1>1, <2>2, <2>3 DEF SetsOnly, d
  <2>5. SetsDst(i) /\ ~IsJump(i)
    BY <1>6 DEF SetsDst, IsJump
  <2>. QED BY <1>6, <2>3, <2>4, <2>5
<1>7. CASE i.kind \in {"ldimm64", "ldx"}
  <2>1. PICK w : t = [next EXCEPT !.regs[i.dst] = Scalar(w)]
    BY <1>7 DEF exec_insn, next
  <2>2. IsValue(Scalar(w)) /\ Scalar(w).kind = "Scalar"
    BY ValuesAreValues DEF Scalar
  <2>3. /\ IsMachine(t) /\ t.pc = st.pc + 1 /\ t.regs[i.dst].kind = "Scalar"
        /\ \A r \in Reg \ {i.dst} : t.regs[r] = st.regs[r]
    BY <1>5, <2>1, <2>2
  <2>4. ~IsCopy(i) /\ ~Displaces(i) /\ SetsDst(i) /\ ~IsJump(i)
    BY <1>7 DEF IsCopy, Displaces, SetsDst, IsJump
  <2>5. SetsOnly(st, i, t)
    BY <2>3, <2>4 DEF SetsOnly
  <2>. QED BY <1>7, <2>3, <2>4, <2>5
<1>8. CASE i.kind \in {"stx", "st"}
  <2>1. t \in StoreResults(next, d, i.off, i.width, s)
    BY <1>8 DEF exec_insn, d, s, next
  <2>2. \E x : t = [next EXCEPT !.stack = x] \/ t = [next EXCEPT !.ring = x]
    BY <2>1 DEF StoreResults
  <2>3. IsMachine(t) /\ t.pc = st.pc + 1 /\ t.regs = st.regs
    BY <1>3, <2>2 DEF IsMachine
  <2>4. ~SetsDst(i) /\ ~IsJump(i)
    BY <1>8 DEF SetsDst, IsJump
  <2>. QED BY <1>8, <2>3, <2>4
<1>9. CASE i.kind = "jmp"
  <2>1. t \in {Jump, next}
    BY <1>9 DEF exec_insn, jump_pc, next, Jump
  <2>2. ~SetsDst(i) /\ IsJump(i)
    BY <1>9 DEF SetsDst, IsJump
  <2>. QED BY <1>3, <1>4, <1>9, <2>1, <2>2
<1>10. CASE i.kind = "ja"
  <2>1. t = Jump
    BY <1>10 DEF exec_insn, jump_pc, Jump
  <2>2. ~SetsDst(i) /\ IsJump(i)
    BY <1>10 DEF SetsDst, IsJump
  <2>. QED BY <1>4, <1>10, <2>1, <2>2
<1>11. CASE i.kind = "call"
  <2>1. t \in exec_helper(st, i.helper, nulls, found)
    BY <1>11 DEF exec_insn
  <2>2. CallsOnly(st, i, t) /\ IsMachine(t) /\ t.pc = st.pc + 1
    BY <2>1, HelperFacts DEF CallsOnly
  <2>3. ~SetsDst(i) /\ ~IsJump(i)
    BY <1>11 DEF SetsDst, IsJump
  <2>. QED BY <1>11, <2>2, <2>3
<1>12. i.kind \in {"alu", "ldimm64", "ldx", "stx", "st", "jmp", "ja", "call"}
  BY DEF exec_insn
<1>. QED BY <1>6, <1>7, <1>8, <1>9, <1>10, <1>11, <1>12
-----------------------------------------------------------------------------
(* There is a word. *)
LEMMA WordsExist == 2^WordBits \in Nat \ {0} /\ 0 \in Word /\ Wrap(0) = 0
<1>. DEFINE S == 1 .. WordBits
            c == Cardinality(SUBSET S)
<1>1. IsFiniteSet(S) /\ Cardinality(S) = WordBits
  BY WidthAssumption, FS_Interval
<1>2. IsFiniteSet(SUBSET S) /\ c = 2^WordBits
  BY <1>1, FS_SUBSET
<1>3. c \in Nat /\ c # 0
  BY <1>2, FS_CardinalityType, FS_EmptySet
<1>. QED BY <1>2, <1>3 DEF Word, Wrap

(* A test for zero tells null from every other value. *)
LEMMA NullTested ==
  ASSUME NEW st, IsMachine(st), NEW i \in Instructions, i.kind = "jmp", i.wide, i.src = Imm, i.imm = 0,
         i.op \in {"Jeq", "Jne"}, st.regs[i.dst].kind = "Null", NEW nulls, NEW found, NEW t \in exec_insn(st, i, nulls, found)
  PROVE  t.pc = IF i.op = "Jeq" THEN st.pc + 1 + i.off ELSE st.pc + 1
<1>1. ImmOf(i) = 0
  BY WordsExist DEF ImmOf
<1>. DEFINE d == st.regs[i.dst]
            s == Scalar(ImmOf(i))
<1>2. Conditions(i, d, s) = {i.op = "Jeq"}
  BY <1>1 DEF Conditions, IsZero
<1>3. t = IF i.op = "Jeq" THEN [st EXCEPT !.pc = @ + 1 + i.off] ELSE [st EXCEPT !.pc = @ + 1]
  <2>1. exec_insn(st, i, nulls, found) =
          {IF c THEN [st EXCEPT !.pc = @ + 1 + i.off] ELSE [st EXCEPT !.pc = @ + 1] : c \in Conditions(i, d, s)}
    BY DEF exec_insn, jump_pc
  <2>. HIDE DEF d, s
  <2>. QED BY <1>2, <2>1
<1>. QED BY <1>3 DEF IsMachine

-----------------------------------------------------------------------------
(* A set with one more number has twice as many subsets. *)
LEMMA PowerDoubles ==
  ASSUME NEW n \in Nat
  PROVE  2^n \in Nat \ {0} /\ 2^(n + 1) = 2 * 2^n
<1>. DEFINE A == SUBSET (1 .. n)
            B == {x \cup {n + 1} : x \in A}
            f == [x \in A |-> x \cup {n + 1}]
<1>1. IsFiniteSet(1 .. n) /\ Cardinality(1 .. n) = n
  BY FS_Interval
<1>2. IsFiniteSet(1 .. n + 1) /\ Cardinality(1 .. n + 1) = n + 1
  BY FS_Interval
<1>3. IsFiniteSet(A) /\ Cardinality(A) = 2^n
  BY <1>1, FS_SUBSET
<1>4. IsFiniteSet(SUBSET (1 .. n + 1)) /\ Cardinality(SUBSET (1 .. n + 1)) = 2^(n + 1)
  BY <1>2, FS_SUBSET
<1>5. f \in Bijection(A, B)
  <2>1. f \in [A -> B] /\ \A y \in B : \E x \in A : f[x] = y
    OBVIOUS
  <2>2. \A x \in A : x = f[x] \ {n + 1}
    OBVIOUS
  <2>3. \A x, y \in A : f[x] = f[y] => x = y
    <3>. HIDE DEF f, A
    <3>. QED BY <2>2
  <2>. QED BY <2>1, <2>3 DEF Bijection, Injection, Surjection, IsInjective
<1>6. IsFiniteSet(B) /\ Cardinality(B) = Cardinality(A)
  BY <1>3, <1>5, FS_Bijection DEF ExistsBijection
<1>7. SUBSET (1 .. n + 1) = A \cup B
  <2>1. ASSUME NEW y \in SUBSET (1 .. n + 1), n + 1 \in y PROVE y \in B
    <3>1. y \ {n + 1} \in A /\ y = (y \ {n + 1}) \cup {n + 1}
      BY <2>1
    <3>. QED BY <3>1
  <2>2. ASSUME NEW y \in SUBSET (1 .. n + 1), n + 1 \notin y PROVE y \in A
    BY <2>2
  <2>3. A \subseteq SUBSET (1 .. n + 1)
    OBVIOUS
  <2>4. B \subseteq SUBSET (1 .. n + 1)
    <3>1. \A x \in A : x \cup {n + 1} \subseteq 1 .. n + 1
      OBVIOUS
    <3>. HIDE DEF A
    <3>. QED BY <3>1
  <2>. HIDE DEF A, B
  <2>. QED BY <2>1, <2>2, <2>3, <2>4
<1>8. A \cap B = {}
  <2>1. \A x \in A : n + 1 \notin x
    <3>1. n + 1 \notin 1 .. n
      OBVIOUS
    <3>. QED BY <3>1
  <2>2. \A x \in B : n + 1 \in x
    OBVIOUS
  <2>. HIDE DEF A, B
  <2>. QED BY <2>1, <2>2
<1>9. Cardinality(A) \in Nat /\ Cardinality(A) # 0
  <2>1. {} \in A
    OBVIOUS
  <2>. HIDE DEF A
  <2>. QED BY <1>3, <2>1, FS_CardinalityType, FS_EmptySet
<1>10. Cardinality(A \cup B) = Cardinality(A) + Cardinality(B) - Cardinality({})
  <2>. HIDE DEF A, B
  <2>. QED BY <1>3, <1>6, <1>8, FS_Union
<1>11. Cardinality({}) = 0
  BY FS_EmptySet
<1>. HIDE DEF A, B, f
<1>12. Cardinality(A \cup B) = Cardinality(A) + Cardinality(A)
  BY <1>6, <1>9, <1>10, <1>11
<1>13. 2^(n + 1) = Cardinality(A \cup B)
  BY <1>4, <1>7
<1>. QED BY <1>3, <1>9, <1>12, <1>13

-----------------------------------------------------------------------------
(* The choice for the call i in the schedule b of enumerate_schedules. *)
Choice(b, i) == IF ((b - 1) \div 2^(i - 1)) % 2 = 0 THEN "NonNull" ELSE "AsNull"

LEMMA HigherBits ==
  ASSUME NEW p \in Nat \ {0}, NEW q \in Nat, NEW x \in Nat
  PROVE  ((x + p * (2 * q)) \div p) % 2 = (x \div p) % 2
<1>1. 2 * q \in Nat
  OBVIOUS
<1>2. (x + p * (2 * q)) \div p = (x \div p) + 2 * q
  <2>1. \A r \in Nat : (x + p * r) \div p = (x \div p) + r
    OBVIOUS
  <2>. QED BY <1>1, <2>1
<1>3. x \div p \in Nat
  OBVIOUS
<1>4. \A d \in Nat : (d + 2 * q) % 2 = d % 2
  OBVIOUS
<1>. QED BY <1>2, <1>3, <1>4

LEMMA HighestBit ==
  ASSUME NEW p \in Nat \ {0}, NEW x \in Nat, x < p
  PROVE  (x \div p) % 2 = 0 /\ ((x + p) \div p) % 2 = 1
<1>1. x \div p = 0 /\ (x + p) \div p = 1
  OBVIOUS
<1>. QED BY <1>1

(* Every way the calls may turn out is among the schedules. *)
LEMMA EveryScheduleListed ==
  ASSUME NEW n \in Nat, NEW f \in [1 .. n -> PathChoice]
  PROVE  \E b \in 1 .. 2^n : enumerate_schedules(n)[b] = f
<1>. DEFINE Divides(k) == \A i \in 1 .. k : \E q \in Nat : 2^k = 2^(i - 1) * (2 * q)
            Listed(k)  == \A g \in [1 .. k -> PathChoice] :
                            \E b \in 1 .. 2^k : \A i \in 1 .. k : g[i] = Choice(b, i)
            S == {k \in 0 .. n : Divides(k) /\ Listed(k)}
<1>1. 0 \in S
  <2>1. 2^0 \in Nat \ {0}
    BY PowerDoubles
  <2>. QED BY <2>1
<1>2. ASSUME NEW k \in 0 .. n - 1, k \in S PROVE k + 1 \in S
  <2>. DEFINE p == 2^k
  <2>1. k \in Nat /\ p \in Nat \ {0} /\ 2^(k + 1) = 2 * p
    BY PowerDoubles
  <2>2. Divides(k) /\ Listed(k)
    BY <1>2
  <2>3. Divides(k + 1)
    <3>. SUFFICES ASSUME NEW i \in 1 .. k + 1 PROVE \E q \in Nat : 2^(k + 1) = 2^(i - 1) * (2 * q)
      OBVIOUS
    <3>1. CASE i = k + 1
      <4>1. 2^(i - 1) = p
        BY <3>1
      <4>. HIDE DEF p
      <4>2. 2^(k + 1) = 2^(i - 1) * (2 * 1)
        BY <2>1, <4>1
      <4>. QED BY <4>2
    <3>2. CASE i # k + 1
      <4>1. i \in 1 .. k
        BY <3>2
      <4>2. PICK q \in Nat : p = 2^(i - 1) * (2 * q)
        BY <2>2, <4>1
      <4>. DEFINE e == 2^(i - 1)
      <4>3. e \in Nat
        <5>1. i - 1 \in Nat
          BY <4>1
        <5>. QED BY <5>1, PowerDoubles
      <4>. HIDE DEF e, p
      <4>4. 2 * (e * (2 * q)) = e * (2 * (2 * q))
        BY <4>3
      <4>5. p = e * (2 * q)
        BY <4>2 DEF e
      <4>6. 2^(k + 1) = e * (2 * (2 * q))
        BY <2>1, <4>4, <4>5
      <4>7. 2 * q \in Nat
        OBVIOUS
      <4>. QED BY <4>6, <4>7 DEF e
    <3>. QED BY <3>1, <3>2
  <2>4. Listed(k + 1)
    <3>. SUFFICES ASSUME NEW g \in [1 .. k + 1 -> PathChoice]
                  PROVE  \E b \in 1 .. 2^(k + 1) : \A i \in 1 .. k + 1 : g[i] = Choice(b, i)
      OBVIOUS
    <3>. DEFINE h == [i \in 1 .. k |-> g[i]]
    <3>1. h \in [1 .. k -> PathChoice] /\ \A i \in 1 .. k : h[i] = g[i]
      OBVIOUS
    <3>. HIDE DEF h
    <3>2. PICK b \in 1 .. 2^k : \A i \in 1 .. k : h[i] = Choice(b, i)
      BY <2>2, <3>1
    <3>. DEFINE x == b - 1
    <3>3. x \in Nat /\ x < p
      BY <2>1, <3>2
    <3>4. ASSUME NEW i \in 1 .. k PROVE Choice(b + p, i) = Choice(b, i)
      <4>1. PICK q \in Nat : p = 2^(i - 1) * (2 * q)
        BY <2>2
      <4>. DEFINE e == 2^(i - 1)
      <4>2. e \in Nat \ {0}
        <5>1. i - 1 \in Nat
          OBVIOUS
        <5>. QED BY <5>1, PowerDoubles
      <4>3. b + p - 1 = x + p
        BY <2>1, <3>2
      <4>4. /\ Choice(b, i) = IF (x \div e) % 2 = 0 THEN "NonNull" ELSE "AsNull"
            /\ Choice(b + p, i) = IF ((b + p - 1) \div e) % 2 = 0 THEN "NonNull" ELSE "AsNull"
        BY DEF Choice
      <4>5. p = e * (2 * q)
        BY <4>1
      <4>. HIDE DEF p, x, e
      <4>6. ((x + e * (2 * q)) \div e) % 2 = (x \div e) % 2
        BY <3>3, <4>2, HigherBits
      <4>. QED BY <4>3, <4>4, <4>5, <4>6
    <3>5. Choice(b, k + 1) = "NonNull" /\ Choice(b + p, k + 1) = "AsNull"
      <4>1. k + 1 - 1 = k /\ b + p - 1 = x + p
        BY <2>1, <3>2
      <4>. HIDE DEF p, x
      <4>2. (x \div p) % 2 = 0 /\ ((x + p) \div p) % 2 = 1
        BY <2>1, <3>3, HighestBit
      <4>. QED BY <4>1, <4>2 DEF Choice, x, p
    <3>6. b \in 1 .. 2^(k + 1) /\ b + p \in 1 .. 2^(k + 1)
      BY <2>1, <3>2
    <3>. HIDE DEF p, x
    <3>7. CASE g[k + 1] = "NonNull"
      <4>1. \A i \in 1 .. k + 1 : g[i] = Choice(b, i)
        BY <3>1, <3>2, <3>5, <3>7
      <4>. QED BY <3>6, <4>1
    <3>8. CASE g[k + 1] = "AsNull"
      <4>1. \A i \in 1 .. k + 1 : g[i] = Choice(b + p, i)
        BY <3>1, <3>2, <3>4, <3>5, <3>8
      <4>. QED BY <3>6, <4>1
    <3>. QED BY <3>7, <3>8 DEF PathChoice
  <2>5. k + 1 \in 0 .. n
    OBVIOUS
  <2>. HIDE DEF Divides, Listed
  <2>. QED BY <2>3, <2>4, <2>5
<1>3. n \in S
  <2>1. \A k \in 0 .. n : k \in S
    <3>. HIDE DEF S
    <3>. QED BY <1>1, <1>2, AlongTheList
  <2>. HIDE DEF S
  <2>. QED BY <2>1
<1>4. PICK b \in 1 .. 2^n : \A i \in 1 .. n : f[i] = Choice(b, i)
  BY <1>3
<1>5. enumerate_schedules(n)[b] = [i \in 1 .. n |-> Choice(b, i)]
  BY DEF enumerate_schedules, Choice
<1>6. f = [i \in 1 .. n |-> Choice(b, i)]
  <2>. HIDE DEF Choice
  <2>. QED BY <1>4
<1>. QED BY <1>5, <1>6
-----------------------------------------------------------------------------
(* A call whose result the schedule decides. *)
IsDecided(i) == i.kind = "call" /\ IsNullable(i.helper)

(* Whether a call gives null matters for such calls, and for nothing else. *)
LEMMA ChoicesMatter ==
  ASSUME NEW st, NEW i, NEW found, NEW t \in exec_insn(st, i, BOOLEAN, found)
  PROVE  /\ ~IsDecided(i) => \A b \in BOOLEAN : t \in exec_insn(st, i, {b}, found)
         /\ IsDecided(i) => \E b \in BOOLEAN : t \in exec_insn(st, i, {b}, found)
<1>1. CASE i.kind # "call"
  <2>1. \A b \in BOOLEAN : exec_insn(st, i, {b}, found) = exec_insn(st, i, BOOLEAN, found)
    BY <1>1 DEF exec_insn
  <2>. QED BY <1>1, <2>1 DEF IsDecided
<1>2. CASE i.kind = "call"
  <2>. DEFINE H(N) == exec_helper(st, i.helper, N, found)
  <2>1. \A N : exec_insn(st, i, N, found) = H(N)
    BY <1>2 DEF exec_insn
  <2>2. CASE ~IsNullable(i.helper)
    <3>1. \A b \in BOOLEAN : H({b}) = H(BOOLEAN)
      BY <2>2 DEF exec_helper
    <3>. HIDE DEF H
    <3>. QED BY <2>1, <2>2, <3>1 DEF IsDecided
  <2>3. CASE IsNullable(i.helper)
    <3>. DEFINE after     == [apply_helper_effect(st, i.helper) EXCEPT !.pc = @ + 1]
                Returns(v) == [after EXCEPT !.regs[R0] = v]
                id        == st.next_id
                pointer   == IF i.helper = "MAP_LOOKUP_ELEM"
                               THEN [Returns(MapValuePtr(id)) EXCEPT !.maps = @ \cup {id}, !.next_id = id + 1]
                               ELSE [Returns(RingBufPtr(id)) EXCEPT !.next_id = id + 1]
                Given(null) == IF null THEN Returns(Null) ELSE pointer
    <3>0. ret_type(i.helper) \notin {"RetScalar", "RetErrorCode"}
      BY <2>3 DEF IsNullable
    <3>. HIDE DEF Returns, pointer
    <3>1. ASSUME NEW N PROVE H(N) = {Given(null) : null \in N}
      <4>1. H(N) = CASE IsNullable(i.helper) -> {IF null THEN Returns(Null) ELSE pointer : null \in N}
                     [] ret_type(i.helper) \in {"RetScalar", "RetErrorCode"} -> {Returns(Scalar(w)) : w \in found}
                     [] OTHER -> {}
        BY DEF exec_helper, Returns, pointer
      <4>. HIDE DEF H
      <4>. QED BY <2>3, <3>0, <4>1
    <3>2. \A b \in BOOLEAN : Given(b) \in H({b})
      BY <3>1
    <3>3. t \in H(BOOLEAN)
      BY <2>1
    <3>4. t \in {Given(null) : null \in BOOLEAN}
      BY <3>1, <3>3
    <3>. HIDE DEF H, Given
    <3>5. \E b \in BOOLEAN : t = Given(b)
      BY <3>4, Zenon
    <3>6. \E b \in BOOLEAN : t \in H({b})
      BY <3>2, <3>5, Zenon
    <3>. QED BY <1>2, <2>1, <2>3, <3>6 DEF IsDecided
  <2>. QED BY <2>2, <2>3
<1>. QED BY <1>1, <1>2

-----------------------------------------------------------------------------
(* What is left of a schedule after some of its choices. *)
Left(s, l) == [j \in 1 .. Len(s) - l |-> s[l + j]]

LEMMA LeftFacts ==
  ASSUME NEW s \in Seq(PathChoice), NEW l \in 0 .. Len(s)
  PROVE  /\ Left(s, 0) = s
         /\ l < Len(s) => /\ Left(s, l) # <<>>
                          /\ Head(Left(s, l)) = s[l + 1]
                          /\ Tail(Left(s, l)) = Left(s, l + 1)
<1>1. Left(s, 0) = s
  BY DEF Left
<1>2. ASSUME l < Len(s)
      PROVE  Left(s, l) # <<>> /\ Head(Left(s, l)) = s[l + 1] /\ Tail(Left(s, l)) = Left(s, l + 1)
  <2>1. Left(s, l) \in Seq(PathChoice) /\ Len(Left(s, l)) = Len(s) - l
    BY DEF Left
  <2>2. Len(Left(s, l)) >= 1
    BY <1>2, <2>1
  <2>3. Left(s, l) # <<>> /\ Head(Left(s, l)) = s[l + 1]
    <3>1. Left(s, l) # <<>>
      BY <2>1, <2>2
    <3>2. Left(s, l)[1] = s[l + 1]
      BY <1>2 DEF Left
    <3>. QED BY <2>1, <3>1, <3>2, HeadTailProperties
  <2>4. Tail(Left(s, l)) = Left(s, l + 1)
    BY <1>2, <2>1, <2>2 DEF Left
  <2>. QED BY <2>3, <2>4
<1>. QED BY <1>1, <1>2

(* One round of exec_program_path is one instruction of a run, if the      *)
(* schedule has the choice that the run made.                              *)
LEMMA RoundFollows ==
  ASSUME NEW list, NEW st, IsAt(list, st.pc), InsnAt(list, st.pc).kind # "exit",
         NEW t \in exec_insn(st, InsnAt(list, st.pc), BOOLEAN, {0})
  PROVE  LET i == InsnAt(list, st.pc) IN
         /\ ~IsDecided(i) =>
              \A sched : [st |-> t, sched |-> sched] \in Rounds(list, [st |-> st, sched |-> sched])
         /\ IsDecided(i) =>
              \E c \in PathChoice : \A s \in Seq(PathChoice) : \A l \in 0 .. Len(s) - 1 :
                s[l + 1] = c => [st |-> t, sched |-> Left(s, l + 1)]
                                  \in Rounds(list, [st |-> st, sched |-> Left(s, l)])
<1>. DEFINE i == InsnAt(list, st.pc)
<1>1. ASSUME NEW sched
      PROVE  /\ ~IsDecided(i) =>
                  Rounds(list, [st |-> st, sched |-> sched]) =
                    {[st |-> u, sched |-> sched] : u \in exec_insn(st, i, {FALSE}, {0})}
             /\ IsDecided(i) /\ sched # <<>> =>
                  Rounds(list, [st |-> st, sched |-> sched]) =
                    {[st |-> u, sched |-> Tail(sched)] : u \in exec_insn(st, i, {Head(sched) = "AsNull"}, {0})}
  <2>. DEFINE c == [st |-> st, sched |-> sched]
              takes == i.kind = "call" /\ IsNullable(i.helper) /\ c.sched # <<>>
  <2>1. c.st = st /\ c.sched = sched
    OBVIOUS
  <2>2. Rounds(list, c) =
          {[st |-> u, sched |-> IF takes THEN Tail(c.sched) ELSE c.sched] :
             u \in exec_insn(st, i, {takes /\ Head(c.sched) = "AsNull"}, {0})}
    BY <2>1 DEF Rounds
  <2>. HIDE DEF c, i
  <2>3. ASSUME ~IsDecided(i)
        PROVE  Rounds(list, c) = {[st |-> u, sched |-> sched] : u \in exec_insn(st, i, {FALSE}, {0})}
    <3>1. takes = FALSE
      BY <2>3 DEF IsDecided
    <3>. HIDE DEF takes
    <3>. QED BY <2>1, <2>2, <3>1
  <2>4. ASSUME IsDecided(i), sched # <<>>
        PROVE  Rounds(list, c) = {[st |-> u, sched |-> Tail(sched)] : u \in exec_insn(st, i, {Head(sched) = "AsNull"}, {0})}
    <3>1. takes = TRUE
      BY <2>1, <2>4 DEF IsDecided
    <3>. HIDE DEF takes
    <3>. QED BY <2>1, <2>2, <3>1
  <2>. QED BY <2>3, <2>4 DEF c
<1>. HIDE DEF i
<1>2. CASE ~IsDecided(i)
  <2>1. t \in exec_insn(st, i, {FALSE}, {0})
    BY <1>2, ChoicesMatter DEF i
  <2>2. ASSUME NEW sched PROVE [st |-> t, sched |-> sched] \in Rounds(list, [st |-> st, sched |-> sched])
    <3>1. Rounds(list, [st |-> st, sched |-> sched]) =
            {[st |-> u, sched |-> sched] : u \in exec_insn(st, i, {FALSE}, {0})}
      BY <1>1, <1>2
    <3>. QED BY <2>1, <3>1
  <2>. QED BY <1>2, <2>2 DEF i
<1>3. CASE IsDecided(i)
  <2>1. PICK b \in BOOLEAN : t \in exec_insn(st, i, {b}, {0})
    BY <1>3, ChoicesMatter DEF i
  <2>. DEFINE c == IF b THEN "AsNull" ELSE "NonNull"
  <2>2. c \in PathChoice /\ (b <=> c = "AsNull")
    BY DEF PathChoice
  <2>. HIDE DEF c
  <2>3. ASSUME NEW s \in Seq(PathChoice), NEW l \in 0 .. Len(s) - 1, s[l + 1] = c
        PROVE  [st |-> t, sched |-> Left(s, l + 1)] \in Rounds(list, [st |-> st, sched |-> Left(s, l)])
    <3>1. l \in 0 .. Len(s) /\ l < Len(s)
      OBVIOUS
    <3>2. Left(s, l) # <<>> /\ Head(Left(s, l)) = c /\ Tail(Left(s, l)) = Left(s, l + 1)
      BY <2>3, <3>1, LeftFacts
    <3>3. Rounds(list, [st |-> st, sched |-> Left(s, l)]) =
            {[st |-> u, sched |-> Left(s, l + 1)] : u \in exec_insn(st, i, {c = "AsNull"}, {0})}
      <4>. DEFINE w == Left(s, l)
      <4>1. w # <<>> /\ Head(w) = c /\ Tail(w) = Left(s, l + 1)
        BY <3>2
      <4>. HIDE DEF w
      <4>2. Rounds(list, [st |-> st, sched |-> w]) =
              {[st |-> u, sched |-> Tail(w)] : u \in exec_insn(st, i, {Head(w) = "AsNull"}, {0})}
        BY <1>1, <1>3, <4>1
      <4>3. Rounds(list, [st |-> st, sched |-> w]) =
              {[st |-> u, sched |-> Left(s, l + 1)] : u \in exec_insn(st, i, {c = "AsNull"}, {0})}
        BY <4>1, <4>2
      <4>. QED BY <4>3 DEF w
    <3>4. (c = "AsNull") = b
      BY <2>2
    <3>. QED BY <2>1, <3>3, <3>4
  <2>. QED BY <1>3, <2>2, <2>3 DEF i
<1>. QED BY <1>2, <1>3

(* The rounds of exec_program_path, one after another. *)
LEMMA RoundsUnrolled ==
  ASSUME NEW list, Len(list) \in Nat, NEW init, NEW sched
  PROVE  LET after == after_rounds(list, init, sched) IN
         /\ after[0] = {[st |-> init, sched |-> sched]}
         /\ \A k \in 1 .. Len(list) : after[k] = AllRounds(list, after[k - 1])
<1>. DEFINE n == Len(list)
            Runs(g, k) == /\ g = [j \in 0 .. k |-> g[j]]
                          /\ g[0] = {[st |-> init, sched |-> sched]}
                          /\ \A j \in 1 .. k : g[j] = AllRounds(list, g[j - 1])
            S == {k \in 0 .. n : \E g : Runs(g, k)}
<1>1. 0 \in S
  <2>. DEFINE g == [j \in 0 .. 0 |-> {[st |-> init, sched |-> sched]}]
  <2>1. Runs(g, 0)
    OBVIOUS
  <2>2. 0 \in 0 .. n
    OBVIOUS
  <2>. HIDE DEF g, Runs
  <2>. QED BY <2>1, <2>2
<1>2. ASSUME NEW k \in 0 .. n - 1, k \in S PROVE k + 1 \in S
  <2>1. PICK g : Runs(g, k)
    BY <1>2
  <2>. DEFINE next == AllRounds(list, g[k])
              h    == [j \in 0 .. k + 1 |-> IF j = k + 1 THEN next ELSE g[j]]
  <2>2. \A j \in 0 .. k : h[j] = g[j]
    OBVIOUS
  <2>3. h[k + 1] = next /\ h = [j \in 0 .. k + 1 |-> h[j]]
    OBVIOUS
  <2>4. ASSUME NEW j \in 1 .. k + 1 PROVE h[j] = AllRounds(list, h[j - 1])
    <3>1. j - 1 \in 0 .. k
      OBVIOUS
    <3>2. h[j - 1] = g[j - 1]
      BY <2>2, <3>1
    <3>3. CASE j = k + 1
      <4>1. j - 1 = k
        BY <3>3
      <4>. HIDE DEF h
      <4>. QED BY <2>3, <3>2, <3>3, <4>1
    <3>4. CASE j # k + 1
      <4>1. j \in 1 .. k
        BY <3>4
      <4>2. h[j] = g[j]
        BY <2>2, <4>1
      <4>. HIDE DEF h
      <4>. QED BY <2>1, <3>2, <4>1, <4>2
    <3>. QED BY <3>3, <3>4
  <2>5. h[0] = {[st |-> init, sched |-> sched]}
    BY <2>1, <2>2
  <2>. HIDE DEF h
  <2>6. Runs(h, k + 1)
    BY <2>3, <2>4, <2>5
  <2>. HIDE DEF Runs
  <2>. QED BY <2>6
<1>3. n \in S
  <2>1. \A k \in 0 .. n : k \in S
    <3>. HIDE DEF S
    <3>. QED BY <1>1, <1>2, AlongTheList
  <2>. HIDE DEF S
  <2>. QED BY <2>1
<1>4. PICK g : Runs(g, n)
  BY <1>3
<1>. HIDE DEF n
<1>50. n \in Nat
  BY DEF n
<1>5. g = [k \in 0 .. n |-> IF k = 0 THEN {[st |-> init, sched |-> sched]}
                            ELSE AllRounds(list, g[k - 1])]
  BY <1>4, <1>50
<1>. DEFINE after == after_rounds(list, init, sched)
<1>6. after = [k \in 0 .. n |-> IF k = 0 THEN {[st |-> init, sched |-> sched]}
                                ELSE AllRounds(list, after[k - 1])]
  BY <1>5 DEF after_rounds, n
<1>. HIDE DEF after
<1>. DEFINE first == {[st |-> init, sched |-> sched]}
<1>. HIDE DEF Runs, S, first
<1>7. after = [k \in 0 .. n |-> IF k = 0 THEN first ELSE AllRounds(list, after[k - 1])]
  BY <1>6 DEF first
<1>8. after[0] = first
  <2>1. 0 \in 0 .. n
    BY <1>50
  <2>. QED BY <1>7, <2>1
<1>9. ASSUME NEW k \in 1 .. n PROVE after[k] = AllRounds(list, after[k - 1])
  <2>1. k \in 0 .. n /\ k # 0
    BY <1>50
  <2>. QED BY <1>7, <2>1
<1>. QED BY <1>8, <1>9 DEF after, n, first

-----------------------------------------------------------------------------
(* The calls before an instruction whose result the schedule decides. *)
DecidedBefore(list, p) == {j \in DOMAIN list : j <= p /\ IsDecided(list[j])}

LEMMA DecidedFacts ==
  ASSUME NEW list, Len(list) \in Nat, DOMAIN list = 1 .. Len(list), NEW p \in Nat
  PROVE  /\ Cardinality(DecidedBefore(list, p)) \in 0 .. count_nullable_helpers(list)
         /\ count_nullable_helpers(list) \in 0 .. Len(list)
         /\ \A q \in Nat : q >= p => Cardinality(DecidedBefore(list, p)) <= Cardinality(DecidedBefore(list, q))
         /\ \A q \in Nat : q > p /\ p < Len(list) /\ IsDecided(list[p + 1]) =>
              Cardinality(DecidedBefore(list, p)) + 1 <= Cardinality(DecidedBefore(list, q))
<1>. DEFINE D(q) == DecidedBefore(list, q)
            N == {k \in DOMAIN list : list[k].kind = "call" /\ returns_nullable_ptr(list[k].helper)}
<1>1. IsFiniteSet(1 .. Len(list)) /\ Cardinality(1 .. Len(list)) = Len(list)
  <2>1. \A n \in Nat : IsFiniteSet(1 .. n) /\ Cardinality(1 .. n) = n
    BY FS_Interval
  <2>. QED BY <2>1
<1>2. N \subseteq 1 .. Len(list)
  OBVIOUS
<1>3. IsFiniteSet(N) /\ Cardinality(N) \in 0 .. Len(list)
  <2>. HIDE DEF N
  <2>1. IsFiniteSet(N) /\ Cardinality(N) <= Cardinality(1 .. Len(list))
    BY <1>1, <1>2, FS_Subset
  <2>. QED BY <1>1, <2>1, FS_CardinalityType
<1>4. \A q : D(q) \subseteq N
  <2>1. \A h : IsNullable(h) => returns_nullable_ptr(h)
    <3>1. \A h : IsNullable(h) => h \in {"MAP_LOOKUP_ELEM", "RINGBUF_RESERVE"}
      BY DEF IsNullable, ret_type
    <3>2. /\ HELPERS.MAP_LOOKUP_ELEM.ret_type = "MapPtr" /\ "MAP_LOOKUP_ELEM" \in DOMAIN HELPERS
          /\ HELPERS.RINGBUF_RESERVE.ret_type = "RingBufPtr" /\ "RINGBUF_RESERVE" \in DOMAIN HELPERS
      BY DEF HELPERS, Helper
    <3>. QED BY <3>1, <3>2 DEF returns_nullable_ptr
  <2>. QED BY <2>1 DEF DecidedBefore, IsDecided
<1>5. \A q : IsFiniteSet(D(q)) /\ Cardinality(D(q)) \in 0 .. Cardinality(N)
  <2>. HIDE DEF N, D
  <2>1. \A q : IsFiniteSet(D(q)) /\ Cardinality(D(q)) <= Cardinality(N)
    BY <1>3, <1>4, FS_Subset
  <2>. QED BY <1>3, <2>1, FS_CardinalityType
<1>6. ASSUME NEW q \in Nat, q >= p PROVE Cardinality(D(p)) <= Cardinality(D(q))
  <2>1. D(p) \subseteq D(q)
    BY <1>6 DEF DecidedBefore
  <2>. HIDE DEF D
  <2>. QED BY <1>5, <2>1, FS_Subset
<1>7. ASSUME NEW q \in Nat, q > p, p < Len(list), IsDecided(list[p + 1])
      PROVE  Cardinality(D(p)) + 1 <= Cardinality(D(q))
  <2>1. D(p) \cup {p + 1} \subseteq D(q) /\ p + 1 \notin D(p)
    BY <1>7 DEF DecidedBefore
  <2>. HIDE DEF D, N
  <2>2. Cardinality(D(p) \cup {p + 1}) = Cardinality(D(p)) + 1
    BY <1>5, <2>1, FS_AddElement
  <2>3. Cardinality(D(p) \cup {p + 1}) <= Cardinality(D(q))
    BY <1>5, <2>1, FS_Subset
  <2>. QED BY <2>2, <2>3
<1>8. Cardinality(N) = count_nullable_helpers(list)
  BY DEF count_nullable_helpers
<1>. HIDE DEF N, D
<1>. QED BY <1>3, <1>5, <1>6, <1>7, <1>8 DEF D

-----------------------------------------------------------------------------
(* A schedule begins with the choices past. *)
Extends(s, past) == Len(past) <= Len(s) /\ \A j \in 1 .. Len(past) : s[j] = past[j]

(* A run stands where k rounds of exec_program_path lead from init, for    *)
(* every schedule that begins with the choices the run has made; and no    *)
(* more choices were made than there are calls before the instruction.     *)
IsOnPath(list, init, past, k, st) ==
  /\ k <= st.pc
  /\ Len(past) <= Cardinality(DecidedBefore(list, st.pc))
  /\ \A s \in Seq(PathChoice) : Extends(s, past) =>
       [st |-> st, sched |-> Left(s, Len(past))] \in after_rounds(list, init, s)[k]

OnPath(list, inits, st) ==
  /\ st.pc \in Nat
  /\ \E init \in inits, past \in Seq(PathChoice), k \in 0 .. Len(list) : IsOnPath(list, init, past, k, st)

LEMMA PathBegins ==
  ASSUME NEW list, Len(list) \in Nat, DOMAIN list = 1 .. Len(list), NEW inits, NEW init \in inits, init.pc = 0
  PROVE  OnPath(list, inits, init)
<1>. DEFINE past == <<>>
<1>1. past \in Seq(PathChoice) /\ Len(past) = 0
  OBVIOUS
<1>2. 0 <= Cardinality(DecidedBefore(list, 0))
  BY DecidedFacts
<1>3. ASSUME NEW s \in Seq(PathChoice)
      PROVE  [st |-> init, sched |-> Left(s, 0)] \in after_rounds(list, init, s)[0]
  <2>1. Left(s, 0) = s
    BY LeftFacts
  <2>2. after_rounds(list, init, s)[0] = {[st |-> init, sched |-> s]}
    BY RoundsUnrolled
  <2>. QED BY <2>1, <2>2
<1>. HIDE DEF past
<1>4. IsOnPath(list, init, past, 0, init)
  BY <1>1, <1>2, <1>3 DEF IsOnPath
<1>5. 0 \in 0 .. Len(list) /\ init.pc \in Nat
  OBVIOUS
<1>. QED BY <1>1, <1>4, <1>5 DEF OnPath

(* One instruction of a run that jumps forward only. *)
LEMMA PathGoesOn ==
  ASSUME NEW list, Len(list) \in Nat, DOMAIN list = 1 .. Len(list), NEW inits, NEW st,
         OnPath(list, inits, st), IsAt(list, st.pc), InsnAt(list, st.pc).kind # "exit",
         NEW t \in exec_insn(st, InsnAt(list, st.pc), BOOLEAN, {0}), t.pc \in Nat, t.pc > st.pc
  PROVE  OnPath(list, inits, t)
<1>. DEFINE i == InsnAt(list, st.pc)
            D(p) == Cardinality(DecidedBefore(list, p))
<1>1. PICK init \in inits, past \in Seq(PathChoice), k \in 0 .. Len(list) : IsOnPath(list, init, past, k, st)
  BY DEF OnPath
<1>2. st.pc \in Nat /\ st.pc < Len(list) /\ k <= st.pc /\ i = list[st.pc + 1]
  BY <1>1 DEF OnPath, IsOnPath, IsAt, InsnAt, Fetched, At
<1>. DEFINE l == Len(past)
<1>3. l \in Nat /\ l <= D(st.pc) /\ k + 1 \in 0 .. Len(list) /\ k + 1 \in 1 .. Len(list) /\ k + 1 <= t.pc
  BY <1>1, <1>2 DEF IsOnPath
<1>4. /\ D(st.pc) \in Nat /\ D(t.pc) \in Nat /\ D(st.pc) <= D(t.pc)
      /\ IsDecided(i) => D(st.pc) + 1 <= D(t.pc)
  <2>1. /\ D(st.pc) \in 0 .. count_nullable_helpers(list) /\ D(t.pc) \in 0 .. count_nullable_helpers(list)
        /\ count_nullable_helpers(list) \in 0 .. Len(list)
    BY <1>2, DecidedFacts
  <2>2. D(st.pc) <= D(t.pc)
    <3>1. st.pc \in Nat /\ t.pc \in Nat /\ t.pc >= st.pc
      BY <1>2
    <3>2. \A q \in Nat : q >= st.pc => D(st.pc) <= D(q)
      BY <3>1, DecidedFacts
    <3>. HIDE DEF D
    <3>. QED BY <3>1, <3>2
  <2>3. IsDecided(i) => D(st.pc) + 1 <= D(t.pc)
    BY <1>2, DecidedFacts
  <2>. HIDE DEF D, i
  <2>. QED BY <2>1, <2>2, <2>3
<1>5. \A s \in Seq(PathChoice) : Extends(s, past) =>
        [st |-> st, sched |-> Left(s, l)] \in after_rounds(list, init, s)[k]
  BY <1>1 DEF IsOnPath
<1>. HIDE DEF D, l, i
<1>6. ASSUME NEW s \in Seq(PathChoice), NEW sched, Extends(s, past),
             [st |-> t, sched |-> sched] \in Rounds(list, [st |-> st, sched |-> Left(s, l)])
      PROVE  [st |-> t, sched |-> sched] \in after_rounds(list, init, s)[k + 1]
  <2>1. k + 1 - 1 = k
    OBVIOUS
  <2>2. after_rounds(list, init, s)[k + 1] = AllRounds(list, after_rounds(list, init, s)[k])
    <3>1. after_rounds(list, init, s)[k + 1] = AllRounds(list, after_rounds(list, init, s)[k + 1 - 1])
      BY <1>3, RoundsUnrolled
    <3>. QED BY <2>1, <3>1
  <2>. QED BY <1>5, <1>6, <2>2 DEF AllRounds
<1>7. CASE ~IsDecided(i)
  <2>1. \A sched : [st |-> t, sched |-> sched] \in Rounds(list, [st |-> st, sched |-> sched])
    BY <1>7, RoundFollows DEF i
  <2>2. ASSUME NEW s \in Seq(PathChoice), Extends(s, past)
        PROVE  [st |-> t, sched |-> Left(s, l)] \in after_rounds(list, init, s)[k + 1]
    BY <1>6, <2>1, <2>2
  <2>3. IsOnPath(list, init, past, k + 1, t)
    BY <1>3, <1>4, <2>2 DEF IsOnPath, l, D
  <2>. QED BY <1>3, <2>3 DEF OnPath
<1>8. CASE IsDecided(i)
  <2>1. PICK c \in PathChoice : \A s \in Seq(PathChoice) : \A q \in 0 .. Len(s) - 1 :
          s[q + 1] = c => [st |-> t, sched |-> Left(s, q + 1)] \in Rounds(list, [st |-> st, sched |-> Left(s, q)])
    BY <1>8, RoundFollows DEF i
  <2>. DEFINE now == Append(past, c)
  <2>2. now \in Seq(PathChoice) /\ Len(now) = l + 1 /\ now[l + 1] = c /\ \A j \in 1 .. l : now[j] = past[j]
    BY DEF l
  <2>. HIDE DEF now
  <2>3. ASSUME NEW s \in Seq(PathChoice), Extends(s, now)
        PROVE  [st |-> t, sched |-> Left(s, l + 1)] \in after_rounds(list, init, s)[k + 1]
    <3>1. Extends(s, past) /\ s[l + 1] = c /\ l \in 0 .. Len(s) - 1
      BY <1>3, <2>2, <2>3 DEF Extends, l
    <3>2. [st |-> t, sched |-> Left(s, l + 1)] \in Rounds(list, [st |-> st, sched |-> Left(s, l)])
      BY <2>1, <3>1
    <3>. QED BY <1>6, <3>1, <3>2
  <2>4. Len(now) <= D(t.pc)
    BY <1>3, <1>4, <1>8, <2>2
  <2>5. IsOnPath(list, init, now, k + 1, t)
    BY <1>3, <2>2, <2>3, <2>4 DEF IsOnPath, D
  <2>. QED BY <1>3, <2>2, <2>5 DEF OnPath
<1>. QED BY <1>7, <1>8

(* What exec_program_path returns for such a schedule is where the run is. *)
LEMMA PathEnds ==
  ASSUME NEW list, Len(list) \in Nat, NEW init, NEW past \in Seq(PathChoice), NEW k \in 0 .. Len(list),
         NEW st, st.pc \in Nat, IsOnPath(list, init, past, k, st),
         IsAt(list, st.pc), InsnAt(list, st.pc).kind = "exit",
         NEW s \in Seq(PathChoice), Extends(s, past)
  PROVE  st \in exec_program_path(list, init, s)
<1>. DEFINE c == [st |-> st, sched |-> Left(s, Len(past))]
            Ends(j) == {x \in after_rounds(list, init, s)[j] :
                          IsAt(list, x.st.pc) /\ InsnAt(list, x.st.pc).kind = "exit"}
            E == UNION {Ends(j) : j \in 0 .. Len(list) - 1}
<1>1. k \in 0 .. Len(list) - 1
  BY DEF IsOnPath, IsAt, Fetched
<1>2. c \in after_rounds(list, init, s)[k] /\ c.st = st
  BY DEF IsOnPath
<1>3. exec_program_path(list, init, s) = {x.st : x \in E}
  BY DEF exec_program_path
<1>. HIDE DEF c
<1>4. c \in Ends(k)
  BY <1>2
<1>5. c \in E
  <2>. HIDE DEF Ends
  <2>. QED BY <1>1, <1>4
<1>. HIDE DEF E
<1>. QED BY <1>2, <1>3, <1>5

(* A schedule of the list that begins with choices that were made, and it  *)
(* is not the first one when a null is among them.                         *)
LEMMA ScheduleBeginsWith ==
  ASSUME NEW n \in Nat, NEW past \in Seq(PathChoice), Len(past) <= n,
         \E j \in 1 .. Len(past) : past[j] = "AsNull"
  PROVE  \E b \in 2 .. 2^n : /\ enumerate_schedules(n)[b] \in Seq(PathChoice)
                             /\ Extends(enumerate_schedules(n)[b], past)
<1>. DEFINE f == [i \in 1 .. n |-> IF i <= Len(past) THEN past[i] ELSE "NonNull"]
<1>1. Len(past) \in Nat
  OBVIOUS
<1>2. f \in [1 .. n -> PathChoice]
  BY DEF PathChoice
<1>3. \A j \in 1 .. Len(past) : j \in 1 .. n /\ f[j] = past[j]
  BY <1>1
<1>4. f \in Seq(PathChoice) /\ Len(f) = n
  <2>. HIDE DEF f
  <2>. QED BY <1>2
<1>. HIDE DEF f
<1>5. Extends(f, past)
  BY <1>3, <1>4 DEF Extends
<1>6. PICK b \in 1 .. 2^n : enumerate_schedules(n)[b] = f
  BY <1>2, EveryScheduleListed
<1>7. 2^n \in Nat
  BY PowerDoubles
<1>8. b # 1
  <2>. SUFFICES ASSUME b = 1 PROVE FALSE
    OBVIOUS
  <2>1. PICK j \in 1 .. Len(past) : past[j] = "AsNull"
    OBVIOUS
  <2>2. f[j] = "AsNull" /\ j \in 1 .. n
    BY <1>3, <2>1
  <2>3. enumerate_schedules(n)[1] = [i \in 1 .. n |-> Choice(1, i)]
    BY <1>6 DEF enumerate_schedules, Choice
  <2>4. f[j] = Choice(1, j)
    BY <1>6, <2>2, <2>3
  <2>5. Choice(1, j) = "NonNull"
    <3>1. 2^(j - 1) \in Nat \ {0} /\ 1 - 1 = 0
      <4>1. j - 1 \in Nat
        BY <2>2
      <4>. QED BY <4>1, PowerDoubles
    <3>2. \A p \in Nat \ {0} : (0 \div p) % 2 = 0
      OBVIOUS
    <3>. QED BY <3>1, <3>2 DEF Choice
  <2>. QED BY <2>2, <2>4, <2>5
<1>. QED BY <1>4, <1>5, <1>6, <1>7, <1>8

-----------------------------------------------------------------------------
(* What the scans have in common.  C is the set of what may be claimed of  *)
(* a register.                                                             *)
Files(C) == [Reg -> C]
Maps(C)  == UNION {[P -> Files(C)] : P \in SUBSET Int}
Finds(C) == [ok : BOOLEAN, regs : Files(C), targets : Maps(C)]

LEMMA MapFacts ==
  ASSUME NEW C, NEW t \in Maps(C)
  PROVE  /\ DOMAIN t \subseteq Int
         /\ t = [p \in DOMAIN t |-> t[p]]
         /\ \A p \in DOMAIN t : t[p] \in Files(C)
<1>1. PICK P \in SUBSET Int : t \in [P -> Files(C)]
  BY DEF Maps
<1>. QED BY <1>1

LEMMA MapIs ==
  ASSUME NEW C, NEW P \in SUBSET Int, NEW t, t \in [P -> Files(C)]
  PROVE  t \in Maps(C)
  BY DEF Maps

LEMMA JoinTyped ==
  ASSUME NEW C, NEW top \in C, NEW s \in Files(C), NEW t \in Files(C)
  PROVE  Join(top, s, t) \in Files(C)
  BY DEF Join, Files

LEMMA MergedTyped ==
  ASSUME NEW C, NEW top \in C, NEW s \in Files(C), NEW t \in Maps(C), NEW at
  PROVE  Merged(top, s, at, t) \in Files(C)
<1>1. at \in DOMAIN t => t[at] \in Files(C)
  BY MapFacts
<1>. QED BY <1>1, JoinTyped DEF Merged

LEMMA ClearedFacts ==
  ASSUME NEW C, NEW t \in Maps(C), NEW at
  PROVE  /\ Cleared(t, at) \in Maps(C)
         /\ DOMAIN Cleared(t, at) = DOMAIN t \ {at}
         /\ \A p \in DOMAIN t \ {at} : Cleared(t, at)[p] = t[p]
<1>1. DOMAIN t \ {at} \in SUBSET Int /\ \A p \in DOMAIN t \ {at} : t[p] \in Files(C)
  BY MapFacts
<1>2. Cleared(t, at) \in [DOMAIN t \ {at} -> Files(C)]
  BY <1>1 DEF Cleared
<1>. QED BY <1>1, <1>2, MapIs DEF Cleared

LEMMA AddedFacts ==
  ASSUME NEW C, NEW top \in C, NEW t \in Maps(C), NEW to \in Int, NEW s \in Files(C)
  PROVE  /\ add_target(top, t, to, s) \in Maps(C)
         /\ \A p : p \in DOMAIN add_target(top, t, to, s) <=> p \in DOMAIN t \/ p = to
         /\ \A p \in DOMAIN t \ {to} : add_target(top, t, to, s)[p] = t[p]
         /\ add_target(top, t, to, s)[to] = IF to \in DOMAIN t THEN Join(top, t[to], s) ELSE s
<1>1. DOMAIN t \cup {to} \in SUBSET Int /\ \A p \in DOMAIN t : t[p] \in Files(C)
  BY MapFacts
<1>2. to \in DOMAIN t => Join(top, t[to], s) \in Files(C)
  BY <1>1, JoinTyped
<1>3. add_target(top, t, to, s) \in [DOMAIN t \cup {to} -> Files(C)]
  BY <1>1, <1>2 DEF add_target
<1>4. add_target(top, t, to, s) \in Maps(C)
  BY <1>1, <1>3, MapIs
<1>. QED BY <1>4 DEF add_target

LEMMA ClobberedFacts ==
  ASSUME NEW C, NEW top \in C, NEW s \in Files(C)
  PROVE  /\ Clobbered(top, s) \in Files(C)
         /\ \A r \in Reg : Clobbered(top, s)[r] = IF r <= 5 THEN top ELSE s[r]
  BY DEF Clobbered, Files

LEMMA HeadFacts ==
  ASSUME NEW list \in Seq(Instructions), NEW C, NEW top \in C, NEW s \in Files(C)
  PROVE  /\ init_loop_targets(top, list, s) \in Maps(C)
         /\ DOMAIN init_loop_targets(top, list, s) = LoopHeads(list)
         /\ \A h \in LoopHeads(list) : init_loop_targets(top, list, s)[h] = Clobbered(top, s)
<1>1. \A k \in 0 .. Len(list) - 1 : target_pc(k, At(list, k)) \in Int
  BY DEF At, target_pc, Instructions
<1>2. LoopHeads(list) \in SUBSET Int
  BY <1>1 DEF LoopHeads
<1>3. init_loop_targets(top, list, s) \in [LoopHeads(list) -> Files(C)]
  BY ClobberedFacts DEF init_loop_targets
<1>. QED BY <1>2, <1>3, MapIs DEF init_loop_targets

(* s claims nothing that t does not. *)
Below(top, s, t) == \A r \in Reg : s[r] # top => s[r] = t[r]

(* The entry for an instruction claims nothing that s does not. *)
Recorded(top, t, to, s) == to \in DOMAIN t /\ Below(top, t[to], s)

(* An entry keeps to what it claims until its instruction comes. *)
LEMMA RecordedStays ==
  ASSUME NEW C, NEW top \in C, NEW t \in Maps(C), NEW to, NEW s, Recorded(top, t, to, s), NEW at, at # to
  PROVE  Recorded(top, Cleared(t, at), to, s)
<1>1. DOMAIN Cleared(t, at) = DOMAIN t \ {at} /\ \A p \in DOMAIN t \ {at} : Cleared(t, at)[p] = t[p]
  BY ClearedFacts, Zenon
<1>. QED BY <1>1 DEF Recorded

LEMMA RecordedWeakens ==
  ASSUME NEW C, NEW top \in C, NEW t \in Maps(C), NEW to, NEW s, Recorded(top, t, to, s),
         NEW p \in Int, NEW u \in Files(C)
  PROVE  Recorded(top, add_target(top, t, p, u), to, s)
<1>. DEFINE a == add_target(top, t, p, u)
<1>1. to \in DOMAIN t /\ t[to] \in Files(C)
  BY MapFacts, Zenon DEF Recorded
<1>2. /\ \A q : q \in DOMAIN a <=> q \in DOMAIN t \/ q = p
      /\ \A q \in DOMAIN t \ {p} : a[q] = t[q]
      /\ a[p] = IF p \in DOMAIN t THEN Join(top, t[p], u) ELSE u
  BY AddedFacts, Zenon
<1>. HIDE DEF a
<1>3. ASSUME p = to PROVE Recorded(top, a, to, s)
  <2>1. a[to] = Join(top, t[to], u)
    BY <1>1, <1>2, <1>3
  <2>2. Below(top, a[to], t[to])
    BY <2>1 DEF Below, Join
  <2>3. Below(top, t[to], s)
    BY DEF Recorded
  <2>4. Below(top, a[to], s)
    BY <2>2, <2>3 DEF Below
  <2>. QED BY <1>1, <1>2, <2>4 DEF Recorded
<1>4. ASSUME p # to PROVE Recorded(top, a, to, s)
  <2>1. a[to] = t[to]
    BY <1>1, <1>2, <1>4
  <2>. QED BY <1>1, <1>2, <2>1 DEF Recorded, Below
<1>5. Recorded(top, a, to, s)
  BY <1>3, <1>4
<1>. QED BY <1>5 DEF a

LEMMA RecordedNow ==
  ASSUME NEW C, NEW top \in C, NEW t \in Maps(C), NEW to \in Int, NEW s \in Files(C)
  PROVE  Recorded(top, add_target(top, t, to, s), to, s)
<1>. DEFINE a == add_target(top, t, to, s)
<1>1. /\ \A q : q \in DOMAIN a <=> q \in DOMAIN t \/ q = to
      /\ a[to] = IF to \in DOMAIN t THEN Join(top, t[to], s) ELSE s
  BY AddedFacts, Zenon
<1>. HIDE DEF a
<1>2. ASSUME to \in DOMAIN t PROVE Below(top, a[to], s)
  <2>1. a[to] = Join(top, t[to], s)
    BY <1>1, <1>2
  <2>. QED BY <2>1 DEF Below, Join
<1>3. ASSUME to \notin DOMAIN t PROVE Below(top, a[to], s)
  BY <1>1, <1>3 DEF Below
<1>4. Recorded(top, a, to, s)
  BY <1>1, <1>2, <1>3 DEF Recorded
<1>. QED BY <1>4 DEF a

(* What is claimed of an instruction is no more than what the scan brings. *)
LEMMA MergedBelow ==
  ASSUME NEW top, NEW s, NEW at, NEW t
  PROVE  Below(top, Merged(top, s, at, t), s)
  BY DEF Below, Merged, Join

(* What is claimed where an entry is used is no more than it claims. *)
LEMMA RecordedUsed ==
  ASSUME NEW C, NEW top \in C, NEW t \in Maps(C), NEW to, NEW s, Recorded(top, t, to, s), NEW u \in Files(C)
  PROVE  Below(top, Merged(top, u, to, t), s)
  BY DEF Recorded, Below, Merged, Join

(* One step of a scan takes out the entry of its instruction and makes one *)
(* entry at most.                                                          *)
OneEntry(C, top, scan, p) ==
  /\ scan[p].targets \in Maps(C)
  /\ \E q \in Int, u \in Files(C) :
       scan[p + 1].targets \in {Cleared(scan[p].targets, p),
                               add_target(top, Cleared(scan[p].targets, p), q, u)}

(* An entry made before an instruction is there when the scan comes to it. *)
LEMMA RecordedUntil ==
  ASSUME NEW C, NEW top \in C, NEW n \in Nat, NEW scan, \A p \in 0 .. n - 1 : OneEntry(C, top, scan, p),
         NEW s, NEW j \in 0 .. n, NEW to \in 0 .. n - 1, j <= to, Recorded(top, scan[j].targets, to, s)
  PROVE  Recorded(top, scan[to].targets, to, s)
<1>. DEFINE S == {p \in 0 .. n : j <= p /\ p <= to => Recorded(top, scan[p].targets, to, s)}
<1>1. 0 \in S
  OBVIOUS
<1>2. ASSUME NEW p \in 0 .. n - 1, p \in S PROVE p + 1 \in S
  <2>. SUFFICES ASSUME j <= p, p + 1 <= to PROVE Recorded(top, scan[p + 1].targets, to, s)
    OBVIOUS
  <2>1. Recorded(top, scan[p].targets, to, s) /\ p # to
    BY <1>2
  <2>. DEFINE t == Cleared(scan[p].targets, p)
  <2>2. /\ scan[p].targets \in Maps(C)
        /\ \E q \in Int, u \in Files(C) : scan[p + 1].targets \in {t, add_target(top, t, q, u)}
    BY DEF OneEntry
  <2>3. PICK q \in Int, u \in Files(C) : scan[p + 1].targets \in {t, add_target(top, t, q, u)}
    BY <2>2
  <2>4. t \in Maps(C)
    BY <2>2, ClearedFacts, Zenon
  <2>5. Recorded(top, t, to, s)
    BY <2>1, <2>2, RecordedStays
  <2>6. Recorded(top, add_target(top, t, q, u), to, s)
    BY <2>4, <2>5, RecordedWeakens
  <2>. QED BY <2>3, <2>5, <2>6
<1>. HIDE DEF S
<1>3. \A p \in 0 .. n : p \in S
  <2>1. \A p \in 0 .. n - 1 : p \in S => p + 1 \in S
    BY <1>2
  <2>. QED BY <1>1, <2>1, AlongTheList
<1>. QED BY <1>3 DEF S

(* A scan that got to an instruction has refused none before it. *)
LEMMA OkBefore ==
  ASSUME NEW n \in Nat, NEW scan, \A k \in 0 .. n - 1 : ~scan[k].ok => ~scan[k + 1].ok,
         NEW j \in 0 .. n, scan[j].ok, NEW k \in 0 .. j
  PROVE  scan[k].ok
<1>. DEFINE S == {p \in 0 .. n : p >= k => ~scan[p].ok}
<1>. SUFFICES ASSUME ~scan[k].ok PROVE FALSE
  OBVIOUS
<1>1. 0 \in S /\ \A p \in 0 .. n - 1 : p \in S => p + 1 \in S
  OBVIOUS
<1>. HIDE DEF S
<1>2. \A p \in 0 .. n : p \in S
  BY <1>1, AlongTheList
<1>. QED BY <1>2 DEF S

-----------------------------------------------------------------------------
(* The stack bounds scan. *)
Claims == [kind : {"FramePtr", "CtxPtr"}, n : Int] \cup {AbsOther}

LEMMA ClaimFacts ==
  /\ AbsOther \in Claims
  /\ abs_init \in Files(Claims)
  /\ \A n \in Int : AbsFramePtr(n) \in Claims /\ AbsCtxPtr(n) \in Claims
  /\ abs_init[R10] = AbsFramePtr(0)
  /\ \A r \in 6 .. 9 : abs_init[r] = AbsOther
  BY DEF Claims, AbsOther, abs_init, Files, AbsFramePtr, AbsCtxPtr, R10, Reg

LEMMA MovedClaim ==
  ASSUME NEW d \in Claims, d # AbsOther, NEW i \in Instructions
  PROVE  MovedBy(d, i) \in Claims
  BY InstructionFacts DEF MovedBy, Claims

LEMMA KindsOfInstructions ==
  ASSUME NEW i
  PROVE  /\ IsCopy(i) => SetsDst(i) /\ ~Displaces(i)
         /\ Displaces(i) => SetsDst(i)
         /\ SetsDst(i) => i.kind # "call" /\ ~IsJump(i)
         /\ IsCondJump(i) => IsJump(i)
  BY DEF IsCopy, SetsDst, Displaces, IsJump, IsCondJump

(* What each kind of instruction makes of the claims. *)
LEMMA RegsAfterFacts ==
  ASSUME NEW s \in Files(Claims), NEW i \in Instructions
  PROVE  /\ RegsAfter(s, i) \in Files(Claims)
         /\ SetsDst(i) => \A r \in Reg \ {i.dst} : RegsAfter(s, i)[r] = s[r]
         /\ IsCopy(i) => RegsAfter(s, i)[i.dst] = s[i.src]
         /\ Displaces(i) /\ s[i.dst] # AbsOther => RegsAfter(s, i)[i.dst] = MovedBy(s[i.dst], i)
         /\ SetsDst(i) /\ ~IsCopy(i) /\ ~(Displaces(i) /\ s[i.dst] # AbsOther) =>
              RegsAfter(s, i)[i.dst] = AbsOther
         /\ i.kind = "call" => RegsAfter(s, i) = Clobbered(AbsOther, s)
         /\ ~SetsDst(i) /\ i.kind # "call" => RegsAfter(s, i) = s
<1>. DEFINE d == s[i.dst]
            v == CASE IsCopy(i) -> s[i.src]
                   [] Displaces(i) /\ d # AbsOther -> MovedBy(d, i)
                   [] OTHER -> AbsOther
<1>1. d \in Claims /\ i.dst \in Reg
  BY InstructionFacts DEF Files
<1>2. IsCopy(i) => s[i.src] \in Claims
  BY InstructionFacts DEF Files
<1>3. AbsOther \in Claims
  BY ClaimFacts
<1>4. Displaces(i) /\ d # AbsOther => MovedBy(d, i) \in Claims
  BY <1>1, MovedClaim
<1>5. /\ IsCopy(i) => v = s[i.src]
      /\ Displaces(i) /\ d # AbsOther => v = MovedBy(d, i)
      /\ ~IsCopy(i) /\ ~(Displaces(i) /\ d # AbsOther) => v = AbsOther
  BY KindsOfInstructions, Zenon
<1>6. /\ SetsDst(i) => RegsAfter(s, i) = [s EXCEPT ![i.dst] = v]
      /\ i.kind = "call" => RegsAfter(s, i) = Clobbered(AbsOther, s)
      /\ ~SetsDst(i) /\ i.kind # "call" => RegsAfter(s, i) = s
  BY KindsOfInstructions, Zenon DEF RegsAfter
<1>7. v \in Claims
  BY <1>2, <1>3, <1>4, <1>5
<1>. HIDE DEF v
<1>8. SetsDst(i) => /\ RegsAfter(s, i) \in Files(Claims)
                    /\ RegsAfter(s, i)[i.dst] = v
                    /\ \A r \in Reg \ {i.dst} : RegsAfter(s, i)[r] = s[r]
  BY <1>1, <1>6, <1>7 DEF Files
<1>9. Clobbered(AbsOther, s) \in Files(Claims)
  BY <1>3, ClobberedFacts
<1>. QED BY <1>5, <1>6, <1>8, <1>9, KindsOfInstructions

LEMMA StackStepTyped ==
  ASSUME NEW s \in Files(Claims), NEW i \in Instructions, NEW at \in Int, NEW t \in Maps(Claims)
  PROVE  check_insn_sb(s, i, at, t) \in Finds(Claims)
<1>. DEFINE z == Merged(AbsOther, s, at, t)
            c == Cleared(t, at)
            u == IF IsCondJump(i) THEN add_target(AbsOther, c, target_pc(at, i), z) ELSE c
<1>1. AbsOther \in Claims
  BY ClaimFacts
<1>2. z \in Files(Claims)
  BY <1>1, MergedTyped
<1>3. c \in Maps(Claims)
  BY ClearedFacts
<1>4. target_pc(at, i) \in Int
  BY InstructionFacts DEF target_pc
<1>. HIDE DEF z, c
<1>5. RegsAfter(z, i) \in Files(Claims)
  BY <1>2, RegsAfterFacts
<1>6. u \in Maps(Claims)
  BY <1>1, <1>2, <1>3, <1>4, AddedFacts
<1>7. IsSafe(z, i) \in BOOLEAN
  BY DEF IsSafe, check_mem_access, stack_offset_valid
<1>. HIDE DEF u
<1>8. check_insn_sb(s, i, at, t) = [ok |-> IsSafe(z, i), regs |-> RegsAfter(z, i), targets |-> u]
  BY DEF check_insn_sb, z, c, u, Found
<1>. QED BY <1>5, <1>6, <1>7, <1>8 DEF Finds
(* The stack bounds scan, one instruction after another. *)
LEMMA StackScanUnrolled ==
  ASSUME NEW list \in Seq(Instructions)
  PROVE  LET scan == stack_bounds_scan(list) IN
         /\ scan \in [0 .. Len(list) -> Finds(Claims)]
         /\ scan[0] = Found(TRUE, abs_init, Rust_heads(list))
         /\ \A k \in 0 .. Len(list) - 1 :
              scan[k + 1] = Onward(scan[k], check_insn_sb(scan[k].regs, At(list, k), k, scan[k].targets))
<1>. DEFINE n == Len(list)
            V == Finds(Claims)
            c == Found(TRUE, abs_init, Rust_heads(list))
            E(b, k) == Onward(b, check_insn_sb(b.regs, At(list, k - 1), k - 1, b.targets))
            F == [x \in V \X (1 .. n) |-> E(x[1], x[2])]
            scan == stack_bounds_scan(list)
<1>1. n \in Nat
  OBVIOUS
<1>2. c \in V
  BY ClaimFacts, HeadFacts DEF Rust_heads, Found, Finds
<1>3. ASSUME NEW b \in V, NEW k \in 1 .. n PROVE E(b, k) \in V
  <2>1. At(list, k - 1) \in Instructions /\ k - 1 \in Int
    BY DEF At
  <2>2. b.regs \in Files(Claims) /\ b.targets \in Maps(Claims)
    BY DEF Finds
  <2>3. check_insn_sb(b.regs, At(list, k - 1), k - 1, b.targets) \in V
    BY <2>1, <2>2, StackStepTyped
  <2>. QED BY <2>3 DEF Onward
<1>. HIDE DEF E, V, c, n
<1>4. F \in [V \X (1 .. n) -> V]
  BY <1>3
<1>5. \A b \in V, k \in 1 .. n : F[<<b, k>>] = E(b, k)
  OBVIOUS
<1>. HIDE DEF F
<1>6. PICK f : IsFold(n, V, c, F, f)
  BY <1>1, <1>2, <1>4, FoldExists
<1>7. f = [k \in 0 .. n |-> IF k = 0 THEN c ELSE E(f[k - 1], k)]
  <2>1. ASSUME NEW k \in 1 .. n PROVE f[k] = E(f[k - 1], k)
    <3>1. f[k - 1] \in V /\ f[k] = F[<<f[k - 1], k>>]
      BY <1>1, <1>6 DEF IsFold
    <3>. QED BY <1>5, <3>1
  <2>. QED BY <1>1, <1>6, <2>1 DEF IsFold
<1>8. scan = [k \in 0 .. n |-> IF k = 0 THEN c ELSE E(scan[k - 1], k)]
  BY <1>7, Zenon DEF stack_bounds_scan, n, c, E
<1>. HIDE DEF scan
<1>9. scan[0] = c /\ \A k \in 0 .. n - 1 : scan[k + 1] = E(scan[k], k + 1)
  BY <1>1, <1>8
<1>10. \A k \in 0 .. n : scan[k] \in V
  <2>. DEFINE S == {k \in 0 .. n : scan[k] \in V}
  <2>1. 0 \in S
    BY <1>1, <1>2, <1>9
  <2>2. \A k \in 0 .. n - 1 : k \in S => k + 1 \in S
    BY <1>1, <1>3, <1>9
  <2>. HIDE DEF S
  <2>3. \A k \in 0 .. n : k \in S
    BY <1>1, <2>1, <2>2, AlongTheList
  <2>. QED BY <2>3 DEF S
<1>11. scan \in [0 .. n -> V]
  BY <1>8, <1>10
<1>12. \A k \in 0 .. n - 1 :
         scan[k + 1] = Onward(scan[k], check_insn_sb(scan[k].regs, At(list, k), k, scan[k].targets))
  BY <1>1, <1>9 DEF E
<1>. QED BY <1>9, <1>11, <1>12 DEF scan, n, V, c
LEMMA StackScanOk ==
  ASSUME NEW list \in Seq(Instructions), NEW j \in 0 .. Len(list), NEW k \in 0 .. j,
         stack_bounds_scan(list)[j].ok
  PROVE  stack_bounds_scan(list)[k].ok
<1>. DEFINE n == Len(list)
            scan == stack_bounds_scan(list)
<1>0. ASSUME NEW p \in 0 .. n - 1, ~scan[p].ok PROVE ~scan[p + 1].ok
  <2>1. scan[p + 1] = scan[p]
    BY <1>0, StackScanUnrolled DEF Onward
  <2>. QED BY <1>0, <2>1
<1>1. n \in Nat /\ \A p \in 0 .. n - 1 : ~scan[p].ok => ~scan[p + 1].ok
  BY <1>0
<1>2. j \in 0 .. n /\ scan[j].ok
  OBVIOUS
<1>. HIDE DEF n, scan
<1>3. scan[k].ok
  BY <1>1, <1>2, OkBefore
<1>. QED BY <1>3 DEF scan

StackAccepts(list) == stack_bounds_scan(list)[Len(list)].ok

(* What a scan that refuses nothing claims, from one instruction to the    *)
(* next one.                                                               *)
LEMMA StackScanStep ==
  ASSUME NEW list \in Seq(Instructions), StackAccepts(list), NEW k \in 0 .. Len(list) - 1
  PROVE  LET b == stack_bounds_scan(list)[k]
             a == stack_bounds_scan(list)[k + 1]
             i == At(list, k)
             c == FrameClaims(list, k)
             t == Cleared(b.targets, k)
         IN /\ i \in Instructions
            /\ b \in Finds(Claims) /\ a \in Finds(Claims)
            /\ c \in Files(Claims) /\ t \in Maps(Claims) /\ target_pc(k, i) \in Int
            /\ c = Merged(AbsOther, b.regs, k, b.targets)
            /\ IsSafe(c, i)
            /\ a.regs = RegsAfter(c, i)
            /\ a.targets = IF IsCondJump(i) THEN add_target(AbsOther, t, target_pc(k, i), c) ELSE t
<1>. DEFINE scan == stack_bounds_scan(list)
            i == At(list, k)
            c == FrameClaims(list, k)
<1>1. i \in Instructions
  BY DEF At
<1>0. scan \in [0 .. Len(list) -> Finds(Claims)]
  BY StackScanUnrolled, Zenon
<1>2. scan[k] \in Finds(Claims) /\ scan[k + 1] \in Finds(Claims)
  BY <1>0
<1>3. scan[k].regs \in Files(Claims) /\ scan[k].targets \in Maps(Claims)
  BY <1>2 DEF Finds
<1>4. c = Merged(AbsOther, scan[k].regs, k, scan[k].targets)
  BY DEF FrameClaims
<1>5. c \in Files(Claims) /\ Cleared(scan[k].targets, k) \in Maps(Claims) /\ target_pc(k, i) \in Int
  <2>1. c \in Files(Claims)
    BY <1>3, <1>4, ClaimFacts, MergedTyped
  <2>2. Cleared(scan[k].targets, k) \in Maps(Claims)
    BY <1>3, ClearedFacts, Zenon
  <2>3. target_pc(k, i) \in Int
    BY <1>1, InstructionFacts DEF target_pc
  <2>. QED BY <2>1, <2>2, <2>3
<1>6. scan[k].ok /\ scan[k + 1].ok
  BY StackScanOk DEF StackAccepts
<1>7. scan[k + 1] = check_insn_sb(scan[k].regs, i, k, scan[k].targets)
  BY <1>6, StackScanUnrolled DEF Onward
<1>. QED BY <1>1, <1>2, <1>4, <1>5, <1>6, <1>7 DEF check_insn_sb, Found

-----------------------------------------------------------------------------
(* Where control may come from, the scan has claimed as much as it claims. *)
LEMMA ClaimsFall ==
  ASSUME NEW list \in Seq(Instructions), StackAccepts(list), NEW k \in 0 .. Len(list) - 1, k + 1 < Len(list)
  PROVE  Below(AbsOther, FrameClaims(list, k + 1), RegsAfter(FrameClaims(list, k), At(list, k)))
<1>. DEFINE a == stack_bounds_scan(list)[k + 1]
<1>1. a.regs = RegsAfter(FrameClaims(list, k), At(list, k))
  BY StackScanStep
<1>2. k + 1 \in 0 .. Len(list) - 1
  OBVIOUS
<1>3. /\ FrameClaims(list, k + 1) = Merged(AbsOther, a.regs, k + 1, a.targets)
      /\ a \in Finds(Claims)
  BY <1>2, StackScanStep
<1>. HIDE DEF a
<1>. QED BY <1>1, <1>3, MergedBelow

(* An entry made before an instruction is there when the scan comes to it. *)
LEMMA ClaimsRecorded ==
  ASSUME NEW list \in Seq(Instructions), StackAccepts(list), NEW s, NEW j \in 0 .. Len(list),
         NEW to \in 0 .. Len(list) - 1, j <= to,
         Recorded(AbsOther, stack_bounds_scan(list)[j].targets, to, s)
  PROVE  Below(AbsOther, FrameClaims(list, to), s)
<1>. DEFINE scan == stack_bounds_scan(list)
            n == Len(list)
<1>1. n \in Nat
  OBVIOUS
<1>2. ASSUME NEW p \in 0 .. n - 1 PROVE OneEntry(Claims, AbsOther, scan, p)
  <2>. DEFINE i == At(list, p)
              c == FrameClaims(list, p)
              t == Cleared(scan[p].targets, p)
  <2>1. /\ scan[p].targets \in Maps(Claims) /\ c \in Files(Claims) /\ target_pc(p, i) \in Int
        /\ scan[p + 1].targets = IF IsCondJump(i) THEN add_target(AbsOther, t, target_pc(p, i), c) ELSE t
    BY StackScanStep DEF Finds
  <2>. QED BY <2>1 DEF OneEntry
<1>3. Recorded(AbsOther, scan[to].targets, to, s)
  <2>. HIDE DEF scan, n
  <2>1. \A p \in 0 .. n - 1 : OneEntry(Claims, AbsOther, scan, p)
    BY <1>2
  <2>2. to \in 0 .. n - 1 /\ j \in 0 .. n /\ Recorded(AbsOther, scan[j].targets, to, s)
    BY DEF scan, n
  <2>. QED BY <1>1, <2>1, <2>2, ClaimFacts, RecordedUntil
<1>4. /\ FrameClaims(list, to) = Merged(AbsOther, scan[to].regs, to, scan[to].targets)
      /\ scan[to].regs \in Files(Claims) /\ scan[to].targets \in Maps(Claims)
  BY StackScanStep DEF Finds
<1>. QED BY <1>3, <1>4, ClaimFacts, RecordedUsed

LEMMA ClaimsJumpForward ==
  ASSUME NEW list \in Seq(Instructions), StackAccepts(list), NEW k \in 0 .. Len(list) - 1,
         IsCondJump(At(list, k)), NEW to \in 0 .. Len(list) - 1, to = target_pc(k, At(list, k)), to > k
  PROVE  Below(AbsOther, FrameClaims(list, to), FrameClaims(list, k))
<1>. DEFINE b == stack_bounds_scan(list)[k]
            c == FrameClaims(list, k)
<1>1. /\ c \in Files(Claims) /\ Cleared(b.targets, k) \in Maps(Claims)
      /\ stack_bounds_scan(list)[k + 1].targets = add_target(AbsOther, Cleared(b.targets, k), to, c)
  BY StackScanStep
<1>2. Recorded(AbsOther, stack_bounds_scan(list)[k + 1].targets, to, c)
  BY <1>1, ClaimFacts, RecordedNow
<1>3. k + 1 \in 0 .. Len(list) /\ k + 1 <= to
  OBVIOUS
<1>. QED BY <1>2, <1>3, ClaimsRecorded

(* At the head of a loop only the frame pointer is still claimed. *)
LEMMA ClaimsAtLoopHead ==
  ASSUME NEW list \in Seq(Instructions), StackAccepts(list), NEW to \in 0 .. Len(list) - 1,
         to \in LoopHeads(list)
  PROVE  \A r \in Reg \ {R10} : FrameClaims(list, to)[r] = AbsOther
<1>. DEFINE e == Clobbered(AbsOther, abs_init)
<1>1. stack_bounds_scan(list)[0].targets = init_loop_targets(AbsOther, list, abs_init)
  <2>1. stack_bounds_scan(list)[0] = Found(TRUE, abs_init, Rust_heads(list))
    BY StackScanUnrolled, Zenon
  <2>. QED BY <2>1 DEF Found, Rust_heads
<1>2. to \in DOMAIN stack_bounds_scan(list)[0].targets /\ stack_bounds_scan(list)[0].targets[to] = e
  BY <1>1, ClaimFacts, HeadFacts
<1>3. Recorded(AbsOther, stack_bounds_scan(list)[0].targets, to, e)
  BY <1>2 DEF Recorded, Below
<1>4. Below(AbsOther, FrameClaims(list, to), e)
  BY <1>3, ClaimsRecorded
<1>5. \A r \in Reg \ {R10} : e[r] = AbsOther
  BY ClaimFacts, ClobberedFacts DEF Reg, R10
<1>. QED BY <1>4, <1>5 DEF Below
(* Claims with the frame pointer in r10, in the file and in the map. *)
HasFramePointer(s)     == s[R10] = AbsFramePtr(0)
AllHaveFramePointer(t) == \A p \in DOMAIN t : HasFramePointer(t[p])

LEMMA FramePointerStep ==
  ASSUME NEW s \in Files(Claims), HasFramePointer(s), NEW t \in Maps(Claims), AllHaveFramePointer(t),
         NEW i \in Instructions, ~(SetsDst(i) /\ i.dst = R10), NEW at \in Int
  PROVE  /\ HasFramePointer(Merged(AbsOther, s, at, t))
         /\ HasFramePointer(check_insn_sb(s, i, at, t).regs)
         /\ AllHaveFramePointer(check_insn_sb(s, i, at, t).targets)
<1>. DEFINE z == Merged(AbsOther, s, at, t)
            c == Cleared(t, at)
            to == target_pc(at, i)
            a == add_target(AbsOther, c, to, z)
            o == check_insn_sb(s, i, at, t)
<1>0. R10 \in Reg /\ AbsOther \in Claims /\ to \in Int
  BY ClaimFacts, InstructionFacts DEF R10, Reg, target_pc
<1>1. z \in Files(Claims) /\ HasFramePointer(z)
  <2>1. z \in Files(Claims)
    BY <1>0, MergedTyped
  <2>. QED BY <1>0, <2>1 DEF Merged, Join, HasFramePointer, AllHaveFramePointer
<1>2. c \in Maps(Claims) /\ AllHaveFramePointer(c)
  <2>1. c \in Maps(Claims) /\ DOMAIN c = DOMAIN t \ {at} /\ \A p \in DOMAIN t \ {at} : c[p] = t[p]
    BY ClearedFacts, Zenon
  <2>. HIDE DEF c
  <2>. QED BY <2>1 DEF AllHaveFramePointer
<1>. HIDE DEF z, c, to
<1>3. HasFramePointer(RegsAfter(z, i))
  <2>1. SetsDst(i) => R10 \in Reg \ {i.dst}
    BY <1>0
  <2>2. i.kind = "call" => RegsAfter(z, i)[R10] = z[R10]
    BY <1>0, <1>1, RegsAfterFacts, ClobberedFacts DEF R10
  <2>. QED BY <1>1, <2>1, <2>2, RegsAfterFacts DEF HasFramePointer
<1>4. AllHaveFramePointer(a)
  <2>1. /\ \A p : p \in DOMAIN a <=> p \in DOMAIN c \/ p = to
        /\ \A p \in DOMAIN c \ {to} : a[p] = c[p]
        /\ a[to] = IF to \in DOMAIN c THEN Join(AbsOther, c[to], z) ELSE z
    BY <1>0, <1>1, <1>2, AddedFacts
  <2>2. to \in DOMAIN c => HasFramePointer(Join(AbsOther, c[to], z))
    BY <1>0, <1>1, <1>2 DEF Join, HasFramePointer, AllHaveFramePointer
  <2>. HIDE DEF a
  <2>. QED BY <1>1, <1>2, <2>1, <2>2 DEF AllHaveFramePointer
<1>5. o.regs = RegsAfter(z, i) /\ o.targets = IF IsCondJump(i) THEN a ELSE c
  BY DEF check_insn_sb, Found, z, c, to
<1>. HIDE DEF a, o
<1>6. HasFramePointer(o.regs) /\ AllHaveFramePointer(o.targets)
  BY <1>2, <1>3, <1>4, <1>5
<1>. QED BY <1>1, <1>6 DEF o, z

(* In a list that never writes r10, r10 is the frame pointer for the scan. *)
LEMMA FramePointerKept ==
  ASSUME NEW list \in Seq(Instructions), \A k \in DOMAIN list : ~(SetsDst(list[k]) /\ list[k].dst = R10),
         NEW k \in 0 .. Len(list)
  PROVE  /\ HasFramePointer(stack_bounds_scan(list)[k].regs)
         /\ AllHaveFramePointer(stack_bounds_scan(list)[k].targets)
<1>. DEFINE n == Len(list)
            scan == stack_bounds_scan(list)
            Holds(p) == HasFramePointer(scan[p].regs) /\ AllHaveFramePointer(scan[p].targets)
            S == {p \in 0 .. n : Holds(p)}
<1>0. n \in Nat /\ k \in 0 .. n
  OBVIOUS
<1>1. Holds(0)
  <2>1. scan[0] = Found(TRUE, abs_init, Rust_heads(list))
    BY StackScanUnrolled, Zenon
  <2>2. scan[0].regs = abs_init /\ scan[0].targets = init_loop_targets(AbsOther, list, abs_init)
    BY <2>1 DEF Found, Rust_heads
  <2>3. /\ DOMAIN init_loop_targets(AbsOther, list, abs_init) = LoopHeads(list)
        /\ \A h \in LoopHeads(list) :
             init_loop_targets(AbsOther, list, abs_init)[h] = Clobbered(AbsOther, abs_init)
    BY ClaimFacts, HeadFacts
  <2>4. HasFramePointer(abs_init) /\ HasFramePointer(Clobbered(AbsOther, abs_init))
    BY ClaimFacts, ClobberedFacts DEF HasFramePointer, R10, Reg
  <2>. QED BY <2>2, <2>3, <2>4 DEF AllHaveFramePointer
<1>2. ASSUME NEW p \in 0 .. Len(list) - 1, Holds(p) PROVE Holds(p + 1)
  <2>. DEFINE i == At(list, p)
              o == check_insn_sb(scan[p].regs, i, p, scan[p].targets)
  <2>1. scan[p + 1] = Onward(scan[p], o)
    BY StackScanUnrolled
  <2>2. scan[p].regs \in Files(Claims) /\ scan[p].targets \in Maps(Claims)
    <3>1. scan \in [0 .. Len(list) -> Finds(Claims)]
      BY StackScanUnrolled, Zenon
    <3>. QED BY <3>1 DEF Finds
  <2>3. i \in Instructions /\ ~(SetsDst(i) /\ i.dst = R10) /\ p \in Int
    BY DEF At
  <2>. HIDE DEF i, scan
  <2>4. HasFramePointer(o.regs) /\ AllHaveFramePointer(o.targets)
    BY <1>2, <2>2, <2>3, FramePointerStep
  <2>. QED BY <1>2, <2>1, <2>4 DEF Onward
<1>3. 0 \in S
  BY <1>0, <1>1
<1>4. \A p \in 0 .. n - 1 : p \in S => p + 1 \in S
  BY <1>0, <1>2
<1>5. \A p \in 0 .. n : p \in S
  <2>. HIDE DEF S, n
  <2>. QED BY <1>0, <1>3, <1>4, AlongTheList
<1>. QED BY <1>0, <1>5

-----------------------------------------------------------------------------
(* The Rust scan. *)
LEMMA RustJoinFacts ==
  ASSUME NEW s \in Files(Claims), NEW t \in Files(Claims)
  PROVE  /\ RustJoin(s, t) \in Files(Claims)
         /\ HasFramePointer(s) /\ HasFramePointer(t) => RustJoin(s, t) = Join(AbsOther, s, t)
<1>1. Join(AbsOther, s, t) \in Files(Claims)
  BY ClaimFacts, JoinTyped
<1>2. R10 \in Reg /\ AbsFramePtr(0) \in Claims
  BY ClaimFacts DEF R10, Reg
<1>3. RustJoin(s, t) \in Files(Claims)
  BY <1>1, <1>2 DEF RustJoin, Files
<1>4. ASSUME s[R10] = AbsFramePtr(0), t[R10] = AbsFramePtr(0) PROVE RustJoin(s, t) = Join(AbsOther, s, t)
  <2>1. Join(AbsOther, s, t)[R10] = AbsFramePtr(0)
    BY <1>2, <1>4 DEF Join
  <2>. QED BY <1>1, <2>1 DEF RustJoin, Files
<1>. QED BY <1>3, <1>4 DEF HasFramePointer

LEMMA RustMergedFacts ==
  ASSUME NEW s \in Files(Claims), NEW at, NEW t \in Maps(Claims)
  PROVE  RustMerged(s, at, t) \in Files(Claims)
<1>1. at \in DOMAIN t => t[at] \in Files(Claims)
  BY MapFacts
<1>. QED BY <1>1, RustJoinFacts DEF RustMerged

(* A jump forward saves its claims, and nothing else changes in the map. *)
LEMMA RustTargetsFacts ==
  ASSUME NEW s \in Files(Claims), NEW i \in Instructions, NEW at \in Int, NEW t \in Maps(Claims)
  PROVE  LET a  == RustTargets(s, i, at, t)
             to == target_pc(at, i) IN
         /\ a \in Maps(Claims)
         /\ to \in Int
         /\ ~(IsCondJump(i) /\ to > at) => a = t
         /\ IsCondJump(i) /\ to > at =>
              /\ \A p : p \in DOMAIN a <=> p \in DOMAIN t \/ p = to
              /\ \A p \in DOMAIN t \ {to} : a[p] = t[p]
              /\ a[to] = IF to \in DOMAIN t THEN RustJoin(t[to], s) ELSE s
<1>. DEFINE to == target_pc(at, i)
            a == [p \in DOMAIN t \cup {to} |->
                    CASE p # to -> t[p]
                      [] p = to /\ to \in DOMAIN t -> RustJoin(t[to], s)
                      [] OTHER -> s]
<1>1. to \in Int
  BY InstructionFacts DEF target_pc
<1>2. RustTargets(s, i, at, t) = IF IsCondJump(i) /\ to > at THEN a ELSE t
  BY DEF RustTargets
<1>. HIDE DEF to
<1>3. DOMAIN t \cup {to} \in SUBSET Int /\ \A p \in DOMAIN t : t[p] \in Files(Claims)
  BY <1>1, MapFacts
<1>4. to \in DOMAIN t => RustJoin(t[to], s) \in Files(Claims)
  BY <1>3, RustJoinFacts
<1>5. a \in [DOMAIN t \cup {to} -> Files(Claims)]
  BY <1>3, <1>4
<1>6. /\ \A p : p \in DOMAIN a <=> p \in DOMAIN t \/ p = to
      /\ \A p \in DOMAIN t \ {to} : a[p] = t[p]
      /\ a[to] = IF to \in DOMAIN t THEN RustJoin(t[to], s) ELSE s
  OBVIOUS
<1>. HIDE DEF a
<1>7. a \in Maps(Claims)
  BY <1>3, <1>5, MapIs
<1>. QED BY <1>1, <1>2, <1>6, <1>7 DEF to

LEMMA RustStepTyped ==
  ASSUME NEW s \in Files(Claims), NEW i \in Instructions, NEW at \in Int, NEW t \in Maps(Claims)
  PROVE  LET o == RustStep(s, i, at, t) IN
         /\ o.ok \in BOOLEAN /\ o.regs \in Files(Claims) /\ o.targets \in Maps(Claims)
         /\ \A p \in DOMAIN o.targets : p \in DOMAIN t \ {at} \/ p > at
<1>. DEFINE z == RustMerged(s, at, t)
            c == Cleared(t, at)
            o == RustStep(s, i, at, t)
<1>1. z \in Files(Claims)
  BY RustMergedFacts
<1>2. c \in Maps(Claims) /\ DOMAIN c = DOMAIN t \ {at}
  BY ClearedFacts, Zenon
<1>3. o.ok = IsSafe(z, i) /\ o.regs = RegsAfter(z, i) /\ o.targets = RustTargets(z, i, at, c)
  BY DEF RustStep, Found
<1>. HIDE DEF z, c, o
<1>4. o.ok \in BOOLEAN
  BY <1>3 DEF IsSafe, check_mem_access, stack_offset_valid
<1>5. o.regs \in Files(Claims)
  BY <1>1, <1>3, RegsAfterFacts
<1>6. o.targets \in Maps(Claims) /\ \A p \in DOMAIN o.targets : p \in DOMAIN c \/ p > at
  BY <1>1, <1>2, <1>3, RustTargetsFacts
<1>. QED BY <1>2, <1>4, <1>5, <1>6 DEF o

(* Two maps with the same entries for the instructions still to come. *)
SameAhead(t, u, k) ==
  \A p \in Int : p >= k => (p \in DOMAIN t <=> p \in DOMAIN u) /\ (p \in DOMAIN t => t[p] = u[p])

(* A step of the one scan and a step of the other. *)
LEMMA RustStepAgrees ==
  ASSUME NEW s \in Files(Claims), HasFramePointer(s), NEW t \in Maps(Claims),
         NEW u \in Maps(Claims), AllHaveFramePointer(u),
         NEW i \in Instructions, NEW k \in Int, SameAhead(t, u, k)
  PROVE  LET o == RustStep(s, i, k, t)
             b == check_insn_sb(s, i, k, u)
         IN o.ok = b.ok /\ o.regs = b.regs /\ SameAhead(o.targets, b.targets, k + 1)
<1>. DEFINE z  == Merged(AbsOther, s, k, u)
            ct == Cleared(t, k)
            cu == Cleared(u, k)
            to == target_pc(k, i)
<1>0. to \in Int /\ AbsOther \in Claims
  BY InstructionFacts, ClaimFacts DEF target_pc
<1>1. RustMerged(s, k, t) = z
  <2>1. (k \in DOMAIN t <=> k \in DOMAIN u) /\ (k \in DOMAIN t => t[k] = u[k])
    BY DEF SameAhead
  <2>2. k \in DOMAIN u => RustJoin(s, u[k]) = Join(AbsOther, s, u[k])
    BY MapFacts, RustJoinFacts DEF AllHaveFramePointer
  <2>. QED BY <2>1, <2>2 DEF RustMerged, Merged
<1>2. z \in Files(Claims) /\ HasFramePointer(z)
  <2>1. z \in Files(Claims)
    BY <1>0, MergedTyped
  <2>2. R10 \in Reg
    BY DEF R10, Reg
  <2>. QED BY <2>1, <2>2 DEF Merged, Join, HasFramePointer, AllHaveFramePointer
<1>3. /\ ct \in Maps(Claims) /\ DOMAIN ct = DOMAIN t \ {k} /\ \A p \in DOMAIN t \ {k} : ct[p] = t[p]
      /\ cu \in Maps(Claims) /\ DOMAIN cu = DOMAIN u \ {k} /\ \A p \in DOMAIN u \ {k} : cu[p] = u[p]
  BY ClearedFacts, Zenon
<1>4. /\ RustStep(s, i, k, t).ok = check_insn_sb(s, i, k, u).ok
      /\ RustStep(s, i, k, t).regs = check_insn_sb(s, i, k, u).regs
      /\ RustStep(s, i, k, t).targets = RustTargets(z, i, k, ct)
      /\ check_insn_sb(s, i, k, u).targets = IF IsCondJump(i) THEN add_target(AbsOther, cu, to, z) ELSE cu
  <2>. HIDE DEF z
  <2>. QED BY <1>1 DEF RustStep, check_insn_sb, Found, z
<1>. HIDE DEF z, ct, cu, to
<1>5. SameAhead(ct, cu, k + 1)
  BY <1>3 DEF SameAhead
<1>6. SameAhead(RustTargets(z, i, k, ct), IF IsCondJump(i) THEN add_target(AbsOther, cu, to, z) ELSE cu, k + 1)
  <2>. DEFINE a == RustTargets(z, i, k, ct)
              b == add_target(AbsOther, cu, to, z)
  <2>1. /\ \A p : p \in DOMAIN b <=> p \in DOMAIN cu \/ p = to
        /\ \A p \in DOMAIN cu \ {to} : b[p] = cu[p]
        /\ b[to] = IF to \in DOMAIN cu THEN Join(AbsOther, cu[to], z) ELSE z
    BY <1>0, <1>2, <1>3, AddedFacts
  <2>2. CASE ~IsCondJump(i)
    <3>1. a = ct
      BY <1>2, <1>3, <2>2, RustTargetsFacts
    <3>. QED BY <1>5, <2>2, <3>1
  <2>3. CASE IsCondJump(i) /\ to <= k
    <3>1. a = ct
      BY <1>0, <1>2, <1>3, <2>3, RustTargetsFacts DEF to
    <3>. HIDE DEF a, b
    <3>2. SameAhead(ct, b, k + 1)
      BY <1>0, <1>5, <2>1, <2>3 DEF SameAhead
    <3>. QED BY <2>3, <3>1, <3>2 DEF a, b
  <2>4. CASE IsCondJump(i) /\ to > k
    <3>1. /\ \A p : p \in DOMAIN a <=> p \in DOMAIN ct \/ p = to
          /\ \A p \in DOMAIN ct \ {to} : a[p] = ct[p]
          /\ a[to] = IF to \in DOMAIN ct THEN RustJoin(ct[to], z) ELSE z
      BY <1>2, <1>3, <2>4, RustTargetsFacts DEF to
    <3>2. /\ to \in DOMAIN ct <=> to \in DOMAIN cu
          /\ to \in DOMAIN ct => ct[to] = cu[to]
      BY <1>0, <1>5, <2>4 DEF SameAhead
    <3>3. to \in DOMAIN cu => RustJoin(cu[to], z) = Join(AbsOther, cu[to], z)
      <4>1. to \in DOMAIN cu => cu[to] \in Files(Claims) /\ HasFramePointer(cu[to])
        BY <1>3, MapFacts DEF AllHaveFramePointer
      <4>. QED BY <1>2, <4>1, RustJoinFacts
    <3>4. a[to] = b[to]
      BY <2>1, <3>1, <3>2, <3>3
    <3>. HIDE DEF a, b
    <3>5. SameAhead(a, b, k + 1)
      BY <1>5, <2>1, <3>1, <3>4 DEF SameAhead
    <3>. QED BY <2>4, <3>5 DEF a, b
  <2>. QED BY <1>0, <2>2, <2>3, <2>4
<1>. QED BY <1>4, <1>6

-----------------------------------------------------------------------------
(* The null safety scan. *)
LEMMA ZeroTestKinds ==
  ASSUME NEW s, NEW i
  PROVE  /\ IsZeroTest(s, i) => i.kind = "jmp" /\ i.wide /\ i.src = Imm /\ i.imm = 0
         /\ IsZeroTest(s, i) => i.op \in {"Jeq", "Jne"} /\ s[i.dst] = "Unchecked"
  BY DEF IsZeroTest

(* What each kind of instruction makes of the claims about null. *)
LEMMA NsAfterFacts ==
  ASSUME NEW s \in Files(Status), NEW i \in Instructions
  PROVE  /\ NsAfter(s, i) \in Files(Status)
         /\ SetsDst(i) => \A r \in Reg \ {i.dst} : NsAfter(s, i)[r] = s[r]
         /\ IsCopy(i) => NsAfter(s, i)[i.dst] = s[i.src]
         /\ i.kind = "jmp" => NsAfter(s, i) = NsFalls(s, i)
         /\ i.kind = "call" =>
              /\ \A r \in Reg \ {R0} : NsAfter(s, i)[r] = IF r <= 5 THEN "NotMap" ELSE s[r]
              /\ IsNullable(i.helper) => NsAfter(s, i)[R0] = "Unchecked"
         /\ ~SetsDst(i) /\ i.kind \notin {"jmp", "call"} => NsAfter(s, i) = s
<1>1. i.dst \in Reg /\ R0 \in Reg /\ (IsCopy(i) => s[i.src] \in Status)
  BY InstructionFacts DEF Files, R0, Reg
<1>2. Clobbered("NotMap", s) \in Files(Status) /\ \A r \in Reg : Clobbered("NotMap", s)[r] = IF r <= 5 THEN "NotMap" ELSE s[r]
  BY ClobberedFacts DEF Status
<1>3. CASE IsCopy(i)
  <2>1. i.kind = "alu"
    BY <1>3 DEF IsCopy
  <2>2. i.kind # "jmp" /\ i.kind # "call"
    BY <2>1
  <2>3. NsAfter(s, i) = [s EXCEPT ![i.dst] = s[i.src]]
    BY <1>3, <2>2, Zenon DEF NsAfter
  <2>. QED BY <1>1, <1>3, <2>2, <2>3, KindsOfInstructions DEF Files
<1>4. CASE SetsDst(i) /\ ~IsCopy(i)
  <2>1. NsAfter(s, i) = [s EXCEPT ![i.dst] = "NotMap"]
    BY <1>4 DEF NsAfter, SetsDst
  <2>. QED BY <1>1, <1>4, <2>1, KindsOfInstructions DEF Files, IsJump, Status
<1>5. CASE i.kind = "jmp"
  <2>1. ~SetsDst(i) /\ ~IsCopy(i)
    BY <1>5 DEF SetsDst, IsCopy
  <2>2. NsAfter(s, i) = NsFalls(s, i)
    BY <1>5, <2>1 DEF NsAfter
  <2>3. NsFalls(s, i) \in Files(Status)
    BY <1>1 DEF NsFalls, Files, Status
  <2>. QED BY <1>5, <2>1, <2>2, <2>3
<1>6. CASE i.kind = "call"
  <2>1. ~SetsDst(i) /\ ~IsCopy(i)
    BY <1>6 DEF SetsDst, IsCopy
  <2>2. NsAfter(s, i) = [Clobbered("NotMap", s) EXCEPT
                           ![R0] = IF IsNullable(i.helper) THEN "Unchecked" ELSE "NotMap"]
    BY <1>6, <2>1 DEF NsAfter
  <2>. QED BY <1>1, <1>2, <1>6, <2>1, <2>2 DEF Files, Status
<1>7. CASE ~SetsDst(i) /\ i.kind \notin {"jmp", "call"}
  <2>1. NsAfter(s, i) = s
    BY <1>7, KindsOfInstructions DEF NsAfter
  <2>. QED BY <1>7, <2>1, KindsOfInstructions
<1>. QED BY <1>3, <1>4, <1>5, <1>6, <1>7

LEMMA NsGoesTyped ==
  ASSUME NEW s \in Files(Status), NEW i \in Instructions
  PROVE  NsGoes(s, i) \in Files(Status)
<1>1. i.dst \in Reg
  BY InstructionFacts
<1>. QED BY <1>1 DEF NsGoes, Files, Status

LEMMA NullStepTyped ==
  ASSUME NEW s \in Files(Status), NEW i \in Instructions, NEW at \in Int, NEW t \in Maps(Status)
  PROVE  check_insn_ns(s, i, at, t) \in Finds(Status)
<1>. DEFINE z == Merged("Unchecked", s, at, t)
            c == Cleared(t, at)
            u == IF IsCondJump(i) THEN add_target("Unchecked", c, target_pc(at, i), NsGoes(z, i)) ELSE c
            ok == IsMemory(i) => is_safe_deref(z[Base(i)])
<1>1. "Unchecked" \in Status
  BY DEF Status
<1>2. z \in Files(Status)
  BY <1>1, MergedTyped
<1>3. c \in Maps(Status)
  BY ClearedFacts
<1>4. target_pc(at, i) \in Int
  BY InstructionFacts DEF target_pc
<1>. HIDE DEF z, c
<1>5. NsAfter(z, i) \in Files(Status) /\ NsGoes(z, i) \in Files(Status)
  BY <1>2, NsAfterFacts, NsGoesTyped
<1>6. u \in Maps(Status)
  BY <1>1, <1>3, <1>4, <1>5, AddedFacts
<1>7. ok \in BOOLEAN
  BY DEF is_safe_deref
<1>. HIDE DEF u, ok
<1>8. check_insn_ns(s, i, at, t) = [ok |-> ok, regs |-> NsAfter(z, i), targets |-> u]
  BY DEF check_insn_ns, z, c, u, ok, Found
<1>. QED BY <1>5, <1>6, <1>7, <1>8 DEF Finds

LEMMA NullInit ==
  ASSUME NEW list \in Seq(Instructions)
  PROVE  Found(TRUE, ns_init, init_loop_targets("NotMap", list, ns_init)) \in Finds(Status)
<1>1. "NotMap" \in Status /\ ns_init \in Files(Status)
  BY DEF Status, ns_init, Files
<1>. QED BY <1>1, HeadFacts DEF Found, Finds
LEMMA NullScanUnrolled ==
  ASSUME NEW list \in Seq(Instructions)
  PROVE  LET scan == null_safety_scan(list) IN
         /\ scan \in [0 .. Len(list) -> Finds(Status)]
         /\ scan[0] = Found(TRUE, ns_init, init_loop_targets("NotMap", list, ns_init))
         /\ \A k \in 0 .. Len(list) - 1 :
              scan[k + 1] = Onward(scan[k], check_insn_ns(scan[k].regs, At(list, k), k, scan[k].targets))
<1>. DEFINE n == Len(list)
            V == Finds(Status)
            c == Found(TRUE, ns_init, init_loop_targets("NotMap", list, ns_init))
            E(b, k) == Onward(b, check_insn_ns(b.regs, At(list, k - 1), k - 1, b.targets))
            F == [x \in V \X (1 .. n) |-> E(x[1], x[2])]
            scan == null_safety_scan(list)
<1>1. n \in Nat
  OBVIOUS
<1>2. c \in V
  BY NullInit
<1>3. ASSUME NEW b \in V, NEW k \in 1 .. n PROVE E(b, k) \in V
  <2>1. At(list, k - 1) \in Instructions /\ k - 1 \in Int
    BY DEF At
  <2>2. b.regs \in Files(Status) /\ b.targets \in Maps(Status)
    BY DEF Finds
  <2>3. check_insn_ns(b.regs, At(list, k - 1), k - 1, b.targets) \in V
    BY <2>1, <2>2, NullStepTyped
  <2>. QED BY <2>3 DEF Onward
<1>. HIDE DEF E, V, c, n
<1>4. F \in [V \X (1 .. n) -> V]
  BY <1>3
<1>5. \A b \in V, k \in 1 .. n : F[<<b, k>>] = E(b, k)
  OBVIOUS
<1>. HIDE DEF F
<1>6. PICK f : IsFold(n, V, c, F, f)
  BY <1>1, <1>2, <1>4, FoldExists
<1>7. f = [k \in 0 .. n |-> IF k = 0 THEN c ELSE E(f[k - 1], k)]
  <2>1. ASSUME NEW k \in 1 .. n PROVE f[k] = E(f[k - 1], k)
    <3>1. f[k - 1] \in V /\ f[k] = F[<<f[k - 1], k>>]
      BY <1>1, <1>6 DEF IsFold
    <3>. QED BY <1>5, <3>1
  <2>. QED BY <1>1, <1>6, <2>1 DEF IsFold
<1>8. scan = [k \in 0 .. n |-> IF k = 0 THEN c ELSE E(scan[k - 1], k)]
  BY <1>7, Zenon DEF null_safety_scan, n, c, E
<1>. HIDE DEF scan
<1>9. scan[0] = c /\ \A k \in 0 .. n - 1 : scan[k + 1] = E(scan[k], k + 1)
  BY <1>1, <1>8
<1>10. \A k \in 0 .. n : scan[k] \in V
  <2>. DEFINE S == {k \in 0 .. n : scan[k] \in V}
  <2>1. 0 \in S
    BY <1>1, <1>2, <1>9
  <2>2. \A k \in 0 .. n - 1 : k \in S => k + 1 \in S
    BY <1>1, <1>3, <1>9
  <2>. HIDE DEF S
  <2>3. \A k \in 0 .. n : k \in S
    BY <1>1, <2>1, <2>2, AlongTheList
  <2>. QED BY <2>3 DEF S
<1>11. scan \in [0 .. n -> V]
  BY <1>8, <1>10
<1>12. \A k \in 0 .. n - 1 :
         scan[k + 1] = Onward(scan[k], check_insn_ns(scan[k].regs, At(list, k), k, scan[k].targets))
  BY <1>1, <1>9 DEF E
<1>. QED BY <1>9, <1>11, <1>12 DEF scan, n, V, c
LEMMA NullScanOk ==
  ASSUME NEW list \in Seq(Instructions), NEW j \in 0 .. Len(list), NEW k \in 0 .. j,
         null_safety_scan(list)[j].ok
  PROVE  null_safety_scan(list)[k].ok
<1>. DEFINE n == Len(list)
            scan == null_safety_scan(list)
<1>0. ASSUME NEW p \in 0 .. n - 1, ~scan[p].ok PROVE ~scan[p + 1].ok
  <2>1. scan[p + 1] = scan[p]
    BY <1>0, NullScanUnrolled DEF Onward
  <2>. QED BY <1>0, <2>1
<1>1. n \in Nat /\ \A p \in 0 .. n - 1 : ~scan[p].ok => ~scan[p + 1].ok
  BY <1>0
<1>2. j \in 0 .. n /\ scan[j].ok
  OBVIOUS
<1>. HIDE DEF n, scan
<1>3. scan[k].ok
  BY <1>1, <1>2, OkBefore
<1>. QED BY <1>3 DEF scan

(* What a scan that refuses nothing claims, from one instruction to the    *)
(* next one.                                                               *)
LEMMA NullScanStep ==
  ASSUME NEW list \in Seq(Instructions), null_check(list), NEW k \in 0 .. Len(list) - 1
  PROVE  LET b == null_safety_scan(list)[k]
             a == null_safety_scan(list)[k + 1]
             i == At(list, k)
             c == NullClaims(list, k)
             t == Cleared(b.targets, k)
         IN /\ i \in Instructions
            /\ b.regs \in Files(Status) /\ b.targets \in Maps(Status)
            /\ c \in Files(Status) /\ t \in Maps(Status) /\ target_pc(k, i) \in Int
            /\ c = Merged("Unchecked", b.regs, k, b.targets)
            /\ IsMemory(i) => is_safe_deref(c[Base(i)])
            /\ a.regs = NsAfter(c, i)
            /\ a.targets = IF IsCondJump(i) THEN add_target("Unchecked", t, target_pc(k, i), NsGoes(c, i)) ELSE t
<1>. DEFINE scan == null_safety_scan(list)
            i == At(list, k)
            c == NullClaims(list, k)
<1>1. i \in Instructions
  BY DEF At
<1>2. scan \in [0 .. Len(list) -> Finds(Status)]
  BY NullScanUnrolled, Zenon
<1>3. scan[k].regs \in Files(Status) /\ scan[k].targets \in Maps(Status)
  BY <1>2 DEF Finds
<1>4. c = Merged("Unchecked", scan[k].regs, k, scan[k].targets)
  BY DEF NullClaims
<1>5. c \in Files(Status) /\ Cleared(scan[k].targets, k) \in Maps(Status) /\ target_pc(k, i) \in Int
  <2>0. "Unchecked" \in Status
    BY DEF Status
  <2>1. c \in Files(Status)
    BY <1>3, <1>4, <2>0, MergedTyped
  <2>2. Cleared(scan[k].targets, k) \in Maps(Status)
    BY <1>3, ClearedFacts, Zenon
  <2>3. target_pc(k, i) \in Int
    BY <1>1, InstructionFacts DEF target_pc
  <2>. QED BY <2>1, <2>2, <2>3
<1>6. scan[k].ok /\ scan[k + 1].ok
  BY NullScanOk DEF null_check
<1>7. scan[k + 1] = check_insn_ns(scan[k].regs, i, k, scan[k].targets)
  BY <1>6, NullScanUnrolled DEF Onward
<1>8. /\ scan[k + 1].ok = (IsMemory(i) => is_safe_deref(c[Base(i)]))
      /\ scan[k + 1].regs = NsAfter(c, i)
      /\ scan[k + 1].targets =
           IF IsCondJump(i) THEN add_target("Unchecked", Cleared(scan[k].targets, k), target_pc(k, i), NsGoes(c, i))
           ELSE Cleared(scan[k].targets, k)
  <2>. HIDE DEF i, scan
  <2>. QED BY <1>4, <1>7 DEF check_insn_ns, Found
<1>. QED BY <1>1, <1>3, <1>4, <1>5, <1>6, <1>8

(* Where control may come from, the scan has claimed as much as it claims. *)
LEMMA NullClaimsFall ==
  ASSUME NEW list \in Seq(Instructions), null_check(list), NEW k \in 0 .. Len(list) - 1, k + 1 < Len(list)
  PROVE  Below("Unchecked", NullClaims(list, k + 1), NsAfter(NullClaims(list, k), At(list, k)))
<1>. DEFINE a == null_safety_scan(list)[k + 1]
<1>1. a.regs = NsAfter(NullClaims(list, k), At(list, k))
  BY NullScanStep
<1>2. NullClaims(list, k + 1) = Merged("Unchecked", a.regs, k + 1, a.targets)
  BY DEF NullClaims
<1>. HIDE DEF a
<1>. QED BY <1>1, <1>2, MergedBelow

LEMMA NullClaimsJump ==
  ASSUME NEW list \in Seq(Instructions), null_check(list), NEW k \in 0 .. Len(list) - 1,
         IsCondJump(At(list, k)), NEW to \in 0 .. Len(list) - 1, to = target_pc(k, At(list, k)), to > k
  PROVE  Below("Unchecked", NullClaims(list, to), NsGoes(NullClaims(list, k), At(list, k)))
<1>. DEFINE n == Len(list)
            scan == null_safety_scan(list)
            s == NsGoes(NullClaims(list, k), At(list, k))
<1>1. n \in Nat /\ "Unchecked" \in Status
  BY DEF Status
<1>2. ASSUME NEW p \in 0 .. n - 1 PROVE OneEntry(Status, "Unchecked", scan, p)
  <2>. DEFINE i == At(list, p)
              u == NsGoes(NullClaims(list, p), i)
              t == Cleared(scan[p].targets, p)
  <2>1. /\ scan[p].targets \in Maps(Status) /\ NullClaims(list, p) \in Files(Status)
        /\ target_pc(p, i) \in Int /\ i \in Instructions
        /\ scan[p + 1].targets = IF IsCondJump(i) THEN add_target("Unchecked", t, target_pc(p, i), u) ELSE t
    BY NullScanStep
  <2>2. u \in Files(Status)
    BY <2>1, NsGoesTyped
  <2>. QED BY <2>1, <2>2 DEF OneEntry
<1>3. Recorded("Unchecked", scan[k + 1].targets, to, s)
  <2>1. /\ NullClaims(list, k) \in Files(Status) /\ Cleared(scan[k].targets, k) \in Maps(Status)
        /\ At(list, k) \in Instructions
        /\ scan[k + 1].targets = add_target("Unchecked", Cleared(scan[k].targets, k), to, s)
    BY NullScanStep
  <2>2. s \in Files(Status)
    BY <2>1, NsGoesTyped
  <2>. QED BY <1>1, <2>1, <2>2, RecordedNow
<1>4. to \in 0 .. n - 1 /\ k + 1 \in 0 .. n /\ k + 1 <= to
  OBVIOUS
<1>5. NullClaims(list, to) = Merged("Unchecked", scan[to].regs, to, scan[to].targets)
      /\ scan[to].regs \in Files(Status) /\ scan[to].targets \in Maps(Status)
  BY NullScanStep
<1>. HIDE DEF scan, n, s
<1>6. Recorded("Unchecked", scan[to].targets, to, s)
  BY <1>1, <1>2, <1>3, <1>4, RecordedUntil
<1>7. Below("Unchecked", NullClaims(list, to), s)
  BY <1>1, <1>5, <1>6, RecordedUsed
<1>. QED BY <1>7 DEF s
-----------------------------------------------------------------------------
(* The type scan, which keeps no map. *)
TypeFinds == [ok : BOOLEAN, regs : Files(AbsType), targets : {<<>>}]

(* What each kind of instruction makes of the types. *)
LEMMA TypesAfterFacts ==
  ASSUME NEW s \in Files(AbsType), NEW i \in Instructions
  PROVE  /\ TypesAfter(s, i) \in Files(AbsType)
         /\ SetsDst(i) => \A r \in Reg \ {i.dst} : TypesAfter(s, i)[r] = s[r]
         /\ IsCopy(i) => TypesAfter(s, i)[i.dst] = s[i.src]
         /\ Displaces(i) => TypesAfter(s, i)[i.dst] = s[i.dst]
         /\ SetsDst(i) /\ ~IsCopy(i) /\ ~Displaces(i) => TypesAfter(s, i)[i.dst] = "TScalar"
         /\ i.kind = "call" =>
              /\ \A r \in Reg \ {R0} : TypesAfter(s, i)[r] = IF r <= 5 THEN "TUnknown" ELSE s[r]
              /\ TypesAfter(s, i)[R0] = ResultType(i.helper)
         /\ ~SetsDst(i) /\ i.kind # "call" => TypesAfter(s, i) = s
<1>1. /\ i.dst \in Reg /\ R0 \in Reg /\ (IsCopy(i) => i.src \in Reg) /\ (i.src # Imm => i.src \in Reg)
  BY InstructionFacts DEF R0, Reg
<1>2. /\ Clobbered("TUnknown", s) \in Files(AbsType)
      /\ \A r \in Reg : Clobbered("TUnknown", s)[r] = IF r <= 5 THEN "TUnknown" ELSE s[r]
  BY ClobberedFacts DEF AbsType
<1>3. CASE IsMove(i) /\ i.wide
  <2>1. SourceType(s, i) \in AbsType /\ (i.src # Imm => SourceType(s, i) = s[i.src])
        /\ (i.src = Imm => SourceType(s, i) = "TScalar")
    BY <1>1 DEF SourceType, Files, AbsType
  <2>2. TypesAfter(s, i) = [s EXCEPT ![i.dst] = SourceType(s, i)]
    BY <1>3 DEF TypesAfter, IsMove, Displaces
  <2>3. SetsDst(i) /\ i.kind # "call" /\ ~Displaces(i) /\ (IsCopy(i) <=> i.src # Imm)
    BY <1>3 DEF IsMove, SetsDst, Displaces, IsCopy
  <2>. QED BY <1>1, <2>1, <2>2, <2>3 DEF Files
<1>4. CASE Displaces(i)
  <2>1. TypesAfter(s, i) = s
    BY <1>4 DEF TypesAfter, IsMove, Displaces
  <2>2. SetsDst(i) /\ i.kind # "call" /\ ~IsCopy(i)
    BY <1>4 DEF SetsDst, Displaces, IsCopy
  <2>. QED BY <1>4, <2>1, <2>2
<1>5. CASE SetsDst(i) /\ ~(IsMove(i) /\ i.wide) /\ ~Displaces(i)
  <2>1. TypesAfter(s, i) = [s EXCEPT ![i.dst] = "TScalar"]
    BY <1>5 DEF TypesAfter, SetsDst
  <2>2. i.kind # "call" /\ ~IsCopy(i)
    BY <1>5 DEF SetsDst, IsMove, IsCopy
  <2>. QED BY <1>1, <1>5, <2>1, <2>2 DEF Files, AbsType
<1>6. CASE i.kind = "call"
  <2>1. ~SetsDst(i) /\ ~IsCopy(i) /\ ~Displaces(i) /\ ~IsMove(i)
    BY <1>6 DEF SetsDst, IsMove, IsCopy, Displaces
  <2>2. TypesAfter(s, i) = [Clobbered("TUnknown", s) EXCEPT ![R0] = ResultType(i.helper)]
    BY <1>6, <2>1 DEF TypesAfter
  <2>3. ResultType(i.helper) \in AbsType
    BY DEF ResultType, AbsType
  <2>. QED BY <1>1, <1>2, <1>6, <2>1, <2>2, <2>3 DEF Files
<1>7. CASE ~SetsDst(i) /\ i.kind # "call"
  <2>1. ~IsCopy(i) /\ ~Displaces(i) /\ ~IsMove(i)
    BY <1>7 DEF SetsDst, IsMove, IsCopy, Displaces
  <2>2. TypesAfter(s, i) = s
    BY <1>7, <2>1 DEF TypesAfter
  <2>. QED BY <1>7, <2>1, <2>2
<1>. QED BY <1>3, <1>4, <1>5, <1>6, <1>7

LEMMA WellTypedOrNot ==
  ASSUME NEW s, NEW i \in Instructions
  PROVE  WellTyped(s, i) \in BOOLEAN
<1>1. CASE IsMove(i)
  <2>1. WellTyped(s, i) = (i.wide \/ is_scalar_type(SourceType(s, i)))
    BY <1>1 DEF WellTyped, IsMove, Displaces
  <2>. QED BY <2>1
<1>2. CASE Displaces(i)
  <2>1. WellTyped(s, i) = TRUE
    BY <1>2 DEF WellTyped, IsMove, Displaces
  <2>. QED BY <2>1
<1>3. CASE i.kind = "alu" /\ ~IsMove(i) /\ ~Displaces(i)
  <2>1. WellTyped(s, i) = (is_scalar_type(s[i.dst]) /\ is_scalar_type(SourceType(s, i)))
    BY <1>3, Zenon DEF WellTyped
  <2>. QED BY <2>1
<1>4. CASE i.kind = "ldx"
  <2>1. WellTyped(s, i) = is_load_base(s[i.src])
    BY <1>4 DEF WellTyped, IsMove, Displaces
  <2>. QED BY <2>1 DEF is_load_base
<1>5. CASE i.kind \in {"stx", "st"}
  <2>1. WellTyped(s, i) = (is_store_base(s[i.dst]) /\ is_scalar_type(SourceType(s, i)))
    BY <1>5 DEF WellTyped, IsMove, Displaces
  <2>. QED BY <2>1
<1>6. CASE i.kind \notin {"alu", "ldx", "stx", "st"}
  <2>1. WellTyped(s, i) = TRUE
    BY <1>6 DEF WellTyped, IsMove, Displaces
  <2>. QED BY <2>1
<1>. QED BY <1>1, <1>2, <1>3, <1>4, <1>5, <1>6

LEMMA TypeScanUnrolled ==
  ASSUME NEW list \in Seq(Instructions)
  PROVE  LET scan == TypeClaims(list) IN
         /\ scan \in [0 .. Len(list) -> TypeFinds]
         /\ scan[0] = Found(TRUE, ts_init, <<>>)
         /\ \A k \in 0 .. Len(list) - 1 :
              scan[k + 1] = Onward(scan[k], check_insn_ts(scan[k].regs, At(list, k), k, scan[k].targets))
<1>. DEFINE n == Len(list)
            V == TypeFinds
            c == Found(TRUE, ts_init, <<>>)
            E(b, k) == Onward(b, check_insn_ts(b.regs, At(list, k - 1), k - 1, b.targets))
            F == [x \in V \X (1 .. n) |-> E(x[1], x[2])]
            scan == TypeClaims(list)
<1>1. n \in Nat
  OBVIOUS
<1>2. c \in V
  BY DEF Found, TypeFinds, ts_init, AbsType, Files
<1>3. ASSUME NEW b \in V, NEW k \in 1 .. n PROVE E(b, k) \in V
  <2>1. At(list, k - 1) \in Instructions
    BY DEF At
  <2>2. b.regs \in Files(AbsType) /\ b.targets = <<>>
    BY DEF TypeFinds
  <2>3. WellTyped(b.regs, At(list, k - 1)) \in BOOLEAN
    BY <2>1, WellTypedOrNot
  <2>4. TypesAfter(b.regs, At(list, k - 1)) \in Files(AbsType)
    BY <2>1, <2>2, TypesAfterFacts
  <2>. QED BY <2>2, <2>3, <2>4 DEF Onward, check_insn_ts, Found, TypeFinds
<1>. HIDE DEF E, V, c, n
<1>4. F \in [V \X (1 .. n) -> V]
  BY <1>3
<1>5. \A b \in V, k \in 1 .. n : F[<<b, k>>] = E(b, k)
  OBVIOUS
<1>. HIDE DEF F
<1>6. PICK f : IsFold(n, V, c, F, f)
  BY <1>1, <1>2, <1>4, FoldExists
<1>7. f = [k \in 0 .. n |-> IF k = 0 THEN c ELSE E(f[k - 1], k)]
  <2>1. ASSUME NEW k \in 1 .. n PROVE f[k] = E(f[k - 1], k)
    <3>1. f[k - 1] \in V /\ f[k] = F[<<f[k - 1], k>>]
      BY <1>1, <1>6 DEF IsFold
    <3>. QED BY <1>5, <3>1
  <2>. QED BY <1>1, <1>6, <2>1 DEF IsFold
<1>8. scan = [k \in 0 .. n |-> IF k = 0 THEN c ELSE E(scan[k - 1], k)]
  BY <1>7, Zenon DEF TypeClaims, n, c, E
<1>. HIDE DEF scan
<1>9. scan[0] = c /\ \A k \in 0 .. n - 1 : scan[k + 1] = E(scan[k], k + 1)
  BY <1>1, <1>8
<1>10. \A k \in 0 .. n : scan[k] \in V
  <2>. DEFINE S == {k \in 0 .. n : scan[k] \in V}
  <2>1. 0 \in S
    BY <1>1, <1>2, <1>9
  <2>2. \A k \in 0 .. n - 1 : k \in S => k + 1 \in S
    BY <1>1, <1>3, <1>9
  <2>. HIDE DEF S
  <2>3. \A k \in 0 .. n : k \in S
    BY <1>1, <2>1, <2>2, AlongTheList
  <2>. QED BY <2>3 DEF S
<1>11. scan \in [0 .. n -> V]
  BY <1>8, <1>10
<1>12. \A k \in 0 .. n - 1 :
         scan[k + 1] = Onward(scan[k], check_insn_ts(scan[k].regs, At(list, k), k, scan[k].targets))
  BY <1>1, <1>9 DEF E
<1>. QED BY <1>9, <1>11, <1>12 DEF scan, n, V, c

(* What a type scan that refuses nothing claims, from one instruction to   *)
(* the next one.                                                           *)
LEMMA TypeScanStep ==
  ASSUME NEW list \in Seq(Instructions), type_check(list), NEW k \in 0 .. Len(list) - 1
  PROVE  /\ At(list, k) \in Instructions
         /\ TypeClaims(list)[k].regs \in Files(AbsType)
         /\ TypeClaims(list)[k + 1].regs = TypesAfter(TypeClaims(list)[k].regs, At(list, k))
<1>. DEFINE n == Len(list)
            scan == TypeClaims(list)
<1>0. ASSUME NEW p \in 0 .. n - 1, ~scan[p].ok PROVE ~scan[p + 1].ok
  <2>1. scan[p + 1] = scan[p]
    BY <1>0, TypeScanUnrolled DEF Onward
  <2>. QED BY <1>0, <2>1
<1>1. n \in Nat /\ \A p \in 0 .. n - 1 : ~scan[p].ok => ~scan[p + 1].ok
  BY <1>0
<1>2. n \in 0 .. n /\ scan[n].ok /\ k \in 0 .. n
  BY DEF type_check
<1>3. scan[k].ok
  <2>. HIDE DEF n, scan
  <2>. QED BY <1>1, <1>2, OkBefore
<1>4. scan[k + 1] = check_insn_ts(scan[k].regs, At(list, k), k, scan[k].targets)
  BY <1>3, TypeScanUnrolled DEF Onward
<1>5. scan[k].regs \in Files(AbsType)
  <2>1. scan \in [0 .. Len(list) -> TypeFinds]
    BY TypeScanUnrolled, Zenon
  <2>. QED BY <2>1 DEF TypeFinds
<1>6. At(list, k) \in Instructions
  BY DEF At
<1>. QED BY <1>4, <1>5, <1>6 DEF check_insn_ts, Found

-----------------------------------------------------------------------------
(* A step of the witness, and a schedule for the calls of the list. *)
WitnessStep == [pc : Int, regs : Files(Claims), targets : Maps(Claims)]
Schedule    == [1 .. count_nullable_helpers(code) -> PathChoice]

(* The inductive invariant of the command: where its phases leave it, and  *)
(* what was found of the list when F* was content.                         *)
Listed == job \in Jobs /\ code = decode(job.raw)

Scanned ==
  /\ pc \in 0 .. Len(code)
  /\ regs \in Files(Claims)
  /\ targets \in Maps(Claims)
  /\ \A p \in DOMAIN targets : p < 0 \/ p >= pc
  /\ steps \in Seq(WitnessStep)
  /\ Len(steps) = IF phase = "error" /\ pc < Len(code) THEN pc + 1 ELSE pc

Phased ==
  /\ phase \in Phase
  /\ phase \notin {"scan", "error"} => pc = Len(code)
  /\ phase \in {"passed", "running", "ended"} => type_check(code) /\ (has_map_calls => null_check(code))

Scheduled == todo \in Seq(Schedule) /\ paths \in Seq(Schedule)

Loaded ==
  /\ IsMachine(m)
  /\ jumped \in BOOLEAN
  /\ stale \subseteq Reg
  /\ phase \notin {"running", "ended"} => ~jumped /\ stale = {}

CommandInv == Listed /\ Scanned /\ Phased /\ Scheduled /\ Loaded

-----------------------------------------------------------------------------
LEMMA ListFacts ==
  ASSUME Listed
  PROVE  /\ code \in Seq(Instructions) /\ Len(code) \in Nat
         /\ \A k \in DOMAIN code : code[k] \in Instructions
<1>1. job.raw \in Seq(Instructions)
  BY JobsAssumption DEF Listed
<1>. QED BY <1>1, DecodedList DEF Listed

(* There is a whole number of schedules. *)
LEMMA ScheduleFacts ==
  ASSUME Listed
  PROVE  /\ count_nullable_helpers(code) \in Nat
         /\ enumerate_schedules(count_nullable_helpers(code)) \in Seq(Schedule)
<1>. DEFINE n == Len(code)
            N == {k \in DOMAIN code : code[k].kind = "call" /\ returns_nullable_ptr(code[k].helper)}
            count == count_nullable_helpers(code)
<1>1. n \in Nat /\ DOMAIN code = 1 .. n
  BY ListFacts
<1>2. IsFiniteSet(1 .. n)
  BY <1>1, FS_Interval
<1>3. N \in SUBSET (1 .. n)
  BY <1>1
<1>4. IsFiniteSet(N)
  BY <1>2, <1>3, FS_Subset
<1>5. count \in Nat
  BY <1>4, FS_CardinalityType DEF count_nullable_helpers
<1>. HIDE DEF count
<1>6. 2^count \in Nat
  <2>1. IsFiniteSet(1 .. count) /\ Cardinality(1 .. count) = count
    BY <1>5, FS_Interval
  <2>2. IsFiniteSet(SUBSET (1 .. count)) /\ Cardinality(SUBSET (1 .. count)) = 2^count
    BY <2>1, FS_SUBSET
  <2>. QED BY <2>2, FS_CardinalityType
<1>7. enumerate_schedules(count) \in [1 .. 2^count -> [1 .. count -> PathChoice]]
  BY <1>5 DEF enumerate_schedules, PathChoice
<1>. HIDE DEF n, N
<1>8. enumerate_schedules(count) \in Seq([1 .. count -> PathChoice])
  BY <1>6, <1>7
<1>. QED BY <1>5, <1>8 DEF count, Schedule

LEMMA LoadedMachine ==
  ASSUME NEW r \in [Reg -> {Scalar(w) : w \in Word}]
  PROVE  /\ IsMachine(InitMachine(r)) /\ InitMachine(r).pc = 0
         /\ InitMachine(r).regs[1] = CtxPtr(0) /\ InitMachine(r).regs[R10] = FramePtr(0)
         /\ \A q \in Reg : InitMachine(r).regs[q].kind # "Null"
<1>. DEFINE f == [r EXCEPT ![1] = CtxPtr(0), ![R10] = FramePtr(0)]
<1>0. DOMAIN r = Reg /\ 1 \in Reg /\ R10 \in Reg /\ R10 # 1
  BY DEF Reg, R10
<1>1. /\ f = [q \in Reg |-> f[q]] /\ f[1] = CtxPtr(0) /\ f[R10] = FramePtr(0)
      /\ \A q \in Reg \ {1, R10} : f[q] = r[q]
  <2>1. f = [q \in Reg |-> IF q = R10 THEN FramePtr(0) ELSE IF q = 1 THEN CtxPtr(0) ELSE r[q]]
    BY <1>0, Zenon
  <2>. HIDE DEF f
  <2>. QED BY <1>0, <2>1
<1>2. \A q \in Reg : r[q] \in {Scalar(w) : w \in Word}
  OBVIOUS
<1>3. \A q \in Reg : IsValue(r[q]) /\ r[q].kind # "Null"
  BY <1>2, ValuesAreValues DEF Scalar
<1>. HIDE DEF f
<1>4. IsFile(f) /\ \A q \in Reg : f[q].kind # "Null"
  <2>1. IsValue(CtxPtr(0)) /\ CtxPtr(0).kind # "Null" /\ IsValue(FramePtr(0)) /\ FramePtr(0).kind # "Null"
    BY ValuesAreValues DEF CtxPtr, FramePtr
  <2>. QED BY <1>1, <1>3, <2>1 DEF IsFile
<1>5. InitMachine(r) = [regs |-> f, pc |-> 0, stack |-> <<>>, maps |-> {}, ring |-> <<>>, next_id |-> 0]
  BY DEF InitMachine, f
<1>. QED BY <1>1, <1>4, <1>5 DEF IsMachine

LEMMA ScanKept ==
  ASSUME CommandInv, ScanInsn
  PROVE  CommandInv'
<1>. DEFINE i == At(code, pc)
            o == RustStep(regs, i, pc, targets)
            s == [pc |-> pc, regs |-> regs, targets |-> targets]
<1>. USE DEF CommandInv
<1>0. UNCHANGED <<job, code, todo, paths, m, history>> /\ phase = "scan" /\ steps' = Append(steps, s)
  BY DEF ScanInsn
<1>1. code \in Seq(Instructions) /\ Len(code) \in Nat /\ pc \in 0 .. Len(code) - 1 /\ pc < Len(code)
  BY ListFacts DEF ScanInsn, Scanned
<1>2. i \in Instructions
  BY <1>1 DEF At
<1>3. /\ o.ok \in BOOLEAN /\ o.regs \in Files(Claims) /\ o.targets \in Maps(Claims)
      /\ \A p \in DOMAIN o.targets : p \in DOMAIN targets \ {pc} \/ p > pc
  BY <1>1, <1>2, RustStepTyped DEF Scanned
<1>4. \/ /\ pc' = pc + 1 /\ regs' = o.regs /\ targets' = o.targets /\ phase' = phase
      \/ /\ phase' = "error" /\ pc' = pc /\ regs' = regs /\ targets' = targets
  BY DEF ScanInsn
<1>. HIDE DEF o, i
<1>5. steps' \in Seq(WitnessStep) /\ Len(steps') = pc + 1
  <2>1. s \in WitnessStep
    BY <1>1 DEF Scanned, WitnessStep
  <2>2. steps \in Seq(WitnessStep) /\ Len(steps) = pc
    BY <1>0 DEF Scanned
  <2>. HIDE DEF s
  <2>. QED BY <1>0, <2>1, <2>2
<1>6. Listed'
  BY <1>0 DEF Listed
<1>7. Scanned'
  <2>0. code' = code
    BY <1>0
  <2>1. CASE pc' = pc + 1 /\ regs' = o.regs /\ targets' = o.targets /\ phase' = phase
    <3>1. \A p \in DOMAIN targets' : p < 0 \/ p >= pc'
      <4>1. DOMAIN o.targets \subseteq Int /\ DOMAIN targets \subseteq Int
        BY <1>3, MapFacts DEF Scanned
      <4>. QED BY <1>1, <1>3, <2>1, <4>1 DEF Scanned
    <3>2. pc' \in 0 .. Len(code) /\ regs' \in Files(Claims) /\ targets' \in Maps(Claims)
      BY <1>1, <1>3, <2>1
    <3>3. Len(steps') = pc' /\ phase' # "error"
      BY <1>0, <1>5, <2>1
    <3>. QED BY <1>5, <2>0, <3>1, <3>2, <3>3 DEF Scanned
  <2>2. CASE phase' = "error" /\ pc' = pc /\ regs' = regs /\ targets' = targets
    BY <1>1, <1>5, <2>0, <2>2 DEF Scanned
  <2>. QED BY <1>4, <2>1, <2>2
<1>8. Phased' /\ Loaded'
  BY <1>0, <1>4 DEF Phased, Phase, Loaded, history, has_map_calls
<1>9. Scheduled'
  BY <1>0 DEF Scheduled, Schedule
<1>. QED BY <1>6, <1>7, <1>8, <1>9

(* A step that leaves the scan where it was. *)
LEMMA ScanRests ==
  ASSUME Scanned, UNCHANGED <<code, pc, regs, targets, steps>>,
         phase = "error" \/ pc = Len(code) \/ phase' # "error", phase = "error" => phase' = "error"
  PROVE  Scanned'
  BY DEF Scanned

LEMMA CommandKept ==
  ASSUME CommandInv, ListPaths \/ TryPath \/ RunFstar
  PROVE  CommandInv'
<1>. USE DEF CommandInv
<1>0. UNCHANGED <<job, code, pc, regs, targets, steps, m, history>> /\ phase \in {"scan", "paths"}
  BY DEF ListPaths, TryPath, RunFstar
<1>1. phase' \in {"paths", "passed", "failed", "error"}
  BY DEF ListPaths, TryPath, RunFstar
<1>2. pc = Len(code)
  BY DEF ListPaths, TryPath, RunFstar, Phased
<1>3. Listed'
  BY <1>0 DEF Listed
<1>4. Scanned'
  BY <1>0, <1>2, ScanRests
<1>5. phase' = "passed" => type_check(code) /\ (has_map_calls => null_check(code))
  BY DEF ListPaths, TryPath, RunFstar, Proved
<1>6. Phased'
  BY <1>0, <1>1, <1>2, <1>5 DEF Phased, Phase, has_map_calls
<1>7. Scheduled'
  <2>1. Schedule' = Schedule
    BY <1>0 DEF Schedule
  <2>2. CASE ListPaths
    <3>1. todo' \in Seq(Schedule) /\ paths' = paths
      BY <2>2, ScheduleFacts DEF ListPaths, Schedules
    <3>. QED BY <2>1, <3>1 DEF Scheduled
  <2>3. CASE TryPath
    <3>1. todo \in Seq(Schedule) /\ todo # <<>> /\ paths \in Seq(Schedule)
      BY <2>3 DEF TryPath, Scheduled
    <3>2. Head(todo) \in Schedule /\ Tail(todo) \in Seq(Schedule)
      BY <3>1
    <3>3. paths' \in {paths, Append(paths, Head(todo))} /\ todo' = Tail(todo)
      BY <2>3 DEF TryPath
    <3>. QED BY <2>1, <3>1, <3>2, <3>3 DEF Scheduled
  <2>4. CASE RunFstar
    BY <2>1, <2>4 DEF RunFstar, Scheduled
  <2>. QED BY <2>2, <2>3, <2>4
<1>8. Loaded'
  BY <1>0 DEF Loaded, history
<1>. QED BY <1>3, <1>4, <1>6, <1>7, <1>8

(* One instruction of a run, whatever is known of it. *)
LEMMA RunInsnFacts ==
  ASSUME Listed, IsMachine(m), RunInsn
  PROVE  LET i == InsnAt(code, m.pc) IN
         /\ i \in Instructions /\ i.kind # "exit" /\ m' \in exec_insn(m, i, BOOLEAN, Unknown)
         /\ IsAt(code, m.pc) /\ Fetched(code, m.pc) \in 0 .. Len(code) - 1
         /\ code' = code /\ phase' = phase /\ phase = "running"
<1>1. code \in Seq(Instructions) /\ Len(code) \in Nat /\ m.pc \in Int
  BY ListFacts DEF IsMachine
<1>2. Fetched(code, m.pc) \in 0 .. Len(code) - 1
  BY <1>1 DEF RunInsn, IsAt, Fetched
<1>3. InsnAt(code, m.pc) \in Instructions
  BY <1>1, <1>2 DEF InsnAt, At
<1>. QED BY <1>2, <1>3 DEF RunInsn

LEMMA RunKept ==
  ASSUME CommandInv, Load \/ RunInsn \/ RunExit
  PROVE  CommandInv'
<1>. USE DEF CommandInv
<1>0. /\ UNCHANGED <<job, code, pc, regs, targets, steps, todo, paths>>
      /\ phase \in {"passed", "running"} /\ phase' \in {"running", "ended"}
  BY DEF Load, RunInsn, RunExit
<1>1. Listed'
  BY <1>0 DEF Listed
<1>2. Scanned'
  BY <1>0, ScanRests
<1>3. Phased'
  BY <1>0 DEF Phased, Phase, has_map_calls
<1>4. Scheduled'
  BY <1>0 DEF Scheduled, Schedule
<1>5. IsMachine(m')
  <2>1. CASE Load
    <3>1. PICK r \in Registers : m' = InitMachine(r)
      BY <2>1 DEF Load, Initial
    <3>. QED BY <3>1, RegistersAssumption, LoadedMachine
  <2>2. CASE RunInsn
    BY <2>2, RunInsnFacts, ExecFacts DEF Loaded
  <2>3. CASE RunExit
    BY <2>3 DEF RunExit, Loaded
  <2>. QED BY <2>1, <2>2, <2>3
<1>6. stale' \subseteq Reg /\ jumped' \in BOOLEAN
  <2>1. CASE RunInsn
    <3>. DEFINE i == InsnAt(code, m.pc)
    <3>1. i.dst \in Reg
      BY <2>1, RunInsnFacts, InstructionFacts DEF Loaded
    <3>2. stale \subseteq Reg /\ jumped \in BOOLEAN
      BY DEF Loaded
    <3>3. stale' = StaleAfter(i) /\ jumped' = (jumped \/ m'.pc # m.pc + 1)
      BY <2>1 DEF RunInsn
    <3>. HIDE DEF i
    <3>4. StaleAfter(i) \subseteq Reg
      BY <3>1, <3>2 DEF StaleAfter, Reg, IsCopy, SetsDst
    <3>. QED BY <3>3, <3>4
  <2>2. CASE Load \/ RunExit
    BY <2>2 DEF Load, RunExit, history, Loaded
  <2>. QED BY <2>1, <2>2
<1>7. Loaded'
  BY <1>0, <1>5, <1>6 DEF Loaded
<1>. QED BY <1>1, <1>2, <1>3, <1>4, <1>7

LEMMA CommandInvariant == Spec => []CommandInv
<1>1. Init => CommandInv
  <2>. SUFFICES ASSUME Init PROVE CommandInv
    OBVIOUS
  <2>1. Listed
    BY DEF Init, Listed
  <2>2. code \in Seq(Instructions) /\ Len(code) \in Nat
    BY <2>1, ListFacts
  <2>3. Scanned
    <3>1. Rust_heads(code) \in Maps(Claims) /\ DOMAIN Rust_heads(code) \subseteq Int /\ abs_init \in Files(Claims)
      BY <2>2, ClaimFacts, HeadFacts, MapFacts DEF Rust_heads
    <3>. QED BY <2>2, <3>1 DEF Init, Scanned
  <2>4. Phased
    BY DEF Init, Phased, Phase
  <2>5. Scheduled
    BY DEF Init, Scheduled
  <2>6. Loaded
    <3>1. [r \in Reg |-> Scalar(0)] \in [Reg -> {Scalar(w) : w \in Word}]
      BY WordsExist
    <3>2. IsMachine(NotLoaded)
      BY <3>1, LoadedMachine DEF NotLoaded
    <3>. QED BY <3>2 DEF Init, Loaded
  <2>. QED BY <2>1, <2>3, <2>4, <2>5, <2>6 DEF CommandInv
<1>2. CommandInv /\ [Next]_vars => CommandInv'
  <2>. SUFFICES ASSUME CommandInv, [Next]_vars PROVE CommandInv'
    OBVIOUS
  <2>1. CASE UNCHANGED vars
    BY <2>1 DEF CommandInv, vars, Listed, Scanned, Phased, Scheduled, Schedule, Loaded, has_map_calls
  <2>. QED BY <2>1, ScanKept, CommandKept, RunKept DEF Next
<1>. QED BY <1>1, <1>2, PTL DEF Spec

(* The scan of the command, its witness, the schedules and the history of  *)
(* the run stay what they are meant to be (analyse of                      *)
(* src/analysis/stack_bounds.rs, enumerate_schedules of dataflow.rs).      *)
THEOREM TypeCorrect == Spec => []TypeOK
<1>1. CommandInv => TypeOK
  <2>. SUFFICES ASSUME CommandInv PROVE TypeOK
    OBVIOUS
  <2>1. \A r \in Reg : regs[r].kind \in {"FramePtr", "CtxPtr", "Other"}
    BY DEF CommandInv, Scanned, Files, Claims, AbsOther
  <2>2. \A l \in {todo, paths} : \A k \in DOMAIN l : l[k] \in Schedule
    BY DEF CommandInv, Scheduled
  <2>3. DOMAIN m.regs = Reg
    BY DEF CommandInv, Loaded, IsMachine, IsFile
  <2>. QED BY <2>1, <2>2, <2>3 DEF TypeOK, CommandInv, Listed, Scanned, Phased, Loaded, Schedule
<1>. QED BY <1>1, CommandInvariant, PTL

-----------------------------------------------------------------------------
(* The scan of the command beside the one that is proved about.            *)
Agreeing ==
  KeepsFramePointer =>
    LET b == stack_bounds_scan(code)[pc] IN
    b.ok /\ regs = b.regs /\ SameAhead(targets, b.targets, pc)

LEMMA ScanFacts ==
  ASSUME CommandInv, KeepsFramePointer, NEW k \in 0 .. Len(code)
  PROVE  LET b == stack_bounds_scan(code)[k] IN
         /\ b.regs \in Files(Claims) /\ b.targets \in Maps(Claims)
         /\ HasFramePointer(b.regs) /\ AllHaveFramePointer(b.targets)
<1>1. code \in Seq(Instructions)
  BY ListFacts DEF CommandInv
<1>2. stack_bounds_scan(code) \in [0 .. Len(code) -> Finds(Claims)]
  BY <1>1, StackScanUnrolled, Zenon
<1>3. stack_bounds_scan(code)[k] \in Finds(Claims)
  BY <1>2
<1>. QED BY <1>1, <1>3, FramePointerKept DEF Finds, KeepsFramePointer

LEMMA AgreementKept ==
  ASSUME CommandInv, Agreeing, ScanInsn
  PROVE  Agreeing'
<1>. DEFINE i == At(code, pc)
            o == RustStep(regs, i, pc, targets)
            b == stack_bounds_scan(code)[pc]
            c == check_insn_sb(b.regs, i, pc, b.targets)
<1>0. code' = code
  BY DEF ScanInsn
<1>1. /\ code \in Seq(Instructions) /\ Len(code) \in Nat /\ pc \in 0 .. Len(code) - 1
      /\ regs \in Files(Claims) /\ targets \in Maps(Claims) /\ pc + 1 \in 0 .. Len(code)
  BY ListFacts DEF ScanInsn, CommandInv, Scanned
<1>. SUFFICES ASSUME KeepsFramePointer
              PROVE  LET a == stack_bounds_scan(code)[pc'] IN
                     a.ok /\ regs' = a.regs /\ SameAhead(targets', a.targets, pc')
  BY <1>0 DEF Agreeing, KeepsFramePointer
<1>2. i \in Instructions /\ ~(SetsDst(i) /\ i.dst = R10)
  BY <1>1 DEF At, KeepsFramePointer
<1>3. b.ok /\ regs = b.regs /\ SameAhead(targets, b.targets, pc)
  BY DEF Agreeing
<1>4. b.targets \in Maps(Claims) /\ HasFramePointer(b.regs) /\ AllHaveFramePointer(b.targets)
  BY <1>1, ScanFacts
<1>5. o.ok = c.ok /\ o.regs = c.regs /\ SameAhead(o.targets, c.targets, pc + 1)
  <2>. HIDE DEF b, i
  <2>1. o.ok = check_insn_sb(regs, i, pc, b.targets).ok
        /\ o.regs = check_insn_sb(regs, i, pc, b.targets).regs
        /\ SameAhead(o.targets, check_insn_sb(regs, i, pc, b.targets).targets, pc + 1)
    BY <1>1, <1>2, <1>3, <1>4, RustStepAgrees
  <2>. QED BY <1>3, <2>1
<1>6. stack_bounds_scan(code)[pc + 1] = c
  <2>1. stack_bounds_scan(code)[pc + 1] = Onward(b, c)
    BY <1>1, StackScanUnrolled
  <2>. HIDE DEF b, c
  <2>. QED BY <1>3, <2>1 DEF Onward
<1>7. \/ o.ok /\ pc' = pc + 1 /\ regs' = o.regs /\ targets' = o.targets
      \/ pc' = pc /\ regs' = regs /\ targets' = targets
  BY DEF ScanInsn
<1>. HIDE DEF o, c, b
<1>8. CASE o.ok /\ pc' = pc + 1 /\ regs' = o.regs /\ targets' = o.targets
  BY <1>5, <1>6, <1>8
<1>9. CASE pc' = pc /\ regs' = regs /\ targets' = targets
  BY <1>3, <1>9 DEF b
<1>. QED BY <1>7, <1>8, <1>9

LEMMA Agreement == Spec => []Agreeing
<1>1. Init => Agreeing
  <2>. SUFFICES ASSUME Init PROVE Agreeing
    OBVIOUS
  <2>1. code \in Seq(Instructions)
    <3>1. Listed
      BY DEF Init, Listed
    <3>. QED BY <3>1, ListFacts
  <2>2. stack_bounds_scan(code)[0] = Found(TRUE, abs_init, Rust_heads(code))
    BY <2>1, StackScanUnrolled, Zenon
  <2>. QED BY <2>2 DEF Init, Agreeing, Found, SameAhead
<1>2. CommandInv /\ Agreeing /\ [Next]_vars => Agreeing'
  <2>. SUFFICES ASSUME CommandInv, Agreeing, [Next]_vars PROVE Agreeing'
    OBVIOUS
  <2>1. CASE ScanInsn
    BY <2>1, AgreementKept
  <2>2. CASE UNCHANGED <<code, pc, regs, targets>>
    BY <2>2 DEF Agreeing, KeepsFramePointer
  <2>. QED BY <2>1, <2>2 DEF Next, vars, ListPaths, TryPath, RunFstar, Load, RunInsn, RunExit
<1>. QED BY <1>1, <1>2, CommandInvariant, PTL DEF Spec

(* The witness that the Rust scan leaves (analyse of                       *)
(* src/analysis/stack_bounds.rs) carries the claims of the F* scan         *)
(* (check_insn_sb) to every instruction of every list that does not write  *)
(* r10, with loops and joins, and lets through nothing that that one does  *)
(* not.                                                                    *)
THEOREM ScansAlwaysAgree == Spec => []ScansAgree
<1>1. CommandInv /\ Agreeing => ScansAgree
  <2>. SUFFICES ASSUME CommandInv, Agreeing, KeepsFramePointer
                PROVE  LET b == stack_bounds_scan(code)[pc] IN
                       b.ok /\ regs = b.regs /\ Ahead(targets, pc) = Ahead(b.targets, pc)
    BY DEF ScansAgree
  <2>. DEFINE b == stack_bounds_scan(code)[pc]
  <2>1. b.ok /\ regs = b.regs /\ SameAhead(targets, b.targets, pc)
    BY DEF Agreeing
  <2>2. DOMAIN targets \subseteq Int /\ DOMAIN b.targets \subseteq Int
    <3>1. pc \in 0 .. Len(code) /\ targets \in Maps(Claims)
      BY DEF CommandInv, Scanned
    <3>2. b.targets \in Maps(Claims)
      BY <3>1, ScanFacts
    <3>. QED BY <3>1, <3>2, MapFacts
  <2>. HIDE DEF b
  <2>3. {p \in DOMAIN targets : p >= pc} = {p \in DOMAIN b.targets : p >= pc}
    BY <2>1, <2>2 DEF SameAhead
  <2>4. \A p \in {q \in DOMAIN targets : q >= pc} : targets[p] = b.targets[p]
    BY <2>1, <2>2 DEF SameAhead
  <2>5. Ahead(targets, pc) = Ahead(b.targets, pc)
    BY <2>3, <2>4 DEF Ahead
  <2>. QED BY <2>1, <2>5 DEF b
<1>. QED BY <1>1, CommandInvariant, Agreement, PTL

-----------------------------------------------------------------------------
(* The claims about the frame and the runs of a programme that was         *)
(* verified.                                                               *)
FrameTrue(file, claims) == \A r \in Reg : claims[r] # AbsOther => file[r] = claims[r]

(* An instruction does to the registers what the scan thinks it does.      *)
LEMMA FrameTrueAfter ==
  ASSUME NEW st, IsMachine(st), NEW c \in Files(Claims), FrameTrue(st.regs, c),
         NEW i \in Instructions, i.kind # "exit", NEW nulls, NEW found,
         NEW t \in exec_insn(st, i, nulls, found)
  PROVE  FrameTrue(t.regs, RegsAfter(c, i))
<1>. DEFINE a == RegsAfter(c, i)
            d == i.dst
<1>1. d \in Reg /\ (IsCopy(i) => i.src \in Reg)
  BY InstructionFacts
<1>2. CASE SetsDst(i)
  <2>1. SetsOnly(st, i, t)
    BY <1>2, ExecFacts
  <2>2. \A r \in Reg \ {d} : t.regs[r] = st.regs[r] /\ a[r] = c[r]
    BY <1>2, <2>1, RegsAfterFacts DEF SetsOnly
  <2>3. a[d] # AbsOther => t.regs[d] = a[d]
    <3>1. CASE IsCopy(i)
      <4>1. a[d] = c[i.src] /\ t.regs[d] = st.regs[i.src]
        BY <2>1, <3>1, RegsAfterFacts DEF SetsOnly
      <4>. QED BY <1>1, <3>1, <4>1 DEF FrameTrue
    <3>2. CASE Displaces(i) /\ c[d] # AbsOther
      <4>1. a[d] = MovedBy(c[d], i) /\ st.regs[d] = c[d]
        BY <1>1, <3>2, RegsAfterFacts DEF FrameTrue
      <4>2. c[d].kind \in {"FramePtr", "CtxPtr"}
        BY <1>1, <3>2 DEF Files, Claims
      <4>3. t.regs[d] = MovedBy(st.regs[d], i)
        BY <2>1, <3>2, <4>1, <4>2 DEF SetsOnly
      <4>. QED BY <4>1, <4>3
    <3>3. CASE ~IsCopy(i) /\ ~(Displaces(i) /\ c[d] # AbsOther)
      <4>1. a[d] = AbsOther
        BY <1>2, <3>3, RegsAfterFacts
      <4>. QED BY <4>1
    <3>. QED BY <3>1, <3>2, <3>3
  <2>. HIDE DEF a, d
  <2>. QED BY <2>2, <2>3 DEF FrameTrue, a
<1>3. CASE i.kind = "call"
  <2>1. \A r \in Reg \ {R0} : t.regs[r] = st.regs[r]
    BY <1>3, ExecFacts DEF CallsOnly
  <2>2. a = Clobbered(AbsOther, c) /\ \A r \in Reg : Clobbered(AbsOther, c)[r] = IF r <= 5 THEN AbsOther ELSE c[r]
    BY <1>3, ClaimFacts, RegsAfterFacts, ClobberedFacts
  <2>. HIDE DEF a
  <2>3. FrameTrue(t.regs, a)
    BY <2>1, <2>2 DEF FrameTrue, R0
  <2>. QED BY <2>3 DEF a
<1>4. CASE ~SetsDst(i) /\ i.kind # "call"
  <2>1. t.regs = st.regs /\ a = c
    BY <1>4, ExecFacts, RegsAfterFacts
  <2>. QED BY <2>1
<1>. QED BY <1>2, <1>3, <1>4

(* Fewer claims are true as well. *)
LEMMA FrameTrueBelow ==
  ASSUME NEW file, NEW s, FrameTrue(file, s), NEW t, Below(AbsOther, t, s)
  PROVE  FrameTrue(file, t)
  BY DEF FrameTrue, Below

RunFrame ==
  (phase = "running" /\ KeepsFramePointer /\ NoForwardJa /\ NoJumpBefore) =>
    /\ m.pc \in Nat
    /\ m.regs[R10] = FramePtr(0)
    /\ m.pc < Len(code) => FrameTrue(m.regs, FrameClaims(code, m.pc))

LEMMA VerifiedFrame ==
  ASSUME CommandInv, Agreeing, KeepsFramePointer, phase \notin {"scan", "error"}
  PROVE  StackAccepts(code)
  BY DEF CommandInv, Phased, Agreeing, StackAccepts

LEMMA FrameClaimsFacts ==
  ASSUME CommandInv, KeepsFramePointer, NEW k \in 0 .. Len(code) - 1
  PROVE  FrameClaims(code, k) \in Files(Claims) /\ HasFramePointer(FrameClaims(code, k))
<1>. DEFINE b == stack_bounds_scan(code)[k]
<1>1. k \in 0 .. Len(code)
  BY DEF CommandInv, Scanned
<1>2. /\ b.regs \in Files(Claims) /\ b.targets \in Maps(Claims)
      /\ HasFramePointer(b.regs) /\ AllHaveFramePointer(b.targets)
  BY <1>1, ScanFacts
<1>3. FrameClaims(code, k) = Merged(AbsOther, b.regs, k, b.targets)
  BY DEF FrameClaims
<1>. HIDE DEF b
<1>4. R10 \in Reg
  BY DEF R10, Reg
<1>. QED BY <1>2, <1>3, <1>4, ClaimFacts, MergedTyped DEF Merged, Join, HasFramePointer, AllHaveFramePointer

LEMMA RunFrameLoaded ==
  ASSUME CommandInv, Agreeing, Load
  PROVE  RunFrame'
<1>1. code' = code /\ phase = "passed"
  BY DEF Load
<1>2. code \in Seq(Instructions) /\ Len(code) \in Nat
  BY ListFacts DEF CommandInv
<1>3. PICK r \in Registers : m' = InitMachine(r)
  BY DEF Load, Initial
<1>4. m'.pc = 0 /\ m'.regs[1] = CtxPtr(0) /\ m'.regs[R10] = FramePtr(0)
  BY <1>3, RegistersAssumption, LoadedMachine
<1>5. FrameTrue(m'.regs, abs_init)
  BY <1>4 DEF FrameTrue, abs_init, AbsCtxPtr, AbsFramePtr, CtxPtr, FramePtr
<1>6. Below(AbsOther, FrameClaims(code, 0), abs_init)
  <2>1. stack_bounds_scan(code)[0].regs = abs_init
    <3>1. stack_bounds_scan(code)[0] = Found(TRUE, abs_init, Rust_heads(code))
      BY <1>2, StackScanUnrolled, Zenon
    <3>. QED BY <3>1 DEF Found
  <2>. QED BY <2>1, MergedBelow DEF FrameClaims
<1>. QED BY <1>1, <1>4, <1>5, <1>6, FrameTrueBelow DEF RunFrame

LEMMA RunFrameKept ==
  ASSUME CommandInv, Agreeing, RunFrame, RunInsn
  PROVE  RunFrame'
<1>. DEFINE k == m.pc
            i == At(code, k)
            c == FrameClaims(code, k)
            to == m'.pc
<1>0. code' = code /\ phase = "running" /\ phase' = phase
  BY DEF RunInsn
<1>. SUFFICES ASSUME KeepsFramePointer, NoForwardJa, NoJumpBefore
              PROVE  /\ to \in Nat
                     /\ m'.regs[R10] = FramePtr(0)
                     /\ to < Len(code) => FrameTrue(m'.regs, FrameClaims(code, to))
  BY <1>0 DEF RunFrame, KeepsFramePointer, NoForwardJa, NoJumpBefore
<1>1. code \in Seq(Instructions) /\ Len(code) \in Nat /\ StackAccepts(code)
  BY <1>0, ListFacts, VerifiedFrame DEF CommandInv
<1>2. k \in 0 .. Len(code) - 1 /\ m.regs[R10] = FramePtr(0) /\ FrameTrue(m.regs, c)
  BY <1>0, <1>1 DEF RunFrame, RunInsn, IsAt, Fetched
<1>3. IsMachine(m) /\ i \in Instructions /\ i.kind # "exit" /\ m' \in exec_insn(m, i, BOOLEAN, Unknown)
  BY <1>2, RunInsnFacts DEF CommandInv, Loaded, InsnAt, Fetched
<1>4. c \in Files(Claims) /\ HasFramePointer(c)
  BY <1>2, FrameClaimsFacts
<1>5. ~(SetsDst(i) /\ i.dst = R10) /\ ~(i.kind = "ja" /\ i.off > 0) /\ (IsJump(i) => k + 1 + i.off >= 0)
  BY <1>1, <1>2 DEF KeepsFramePointer, NoForwardJa, NoJumpBefore, At
<1>6. i.off \in Int /\ R10 \in Reg
  BY <1>3, InstructionFacts DEF R10, Reg
<1>. HIDE DEF i, c
<1>7. to = k + 1 \/ (IsJump(i) /\ to = k + 1 + i.off)
  BY <1>3, ExecFacts
<1>8. FrameTrue(m'.regs, RegsAfter(c, i))
  BY <1>2, <1>3, <1>4, FrameTrueAfter
<1>9. m'.regs[R10] = FramePtr(0)
  <2>1. i.kind = "call" => RegsAfter(c, i)[R10] = c[R10]
    BY <1>3, <1>4, <1>6, ClaimFacts, RegsAfterFacts, ClobberedFacts DEF R10
  <2>2. SetsDst(i) => R10 \in Reg \ {i.dst}
    BY <1>5, <1>6
  <2>3. RegsAfter(c, i)[R10] = c[R10]
    BY <1>3, <1>4, <2>1, <2>2, RegsAfterFacts
  <2>. QED BY <1>4, <1>6, <1>8, <2>3 DEF FrameTrue, HasFramePointer, AbsFramePtr, AbsOther, FramePtr
<1>10. to \in Nat
  BY <1>2, <1>5, <1>6, <1>7
<1>11. ASSUME to < Len(code) PROVE FrameTrue(m'.regs, FrameClaims(code, to))
  <2>0. to \in 0 .. Len(code) - 1
    BY <1>1, <1>10, <1>11
  <2>1. CASE to = k + 1
    <3>1. Below(AbsOther, FrameClaims(code, to), RegsAfter(c, i))
      BY <1>1, <1>2, <1>11, <2>1, ClaimsFall DEF c, i
    <3>. QED BY <1>8, <3>1, FrameTrueBelow
  <2>2. CASE IsJump(i) /\ to = k + 1 + i.off /\ to # k + 1
    <3>1. m'.regs = m.regs /\ RegsAfter(c, i) = c
      BY <1>3, <1>4, <2>2, ExecFacts, RegsAfterFacts DEF IsJump, SetsDst
    <3>2. CASE i.off > 0
      <4>1. IsCondJump(i) /\ to > k /\ to = target_pc(k, i)
        BY <1>2, <1>5, <1>6, <2>2, <3>2 DEF IsJump, IsCondJump, target_pc
      <4>2. Below(AbsOther, FrameClaims(code, to), c)
        BY <1>1, <1>2, <2>0, <4>1, ClaimsJumpForward DEF c, i
      <4>. QED BY <1>8, <3>1, <4>2, FrameTrueBelow
    <3>3. CASE i.off < 0
      <4>1. to \in LoopHeads(code)
        BY <1>2, <2>2, <3>3 DEF LoopHeads, target_pc, i
      <4>2. \A r \in Reg \ {R10} : FrameClaims(code, to)[r] = AbsOther
        BY <1>1, <2>0, <4>1, ClaimsAtLoopHead
      <4>3. FrameClaims(code, to)[R10] = AbsFramePtr(0)
        BY <2>0, FrameClaimsFacts DEF HasFramePointer
      <4>. QED BY <1>9, <4>2, <4>3 DEF FrameTrue, AbsFramePtr, FramePtr
    <3>. QED BY <1>2, <1>6, <2>2, <3>2, <3>3
  <2>. QED BY <1>7, <2>1, <2>2
<1>. QED BY <1>9, <1>10, <1>11

LEMMA RunFrameHolds == Spec => []RunFrame
<1>1. Init => RunFrame
  BY DEF Init, RunFrame
<1>2. CommandInv /\ Agreeing /\ RunFrame /\ [Next]_vars => RunFrame'
  <2>. SUFFICES ASSUME CommandInv, Agreeing, RunFrame, [Next]_vars PROVE RunFrame'
    OBVIOUS
  <2>1. CASE Load
    BY <2>1, RunFrameLoaded
  <2>2. CASE RunInsn
    BY <2>2, RunFrameKept
  <2>3. CASE phase' # "running"
    BY <2>3 DEF RunFrame
  <2>4. CASE UNCHANGED <<code, phase, m>>
    BY <2>4 DEF RunFrame, KeepsFramePointer, NoForwardJa, NoJumpBefore
  <2>. QED BY <2>1, <2>2, <2>3, <2>4 DEF Next, vars, ScanInsn, ListPaths, TryPath, RunFstar, RunExit
<1>. QED BY <1>1, <1>2, CommandInvariant, Agreement, PTL DEF Spec

(* Where a run stands that has not jumped out of the list to its front.    *)
LEMMA Standing ==
  ASSUME CommandInv, Running, m.pc \in Nat
  PROVE  /\ m.pc \in 0 .. Len(code) - 1 /\ Fetched(code, m.pc) = m.pc
         /\ InsnAt(code, m.pc) = At(code, m.pc)
<1>1. Len(code) \in Nat
  BY ListFacts DEF CommandInv
<1>. QED BY <1>1 DEF Running, IsAt, InsnAt, Fetched

(* What the stack bounds scan claims of a register at an instruction is    *)
(* true of every run of a verified programme that comes there              *)
(* (check_insn_sb of BPF.Check.StackBounds.fst, judged by exec_insn of     *)
(* BPF.Semantics.fst), for the programmes that FrameClaimsHold is about.   *)
THEOREM FrameClaimsAreTrue == Spec => []FrameClaimsHold
<1>1. CommandInv /\ RunFrame => FrameClaimsHold
  <2>. SUFFICES ASSUME CommandInv, RunFrame, Running, KeepsFramePointer, NoForwardJa, NoJumpBefore
                PROVE  \A r \in Reg : LET c == FrameClaims(code, Fetched(code, m.pc))[r] IN
                                      c # AbsOther => m.regs[r] = c
    BY DEF FrameClaimsHold
  <2>1. m.pc \in Nat /\ (m.pc < Len(code) => FrameTrue(m.regs, FrameClaims(code, m.pc)))
    BY DEF RunFrame, Running
  <2>2. m.pc \in 0 .. Len(code) - 1 /\ Fetched(code, m.pc) = m.pc
    BY <2>1, Standing
  <2>3. Len(code) \in Nat
    BY ListFacts DEF CommandInv
  <2>. QED BY <2>1, <2>2, <2>3 DEF FrameTrue
<1>. QED BY <1>1, CommandInvariant, RunFrameHolds, PTL

(* A verified programme never loads or stores outside of the stack through *)
(* a register that the scan knew to point to the frame (check_mem_access). *)
THEOREM ClaimedAccessesStayInside == Spec => []ClaimedAccessesInside
<1>1. CommandInv /\ Agreeing /\ RunFrame => ClaimedAccessesInside
  <2>. DEFINE i == InsnAt(code, m.pc)
              c == FrameClaims(code, Fetched(code, m.pc))
  <2>. SUFFICES ASSUME CommandInv, Agreeing, RunFrame, Accesses, KeepsFramePointer, NoForwardJa, NoJumpBefore,
                       c[BaseReg].kind = "FramePtr"
                PROVE  stack_offset_valid(m.regs[BaseReg].n + i.off, i.width)
    BY DEF ClaimedAccessesInside
  <2>1. m.pc \in Nat /\ (m.pc < Len(code) => FrameTrue(m.regs, FrameClaims(code, m.pc)))
    BY DEF RunFrame, Running, Accesses
  <2>2. /\ m.pc \in 0 .. Len(code) - 1 /\ Fetched(code, m.pc) = m.pc
        /\ i = At(code, m.pc)
    BY <2>1, Standing DEF Accesses
  <2>3. /\ code \in Seq(Instructions) /\ Len(code) \in Nat /\ StackAccepts(code)
    BY ListFacts, VerifiedFrame DEF CommandInv, Accesses, Running
  <2>4. i \in Instructions /\ c \in Files(Claims) /\ IsSafe(c, i)
    BY <2>2, <2>3, StackScanStep
  <2>5. BaseReg \in Reg /\ IsMemory(i) /\ BaseReg = Base(i)
    BY <2>4, InstructionFacts DEF Accesses, BaseReg
  <2>6. m.regs[BaseReg] = c[BaseReg]
    <3>1. FrameTrue(m.regs, c)
      BY <2>1, <2>2, <2>3
    <3>2. c[BaseReg] # AbsOther
      BY DEF AbsOther
    <3>. QED BY <2>5, <3>1, <3>2 DEF FrameTrue
  <2>. HIDE DEF c, i
  <2>7. check_mem_access(c[BaseReg], i.off, i.width)
    BY <2>4, <2>5 DEF IsSafe
  <2>. QED BY <2>6, <2>7 DEF check_mem_access, c, i
<1>. QED BY <1>1, CommandInvariant, Agreement, RunFrameHolds, PTL

-----------------------------------------------------------------------------
(* The claims about null and the runs of a programme that was verified.    *)
NullTrue(file, old, claims) ==
  \A r \in Reg \ old : is_safe_deref(claims[r]) => file[r].kind # "Null"

(* What is stale after an instruction. *)
LEMMA StaleFacts ==
  ASSUME NEW i \in Instructions
  PROVE  /\ i.kind = "call" => StaleAfter(i) = (stale \cup 1 .. 5) \ {R0}
         /\ IsCopy(i) /\ i.src \in stale => StaleAfter(i) = stale \cup {i.dst}
         /\ SetsDst(i) /\ ~(IsCopy(i) /\ i.src \in stale) => StaleAfter(i) = stale \ {i.dst}
         /\ ~SetsDst(i) /\ i.kind # "call" => StaleAfter(i) = stale
<1>1. CASE i.kind = "call"
  <2>1. ~IsCopy(i) /\ ~SetsDst(i)
    BY <1>1 DEF IsCopy, SetsDst
  <2>2. StaleAfter(i) = (stale \cup 1 .. 5) \ {R0}
    BY <1>1, <2>1, Zenon DEF StaleAfter
  <2>. QED BY <1>1, <2>1, <2>2
<1>2. CASE i.kind # "call"
  <2>1. IsCopy(i) => SetsDst(i)
    BY KindsOfInstructions
  <2>. QED BY <1>2, <2>1, Zenon DEF StaleAfter
<1>. QED BY <1>1, <1>2

(* Without a test for zero, or with its outcome told apart.                *)
LEMMA NullTrueAfter ==
  ASSUME IsMachine(m), NEW c \in Files(Status), NullTrue(m.regs, stale, c),
         NEW i \in Instructions, i.kind \notin {"exit", "jmp"}, NEW nulls, NEW found,
         NEW t \in exec_insn(m, i, nulls, found)
  PROVE  NullTrue(t.regs, StaleAfter(i), NsAfter(c, i))
<1>. DEFINE a == NsAfter(c, i)
            d == i.dst
<1>1. d \in Reg /\ (IsCopy(i) => i.src \in Reg)
  BY InstructionFacts
<1>2. CASE SetsDst(i)
  <2>1. SetsOnly(m, i, t)
    BY <1>2, ExecFacts
  <2>2. \A r \in Reg \ {d} : t.regs[r] = m.regs[r] /\ a[r] = c[r]
    BY <1>2, <2>1, NsAfterFacts DEF SetsOnly
  <2>3. \A r \in Reg \ {d} : r \notin StaleAfter(i) => r \notin stale
    BY <1>2, StaleFacts
  <2>4. d \notin StaleAfter(i) /\ is_safe_deref(a[d]) => t.regs[d].kind # "Null"
    <3>1. CASE IsCopy(i)
      <4>1. a[d] = c[i.src] /\ t.regs[d] = m.regs[i.src]
        BY <2>1, <3>1, NsAfterFacts DEF SetsOnly
      <4>2. i.src \in stale => d \in StaleAfter(i)
        BY <3>1, StaleFacts
      <4>. QED BY <1>1, <3>1, <4>1, <4>2 DEF NullTrue
    <3>2. CASE Displaces(i) /\ m.regs[d].kind \in {"FramePtr", "CtxPtr"}
      <4>1. t.regs[d] = MovedBy(m.regs[d], i)
        BY <2>1, <3>2 DEF SetsOnly
      <4>2. t.regs[d].kind = m.regs[d].kind
        BY <1>1, <4>1, MovedFacts DEF IsMachine, IsFile
      <4>. QED BY <3>2, <4>2
    <3>3. CASE ~IsCopy(i) /\ ~(Displaces(i) /\ m.regs[d].kind \in {"FramePtr", "CtxPtr"})
      <4>1. t.regs[d].kind = "Scalar"
        BY <2>1, <3>3 DEF SetsOnly
      <4>. QED BY <4>1
    <3>. QED BY <3>1, <3>2, <3>3
  <2>. HIDE DEF a, d
  <2>. QED BY <2>2, <2>3, <2>4 DEF NullTrue, a
<1>3. CASE i.kind = "call"
  <2>1. CallsOnly(m, i, t) /\ StaleAfter(i) = (stale \cup 1 .. 5) \ {R0}
    BY <1>3, ExecFacts, StaleFacts
  <2>2. /\ \A r \in Reg \ {R0} : a[r] = IF r <= 5 THEN "NotMap" ELSE c[r]
        /\ IsNullable(i.helper) => a[R0] = "Unchecked"
    BY <1>3, NsAfterFacts
  <2>. HIDE DEF a
  <2>3. is_safe_deref(a[R0]) => t.regs[R0].kind # "Null"
    BY <2>1, <2>2 DEF CallsOnly, is_safe_deref
  <2>4. ASSUME NEW r \in Reg \ {R0}, r \notin StaleAfter(i), is_safe_deref(a[r]) PROVE t.regs[r].kind # "Null"
    <3>1. r > 5 /\ r \notin stale
      BY <2>1, <2>4 DEF Reg, R0
    <3>2. a[r] = c[r] /\ t.regs[r] = m.regs[r]
      BY <2>1, <2>2, <3>1 DEF CallsOnly, Reg
    <3>. QED BY <2>4, <3>1, <3>2 DEF NullTrue
  <2>. QED BY <2>3, <2>4 DEF NullTrue, a
<1>4. CASE ~SetsDst(i) /\ i.kind # "call"
  <2>1. t.regs = m.regs /\ a = c /\ StaleAfter(i) = stale
    BY <1>4, ExecFacts, NsAfterFacts, StaleFacts
  <2>. QED BY <2>1
<1>. QED BY <1>2, <1>3, <1>4

(* A conditional jump: what is learnt is true on the way that is taken.    *)
LEMMA NullTrueBranch ==
  ASSUME IsMachine(m), NEW c \in Files(Status), NullTrue(m.regs, stale, c),
         NEW i \in Instructions, i.kind = "jmp", NEW nulls, NEW found,
         NEW t \in exec_insn(m, i, nulls, found)
  PROVE  /\ t.regs = m.regs /\ StaleAfter(i) = stale
         /\ \/ t.pc = m.pc + 1 /\ NullTrue(m.regs, stale, NsFalls(c, i))
            \/ t.pc = m.pc + 1 + i.off /\ NullTrue(m.regs, stale, NsGoes(c, i))
<1>. DEFINE d == i.dst
<1>1. /\ t.regs = m.regs /\ StaleAfter(i) = stale
      /\ t.pc = m.pc + 1 \/ t.pc = m.pc + 1 + i.off
  BY ExecFacts, StaleFacts DEF SetsDst
<1>2. d \in Reg
  BY InstructionFacts
<1>3. CASE ~IsZeroTest(c, i)
  <2>1. NsFalls(c, i) = c /\ NsGoes(c, i) = c
    BY <1>3 DEF NsFalls, NsGoes
  <2>. QED BY <1>1, <2>1
<1>4. CASE IsZeroTest(c, i)
  <2>1. i.wide /\ i.src = Imm /\ i.imm = 0 /\ i.op \in {"Jeq", "Jne"}
    BY <1>4, ZeroTestKinds
  <2>2. /\ \A r \in Reg \ {d} : NsFalls(c, i)[r] = c[r] /\ NsGoes(c, i)[r] = c[r]
        /\ NsFalls(c, i)[d] = IF i.op = "Jeq" THEN "Checked" ELSE "IsNull"
        /\ NsGoes(c, i)[d] = IF i.op = "Jeq" THEN "IsNull" ELSE "Checked"
    BY <1>2, <1>4 DEF NsFalls, NsGoes, Files
  <2>3. CASE m.regs[d].kind = "Null"
    <3>1. t.pc = IF i.op = "Jeq" THEN m.pc + 1 + i.off ELSE m.pc + 1
      BY <2>1, <2>3, NullTested
    <3>2. i.op = "Jeq" => NullTrue(m.regs, stale, NsGoes(c, i))
      BY <2>2 DEF NullTrue, is_safe_deref
    <3>3. i.op = "Jne" => NullTrue(m.regs, stale, NsFalls(c, i))
      BY <2>2 DEF NullTrue, is_safe_deref
    <3>. QED BY <1>1, <2>1, <3>1, <3>2, <3>3
  <2>4. CASE m.regs[d].kind # "Null"
    <3>1. NullTrue(m.regs, stale, NsGoes(c, i)) /\ NullTrue(m.regs, stale, NsFalls(c, i))
      BY <2>2, <2>4 DEF NullTrue
    <3>. QED BY <1>1, <3>1
  <2>. QED BY <2>3, <2>4
<1>. QED BY <1>3, <1>4

LEMMA NullTrueBelow ==
  ASSUME NEW file, NEW old, NEW s, NullTrue(file, old, s), NEW t, Below("Unchecked", t, s)
  PROVE  NullTrue(file, old, t)
  BY DEF NullTrue, Below, is_safe_deref

RunNull ==
  (phase = "running" /\ has_map_calls /\ NoLoop /\ NoForwardJa) =>
    /\ m.pc \in Nat
    /\ m.pc < Len(code) => NullTrue(m.regs, stale, NullClaims(code, m.pc))

LEMMA RunNullLoaded ==
  ASSUME CommandInv, Load
  PROVE  RunNull'
<1>1. code' = code /\ phase = "passed" /\ stale' = stale
  BY DEF Load, history
<1>2. code \in Seq(Instructions) /\ Len(code) \in Nat
  BY ListFacts DEF CommandInv
<1>3. PICK r \in Registers : m' = InitMachine(r)
  BY DEF Load, Initial
<1>4. m'.pc = 0 /\ \A q \in Reg : m'.regs[q].kind # "Null"
  BY <1>3, RegistersAssumption, LoadedMachine
<1>. QED BY <1>1, <1>4 DEF RunNull, NullTrue

LEMMA RunNullKept ==
  ASSUME CommandInv, RunNull, RunInsn
  PROVE  RunNull'
<1>. DEFINE k == m.pc
            i == At(code, k)
            c == NullClaims(code, k)
            to == m'.pc
<1>0. code' = code /\ phase = "running" /\ phase' = phase
  BY DEF RunInsn
<1>. SUFFICES ASSUME has_map_calls, NoLoop, NoForwardJa
              PROVE  /\ to \in Nat
                     /\ to < Len(code) => NullTrue(m'.regs, stale', NullClaims(code, to))
  BY <1>0 DEF RunNull, has_map_calls, NoLoop, NoForwardJa
<1>1. code \in Seq(Instructions) /\ Len(code) \in Nat /\ null_check(code)
  BY <1>0, ListFacts DEF CommandInv, Phased
<1>2. k \in 0 .. Len(code) - 1 /\ NullTrue(m.regs, stale, c)
  BY <1>0, <1>1 DEF RunNull, RunInsn, IsAt, Fetched
<1>3. IsMachine(m) /\ i \in Instructions /\ i.kind # "exit" /\ m' \in exec_insn(m, i, BOOLEAN, Unknown)
  BY <1>2, RunInsnFacts DEF CommandInv, Loaded, InsnAt, Fetched
<1>4. stale' = StaleAfter(i)
  BY <1>2 DEF RunInsn, InsnAt, Fetched
<1>5. c \in Files(Status)
  BY <1>1, <1>2, NullScanStep
<1>6. (IsJump(i) => i.off >= 0) /\ ~(i.kind = "ja" /\ i.off > 0) /\ i.off \in Int
  BY <1>1, <1>2, <1>3, InstructionFacts DEF NoLoop, NoForwardJa, At
<1>. HIDE DEF i, c
<1>7. to = k + 1 \/ (IsJump(i) /\ to = k + 1 + i.off)
  BY <1>3, ExecFacts
<1>8. to \in Nat
  BY <1>2, <1>6, <1>7
<1>9. ASSUME to < Len(code) PROVE NullTrue(m'.regs, stale', NullClaims(code, to))
  <2>0. to \in 0 .. Len(code) - 1
    BY <1>1, <1>8, <1>9
  <2>1. to = k + 1 => Below("Unchecked", NullClaims(code, to), NsAfter(c, i))
    BY <1>1, <1>2, <1>9, NullClaimsFall DEF c, i
  <2>2. CASE i.kind # "jmp"
    <3>1. to = k + 1
      BY <1>2, <1>6, <1>7, <2>2 DEF IsJump
    <3>2. NullTrue(m'.regs, stale', NsAfter(c, i))
      BY <1>2, <1>3, <1>4, <1>5, <2>2, NullTrueAfter
    <3>. QED BY <2>1, <3>1, <3>2, NullTrueBelow
  <2>3. CASE i.kind = "jmp"
    <3>1. /\ m'.regs = m.regs /\ stale' = stale
          /\ \/ to = k + 1 /\ NullTrue(m.regs, stale, NsFalls(c, i))
             \/ to = k + 1 + i.off /\ NullTrue(m.regs, stale, NsGoes(c, i))
      BY <1>2, <1>3, <1>4, <1>5, <2>3, NullTrueBranch
    <3>2. CASE to = k + 1 /\ NullTrue(m.regs, stale, NsFalls(c, i))
      <4>1. NsAfter(c, i) = NsFalls(c, i)
        BY <1>3, <1>5, <2>3, NsAfterFacts
      <4>. QED BY <2>1, <3>1, <3>2, <4>1, NullTrueBelow
    <3>3. CASE to = k + 1 + i.off /\ NullTrue(m.regs, stale, NsGoes(c, i))
      <4>1. IsCondJump(i) /\ to > k /\ to = target_pc(k, i)
        BY <1>2, <1>6, <2>3, <3>3 DEF IsJump, IsCondJump, target_pc
      <4>2. Below("Unchecked", NullClaims(code, to), NsGoes(c, i))
        BY <1>1, <1>2, <2>0, <4>1, NullClaimsJump DEF c, i
      <4>. QED BY <3>1, <3>3, <4>2, NullTrueBelow
    <3>. QED BY <3>1, <3>2, <3>3
  <2>. QED BY <2>2, <2>3
<1>. QED BY <1>8, <1>9

LEMMA RunNullHolds == Spec => []RunNull
<1>1. Init => RunNull
  BY DEF Init, RunNull
<1>2. CommandInv /\ RunNull /\ [Next]_vars => RunNull'
  <2>. SUFFICES ASSUME CommandInv, RunNull, [Next]_vars PROVE RunNull'
    OBVIOUS
  <2>1. CASE Load
    BY <2>1, RunNullLoaded
  <2>2. CASE RunInsn
    BY <2>2, RunNullKept
  <2>3. CASE phase' # "running"
    BY <2>3 DEF RunNull
  <2>4. CASE UNCHANGED <<code, phase, m, stale>>
    BY <2>4 DEF RunNull, has_map_calls, NoLoop, NoForwardJa
  <2>. QED BY <2>1, <2>2, <2>3, <2>4 DEF Next, vars, ScanInsn, ListPaths, TryPath, RunFstar, RunExit
<1>. QED BY <1>1, <1>2, CommandInvariant, PTL DEF Spec

(* No run of a verified programme loads or stores through null, whichever  *)
(* of its lookups and reservations fail (null_check of                     *)
(* BPF.Check.NullSafety.fst), for the programmes and the registers that    *)
(* CheckedNullSafety is about.                                             *)
THEOREM NullCheckIsSafe == Spec => []CheckedNullSafety
<1>1. CommandInv /\ RunNull => CheckedNullSafety
  <2>. DEFINE i == InsnAt(code, m.pc)
              c == NullClaims(code, m.pc)
  <2>. SUFFICES ASSUME CommandInv, RunNull, has_map_calls, NoLoop, NoForwardJa, Accesses, BaseReg \notin stale
                PROVE  m.regs[BaseReg].kind # "Null"
    BY DEF CheckedNullSafety
  <2>1. m.pc \in Nat /\ (m.pc < Len(code) => NullTrue(m.regs, stale, c))
    BY DEF RunNull, Running, Accesses
  <2>2. m.pc \in 0 .. Len(code) - 1 /\ i = At(code, m.pc)
    BY <2>1, Standing DEF Accesses
  <2>3. /\ code \in Seq(Instructions) /\ Len(code) \in Nat /\ null_check(code)
    BY ListFacts DEF CommandInv, Phased, Accesses, Running
  <2>4. i \in Instructions /\ (IsMemory(i) => is_safe_deref(c[Base(i)]))
    BY <2>2, <2>3, NullScanStep
  <2>5. BaseReg \in Reg /\ IsMemory(i) /\ BaseReg = Base(i)
    BY <2>4, InstructionFacts DEF Accesses, BaseReg
  <2>6. NullTrue(m.regs, stale, c)
    BY <2>1, <2>2, <2>3
  <2>. HIDE DEF c, i
  <2>. QED BY <2>4, <2>5, <2>6 DEF NullTrue
<1>. QED BY <1>1, CommandInvariant, RunNullHolds, PTL

-----------------------------------------------------------------------------
(* The types and the runs that have not jumped.                            *)
TypesTrue(file, claims) ==
  \A r \in Reg : /\ claims[r] = "TScalar"   => file[r].kind = "Scalar"
                 /\ claims[r] = "TFramePtr" => file[r].kind = "FramePtr"
                 /\ claims[r] = "TCtxPtr"   => file[r].kind = "CtxPtr"

LEMMA TypesTrueAfter ==
  ASSUME IsMachine(m), NEW c \in Files(AbsType), TypesTrue(m.regs, c),
         NEW i \in Instructions, i.kind # "exit", NEW nulls, NEW found,
         NEW t \in exec_insn(m, i, nulls, found)
  PROVE  TypesTrue(t.regs, TypesAfter(c, i))
<1>. DEFINE a == TypesAfter(c, i)
            d == i.dst
            Agree(x, v) == /\ x = "TScalar"   => v.kind = "Scalar"
                           /\ x = "TFramePtr" => v.kind = "FramePtr"
                           /\ x = "TCtxPtr"   => v.kind = "CtxPtr"
<1>1. d \in Reg /\ (IsCopy(i) => i.src \in Reg)
  BY InstructionFacts
<1>2. \A r \in Reg : Agree(c[r], m.regs[r])
  BY DEF TypesTrue
<1>3. CASE SetsDst(i)
  <2>1. SetsOnly(m, i, t)
    BY <1>3, ExecFacts
  <2>2. \A r \in Reg \ {d} : t.regs[r] = m.regs[r] /\ a[r] = c[r]
    BY <1>3, <2>1, TypesAfterFacts DEF SetsOnly
  <2>3. Agree(a[d], t.regs[d])
    <3>1. CASE IsCopy(i)
      <4>1. a[d] = c[i.src] /\ t.regs[d] = m.regs[i.src]
        BY <2>1, <3>1, TypesAfterFacts DEF SetsOnly
      <4>. QED BY <1>1, <1>2, <3>1, <4>1
    <3>2. CASE Displaces(i)
      <4>0. a[d] = c[d] /\ ~IsCopy(i)
        BY <3>2, TypesAfterFacts, KindsOfInstructions
      <4>1. CASE m.regs[d].kind \in {"FramePtr", "CtxPtr"}
        <5>1. t.regs[d] = MovedBy(m.regs[d], i)
          BY <2>1, <3>2, <4>1 DEF SetsOnly
        <5>2. t.regs[d].kind = m.regs[d].kind
          BY <1>1, <5>1, MovedFacts DEF IsMachine, IsFile
        <5>. QED BY <1>1, <1>2, <4>0, <5>2
      <4>2. CASE m.regs[d].kind \notin {"FramePtr", "CtxPtr"}
        <5>1. t.regs[d].kind = "Scalar"
          BY <2>1, <4>0, <4>2 DEF SetsOnly
        <5>. QED BY <1>1, <1>2, <4>0, <4>2, <5>1
      <4>. QED BY <4>1, <4>2
    <3>3. CASE ~IsCopy(i) /\ ~Displaces(i)
      <4>1. t.regs[d].kind = "Scalar" /\ a[d] = "TScalar"
        BY <1>3, <2>1, <3>3, TypesAfterFacts DEF SetsOnly
      <4>. QED BY <4>1
    <3>. QED BY <3>1, <3>2, <3>3
  <2>4. \A r \in Reg : Agree(a[r], t.regs[r])
    <3>. HIDE DEF a, d
    <3>. QED BY <1>2, <2>2, <2>3
  <2>. QED BY <2>4 DEF TypesTrue
<1>4. CASE i.kind = "call"
  <2>1. CallsOnly(m, i, t)
    BY <1>4, ExecFacts
  <2>2. /\ \A r \in Reg \ {R0} : a[r] = IF r <= 5 THEN "TUnknown" ELSE c[r]
        /\ a[R0] = ResultType(i.helper)
    BY <1>4, TypesAfterFacts
  <2>. HIDE DEF a
  <2>3. Agree(a[R0], t.regs[R0])
    BY <2>1, <2>2 DEF CallsOnly, ResultType
  <2>4. \A r \in Reg \ {R0} : Agree(a[r], t.regs[r])
    BY <1>2, <2>1, <2>2 DEF CallsOnly
  <2>5. \A r \in Reg : Agree(a[r], t.regs[r])
    BY <2>3, <2>4
  <2>. QED BY <2>5 DEF TypesTrue, a
<1>5. CASE ~SetsDst(i) /\ i.kind # "call"
  <2>1. t.regs = m.regs /\ a = c
    BY <1>5, ExecFacts, TypesAfterFacts
  <2>. QED BY <2>1
<1>. QED BY <1>3, <1>4, <1>5

RunTypes ==
  (phase = "running" /\ ~jumped) =>
    /\ m.pc \in Nat
    /\ m.pc <= Len(code) => TypesTrue(m.regs, TypeClaims(code)[m.pc].regs)

LEMMA RunTypesHold == Spec => []RunTypes
<1>1. Init => RunTypes
  BY DEF Init, RunTypes
<1>2. CommandInv /\ RunTypes /\ [Next]_vars => RunTypes'
  <2>. SUFFICES ASSUME CommandInv, RunTypes, [Next]_vars PROVE RunTypes'
    OBVIOUS
  <2>0. code \in Seq(Instructions) /\ Len(code) \in Nat
    BY ListFacts DEF CommandInv
  <2>1. CASE Load
    <3>1. code' = code
      BY <2>1 DEF Load
    <3>2. PICK r \in Registers : m' = InitMachine(r)
      BY <2>1 DEF Load, Initial
    <3>3. m'.pc = 0 /\ m'.regs[1] = CtxPtr(0) /\ m'.regs[R10] = FramePtr(0)
      BY <3>2, RegistersAssumption, LoadedMachine
    <3>4. TypeClaims(code)[0].regs = ts_init
      <4>1. TypeClaims(code)[0] = Found(TRUE, ts_init, <<>>)
        BY <2>0, TypeScanUnrolled, Zenon
      <4>. QED BY <4>1 DEF Found
    <3>5. TypesTrue(m'.regs, ts_init)
      BY <3>3 DEF TypesTrue, ts_init, CtxPtr, FramePtr
    <3>. QED BY <3>1, <3>3, <3>4, <3>5 DEF RunTypes
  <2>2. CASE RunInsn
    <3>. DEFINE k == m.pc
                i == At(code, k)
                c == TypeClaims(code)[k].regs
    <3>. SUFFICES ASSUME ~jumped'
                  PROVE  /\ m'.pc \in Nat
                         /\ m'.pc <= Len(code) => TypesTrue(m'.regs, TypeClaims(code)[m'.pc].regs)
      BY <2>2 DEF RunInsn, RunTypes
    <3>1. ~jumped /\ phase = "running" /\ m'.pc = k + 1
      BY <2>2 DEF RunInsn
    <3>2. k \in 0 .. Len(code) - 1 /\ TypesTrue(m.regs, c)
      BY <2>0, <2>2, <3>1 DEF RunTypes, RunInsn, IsAt, Fetched
    <3>3. IsMachine(m) /\ i \in Instructions /\ i.kind # "exit" /\ m' \in exec_insn(m, i, BOOLEAN, Unknown)
      BY <2>2, <3>2, RunInsnFacts DEF CommandInv, Loaded, InsnAt, Fetched
    <3>4. c \in Files(AbsType) /\ TypeClaims(code)[k + 1].regs = TypesAfter(c, i)
      BY <2>0, <3>1, <3>2, TypeScanStep DEF CommandInv, Phased
    <3>. HIDE DEF c, i
    <3>5. TypesTrue(m'.regs, TypesAfter(c, i))
      BY <3>2, <3>3, <3>4, TypesTrueAfter
    <3>. QED BY <3>1, <3>2, <3>4, <3>5
  <2>3. CASE phase' # "running"
    BY <2>3 DEF RunTypes
  <2>4. CASE UNCHANGED <<code, phase, m, jumped>>
    BY <2>4 DEF RunTypes
  <2>. QED BY <2>1, <2>2, <2>3, <2>4 DEF Next, vars, ScanInsn, ListPaths, TryPath, RunFstar, RunExit
<1>. QED BY <1>1, <1>2, CommandInvariant, PTL DEF Spec

(* The types that the type scan gives the registers of a verified          *)
(* programme (type_check of BPF.Check.TypeSafety.fst) are those of every   *)
(* run as long as it has not jumped.                                       *)
THEOREM TypesAreTrue == Spec => []TypeClaimsHold
<1>1. CommandInv /\ RunTypes => TypeClaimsHold
  <2>. SUFFICES ASSUME CommandInv, RunTypes, Running, ~jumped
                PROVE  TypesTrue(m.regs, TypeClaims(code)[m.pc].regs)
    BY DEF TypeClaimsHold, TypesTrue
  <2>1. m.pc \in Nat /\ (m.pc <= Len(code) => TypesTrue(m.regs, TypeClaims(code)[m.pc].regs))
    BY DEF RunTypes, Running
  <2>2. m.pc \in 0 .. Len(code) - 1 /\ Len(code) \in Nat
    BY <2>1, Standing, ListFacts DEF CommandInv
  <2>. QED BY <2>1, <2>2
<1>. QED BY <1>1, CommandInvariant, RunTypesHold, PTL

-----------------------------------------------------------------------------
(* F* was content, and the run is on one of the paths that it was asked    *)
(* about: what is proved of the paths is true of the run.                  *)
ProofHeld == phase \in {"passed", "running", "ended"} => Proved

RunOnPath == (phase = "running" /\ NoLoop /\ Unknown = {0}) => OnPath(code, Initial, m)

(* At its EXIT the run is what exec_program_path returns for a schedule    *)
(* that is proved about: the path without a null, or a later one.          *)
LEMMA PathIsProved ==
  ASSUME CommandInv, ProofHeld, RunOnPath, RunExit, NoLoop, PathsComplete, Unknown = {0}
  PROVE  Post(job.spec, m)
<1>. DEFINE n == count_nullable_helpers(code)
<1>1. /\ Len(code) \in Nat /\ DOMAIN code = 1 .. Len(code) /\ Proved
      /\ IsAt(code, m.pc) /\ InsnAt(code, m.pc).kind = "exit"
  BY ListFacts DEF RunExit, ProofHeld, CommandInv
<1>2. OnPath(code, Initial, m)
  BY DEF RunOnPath, RunExit
<1>3. PICK init \in Initial, past \in Seq(PathChoice), k \in 0 .. Len(code) : IsOnPath(code, init, past, k, m)
  BY <1>2 DEF OnPath
<1>4. m.pc \in Nat
  BY <1>2 DEF OnPath
<1>5. Len(past) <= n /\ n \in 0 .. Len(code)
  <2>1. Cardinality(DecidedBefore(code, m.pc)) \in 0 .. n /\ n \in 0 .. Len(code)
    BY <1>1, <1>4, DecidedFacts
  <2>2. Len(past) <= Cardinality(DecidedBefore(code, m.pc))
    BY <1>3 DEF IsOnPath
  <2>. HIDE DEF n
  <2>. QED BY <1>1, <2>1, <2>2
<1>6. ASSUME NEW s \in Seq(PathChoice), Extends(s, past), program_satisfies_path(code, job.spec, Initial, s)
      PROVE  Post(job.spec, m)
  <2>1. m \in exec_program_path(code, init, s)
    BY <1>1, <1>3, <1>4, <1>6, PathEnds
  <2>. QED BY <1>6, <2>1 DEF program_satisfies_path
<1>7. CASE n = 0
  <2>1. paths = <<>>
    BY <1>7 DEF PathsComplete, Schedules
  <2>2. program_satisfies_path(code, job.spec, Initial, <<>>)
    BY <1>1, <2>1 DEF Proved, program_satisfies
  <2>3. Extends(<<>>, past)
    BY <1>5, <1>7 DEF Extends
  <2>4. <<>> \in Seq(PathChoice)
    OBVIOUS
  <2>. QED BY <1>6, <2>2, <2>3, <2>4
<1>8. CASE n # 0
  <2>1. paths = enumerate_schedules(n) /\ n \in Nat
    BY <1>1, <1>5, <1>8 DEF PathsComplete, Schedules
  <2>2. 2^n \in Nat \ {0} /\ Len(paths) = 2^n
    <3>1. 2^n \in Nat \ {0}
      BY <2>1, PowerDoubles
    <3>2. DOMAIN paths = 1 .. 2^n /\ paths \in Seq(Schedule)
      BY <2>1 DEF enumerate_schedules, CommandInv, Scheduled
    <3>. HIDE DEF n
    <3>. QED BY <3>1, <3>2
  <2>3. PathsProved
    <3>1. paths # <<>>
      BY <2>2
    <3>. QED BY <1>1, <3>1 DEF Proved
  <2>4. CASE \E j \in 1 .. Len(past) : past[j] = "AsNull"
    <3>1. PICK b \in 2 .. 2^n : paths[b] \in Seq(PathChoice) /\ Extends(paths[b], past)
      BY <1>5, <2>1, <2>4, ScheduleBeginsWith
    <3>2. program_satisfies_path(code, job.spec, Initial, paths[b])
      BY <2>2, <2>3 DEF PathsProved
    <3>. QED BY <1>6, <3>1, <3>2
  <2>5. CASE \A j \in 1 .. Len(past) : past[j] # "AsNull"
    <3>1. all_nonnull \in Seq(PathChoice) /\ Len(all_nonnull) = Len(code)
          /\ \A j \in 1 .. Len(code) : all_nonnull[j] = "NonNull"
      BY <1>1 DEF all_nonnull, PathChoice
    <3>2. \A j \in 1 .. Len(past) : past[j] = "NonNull"
      BY <2>5 DEF PathChoice
    <3>3. Extends(all_nonnull, past)
      <4>. HIDE DEF n
      <4>1. Len(past) \in Nat
        OBVIOUS
      <4>. QED BY <1>1, <1>5, <3>1, <3>2, <4>1 DEF Extends
    <3>4. program_satisfies_path(code, job.spec, Initial, all_nonnull)
      BY <2>3 DEF PathsProved
    <3>. QED BY <1>6, <3>1, <3>3, <3>4
  <2>. QED BY <2>4, <2>5
<1>. QED BY <1>7, <1>8

LEMMA RunOnPathKept ==
  ASSUME CommandInv, RunOnPath, Load \/ RunInsn
  PROVE  RunOnPath'
<1>1. code' = code /\ Len(code) \in Nat /\ DOMAIN code = 1 .. Len(code)
  BY ListFacts DEF CommandInv, Load, RunInsn
<1>. SUFFICES ASSUME NoLoop, Unknown = {0} PROVE OnPath(code, Initial, m')
  BY <1>1 DEF RunOnPath, NoLoop
<1>2. CASE Load
  <2>1. m' \in Initial /\ m'.pc = 0
    BY <1>2 DEF Load, Initial, InitMachine
  <2>. QED BY <1>1, <2>1, PathBegins
<1>3. CASE RunInsn
  <2>. DEFINE i == InsnAt(code, m.pc)
  <2>1. /\ i \in Instructions /\ i.kind # "exit" /\ m' \in exec_insn(m, i, BOOLEAN, {0})
        /\ IsAt(code, m.pc) /\ Fetched(code, m.pc) \in 0 .. Len(code) - 1 /\ IsMachine(m)
        /\ phase = "running"
    BY <1>3, RunInsnFacts DEF CommandInv, Loaded
  <2>2. OnPath(code, Initial, m) /\ m.pc \in Nat
    BY <2>1 DEF RunOnPath, OnPath
  <2>3. IsJump(i) => i.off >= 0
    <3>1. Fetched(code, m.pc) + 1 \in DOMAIN code
      BY <1>1, <2>1
    <3>. QED BY <3>1 DEF NoLoop, InsnAt, At
  <2>4. i.off \in Int
    BY <2>1, InstructionFacts
  <2>5. m'.pc = m.pc + 1 \/ (IsJump(i) /\ m'.pc = m.pc + 1 + i.off)
    BY <2>1, ExecFacts
  <2>6. m'.pc \in Nat /\ m'.pc > m.pc
    <3>. HIDE DEF i
    <3>. QED BY <2>2, <2>3, <2>4, <2>5
  <2>. QED BY <1>1, <2>1, <2>2, <2>6, PathGoesOn
<1>. QED BY <1>2, <1>3

(* What `object verify` promises is true of a loop-free programme none of  *)
(* whose schedules was dropped: whichever of its lookups and reservations  *)
(* fail, and whatever its registers hold at entry, a run of it that comes  *)
(* to its EXIT has returned and written what the specification says        *)
(* (program_satisfies_path of BPF.Spec, as verify.fst states it).  The     *)
(* schedules that are proved about are all that there are, and the fuel of *)
(* exec_program_path suffices for each.                                    *)
THEOREM SpecificationsAreKept == Spec => []LoopFreeSpecHolds
<1>. DEFINE Inv == ProofHeld /\ RunOnPath /\ LoopFreeSpecHolds
<1>1. Init => Inv
  BY DEF Init, ProofHeld, RunOnPath, LoopFreeSpecHolds, SpecHolds
<1>2. CommandInv /\ Inv /\ [Next]_vars => Inv'
  <2>. SUFFICES ASSUME CommandInv, Inv, [Next]_vars PROVE Inv'
    OBVIOUS
  <2>1. CASE Load \/ RunInsn
    <3>1. /\ UNCHANGED <<job, code, steps, paths>>
          /\ phase \in {"passed", "running"} /\ phase' = "running"
      BY <2>1 DEF Load, RunInsn
    <3>2. ProofHeld'
      BY <3>1 DEF ProofHeld, Proved, IsWellFormed, WitnessValid, has_map_calls, PathsProved, all_nonnull
    <3>3. RunOnPath'
      BY <2>1, RunOnPathKept
    <3>. QED BY <3>1, <3>2, <3>3 DEF LoopFreeSpecHolds, SpecHolds
  <2>2. CASE RunExit
    <3>1. UNCHANGED <<job, code, steps, paths, m>> /\ phase = "running" /\ phase' = "ended"
      BY <2>2 DEF RunExit
    <3>2. ProofHeld'
      BY <3>1 DEF ProofHeld, Proved, IsWellFormed, WitnessValid, has_map_calls, PathsProved, all_nonnull
    <3>3. LoopFreeSpecHolds'
      <4>1. (NoLoop' <=> NoLoop) /\ (PathsComplete' <=> PathsComplete)
        BY <3>1 DEF NoLoop, PathsComplete, Schedules
      <4>2. NoLoop /\ PathsComplete /\ Unknown = {0} => Post(job.spec, m)
        BY <2>2, PathIsProved
      <4>. QED BY <3>1, <4>1, <4>2 DEF LoopFreeSpecHolds, SpecHolds
    <3>. QED BY <3>1, <3>2, <3>3 DEF RunOnPath
  <2>3. CASE RunFstar
    <3>1. /\ UNCHANGED <<job, code, steps, paths>> /\ phase' \in {"passed", "failed", "error"}
          /\ phase' = "passed" => Proved
      BY <2>3 DEF RunFstar
    <3>2. ProofHeld'
      BY <3>1 DEF ProofHeld, Proved, IsWellFormed, WitnessValid, has_map_calls, PathsProved, all_nonnull
    <3>. QED BY <3>1, <3>2 DEF RunOnPath, LoopFreeSpecHolds, SpecHolds
  <2>4. CASE ScanInsn \/ ListPaths \/ TryPath
    <3>1. phase' \in {"scan", "paths", "error"}
      BY <2>4 DEF ScanInsn, ListPaths, TryPath
    <3>. QED BY <3>1 DEF ProofHeld, RunOnPath, LoopFreeSpecHolds, SpecHolds
  <2>5. CASE UNCHANGED vars
    <3>1. UNCHANGED <<job, code, phase, steps, paths, m>>
      BY <2>5 DEF vars
    <3>2. ProofHeld'
      BY <3>1 DEF ProofHeld, Proved, IsWellFormed, WitnessValid, has_map_calls, PathsProved, all_nonnull
    <3>3. RunOnPath' /\ LoopFreeSpecHolds'
      BY <3>1 DEF RunOnPath, NoLoop, LoopFreeSpecHolds, SpecHolds, PathsComplete, Schedules
    <3>. QED BY <3>2, <3>3
  <2>. QED BY <2>1, <2>2, <2>3, <2>4, <2>5 DEF Next
<1>3. Inv => LoopFreeSpecHolds
  OBVIOUS
<1>. QED BY <1>1, <1>2, <1>3, CommandInvariant, PTL DEF Spec

-----------------------------------------------------------------------------
(* Where the slot of an index lies from that of another: as many slots as  *)
(* there are instructions between them, and one more for every LD_IMM64.   *)
LEMMA SlotDistance ==
  ASSUME code \in Seq(Instructions), NEW k \in Indices(code), NEW t \in Int
  PROVE  /\ SlotOf(k) = collapsed_to_raw(code, k) /\ SlotOf(k) \in Nat
         /\ SlotOf(t) \in Int
         /\ t > k => LET next == SlotOf(k) + Slots64(At(code, k)) IN
                     /\ SlotOf(t) >= next + (t - k - 1)
                     /\ SlotOf(t) = next + (t - k - 1) <=> Crossed(k, t) = {}
         /\ t <= k => /\ SlotOf(t) <= SlotOf(k) - (k - t)
                      /\ SlotOf(t) = SlotOf(k) - (k - t) <=> Crossed(k, t) = {}
<1>. DEFINE n == Len(code)
            c(j) == collapsed_to_raw(code, j)
            Long(j) == At(code, j).kind = "ldimm64"
<1>1. n \in Nat /\ k \in Int /\ 0 <= k /\ k < n /\ Indices(code) = 0 .. n - 1
  BY DEF Indices
<1>2. \A j \in 0 .. n : c(j) \in Nat
  BY PositionsUnrolled
<1>3. c(0) = 0
  BY PositionsUnrolled
<1>4. c(k + 1) = c(k) + Slots64(At(code, k)) /\ Slots64(At(code, k)) \in {1, 2}
  BY <1>1, PositionsUnrolled DEF At, Slots64
<1>5. \A a \in 0 .. n : \A b \in a .. n :
        /\ c(b) - c(a) >= b - a
        /\ c(b) - c(a) = b - a <=> \A j \in a .. b - 1 : ~Long(j)
  BY SlotsBetween
<1>6. Crossed(k, t) = {j \in 0 .. n - 1 : Long(j) /\ j \in k + 1 .. t - 1 \cup t .. k - 1}
  BY <1>1 DEF Crossed
<1>7. /\ t < 0 => SlotOf(t) = t
      /\ t \in 0 .. n => SlotOf(t) = c(t)
      /\ t > n => SlotOf(t) = c(n) + (t - n)
  BY <1>1 DEF SlotOf
<1>8. SlotOf(k) = c(k) /\ k \in 0 .. n
  BY <1>1 DEF SlotOf
<1>. HIDE DEF n, c, Long
<1>9. c(k) \in Nat /\ c(n) \in Nat /\ SlotOf(t) \in Int
  <2>1. n \in 0 .. n
    BY <1>1
  <2>2. c(k) \in Nat /\ c(n) \in Nat
    BY <1>2, <1>8, <2>1
  <2>3. CASE t \in 0 .. n
    BY <1>2, <1>7, <2>2, <2>3
  <2>4. CASE t < 0 \/ t > n
    BY <1>1, <1>7, <2>2, <2>4
  <2>. QED BY <1>1, <2>2, <2>3, <2>4
<1>10. ASSUME t > k
       PROVE  /\ SlotOf(t) >= c(k + 1) + (t - k - 1)
              /\ SlotOf(t) = c(k + 1) + (t - k - 1) <=> Crossed(k, t) = {}
  <2>. DEFINE u == IF t > n THEN n ELSE t
  <2>1. u \in k + 1 .. n /\ k + 1 \in 0 .. n /\ u \in 0 .. n
    BY <1>1, <1>10
  <2>2. SlotOf(t) = c(u) + (t - u)
    BY <1>1, <1>2, <1>7, <1>10
  <2>3. Crossed(k, t) = {j \in k + 1 .. u - 1 : Long(j)}
    BY <1>1, <1>6, <1>10
  <2>4. /\ c(u) - c(k + 1) >= u - (k + 1)
        /\ c(u) - c(k + 1) = u - (k + 1) <=> \A j \in k + 1 .. u - 1 : ~Long(j)
    BY <1>5, <2>1
  <2>5. Crossed(k, t) = {} <=> \A j \in k + 1 .. u - 1 : ~Long(j)
    BY <2>3
  <2>6. c(u) \in Nat /\ c(k + 1) \in Nat /\ u \in Int
    BY <1>2, <2>1
  <2>. DEFINE from == c(k + 1)
              to   == c(u)
              at   == SlotOf(t)
  <2>. HIDE DEF u, from, to, at
  <2>7. to - from >= u - (k + 1) <=> at >= from + (t - k - 1)
    <3>1. k \in Int /\ from \in Nat /\ to \in Nat /\ u \in Int /\ at = to + (t - u)
      BY <1>1, <2>2, <2>6 DEF from, to, at
    <3>. QED BY <3>1
  <2>8. to - from = u - (k + 1) <=> at = from + (t - k - 1)
    <3>1. k \in Int /\ from \in Nat /\ to \in Nat /\ u \in Int /\ at = to + (t - u)
      BY <1>1, <2>2, <2>6 DEF from, to, at
    <3>. QED BY <3>1
  <2>. USE DEF from, to, at
  <2>. QED BY <2>4, <2>5, <2>7, <2>8, Zenon
<1>11. ASSUME t <= k
       PROVE  /\ SlotOf(t) <= c(k) - (k - t)
              /\ SlotOf(t) = c(k) - (k - t) <=> Crossed(k, t) = {}
  <2>. DEFINE u == IF t < 0 THEN 0 ELSE t
  <2>1. u \in 0 .. n /\ k \in u .. n
    BY <1>1, <1>11
  <2>2. SlotOf(t) = c(u) + (t - u)
    BY <1>1, <1>2, <1>3, <1>7, <1>11
  <2>3. Crossed(k, t) = {j \in u .. k - 1 : Long(j)}
    BY <1>1, <1>6, <1>11
  <2>4. /\ c(k) - c(u) >= k - u
        /\ c(k) - c(u) = k - u <=> \A j \in u .. k - 1 : ~Long(j)
    BY <1>5, <2>1
  <2>5. Crossed(k, t) = {} <=> \A j \in u .. k - 1 : ~Long(j)
    BY <2>3
  <2>6. c(u) \in Nat /\ u \in Int
    BY <1>2, <2>1
  <2>. DEFINE from == c(k)
              to   == c(u)
              at   == SlotOf(t)
  <2>. HIDE DEF u, from, to, at
  <2>7. from - to >= k - u <=> at <= from - (k - t)
    <3>1. k \in Int /\ from \in Nat /\ to \in Nat /\ u \in Int /\ at = to + (t - u)
      BY <1>1, <1>9, <2>2, <2>6 DEF from, to, at
    <3>. QED BY <3>1
  <2>8. from - to = k - u <=> at = from - (k - t)
    <3>1. k \in Int /\ from \in Nat /\ to \in Nat /\ u \in Int /\ at = to + (t - u)
      BY <1>1, <1>9, <2>2, <2>6 DEF from, to, at
    <3>. QED BY <3>1
  <2>. USE DEF from, to, at
  <2>. QED BY <2>4, <2>5, <2>7, <2>8, Zenon
<1>. QED BY <1>4, <1>8, <1>9, <1>10, <1>11 DEF c

Slot == SlotOf(m.pc)

RunPhase == CASE phase = "running" -> "yes" [] phase = "ended" -> "ended" [] OTHER -> "waits"

RunSlots ==
  /\ CommandInv
  /\ phase \notin {"running", "ended"} => m.pc = 0
  /\ phase \in {"passed", "running", "ended"} => IsWellFormed

(* What SlotRun takes from Layout is what the list is made with. *)
LEMMA SameLayout ==
  /\ \A c, k : R!At(c, k) = At(c, k)
  /\ \A i : R!Slots64(i) = Slots64(i)
  BY DEF R!At, At, R!Slots64, Slots64

(* Where a run that stands on an instruction stands in the section. *)
LEMMA SlotFacts ==
  ASSUME RunSlots, Decodes(job.raw), IsAt(code, m.pc), m.pc >= 0, phase = "running"
  PROVE  /\ m.pc \in Indices(code) /\ InsnAt(code, m.pc) = At(code, m.pc)
         /\ At(code, m.pc) \in Instructions
         /\ Slot = collapsed_to_raw(code, m.pc) /\ Slot \in Nat
         /\ At(job.raw, Slot).kind = At(code, m.pc).kind
         /\ At(job.raw, Slot).off = At(code, m.pc).off
         /\ R!IsInsn(job.raw, Slot)
<1>1. code \in Seq(Instructions) /\ Len(code) \in Nat /\ job.raw \in Seq(Instructions) /\ code = decode(job.raw)
  BY ListFacts, JobsAssumption DEF RunSlots, CommandInv, Listed
<1>2. m.pc \in Indices(code) /\ InsnAt(code, m.pc) = At(code, m.pc)
  BY <1>1 DEF RunSlots, CommandInv, Loaded, IsMachine, IsAt, InsnAt, Fetched, Indices
<1>3. At(code, m.pc) \in Instructions /\ m.pc + 1 \in DOMAIN code
  BY <1>1, <1>2 DEF At, Indices
<1>4. Slot = collapsed_to_raw(code, m.pc) /\ Slot \in Nat
  <2>1. m.pc \in Int
    BY <1>2 DEF Indices
  <2>. QED BY <1>1, <1>2, <2>1, SlotDistance DEF Slot
<1>5. IsSlotOf(job.raw, code, m.pc)
  BY <1>1, <1>2, EveryInsnHasItsSlot
<1>6. /\ At(job.raw, Slot).kind = At(code, m.pc).kind
      /\ At(job.raw, Slot).off = At(code, m.pc).off
      /\ Slot \in 0 .. Len(job.raw) - 1
  BY <1>4, <1>5 DEF IsSlotOf, Alike, Indices
<1>7. At(code, m.pc).kind \notin {"unknown", "undecodable"}
  BY <1>3 DEF RunSlots, IsWellFormed, At
<1>8. R!IsInsn(job.raw, Slot)
  <2>1. R!At(job.raw, Slot).kind \notin {"unknown", "undecodable"}
    BY <1>6, <1>7, SameLayout
  <2>. QED BY <1>6, <2>1 DEF R!IsInsn
<1>. QED BY <1>2, <1>3, <1>4, <1>6, <1>8

(* Before the list there is no slot. *)
LEMMA BeforeTheList ==
  ASSUME m.pc \in Int, m.pc < 0
  PROVE  ~R!IsInsn(job.raw, Slot)
  BY DEF R!IsInsn, Slot, SlotOf

(* One instruction of the run by indices is one by slots, unless it passes *)
(* over an LD_IMM64: then it is none.                                      *)
LEMMA SlotAfter ==
  ASSUME RunSlots, Decodes(job.raw), RunInsn, m.pc >= 0
  PROVE  SlotOf(m'.pc) \in R!Follows(job.raw, Slot) <=> Crossed(m.pc, m'.pc) = {}
<1>. DEFINE i == At(code, m.pc)
            t == m'.pc
<1>1. code \in Seq(Instructions)
  BY ListFacts DEF RunSlots, CommandInv
<1>2. phase = "running" /\ IsAt(code, m.pc)
  BY DEF RunInsn
<1>3. /\ m.pc \in Indices(code) /\ InsnAt(code, m.pc) = i /\ i \in Instructions
      /\ At(job.raw, Slot).kind = i.kind /\ At(job.raw, Slot).off = i.off
  BY <1>2, SlotFacts
<1>4. i.kind # "exit" /\ m' \in exec_insn(m, i, BOOLEAN, Unknown) /\ IsMachine(m)
  BY <1>3 DEF RunInsn, RunSlots, CommandInv, Loaded
<1>5. /\ t = m.pc + 1 \/ (IsJump(i) /\ t = m.pc + 1 + i.off)
      /\ i.kind = "ja" => t = m.pc + 1 + i.off
  BY <1>3, <1>4, ExecFacts
<1>6. i.off \in Int /\ m.pc \in Int
  BY <1>3, <1>4, InstructionFacts DEF IsMachine
<1>7. t \in Int
  BY <1>5, <1>6
<1>8. /\ Slot \in Nat /\ SlotOf(t) \in Int
      /\ t > m.pc => LET next == Slot + Slots64(i) IN
                     /\ SlotOf(t) >= next + (t - m.pc - 1)
                     /\ SlotOf(t) = next + (t - m.pc - 1) <=> Crossed(m.pc, t) = {}
      /\ t <= m.pc => /\ SlotOf(t) <= Slot - (m.pc - t)
                      /\ SlotOf(t) = Slot - (m.pc - t) <=> Crossed(m.pc, t) = {}
  <2>. HIDE DEF t
  <2>. QED BY <1>1, <1>3, <1>7, SlotDistance DEF Slot
<1>9. Crossed(m.pc, m.pc + 1) = {}
  BY <1>6 DEF Crossed, Indices
<1>. DEFINE j == At(job.raw, Slot)
            crosses == Crossed(m.pc, t) # {}
<1>10. j.kind = i.kind /\ j.off = i.off /\ R!Slots64(j) = Slots64(i) /\ R!At(job.raw, Slot) = j
  BY <1>3, SameLayout DEF Slots64
<1>11. t = m.pc + 1 => ~crosses
  BY <1>9
<1>. HIDE DEF i, j, t, crosses
<1>12. CASE i.kind \in {"ja", "jmp"}
  <2>1. Slots64(i) = 1
    BY <1>12 DEF Slots64
  <2>2. t = m.pc + 1 + i.off => (SlotOf(t) = Slot + 1 + i.off <=> ~crosses)
    BY <1>6, <1>7, <1>8, <2>1 DEF crosses
  <2>3. t = m.pc + 1 => SlotOf(t) = Slot + 1
    BY <1>6, <1>7, <1>8, <1>11, <2>1 DEF crosses
  <2>4. t = m.pc + 1 + i.off /\ SlotOf(t) = Slot + 1 => ~crosses
    <3>1. CASE i.off >= 0
      BY <1>6, <1>7, <1>8, <2>1, <3>1 DEF crosses
    <3>2. CASE i.off < 0
      BY <1>6, <1>7, <1>8, <2>1, <3>2 DEF crosses
    <3>. QED BY <1>6, <3>1, <3>2
  <2>5. CASE i.kind = "ja"
    <3>1. R!Follows(job.raw, Slot) = {Slot + 1 + i.off}
      BY <1>10, <2>5 DEF R!Follows
    <3>2. t = m.pc + 1 + i.off
      BY <1>5, <2>5
    <3>. QED BY <2>2, <3>1, <3>2 DEF crosses, t
  <2>6. CASE i.kind = "jmp"
    <3>1. R!Follows(job.raw, Slot) = {Slot + 1, Slot + 1 + i.off}
      BY <1>10, <2>6 DEF R!Follows
    <3>2. t = m.pc + 1 \/ t = m.pc + 1 + i.off
      BY <1>5
    <3>. QED BY <1>11, <2>2, <2>3, <2>4, <3>1, <3>2 DEF crosses, t
  <2>. QED BY <1>12, <2>5, <2>6
<1>13. CASE i.kind \notin {"ja", "jmp"}
  <2>1. t = m.pc + 1 /\ ~crosses
    BY <1>5, <1>11, <1>13 DEF IsJump
  <2>2. SlotOf(t) = Slot + Slots64(i)
    <3>1. Slots64(i) \in Nat /\ t > m.pc /\ t - m.pc - 1 = 0
      BY <1>6, <2>1 DEF Slots64
    <3>2. SlotOf(t) = Slot + Slots64(i) + (t - m.pc - 1)
      BY <1>8, <2>1, <3>1 DEF crosses
    <3>. QED BY <1>8, <3>1, <3>2
  <2>3. R!Follows(job.raw, Slot) = {Slot + Slots64(i)}
    BY <1>10, <1>13 DEF R!Follows
  <2>. QED BY <2>1, <2>2, <2>3 DEF crosses, t
<1>. QED BY <1>12, <1>13

LEMMA RunSlotsKept ==
  ASSUME RunSlots, CommandInv', [Next]_vars
  PROVE  RunSlots'
<1>1. job' = job /\ code' = code
  BY DEF Next, vars, ScanInsn, ListPaths, TryPath, RunFstar, Load, RunInsn, RunExit
<1>2. IsWellFormed' <=> IsWellFormed
  BY <1>1 DEF IsWellFormed
<1>3. CASE Load
  BY <1>2, <1>3 DEF Load, RunSlots
<1>4. CASE RunInsn
  BY <1>2, <1>4 DEF RunInsn, RunSlots
<1>5. CASE RunFstar
  <2>1. m' = m /\ phase = "paths" /\ phase' \in {"passed", "failed", "error"} /\ (phase' = "passed" => IsWellFormed)
    BY <1>5 DEF RunFstar, Proved
  <2>. QED BY <1>1, <1>2, <2>1 DEF RunSlots
<1>6. CASE ScanInsn \/ ListPaths \/ TryPath
  <2>1. m' = m /\ phase' \in {"scan", "error", "paths"} /\ phase \in {"scan", "paths"}
    BY <1>6 DEF ScanInsn, ListPaths, TryPath
  <2>. QED BY <1>1, <2>1 DEF RunSlots
<1>7. CASE RunExit
  <2>1. m' = m /\ phase = "running" /\ phase' = "ended"
    BY <1>7 DEF RunExit
  <2>. QED BY <1>1, <1>2, <2>1 DEF RunSlots
<1>8. CASE UNCHANGED vars
  BY <1>1, <1>2, <1>8 DEF RunSlots, vars
<1>. QED BY <1>3, <1>4, <1>5, <1>6, <1>7, <1>8 DEF Next

LEMMA SlotRunStarts ==
  ASSUME CommandInv, Init
  PROVE  RunSlots /\ R!SlotInit
<1>1. m.pc = 0 /\ phase = "scan"
  BY DEF Init, NotLoaded, InitMachine
<1>2. SlotOf(0) = 0
  BY ListFacts, PositionsUnrolled DEF SlotOf, CommandInv
<1>. QED BY <1>1, <1>2 DEF RunSlots, R!SlotInit

(* What each step of the run is by slots. *)
LEMMA SlotRunSteps ==
  ASSUME RunSlots, [Next]_vars, Decodes(job.raw), phase = "running", ~UNCHANGED vars
  PROVE  R!SlotNext <=> ~Strays
<1>. DEFINE begin == RunPhase = "waits" /\ RunPhase' = "yes" /\ UNCHANGED <<job.raw, Slot>>
            insn  == /\ RunPhase = "yes"
                     /\ R!IsInsn(job.raw, Slot)
                     /\ R!At(job.raw, Slot).kind # "exit"
                     /\ Slot' \in R!Follows(job.raw, Slot)
                     /\ UNCHANGED <<job.raw, RunPhase>>
            exit  == /\ RunPhase = "yes"
                     /\ R!IsInsn(job.raw, Slot)
                     /\ R!At(job.raw, Slot).kind = "exit"
                     /\ RunPhase' = "ended"
                     /\ UNCHANGED <<job.raw, Slot>>
<1>1. R!SlotNext <=> begin \/ insn \/ exit
  BY DEF R!SlotNext, R!SlotBegin, R!SlotStep, R!SlotEnd, RunPhase, Slot
<1>2. RunPhase = "yes" /\ m.pc \in Int
  BY DEF RunPhase, RunSlots, CommandInv, Loaded, IsMachine
<1>3. CASE RunInsn
  <2>1. /\ RunPhase' = "yes" /\ job.raw' = job.raw /\ code' = code /\ IsAt(code, m.pc)
        /\ InsnAt(code, m.pc).kind # "exit"
    BY <1>3 DEF RunInsn, RunPhase
  <2>2. Slot' = SlotOf(m'.pc)
    BY <2>1 DEF Slot, SlotOf
  <2>3. ASSUME m.pc >= 0
        PROVE  insn <=> Crossed(m.pc, m'.pc) = {}
    <3>1. R!IsInsn(job.raw, Slot) /\ R!At(job.raw, Slot).kind # "exit"
      BY <2>1, <2>3, SlotFacts, SameLayout
    <3>2. SlotOf(m'.pc) \in R!Follows(job.raw, Slot) <=> Crossed(m.pc, m'.pc) = {}
      BY <1>3, <2>3, SlotAfter
    <3>. QED BY <1>2, <2>1, <2>2, <3>1, <3>2
  <2>4. m.pc < 0 => ~insn
    BY <1>2, BeforeTheList
  <2>5. ~begin /\ ~exit
    BY <1>2, <2>1
  <2>. HIDE DEF begin, insn, exit
  <2>6. m.pc < 0 <=> ~(m.pc >= 0)
    BY <1>2
  <2>. QED BY <1>1, <2>3, <2>4, <2>5, <2>6 DEF Strays
<1>4. CASE RunExit
  <2>1. /\ RunPhase' = "ended" /\ job.raw' = job.raw /\ code' = code /\ m' = m
        /\ IsAt(code, m.pc) /\ InsnAt(code, m.pc).kind = "exit"
    BY <1>4 DEF RunExit, RunPhase
  <2>2. Slot' = Slot
    BY <2>1 DEF Slot, SlotOf
  <2>3. Crossed(m.pc, m'.pc) = {}
    BY <1>2, <2>1 DEF Crossed
  <2>4. m.pc >= 0 => exit
    BY <1>2, <2>1, <2>2, SlotFacts, SameLayout
  <2>5. m.pc < 0 => ~exit
    BY <1>2, BeforeTheList
  <2>6. ~begin /\ ~insn
    BY <1>2, <2>1
  <2>. HIDE DEF begin, insn, exit
  <2>7. m.pc < 0 <=> ~(m.pc >= 0)
    BY <1>2
  <2>. QED BY <1>1, <2>3, <2>4, <2>5, <2>6, <2>7 DEF Strays
<1>. QED BY <1>3, <1>4 DEF Next, ScanInsn, ListPaths, TryPath, RunFstar, Load

LEMMA SlotRunWaits ==
  ASSUME RunSlots, [Next]_vars, phase # "running"
  PROVE  [R!SlotBegin]_(R!slot_vars)
<1>1. /\ R!slot_vars = <<job.raw, Slot, RunPhase>>
      /\ R!slot_vars' = <<job.raw, Slot, RunPhase>>'
  BY DEF R!slot_vars, Slot, RunPhase
<1>2. R!SlotBegin <=> RunPhase = "waits" /\ RunPhase' = "yes" /\ UNCHANGED <<job.raw, Slot>>
  BY DEF R!SlotBegin, Slot, RunPhase
<1>3. job' = job /\ code' = code
  BY DEF Next, vars, ScanInsn, ListPaths, TryPath, RunFstar, Load, RunInsn, RunExit
<1>4. Slot' = SlotOf(m'.pc)
  BY <1>3 DEF Slot, SlotOf
<1>5. m'.pc = m.pc => UNCHANGED <<job.raw, Slot>>
  BY <1>3, <1>4 DEF Slot
<1>6. CASE Load
  <2>1. m'.pc = m.pc
    BY <1>6 DEF Load, Initial, InitMachine, RunSlots
  <2>2. RunPhase = "waits" /\ RunPhase' = "yes"
    BY <1>6 DEF Load, RunPhase
  <2>. QED BY <1>2, <1>5, <2>1, <2>2
<1>7. CASE ScanInsn \/ ListPaths \/ TryPath \/ RunFstar \/ UNCHANGED vars
  <2>1. m' = m
    BY <1>7 DEF ScanInsn, ListPaths, TryPath, RunFstar, vars
  <2>2. RunPhase' = RunPhase
    <3>1. CASE UNCHANGED vars
      BY <3>1 DEF vars, RunPhase
    <3>2. CASE ScanInsn \/ ListPaths \/ TryPath \/ RunFstar
      <4>1. phase \in {"scan", "paths"} /\ phase' \in {"scan", "paths", "error", "passed", "failed"}
        BY <3>2 DEF ScanInsn, ListPaths, TryPath, RunFstar
      <4>. QED BY <4>1 DEF RunPhase
    <3>. QED BY <1>7, <3>1, <3>2
  <2>. HIDE DEF RunPhase, Slot
  <2>3. <<job.raw, Slot, RunPhase>>' = <<job.raw, Slot, RunPhase>>
    BY <1>5, <2>1, <2>2
  <2>. QED BY <1>1, <2>3
<1>8. ~RunInsn /\ ~RunExit
  BY DEF RunInsn, RunExit
<1>. QED BY <1>6, <1>7, <1>8 DEF Next

(* RunsTheProgramme: every run of a verified programme, seen by the slots  *)
(* that build_pc_map gives its indices, begins at slot 0 and is a run of   *)
(* the section that the loader puts into the kernel, instruction for       *)
(* instruction and to the same EXIT, for every section that decodes in     *)
(* full: but where a jump passes over an LD_IMM64, or the run stands       *)
(* before the list, it takes a step that the section does not have.        *)
THEOREM ObjectRunsTheProgramme == Spec => RunsTheProgramme
<1>1. Init /\ CommandInv => RunSlots /\ R!SlotInit
  BY SlotRunStarts
<1>2. RunSlots /\ CommandInv' /\ [Next]_vars => RunSlots'
  BY RunSlotsKept
<1>. DEFINE Stepped == Decodes(job.raw) => IF phase = "running" THEN R!SlotNext <=> ~Strays
                                                                ELSE [R!SlotBegin]_(R!slot_vars)
<1>3. RunSlots /\ [Next]_vars => [Stepped]_vars
  BY SlotRunSteps, SlotRunWaits
<1>. QED BY <1>1, <1>2, <1>3, CommandInvariant, PTL DEF Spec, RunsTheProgramme
=============================================================================
