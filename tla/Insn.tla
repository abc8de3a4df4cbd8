-------------------------------- MODULE Insn --------------------------------
(***************************************************************************)
(* What one instruction makes of a whole verifier state: the arms of the   *)
(* match on the opcode in check_with_relocs, with check_reg_readable,      *)
(* check_exit and refine_branch.  A state is the pair (regs, stack).       *)
(***************************************************************************)
EXTENDS Alu, Branch, Call, Code

entry == [regs  |-> [r \in Reg |-> CASE r = 1   -> ctx_ptr(0)
                                     [] r = R10 -> frame_ptr(0)
                                     [] OTHER   -> uninit],
          stack |-> new_stack]

state_widen(s, t) ==
  [regs  |-> [r \in Reg |-> widen(s.regs[r], t.regs[r])],
   stack |-> stack_widen(s.stack, t.stack)]

state_leq(s, t) ==
  /\ \A r \in Reg : is_substate_of(s.regs[r], t.regs[r])
  /\ stack_is_substate_of(s.stack, t.stack)

-----------------------------------------------------------------------------
check_reg_readable(regs, r) ==
  IF r = R10 \/ is_readable(regs[r]) THEN {} ELSE {"UninitRegRead"}

(* Null and PtrOrNull may be returned. *)
check_exit(regs) ==
  CASE ~is_readable(regs[R0])  -> {"UninitReturn"}
    [] is_ptr(regs[R0].type)   -> {"PtrLeak"}
    [] OTHER                   -> {}

(* The immediate, sign-extended or cut to the low half. *)
ImmWord(i)  == IF i.wide THEN Wrap(i.imm) ELSE Low(Wrap(i.imm))
SrcReg(regs, i) == IF i.src = Imm THEN scalar_value(ImmWord(i)) ELSE regs[i.src]

(* Registers read by an instruction before anything else is looked at. *)
Reads(i) ==
  LET source == IF i.src = Imm THEN {} ELSE {i.src} IN
  CASE i.kind = "alu" -> source \cup (IF i.op = "Mov" THEN {} ELSE {i.dst})
    [] i.kind \in {"jmp", "stx"} -> source \cup {i.dst}
    [] i.kind = "ldx" -> source
    [] i.kind = "st"  -> {i.dst}
    [] OTHER          -> {}

ReadErrors(regs, i) == UNION {check_reg_readable(regs, r) : r \in Reads(i)}

-----------------------------------------------------------------------------
(* Mutant of Refined: the id is not looked at. *)
RefinedAll(f, id, type) ==
  [x \in DOMAIN f |->
     IF f[x].type.kind = "PtrOrNull"
       THEN IF type = Null THEN null ELSE [f[x] EXCEPT !.type = type]
       ELSE f[x]]

(* refine_all_with_id and refine_spills_with_id: everything that holds the *)
(* nullable pointer id becomes null, or the pointer of the given type.     *)
Refined(f, id, type) ==
  [x \in DOMAIN f |->
     IF f[x].type.kind = "PtrOrNull" /\ f[x].type.id = id
       THEN IF type = Null THEN null ELSE [f[x] EXCEPT !.type = type]
       ELSE f[x]]

WithId(st, id, type) ==
  [regs  |-> Refined(st.regs, id, type),
   stack |-> [st.stack EXCEPT !.spills = Refined(@, id, type)]]

(* refine_branch.  A nullable pointer is refined when it is compared with  *)
(* a known 0, and by nothing else; a scalar by any known value.            *)
BranchStates(st, i) ==
  LET d   == st.regs[i.dst]
      cmp == SrcReg(st.regs, i).tnum
      In(r) == [st EXCEPT !.regs[i.dst] = r]
      Same  == [taken |-> st, fall |-> st]
  IN CASE ~is_known(cmp) -> Same
       [] is_known(cmp) /\ d.type.kind = "PtrOrNull" /\ cmp.value = 0 ->
            LET valid == WithId(st, d.type.id, d.type.inner)
                none  == WithId(st, d.type.id, Null)
            IN CASE i.op = "Jeq" -> [taken |-> none, fall |-> valid]
                 [] i.op = "Jne" -> [taken |-> valid, fall |-> none]
                 [] OTHER        -> Same
       [] is_known(cmp) /\ IsScalar(d) ->
            [taken |-> In(RefineTaken(d, i.op, ~i.wide, cmp.value)),
             fall  |-> In(RefineFall(d, i.op, ~i.wide, cmp.value))]
       [] OTHER -> Same

(* LD_IMM64: a map is a number, a data section a pointer without bounds, a *)
(* field offset taken for a kernel pointer.                                *)
LoadedImm64(i) ==
  CASE i.reloc = "none" -> scalar_value(Wrap(i.imm))
    [] i.reloc = "map"  -> scalar_unknown
    [] i.reloc = "core" -> kernel_ptr
    [] i.reloc = "data" -> RegOf(DataPtr("section"))

-----------------------------------------------------------------------------
(* The effect of an instruction: its errors, the state it falls through    *)
(* with, the state it jumps with, and the ids it draws.                    *)
Effect(err, fall, taken, ids) == [err |-> err, fall |-> fall, taken |-> taken, ids |-> ids]
Fails(st, err) == Effect(err, st, st, 0)
Leads(st)      == Effect({}, st, st, 0)

Execute(i, st, next_id) ==
  IF ReadErrors(st.regs, i) # {} THEN Fails(st, ReadErrors(st.regs, i))
  ELSE CASE i.kind = "alu" ->
              LET out == check_alu(i.op, i.wide, st.regs[i.dst], SrcReg(st.regs, i))
              IN  Effect(out.err, [st EXCEPT !.regs[i.dst] = out.reg], st, 0)
         [] i.kind = "ldimm64" -> Leads([st EXCEPT !.regs[i.dst] = LoadedImm64(i)])
         [] i.kind = "jmp" ->
              LET out == BranchStates(st, i) IN Effect({}, out.fall, out.taken, 0)
         [] i.kind = "ldx" ->
              LET out == check_load(st.regs, st.stack, i.dst, i.src, i.off, i.width)
              IN  Effect(out.err, [st EXCEPT !.regs = out.regs], st, 0)
         [] i.kind \in {"stx", "st"} ->
              LET out == check_store(st.regs, st.stack, i.dst, SrcReg(st.regs, i),
                                     i.kind = "st", i.off, i.width)
              IN  Effect(out.err, [st EXCEPT !.stack = out.stack], st, 0)
         [] i.kind = "call" ->
              LET out == check_call(st.regs, st.stack, i.helper, next_id)
              IN  Effect(out.err, [regs |-> out.regs, stack |-> out.stack], st, out.ids)
         [] i.kind = "ja"   -> Leads(st)
         [] i.kind = "exit" -> Fails(st, check_exit(st.regs))
         [] OTHER           -> Fails(st, {"UnknownOpcode"})
==============================================================================
