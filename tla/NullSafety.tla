------------------------------ MODULE NullSafety ------------------------------
(***************************************************************************)
(* The null safety scan of fstar/obj/BPF.Check.NullSafety.fst: which       *)
(* registers hold a pointer that may be null, is null, or was checked.     *)
(***************************************************************************)
EXTENDS Machine, Scans

Status == {"Checked", "Unchecked", "IsNull", "NotMap"}

ns_init == [r \in Reg |-> "NotMap"]

is_safe_deref(status) == status \in {"Checked", "NotMap"}

IsZeroTest(s, i) ==
  i.kind = "jmp" /\ i.wide /\ i.src = Imm /\ i.imm = 0 /\ i.op \in {"Jeq", "Jne"}
  /\ s[i.dst] = "Unchecked"

(* Mutant of NsFalls: a test for zero is taken for one for another value. *)
NsFallsEither(s, i) == IF IsZeroTest(s, i) THEN [s EXCEPT ![i.dst] = "Checked"] ELSE s

(* What a conditional jump that does not go, and one that goes, learns. *)
NsFalls(s, i) ==
  IF IsZeroTest(s, i)
    THEN [s EXCEPT ![i.dst] = IF i.op = "Jeq" THEN "Checked" ELSE "IsNull"] ELSE s
NsGoes(s, i) ==
  IF IsZeroTest(s, i)
    THEN [s EXCEPT ![i.dst] = IF i.op = "Jeq" THEN "IsNull" ELSE "Checked"] ELSE s

NsAfter(s, i) ==
  LET Now(c) == [s EXCEPT ![i.dst] = c] IN
  CASE IsCopy(i) -> Now(s[i.src])
    [] SetsDst(i) /\ ~IsCopy(i) -> Now("NotMap")
    [] i.kind = "jmp"  -> NsFalls(s, i)
    [] i.kind = "call" -> [Clobbered("NotMap", s) EXCEPT
                             ![R0] = IF IsNullable(i.helper) THEN "Unchecked" ELSE "NotMap"]
    [] OTHER -> s

check_insn_ns(s, i, pc, targets) ==
  LET m == Merged("Unchecked", s, pc, targets)
      t == Cleared(targets, pc)
  IN Found(IsMemory(i) => is_safe_deref(m[Base(i)]), NsAfter(m, i),
           IF IsCondJump(i) THEN add_target("Unchecked", t, target_pc(pc, i), NsGoes(m, i)) ELSE t)

(* Loop heads start with the claims of the entry, not with no claims. *)
null_safety_scan(code) ==
  LET s[k \in 0 .. Len(code)] ==
        IF k = 0 THEN Found(TRUE, ns_init, init_loop_targets("NotMap", code, ns_init))
        ELSE LET b == s[k - 1] IN Onward(b, check_insn_ns(b.regs, At(code, k - 1), k - 1, b.targets))
  IN s

null_check(code) == null_safety_scan(code)[Len(code)].ok

(* What the scan claims when it judges the instruction at pc. *)
NullClaims(code, pc) ==
  LET b == null_safety_scan(code)[pc] IN Merged("Unchecked", b.regs, pc, b.targets)
=============================================================================
