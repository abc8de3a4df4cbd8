------------------------------ MODULE Dataflow ------------------------------
(***************************************************************************)
(* The path analysis of src/analysis/dataflow.rs: it lists the ways in     *)
(* which the nullable helper calls of a programme may turn out, follows    *)
(* the programme once for each, and keeps those that come to an EXIT.      *)
(* The value returned and the writes to ring buffers, which are collected  *)
(* and not used for a proof, are left out.                                 *)
(***************************************************************************)
EXTENDS Word, Code, Helpers, FiniteSets

(* AbsValue *)
Abs(kind, n) == [kind |-> kind, n |-> n]
Concrete(w)  == Abs("Concrete", w)
Symbolic     == Abs("Symbolic", 0)

PathChoice == {"NonNull", "AsNull"}

count_nullable_helpers(code) ==
  Cardinality({k \in DOMAIN code : code[k].kind = "call" /\ returns_nullable_ptr(code[k].helper)})

(* One bit per call; the first schedule is the one without a null. *)
enumerate_schedules(count) ==
  [b \in 1 .. 2^count |->
     [i \in 1 .. count |-> IF ((b - 1) \div 2^(i - 1)) % 2 = 0 THEN "NonNull" ELSE "AsNull"]]

-----------------------------------------------------------------------------
PathInit(schedule) ==
  [regs |-> [r \in Reg |-> CASE r = 1   -> Abs("CtxPtr", 0)
                             [] r = R10 -> Abs("FramePtr", 0)
                             [] OTHER   -> Symbolic],
   pc |-> 0, next_ptr_id |-> 0, schedule |-> schedule]

(* Concrete + imm and - imm wrap; a 32-bit move is not cut. *)
transfer_abstract(p, i) ==
  LET d     == p.regs[i.dst]
      moved == IF i.op = "Add" THEN d.n + i.imm ELSE d.n - i.imm
      value == CASE IsCopy(i) -> p.regs[i.src]
                 [] i.kind = "alu" /\ i.op = "Mov" /\ i.src = Imm -> Concrete(Wrap(i.imm))
                 [] i.kind = "ldimm64" -> Concrete(Wrap(i.imm))
                 [] Displaces(i) /\ d.kind = "Concrete" -> Concrete(Wrap(moved))
                 [] Displaces(i) /\ d.kind \in {"FramePtr", "CtxPtr"} -> Abs(d.kind, moved)
                 [] OTHER -> Symbolic
  IN [p EXCEPT !.pc = @ + 1, !.regs = IF SetsDst(i) THEN [@ EXCEPT ![i.dst] = value] ELSE @]

(* resolve_branch, a set that is empty for None.  A 32-bit comparison is   *)
(* resolved like a 64-bit one, a signed one never.                         *)
resolve_branch(regs, i) ==
  LET d     == regs[i.dst]
      other == CASE i.src = Imm -> {Wrap(i.imm)}
                 [] i.src # Imm /\ regs[i.src].kind = "Concrete" -> {regs[i.src].n}
                 [] OTHER -> {}
      Holds(w) == CASE i.op = "Jeq" -> d.n = w
                    [] i.op = "Jne" -> d.n # w
                    [] i.op = "Jgt" -> d.n > w
                    [] i.op = "Jge" -> d.n >= w
                    [] i.op = "Jlt" -> d.n < w
                    [] i.op = "Jle" -> d.n <= w
  IN CASE d.kind = "Null" /\ other = {0} /\ i.op \in {"Jeq", "Jne"} -> {i.op = "Jeq"}
       [] d.kind \in {"MapValuePtr", "RingBufPtr"} /\ other = {0} /\ i.op \in {"Jeq", "Jne"} ->
            {i.op = "Jne"}
       [] d.kind = "Concrete" /\ i.op \in {"Jeq", "Jne", "Jgt", "Jge", "Jlt", "Jle"} ->
            {Holds(w) : w \in other}
       [] OTHER -> {}

(* An id is drawn for a null result too. *)
handle_call(p, h) ==
  LET nullable == returns_nullable_ptr(h)
      null     == nullable /\ p.schedule # <<>> /\ Head(p.schedule) = "AsNull"
      result   == CASE null -> Abs("Null", 0)
                    [] nullable /\ ~null -> Abs(IF returns_map_ptr(h) THEN "MapValuePtr" ELSE "RingBufPtr",
                                                p.next_ptr_id)
                    [] OTHER -> Symbolic
  IN [regs |-> [r \in Reg |-> CASE r = R0 -> result [] r \in 1 .. 5 -> Symbolic [] OTHER -> p.regs[r]],
      pc |-> p.pc + 1,
      next_ptr_id |-> IF nullable THEN p.next_ptr_id + 1 ELSE p.next_ptr_id,
      schedule |-> IF nullable /\ p.schedule # <<>> THEN Tail(p.schedule) ELSE p.schedule]

(* A branch that cannot be resolved is taken to fall through. *)
transfer_with_branches(p, i) ==
  CASE i.kind = "jmp" -> [p EXCEPT !.pc = IF resolve_branch(p.regs, i) = {TRUE}
                                            THEN @ + 1 + i.off ELSE @ + 1]
    [] i.kind = "ja"   -> [p EXCEPT !.pc = @ + 1 + i.off]
    [] i.kind = "call" -> handle_call(p, i.helper)
    [] OTHER           -> transfer_abstract(p, i)

(* execute_path: does the path come to an EXIT within its fuel? *)
execute_path(code, schedule) ==
  LET fuel == 2 * Len(code)
      Inside(p) == p.pc \in 0 .. Len(code) - 1
      AtExit(p) == Inside(p) /\ At(code, p.pc).kind = "exit"
      path[k \in 0 .. fuel] ==
        IF k = 0 THEN PathInit(schedule)
        ELSE LET p == path[k - 1] IN
             IF ~Inside(p) \/ AtExit(p) THEN p ELSE transfer_with_branches(p, At(code, p.pc))
  IN fuel > 0 /\ AtExit(path[fuel - 1])
=============================================================================
