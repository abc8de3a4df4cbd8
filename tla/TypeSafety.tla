------------------------------ MODULE TypeSafety ------------------------------
(***************************************************************************)
(* The type scan of fstar/obj/BPF.Check.TypeSafety.fst.  It follows no     *)
(* jump and merges nothing: what it claims, it claims of the run that      *)
(* never jumps.                                                            *)
(***************************************************************************)
EXTENDS Machine, Scans

AbsType == {"TScalar", "TFramePtr", "TCtxPtr", "TUnknown"}

ts_init == [r \in Reg |-> CASE r = 1   -> "TCtxPtr"
                            [] r = R10 -> "TFramePtr"
                            [] OTHER   -> "TUnknown"]

is_scalar_type(t) == t \in {"TScalar", "TUnknown"}
is_load_base(t)   == t \in {"TFramePtr", "TCtxPtr", "TUnknown"}
is_store_base(t)  == t \in {"TFramePtr", "TUnknown"}

SourceType(s, i) == IF i.src = Imm THEN "TScalar" ELSE s[i.src]

IsMove(i) == i.kind = "alu" /\ i.op = "Mov"

(* Are the operands of the types that the instruction needs?  Pointers to  *)
(* maps and ring buffers and null are types too, but nothing gives them.   *)
WellTyped(s, i) ==
  CASE IsMove(i)    -> i.wide \/ is_scalar_type(SourceType(s, i))
    [] Displaces(i) -> TRUE
    [] i.kind = "alu" /\ ~IsMove(i) /\ ~Displaces(i) ->
         is_scalar_type(s[i.dst]) /\ is_scalar_type(SourceType(s, i))
    [] i.kind = "ldx" -> is_load_base(s[i.src])
    [] i.kind \in {"stx", "st"} -> is_store_base(s[i.dst]) /\ is_scalar_type(SourceType(s, i))
    [] OTHER -> TRUE

(* Mutant of ResultType: what a lookup returns is taken for a number. *)
ResultTypeNumber(h) == IF ret_type(h) = "None" THEN "TUnknown" ELSE "TScalar"

(* The type of what a helper returns. *)
ResultType(h) == IF ret_type(h) \in {"RetScalar", "RetErrorCode"} THEN "TScalar" ELSE "TUnknown"

TypesAfter(s, i) ==
  LET Now(t) == [s EXCEPT ![i.dst] = t] IN
  CASE IsMove(i) /\ i.wide -> Now(SourceType(s, i))
    [] Displaces(i)        -> s    \* frame, context, number and unknown stay what they are
    [] SetsDst(i) /\ ~(IsMove(i) /\ i.wide) /\ ~Displaces(i) -> Now("TScalar")
    [] i.kind = "call"     -> [Clobbered("TUnknown", s) EXCEPT ![R0] = ResultType(i.helper)]
    [] OTHER               -> s

(* check_insn_ts; it has no map of targets. *)
check_insn_ts(s, i, pc, targets) == Found(WellTyped(s, i), TypesAfter(s, i), targets)

TypeClaims(code) ==
  LET s[k \in 0 .. Len(code)] ==
        IF k = 0 THEN Found(TRUE, ts_init, <<>>)
        ELSE LET b == s[k - 1] IN Onward(b, check_insn_ts(b.regs, At(code, k - 1), k - 1, b.targets))
  IN s
type_check(code) == TypeClaims(code)[Len(code)].ok
=============================================================================
