------------------------------ MODULE MCExplore ------------------------------
(***************************************************************************)
(* Explore on every program of up to two instructions, and on families of  *)
(* programs of three and five, over one register.  The register is either  *)
(* uninitialised or an unsigned range, with the code's treatment of both:  *)
(* widening with an uninitialised side gives an uninitialised register,    *)
(* and only an uninitialised register is a substate of one.                *)
(***************************************************************************)
EXTENDS Explore

CONSTANT MaxVal      \* the largest value of the register

Uninit == [init |-> FALSE, umin |-> 0, umax |-> 0]
Range(lo, hi) == [init |-> TRUE, umin |-> lo, umax |-> hi]

MCState ==
  {Uninit} \cup {Range(lo, hi) : lo \in 0 .. MaxVal, hi \in 0 .. MaxVal}

MCErrorKind == {"FallThrough", "ComplexityExceeded", "UninitRegRead",
                "UninitReturn", "UnknownOpcode"}

Lower(a, b) == IF a < b THEN a ELSE b
Upper(a, b) == IF a > b THEN a ELSE b

MCIsSubstate(s, t) ==
  /\ s.init = t.init
  /\ t.umin <= s.umin
  /\ s.umax <= t.umax

MCWiden(s, t) ==
  IF s.init /\ t.init
    THEN Range(Lower(s.umin, t.umin), Upper(s.umax, t.umax))
    ELSE Uninit

-----------------------------------------------------------------------------
Plain(op) == [op |-> op, to |-> 0]
Jump(op, targets) == {[op |-> op, to |-> t] : t \in targets}

Alphabet(n) ==
  {Plain("exit"), Plain("unknown"), Plain("mov"), Plain("add"), Plain("call")}
    \cup Jump("ja", 0 .. n) \cup Jump("jlt", 0 .. n) \cup Jump("jcc", 0 .. n)

(* Two branches, a loop over a counter and a join before the EXIT. *)
Looping ==
  {<<a, b, c, d, Plain("exit")>> :
     a \in {Plain("mov"), Plain("call")} \cup Jump("jcc", {2, 3}),
     b \in {Plain("add"), Plain("mov")} \cup Jump("jcc", {0, 3}),
     c \in {Plain("add")} \cup Jump("jlt", {0, 1, 3, 4}) \cup Jump("jcc", {1, 4}),
     d \in Jump("jcc", {0, 1, 2, 4}) \cup Jump("jlt", {1, 2}) \cup Jump("ja", {1})}

(* Three instructions, of which the first does not end the path and the    *)
(* last does not fall off the end.                                         *)
Triples ==
  {<<a, b, c>> : a \in {Plain("mov"), Plain("call")} \cup Jump("jcc", 0 .. 2),
                 b \in Alphabet(3),
                 c \in {Plain("exit")} \cup Jump("ja", 0 .. 3) \cup Jump("jlt", 0 .. 3)
                                       \cup Jump("jcc", 0 .. 3)}

MCProgram ==
  {<<>>} \cup Looping \cup Triples \cup UNION {[1 .. n -> Alphabet(n)] : n \in 1 .. 2}

MCSize(p) == Len(p)
Insn(p, q) == p[q + 1]
Targets(i) == IF i.op \in {"ja", "jlt", "jcc"} THEN {i.to} ELSE {}

MCIsBackEdge(p, q) == \E j \in 0 .. Len(p) - 1 : j >= q /\ q \in Targets(Insn(p, j))

At(q, s) == [pc |-> q, state |-> s]

Stop(p, s, errs, exit) ==
  [kind |-> "stop", err |-> errs, exit |-> exit, next |-> At(Len(p), s),
   taken |-> At(Len(p), s), ids |-> 0]
Step(p, q, s, used) ==
  [kind |-> "step", err |-> {}, exit |-> FALSE, next |-> At(q, s),
   taken |-> At(Len(p), s), ids |-> used]
Branch(q, s, t, st) ==
  [kind |-> "branch", err |-> {}, exit |-> FALSE, next |-> At(q, s),
   taken |-> At(t, st), ids |-> 0]

(* Not read before it is written, tested against 1 by jlt; jcc tests some  *)
(* other register and so refines nothing; a jump past the end is no target.*)
MCExec(p, q, s, n) ==
  LET i == Insn(p, q) IN
  CASE i.op = "exit"    -> Stop(p, s, IF s.init THEN {} ELSE {"UninitReturn"}, TRUE)
    [] i.op = "unknown" -> Stop(p, s, {"UnknownOpcode"}, FALSE)
    [] i.op = "mov"     -> Step(p, q + 1, Range(0, 0), 0)
    [] i.op = "call"    -> Step(p, q + 1, Range(0, MaxVal), 1)
    [] i.op = "add"     ->
         IF ~s.init THEN Stop(p, s, {"UninitRegRead"}, FALSE)
         ELSE IF Upper(s.umin, s.umax) < MaxVal
           THEN Step(p, q + 1, Range(s.umin + 1, s.umax + 1), 0)
         ELSE Step(p, q + 1, Range(0, MaxVal), 0)
    [] i.op \in {"ja", "jcc", "jlt"} /\ i.to = Len(p) -> Stop(p, s, {"FallThrough"}, FALSE)
    [] i.op = "ja"  /\ i.to < Len(p) -> Step(p, i.to, s, 0)
    [] i.op = "jcc" /\ i.to < Len(p) -> Branch(q + 1, s, i.to, s)
    [] i.op = "jlt" /\ i.to < Len(p) ->
         IF ~s.init THEN Stop(p, s, {"UninitRegRead"}, FALSE)
         ELSE Branch(q + 1, [s EXCEPT !.umin = Upper(@, 1)],
                     i.to, [s EXCEPT !.umax = Lower(@, 0)])

==============================================================================
