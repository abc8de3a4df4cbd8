------------------------------- MODULE Branch -------------------------------
(***************************************************************************)
(* What a conditional jump teaches about a scalar: refine_scalar_64 and    *)
(* refine_scalar_32 of src/kverify/check.rs, for each operator once as the *)
(* fact on the taken branch and once as the fact on the fallthrough.       *)
(***************************************************************************)
EXTENDS RegState

(* Mutant of Opposite: the fallthrough of > learns <. *)
OppositeStrict(op) ==
  CASE op = "Jeq"  -> "Jne"  [] op = "Jne"  -> "Jeq"
    [] op = "Jgt"  -> "Jlt"  [] op = "Jle"  -> "Jgt"
    [] op = "Jge"  -> "Jlt"  [] op = "Jlt"  -> "Jge"
    [] op = "Jsgt" -> "Jsle" [] op = "Jsle" -> "Jsgt"
    [] op = "Jsge" -> "Jslt" [] op = "Jslt" -> "Jsge"

(* The comparison that holds on the fallthrough of a comparison. *)
Opposite(op) ==
  CASE op = "Jeq"  -> "Jne"  [] op = "Jne"  -> "Jeq"
    [] op = "Jgt"  -> "Jle"  [] op = "Jle"  -> "Jgt"
    [] op = "Jge"  -> "Jlt"  [] op = "Jlt"  -> "Jge"
    [] op = "Jsgt" -> "Jsle" [] op = "Jsle" -> "Jsgt"
    [] op = "Jsge" -> "Jslt" [] op = "Jslt" -> "Jsge"

(* Mutant of SAtMost: the bound itself is ruled out. *)
SAtMostBelow(r, n) == refine_bounds([r EXCEPT !.smax = Lesser(@, SDec(n))])

(* Bounds tightened by each order comparison. *)
AtLeast(r, v)  == refine_bounds([r EXCEPT !.umin = Greater(@, v)])
AtMost(r, v)   == refine_bounds([r EXCEPT !.umax = Lesser(@, v)])
SAtLeast(r, n) == refine_bounds([r EXCEPT !.smin = Greater(@, n)])
SAtMost(r, n)  == refine_bounds([r EXCEPT !.smax = Lesser(@, n)])

(* Tested bits all zero, or the one tested bit set. *)
BitsClear(t, v) == [value |-> And(t.value, Not(v)), mask |-> And(t.mask, Not(v))]
BitsSet(t, v)   == [value |-> Or(t.value, v), mask |-> And(t.mask, Not(v))]

(* The unsigned bounds cut to those of the tnum. *)
CutToTnum(r) == [r EXCEPT !.umin = Greater(@, min_value(r.tnum)),
                          !.umax = Lesser(@, max_value(r.tnum))]

-----------------------------------------------------------------------------
(* refine_scalar_64: r on the branch where "r op v" holds. *)
Holds64(r, op, v) ==
  CASE op = "Jeq"  -> scalar_value(v)
    [] op = "Jne"  -> r
    [] op = "Jgt"  -> AtLeast(r, Inc(v))
    [] op = "Jge"  -> AtLeast(r, v)
    [] op = "Jlt"  -> AtMost(r, Dec(v))
    [] op = "Jle"  -> AtMost(r, v)
    [] op = "Jsgt" -> SAtLeast(r, SInc(Signed(v)))
    [] op = "Jsge" -> SAtLeast(r, Signed(v))
    [] op = "Jslt" -> SAtMost(r, SDec(Signed(v)))
    [] op = "Jsle" -> SAtMost(r, Signed(v))

JsetTaken64(r, v) ==
  IF OneBit(v) THEN refine_bounds(CutToTnum([r EXCEPT !.tnum = BitsSet(@, v)])) ELSE r
JsetFall64(r, v) == refine_bounds(CutToTnum([r EXCEPT !.tnum = BitsClear(@, v)]))

-----------------------------------------------------------------------------
(* refine_scalar_32: the same on the low halves.  Bounds move only when    *)
(* the whole register is known to fit in a half.                           *)
FitsHalf(r) == r.umax <= MaxHalf

AtLeast32(r, v)  == refine_bounds(IF FitsHalf(r) THEN [r EXCEPT !.umin = Greater(@, v)] ELSE r)
AtMost32(r, v)   == refine_bounds(IF FitsHalf(r) THEN [r EXCEPT !.umax = Lesser(@, v)] ELSE r)
SAtLeast32(r, n) == IF FitsHalf(r) THEN SAtLeast(r, n) ELSE r
SAtMost32(r, n)  == IF FitsHalf(r) THEN SAtMost(r, n) ELSE r

LowIs(r, v) ==
  LET t == [value |-> High(r.tnum.value) + v, mask |-> High(r.tnum.mask)]
      s == [r EXCEPT !.tnum = t]
  IN  refine_bounds(IF FitsHalf(r)
                      THEN [s EXCEPT !.umin = Greater(@, v), !.umax = Lesser(@, v)]
                      ELSE s)

Holds32(r, op, w) ==
  LET v == Low(w)
      n == SignedHalf(w)
  IN CASE op = "Jeq"  -> LowIs(r, v)
       [] op = "Jne"  -> r
       [] op = "Jgt"  -> AtLeast32(r, Inc(v))
       [] op = "Jge"  -> AtLeast32(r, v)
       [] op = "Jlt"  -> AtMost32(r, Dec(v))
       [] op = "Jle"  -> AtMost32(r, v)
       [] op = "Jsgt" -> SAtLeast32(r, SInc(n))
       [] op = "Jsge" -> SAtLeast32(r, n)
       [] op = "Jslt" -> SAtMost32(r, SDec(n))
       [] op = "Jsle" -> SAtMost32(r, n)

JsetTaken32(r, w) ==
  LET s == [r EXCEPT !.tnum = BitsSet(@, Low(w))]
  IN  IF OneBit(Low(w)) THEN refine_bounds(IF FitsHalf(r) THEN CutToTnum(s) ELSE s) ELSE r
JsetFall32(r, w) ==
  LET s == [r EXCEPT !.tnum = BitsClear(@, Low(w))]
  IN  refine_bounds(IF FitsHalf(r) THEN CutToTnum(s) ELSE s)

-----------------------------------------------------------------------------
(* The register on the taken branch and on the fallthrough. *)
RefineTaken(r, op, is_32, v) ==
  IF op = "Jset" THEN IF is_32 THEN JsetTaken32(r, v) ELSE JsetTaken64(r, v)
  ELSE IF is_32 THEN Holds32(r, op, v) ELSE Holds64(r, op, v)

RefineFall(r, op, is_32, v) ==
  IF op = "Jset" THEN IF is_32 THEN JsetFall32(r, v) ELSE JsetFall64(r, v)
  ELSE IF is_32 THEN Holds32(r, Opposite(op), v) ELSE Holds64(r, Opposite(op), v)
==============================================================================
