-------------------------------- MODULE Tnum --------------------------------
(***************************************************************************)
(* Tracked numbers (struct Tnum of src/kverify/state.rs): a bit of mask is *)
(* an unknown bit, a bit of value a bit known to be one.                   *)
(***************************************************************************)
EXTENDS Word

Tnum == {t \in [value : Word, mask : Word] : And(t.value, t.mask) = 0}

constant(v) == [value |-> v, mask |-> 0]
unknown     == [value |-> 0, mask |-> MaxWord]
is_known(t) == t.mask = 0

min_value(t) == t.value
max_value(t) == Or(t.value, t.mask)

tnum_and(s, t) ==
  LET v  == And(s.value, t.value)
      ab == And(Or(s.value, s.mask), Or(t.value, t.mask))
  IN  [value |-> v, mask |-> And(ab, Not(v))]

(* Mutant of tnum_or: a bit known to be one in one operand stays unknown. *)
tnum_or_overlapping(s, t) ==
  [value |-> Or(s.value, t.value), mask |-> Or(s.mask, t.mask)]

tnum_or(s, t) ==
  LET v == Or(s.value, t.value)
  IN  [value |-> v, mask |-> And(Or(s.mask, t.mask), Not(v))]

tnum_xor(s, t) ==
  LET mu == Or(s.mask, t.mask)
  IN  [value |-> And(Xor(s.value, t.value), Not(mu)), mask |-> mu]

lsh(t, n) == IF n >= WordBits THEN constant(0)
             ELSE [value |-> Shl(t.value, n), mask |-> Shl(t.mask, n)]
rsh(t, n) == IF n >= WordBits THEN constant(0)
             ELSE [value |-> Shr(t.value, n), mask |-> Shr(t.mask, n)]

(* Mutant of tnum_add: carries out of unknown bits are not unknown. *)
tnum_add_without_carries(s, t) ==
  LET sv == Wrap(s.value + t.value)
      mu == Or(s.mask, t.mask)
  IN  [value |-> And(sv, Not(mu)), mask |-> mu]

tnum_add(s, t) ==
  LET sv  == Wrap(s.value + t.value)
      chi == Xor(Wrap(sv + Wrap(s.mask + t.mask)), sv)
      mu  == Or(chi, Or(s.mask, t.mask))
  IN  [value |-> And(sv, Not(mu)), mask |-> mu]

tnum_sub(s, t) == tnum_add(s, [value |-> Wrap(-t.value), mask |-> t.mask])

trunc32(t) == [value |-> Low(t.value), mask |-> Low(t.mask)]

(* The tnum of RegState::widen: the bits on which the two agree. *)
tnum_join(s, t) ==
  [value |-> And(s.value, t.value),
   mask  |-> Or(Or(s.mask, t.mask), Xor(s.value, t.value))]

(* Mutant of tnum_leq: the known bits are not compared. *)
tnum_leq_masks(s, t) == And(s.mask, Not(t.mask)) = 0

(* The tnum part of RegState::is_substate_of. *)
tnum_leq(s, t) ==
  /\ And(s.mask, Not(t.mask)) = 0
  /\ And(s.value, Not(t.mask)) = And(t.value, Not(t.mask))

(* The words a tnum stands for. *)
InTnum(w, t) == \A k \in BitPos : Bit(t.mask, k) = 1 \/ Bit(w, k) = Bit(t.value, k)
=============================================================================
