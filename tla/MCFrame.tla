------------------------------ MODULE MCFrame ------------------------------
(***************************************************************************)
(* Frame on words of four bits, halves and accesses of two bytes at most,  *)
(* a frame of four bytes, a context and map values of two.                 *)
(***************************************************************************)
EXTENDS Frame, Assembler

(* Lookups whose result is copied, spilled, reloaded, checked and used. *)
NullInsns ==
  {Map(1), Mov(2, R10), AluImm("Add", 2, -2), CallTo("MAP_LOOKUP_ELEM"),
   Mov(6, 0), Stx(R10, 0, -2, 2), Ldx(6, R10, -2, 2), Stx(R10, 6, -4, 2),
   JmpImm("Jeq", 0, 0), JmpImm("Jne", 6, 0),
   Ldx(2, 6, 0, 2), St(0, 1, 1), St(6, 1, 2)}

(* Helpers that write to the frame, and reservations, with sizes that are  *)
(* known; loads through the context and through what it leads to.          *)
CallInsns ==
  {Mov(1, R10), AluImm("Sub", 1, 4), Set(2, 2), Set(2, 3), Set(3, 0),
   CallTo("PROBE_READ_KERNEL"), CallTo("GET_CURRENT_COMM"), Map(1), CallTo("RINGBUF_RESERVE"),
   JmpImm("Jne", 0, 0), Ldx(6, R10, -4, 2), Ldx(6, 6, 1, 2),
   Ldx(6, R10, -2, 2), Ldx(6, 1, 0, 2), Stx(0, 6, 0, 2), St(0, 1, 1), Stx(0, 1, 1, 1)}

(* A loop over numbers and bytes of the frame. *)
LoopInsns ==
  {Set(6, 1), Set(6, 2), JmpImm("Jlt", 6, 2), St(R10, -2, 1), St(R10, -1, 1), St(R10, -4, 2),
   Ldx(6, R10, -2, 2), Ldx(7, R10, -4, 1), Section(8)}

(* The programs of the runs that end in a violation.                       *)
OverlapInsns == {Stx(R10, 1, -2, 2), St(R10, -1, 1)}
HelperInsns  == {Mov(6, 1), Stx(R10, 6, -4, 2), Mov(1, R10), AluImm("Sub", 1, 4), Set(2, 2),
                 Set(3, 0), CallTo("PROBE_READ_USER")}
SizeInsns    == {Mov(1, R10), AluImm("Sub", 1, 4), Set(2, 4), CallTo("GET_CURRENT_COMM")}
PtrAddInsns  == {Mov(2, R10), Ldx(6, 1, 0, 1), Alu("Add", 2, 6), St(2, -1, 1)}
WrapInsns    == {AluImm("Add", 1, 6), Ldx(6, 1, 1, 2)}
WrapStores   == {Mov(2, R10), AluImm("Add", 2, 3), Stx(2, 1, 0, 2)}
ReserveInsns == {Ldx(2, 1, 0, 1), Map(1), Set(3, 0), CallTo("RINGBUF_RESERVE"),
                 JmpImm("Jne", 0, 0), St(0, 2, 1)}
ReturnInsns  == {Map(1), Mov(2, R10), CallTo("MAP_LOOKUP_ELEM")}
RetypeInsns  == {Mov(6, 1), Mov(6, R10)}
AliasInsns   == {Map(1), Mov(2, R10), CallTo("MAP_LOOKUP_ELEM"), Mov(6, 0), Mov(7, 0)}
SpillInsns   == {Stx(R10, 1, -2, 2), Stx(R10, R10, -2, 2)}

Straight(insns) == [insns |-> insns, meeting |-> "never"]
Joining(insns)  == [insns |-> insns, meeting |-> "join"]
Looping(insns)  == [insns |-> insns, meeting |-> "loop"]

(* The programs on which the properties hold. *)
MCPrograms == {Straight(NullInsns), Straight(CallInsns), Looping(LoopInsns)}

OverlapPrograms == {Straight(OverlapInsns)}
HelperPrograms  == {Straight(HelperInsns)}
SizePrograms    == {Straight(SizeInsns)}
PtrAddPrograms  == {Straight(PtrAddInsns)}
WrapPrograms    == {Straight(WrapInsns)}
WrapFrames      == {Straight(WrapStores)}
ReservePrograms == {Straight(ReserveInsns)}
ReturnPrograms  == {Straight(ReturnInsns)}
RetypePrograms  == {Looping(RetypeInsns)}
AliasPrograms   == {Looping(AliasInsns)}
SpillPrograms   == {Joining(SpillInsns)}
=============================================================================
