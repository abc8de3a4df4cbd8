---------------------------- MODULE MCCheckCommand ----------------------------
(***************************************************************************)
(* CheckCommand on words of four bits: objects of one programme put        *)
(* together from a menu, with jumps to every slot near them, and objects   *)
(* of several programmes of which some pass and some do not.               *)
(***************************************************************************)
EXTENDS CheckCommand, Assembler

(* What may stand at each of three places between a beginning and an end;  *)
(* an LD_IMM64 takes two slots.                                            *)
Menu ==
  {<<Set(6, 1)>>, <<Mov(7, 6)>>, <<AluImm("Add", 6, 1)>>, <<Section(7), Second>>, <<CallTo("KTIME_GET_NS")>>,
   <<Ja(1)>>, <<Ja(-3)>>}
    \cup {<<To(JmpImm("Jlt", 6, 3), off)>> : off \in {-3, 0, 1, 2}}

Sections == {<<Set(6, 0), Set(0, 0)>> \o a \o b \o c \o end :
               a, b, c \in Menu, end \in {<<Mov(0, 7), Exit>>, <<Exit>>}}

Named1(name, section) == [name |-> name, raw |-> section]
Alone(section) == <<Named1("a", section)>>

(* A lookup that is checked for null before it is used, and one that is    *)
(* not; both need the map in an LD_IMM64.                                  *)
Lookup   == <<Map(1), Second, Mov(2, R10), AluImm("Add", 2, -2), St(R10, -2, 2), CallTo("MAP_LOOKUP_ELEM")>>
Checked  == Lookup \o <<To(JmpImm("Jeq", 0, 0), 1), Ldx(0, 0, 0, 1), Exit>>
Direct   == Lookup \o <<Ldx(0, 0, 0, 1), Exit>>

(* A counter that goes up to the limit of the walk, and one that is kept   *)
(* below it; a loop without an end.                                        *)
Endless  == <<Ja(-1)>>
Counting == <<Set(6, 0), Set(0, 0), AluImm("Add", 6, 1), To(JmpImm("Jne", 6, 9), -2), Exit>>

(* Arguments do not survive a call. *)
Stale    == <<Set(5, 0), CallTo("KTIME_GET_NS"), Mov(0, 5), Exit>>

Objects2 ==
  {<<>>,
   <<Named1("a", Checked), Named1("b", Direct), Named1("c", Endless)>>,
   <<Named1("b", Counting), Named1("b", Stale), Named1("a", <<>>)>>,
   <<Named1("a", Checked), Named1("c", <<Bad, Exit>>)>>}

MCObjects  == {Alone(s) : s \in Sections} \cup Objects2
MCRequests == {<<>>, <<"a">>, <<"c", "a", "c">>, <<"b", "a", "b">>}

-----------------------------------------------------------------------------
(* A slot that does not decode is left out of the list that is walked, and *)
(* stays in the section that is run.                                       *)
SkippedObjects == {Alone(<<Set(0, 0), Bad, Exit>>)}

(* Every run of a programme that passed stands on an instruction, whatever *)
(* the decoding loop of parse_elf made of its section.                     *)
EverySlotExists == running = "yes" => S!IsInsn(raw, slot)
=============================================================================
