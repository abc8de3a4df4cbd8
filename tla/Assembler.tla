------------------------------ MODULE Assembler ------------------------------
(***************************************************************************)
(* Instructions by their mnemonics, for the modules that put programmes    *)
(* together for TLC.                                                       *)
(***************************************************************************)
EXTENDS Code

Alu(op, d, s)    == [Nop EXCEPT !.kind = "alu", !.op = op, !.dst = d, !.src = s]
AluImm(op, d, n) == [Nop EXCEPT !.kind = "alu", !.op = op, !.dst = d, !.imm = n]
Mov(d, s)        == Alu("Mov", d, s)
Set(d, n)        == AluImm("Mov", d, n)
JmpImm(op, d, n) == [Nop EXCEPT !.kind = "jmp", !.op = op, !.dst = d, !.imm = n]
JmpReg(op, d, s) == [Nop EXCEPT !.kind = "jmp", !.op = op, !.dst = d, !.src = s]
Ja(off)          == [Nop EXCEPT !.kind = "ja", !.off = off]
Ldx(d, s, o, w)  == [Nop EXCEPT !.kind = "ldx", !.dst = d, !.src = s, !.off = o, !.width = w]
Stx(d, s, o, w)  == [Nop EXCEPT !.kind = "stx", !.dst = d, !.src = s, !.off = o, !.width = w]
St(d, o, w)      == [Nop EXCEPT !.kind = "st", !.dst = d, !.off = o, !.width = w]
CallTo(h)        == [Nop EXCEPT !.kind = "call", !.helper = h]
Imm64(d, n)      == [Nop EXCEPT !.kind = "ldimm64", !.dst = d, !.imm = n]
Map(d)           == [Nop EXCEPT !.kind = "ldimm64", !.dst = d, !.reloc = "map"]
Section(d)       == [Nop EXCEPT !.kind = "ldimm64", !.dst = d, !.reloc = "data"]
Exit             == [Nop EXCEPT !.kind = "exit"]

(* An instruction with another offset, and in its 32-bit form. *)
To(i, off) == [i EXCEPT !.off = off]
Half(i)    == [i EXCEPT !.wide = FALSE]
=============================================================================
