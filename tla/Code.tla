-------------------------------- MODULE Code --------------------------------
(***************************************************************************)
(* Instructions, as src/bpf/instruction.rs decodes them and as they stand  *)
(* in the list of bpf_insn that is emitted for F*.                         *)
(***************************************************************************)
EXTENDS Integers, Sequences

Reg == 0 .. 10
R0  == 0
R10 == 10

(* An instruction is a record: kind, dst, src, imm, off, width, op, wide,  *)
(* helper, reloc.  src = Imm means that the operand is the immediate; wide *)
(* is TRUE for the 64-bit forms; off is the offset of a memory access and  *)
(* that of a jump.  The fields that a kind does not have are those of Nop. *)
Imm == 11
Nop == [kind |-> "unknown", dst |-> 0, src |-> Imm, imm |-> 0, off |-> 0, width |-> 1,
        op |-> "Mov", wide |-> TRUE, helper |-> "", reloc |-> "none"]

AluOpcode == {"Add", "Sub", "Mul", "Div", "Or", "And", "Lsh", "Rsh", "Neg", "Mod", "Xor", "Mov", "Arsh"}
JmpOpcode == {"Jeq", "Jgt", "Jge", "Jset", "Jne", "Jsgt", "Jsge", "Jlt", "Jle", "Jslt", "Jsle"}

(* Every instruction that there is.  A load has a base register, a store   *)
(* of a register has a register to store, and a conditional jump compares. *)
Kind == {"alu", "ldx", "stx", "st", "ldimm64", "jmp", "ja", "call", "exit", "unknown", "undecodable"}
Instructions ==
  {i \in [kind : Kind, dst : Reg, src : Reg \cup {Imm}, imm : Int, off : Int, width : Nat,
          op : AluOpcode \cup JmpOpcode, wide : BOOLEAN, helper : STRING, reloc : {"none", "map", "data", "core"}] :
     /\ i.kind \in {"ldx", "stx"} => i.src # Imm
     /\ i.kind = "alu" => i.op \in AluOpcode
     /\ i.kind = "jmp" => i.op \in JmpOpcode}

IsCondJump(i) == i.kind = "jmp"
IsJump(i)     == i.kind \in {"jmp", "ja"}
IsMemory(i)   == i.kind \in {"ldx", "stx", "st"}

SetsDst(i)    == i.kind \in {"alu", "ldx", "ldimm64"}

(* A move that takes any value, and a number known in advance added to or  *)
(* taken from a register: what pointers may be put through.                *)
IsCopy(i)    == i.kind = "alu" /\ i.wide /\ i.src # Imm /\ i.op = "Mov"
Displaces(i) == i.kind = "alu" /\ i.wide /\ i.src = Imm /\ i.op \in {"Add", "Sub"}

(* Such a pointer, with its distance from its object, after the addition.  *)
MovedBy(d, i) == [d EXCEPT !.n = IF i.op = "Add" THEN @ + i.imm ELSE @ - i.imm]

(* The register through which a load or a store goes. *)
Base(i) == IF i.kind = "ldx" THEN i.src ELSE i.dst

(* The instruction at index pc of a list. *)
At(code, pc) == code[pc + 1]
=============================================================================
