------------------------------- MODULE Layout -------------------------------
(***************************************************************************)
(* Where instructions lie.  A section is a sequence of slots of 8 bytes.   *)
(* LD_IMM64 takes two of them and jump offsets count slots, but the list   *)
(* of decoded instructions that both verifiers work on has one entry for   *)
(* it: the decoding loop of src/elf/parser.rs, and build_pc_map and        *)
(* resolve_branch_target of src/kverify/check.rs.                          *)
(***************************************************************************)
EXTENDS Code

(* A slot is an instruction, the second half of an LD_IMM64 (opcode 0,     *)
(* which decodes as an unknown one), or bytes that do not decode.          *)
Second == Nop
Bad    == [Nop EXCEPT !.kind = "undecodable"]

Slots64(i) == IF i.kind = "ldimm64" THEN 2 ELSE 1

(* Which slots the decoding loop takes for the second half of an LD_IMM64: *)
(* the one after an LD_IMM64, whatever it holds.                           *)
SecondHalf(raw) ==
  LET second[k \in DOMAIN raw] == k > 1 /\ raw[k - 1].kind = "ldimm64" /\ ~second[k - 1]
  IN second

(* One turn of the loop.  A slot that does not decode is skipped, and an   *)
(* LD_IMM64 in the last slot has no second to take its relocation with.    *)
Pushed(list, raw, k) ==
  CASE SecondHalf(raw)[k] \/ raw[k].kind = "undecodable" -> list
    [] OTHER -> Append(list, IF raw[k].kind = "ldimm64" /\ k = Len(raw)
                               THEN [raw[k] EXCEPT !.reloc = "none"] ELSE raw[k])

(* The decoding loop: the list after each number of slots. *)
decoding(raw) ==
  LET list[k \in 0 .. Len(raw)] == IF k = 0 THEN <<>> ELSE Pushed(list[k - 1], raw, k)
  IN list

decode(raw) == decoding(raw)[Len(raw)]

(* Every slot decodes: none of them is skipped. *)
Decodes(raw) == \A k \in DOMAIN raw : raw[k].kind # "undecodable"

-----------------------------------------------------------------------------
(* Mutant of collapsed_to_raw: an LD_IMM64 counts once. *)
collapsed_to_raw_single(code, idx) == idx

(* build_pc_map: the slot of the instruction at an index, which counts the *)
(* LD_IMM64s before it twice.                                              *)
collapsed_to_raw(code, idx) ==
  LET before[k \in 0 .. Len(code)] ==
        IF k = 0 THEN 0 ELSE before[k - 1] + Slots64(code[k])
  IN before[idx]

Indices(code) == 0 .. Len(code) - 1

(* The index at a slot, as a set that is empty where none begins there. *)
raw_to_collapsed(code, slot) == {k \in Indices(code) : collapsed_to_raw(code, k) = slot}

(* Mutant of resolve_branch_target: the slot, where an index is asked for. *)
resolve_branch_target_slot(code, pc, offset) == {collapsed_to_raw(code, pc) + 1 + offset}

resolve_branch_target(code, pc, offset) ==
  raw_to_collapsed(code, collapsed_to_raw(code, pc) + 1 + offset)

find_back_edge_targets(code) ==
  UNION {{t \in resolve_branch_target(code, k, At(code, k).off) : t <= k} :
           k \in {k \in Indices(code) : IsJump(At(code, k))}}
=============================================================================
