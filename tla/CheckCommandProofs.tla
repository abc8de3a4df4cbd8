-------------------------- MODULE CheckCommandProofs --------------------------
(***************************************************************************)
(* That `object check` accounts for every programme it was asked for, and  *)
(* that its verdict on a programme does not depend on the others.          *)
(*                                                                         *)
(* Then what a verdict promises to the run of a programme that passed: it  *)
(* always stands on an instruction and reads no register that it has not   *)
(* written.  Numbers play no part in this, so that nothing is asked of the *)
(* tracked numbers and bounds but that they are there: the verifier states *)
(* are those that the walk can compute, whatever the words are, and a      *)
(* register is told only by its type.                                      *)
(*                                                                         *)
(* And last that the numbers are there indeed: the states that the walk    *)
(* can compute are numbered, by the lemmas of DomainProofs, which gives    *)
(* the types of the command.                                               *)
(***************************************************************************)
EXTENDS CheckCommand, LayoutProofs, DomainProofs

-----------------------------------------------------------------------------
(* What was asked for is checked in order, and what was judged is counted. *)
Asked == IF request = <<>> THEN Len(programs) ELSE Len(request)

Object == [name : STRING, raw : Seq(Instructions)]

Chosen ==
  /\ programs \in Seq(Object)
  /\ request \in Seq(STRING)
  /\ chosen \in Seq(DOMAIN programs)
  /\ step = "select" => chosen = <<>>
  /\ step \in {"next", "walk"} => Len(chosen) = Asked /\ Asked > 0

Tallied ==
  /\ judged \in Seq(BOOLEAN)
  /\ failed \in Nat
  /\ failed > 0 <=> \E k \in DOMAIN judged : ~judged[k]
  /\ Len(judged) <= Len(chosen)
  /\ step = "walk" => Len(judged) < Len(chosen)

CommandInv ==
  /\ Chosen
  /\ Tallied
  /\ step \in {"select", "next", "walk", "done"}
  /\ step # "done" => exit_code = Running
  /\ ExitCodeTellsAll

LEMMA Started == Init => CommandInv
<1>. SUFFICES ASSUME Init PROVE CommandInv
  OBVIOUS
<1>1. programs \in Seq(Object) /\ request \in Seq(STRING)
  BY CommandAssumption DEF Init, Object
<1>2. Chosen
  <2>1. chosen = <<>> /\ step = "select"
    BY DEF Init
  <2>. QED BY <1>1, <2>1 DEF Chosen
<1>3. judged = <<>> /\ chosen = <<>> /\ failed = 0 /\ step = "select"
  BY DEF Init
<1>4. Tallied
  <2>1. DOMAIN judged = {}
    BY <1>3
  <2>. QED BY <1>3, <2>1 DEF Tallied
<1>. QED BY <1>2, <1>4 DEF CommandInv, ExitCodeTellsAll, Init

(* find_program answers with a programme of the object. *)
LEMMA SelectKept ==
  ASSUME CommandInv, Select
  PROVE  CommandInv'
<1>. USE DEF CommandInv
<1>0. /\ UNCHANGED <<programs, request, passed, failed, judged>>
      /\ step = "select" /\ chosen = <<>>
      /\ programs \in Seq(Object) /\ request \in Seq(STRING)
  BY DEF Select, Chosen
<1>1. judged = <<>>
  <2>1. judged \in Seq(BOOLEAN) /\ Len(judged) <= 0
    BY <1>0 DEF Tallied
  <2>. QED BY <2>1
<1>2. CASE programs = <<>> \/ \E k \in DOMAIN request : find_program(request[k]) = {}
  <2>1. step' = "done" /\ exit_code' = 2 /\ chosen' = chosen
    BY <1>2 DEF Select
  <2>2. Chosen'
    BY <1>0, <2>1 DEF Chosen
  <2>3. Tallied'
    BY <1>0, <1>1, <2>1 DEF Tallied
  <2>. QED BY <1>0, <1>1, <2>1, <2>2, <2>3 DEF ExitCodeTellsAll
<1>3. CASE ~(programs = <<>> \/ \E k \in DOMAIN request : find_program(request[k]) = {})
  <2>1. /\ step' = "next" /\ exit_code' = exit_code
        /\ chosen' = IF request = <<>>
                       THEN [k \in DOMAIN programs |-> k]
                       ELSE [k \in DOMAIN request |-> CHOOSE p \in find_program(request[k]) : TRUE]
    BY <1>3 DEF Select
  <2>2. \A k \in DOMAIN request : (CHOOSE p \in find_program(request[k]) : TRUE) \in DOMAIN programs
    <3>1. \A name : find_program(name) \subseteq DOMAIN programs
      BY DEF find_program, Named
    <3>. QED BY <1>3, <3>1
  <2>3. chosen' \in Seq(DOMAIN programs) /\ Len(chosen') = Asked /\ Asked > 0
    <3>1. CASE request = <<>>
      BY <1>0, <1>3, <2>1, <3>1 DEF Asked
    <3>2. CASE request # <<>>
      <4>. DEFINE p(k) == CHOOSE p \in find_program(request[k]) : TRUE
      <4>1. chosen' = [k \in 1 .. Len(request) |-> p(k)]
        BY <1>0, <2>1, <3>2
      <4>2. \A k \in 1 .. Len(request) : p(k) \in DOMAIN programs
        <5>1. DOMAIN request = 1 .. Len(request)
          BY <1>0
        <5>. QED BY <2>2, <5>1
      <4>. HIDE DEF p
      <4>3. Len(request) \in Nat /\ Len(request) > 0
        BY <1>0, <3>2
      <4>4. chosen' \in Seq(DOMAIN programs) /\ Len(chosen') = Len(request)
        BY <4>1, <4>2, <4>3
      <4>. QED BY <3>2, <4>3, <4>4 DEF Asked
    <3>. QED BY <3>1, <3>2
  <2>4. Asked' = Asked
    BY <1>0 DEF Asked
  <2>5. Chosen'
    BY <1>0, <2>1, <2>3, <2>4 DEF Chosen
  <2>6. Tallied'
    BY <1>0, <1>1, <2>1, <2>3 DEF Tallied
  <2>. QED BY <1>0, <2>1, <2>5, <2>6 DEF ExitCodeTellsAll
<1>. QED BY <1>2, <1>3

(* A verdict is counted as it is given. *)
LEMMA JudgeKept ==
  ASSUME CommandInv, Judge
  PROVE  CommandInv'
<1>. USE DEF CommandInv
<1>. DEFINE v == (errors = {})
<1>0. /\ UNCHANGED <<programs, request, chosen, exit_code>>
      /\ step = "walk" /\ step' = "next"
      /\ judged' = Append(judged, v)
      /\ failed' = IF v THEN failed ELSE failed + 1
  BY DEF Judge
<1>1. v \in BOOLEAN
  OBVIOUS
<1>. HIDE DEF v
<1>2. Chosen'
  BY <1>0 DEF Chosen, Asked
<1>3. judged \in Seq(BOOLEAN) /\ Len(judged) < Len(chosen) /\ Len(chosen) \in Nat
  BY <1>0 DEF Tallied, Chosen
<1>4. judged' \in Seq(BOOLEAN) /\ Len(judged') = Len(judged) + 1
  BY <1>0, <1>1, <1>3
<1>5. /\ judged'[Len(judged) + 1] = v
      /\ \A k \in 1 .. Len(judged) : judged'[k] = judged[k]
  BY <1>0, <1>1, <1>3
<1>6. failed' > 0 <=> \E k \in DOMAIN judged' : ~judged'[k]
  <2>0. DOMAIN judged = 1 .. Len(judged) /\ DOMAIN judged' = 1 .. Len(judged) + 1
    BY <1>3, <1>4
  <2>1. CASE v
    BY <1>0, <1>3, <1>5, <2>0, <2>1 DEF Tallied
  <2>2. CASE ~v
    BY <1>0, <1>3, <1>5, <2>0, <2>2 DEF Tallied
  <2>. QED BY <2>1, <2>2
<1>7. Tallied'
  BY <1>0, <1>3, <1>4, <1>6 DEF Tallied
<1>. QED BY <1>0, <1>2, <1>7 DEF ExitCodeTellsAll

(* The last line of run_check. *)
LEMMA ReturnKept ==
  ASSUME CommandInv, Return
  PROVE  CommandInv'
<1>. USE DEF CommandInv
<1>0. /\ UNCHANGED <<programs, request, chosen, passed, failed, judged>>
      /\ step = "next" /\ step' = "done"
      /\ Len(judged) = Len(chosen)
      /\ exit_code' = IF failed > 0 THEN 1 ELSE 0
  BY DEF Return, Verdict
<1>1. Chosen'
  BY <1>0 DEF Chosen
<1>2. Tallied'
  BY <1>0 DEF Tallied
<1>3. /\ Len(judged) = Asked /\ Asked > 0
      /\ failed > 0 <=> \E k \in DOMAIN judged : ~judged[k]
  BY <1>0 DEF Chosen, Tallied
<1>4. ExitCodeTellsAll'
  <2>1. CASE failed > 0
    BY <1>0, <1>3, <2>1 DEF ExitCodeTellsAll, Asked
  <2>2. CASE ~(failed > 0)
    BY <1>0, <1>3, <2>2 DEF ExitCodeTellsAll, Asked
  <2>. QED BY <2>1, <2>2
<1>. QED BY <1>0, <1>1, <1>2, <1>4

LEMMA CommandKept ==
  ASSUME CommandInv, [Next]_vars
  PROVE  CommandInv'
<1>1. CASE Select
  BY <1>1, SelectKept
<1>2. CASE StartWalk
  BY <1>2 DEF StartWalk, CommandInv, Chosen, Tallied, Asked, ExitCodeTellsAll
<1>3. CASE Judge
  BY <1>3, JudgeKept
<1>4. CASE Return
  BY <1>4, ReturnKept
<1>5. CASE UNCHANGED command
  BY <1>5 DEF command, CommandInv, Chosen, Tallied, Asked, ExitCodeTellsAll
<1>6. Walk \/ Load \/ RunInsn \/ RunExit \/ Rest \/ UNCHANGED vars => UNCHANGED command
  BY DEF Walk, Load, RunInsn, RunExit, Rest, vars
<1>. QED BY <1>1, <1>2, <1>3, <1>4, <1>5, <1>6 DEF Next, Command

(* ExitCodeTellsAll: run_check returns 0 only when every programme asked   *)
(* for was judged and passed, 1 only when each was judged and one failed,  *)
(* 2 only when none was judged.                                            *)
THEOREM ExitCodeIsComplete == Spec => []ExitCodeTellsAll
<1>1. CommandInv /\ [Next]_vars => CommandInv'
  BY CommandKept
<1>2. CommandInv => ExitCodeTellsAll
  BY DEF CommandInv
<1>. QED BY Started, <1>1, <1>2, PTL DEF Spec

-----------------------------------------------------------------------------
(* One turn of the loop of check_with_relocs as a function of its locals:  *)
(* program, pc, state, deferred branches, explored states, errors, count,  *)
(* EXIT reached, next id, finished, visits.  That the actions of Explore   *)
(* leave nothing else to choose is what makes a verdict one of the list.   *)
Locals(p, q, s, waits, seen, errs, n, exit, id, fin, vis) ==
  [prog |-> p, pc |-> q, state |-> s, backtrack |-> waits, explored |-> seen, errors |-> errs,
   total_visited |-> n, reached_exit |-> exit, next_id |-> id, finished |-> fin, visits |-> vis]

Closed(exit, errs) ==
  IF ~exit /\ \A e \in errs : e[2] # "ComplexityExceeded"
    THEN errs \cup {<<0, "FallThrough">>}
    ELSE errs

PathEnded(p, q, s, waits, seen, errs, n, exit, id, fin, vis) ==
  IF waits # <<>>
    THEN Locals(p, Head(waits).pc, Head(waits).state, Tail(waits), seen, errs, n, exit, id, fin, vis)
    ELSE Locals(p, q, s, waits, seen, Closed(exit, errs), n, exit, id, TRUE, vis)

Processed(p, q, s, t, waits, seen, errs, n, exit, id, fin, vis) ==
  LET o == Exec(p, q, t, id) IN
  Locals(p,
         IF o.kind = "stop" THEN Len(p) ELSE o.next.pc,
         IF o.kind = "stop" THEN t ELSE o.next.state,
         IF o.kind = "branch" THEN <<o.taken>> \o waits ELSE waits,
         seen, errs \cup {<<q, k>> : k \in o.err}, n, exit \/ o.exit, id + o.ids, fin,
         vis \cup {[pc |-> q, arrived |-> s, state |-> t, id |-> id]})

Turn(p, q, s, waits, seen, errs, n, exit, id, fin, vis) ==
  IF q >= Len(p) THEN PathEnded(p, q, s, waits, seen, errs, n, exit, id, fin, vis)
  ELSE IF n + 1 > ComplexityLimit
    THEN Locals(p, q, s, waits, seen, Closed(exit, errs \cup {<<q, "ComplexityExceeded">>}), n + 1,
                exit, id, TRUE, vis)
  ELSE IF \E i \in DOMAIN seen[q] : state_leq(s, seen[q][i])
    THEN PathEnded(p, q, s, waits, seen, errs, n + 1, exit, id, fin, vis)
  ELSE IF IsBackEdge(p, q) /\ seen[q] # <<>>
    THEN LET t == state_widen(seen[q][1], s) IN
         Processed(p, q, s, t, waits, [seen EXCEPT ![q] = [@ EXCEPT ![1] = t]], errs, n + 1, exit, id, fin, vis)
  ELSE IF Len(seen[q]) < MaxStatesPerPc
    THEN Processed(p, q, s, s, waits, [seen EXCEPT ![q] = Append(@, s)], errs, n + 1, exit, id, fin, vis)
    ELSE Processed(p, q, s, s, waits, seen, errs, n + 1, exit, id, fin, vis)

Now == Locals(prog, pc, state, backtrack, explored, errors, total_visited, reached_exit, next_id, finished, visits)

Then(w) == Turn(w.prog, w.pc, w.state, w.backtrack, w.explored, w.errors, w.total_visited, w.reached_exit,
                w.next_id, w.finished, w.visits)

(* The locals are those of a walk: where it continues from is a number,    *)
(* and each instruction has a list of states.                              *)
Waits(b) == \E T : b \in Seq(T) /\ \A x \in T : x.pc \in Nat

WalkTyped ==
  /\ prog \in Seq(Instructions)
  /\ pc \in Nat
  /\ total_visited \in Nat
  /\ Waits(backtrack)
  /\ \E T : explored \in [Indices(prog) -> Seq(T)]

LEMMA ThenIsTurn ==
  Then(Now) = Turn(prog, pc, state, backtrack, explored, errors, total_visited, reached_exit, next_id,
                   finished, visits)
  BY DEF Then, Now, Locals

LEMMA OnePathEnd ==
  ASSUME W!EndPath, UNCHANGED <<prog, explored, reached_exit, next_id, visits>>
  PROVE  Now' = PathEnded(prog, pc, state, backtrack, explored, errors, total_visited', reached_exit, next_id,
                          finished, visits)
<1>1. CASE backtrack # <<>>
  BY <1>1 DEF W!EndPath, Now, Locals, PathEnded
<1>2. CASE backtrack = <<>>
  <2>1. W!Concluded(errors) = Closed(reached_exit, errors)
    BY DEF W!Concluded, Closed
  <2>. QED BY <1>2, <2>1 DEF W!EndPath, Now, Locals, PathEnded
<1>. QED BY <1>1, <1>2

LEMMA OneProcess ==
  ASSUME NEW t, W!Process(t), UNCHANGED <<prog, finished>>
  PROVE  Now' = Processed(prog, pc, state, t, backtrack, explored', errors, total_visited', reached_exit, next_id,
                          finished, visits)
<1>. DEFINE o == Exec(prog, pc, t, next_id)
<1>1. /\ errors' = errors \cup {<<pc, k>> : k \in o.err}
      /\ reached_exit' = (reached_exit \/ o.exit)
      /\ next_id' = next_id + o.ids
      /\ visits' = visits \cup {[pc |-> pc, arrived |-> state, state |-> t, id |-> next_id]}
  BY DEF W!Process
<1>2. /\ pc' = IF o.kind = "stop" THEN Len(prog) ELSE o.next.pc
      /\ state' = IF o.kind = "stop" THEN t ELSE o.next.state
      /\ backtrack' = IF o.kind = "branch" THEN <<o.taken>> \o backtrack ELSE backtrack
  BY DEF W!Process
<1>. QED BY <1>1, <1>2 DEF Now, Locals, Processed

(* The next step of a walk is the turn of its locals. *)
LEMMA OneTurn ==
  ASSUME WalkTyped, W!Next
  PROVE  ~finished /\ Now' = Then(Now)
<1>. DEFINE next == Turn(prog, pc, state, backtrack, explored, errors, total_visited, reached_exit, next_id,
                         finished, visits)
<1>0. Len(prog) \in Nat /\ pc \in Nat /\ total_visited \in Nat /\ ComplexityLimit \in Nat
  BY CommandAssumption DEF WalkTyped
<1>S. ASSUME pc < Len(prog) PROVE Len(explored[pc]) \in Nat
  <2>1. PICK T : explored \in [Indices(prog) -> Seq(T)]
    BY DEF WalkTyped
  <2>2. pc \in Indices(prog)
    BY <1>0, <1>S DEF Indices
  <2>. QED BY <2>1, <2>2
<1>1. CASE W!PathOver
  <2>1. ~finished /\ pc >= Len(prog) /\ total_visited' = total_visited
    BY <1>1 DEF W!PathOver
  <2>2. Now' = PathEnded(prog, pc, state, backtrack, explored, errors, total_visited', reached_exit, next_id,
                         finished, visits)
    BY <1>1, OnePathEnd DEF W!PathOver
  <2>. QED BY <2>1, <2>2, ThenIsTurn DEF Turn
<1>2. CASE W!TooComplex
  <2>1. /\ ~finished /\ ~(pc >= Len(prog)) /\ total_visited' = total_visited + 1
        /\ total_visited + 1 > ComplexityLimit
        /\ UNCHANGED <<prog, pc, state, backtrack, explored, reached_exit, next_id, visits>>
        /\ finished' = TRUE
        /\ errors' = Closed(reached_exit, errors \cup {<<pc, "ComplexityExceeded">>})
    BY <1>0, <1>2 DEF W!TooComplex, W!Concluded, Closed
  <2>. QED BY <2>1, ThenIsTurn DEF Turn, Now, Locals
<1>3. ASSUME W!Counted
      PROVE  /\ ~finished /\ ~(pc >= Len(prog)) /\ total_visited' = total_visited + 1
             /\ ~(total_visited + 1 > ComplexityLimit)
  BY <1>0, <1>3 DEF W!Counted
<1>4. W!Dominated <=> \E i \in DOMAIN explored[pc] : state_leq(state, explored[pc][i])
  BY DEF W!Dominated
<1>5. W!AtLoopHead <=> IsBackEdge(prog, pc) /\ explored[pc] # <<>>
  BY DEF W!AtLoopHead
<1>6. CASE W!Prune
  <2>1. W!Counted /\ W!Dominated
    BY <1>6 DEF W!Prune
  <2>2. Now' = PathEnded(prog, pc, state, backtrack, explored, errors, total_visited', reached_exit, next_id,
                         finished, visits)
    BY <1>6, OnePathEnd DEF W!Prune
  <2>. QED BY <1>3, <1>4, <2>1, <2>2, ThenIsTurn DEF Turn
<1>7. CASE W!VisitLoopHead
  <2>. DEFINE t == state_widen(explored[pc][1], state)
  <2>1. W!Counted /\ ~W!Dominated /\ W!AtLoopHead
    BY <1>7 DEF W!VisitLoopHead
  <2>2. explored' = [explored EXCEPT ![pc] = [@ EXCEPT ![1] = t]] /\ W!Process(t) /\ UNCHANGED <<prog, finished>>
    BY <1>7 DEF W!VisitLoopHead
  <2>3. Now' = Processed(prog, pc, state, t, backtrack, explored', errors, total_visited', reached_exit, next_id,
                         finished, visits)
    BY <2>2, OneProcess
  <2>. QED BY <1>3, <1>4, <1>5, <2>1, <2>2, <2>3, ThenIsTurn DEF Turn
<1>8. CASE W!VisitAndStore
  <2>1. W!Counted /\ ~W!Dominated /\ ~W!AtLoopHead /\ Len(explored[pc]) < MaxStatesPerPc
    BY <1>8 DEF W!VisitAndStore
  <2>2. explored' = [explored EXCEPT ![pc] = Append(@, state)] /\ W!Process(state) /\ UNCHANGED <<prog, finished>>
    BY <1>8 DEF W!VisitAndStore
  <2>3. Now' = Processed(prog, pc, state, state, backtrack, explored', errors, total_visited', reached_exit, next_id,
                         finished, visits)
    BY <2>2, OneProcess
  <2>. QED BY <1>3, <1>4, <1>5, <2>1, <2>2, <2>3, ThenIsTurn DEF Turn
<1>9. CASE W!VisitOnly
  <2>1. W!Counted /\ ~W!Dominated /\ ~W!AtLoopHead /\ ~(Len(explored[pc]) < MaxStatesPerPc)
    BY <1>S, <1>9, CommandAssumption DEF W!VisitOnly, W!Counted
  <2>2. UNCHANGED explored /\ W!Process(state) /\ UNCHANGED <<prog, finished>>
    BY <1>9 DEF W!VisitOnly
  <2>3. Now' = Processed(prog, pc, state, state, backtrack, explored', errors, total_visited', reached_exit, next_id,
                         finished, visits)
    BY <2>2, OneProcess
  <2>. QED BY <1>3, <1>4, <1>5, <2>1, <2>2, <2>3, ThenIsTurn DEF Turn
<1>. QED BY <1>1, <1>2, <1>6, <1>7, <1>8, <1>9 DEF W!Next

(* Control goes to the next instruction or to one of the list. *)
LEMMA GoesToNumbers ==
  ASSUME NEW code \in Seq(Instructions), NEW q \in Nat, NEW s, NEW id
  PROVE  LET o == Exec(code, q, s, id) IN o.next.pc \in Nat /\ o.taken.pc \in Nat
<1>. DEFINE i == At(code, q)
            e == Execute(i, s, id)
            goes == resolve_branch_target(code, q, i.off)
            t == CHOOSE t \in goes : TRUE
            o == Outcome(i, q, s, e, goes)
<1>1. \A k \in goes : k \in Nat
  <2>1. goes \subseteq 0 .. Len(code) - 1
    BY DEF resolve_branch_target, raw_to_collapsed, Indices
  <2>2. Len(code) \in Nat
    OBVIOUS
  <2>. QED BY <2>1, <2>2
<1>2. goes # {} => t \in Nat
  BY <1>1
<1>3. Exec(code, q, s, id) = o
  BY DEF Exec
<1>4. q + 1 \in Nat
  OBVIOUS
<1>. HIDE DEF goes, t, e, i
<1>5. o.next.pc \in {q + 1, t} /\ o.taken.pc \in {q + 1, t}
      /\ (goes = {} => o.next.pc = q + 1 /\ o.taken.pc = q + 1)
  BY DEF Outcome, Place, t
<1>. HIDE DEF o
<1>. QED BY <1>2, <1>3, <1>4, <1>5

LEMMA WaitsKept ==
  ASSUME NEW b, Waits(b)
  PROVE  /\ b # <<>> => Head(b).pc \in Nat /\ Waits(Tail(b))
         /\ \A x : x.pc \in Nat => Waits(<<x>> \o b)
<1>1. PICK T : b \in Seq(T) /\ \A x \in T : x.pc \in Nat
  BY DEF Waits
<1>2. ASSUME b # <<>> PROVE Head(b).pc \in Nat /\ Waits(Tail(b))
  <2>1. Head(b) \in T /\ Tail(b) \in Seq(T)
    BY <1>1, <1>2
  <2>. QED BY <1>1, <2>1 DEF Waits
<1>3. ASSUME NEW x, x.pc \in Nat PROVE Waits(<<x>> \o b)
  <2>. DEFINE U == T \cup {x}
  <2>1. b \in Seq(U) /\ <<x>> \in Seq(U)
    BY <1>1
  <2>2. <<x>> \o b \in Seq(U)
    <3>. HIDE DEF U
    <3>. QED BY <2>1
  <2>3. \A y \in U : y.pc \in Nat
    BY <1>1, <1>3
  <2>. HIDE DEF U
  <2>. QED BY <2>2, <2>3 DEF Waits
<1>. QED BY <1>2, <1>3

(* check_with_relocs starts from the list and from nothing else. *)
Start(list) ==
  Locals(list, 0, entry, <<>>, [q \in Indices(list) |-> <<>>],
         IF list = <<>> THEN {<<0, "FallThrough">>} ELSE {}, 0, FALSE, 0, list = <<>>, {})

LEMMA BeginsTyped ==
  ASSUME NEW list \in Seq(Instructions), Begin(list)
  PROVE  WalkTyped' /\ Now' = Start(list)
<1>1. Now' = Start(list)
  BY DEF Begin, Now, Start, Locals
<1>2. prog' = list /\ pc' = 0 /\ total_visited' = 0 /\ backtrack' = <<>>
      /\ explored' = [q \in Indices(list) |-> <<>>]
  BY DEF Begin
<1>3. Waits(backtrack')
  <2>1. <<>> \in Seq({})
    OBVIOUS
  <2>2. Waits(<<>>)
    <3>. DEFINE T == {}
    <3>1. <<>> \in Seq(T) /\ \A x \in T : x.pc \in Nat
      BY <2>1
    <3>. HIDE DEF T
    <3>. QED BY <3>1 DEF Waits
  <2>. QED BY <1>2, <2>2
<1>4. explored' \in [Indices(prog') -> Seq({})]
  BY <1>2
<1>. QED BY <1>1, <1>2, <1>3, <1>4 DEF WalkTyped

LEMMA EndsTyped ==
  ASSUME WalkTyped, W!EndPath, UNCHANGED prog
  PROVE  pc' \in Nat /\ Waits(backtrack')
<1>1. CASE backtrack # <<>>
  BY <1>1, WaitsKept DEF W!EndPath, WalkTyped
<1>2. CASE backtrack = <<>>
  BY <1>2 DEF W!EndPath, WalkTyped
<1>. QED BY <1>1, <1>2

LEMMA ProcessTyped ==
  ASSUME WalkTyped, NEW t, W!Process(t)
  PROVE  pc' \in Nat /\ Waits(backtrack')
<1>. DEFINE o == Exec(prog, pc, t, next_id)
<1>1. o.next.pc \in Nat /\ o.taken.pc \in Nat /\ Len(prog) \in Nat
  BY GoesToNumbers DEF WalkTyped
<1>2. pc' \in {Len(prog), o.next.pc} /\ backtrack' \in {backtrack, <<o.taken>> \o backtrack}
  BY DEF W!Process
<1>. HIDE DEF o
<1>3. Waits(backtrack) /\ Waits(<<o.taken>> \o backtrack)
  BY <1>1, WaitsKept DEF WalkTyped
<1>. QED BY <1>1, <1>2, <1>3

LEMMA TurnTyped ==
  ASSUME WalkTyped, W!Next
  PROVE  WalkTyped'
<1>0. prog' = prog /\ prog \in Seq(Instructions) /\ pc \in Nat /\ Waits(backtrack)
  BY DEF WalkTyped, W!Next, W!PathOver, W!TooComplex, W!Prune, W!VisitLoopHead, W!VisitAndStore, W!VisitOnly
<1>1. total_visited' \in Nat
  BY DEF WalkTyped, W!Next, W!PathOver, W!TooComplex, W!Prune, W!VisitLoopHead, W!VisitAndStore, W!VisitOnly,
         W!Counted
<1>2. pc' \in Nat /\ Waits(backtrack')
  <2>1. CASE W!PathOver \/ W!Prune
    BY <2>1, EndsTyped DEF W!PathOver, W!Prune
  <2>2. CASE W!TooComplex
    BY <1>0, <2>2 DEF W!TooComplex
  <2>3. CASE W!VisitLoopHead \/ W!VisitAndStore \/ W!VisitOnly
    <3>1. \E t : W!Process(t)
      BY <2>3 DEF W!VisitLoopHead, W!VisitAndStore, W!VisitOnly
    <3>. QED BY <3>1, ProcessTyped
  <2>. QED BY <2>1, <2>2, <2>3 DEF W!Next
<1>3. PICK T : explored \in [Indices(prog) -> Seq(T)]
  BY DEF WalkTyped
<1>4. ASSUME W!Counted PROVE explored[pc] \in Seq(T)
  <2>1. pc \in Indices(prog)
    BY <1>0, <1>4 DEF W!Counted, Indices
  <2>. QED BY <1>3, <2>1
<1>5. \E U : explored' \in [Indices(prog) -> Seq(U)]
  <2>1. CASE UNCHANGED explored
    BY <1>3, <2>1
  <2>2. CASE W!VisitLoopHead
    <3>. DEFINE t == state_widen(explored[pc][1], state)
                U == T \cup {t}
                new == [explored[pc] EXCEPT ![1] = t]
    <3>1. explored' = [explored EXCEPT ![pc] = new] /\ explored[pc] \in Seq(T)
      BY <1>4, <2>2 DEF W!VisitLoopHead
    <3>2. new \in Seq(U)
      <4>. DEFINE e == explored[pc]
      <4>1. e \in Seq(U) /\ t \in U
        BY <3>1
      <4>. HIDE DEF e, t, U
      <4>2. Len(e) \in Nat /\ e \in [1 .. Len(e) -> U]
        BY <4>1
      <4>3. [e EXCEPT ![1] = t] \in [1 .. Len(e) -> U]
        BY <4>1, <4>2
      <4>4. [e EXCEPT ![1] = t] \in Seq(U)
        BY <4>2, <4>3
      <4>. QED BY <4>4 DEF e
    <3>3. explored \in [Indices(prog) -> Seq(U)]
      BY <1>3
    <3>. HIDE DEF new, U
    <3>4. explored' \in [Indices(prog) -> Seq(U)]
      BY <3>1, <3>2, <3>3
    <3>. QED BY <3>4
  <2>3. CASE W!VisitAndStore
    <3>. DEFINE U == T \cup {state}
                new == Append(explored[pc], state)
    <3>1. explored' = [explored EXCEPT ![pc] = new] /\ explored[pc] \in Seq(T)
      BY <1>4, <2>3 DEF W!VisitAndStore
    <3>2. new \in Seq(U)
      <4>1. explored[pc] \in Seq(U) /\ state \in U
        BY <3>1
      <4>. HIDE DEF U
      <4>. QED BY <4>1
    <3>3. explored \in [Indices(prog) -> Seq(U)]
      BY <1>3
    <3>. HIDE DEF new, U
    <3>4. explored' \in [Indices(prog) -> Seq(U)]
      BY <3>1, <3>2, <3>3
    <3>. QED BY <3>4
  <2>4. W!PathOver \/ W!TooComplex \/ W!Prune \/ W!VisitOnly => UNCHANGED explored
    BY DEF W!PathOver, W!TooComplex, W!Prune, W!VisitOnly
  <2>. QED BY <2>1, <2>2, <2>3, <2>4 DEF W!Next
<1>. QED BY <1>0, <1>1, <1>2, <1>5 DEF WalkTyped

-----------------------------------------------------------------------------
(* The locals w are what n turns make of the start on a list.  The turns   *)
(* end with the first locals that are finished, so that there is at most   *)
(* one result for a list.                                                  *)
Trace(list, t, n) ==
  /\ t[0] = Start(list)
  /\ \A k \in 0 .. n - 1 : ~t[k].finished /\ t[k + 1] = Then(t[k])

WalksTo(list, w) == \E n \in Nat : \E t : Trace(list, t, n) /\ t[n] = w

LEMMA WalkStarts ==
  ASSUME NEW list
  PROVE  WalksTo(list, Start(list))
<1>. DEFINE t == [k \in {0} |-> Start(list)]
<1>1. Trace(list, t, 0) /\ t[0] = Start(list)
  BY DEF Trace
<1>. HIDE DEF t
<1>. QED BY <1>1 DEF WalksTo

LEMMA WalkGoesOn ==
  ASSUME NEW list, NEW w, WalksTo(list, w), ~w.finished
  PROVE  WalksTo(list, Then(w))
<1>1. PICK n \in Nat : \E t : Trace(list, t, n) /\ t[n] = w
  BY DEF WalksTo
<1>2. PICK t : Trace(list, t, n) /\ t[n] = w
  BY <1>1
<1>. DEFINE u == [k \in 0 .. n + 1 |-> IF k = n + 1 THEN Then(w) ELSE t[k]]
<1>3. u[0] = Start(list) /\ u[n + 1] = Then(w)
  BY <1>2 DEF Trace
<1>4. ASSUME NEW k \in 0 .. n PROVE ~u[k].finished /\ u[k + 1] = Then(u[k])
  <2>1. CASE k = n
    BY <1>2, <2>1
  <2>2. CASE k # n
    <3>1. k \in 0 .. n - 1 /\ k + 1 \in 0 .. n
      BY <2>2
    <3>2. u[k] = t[k] /\ u[k + 1] = t[k + 1]
      BY <3>1
    <3>. HIDE DEF u
    <3>. QED BY <1>2, <3>1, <3>2 DEF Trace
  <2>. QED BY <2>1, <2>2
<1>. HIDE DEF u
<1>5. Trace(list, u, n + 1)
  BY <1>3, <1>4 DEF Trace
<1>. QED BY <1>3, <1>5 DEF WalksTo

LEMMA TracesAgree ==
  ASSUME NEW list, NEW n \in Nat, NEW t, NEW u, Trace(list, t, n), Trace(list, u, n)
  PROVE  \A k \in 0 .. n : t[k] = u[k]
<1>. DEFINE Same == {k \in 0 .. n : t[k] = u[k]}
<1>1. 0 \in Same
  BY DEF Trace
<1>2. \A k \in 0 .. n - 1 : k \in Same => k + 1 \in Same
  BY DEF Trace
<1>. HIDE DEF Same
<1>3. \A k \in 0 .. n : k \in Same
  BY <1>1, <1>2, AlongTheList
<1>. QED BY <1>3 DEF Same

(* The longer of two walks would have gone on from a result. *)
LEMMA NoLongerWalk ==
  ASSUME NEW list, NEW n \in Nat, NEW m \in Nat, NEW t, NEW u, Trace(list, t, n), Trace(list, u, m),
         t[n].finished, n <= m
  PROVE  n = m /\ t[n] = u[n]
<1>1. Trace(list, u, n)
  BY DEF Trace
<1>2. t[n] = u[n]
  BY <1>1, TracesAgree
<1>. QED BY <1>2 DEF Trace

LEMMA OneResult ==
  ASSUME NEW list, NEW v, NEW w, WalksTo(list, v), WalksTo(list, w), v.finished, w.finished
  PROVE  v = w
<1>1. PICK n \in Nat : \E t : Trace(list, t, n) /\ t[n] = v
  BY DEF WalksTo
<1>2. PICK t : Trace(list, t, n) /\ t[n] = v
  BY <1>1
<1>3. PICK m \in Nat : \E u : Trace(list, u, m) /\ u[m] = w
  BY DEF WalksTo
<1>4. PICK u : Trace(list, u, m) /\ u[m] = w
  BY <1>3
<1>5. CASE n <= m
  BY <1>2, <1>4, <1>5, NoLongerWalk
<1>6. CASE m <= n
  BY <1>2, <1>4, <1>6, NoLongerWalk
<1>. QED BY <1>5, <1>6

-----------------------------------------------------------------------------
(* Every verdict given so far is the result of a walk over its own list,   *)
(* and the walk under way is one over the list that is next.               *)
ListOf(k) == decode(programs[chosen[k]].raw)

VerdictOf(list, v) == \E w : WalksTo(list, w) /\ w.finished /\ (v <=> w.errors = {})

WalkInv ==
  /\ CommandInv
  /\ WalkTyped
  /\ step = "walk" => WalksTo(ListOf(Len(judged) + 1), Now)
  /\ \A k \in DOMAIN judged : VerdictOf(ListOf(k), judged[k])

LEMMA WalkInvStarts == Init => WalkInv
<1>. SUFFICES ASSUME Init PROVE WalkInv
  OBVIOUS
<1>1. prog = <<>> /\ pc = 0 /\ total_visited = 0 /\ backtrack = <<>> /\ explored = <<>>
      /\ step = "select" /\ judged = <<>>
  BY DEF Init
<1>2. Waits(<<>>)
  <2>. DEFINE T == {}
  <2>1. <<>> \in Seq(T) /\ \A x \in T : x.pc \in Nat
    OBVIOUS
  <2>. HIDE DEF T
  <2>. QED BY <2>1 DEF Waits
<1>3. <<>> \in [Indices(<<>>) -> Seq({})]
  <2>1. Indices(<<>>) = {}
    BY DEF Indices
  <2>. QED BY <2>1
<1>4. WalkTyped
  BY <1>1, <1>2, <1>3 DEF WalkTyped
<1>5. DOMAIN judged = {}
  BY <1>1
<1>. QED BY <1>1, <1>4, <1>5, Started DEF WalkInv

LEMMA ListsKept ==
  ASSUME UNCHANGED <<programs, chosen>>
  PROVE  \A k : ListOf(k)' = ListOf(k)
  BY DEF ListOf

LEMMA StartWalkKept ==
  ASSUME WalkInv, StartWalk
  PROVE  WalkInv'
<1>. DEFINE list == ListOf(Len(judged) + 1)
<1>1. CommandInv' /\ UNCHANGED <<programs, chosen, judged>> /\ Begin(list) /\ step = "next"
  BY CommandKept DEF WalkInv, StartWalk, Next, Command, ListOf
<1>2. list \in Seq(Instructions)
  <2>1. programs \in Seq(Object) /\ chosen \in Seq(DOMAIN programs) /\ judged \in Seq(BOOLEAN)
        /\ Len(judged) < Len(chosen)
    BY DEF WalkInv, CommandInv, Chosen, Tallied, StartWalk
  <2>2. Len(judged) + 1 \in 1 .. Len(chosen)
    BY <2>1
  <2>3. programs[chosen[Len(judged) + 1]] \in Object
    BY <2>1, <2>2
  <2>4. programs[chosen[Len(judged) + 1]].raw \in Seq(Instructions)
    BY <2>3 DEF Object
  <2>. QED BY <2>4, DecodedList DEF ListOf
<1>3. list' = list /\ \A k : ListOf(k)' = ListOf(k)
  BY <1>1 DEF ListOf
<1>. HIDE DEF list
<1>4. WalkTyped' /\ Now' = Start(list)
  BY <1>1, <1>2, BeginsTyped
<1>5. WalksTo(list, Now')
  BY <1>4, WalkStarts
<1>6. (WalksTo(ListOf(Len(judged) + 1), Now))'
  BY <1>1, <1>3, <1>5 DEF list, WalksTo
<1>7. (\A k \in DOMAIN judged : VerdictOf(ListOf(k), judged[k]))'
  BY <1>1, <1>3 DEF WalkInv, VerdictOf
<1>. QED BY <1>1, <1>4, <1>6, <1>7 DEF WalkInv

LEMMA WalkKept ==
  ASSUME WalkInv, Walk
  PROVE  WalkInv'
<1>. DEFINE list == ListOf(Len(judged) + 1)
<1>1. CommandInv' /\ UNCHANGED <<programs, chosen, judged, step>> /\ step = "walk" /\ W!Next
  BY CommandKept DEF WalkInv, Walk, Next, Command, command
<1>2. WalkTyped'
  BY <1>1, TurnTyped DEF WalkInv
<1>3. ~finished /\ Now' = Then(Now) /\ Now.finished = finished
  BY <1>1, OneTurn DEF WalkInv, Now, Locals
<1>4. WalksTo(list, Now)
  BY <1>1 DEF WalkInv
<1>5. WalksTo(list, Now')
  BY <1>3, <1>4, WalkGoesOn
<1>6. list' = list /\ \A k : ListOf(k)' = ListOf(k)
  BY <1>1 DEF ListOf
<1>. HIDE DEF list
<1>7. (WalksTo(ListOf(Len(judged) + 1), Now))'
  BY <1>1, <1>5, <1>6 DEF list, WalksTo
<1>8. (\A k \in DOMAIN judged : VerdictOf(ListOf(k), judged[k]))'
  BY <1>1, <1>6 DEF WalkInv, VerdictOf
<1>. QED BY <1>1, <1>2, <1>7, <1>8 DEF WalkInv

(* A verdict is given from the locals of a walk that is finished. *)
LEMMA VerdictKept ==
  ASSUME WalkInv, Judge
  PROVE  WalkInv'
<1>. DEFINE v == (errors = {})
<1>1. CommandInv' /\ UNCHANGED <<programs, chosen, walk>> /\ step = "walk" /\ step' = "next" /\ finished
      /\ judged' = Append(judged, v)
  BY CommandKept DEF WalkInv, Judge, Next, Command
<1>2. WalkTyped'
  BY <1>1 DEF WalkInv, WalkTyped, walk
<1>3. VerdictOf(ListOf(Len(judged) + 1), v)
  <2>1. WalksTo(ListOf(Len(judged) + 1), Now) /\ Now.finished /\ (v <=> Now.errors = {})
    BY <1>1 DEF WalkInv, Now, Locals
  <2>. QED BY <2>1 DEF VerdictOf
<1>. HIDE DEF v
<1>4. v \in BOOLEAN /\ judged \in Seq(BOOLEAN)
  BY DEF v, WalkInv, CommandInv, Tallied
<1>5. \A k : ListOf(k)' = ListOf(k)
  BY <1>1 DEF ListOf
<1>6. ASSUME NEW k \in DOMAIN judged' PROVE VerdictOf(ListOf(k), judged'[k])
  <2>0. DOMAIN judged' = 1 .. Len(judged) + 1 /\ DOMAIN judged = 1 .. Len(judged) /\ Len(judged) \in Nat
    BY <1>1, <1>4
  <2>1. (k = Len(judged) + 1 /\ judged'[k] = v) \/ (k \in DOMAIN judged /\ judged'[k] = judged[k])
    BY <1>1, <1>4, <2>0
  <2>. QED BY <1>3, <2>1 DEF WalkInv
<1>7. (\A k \in DOMAIN judged : VerdictOf(ListOf(k), judged[k]))'
  BY <1>5, <1>6 DEF VerdictOf
<1>. QED BY <1>1, <1>2, <1>7 DEF WalkInv

(* find_program is asked before anything is judged. *)
LEMMA WalkInvSelected ==
  ASSUME WalkInv, Select
  PROVE  WalkInv'
<1>1. CommandInv' /\ UNCHANGED <<walk, judged>> /\ step = "select" /\ step' \in {"done", "next"}
  BY CommandKept DEF WalkInv, Select, Next, Command
<1>2. WalkTyped'
  BY <1>1 DEF WalkInv, WalkTyped, walk
<1>3. DOMAIN judged' = {}
  <2>1. judged \in Seq(BOOLEAN) /\ Len(judged) <= Len(chosen) /\ chosen = <<>>
    BY <1>1 DEF WalkInv, CommandInv, Chosen, Tallied
  <2>. QED BY <1>1, <2>1
<1>. QED BY <1>1, <1>2, <1>3 DEF WalkInv

LEMMA WalkInvKept ==
  ASSUME WalkInv, [Next]_vars
  PROVE  WalkInv'
<1>1. CommandInv'
  BY CommandKept DEF WalkInv
<1>2. CASE UNCHANGED <<programs, chosen, judged, walk>> /\ (step' = "walk" => step = "walk")
  <2>1. WalkTyped' /\ Now' = Now /\ \A k : ListOf(k)' = ListOf(k)
    BY <1>2 DEF WalkInv, WalkTyped, walk, Now, ListOf
  <2>2. (step = "walk" => WalksTo(ListOf(Len(judged) + 1), Now))'
    BY <1>2, <2>1 DEF WalkInv, WalksTo
  <2>3. (\A k \in DOMAIN judged : VerdictOf(ListOf(k), judged[k]))'
    BY <1>2, <2>1 DEF WalkInv, VerdictOf
  <2>. QED BY <1>1, <2>1, <2>2, <2>3 DEF WalkInv
<1>3. Return \/ Load \/ RunInsn \/ RunExit \/ Rest \/ UNCHANGED vars
        => UNCHANGED <<programs, chosen, judged, walk>> /\ (step' = "walk" => step = "walk")
  BY DEF Return, Load, RunInsn, RunExit, Rest, vars, command
<1>. QED BY <1>2, <1>3, WalkInvSelected, StartWalkKept, WalkKept, VerdictKept DEF Next, Command

(* VerdictIsItsOwn: check_with_relocs starts from nothing and chooses      *)
(* nothing, so the verdict on a programme is the same wherever in the      *)
(* command it is checked.                                                  *)
THEOREM VerdictsAreTheirOwn == Spec => []VerdictIsItsOwn
<1>1. WalkInv /\ [Next]_vars => WalkInv'
  BY WalkInvKept
<1>2. WalkInv => VerdictIsItsOwn
  <2>. SUFFICES ASSUME WalkInv, NEW j \in DOMAIN judged, NEW k \in DOMAIN judged, chosen[j] = chosen[k]
                PROVE  judged[j] = judged[k]
    BY DEF VerdictIsItsOwn
  <2>1. ListOf(j) = ListOf(k)
    BY DEF ListOf
  <2>2. PICK v : WalksTo(ListOf(j), v) /\ v.finished /\ (judged[j] <=> v.errors = {})
    BY DEF WalkInv, VerdictOf
  <2>3. PICK w : WalksTo(ListOf(j), w) /\ w.finished /\ (judged[k] <=> w.errors = {})
    BY <2>1 DEF WalkInv, VerdictOf
  <2>4. v = w
    BY <2>2, <2>3, OneResult
  <2>5. judged[j] \in BOOLEAN /\ judged[k] \in BOOLEAN
    BY DEF WalkInv, CommandInv, Tallied
  <2>. QED BY <2>2, <2>3, <2>4, <2>5
<1>. QED BY WalkInvStarts, <1>1, <1>2, PTL DEF Spec

-----------------------------------------------------------------------------
(* Registers, register files, frames and states, told by their types. *)
TypeKind == {"Uninit", "Scalar", "Null", "KernelPtr", "FramePtr", "CtxPtr", "DataPtr", "MapValuePtr",
             "RingBufPtr", "PtrOrNull"}

IsPlain(t) == "kind" \in DOMAIN t /\ t.kind \in TypeKind \ {"PtrOrNull"}
IsType(t)  == IsPlain(t) \/ ("kind" \in DOMAIN t /\ t.kind = "PtrOrNull" /\ IsPlain(t.inner))

IsRegister(r)  == "type" \in DOMAIN r /\ IsType(r.type)
IsFile(regs)   == DOMAIN regs = Reg /\ \A r \in Reg : IsRegister(regs[r])
IsFrame(stack) == "spills" \in DOMAIN stack /\ \A o \in DOMAIN stack.spills : IsRegister(stack.spills[o])
IsState(st)    == {"regs", "stack"} \subseteq DOMAIN st /\ IsFile(st.regs) /\ IsFrame(st.stack)

(* A register of which the numbers have changed and nothing else. *)
SameType(r, q) == DOMAIN q = DOMAIN r /\ q.type = r.type

LEMMA SameTypeIsRegister ==
  ASSUME NEW r, NEW q, IsRegister(r), SameType(r, q)
  PROVE  IsRegister(q)
  BY DEF IsRegister, SameType

LEMMA MadeRegisters ==
  /\ \A t : IsType(t) => IsRegister(RegOf(t)) /\ RegOf(t).type = t
  /\ \A v : IsRegister(scalar_value(v)) /\ scalar_value(v).type = Scalar
  /\ IsRegister(null)
  /\ IsRegister(scalar_unknown) /\ IsRegister(kernel_ptr) /\ IsRegister(uninit) /\ ~is_readable(uninit)
<1>1. \A t : IsType(t) => IsRegister(RegOf(t)) /\ RegOf(t).type = t
  BY DEF RegOf, IsRegister
<1>2. IsType(Scalar) /\ IsType(Uninit) /\ IsType(KernelPtr) /\ IsType(Null)
  BY DEF IsType, IsPlain, Scalar, Uninit, KernelPtr, Null, TypeKind
<1>3. \A v : IsRegister(scalar_value(v)) /\ scalar_value(v).type = Scalar
  BY <1>2 DEF scalar_value, IsRegister
<1>4. IsRegister(null)
  BY <1>2 DEF null, scalar_value, IsRegister
<1>. QED BY <1>1, <1>2, <1>3, <1>4 DEF scalar_unknown, kernel_ptr, uninit, is_readable, Uninit

(* refine_bounds moves bounds, and leaves the type. *)
LEMMA BoundsKeepType ==
  ASSUME NEW r, "type" \in DOMAIN r
  PROVE  SameType(r, refine_bounds(r))
<1>1. \A q : "type" \in DOMAIN q => SameType(q, UnsignedFromTnum(q))
  BY DEF UnsignedFromTnum, SameType
<1>2. \A q : "type" \in DOMAIN q => SameType(q, TnumFromUnsigned(q))
  BY DEF TnumFromUnsigned, SameType
<1>3. \A q : "type" \in DOMAIN q => SameType(q, SignedFromUnsigned(q))
  BY DEF SignedFromUnsigned, SameType
<1>4. \A q : "type" \in DOMAIN q => SameType(q, UnsignedFromSigned(q))
  BY DEF UnsignedFromSigned, SameType
<1>5. \A q : "type" \in DOMAIN q => SameType(q, Collapsed(q))
  BY DEF Collapsed, SameType
<1>. DEFINE a == UnsignedFromTnum(r)
            b == TnumFromUnsigned(a)
            c == SignedFromUnsigned(b)
            d == UnsignedFromSigned(c)
<1>6. refine_bounds(r) = Collapsed(d)
  BY DEF refine_bounds
<1>7. SameType(r, a)
  BY <1>1
<1>. HIDE DEF a
<1>8. SameType(r, b)
  BY <1>2, <1>7 DEF SameType
<1>. HIDE DEF b
<1>9. SameType(r, c)
  BY <1>3, <1>8 DEF SameType
<1>. HIDE DEF c
<1>10. SameType(r, d)
  BY <1>4, <1>9 DEF SameType
<1>. HIDE DEF d
<1>. QED BY <1>5, <1>6, <1>10 DEF SameType

-----------------------------------------------------------------------------
(* check_alu makes a register, or finds one of three faults. *)
LEMMA AluMakes ==
  ASSUME NEW op \in AluOpcode, NEW wide, NEW d, NEW s, IsRegister(d), IsRegister(s)
  PROVE  LET out == check_alu(op, wide, d, s) IN
         /\ out.err \subseteq {"InvalidPointerArith", "DivByZero", "ShiftOverflow"}
         /\ IsRegister(out.reg)
<1>. DEFINE out == check_alu(op, wide, d, s)
            Good(q) == q.err \subseteq {"InvalidPointerArith", "DivByZero", "ShiftOverflow"} /\ IsRegister(q.reg)
<1>1. \A q : IsRegister(q) => Good(Becomes(q))
  BY DEF Becomes
<1>2. \A k \in {"InvalidPointerArith", "DivByZero", "ShiftOverflow"} : Good(Rejected(d, k))
  BY DEF Rejected
<1>. HIDE DEF Good
<1>3. IsRegister(MovLow(s))
  <2>1. DOMAIN MovLow(s) = DOMAIN s /\ MovLow(s).type = Scalar
    BY DEF MovLow, IsRegister
  <2>2. IsType(Scalar)
    BY DEF IsType, IsPlain, Scalar, TypeKind
  <2>. QED BY <2>1, <2>2 DEF IsRegister
<1>4. IsRegister(ScalarAlu(op, wide, d, s))
  <2>1. \A t : IsRegister(FromTnum(t))
    <3>. SUFFICES ASSUME NEW t PROVE IsRegister(FromTnum(t))
      OBVIOUS
    <3>. DEFINE r == [type |-> Scalar, tnum |-> t, smin |-> Signed(min_value(t)), smax |-> Signed(max_value(t)),
                      umin |-> min_value(t), umax |-> max_value(t)]
    <3>1. IsRegister(r)
      BY DEF IsRegister, IsType, IsPlain, Scalar, TypeKind
    <3>2. FromTnum(t) = refine_bounds(r)
      BY DEF FromTnum
    <3>. HIDE DEF r
    <3>. QED BY <3>1, <3>2, BoundsKeepType, SameTypeIsRegister DEF IsRegister
  <2>. QED BY <2>1 DEF ScalarAlu
<1>5. \A t, sign, n : is_ptr(t) /\ IsType(t) => IsRegister(Displaced(t, sign, n))
  <2>. SUFFICES ASSUME NEW t, NEW sign, NEW n, is_ptr(t), IsType(t) PROVE IsRegister(Displaced(t, sign, n))
    OBVIOUS
  <2>1. IsPlain(t)
    BY DEF is_ptr, IsType
  <2>2. \A by : IsPlain(Moved(t, by))
    BY <2>1 DEF Moved, IsPlain
  <2>3. IsPlain(Rebased(t))
    BY <2>1 DEF Rebased, IsPlain
  <2>. QED BY <2>2, <2>3, MadeRegisters DEF Displaced, IsType
<1>6. IsType(d.type) /\ IsType(s.type) /\ IsRegister(scalar_unknown)
  BY MadeRegisters DEF IsRegister
<1>7. Good(out)
  BY <1>1, <1>2, <1>3, <1>4, <1>5, <1>6 DEF check_alu
<1>. QED BY <1>7 DEF Good

(* What a conditional jump teaches leaves a register a register. *)
LEMMA BoundsMoved ==
  ASSUME NEW r, NEW q, IsRegister(r), SameType(r, q)
  PROVE  IsRegister(refine_bounds(q))
<1>1. IsRegister(q)
  BY SameTypeIsRegister
<1>. QED BY <1>1, BoundsKeepType, SameTypeIsRegister DEF IsRegister

LEMMA JumpTeaches ==
  ASSUME NEW op \in JmpOpcode, NEW is_32, NEW v, NEW r, IsRegister(r)
  PROVE  IsRegister(RefineTaken(r, op, is_32, v)) /\ IsRegister(RefineFall(r, op, is_32, v))
<1>. DEFINE Kept(q) == SameType(r, q)
            Tnumbed(t) == [r EXCEPT !.tnum = t]
<1>0. "type" \in DOMAIN r
  BY DEF IsRegister
<1>1. /\ \A n : Kept([r EXCEPT !.umin = n]) /\ Kept([r EXCEPT !.umax = n])
      /\ \A n : Kept([r EXCEPT !.smin = n]) /\ Kept([r EXCEPT !.smax = n])
      /\ \A t : Kept(Tnumbed(t))
      /\ Kept(r)
  BY <1>0 DEF SameType
<1>2. \A t, m, n : Kept([Tnumbed(t) EXCEPT !.umin = m, !.umax = n])
  BY <1>0 DEF SameType
<1>3. \A q : Kept(q) => IsRegister(refine_bounds(q))
  BY BoundsMoved
<1>4. IsRegister(r) /\ \A w : IsRegister(scalar_value(w))
  BY MadeRegisters
<1>5. \A n : /\ IsRegister(AtLeast(r, n)) /\ IsRegister(AtMost(r, n))
             /\ IsRegister(SAtLeast(r, n)) /\ IsRegister(SAtMost(r, n))
             /\ IsRegister(AtLeast32(r, n)) /\ IsRegister(AtMost32(r, n))
             /\ IsRegister(SAtLeast32(r, n)) /\ IsRegister(SAtMost32(r, n))
  <2>1. \A n : /\ IsRegister(AtLeast(r, n)) /\ IsRegister(AtMost(r, n))
               /\ IsRegister(SAtLeast(r, n)) /\ IsRegister(SAtMost(r, n))
    BY <1>1, <1>3 DEF AtLeast, AtMost, SAtLeast, SAtMost
  <2>2. \A n : IsRegister(AtLeast32(r, n)) /\ IsRegister(AtMost32(r, n))
    BY <1>1, <1>3 DEF AtLeast32, AtMost32
  <2>. QED BY <1>4, <2>1, <2>2 DEF SAtLeast32, SAtMost32
<1>6. \A n : IsRegister(LowIs(r, n))
  <2>. SUFFICES ASSUME NEW n PROVE IsRegister(LowIs(r, n))
    OBVIOUS
  <2>. DEFINE t == [value |-> High(r.tnum.value) + n, mask |-> High(r.tnum.mask)]
  <2>1. Kept(Tnumbed(t)) /\ Kept([Tnumbed(t) EXCEPT !.umin = Greater(@, n), !.umax = Lesser(@, n)])
    BY <1>1, <1>2
  <2>. QED BY <1>3, <2>1 DEF LowIs
<1>7. \A t : Kept(CutToTnum(Tnumbed(t)))
  BY <1>2 DEF CutToTnum
<1>8. \A n : /\ IsRegister(JsetTaken64(r, n)) /\ IsRegister(JsetFall64(r, n))
             /\ IsRegister(JsetTaken32(r, n)) /\ IsRegister(JsetFall32(r, n))
  BY <1>1, <1>3, <1>4, <1>7 DEF JsetTaken64, JsetFall64, JsetTaken32, JsetFall32
<1>9. \A o \in JmpOpcode \ {"Jset"} : \A n : IsRegister(Holds64(r, o, n)) /\ IsRegister(Holds32(r, o, n))
  BY <1>4, <1>5, <1>6 DEF Holds64, Holds32, JmpOpcode
<1>10. op # "Jset" => Opposite(op) \in JmpOpcode \ {"Jset"}
  BY DEF Opposite, JmpOpcode
<1>. QED BY <1>8, <1>9, <1>10 DEF RefineTaken, RefineFall

(* A nullable pointer becomes null or the pointer in it, in every place. *)
LEMMA RefinedFacts ==
  ASSUME NEW f, \A x \in DOMAIN f : IsRegister(f[x]), NEW id, NEW type, IsPlain(type)
  PROVE  /\ DOMAIN Refined(f, id, type) = DOMAIN f
         /\ \A x \in DOMAIN f : IsRegister(Refined(f, id, type)[x])
         /\ \A x \in DOMAIN f : is_readable(Refined(f, id, type)[x]) => is_readable(f[x])
<1>1. DOMAIN Refined(f, id, type) = DOMAIN f
  BY DEF Refined
<1>2. ASSUME NEW x \in DOMAIN f
      PROVE  IsRegister(Refined(f, id, type)[x]) /\ (is_readable(Refined(f, id, type)[x]) => is_readable(f[x]))
  <2>1. CASE f[x].type.kind = "PtrOrNull" /\ f[x].type.id = id
    <3>1. is_readable(f[x])
      BY <2>1 DEF is_readable
    <3>2. IsRegister([f[x] EXCEPT !.type = type])
      BY DEF IsRegister, IsType
    <3>3. IsRegister(null)
      BY MadeRegisters
    <3>. QED BY <2>1, <3>1, <3>2, <3>3 DEF Refined
  <2>2. CASE ~(f[x].type.kind = "PtrOrNull" /\ f[x].type.id = id)
    BY <2>2 DEF Refined
  <2>. QED BY <2>1, <2>2
<1>. QED BY <1>1, <1>2

(* refine_branch leaves states, in which nothing is readable that was not, *)
(* but for the register that is compared.                                  *)
LEMMA BranchLeads ==
  ASSUME NEW st, IsState(st), NEW i \in Instructions, i.kind = "jmp"
  PROVE  LET out == BranchStates(st, i) IN
         \A t \in {out.taken, out.fall} :
           /\ IsState(t)
           /\ \A r \in Reg \ {i.dst} : is_readable(t.regs[r]) => is_readable(st.regs[r])
<1>. DEFINE out == BranchStates(st, i)
            Good(t) == IsState(t) /\ \A r \in Reg \ {i.dst} : is_readable(t.regs[r]) => is_readable(st.regs[r])
            d == st.regs[i.dst]
            cmp == SrcReg(st.regs, i).tnum
            In(r) == [st EXCEPT !.regs[i.dst] = r]
            Same == [taken |-> st, fall |-> st]
            Both(q) == Good(q.taken) /\ Good(q.fall)
<1>. SUFFICES Both(out)
  OBVIOUS
<1>0. i.dst \in Reg /\ i.op \in JmpOpcode
  BY DEF Instructions
<1>1. Good(st)
  OBVIOUS
<1>2. IsRegister(d)
  BY <1>0 DEF IsState, IsFile
<1>3. \A r : IsRegister(r) => Good(In(r))
  BY <1>0 DEF IsState, IsFile, IsFrame
<1>4. \A id, type : IsPlain(type) => Good(WithId(st, id, type))
  <2>. SUFFICES ASSUME NEW id, NEW type, IsPlain(type) PROVE Good(WithId(st, id, type))
    OBVIOUS
  <2>. DEFINE w == WithId(st, id, type)
  <2>1. w.regs = Refined(st.regs, id, type) /\ {"regs", "stack"} \subseteq DOMAIN w
        /\ w.stack = [st.stack EXCEPT !.spills = Refined(@, id, type)]
    BY DEF WithId
  <2>2. IsFile(w.regs) /\ \A r \in Reg : is_readable(w.regs[r]) => is_readable(st.regs[r])
    BY <2>1, RefinedFacts DEF IsState, IsFile
  <2>3. w.stack.spills = Refined(st.stack.spills, id, type) /\ "spills" \in DOMAIN w.stack
    BY <2>1 DEF IsState, IsFrame
  <2>4. IsFrame(w.stack)
    BY <2>3, RefinedFacts DEF IsState, IsFrame
  <2>. QED BY <2>1, <2>2, <2>4 DEF IsState
<1>5. IsPlain(Null) /\ (d.type.kind = "PtrOrNull" => IsPlain(d.type.inner))
  BY <1>2 DEF IsPlain, Null, TypeKind, IsRegister, IsType
<1>6. IsRegister(RefineTaken(d, i.op, ~i.wide, cmp.value)) /\ IsRegister(RefineFall(d, i.op, ~i.wide, cmp.value))
  BY <1>0, <1>2, JumpTeaches
<1>. HIDE DEF Good, d
<1>7. Both(Same)
  BY <1>1
<1>8. CASE ~is_known(cmp)
  BY <1>7, <1>8 DEF BranchStates, d
<1>9. CASE is_known(cmp) /\ d.type.kind = "PtrOrNull" /\ cmp.value = 0
  <2>. DEFINE valid == WithId(st, d.type.id, d.type.inner)
              none  == WithId(st, d.type.id, Null)
  <2>1. Good(valid) /\ Good(none)
    BY <1>4, <1>5, <1>9
  <2>2. CASE i.op = "Jeq"
    <3>1. out = [taken |-> none, fall |-> valid]
      BY <1>9, <2>2 DEF BranchStates, d, is_known, IsScalar
    <3>. HIDE DEF valid, none, out
    <3>. QED BY <2>1, <3>1
  <2>3. CASE i.op = "Jne"
    <3>1. out = [taken |-> valid, fall |-> none]
      BY <1>9, <2>3 DEF BranchStates, d, is_known, IsScalar
    <3>. HIDE DEF valid, none, out
    <3>. QED BY <2>1, <3>1
  <2>4. CASE i.op \notin {"Jeq", "Jne"}
    <3>1. out = Same
      BY <1>9, <2>4 DEF BranchStates, d, is_known, IsScalar
    <3>. QED BY <1>7, <3>1
  <2>. QED BY <2>2, <2>3, <2>4
<1>10. CASE is_known(cmp) /\ ~(d.type.kind = "PtrOrNull" /\ cmp.value = 0) /\ IsScalar(d)
  <2>1. out = [taken |-> In(RefineTaken(d, i.op, ~i.wide, cmp.value)),
               fall  |-> In(RefineFall(d, i.op, ~i.wide, cmp.value))]
    BY <1>10 DEF BranchStates, d, is_known, IsScalar, IsScalar
  <2>. HIDE DEF out, In
  <2>. QED BY <1>3, <1>6, <2>1
<1>11. CASE is_known(cmp) /\ ~(d.type.kind = "PtrOrNull" /\ cmp.value = 0) /\ ~IsScalar(d)
  BY <1>7, <1>11 DEF BranchStates, d
<1>. QED BY <1>8, <1>9, <1>10, <1>11 DEF is_known

-----------------------------------------------------------------------------
(* Loads and stores. *)
AccessErrors == {"OutOfBoundsAccess", "NullPointerDeref", "InvalidPointerDeref", "UninitRegRead"}

LEMMA AccessFails ==
  ASSUME NEW type, IsType(type), NEW off, NEW width
  PROVE  AccessError(type, off, width) \subseteq AccessErrors
<1>1. type.kind \in TypeKind
  BY DEF IsType, IsPlain, TypeKind
<1>. QED BY <1>1 DEF AccessError, AccessErrors, TypeKind

LEMMA LoadMakes ==
  ASSUME NEW regs, IsFile(regs), NEW stack, IsFrame(stack), NEW dst \in Reg, NEW src \in Reg, NEW off, NEW width
  PROVE  LET out == check_load(regs, stack, dst, src, off, width) IN
         /\ out.err \subseteq AccessErrors \cup {"UninitStackRead"}
         /\ IsFile(out.regs)
         /\ \A r \in Reg \ {dst} : out.regs[r] = regs[r]
<1>. DEFINE type == regs[src].type
<1>1. AccessError(type, off, width) \subseteq AccessErrors
  BY AccessFails DEF IsFile, IsRegister
<1>2. IsRegister(LoadedReg(stack, type, off, width))
  BY MadeRegisters DEF LoadedReg, IsFrame
<1>3. IsFile([regs EXCEPT ![dst] = LoadedReg(stack, type, off, width)])
  BY <1>2 DEF IsFile
<1>4. \A r \in Reg \ {dst} : [regs EXCEPT ![dst] = LoadedReg(stack, type, off, width)][r] = regs[r]
  BY DEF IsFile
<1>. QED BY <1>1, <1>3, <1>4 DEF check_load

LEMMA FrameKept ==
  ASSUME NEW stack, IsFrame(stack), NEW off
  PROVE  /\ \A width : IsFrame(mark_written(stack, off, width))
         /\ IsFrame(clear_spill(stack, off))
         /\ \A reg : IsRegister(reg) => IsFrame(spill(stack, off, reg))
<1>1. \A width : IsFrame(mark_written(stack, off, width))
  BY DEF mark_written, IsFrame
<1>2. IsFrame(clear_spill(stack, off))
  BY DEF clear_spill, IsFrame
<1>3. ASSUME NEW reg, IsRegister(reg) PROVE IsFrame(spill(stack, off, reg))
  <2>. DEFINE s == mark_written(stack, off, DW)
              more == [o \in DOMAIN s.spills \cup {off} |-> IF o = off THEN reg ELSE s.spills[o]]
  <2>1. IsFrame(s)
    BY <1>1
  <2>2. spill(stack, off, reg) = [s EXCEPT !.spills = more]
    BY DEF spill
  <2>. HIDE DEF s
  <2>3. \A o \in DOMAIN more : more[o] = reg \/ (o \in DOMAIN s.spills /\ more[o] = s.spills[o])
    OBVIOUS
  <2>. HIDE DEF more
  <2>. QED BY <1>3, <2>1, <2>2, <2>3 DEF IsFrame
<1>. QED BY <1>1, <1>2, <1>3

LEMMA StoreMakes ==
  ASSUME NEW regs, IsFile(regs), NEW stack, IsFrame(stack), NEW dst \in Reg, NEW value, IsRegister(value),
         NEW is_st, NEW off, NEW width
  PROVE  LET out == check_store(regs, stack, dst, value, is_st, off, width) IN
         /\ out.err \subseteq AccessErrors \cup {"PtrLeak"}
         /\ IsFrame(out.stack)
<1>. DEFINE type == regs[dst].type
<1>1. AccessError(type, off, width) \subseteq AccessErrors
  BY AccessFails DEF IsFile, IsRegister
<1>2. \A o : IsFrame(StoredStack(stack, o, width, value, is_st))
  BY FrameKept DEF StoredStack
<1>. QED BY <1>1, <1>2 DEF check_store

-----------------------------------------------------------------------------
(* The table of helpers: what they return, and arguments in r1 to r5. *)
Returns == {"Scalar", "ErrorCode", "KernelPtr", "MapPtr", "RingBufPtr"}

LEMMA HelperTable ==
  ASSUME NEW h \in DOMAIN HELPERS
  PROVE  HELPERS[h].ret_type \in Returns /\ DOMAIN HELPERS[h].args \subseteq 1 .. 5
<1>1. HELPERS[h].ret_type \in Returns
  BY SMTT(60) DEF HELPERS, Helper, ProbeRead, NoArgs, Returns
<1>2. DOMAIN HELPERS[h].args \subseteq 1 .. 5
  BY SMTT(60) DEF HELPERS, Helper, ProbeRead, NoArgs
<1>. QED BY <1>1, <1>2

(* The first bad argument of a call is an error, so that a call without an *)
(* error has none.                                                         *)
LEMMA CallReads ==
  ASSUME NEW regs, NEW args, DOMAIN args \subseteq 1 .. 5
  PROVE  /\ CallError(regs, args) \subseteq {"UninitRegRead", "InvalidHelperArg"}
         /\ CallError(regs, args) = {} => \A k \in DOMAIN args : is_readable(regs[k])
<1>. DEFINE bad == {k \in DOMAIN args : ArgError(regs, args, k) # {}}
<1>1. \A k : ArgError(regs, args, k) \in {{}, {"UninitRegRead"}, {"InvalidHelperArg"}}
  BY DEF ArgError
<1>2. CallError(regs, args) = UNION {ArgError(regs, args, k) : k \in {k \in bad : \A j \in bad : k <= j}}
  BY DEF CallError
<1>3. CallError(regs, args) \subseteq {"UninitRegRead", "InvalidHelperArg"}
  BY <1>1, <1>2
<1>4. ASSUME CallError(regs, args) = {}, NEW k \in DOMAIN args PROVE is_readable(regs[k])
  <2>1. bad = {}
    <3>. SUFFICES ASSUME bad # {} PROVE FALSE
      OBVIOUS
    <3>1. bad \subseteq Nat
      OBVIOUS
    <3>. HIDE DEF bad
    <3>2. PICK x \in bad : \A y \in bad : x <= y
      BY <3>1, LeastNumber
    <3>3. ArgError(regs, args, x) # {} /\ ArgError(regs, args, x) \subseteq CallError(regs, args)
      BY <1>2, <3>2 DEF bad
    <3>. QED BY <1>4, <3>3
  <2>2. ArgError(regs, args, k) = {}
    BY <2>1
  <2>. QED BY <2>2 DEF ArgError
<1>. QED BY <1>3, <1>4

CallErrors == {"UnknownHelper", "UninitRegRead", "InvalidHelperArg"}

LEMMA CallMakes ==
  ASSUME NEW regs, IsFile(regs), NEW stack, IsFrame(stack), NEW h, NEW id
  PROVE  LET out == check_call(regs, stack, h, id) IN
         /\ out.err \subseteq CallErrors
         /\ out.ids \in {0, 1}
         /\ IsFile(out.regs) /\ IsFrame(out.stack)
         /\ out.err = {} =>
              /\ h \in DOMAIN HELPERS
              /\ \A k \in DOMAIN HELPERS[h].args : is_readable(regs[k])
              /\ \A r \in 1 .. 5 : ~is_readable(out.regs[r])
              /\ \A r \in 6 .. 10 : out.regs[r] = regs[r]
<1>. DEFINE out == check_call(regs, stack, h, id)
<1>1. CASE h \notin DOMAIN HELPERS
  BY <1>1 DEF check_call, CallErrors
<1>2. CASE h \in DOMAIN HELPERS /\ CallError(regs, HELPERS[h].args) # {}
  <2>1. CallError(regs, HELPERS[h].args) \subseteq CallErrors
    BY <1>2, HelperTable, CallReads DEF CallErrors
  <2>. QED BY <1>2, <2>1 DEF check_call
<1>3. CASE h \in DOMAIN HELPERS /\ CallError(regs, HELPERS[h].args) = {}
  <2>. DEFINE ret == HELPERS[h].ret_type
              called == [regs EXCEPT ![0] = Returned(ret, regs[2], id)]
              after == WrittenByCall(stack, h, regs[1], regs[2])
  <2>1. out = [err |-> {}, regs |-> Clobbered(called), stack |-> after, ids |-> Fresh(ret)]
    BY <1>3 DEF check_call
  <2>2. ret \in Returns /\ \A k \in DOMAIN HELPERS[h].args : is_readable(regs[k])
    BY <1>3, HelperTable, CallReads
  <2>3. Fresh(ret) \in {0, 1}
    BY DEF Fresh
  <2>4. IsFrame(after)
    BY FrameKept, MadeRegisters DEF WrittenByCall
  <2>. HIDE DEF after
  <2>5. IsRegister(Returned(ret, regs[2], id))
    <3>1. \A o, n : IsType(PtrOrNull(MapValuePtr(id, o, n), id)) /\ IsType(PtrOrNull(RingBufPtr(id, o, n), id))
      BY DEF IsType, IsPlain, PtrOrNull, MapValuePtr, RingBufPtr, TypeKind
    <3>. QED BY <2>2, <3>1, MadeRegisters DEF Returned, Returns
  <2>6. DOMAIN called = Reg /\ called[0] = Returned(ret, regs[2], id) /\ \A r \in Reg \ {0} : called[r] = regs[r]
    BY DEF IsFile, Reg
  <2>. HIDE DEF called, ret
  <2>7. /\ DOMAIN Clobbered(called) = Reg
        /\ \A r \in 1 .. 5 : Clobbered(called)[r] = uninit
        /\ \A r \in 6 .. 10 : Clobbered(called)[r] = regs[r]
        /\ Clobbered(called)[0] = called[0]
    BY <2>6 DEF Clobbered, Reg
  <2>8. IsFile(Clobbered(called))
    <3>1. \A r \in Reg : r \in 1 .. 5 \/ r \in 6 .. 10 \/ r = 0
      BY DEF Reg
    <3>2. \A r \in 6 .. 10 : r \in Reg
      BY DEF Reg
    <3>. QED BY <2>5, <2>6, <2>7, <3>1, <3>2, MadeRegisters DEF IsFile
  <2>9. \A r \in 1 .. 5 : ~is_readable(Clobbered(called)[r])
    BY <2>7, MadeRegisters
  <2>10. out.err = {} /\ out.regs = Clobbered(called) /\ out.stack = after /\ out.ids = Fresh(ret)
    BY <2>1
  <2>. HIDE DEF out
  <2>11. /\ out.err \subseteq CallErrors /\ out.ids \in {0, 1} /\ IsFile(out.regs) /\ IsFrame(out.stack)
         /\ \A r \in 1 .. 5 : ~is_readable(out.regs[r])
         /\ \A r \in 6 .. 10 : out.regs[r] = regs[r]
    BY <2>3, <2>4, <2>7, <2>8, <2>9, <2>10
  <2>. QED BY <1>3, <2>2, <2>11 DEF out
<1>. QED BY <1>1, <1>2, <1>3

-----------------------------------------------------------------------------
(* An instruction: its errors, and the states it leads to. *)
StepErrors == ErrorKinds \ {"FallThrough", "ComplexityExceeded"}

(* What has been written after an instruction, if w was before. *)
After(i, w) ==
  CASE SetsDst(i)      -> w \cup {i.dst}
    [] i.kind = "call" -> (w \ (1 .. 5)) \cup {R0}
    [] OTHER           -> w

Readable(st) == {r \in Reg : is_readable(st.regs[r])}

LEMMA ReadsPass ==
  ASSUME NEW regs, NEW i \in Instructions
  PROVE  /\ ReadErrors(regs, i) \subseteq StepErrors
         /\ ReadErrors(regs, i) = {} => \A r \in Reads(i) : r = R10 \/ is_readable(regs[r])
<1>1. \A r : check_reg_readable(regs, r) \in {{}, {"UninitRegRead"}}
  BY DEF check_reg_readable
<1>2. "UninitRegRead" \in StepErrors
  BY DEF StepErrors, ErrorKinds
<1>3. ReadErrors(regs, i) = UNION {check_reg_readable(regs, r) : r \in Reads(i)}
  BY DEF ReadErrors
<1>4. ReadErrors(regs, i) \subseteq StepErrors
  BY <1>1, <1>2, <1>3
<1>5. ASSUME ReadErrors(regs, i) = {}, NEW r \in Reads(i) PROVE r = R10 \/ is_readable(regs[r])
  <2>1. check_reg_readable(regs, r) = {}
    BY <1>3, <1>5
  <2>. QED BY <2>1 DEF check_reg_readable
<1>. QED BY <1>4, <1>5

LEMMA SrcMakes ==
  ASSUME NEW regs, IsFile(regs), NEW i \in Instructions
  PROVE  IsRegister(SrcReg(regs, i))
  BY MadeRegisters DEF SrcReg, IsFile, Instructions

(* What the steps of a path need to know of an effect. *)
IsEffect(e) ==
  e.err \subseteq StepErrors /\ e.ids \in {0, 1} /\ IsState(e.fall) /\ IsState(e.taken)

(* The registers that are readable then were written by the instruction or *)
(* before it; those of w are all that were.                                *)
Writes(i, e, w) ==
  /\ Readable(e.fall) \subseteq After(i, w)
  /\ i.kind = "jmp" => Readable(e.taken) \subseteq After(i, w)

LEMMA SetsOneRegister ==
  ASSUME NEW st, IsState(st), NEW i \in Instructions, SetsDst(i), NEW regs, IsFile(regs),
         \A r \in Reg \ {i.dst} : regs[r] = st.regs[r]
  PROVE  /\ IsState([st EXCEPT !.regs = regs])
         /\ \A w : Readable(st) \subseteq w => Readable([st EXCEPT !.regs = regs]) \subseteq After(i, w)
<1>. DEFINE t == [st EXCEPT !.regs = regs]
<1>1. t.regs = regs /\ t.stack = st.stack /\ DOMAIN t = DOMAIN st
  BY DEF IsState
<1>. HIDE DEF t
<1>2. IsState(t)
  BY <1>1 DEF IsState
<1>3. \A w : After(i, w) = w \cup {i.dst}
  BY DEF After, SetsDst
<1>4. \A w : Readable(st) \subseteq w => Readable(t) \subseteq After(i, w)
  BY <1>1, <1>3 DEF Readable
<1>. QED BY <1>2, <1>4 DEF t

LEMMA AluEffect ==
  ASSUME NEW st, IsState(st), NEW i \in Instructions, i.kind = "alu", NEW id, ReadErrors(st.regs, i) = {}
  PROVE  LET e == Execute(i, st, id) IN
         IsEffect(e) /\ \A w : Readable(st) \subseteq w => Writes(i, e, w)
<1>. DEFINE e == Execute(i, st, id)
            out == check_alu(i.op, i.wide, st.regs[i.dst], SrcReg(st.regs, i))
            regs == [st.regs EXCEPT ![i.dst] = out.reg]
            t == [st EXCEPT !.regs = regs]
<1>1. i.dst \in Reg /\ i.op \in AluOpcode
  BY DEF Instructions
<1>2. out.err \subseteq StepErrors /\ IsRegister(out.reg)
  <2>1. IsRegister(st.regs[i.dst]) /\ IsRegister(SrcReg(st.regs, i))
    BY <1>1, SrcMakes DEF IsState, IsFile
  <2>2. out.err \subseteq {"InvalidPointerArith", "DivByZero", "ShiftOverflow"} /\ IsRegister(out.reg)
    BY <1>1, <2>1, AluMakes
  <2>. QED BY <2>2 DEF StepErrors, ErrorKinds
<1>3. e = Effect(out.err, t, st, 0)
  BY DEF Execute
<1>. HIDE DEF out
<1>4. IsFile(regs) /\ \A r \in Reg \ {i.dst} : regs[r] = st.regs[r]
  BY <1>1, <1>2 DEF IsState, IsFile
<1>. HIDE DEF regs
<1>5. IsState(t) /\ \A w : Readable(st) \subseteq w => Readable(t) \subseteq After(i, w)
  BY <1>4, SetsOneRegister DEF SetsDst
<1>. HIDE DEF t
<1>6. e.err = out.err /\ e.fall = t /\ e.taken = st /\ e.ids = 0
  BY <1>3 DEF Effect
<1>. HIDE DEF e
<1>7. IsEffect(e) /\ \A w : Readable(st) \subseteq w => Writes(i, e, w)
  BY <1>2, <1>5, <1>6 DEF IsEffect, Writes
<1>. QED BY <1>7 DEF e

LEMMA Imm64Effect ==
  ASSUME NEW st, IsState(st), NEW i \in Instructions, i.kind = "ldimm64", NEW id, ReadErrors(st.regs, i) = {}
  PROVE  LET e == Execute(i, st, id) IN
         IsEffect(e) /\ \A w : Readable(st) \subseteq w => Writes(i, e, w)
<1>. DEFINE e == Execute(i, st, id)
            regs == [st.regs EXCEPT ![i.dst] = LoadedImm64(i)]
            t == [st EXCEPT !.regs = regs]
<1>1. i.dst \in Reg /\ i.reloc \in {"none", "map", "data", "core"}
  BY DEF Instructions
<1>2. IsRegister(LoadedImm64(i))
  <2>1. IsType(DataPtr("section"))
    BY DEF IsType, IsPlain, DataPtr, TypeKind
  <2>. QED BY <1>1, <2>1, MadeRegisters DEF LoadedImm64
<1>3. e = Leads(t)
  BY DEF Execute
<1>4. IsFile(regs) /\ \A r \in Reg \ {i.dst} : regs[r] = st.regs[r]
  BY <1>1, <1>2 DEF IsState, IsFile
<1>. HIDE DEF regs
<1>5. IsState(t) /\ \A w : Readable(st) \subseteq w => Readable(t) \subseteq After(i, w)
  BY <1>4, SetsOneRegister DEF SetsDst
<1>. HIDE DEF t
<1>6. e.err = {} /\ e.fall = t /\ e.taken = t /\ e.ids = 0
  BY <1>3 DEF Leads, Effect
<1>. HIDE DEF e
<1>7. IsEffect(e) /\ \A w : Readable(st) \subseteq w => Writes(i, e, w)
  BY <1>5, <1>6 DEF IsEffect, Writes
<1>. QED BY <1>7 DEF e

LEMMA LoadEffect ==
  ASSUME NEW st, IsState(st), NEW i \in Instructions, i.kind = "ldx", NEW id, ReadErrors(st.regs, i) = {}
  PROVE  LET e == Execute(i, st, id) IN
         IsEffect(e) /\ \A w : Readable(st) \subseteq w => Writes(i, e, w)
<1>. DEFINE e == Execute(i, st, id)
            out == check_load(st.regs, st.stack, i.dst, i.src, i.off, i.width)
            regs == out.regs
            t == [st EXCEPT !.regs = regs]
<1>1. i.dst \in Reg /\ i.src \in Reg
  BY DEF Instructions
<1>2. /\ out.err \subseteq StepErrors
      /\ IsFile(regs) /\ \A r \in Reg \ {i.dst} : regs[r] = st.regs[r]
  <2>1. AccessErrors \cup {"UninitStackRead"} \subseteq StepErrors
    BY DEF AccessErrors, StepErrors, ErrorKinds
  <2>. QED BY <1>1, <2>1, LoadMakes DEF IsState
<1>3. e = Effect(out.err, t, st, 0)
  BY DEF Execute
<1>. HIDE DEF out, regs
<1>5. IsState(t) /\ \A w : Readable(st) \subseteq w => Readable(t) \subseteq After(i, w)
  BY <1>2, SetsOneRegister DEF SetsDst
<1>. HIDE DEF t
<1>6. e.err = out.err /\ e.fall = t /\ e.taken = st /\ e.ids = 0
  BY <1>3 DEF Effect
<1>. HIDE DEF e
<1>7. IsEffect(e) /\ \A w : Readable(st) \subseteq w => Writes(i, e, w)
  BY <1>2, <1>5, <1>6 DEF IsEffect, Writes
<1>. QED BY <1>7 DEF e

LEMMA StoreEffect ==
  ASSUME NEW st, IsState(st), NEW i \in Instructions, i.kind \in {"stx", "st"}, NEW id, ReadErrors(st.regs, i) = {}
  PROVE  LET e == Execute(i, st, id) IN
         IsEffect(e) /\ \A w : Readable(st) \subseteq w => Writes(i, e, w)
<1>. DEFINE e == Execute(i, st, id)
            out == check_store(st.regs, st.stack, i.dst, SrcReg(st.regs, i), i.kind = "st", i.off, i.width)
            t == [st EXCEPT !.stack = out.stack]
<1>1. i.dst \in Reg
  BY DEF Instructions
<1>2. out.err \subseteq StepErrors /\ IsFrame(out.stack)
  <2>1. AccessErrors \cup {"PtrLeak"} \subseteq StepErrors
    BY DEF AccessErrors, StepErrors, ErrorKinds
  <2>2. IsRegister(SrcReg(st.regs, i))
    BY SrcMakes DEF IsState
  <2>. QED BY <1>1, <2>1, <2>2, StoreMakes DEF IsState
<1>3. e = Effect(out.err, t, st, 0)
  BY DEF Execute
<1>. HIDE DEF out
<1>4. IsState(t) /\ t.regs = st.regs
  BY <1>2 DEF IsState
<1>5. \A w : After(i, w) = w
  BY DEF After, SetsDst
<1>. HIDE DEF t
<1>6. e.err = out.err /\ e.fall = t /\ e.taken = st /\ e.ids = 0
  BY <1>3 DEF Effect
<1>. HIDE DEF e
<1>7. IsEffect(e) /\ \A w : Readable(st) \subseteq w => Writes(i, e, w)
  BY <1>2, <1>4, <1>5, <1>6 DEF IsEffect, Writes, Readable
<1>. QED BY <1>7 DEF e

LEMMA JumpEffect ==
  ASSUME NEW st, IsState(st), NEW i \in Instructions, i.kind = "jmp", NEW id, ReadErrors(st.regs, i) = {}
  PROVE  LET e == Execute(i, st, id) IN
         IsEffect(e) /\ \A w : Readable(st) \cup {R10} \subseteq w => Writes(i, e, w)
<1>. DEFINE e == Execute(i, st, id)
            out == BranchStates(st, i)
<1>1. \A t \in {out.taken, out.fall} :
        IsState(t) /\ \A r \in Reg \ {i.dst} : is_readable(t.regs[r]) => is_readable(st.regs[r])
  BY BranchLeads
<1>2. e = Effect({}, out.fall, out.taken, 0)
  BY DEF Execute
<1>. HIDE DEF out
<1>3. i.dst = R10 \/ i.dst \in Readable(st)
  <2>1. i.dst \in Reads(i) /\ i.dst \in Reg
    BY DEF Reads, Instructions
  <2>. QED BY <2>1, ReadsPass DEF Readable
<1>4. \A w : After(i, w) = w
  BY DEF After, SetsDst
<1>5. e.err = {} /\ e.fall = out.fall /\ e.taken = out.taken /\ e.ids = 0
  BY <1>2 DEF Effect
<1>. HIDE DEF e
<1>6. IsEffect(e)
  BY <1>1, <1>5 DEF IsEffect
<1>7. \A w : Readable(st) \cup {R10} \subseteq w => Writes(i, e, w)
  BY <1>1, <1>3, <1>4, <1>5 DEF Writes, Readable
<1>. QED BY <1>6, <1>7 DEF e

LEMMA CallEffect ==
  ASSUME NEW st, IsState(st), NEW i \in Instructions, i.kind = "call", NEW id, ReadErrors(st.regs, i) = {}
  PROVE  LET e == Execute(i, st, id) IN
         /\ IsEffect(e)
         /\ e.err = {} => /\ \A w : Readable(st) \subseteq w => Writes(i, e, w)
                          /\ i.helper \in DOMAIN HELPERS
                          /\ DOMAIN HELPERS[i.helper].args \subseteq Readable(st)
<1>. DEFINE e == Execute(i, st, id)
            out == check_call(st.regs, st.stack, i.helper, id)
            t == [regs |-> out.regs, stack |-> out.stack]
            h == i.helper
<1>1. /\ out.err \subseteq CallErrors
      /\ out.ids \in {0, 1}
      /\ IsFile(out.regs) /\ IsFrame(out.stack)
      /\ out.err = {} =>
           /\ h \in DOMAIN HELPERS
           /\ \A k \in DOMAIN HELPERS[h].args : is_readable(st.regs[k])
           /\ \A r \in 1 .. 5 : ~is_readable(out.regs[r])
           /\ \A r \in 6 .. 10 : out.regs[r] = st.regs[r]
  BY CallMakes DEF IsState
<1>2. e = Effect(out.err, t, st, out.ids)
  BY DEF Execute
<1>3. CallErrors \subseteq StepErrors
  BY DEF CallErrors, StepErrors, ErrorKinds
<1>. HIDE DEF out
<1>4. e.err = out.err /\ e.fall = t /\ e.taken = st /\ e.ids = out.ids
  BY <1>2 DEF Effect
<1>5. IsState(t) /\ t.regs = out.regs
  BY <1>1 DEF IsState
<1>6. \A w : After(i, w) = (w \ (1 .. 5)) \cup {R0}
  BY DEF After, SetsDst
<1>. HIDE DEF e, t
<1>7. IsEffect(e)
  BY <1>1, <1>3, <1>4, <1>5 DEF IsEffect
<1>8. ASSUME e.err = {}
      PROVE  /\ \A w : Readable(st) \subseteq w => Writes(i, e, w)
             /\ h \in DOMAIN HELPERS
             /\ DOMAIN HELPERS[h].args \subseteq Readable(st)
  <2>1. \A r \in Readable(t) : r = R0 \/ (r \in 6 .. 10 /\ r \in Readable(st))
    <3>1. \A r \in Reg : r = R0 \/ r \in 1 .. 5 \/ r \in 6 .. 10
      BY DEF Reg, R0
    <3>. QED BY <1>1, <1>4, <1>5, <1>8, <3>1 DEF Readable
  <2>2. \A r \in 6 .. 10 : r \notin 1 .. 5
    OBVIOUS
  <2>3. \A w : Readable(st) \subseteq w => Writes(i, e, w)
    BY <1>4, <1>6, <2>1, <2>2 DEF Writes
  <2>4. h \in DOMAIN HELPERS /\ \A k \in DOMAIN HELPERS[h].args : is_readable(st.regs[k])
    BY <1>1, <1>4, <1>8
  <2>5. DOMAIN HELPERS[h].args \subseteq Reg
    <3>1. 1 .. 5 \subseteq Reg
      BY DEF Reg
    <3>. QED BY <2>4, <3>1, HelperTable
  <2>. QED BY <2>3, <2>4, <2>5 DEF Readable
<1>. QED BY <1>7, <1>8 DEF e

(* JA, EXIT and what is not an instruction leave the state alone. *)
LEMMA OtherEffect ==
  ASSUME NEW st, IsState(st), NEW i \in Instructions, NEW id,
         i.kind \in {"ja", "exit", "unknown", "undecodable"}, ReadErrors(st.regs, i) = {}
  PROVE  LET e == Execute(i, st, id) IN
         /\ IsEffect(e)
         /\ \A w : Readable(st) \subseteq w => Writes(i, e, w)
         /\ e.err = {} => /\ i.kind \in {"ja", "exit"}
                          /\ i.kind = "exit" => R0 \in Readable(st)
<1>. DEFINE e == Execute(i, st, id)
<1>1. check_exit(st.regs) \subseteq StepErrors /\ (check_exit(st.regs) = {} => is_readable(st.regs[R0]))
  BY DEF check_exit, StepErrors, ErrorKinds
<1>2. /\ i.kind = "ja" => e = Leads(st)
      /\ i.kind = "exit" => e = Fails(st, check_exit(st.regs))
      /\ i.kind \in {"unknown", "undecodable"} => e = Fails(st, {"UnknownOpcode"})
  BY DEF Execute
<1>3. /\ e.fall = st /\ e.taken = st /\ e.ids = 0
      /\ i.kind = "ja" => e.err = {}
      /\ i.kind = "exit" => e.err = check_exit(st.regs)
      /\ i.kind \in {"unknown", "undecodable"} => e.err = {"UnknownOpcode"}
  BY <1>2 DEF Leads, Fails, Effect
<1>4. "UnknownOpcode" \in StepErrors /\ R0 \in Reg
  BY DEF StepErrors, ErrorKinds, R0, Reg
<1>5. \A w : After(i, w) = w
  BY DEF After, SetsDst
<1>. HIDE DEF e
<1>. QED BY <1>1, <1>3, <1>4, <1>5 DEF IsEffect, Writes, Readable, e

(* Every instruction has an effect, *)
LEMMA ExecuteMakes ==
  ASSUME NEW st, IsState(st), NEW i \in Instructions, NEW id
  PROVE  IsEffect(Execute(i, st, id))
<1>1. CASE ReadErrors(st.regs, i) # {}
  <2>1. Execute(i, st, id) = Fails(st, ReadErrors(st.regs, i))
    BY <1>1 DEF Execute
  <2>. QED BY <2>1, ReadsPass DEF Fails, Effect, IsEffect
<1>2. CASE ReadErrors(st.regs, i) = {}
  <2>1. i.kind \in Kind
    BY DEF Instructions
  <2>2. CASE i.kind = "alu"
    BY <1>2, <2>2, AluEffect
  <2>3. CASE i.kind = "ldimm64"
    BY <1>2, <2>3, Imm64Effect
  <2>4. CASE i.kind = "ldx"
    BY <1>2, <2>4, LoadEffect
  <2>5. CASE i.kind \in {"stx", "st"}
    BY <1>2, <2>5, StoreEffect
  <2>6. CASE i.kind = "jmp"
    BY <1>2, <2>6, JumpEffect
  <2>7. CASE i.kind = "call"
    BY <1>2, <2>7, CallEffect
  <2>8. CASE i.kind \in {"ja", "exit", "unknown", "undecodable"}
    BY <1>2, <2>8, OtherEffect
  <2>. QED BY <2>1, <2>2, <2>3, <2>4, <2>5, <2>6, <2>7, <2>8 DEF Kind
<1>. QED BY <1>1, <1>2

(* and where it has no error it reads what was written and makes readable  *)
(* what is written then.                                                   *)
LEMMA ExecuteWrites ==
  ASSUME NEW st, IsState(st), NEW i \in Instructions, NEW id, Execute(i, st, id).err = {},
         NEW w, Readable(st) \cup {R10} \subseteq w
  PROVE  /\ Writes(i, Execute(i, st, id), w)
         /\ Needs(i) \subseteq w
         /\ R10 \in After(i, w)
         /\ i.kind \notin {"unknown", "undecodable"}
<1>. DEFINE e == Execute(i, st, id)
<1>1. ReadErrors(st.regs, i) = {}
  <2>. SUFFICES ASSUME ReadErrors(st.regs, i) # {} PROVE FALSE
    OBVIOUS
  <2>1. Execute(i, st, id) = Fails(st, ReadErrors(st.regs, i))
    BY DEF Execute
  <2>. QED BY <2>1 DEF Fails, Effect
<1>2. Reads(i) \subseteq w
  <2>1. Reads(i) \subseteq Reg
    BY DEF Reads, Instructions
  <2>. QED BY <1>1, <2>1, ReadsPass DEF Readable
<1>3. R10 \in w /\ R10 \notin 1 .. 5
  BY DEF R10
<1>4. R10 \in After(i, w)
  BY <1>3 DEF After
<1>5. i.kind \in Kind
  BY DEF Instructions
<1>6. CASE i.kind \in {"alu", "ldimm64", "ldx", "stx", "st", "jmp"}
  <2>1. Writes(i, e, w)
    BY <1>1, <1>6, AluEffect, Imm64Effect, LoadEffect, StoreEffect, JumpEffect
  <2>2. Needs(i) = Reads(i)
    BY <1>6 DEF Needs
  <2>. QED BY <1>2, <1>4, <1>6, <2>1, <2>2
<1>7. CASE i.kind = "call"
  <2>1. Writes(i, e, w) /\ DOMAIN HELPERS[i.helper].args \subseteq Readable(st)
    BY <1>1, <1>7, CallEffect
  <2>2. Needs(i) = DOMAIN HELPERS[i.helper].args
    BY <1>7 DEF Needs
  <2>. QED BY <1>4, <1>7, <2>1, <2>2
<1>8. CASE i.kind \in {"ja", "exit", "unknown", "undecodable"}
  <2>1. /\ Writes(i, e, w)
        /\ i.kind \in {"ja", "exit"}
        /\ i.kind = "exit" => R0 \in Readable(st)
    BY <1>1, <1>8, OtherEffect
  <2>2. Needs(i) \subseteq w
    BY <1>2, <2>1 DEF Needs
  <2>. QED BY <1>4, <2>1, <2>2
<1>. QED BY <1>5, <1>6, <1>7, <1>8 DEF Kind

-----------------------------------------------------------------------------
(* The operations of the domain: the entry state, widening, and what it is *)
(* to be a part of another state.                                          *)
LEMMA EntryIsState ==
  IsState(entry) /\ Readable(entry) \subseteq {1, R10}
<1>1. /\ entry.regs = [r \in Reg |-> CASE r = 1 -> ctx_ptr(0) [] r = R10 -> frame_ptr(0) [] OTHER -> uninit]
      /\ entry.stack = new_stack /\ DOMAIN entry = {"regs", "stack"}
  BY DEF entry
<1>2. IsRegister(ctx_ptr(0)) /\ IsRegister(frame_ptr(0)) /\ IsRegister(uninit) /\ ~is_readable(uninit)
  <2>1. IsType(CtxPtr(0)) /\ IsType(FramePtr(0))
    BY DEF IsType, IsPlain, CtxPtr, FramePtr, TypeKind
  <2>. QED BY <2>1, MadeRegisters DEF ctx_ptr, frame_ptr
<1>3. IsFile(entry.regs)
  BY <1>1, <1>2 DEF IsFile, Reg, R10
<1>4. IsFrame(entry.stack)
  BY <1>1 DEF IsFrame, new_stack
<1>5. Readable(entry) \subseteq {1, R10}
  BY <1>1, <1>2 DEF Readable
<1>. QED BY <1>1, <1>3, <1>4, <1>5 DEF IsState

LEMMA WidenMakes ==
  ASSUME NEW r, IsRegister(r), NEW s, IsRegister(s)
  PROVE  IsRegister(widen(r, s)) /\ (is_readable(widen(r, s)) => is_readable(s))
<1>1. IsRegister(WidenScalar(r, s)) /\ WidenScalar(r, s).type = Scalar
  <2>. DEFINE q == [type |-> Scalar, tnum |-> tnum_join(r.tnum, s.tnum),
                    smin |-> Lesser(r.smin, s.smin), smax |-> Greater(r.smax, s.smax),
                    umin |-> Lesser(r.umin, s.umin), umax |-> Greater(r.umax, s.umax)]
  <2>1. IsRegister(q) /\ q.type = Scalar
    BY DEF IsRegister, IsType, IsPlain, Scalar, TypeKind
  <2>2. WidenScalar(r, s) = refine_bounds(q)
    BY DEF WidenScalar
  <2>. HIDE DEF q
  <2>. QED BY <2>1, <2>2, BoundsKeepType, SameTypeIsRegister DEF IsRegister, SameType
<1>2. CASE r.type # s.type
  BY <1>2, MadeRegisters DEF widen
<1>3. CASE r.type = s.type
  BY <1>1, <1>3 DEF widen, is_readable, IsScalar
<1>. QED BY <1>2, <1>3

LEMMA WidenIsState ==
  ASSUME NEW s, IsState(s), NEW t, IsState(t)
  PROVE  IsState(state_widen(s, t)) /\ Readable(state_widen(s, t)) \subseteq Readable(t)
<1>. DEFINE w == state_widen(s, t)
<1>1. w.regs = [r \in Reg |-> widen(s.regs[r], t.regs[r])] /\ w.stack = stack_widen(s.stack, t.stack)
      /\ DOMAIN w = {"regs", "stack"}
  BY DEF state_widen
<1>. HIDE DEF w
<1>2. \A r \in Reg : /\ IsRegister(widen(s.regs[r], t.regs[r]))
                     /\ is_readable(widen(s.regs[r], t.regs[r])) => is_readable(t.regs[r])
  BY WidenMakes DEF IsState, IsFile
<1>3. IsFile(w.regs) /\ Readable(w) \subseteq Readable(t)
  BY <1>1, <1>2 DEF IsFile, Readable
<1>4. IsFrame(stack_widen(s.stack, t.stack))
  BY WidenMakes DEF stack_widen, IsState, IsFrame
<1>. QED BY <1>1, <1>3, <1>4 DEF IsState, w

LEMMA LeqReads ==
  ASSUME NEW s, NEW t, state_leq(s, t)
  PROVE  Readable(t) \subseteq Readable(s)
  BY DEF state_leq, is_substate_of, Readable, is_readable

-----------------------------------------------------------------------------
(* The verifier states that can be computed from the entry state, one      *)
(* level after another: what instructions and widening make of the states  *)
(* there are.  Nothing else is asked of a set of states for the walk.      *)
Made(U)  == {Execute(i, s, n).fall : i \in Instructions, s \in U, n \in Nat}
Jumped(U) == {Execute(i, s, n).taken : i \in Instructions, s \in U, n \in Nat}
Widened(U) == {state_widen(s, t) : s \in U, t \in U}
Grow(U) == U \cup Made(U) \cup Jumped(U) \cup Widened(U)

IsGrowth(n, f) ==
  DOMAIN f = 0 .. n /\ f[0] = {entry} /\ \A k \in 1 .. n : f[k] = Grow(f[k - 1])

LEMMA GrowthExists ==
  ASSUME NEW n \in Nat
  PROVE  \E f : IsGrowth(n, f)
<1>. DEFINE Reached == {m \in 0 .. n : \E f : IsGrowth(m, f)}
<1>1. 0 \in Reached
  <2>1. IsGrowth(0, [k \in 0 .. 0 |-> {entry}])
    BY DEF IsGrowth
  <2>. QED BY <2>1
<1>2. ASSUME NEW m \in 0 .. n - 1, m \in Reached PROVE m + 1 \in Reached
  <2>1. PICK f : IsGrowth(m, f)
    BY <1>2
  <2>. DEFINE g == [k \in 0 .. m + 1 |-> IF k = m + 1 THEN Grow(f[m]) ELSE f[k]]
  <2>2. DOMAIN g = 0 .. m + 1 /\ g[0] = {entry}
    BY <2>1 DEF IsGrowth
  <2>3. ASSUME NEW k \in 1 .. m + 1 PROVE g[k] = Grow(g[k - 1])
    <3>1. CASE k = m + 1
      <4>1. g[k] = Grow(f[m]) /\ g[k - 1] = f[m]
        BY <3>1
      <4>. QED BY <4>1
    <3>2. CASE k # m + 1
      <4>1. k \in 1 .. m /\ k - 1 \in 0 .. m
        BY <3>2
      <4>2. g[k] = f[k] /\ g[k - 1] = f[k - 1]
        BY <4>1
      <4>. QED BY <4>1, <4>2, <2>1 DEF IsGrowth
    <3>. QED BY <3>1, <3>2
  <2>4. IsGrowth(m + 1, g)
    BY <2>2, <2>3 DEF IsGrowth
  <2>5. m + 1 \in 0 .. n
    OBVIOUS
  <2>. HIDE DEF g
  <2>. QED BY <2>4, <2>5
<1>3. \A m \in 0 .. n : m \in Reached
  <2>. HIDE DEF Reached
  <2>. QED BY <1>1, <1>2, AlongTheList
<1>. QED BY <1>3

LEMMA GrowthsAgree ==
  ASSUME NEW n \in Nat, NEW m \in 0 .. n, NEW f, NEW g, IsGrowth(m, f), IsGrowth(n, g)
  PROVE  f[m] = g[m]
<1>. DEFINE Reached == {k \in 0 .. m : f[k] = g[k]}
<1>1. 0 \in Reached
  <2>1. f[0] = {entry} /\ g[0] = {entry}
    BY DEF IsGrowth
  <2>. QED BY <2>1
<1>2. ASSUME NEW k \in 0 .. m - 1, k \in Reached PROVE k + 1 \in Reached
  <2>1. k + 1 \in 1 .. m /\ k + 1 \in 1 .. n /\ k + 1 - 1 = k
    OBVIOUS
  <2>2. f[k + 1] = Grow(f[k]) /\ g[k + 1] = Grow(g[k])
    BY <2>1 DEF IsGrowth
  <2>. QED BY <1>2, <2>1, <2>2
<1>3. \A k \in 0 .. m : k \in Reached
  <2>. HIDE DEF Reached
  <2>. QED BY <1>1, <1>2, AlongTheList
<1>. QED BY <1>3

Growth(n) == CHOOSE f : IsGrowth(n, f)
Level(n)  == Growth(n)[n]
Universe  == UNION {Level(n) : n \in Nat}

LEMMA Levels ==
  /\ Level(0) = {entry}
  /\ \A n \in Nat : Level(n + 1) = Grow(Level(n))
<1>1. \A n \in Nat : IsGrowth(n, Growth(n))
  BY GrowthExists DEF Growth
<1>2. Level(0) = {entry}
  <2>1. IsGrowth(0, Growth(0))
    BY <1>1
  <2>. QED BY <2>1 DEF Level, IsGrowth
<1>3. ASSUME NEW n \in Nat PROVE Level(n + 1) = Grow(Level(n))
  <2>1. IsGrowth(n, Growth(n)) /\ IsGrowth(n + 1, Growth(n + 1)) /\ n + 1 \in Nat /\ n \in 0 .. n + 1
    BY <1>1
  <2>2. Growth(n)[n] = Growth(n + 1)[n]
    BY <2>1, GrowthsAgree
  <2>3. Growth(n + 1)[n + 1] = Grow(Growth(n + 1)[n])
    BY <2>1 DEF IsGrowth
  <2>. QED BY <2>2, <2>3 DEF Level
<1>. QED BY <1>2, <1>3

LEMMA LevelsGrow ==
  ASSUME NEW n \in Nat, NEW m \in 0 .. n
  PROVE  Level(m) \subseteq Level(n)
<1>. DEFINE Reached == {k \in 0 .. n - m : Level(m) \subseteq Level(m + k)}
<1>1. 0 \in Reached
  OBVIOUS
<1>2. ASSUME NEW k \in 0 .. n - m - 1, k \in Reached PROVE k + 1 \in Reached
  <2>1. m + k \in Nat /\ m + (k + 1) = (m + k) + 1
    OBVIOUS
  <2>2. Level(m + (k + 1)) = Grow(Level(m + k))
    BY <2>1, Levels
  <2>. QED BY <1>2, <2>2 DEF Grow
<1>3. \A k \in 0 .. n - m : k \in Reached
  <2>1. n - m \in Nat
    OBVIOUS
  <2>. HIDE DEF Reached
  <2>. QED BY <1>1, <1>2, <2>1, AlongTheList
<1>4. n - m \in Reached /\ m + (n - m) = n
  BY <1>3
<1>. QED BY <1>4

(* The universe is closed, and there are only verifier states in it. *)
LEMMA UniverseClosed ==
  /\ entry \in Universe
  /\ \A i \in Instructions, s \in Universe, n \in Nat :
       Execute(i, s, n).fall \in Universe /\ Execute(i, s, n).taken \in Universe
  /\ \A s, t \in Universe : state_widen(s, t) \in Universe
<1>1. entry \in Universe
  BY Levels DEF Universe
<1>2. ASSUME NEW i \in Instructions, NEW s \in Universe, NEW n \in Nat
      PROVE  Execute(i, s, n).fall \in Universe /\ Execute(i, s, n).taken \in Universe
  <2>1. PICK k \in Nat : s \in Level(k)
    BY DEF Universe
  <2>2. Execute(i, s, n).fall \in Level(k + 1) /\ Execute(i, s, n).taken \in Level(k + 1) /\ k + 1 \in Nat
    <3>1. Execute(i, s, n).fall \in Made(Level(k)) /\ Execute(i, s, n).taken \in Jumped(Level(k))
      BY <2>1 DEF Made, Jumped
    <3>2. Level(k + 1) = Grow(Level(k)) /\ k + 1 \in Nat
      BY <2>1, Levels
    <3>. QED BY <3>1, <3>2 DEF Grow
  <2>. QED BY <2>2 DEF Universe
<1>3. ASSUME NEW s \in Universe, NEW t \in Universe PROVE state_widen(s, t) \in Universe
  <2>1. PICK k \in Nat : s \in Level(k)
    BY DEF Universe
  <2>2. PICK l \in Nat : t \in Level(l)
    BY DEF Universe
  <2>3. PICK n \in Nat : k \in 0 .. n /\ l \in 0 .. n
    <3>1. k + l \in Nat /\ k \in 0 .. k + l /\ l \in 0 .. k + l
      OBVIOUS
    <3>. QED BY <3>1
  <2>4. s \in Level(n) /\ t \in Level(n)
    BY <2>1, <2>2, <2>3, LevelsGrow
  <2>5. state_widen(s, t) \in Level(n + 1) /\ n + 1 \in Nat
    BY <2>4, Levels DEF Grow, Widened
  <2>. QED BY <2>5 DEF Universe
<1>. QED BY <1>1, <1>2, <1>3

LEMMA GrowKeepsStates ==
  ASSUME NEW U, \A s \in U : IsState(s)
  PROVE  \A s \in Grow(U) : IsState(s)
<1>1. \A i \in Instructions, s \in U, n \in Nat :
        IsState(Execute(i, s, n).fall) /\ IsState(Execute(i, s, n).taken)
  BY ExecuteMakes DEF IsEffect
<1>2. \A s, t \in U : IsState(state_widen(s, t))
  BY WidenIsState
<1>. QED BY <1>1, <1>2 DEF Grow, Made, Jumped, Widened

LEMMA UniverseOfStates == \A s \in Universe : IsState(s)
<1>. SUFFICES ASSUME NEW n \in Nat PROVE \A s \in Level(n) : IsState(s)
  BY DEF Universe
<1>. DEFINE Reached == {k \in 0 .. n : \A s \in Level(k) : IsState(s)}
<1>1. 0 \in Reached
  BY EntryIsState, Levels
<1>2. ASSUME NEW k \in 0 .. n - 1, k \in Reached PROVE k + 1 \in Reached
  <2>1. Level(k + 1) = Grow(Level(k)) /\ \A s \in Level(k) : IsState(s)
    BY <1>2, Levels
  <2>2. \A s \in Level(k + 1) : IsState(s)
    BY <2>1, GrowKeepsStates
  <2>. QED BY <2>2
<1>3. \A k \in 0 .. n : k \in Reached
  <2>. HIDE DEF Reached
  <2>. QED BY <1>1, <1>2, AlongTheList
<1>. QED BY <1>3

-----------------------------------------------------------------------------
(* The walk of the command is that of Explore over these states and over   *)
(* all lists, so what ExploreProofs says of a walk holds of it.            *)
WP == INSTANCE ExploreProofs WITH
        Program    <- Seq(Instructions),
        State      <- Universe,
        Entry      <- entry,
        ErrorKind  <- ErrorKinds,
        Size       <- Len,
        IsSubstate <- state_leq,
        Widen      <- state_widen

(* Where control goes from an instruction: on an error nowhere, else to    *)
(* the next one, or to the one at the slot that a jump names.              *)
LEMMA OutcomeOf ==
  ASSUME NEW list \in Seq(Instructions), NEW q \in Indices(list), NEW s \in Universe, NEW n \in Nat
  PROVE  LET i    == At(list, q)
             e    == Execute(i, s, n)
             o    == Exec(list, q, s, n)
             goes == resolve_branch_target(list, q, i.off)
         IN /\ WP!WellFormed(list, o)
            /\ o.err = {} =>
                 /\ e.err = {}
                 /\ i.kind = "ja" => \E t \in goes : WP!Goes(o) = {Place(t, s)}
                 /\ i.kind = "jmp" => \E t \in goes : WP!Goes(o) = {Place(q + 1, e.fall), Place(t, e.taken)}
                 /\ i.kind \notin {"ja", "jmp", "exit"} => WP!Goes(o) = {Place(q + 1, e.fall)}
<1>. DEFINE i    == At(list, q)
            e    == Execute(i, s, n)
            o    == Exec(list, q, s, n)
            goes == resolve_branch_target(list, q, i.off)
            t    == CHOOSE t \in goes : TRUE
            out  == [kind |-> "step", err |-> {}, exit |-> FALSE, next |-> Place(q + 1, e.fall),
                     taken |-> Place(q + 1, e.fall), ids |-> e.ids]
<1>1. i \in Instructions /\ Len(list) \in Nat /\ q + 1 \in 0 .. Len(list)
  BY DEF At, Indices
<1>2. /\ e.err \subseteq StepErrors /\ e.ids \in {0, 1}
      /\ e.fall \in Universe /\ e.taken \in Universe
  <2>1. IsEffect(e)
    BY <1>1, UniverseOfStates, ExecuteMakes
  <2>. QED BY <1>1, <2>1, UniverseClosed DEF IsEffect
<1>3. goes \subseteq Indices(list)
  BY DEF resolve_branch_target, raw_to_collapsed
<1>4. goes # {} => t \in goes
  OBVIOUS
<1>5. \A p \in 0 .. Len(list), u \in Universe : Place(p, u) \in WP!Item(list)
  BY DEF Place, WP!Item
<1>6. "FallThrough" \in ErrorKinds /\ StepErrors \subseteq ErrorKinds /\ "ComplexityExceeded" \notin StepErrors
  BY DEF StepErrors, ErrorKinds
<1>7. o = Outcome(i, q, s, e, goes)
  BY DEF Exec
<1>8. i.kind = "exit" => ~IsJump(i)
  BY DEF IsJump
<1>. DEFINE Good(x) == /\ WP!WellFormed(list, x)
                       /\ x.err = {} =>
                            /\ e.err = {}
                            /\ i.kind = "ja" => \E u \in goes : WP!Goes(x) = {Place(u, s)}
                            /\ i.kind = "jmp" => \E u \in goes : WP!Goes(x) = {Place(q + 1, e.fall), Place(u, e.taken)}
                            /\ i.kind \notin {"ja", "jmp", "exit"} => WP!Goes(x) = {Place(q + 1, e.fall)}
<1>. SUFFICES Good(o)
  OBVIOUS
<1>. HIDE DEF i, e, goes, o, t
<1>. DEFINE stop(err) == [kind |-> "stop", err |-> err, exit |-> i.kind = "exit", next |-> Place(q + 1, e.fall),
                          taken |-> Place(q + 1, e.fall), ids |-> e.ids]
<1>9. \A err : err \subseteq ErrorKinds \ {"ComplexityExceeded"} => WP!WellFormed(list, stop(err))
  <2>1. Place(q + 1, e.fall) \in WP!Item(list)
    BY <1>1, <1>2, <1>5
  <2>. QED BY <1>2, <2>1 DEF WP!WellFormed, WP!Outcome
<1>10. CASE i.kind = "exit" \/ e.err # {}
  <2>. DEFINE x == stop(e.err)
  <2>1. o = x
    BY <1>7, <1>10 DEF Outcome, IsJump
  <2>2. WP!WellFormed(list, x)
    BY <1>2, <1>6, <1>9
  <2>3. x.err = e.err
    OBVIOUS
  <2>. HIDE DEF x
  <2>. QED BY <1>10, <2>1, <2>2, <2>3
<1>11. CASE i.kind # "exit" /\ e.err = {} /\ IsJump(i) /\ goes = {}
  <2>. DEFINE x == stop({"FallThrough"})
  <2>1. o = x
    BY <1>7, <1>11 DEF Outcome
  <2>2. WP!WellFormed(list, x)
    BY <1>6, <1>9
  <2>3. x.err = {"FallThrough"}
    OBVIOUS
  <2>. HIDE DEF x
  <2>. QED BY <2>1, <2>2, <2>3
<1>12. CASE i.kind = "jmp" /\ e.err = {} /\ goes # {}
  <2>. DEFINE x == [kind |-> "branch", err |-> {}, exit |-> FALSE, next |-> Place(q + 1, e.fall),
                    taken |-> Place(t, e.taken), ids |-> e.ids]
  <2>1. o = x
    BY <1>7, <1>12 DEF Outcome, IsJump, t
  <2>2. t \in goes /\ t \in Indices(list) /\ t \in 0 .. Len(list)
    <3>1. t \in goes
      BY <1>4, <1>12
    <3>2. t \in Indices(list)
      BY <1>3, <3>1
    <3>3. t \in 0 .. Len(list)
      BY <1>1, <3>2 DEF Indices
    <3>. QED BY <3>1, <3>2, <3>3
  <2>3. Place(q + 1, e.fall) \in WP!Item(list) /\ Place(t, e.taken) \in WP!Item(list)
    BY <1>1, <1>2, <1>5, <2>2
  <2>4. Place(t, e.taken).pc \in WP!Pc(list)
    BY <2>2 DEF Place, WP!Pc, Indices
  <2>5. WP!WellFormed(list, x)
    BY <1>2, <2>3, <2>4 DEF WP!WellFormed, WP!Outcome
  <2>6. WP!Goes(x) = {Place(q + 1, e.fall), Place(t, e.taken)}
    BY DEF WP!Goes
  <2>. HIDE DEF x
  <2>. QED BY <1>12, <2>1, <2>2, <2>5, <2>6
<1>13. CASE i.kind = "ja" /\ e.err = {} /\ goes # {}
  <2>. DEFINE x == [kind |-> "step", err |-> {}, exit |-> FALSE, next |-> Place(t, s),
                    taken |-> Place(q + 1, e.fall), ids |-> e.ids]
  <2>1. o = x
    BY <1>7, <1>13 DEF Outcome, IsJump, t
  <2>2. t \in goes /\ t \in Indices(list) /\ t \in 0 .. Len(list)
    <3>1. t \in goes
      BY <1>4, <1>13
    <3>2. t \in Indices(list)
      BY <1>3, <3>1
    <3>3. t \in 0 .. Len(list)
      BY <1>1, <3>2 DEF Indices
    <3>. QED BY <3>1, <3>2, <3>3
  <2>3. Place(q + 1, e.fall) \in WP!Item(list) /\ Place(t, s) \in WP!Item(list)
    BY <1>1, <1>2, <1>5, <2>2
  <2>5. WP!WellFormed(list, x)
    BY <1>2, <2>3 DEF WP!WellFormed, WP!Outcome
  <2>6. WP!Goes(x) = {Place(t, s)}
    BY DEF WP!Goes
  <2>. HIDE DEF x
  <2>. QED BY <1>13, <2>1, <2>2, <2>5, <2>6
<1>14. CASE i.kind \notin {"exit", "ja", "jmp"} /\ e.err = {}
  <2>1. o = out
    BY <1>7, <1>14 DEF Outcome, IsJump
  <2>3. Place(q + 1, e.fall) \in WP!Item(list)
    BY <1>1, <1>2, <1>5
  <2>5. WP!WellFormed(list, out)
    BY <1>2, <2>3 DEF WP!WellFormed, WP!Outcome
  <2>6. WP!Goes(out) = {Place(q + 1, e.fall)}
    BY DEF WP!Goes
  <2>. HIDE DEF out
  <2>. QED BY <1>14, <2>1, <2>5, <2>6
<1>. QED BY <1>8, <1>10, <1>11, <1>12, <1>13, <1>14 DEF IsJump

(* So the assumptions that Explore makes hold of this walk. *)
LEMMA WalkBounds == WP!BoundsAssumption
  BY CommandAssumption DEF WP!BoundsAssumption

LEMMA WalkDomain == WP!DomainAssumption
  BY UniverseClosed DEF WP!DomainAssumption, ErrorKinds

LEMMA WalkExec == WP!ExecAssumption
<1>. SUFFICES ASSUME NEW p \in Seq(Instructions)
              PROVE  /\ Len(p) \in Nat
                     /\ \A q \in WP!Pc(p), s \in Universe, n \in 0 .. ComplexityLimit :
                          WP!WellFormed(p, Exec(p, q, s, n))
  BY DEF WP!ExecAssumption
<1>1. Len(p) \in Nat
  OBVIOUS
<1>2. WP!Pc(p) = Indices(p) /\ 0 .. ComplexityLimit \subseteq Nat
  BY CommandAssumption DEF WP!Pc, Indices
<1>. QED BY <1>1, <1>2, OutcomeOf

LEMMA WalkBegins == WP!Init => WP!IInv /\ WP!VisitShape
<1>1. WP!Init => WP!IInv
  BY WP!InvInit, WalkBounds, WalkDomain, WalkExec
<1>2. WP!Init => WP!VisitShape
  BY WP!ShapeInit, WalkBounds, WalkDomain, WalkExec
<1>. QED BY <1>1, <1>2

LEMMA WalkTurns == WP!IInv /\ WP!VisitShape /\ [WP!Next]_WP!vars => (WP!IInv /\ WP!VisitShape)'
<1>1. WP!IInv /\ [WP!Next]_WP!vars => WP!IInv'
  BY WP!InvNext, WalkBounds, WalkDomain, WalkExec
<1>2. WP!TypeOK /\ WP!VisitShape /\ [WP!Next]_WP!vars => WP!VisitShape'
  BY WP!ShapeNext, WalkBounds, WalkDomain, WalkExec
<1>3. WP!IInv => WP!TypeOK
  BY DEF WP!IInv
<1>. QED BY <1>1, <1>2, <1>3

LEMMA WalkConcludes == WP!IInv => WP!FixpointReached /\ WP!VerdictCoversVisits
<1>1. WP!IInv => WP!FixpointReached
  BY WP!InvFixpoint, WalkBounds, WalkDomain, WalkExec
<1>2. WP!IInv => WP!VerdictCoversVisits
  BY WP!InvVerdict, WalkBounds, WalkDomain, WalkExec
<1>. QED BY <1>1, <1>2

LEMMA BegunWalk == WP!Init' => (WP!IInv /\ WP!VisitShape)'
  BY WalkBegins, PTL

(* The two instances of Explore take the same steps. *)
LEMMA SameSteps == W!Next => WP!Next
<1>1. W!EndPath => WP!EndPath
  BY DEF W!EndPath, WP!EndPath, W!Concluded, WP!Concluded
<1>2. \A s : W!Process(s) => WP!Process(s)
  BY DEF W!Process, WP!Process
<1>3. W!Counted => WP!Counted
  BY DEF W!Counted, WP!Counted
<1>4. (W!Dominated <=> WP!Dominated) /\ (W!AtLoopHead <=> WP!AtLoopHead)
  BY DEF W!Dominated, WP!Dominated, W!AtLoopHead, WP!AtLoopHead
<1>5. W!PathOver => WP!PathOver
  BY <1>1 DEF W!PathOver, WP!PathOver
<1>6. W!TooComplex => WP!TooComplex
  BY DEF W!TooComplex, WP!TooComplex, W!Concluded, WP!Concluded
<1>7. W!Prune => WP!Prune
  BY <1>1, <1>3, <1>4 DEF W!Prune, WP!Prune
<1>8. W!VisitLoopHead => WP!VisitLoopHead
  BY <1>2, <1>3, <1>4 DEF W!VisitLoopHead, WP!VisitLoopHead
<1>9. W!VisitAndStore => WP!VisitAndStore
  BY <1>2, <1>3, <1>4 DEF W!VisitAndStore, WP!VisitAndStore
<1>10. W!VisitOnly => WP!VisitOnly
  BY <1>2, <1>3, <1>4 DEF W!VisitOnly, WP!VisitOnly
<1>. QED BY <1>5, <1>6, <1>7, <1>8, <1>9, <1>10 DEF W!Next, WP!Next

-----------------------------------------------------------------------------
(* What a list passes with: visits without errors, one of them for the     *)
(* entry state, and to wherever one of them leads there is another, which  *)
(* finds no more readable than the first one left.                         *)
Arrives(V, q, s) == \E v \in V : v.pc = q /\ Readable(v.state) \subseteq Readable(s)

Vouches(V, list) ==
  /\ \A v \in V : /\ v.pc \in Indices(list) /\ v.state \in Universe /\ v.id \in Nat
                  /\ Exec(list, v.pc, v.state, v.id).err = {}
                  /\ \A it \in WP!Goes(Exec(list, v.pc, v.state, v.id)) :
                       it.pc = Len(list) \/ Arrives(V, it.pc, it.state)
  /\ Len(list) > 0 => Arrives(V, 0, entry)

Certified(list) == \E V : Vouches(V, list)

(* A place that is settled has a visit that finds no more readable. *)
LEMMA SettledArrives ==
  ASSUME WP!VisitShape, NEW q, NEW s, WP!Settled([pc |-> q, state |-> s]), q # Len(prog)
  PROVE  Arrives(visits, q, s)
<1>1. PICK v \in visits : v.pc = q /\ (v.arrived = s \/ state_leq(s, v.state))
  BY DEF WP!Settled
<1>2. CASE state_leq(s, v.state)
  BY <1>1, <1>2, LeqReads DEF Arrives
<1>3. CASE v.arrived = s
  <2>1. v.state = s \/ \E t \in Universe : v.state = state_widen(t, s)
    BY <1>1, <1>3 DEF WP!VisitShape
  <2>2. s \in Universe
    BY <1>1, <1>3 DEF WP!VisitShape
  <2>3. Readable(v.state) \subseteq Readable(s)
    BY <2>1, <2>2, UniverseOfStates, WidenIsState
  <2>. QED BY <1>1, <2>3 DEF Arrives
<1>. QED BY <1>1, <1>2, <1>3

LEMMA PassedIsCertified ==
  ASSUME WP!IInv, WP!VisitShape, finished, errors = {}
  PROVE  Certified(prog)
<1>1. /\ WP!Settled([pc |-> 0, state |-> entry])
      /\ \A v \in visits : \A it \in WP!Successors(v) : WP!Settled(it)
      /\ \A v \in visits : Exec(prog, v.pc, v.state, v.id).err = {}
  BY WalkConcludes DEF WP!FixpointReached, WP!VerdictCoversVisits, WP!Passed
<1>2. prog \in Seq(Instructions)
  BY DEF WP!IInv, WP!TypeOK
<1>3. \A v \in visits : v.pc \in Indices(prog) /\ v.state \in Universe /\ v.id \in Nat
  BY CommandAssumption DEF WP!VisitShape, WP!Pc, Indices
<1>4. ASSUME NEW v \in visits, NEW it \in WP!Goes(Exec(prog, v.pc, v.state, v.id)), it.pc # Len(prog)
      PROVE  Arrives(visits, it.pc, it.state)
  <2>. DEFINE o == Exec(prog, v.pc, v.state, v.id)
  <2>1. WP!Settled(it)
    BY <1>1 DEF WP!Successors
  <2>2. o.next \in WP!Item(prog) /\ o.taken \in WP!Item(prog) /\ o.kind \in {"stop", "step", "branch"}
    BY <1>2, <1>3, OutcomeOf DEF WP!WellFormed, WP!Outcome
  <2>. HIDE DEF o
  <2>3. it \in WP!Item(prog)
    <3>1. it \in WP!Goes(o)
      BY DEF o
    <3>. QED BY <2>2, <3>1 DEF WP!Goes
  <2>4. it = [pc |-> it.pc, state |-> it.state]
    BY <2>3 DEF WP!Item
  <2>. QED BY <1>4, <2>1, <2>4, SettledArrives
<1>5. Len(prog) > 0 => Arrives(visits, 0, entry)
  BY <1>1, SettledArrives
<1>6. Vouches(visits, prog)
  BY <1>1, <1>3, <1>4, <1>5 DEF Vouches
<1>. QED BY <1>6 DEF Certified

-----------------------------------------------------------------------------
(* A run stands on an instruction of the list that has a visit, and what   *)
(* is readable there the run has written.                                  *)
StandsBy(V, list, s, w) ==
  \E v \in V : s = collapsed_to_raw(list, v.pc) /\ Readable(v.state) \cup {R10} \subseteq w

Stands(section, s, w) == \E V : Vouches(V, decode(section)) /\ StandsBy(V, decode(section), s, w)

(* Instructions alike do alike. *)
LEMMA AlikeDo ==
  ASSUME NEW i, NEW j, Alike(j, i)
  PROVE  /\ Needs(j) = Needs(i)
         /\ \A w : After(j, w) = After(i, w)
         /\ j.kind = i.kind /\ j.off = i.off
<1>1. /\ j.kind = i.kind /\ j.dst = i.dst /\ j.src = i.src /\ j.off = i.off /\ j.op = i.op
      /\ j.helper = i.helper
  BY DEF Alike
<1>2. Reads(j) = Reads(i)
  BY <1>1 DEF Reads
<1>3. Needs(j) = Needs(i)
  BY <1>1, <1>2 DEF Needs
<1>4. \A w : After(j, w) = After(i, w)
  BY <1>1 DEF After, SetsDst
<1>. QED BY <1>1, <1>3, <1>4

(* From there it comes to another such place. *)
LEMMA ComesToStand ==
  ASSUME NEW section \in Seq(Instructions), NEW V, Vouches(V, decode(section)), NEW w, R10 \in w,
         NEW q, NEW s, Readable(s) \subseteq w, Arrives(V, q, s)
  PROVE  Stands(section, collapsed_to_raw(decode(section), q), w)
  BY DEF Arrives, Stands, StandsBy

LEMMA RunsOn ==
  ASSUME NEW section \in Seq(Instructions), WholeSection(section), NEW s, NEW w, Stands(section, s, w)
  PROVE  /\ S!IsInsn(section, s)
         /\ Needs(At(section, s)) \subseteq w
         /\ At(section, s).kind # "exit" =>
              \A t \in S!Follows(section, s) : Stands(section, t, After(At(section, s), w))
<1>. DEFINE list == decode(section)
<1>1. PICK V : Vouches(V, list) /\ StandsBy(V, list, s, w)
  BY DEF Stands
<1>2. PICK v \in V : s = collapsed_to_raw(list, v.pc) /\ Readable(v.state) \cup {R10} \subseteq w
  BY <1>1 DEF StandsBy
<1>. DEFINE q == v.pc
            i == At(list, q)
            j == At(section, s)
            e == Execute(i, v.state, v.id)
            o == Exec(list, q, v.state, v.id)
<1>3. list \in Seq(Instructions) /\ Decodes(section) /\ list # <<>> /\ list[Len(list)].kind \in {"exit", "ja"}
  BY DecodedList DEF WholeSection, Decodes
<1>4. /\ q \in Indices(list) /\ v.state \in Universe /\ v.id \in Nat /\ o.err = {}
      /\ \A it \in WP!Goes(o) : it.pc = Len(list) \/ Arrives(V, it.pc, it.state)
  BY <1>1 DEF Vouches
<1>5. i \in Instructions /\ Len(list) \in Nat /\ i = list[q + 1]
  BY <1>3, <1>4 DEF At, Indices
<1>6. s \in Indices(section) /\ Alike(j, i)
  BY <1>2, <1>3, <1>4, EveryInsnHasItsSlot DEF IsSlotOf
<1>. HIDE DEF list, i, j
<1>7. /\ e.err = {}
      /\ i.kind = "ja" => \E t \in resolve_branch_target(list, q, i.off) : WP!Goes(o) = {Place(t, v.state)}
      /\ i.kind = "jmp" => \E t \in resolve_branch_target(list, q, i.off) :
                             WP!Goes(o) = {Place(q + 1, e.fall), Place(t, e.taken)}
      /\ i.kind \notin {"ja", "jmp", "exit"} => WP!Goes(o) = {Place(q + 1, e.fall)}
  BY <1>3, <1>4, OutcomeOf DEF i
<1>8. IsState(v.state)
  BY <1>4, UniverseOfStates
<1>9. /\ Writes(i, e, w) /\ Needs(i) \subseteq w /\ R10 \in After(i, w)
      /\ i.kind \notin {"unknown", "undecodable"}
  <2>. DEFINE st == v.state
              id == v.id
  <2>1. IsState(st) /\ Execute(i, st, id).err = {} /\ Readable(st) \cup {R10} \subseteq w
    BY <1>2, <1>7, <1>8
  <2>. HIDE DEF st, id
  <2>0. \A a, k, n : IsState(a) /\ k \in Instructions /\ Execute(k, a, n).err = {} /\ Readable(a) \cup {R10} \subseteq w =>
          /\ Writes(k, Execute(k, a, n), w) /\ Needs(k) \subseteq w /\ R10 \in After(k, w)
          /\ k.kind \notin {"unknown", "undecodable"}
    BY ExecuteWrites, Zenon
  <2>2. /\ Writes(i, Execute(i, st, id), w) /\ Needs(i) \subseteq w /\ R10 \in After(i, w)
        /\ i.kind \notin {"unknown", "undecodable"}
    BY <1>5, <2>0, <2>1, Zenon
  <2>. QED BY <2>2 DEF st, id
<1>10. /\ Needs(j) = Needs(i) /\ After(j, w) = After(i, w) /\ j.kind = i.kind /\ j.off = i.off
  BY <1>6, AlikeDo
<1>11. S!IsInsn(section, s) /\ Needs(j) \subseteq w
  <2>1. S!At(section, s) = j
    BY DEF S!At, At, j
  <2>. QED BY <1>6, <1>9, <1>10, <2>1 DEF S!IsInsn, Indices
<1>12. /\ s \in Nat
       /\ collapsed_to_raw(list, q + 1) = s + Slots64(i)
       /\ \A t \in resolve_branch_target(list, q, i.off) :
            t \in Indices(list) /\ collapsed_to_raw(list, t) = s + 1 + i.off
  <2>1. collapsed_to_raw(list, q) \in Nat /\ collapsed_to_raw(list, q + 1) = collapsed_to_raw(list, q) + Slots64(list[q + 1])
    <3>1. list \in Seq(Instructions) /\ q \in 0 .. Len(list) - 1 /\ q \in 0 .. Len(list)
      BY <1>3, <1>4, <1>5 DEF Indices, list
    <3>. QED BY <3>1, PositionsUnrolled
  <2>2. \A t \in resolve_branch_target(list, q, i.off) :
          t \in Indices(list) /\ collapsed_to_raw(list, t) = collapsed_to_raw(list, q) + 1 + i.off
    BY DEF resolve_branch_target, raw_to_collapsed
  <2>3. s = collapsed_to_raw(list, q)
    BY <1>2 DEF list
  <2>. QED BY <1>5, <2>1, <2>2, <2>3
<1>13. i.kind \notin {"ja", "exit"} => q + 1 # Len(list)
  BY <1>3, <1>5 DEF list
<1>14. \A it \in WP!Goes(o) : it.pc # Len(list) /\ Readable(it.state) \subseteq After(i, w) =>
         Stands(section, collapsed_to_raw(list, it.pc), After(i, w))
  BY <1>1, <1>4, <1>9, ComesToStand DEF list
<1>15. \A p, u : Place(p, u).pc = p /\ Place(p, u).state = u
  BY DEF Place
<1>16. /\ i.kind = "ja" => S!Follows(section, s) = {s + 1 + i.off}
       /\ i.kind = "jmp" => S!Follows(section, s) = {s + Slots64(i), s + 1 + i.off}
       /\ i.kind \notin {"ja", "jmp"} => S!Follows(section, s) = {s + Slots64(i)}
  <2>1. S!At(section, s) = j
    BY DEF S!At, At, j
  <2>. QED BY <1>10, <2>1 DEF S!Follows, S!Slots64, Slots64
<1>. HIDE DEF q, e, o
<1>17. ASSUME i.kind # "exit", NEW t \in S!Follows(section, s) PROVE Stands(section, t, After(i, w))
  <2>1. CASE i.kind = "ja"
    <3>1. PICK g \in resolve_branch_target(list, q, i.off) : WP!Goes(o) = {Place(g, v.state)}
      BY <1>7, <2>1
    <3>2. Place(g, v.state).pc # Len(list)
      BY <1>5, <1>12, <1>15 DEF Indices
    <3>3. After(i, w) = w
      BY <2>1 DEF After, SetsDst
    <3>4. Stands(section, collapsed_to_raw(list, g), After(i, w))
      BY <1>2, <1>14, <1>15, <3>1, <3>2, <3>3
    <3>. QED BY <1>12, <1>16, <2>1, <3>1, <3>4
  <2>2. CASE i.kind = "jmp"
    <3>1. PICK g \in resolve_branch_target(list, q, i.off) :
            WP!Goes(o) = {Place(q + 1, e.fall), Place(g, e.taken)}
      BY <1>7, <2>2
    <3>2. g # Len(list) /\ q + 1 # Len(list)
      BY <1>5, <1>12, <1>13, <2>2 DEF Indices
    <3>3. Readable(e.fall) \subseteq After(i, w) /\ Readable(e.taken) \subseteq After(i, w)
      BY <1>9, <2>2 DEF Writes
    <3>4. Stands(section, collapsed_to_raw(list, q + 1), After(i, w))
      BY <1>14, <1>15, <3>1, <3>2, <3>3
    <3>5. Stands(section, collapsed_to_raw(list, g), After(i, w))
      BY <1>14, <1>15, <3>1, <3>2, <3>3
    <3>. QED BY <1>12, <1>16, <2>2, <3>1, <3>4, <3>5
  <2>3. CASE i.kind \notin {"ja", "jmp", "exit"}
    <3>1. WP!Goes(o) = {Place(q + 1, e.fall)}
      BY <1>7, <2>3
    <3>2. q + 1 # Len(list)
      BY <1>13, <2>3
    <3>3. Readable(e.fall) \subseteq After(i, w)
      BY <1>9 DEF Writes
    <3>4. Stands(section, collapsed_to_raw(list, q + 1), After(i, w))
      BY <1>14, <1>15, <3>1, <3>2, <3>3
    <3>. QED BY <1>12, <1>16, <2>3, <3>4
  <2>. QED BY <1>17, <2>1, <2>2, <2>3
<1>. QED BY <1>10, <1>11, <1>17 DEF j

-----------------------------------------------------------------------------
(* The inductive invariant: the walk under way is a walk over its list,    *)
(* every programme judged safe has its certificate, and a run stands where *)
(* the certificate of its programme says.                                  *)
WalksOn == step = "walk" => /\ prog = ListOf(Len(judged) + 1)
                            /\ WP!IInv /\ WP!VisitShape

AllCertified == \A k \in DOMAIN judged : judged[k] => Certified(ListOf(k))

RunStands ==
  /\ running = "waits" => slot = 0 /\ written = {1, R10}
  /\ running = "yes" => raw \in Seq(Instructions) /\ (WholeSection(raw) => Stands(raw, slot, written))

RunsInv == CommandInv /\ WalksOn /\ AllCertified /\ RunStands

LEMMA RunsStart == Init => RunsInv
<1>. SUFFICES ASSUME Init PROVE RunsInv
  OBVIOUS
<1>1. step = "select" /\ judged = <<>> /\ running = "waits" /\ slot = 0 /\ written = {1, R10}
  BY DEF Init
<1>2. DOMAIN judged = {}
  <2>1. judged = <<>>
    BY <1>1
  <2>. QED BY <2>1
<1>3. WalksOn
  BY <1>1 DEF WalksOn
<1>4. AllCertified
  BY <1>2 DEF AllCertified
<1>5. RunStands
  BY <1>1 DEF RunStands
<1>. QED BY <1>3, <1>4, <1>5, Started DEF RunsInv

(* The section of a programme that is checked. *)
LEMMA SectionOf ==
  ASSUME CommandInv, NEW k \in 1 .. Len(chosen)
  PROVE  programs[chosen[k]].raw \in Seq(Instructions)
<1>1. programs \in Seq(Object) /\ chosen \in Seq(DOMAIN programs)
  BY DEF CommandInv, Chosen
<1>2. chosen[k] \in DOMAIN programs
  BY <1>1
<1>3. programs[chosen[k]] \in Object
  BY <1>1, <1>2
<1>. QED BY <1>3 DEF Object

(* check_with_relocs starts, *)
LEMMA WalksOnStarted ==
  ASSUME RunsInv, StartWalk
  PROVE  WalksOn'
<1>. DEFINE list == ListOf(Len(judged) + 1)
<1>1. UNCHANGED <<programs, chosen, judged>> /\ Begin(list) /\ step = "next" /\ Len(judged) < Len(chosen)
  BY DEF StartWalk, ListOf
<1>2. list \in Seq(Instructions)
  <2>1. judged \in Seq(BOOLEAN) /\ chosen \in Seq(DOMAIN programs)
    BY DEF RunsInv, CommandInv, Chosen, Tallied
  <2>2. Len(judged) + 1 \in 1 .. Len(chosen)
    BY <1>1, <2>1
  <2>. QED BY <2>2, SectionOf, DecodedList DEF ListOf, RunsInv
<1>3. (Len(list) = 0) <=> list = <<>>
  BY <1>2
<1>4. list' = list
  BY <1>1 DEF ListOf
<1>. HIDE DEF list
<1>5. WP!Init'
  <2>1. prog' = list /\ pc' = 0 /\ state' = entry /\ backtrack' = <<>> /\ total_visited' = 0
        /\ reached_exit' = FALSE /\ next_id' = 0 /\ visits' = {}
    BY <1>1 DEF Begin
  <2>2. explored' = [q \in WP!Pc(list) |-> <<>>]
    BY <1>1 DEF Begin, WP!Pc, Indices
  <2>3. errors' = IF Len(list) = 0 THEN {<<0, "FallThrough">>} ELSE {}
    BY <1>1, <1>3 DEF Begin
  <2>4. finished' = (Len(list) = 0)
    BY <1>1, <1>3 DEF Begin
  <2>. QED BY <1>2, <2>1, <2>2, <2>3, <2>4 DEF WP!Init
<1>6. (WP!IInv /\ WP!VisitShape)'
  BY <1>5, BegunWalk
<1>7. prog' = ListOf(Len(judged) + 1)'
  BY <1>1, <1>4 DEF Begin, list
<1>. QED BY <1>6, <1>7 DEF WalksOn

(* takes another instruction, *)
LEMMA WalksOnKept ==
  ASSUME RunsInv, Walk
  PROVE  WalksOn'
<1>1. UNCHANGED <<programs, chosen, judged>> /\ step = "walk" /\ W!Next
  BY DEF Walk, command
<1>2. WP!IInv /\ WP!VisitShape /\ prog = ListOf(Len(judged) + 1)
  BY <1>1 DEF RunsInv, WalksOn
<1>3. WP!IInv' /\ WP!VisitShape'
  BY <1>1, <1>2, SameSteps, WalkTurns
<1>4. prog' = prog
  BY <1>1 DEF W!Next, W!PathOver, W!TooComplex, W!Prune, W!VisitLoopHead, W!VisitAndStore, W!VisitOnly
<1>5. ListOf(Len(judged) + 1)' = ListOf(Len(judged) + 1)
  BY <1>1 DEF ListOf
<1>. QED BY <1>2, <1>3, <1>4, <1>5 DEF WalksOn

(* and returns the verdict, which a certificate goes with. *)
LEMMA CertifiedJudged ==
  ASSUME RunsInv, Judge
  PROVE  AllCertified'
<1>. DEFINE v == (errors = {})
<1>1. UNCHANGED <<programs, chosen>> /\ step = "walk" /\ finished /\ judged' = Append(judged, v)
  BY DEF Judge
<1>2. v => Certified(ListOf(Len(judged) + 1))
  BY <1>1, PassedIsCertified DEF RunsInv, WalksOn
<1>. HIDE DEF v
<1>3. v \in BOOLEAN /\ judged \in Seq(BOOLEAN)
  BY DEF v, RunsInv, CommandInv, Tallied
<1>4. \A k : ListOf(k)' = ListOf(k)
  BY <1>1 DEF ListOf
<1>5. ASSUME NEW k \in DOMAIN judged', judged'[k] PROVE Certified(ListOf(k))
  <2>1. DOMAIN judged' = 1 .. Len(judged) + 1 /\ DOMAIN judged = 1 .. Len(judged) /\ Len(judged) \in Nat
    BY <1>1, <1>3
  <2>2. (k = Len(judged) + 1 /\ judged'[k] = v) \/ (k \in DOMAIN judged /\ judged'[k] = judged[k])
    BY <1>1, <1>3, <2>1
  <2>. QED BY <1>2, <1>5, <2>2 DEF RunsInv, AllCertified
<1>. QED BY <1>4, <1>5 DEF AllCertified, Certified, Vouches

(* A run of a programme judged safe begins with its certificate, *)
LEMMA RunBegins ==
  ASSUME RunsInv, Load
  PROVE  RunStands'
<1>1. /\ running = "waits" /\ running' = "yes" /\ slot' = 0 /\ written' = {1, R10}
  BY DEF Load, RunsInv, RunStands
<1>2. PICK k \in DOMAIN judged : judged[k] /\ raw' = programs[chosen[k]].raw
  BY DEF Load
<1>3. k \in 1 .. Len(chosen)
  <2>1. judged \in Seq(BOOLEAN) /\ chosen \in Seq(DOMAIN programs) /\ Len(judged) <= Len(chosen)
    BY DEF RunsInv, CommandInv, Chosen, Tallied
  <2>. QED BY <1>2, <2>1
<1>4. raw' \in Seq(Instructions)
  BY <1>2, <1>3, SectionOf DEF RunsInv
<1>. DEFINE section == programs[chosen[k]].raw
<1>5. ASSUME WholeSection(section) PROVE Stands(section, 0, {1, R10})
  <2>1. PICK V : Vouches(V, decode(section))
    BY <1>2 DEF RunsInv, AllCertified, Certified, ListOf
  <2>2. decode(section) \in Seq(Instructions) /\ decode(section) # <<>>
    BY <1>2, <1>4, <1>5, DecodedList DEF WholeSection
  <2>3. Arrives(V, 0, entry)
    BY <2>1, <2>2 DEF Vouches
  <2>4. collapsed_to_raw(decode(section), 0) = 0
    BY <2>2, PositionsUnrolled
  <2>5. section \in Seq(Instructions)
    BY <1>2, <1>4
  <2>. HIDE DEF section
  <2>6. Stands(section, collapsed_to_raw(decode(section), 0), {1, R10})
    BY <2>1, <2>3, <2>5, EntryIsState, ComesToStand
  <2>. QED BY <2>4, <2>6
<1>6. raw' = section
  BY <1>2
<1>. HIDE DEF section
<1>7. WholeSection(raw') => Stands(raw', slot', written')
  BY <1>1, <1>5, <1>6
<1>. QED BY <1>1, <1>4, <1>7 DEF RunStands

(* and goes on with it. *)
LEMMA RunGoesOn ==
  ASSUME RunsInv, RunInsn
  PROVE  RunStands'
<1>1. /\ running = "yes" /\ UNCHANGED <<raw, running>>
      /\ S!At(raw, slot).kind # "exit" /\ slot' \in S!Follows(raw, slot)
      /\ written' = WrittenAfter(At(raw, slot))
  BY DEF RunInsn, S!SlotStep
<1>2. raw \in Seq(Instructions) /\ (WholeSection(raw) => Stands(raw, slot, written))
  BY <1>1 DEF RunsInv, RunStands
<1>3. written' = After(At(raw, slot), written) /\ At(raw, slot).kind # "exit"
  BY <1>1 DEF WrittenAfter, After, S!At, At
<1>4. WholeSection(raw) => Stands(raw, slot', written')
  BY <1>1, <1>2, <1>3, RunsOn
<1>. QED BY <1>1, <1>2, <1>4 DEF RunStands

LEMMA RunsInvKept == RunsInv /\ [Next]_vars => RunsInv'
<1>. SUFFICES ASSUME RunsInv, [Next]_vars PROVE RunsInv'
  OBVIOUS
<1>1. CommandInv'
  BY CommandKept DEF RunsInv
<1>2. UNCHANGED <<programs, chosen, judged>> => AllCertified'
  BY DEF RunsInv, AllCertified, ListOf
<1>3. UNCHANGED run => RunStands'
  BY DEF run, RunsInv, RunStands
<1>4. step' # "walk" => WalksOn'
  BY DEF WalksOn
<1>5. CASE Select
  <2>1. DOMAIN judged' = {} /\ step' # "walk"
    <3>1. judged \in Seq(BOOLEAN) /\ Len(judged) <= Len(chosen) /\ chosen = <<>>
      BY <1>5 DEF Select, RunsInv, CommandInv, Chosen, Tallied
    <3>. QED BY <1>5, <3>1 DEF Select
  <2>2. AllCertified'
    BY <2>1 DEF AllCertified
  <2>. QED BY <1>1, <1>3, <1>4, <1>5, <2>1, <2>2 DEF Select, RunsInv
<1>6. CASE StartWalk
  BY <1>1, <1>2, <1>3, <1>6, WalksOnStarted DEF StartWalk, RunsInv
<1>7. CASE Walk
  BY <1>1, <1>2, <1>3, <1>7, WalksOnKept DEF Walk, command, RunsInv
<1>8. CASE Judge
  BY <1>1, <1>3, <1>4, <1>8, CertifiedJudged DEF Judge, RunsInv
<1>9. CASE Return
  BY <1>1, <1>2, <1>3, <1>4, <1>9 DEF Return, RunsInv
<1>10. ASSUME UNCHANGED <<command, walk>> PROVE WalksOn' /\ AllCertified'
  <2>1. UNCHANGED <<programs, chosen, judged, step, prog>>
    BY <1>10 DEF command, walk
  <2>2. UNCHANGED WP!vars
    BY <1>10 DEF walk, WP!vars
  <2>3. WP!IInv /\ WP!VisitShape => (WP!IInv /\ WP!VisitShape)'
    BY <2>2, WalkTurns
  <2>4. WalksOn'
    BY <2>1, <2>3 DEF RunsInv, WalksOn, ListOf
  <2>. QED BY <1>2, <2>1, <2>4
<1>11. CASE Load
  BY <1>1, <1>10, <1>11, RunBegins DEF Load, RunsInv
<1>12. CASE RunInsn
  BY <1>1, <1>10, <1>12, RunGoesOn DEF RunInsn, RunsInv
<1>13. CASE RunExit
  <2>1. RunStands'
    BY <1>13 DEF RunExit, S!SlotEnd, RunStands
  <2>. QED BY <1>1, <1>10, <1>13, <2>1 DEF RunExit, RunsInv
<1>14. CASE Rest \/ UNCHANGED vars
  BY <1>1, <1>3, <1>10, <1>14 DEF Rest, vars, RunsInv
<1>. QED BY <1>5, <1>6, <1>7, <1>8, <1>9, <1>11, <1>12, <1>13, <1>14 DEF Next, Command

LEMMA RunsInductive == Spec => []RunsInv
BY RunsStart, RunsInvKept, PTL DEF Spec

(* SlotsExist: build_pc_map and resolve_branch_target bring the walk to    *)
(* the very instructions that a run comes to, in every section and object. *)
THEOREM RunsStandOnInstructions == Spec => []SlotsExist
<1>1. RunsInv => SlotsExist
  BY RunsOn DEF RunsInv, RunStands, SlotsExist
<1>. QED BY <1>1, RunsInductive, PTL

(* NoUninitRead: check_reg_readable along one path, pruning, widening and  *)
(* the clobbering of calls leave no run a register to read that it has not *)
(* written, whatever the widths, the bounds and the object are.            *)
THEOREM NothingUnwrittenIsRead == Spec => []NoUninitRead
<1>1. RunsInv => NoUninitRead
  BY RunsOn DEF RunsInv, RunStands, NoUninitRead
<1>. QED BY <1>1, RunsInductive, PTL

-----------------------------------------------------------------------------
(* States told by their numbers too: tracked numbers and bounds of every   *)
(* register are words, and spills are keyed by numbers.                    *)
PlainTypes ==
  {Uninit, Scalar, Null, KernelPtr}
    \cup [kind : {"FramePtr", "CtxPtr"}, off : Int]
    \cup [kind : {"DataPtr"}, name : {"section"}]
    \cup [kind : {"MapValuePtr", "RingBufPtr"}, id : Nat, off : Int, size : Nat]

NumberedRegs ==
  [type : RegTypes, tnum : Tnum, smin : SignedWord, smax : SignedWord, umin : Word, umax : Word]

NumberedFrame(stack) ==
  /\ "init" \in DOMAIN stack /\ stack.init \subseteq Slots
  /\ DOMAIN stack.spills \subseteq Int
  /\ \A o \in DOMAIN stack.spills : stack.spills[o] \in NumberedRegs

Numbered(st) ==
  IsState(st) /\ st.regs \in [Reg -> NumberedRegs] /\ NumberedFrame(st.stack)

(* The types of registers. *)
LEMMA TypesOfRegisters ==
  /\ RegTypes = PlainTypes \cup [kind : {"PtrOrNull"}, inner : PlainTypes, id : Nat]
  /\ \A t \in RegTypes : t.kind = "Scalar" => t = Scalar
  /\ \A t \in RegTypes : is_ptr(t) => t \in PlainTypes
  /\ \A t \in RegTypes : t.kind = "PtrOrNull" => t.inner \in PlainTypes /\ t.id \in Nat
  /\ \A t \in RegTypes : t.kind = "FramePtr" => t.off \in Int
<1>1. RegTypes = PlainTypes \cup [kind : {"PtrOrNull"}, inner : PlainTypes, id : Nat]
  BY DEF RegTypes, PlainTypes
<1>2. \A t \in RegTypes : t.kind = "Scalar" => t = Scalar
  BY <1>1 DEF PlainTypes, Uninit, Scalar, Null, KernelPtr
<1>3. \A t \in RegTypes : is_ptr(t) => t \in PlainTypes
  BY <1>1 DEF is_ptr
<1>4. \A t \in RegTypes : t.kind = "PtrOrNull" => t.inner \in PlainTypes /\ t.id \in Nat
  BY <1>1 DEF PlainTypes, Uninit, Scalar, Null, KernelPtr
<1>5. \A t \in RegTypes : t.kind = "FramePtr" => t.off \in Int
  BY <1>1 DEF PlainTypes, Uninit, Scalar, Null, KernelPtr
<1>. QED BY <1>1, <1>2, <1>3, <1>4, <1>5

(* A numbered register of scalar type is well formed, and conversely. *)
LEMMA NumberedScalar ==
  /\ \A r : WellFormed(r) => r \in NumberedRegs
  /\ \A r \in NumberedRegs : IsScalar(r) => WellFormed(r)
  /\ \A r \in NumberedRegs : WellFormed([r EXCEPT !.type = Scalar])
<1>1. Scalar \in RegTypes
  BY TypesOfRegisters DEF PlainTypes
<1>2. \A r : WellFormed(r) => r \in NumberedRegs
  BY <1>1 DEF WellFormed, NumberedRegs
<1>3. \A r \in NumberedRegs : IsScalar(r) => r.type = Scalar
  BY TypesOfRegisters DEF IsScalar, NumberedRegs
<1>4. \A r \in NumberedRegs : IsScalar(r) => WellFormed(r)
  BY <1>3 DEF WellFormed, NumberedRegs
<1>5. \A r \in NumberedRegs : WellFormed([r EXCEPT !.type = Scalar])
  BY DEF WellFormed, NumberedRegs
<1>. QED BY <1>2, <1>4, <1>5

(* Registers that are made rather than computed. *)
LEMMA NumberedMade ==
  /\ \A t \in RegTypes : RegOf(t) \in NumberedRegs
  /\ \A v \in Word : scalar_value(v) \in NumberedRegs
  /\ null \in NumberedRegs /\ uninit \in NumberedRegs /\ kernel_ptr \in NumberedRegs
  /\ scalar_unknown \in NumberedRegs
<1>1. unknown \in Tnum /\ MinSigned \in SignedWord /\ MaxSigned \in SignedWord /\ 0 \in Word /\ MaxWord \in Word
  BY UnknownTnum, WordFacts, SignedFacts DEF IsTnum, Tnum
<1>2. \A t \in RegTypes : RegOf(t) \in NumberedRegs
  BY <1>1 DEF RegOf, NumberedRegs
<1>3. \A v \in Word : scalar_value(v) \in NumberedRegs
  BY ScalarValueKeeps, NumberedScalar
<1>4. Uninit \in RegTypes /\ KernelPtr \in RegTypes /\ Scalar \in RegTypes /\ Null \in RegTypes
  BY TypesOfRegisters DEF PlainTypes
<1>5. scalar_value(0) \in NumberedRegs
  BY <1>1, <1>3
<1>6. null \in NumberedRegs
  BY <1>4, <1>5 DEF null, NumberedRegs
<1>. QED BY <1>2, <1>3, <1>4, <1>6 DEF uninit, kernel_ptr, scalar_unknown

(* Every arm of check_alu makes a numbered register. *)
LEMMA NumberedAlu ==
  ASSUME NEW op \in AluOpcode, NEW wide \in BOOLEAN, NEW d \in NumberedRegs, NEW s \in NumberedRegs
  PROVE  check_alu(op, wide, d, s).reg \in NumberedRegs
<1>. DEFINE out == check_alu(op, wide, d, s)
            Good(q) == q.reg \in NumberedRegs
<1>. SUFFICES Good(out)
  OBVIOUS
<1>1. \A q \in NumberedRegs : Good(Becomes(q))
  BY DEF Becomes
<1>2. \A k : Good(Rejected(d, k))
  BY DEF Rejected
<1>. HIDE DEF Good
<1>3. MovLow(s) \in NumberedRegs
  <2>. DEFINE q == [s EXCEPT !.type = Scalar]
  <2>1. WellFormed(q)
    BY NumberedScalar
  <2>2. MovLow(s) = MovLow(q)
    BY DEF MovLow, NumberedRegs
  <2>. QED BY <2>1, <2>2, MovLowForm, NumberedScalar
<1>4. op \in Arithmetic => ScalarAlu(op, wide, d, s) \in NumberedRegs
  <2>. SUFFICES ASSUME op \in Arithmetic PROVE ScalarAlu(op, wide, d, s) \in NumberedRegs
    OBVIOUS
  <2>. DEFINE t == ResultTnum(op, d.tnum, s.tnum)
  <2>1. IsTnum(d.tnum) /\ IsTnum(s.tnum)
    BY DEF NumberedRegs, Tnum, IsTnum
  <2>2. IsTnum(t)
    BY <2>1, ResultIsTnum
  <2>3. ScalarAlu(op, wide, d, s) = FromTnum(IF wide THEN t ELSE trunc32(t))
    BY DEF ScalarAlu
  <2>. HIDE DEF t
  <2>4. IsTnum(trunc32(t))
    BY <2>2, TnumLow
  <2>5. IsTnum(IF wide THEN t ELSE trunc32(t))
    BY <2>2, <2>4
  <2>. QED BY <2>3, <2>5, FromTnumKeeps, NumberedScalar
<1>5. \A n : \A t \in RegTypes : \A sign \in {1, -1} : IsTnum(n) /\ is_ptr(t) => Displaced(t, sign, n) \in NumberedRegs
  <2>. SUFFICES ASSUME NEW t \in RegTypes, NEW sign \in {1, -1}, NEW n, is_ptr(t), IsTnum(n)
                PROVE  Displaced(t, sign, n) \in NumberedRegs
    OBVIOUS
  <2>1. t \in PlainTypes
    BY TypesOfRegisters
  <2>2. n.value \in Word
    BY DEF IsTnum
  <2>3. sign * Signed(n.value) \in Int
    BY <2>2, SignedOfWord DEF SignedWord
  <2>4. \A by \in Int : Moved(t, by) \in PlainTypes
    <3>1. \A m \in Int : WrapSigned(m) \in Int
      BY WrapIsWord, SignedOfWord DEF WrapSigned, SignedWord
    <3>. SUFFICES ASSUME NEW by \in Int PROVE Moved(t, by) \in PlainTypes
      OBVIOUS
    <3>2. CASE t.kind \notin Offsets
      BY <2>1, <3>2 DEF Moved
    <3>3. CASE t.kind \in Offsets
      <4>1. t \in [kind : {"FramePtr", "CtxPtr"}, off : Int]
            \/ t \in [kind : {"MapValuePtr", "RingBufPtr"}, id : Nat, off : Int, size : Nat]
        BY <2>1, <3>3 DEF PlainTypes, Offsets, Uninit, Scalar, Null, KernelPtr
      <4>2. WrapSigned(t.off + by) \in Int
        BY <3>1, <4>1
      <4>3. Moved(t, by) = [t EXCEPT !.off = WrapSigned(t.off + by)]
        BY <3>3, <4>1 DEF Moved
      <4>. QED BY <4>1, <4>2, <4>3 DEF PlainTypes
    <3>. QED BY <3>2, <3>3
  <2>5. Rebased(t) \in PlainTypes
    <3>1. CASE t.kind \notin Offsets
      BY <2>1, <3>1 DEF Rebased
    <3>2. CASE t.kind \in Offsets
      <4>1. t \in [kind : {"FramePtr", "CtxPtr"}, off : Int]
            \/ t \in [kind : {"MapValuePtr", "RingBufPtr"}, id : Nat, off : Int, size : Nat]
        BY <2>1, <3>2 DEF PlainTypes, Offsets, Uninit, Scalar, Null, KernelPtr
      <4>3. Rebased(t) = [t EXCEPT !.off = 0]
        BY <3>2 DEF Rebased
      <4>. QED BY <4>1, <4>3 DEF PlainTypes
    <3>. QED BY <3>1, <3>2
  <2>6. PlainTypes \subseteq RegTypes
    BY TypesOfRegisters
  <2>7. Moved(t, sign * Signed(n.value)) \in RegTypes /\ Rebased(t) \in RegTypes
    BY <2>3, <2>4, <2>5, <2>6
  <2>. QED BY <2>7, NumberedMade DEF Displaced
<1>6. /\ d.type \in RegTypes /\ s.type \in RegTypes /\ IsTnum(d.tnum) /\ IsTnum(s.tnum)
      /\ scalar_unknown \in NumberedRegs
  BY NumberedMade DEF NumberedRegs, Tnum, IsTnum
<1>7. op \in Arithmetic \/ op = "Mov" \/ op = "Neg"
  BY DEF AluOpcode, AluOp, Arithmetic
<1>8. CASE op = "Mov"
  BY <1>1, <1>3, <1>8 DEF check_alu
<1>9. CASE op = "Neg"
  BY <1>1, <1>2, <1>6, <1>9 DEF check_alu
<1>10. CASE op \in Arithmetic
  <2>1. op # "Mov" /\ op # "Neg"
    BY <1>10 DEF Arithmetic
  <2>2. CASE is_ptr(d.type)
    BY <1>1, <1>2, <1>5, <1>6, <2>1, <2>2 DEF check_alu
  <2>3. CASE ~is_ptr(d.type)
    BY <1>1, <1>2, <1>4, <1>5, <1>6, <1>10, <2>1, <2>3 DEF check_alu
  <2>. QED BY <2>2, <2>3
<1>. QED BY <1>7, <1>8, <1>9, <1>10

(* The operand of an instruction is a numbered register. *)
LEMMA NumberedSrc ==
  ASSUME NEW regs \in [Reg -> NumberedRegs], NEW i \in Instructions
  PROVE  SrcReg(regs, i) \in NumberedRegs
<1>1. i.imm \in Int /\ (i.src \in Reg \/ i.src = Imm)
  BY DEF Instructions
<1>2. ImmWord(i) \in Word
  <2>1. Wrap(i.imm) \in Word
    BY <1>1, WrapIsWord
  <2>2. Low(Wrap(i.imm)) \in Word
    BY <2>1, LowIsWord, WordInt
  <2>. QED BY <2>1, <2>2 DEF ImmWord
<1>. QED BY <1>1, <1>2, NumberedMade DEF SrcReg

(* Null checks move registers between types and leave their numbers. *)
LEMMA NumberedRefined ==
  ASSUME NEW f, \A x \in DOMAIN f : f[x] \in NumberedRegs, NEW id, NEW type \in PlainTypes
  PROVE  /\ DOMAIN Refined(f, id, type) = DOMAIN f
         /\ \A x \in DOMAIN f : Refined(f, id, type)[x] \in NumberedRegs
<1>1. DOMAIN Refined(f, id, type) = DOMAIN f
  BY DEF Refined
<1>2. type \in RegTypes
  BY TypesOfRegisters
<1>3. \A x \in DOMAIN f : [f[x] EXCEPT !.type = type] \in NumberedRegs
  BY <1>2 DEF NumberedRegs
<1>. QED BY <1>1, <1>3, NumberedMade DEF Refined

(* Both branches of a jump lead to numbered states. *)
LEMMA NumberedBranch ==
  ASSUME NEW st, Numbered(st), NEW i \in Instructions, i.kind = "jmp"
  PROVE  Numbered(BranchStates(st, i).taken) /\ Numbered(BranchStates(st, i).fall)
<1>. DEFINE out == BranchStates(st, i)
            Good(t) == t.regs \in [Reg -> NumberedRegs] /\ NumberedFrame(t.stack)
            d == st.regs[i.dst]
            cmp == SrcReg(st.regs, i).tnum
            In(r) == [st EXCEPT !.regs[i.dst] = r]
            Same == [taken |-> st, fall |-> st]
            Both(q) == Good(q.taken) /\ Good(q.fall)
<1>. SUFFICES Both(out)
  <2>1. IsState(out.taken) /\ IsState(out.fall)
    BY BranchLeads DEF Numbered
  <2>. QED BY <2>1 DEF Numbered
<1>0. i.dst \in Reg /\ i.op \in JmpOp /\ i.wide \in BOOLEAN
  BY DEF Instructions, JmpOpcode, JmpOp
<1>1. Good(st) /\ {"regs", "stack"} \subseteq DOMAIN st
  BY DEF Numbered, IsState
<1>2. d \in NumberedRegs /\ cmp.value \in Word
  <2>1. d \in NumberedRegs /\ SrcReg(st.regs, i) \in NumberedRegs
    BY <1>0, <1>1, NumberedSrc
  <2>. QED BY <2>1 DEF NumberedRegs, Tnum
<1>3. \A r \in NumberedRegs : Good(In(r))
  BY <1>0, <1>1
<1>4. \A id : \A type \in PlainTypes : Good(WithId(st, id, type))
  <2>. SUFFICES ASSUME NEW id, NEW type \in PlainTypes PROVE Good(WithId(st, id, type))
    OBVIOUS
  <2>. DEFINE w == WithId(st, id, type)
  <2>1. w.regs = Refined(st.regs, id, type) /\ w.stack = [st.stack EXCEPT !.spills = Refined(@, id, type)]
    BY DEF WithId
  <2>2. DOMAIN st.regs = Reg /\ \A x \in DOMAIN st.regs : st.regs[x] \in NumberedRegs
    BY <1>1
  <2>3. w.regs \in [Reg -> NumberedRegs]
    <3>1. \A x \in Reg : Refined(st.regs, id, type)[x] \in NumberedRegs
      BY <2>2, NumberedRefined
    <3>2. Refined(st.regs, id, type) = [x \in Reg |-> Refined(st.regs, id, type)[x]]
      BY <2>2 DEF Refined
    <3>. QED BY <2>1, <3>1, <3>2
  <2>4. w.stack.spills = Refined(st.stack.spills, id, type) /\ w.stack.init = st.stack.init /\ "init" \in DOMAIN w.stack
    BY <1>1, <2>1 DEF NumberedFrame, Numbered, IsState, IsFrame
  <2>5. NumberedFrame(w.stack)
    BY <1>1, <2>4, NumberedRefined DEF NumberedFrame
  <2>. QED BY <2>3, <2>5
<1>5. Null \in PlainTypes /\ (d.type.kind = "PtrOrNull" => d.type.inner \in PlainTypes)
  BY <1>2, TypesOfRegisters DEF PlainTypes, NumberedRegs
<1>6. IsScalar(d) => /\ RefineTaken(d, i.op, ~i.wide, cmp.value) \in NumberedRegs
                     /\ RefineFall(d, i.op, ~i.wide, cmp.value) \in NumberedRegs
  <2>1. IsScalar(d) => WellFormed(d)
    BY <1>2, NumberedScalar
  <2>2. (~i.wide) \in BOOLEAN
    OBVIOUS
  <2>3. IsScalar(d) => /\ WellFormed(RefineTaken(d, i.op, ~i.wide, cmp.value))
                       /\ WellFormed(RefineFall(d, i.op, ~i.wide, cmp.value))
    <3>. HIDE DEF d, cmp
    <3>. QED BY <1>0, <1>2, <2>1, <2>2, TakenKeeps, FallKeeps
  <2>. QED BY <2>3, NumberedScalar
<1>. HIDE DEF Good, d
<1>7. Both(Same)
  BY <1>1
<1>8. CASE ~is_known(cmp)
  BY <1>7, <1>8 DEF BranchStates, d
<1>9. CASE is_known(cmp) /\ d.type.kind = "PtrOrNull" /\ cmp.value = 0
  <2>. DEFINE valid == WithId(st, d.type.id, d.type.inner)
              none  == WithId(st, d.type.id, Null)
  <2>1. Good(valid) /\ Good(none)
    BY <1>4, <1>5, <1>9
  <2>2. CASE i.op = "Jeq"
    <3>1. out = [taken |-> none, fall |-> valid]
      BY <1>9, <2>2 DEF BranchStates, d, is_known, IsScalar
    <3>. HIDE DEF valid, none, out
    <3>. QED BY <2>1, <3>1
  <2>3. CASE i.op = "Jne"
    <3>1. out = [taken |-> valid, fall |-> none]
      BY <1>9, <2>3 DEF BranchStates, d, is_known, IsScalar
    <3>. HIDE DEF valid, none, out
    <3>. QED BY <2>1, <3>1
  <2>4. CASE i.op \notin {"Jeq", "Jne"}
    <3>1. out = Same
      BY <1>9, <2>4 DEF BranchStates, d, is_known, IsScalar
    <3>. QED BY <1>7, <3>1
  <2>. QED BY <2>2, <2>3, <2>4
<1>10. CASE is_known(cmp) /\ ~(d.type.kind = "PtrOrNull" /\ cmp.value = 0) /\ IsScalar(d)
  <2>1. out = [taken |-> In(RefineTaken(d, i.op, ~i.wide, cmp.value)),
               fall  |-> In(RefineFall(d, i.op, ~i.wide, cmp.value))]
    BY <1>10 DEF BranchStates, d, is_known, IsScalar
  <2>. HIDE DEF out, In
  <2>. QED BY <1>3, <1>6, <1>10, <2>1
<1>11. CASE is_known(cmp) /\ ~(d.type.kind = "PtrOrNull" /\ cmp.value = 0) /\ ~IsScalar(d)
  BY <1>7, <1>11 DEF BranchStates, d
<1>. QED BY <1>8, <1>9, <1>10, <1>11 DEF is_known

(* A load gives a register that was spilled, or one that is made. *)
LEMMA NumberedLoad ==
  ASSUME NEW regs \in [Reg -> NumberedRegs], NEW stack, NumberedFrame(stack), NEW dst \in Reg, NEW src,
         NEW off, NEW width
  PROVE  check_load(regs, stack, dst, src, off, width).regs \in [Reg -> NumberedRegs]
<1>. DEFINE type == regs[src].type
<1>1. LoadedReg(stack, type, off, width) \in NumberedRegs
  BY NumberedMade DEF LoadedReg, NumberedFrame
<1>2. [regs EXCEPT ![dst] = LoadedReg(stack, type, off, width)] \in [Reg -> NumberedRegs]
  BY <1>1
<1>. QED BY <1>2 DEF check_load

(* What stores and helpers do to a frame. *)
LEMMA NumberedFrames ==
  ASSUME NEW stack, IsFrame(stack), NumberedFrame(stack), NEW off \in Int
  PROVE  /\ \A width : NumberedFrame(mark_written(stack, off, width))
         /\ NumberedFrame(clear_spill(stack, off))
         /\ \A reg \in NumberedRegs : NumberedFrame(spill(stack, off, reg))
<1>0. "spills" \in DOMAIN stack
  BY DEF IsFrame
<1>1. \A width : NumberedFrame(mark_written(stack, off, width)) /\ mark_written(stack, off, width).spills = stack.spills
                 /\ "spills" \in DOMAIN mark_written(stack, off, width)
  BY <1>0 DEF mark_written, NumberedFrame
<1>2. NumberedFrame(clear_spill(stack, off))
  BY <1>0 DEF clear_spill, NumberedFrame
<1>3. ASSUME NEW reg \in NumberedRegs PROVE NumberedFrame(spill(stack, off, reg))
  <2>. DEFINE s == mark_written(stack, off, DW)
              more == [o \in DOMAIN s.spills \cup {off} |-> IF o = off THEN reg ELSE s.spills[o]]
  <2>1. NumberedFrame(s) /\ "spills" \in DOMAIN s
    BY <1>1
  <2>2. spill(stack, off, reg) = [s EXCEPT !.spills = more]
    BY DEF spill
  <2>. HIDE DEF s
  <2>3. /\ DOMAIN more \subseteq Int
        /\ \A o \in DOMAIN more : more[o] = reg \/ (o \in DOMAIN s.spills /\ more[o] = s.spills[o])
    BY <2>1 DEF NumberedFrame
  <2>. HIDE DEF more
  <2>. QED BY <1>3, <2>1, <2>2, <2>3 DEF NumberedFrame
<1>. QED BY <1>1, <1>2, <1>3

(* check_store leaves a frame of numbered registers, whatever it stores at. *)
LEMMA NumberedStore ==
  ASSUME NEW regs \in [Reg -> NumberedRegs], NEW stack, IsFrame(stack), NumberedFrame(stack), NEW dst \in Reg,
         NEW value \in NumberedRegs, NEW is_st, NEW off \in Int, NEW width
  PROVE  NumberedFrame(check_store(regs, stack, dst, value, is_st, off, width).stack)
<1>. DEFINE type == regs[dst].type
            o == Effective(type, off)
<1>1. type.kind = "FramePtr" => o \in Int
  <2>1. type \in RegTypes
    BY DEF NumberedRegs
  <2>2. type.kind = "FramePtr" => type.off \in Int
    BY <2>1, TypesOfRegisters
  <2>. QED BY <2>2, WrapIsWord, SignedOfWord DEF Effective, WrapSigned, SignedWord
<1>2. o \in Int => NumberedFrame(StoredStack(stack, o, width, value, is_st))
  <2>. HIDE DEF o
  <2>. SUFFICES ASSUME o \in Int PROVE NumberedFrame(StoredStack(stack, o, width, value, is_st))
    OBVIOUS
  <2>1. NumberedFrame(clear_spill(stack, o)) /\ IsFrame(clear_spill(stack, o)) /\ NumberedFrame(spill(stack, o, value))
    BY NumberedFrames, FrameKept
  <2>2. NumberedFrame(mark_written(clear_spill(stack, o), o, width))
    BY <2>1, NumberedFrames
  <2>. QED BY <2>1, <2>2 DEF StoredStack
<1>. QED BY <1>1, <1>2 DEF check_store

(* check_call gives R0 a numbered register, and marks a frame from where R1 *)
(* points; a map value and a reserved record have sizes that are numbers.  *)
LEMMA NumberedCall ==
  ASSUME NEW regs \in [Reg -> NumberedRegs], NEW stack, IsFrame(stack), NumberedFrame(stack), NEW h, NEW id \in Nat
  PROVE  LET out == check_call(regs, stack, h, id) IN
         out.regs \in [Reg -> NumberedRegs] /\ NumberedFrame(out.stack)
<1>. DEFINE out == check_call(regs, stack, h, id)
<1>1. CASE ~(h \in DOMAIN HELPERS /\ CallError(regs, HELPERS[h].args) = {})
  BY <1>1 DEF check_call
<1>2. CASE h \in DOMAIN HELPERS /\ CallError(regs, HELPERS[h].args) = {}
  <2>. DEFINE ret == HELPERS[h].ret_type
              called == [regs EXCEPT ![0] = Returned(ret, regs[2], id)]
              after == WrittenByCall(stack, h, regs[1], regs[2])
  <2>1. out = [err |-> {}, regs |-> Clobbered(called), stack |-> after, ids |-> Fresh(ret)]
    BY <1>2 DEF check_call
  <2>2. ret \in Returns
    BY <1>2, HelperTable
  <2>3. regs[1] \in NumberedRegs /\ regs[2] \in NumberedRegs
    BY DEF Reg
  <2>4. NumberedFrame(after)
    <3>1. regs[1].type.kind = "FramePtr" => regs[1].type.off \in Int
      BY <2>3, TypesOfRegisters DEF NumberedRegs
    <3>. QED BY <3>1, NumberedFrames, NumberedMade DEF WrittenByCall
  <2>. HIDE DEF after
  <2>5. Returned(ret, regs[2], id) \in NumberedRegs
    <3>1. ReserveSize(regs[2]) \in Nat
      <4>1. regs[2].tnum.value \in Word
        BY <2>3 DEF NumberedRegs, Tnum
      <4>2. Low(regs[2].tnum.value) \in Nat
        BY <4>1, LowIsWord, WordInt
      <4>. QED BY <4>2, SizesAssumption DEF ReserveSize
    <3>2. \A n \in Nat : MapValuePtr(id, 0, n) \in PlainTypes /\ RingBufPtr(id, 0, n) \in PlainTypes
      BY DEF MapValuePtr, RingBufPtr, PlainTypes
    <3>3. \A t \in PlainTypes : PtrOrNull(t, id) \in RegTypes
      BY TypesOfRegisters DEF PtrOrNull
    <3>4. RegOf(PtrOrNull(MapValuePtr(id, 0, DEFAULT_MAP_VALUE_SIZE), id)) \in NumberedRegs
      BY <3>2, <3>3, NumberedMade, SizesAssumption
    <3>5. RegOf(PtrOrNull(RingBufPtr(id, 0, ReserveSize(regs[2])), id)) \in NumberedRegs
      BY <3>1, <3>2, <3>3, NumberedMade
    <3>. HIDE DEF ret
    <3>. QED BY <2>2, <3>4, <3>5, NumberedMade DEF Returned, Returns
  <2>6. called \in [Reg -> NumberedRegs]
    BY <2>5
  <2>. HIDE DEF called, ret
  <2>7. Clobbered(called) \in [Reg -> NumberedRegs]
    BY <2>6, NumberedMade DEF Clobbered
  <2>. QED BY <2>1, <2>4, <2>7
<1>. QED BY <1>1, <1>2

(* Every instruction leads from numbered states to numbered states. *)
LEMMA NumberedExecute ==
  ASSUME NEW st, Numbered(st), NEW i \in Instructions, NEW id \in Nat
  PROVE  Numbered(Execute(i, st, id).fall) /\ Numbered(Execute(i, st, id).taken)
<1>. DEFINE e == Execute(i, st, id)
            Good(t) == t.regs \in [Reg -> NumberedRegs] /\ NumberedFrame(t.stack)
<1>. SUFFICES Good(e.fall) /\ Good(e.taken)
  <2>1. IsState(e.fall) /\ IsState(e.taken)
    BY ExecuteMakes DEF IsEffect, Numbered
  <2>. QED BY <2>1 DEF Numbered
<1>1. /\ st.regs \in [Reg -> NumberedRegs] /\ NumberedFrame(st.stack) /\ IsFrame(st.stack)
      /\ {"regs", "stack"} \subseteq DOMAIN st
  BY DEF Numbered, IsState
<1>2. /\ i.kind \in Kind /\ i.dst \in Reg /\ i.off \in Int /\ i.imm \in Int /\ i.wide \in BOOLEAN
      /\ i.kind = "alu" => i.op \in AluOpcode
      /\ i.reloc \in {"none", "map", "data", "core"}
  BY DEF Instructions
<1>3. SrcReg(st.regs, i) \in NumberedRegs
  BY <1>1, NumberedSrc
<1>4. \A err, ids, t, u : Good(t) /\ Good(u) => Good(Effect(err, t, u, ids).fall) /\ Good(Effect(err, t, u, ids).taken)
  BY DEF Effect
<1>5. Good(st)
  BY <1>1
<1>6. \A r \in NumberedRegs : Good([st EXCEPT !.regs[i.dst] = r])
  BY <1>1, <1>2
<1>7. \A regs \in [Reg -> NumberedRegs] : Good([st EXCEPT !.regs = regs])
  BY <1>1
<1>8. \A stack : NumberedFrame(stack) => Good([st EXCEPT !.stack = stack])
  BY <1>1
<1>. HIDE DEF Good
<1>9. CASE ReadErrors(st.regs, i) # {}
  <2>1. e = Effect(ReadErrors(st.regs, i), st, st, 0)
    BY <1>9 DEF Execute, Fails
  <2>. QED BY <1>4, <1>5, <2>1
<1>10. CASE ReadErrors(st.regs, i) = {} /\ i.kind = "alu"
  <2>. DEFINE out == check_alu(i.op, i.wide, st.regs[i.dst], SrcReg(st.regs, i))
  <2>1. st.regs[i.dst] \in NumberedRegs
    BY <1>1, <1>2
  <2>2. out.reg \in NumberedRegs
    BY <1>2, <1>3, <1>10, <2>1, NumberedAlu
  <2>3. e = Effect(out.err, [st EXCEPT !.regs[i.dst] = out.reg], st, 0)
    BY <1>10 DEF Execute
  <2>. HIDE DEF e, out
  <2>4. Good([st EXCEPT !.regs[i.dst] = out.reg])
    BY <1>6, <2>2
  <2>. QED BY <1>4, <1>5, <2>3, <2>4
<1>11. CASE ReadErrors(st.regs, i) = {} /\ i.kind = "ldimm64"
  <2>1. LoadedImm64(i) \in NumberedRegs
    <3>1. DataPtr("section") \in RegTypes
      BY TypesOfRegisters DEF DataPtr, PlainTypes
    <3>2. Wrap(i.imm) \in Word
      BY <1>2, WrapIsWord
    <3>. QED BY <1>2, <3>1, <3>2, NumberedMade DEF LoadedImm64
  <2>. DEFINE t == [st EXCEPT !.regs[i.dst] = LoadedImm64(i)]
  <2>2. e = Effect({}, t, t, 0)
    BY <1>11 DEF Execute, Leads
  <2>3. Good(t)
    BY <1>6, <2>1
  <2>. HIDE DEF e, t
  <2>. QED BY <1>4, <2>2, <2>3
<1>12. CASE ReadErrors(st.regs, i) = {} /\ i.kind = "jmp"
  <2>. DEFINE out == BranchStates(st, i)
  <2>1. Good(out.taken) /\ Good(out.fall)
    BY <1>12, NumberedBranch DEF Numbered, Good
  <2>2. e = Effect({}, out.fall, out.taken, 0)
    BY <1>12 DEF Execute
  <2>. HIDE DEF e, out
  <2>. QED BY <1>4, <2>1, <2>2
<1>13. CASE ReadErrors(st.regs, i) = {} /\ i.kind = "ldx"
  <2>. DEFINE out == check_load(st.regs, st.stack, i.dst, i.src, i.off, i.width)
  <2>1. out.regs \in [Reg -> NumberedRegs]
    BY <1>1, <1>2, NumberedLoad
  <2>2. e = Effect(out.err, [st EXCEPT !.regs = out.regs], st, 0)
    BY <1>13 DEF Execute
  <2>. HIDE DEF e, out
  <2>3. Good([st EXCEPT !.regs = out.regs])
    BY <1>7, <2>1
  <2>. QED BY <1>4, <1>5, <2>2, <2>3
<1>14. CASE ReadErrors(st.regs, i) = {} /\ i.kind \in {"stx", "st"}
  <2>. DEFINE out == check_store(st.regs, st.stack, i.dst, SrcReg(st.regs, i), i.kind = "st", i.off, i.width)
  <2>1. NumberedFrame(out.stack)
    BY <1>1, <1>2, <1>3, NumberedStore
  <2>2. e = Effect(out.err, [st EXCEPT !.stack = out.stack], st, 0)
    BY <1>14 DEF Execute
  <2>. HIDE DEF e, out
  <2>3. Good([st EXCEPT !.stack = out.stack])
    BY <1>8, <2>1
  <2>. QED BY <1>4, <1>5, <2>2, <2>3
<1>15. CASE ReadErrors(st.regs, i) = {} /\ i.kind = "call"
  <2>. DEFINE out == check_call(st.regs, st.stack, i.helper, id)
              t == [regs |-> out.regs, stack |-> out.stack]
  <2>1. out.regs \in [Reg -> NumberedRegs] /\ NumberedFrame(out.stack)
    BY <1>1, NumberedCall
  <2>2. e = Effect(out.err, t, st, out.ids)
    BY <1>15 DEF Execute
  <2>. HIDE DEF e, out
  <2>3. Good(t)
    BY <2>1 DEF Good
  <2>. HIDE DEF t
  <2>. QED BY <1>4, <1>5, <2>2, <2>3
<1>16. CASE ReadErrors(st.regs, i) = {} /\ i.kind \in {"ja", "exit", "unknown", "undecodable"}
  <2>1. \E err : e = Effect(err, st, st, 0)
    BY <1>16 DEF Execute, Leads, Fails
  <2>. HIDE DEF e
  <2>. QED BY <1>4, <1>5, <2>1
<1>. QED BY <1>2, <1>9, <1>10, <1>11, <1>12, <1>13, <1>14, <1>15, <1>16 DEF Kind

(* So does widening. *)
LEMMA NumberedWiden ==
  /\ \A r, s \in NumberedRegs : widen(r, s) \in NumberedRegs
  /\ \A s, t : Numbered(s) /\ Numbered(t) => Numbered(state_widen(s, t))
<1>1. ASSUME NEW r \in NumberedRegs, NEW s \in NumberedRegs PROVE widen(r, s) \in NumberedRegs
  <2>1. CASE r.type = s.type /\ IsScalar(r)
    <3>1. WellFormed(r) /\ WellFormed(s)
      BY <2>1, NumberedScalar DEF IsScalar
    <3>. QED BY <3>1, WidenSpeaks, NumberedScalar
  <2>2. CASE ~(r.type = s.type /\ IsScalar(r))
    BY <2>2, NumberedMade DEF widen
  <2>. QED BY <2>1, <2>2
<1>2. ASSUME NEW s, NEW t, Numbered(s), Numbered(t) PROVE Numbered(state_widen(s, t))
  <2>. DEFINE w == state_widen(s, t)
  <2>1. IsState(w)
    BY <1>2, WidenIsState DEF Numbered
  <2>2. w.regs = [r \in Reg |-> widen(s.regs[r], t.regs[r])] /\ w.stack = stack_widen(s.stack, t.stack)
    BY DEF state_widen
  <2>3. w.regs \in [Reg -> NumberedRegs]
    BY <1>1, <1>2, <2>2 DEF Numbered
  <2>4. NumberedFrame(stack_widen(s.stack, t.stack))
    BY <1>1, <1>2 DEF Numbered, NumberedFrame, stack_widen
  <2>. QED BY <2>1, <2>2, <2>3, <2>4 DEF Numbered
<1>. QED BY <1>1, <1>2

(* VerifierState::entry and StackState::new. *)
LEMMA NumberedEntry == Numbered(entry)
<1>1. entry.regs = [r \in Reg |-> CASE r = 1 -> ctx_ptr(0) [] r = R10 -> frame_ptr(0) [] OTHER -> uninit]
      /\ entry.stack = new_stack
  BY DEF entry
<1>2. CtxPtr(0) \in RegTypes /\ FramePtr(0) \in RegTypes
  BY TypesOfRegisters DEF CtxPtr, FramePtr, PlainTypes
<1>3. ctx_ptr(0) \in NumberedRegs /\ frame_ptr(0) \in NumberedRegs /\ uninit \in NumberedRegs
  BY <1>2, NumberedMade DEF ctx_ptr, frame_ptr
<1>4. entry.regs \in [Reg -> NumberedRegs]
  BY <1>1, <1>3
<1>5. NumberedFrame(new_stack)
  <2>1. new_stack.init = {} /\ DOMAIN new_stack.spills = {} /\ "init" \in DOMAIN new_stack
    BY DEF new_stack
  <2>. QED BY <2>1 DEF NumberedFrame
<1>. QED BY <1>1, <1>4, <1>5, EntryIsState DEF Numbered

(* So that every state the walk can compute is numbered. *)
LEMMA UniverseOfNumbers == \A s \in Universe : Numbered(s)
<1>. SUFFICES ASSUME NEW n \in Nat PROVE \A s \in Level(n) : Numbered(s)
  BY DEF Universe
<1>. DEFINE Reached == {k \in 0 .. n : \A s \in Level(k) : Numbered(s)}
<1>1. 0 \in Reached
  BY NumberedEntry, Levels
<1>2. ASSUME NEW k \in 0 .. n - 1, k \in Reached PROVE k + 1 \in Reached
  <2>1. Level(k + 1) = Grow(Level(k)) /\ \A s \in Level(k) : Numbered(s)
    BY <1>2, Levels
  <2>2. \A s \in Level(k + 1) : Numbered(s)
    BY <2>1, NumberedExecute, NumberedWiden DEF Grow, Made, Jumped, Widened
  <2>. QED BY <2>2
<1>3. \A k \in 0 .. n : k \in Reached
  <2>. HIDE DEF Reached
  <2>. QED BY <1>1, <1>2, AlongTheList
<1>. QED BY <1>3

(* Every verdict is counted once, passed or failed. *)
Counts == passed \in Nat /\ Len(judged) = passed + failed

TypesInv == RunsInv /\ Counts /\ written \subseteq Reg

(* A numbered state is one of the verifier's types. *)
LEMMA NumberedTypes ==
  ASSUME NEW s, Numbered(s)
  PROVE  /\ s.regs \in [Reg -> RegStates]
         /\ s.stack.init \subseteq Slots
         /\ \A o \in DOMAIN s.stack.spills : o \in Int /\ s.stack.spills[o] \in RegStates
<1>1. NumberedRegs \subseteq RegStates
  BY DEF NumberedRegs, RegStates, Tnum, SignedWord
<1>2. s.regs \in [Reg -> NumberedRegs] /\ NumberedFrame(s.stack)
  BY DEF Numbered
<1>. QED BY <1>1, <1>2 DEF NumberedFrame

(* The types of the walk, from the invariant that it walks on. *)
LEMMA WalkedTypes ==
  ASSUME RunsInv, Counts, written \subseteq Reg
  PROVE  TypeOK
<1>1. /\ Len(judged) <= Len(chosen)
      /\ chosen \in Seq(DOMAIN programs)
  BY DEF RunsInv, CommandInv, Chosen, Tallied
<1>2. \A k \in DOMAIN chosen : chosen[k] \in DOMAIN programs
  BY <1>1
<1>3. ASSUME step = "walk"
      PROVE  /\ state \in Universe /\ prog \in Seq(Instructions) /\ pc \in 0 .. Len(prog) /\ next_id \in Nat
  BY <1>3 DEF RunsInv, WalksOn, WP!IInv, WP!TypeOK
<1>4. step = "walk" => /\ state.regs \in [Reg -> RegStates]
                       /\ state.stack.init \subseteq Slots
                       /\ \A o \in DOMAIN state.stack.spills : o \in Int /\ state.stack.spills[o] \in RegStates
  BY <1>3, UniverseOfNumbers, NumberedTypes
<1>. DEFINE o == Exec(prog, pc, state, next_id)
<1>5. ASSUME step = "walk", pc < Len(prog)
      PROVE  /\ o.err \subseteq ErrorKinds \ {"ComplexityExceeded"}
             /\ o.err # {} => o.kind = "stop"
             /\ o.next.pc \in 0 .. Len(prog)
             /\ o.taken.pc \in 0 .. Len(prog)
             /\ o.kind = "branch" => o.taken.pc \in Indices(prog)
  <2>1. pc \in Indices(prog)
    BY <1>3, <1>5 DEF Indices
  <2>2. WP!WellFormed(prog, o)
    BY <1>3, <1>5, <2>1, OutcomeOf
  <2>. HIDE DEF o
  <2>. QED BY <2>2 DEF WP!WellFormed, WP!Outcome, WP!Item, WP!Pc, Indices
<1>. QED BY <1>1, <1>2, <1>4, <1>5 DEF TypeOK, Counts

(* A run writes the register that an instruction names, or R0. *)
LEMMA RunWrites ==
  ASSUME RunsInv, written \subseteq Reg, RunInsn
  PROVE  written' \subseteq Reg
<1>1. /\ running = "yes" /\ slot \in 0 .. Len(raw) - 1
      /\ written' = WrittenAfter(At(raw, slot))
  BY DEF RunInsn, S!SlotStep, S!IsInsn
<1>2. raw \in Seq(Instructions)
  BY <1>1 DEF RunsInv, RunStands
<1>3. At(raw, slot) \in Instructions
  BY <1>1, <1>2 DEF At
<1>4. At(raw, slot).dst \in Reg
  BY <1>3 DEF Instructions
<1>. QED BY <1>1, <1>4 DEF WrittenAfter, Reg, R0

(* No step of the command or of a run disturbs the types. *)
LEMMA TypesKept == TypesInv /\ [Next]_vars => TypesInv'
<1>. SUFFICES ASSUME TypesInv, [Next]_vars PROVE TypesInv'
  OBVIOUS
<1>1. RunsInv'
  BY RunsInvKept DEF TypesInv
<1>2. Counts'
  <2>1. CASE Judge
    <3>. DEFINE v == (errors = {})
    <3>1. /\ judged' = Append(judged, v)
          /\ v => passed' = passed + 1 /\ failed' = failed
          /\ ~v => failed' = failed + 1 /\ passed' = passed
      BY <2>1 DEF Judge
    <3>2. judged \in Seq(BOOLEAN) /\ failed \in Nat /\ passed \in Nat /\ Len(judged) = passed + failed
      BY DEF TypesInv, RunsInv, CommandInv, Tallied, Counts
    <3>. HIDE DEF v
    <3>3. Len(judged') = Len(judged) + 1
      BY <3>1, <3>2
    <3>. QED BY <3>1, <3>2, <3>3 DEF Counts
  <2>2. CASE UNCHANGED <<passed, failed, judged>>
    BY <2>2 DEF TypesInv, Counts
  <2>3. Judge \/ UNCHANGED <<passed, failed, judged>>
    BY DEF Next, Command, Select, StartWalk, Walk, Return, Load, RunInsn, RunExit, Rest, vars, command
  <2>. QED BY <2>1, <2>2, <2>3
<1>3. written' \subseteq Reg
  <2>1. RunInsn \/ UNCHANGED written
    BY DEF Next, Command, Select, StartWalk, Walk, Judge, Return, Load, RunExit, Rest, vars, run
  <2>. QED BY <2>1, RunWrites DEF TypesInv
<1>. QED BY <1>1, <1>2, <1>3 DEF TypesInv

(* TypeOK: whatever the words, the bounds and the object are, the walk     *)
(* computes with registers whose tracked numbers are words, spills only at *)
(* numbers, and finds at most one error at an instruction, which ends the  *)
(* path; a branch is deferred only to an instruction of the list; every    *)
(* programme is judged and counted once; a run writes only registers.      *)
THEOREM TypesAreKept == Spec => []TypeOK
<1>1. Init => TypesInv
  <2>1. Init => Counts /\ written \subseteq Reg
    <3>. SUFFICES ASSUME Init PROVE Counts /\ written \subseteq Reg
      OBVIOUS
    <3>1. passed = 0 /\ failed = 0 /\ judged = <<>> /\ written = {1, R10}
      BY DEF Init
    <3>2. Len(judged) = 0
      BY <3>1
    <3>. QED BY <3>1, <3>2 DEF Counts, Reg, R10
  <2>. QED BY <2>1, RunsStart DEF TypesInv
<1>2. TypesInv => TypeOK
  BY WalkedTypes DEF TypesInv
<1>. QED BY <1>1, <1>2, TypesKept, PTL DEF Spec
===============================================================================
