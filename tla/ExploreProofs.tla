---------------------------- MODULE ExploreProofs ----------------------------
(***************************************************************************)
(* What holds of the path walk for every program, every domain and every   *)
(* bound.  Nothing is assumed of IsSubstate and Widen beyond their types.  *)
(***************************************************************************)
EXTENDS Explore, TLAPS

(* What Exec yields at an instruction within the limit. *)
LEMMA ExecFacts ==
  ASSUME TypeOK, pc < Size(prog), total_visited < ComplexityLimit,
         NEW s \in State
  PROVE  /\ pc \in Pc(prog)
         /\ Size(prog) \in Nat
         /\ WellFormed(prog, Exec(prog, pc, s, next_id))
<1>1. Size(prog) \in Nat
  BY ExecAssumption DEF TypeOK
<1>2. pc \in Pc(prog)
  BY <1>1 DEF TypeOK, Pc
<1>3. next_id \in 0 .. ComplexityLimit
  BY BoundsAssumption DEF TypeOK
<1>. QED BY <1>1, <1>2, <1>3, ExecAssumption DEF TypeOK

(* The state an instruction is processed with is a state. *)
LEMMA ArrivalFacts ==
  ASSUME TypeOK, pc \in Pc(prog)
  PROVE  /\ state \in State
         /\ explored[pc] \in Seq(State)
         /\ explored[pc] # <<>> => Widen(explored[pc][1], state) \in State
BY DomainAssumption DEF TypeOK

(* The two ways a path ends keep the types. *)
LEMMA EndPathTypes ==
  ASSUME TypeOK, EndPath, UNCHANGED prog
  PROVE  /\ pc' \in 0 .. Size(prog)
         /\ state' \in State
         /\ backtrack' \in Seq(Item(prog))
         /\ errors' \subseteq (0 .. Size(prog)) \X ErrorKind
         /\ finished' \in BOOLEAN
<1>0. Size(prog) \in Nat
  BY ExecAssumption DEF TypeOK
<1>1. CASE backtrack # <<>> /\ UNCHANGED <<errors, finished>> /\
           pc' = Head(backtrack).pc /\ state' = Head(backtrack).state /\
           backtrack' = Tail(backtrack)
  <2>1. Head(backtrack) \in Item(prog) /\ Tail(backtrack) \in Seq(Item(prog))
    BY <1>1 DEF TypeOK
  <2>. QED BY <1>1, <2>1 DEF TypeOK, Item
<1>2. CASE finished' = TRUE /\ errors' = Concluded(errors) /\
           UNCHANGED <<pc, state, backtrack>>
  <2>1. <<0, "FallThrough">> \in (0 .. Size(prog)) \X ErrorKind
    BY <1>0, DomainAssumption
  <2>. QED BY <1>2, <2>1 DEF TypeOK, Concluded
<1>. QED BY <1>1, <1>2 DEF EndPath

(* Processing an instruction keeps the types. *)
LEMMA ProcessTypes ==
  ASSUME TypeOK, NEW s \in State, Counted, Process(s), UNCHANGED prog
  PROVE  /\ pc' \in 0 .. Size(prog)
         /\ state' \in State
         /\ backtrack' \in Seq(Item(prog))
         /\ errors' \subseteq (0 .. Size(prog)) \X ErrorKind
         /\ reached_exit' \in BOOLEAN
         /\ next_id' \in 0 .. total_visited'
         /\ visits' \subseteq Visit(prog)
<1>. DEFINE o == Exec(prog, pc, s, next_id)
<1>1. total_visited < ComplexityLimit /\ total_visited' = total_visited + 1
  BY BoundsAssumption DEF Counted, TypeOK
<1>2. pc \in Pc(prog) /\ Size(prog) \in Nat /\ WellFormed(prog, o)
  BY <1>1, ExecFacts DEF Counted
<1>3. o \in Outcome(prog)
  BY <1>2 DEF WellFormed
<1>4. /\ o.next \in Item(prog)  /\ o.taken \in Item(prog)
      /\ o.err \subseteq ErrorKind /\ o.exit \in BOOLEAN /\ o.ids \in {0, 1}
  BY <1>3 DEF Outcome
<1>5. /\ o.next.pc \in 0 .. Size(prog) /\ o.next.state \in State
  BY <1>4 DEF Item
<1>6. /\ pc' \in 0 .. Size(prog)
      /\ state' \in State
      /\ backtrack' \in Seq(Item(prog))
  <2>. HIDE DEF o
  <2>1. <<o.taken>> \o backtrack \in Seq(Item(prog))
    BY <1>4 DEF TypeOK
  <2>2. CASE pc' = Size(prog) /\ state' = s /\ UNCHANGED backtrack
    BY <2>2, <1>2 DEF TypeOK
  <2>3. CASE pc' = o.next.pc /\ state' = o.next.state /\ UNCHANGED backtrack
    BY <2>3, <1>5 DEF TypeOK
  <2>4. CASE pc' = o.next.pc /\ state' = o.next.state /\
             backtrack' = <<o.taken>> \o backtrack
    BY <2>4, <1>5, <2>1
  <2>. QED BY <2>2, <2>3, <2>4 DEF Process, o
<1>7. errors' \subseteq (0 .. Size(prog)) \X ErrorKind
  <2>1. errors' = errors \cup {<<pc, k>> : k \in o.err}
    BY DEF Process
  <2>2. pc \in 0 .. Size(prog)
    BY DEF TypeOK
  <2>. HIDE DEF o
  <2>. QED BY <2>1, <2>2, <1>4 DEF TypeOK
<1>8. reached_exit' \in BOOLEAN
  BY <1>4 DEF Process, TypeOK
<1>9. next_id' \in 0 .. total_visited'
  <2>1. next_id' = next_id + o.ids
    BY DEF Process
  <2>. HIDE DEF o
  <2>. QED BY <2>1, <1>1, <1>4, BoundsAssumption DEF TypeOK
<1>10. visits' \subseteq Visit(prog)
  BY <1>2 DEF Process, TypeOK, Visit
<1>. QED BY <1>6, <1>7, <1>8, <1>9, <1>10

(* The types hold at the start. *)
LEMMA TypeInit == Init => TypeOK
<1>. SUFFICES ASSUME Init PROVE TypeOK
  OBVIOUS
<1>1. Size(prog) \in Nat /\ ComplexityLimit \in Nat
  BY ExecAssumption, BoundsAssumption DEF Init
<1>2. explored \in [Pc(prog) -> Seq(State)]
  BY DEF Init
<1>3. errors \subseteq (0 .. Size(prog)) \X ErrorKind
  BY <1>1, DomainAssumption DEF Init
<1>4. finished \in BOOLEAN
  BY DEF Init
<1>5. backtrack \in Seq(Item(prog))
  BY DEF Init
<1>6. total_visited \in 0 .. ComplexityLimit + 1 /\ total_visited <= ComplexityLimit
  BY <1>1 DEF Init
<1>7. pc \in 0 .. Size(prog) /\ state \in State /\ next_id \in 0 .. total_visited
  BY <1>1, DomainAssumption DEF Init
<1>8. prog \in Program /\ reached_exit \in BOOLEAN /\ visits \subseteq Visit(prog)
  BY DEF Init
<1>. QED BY <1>2, <1>3, <1>4, <1>5, <1>6, <1>7, <1>8 DEF TypeOK

(* Every step keeps the types. *)
LEMMA TypeNext == TypeOK /\ [Next]_vars => TypeOK'
<1>. SUFFICES ASSUME TypeOK, [Next]_vars PROVE TypeOK'
  OBVIOUS
<1>0. Size(prog) \in Nat /\ ComplexityLimit \in Nat
  BY ExecAssumption, BoundsAssumption DEF TypeOK
<1>1. CASE PathOver
  BY <1>1, EndPathTypes DEF PathOver, TypeOK
<1>2. CASE TooComplex
  <2>1. errors' \subseteq (0 .. Size(prog)) \X ErrorKind
    <3>1. /\ <<0, "FallThrough">> \in (0 .. Size(prog)) \X ErrorKind
          /\ <<pc, "ComplexityExceeded">> \in (0 .. Size(prog)) \X ErrorKind
      BY <1>0, DomainAssumption DEF TypeOK
    <3>. QED BY <1>2, <3>1 DEF TooComplex, Concluded, TypeOK
  <2>2. total_visited' \in 0 .. ComplexityLimit + 1 /\ next_id' \in 0 .. total_visited'
    BY <1>2, <1>0 DEF TooComplex, TypeOK
  <2>3. finished' \in BOOLEAN
    BY <1>2 DEF TooComplex
  <2>4. UNCHANGED <<prog, pc, state, backtrack, explored, reached_exit, visits>>
    BY <1>2 DEF TooComplex
  <2>5. finished'
    BY <1>2 DEF TooComplex
  <2>. QED BY <2>1, <2>2, <2>3, <2>4, <2>5 DEF TypeOK
<1>3. CASE Prune
  <2>1. /\ total_visited' \in 0 .. ComplexityLimit + 1
        /\ total_visited' <= ComplexityLimit
        /\ next_id' \in 0 .. total_visited'
    BY <1>3, <1>0 DEF Prune, Counted, TypeOK
  <2>. QED BY <1>3, <2>1, EndPathTypes DEF Prune, TypeOK
<1>4. CASE VisitLoopHead
  <2>. DEFINE s == Widen(explored[pc][1], state)
  <2>1. Counted /\ UNCHANGED <<prog, finished>> /\ explored[pc] # <<>> /\ Process(s)
    BY <1>4 DEF VisitLoopHead, AtLoopHead
  <2>2. pc \in Pc(prog)
    BY <2>1, <1>0 DEF Counted, TypeOK, Pc
  <2>3. s \in State /\ explored[pc] \in Seq(State)
    BY <2>1, <2>2, ArrivalFacts
  <2>4. [explored[pc] EXCEPT ![1] = s] \in Seq(State)
    BY <2>3, <2>1
  <2>5. explored' \in [Pc(prog) -> Seq(State)]
    BY <1>4, <2>2, <2>4 DEF VisitLoopHead, TypeOK
  <2>6. total_visited' \in 0 .. ComplexityLimit + 1 /\ total_visited' <= ComplexityLimit
    BY <2>1, <1>0 DEF Counted, TypeOK
  <2>. HIDE DEF s
  <2>. QED BY <2>1, <2>3, <2>5, <2>6, ProcessTypes DEF TypeOK
<1>5. CASE VisitAndStore
  <2>1. Counted /\ UNCHANGED <<prog, finished>> /\ Process(state)
    BY <1>5 DEF VisitAndStore
  <2>2. pc \in Pc(prog)
    BY <2>1, <1>0 DEF Counted, TypeOK, Pc
  <2>3. explored' \in [Pc(prog) -> Seq(State)]
    BY <1>5, <2>2 DEF VisitAndStore, TypeOK
  <2>4. total_visited' \in 0 .. ComplexityLimit + 1 /\ total_visited' <= ComplexityLimit
    BY <2>1, <1>0 DEF Counted, TypeOK
  <2>5. state \in State
    BY DEF TypeOK
  <2>. QED BY <2>1, <2>3, <2>4, <2>5, ProcessTypes DEF TypeOK
<1>6. CASE VisitOnly
  <2>1. Counted /\ UNCHANGED <<prog, explored, finished>> /\ Process(state)
    BY <1>6 DEF VisitOnly
  <2>2. total_visited' \in 0 .. ComplexityLimit + 1 /\ total_visited' <= ComplexityLimit
    BY <2>1, <1>0 DEF Counted, TypeOK
  <2>3. state \in State
    BY DEF TypeOK
  <2>. QED BY <2>1, <2>2, <2>3, ProcessTypes DEF TypeOK
<1>7. CASE UNCHANGED vars
  BY <1>7 DEF vars, TypeOK
<1>. QED BY <1>1, <1>2, <1>3, <1>4, <1>5, <1>6, <1>7 DEF Next

(* The walk keeps its types: pcs stay within the program, the count of     *)
(* visited instructions within the limit plus one, and IdGen never outruns *)
(* that count.                                                             *)
THEOREM TypeCorrect == Spec => []TypeOK
BY TypeInit, TypeNext, PTL DEF Spec

-----------------------------------------------------------------------------
(* The conjuncts of the inductive invariant. *)

(* Deferred branches lie inside the program. *)
TargetsInv == \A i \in DOMAIN backtrack : backtrack[i].pc \in Pc(prog)

(* No place is dropped: what an instruction led to was visited, is subsumed*)
(* by what was visited, or is still waiting.                               *)
Open == IF finished THEN {} ELSE Pending
NotCut == \A e \in errors : e[2] # "ComplexityExceeded"
Accounted(it) == Settled(it) \/ it \in Open
NothingDropped ==
  NotCut =>
    /\ Accounted([pc |-> 0, state |-> Entry])
    /\ \A v \in visits : \A it \in Successors(v) : Accounted(it)

(* Errors and EXITs of the visits made so far are on record. *)
VerdictInv ==
  /\ \A v \in visits : \A k \in Exec(prog, v.pc, v.state, v.id).err :
       <<v.pc, k>> \in errors
  /\ reached_exit => \E v \in visits : Exec(prog, v.pc, v.state, v.id).exit
  /\ finished => reached_exit \/ errors # {}

IInv == /\ TypeOK
        /\ TargetsInv
        /\ ExploredWereVisited
        /\ NothingDropped
        /\ VerdictInv
        /\ NothingInvented

Current == [pc |-> pc, state |-> state]
NewVisit(s) == [pc |-> pc, arrived |-> state, state |-> s, id |-> next_id]

(* A place once settled stays settled. *)
LEMMA SettledStays ==
  ASSUME NEW it, Settled(it), visits \subseteq visits', prog' = prog
  PROVE  Settled(it)'
BY DEF Settled

(* A place once reached stays reached. *)
LEMMA ReachedStays ==
  ASSUME NEW q, NEW s, Reached(q, s), visits \subseteq visits', prog' = prog
  PROVE  Reached(q, s)'
BY DEF Reached, Successors

(* Popping takes over the top of the stack and loses nothing below it. *)
LEMMA PopPending ==
  ASSUME TypeOK, TargetsInv, EndPath, prog' = prog, backtrack # <<>>
  PROVE  /\ Pending' \subseteq Pending
         /\ Pending \subseteq Pending' \cup {Current}
         /\ TargetsInv'
         /\ pc' \in Pc(prog)
         /\ UNCHANGED <<errors, finished>>
<1>1. /\ pc' = Head(backtrack).pc /\ state' = Head(backtrack).state
      /\ backtrack' = Tail(backtrack) /\ UNCHANGED <<errors, finished>>
  BY DEF EndPath
<1>2. backtrack \in Seq(Item(prog)) /\ Len(backtrack) \in Nat \ {0}
  BY DEF TypeOK
<1>3. /\ 1 \in DOMAIN backtrack /\ Head(backtrack) = backtrack[1]
      /\ \A i \in DOMAIN Tail(backtrack) :
           i + 1 \in DOMAIN backtrack /\ Tail(backtrack)[i] = backtrack[i + 1]
      /\ \A i \in DOMAIN backtrack :
           i = 1 \/ (i - 1 \in DOMAIN Tail(backtrack) /\ Tail(backtrack)[i - 1] = backtrack[i])
  BY <1>2
<1>4. [pc |-> pc', state |-> state'] = backtrack[1]
  <2>1. backtrack[1] \in Item(prog)
    BY <1>2, <1>3
  <2>2. backtrack[1] = [pc |-> backtrack[1].pc, state |-> backtrack[1].state]
    BY <2>1 DEF Item
  <2>. QED BY <2>2, <1>1, <1>3
<1>5. Pending' = {backtrack[1]} \cup {Tail(backtrack)[i] : i \in DOMAIN Tail(backtrack)}
  BY <1>1, <1>4 DEF Pending
<1>6. Pending' \subseteq Pending
  BY <1>5, <1>3 DEF Pending
<1>7. Pending \subseteq Pending' \cup {Current}
  BY <1>5, <1>3 DEF Pending, Current
<1>8. TargetsInv' /\ pc' \in Pc(prog)
  BY <1>1, <1>3 DEF TargetsInv
<1>. QED BY <1>1, <1>6, <1>7, <1>8

(* Processing makes pending exactly what the instruction leads to. *)
LEMMA ProcessPending ==
  ASSUME TypeOK, TargetsInv, NEW s \in State, Counted, Process(s), prog' = prog
  PROVE  /\ visits' = visits \cup {NewVisit(s)}
         /\ Pending \subseteq Pending' \cup {Current}
         /\ Successors(NewVisit(s)) \subseteq Pending'
         /\ \A it \in Pending' : \/ it.pc = Size(prog)
                                 \/ it \in Pending
                                 \/ it \in Successors(NewVisit(s))
         /\ TargetsInv'
         /\ pc \in Pc(prog)
         /\ "ComplexityExceeded" \notin Exec(prog, pc, s, next_id).err
<1>. DEFINE o == Exec(prog, pc, s, next_id)
            B == {backtrack[i] : i \in DOMAIN backtrack}
            next == [pc |-> pc', state |-> state']
<1>1. total_visited < ComplexityLimit
  BY BoundsAssumption DEF Counted, TypeOK
<1>2. pc \in Pc(prog) /\ Size(prog) \in Nat /\ WellFormed(prog, o)
  BY <1>1, ExecFacts DEF Counted
<1>3. /\ o.next \in Item(prog)  /\ o.taken \in Item(prog)
      /\ o.kind \in {"stop", "step", "branch"}
      /\ o.kind = "branch" => o.taken.pc \in Pc(prog)
      /\ "ComplexityExceeded" \notin o.err
  BY <1>2 DEF WellFormed, Outcome
<1>4. visits' = visits \cup {NewVisit(s)}
  BY DEF Process, NewVisit
<1>5. Successors(NewVisit(s)) = CASE o.kind = "stop"   -> {}
                                  [] o.kind = "step"   -> {o.next}
                                  [] o.kind = "branch" -> {o.next, o.taken}
  <2>1. /\ NewVisit(s).pc = pc /\ NewVisit(s).state = s
        /\ NewVisit(s).id = next_id
    BY DEF NewVisit
  <2>. QED BY <2>1, Zenon DEF Successors, Goes
<1>6. Pending = {Current} \cup B
  BY DEF Pending, Current
<1>. HIDE DEF o
<1>7. CASE o.kind = "stop"
  <2>1. pc' = Size(prog) /\ state' = s /\ backtrack' = backtrack
    BY <1>7 DEF Process, o
  <2>2. Pending' = {next} \cup B
    BY <2>1 DEF Pending
  <2>3. TargetsInv'
    BY <2>1 DEF TargetsInv
  <2>4. Successors(NewVisit(s)) = {}
    BY <1>5, <1>7
  <2>. QED BY <1>2, <1>3, <1>4, <1>6, <2>1, <2>2, <2>3, <2>4 DEF o
<1>8. CASE o.kind = "step"
  <2>1. pc' = o.next.pc /\ state' = o.next.state /\ backtrack' = backtrack
    BY <1>8 DEF Process, o
  <2>2. Pending' = {next} \cup B
    BY <2>1 DEF Pending
  <2>3. next = o.next
    BY <2>1, <1>3 DEF Item
  <2>4. TargetsInv'
    BY <2>1 DEF TargetsInv
  <2>5. Successors(NewVisit(s)) = {o.next}
    BY <1>5, <1>8
  <2>. QED BY <1>2, <1>3, <1>4, <1>6, <2>2, <2>3, <2>4, <2>5 DEF o
<1>9. CASE o.kind = "branch"
  <2>1. pc' = o.next.pc /\ state' = o.next.state /\
        backtrack' = <<o.taken>> \o backtrack
    BY <1>9 DEF Process, o
  <2>2. backtrack \in Seq(Item(prog))
    BY DEF TypeOK
  <2>3. /\ 1 \in DOMAIN backtrack' /\ backtrack'[1] = o.taken
        /\ \A i \in DOMAIN backtrack :
             i + 1 \in DOMAIN backtrack' /\ backtrack'[i + 1] = backtrack[i]
        /\ \A i \in DOMAIN backtrack' :
             i = 1 \/ (i - 1 \in DOMAIN backtrack /\ backtrack'[i] = backtrack[i - 1])
    BY <2>1, <2>2, <1>3
  <2>4. {backtrack'[i] : i \in DOMAIN backtrack'} = {o.taken} \cup B
    BY <2>3
  <2>5. next = o.next
    BY <2>1, <1>3 DEF Item
  <2>6. Pending' = {o.next, o.taken} \cup B
    BY <2>4, <2>5 DEF Pending
  <2>7. TargetsInv'
    BY <2>3, <1>3, <1>9 DEF TargetsInv
  <2>8. Successors(NewVisit(s)) = {o.next, o.taken}
    BY <1>5, <1>9
  <2>. QED BY <1>2, <1>3, <1>4, <1>6, <2>6, <2>7, <2>8 DEF o
<1>. QED BY <1>3, <1>7, <1>8, <1>9

-----------------------------------------------------------------------------
(* A step that visits nothing. *)
LEMMA PopInv ==
  ASSUME IInv, EndPath, ~finished, UNCHANGED <<prog, explored, reached_exit, visits>>,
         Settled(Current)
  PROVE  /\ TargetsInv' /\ ExploredWereVisited' /\ NothingDropped'
         /\ VerdictInv' /\ NothingInvented'
<1>0. /\ TypeOK /\ TargetsInv /\ ExploredWereVisited /\ NothingDropped
      /\ VerdictInv /\ NothingInvented
  BY DEF IInv
<1>1. ExploredWereVisited'
  BY <1>0 DEF ExploredWereVisited
<1>2. \A it : Settled(it) => Settled(it)'
  BY SettledStays
<1>3. CASE backtrack # <<>>
  <2>1. /\ Pending' \subseteq Pending
        /\ Pending \subseteq Pending' \cup {Current}
        /\ TargetsInv' /\ UNCHANGED <<errors, finished>>
    BY <1>0, <1>3, PopPending
  <2>2. \A it : Accounted(it) => Accounted(it)'
    BY <1>2, <2>1 DEF Accounted, Open
  <2>3. NothingDropped'
    BY <1>0, <2>1, <2>2 DEF NothingDropped, NotCut, Successors
  <2>4. VerdictInv'
    BY <1>0, <2>1 DEF VerdictInv
  <2>5. NothingInvented'
    BY <1>0, <2>1 DEF NothingInvented, Reached, Successors
  <2>. QED BY <1>1, <2>1, <2>3, <2>4, <2>5
<1>4. CASE backtrack = <<>>
  <2>1. /\ finished' /\ errors' = Concluded(errors)
        /\ UNCHANGED <<pc, state, backtrack>>
    BY <1>4 DEF EndPath
  <2>2. Pending = {Current}
    BY <1>4 DEF Pending, Current
  <2>3. \A it : Accounted(it) => Accounted(it)'
    BY <1>2, <2>2 DEF Accounted, Open
  <2>4. errors \subseteq errors' /\ (errors' = {} => reached_exit)
    BY <2>1 DEF Concluded
  <2>5. NotCut' => NotCut
    BY <2>4 DEF NotCut
  <2>6. NothingDropped'
    BY <1>0, <2>3, <2>5 DEF NothingDropped, Successors
  <2>7. VerdictInv'
    BY <1>0, <2>1, <2>4 DEF VerdictInv
  <2>8. NothingInvented'
    BY <1>0, <2>1 DEF NothingInvented, Reached, Successors
  <2>9. TargetsInv'
    BY <1>0, <2>1 DEF TargetsInv
  <2>. QED BY <1>1, <2>6, <2>7, <2>8, <2>9
<1>. QED BY <1>3, <1>4

(* A step that visits an instruction, for whatever state it is visited. *)
LEMMA VisitInv ==
  ASSUME IInv, NEW s \in State, Counted, Process(s), UNCHANGED <<prog, finished>>
  PROVE  /\ TargetsInv' /\ NothingDropped' /\ VerdictInv' /\ NothingInvented'
         /\ visits' = visits \cup {NewVisit(s)}
<1>0. /\ TypeOK /\ TargetsInv /\ NothingDropped /\ VerdictInv /\ NothingInvented
      /\ ~finished
  BY DEF IInv, Counted
<1>1. /\ visits' = visits \cup {NewVisit(s)}
      /\ Pending \subseteq Pending' \cup {Current}
      /\ Successors(NewVisit(s)) \subseteq Pending'
      /\ \A it \in Pending' : \/ it.pc = Size(prog)
                              \/ it \in Pending
                              \/ it \in Successors(NewVisit(s))
      /\ TargetsInv'
      /\ pc \in Pc(prog)
      /\ "ComplexityExceeded" \notin Exec(prog, pc, s, next_id).err
  BY <1>0, ProcessPending
<1>2. \A v : Successors(v)' = Successors(v)
  BY DEF Successors
<1>3. \A it : it = Current => Settled(it)'
  <2>1. NewVisit(s).pc = Current.pc /\ NewVisit(s).arrived = Current.state
    BY DEF NewVisit, Current
  <2>. QED BY <1>1, <2>1 DEF Settled
<1>4. \A it : Settled(it) => Settled(it)'
  BY <1>1, SettledStays
<1>5. \A it : Accounted(it) => Accounted(it)'
  BY <1>0, <1>1, <1>3, <1>4 DEF Accounted, Open
<1>6. \A it \in Successors(NewVisit(s)) : Accounted(it)'
  BY <1>0, <1>1 DEF Accounted, Open
<1>7. /\ errors' = errors \cup {<<pc, k>> : k \in Exec(prog, pc, s, next_id).err}
      /\ reached_exit' = (reached_exit \/ Exec(prog, pc, s, next_id).exit)
  BY DEF Process
<1>8. NotCut' => NotCut
  BY <1>7 DEF NotCut
<1>9. NothingDropped'
  BY <1>0, <1>1, <1>2, <1>5, <1>6, <1>8 DEF NothingDropped
<1>10. VerdictInv'
  <2>1. \A v : Exec(prog, v.pc, v.state, v.id)' = Exec(prog, v.pc, v.state, v.id)
    OBVIOUS
  <2>2. /\ NewVisit(s).pc = pc /\ NewVisit(s).state = s /\ NewVisit(s).id = next_id
    BY DEF NewVisit
  <2>. QED BY <1>0, <1>1, <1>7, <2>1, <2>2 DEF VerdictInv
<1>11. NothingInvented'
  <2>1. \A q, t : Reached(q, t) => Reached(q, t)'
    BY <1>1, ReachedStays
  <2>2. Reached(pc, state)
    <3>1. Current \in Pending /\ Current.pc = pc /\ Current.state = state
      BY DEF Current, Pending
    <3>. QED BY <1>0, <3>1 DEF NothingInvented
  <2>3. \A v \in visits' : Reached(v.pc, v.arrived)'
    <3>1. NewVisit(s).pc = pc /\ NewVisit(s).arrived = state
      BY DEF NewVisit
    <3>. QED BY <1>0, <1>1, <2>1, <2>2, <3>1 DEF NothingInvented
  <2>4. \A it \in Pending' : it = [pc |-> it.pc, state |-> it.state]
    <3>1. backtrack' \in Seq(Item(prog))
      BY <1>0, ProcessTypes
    <3>2. \A i \in DOMAIN backtrack' : backtrack'[i] \in Item(prog)
      BY <3>1
    <3>3. \A it \in Item(prog) : it = [pc |-> it.pc, state |-> it.state]
      BY DEF Item
    <3>4. \A i \in DOMAIN backtrack' :
            backtrack'[i] = [pc |-> backtrack'[i].pc, state |-> backtrack'[i].state]
      BY <3>2, <3>3
    <3>. QED BY <3>4 DEF Pending
  <2>5. \A it \in Pending' : Reached(it.pc, it.state)'
    <3>. SUFFICES ASSUME NEW it \in Pending' PROVE Reached(it.pc, it.state)'
      OBVIOUS
    <3>1. CASE it.pc = Size(prog)
      BY <3>1 DEF Reached
    <3>2. CASE it \in Pending
      BY <1>0, <3>2, <2>1 DEF NothingInvented
    <3>3. CASE it \in Successors(NewVisit(s))
      BY <3>3, <2>4, <1>1, <1>2 DEF Reached
    <3>. QED BY <1>1, <3>1, <3>2, <3>3
  <2>. QED BY <2>3, <2>5 DEF NothingInvented
<1>. QED BY <1>1, <1>9, <1>10, <1>11

(* Remembering a state, at a loop head or elsewhere, after visiting it. *)
LEMMA StoreInv ==
  ASSUME TypeOK, ExploredWereVisited, prog' = prog, pc \in Pc(prog), NEW s \in State,
         visits' = visits \cup {NewVisit(s)},
         \/ /\ explored' = [explored EXCEPT ![pc] = [@ EXCEPT ![1] = s]]
            /\ explored[pc] # <<>>
         \/ /\ explored' = [explored EXCEPT ![pc] = Append(@, s)]
            /\ Len(explored[pc]) < MaxStatesPerPc
            /\ IsBackEdge(prog, pc) => explored[pc] = <<>>
  PROVE  ExploredWereVisited'
<1>1. explored \in [Pc(prog) -> Seq(State)] /\ MaxStatesPerPc \in Nat \ {0}
  BY BoundsAssumption DEF TypeOK
<1>. SUFFICES ASSUME NEW q \in Pc(prog)
              PROVE  /\ Len(explored'[q]) <= MaxStatesPerPc
                     /\ IsBackEdge(prog, q) => Len(explored'[q]) <= 1
                     /\ \A i \in DOMAIN explored'[q] :
                          \E v \in visits' : v.pc = q /\ v.state = explored'[q][i]
  BY DEF ExploredWereVisited
<1>2. /\ Len(explored[q]) <= MaxStatesPerPc
      /\ IsBackEdge(prog, q) => Len(explored[q]) <= 1
      /\ \A i \in DOMAIN explored[q] :
           \E v \in visits' : v.pc = q /\ v.state = explored[q][i]
  BY DEF ExploredWereVisited
<1>3. NewVisit(s) \in visits' /\ NewVisit(s).pc = pc /\ NewVisit(s).state = s
  BY DEF NewVisit
<1>4. CASE q # pc
  <2>1. explored'[q] = explored[q]
    BY <1>1, <1>4
  <2>. QED BY <1>2, <2>1
<1>5. CASE q = pc /\ explored[pc] # <<>> /\
           explored' = [explored EXCEPT ![pc] = [@ EXCEPT ![1] = s]]
  <2>1. explored'[q] = [explored[q] EXCEPT ![1] = s]
    BY <1>1, <1>5
  <2>2. Len(explored'[q]) = Len(explored[q]) /\ DOMAIN explored'[q] = DOMAIN explored[q]
    BY <2>1, <1>1
  <2>3. \A i \in DOMAIN explored[q] :
          explored'[q][i] = IF i = 1 THEN s ELSE explored[q][i]
    BY <2>1, <1>1
  <2>. QED BY <1>2, <1>3, <1>5, <2>2, <2>3
<1>6. CASE q = pc /\ explored' = [explored EXCEPT ![pc] = Append(@, s)] /\
           Len(explored[pc]) < MaxStatesPerPc /\
           (IsBackEdge(prog, pc) => explored[pc] = <<>>)
  <2>1. explored'[q] = Append(explored[q], s) /\ explored[q] \in Seq(State)
    BY <1>1, <1>6
  <2>2. /\ Len(explored'[q]) = Len(explored[q]) + 1
        /\ \A i \in DOMAIN explored'[q] :
             \/ i = Len(explored[q]) + 1 /\ explored'[q][i] = s
             \/ i \in DOMAIN explored[q] /\ explored'[q][i] = explored[q][i]
    BY <2>1
  <2>3. Len(explored[q]) \in Nat /\ (explored[q] = <<>> => Len(explored[q]) = 0)
    BY <2>1
  <2>4. Len(explored'[q]) <= MaxStatesPerPc
    BY <1>1, <1>6, <2>2, <2>3
  <2>5. IsBackEdge(prog, q) => Len(explored'[q]) <= 1
    BY <1>6, <2>2, <2>3
  <2>6. \A i \in DOMAIN explored'[q] :
          \E v \in visits' : v.pc = q /\ v.state = explored'[q][i]
    BY <1>2, <1>3, <1>6, <2>2
  <2>. QED BY <2>4, <2>5, <2>6
<1>. QED BY <1>4, <1>5, <1>6

(* The inductive invariant holds at the start. *)
LEMMA InvInit == Init => IInv
<1>. SUFFICES ASSUME Init PROVE IInv
  OBVIOUS
<1>0. Size(prog) \in Nat /\ TypeOK
  BY TypeInit, ExecAssumption DEF Init
<1>1. TargetsInv
  BY DEF Init, TargetsInv
<1>2. ExploredWereVisited
  BY BoundsAssumption DEF Init, ExploredWereVisited
<1>3. NothingDropped
  <2>1. CASE Size(prog) = 0
    BY <2>1 DEF Init, NothingDropped, Accounted, Settled
  <2>2. CASE Size(prog) # 0
    <3>1. [pc |-> 0, state |-> Entry] \in Open
      BY <2>2 DEF Init, Open, Pending
    <3>. QED BY <3>1 DEF Init, NothingDropped, Accounted
  <2>. QED BY <2>1, <2>2
<1>4. VerdictInv
  BY DEF Init, VerdictInv
<1>5. NothingInvented
  <2>1. Pending = {[pc |-> 0, state |-> Entry]}
    BY DEF Init, Pending
  <2>. QED BY <2>1 DEF Init, NothingInvented, Reached
<1>. QED BY <1>0, <1>1, <1>2, <1>3, <1>4, <1>5 DEF IInv

(* Every step keeps it. *)
LEMMA InvNext == IInv /\ [Next]_vars => IInv'
<1>. SUFFICES ASSUME IInv, [Next]_vars PROVE IInv'
  OBVIOUS
<1>0. /\ TypeOK /\ TargetsInv /\ ExploredWereVisited /\ NothingDropped
      /\ VerdictInv /\ NothingInvented /\ Size(prog) \in Nat
  BY ExecAssumption DEF IInv, TypeOK
<1>t. TypeOK'
  BY <1>0, TypeNext
<1>1. CASE PathOver
  <2>1. Settled(Current)
    BY <1>0, <1>1 DEF PathOver, Settled, Current, TypeOK
  <2>. QED BY <1>1, <1>t, <2>1, PopInv DEF PathOver, IInv
<1>2. CASE TooComplex
  <2>1. /\ finished' /\ UNCHANGED <<prog, pc, state, backtrack, explored,
                                    reached_exit, visits>>
        /\ errors' = Concluded(errors \cup {<<pc, "ComplexityExceeded">>})
    BY <1>2 DEF TooComplex
  <2>2. errors \cup {<<pc, "ComplexityExceeded">>} \subseteq errors'
    BY <2>1 DEF Concluded
  <2>3. ~NotCut'
    BY <2>2 DEF NotCut
  <2>4. NothingDropped'
    BY <2>3 DEF NothingDropped
  <2>5. VerdictInv'
    BY <1>0, <2>1, <2>2 DEF VerdictInv
  <2>6. TargetsInv' /\ ExploredWereVisited'
    BY <1>0, <2>1 DEF TargetsInv, ExploredWereVisited
  <2>7. NothingInvented'
    BY <1>0, <2>1 DEF NothingInvented, Reached, Successors
  <2>. QED BY <1>t, <2>4, <2>5, <2>6, <2>7 DEF IInv
<1>3. CASE Prune
  <2>1. pc \in Pc(prog)
    BY <1>0, <1>3 DEF Prune, Counted, TypeOK, Pc
  <2>2. PICK i \in DOMAIN explored[pc] : IsSubstate(state, explored[pc][i])
    BY <1>3 DEF Prune, Dominated
  <2>3. PICK v \in visits : v.pc = pc /\ v.state = explored[pc][i]
    BY <1>0, <2>1 DEF ExploredWereVisited
  <2>4. Settled(Current)
    BY <2>2, <2>3 DEF Settled, Current
  <2>. QED BY <1>3, <1>t, <2>4, PopInv DEF Prune, Counted, IInv
<1>4. CASE VisitLoopHead
  <2>. DEFINE s == Widen(explored[pc][1], state)
  <2>1. /\ Counted /\ UNCHANGED <<prog, finished>> /\ explored[pc] # <<>>
        /\ Process(s)
        /\ explored' = [explored EXCEPT ![pc] = [@ EXCEPT ![1] = s]]
    BY <1>4 DEF VisitLoopHead, AtLoopHead
  <2>2. pc \in Pc(prog)
    BY <2>1, <1>0 DEF Counted, TypeOK, Pc
  <2>3. s \in State
    BY <2>1, <2>2, <1>0, ArrivalFacts
  <2>. HIDE DEF s
  <2>4. /\ TargetsInv' /\ NothingDropped' /\ VerdictInv' /\ NothingInvented'
        /\ visits' = visits \cup {NewVisit(s)}
    BY <2>1, <2>3, VisitInv
  <2>5. ExploredWereVisited'
    BY <1>0, <2>1, <2>2, <2>3, <2>4, StoreInv
  <2>. QED BY <1>t, <2>4, <2>5 DEF IInv
<1>5. CASE VisitAndStore
  <2>1. /\ Counted /\ UNCHANGED <<prog, finished>> /\ Process(state)
        /\ explored' = [explored EXCEPT ![pc] = Append(@, state)]
        /\ Len(explored[pc]) < MaxStatesPerPc
        /\ IsBackEdge(prog, pc) => explored[pc] = <<>>
    BY <1>5 DEF VisitAndStore, AtLoopHead
  <2>2. pc \in Pc(prog) /\ state \in State
    BY <2>1, <1>0 DEF Counted, TypeOK, Pc
  <2>4. /\ TargetsInv' /\ NothingDropped' /\ VerdictInv' /\ NothingInvented'
        /\ visits' = visits \cup {NewVisit(state)}
    BY <2>1, <2>2, VisitInv
  <2>5. ExploredWereVisited'
    BY <1>0, <2>1, <2>2, <2>4, StoreInv
  <2>. QED BY <1>t, <2>4, <2>5 DEF IInv
<1>6. CASE VisitOnly
  <2>1. Counted /\ UNCHANGED <<prog, explored, finished>> /\ Process(state)
    BY <1>6 DEF VisitOnly
  <2>2. state \in State
    BY <1>0 DEF TypeOK
  <2>4. /\ TargetsInv' /\ NothingDropped' /\ VerdictInv' /\ NothingInvented'
        /\ visits' = visits \cup {NewVisit(state)}
    BY <2>1, <2>2, VisitInv
  <2>5. ExploredWereVisited'
    BY <1>0, <2>1, <2>4 DEF ExploredWereVisited
  <2>. QED BY <1>t, <2>4, <2>5 DEF IInv
<1>7. CASE UNCHANGED vars
  <2>0. /\ prog' = prog /\ pc' = pc /\ state' = state /\ backtrack' = backtrack
        /\ explored' = explored /\ errors' = errors /\ visits' = visits
        /\ finished' = finished /\ reached_exit' = reached_exit
    BY <1>7 DEF vars
  <2>1. TargetsInv' /\ ExploredWereVisited'
    BY <1>0, <2>0 DEF TargetsInv, ExploredWereVisited
  <2>2. NothingDropped'
    <3>1. Pending' = Pending
      BY <2>0 DEF Pending
    <3>2. \A it : Accounted(it)' <=> Accounted(it)
      BY <2>0, <3>1 DEF Accounted, Open, Settled
    <3>3. NotCut' <=> NotCut
      BY <2>0 DEF NotCut
    <3>4. \A v : Successors(v)' = Successors(v)
      BY <2>0 DEF Successors
    <3>. QED BY <1>0, <2>0, <3>2, <3>3, <3>4 DEF NothingDropped
  <2>3. VerdictInv'
    BY <1>0, <2>0 DEF VerdictInv
  <2>4. NothingInvented'
    <3>1. Pending' = Pending
      BY <2>0 DEF Pending
    <3>2. \A q, t : Reached(q, t)' <=> Reached(q, t)
      BY <2>0 DEF Reached, Successors
    <3>. QED BY <1>0, <2>0, <3>1, <3>2 DEF NothingInvented
  <2>. QED BY <1>t, <2>1, <2>2, <2>3, <2>4 DEF IInv
<1>. QED BY <1>1, <1>2, <1>3, <1>4, <1>5, <1>6, <1>7 DEF Next

(* The inductive invariant. *)
THEOREM Inductive == Spec => []IInv
BY InvInit, InvNext, PTL DEF Spec

(* A program passes only after every path from the entry was followed to   *)
(* its end or to a state that subsumes it.                                 *)
LEMMA InvFixpoint == IInv => FixpointReached
BY DEF IInv, FixpointReached, Passed, NothingDropped, NotCut, Accounted, Open

THEOREM FixpointTheorem == Spec => []FixpointReached
BY InvFixpoint, Inductive, PTL

(* A program passes only if no visited instruction reported an error and   *)
(* one of them was an EXIT.                                                *)
LEMMA InvVerdict == IInv => VerdictCoversVisits
BY DEF IInv, VerdictCoversVisits, Passed, VerdictInv

THEOREM VerdictTheorem == Spec => []VerdictCoversVisits
BY InvVerdict, Inductive, PTL

(* What is visited or deferred was produced by the program from its entry. *)
THEOREM ProvenanceTheorem == Spec => []NothingInvented
<1>1. IInv => NothingInvented
  BY DEF IInv
<1>. QED BY <1>1, Inductive, PTL

(* Remembered states were executed and stay within their bounds. *)
THEOREM ExploredTheorem == Spec => []ExploredWereVisited
<1>1. IInv => ExploredWereVisited
  BY DEF IInv
<1>. QED BY <1>1, Inductive, PTL

(* Every step counts an instruction, shortens the stack, or returns. *)
THEOREM ProgressTheorem == Spec => WalkProgresses
<1>. DEFINE Good == \/ finished'
                    \/ total_visited' = total_visited + 1
                    \/ /\ pc = Size(prog)
                       /\ pc' < Size(prog)
                       /\ Len(backtrack') = Len(backtrack) - 1
<1>1. IInv /\ [Next]_vars => [Good]_vars
  <2>. SUFFICES ASSUME IInv, Next PROVE Good
    OBVIOUS
  <2>1. CASE PathOver
    <3>1. TypeOK /\ TargetsInv /\ Size(prog) \in Nat
      BY ExecAssumption DEF IInv, TypeOK
    <3>2. CASE backtrack = <<>>
      BY <2>1, <3>2 DEF PathOver, EndPath
    <3>3. CASE backtrack # <<>>
      <4>1. pc' \in Pc(prog)
        BY <2>1, <3>1, <3>3, PopPending DEF PathOver
      <4>2. backtrack' = Tail(backtrack) /\ backtrack \in Seq(Item(prog))
        BY <2>1, <3>1, <3>3 DEF PathOver, EndPath, TypeOK
      <4>3. Len(backtrack') = Len(backtrack) - 1
        BY <4>2, <3>3
      <4>4. pc = Size(prog) /\ pc' < Size(prog)
        BY <2>1, <3>1, <4>1 DEF PathOver, TypeOK, Pc
      <4>. QED BY <4>3, <4>4
    <3>. QED BY <3>2, <3>3
  <2>2. CASE TooComplex
    BY <2>2 DEF TooComplex
  <2>3. CASE Prune \/ VisitLoopHead \/ VisitAndStore \/ VisitOnly
    BY <2>3 DEF Prune, VisitLoopHead, VisitAndStore, VisitOnly, Counted
  <2>. QED BY <2>1, <2>2, <2>3 DEF Next
<1>. QED BY <1>1, Inductive, PTL DEF Spec, WalkProgresses

-----------------------------------------------------------------------------
(* A visit processed the state that arrived, or a widening that covers it. *)
VisitShape ==
  \A v \in visits :
    /\ v.pc \in Pc(prog)
    /\ v.arrived \in State
    /\ v.state \in State
    /\ v.id \in 0 .. ComplexityLimit
    /\ \/ v.state = v.arrived
       \/ \E s \in State : v.state = Widen(s, v.arrived)

LEMMA NewVisitShape ==
  ASSUME TypeOK, VisitShape, NEW s \in State, Counted, Process(s), prog' = prog,
         s = state \/ \E t \in State : s = Widen(t, state)
  PROVE  VisitShape'
<1>1. visits' = visits \cup {NewVisit(s)}
  BY DEF Process, NewVisit
<1>2. NewVisit(s).pc = pc /\ NewVisit(s).arrived = state /\ NewVisit(s).state = s
      /\ NewVisit(s).id = next_id
  BY DEF NewVisit
<1>3. pc \in Pc(prog) /\ state \in State
  <2>1. Size(prog) \in Nat
    BY ExecAssumption DEF TypeOK
  <2>. QED BY <2>1 DEF TypeOK, Counted, Pc
<1>4. next_id \in 0 .. ComplexityLimit
  BY BoundsAssumption DEF TypeOK, Counted
<1>. QED BY <1>1, <1>2, <1>3, <1>4 DEF VisitShape, Pc

(* The shape holds at the start and every step keeps it. *)
LEMMA ShapeInit == Init => VisitShape
BY DEF Init, VisitShape

LEMMA ShapeNext == TypeOK /\ VisitShape /\ [Next]_vars => VisitShape'
<1>. SUFFICES ASSUME TypeOK, VisitShape, [Next]_vars PROVE VisitShape'
  OBVIOUS
<1>1. CASE PathOver
  BY <1>1 DEF PathOver, VisitShape, Pc
<1>2. CASE TooComplex
  BY <1>2 DEF TooComplex, VisitShape, Pc
<1>3. CASE Prune
  BY <1>3 DEF Prune, VisitShape, Pc
<1>4. CASE VisitLoopHead
  <2>. DEFINE w == Widen(explored[pc][1], state)
  <2>1. Counted /\ Process(w) /\ prog' = prog /\ explored[pc] # <<>>
    BY <1>4 DEF VisitLoopHead, AtLoopHead
  <2>0. Size(prog) \in Nat
    BY ExecAssumption DEF TypeOK
  <2>2. pc \in Pc(prog)
    BY <2>0, <2>1 DEF Counted, TypeOK, Pc
  <2>3. explored[pc][1] \in State /\ state \in State
    BY <2>1, <2>2, ArrivalFacts DEF TypeOK
  <2>4. w \in State
    BY <2>3, DomainAssumption
  <2>. HIDE DEF w
  <2>. QED BY <2>1, <2>3, <2>4, NewVisitShape DEF w
<1>5. CASE VisitAndStore
  BY <1>5, NewVisitShape DEF VisitAndStore, TypeOK
<1>6. CASE VisitOnly
  BY <1>6, NewVisitShape DEF VisitOnly, TypeOK
<1>7. CASE UNCHANGED vars
  BY <1>7 DEF vars, VisitShape, Pc
<1>. QED BY <1>1, <1>2, <1>3, <1>4, <1>5, <1>6, <1>7 DEF Next

LEMMA VisitsShaped == Spec => []VisitShape
BY ShapeInit, ShapeNext, TypeCorrect, PTL DEF Spec
==============================================================================
