----------------------------- MODULE Server_proofs -----------------------------
(***************************************************************************)
(* Proofs about Server, for every set of connections, every number of      *)
(* slots and every bound on the tokens.                                    *)
(***************************************************************************)
EXTENDS Server, FiniteSetTheorems, WellFoundedInduction, TLAPS

(* What the proof of the gate needs of the types. *)
GateTypes ==
    /\ conn \in [Conns -> ConnStates]
    /\ status \in [Conns -> {0, 200, 400, 404, 429}]
    /\ cur \in [Conns -> Nat]
    /\ in_flight \in Nat

\* A handler about to compare and swap has seen a free slot.
SawRoom == \A c \in Conns : conn[c] = "cas" => cur[c] < MaxConcurrency

GateInv == GateTypes /\ SawRoom /\ GateExact

LEMMA AdmittedFinite == IsFiniteSet(Admitted) /\ Cardinality(Admitted) \in Nat
<1>1. Admitted \subseteq Conns
  BY DEF Admitted
<1>. QED
  BY <1>1, ServerAssumption, FS_Subset, FS_CardinalityType DEF ServerAssumption

LEMMA GateInit == Init => GateInv
<1> SUFFICES ASSUME Init PROVE GateInv
  OBVIOUS
<1>1. GateTypes /\ SawRoom
  BY DEF Init, GateTypes, SawRoom, ConnStates
<1>2. Admitted = {}
  BY DEF Init, Admitted, Slots
<1>3. GateExact
  BY <1>2, FS_EmptySet, ServerAssumption DEF Init, GateExact, ServerAssumption
<1>. QED
  BY <1>1, <1>3 DEF GateInv

\* A step that moves one handler neither into nor out of the gate.
LEMMA StaysPut ==
    ASSUME GateInv, NEW c \in Conns, NEW s \in ConnStates, Goto(c, s),
           conn[c] \in Slots <=> s \in Slots, s # "cas",
           UNCHANGED <<cur, in_flight>>,
           status' \in [Conns -> {0, 200, 400, 404, 429}]
    PROVE  GateInv'
<1>1. Admitted' = Admitted
  BY DEF GateInv, GateTypes, Goto, Admitted
<1>2. GateTypes'
  BY DEF GateInv, GateTypes, Goto
<1>3. SawRoom'
  BY DEF GateInv, GateTypes, SawRoom, Goto
<1>. QED
  BY <1>1, <1>2, <1>3 DEF GateInv, GateExact

\* A step of a thread that is no handler.
LEMMA NoHandler ==
    ASSUME GateInv, UNCHANGED <<conn, cur, in_flight, status>>
    PROVE  GateInv'
BY DEF GateInv, GateTypes, SawRoom, GateExact, Admitted

\* The test of the gate, from outside it, on the count it holds now.
LEMMA Tested ==
    ASSUME GateInv, NEW c \in Conns, conn[c] \in {"entering", "cas"},
           TestGate(c, in_flight), UNCHANGED in_flight
    PROVE  GateInv'
<1>1. Admitted' = Admitted
  BY DEF GateInv, GateTypes, TestGate, Goto, Admitted, Slots
<1>2. GateTypes'
  BY DEF GateInv, GateTypes, TestGate, Goto, ConnStates
<1>3. SawRoom'
  <2>1. CASE in_flight < MaxConcurrency
    BY <2>1 DEF GateInv, GateTypes, SawRoom, TestGate, Goto
  <2>2. CASE ~(in_flight < MaxConcurrency)
    BY <2>2 DEF GateInv, GateTypes, SawRoom, TestGate, Goto
  <2>. QED
    BY <2>1, <2>2
<1>. QED
  BY <1>1, <1>2, <1>3 DEF GateInv, GateExact, TestGate

LEMMA GateNext == GateInv /\ [Next]_vars => GateInv'
<1> SUFFICES ASSUME GateInv, [Next]_vars PROVE GateInv'
  OBVIOUS
<1> USE DEF lifecycle, gate, counters
<1>1. CASE Main
  <2>1. CASE StopClose
    <3>1. Admitted' = Admitted
      BY <2>1 DEF StopClose, GateInv, GateTypes, Admitted, Slots
    <3>2. GateTypes' /\ SawRoom'
      BY <2>1 DEF StopClose, GateInv, GateTypes, SawRoom, ConnStates
    <3>. QED
      BY <2>1, <3>1, <3>2 DEF StopClose, GateInv, GateExact
  <2>. QED
    BY <1>1, <2>1, NoHandler DEF Main, Start, StartFails, StopFlag, StopJoin, Exit
<1>2. CASE Acceptor
  <2>1. ASSUME NEW c \in Conns, AcceptOne(c) PROVE GateInv'
    BY <2>1, StaysPut DEF AcceptOne, ConnStates, Slots, GateInv, GateTypes
  <2>. QED
    BY <1>2, <2>1, NoHandler DEF Acceptor, LoopCheck, Select, AcceptFails
<1>3. ASSUME NEW c \in Conns, Connect(c) \/ Received(c) \/ Sent(c) PROVE GateInv'
  <2>1. CASE Connect(c)
    BY <2>1, StaysPut DEF Connect, ConnStates, Slots, GateInv, GateTypes
  <2>2. CASE Received(c)
    BY <2>2, StaysPut DEF Received, ConnStates, Slots, GateInv, GateTypes
  <2>3. CASE Sent(c)
    BY <2>3, StaysPut DEF Sent, ConnStates, Slots, GateInv, GateTypes
  <2>. QED
    BY <1>3, <2>1, <2>2, <2>3
<1>4. ASSUME NEW c \in Conns, Handler(c) PROVE GateInv'
  <2>1. CASE Load(c)
    BY <2>1, Tested DEF Load
  <2>2. CASE CasFails(c)
    BY <2>2, Tested DEF CasFails
  <2>3. CASE CasEnters(c)
    <3>1. c \notin Admitted /\ Admitted' = Admitted \cup {c}
      BY <2>3 DEF CasEnters, Goto, GateInv, GateTypes, Admitted, Slots
    <3>2. Cardinality(Admitted') = Cardinality(Admitted) + 1
      BY <3>1, AdmittedFinite, FS_AddElement
    <3>3. GateTypes'
      BY <2>3 DEF CasEnters, Goto, GateInv, GateTypes, ConnStates
    <3>4. SawRoom'
      BY <2>3 DEF CasEnters, Goto, GateInv, GateTypes, SawRoom
    <3>5. GateExact'
      <4>1. in_flight' = in_flight + 1 /\ in_flight < MaxConcurrency /\ in_flight \in Nat
        BY <2>3 DEF CasEnters, GateInv, GateTypes, SawRoom
      <4>2. in_flight = Cardinality(Admitted)
        BY DEF GateInv, GateExact
      <4>. QED
        BY <3>2, <4>1, <4>2, ServerAssumption DEF GateExact, ServerAssumption
    <3>. QED
      BY <3>3, <3>4, <3>5 DEF GateInv
  <2>4. CASE Leave(c)
    <3>1. c \in Admitted /\ Admitted' = Admitted \ {c}
      BY <2>4 DEF Leave, Goto, GateInv, GateTypes, Admitted, Slots
    <3>2. Cardinality(Admitted') = Cardinality(Admitted) - 1
      BY <3>1, AdmittedFinite, FS_RemoveElement
    <3>3. Cardinality(Admitted') \in Nat
      BY <3>1, AdmittedFinite, FS_RemoveElement, FS_CardinalityType
    <3>4. in_flight' = Cardinality(Admitted') /\ in_flight' \in Nat
      BY <2>4, <3>2, <3>3 DEF Leave, GateInv, GateExact
    <3>5. GateTypes'
      BY <2>4, <3>4 DEF Leave, Goto, GateInv, GateTypes, ConnStates
    <3>6. SawRoom'
      BY <2>4 DEF Leave, Goto, GateInv, GateTypes, SawRoom
    <3>7. GateExact'
      BY <2>4, <3>4, ServerAssumption
      DEF Leave, GateInv, GateTypes, GateExact, ServerAssumption
    <3>. QED
      BY <3>5, <3>6, <3>7 DEF GateInv
  <2>5. CASE Answer(c)
    <3>1. status' \in [Conns -> {0, 200, 400, 404, 429}]
      BY <2>5 DEF Answer, GateInv, GateTypes
    <3>. QED
      BY <2>5, <3>1, StaysPut DEF Answer, ConnStates, Slots, GateInv, GateTypes
  <2>6. CASE Generate(c)
    BY <2>6, StaysPut DEF Generate, ConnStates, Slots, GateInv, GateTypes
  <2>7. CASE CountRequest(c)
    BY <2>7, StaysPut DEF CountRequest, ConnStates, Slots, GateInv, GateTypes
  <2>8. CASE CountTokens(c)
    BY <2>8, StaysPut DEF CountTokens, ConnStates, Slots, GateInv, GateTypes
  <2>9. CASE Audit(c)
    <3>1. status' \in [Conns -> {0, 200, 400, 404, 429}]
      BY <2>9 DEF Audit, GateInv, GateTypes
    <3>. QED
      BY <2>9, <3>1, StaysPut DEF Audit, ConnStates, Slots, GateInv, GateTypes
  <2>. QED
    BY <1>4, <2>1, <2>2, <2>3, <2>4, <2>5, <2>6, <2>7, <2>8, <2>9 DEF Handler
<1>5. CASE UNCHANGED vars
  BY <1>5, NoHandler DEF vars
<1>6. CASE Exited
  BY <1>5, <1>6 DEF Exited
<1>. QED
  BY <1>1, <1>2, <1>3, <1>4, <1>5, <1>6 DEF Next

LEMMA GateInductive == Spec => []GateInv
BY GateInit, GateNext, PTL DEF Spec

(***************************************************************************)
(* in_flight_ counts the admitted handlers exactly and never passes        *)
(* max_concurrency, for any number of racing connections.                  *)
(***************************************************************************)
THEOREM GateCounts == Spec => []GateExact
BY GateInductive, PTL DEF GateInv

(***************************************************************************)
(* A 429 is sent only when every slot is held at that moment.              *)
(***************************************************************************)
THEOREM RefusalsAreJustified == Spec => RefusedOnlyWhenFull
<1> DEFINE Refuse == \A c \in Conns :
             status[c] # 429 /\ status'[c] = 429
               => Cardinality(Admitted) >= MaxConcurrency
<1>1. ASSUME GateInv, [Next]_vars PROVE [Refuse]_vars
  <2> SUFFICES ASSUME NEW d \in Conns, status[d] # 429, status'[d] = 429
               PROVE  Cardinality(Admitted) >= MaxConcurrency
    OBVIOUS
  <2> USE DEF lifecycle, gate, counters
  <2>1. \A c \in Conns : TestGate(c, in_flight) => Cardinality(Admitted) >= MaxConcurrency
    BY <1>1, ServerAssumption
    DEF TestGate, GateInv, GateExact, GateTypes, ServerAssumption
  <2>2. \E c \in Conns : Handler(c)
    BY <1>1 DEF Next, Main, Start, StartFails, StopFlag, StopClose, StopJoin, Exit,
       Acceptor, LoopCheck, Select, AcceptOne, AcceptFails, Connect, Received, Sent,
       Exited, vars
  <2>3. PICK c \in Conns : Handler(c)
    BY <2>2
  <2>4. Load(c) \/ CasFails(c)
    <3>1. ~Answer(c) /\ ~Audit(c)
      BY <1>1 DEF Answer, Audit, GateInv, GateTypes
    <3>. QED
      BY <2>3, <3>1 DEF Handler, CasEnters, Leave, Generate, CountRequest, CountTokens
  <2>. QED
    BY <2>1, <2>4 DEF Load, CasFails
<1>2. GateInv /\ [Next]_vars => [Refuse]_vars
  BY <1>1
<1>. QED
  BY <1>2, GateInductive, PTL DEF Spec, RefusedOnlyWhenFull

-----------------------------------------------------------------------------
(* stop().  The queue of the listening socket is empty once the socket is  *)
(* closed, and the accept thread, once it has ended, stays so.             *)

StopInv ==
    /\ conn \in [Conns -> ConnStates]
    /\ main \in {"shut", "stopped"} => listening = "closed"
    /\ listening = "closed" => \A c \in Conns : conn[c] # "backlog"
    /\ main = "stopped" => acceptor = "exited"

LEMMA StopNext == StopInv /\ [Next]_vars => StopInv'
<1> SUFFICES ASSUME StopInv, [Next]_vars PROVE StopInv'
  OBVIOUS
<1> USE DEF lifecycle, gate, counters, StopInv
<1>1. CASE Main
  <2>1. CASE StopClose
    BY <2>1 DEF StopClose, ConnStates
  <2>. QED
    BY <1>1, <2>1 DEF Main, Start, StartFails, StopFlag, StopJoin, Exit
<1>2. CASE Acceptor
  <2>1. ASSUME NEW c \in Conns, AcceptOne(c) PROVE StopInv'
    BY <2>1 DEF AcceptOne, Goto, AcceptTo, ConnStates
  <2>. QED
    BY <1>2, <2>1 DEF Acceptor, LoopCheck, Select, AcceptFails, AcceptTo
<1>3. ASSUME NEW c \in Conns, Connect(c) \/ Received(c) \/ Sent(c) PROVE StopInv'
  <2>1. CASE Connect(c)
    BY <2>1 DEF Connect, Goto, ConnStates
  <2>2. CASE Received(c)
    BY <2>2 DEF Received, Goto, ConnStates
  <2>3. CASE Sent(c)
    BY <2>3 DEF Sent, Goto, ConnStates
  <2>. QED
    BY <1>3, <2>1, <2>2, <2>3
<1>4. ASSUME NEW c \in Conns, Handler(c) PROVE StopInv'
  <2>1. /\ UNCHANGED lifecycle
        /\ \E s \in ConnStates \ {"backlog"} : Goto(c, s)
    BY <1>4 DEF Handler, Load, TestGate, CasEnters, CasFails, Leave, Answer, Generate,
       CountRequest, CountTokens, Audit, ConnStates
  <2>. QED
    BY <2>1 DEF Goto
<1>5. CASE UNCHANGED vars
  BY <1>5 DEF vars
<1>6. CASE Exited
  BY <1>5, <1>6 DEF Exited
<1>. QED
  BY <1>1, <1>2, <1>3, <1>4, <1>5, <1>6 DEF Next

(***************************************************************************)
(* Once stop() has returned, the accept thread has ended and no client     *)
(* waits in the queue, wherever the accept loop was when stop() began.     *)
(***************************************************************************)
THEOREM StopIsClean == Spec => []StopLeavesNobody
<1>1. Init => StopInv
  BY DEF Init, StopInv, ConnStates
<1>2. StopInv => StopLeavesNobody
  BY DEF StopInv, StopLeavesNobody
<1>. QED
  BY <1>1, <1>2, StopNext, PTL DEF Spec

-----------------------------------------------------------------------------
(* Sums.  The sum of a function over a finite set is the number of units   *)
(* in it, which does not depend on the order the fold takes.               *)

LEMMA Least ==
  ASSUME NEW T \in SUBSET Nat, T # {}
  PROVE  \E x \in T : \A y \in T : x <= y
<1> DEFINE R == OpToRel(<, Nat)
<1>1. IsWellFoundedOn(R, Nat)
  BY NatLessThanWellFounded
<1>2. \E x \in T : \A y \in T : ~(<<y, x>> \in R)
  BY <1>1, WFMin
<1>3. \A x, y \in Nat : <<x, y>> \in R <=> x < y
  BY DEF OpToRel
<1> HIDE DEF R
<1>4. \E x \in T : \A y \in T : ~(y < x)
  BY <1>2, <1>3
<1>. QED
  BY <1>4

LEMMA SetInduction ==
  ASSUME NEW P, 0 \in P, \A n \in Nat : n \in P => n + 1 \in P
  PROVE  \A n \in Nat : n \in P
<1> SUFFICES ASSUME NEW n \in Nat, n \notin P PROVE FALSE
  OBVIOUS
<1> DEFINE T == {m \in Nat : m \notin P}
<1>1. PICK x \in T : \A y \in T : x <= y
  BY Least
<1>2. x # 0 /\ x - 1 \in Nat
  BY <1>1
<1>3. x - 1 \in P
  BY <1>1, <1>2
<1>. QED
  BY <1>1, <1>2, <1>3

Units(f, S) == {u \in S \X Nat : u[2] \in 1..f[u[1]]}
Total(f, S) == Cardinality(Units(f, S))

LEMMA UnitsAdd ==
  ASSUME NEW f, NEW S, NEW x, x \notin S, f[x] \in Nat, IsFiniteSet(Units(f, S))
  PROVE  /\ IsFiniteSet(Units(f, S \cup {x}))
         /\ Total(f, S \cup {x}) = Total(f, S) + f[x]
         /\ Total(f, S) \in Nat
<1> DEFINE A == Units(f, S)
           R == {x} \X (1..f[x])
<1>1. Units(f, S \cup {x}) = A \cup R /\ A \cap R = {}
  BY DEF Units
<1>2. IsFiniteSet(R) /\ Cardinality(R) = f[x]
  <2>1. IsFiniteSet({x}) /\ Cardinality({x}) = 1
    BY FS_Singleton
  <2>2. IsFiniteSet(1..f[x]) /\ Cardinality(1..f[x]) = f[x]
    BY FS_Interval
  <2>3. IsFiniteSet(R) /\ Cardinality(R) = 1 * f[x]
    BY <2>1, <2>2, FS_Product
  <2>. QED
    BY <2>3
<1> HIDE DEF A, R
<1>3. IsFiniteSet(A) /\ Cardinality(A) \in Nat
  BY FS_CardinalityType DEF A
<1>4. /\ IsFiniteSet(A \cup R)
      /\ Cardinality(A \cup R) = Cardinality(A) + Cardinality(R) - Cardinality(A \cap R)
  BY <1>2, <1>3, FS_Union
<1>5. Cardinality(A \cap R) = 0
  BY <1>1, FS_EmptySet
<1>6. Cardinality(A \cup R) = Cardinality(A) + f[x]
  BY <1>2, <1>3, <1>4, <1>5
<1>. QED
  BY <1>1, <1>3, <1>4, <1>6 DEF A, Total

LEMMA UnitsFinite ==
  ASSUME NEW f, NEW S, IsFiniteSet(S), \A x \in S : f[x] \in Nat
  PROVE  IsFiniteSet(Units(f, S)) /\ Total(f, S) \in Nat
<1> DEFINE P == {n \in Nat : \A D \in SUBSET S :
                   Cardinality(D) = n => IsFiniteSet(Units(f, D))}
<1>1. \A D \in SUBSET S : IsFiniteSet(D) /\ Cardinality(D) \in Nat
  BY FS_Subset, FS_CardinalityType
<1>2. 0 \in P
  <2>1. ASSUME NEW D \in SUBSET S, Cardinality(D) = 0 PROVE IsFiniteSet(Units(f, D))
    <3>1. D = {}
      BY <1>1, <2>1, FS_EmptySet
    <3>2. Units(f, D) = {}
      BY <3>1 DEF Units
    <3>. QED
      BY <3>2, FS_EmptySet
  <2>. QED
    BY <2>1
<1>3. ASSUME NEW n \in Nat, n \in P PROVE n + 1 \in P
  <2>1. ASSUME NEW D \in SUBSET S, Cardinality(D) = n + 1 PROVE IsFiniteSet(Units(f, D))
    <3>1. D # {}
      BY <2>1, FS_EmptySet
    <3>2. PICK x \in D : TRUE
      BY <3>1
    <3> DEFINE E == D \ {x}
    <3>3. Cardinality(E) = n /\ D = E \cup {x} /\ x \notin E /\ E \in SUBSET S
      BY <1>1, <2>1, FS_RemoveElement
    <3> HIDE DEF E
    <3>4. IsFiniteSet(Units(f, E))
      BY <1>3, <3>3
    <3>. QED
      BY <3>3, <3>4, UnitsAdd
  <2>. QED
    BY <2>1
<1> HIDE DEF P
<1>4. \A n \in Nat : n \in P
  BY <1>2, <1>3, SetInduction
<1>5. IsFiniteSet(Units(f, S))
  BY <1>1, <1>4 DEF P
<1>. QED
  BY <1>5, FS_CardinalityType DEF Total

LEMMA TotalEmpty == ASSUME NEW f PROVE Total(f, {}) = 0
<1>1. Units(f, {}) = {}
  BY DEF Units
<1>. QED
  BY <1>1, FS_EmptySet DEF Total

LEMMA TotalAdd ==
  ASSUME NEW f, NEW S, NEW x, IsFiniteSet(S), x \notin S,
         \A y \in S \cup {x} : f[y] \in Nat
  PROVE  Total(f, S \cup {x}) = Total(f, S) + f[x] /\ Total(f, S) \in Nat
BY UnitsFinite, UnitsAdd

LEMMA TotalMore ==
  ASSUME NEW f, NEW S, NEW R, IsFiniteSet(R), S \subseteq R, \A y \in R : f[y] \in Nat
  PROVE  Total(f, S) <= Total(f, R)
<1>1. Units(f, S) \in SUBSET Units(f, R)
  BY DEF Units
<1>. QED
  BY <1>1, UnitsFinite, FS_Subset DEF Total

LEMMA TotalSame ==
  ASSUME NEW f, NEW g, NEW S, \A y \in S : f[y] = g[y]
  PROVE  Total(f, S) = Total(g, S)
<1>1. Units(f, S) = Units(g, S)
  BY DEF Units
<1>. QED
  BY <1>1 DEF Total

One(s) == CHOOSE x \in s : TRUE

SumStep(f, it, s) == IF s = {} THEN 0 ELSE f[One(s)] + it[s \ {One(s)}]

SumIt(f, S) == CHOOSE it : it = [s \in SUBSET S |-> SumStep(f, it, s)]

LEMMA SumUnfold == ASSUME NEW f, NEW S PROVE SumFunctionOnSet(f, S) = SumIt(f, S)[S]
BY DEF SumFunctionOnSet, FoldFunctionOnSet, MapThenFoldSet, SumIt, SumStep, One

LEMMA SumIsTotal ==
  ASSUME NEW f, NEW S, IsFiniteSet(S), \A x \in S : f[x] \in Nat
  PROVE  SumFunctionOnSet(f, S) = Total(f, S)
<1> DEFINE g == [s \in SUBSET S |-> Total(f, s)]
           it == SumIt(f, S)
           P == {n \in Nat : \A D \in SUBSET S : Cardinality(D) = n => it[D] = Total(f, D)}
<1>1. \A D \in SUBSET S : IsFiniteSet(D) /\ Cardinality(D) \in Nat
  BY FS_Subset, FS_CardinalityType
<1>2. ASSUME NEW D \in SUBSET S, D # {}
      PROVE  /\ One(D) \in D /\ D \ {One(D)} \in SUBSET S
             /\ Total(f, D) = f[One(D)] + Total(f, D \ {One(D)})
             /\ Cardinality(D) = Cardinality(D \ {One(D)}) + 1
  <2> DEFINE x == One(D)
             E == D \ {x}
  <2>1. x \in D /\ E \in SUBSET S
    BY <1>2 DEF One
  <2>2. Cardinality(E) = Cardinality(D) - 1
    BY <1>1, <2>1, FS_RemoveElement
  <2>3. D = E \cup {x} /\ x \notin E /\ IsFiniteSet(E) /\ f[x] \in Nat /\ Cardinality(D) \in Nat
    BY <1>1, <2>1
  <2>4. \A y \in E \cup {x} : f[y] \in Nat
    BY <2>1
  <2> HIDE DEF E, x
  <2>5. Total(f, D) = f[x] + Total(f, E)
    <3>1. Total(f, E \cup {x}) = Total(f, E) + f[x] /\ Total(f, E) \in Nat
      BY <2>3, <2>4, TotalAdd
    <3>2. Total(f, E) + f[x] = f[x] + Total(f, E)
      BY <2>3, <3>1
    <3>. QED
      BY <2>3, <3>1, <3>2
  <2>. QED
    BY <2>1, <2>2, <2>3, <2>5 DEF E, x
<1>3. \A s \in SUBSET S : g[s] = SumStep(f, g, s)
  <2>1. ASSUME NEW s \in SUBSET S PROVE g[s] = SumStep(f, g, s)
    <3>1. CASE s = {}
      BY <3>1, TotalEmpty DEF SumStep
    <3>2. CASE s # {}
      BY <1>2, <3>2 DEF SumStep
    <3>. QED
      BY <3>1, <3>2
  <2>. QED
    BY <2>1
<1>4. g = [s \in SUBSET S |-> SumStep(f, g, s)]
  BY <1>3
<1> HIDE DEF g
<1>5. it = [s \in SUBSET S |-> SumStep(f, it, s)]
  BY <1>4 DEF SumIt
<1> HIDE DEF it
<1>6. \A s \in SUBSET S : it[s] = SumStep(f, it, s)
  BY <1>5
<1>7. 0 \in P
  <2>1. ASSUME NEW D \in SUBSET S, Cardinality(D) = 0 PROVE it[D] = Total(f, D)
    <3>1. D = {}
      BY <1>1, <2>1, FS_EmptySet
    <3>. QED
      BY <1>6, <3>1, TotalEmpty DEF SumStep
  <2>. QED
    BY <2>1
<1>8. ASSUME NEW n \in Nat, n \in P PROVE n + 1 \in P
  <2>1. ASSUME NEW D \in SUBSET S, Cardinality(D) = n + 1 PROVE it[D] = Total(f, D)
    <3>1. D # {}
      BY <2>1, FS_EmptySet
    <3>2. Cardinality(D \ {One(D)}) = n
      <4> DEFINE k == Cardinality(D \ {One(D)})
      <4>1. k \in Nat /\ Cardinality(D) = k + 1
        BY <1>1, <1>2, <3>1
      <4> HIDE DEF k
      <4>2. k = n
        BY <2>1, <4>1
      <4>. QED
        BY <4>2 DEF k
    <3>3. it[D \ {One(D)}] = Total(f, D \ {One(D)})
      BY <1>2, <1>8, <3>1, <3>2
    <3>. QED
      BY <1>2, <1>6, <3>1, <3>3 DEF SumStep
  <2>. QED
    BY <2>1
<1> HIDE DEF P
<1>9. \A n \in Nat : n \in P
  BY <1>7, <1>8, SetInduction
<1>10. it[S] = Total(f, S)
  BY <1>1, <1>9 DEF P
<1>. QED
  BY <1>10, SumUnfold DEF it

\* The sum of a sequence, and of one with an element more.
LEMMA SumAppend ==
  ASSUME NEW s \in Seq(Nat), NEW n \in Nat
  PROVE  /\ SumFunction(s) \in Nat
         /\ SumFunction(Append(s, n)) = SumFunction(s) + n
<1> DEFINE t == Append(s, n)
           L == Len(s)
<1>1. /\ L \in Nat /\ DOMAIN s = 1..L /\ DOMAIN t = 1..L \cup {L + 1} /\ L + 1 \notin 1..L
      /\ t[L + 1] = n /\ \A i \in 1..L : t[i] = s[i] /\ s[i] \in Nat
  OBVIOUS
<1> HIDE DEF L, t
<1>2. IsFiniteSet(1..L) /\ IsFiniteSet(1..L \cup {L + 1})
  <2>1. IsFiniteSet(1..L)
    BY <1>1, FS_Interval
  <2>. QED
    BY <2>1, FS_AddElement
<1>3. SumFunction(s) = Total(s, 1..L) /\ Total(s, 1..L) \in Nat
  BY <1>1, <1>2, SumIsTotal, UnitsFinite DEF SumFunction
<1>4. \A i \in 1..L \cup {L + 1} : t[i] \in Nat
  BY <1>1
<1>5. SumFunction(t) = Total(t, 1..L \cup {L + 1})
  BY <1>1, <1>2, <1>4, SumIsTotal DEF SumFunction
<1>6. Total(t, 1..L \cup {L + 1}) = Total(t, 1..L) + t[L + 1]
  BY <1>1, <1>2, <1>4, TotalAdd
<1>7. Total(t, 1..L) = Total(s, 1..L)
  BY <1>1, TotalSame
<1>. QED
  BY <1>1, <1>3, <1>5, <1>6, <1>7 DEF t

LEMMA AuditSum ==
  ASSUME NEW M \in Nat, NEW s \in Seq(0..M), NEW n \in Nat
  PROVE  /\ SumFunction(s) \in Nat
         /\ SumFunction(Append(s, n)) = SumFunction(s) + n
<1>1. s \in Seq(Nat)
  OBVIOUS
<1>. QED
  BY <1>1, SumAppend

-----------------------------------------------------------------------------
(* Accounted.  A completion counts its request, then its tokens, then is   *)
(* answered; the handlers that have done the first are those answered and  *)
(* those on the way.                                                       *)

Requested == {c \in Conns : c \in Complete200 \/ conn[c] \in {"counted", "summed"}}
Summed == {c \in Conns : c \in Complete200 \/ conn[c] = "summed"}

\* The states of a handler before it has an answer.
Before == {"away", "backlog", "reset", "reading", "entering", "cas",
           "dispatch", "generated", "counted", "summed"}

CountTypes ==
    /\ conn \in [Conns -> ConnStates]
    /\ kind \in [Conns -> Kinds]
    /\ status \in [Conns -> {0, 200, 400, 404, 429}]
    /\ new_tokens \in [Conns -> 0..MaxTokens]
    /\ requests_total \in Nat /\ tokens_total \in Nat
    /\ audit \in Seq(0..MaxTokens)

\* Who is being counted is a completion and has no answer yet.
Unanswered == \A c \in Conns :
    /\ conn[c] \in Before => status[c] # 200
    /\ conn[c] \in {"generated", "counted", "summed"} => kind[c] = "complete"

CountersExact ==
    /\ requests_total = Cardinality(Requested)
    /\ tokens_total = Total(new_tokens, Summed)

AuditBehind ==
    /\ Len(audit) <= Cardinality(Complete200)
    /\ SumFunction(audit) <= Total(new_tokens, Complete200)

CountInv == CountTypes /\ Unanswered /\ CountersExact /\ AuditBehind

LEMMA CountSets ==
  ASSUME CountTypes
  PROVE  /\ IsFiniteSet(Complete200) /\ IsFiniteSet(Requested) /\ IsFiniteSet(Summed)
         /\ Complete200 \subseteq Summed /\ Summed \subseteq Requested
         /\ \A c \in Conns : new_tokens[c] \in Nat
         /\ Requested \subseteq Conns /\ MaxTokens \in Nat
<1>1. MaxTokens \in Nat /\ IsFiniteSet(Conns)
  BY ServerAssumption DEF ServerAssumption
<1>2. \A c \in Conns : new_tokens[c] \in Nat
  BY <1>1 DEF CountTypes
<1>3. Complete200 \subseteq Summed /\ Summed \subseteq Requested /\ Requested \subseteq Conns
  BY DEF Complete200, Summed, Requested
<1>4. IsFiniteSet(Complete200) /\ IsFiniteSet(Requested) /\ IsFiniteSet(Summed)
  BY <1>1, <1>3, FS_Subset
<1>. QED
  BY <1>1, <1>2, <1>3, <1>4

LEMMA CountImplies == ASSUME CountInv PROVE Accounted
<1>0. CountTypes
  BY DEF CountInv
<1>1. /\ IsFiniteSet(Complete200) /\ IsFiniteSet(Requested) /\ IsFiniteSet(Summed)
      /\ Complete200 \subseteq Summed /\ Summed \subseteq Requested
      /\ \A c \in Conns : new_tokens[c] \in Nat
      /\ Requested \subseteq Conns
  BY <1>0, CountSets
<1>2. ASSUME \A c \in Conns : conn[c] \notin {"counted", "summed"}
      PROVE  /\ requests_total = Cardinality(Complete200)
             /\ tokens_total = SumFunctionOnSet(new_tokens, Complete200)
  <2>1. Requested = Complete200 /\ Summed = Complete200
    BY <1>2 DEF Requested, Summed, Complete200
  <2>2. SumFunctionOnSet(new_tokens, Complete200) = Total(new_tokens, Complete200)
    BY <1>1, SumIsTotal
  <2>. QED
    BY <2>1, <2>2 DEF CountInv, CountersExact
<1>3. Len(audit) <= requests_total
  <2>1. Cardinality(Complete200) <= Cardinality(Requested)
        /\ Cardinality(Complete200) \in Nat /\ Cardinality(Requested) \in Nat
    BY <1>1, FS_Subset, FS_CardinalityType
  <2>2. Len(audit) \in Nat
    BY <1>0 DEF CountTypes
  <2>. QED
    BY <2>1, <2>2 DEF CountInv, CountersExact, AuditBehind
<1>4. SumFunction(audit) <= tokens_total
  <2>1. Total(new_tokens, Complete200) <= Total(new_tokens, Summed)
    BY <1>1, TotalMore
  <2>2. Total(new_tokens, Complete200) \in Nat /\ Total(new_tokens, Summed) \in Nat
    BY <1>1, UnitsFinite
  <2>3. SumFunction(audit) \in Nat
    <3>1. MaxTokens \in Nat /\ audit \in Seq(0..MaxTokens)
      BY <1>0, CountSets DEF CountTypes
    <3>. QED
      BY <3>1, AuditSum
  <2>. QED
    BY <2>1, <2>2, <2>3 DEF CountInv, CountersExact, AuditBehind
<1>. QED
  BY <1>2, <1>3, <1>4 DEF Accounted

LEMMA CountInit == ASSUME Init PROVE CountInv
<1>1. CountTypes /\ Unanswered
  BY ServerAssumption DEF ServerAssumption, Init, CountTypes, Unanswered, ConnStates
<1>2. Complete200 = {} /\ Requested = {} /\ Summed = {}
  BY DEF Init, Complete200, Requested, Summed
<1>3. CountersExact
  BY <1>2, FS_EmptySet, TotalEmpty DEF Init, CountersExact
<1>4. SumFunction(audit) = 0
  <2>1. audit = <<>> /\ DOMAIN audit = {} /\ \A i \in {} : audit[i] \in Nat
    BY DEF Init
  <2>2. SumFunctionOnSet(audit, {}) = Total(audit, {})
    BY <2>1, SumIsTotal, FS_EmptySet
  <2>. QED
    BY <2>1, <2>2, TotalEmpty DEF SumFunction
<1>5. Len(audit) = 0
  BY DEF Init
<1>6. AuditBehind
  BY <1>2, <1>4, <1>5, FS_EmptySet, TotalEmpty DEF AuditBehind
<1>. QED
  BY <1>1, <1>3, <1>6 DEF CountInv

\* A step that counts nothing and answers no completion.
LEMMA CountQuiet ==
  ASSUME CountInv, CountTypes', Unanswered', UNCHANGED counters,
         Complete200' = Complete200, Requested' = Requested, Summed' = Summed,
         \A c \in Requested : new_tokens'[c] = new_tokens[c]
  PROVE  CountInv'
<1>1. /\ Complete200 \subseteq Summed /\ Summed \subseteq Requested
  BY CountSets DEF CountInv
<1>2. Total(new_tokens', Summed) = Total(new_tokens, Summed)
  BY <1>1, TotalSame
<1>3. Total(new_tokens', Complete200) = Total(new_tokens, Complete200)
  BY <1>1, TotalSame
<1>4. CountersExact' /\ AuditBehind'
  BY <1>2, <1>3 DEF CountInv, CountersExact, AuditBehind, counters
<1>. QED
  BY <1>4 DEF CountInv

\* A step of handler c to another state that is outside the count.
LEMMA CountMoves ==
  ASSUME CountInv, UNCHANGED <<kind, counters>>, NEW c \in Conns, NEW s \in ConnStates, Goto(c, s),
         conn[c] \notin {"generated", "counted", "summed"},
         s \notin {"counted", "summed"}, s = "generated" => kind[c] = "complete",
         s \in Before => conn[c] \in Before,
         /\ \A d \in Conns : d # c => new_tokens'[d] = new_tokens[d]
         /\ \/ UNCHANGED new_tokens
            \/ /\ conn[c] \in Before /\ new_tokens' \in [Conns -> 0..MaxTokens],
         /\ status' \in [Conns -> {0, 200, 400, 404, 429}]
         /\ \A d \in Conns : d # c => status'[d] = status[d]
         /\ status'[c] = status[c] \/ kind[c] # "complete" \/ (status'[c] # 200 /\ conn[c] \in Before),
         s \in Before => status'[c] = status[c]
  PROVE  CountInv'
<1>0. CountTypes /\ Unanswered
  BY DEF CountInv
<1>1. CountTypes'
  BY <1>0 DEF CountTypes, Goto, counters
<1>2. /\ conn'[c] = s /\ \A d \in Conns : d # c => conn'[d] = conn[d]
  BY <1>0 DEF CountTypes, Goto
<1>3. Unanswered'
  <2> SUFFICES ASSUME NEW d \in Conns
               PROVE  /\ conn'[d] \in Before => status'[d] # 200
                      /\ conn'[d] \in {"generated", "counted", "summed"} => kind[d] = "complete"
    BY DEF Unanswered
  <2>1. CASE d = c
    BY <1>0, <1>2, <2>1 DEF Unanswered
  <2>2. CASE d # c
    BY <1>0, <1>2, <2>2 DEF Unanswered
  <2>. QED
    BY <2>1, <2>2
<1>4. \A d \in Conns : d \in Complete200' <=> d \in Complete200
  <2> SUFFICES ASSUME NEW d \in Conns, kind[d] = "complete"
               PROVE  status'[d] = 200 <=> status[d] = 200
    BY DEF Complete200
  <2>1. CASE d = c
    BY <1>0, <2>1 DEF Unanswered
  <2>2. CASE d # c
    BY <2>2
  <2>. QED
    BY <2>1, <2>2
<1>5. Complete200' = Complete200
  BY <1>4 DEF Complete200
<1>6. Requested' = Requested /\ Summed' = Summed
  <2>1. \A d \in Conns : (conn'[d] = "counted" <=> conn[d] = "counted")
                         /\ (conn'[d] = "summed" <=> conn[d] = "summed")
    BY <1>2
  <2>. QED
    BY <1>5, <2>1 DEF Requested, Summed
<1>7. \A d \in Requested : new_tokens'[d] = new_tokens[d]
  <2> SUFFICES ASSUME c \in Requested, conn[c] \in Before PROVE FALSE
    BY DEF Requested
  <2>. QED
    BY <1>0 DEF Requested, Complete200, Unanswered
<1>. QED
  BY <1>1, <1>3, <1>5, <1>6, <1>7, CountQuiet

\* A step of a thread that is no handler and touches no count.
LEMMA CountElsewhere ==
  ASSUME CountInv, UNCHANGED <<conn, kind, status, new_tokens, counters>>
  PROVE  CountInv'
<1>1. CountTypes' /\ Unanswered'
  BY DEF CountInv, CountTypes, Unanswered, counters
<1>2. Complete200' = Complete200 /\ Requested' = Requested /\ Summed' = Summed
  BY DEF Complete200, Requested, Summed
<1>. QED
  BY <1>1, <1>2, CountQuiet

LEMMA CountRequestKeeps ==
  ASSUME CountInv, NEW c \in Conns, CountRequest(c)
  PROVE  CountInv'
<1>0. CountTypes /\ Unanswered
  BY DEF CountInv
<1>1. /\ conn[c] = "generated" /\ conn'[c] = "counted"
      /\ \A d \in Conns : d # c => conn'[d] = conn[d]
      /\ requests_total' = requests_total + 1
      /\ UNCHANGED <<kind, status, new_tokens, tokens_total, audit>>
  BY <1>0 DEF CountRequest, Goto, CountTypes
<1>2. CountTypes'
  BY <1>0 DEF CountRequest, Goto, CountTypes, ConnStates
<1>3. Unanswered'
  BY <1>0, <1>1 DEF Unanswered, Before
<1>4. /\ Complete200' = Complete200 /\ Summed' = Summed
      /\ Requested' = Requested \cup {c} /\ c \notin Requested
  BY <1>0, <1>1 DEF Complete200, Summed, Requested, Unanswered, Before
<1>5. Cardinality(Requested') = Cardinality(Requested) + 1
  BY <1>0, <1>4, CountSets, FS_AddElement
<1>6. CountersExact' /\ AuditBehind'
  BY <1>1, <1>4, <1>5 DEF CountInv, CountersExact, AuditBehind
<1>. QED
  BY <1>2, <1>3, <1>6 DEF CountInv

LEMMA CountTokensKeeps ==
  ASSUME CountInv, NEW c \in Conns, CountTokens(c)
  PROVE  CountInv'
<1>0. CountTypes /\ Unanswered
  BY DEF CountInv
<1>1. /\ conn[c] = "counted" /\ conn'[c] = "summed"
      /\ \A d \in Conns : d # c => conn'[d] = conn[d]
      /\ tokens_total' = tokens_total + new_tokens[c]
      /\ UNCHANGED <<kind, status, new_tokens, requests_total, audit>>
  BY <1>0 DEF CountTokens, Goto, CountTypes
<1>2. CountTypes'
  <2>1. tokens_total' \in Nat
    BY <1>0, <1>1, CountSets DEF CountTypes
  <2>. QED
    BY <1>0, <2>1 DEF CountTokens, Goto, CountTypes, ConnStates
<1>3. Unanswered'
  BY <1>0, <1>1 DEF Unanswered, Before
<1>4. /\ Complete200' = Complete200 /\ Requested' = Requested
      /\ Summed' = Summed \cup {c} /\ c \notin Summed
  BY <1>0, <1>1 DEF Complete200, Summed, Requested, Unanswered, Before
<1>5. Total(new_tokens, Summed \cup {c}) = Total(new_tokens, Summed) + new_tokens[c]
  <2>1. IsFiniteSet(Summed) /\ \A d \in Summed \cup {c} : new_tokens[d] \in Nat
    BY <1>0, CountSets
  <2>. QED
    BY <1>4, <2>1, TotalAdd
<1>6. CountersExact' /\ AuditBehind'
  BY <1>1, <1>4, <1>5 DEF CountInv, CountersExact, AuditBehind
<1>. QED
  BY <1>2, <1>3, <1>6 DEF CountInv

LEMMA AuditKeeps ==
  ASSUME CountInv, NEW c \in Conns, Audit(c)
  PROVE  CountInv'
<1>0. CountTypes /\ Unanswered
  BY DEF CountInv
<1>1. /\ conn[c] = "summed" /\ conn'[c] = "leaving"
      /\ \A d \in Conns : d # c => conn'[d] = conn[d] /\ status'[d] = status[d]
      /\ status'[c] = 200
      /\ audit' = audit \/ audit' = Append(audit, new_tokens[c])
      /\ UNCHANGED <<kind, new_tokens, requests_total, tokens_total>>
  BY <1>0 DEF Audit, Goto, CountTypes
<1>2. CountTypes'
  <2>1. audit' \in Seq(0..MaxTokens)
    <3>1. audit \in Seq(0..MaxTokens) /\ new_tokens[c] \in 0..MaxTokens
      BY <1>0 DEF CountTypes
    <3>2. Append(audit, new_tokens[c]) \in Seq(0..MaxTokens)
      BY <3>1
    <3>3. audit' = audit \/ audit' = Append(audit, new_tokens[c])
      BY <1>1
    <3>. QED
      BY ONLY <3>1, <3>2, <3>3
  <2>. QED
    BY <1>0, <2>1 DEF Audit, Goto, CountTypes, ConnStates
<1>3. Unanswered'
  BY <1>0, <1>1 DEF Unanswered, Before
<1>4. /\ Complete200' = Complete200 \cup {c} /\ c \notin Complete200
      /\ Requested' = Requested /\ Summed' = Summed
  BY <1>0, <1>1 DEF Complete200, Summed, Requested, Unanswered, Before
<1>5. CountersExact'
  BY <1>1, <1>4 DEF CountInv, CountersExact
<1>6. AuditBehind'
  <2>1. /\ IsFiniteSet(Complete200) /\ \A d \in Complete200 \cup {c} : new_tokens[d] \in Nat
        /\ MaxTokens \in Nat
    BY <1>0, CountSets
  <2>2. Cardinality(Complete200') = Cardinality(Complete200) + 1 /\ Cardinality(Complete200) \in Nat
    BY <1>4, <2>1, FS_AddElement, FS_CardinalityType
  <2>3. /\ Total(new_tokens, Complete200') = Total(new_tokens, Complete200) + new_tokens[c]
        /\ Total(new_tokens, Complete200) \in Nat
    BY <1>4, <2>1, TotalAdd
  <2>4. /\ SumFunction(audit) \in Nat
        /\ SumFunction(Append(audit, new_tokens[c])) = SumFunction(audit) + new_tokens[c]
    <3>1. audit \in Seq(0..MaxTokens) /\ new_tokens[c] \in Nat
      BY <1>0, <2>1 DEF CountTypes
    <3>. QED
      BY <2>1, <3>1, AuditSum
  <2>5. Len(audit) \in Nat /\ Len(Append(audit, new_tokens[c])) = Len(audit) + 1
    BY <1>0 DEF CountTypes
  <2>6. /\ Len(audit) <= Cardinality(Complete200)
        /\ SumFunction(audit) <= Total(new_tokens, Complete200)
    BY DEF CountInv, AuditBehind
  <2>7. Len(audit') <= Cardinality(Complete200')
    BY <1>1, <2>2, <2>5, <2>6
  <2>8. SumFunction(audit') <= Total(new_tokens, Complete200')
    <3>1. new_tokens[c] \in Nat
      BY <2>1
    <3>2. SumFunction(audit) + new_tokens[c] <= Total(new_tokens, Complete200')
      BY <2>3, <2>4, <2>6, <3>1
    <3>3. SumFunction(audit) <= Total(new_tokens, Complete200')
      BY <2>4, <2>3, <2>6, <3>1
    <3>4. CASE audit' = audit
      BY <3>3, <3>4
    <3>5. CASE audit' = Append(audit, new_tokens[c])
      BY <2>4, <3>2, <3>5
    <3>. QED
      BY <1>1, <3>4, <3>5
  <2>. QED
    BY <1>1, <2>7, <2>8 DEF AuditBehind
<1>. QED
  BY <1>2, <1>3, <1>5, <1>6 DEF CountInv

LEMMA CountNext == CountInv /\ [Next]_vars => CountInv'
<1> SUFFICES ASSUME CountInv, [Next]_vars PROVE CountInv'
  OBVIOUS
<1>0. CountTypes /\ Unanswered
  BY DEF CountInv
<1> USE DEF lifecycle, gate
<1>1. CASE Main
  <2>1. CASE StopClose
    <3>1. /\ conn' = [d \in Conns |-> IF conn[d] = "backlog" THEN "reset" ELSE conn[d]]
          /\ UNCHANGED <<kind, status, new_tokens, counters>>
      BY <2>1 DEF StopClose
    <3>2. CountTypes' /\ Unanswered'
      BY <1>0, <3>1 DEF CountTypes, Unanswered, Before, ConnStates, counters
    <3>3. Complete200' = Complete200 /\ Requested' = Requested /\ Summed' = Summed
      BY <3>1 DEF Complete200, Requested, Summed
    <3>. QED
      BY <3>1, <3>2, <3>3, CountQuiet
  <2>. QED
    BY <1>1, <2>1, CountElsewhere DEF Main, Start, StartFails, StopFlag, StopJoin, Exit
<1>2. CASE Acceptor
  <2>1. ASSUME NEW c \in Conns, AcceptOne(c) PROVE CountInv'
    BY <1>0, <2>1, CountMoves DEF AcceptOne, ConnStates, Before, CountTypes
  <2>. QED
    BY <1>2, <2>1, CountElsewhere DEF Acceptor, LoopCheck, Select, AcceptFails
<1>3. ASSUME NEW c \in Conns, Connect(c) \/ Received(c) \/ Sent(c) PROVE CountInv'
  <2>1. CASE Connect(c)
    BY <1>0, <2>1, CountMoves DEF Connect, ConnStates, Before, CountTypes
  <2>2. CASE Received(c)
    BY <1>0, <2>2, CountMoves DEF Received, ConnStates, Before, CountTypes
  <2>3. CASE Sent(c)
    BY <1>0, <2>3, CountMoves DEF Sent, ConnStates, Before, CountTypes
  <2>. QED
    BY <1>3, <2>1, <2>2, <2>3
<1>4. ASSUME NEW c \in Conns, TestGate(c, in_flight), conn[c] \in {"entering", "cas"},
             UNCHANGED <<kind, new_tokens, counters>>
      PROVE  CountInv'
  <2>1. CASE in_flight < MaxConcurrency
    <3>1. Goto(c, "cas") /\ UNCHANGED status
      BY <1>4, <2>1 DEF TestGate
    <3>2. status' \in [Conns -> {0, 200, 400, 404, 429}]
      BY <1>0, <3>1 DEF CountTypes
    <3>. QED
      BY <1>4, <3>1, <3>2, CountMoves DEF ConnStates, Before
  <2>2. CASE ~(in_flight < MaxConcurrency)
    <3>1. Goto(c, "sending") /\ status' = [status EXCEPT ![c] = 429]
      BY <1>4, <2>2 DEF TestGate
    <3>2. /\ status' \in [Conns -> {0, 200, 400, 404, 429}] /\ status'[c] = 429
          /\ \A d \in Conns : d # c => status'[d] = status[d]
      BY <1>0, <3>1 DEF CountTypes
    <3>. QED
      BY <1>4, <3>1, <3>2, CountMoves DEF ConnStates, Before
  <2>. QED
    BY <2>1, <2>2
<1>5. ASSUME NEW c \in Conns, Handler(c) PROVE CountInv'
  <2>1. CASE Load(c) \/ CasFails(c)
    BY <1>4, <2>1 DEF Load, CasFails
  <2>2. CASE CasEnters(c)
    BY <1>0, <2>2, CountMoves DEF CasEnters, ConnStates, Before, CountTypes
  <2>3. CASE Leave(c)
    BY <1>0, <2>3, CountMoves DEF Leave, ConnStates, Before, CountTypes
  <2>4. CASE Answer(c)
    <3>1. /\ status' \in [Conns -> {0, 200, 400, 404, 429}]
          /\ \A d \in Conns : d # c => status'[d] = status[d]
          /\ kind[c] # "complete" /\ conn[c] = "dispatch" /\ Goto(c, "leaving")
          /\ UNCHANGED <<kind, new_tokens, counters>>
      BY <1>0, <2>4 DEF Answer, CountTypes
    <3>. QED
      BY <3>1, CountMoves DEF ConnStates, Before
  <2>5. CASE Generate(c)
    <3>1. /\ new_tokens' \in [Conns -> 0..MaxTokens]
          /\ \A d \in Conns : d # c => new_tokens'[d] = new_tokens[d]
          /\ kind[c] = "complete" /\ conn[c] = "dispatch" /\ Goto(c, "generated")
          /\ UNCHANGED <<kind, status, counters>>
      BY <1>0, <2>5 DEF Generate, CountTypes
    <3>2. status \in [Conns -> {0, 200, 400, 404, 429}]
      BY <1>0 DEF CountTypes
    <3>. QED
      BY <3>1, <3>2, CountMoves DEF ConnStates, Before
  <2>. QED
    BY <1>5, <2>1, <2>2, <2>3, <2>4, <2>5, CountRequestKeeps, CountTokensKeeps, AuditKeeps
    DEF Handler
<1>6. CASE UNCHANGED vars
  BY <1>6, CountElsewhere DEF vars
<1>7. CASE Exited
  BY <1>6, <1>7 DEF Exited
<1>. QED
  BY <1>1, <1>2, <1>3, <1>5, <1>6, <1>7 DEF Next

(***************************************************************************)
(* However the completions of racing handlers interleave, the counters of  *)
(* /metrics are the completions answered and their tokens whenever no      *)
(* handler is between counting and answering, and the audit log claims no  *)
(* more than they do.                                                      *)
(***************************************************************************)
THEOREM CountersAccount == Spec => []Accounted
BY CountInit, CountNext, CountImplies, PTL DEF Spec
=============================================================================
