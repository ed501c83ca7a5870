------------------------- MODULE WorkflowEngine_proofs -------------------------
(* Theorems about ResumePlan and WorkflowEngine, for any graph, attempts,      *)
(* drivers and calls.                                                          *)
EXTENDS WorkflowEngine, SequenceTheorems, FiniteSetTheorems, WellFoundedInduction, TLAPS

-------------------------------------------------------------------------------
(* Naturals, maxima and sequences.                                         *)

\* A non-empty set of naturals has a smallest one.
LEMMA Smallest ==
  ASSUME NEW T, T \subseteq Nat, T # {}
  PROVE  \E t \in T : \A u \in T : t =< u
<1> DEFINE R == {ss \in Nat \X Nat : ss[1] < ss[2]}
<1>1. IsWellFoundedOn(R, Nat)
  BY NatLessThanWellFounded DEF OpToRel
<1>2. PICK t \in T : \A u \in T : <<u, t>> \notin R
  <2> HIDE DEF R
  <2>1. QED
    BY <1>1, WFMin
<1>3. ASSUME NEW u \in T PROVE t =< u
  <2>1. <<u, t>> \in Nat \X Nat /\ <<u, t>>[1] = u /\ <<u, t>>[2] = t
    OBVIOUS
  <2>2. ~(u < t)
    BY <1>2, <2>1, Zenon
  <2>3. QED
    BY <2>2
<1>4. QED
  BY <1>3

\* A set of places has a last one, and it is behind the others.
LEMMA LastPlace ==
  ASSUME NEW n \in Nat, NEW places, places \subseteq 1..n, places # {}
  PROVE  Max(places) \in places /\ \A j \in places : j =< Max(places)
<1> DEFINE T == {n - i : i \in places}
<1>1. PICK t \in T : \A u \in T : t =< u
  <2>1. T \subseteq Nat
    OBVIOUS
  <2>3. T # {}
    OBVIOUS
  <2> HIDE DEF T
  <2>2. QED
    BY <2>1, <2>3, Smallest
<1>2. PICK i \in places : t = n - i
  OBVIOUS
<1>3. \A j \in places : n - j \in T
  OBVIOUS
<1> HIDE DEF T
<1>4. \A j \in places : n - i =< n - j /\ i \in Nat /\ j \in Nat
  BY <1>1, <1>2, <1>3
<1>5. \A j \in places : i >= j
  BY <1>4
<1>6. Max(places) \in places /\ \A j \in places : Max(places) >= j
  BY <1>5 DEF Max
<1>7. QED
  BY <1>4, <1>6

\* Places are finitely many.
LEMMA PlacesFinite ==
  ASSUME NEW n \in Nat, NEW places, places \subseteq 1..n
  PROVE  IsFiniteSet(places) /\ Cardinality(places) \in Nat
<1>1. IsFiniteSet(1..n)
  BY FS_Interval
<1>2. places \in SUBSET (1..n)
  OBVIOUS
<1>3. IsFiniteSet(places)
  BY <1>1, <1>2, FS_Subset
<1>4. QED
  BY <1>3, FS_CardinalityType

\* The k-th of some places of a sequence.
LEMMA NthPlace ==
  ASSUME NEW n \in Nat, NEW places, places \subseteq 1..n, NEW k \in 1..Cardinality(places)
  PROVE  \E i \in places : Cardinality({j \in places : j =< i}) = k
<1> DEFINE Upto(i) == {j \in places : j =< i}
           M == {i \in 0..n : k =< Cardinality(Upto(i))}
<1>0. places \subseteq Nat /\ \A j \in places : 1 =< j /\ j =< n
  OBVIOUS
<1>1. IsFiniteSet(places) /\ Cardinality(places) \in Nat
  BY PlacesFinite
<1>2. \A i \in 0..n : IsFiniteSet(Upto(i)) /\ Cardinality(Upto(i)) \in Nat
  <2> SUFFICES ASSUME NEW i \in 0..n PROVE IsFiniteSet(Upto(i)) /\ Cardinality(Upto(i)) \in Nat
    OBVIOUS
  <2>1. Upto(i) \in SUBSET places
    OBVIOUS
  <2> HIDE DEF Upto
  <2>2. QED
    BY <1>1, <2>1, FS_Subset, FS_CardinalityType
<1>3. n \in M
  <2>1. Upto(n) = places
    BY <1>0
  <2> HIDE DEF Upto
  <2>2. QED
    BY <1>1, <2>1
<1>4. PICK i \in M : \A m \in M : i =< m
  <2>1. M \subseteq Nat
    OBVIOUS
  <2>2. M # {}
    BY <1>3
  <2> HIDE DEF M
  <2>3. QED
    BY <2>1, <2>2, Smallest
<1>5. i # 0
  <2> SUFFICES ASSUME i = 0 PROVE FALSE
    OBVIOUS
  <2>1. Upto(i) = {}
    <3>1. \A j \in places : ~(j =< i)
      BY <1>0
    <3> HIDE DEF M
    <3>2. QED
      BY <3>1
  <2>2. k =< Cardinality(Upto(i))
    OBVIOUS
  <2> HIDE DEF Upto, M
  <2>3. Cardinality(Upto(i)) = 0
    BY <2>1, FS_EmptySet
  <2>4. k >= 1
    BY <1>1
  <2>5. QED
    BY <2>2, <2>3, <2>4
<1>6. i - 1 \in 0..n /\ i \in 0..n /\ i - 1 < i
  BY <1>5
<1>7. Cardinality(Upto(i - 1)) < k
  <2>1. i - 1 \notin M
    <3> HIDE DEF M
    <3>1. QED
      BY <1>4, <1>6
  <2> HIDE DEF Upto
  <2>2. QED
    BY <1>2, <1>6, <2>1
<1>8. \A j \in places : j =< i <=> j =< i - 1 \/ j = i
  BY <1>0, <1>6
<1>9. i \in places
  <2> SUFFICES ASSUME i \notin places PROVE FALSE
    OBVIOUS
  <2>1. Upto(i) = Upto(i - 1)
    BY <1>8
  <2>2. k =< Cardinality(Upto(i))
    OBVIOUS
  <2> HIDE DEF Upto
  <2>3. QED
    BY <1>2, <1>6, <1>7, <2>1, <2>2
<1>10. Cardinality(Upto(i)) = Cardinality(Upto(i - 1)) + 1
  <2>1. Upto(i) = Upto(i - 1) \cup {i}
    BY <1>8, <1>9
  <2>2. i \notin Upto(i - 1)
    BY <1>6
  <2> HIDE DEF Upto
  <2>3. QED
    BY <1>2, <1>6, <2>1, <2>2, FS_AddElement
<1>11. k =< Cardinality(Upto(i))
  OBVIOUS
<1>12. Cardinality(Upto(i)) = k
  <2> HIDE DEF Upto
  <2>1. QED
    BY <1>2, <1>6, <1>7, <1>10, <1>11
<1>13. QED
  BY <1>9, <1>12

\* What stands at some places of a sequence is a sequence of what stands there.
LEMMA AtPlacesIn ==
  ASSUME NEW S, NEW s \in Seq(S), NEW places, places \subseteq DOMAIN s
  PROVE  /\ AtPlaces(s, places) \in Seq(S)
         /\ \A k \in DOMAIN AtPlaces(s, places) : \E i \in places : AtPlaces(s, places)[k] = s[i]
<1> DEFINE nth(k) == CHOOSE i \in places : Cardinality({j \in places : j =< i}) = k
           N == Cardinality(places)
<1>1. Len(s) \in Nat /\ DOMAIN s = 1..Len(s) /\ \A i \in 1..Len(s) : s[i] \in S
  BY LenProperties, ElementOfSeq
<1>2. N \in Nat
  BY <1>1, PlacesFinite
<1>3. \A k \in 1..N : nth(k) \in places
  BY <1>1, NthPlace
<1>4. AtPlaces(s, places) = [k \in 1..N |-> s[nth(k)]]
  BY DEF AtPlaces
<1> HIDE DEF nth, N
<1>5. AtPlaces(s, places) \in [1..N -> S]
  BY <1>1, <1>3, <1>4
<1>6. AtPlaces(s, places) \in Seq(S)
  BY <1>2, <1>5, SeqDef
<1>7. QED
  BY <1>3, <1>4, <1>6

-------------------------------------------------------------------------------
(* The graph.                                                              *)

\* What an edge is.
EdgeSet == [source : Node, target : Node, branch : Branches]

\* The edges out of a node, into it and with a mark are edges of the graph.
LEMMA OutsIn ==
  /\ \A n : Outs(n) \in Seq(EdgeSet) /\ Ins(n) \in Seq(EdgeSet)
  /\ \A n, branches : Marked(n, branches) \in Seq(EdgeSet)
<1>1. Edges \in Seq(EdgeSet)
  BY GraphAssumption DEF EdgeSet
<1>2. ASSUME NEW n PROVE Outs(n) \in Seq(EdgeSet) /\ Ins(n) \in Seq(EdgeSet)
  BY <1>1, AtPlacesIn DEF Outs, Ins
<1>3. ASSUME NEW n, NEW branches PROVE Marked(n, branches) \in Seq(EdgeSet)
  BY <1>2, AtPlacesIn DEF Marked
<1>4. QED
  BY <1>2, <1>3

\* Where edges lead is a node.
LEMMA TargetsIn ==
  ASSUME NEW edges \in Seq(EdgeSet)
  PROVE  /\ Targets(edges) \in Seq(Node)
         /\ FirstTarget(edges) \in Node \cup {""}
<1>1. Len(edges) \in Nat /\ DOMAIN edges = 1..Len(edges) /\ \A i \in 1..Len(edges) : edges[i] \in EdgeSet
  BY LenProperties, ElementOfSeq
<1>2. Targets(edges) \in [1..Len(edges) -> Node]
  BY <1>1 DEF Targets, EdgeSet
<1>3. ASSUME edges # <<>> PROVE edges[1] \in EdgeSet
  <2>1. Len(edges) # 0
    BY <1>3, EmptySeq
  <2>2. 1 \in 1..Len(edges)
    BY <1>1, <2>1
  <2>3. QED
    BY <1>1, <2>2
<1>4. Targets(edges) \in Seq(Node)
  BY <1>1, <1>2, SeqDef
<1>5. FirstTarget(edges) \in Node \cup {""}
  BY <1>3 DEF FirstTarget, EdgeSet
<1>6. QED
  BY <1>4, <1>5

\* Where a node leads, by any of its answers, and what a merge waits for are nodes; only the
\* target of a rejection may be the "<nil>" of a missing field.
LEMMA LeadsIn ==
  /\ \A n : Successors(n) \in Seq(Node)
  /\ \A n, ok : ConditionNext(n, ok) \in Seq(Node)
  /\ \A n : ApproveNext(n) \in Node \cup {""}
  /\ \A n \in Node : RejectNext(n) \in Handles \cup {""}
  /\ \A n \in Node : Needs(n) \in Seq(Node)
<1>1. \A n : Successors(n) \in Seq(Node)
  BY OutsIn, TargetsIn DEF Successors
<1>2. ASSUME NEW n, NEW ok PROVE ConditionNext(n, ok) \in Seq(Node)
  <2> DEFINE marked == Marked(n, IF ok THEN {"true", "default", "approve"} ELSE {"false", "reject"})
             place  == IF ok THEN 1 ELSE 2
  <2>1. Targets(marked) \in Seq(Node)
    BY OutsIn, TargetsIn
  <2>2. ASSUME place \in DOMAIN Outs(n) PROVE <<Outs(n)[place].target>> \in Seq(Node)
    <3>1. Outs(n)[place] \in EdgeSet
      BY <2>2, OutsIn, LenProperties, ElementOfSeq
    <3>2. QED
      BY <3>1 DEF EdgeSet
  <2>3. <<>> \in Seq(Node)
    BY EmptySeq
  <2>4. QED
    BY <2>1, <2>2, <2>3 DEF ConditionNext
<1>3. ASSUME NEW n PROVE ApproveNext(n) \in Node \cup {""}
  BY OutsIn, TargetsIn DEF ApproveNext
<1>4. ASSUME NEW n \in Node PROVE RejectNext(n) \in Handles \cup {""}
  BY OutsIn, TargetsIn, GraphAssumption DEF RejectNext, Handles
<1>5. ASSUME NEW n \in Node PROVE Needs(n) \in Seq(Node)
  <2>1. CASE WaitFor[n] # <<>>
    BY <2>1, GraphAssumption DEF Needs
  <2>2. CASE WaitFor[n] = <<>>
    <3>1. Ins(n) \in Seq(EdgeSet)
      BY OutsIn
    <3>2. Len(Ins(n)) \in Nat /\ DOMAIN Ins(n) = 1..Len(Ins(n)) /\ \A i \in 1..Len(Ins(n)) : Ins(n)[i] \in EdgeSet
      BY <3>1, LenProperties, ElementOfSeq
    <3>3. Needs(n) \in [1..Len(Ins(n)) -> Node]
      BY <2>2, <3>2 DEF Needs, EdgeSet
    <3>4. QED
      BY <3>2, <3>3, SeqDef
  <2>3. QED
    BY <2>1, <2>2
<1>6. QED
  BY <1>1, <1>2, <1>3, <1>4, <1>5

\* A sequence of nodes may be a queue.
LEMMA SeqOfNodesIsOfHandles == Seq(Node) \subseteq Seq(Handles)
<1> SUFFICES ASSUME NEW s \in Seq(Node) PROVE s \in Seq(Handles)
  OBVIOUS
<1>1. Len(s) \in Nat /\ s \in [1..Len(s) -> Node]
  BY LenProperties
<1>2. s \in [1..Len(s) -> Handles]
  BY <1>1 DEF Handles
<1>3. QED
  BY <1>1, <1>2, SeqDef

\* The queues of a driver.
LEMMA EnqueueIn ==
  ASSUME NEW queue \in Seq(Handles), NEW visited, NEW next \in Seq(Handles)
  PROVE  Enqueue(queue, visited, next) \in Seq(Handles)
<1> DEFINE places == {i \in DOMAIN next :
             next[i] \notin visited \cup ToSet(queue) \cup {next[j] : j \in 1..(i - 1)}}
<1>1. places \subseteq DOMAIN next
  OBVIOUS
<1>2. Enqueue(queue, visited, next) = queue \o AtPlaces(next, places)
  BY DEF Enqueue
<1> HIDE DEF places
<1>3. AtPlaces(next, places) \in Seq(Handles)
  BY <1>1, AtPlacesIn
<1>4. QED
  BY <1>2, <1>3, ConcatProperties

\* The start node is a node: a graph without one is refused (workflow_graph.go:89-96).
LEMMA StartIsNode == StartNode \in Node /\ Kind[StartNode] = "start"
<1> DEFINE marked == {i \in 1..Len(Order) : Kind[Order[i]] = "start"}
<1>1. Len(Order) \in Nat /\ DOMAIN Order = 1..Len(Order)
  BY GraphAssumption, LenProperties
<1>2. \E i \in DOMAIN Order : Kind[Order[i]] = "start"
  BY GraphAssumption DEF Node, ToSet
<1>3. marked \subseteq Nat /\ marked # {}
  BY <1>1, <1>2
<1>4. \E i \in marked : \A j \in marked : i =< j
  <2> HIDE DEF marked
  <2>1. QED
    BY <1>3, Smallest
<1>5. Min(marked) \in marked
  <2> HIDE DEF marked
  <2>1. QED
    BY <1>4 DEF Min
<1>6. StartNode = Order[Min(marked)]
  BY <1>3 DEF StartNode, SelectInSeq
<1>7. QED
  BY <1>1, <1>5, <1>6 DEF Node, ToSet

\* What a driver knows of its queue, may run and has to put back are nodes, and it runs no
\* merge that is not ready.
LEMMA QueuesIn ==
  ASSUME NEW d, driver[d].queue \in Seq(Handles)
  PROVE  /\ Known(d) \in Seq(Node)
         /\ Ready(d) \in Seq(Node) /\ Deferred(d) \in Seq(Node)
         /\ \A k \in DOMAIN Ready(d) : IsReady(Ready(d)[k])
<1>1. Known(d) \in Seq(Node)
  <2> DEFINE queue == driver[d].queue
             places == {i \in DOMAIN queue : queue[i] \in Node \ {queue[j] : j \in 1..(i - 1)}}
  <2>1. Known(d) = AtPlaces(queue, places)
    BY DEF Known
  <2>2. places \subseteq DOMAIN queue /\ \A i \in places : queue[i] \in Node
    OBVIOUS
  <2> HIDE DEF places
  <2>3. /\ AtPlaces(queue, places) \in Seq(Handles)
        /\ \A k \in DOMAIN AtPlaces(queue, places) : AtPlaces(queue, places)[k] \in Node
    BY <2>2, AtPlacesIn
  <2>4. QED
    BY <2>1, <2>3, IsASeq DEF Handles
<1> DEFINE ready == {i \in DOMAIN Known(d) : IsReady(Known(d)[i])}
           deferred == {i \in DOMAIN Known(d) : ~IsReady(Known(d)[i])}
<1>2. ready \subseteq DOMAIN Known(d) /\ \A i \in ready : IsReady(Known(d)[i])
  OBVIOUS
<1>3. deferred \subseteq DOMAIN Known(d)
  OBVIOUS
<1>4. Ready(d) = AtPlaces(Known(d), ready) /\ Deferred(d) = AtPlaces(Known(d), deferred)
  BY DEF Ready, Deferred
<1> HIDE DEF ready, deferred
<1>5. /\ Ready(d) \in Seq(Node) /\ Deferred(d) \in Seq(Node)
      /\ \A k \in DOMAIN Ready(d) : \E i \in ready : Ready(d)[k] = Known(d)[i]
  BY <1>1, <1>2, <1>3, <1>4, AtPlacesIn
<1>6. QED
  BY <1>1, <1>2, <1>5

\* The queue as it grows with the results of a wave.
Next1(d, k, q) == Enqueue(q, VisitedBy(d, k), LeadsTo(d, driver[d].wave[k]))

GrowsTo(d, q, m) == q = [k \in 0..m |-> IF k = 0 THEN driver[d].queue ELSE Next1(d, k, q[k - 1])]

\* It is defined.
LEMMA TakenGrows ==
  ASSUME NEW d, driver[d].wave \in Seq(Node)
  PROVE  /\ Len(driver[d].wave) \in Nat
         /\ \E q : GrowsTo(d, q, Len(driver[d].wave)) /\ Taken(d) = q[Len(driver[d].wave)]
<1> DEFINE wave == driver[d].wave
           N == Len(wave)
           queue == CHOOSE q : q = [k \in 0..N |-> IF k = 0 THEN driver[d].queue ELSE Next1(d, k, q[k - 1])]
<1>1. N \in Nat
  BY LenProperties
<1>2. Taken(d) = queue[N]
  BY DEF Taken, Next1
<1>3. queue = CHOOSE q : GrowsTo(d, q, N)
  BY DEF GrowsTo
<1> HIDE DEF wave, N, queue
<1>4. \E q : GrowsTo(d, q, N)
  <2> DEFINE Lacking == {m \in 0..N : ~\E q : GrowsTo(d, q, m)}
  <2> SUFFICES ASSUME ~\E q : GrowsTo(d, q, N) PROVE FALSE
    OBVIOUS
  <2>0. Lacking # {}
    <3>1. N \in 0..N
      BY <1>1
    <3>2. QED
      BY <3>1
  <2>1. PICK m \in Lacking : \A l \in Lacking : m =< l
    <3>1. Lacking \subseteq Nat
      BY <1>1
    <3> HIDE DEF Lacking
    <3>2. QED
      BY <2>0, <3>1, Smallest
  <2>2. m # 0
    <3>1. GrowsTo(d, [k \in 0..0 |-> driver[d].queue], 0)
      BY DEF GrowsTo
    <3>2. 0 \notin Lacking
      BY <3>1
    <3>3. QED
      BY <2>1, <3>2
  <2>3. PICK q : GrowsTo(d, q, m - 1)
    <3>1. m - 1 \in 0..N /\ ~(m =< m - 1)
      BY <1>1, <2>2
    <3>2. m - 1 \notin Lacking
      <4> HIDE DEF Lacking
      <4>1. QED
        BY <2>1, <3>1
    <3>3. QED
      BY <3>1, <3>2
  <2> DEFINE r == [k \in 0..m |-> IF k = m THEN Next1(d, m, q[m - 1]) ELSE q[k]]
  <2>4. GrowsTo(d, r, m)
    <3>1. ASSUME NEW k \in 0..m
          PROVE  r[k] = IF k = 0 THEN driver[d].queue ELSE Next1(d, k, r[k - 1])
      BY <1>1, <2>2, <2>3 DEF GrowsTo
    <3>2. QED
      BY <3>1 DEF GrowsTo
  <2>5. QED
    BY <2>1, <2>4
<1>5. GrowsTo(d, queue, N)
  BY <1>3, <1>4
<1>6. QED
  BY <1>1, <1>2, <1>5 DEF N, wave

\* It queues nodes only.
LEMMA TakenIn ==
  ASSUME NEW d, driver[d].queue \in Seq(Handles), driver[d].wave \in Seq(Node)
  PROVE  Taken(d) \in Seq(Handles)
<1> DEFINE N == Len(driver[d].wave)
<1>1. N \in Nat /\ \A k \in 1..N : driver[d].wave[k] \in Node
  BY LenProperties, ElementOfSeq
<1>2. ASSUME NEW k \in 1..N, NEW q \in Seq(Handles) PROVE Next1(d, k, q) \in Seq(Handles)
  <2>1. LeadsTo(d, driver[d].wave[k]) \in Seq(Node)
    <3>1. <<>> \in Seq(Node)
      BY EmptySeq
    <3>2. QED
      BY <3>1, LeadsIn DEF LeadsTo
  <2>2. QED
    BY <1>2, <2>1, SeqOfNodesIsOfHandles, EnqueueIn DEF Next1
<1>3. PICK queue : GrowsTo(d, queue, N) /\ Taken(d) = queue[N]
  BY TakenGrows
<1> HIDE DEF N
<1>6. \A k \in 0..N : queue[k] \in Seq(Handles)
  <2> DEFINE Bad == {k \in 0..N : queue[k] \notin Seq(Handles)}
  <2> SUFFICES ASSUME Bad # {} PROVE FALSE
    OBVIOUS
  <2>1. PICK k \in Bad : \A l \in Bad : k =< l
    <3>1. Bad \subseteq Nat
      BY <1>1
    <3> HIDE DEF Bad
    <3>2. QED
      BY <3>1, Smallest
  <2>2. queue[0] = driver[d].queue
    BY <1>1, <1>3 DEF GrowsTo
  <2>3. k # 0
    BY <2>2
  <2>4. k - 1 \in 0..N /\ k \in 1..N /\ queue[k] = Next1(d, k, queue[k - 1])
    BY <1>1, <1>3, <2>1, <2>3 DEF GrowsTo
  <2>5. queue[k - 1] \in Seq(Handles)
    BY <2>1, <2>4
  <2>6. QED
    BY <1>2, <2>1, <2>4, <2>5
<1>7. QED
  BY <1>1, <1>3, <1>6

(***************************************************************************)
(* What the state looks like, as far as the theorems need it: the rows,    *)
(* where the drivers and their tasks are, where the calls are.  The queues *)
(* are left open.                                                          *)
(***************************************************************************)
DriverShape ==
  /\ DOMAIN driver = Drivers
  /\ \A d \in Drivers :
       /\ DOMAIN driver[d] = {"place", "queue", "visited", "wave", "task", "row"}
       /\ driver[d].place \in Places
       /\ driver[d].task \in [Node -> Tasks]
       /\ driver[d].row \in [Node -> Nat]

OpShape ==
  /\ DOMAIN op = Callers
  /\ \A o \in Callers :
       /\ DOMAIN op[o] = {"kind", "pc", "target", "found", "row", "starts", "seed"}
       /\ op[o].pc \in Steps

\* A task is under way in the wave of its driver only.
TasksInWave ==
  \A d \in Drivers, n \in Node :
    driver[d].task[n] \in {"new", "inserted", "asking"}
      => At(d, "wave") /\ n \in ToSet(driver[d].wave)

Shape ==
  /\ rows \in Seq(Attempts)
  /\ DriverShape
  /\ OpShape
  /\ TasksInWave

\* The steps of a driver that touch no row, and those that write one.
RestingSteps(d) ==
  \/ Loads(d) \/ TakeWave(d) \/ RunsDry(d) \/ Announce(d) \/ GoOn(d) \/ Settle(d) \/ Leave(d)

\* A function on the rows' places whose values are attempts is a table again.
LEMMA RowsMapped ==
  ASSUME rows \in Seq(Attempts), rows' \in [DOMAIN rows -> Attempts]
  PROVE  rows' \in Seq(Attempts)
<1>1. DOMAIN rows = 1..Len(rows) /\ Len(rows) \in Nat
  OBVIOUS
<1>2. QED
  BY <1>1, SeqDef

\* Rows are added and changed, never taken away.
RowsGrow == rows' \in Seq(Attempts) /\ DOMAIN rows \subseteq DOMAIN rows'

LEMMA RowsStep == Shape /\ [Next]_vars => RowsGrow
<1> SUFFICES ASSUME Shape, [Next]_vars PROVE RowsGrow
  OBVIOUS
<1> USE DEF RowsGrow
<1>0. rows \in Seq(Attempts) /\ rows \in [DOMAIN rows -> Attempts]
  BY LenProperties DEF Shape
<1>1. ASSUME NEW i, NEW status \in RowStatuses, NEW out \in Outputs, SetRow(i, status, out)
      PROVE  RowsGrow
  <2>1. rows' = [rows EXCEPT ![i].status = status, ![i].out = out]
    BY <1>1 DEF SetRow
  <2>2. rows' \in [DOMAIN rows -> Attempts]
    BY <1>0, <2>1 DEF Attempts
  <2>3. QED
    BY <1>0, <2>2, RowsMapped
<1>2. ASSUME NEW n \in Node, NEW status \in RowStatuses, AddRow(n, status)
      PROVE  RowsGrow
  <2>1. [node |-> n, status |-> status, out |-> ""] \in Attempts
    BY DEF Attempts, Outputs
  <2>2. rows' \in Seq(Attempts) /\ Len(rows') = Len(rows) + 1
    BY <1>0, <1>2, <2>1, AppendProperties DEF AddRow
  <2>3. Len(rows) \in Nat /\ DOMAIN rows = 1..Len(rows) /\ DOMAIN rows' = 1..Len(rows')
    BY <1>0, <2>2, LenProperties
  <2>4. QED
    BY <2>2, <2>3
<1>3. ASSUME NEW d, NEW i, NEW status \in RowStatuses, NEW out \in Outputs,
             DriverSetsRow(d, i, status, out)
      PROVE  RowsGrow
  BY <1>0, <1>1, <1>3 DEF DriverSetsRow
<1>4. ASSUME NEW d \in Drivers, DriverStep(d) PROVE RowsGrow
  <2>1. CASE StartInserts(d)
    BY <2>1, <1>0, <1>2, StartIsNode DEF StartInserts, RowStatuses
  <2>2. CASE StartEnds(d)
    BY <2>2, <1>3 DEF StartEnds, RowStatuses, Outputs
  <2>3. CASE RestingSteps(d)
    BY <2>3, <1>0 DEF RestingSteps, Loads, TakeWave, RunsDry, Announce, GoOn, Settle, Leave
  <2>4. ASSUME NEW n \in Node, Insert(d, n) PROVE RowsGrow
    BY <2>4, <1>0, <1>2 DEF Insert, RowStatuses
  <2>5. ASSUME NEW n \in Node, Refuse(d, n) PROVE RowsGrow
    BY <2>5, <1>0 DEF Refuse
  <2>6. ASSUME NEW n \in Node, Occupy(d, n) \/ Errs(d, n) PROVE RowsGrow
    BY <2>6, <1>1 DEF Occupy, Errs, RowStatuses, Outputs
  <2>7. ASSUME NEW n \in Node, Busy(d, n) \/ Replies(d, n) \/ Complete(d, n) \/ Evaluate(d, n)
        PROVE  RowsGrow
    BY <2>7, <1>3 DEF Busy, Replies, Complete, Evaluate, RowStatuses, Outputs
  <2>8. QED
    BY <1>4, <2>1, <2>2, <2>3, <2>4, <2>5, <2>6, <2>7 DEF DriverStep, TaskStep, RestingSteps
<1>5. ASSUME NEW o \in Callers, OpStep(o) PROVE RowsGrow
  <2>1. CASE Mark(o)
    <3>1. rows' \in [DOMAIN rows -> Attempts]
      BY <2>1, <1>0 DEF Mark, Attempts, RowStatuses, Outputs
    <3>2. QED
      BY <1>0, <3>1, RowsMapped
  <2>2. CASE AbortRow(o) \/ Answer(o)
    BY <2>2, <1>1 DEF AbortRow, Answer, RowStatuses, Outputs
  <2>3. CASE ~(Mark(o) \/ AbortRow(o) \/ Answer(o))
    BY <1>5, <2>3, <1>0 DEF OpStep, Create, Reopen, Spawn, Look, Cancel, List, Read, Write,
         AbortRun, Status, Again, Find, Decide, AskBusy, Plan, Close
  <2>4. QED
    BY <2>1, <2>2, <2>3
<1>6. ASSUME Restart PROVE RowsGrow
  <2>1. rows' \in [DOMAIN rows -> Attempts]
    BY <1>0, <1>6 DEF Restart, Attempts, RowStatuses
  <2>2. QED
    BY <1>0, <2>1, RowsMapped
<1>7. ASSUME NEW o \in Ops, NEW kind \in OpKinds, Call(o, kind) PROVE RowsGrow
  BY <1>0, <1>7 DEF Call
<1>8. CASE LoopResumes \/ WindowEnds \/ UNCHANGED vars
  BY <1>0, <1>8 DEF LoopResumes, WindowEnds, vars
<1>9. QED
  BY <1>4, <1>5, <1>6, <1>7, <1>8 DEF Next

-------------------------------------------------------------------------------
(* The types of the calls, of the drivers and of the run's row.             *)

\* What each call knows has its type.
OpRecs ==
  [kind : {"none", "start", "stop", "retry", "resume"} \cup Reviews, pc : Steps,
   target : Drivers \cup {Nobody}, found : SUBSET (DOMAIN rows), row : {0} \cup DOMAIN rows,
   starts : Seq(Handles), seed : SUBSET Node]

OpTyped == op \in [Callers -> OpRecs]

\* What each driver knows has its type.
DriverRecs ==
  [place : Places, queue : Seq(Handles), visited : SUBSET Node, wave : Seq(Node),
   task : [Node -> Tasks], row : [Node -> Nat]]

DriverTyped == driver \in [Drivers -> DriverRecs]

\* A driver whose record is replaced by one of the type keeps the type.
LEMMA DriverSet ==
  ASSUME DriverTyped, NEW d \in Drivers, NEW r \in DriverRecs, driver' = [driver EXCEPT ![d] = r]
  PROVE  DriverTyped'
  BY DEF DriverTyped

\* Every step keeps the drivers' types.
LEMMA DriverTypedStep == rows \in Seq(Attempts) /\ DriverTyped /\ OpTyped /\ [Next]_vars => DriverTyped'
<1> SUFFICES ASSUME rows \in Seq(Attempts), DriverTyped, OpTyped, [Next]_vars PROVE DriverTyped'
  OBVIOUS
<1>0. Len(rows) \in Nat /\ Len(rows) + 1 \in Nat
  BY LenProperties
<1>d. \A d \in Drivers : driver[d] \in DriverRecs
  BY DEF DriverTyped
<1>q. \A d \in Drivers :
        driver[d].queue \in Seq(Handles) /\ driver[d].wave \in Seq(Node) /\ driver[d].visited \subseteq Node
  BY <1>d DEF DriverRecs
<1>1. ASSUME NEW d \in Drivers, NEW place \in Places, Move(d, place) PROVE DriverTyped'
  <2> DEFINE r == [driver[d] EXCEPT !.place = place]
  <2>1. r \in DriverRecs
    BY <1>d DEF DriverRecs
  <2>2. driver' = [driver EXCEPT ![d] = r]
    BY <1>1 DEF Move
  <2>3. QED
    BY <2>1, <2>2, DriverSet
<1>2. ASSUME NEW d \in Drivers, NEW n \in Node, NEW task \in Tasks, TaskGoes(d, n, task)
      PROVE  DriverTyped'
  <2> DEFINE r == [driver[d] EXCEPT !.task[n] = task]
  <2>1. r \in DriverRecs
    BY <1>d DEF DriverRecs
  <2>2. driver' = [driver EXCEPT ![d] = r]
    BY <1>2 DEF TaskGoes
  <2>3. QED
    BY <2>1, <2>2, DriverSet
<1>3. NewDriver.row \in [Node -> Nat] /\ NewDriver.task \in [Node -> Tasks]
  BY DEF NewDriver, Tasks
<1>r. NewDriver \in DriverRecs /\ GoneDriver \in DriverRecs
  <2>1. <<>> \in Seq(Handles) /\ <<>> \in Seq(Node)
    BY EmptySeq
  <2>2. NewDriver \in DriverRecs
    BY <2>1 DEF NewDriver, DriverRecs, Places, Tasks
  <2>3. QED
    BY <2>2 DEF GoneDriver, DriverRecs, Places
<1>4. ASSUME NEW d \in Drivers, DriverStep(d) PROVE DriverTyped'
  <2>1. CASE StartInserts(d)
    <3>1. CASE d \in cancelled
      BY <2>1, <3>1, <1>1 DEF StartInserts, Places
    <3>2. CASE d \notin cancelled
      <4> DEFINE r == [driver[d] EXCEPT !.place = "started", !.row[StartNode] = Len(rows) + 1]
      <4>1. r \in DriverRecs
        BY <1>d, <1>0, StartIsNode DEF DriverRecs, Places
      <4>2. driver' = [driver EXCEPT ![d] = r]
        BY <2>1, <3>2 DEF StartInserts
      <4>3. QED
        BY <4>1, <4>2, DriverSet
    <3>3. QED
      BY <3>1, <3>2
  <2>2. CASE StartEnds(d)
    <3>1. CASE d \in cancelled
      BY <2>2, <3>1, <1>1 DEF StartEnds, Places
    <3>2. CASE d \notin cancelled
      <4> DEFINE r == [driver[d] EXCEPT !.place = "queue", !.queue = Successors(StartNode),
                                        !.visited = {StartNode}, !.row = NewDriver.row]
      <4>1. Successors(StartNode) \in Seq(Handles) /\ {StartNode} \subseteq Node
        BY LeadsIn, SeqOfNodesIsOfHandles, StartIsNode
      <4>2. r \in DriverRecs
        BY <1>d, <1>3, <4>1 DEF DriverRecs, Places
      <4>3. driver' = [driver EXCEPT ![d] = r]
        BY <2>2, <3>2 DEF StartEnds
      <4>4. QED
        BY <4>2, <4>3, DriverSet
    <3>3. QED
      BY <3>1, <3>2
  <2>3. CASE Loads(d)
    <3>1. CASE d \in cancelled
      BY <2>3, <3>1, <1>1 DEF Loads, Places
    <3>2. CASE d \notin cancelled
      <4> DEFINE visited == IF At(d, "seeded") THEN driver[d].visited
                            ELSE {n \in Node : Succeeded(n) /\ Snapshot(n).out # ""}
      <4>1. driver' = [driver EXCEPT ![d].place = "queue", ![d].visited = visited]
        BY <2>3, <3>2 DEF Loads
      <4>2. visited \subseteq Node
        BY <1>q
      <4> HIDE DEF visited
      <4> DEFINE r == [driver[d] EXCEPT !.place = "queue", !.visited = visited]
      <4>3. r \in DriverRecs
        BY <1>d, <4>2 DEF DriverRecs, Places
      <4>4. driver' = [driver EXCEPT ![d] = r]
        BY <4>1
      <4>5. QED
        BY <4>3, <4>4, DriverSet
    <3>3. QED
      BY <3>1, <3>2
  <2>4. CASE TakeWave(d)
    <3> DEFINE visits == UNION {MergeVisits(m) : m \in MergesOf(d)}
               r == [driver[d] EXCEPT !.place = "announce", !.wave = Ready(d), !.queue = Deferred(d),
                                      !.visited = driver[d].visited \cup visits]
    <3>1. Known(d) \in Seq(Node) /\ Ready(d) \in Seq(Node) /\ Deferred(d) \in Seq(Handles)
      BY <1>q, QueuesIn, SeqOfNodesIsOfHandles
    <3>2. visits \subseteq Node
      <4> SUFFICES ASSUME NEW m \in MergesOf(d) PROVE MergeVisits(m) \subseteq Node
        OBVIOUS
      <4>1. m \in Node
        BY <3>1, LenProperties, ElementOfSeq DEF MergesOf, ToSet
      <4>2. \A i \in DOMAIN Needs(m) : Needs(m)[i] \in Node
        BY <4>1, LeadsIn, LenProperties, ElementOfSeq
      <4>3. QED
        BY <4>2 DEF MergeVisits
    <3>3. driver' = [driver EXCEPT ![d] = r]
      BY <2>4 DEF TakeWave
    <3> HIDE DEF visits
    <3>4. driver[d].visited \cup visits \subseteq Node
      BY <1>q, <3>2
    <3>5. r \in DriverRecs
      BY <1>d, <3>1, <3>4 DEF DriverRecs, Places
    <3> HIDE DEF r
    <3>6. QED
      BY <3>3, <3>5, DriverSet
  <2>5. CASE RunsDry(d) \/ Settle(d)
    BY <2>5, <1>1 DEF RunsDry, Settle, Places
  <2>6. CASE Announce(d)
    <3> DEFINE task == [n \in Node |-> IF n \in ToSet(driver[d].wave) THEN "new" ELSE "idle"]
               r == [driver[d] EXCEPT !.place = "wave", !.task = task]
    <3>1. task \in [Node -> Tasks]
      BY DEF Tasks
    <3>2. driver' = [driver EXCEPT ![d] = r]
      BY <2>6 DEF Announce
    <3> HIDE DEF task
    <3>3. r \in DriverRecs
      BY <1>d, <3>1 DEF DriverRecs, Places
    <3>4. QED
      BY <3>2, <3>3, DriverSet
  <2>7. CASE GoOn(d)
    <3> DEFINE visited == VisitedBy(d, Len(driver[d].wave))
               r == [driver[d] EXCEPT !.place = "queue", !.queue = Taken(d), !.visited = visited,
                                      !.wave = <<>>, !.task = NewDriver.task, !.row = NewDriver.row]
    <3>1. Taken(d) \in Seq(Handles) /\ <<>> \in Seq(Node)
      BY <1>q, TakenIn, EmptySeq
    <3>2. visited \subseteq Node
      BY <1>q, LenProperties, ElementOfSeq DEF VisitedBy
    <3>3. driver' = [driver EXCEPT ![d] = r]
      BY <2>7 DEF GoOn
    <3> HIDE DEF visited
    <3>4. r \in DriverRecs
      BY <1>d, <1>3, <3>1, <3>2 DEF DriverRecs, Places
    <3> HIDE DEF r
    <3>5. QED
      BY <3>3, <3>4, DriverSet
  <2>8. CASE Leave(d)
    BY <2>8, <1>r, DriverSet DEF Leave
  <2>9. ASSUME NEW n \in Node, Insert(d, n) PROVE DriverTyped'
    <3>1. CASE d \in cancelled
      BY <2>9, <3>1, <1>2 DEF Insert, Tasks
    <3>2. CASE d \notin cancelled
      <4> DEFINE task == IF Kind[n] = "human_review" THEN "waiting" ELSE "inserted"
                 r == [driver[d] EXCEPT !.task[n] = task, !.row[n] = Len(rows) + 1]
      <4>1. driver' = [driver EXCEPT ![d] = r]
        BY <2>9, <3>2 DEF Insert
      <4>2. task \in Tasks
        BY DEF Tasks
      <4> HIDE DEF task
      <4>3. r \in DriverRecs
        BY <1>0, <1>d, <4>2 DEF DriverRecs
      <4> HIDE DEF r
      <4>4. QED
        BY <4>1, <4>3, DriverSet
    <3>3. QED
      BY <3>1, <3>2
  <2>10. ASSUME NEW n \in Node, Refuse(d, n) \/ Occupy(d, n) \/ Busy(d, n) \/ Replies(d, n)
                                \/ Errs(d, n) \/ Complete(d, n) \/ Evaluate(d, n)
         PROVE  DriverTyped'
    BY <2>10, <1>2 DEF Refuse, Occupy, Busy, Replies, Errs, Complete, Evaluate, Tasks
  <2>11. QED
    BY <1>4, <2>1, <2>2, <2>3, <2>4, <2>5, <2>6, <2>7, <2>8, <2>9, <2>10 DEF DriverStep, TaskStep
<1>5. ASSUME NEW o \in Callers, OpStep(o) PROVE DriverTyped'
  <2>1. CASE Spawn(o)
    <3> DEFINE d == NewGoroutine
               place == CASE op[o].kind = "start" -> "start" [] op[o].kind = "resume" -> "seeded"
                          [] OTHER -> "load"
               r == [driver[d] EXCEPT !.place = place, !.queue = op[o].starts, !.visited = op[o].seed]
    <3>1. d \in Drivers
      BY <2>1 DEF Spawn, NewGoroutine, Unused
    <3>2. op[o].starts \in Seq(Handles) /\ op[o].seed \in SUBSET Node
      BY DEF OpTyped, OpRecs
    <3>3. place \in Places
      BY DEF Places
    <3>4. driver' = [driver EXCEPT ![d] = r]
      BY <2>1 DEF Spawn
    <3> HIDE DEF d, place
    <3>5. r \in DriverRecs
      BY <1>d, <3>1, <3>2, <3>3 DEF DriverRecs
    <3> HIDE DEF r
    <3>6. QED
      BY <3>1, <3>4, <3>5, DriverSet
  <2>2. CASE ~Spawn(o)
    BY <1>5, <2>2 DEF OpStep, Create, Reopen, Look, Cancel, List, Mark, Read, Write, AbortRow,
         AbortRun, Status, Again, Find, Answer, Decide, AskBusy, Plan, Close, DriverTyped
  <2>3. QED
    BY <2>1, <2>2
<1>6. CASE Restart
  BY <1>6, <1>r DEF Restart, DriverTyped
<1>7. ASSUME NEW o \in Ops, NEW kind \in OpKinds, Call(o, kind) PROVE DriverTyped'
  BY <1>7 DEF Call, DriverTyped
<1>8. CASE LoopResumes \/ WindowEnds \/ UNCHANGED vars
  BY <1>8 DEF LoopResumes, WindowEnds, vars, DriverTyped
<1>9. QED
  BY <1>4, <1>5, <1>6, <1>7, <1>8 DEF Next

\* What a call has to know when it comes to a step.
Knows(c) ==
  /\ c.pc \in {"answer", "decide", "abort_row", "abort_run"} => c.row # 0
  /\ c.pc \in {"look", "cancel", "list", "mark"} /\ c.kind # "stop" => c.row # 0
  /\ c.pc = "cancel" => c.target # Nobody

CallsKnow == \A o \in Callers : Knows(op[o])

\* The types of the engine's entry and of the run's row.
EntryTyped == entry \in Drivers \cup {Nobody}

RunTyped == run \in [status : Statuses, fail : Node \cup {""}]

\* What is found last or first in a sequence is there.
LEMMA LatestIn ==
  ASSUME rows \in Seq(Attempts)
  PROVE  /\ Waiting \in {0} \cup DOMAIN rows
         /\ \A n : Latest(n) # 0 => Latest(n) \in DOMAIN rows /\ rows[Latest(n)].node = n
<1>0. Len(rows) \in Nat /\ DOMAIN rows = 1..Len(rows)
  BY LenProperties
<1>1. Waiting \in {0} \cup DOMAIN rows
  <2> DEFINE places == {i \in 1..Len(rows) : rows[i].status = "waiting"}
  <2>1. places # {} => Max(places) \in places
    <3>1. places \subseteq 1..Len(rows)
      OBVIOUS
    <3> HIDE DEF places
    <3>2. QED
      BY <1>0, <3>1, LastPlace
  <2>2. Waiting = IF places # {} THEN Max(places) ELSE 0
    BY DEF Waiting, SelectLastInSeq
  <2>3. QED
    BY <1>0, <2>1, <2>2
<1>2. ASSUME NEW n, Latest(n) # 0 PROVE Latest(n) \in DOMAIN rows /\ rows[Latest(n)].node = n
  <2> DEFINE places == {i \in 1..Len(rows) : rows[i].node = n}
  <2>1. places # {} => Max(places) \in places
    <3>1. places \subseteq 1..Len(rows)
      OBVIOUS
    <3> HIDE DEF places
    <3>2. QED
      BY <1>0, <3>1, LastPlace
  <2>2. Latest(n) = IF places # {} THEN Max(places) ELSE 0
    BY DEF Latest, SelectLastInSeq
  <2>3. QED
    BY <1>0, <1>2, <2>1, <2>2
<1>3. QED
  BY <1>1, <1>2

\* The task whose result is looked at next is that of a node.
LEMMA SettlingIn ==
  ASSUME NEW d, driver[d].wave \in Seq(Node), Settling(d) # 0
  PROVE  driver[d].wave[Settling(d)] \in Node
<1> DEFINE wave   == driver[d].wave
           places == {i \in 1..Len(wave) : Settles(d, wave[i])}
<1>0. Len(wave) \in Nat /\ \A i \in 1..Len(wave) : wave[i] \in Node
  BY LenProperties, ElementOfSeq
<1>1. Settling(d) = IF places # {} THEN Min(places) ELSE 0
  BY DEF Settling, SelectInSeq
<1>2. places \subseteq Nat /\ places # {}
  BY <1>0, <1>1
<1>3. places \subseteq 1..Len(wave)
  OBVIOUS
<1>4. Min(places) \in places
  <2> HIDE DEF places
  <2>1. \E i \in places : \A j \in places : i =< j
    BY <1>2, Smallest
  <2>2. QED
    BY <2>1 DEF Min
<1> HIDE DEF places
<1>5. QED
  BY <1>0, <1>1, <1>2, <1>3, <1>4

\* The plan of a resumption names nodes.
LEMMA PlanIn ==
  ASSUME NEW latest
  PROVE  Reusable(latest) \subseteq Node /\ Roots(latest) \subseteq Seq(Node)
<1>0. Order \in Seq(Node) /\ Len(Order) \in Nat /\ DOMAIN Order = 1..Len(Order)
  <2>1. Order \in Seq(STRING) /\ \A i \in 1..Len(Order) : Order[i] \in Node
    BY GraphAssumption, LenProperties DEF Node, ToSet
  <2>2. QED
    BY <2>1, LenProperties, IsASeq
<1>1. Reusable(latest) \subseteq Node
  BY DEF Reusable, Checked
<1>2. ASSUME NEW places, places \subseteq DOMAIN Order PROVE AtPlaces(Order, places) \in Seq(Node)
  BY <1>0, <1>2, AtPlacesIn
<1>3. IsFiniteSet(Node)
  <2>1. Order \in Surjection(1..Len(Order), Node)
    <3>1. Order \in [1..Len(Order) -> Node]
      BY <1>0, LenProperties
    <3>2. \A n \in Node : \E i \in 1..Len(Order) : Order[i] = n
      BY <1>0 DEF Node, ToSet
    <3>3. QED
      BY <3>1, <3>2 DEF Surjection
  <2>2. QED
    BY <1>0, <2>1, FS_NatSurjection DEF ExistsSurjection
<1>4. SetToSeqs(Frontier(latest)) \subseteq Seq(Node)
  <2> SUFFICES ASSUME NEW s \in SetToSeqs(Frontier(latest)) PROVE s \in Seq(Node)
    OBVIOUS
  <2>1. Frontier(latest) \in SUBSET Node
    BY DEF Frontier
  <2>2. Cardinality(Frontier(latest)) \in Nat
    BY <1>3, <2>1, FS_Subset, FS_CardinalityType
  <2>3. s \in [1..Cardinality(Frontier(latest)) -> Node]
    BY <2>1 DEF SetToSeqs
  <2>4. QED
    BY <2>2, <2>3, SeqDef
<1>5. Roots(latest) \subseteq Seq(Node)
  <2> DEFINE need   == NeedRerun(latest)
             places == {i \in DOMAIN Order : Order[i] \in need /\ Sources(Order[i]) \cap need = {}}
  <2>1. Roots(latest) = IF need # {} THEN {AtPlaces(Order, places)} ELSE SetToSeqs(Frontier(latest))
    BY DEF Roots
  <2>2. places \subseteq DOMAIN Order
    OBVIOUS
  <2> HIDE DEF places, need
  <2>3. QED
    BY <1>2, <1>4, <2>1, <2>2
<1>6. QED
  BY <1>1, <1>5

\* More rows do not take a call its type.
LEMMA OpKept == RowsGrow /\ OpTyped /\ UNCHANGED op => OpTyped'
  BY DEF RowsGrow, OpTyped, OpRecs

\* A call whose record is replaced by one of the type keeps the type.
LEMMA OpSet ==
  ASSUME RowsGrow, OpTyped, NEW o \in Callers, NEW r \in OpRecs, op' = [op EXCEPT ![o] = r]
  PROVE  OpTyped'
<1>1. OpRecs \subseteq OpRecs'
  BY DEF RowsGrow, OpRecs
<1>2. op' \in [Callers -> OpRecs]
  BY DEF OpTyped
<1> HIDE DEF OpRecs
<1>3. QED
  BY <1>1, <1>2 DEF OpTyped

\* Every step keeps the calls' types.
LEMMA OpTypedStep ==
  ASSUME rows \in Seq(Attempts), RowsGrow, OpTyped, CallsKnow, EntryTyped, RunTyped, [Next]_vars
  PROVE  OpTyped'
<1>0. \A o \in Callers : op[o] \in OpRecs
  BY DEF OpTyped
<1>1. ASSUME NEW o \in Callers, NEW pc \in Steps, OpGoes(o, pc) PROVE OpTyped'
  <2> DEFINE r == [op[o] EXCEPT !.pc = pc]
  <2>1. r \in OpRecs
    BY <1>0 DEF OpRecs
  <2>2. op' = [op EXCEPT ![o] = r]
    BY <1>1 DEF OpGoes
  <2>3. QED
    BY <2>1, <2>2, OpSet
<1>n. NewOp \in OpRecs /\ GoneOp \in OpRecs
  <2>1. <<>> \in Seq(Handles)
    BY EmptySeq
  <2>2. NewOp \in OpRecs
    BY <2>1 DEF NewOp, OpRecs, Steps
  <2>3. QED
    BY <2>2 DEF GoneOp, OpRecs, Steps
<1>2. ASSUME NEW o \in Callers, OpEnds(o) PROVE OpTyped'
  BY <1>2, <1>n, OpSet DEF OpEnds
<1>3. ASSUME NEW d \in Drivers, DriverStep(d) PROVE OpTyped'
  <2>1. UNCHANGED op
    BY <1>3 DEF DriverStep, TaskStep, StartInserts, StartEnds, Loads, TakeWave, RunsDry,
         Announce, Insert, Refuse, Occupy, Busy, Replies, Errs, Complete, Evaluate, GoOn, Settle, Leave
  <2>2. QED
    BY <2>1, OpKept
<1>4. ASSUME NEW o \in Callers, NEW pc \in Steps, NEW target \in Drivers \cup {Nobody},
             op' = [op EXCEPT ![o].pc = pc, ![o].target = target]
      PROVE  OpTyped'
  <2> DEFINE r == [op[o] EXCEPT !.pc = pc, !.target = target]
  <2>1. r \in OpRecs
    BY <1>0 DEF OpRecs
  <2>2. op' = [op EXCEPT ![o] = r]
    BY <1>4
  <2>3. QED
    BY <2>1, <2>2, OpSet
<1>5. ASSUME NEW o \in Callers, NEW pc \in Steps, NEW found \in SUBSET (DOMAIN rows),
             op' = [op EXCEPT ![o].pc = pc, ![o].found = found]
      PROVE  OpTyped'
  <2> DEFINE r == [op[o] EXCEPT !.pc = pc, !.found = found]
  <2>1. r \in OpRecs
    BY <1>0 DEF OpRecs
  <2>2. op' = [op EXCEPT ![o] = r]
    BY <1>5
  <2>3. QED
    BY <2>1, <2>2, OpSet
<1>6. ASSUME NEW o \in Callers, NEW pc \in Steps, NEW starts \in Seq(Handles),
             op' = [op EXCEPT ![o].pc = pc, ![o].starts = starts]
      PROVE  OpTyped'
  <2> DEFINE r == [op[o] EXCEPT !.pc = pc, !.starts = starts]
  <2>1. r \in OpRecs
    BY <1>0 DEF OpRecs
  <2>2. op' = [op EXCEPT ![o] = r]
    BY <1>6
  <2>3. QED
    BY <2>1, <2>2, OpSet
<1>h. ASSUME NEW o \in Callers, NEW n \in Handles,
             op' = [op EXCEPT ![o].pc = "reopen", ![o].starts = <<n>>]
      PROVE  OpTyped'
  <2>1. <<n>> \in Seq(Handles)
    OBVIOUS
  <2>2. QED
    BY <1>6, <1>h, <2>1 DEF Steps
<1>7. ASSUME NEW o \in Callers, OpStep(o) PROVE OpTyped'
  <2>1. CASE Create(o) \/ Reopen(o) \/ Spawn(o) \/ Read(o) \/ Write(o) \/ AbortRow(o) \/ AbortRun(o)
    BY <2>1, <1>1, <1>2 DEF Create, Reopen, Spawn, Read, Write, AbortRow, AbortRun, Steps
  <2>2. CASE Status(o) \/ AskBusy(o) \/ Close(o) \/ Answer(o)
    BY <2>2, <1>1, <1>2 DEF Status, AskBusy, Close, Answer, Steps
  <2>3. CASE Look(o)
    BY <2>3, <1>4 DEF Look, EntryTyped, Steps
  <2>4. CASE Cancel(o)
    BY <2>4, <1>4 DEF Cancel, Steps
  <2>5. CASE List(o)
    <3> DEFINE found == {i \in DOMAIN rows : rows[i].status = "running"}
    <3>1. op' = [op EXCEPT ![o].pc = "mark", ![o].found = found]
      BY <2>5 DEF List
    <3>2. found \in SUBSET (DOMAIN rows)
      OBVIOUS
    <3> HIDE DEF found
    <3>3. QED
      BY <3>1, <3>2, <1>5 DEF Steps
  <2>6. CASE Mark(o)
    <3> DEFINE pc == IF op[o].kind = "stop" THEN "read" ELSE "abort_row"
    <3>1. op' = [op EXCEPT ![o].pc = pc, ![o].found = {}]
      BY <2>6 DEF Mark
    <3>2. pc \in Steps
      BY DEF Steps
    <3> HIDE DEF pc
    <3>3. {} \in SUBSET (DOMAIN rows)
      OBVIOUS
    <3>4. QED
      BY <3>1, <3>2, <3>3, <1>5
  <2>7. CASE Again(o)
    <3>1. PICK n \in Retried \cup {run.fail} :
            IF n = "" THEN OpEnds(o) ELSE op' = [op EXCEPT ![o].pc = "reopen", ![o].starts = <<n>>]
      BY <2>7 DEF Again
    <3>2. CASE n = ""
      BY <3>1, <3>2, <1>2
    <3>3. CASE n # ""
      <4>1. n \in Handles
        BY <3>1, <3>3, EngineAssumption DEF RunTyped, Handles
      <4>2. QED
        BY <3>1, <3>3, <4>1, <1>h
    <3>4. QED
      BY <3>2, <3>3
  <2>8. CASE Find(o)
    <3>1. CASE Waiting = 0
      BY <2>8, <3>1, <1>2 DEF Find
    <3>2. CASE Waiting # 0
      <4> DEFINE pc == IF op[o].kind = "abort" THEN "look" ELSE "answer"
                 r  == [op[o] EXCEPT !.row = Waiting, !.pc = pc]
      <4>1. op' = [op EXCEPT ![o] = r]
        BY <2>8, <3>2 DEF Find
      <4>2. pc \in Steps
        BY DEF Steps
      <4> HIDE DEF pc
      <4>3. r \in OpRecs
        BY <1>0, <4>2, LatestIn DEF OpRecs
      <4> HIDE DEF r
      <4>4. QED
        BY <4>1, <4>3, OpSet
    <3>3. QED
      BY <3>1, <3>2
  <2>9. CASE Decide(o)
    <3> DEFINE n    == rows[op[o].row].node
               next == IF op[o].kind = "approve" THEN ApproveNext(n) ELSE RejectNext(n)
    <3>1. n \in Node
      <4>1. op[o].row \in DOMAIN rows
        BY <2>9, <1>0 DEF Decide, On, CallsKnow, Knows, OpRecs
      <4>2. rows[op[o].row] \in Attempts
        BY <4>1, LenProperties, ElementOfSeq
      <4>3. QED
        BY <4>2 DEF Attempts
    <3>2. next \in Handles \cup {""}
      BY <3>1, LeadsIn DEF Handles
    <3>3. CASE next = ""
      <4>1. OpEnds(o)
        BY <2>9, <3>3 DEF Decide
      <4>2. QED
        BY <4>1, <1>2
    <3>4. CASE next # ""
      <4>1. op' = [op EXCEPT ![o].pc = "reopen", ![o].starts = <<next>>]
        BY <2>9, <3>4 DEF Decide
      <4>2. next \in Handles
        BY <3>2, <3>4
      <4> HIDE DEF next
      <4>3. QED
        BY <4>1, <4>2, <1>h
    <3>5. QED
      BY <3>3, <3>4
  <2>10. CASE Plan(o)
    <3> DEFINE latest == [n \in Node |-> Snapshot(n)]
    <3>1. PICK roots \in Roots(latest) :
            op' = [op EXCEPT ![o].pc = IF roots = <<>> THEN "close" ELSE "reopen",
                             ![o].starts = roots, ![o].seed = Reusable(latest)]
      BY <2>10 DEF Plan
    <3> DEFINE pc == IF roots = <<>> THEN "close" ELSE "reopen"
               r  == [op[o] EXCEPT !.pc = pc, !.starts = roots, !.seed = Reusable(latest)]
    <3>2. op' = [op EXCEPT ![o] = r]
      BY <3>1
    <3>3. pc \in Steps
      BY DEF Steps
    <3> HIDE DEF pc, latest
    <3>4. roots \in Seq(Handles) /\ Reusable(latest) \in SUBSET Node
      BY <3>1, PlanIn, SeqOfNodesIsOfHandles
    <3>5. r \in OpRecs
      BY <1>0, <3>3, <3>4 DEF OpRecs
    <3> HIDE DEF r
    <3>6. QED
      BY <3>2, <3>5, OpSet
  <2>11. QED
    BY <1>7, <2>1, <2>2, <2>3, <2>4, <2>5, <2>6, <2>7, <2>8, <2>9, <2>10 DEF OpStep
<1>8. CASE Restart
  <2>1. op' \in [Callers -> OpRecs]
    BY <1>8, <1>n DEF Restart
  <2>2. OpRecs \subseteq OpRecs'
    BY DEF RowsGrow, OpRecs
  <2> HIDE DEF OpRecs
  <2>3. QED
    BY <2>1, <2>2 DEF OpTyped
<1>9. ASSUME NEW o \in Ops, NEW kind \in OpKinds, Call(o, kind) PROVE OpTyped'
  <2> DEFINE r == [op[o] EXCEPT !.kind = kind, !.pc = FirstStep(kind)]
  <2>1. op' = [op EXCEPT ![o] = r] /\ o \in Callers
    BY <1>9 DEF Call, Callers
  <2>2. FirstStep(kind) \in Steps
    BY DEF FirstStep, Steps
  <2>3. kind \in {"none", "start", "stop", "retry", "resume"} \cup Reviews
    BY EngineAssumption DEF Reviews
  <2>4. r \in OpRecs
    BY <1>0, <2>1, <2>2, <2>3 DEF OpRecs
  <2> HIDE DEF r
  <2>5. QED
    BY <2>1, <2>4, OpSet
<1>10. CASE LoopResumes
  <2> DEFINE r == [NewOp EXCEPT !.kind = "resume", !.pc = "status"]
  <2>1. op' = [op EXCEPT ![Loop] = r] /\ Loop \in Callers
    BY <1>10 DEF LoopResumes, Callers
  <2>2. r \in OpRecs
    BY <1>n DEF OpRecs, Steps
  <2> HIDE DEF r
  <2>3. QED
    BY <2>1, <2>2, OpSet
<1>11. CASE WindowEnds \/ UNCHANGED vars
  <2>1. UNCHANGED op
    BY <1>11 DEF WindowEnds, vars
  <2>2. QED
    BY <2>1, OpKept
<1>12. QED
  BY <1>3, <1>7, <1>8, <1>9, <1>10, <1>11 DEF Next

\* Every step keeps the type of the entry.
LEMMA EntryTypedStep == EntryTyped /\ [Next]_vars => EntryTyped'
<1> SUFFICES ASSUME EntryTyped, [Next]_vars PROVE EntryTyped'
  OBVIOUS
<1> USE DEF EntryTyped
<1>1. ASSUME NEW d \in Drivers, DriverStep(d) PROVE EntryTyped'
  BY <1>1 DEF DriverStep, TaskStep, StartInserts, StartEnds, Loads, TakeWave, RunsDry, Announce,
       Insert, Refuse, Occupy, Busy, Replies, Errs, Complete, Evaluate, GoOn, Settle, Leave
<1>2. ASSUME NEW o \in Callers, OpStep(o) PROVE EntryTyped'
  BY <1>2 DEF OpStep, Create, Reopen, Spawn, NewGoroutine, Unused, Look, Cancel, List, Mark, Read,
       Write, AbortRow, AbortRun, Status, Again, Find, Answer, Decide, AskBusy, Plan, Close
<1>3. CASE Restart
  BY <1>3 DEF Restart
<1>4. ASSUME NEW o \in Ops, NEW kind \in OpKinds, Call(o, kind) PROVE EntryTyped'
  BY <1>4 DEF Call
<1>5. CASE LoopResumes \/ WindowEnds \/ UNCHANGED vars
  BY <1>5 DEF LoopResumes, WindowEnds, vars
<1>6. QED
  BY <1>1, <1>2, <1>3, <1>4, <1>5 DEF Next

\* No call comes to a step without what it needs there.
LEMMA KnowsStep ==
  ASSUME OpTyped, CallsKnow, [Next]_vars
  PROVE  CallsKnow'
<1>0. \A o \in Callers : op[o] \in OpRecs
  BY DEF OpTyped
<1>1. ASSUME NEW o \in Callers, NEW r, Knows(r), op' = [op EXCEPT ![o] = r]
      PROVE  \A p \in Callers : Knows(op'[p])
  BY <1>1 DEF OpTyped, CallsKnow
<1>2. ASSUME NEW o \in Callers, OpEnds(o) PROVE \A p \in Callers : Knows(op'[p])
  <2>1. Knows(GoneOp)
    BY DEF Knows, GoneOp, NewOp
  <2>2. QED
    BY <1>1, <1>2, <2>1 DEF OpEnds
<1>3. ASSUME NEW o \in Callers, NEW pc, OpGoes(o, pc),
             pc \notin {"look", "cancel", "list", "mark"},
             pc \in {"answer", "decide", "abort_row", "abort_run"} => op[o].row # 0
      PROVE  \A p \in Callers : Knows(op'[p])
  <2> DEFINE r == [op[o] EXCEPT !.pc = pc]
  <2>1. Knows(r)
    BY <1>0, <1>3 DEF Knows, OpRecs
  <2>2. op' = [op EXCEPT ![o] = r]
    BY <1>3 DEF OpGoes
  <2>3. QED
    BY <1>1, <2>1, <2>2
<1>4. ASSUME NEW d \in Drivers, DriverStep(d) PROVE op' = op
  BY <1>4 DEF DriverStep, TaskStep, StartInserts, StartEnds, Loads, TakeWave, RunsDry,
       Announce, Insert, Refuse, Occupy, Busy, Replies, Errs, Complete, Evaluate, GoOn, Settle, Leave
<1>5. ASSUME NEW o \in Callers, OpStep(o) PROVE \A p \in Callers : Knows(op'[p])
  <2>0. Knows(op[o])
    BY DEF CallsKnow
  <2>1. CASE Create(o) \/ Reopen(o) \/ Spawn(o) \/ Read(o) \/ Write(o) \/ AbortRun(o)
    BY <2>1, <1>2, <1>3 DEF Create, Reopen, Spawn, Read, Write, AbortRun
  <2>2. CASE Status(o) \/ AskBusy(o) \/ Close(o)
    BY <2>2, <1>2, <1>3 DEF Status, AskBusy, Close
  <2>3. CASE AbortRow(o) \/ Answer(o)
    BY <2>0, <2>3, <1>3 DEF AbortRow, Answer, Knows, On
  <2>4. CASE Look(o)
    <3> DEFINE r == [op[o] EXCEPT !.pc = IF entry = Nobody THEN "list" ELSE "cancel", !.target = entry]
    <3>1. op' = [op EXCEPT ![o] = r]
      BY <2>4 DEF Look
    <3>2. Knows(r)
      BY <2>0, <2>4, <1>0 DEF Knows, Look, On, OpRecs
    <3> HIDE DEF r
    <3>3. QED
      BY <3>1, <3>2, <1>1
  <2>5. CASE Cancel(o)
    <3> DEFINE r == [op[o] EXCEPT !.pc = "list", !.target = Nobody]
    <3>1. op' = [op EXCEPT ![o] = r]
      BY <2>5 DEF Cancel
    <3>2. Knows(r)
      BY <2>0, <2>5, <1>0 DEF Knows, Cancel, On, OpRecs
    <3> HIDE DEF r
    <3>3. QED
      BY <3>1, <3>2, <1>1
  <2>6. CASE List(o)
    <3> DEFINE r == [op[o] EXCEPT !.pc = "mark", !.found = {i \in DOMAIN rows : rows[i].status = "running"}]
    <3>1. op' = [op EXCEPT ![o] = r]
      BY <2>6 DEF List
    <3>2. Knows(r)
      BY <2>0, <2>6, <1>0 DEF Knows, List, On, OpRecs
    <3> HIDE DEF r
    <3>3. QED
      BY <3>1, <3>2, <1>1
  <2>7. CASE Mark(o)
    <3> DEFINE r == [op[o] EXCEPT !.pc = IF op[o].kind = "stop" THEN "read" ELSE "abort_row", !.found = {}]
    <3>1. op' = [op EXCEPT ![o] = r]
      BY <2>7 DEF Mark
    <3>2. Knows(r)
      BY <2>0, <2>7, <1>0 DEF Knows, Mark, On, OpRecs
    <3> HIDE DEF r
    <3>3. QED
      BY <3>1, <3>2, <1>1
  <2>8. ASSUME NEW starts, op' = [op EXCEPT ![o].pc = "reopen", ![o].starts = starts]
        PROVE  \A p \in Callers : Knows(op'[p])
    <3> DEFINE r == [op[o] EXCEPT !.pc = "reopen", !.starts = starts]
    <3>1. op' = [op EXCEPT ![o] = r]
      BY <2>8
    <3>2. Knows(r)
      BY <1>0 DEF Knows, OpRecs
    <3> HIDE DEF r
    <3>3. QED
      BY <3>1, <3>2, <1>1
  <2>9. CASE Again(o)
    BY <2>9, <2>8, <1>2 DEF Again
  <2>10. CASE Find(o)
    <3>1. CASE Waiting = 0
      BY <2>10, <3>1, <1>2 DEF Find
    <3>2. CASE Waiting # 0
      <4> DEFINE r == [op[o] EXCEPT !.row = Waiting, !.pc = IF op[o].kind = "abort" THEN "look" ELSE "answer"]
      <4>1. op' = [op EXCEPT ![o] = r]
        BY <2>10, <3>2 DEF Find
      <4>2. Knows(r)
        BY <3>2, <1>0 DEF Knows, OpRecs
      <4> HIDE DEF r
      <4>3. QED
        BY <4>1, <4>2, <1>1
    <3>3. QED
      BY <3>1, <3>2
  <2>11. CASE Decide(o)
    <3>1. OpEnds(o) \/ \E next : op' = [op EXCEPT ![o].pc = "reopen", ![o].starts = <<next>>]
      BY <2>11, Zenon DEF Decide
    <3>2. QED
      BY <3>1, <2>8, <1>2
  <2>12. CASE Plan(o)
    <3>1. PICK roots, seed : op' = [op EXCEPT ![o].pc = IF roots = <<>> THEN "close" ELSE "reopen",
                                               ![o].starts = roots, ![o].seed = seed]
      BY <2>12 DEF Plan
    <3> DEFINE r == [op[o] EXCEPT !.pc = IF roots = <<>> THEN "close" ELSE "reopen",
                                  !.starts = roots, !.seed = seed]
    <3>2. op' = [op EXCEPT ![o] = r]
      BY <3>1
    <3>3. Knows(r)
      BY <1>0 DEF Knows, OpRecs
    <3> HIDE DEF r
    <3>4. QED
      BY <3>2, <3>3, <1>1
  <2>13. QED
    BY <1>5, <2>1, <2>2, <2>3, <2>4, <2>5, <2>6, <2>7, <2>9, <2>10, <2>11, <2>12 DEF OpStep
<1>6. CASE Restart
  BY <1>6 DEF Restart, CallsKnow, Knows, GoneOp, NewOp
<1>7. ASSUME NEW o \in Ops, NEW kind \in OpKinds, Call(o, kind) PROVE \A p \in Callers : Knows(op'[p])
  <2> DEFINE r == [op[o] EXCEPT !.kind = kind, !.pc = FirstStep(kind)]
  <2>1. op' = [op EXCEPT ![o] = r] /\ o \in Callers
    BY <1>7 DEF Call, Callers
  <2>2. Knows(r)
    BY <1>0, <2>1 DEF Knows, FirstStep, OpRecs
  <2> HIDE DEF r
  <2>3. QED
    BY <2>1, <2>2, <1>1
<1>8. CASE LoopResumes
  <2> DEFINE r == [NewOp EXCEPT !.kind = "resume", !.pc = "status"]
  <2>1. op' = [op EXCEPT ![Loop] = r] /\ Loop \in Callers
    BY <1>8 DEF LoopResumes, Callers
  <2>2. Knows(r)
    BY DEF Knows, NewOp
  <2> HIDE DEF r
  <2>3. QED
    BY <2>1, <2>2, <1>1 DEF CallsKnow
<1>9. CASE WindowEnds \/ UNCHANGED vars
  BY <1>9 DEF WindowEnds, vars, CallsKnow
<1>10. QED
  BY <1>4, <1>5, <1>6, <1>7, <1>8, <1>9 DEF Next, CallsKnow

\* When a wave is done no task of its driver is under way.
LEMMA WaveDoneRests ==
  ASSUME Shape, NEW d \in Drivers, WaveDone(d)
  PROVE  \A n \in Node : driver[d].task[n] \notin {"new", "inserted", "asking"}
  BY DEF Shape, TasksInWave, WaveDone

\* No task outlives the wave of its driver.
LEMMA TasksStep == Shape /\ [Next]_vars => TasksInWave'
<1> SUFFICES ASSUME Shape, [Next]_vars PROVE TasksInWave'
  OBVIOUS
<1> USE DEF TasksInWave, At
<1>0. TasksInWave /\ DriverShape
  BY DEF Shape
<1> USE DEF DriverShape
<1>1. ASSUME NEW d \in Drivers, NEW place, Move(d, place),
             At(d, "wave") => \A n \in Node : driver[d].task[n] \notin {"new", "inserted", "asking"}
      PROVE  TasksInWave'
  BY <1>0, <1>1 DEF Move
<1>2. ASSUME NEW d \in Drivers, NEW n \in Node, NEW task, TaskGoes(d, n, task),
             driver[d].task[n] \in {"new", "inserted", "asking"}
      PROVE  TasksInWave'
  BY <1>0, <1>2 DEF TaskGoes
<1>3. ASSUME NEW d \in Drivers, DriverStep(d) PROVE TasksInWave'
  <2>1. CASE StartInserts(d) \/ StartEnds(d) \/ Loads(d) \/ TakeWave(d)
    <3>1. ~At(d, "wave")
      BY <2>1 DEF StartInserts, StartEnds, Loads, TakeWave
    <3>2. /\ driver'[d].task = driver[d].task
          /\ \A e \in Drivers \ {d} : driver'[e] = driver[e]
      <4>1. CASE StartInserts(d)
        BY <4>1, <1>0 DEF StartInserts, Move
      <4>2. CASE StartEnds(d)
        BY <4>2, <1>0 DEF StartEnds, Move
      <4>3. CASE Loads(d)
        <5>1. PICK visited :
                \/ Move(d, "leaving")
                \/ driver' = [driver EXCEPT ![d].place = "queue", ![d].visited = visited]
          BY <4>3, Zenon DEF Loads
        <5>2. QED
          BY <5>1, <1>0 DEF Move
      <4>4. CASE TakeWave(d)
        BY <4>4, <1>0 DEF TakeWave
      <4>5. QED
        BY <2>1, <4>1, <4>2, <4>3, <4>4
    <3>3. QED
      BY <3>1, <3>2, <1>0
  <2>2. CASE RunsDry(d)
    BY <2>2, <1>1 DEF RunsDry
  <2>3. CASE Announce(d)
    BY <2>3, <1>0 DEF Announce
  <2>4. CASE GoOn(d)
    BY <2>4, <1>0 DEF GoOn, NewDriver
  <2>5. CASE Settle(d)
    BY <2>5, <1>1, WaveDoneRests DEF Settle
  <2>6. CASE Leave(d)
    BY <2>6, <1>0 DEF Leave, GoneDriver, NewDriver
  <2>7. ASSUME NEW n \in Node, Insert(d, n) PROVE TasksInWave'
    <3>1. CASE d \in cancelled
      BY <2>7, <3>1, <1>2 DEF Insert, Doing
    <3>2. CASE d \notin cancelled
      <4>1. /\ \A m \in Node \ {n} : driver'[d].task[m] = driver[d].task[m]
            /\ driver'[d].wave = driver[d].wave /\ driver'[d].place = driver[d].place
            /\ \A e \in Drivers \ {d} : driver'[e] = driver[e]
        BY <2>7, <3>2, <1>0 DEF Insert
      <4>2. driver[d].task[n] = "new"
        BY <2>7 DEF Insert, Doing
      <4>3. QED
        BY <4>1, <4>2, <1>0
    <3>3. QED
      BY <3>1, <3>2
  <2>8. ASSUME NEW n \in Node, Refuse(d, n) \/ Occupy(d, n) \/ Busy(d, n) \/ Replies(d, n)
                               \/ Errs(d, n) \/ Complete(d, n) \/ Evaluate(d, n)
        PROVE  TasksInWave'
    <3>1. driver[d].task[n] \in {"new", "inserted", "asking"}
      BY <2>8 DEF Refuse, Occupy, Busy, Replies, Errs, Complete, Evaluate, Doing
    <3>2. PICK task : TaskGoes(d, n, task)
      BY <2>8 DEF Refuse, Occupy, Busy, Replies, Errs, Complete, Evaluate
    <3>3. QED
      BY <3>1, <3>2, <1>2
  <2>9. QED
    BY <1>3, <2>1, <2>2, <2>3, <2>4, <2>5, <2>6, <2>7, <2>8 DEF DriverStep, TaskStep
<1>4. ASSUME NEW o \in Callers, OpStep(o) PROVE TasksInWave'
  <2>1. CASE Spawn(o)
    <3>1. NewGoroutine \in Drivers /\ driver[NewGoroutine].place = "unused"
      BY <2>1 DEF Spawn, NewGoroutine, Unused
    <3>2. QED
      BY <2>1, <3>1, <1>0 DEF Spawn
  <2>2. CASE ~Spawn(o)
    BY <1>4, <2>2, <1>0 DEF OpStep, Create, Reopen, Look, Cancel, List, Mark, Read, Write, AbortRow,
         AbortRun, Status, Again, Find, Answer, Decide, AskBusy, Plan, Close
  <2>3. QED
    BY <2>1, <2>2
<1>5. CASE Restart
  BY <1>0, <1>5 DEF Restart, GoneDriver, NewDriver
<1>6. ASSUME NEW o \in Ops, NEW kind \in OpKinds, Call(o, kind) PROVE TasksInWave'
  BY <1>0, <1>6 DEF Call
<1>7. CASE LoopResumes \/ WindowEnds \/ UNCHANGED vars
  BY <1>0, <1>7 DEF LoopResumes, WindowEnds, vars
<1>8. QED
  BY <1>3, <1>4, <1>5, <1>6, <1>7 DEF Next

\* Only the contexts of goroutines are cancelled.
LEMMA CancelledStep ==
  ASSUME cancelled \subseteq Drivers, OpTyped, CallsKnow, [Next]_vars
  PROVE  cancelled' \subseteq Drivers
<1>1. ASSUME NEW d \in Drivers, DriverStep(d) PROVE cancelled' \subseteq Drivers
  BY <1>1 DEF DriverStep, TaskStep, StartInserts, StartEnds, Loads, TakeWave, RunsDry, Announce,
       Insert, Refuse, Occupy, Busy, Replies, Errs, Complete, Evaluate, GoOn, Settle, Leave
<1>2. ASSUME NEW o \in Callers, OpStep(o) PROVE cancelled' \subseteq Drivers
  <2>1. CASE Cancel(o)
    <3>1. op[o].target \in Drivers
      BY <2>1 DEF Cancel, On, CallsKnow, Knows, OpTyped, OpRecs
    <3>2. QED
      BY <2>1, <3>1 DEF Cancel
  <2>2. CASE ~Cancel(o)
    BY <1>2, <2>2 DEF OpStep, Create, Reopen, Spawn, Look, List, Mark, Read, Write, AbortRow,
         AbortRun, Status, Again, Find, Answer, Decide, AskBusy, Plan, Close
  <2>3. QED
    BY <2>1, <2>2
<1>3. CASE Restart
  BY <1>3 DEF Restart
<1>4. ASSUME NEW o \in Ops, NEW kind \in OpKinds, Call(o, kind) PROVE cancelled' \subseteq Drivers
  BY <1>4 DEF Call
<1>5. CASE LoopResumes \/ WindowEnds \/ UNCHANGED vars
  BY <1>5 DEF LoopResumes, WindowEnds, vars
<1>6. QED
  BY <1>1, <1>2, <1>3, <1>4, <1>5 DEF Next

\* The row that a call answers or aborts is an attempt of a node.
LEMMA AnswersNode ==
  ASSUME rows \in Seq(Attempts), OpTyped, CallsKnow, NEW o \in Callers,
         op[o].pc \in {"decide", "abort_run"}
  PROVE  rows[op[o].row].node \in Node
<1>1. op[o].row \in DOMAIN rows
  BY DEF CallsKnow, Knows, OpTyped, OpRecs
<1>2. rows[op[o].row] \in Attempts
  BY <1>1, LenProperties, ElementOfSeq
<1>3. QED
  BY <1>2 DEF Attempts

\* Every step keeps the type of the run's row: a run fails at a node.
LEMMA RunTypedStep ==
  ASSUME rows \in Seq(Attempts), RunTyped, DriverTyped, OpTyped, CallsKnow, [Next]_vars
  PROVE  RunTyped'
<1>1. ASSUME NEW status \in Statuses, NEW fail \in Node \cup {""}, SetRun(status, fail)
      PROVE  RunTyped'
  BY <1>1 DEF SetRun, RunTyped
<1>2. ASSUME NEW d \in Drivers, NEW status \in Statuses, NEW fail \in Node \cup {""},
             DriverSetsRun(d, status, fail)
      PROVE  RunTyped'
  BY <1>1, <1>2 DEF DriverSetsRun, RunTyped
<1>3. ASSUME NEW d \in Drivers, DriverStep(d) PROVE RunTyped'
  <2>0. driver[d].queue \in Seq(Handles) /\ driver[d].wave \in Seq(Node)
    BY DEF DriverTyped, DriverRecs
  <2>1. CASE RunsDry(d)
    <3>1. CASE Deferred(d) # <<>>
      <4>1. Deferred(d) \in Seq(Node)
        BY <2>0, QueuesIn
      <4>2. Head(Deferred(d)) \in Node
        BY <3>1, <4>1, HeadTailProperties
      <4>3. QED
        BY <2>1, <3>1, <4>2, <1>2 DEF RunsDry, Statuses
    <3>2. CASE Deferred(d) = <<>>
      BY <2>1, <3>2, <1>2 DEF RunsDry, Statuses
    <3>3. QED
      BY <3>1, <3>2
  <2>2. CASE Announce(d)
    BY <2>2, <1>2 DEF Announce, Statuses, Active
  <2>3. CASE Settle(d)
    <3> DEFINE n == driver[d].wave[Settling(d)]
    <3>1. n \in Node
      BY <2>0, <2>3, SettlingIn DEF Settle
    <3>2. CASE driver[d].task[n] = "error"
      BY <2>3, <3>1, <3>2, <1>2 DEF Settle, Statuses
    <3>3. CASE driver[d].task[n] = "waiting"
      BY <2>3, <3>3, <1>2 DEF Settle, Statuses, Active
    <3>4. CASE driver[d].task[n] \notin {"error", "waiting"}
      BY <2>3, <3>4, <1>2 DEF Settle, Statuses
    <3>5. QED
      BY <3>2, <3>3, <3>4
  <2>4. CASE ~(RunsDry(d) \/ Announce(d) \/ Settle(d))
    BY <1>3, <2>4 DEF DriverStep, TaskStep, StartInserts, StartEnds, Loads, TakeWave,
         Insert, Refuse, Occupy, Busy, Replies, Errs, Complete, Evaluate, GoOn, Leave, RunTyped
  <2>5. QED
    BY <2>1, <2>2, <2>3, <2>4
<1>4. ASSUME NEW o \in Callers, OpStep(o) PROVE RunTyped'
  <2>1. CASE Create(o) \/ Reopen(o)
    BY <2>1, <1>1 DEF Create, Reopen, Statuses, Active
  <2>2. CASE Write(o)
    BY <2>2, <1>1 DEF Write, Statuses, RunTyped
  <2>3. CASE AbortRun(o)
    BY <2>3, <1>1, AnswersNode DEF AbortRun, On, Statuses
  <2>4. CASE Decide(o)
    <3> DEFINE n == rows[op[o].row].node
    <3>1. n \in Node
      BY <2>4, AnswersNode DEF Decide, On
    <3>2. UNCHANGED run \/ SetRun("success", "") \/ SetRun("failed", n)
      BY <2>4 DEF Decide
    <3> HIDE DEF n
    <3>3. QED
      BY <3>1, <3>2, <1>1 DEF Statuses, RunTyped
  <2>5. CASE Close(o)
    BY <2>5, <1>1 DEF Close, Statuses
  <2>6. CASE ~(Create(o) \/ Reopen(o) \/ Write(o) \/ AbortRun(o) \/ Decide(o) \/ Close(o))
    BY <1>4, <2>6 DEF OpStep, Spawn, Look, Cancel, List, Mark, Read, AbortRow,
         Status, Again, Find, Answer, AskBusy, Plan, RunTyped
  <2>7. QED
    BY <2>1, <2>2, <2>3, <2>4, <2>5, <2>6
<1>5. CASE Restart
  BY <1>5 DEF Restart, RunTyped, Statuses
<1>6. ASSUME NEW o \in Ops, NEW kind \in OpKinds, Call(o, kind) PROVE RunTyped'
  BY <1>6 DEF Call, RunTyped
<1>7. CASE LoopResumes \/ WindowEnds \/ UNCHANGED vars
  BY <1>7 DEF LoopResumes, WindowEnds, vars, RunTyped, Statuses
<1>8. QED
  BY <1>3, <1>4, <1>5, <1>6, <1>7 DEF Next

\* The inductive invariant: the types, and what calls and tasks know.
Types ==
  /\ RunTyped /\ rows \in Seq(Attempts) /\ EntryTyped /\ cancelled \subseteq Drivers
  /\ DriverTyped /\ OpTyped /\ recovering \in BOOLEAN
  /\ CallsKnow /\ TasksInWave

\* The types say all that the theorems need of the shape.
LEMMA TypesGiveShape == Types => Shape
<1> SUFFICES ASSUME Types PROVE Shape
  OBVIOUS
<1>1. DriverShape
  BY DEF Types, DriverTyped, DriverRecs, DriverShape
<1>2. OpShape
  BY DEF Types, OpTyped, OpRecs, OpShape
<1>3. QED
  BY <1>1, <1>2 DEF Types, Shape

\* The types hold at the start, are kept by every step, hence always.
LEMMA TypesInit == Init => Types
<1> SUFFICES ASSUME Init PROVE Types
  OBVIOUS
<1>1. <<>> \in Seq(Attempts) /\ <<>> \in Seq(Handles) /\ <<>> \in Seq(Node)
  BY EmptySeq
<1>2. RunTyped /\ rows \in Seq(Attempts) /\ EntryTyped /\ cancelled \subseteq Drivers
      /\ recovering \in BOOLEAN
  BY <1>1 DEF Init, RunTyped, Statuses, EntryTyped
<1>3. DriverTyped
  BY <1>1 DEF Init, DriverTyped, DriverRecs, NewDriver, Places, Tasks
<1>4. OpTyped
  BY <1>1 DEF Init, OpTyped, OpRecs, NewOp, Steps
<1>5. CallsKnow /\ TasksInWave
  BY DEF Init, CallsKnow, Knows, NewOp, TasksInWave, NewDriver
<1>6. QED
  BY <1>2, <1>3, <1>4, <1>5 DEF Types

LEMMA TypesStep == Types /\ [Next]_vars => Types'
<1> SUFFICES ASSUME Types, [Next]_vars PROVE Types'
  OBVIOUS
<1>1. Shape /\ RowsGrow
  BY TypesGiveShape, RowsStep
<1>2. RunTyped' /\ EntryTyped' /\ cancelled' \subseteq Drivers /\ DriverTyped' /\ OpTyped'
      /\ CallsKnow' /\ TasksInWave'
  BY <1>1, RunTypedStep, EntryTypedStep, CancelledStep, DriverTypedStep, OpTypedStep, KnowsStep,
     TasksStep DEF Types
<1>3. recovering' \in BOOLEAN
  <2>0. recovering \in BOOLEAN
    BY DEF Types
  <2>1. ASSUME NEW d \in Drivers, DriverStep(d) PROVE recovering' = recovering
    BY <2>1 DEF DriverStep, TaskStep, StartInserts, StartEnds, Loads, TakeWave, RunsDry, Announce,
         Insert, Refuse, Occupy, Busy, Replies, Errs, Complete, Evaluate, GoOn, Settle, Leave
  <2>2. ASSUME NEW o \in Callers, OpStep(o) PROVE recovering' = recovering
    BY <2>2 DEF OpStep, Create, Reopen, Spawn, Look, Cancel, List, Mark, Read, Write, AbortRow,
         AbortRun, Status, Again, Find, Answer, Decide, AskBusy, Plan, Close
  <2>3. ASSUME NEW o \in Ops, NEW kind \in OpKinds, Call(o, kind) PROVE recovering' = recovering
    BY <2>3 DEF Call
  <2>4. CASE LoopResumes \/ WindowEnds \/ Restart \/ UNCHANGED vars
    BY <2>0, <2>4 DEF LoopResumes, WindowEnds, Restart, vars
  <2>5. QED
    BY <2>0, <2>1, <2>2, <2>3, <2>4 DEF Next
<1>4. QED
  BY <1>1, <1>2, <1>3 DEF Types, RowsGrow

LEMMA TypesAlways == Spec => []Types
  BY TypesInit, TypesStep, PTL DEF Spec

\* Every variable has its type, for any graph, any drivers and any calls: what a queue
\* holds is a node or the "<nil>" of a field that is missing, what a call has listed or
\* found is a row, and the run fails at a node, whichever of the calls and drivers that
\* write it comes last.
THEOREM TypeCorrect == Spec => []TypeOK
<1>1. Types => TypeOK
  BY DEF Types, TypeOK, RunTyped, EntryTyped, DriverTyped, DriverRecs, OpTyped, OpRecs
<1>2. QED
  BY <1>1, TypesAlways, PTL

LEMMA ShapeAlways == Spec => []Shape
  BY TypesAlways, TypesGiveShape, PTL

-------------------------------------------------------------------------------
(* The entry of WF.runs.                                                   *)

\* A step of a driver other than its last one keeps it and the others alive.
LEMMA DriverLives ==
  ASSUME Shape, NEW d \in Drivers, DriverStep(d), ~Leave(d)
  PROVE  \A e \in Drivers : Live(e) => Live(e)'
<1> USE DEF Live
<1>0. DriverShape
  BY DEF Shape
<1> USE <1>0 DEF DriverShape
<1>1. ASSUME NEW place \in Places \ {"unused", "done"}, Move(d, place)
      PROVE  \A e \in Drivers : Live(e) => Live(e)'
  BY <1>1 DEF Move
<1>2. ASSUME NEW n, NEW task, TaskGoes(d, n, task)
      PROVE  \A e \in Drivers : Live(e) => Live(e)'
  BY <1>2 DEF TaskGoes
<1>3. CASE StartInserts(d)
  <2>1. CASE d \in cancelled
    BY <1>1, <1>3, <2>1 DEF StartInserts, Places
  <2>2. CASE d \notin cancelled
    <3>1. driver' = [driver EXCEPT ![d].place = "started", ![d].row[StartNode] = Len(rows) + 1]
      BY <1>3, <2>2 DEF StartInserts
    <3>2. QED
      BY <3>1
  <2>3. QED
    BY <2>1, <2>2
<1>4. CASE StartEnds(d)
  BY <1>1, <1>4 DEF StartEnds, Places
<1>5. CASE Loads(d)
  <2>1. PICK visited :
          \/ Move(d, "leaving")
          \/ driver' = [driver EXCEPT ![d].place = "queue", ![d].visited = visited]
    BY <1>5, Zenon DEF Loads
  <2>2. QED
    BY <2>1, <1>1 DEF Places
<1>6. CASE TakeWave(d) \/ Announce(d)
  <2>1. CASE TakeWave(d)
    BY <2>1 DEF TakeWave
  <2>2. CASE Announce(d)
    BY <2>2 DEF Announce
  <2>3. QED
    BY <1>6, <2>1, <2>2
<1>7. CASE GoOn(d)
  BY <1>7 DEF GoOn
<1>8. CASE RunsDry(d) \/ Settle(d)
  BY <1>1, <1>8 DEF RunsDry, Settle, Places
<1>9. ASSUME NEW n \in Node, Insert(d, n) PROVE \A e \in Drivers : Live(e) => Live(e)'
  <2>1. CASE d \in cancelled
    BY <1>2, <1>9, <2>1 DEF Insert
  <2>2. CASE d \notin cancelled
    <3> DEFINE task == IF Kind[n] = "human_review" THEN "waiting" ELSE "inserted"
    <3>1. driver' = [driver EXCEPT ![d].task[n] = task, ![d].row[n] = Len(rows) + 1]
      BY <1>9, <2>2 DEF Insert
    <3> HIDE DEF task
    <3>2. QED
      BY <3>1
  <2>3. QED
    BY <2>1, <2>2
<1>10. ASSUME NEW n \in Node, Refuse(d, n) \/ Occupy(d, n) \/ Busy(d, n) \/ Replies(d, n)
                              \/ Errs(d, n) \/ Complete(d, n) \/ Evaluate(d, n)
       PROVE  \A e \in Drivers : Live(e) => Live(e)'
  BY <1>2, <1>10 DEF Refuse, Occupy, Busy, Replies, Errs, Complete, Evaluate
<1>11. QED
  BY <1>3, <1>4, <1>5, <1>6, <1>7, <1>8, <1>9, <1>10 DEF DriverStep, TaskStep

\* The inductive invariant of the entry.
EntryInv == entry \in Drivers \cup {Nobody} /\ EntryIsLive

LEMMA EntryStep == Shape /\ EntryInv /\ [Next]_vars => EntryInv'
<1> SUFFICES ASSUME Shape, EntryInv, [Next]_vars PROVE EntryInv'
  OBVIOUS
<1> USE DEF EntryInv, EntryIsLive
<1>1. ASSUME NEW d \in Drivers, DriverStep(d) PROVE EntryInv'
  <2>1. CASE Leave(d)
    BY <2>1 DEF Leave
  <2>2. CASE ~Leave(d)
    <3>1. UNCHANGED entry
      BY <1>1, <2>2 DEF DriverStep, TaskStep, StartInserts, StartEnds, Loads, TakeWave, RunsDry,
           Announce, Insert, Refuse, Occupy, Busy, Replies, Errs, Complete, Evaluate, GoOn, Settle
    <3>2. QED
      BY <1>1, <2>2, <3>1, DriverLives
  <2>3. QED
    BY <2>1, <2>2
<1>2. ASSUME NEW o \in Callers, OpStep(o) PROVE EntryInv'
  <2>1. CASE Spawn(o)
    <3>1. NewGoroutine \in Drivers
      BY <2>1 DEF Spawn, NewGoroutine, Unused
    <3>2. entry' = NewGoroutine /\ driver'[NewGoroutine].place \in {"start", "seeded", "load"}
      BY <2>1, <3>1 DEF Spawn, Shape, DriverShape
    <3>3. QED
      BY <3>1, <3>2 DEF Live
  <2>2. CASE ~Spawn(o)
    BY <1>2, <2>2 DEF OpStep, Create, Reopen, Look, Cancel, List, Mark, Read, Write, AbortRow,
         AbortRun, Status, Again, Find, Answer, Decide, AskBusy, Plan, Close, Live
  <2>3. QED
    BY <2>1, <2>2
<1>3. CASE Restart
  BY <1>3 DEF Restart
<1>4. ASSUME NEW o \in Ops, NEW kind \in OpKinds, Call(o, kind) PROVE EntryInv'
  BY <1>4 DEF Call, Live
<1>5. CASE LoopResumes \/ WindowEnds \/ UNCHANGED vars
  BY <1>5 DEF LoopResumes, WindowEnds, vars, Live
<1>6. QED
  BY <1>1, <1>2, <1>3, <1>4, <1>5 DEF Next

\* Whatever drivers and calls do, in any graph and across restarts, the cancel function
\* that is registered is that of a goroutine that has not left: no run is refused as
\* "already active" that nobody drives (workflow_engine.go:69, workflow_recover.go:222).
THEOREM EntriesAreLive == Spec => []EntryIsLive
<1>1. Init => EntryInv
  BY DEF Init, EntryInv, EntryIsLive
<1>2. QED
  BY <1>1, EntryStep, ShapeAlways, PTL DEF Spec, EntryInv
-------------------------------------------------------------------------------
(* The rows that say "running".                                            *)
(*                                                                         *)
(* RowIsWorked is not inductive: the task of a cancelled driver may end    *)
(* without a trace.  What is kept is that a driver that is not cancelled   *)
(* works on the row, or that somebody is going to mark it.                 *)

\* One of the driver's tasks, or its start, is between the row's insertion and its end.
Holds(d, i) == Works(d, i) \/ Starts(d, i)

\* Somebody who is not cancelled works on the row, or somebody is going to mark it.
Covered(i) ==
  \/ \E d \in Drivers : d \notin cancelled /\ Holds(d, i)
  \/ \E o \in Callers : WillMark(o, i)

RowsCovered == \A i \in DOMAIN rows : rows[i].status = "running" => Covered(i)

\* What a write to a row does to the statuses.
LEMMA SetRowEffect ==
  ASSUME rows \in Seq(Attempts), NEW i, NEW status, NEW out, SetRow(i, status, out)
  PROVE  /\ DOMAIN rows' = DOMAIN rows
         /\ \A j \in DOMAIN rows : rows'[j].status = IF j = i THEN status ELSE rows[j].status
<1>1. rows \in [DOMAIN rows -> Attempts]
  BY LenProperties
<1>2. rows' = [rows EXCEPT ![i].status = status, ![i].out = out]
  BY DEF SetRow
<1>3. QED
  BY <1>1, <1>2 DEF Attempts

\* What an insertion does to the rows.
LEMMA AddRowEffect ==
  ASSUME rows \in Seq(Attempts), NEW n \in Node, NEW status \in RowStatuses, AddRow(n, status)
  PROVE  \A j \in DOMAIN rows' :
           \/ j = Len(rows) + 1 /\ rows'[j].status = status
           \/ j \in DOMAIN rows /\ rows'[j] = rows[j]
<1> DEFINE r == [node |-> n, status |-> status, out |-> ""]
<1>1. r \in Attempts
  BY DEF Attempts, Outputs
<1>2. rows' = Append(rows, r) /\ r.status = status
  BY DEF AddRow
<1> HIDE DEF r
<1>3. QED
  BY <1>1, <1>2, AppendProperties, LenProperties

\* A driver's step leaves the other drivers and the calls alone.
LEMMA DriverFrame ==
  ASSUME Shape, NEW d \in Drivers, DriverStep(d)
  PROVE  /\ op' = op
         /\ \A e \in Drivers \ {d} : driver'[e] = driver[e] /\ (e \notin cancelled => e \notin cancelled')
         /\ ~Leave(d) => cancelled' = cancelled
<1>1. DriverShape
  BY DEF Shape
<1>2. op' = op /\ (~Leave(d) => cancelled' = cancelled) /\ cancelled' \subseteq cancelled
  BY DEF DriverStep, TaskStep, StartInserts, StartEnds, Loads, TakeWave, RunsDry,
       Announce, Insert, Refuse, Occupy, Busy, Replies, Errs, Complete, Evaluate, GoOn, Settle, Leave
<1>3. \A e \in Drivers \ {d} : driver'[e] = driver[e]
  <2> USE <1>1 DEF DriverShape, Move, TaskGoes
  <2>1. CASE StartInserts(d) \/ StartEnds(d)
    BY <2>1 DEF StartInserts, StartEnds
  <2>2. CASE Loads(d)
    BY <2>2 DEF Loads
  <2>3. CASE TakeWave(d) \/ RunsDry(d)
    BY <2>3 DEF TakeWave, RunsDry
  <2>4. CASE Announce(d)
    BY <2>4 DEF Announce
  <2>5. CASE GoOn(d) \/ Settle(d) \/ Leave(d)
    BY <2>5 DEF GoOn, Settle, Leave
  <2>6. ASSUME NEW n \in Node, Insert(d, n) PROVE \A e \in Drivers \ {d} : driver'[e] = driver[e]
    BY <2>6 DEF Insert
  <2>7. ASSUME NEW n \in Node, Refuse(d, n) \/ Occupy(d, n) \/ Busy(d, n) \/ Replies(d, n)
                               \/ Errs(d, n) \/ Complete(d, n) \/ Evaluate(d, n)
        PROVE  \A e \in Drivers \ {d} : driver'[e] = driver[e]
    BY <2>7 DEF Refuse, Occupy, Busy, Replies, Errs, Complete, Evaluate
  <2>8. QED
    BY <2>1, <2>2, <2>3, <2>4, <2>5, <2>6, <2>7 DEF DriverStep, TaskStep
<1>4. QED
  BY <1>2, <1>3

\* Before a wave and after it a driver holds no row but that of the start node.
LEMMA OnlyWavesHold ==
  ASSUME Shape, NEW d \in Drivers, NEW i, Holds(d, i)
  PROVE  \/ At(d, "started") /\ driver[d].row[StartNode] = i
         \/ /\ At(d, "wave") /\ ~WaveDone(d)
            /\ \E n \in Node : driver[d].row[n] = i /\ driver[d].task[n] \in {"inserted", "asking"}
  BY WaveDoneRests DEF Holds, Works, Starts, Shape, TasksInWave

\* The task of node n lets go of its row; the driver keeps the others.
LEMMA TaskKeeps ==
  ASSUME Shape, NEW d \in Drivers, NEW n \in Node, NEW task, TaskGoes(d, n, task),
         At(d, "wave"), NEW i, Holds(d, i), driver[d].row[n] # i
  PROVE  Holds(d, i)'
<1>1. DriverShape
  BY DEF Shape
<1>2. PICK m \in Node : driver[d].row[m] = i /\ driver[d].task[m] \in {"inserted", "asking"}
  BY DEF Holds, Works, Starts, At
<1>3. m # n
  BY <1>2
<1>4. driver'[d].row = driver[d].row /\ driver'[d].task[m] = driver[d].task[m]
  BY <1>1, <1>3 DEF TaskGoes, DriverShape
<1>5. QED
  BY <1>2, <1>4 DEF Holds, Works

\* What has to be shown of a driver's step: of each row that says "running" afterwards,
\* that the driver holds it, or that it said so before and that the driver, if it held
\* it then, still does.
Keeps(d, i) ==
  \/ d \notin cancelled' /\ Holds(d, i)'
  \/ /\ i \in DOMAIN rows /\ rows[i].status = "running"
     /\ d \in cancelled \/ ~Holds(d, i)

\* A driver that keeps every running row keeps the invariant.
LEMMA KeepsCovers ==
  ASSUME Shape, RowsCovered, NEW d \in Drivers, DriverStep(d),
         \A i \in DOMAIN rows' : rows'[i].status = "running" => Keeps(d, i)
  PROVE  RowsCovered'
<1> SUFFICES ASSUME NEW i \in DOMAIN rows', rows'[i].status = "running" PROVE Covered(i)'
  BY DEF RowsCovered
<1>1. op' = op /\ \A e \in Drivers \ {d} : driver'[e] = driver[e] /\ (e \notin cancelled => e \notin cancelled')
  BY DriverFrame
<1>2. CASE d \notin cancelled' /\ Holds(d, i)'
  BY <1>2 DEF Covered
<1>3. CASE /\ i \in DOMAIN rows /\ rows[i].status = "running"
           /\ d \in cancelled \/ ~Holds(d, i)
  <2>1. Covered(i)
    BY <1>3 DEF RowsCovered
  <2>2. ASSUME NEW o \in Callers, WillMark(o, i) PROVE Covered(i)'
    BY <1>1, <2>2 DEF Covered, WillMark, On
  <2>3. ASSUME NEW e \in Drivers, e \notin cancelled, Holds(e, i) PROVE Covered(i)'
    <3>1. e # d
      BY <1>3, <2>3
    <3>2. Holds(e, i)'
      BY <1>1, <2>3, <3>1 DEF Holds, Works, Starts, At
    <3>3. QED
      BY <1>1, <2>3, <3>1, <3>2 DEF Covered
  <2>4. QED
    BY <2>1, <2>2, <2>3 DEF Covered
<1>4. QED
  BY <1>2, <1>3 DEF Keeps

\* No driver's step leaves a running row that nobody holds or is going to mark.
LEMMA DriverCovers ==
  ASSUME Shape, RowsCovered, NEW d \in Drivers, DriverStep(d)
  PROVE  RowsCovered'
<1> SUFFICES ASSUME NEW i \in DOMAIN rows', rows'[i].status = "running" PROVE Keeps(d, i)
  BY KeepsCovers
<1>0. rows \in Seq(Attempts) /\ DriverShape /\ DOMAIN rows = 1..Len(rows)
  BY LenProperties DEF Shape
<1>1. ASSUME rows' = rows, d \in cancelled PROVE Keeps(d, i)
  BY <1>1 DEF Keeps
<1>2. CASE StartInserts(d)
  <2>1. CASE d \in cancelled
    BY <1>1, <1>2, <2>1 DEF StartInserts
  <2>2. CASE d \notin cancelled
    <3>1. ~Holds(d, i)
      BY <1>2, OnlyWavesHold DEF StartInserts, At
    <3>2. AddRow(StartNode, "running") /\ cancelled' = cancelled
      BY <1>2, <2>2 DEF StartInserts
    <3>3. \/ i = Len(rows) + 1 /\ rows'[i].status = "running"
          \/ i \in DOMAIN rows /\ rows'[i] = rows[i]
      BY <1>0, <3>2, AddRowEffect, StartIsNode DEF RowStatuses
    <3>4. CASE i = Len(rows) + 1
      <4>1. driver' = [driver EXCEPT ![d].place = "started", ![d].row[StartNode] = i]
        BY <1>2, <2>2, <3>4 DEF StartInserts
      <4>2. driver'[d].place = "started" /\ driver'[d].row[StartNode] = i
        BY <4>1, <1>0, StartIsNode DEF DriverShape
      <4>3. QED
        BY <2>2, <3>2, <4>2 DEF Keeps, Holds, Starts, At
    <3>5. QED
      BY <3>1, <3>3, <3>4 DEF Keeps
  <2>3. QED
    BY <2>1, <2>2
<1>3. CASE StartEnds(d)
  <2>1. CASE d \in cancelled
    BY <1>1, <1>3, <2>1 DEF StartEnds, DriverSetsRow
  <2>2. CASE d \notin cancelled
    <3>1. SetRow(driver[d].row[StartNode], "success", "full")
      BY <1>3, <2>2 DEF StartEnds, DriverSetsRow
    <3>2. i # driver[d].row[StartNode] /\ i \in DOMAIN rows /\ rows[i].status = "running"
      BY <1>0, <3>1, SetRowEffect
    <3>3. ~Holds(d, i)
      BY <1>3, <3>2, OnlyWavesHold DEF StartEnds, At
    <3>4. QED
      BY <3>2, <3>3 DEF Keeps
  <2>3. QED
    BY <2>1, <2>2
<1>4. CASE RestingSteps(d)
  <2>1. rows' = rows
    BY <1>4 DEF RestingSteps, Loads, TakeWave, RunsDry, Announce, GoOn, Settle, Leave
  <2>2. driver[d].place # "started" /\ (At(d, "wave") => WaveDone(d))
    BY <1>4 DEF RestingSteps, Loads, TakeWave, RunsDry, Announce, GoOn, Settle, Leave, At, WaveDone
  <2>3. ~Holds(d, i)
    BY <2>2, OnlyWavesHold DEF At
  <2>4. QED
    BY <2>1, <2>3 DEF Keeps
<1>5. ASSUME NEW n \in Node, Insert(d, n) PROVE Keeps(d, i)
  <2>1. CASE d \in cancelled
    BY <1>1, <1>5, <2>1 DEF Insert
  <2>2. CASE d \notin cancelled
    <3> DEFINE status == CASE Kind[n] = "human_review"         -> "waiting"
                           [] Kind[n] \in {"parallel", "merge"} -> "success"
                           [] OTHER                             -> "running"
               task   == IF Kind[n] = "human_review" THEN "waiting" ELSE "inserted"
    <3>1. AddRow(n, status) /\ status \in RowStatuses
      BY <1>5, <2>2 DEF Insert, RowStatuses
    <3>2. /\ driver' = [driver EXCEPT ![d].task[n] = task, ![d].row[n] = Len(rows) + 1]
          /\ cancelled' = cancelled
      BY <1>5, <2>2 DEF Insert
    <3>3. driver[d].task[n] = "new" /\ At(d, "wave")
      BY <1>5 DEF Insert, Doing
    <3>4. status = "running" => task = "inserted"
      OBVIOUS
    <3> HIDE DEF status, task
    <3>5. \/ i = Len(rows) + 1 /\ status = "running"
          \/ i \in DOMAIN rows /\ rows[i].status = "running"
      BY <1>0, <3>1, AddRowEffect
    <3>6. CASE i = Len(rows) + 1 /\ status = "running"
      <4>1. driver'[d].task[n] = "inserted" /\ driver'[d].row[n] = i
        BY <3>2, <3>4, <3>6, <1>0 DEF DriverShape
      <4>2. QED
        BY <2>2, <3>2, <4>1 DEF Keeps, Holds, Works
    <3>7. CASE i \in DOMAIN rows /\ rows[i].status = "running" /\ Holds(d, i)
      <4>1. PICK m \in Node : driver[d].row[m] = i /\ driver[d].task[m] \in {"inserted", "asking"}
        BY <3>3, <3>7 DEF Holds, Works, Starts, At
      <4>2. m # n
        BY <3>3, <4>1
      <4>3. driver'[d].task[m] = driver[d].task[m] /\ driver'[d].row[m] = driver[d].row[m]
        BY <3>2, <4>2, <1>0 DEF DriverShape
      <4>4. QED
        BY <2>2, <3>2, <4>1, <4>3 DEF Keeps, Holds, Works
    <3>8. QED
      BY <3>5, <3>6, <3>7 DEF Keeps
  <2>3. QED
    BY <2>1, <2>2
<1>6. ASSUME NEW n \in Node, Refuse(d, n) PROVE Keeps(d, i)
  <2>1. rows' = rows /\ cancelled' = cancelled /\ At(d, "wave") /\ driver[d].task[n] = "new"
        /\ TaskGoes(d, n, "error")
    BY <1>6 DEF Refuse, Doing
  <2>2. CASE Holds(d, i) /\ d \notin cancelled
    <3>1. PICK m \in Node : driver[d].row[m] = i /\ driver[d].task[m] \in {"inserted", "asking"}
      BY <2>1, <2>2 DEF Holds, Works, Starts, At
    <3>2. m # n
      BY <2>1, <3>1
    <3>3. driver'[d].task[m] = driver[d].task[m] /\ driver'[d].row[m] = driver[d].row[m]
      BY <2>1, <3>2, <1>0 DEF TaskGoes, DriverShape
    <3>4. QED
      BY <2>1, <2>2, <3>1, <3>3 DEF Keeps, Holds, Works
  <2>3. QED
    BY <2>1, <2>2 DEF Keeps
<1>7. ASSUME NEW n \in Node, Occupy(d, n) PROVE Keeps(d, i)
  <2>1. /\ SetRow(driver[d].row[n], "running", "full") /\ TaskGoes(d, n, "asking")
        /\ At(d, "wave") /\ d \notin cancelled /\ cancelled' = cancelled
    BY <1>7 DEF Occupy, Doing
  <2>2. CASE i = driver[d].row[n]
    <3>1. driver'[d].task[n] = "asking" /\ driver'[d].row[n] = i
      BY <2>1, <2>2, <1>0 DEF TaskGoes, DriverShape
    <3>2. QED
      BY <2>1, <3>1 DEF Keeps, Holds, Works
  <2>3. CASE i # driver[d].row[n]
    BY <1>0, <2>1, <2>3, SetRowEffect, TaskKeeps DEF Keeps
  <2>4. QED
    BY <2>2, <2>3
<1>8. ASSUME NEW n \in Node, NEW task, NEW status, NEW out, status # "running",
             At(d, "wave"), SetRow(driver[d].row[n], status, out), TaskGoes(d, n, task),
             cancelled' = cancelled
      PROVE  Keeps(d, i)
  <2>1. i # driver[d].row[n] /\ i \in DOMAIN rows /\ rows[i].status = "running"
    BY <1>0, <1>8, SetRowEffect
  <2>2. QED
    BY <1>8, <2>1, TaskKeeps DEF Keeps
<1>9. ASSUME NEW n \in Node, NEW task, NEW status, NEW out, status # "running",
             At(d, "wave"), DriverSetsRow(d, driver[d].row[n], status, out), TaskGoes(d, n, task),
             cancelled' = cancelled
      PROVE  Keeps(d, i)
  BY <1>1, <1>8, <1>9 DEF DriverSetsRow
<1>10. ASSUME NEW n \in Node, Errs(d, n) PROVE Keeps(d, i)
  BY <1>8, <1>10 DEF Errs, Doing
<1>11. ASSUME NEW n \in Node, Busy(d, n) \/ Replies(d, n) \/ Complete(d, n) \/ Evaluate(d, n)
       PROVE  Keeps(d, i)
  BY <1>9, <1>11 DEF Busy, Replies, Complete, Evaluate, Doing
<1>12. QED
  BY <1>2, <1>3, <1>4, <1>5, <1>6, <1>7, <1>10, <1>11 DEF DriverStep, TaskStep, RestingSteps

\* A call that was not about to mark rows changes nothing for the others' rows.
LEMMA CallsCover ==
  ASSUME RowsCovered, NEW o \in Callers, op[o].pc \notin {"list", "mark"},
         \A p \in Callers \ {o} : op'[p] = op[p],
         driver' = driver, cancelled' = cancelled,
         \A i \in DOMAIN rows' : rows'[i].status = "running" => i \in DOMAIN rows /\ rows[i].status = "running"
  PROVE  RowsCovered'
<1> SUFFICES ASSUME NEW i \in DOMAIN rows', rows'[i].status = "running" PROVE Covered(i)'
  BY DEF RowsCovered
<1>1. Covered(i)
  BY DEF RowsCovered
<1>2. ASSUME NEW p \in Callers, WillMark(p, i) PROVE Covered(i)'
  BY <1>2 DEF Covered, WillMark, On
<1>3. ASSUME NEW d \in Drivers, d \notin cancelled, Holds(d, i) PROVE Covered(i)'
  BY <1>3 DEF Covered, Holds, Works, Starts, At
<1>4. QED
  BY <1>1, <1>2, <1>3 DEF Covered

\* Nor does a call's step.
LEMMA OpCovers ==
  ASSUME Shape, RowsCovered, NEW o \in Callers, OpStep(o)
  PROVE  RowsCovered'
<1>0. rows \in Seq(Attempts) /\ rows \in [DOMAIN rows -> Attempts] /\ OpShape /\ DriverShape
  BY LenProperties DEF Shape
<1>1. \A p \in Callers \ {o} : op'[p] = op[p]
  <2> USE <1>0 DEF OpShape, OpGoes, OpEnds
  <2>1. CASE Create(o) \/ Reopen(o) \/ Spawn(o) \/ Read(o) \/ Write(o) \/ AbortRow(o) \/ AbortRun(o)
    BY <2>1 DEF Create, Reopen, Spawn, Read, Write, AbortRow, AbortRun
  <2>2. CASE Look(o) \/ Cancel(o) \/ List(o)
    BY <2>2 DEF Look, Cancel, List
  <2>3. CASE Mark(o)
    BY <2>3 DEF Mark
  <2>4. CASE Status(o) \/ Again(o) \/ Find(o) \/ Answer(o)
    BY <2>4 DEF Status, Again, Find, Answer
  <2>5. CASE Decide(o)
    <3>1. OpEnds(o) \/ \E next : op' = [op EXCEPT ![o].pc = "reopen", ![o].starts = <<next>>]
      BY <2>5, Zenon DEF Decide
    <3>2. QED
      BY <3>1
  <2>6. CASE AskBusy(o) \/ Plan(o) \/ Close(o)
    BY <2>6 DEF AskBusy, Plan, Close
  <2>7. QED
    BY <2>1, <2>2, <2>3, <2>4, <2>5, <2>6 DEF OpStep
<1>2. CASE AbortRow(o) \/ Answer(o)
  <2>1. PICK status, out : SetRow(op[o].row, status, out) /\ status # "running"
    BY <1>2 DEF AbortRow, Answer
  <2>2. /\ driver' = driver /\ cancelled' = cancelled
        /\ op[o].pc \notin {"list", "mark"}
    BY <1>2 DEF AbortRow, Answer, On
  <2>3. \A i \in DOMAIN rows' : rows'[i].status = "running" => i \in DOMAIN rows /\ rows[i].status = "running"
    BY <1>0, <2>1, SetRowEffect
  <2>4. QED
    BY <1>1, <2>2, <2>3, CallsCover
<1>3. CASE Spawn(o)
  <2>1. NewGoroutine \in Drivers /\ driver[NewGoroutine].place = "unused"
    BY <1>3 DEF Spawn, NewGoroutine, Unused
  <2>2. rows' = rows /\ cancelled' = cancelled /\ op[o].pc \notin {"list", "mark"}
        /\ \A d \in Drivers \ {NewGoroutine} : driver'[d] = driver[d]
    BY <1>3, <1>0, <2>1 DEF Spawn, On, DriverShape
  <2>3. ASSUME NEW i \in DOMAIN rows, rows[i].status = "running" PROVE Covered(i)'
    <3>1. Covered(i)
      BY <2>3 DEF RowsCovered
    <3>2. ASSUME NEW p \in Callers, WillMark(p, i) PROVE Covered(i)'
      BY <1>1, <2>2, <3>2 DEF Covered, WillMark, On
    <3>3. ASSUME NEW d \in Drivers, d \notin cancelled, Holds(d, i) PROVE Covered(i)'
      <4>1. d # NewGoroutine
        BY <2>1, <3>3, OnlyWavesHold DEF At
      <4>2. QED
        BY <2>2, <3>3, <4>1 DEF Covered, Holds, Works, Starts, At
    <3>4. QED
      BY <3>1, <3>2, <3>3 DEF Covered
  <2>4. QED
    BY <2>2, <2>3 DEF RowsCovered
<1>4. CASE Cancel(o)
  <2>1. op'[o].pc = "list"
    BY <1>4, <1>0 DEF Cancel, OpShape
  <2>2. QED
    BY <2>1 DEF RowsCovered, Covered, WillMark, On
<1>5. CASE List(o)
  <2>1. /\ op'[o].pc = "mark" /\ op'[o].found = {i \in DOMAIN rows : rows[i].status = "running"}
        /\ rows' = rows
    BY <1>5, <1>0 DEF List, OpShape
  <2>2. QED
    BY <2>1 DEF RowsCovered, Covered, WillMark, On
<1>6. CASE Mark(o)
  <2> SUFFICES ASSUME NEW i \in DOMAIN rows', rows'[i].status = "running" PROVE Covered(i)'
    BY DEF RowsCovered
  <2>1. i \in DOMAIN rows /\ rows[i].status = "running" /\ i \notin op[o].found
    BY <1>6, <1>0 DEF Mark, Attempts
  <2>2. On(o, "mark") /\ driver' = driver /\ cancelled' = cancelled
    BY <1>6 DEF Mark
  <2>3. Covered(i)
    BY <2>1 DEF RowsCovered
  <2>4. ASSUME NEW p \in Callers, WillMark(p, i) PROVE Covered(i)'
    <3>1. p # o
      BY <2>1, <2>2, <2>4 DEF WillMark, On
    <3>2. QED
      BY <1>1, <2>4, <3>1 DEF Covered, WillMark, On
  <2>5. ASSUME NEW d \in Drivers, d \notin cancelled, Holds(d, i) PROVE Covered(i)'
    BY <2>2, <2>5 DEF Covered, Holds, Works, Starts, At
  <2>6. QED
    BY <2>3, <2>4, <2>5 DEF Covered
<1>7. CASE ~(AbortRow(o) \/ Answer(o) \/ Spawn(o) \/ Cancel(o) \/ List(o) \/ Mark(o))
  <2>1. rows' = rows /\ driver' = driver /\ cancelled' = cancelled
    BY <1>7 DEF OpStep, Create, Reopen, Look, Read, Write, AbortRun, Status, Again, Find, Decide,
         AskBusy, Plan, Close
  <2>2. op[o].pc \notin {"list", "mark"}
    BY <1>7 DEF OpStep, Create, Reopen, Look, Read, Write, AbortRun, Status, Again, Find, Decide,
         AskBusy, Plan, Close, On
  <2>3. QED
    BY <1>1, <2>1, <2>2, CallsCover
<1>8. QED
  BY <1>2, <1>3, <1>4, <1>5, <1>6, <1>7

LEMMA CoverStep == Shape /\ RowsCovered /\ [Next]_vars => RowsCovered'
<1> SUFFICES ASSUME Shape, RowsCovered, [Next]_vars PROVE RowsCovered'
  OBVIOUS
<1>1. CASE Restart
  <2>1. \A i \in DOMAIN rows' : rows'[i].status # "running"
    BY <1>1, LenProperties DEF Restart, Shape, Active, Attempts
  <2>2. QED
    BY <2>1 DEF RowsCovered
<1>2. ASSUME NEW o \in Ops, NEW kind \in OpKinds, Call(o, kind) PROVE RowsCovered'
  <2>1. /\ op[o].pc \notin {"list", "mark"} /\ o \in Callers
        /\ rows' = rows /\ driver' = driver /\ cancelled' = cancelled
    BY <1>2 DEF Call, On, Callers
  <2>2. \A p \in Callers \ {o} : op'[p] = op[p]
    BY <1>2 DEF Call, Shape, OpShape
  <2>3. QED
    BY <2>1, <2>2, CallsCover
<1>3. CASE LoopResumes
  <2>1. /\ op[Loop].pc \notin {"list", "mark"} /\ Loop \in Callers
        /\ rows' = rows /\ driver' = driver /\ cancelled' = cancelled
    BY <1>3 DEF LoopResumes, LoopRests, Callers
  <2>2. \A p \in Callers \ {Loop} : op'[p] = op[p]
    BY <1>3 DEF LoopResumes, Shape, OpShape
  <2>3. QED
    BY <2>1, <2>2, CallsCover
<1>4. CASE WindowEnds \/ UNCHANGED vars
  <2>1. UNCHANGED <<rows, driver, cancelled, op>>
    BY <1>4 DEF WindowEnds, vars
  <2>2. QED
    BY <2>1 DEF RowsCovered, Covered, Holds, Works, Starts, WillMark, On, At
<1>5. QED
  BY <1>1, <1>2, <1>3, <1>4, DriverCovers, OpCovers DEF Next

\* A row that says "running" has a task at work on it or is going to be marked by a stop,
\* in any graph, for any number of drivers and calls, whatever is cancelled when and
\* wherever the process dies (workflow_engine.go:117-144).
THEOREM RunningRowsAreWorked == Spec => []RowIsWorked
<1>1. Init => RowsCovered
  <2>1. ASSUME Init PROVE rows = <<>>
    BY <2>1 DEF Init
  <2>2. ASSUME rows = <<>> PROVE RowsCovered
    BY <2>2 DEF RowsCovered
  <2>3. QED
    BY <2>1, <2>2
<1>2. RowsCovered => RowIsWorked
  BY DEF RowsCovered, RowIsWorked, Covered, Holds
<1>3. QED
  BY <1>1, <1>2, CoverStep, ShapeAlways, PTL DEF Spec

-------------------------------------------------------------------------------
(* The merges.                                                             *)
(*                                                                         *)
(* MergeHasInputs is not inductive: it has to be known that the inputs of  *)
(* a merge are there from its choice for a wave until its insertion, hence *)
(* that no success is taken back, hence that the attempts that tasks write *)
(* to are still running and belong to one task each.                       *)

\* Nobody stops the run or answers a review.
Interfering == {"stop"} \cup Reviews

QuietSteps == {"new", "create", "status", "again", "busy", "plan", "close", "reopen", "spawn", "done"}

Quiet ==
  /\ cancelled = {}
  /\ \A o \in Callers : op[o].kind \notin Interfering /\ op[o].pc \in QuietSteps

\* The tasks that have inserted their attempt and will write its result.
Filling(d, n) == driver[d].task[n] \in {"inserted", "asking"}

\* A task writes to an attempt of its own node.
FillsOwnRow ==
  /\ \A d \in Drivers, n \in Node : Filling(d, n) =>
       driver[d].row[n] \in DOMAIN rows /\ rows[driver[d].row[n]].node = n
  /\ \A d \in Drivers : At(d, "started") =>
       /\ driver[d].row[StartNode] \in DOMAIN rows
       /\ rows[driver[d].row[StartNode]].node = StartNode

\* Only an employee is asked.
AsksAreAgents == \A d \in Drivers, n \in Node : driver[d].task[n] = "asking" => Kind[n] = "agent"

\* The attempt that an employee or a condition writes to is running.
FillsRunning ==
  \A d \in Drivers, n \in Node :
    Filling(d, n) /\ Kind[n] \in {"agent", "condition"} => rows[driver[d].row[n]].status = "running"

\* Two drivers do not write to one attempt.
FillsApart ==
  \A d, e \in Drivers, n \in Node :
    d # e /\ Filling(d, n) /\ Filling(e, n) => driver[d].row[n] # driver[e].row[n]

\* The node has a successful attempt.
HasSuccess(n) == \E j \in DOMAIN rows : rows[j].node = n /\ rows[j].status = "success"

\* A merge that has been chosen for a wave and has not been inserted.
Chosen(d, m) ==
  \/ At(d, "announce") /\ m \in ToSet(driver[d].wave)
  \/ driver[d].task[m] = "new"

\* What a merge waits for is there from its choice on.
ChosenHasInputs ==
  \A d \in Drivers, m \in Node :
    Chosen(d, m) /\ Kind[m] = "merge" => \A n \in ToSet(Needs(m)) : HasSuccess(n)

\* Without such a call nobody comes to cancel a driver or to write over a row.
LEMMA QuietStep ==
  ASSUME OpKinds \cap Interfering = {}, Types, Quiet, [Next]_vars
  PROVE  Quiet'
<1> USE DEF Quiet, Interfering, QuietSteps
<1>0. \A o \in Callers : op[o] \in OpRecs
  BY DEF Types, OpTyped
<1>1. ASSUME NEW o \in Callers, NEW r, r.kind \notin Interfering, r.pc \in QuietSteps,
             op' = [op EXCEPT ![o] = r]
      PROVE  \A p \in Callers : op'[p].kind \notin Interfering /\ op'[p].pc \in QuietSteps
  BY <1>1 DEF Types, OpTyped
<1>2. ASSUME NEW o \in Callers, OpEnds(o)
      PROVE  \A p \in Callers : op'[p].kind \notin Interfering /\ op'[p].pc \in QuietSteps
  <2>1. GoneOp.kind \notin Interfering /\ GoneOp.pc \in QuietSteps
    BY DEF GoneOp, NewOp, Reviews
  <2>2. QED
    BY <1>1, <1>2, <2>1 DEF OpEnds
<1>3. ASSUME NEW o \in Callers, NEW pc \in QuietSteps, OpGoes(o, pc)
      PROVE  \A p \in Callers : op'[p].kind \notin Interfering /\ op'[p].pc \in QuietSteps
  <2> DEFINE r == [op[o] EXCEPT !.pc = pc]
  <2>1. r.kind \notin Interfering /\ r.pc \in QuietSteps /\ op' = [op EXCEPT ![o] = r]
    BY <1>0, <1>3 DEF OpGoes, OpRecs
  <2> HIDE DEF r
  <2>2. QED
    BY <1>1, <2>1
<1>4. ASSUME NEW d \in Drivers, DriverStep(d) PROVE Quiet'
  BY <1>4 DEF DriverStep, TaskStep, StartInserts, StartEnds, Loads, TakeWave, RunsDry, Announce,
       Insert, Refuse, Occupy, Busy, Replies, Errs, Complete, Evaluate, GoOn, Settle, Leave
<1>5. ASSUME NEW o \in Callers, OpStep(o) PROVE Quiet'
  <2>0. op[o].kind \notin Interfering /\ op[o].pc \in QuietSteps
    OBVIOUS
  <2>1. \/ Create(o) \/ Reopen(o) \/ Spawn(o) \/ Status(o) \/ Again(o) \/ AskBusy(o) \/ Plan(o)
        \/ Close(o)
    BY <1>5, <2>0 DEF OpStep, Look, Cancel, List, Mark, Read, Write, AbortRow, AbortRun, Find,
         Answer, Decide, On
  <2>2. cancelled' = {}
    BY <2>1 DEF Create, Reopen, Spawn, Status, Again, AskBusy, Plan, Close
  <2>3. CASE Create(o) \/ Reopen(o) \/ Spawn(o)
    BY <2>2, <2>3, <1>2, <1>3 DEF Create, Reopen, Spawn
  <2>4. CASE Status(o) \/ AskBusy(o) \/ Close(o)
    BY <2>0, <2>2, <2>4, <1>2, <1>3 DEF Status, AskBusy, Close
  <2>5. CASE Again(o)
    <3>1. PICK n : OpEnds(o) \/ op' = [op EXCEPT ![o].pc = "reopen", ![o].starts = <<n>>]
      BY <2>5 DEF Again
    <3>2. CASE op' = [op EXCEPT ![o].pc = "reopen", ![o].starts = <<n>>]
      <4> DEFINE r == [op[o] EXCEPT !.pc = "reopen", !.starts = <<n>>]
      <4>1. r.kind \notin Interfering /\ r.pc \in QuietSteps /\ op' = [op EXCEPT ![o] = r]
        BY <1>0, <2>0, <3>2 DEF OpRecs
      <4> HIDE DEF r
      <4>2. QED
        BY <1>1, <2>2, <4>1
    <3>3. QED
      BY <2>2, <3>1, <3>2, <1>2
  <2>6. CASE Plan(o)
    <3>1. PICK roots, seed : op' = [op EXCEPT ![o].pc = IF roots = <<>> THEN "close" ELSE "reopen",
                                               ![o].starts = roots, ![o].seed = seed]
      BY <2>6 DEF Plan
    <3> DEFINE r == [op[o] EXCEPT !.pc = IF roots = <<>> THEN "close" ELSE "reopen",
                                  !.starts = roots, !.seed = seed]
    <3>2. r.kind \notin Interfering /\ r.pc \in QuietSteps /\ op' = [op EXCEPT ![o] = r]
      BY <1>0, <2>0, <3>1 DEF OpRecs
    <3> HIDE DEF r
    <3>3. QED
      BY <1>1, <2>2, <3>2
  <2>7. QED
    BY <2>1, <2>3, <2>4, <2>5, <2>6
<1>6. CASE Restart
  BY <1>6 DEF Restart, GoneOp, NewOp, Reviews
<1>7. ASSUME NEW o \in Ops, NEW kind \in OpKinds, Call(o, kind) PROVE Quiet'
  <2> DEFINE r == [op[o] EXCEPT !.kind = kind, !.pc = FirstStep(kind)]
  <2>1. op' = [op EXCEPT ![o] = r] /\ o \in Callers /\ cancelled' = {}
    BY <1>7 DEF Call, Callers
  <2>2. r.kind \notin Interfering /\ r.pc \in QuietSteps
    BY <1>0, <2>1 DEF FirstStep, OpRecs
  <2> HIDE DEF r
  <2>3. QED
    BY <1>1, <2>1, <2>2
<1>8. CASE LoopResumes
  <2> DEFINE r == [NewOp EXCEPT !.kind = "resume", !.pc = "status"]
  <2>1. op' = [op EXCEPT ![Loop] = r] /\ Loop \in Callers /\ cancelled' = {}
    BY <1>8 DEF LoopResumes, Callers
  <2>2. r.kind \notin Interfering /\ r.pc \in QuietSteps
    BY DEF NewOp, Reviews
  <2> HIDE DEF r
  <2>3. QED
    BY <1>1, <2>1, <2>2
<1>9. CASE WindowEnds \/ UNCHANGED vars
  BY <1>9 DEF WindowEnds, vars
<1>10. QED
  BY <1>4, <1>5, <1>6, <1>7, <1>8, <1>9 DEF Next

\* No attempt is taken away, given to another node, or loses its success.
SuccessKept ==
  \A j \in DOMAIN rows :
    /\ j \in DOMAIN rows' /\ rows'[j].node = rows[j].node
    /\ rows[j].status = "success" => rows'[j].status = "success"

\* A write that takes no success back keeps them all.
LEMMA SetRowKeeps ==
  ASSUME rows \in Seq(Attempts), NEW i, NEW status, NEW out, SetRow(i, status, out),
         status # "success" => i \in DOMAIN rows /\ rows[i].status # "success"
  PROVE  SuccessKept /\ DOMAIN rows' = DOMAIN rows
<1>1. rows \in [DOMAIN rows -> Attempts]
  BY LenProperties
<1>2. rows' = [rows EXCEPT ![i].status = status, ![i].out = out]
  BY DEF SetRow
<1>3. DOMAIN rows' = DOMAIN rows
  BY <1>2
<1>4. \A j \in DOMAIN rows : rows'[j].node = rows[j].node
                             /\ rows'[j].status = IF j = i THEN status ELSE rows[j].status
  BY <1>1, <1>2 DEF Attempts
<1>5. QED
  BY <1>3, <1>4 DEF SuccessKept

\* An insertion keeps them all, and where it inserts.
LEMMA AddRowKeeps ==
  ASSUME rows \in Seq(Attempts), NEW n \in Node, NEW status \in RowStatuses, AddRow(n, status)
  PROVE  /\ SuccessKept
         /\ Len(rows) \in Nat /\ DOMAIN rows = 1..Len(rows) /\ DOMAIN rows' = 1..(Len(rows) + 1)
         /\ rows'[Len(rows) + 1].node = n /\ rows'[Len(rows) + 1].status = status
         /\ \A j \in DOMAIN rows : rows'[j] = rows[j]
<1> DEFINE r == [node |-> n, status |-> status, out |-> ""]
<1>1. r \in Attempts /\ r.node = n /\ r.status = status
  BY DEF Attempts, Outputs
<1>2. rows' = Append(rows, r)
  BY DEF AddRow
<1> HIDE DEF r
<1>3. /\ Len(rows) \in Nat /\ DOMAIN rows = 1..Len(rows) /\ DOMAIN rows' = 1..(Len(rows) + 1)
      /\ rows'[Len(rows) + 1] = r /\ \A j \in 1..Len(rows) : rows'[j] = rows[j]
  BY <1>1, <1>2, AppendProperties, LenProperties
<1>4. QED
  BY <1>1, <1>3 DEF SuccessKept

\* What has to be shown of a step that inserts no attempt.
FillingKept ==
  /\ \A e \in Drivers, n \in Node : Filling(e, n)' =>
       /\ Filling(e, n) /\ driver'[e].row[n] = driver[e].row[n]
       /\ Kind[n] \in {"agent", "condition"} => rows'[driver[e].row[n]].status = "running"
  /\ \A e \in Drivers : At(e, "started")' =>
       At(e, "started") /\ driver'[e].row[StartNode] = driver[e].row[StartNode]

ChosenKept == \A e \in Drivers, m \in Node : Chosen(e, m)' => Chosen(e, m)

\* What is kept of the tasks, and the inductive invariant.
Fills == FillsOwnRow /\ FillsRunning /\ FillsApart

MergeInv == Quiet /\ AsksAreAgents /\ Fills /\ ChosenHasInputs /\ MergeHasInputs

\* A step that inserts nothing and takes no success back keeps each part.
LEMMA KeepsFills == SuccessKept /\ FillingKept /\ Fills => Fills'
<1> SUFFICES ASSUME SuccessKept, FillingKept, Fills PROVE Fills'
  OBVIOUS
<1>1. FillsOwnRow'
  BY DEF SuccessKept, FillingKept, Fills, FillsOwnRow
<1>2. FillsRunning'
  BY DEF FillingKept, FillsRunning
<1>3. FillsApart'
  BY DEF FillingKept, Fills, FillsApart
<1>4. QED
  BY <1>1, <1>2, <1>3 DEF Fills

LEMMA KeepsChosen == SuccessKept /\ ChosenKept /\ ChosenHasInputs => ChosenHasInputs'
<1> SUFFICES ASSUME SuccessKept, ChosenKept, ChosenHasInputs,
                    NEW d \in Drivers, NEW m \in Node, Chosen(d, m)', Kind[m] = "merge",
                    NEW n \in ToSet(Needs(m))
             PROVE  HasSuccess(n)'
  BY DEF ChosenHasInputs
<1>1. HasSuccess(n)
  BY DEF ChosenKept, ChosenHasInputs
<1>2. QED
  BY <1>1 DEF HasSuccess, SuccessKept

LEMMA KeepsMerges == SuccessKept /\ DOMAIN rows' = DOMAIN rows /\ rows \in Seq(Attempts) /\ MergeHasInputs
                     => MergeHasInputs'
<1> SUFFICES ASSUME SuccessKept, DOMAIN rows' = DOMAIN rows, rows \in Seq(Attempts), MergeHasInputs,
                    NEW i \in DOMAIN rows', NEW m, m = rows'[i].node, Kind[m] = "merge",
                    NEW n \in ToSet(Needs(m))
             PROVE  \E j \in 1..(i - 1) : rows'[j].node = n /\ rows'[j].status = "success"
  BY DEF MergeHasInputs
<1>1. i \in DOMAIN rows /\ rows[i].node = m
  BY DEF SuccessKept
<1>2. PICK j \in 1..(i - 1) : rows[j].node = n /\ rows[j].status = "success"
  BY <1>1, Zenon DEF MergeHasInputs
<1>3. j \in DOMAIN rows
  BY <1>1, LenProperties
<1>4. QED
  BY <1>2, <1>3 DEF SuccessKept

LEMMA KeepsAll ==
  ASSUME rows \in Seq(Attempts), Fills, ChosenHasInputs, MergeHasInputs,
         SuccessKept, DOMAIN rows' = DOMAIN rows, FillingKept, ChosenKept
  PROVE  Fills' /\ ChosenHasInputs' /\ MergeHasInputs'
  BY KeepsFills, KeepsChosen, KeepsMerges

\* What a task does that is not its insertion.
LEMMA TaskGoesOn ==
  ASSUME Types, NEW d \in Drivers, NEW n \in Node, NEW task, TaskGoes(d, n, task)
  PROVE  /\ driver'[d].task[n] = task
         /\ \A e \in Drivers : /\ driver'[e].place = driver[e].place /\ driver'[e].row = driver[e].row
                               /\ driver'[e].wave = driver[e].wave
         /\ \A e \in Drivers, m \in Node : e # d \/ m # n => driver'[e].task[m] = driver[e].task[m]
<1>1. DriverTyped
  BY DEF Types
<1>2. driver' = [driver EXCEPT ![d].task[n] = task]
  BY DEF TaskGoes
<1>3. QED
  BY <1>1, <1>2 DEF DriverTyped, DriverRecs

\* A task that writes its result leaves what the others write to alone.
LEMMA TaskWrites ==
  ASSUME Types, Fills, ChosenHasInputs, MergeHasInputs,
         NEW d \in Drivers, NEW n \in Node, Filling(d, n),
         NEW status, NEW out, SetRow(driver[d].row[n], status, out),
         NEW task, TaskGoes(d, n, task), task # "new",
         \/ status = "success" /\ task \notin {"inserted", "asking"}
         \/ Kind[n] \in {"agent", "condition"} /\ (task \in {"inserted", "asking"} => status = "running")
  PROVE  Fills' /\ ChosenHasInputs' /\ MergeHasInputs'
<1> DEFINE i == driver[d].row[n]
<1>0. rows \in Seq(Attempts) /\ DriverTyped
  BY DEF Types
<1>1. i \in DOMAIN rows /\ rows[i].node = n
  BY DEF Fills, FillsOwnRow
<1>2. status # "success" => rows[i].status = "running"
  BY DEF Fills, FillsRunning
<1> HIDE DEF i
<1>3. SuccessKept /\ DOMAIN rows' = DOMAIN rows
  BY <1>0, <1>1, <1>2, SetRowKeeps DEF i
<1>4. \A j \in DOMAIN rows : rows'[j].status = IF j = i THEN status ELSE rows[j].status
  BY <1>0, SetRowEffect DEF i
<1>5. /\ driver'[d].task[n] = task
      /\ \A e \in Drivers : /\ driver'[e].place = driver[e].place /\ driver'[e].row = driver[e].row
                            /\ driver'[e].wave = driver[e].wave
      /\ \A e \in Drivers, m \in Node : e # d \/ m # n => driver'[e].task[m] = driver[e].task[m]
  BY TaskGoesOn
<1>6. FillingKept
  <2>1. ASSUME NEW e \in Drivers, NEW m \in Node, Filling(e, m)'
        PROVE  /\ Filling(e, m) /\ driver'[e].row[m] = driver[e].row[m]
               /\ Kind[m] \in {"agent", "condition"} => rows'[driver[e].row[m]].status = "running"
    <3>1. CASE e = d /\ m = n
      <4>1. task \in {"inserted", "asking"}
        BY <2>1, <3>1, <1>5 DEF Filling
      <4>2. status = "running"
        BY <4>1
      <4>3. QED
        BY <3>1, <4>2, <1>1, <1>4, <1>5 DEF i
    <3>2. CASE e # d \/ m # n
      <4>1. Filling(e, m)
        BY <2>1, <3>2, <1>5 DEF Filling
      <4>2. driver[e].row[m] \in DOMAIN rows /\ rows[driver[e].row[m]].node = m
        BY <4>1 DEF Fills, FillsOwnRow
      <4>3. driver[e].row[m] # i
        BY <1>1, <3>2, <4>1, <4>2 DEF i, Fills, FillsApart
      <4>4. Kind[m] \in {"agent", "condition"} => rows[driver[e].row[m]].status = "running"
        BY <4>1 DEF Fills, FillsRunning
      <4>5. QED
        BY <1>4, <1>5, <4>1, <4>2, <4>3, <4>4
    <3>3. QED
      BY <3>1, <3>2
  <2>2. \A e \in Drivers : At(e, "started")' =>
          At(e, "started") /\ driver'[e].row[StartNode] = driver[e].row[StartNode]
    BY <1>5 DEF At
  <2>3. QED
    BY <2>1, <2>2 DEF FillingKept
<1>7. ChosenKept
  BY <1>5 DEF ChosenKept, Chosen, At
<1>8. QED
  BY <1>0, <1>3, <1>6, <1>7, KeepsAll

\* A step that touches no row and after which the driver is at nothing new.
LEMMA DriverRests ==
  ASSUME Types, Fills, ChosenHasInputs, MergeHasInputs, rows' = rows,
         NEW d \in Drivers, \A e \in Drivers \ {d} : driver'[e] = driver[e],
         driver'[d].place # "started",
         \A n \in Node : driver'[d].task[n] \in {"inserted", "asking"} =>
           driver'[d].task[n] = driver[d].task[n] /\ driver'[d].row[n] = driver[d].row[n],
         \A m \in Node : Chosen(d, m)' => Chosen(d, m)
  PROVE  Fills' /\ ChosenHasInputs' /\ MergeHasInputs'
<1>1. SuccessKept /\ DOMAIN rows' = DOMAIN rows /\ rows \in Seq(Attempts)
  BY DEF SuccessKept, Types
<1>2. FillingKept
  <2>1. ASSUME NEW e \in Drivers, NEW m \in Node, Filling(e, m)'
        PROVE  /\ Filling(e, m) /\ driver'[e].row[m] = driver[e].row[m]
               /\ Kind[m] \in {"agent", "condition"} => rows'[driver[e].row[m]].status = "running"
    <3>1. Filling(e, m) /\ driver'[e].row[m] = driver[e].row[m]
      BY <2>1 DEF Filling
    <3>2. QED
      BY <3>1 DEF Fills, FillsRunning
  <2>2. QED
    BY <2>1 DEF FillingKept, At
<1>3. ChosenKept
  BY DEF ChosenKept, Chosen, At
<1>4. QED
  BY <1>1, <1>2, <1>3, KeepsAll

\* A driver's steps between waves keep the invariant.
LEMMA RestingMerges ==
  ASSUME Types, Fills, ChosenHasInputs, MergeHasInputs, NEW d \in Drivers, RestingSteps(d)
  PROVE  Fills' /\ ChosenHasInputs' /\ MergeHasInputs'
<1>0. DriverTyped /\ Shape /\ DriverStep(d)
  BY TypesGiveShape DEF Types, RestingSteps, DriverStep
<1>1. rows' = rows /\ \A e \in Drivers \ {d} : driver'[e] = driver[e]
  BY <1>0, DriverFrame DEF RestingSteps, Loads, TakeWave, RunsDry, Announce, GoOn, Settle, Leave
<1>2. CASE Loads(d) \/ RunsDry(d) \/ Settle(d)
  <2>1. /\ driver'[d].task = driver[d].task /\ driver'[d].row = driver[d].row
        /\ driver'[d].place \in {"queue", "leaving"}
    <3>1. CASE Loads(d)
      <4>1. PICK visited :
              \/ Move(d, "leaving")
              \/ driver' = [driver EXCEPT ![d].place = "queue", ![d].visited = visited]
        BY <3>1, Zenon DEF Loads
      <4>2. QED
        BY <4>1, <1>0 DEF Move, DriverTyped, DriverRecs
    <3>2. CASE RunsDry(d) \/ Settle(d)
      <4>1. Move(d, "leaving")
        BY <3>2 DEF RunsDry, Settle
      <4>2. QED
        BY <4>1, <1>0 DEF Move, DriverTyped, DriverRecs
    <3>3. QED
      BY <1>2, <3>1, <3>2
  <2>2. \A m \in Node : Chosen(d, m)' => Chosen(d, m)
    BY <2>1 DEF Chosen, At
  <2>3. QED
    BY <1>1, <2>1, <2>2, DriverRests
<1>3. CASE GoOn(d) \/ Leave(d)
  <2>1. /\ \A n \in Node : driver'[d].task[n] = "idle"
        /\ driver'[d].place \in {"queue", "done"}
    <3>1. CASE GoOn(d)
      BY <3>1, <1>0 DEF GoOn, NewDriver, DriverTyped, DriverRecs
    <3>2. CASE Leave(d)
      BY <3>2, <1>0 DEF Leave, GoneDriver, NewDriver, DriverTyped, DriverRecs
    <3>3. QED
      BY <1>3, <3>1, <3>2
  <2>2. \A m \in Node : ~Chosen(d, m)'
    BY <2>1 DEF Chosen, At
  <2>3. QED
    BY <1>1, <2>1, <2>2, DriverRests
<1>4. CASE Announce(d)
  <2>1. /\ \A n \in Node : driver'[d].task[n] = IF n \in ToSet(driver[d].wave) THEN "new" ELSE "idle"
        /\ driver'[d].place = "wave"
    BY <1>4, <1>0 DEF Announce, DriverTyped, DriverRecs
  <2>a. At(d, "announce")
    BY <1>4 DEF Announce
  <2>b. \A m \in Node : driver'[d].task[m] = "new" => m \in ToSet(driver[d].wave)
    BY <2>1
  <2>2. \A m \in Node : Chosen(d, m)' => Chosen(d, m)
    BY <2>1, <2>a, <2>b DEF Chosen, At
  <2>3. \A n \in Node : driver'[d].task[n] \notin {"inserted", "asking"}
    BY <2>1
  <2>4. QED
    BY <1>1, <2>1, <2>2, <2>3, DriverRests
<1>5. CASE TakeWave(d)
  <2>1. /\ driver'[d].task = driver[d].task /\ driver'[d].row = driver[d].row
        /\ driver'[d].place = "announce" /\ driver'[d].wave = Ready(d)
    BY <1>5, <1>0 DEF TakeWave, DriverTyped, DriverRecs
  <2>2. SuccessKept /\ rows \in Seq(Attempts)
    BY <1>1 DEF SuccessKept, Types
  <2>3. FillingKept
    <3>1. ASSUME NEW e \in Drivers, NEW m \in Node, Filling(e, m)'
          PROVE  /\ Filling(e, m) /\ driver'[e].row[m] = driver[e].row[m]
                 /\ Kind[m] \in {"agent", "condition"} => rows'[driver[e].row[m]].status = "running"
      <4>1. Filling(e, m) /\ driver'[e].row[m] = driver[e].row[m]
        BY <1>1, <2>1, <3>1 DEF Filling
      <4>2. QED
        BY <1>1, <4>1 DEF Fills, FillsRunning
    <3>2. QED
      BY <1>1, <2>1, <3>1 DEF FillingKept, At
  <2>4. ChosenHasInputs'
    <3> SUFFICES ASSUME NEW e \in Drivers, NEW m \in Node, Chosen(e, m)', Kind[m] = "merge",
                        NEW n \in ToSet(Needs(m))
                 PROVE  HasSuccess(n)
      BY <1>1 DEF ChosenHasInputs, HasSuccess
    <3>1. CASE e = d
      <4>1. driver[d].task[m] # "new"
        BY <1>5, TypesGiveShape DEF TakeWave, At, Shape, TasksInWave
      <4>2. m \in ToSet(Ready(d))
        BY <2>1, <3>1, <4>1 DEF Chosen
      <4>3. IsReady(m)
        <5>1. driver[d].queue \in Seq(Handles)
          BY <1>0 DEF DriverTyped, DriverRecs
        <5>2. PICK k \in DOMAIN Ready(d) : Ready(d)[k] = m
          BY <4>2 DEF ToSet
        <5>3. QED
          BY <5>1, <5>2, QueuesIn
      <4>4. Snapshot(n).status = "success"
        BY <4>3 DEF IsReady, MergeReady, Succeeded
      <4>5. Latest(n) # 0 /\ rows[Latest(n)].status = "success"
        BY <4>4 DEF Snapshot
      <4>6. QED
        BY <2>2, <4>5, LatestIn DEF HasSuccess
    <3>2. CASE e # d
      <4>1. Chosen(e, m)
        BY <1>1, <3>2 DEF Chosen, At
      <4>2. QED
        BY <4>1 DEF ChosenHasInputs
    <3>3. QED
      BY <3>1, <3>2
  <2>5. QED
    BY <1>1, <2>2, <2>3, <2>4, KeepsFills, KeepsMerges
<1>6. QED
  BY <1>2, <1>3, <1>4, <1>5 DEF RestingSteps

\* The insertion of an attempt: it is a driver's own, it is running where that matters, and
\* it comes after the successes a merge needs.
LEMMA Inserts ==
  ASSUME Types, Fills, ChosenHasInputs, MergeHasInputs,
         NEW d \in Drivers, \A e \in Drivers \ {d} : driver'[e] = driver[e],
         NEW n \in Node, NEW status \in RowStatuses, AddRow(n, status),
         Kind[n] \in {"agent", "condition"} => status = "running",
         Kind[n] = "merge" => Chosen(d, n),
         driver'[d].row[n] = Len(rows) + 1,
         \A m \in Node \ {n} : /\ driver'[d].row[m] = driver[d].row[m]
                               /\ driver'[d].task[m] = driver[d].task[m],
         driver'[d].task[n] # "new",
         At(d, "started")' => n = StartNode,
         At(d, "announce")' => At(d, "announce"),
         driver'[d].wave = driver[d].wave
  PROVE  Fills' /\ ChosenHasInputs' /\ MergeHasInputs'
<1>0. rows \in Seq(Attempts)
  BY DEF Types
<1>1. /\ SuccessKept
      /\ Len(rows) \in Nat /\ DOMAIN rows = 1..Len(rows) /\ DOMAIN rows' = 1..(Len(rows) + 1)
      /\ rows'[Len(rows) + 1].node = n /\ rows'[Len(rows) + 1].status = status
      /\ \A j \in DOMAIN rows : rows'[j] = rows[j]
  BY <1>0, AddRowKeeps
<1>2. Len(rows) + 1 \in DOMAIN rows' /\ Len(rows) + 1 \notin DOMAIN rows
  BY <1>1
<1>3. ASSUME NEW e \in Drivers, NEW m \in Node, Filling(e, m)', e # d \/ m # n
      PROVE  /\ Filling(e, m) /\ driver'[e].row[m] = driver[e].row[m]
             /\ driver[e].row[m] \in DOMAIN rows /\ rows[driver[e].row[m]].node = m
  <2>1. Filling(e, m) /\ driver'[e].row[m] = driver[e].row[m]
    BY <1>3 DEF Filling
  <2>2. QED
    BY <2>1 DEF Fills, FillsOwnRow
<1>4. FillsOwnRow'
  <2>1. ASSUME NEW e \in Drivers, NEW m \in Node, Filling(e, m)'
        PROVE  driver'[e].row[m] \in DOMAIN rows' /\ rows'[driver'[e].row[m]].node = m
    <3>1. CASE e = d /\ m = n
      BY <1>1, <1>2, <3>1
    <3>2. CASE e # d \/ m # n
      BY <1>1, <1>3, <2>1, <3>2 DEF SuccessKept
    <3>3. QED
      BY <3>1, <3>2
  <2>2. ASSUME NEW e \in Drivers, At(e, "started")'
        PROVE  /\ driver'[e].row[StartNode] \in DOMAIN rows'
               /\ rows'[driver'[e].row[StartNode]].node = StartNode
    <3>1. CASE e = d
      BY <1>1, <1>2, <2>2, <3>1
    <3>2. CASE e # d
      <4>1. At(e, "started") /\ driver'[e] = driver[e]
        BY <2>2, <3>2 DEF At
      <4>2. QED
        BY <1>1, <4>1 DEF Fills, FillsOwnRow, SuccessKept
    <3>3. QED
      BY <3>1, <3>2
  <2>3. QED
    BY <2>1, <2>2 DEF FillsOwnRow
<1>5. FillsRunning'
  <2> SUFFICES ASSUME NEW e \in Drivers, NEW m \in Node, Filling(e, m)', Kind[m] \in {"agent", "condition"}
               PROVE  rows'[driver'[e].row[m]].status = "running"
    BY DEF FillsRunning
  <2>1. CASE e = d /\ m = n
    BY <1>1, <2>1
  <2>2. CASE e # d \/ m # n
    BY <1>1, <1>3, <2>2 DEF Fills, FillsRunning
  <2>3. QED
    BY <2>1, <2>2
<1>6. FillsApart'
  <2> SUFFICES ASSUME NEW e \in Drivers, NEW f \in Drivers, NEW m \in Node, e # f,
                      Filling(e, m)', Filling(f, m)'
               PROVE  driver'[e].row[m] # driver'[f].row[m]
    BY DEF FillsApart
  <2>1. CASE m = n /\ e = d
    BY <1>2, <1>3, <2>1
  <2>2. CASE m = n /\ f = d
    BY <1>2, <1>3, <2>2
  <2>3. CASE m # n \/ (e # d /\ f # d)
    BY <1>3, <2>3 DEF Fills, FillsApart
  <2>4. QED
    BY <2>1, <2>2, <2>3
<1>7. ChosenHasInputs'
  <2>1. ChosenKept
    BY DEF ChosenKept, Chosen, At
  <2>2. QED
    BY <1>1, <2>1, KeepsChosen
<1>8. MergeHasInputs'
  <2> SUFFICES ASSUME NEW i \in DOMAIN rows', NEW m, m = rows'[i].node, Kind[m] = "merge",
                      NEW x \in ToSet(Needs(m))
               PROVE  \E j \in 1..(i - 1) : rows'[j].node = x /\ rows'[j].status = "success"
    BY DEF MergeHasInputs
  <2>1. CASE i \in DOMAIN rows
    <3>1. rows[i].node = m
      BY <1>1, <2>1
    <3>o. Kind[rows[i].node] = "merge" /\ x \in ToSet(Needs(rows[i].node))
      BY <3>1
    <3>2. PICK j \in 1..(i - 1) : rows[j].node = x /\ rows[j].status = "success"
      BY <2>1, <3>o DEF MergeHasInputs
    <3>3. j \in DOMAIN rows
      BY <1>1, <2>1
    <3>4. QED
      BY <1>1, <3>2, <3>3
  <2>2. CASE i = Len(rows) + 1
    <3>1. m = n
      BY <1>1, <2>2
    <3>2. HasSuccess(x)
      BY <3>1 DEF ChosenHasInputs
    <3>3. PICK j \in DOMAIN rows : rows[j].node = x /\ rows[j].status = "success"
      BY <3>2 DEF HasSuccess
    <3>4. j \in 1..(i - 1)
      BY <1>1, <2>2
    <3>5. QED
      BY <1>1, <3>3, <3>4
  <2>3. QED
    BY <1>1, <2>1, <2>2
<1>9. QED
  BY <1>4, <1>5, <1>6, <1>7, <1>8 DEF Fills

\* Every step keeps it that only employees are asked.
LEMMA AsksStep == Types /\ AsksAreAgents /\ [Next]_vars => AsksAreAgents'
<1> SUFFICES ASSUME Types, AsksAreAgents, [Next]_vars PROVE AsksAreAgents'
  OBVIOUS
<1> USE DEF AsksAreAgents
<1>0. DriverTyped /\ Shape /\ TasksInWave'
  BY TypesGiveShape, TypesStep DEF Types
<1>1. ASSUME NEW d \in Drivers, DriverStep(d) PROVE AsksAreAgents'
  <2>0. \A e \in Drivers \ {d} : driver'[e] = driver[e]
    BY <1>0, <1>1, DriverFrame
  <2>1. ASSUME \A n \in Node : driver'[d].task[n] = "asking" => driver[d].task[n] = "asking" \/ Kind[n] = "agent"
        PROVE  AsksAreAgents'
    BY <2>0, <2>1
  <2>2. CASE StartInserts(d) \/ StartEnds(d) \/ (RestingSteps(d) /\ ~Announce(d))
    <3>1. driver'[d].place # "wave"
      <4>1. CASE StartInserts(d) \/ StartEnds(d)
        BY <1>0, <4>1 DEF StartInserts, StartEnds, Move, DriverTyped, DriverRecs
      <4>2. CASE Loads(d)
        <5>1. PICK visited :
                \/ Move(d, "leaving")
                \/ driver' = [driver EXCEPT ![d].place = "queue", ![d].visited = visited]
          BY <4>2, Zenon DEF Loads
        <5>2. QED
          BY <5>1, <1>0 DEF Move, DriverTyped, DriverRecs
      <4>3. CASE TakeWave(d)
        BY <1>0, <4>3 DEF TakeWave, DriverTyped, DriverRecs
      <4>4. CASE GoOn(d)
        BY <1>0, <4>4 DEF GoOn, DriverTyped, DriverRecs
      <4>5. CASE RunsDry(d) \/ Settle(d)
        <5>1. Move(d, "leaving")
          BY <4>5 DEF RunsDry, Settle
        <5>2. QED
          BY <5>1, <1>0 DEF Move, DriverTyped, DriverRecs
      <4>6. CASE Leave(d)
        BY <1>0, <4>6 DEF Leave, GoneDriver, NewDriver, DriverTyped, DriverRecs
      <4>7. QED
        BY <2>2, <4>1, <4>2, <4>3, <4>4, <4>5, <4>6 DEF RestingSteps
    <3>2. QED
      BY <1>0, <2>1, <3>1 DEF TasksInWave, At
  <2>3. CASE Announce(d)
    <3>1. \A n \in Node : driver'[d].task[n] = IF n \in ToSet(driver[d].wave) THEN "new" ELSE "idle"
      BY <1>0, <2>3 DEF Announce, DriverTyped, DriverRecs
    <3>2. \A n \in Node : driver'[d].task[n] # "asking"
      BY <3>1
    <3>3. QED
      BY <2>1, <3>2
  <2>4. ASSUME NEW n \in Node, NEW task, TaskGoes(d, n, task), task = "asking" => Kind[n] = "agent"
        PROVE  AsksAreAgents'
    BY <2>1, <2>4, TaskGoesOn
  <2>5. ASSUME NEW n \in Node, Insert(d, n) PROVE AsksAreAgents'
    <3>1. CASE d \in cancelled
      BY <2>4, <2>5, <3>1 DEF Insert
    <3>2. CASE d \notin cancelled
      <4> DEFINE task == IF Kind[n] = "human_review" THEN "waiting" ELSE "inserted"
      <4>1. driver' = [driver EXCEPT ![d].task[n] = task, ![d].row[n] = Len(rows) + 1] /\ task # "asking"
        BY <2>5, <3>2 DEF Insert
      <4> HIDE DEF task
      <4>2. \A m \in Node : driver'[d].task[m] = IF m = n THEN task ELSE driver[d].task[m]
        BY <1>0, <4>1 DEF DriverTyped, DriverRecs
      <4>3. QED
        BY <2>1, <4>1, <4>2
    <3>3. QED
      BY <3>1, <3>2
  <2>6. ASSUME NEW n \in Node, Refuse(d, n) \/ Occupy(d, n) \/ Busy(d, n) \/ Replies(d, n)
                               \/ Errs(d, n) \/ Complete(d, n) \/ Evaluate(d, n)
        PROVE  AsksAreAgents'
    BY <2>4, <2>6 DEF Refuse, Occupy, Busy, Replies, Errs, Complete, Evaluate
  <2>7. QED
    BY <1>1, <2>2, <2>3, <2>5, <2>6 DEF DriverStep, TaskStep, RestingSteps
<1>2. ASSUME NEW o \in Callers, OpStep(o) PROVE AsksAreAgents'
  <2>1. CASE Spawn(o)
    <3>1. NewGoroutine \in Drivers
      BY <2>1 DEF Spawn, NewGoroutine, Unused
    <3>2. QED
      BY <2>1, <3>1, <1>0 DEF Spawn, DriverTyped, DriverRecs
  <2>2. CASE ~Spawn(o)
    BY <1>2, <2>2 DEF OpStep, Create, Reopen, Look, Cancel, List, Mark, Read, Write, AbortRow,
         AbortRun, Status, Again, Find, Answer, Decide, AskBusy, Plan, Close
  <2>3. QED
    BY <2>1, <2>2
<1>3. CASE Restart
  BY <1>3 DEF Restart, NewDriver, GoneDriver
<1>4. ASSUME NEW o \in Ops, NEW kind \in OpKinds, Call(o, kind) PROVE AsksAreAgents'
  BY <1>4 DEF Call
<1>5. CASE LoopResumes \/ WindowEnds \/ UNCHANGED vars
  BY <1>5 DEF LoopResumes, WindowEnds, vars
<1>6. QED
  BY <1>1, <1>2, <1>3, <1>4, <1>5 DEF Next

\* Every driver's step keeps the invariant.
LEMMA DriverMerges ==
  ASSUME Types, Quiet, AsksAreAgents, Fills, ChosenHasInputs, MergeHasInputs, NEW d \in Drivers, DriverStep(d)
  PROVE  Fills' /\ ChosenHasInputs' /\ MergeHasInputs'
<1>0. DriverTyped /\ Shape /\ d \notin cancelled /\ rows \in Seq(Attempts)
  BY TypesGiveShape DEF Types, Quiet
<1>1. \A e \in Drivers \ {d} : driver'[e] = driver[e]
  BY <1>0, DriverFrame
<1>2. CASE StartInserts(d)
  <2>1. /\ driver'[d].place = "started" /\ driver'[d].row[StartNode] = Len(rows) + 1
        /\ driver'[d].task = driver[d].task /\ driver'[d].wave = driver[d].wave
        /\ \A m \in Node \ {StartNode} : driver'[d].row[m] = driver[d].row[m]
    <3>1. driver' = [driver EXCEPT ![d].place = "started", ![d].row[StartNode] = Len(rows) + 1]
      BY <1>0, <1>2 DEF StartInserts
    <3>2. QED
      BY <1>0, <3>1, StartIsNode DEF DriverTyped, DriverRecs
  <2>2. driver[d].task[StartNode] # "new"
    BY <1>0, <1>2, StartIsNode DEF StartInserts, Shape, TasksInWave, At
  <2>3. AddRow(StartNode, "running") /\ "running" \in RowStatuses
    BY <1>0, <1>2 DEF StartInserts, RowStatuses
  <2>4. QED
    BY <1>1, <2>1, <2>2, <2>3, StartIsNode, Inserts DEF At
<1>3. CASE StartEnds(d)
  <2> DEFINE i == driver[d].row[StartNode]
  <2>1. SetRow(i, "success", "full")
    BY <1>0, <1>3 DEF StartEnds, DriverSetsRow
  <2>2. i \in DOMAIN rows /\ rows[i].node = StartNode
    BY <1>3 DEF StartEnds, Fills, FillsOwnRow
  <2>3. \A m \in Node : driver[d].task[m] \notin {"new", "inserted", "asking"}
    BY <1>0, <1>3 DEF StartEnds, Shape, TasksInWave, At
  <2>4. driver'[d].task = driver[d].task /\ driver'[d].place = "queue"
    BY <1>0, <1>3 DEF StartEnds, DriverTyped, DriverRecs
  <2> HIDE DEF i
  <2>5. SuccessKept /\ DOMAIN rows' = DOMAIN rows
    BY <1>0, <2>1, SetRowKeeps
  <2>6. \A j \in DOMAIN rows : j # i => rows'[j].status = rows[j].status
    BY <1>0, <2>1, SetRowEffect
  <2>7. FillingKept
    <3>1. ASSUME NEW e \in Drivers, NEW m \in Node, Filling(e, m)'
          PROVE  /\ Filling(e, m) /\ driver'[e].row[m] = driver[e].row[m]
                 /\ Kind[m] \in {"agent", "condition"} => rows'[driver[e].row[m]].status = "running"
      <4>1. e # d
        BY <2>3, <2>4, <3>1 DEF Filling
      <4>2. Filling(e, m) /\ driver'[e].row[m] = driver[e].row[m]
        BY <1>1, <3>1, <4>1 DEF Filling
      <4>3. driver[e].row[m] \in DOMAIN rows /\ rows[driver[e].row[m]].node = m
        BY <4>2 DEF Fills, FillsOwnRow
      <4>4. ASSUME Kind[m] \in {"agent", "condition"} PROVE driver[e].row[m] # i
        BY <2>2, <4>3, <4>4, StartIsNode
      <4>5. QED
        BY <2>6, <4>2, <4>3, <4>4 DEF Fills, FillsRunning
    <3>2. QED
      BY <1>1, <2>4, <3>1 DEF FillingKept, At
  <2>8. ChosenKept
    BY <1>1, <2>3, <2>4 DEF ChosenKept, Chosen, At
  <2>9. QED
    BY <1>0, <2>5, <2>7, <2>8, KeepsAll
<1>4. CASE RestingSteps(d)
  BY <1>4, RestingMerges
<1>5. ASSUME NEW n \in Node, Insert(d, n) PROVE Fills' /\ ChosenHasInputs' /\ MergeHasInputs'
  <2> DEFINE status == CASE Kind[n] = "human_review"         -> "waiting"
                         [] Kind[n] \in {"parallel", "merge"} -> "success"
                         [] OTHER                             -> "running"
             task   == IF Kind[n] = "human_review" THEN "waiting" ELSE "inserted"
  <2>1. AddRow(n, status) /\ status \in RowStatuses
    BY <1>0, <1>5 DEF Insert, RowStatuses
  <2>2. driver' = [driver EXCEPT ![d].task[n] = task, ![d].row[n] = Len(rows) + 1]
    BY <1>0, <1>5 DEF Insert
  <2>3. /\ Kind[n] \in {"agent", "condition"} => status = "running"
        /\ task # "new"
    OBVIOUS
  <2>4. Chosen(d, n) /\ At(d, "wave")
    BY <1>5 DEF Insert, Doing, Chosen
  <2> HIDE DEF status, task
  <2>5. /\ driver'[d].row[n] = Len(rows) + 1 /\ driver'[d].task[n] = task
        /\ driver'[d].place = driver[d].place /\ driver'[d].wave = driver[d].wave
        /\ \A m \in Node \ {n} : /\ driver'[d].row[m] = driver[d].row[m]
                                 /\ driver'[d].task[m] = driver[d].task[m]
    BY <1>0, <2>2 DEF DriverTyped, DriverRecs
  <2>6. driver'[d].place = "wave"
    BY <2>4, <2>5 DEF At
  <2>7. QED
    BY <1>1, <2>1, <2>3, <2>4, <2>5, <2>6, Inserts DEF At
<1>6. ASSUME NEW n \in Node, Refuse(d, n) PROVE Fills' /\ ChosenHasInputs' /\ MergeHasInputs'
  <2>1. rows' = rows /\ TaskGoes(d, n, "error")
    BY <1>6 DEF Refuse
  <2>2. /\ driver'[d].task[n] = "error"
        /\ \A e \in Drivers : /\ driver'[e].place = driver[e].place /\ driver'[e].row = driver[e].row
                              /\ driver'[e].wave = driver[e].wave
        /\ \A e \in Drivers, m \in Node : e # d \/ m # n => driver'[e].task[m] = driver[e].task[m]
    BY <2>1, TaskGoesOn
  <2>3. driver[d].place = "wave"
    BY <1>6 DEF Refuse, Doing, At
  <2>4. \A m \in Node : Chosen(d, m)' => Chosen(d, m)
    BY <2>2 DEF Chosen, At
  <2>5. \A m \in Node : driver'[d].task[m] \in {"inserted", "asking"} =>
          driver'[d].task[m] = driver[d].task[m] /\ driver'[d].row[m] = driver[d].row[m]
    BY <2>2
  <2>6. driver'[d].place # "started"
    BY <2>2, <2>3
  <2>7. QED
    BY <1>1, <2>1, <2>4, <2>5, <2>6, DriverRests
<1>7. ASSUME NEW n \in Node, Occupy(d, n) \/ Errs(d, n)
      PROVE  Fills' /\ ChosenHasInputs' /\ MergeHasInputs'
  <2>1. Filling(d, n) /\ Kind[n] = "agent"
    BY <1>7 DEF Occupy, Errs, Doing, Filling, AsksAreAgents
  <2>2. CASE Occupy(d, n)
    BY <2>1, <2>2, TaskWrites DEF Occupy
  <2>3. CASE Errs(d, n)
    <3>1. SetRow(driver[d].row[n], "failed", "bare") /\ TaskGoes(d, n, "error")
      BY <1>0, <2>3 DEF Errs
    <3>2. Kind[n] \in {"agent", "condition"} /\ "error" # "new" /\ "error" \notin {"inserted", "asking"}
      BY <2>1
    <3>3. QED
      BY <2>1, <3>1, <3>2, TaskWrites
  <2>4. QED
    BY <1>7, <2>2, <2>3
<1>8. ASSUME NEW n \in Node, Busy(d, n) \/ Replies(d, n) \/ Complete(d, n) \/ Evaluate(d, n)
      PROVE  Fills' /\ ChosenHasInputs' /\ MergeHasInputs'
  <2>1. Filling(d, n)
    BY <1>8 DEF Busy, Replies, Complete, Evaluate, Doing, Filling
  <2>2. ASSUME NEW status, NEW out, NEW task, DriverSetsRow(d, driver[d].row[n], status, out),
               TaskGoes(d, n, task), task \notin {"new", "inserted", "asking"},
               status = "success" \/ Kind[n] \in {"agent", "condition"}
        PROVE  Fills' /\ ChosenHasInputs' /\ MergeHasInputs'
    BY <1>0, <2>1, <2>2, TaskWrites DEF DriverSetsRow
  <2>3. CASE Busy(d, n)
    BY <2>2, <2>3 DEF Busy
  <2>4. CASE Replies(d, n)
    BY <2>2, <2>4 DEF Replies
  <2>5. CASE Complete(d, n)
    BY <2>2, <2>5 DEF Complete
  <2>6. CASE Evaluate(d, n)
    BY <2>2, <2>6 DEF Evaluate
  <2>7. QED
    BY <1>8, <2>3, <2>4, <2>5, <2>6
<1>9. QED
  BY <1>2, <1>3, <1>4, <1>5, <1>6, <1>7, <1>8 DEF DriverStep, TaskStep, RestingSteps

\* Every step keeps the invariant.
LEMMA MergeStep ==
  ASSUME OpKinds \cap Interfering = {}, Types, MergeInv, [Next]_vars
  PROVE  MergeInv'
<1>0. /\ rows \in Seq(Attempts) /\ DriverTyped /\ Quiet /\ AsksAreAgents
      /\ Fills /\ ChosenHasInputs /\ MergeHasInputs
  BY DEF Types, MergeInv
<1>1. Quiet' /\ AsksAreAgents'
  BY <1>0, QuietStep, AsksStep
<1>2. ASSUME rows' = rows, driver' = driver PROVE MergeInv'
  <2>1. SuccessKept /\ DOMAIN rows' = DOMAIN rows
    BY <1>2 DEF SuccessKept
  <2>2. FillingKept
    BY <1>0, <1>2 DEF FillingKept, Filling, At, Fills, FillsRunning
  <2>3. ChosenKept
    BY <1>2 DEF ChosenKept, Chosen, At
  <2>4. QED
    BY <1>0, <1>1, <2>1, <2>2, <2>3, KeepsAll DEF MergeInv
<1>3. ASSUME NEW d \in Drivers, DriverStep(d) PROVE MergeInv'
  BY <1>0, <1>1, <1>3, DriverMerges DEF MergeInv
<1>4. ASSUME NEW o \in Callers, OpStep(o) PROVE MergeInv'
  <2>1. CASE Spawn(o)
    <3> DEFINE place == CASE op[o].kind = "start" -> "start" [] op[o].kind = "resume" -> "seeded"
                          [] OTHER -> "load"
    <3>1. PICK d \in Drivers : d = NewGoroutine
      BY <2>1 DEF Spawn, NewGoroutine, Unused
    <3>2. /\ driver' = [driver EXCEPT ![d].place = place, ![d].queue = op[o].starts, ![d].visited = op[o].seed]
          /\ rows' = rows
      BY <2>1, <3>1 DEF Spawn
    <3>3. place \in {"start", "seeded", "load"}
      OBVIOUS
    <3> HIDE DEF place
    <3>4. /\ driver'[d].place = place /\ driver'[d].task = driver[d].task
          /\ driver'[d].row = driver[d].row
          /\ \A e \in Drivers \ {d} : driver'[e] = driver[e]
      BY <1>0, <3>1, <3>2 DEF DriverTyped, DriverRecs
    <3>5. /\ \A m \in Node : Chosen(d, m)' => Chosen(d, m)
          /\ driver'[d].place # "started"
      BY <3>3, <3>4 DEF Chosen, At
    <3>6. Fills' /\ ChosenHasInputs' /\ MergeHasInputs'
      BY <1>0, <3>2, <3>4, <3>5, DriverRests
    <3>7. QED
      BY <1>1, <3>6 DEF MergeInv
  <2>2. CASE ~Spawn(o)
    <3>1. op[o].pc \in QuietSteps
      BY <1>0 DEF Quiet
    <3>2. rows' = rows /\ driver' = driver
      BY <1>4, <2>2, <3>1 DEF OpStep, Create, Reopen, Look, Cancel, List, Mark, Read, Write,
           AbortRow, AbortRun, Status, Again, Find, Answer, Decide, AskBusy, Plan, Close, On, QuietSteps
    <3>3. QED
      BY <1>2, <3>2
  <2>3. QED
    BY <2>1, <2>2
<1>5. CASE Restart
  <2>1. \A d \in Drivers : /\ driver'[d].place \in {"unused", "done"}
                           /\ \A n \in Node : driver'[d].task[n] = "idle"
    BY <1>5 DEF Restart, NewDriver, GoneDriver
  <2>2. SuccessKept /\ DOMAIN rows' = DOMAIN rows
    BY <1>0, <1>5, LenProperties DEF Restart, SuccessKept, Active, Attempts
  <2>3. FillingKept
    BY <2>1 DEF FillingKept, Filling, At
  <2>4. ChosenKept
    BY <2>1 DEF ChosenKept, Chosen, At
  <2>5. QED
    BY <1>0, <1>1, <2>2, <2>3, <2>4, KeepsAll DEF MergeInv
<1>6. ASSUME NEW o \in Ops, NEW kind \in OpKinds, Call(o, kind) PROVE MergeInv'
  BY <1>2, <1>6 DEF Call
<1>7. CASE LoopResumes \/ WindowEnds \/ UNCHANGED vars
  BY <1>2, <1>7 DEF LoopResumes, WindowEnds, vars
<1>8. QED
  BY <1>3, <1>4, <1>5, <1>6, <1>7 DEF Next

\* The merge invariant holds throughout where nobody stops or reviews the run.
LEMMA MergeInvAlways == ASSUME OpKinds \cap Interfering = {} PROVE Spec => []MergeInv
<1>1. Init => MergeInv
  <2>1. ASSUME Init PROVE Quiet
    BY <2>1 DEF Init, Quiet, NewOp, Interfering, Reviews, QuietSteps
  <2>2. ASSUME Init PROVE AsksAreAgents /\ Fills /\ ChosenHasInputs
    BY <2>2 DEF Init, AsksAreAgents, Fills, FillsOwnRow, FillsRunning, FillsApart, ChosenHasInputs, Chosen, Filling,
         NewDriver, At
  <2>3. ASSUME Init PROVE MergeHasInputs
    <3>1. rows = <<>>
      BY <2>3 DEF Init
    <3>2. QED
      BY <3>1 DEF MergeHasInputs
  <2>4. QED
    BY <2>1, <2>2, <2>3 DEF MergeInv
<1>2. Types /\ MergeInv /\ [Next]_vars => MergeInv'
  BY MergeStep
<1>3. QED
  BY <1>1, <1>2, TypesAlways, PTL DEF Spec

\* When a merge is executed every node it waits for has a successful attempt before its
\* own, in any graph, for any number of goroutines, with retries of any node, resumptions
\* and restarts at any point (mergeReady, workflow_engine.go:256 and 400): the choice of the wave
\* and the insertion are two steps, and nothing in between takes a success back unless
\* the run is stopped or reviewed.
THEOREM MergesHaveInputs ==
  ASSUME OpKinds \cap Interfering = {}
  PROVE  Spec => []MergeHasInputs
<1>1. MergeInv => MergeHasInputs
  BY DEF MergeInv
<1>2. QED
  BY <1>1, MergeInvAlways, PTL

-------------------------------------------------------------------------------
(* The plan of a recovery, for any attempts: what is taken over and what    *)
(* runs again.                                                             *)

\* What may be taken over: checked nodes that no edge enters from an executed node
\* outside.
Closed(latest, R) ==
  R \subseteq Checked(latest) /\ \A n \in R : Sources(n) \cap Executed(latest) \subseteq R

\* A successful attempt is an attempt.
LEMMA CheckedIsExecuted == ASSUME NEW latest PROVE Checked(latest) \subseteq Executed(latest)
  BY DEF Checked, Executed

\* The sets that may be taken over have a largest one, and that is what is taken over:
\* nothing is run again that need not be (workflow_recover.go:96).
THEOREM ReusableIsLargest ==
  ASSUME NEW latest
  PROVE  /\ Closed(latest, Reusable(latest))
         /\ \A R : Closed(latest, R) => R \subseteq Reusable(latest)
<1>1. \A R : Closed(latest, R) => R \subseteq Reusable(latest)
  BY DEF Closed, Reusable
<1>2. Reusable(latest) \subseteq Checked(latest)
  BY DEF Reusable
<1>3. ASSUME NEW n \in Reusable(latest)
      PROVE  Sources(n) \cap Executed(latest) \subseteq Reusable(latest)
  <2>1. PICK R \in SUBSET Checked(latest) :
             n \in R /\ \A m \in R : Sources(m) \cap Executed(latest) \subseteq R
    BY <1>3 DEF Reusable
  <2>2. R \subseteq Reusable(latest)
    BY <1>1, <2>1 DEF Closed
  <2>3. QED
    BY <2>1, <2>2
<1>4. QED
  BY <1>1, <1>2, <1>3 DEF Closed

\* What runs again is what was executed and does not pass the check, and whatever was
\* executed behind it: the condition on which the propagation stops, with no node that it
\* should still have taken out (workflow_recover.go:96-114).
THEOREM NeedRerunPropagates ==
  ASSUME NEW latest, NEW n \in Executed(latest)
  PROVE  n \in NeedRerun(latest) <=>
           n \notin Checked(latest) \/ Sources(n) \cap NeedRerun(latest) # {}
<1>1. Closed(latest, Reusable(latest))
  BY ReusableIsLargest
<1>2. ASSUME n \in Reusable(latest)
      PROVE  n \in Checked(latest) /\ Sources(n) \cap NeedRerun(latest) = {}
  BY <1>1, <1>2 DEF Closed, NeedRerun
<1>3. ASSUME n \in Checked(latest), Sources(n) \cap NeedRerun(latest) = {}
      PROVE  n \in Reusable(latest)
  <2>1. Sources(n) \cap Executed(latest) \subseteq Reusable(latest)
    BY <1>3 DEF NeedRerun
  <2>2. Closed(latest, Reusable(latest) \cup {n})
    BY <1>1, <1>3, <2>1 DEF Closed
  <2>3. QED
    BY <2>2, ReusableIsLargest
<1>4. QED
  BY <1>2, <1>3 DEF NeedRerun

\* A node that was executed is either taken over or runs again, never both: no node of a
\* recovered run is lost.
THEOREM ReusedOrRerun ==
  ASSUME NEW latest
  PROVE  /\ Reusable(latest) \cup NeedRerun(latest) = Executed(latest)
         /\ Reusable(latest) \cap NeedRerun(latest) = {}
BY ReusableIsLargest, CheckedIsExecuted DEF Closed, NeedRerun

-------------------------------------------------------------------------------
(* The success of a run. A driver never runs dry before an end: of the      *)
(* nodes it still has to do some node is behind every other one, and what  *)
(* that node leads to is not visited yet (Ahead). Solo says that nothing   *)
(* else is at work meanwhile; MergeInv, that a merge has what it waits for. *)

\* What stands at some places of a sequence is what stands at one of them.
LEMMA AtPlacesAll ==
  ASSUME NEW S, NEW s \in Seq(S), NEW places, places \subseteq DOMAIN s
  PROVE  ToSet(AtPlaces(s, places)) = {s[i] : i \in places}
<1> DEFINE Upto(i) == {j \in places : j =< i}
           nth(k) == CHOOSE i \in places : Cardinality(Upto(i)) = k
           N == Cardinality(places)
<1>1. Len(s) \in Nat /\ DOMAIN s = 1..Len(s)
  BY LenProperties
<1>2. places \subseteq Nat /\ IsFiniteSet(places) /\ N \in Nat
  BY <1>1, PlacesFinite
<1>3. ASSUME NEW k \in 1..N PROVE nth(k) \in places /\ Cardinality(Upto(nth(k))) = k
  <2>1. \E i \in places : Cardinality(Upto(i)) = k
    BY <1>1, NthPlace
  <2> HIDE DEF Upto
  <2>2. QED
    BY <2>1
<1>4. AtPlaces(s, places) = [k \in 1..N |-> s[nth(k)]]
  BY DEF AtPlaces
<1>5. ASSUME NEW i \in places PROVE \E k \in 1..N : nth(k) = i
  <2> DEFINE k == Cardinality(Upto(i))
  <2>1. \A l \in places : Upto(l) \in SUBSET places /\ IsFiniteSet(Upto(l)) /\ Cardinality(Upto(l)) \in Nat
                          /\ Cardinality(Upto(l)) =< N
    <3> SUFFICES ASSUME NEW l \in places
                 PROVE  Upto(l) \in SUBSET places /\ IsFiniteSet(Upto(l)) /\ Cardinality(Upto(l)) \in Nat
                        /\ Cardinality(Upto(l)) =< N
      OBVIOUS
    <3>1. Upto(l) \in SUBSET places
      OBVIOUS
    <3> HIDE DEF Upto
    <3>2. QED
      BY <1>2, <3>1, FS_Subset, FS_CardinalityType
  <2>2. i \in Upto(i)
    BY <1>2
  <2>3. k # 0
    <3> HIDE DEF Upto
    <3>1. QED
      BY <2>1, <2>2, FS_EmptySet
  <2>4. k \in 1..N
    <3> HIDE DEF Upto
    <3>1. QED
      BY <1>2, <2>1, <2>3
  <2> DEFINE l == nth(k)
  <2>5. l \in places /\ Cardinality(Upto(l)) = Cardinality(Upto(i))
    BY <1>3, <2>4
  <2>6. \A x, y \in places : x =< y => Upto(x) \in SUBSET Upto(y)
    BY <1>2
  <2>7. \A x, y \in places : x =< y /\ Cardinality(Upto(x)) = Cardinality(Upto(y)) => Upto(x) = Upto(y)
    <3> HIDE DEF Upto
    <3>1. QED
      BY <2>1, <2>6, FS_Subset
  <2>8. \A x \in places : x \in Upto(x)
    BY <1>2
  <2>9. Upto(l) = Upto(i)
    <3> HIDE DEF Upto, l, k
    <3>1. l =< i \/ i =< l
      BY <1>2, <2>5
    <3>2. QED
      BY <2>5, <2>7, <3>1
  <2>10. l = i
    <3>1. i \in Upto(l) /\ l \in Upto(i)
      <4> HIDE DEF Upto, l
      <4>1. QED
        BY <2>5, <2>8, <2>9
    <3> HIDE DEF l
    <3>2. QED
      BY <1>2, <2>5, <3>1
  <2>11. QED
    <3> HIDE DEF k, nth
    <3>1. QED
      BY <2>4, <2>10 DEF l
<1> HIDE DEF nth, N, Upto
<1>6. DOMAIN AtPlaces(s, places) = 1..N /\ \A k \in 1..N : AtPlaces(s, places)[k] = s[nth(k)]
  BY <1>4
<1>7. QED
  BY <1>3, <1>5, <1>6 DEF ToSet

\* A source of a node is a node, and an edge out of a node makes it a source of its target.
LEMMA SourcesIn ==
  /\ \A n : Sources(n) = {e.source : e \in {f \in ToSet(Edges) : f.target = n}}
  /\ \A n : Sources(n) \subseteq Node
<1>1. Edges \in Seq(EdgeSet) /\ Len(Edges) \in Nat /\ DOMAIN Edges = 1..Len(Edges)
      /\ \A i \in DOMAIN Edges : Edges[i] \in EdgeSet
  BY GraphAssumption, LenProperties, ElementOfSeq DEF EdgeSet
<1>2. ASSUME NEW n PROVE ToSet(Ins(n)) = {f \in ToSet(Edges) : f.target = n}
  <2> DEFINE places == {i \in DOMAIN Edges : Edges[i].target = n}
  <2>1. ToSet(AtPlaces(Edges, places)) = {Edges[i] : i \in places}
    <3>1. places \subseteq DOMAIN Edges
      OBVIOUS
    <3> HIDE DEF places
    <3>2. QED
      BY <1>1, <3>1, AtPlacesAll
  <2>2. QED
    BY <2>1 DEF Ins, ToSet
<1>3. ASSUME NEW n PROVE Sources(n) = {e.source : e \in {f \in ToSet(Edges) : f.target = n}}
  BY <1>2 DEF Sources
<1>4. \A e \in ToSet(Edges) : e.source \in Node
  BY <1>1 DEF ToSet, EdgeSet
<1>5. QED
  BY <1>3, <1>4

\* Whoever a node hands over to has it as a source.
LEMMA LeadsFrom ==
  ASSUME NEW n
  PROVE  /\ \A s \in ToSet(Successors(n)) : n \in Sources(s)
         /\ \A ok, s : s \in ToSet(ConditionNext(n, ok)) => n \in Sources(s)
<1>1. Edges \in Seq(EdgeSet) /\ Len(Edges) \in Nat /\ DOMAIN Edges = 1..Len(Edges)
      /\ \A i \in DOMAIN Edges : Edges[i] \in EdgeSet
  BY GraphAssumption, LenProperties, ElementOfSeq DEF EdgeSet
<1>2. Outs(n) \in Seq(EdgeSet) /\ \A i \in DOMAIN Outs(n) : Outs(n)[i] \in ToSet(Edges) /\ Outs(n)[i].source = n
  <2> DEFINE places == {i \in DOMAIN Edges : Edges[i].source = n}
  <2>1. places \subseteq DOMAIN Edges /\ \A i \in places : Edges[i] \in ToSet(Edges) /\ Edges[i].source = n
    BY DEF ToSet
  <2>2. Outs(n) = AtPlaces(Edges, places)
    BY DEF Outs
  <2> HIDE DEF places
  <2>3. QED
    BY <1>1, <2>1, <2>2, AtPlacesIn
<1>3. ASSUME NEW branches
      PROVE  \A i \in DOMAIN Marked(n, branches) :
               Marked(n, branches)[i] \in ToSet(Edges) /\ Marked(n, branches)[i].source = n
  <2> DEFINE places == {i \in DOMAIN Outs(n) : Outs(n)[i].branch \in branches}
  <2>1. places \subseteq DOMAIN Outs(n)
    OBVIOUS
  <2>2. Marked(n, branches) = AtPlaces(Outs(n), places)
    BY DEF Marked
  <2> HIDE DEF places
  <2>3. QED
    BY <1>2, <2>1, <2>2, AtPlacesIn
<1>4. \A e \in ToSet(Edges) : e.source = n => n \in Sources(e.target)
  BY SourcesIn
<1>5. \A s \in ToSet(Successors(n)) : n \in Sources(s)
  BY <1>2, <1>4 DEF Successors, Targets, ToSet
<1>6. ASSUME NEW ok, NEW s \in ToSet(ConditionNext(n, ok)) PROVE n \in Sources(s)
  <2> DEFINE marked == Marked(n, IF ok THEN {"true", "default", "approve"} ELSE {"false", "reject"})
             place  == IF ok THEN 1 ELSE 2
  <2>1. \A i \in DOMAIN marked : marked[i] \in ToSet(Edges) /\ marked[i].source = n
    BY <1>3
  <2>2. ConditionNext(n, ok) = IF marked # <<>> THEN Targets(marked)
                               ELSE IF place \in DOMAIN Outs(n) THEN <<Outs(n)[place].target>> ELSE <<>>
    BY DEF ConditionNext
  <2> HIDE DEF marked, place
  <2>3. CASE marked # <<>>
    BY <1>4, <1>6, <2>1, <2>2, <2>3 DEF Targets, ToSet
  <2>4. CASE marked = <<>> /\ place \in DOMAIN Outs(n)
    <3>1. s = Outs(n)[place].target
      BY <1>6, <2>2, <2>4 DEF ToSet
    <3>2. QED
      BY <1>2, <1>4, <2>4, <3>1
  <2>5. CASE marked = <<>> /\ place \notin DOMAIN Outs(n)
    BY <1>6, <2>2, <2>5 DEF ToSet
  <2>6. QED
    BY <2>3, <2>4, <2>5
<1>7. QED
  BY <1>5, <1>6

\* What a queue holds after nodes are added: what it held, and of these what is not visited.
LEMMA EnqueueHolds ==
  ASSUME NEW queue \in Seq(Handles), NEW visited, NEW next \in Seq(Handles)
  PROVE  ToSet(Enqueue(queue, visited, next)) = ToSet(queue) \cup (ToSet(next) \ visited)
<1> DEFINE places == {i \in DOMAIN next :
             next[i] \notin visited \cup ToSet(queue) \cup {next[j] : j \in 1..(i - 1)}}
           added == AtPlaces(next, places)
<1>1. places \subseteq DOMAIN next /\ Len(next) \in Nat /\ DOMAIN next = 1..Len(next)
  BY LenProperties
<1>2. Enqueue(queue, visited, next) = queue \o added
  BY DEF Enqueue
<1>3. added \in Seq(Handles) /\ ToSet(added) = {next[i] : i \in places}
  <2> HIDE DEF places
  <2>1. QED
    BY <1>1, AtPlacesIn, AtPlacesAll
<1>4. {next[i] : i \in places} = (ToSet(next) \ visited) \ ToSet(queue)
  <2>1. ASSUME NEW x \in (ToSet(next) \ visited) \ ToSet(queue) PROVE \E i \in places : next[i] = x
    <3> DEFINE same == {i \in DOMAIN next : next[i] = x}
    <3>1. PICK i \in same : \A j \in same : i =< j
      <4>1. same \subseteq Nat /\ same # {}
        BY <1>1 DEF ToSet
      <4> HIDE DEF same
      <4>2. QED
        BY <4>1, Smallest
    <3>2. \A j \in 1..(i - 1) : next[j] # x
      BY <1>1, <3>1
    <3>3. QED
      BY <3>1, <3>2
  <2>2. QED
    BY <2>1 DEF ToSet
<1> HIDE DEF places, added
<1>5. ASSUME NEW s \in Seq(Handles), NEW t \in Seq(Handles) PROVE ToSet(s \o t) = ToSet(s) \cup ToSet(t)
  <2>1. /\ s \o t \in Seq(Handles) /\ Len(s \o t) = Len(s) + Len(t)
        /\ \A i \in 1..(Len(s) + Len(t)) : (s \o t)[i] = IF i =< Len(s) THEN s[i] ELSE t[i - Len(s)]
    BY ConcatProperties
  <2>2. /\ Len(s) \in Nat /\ DOMAIN s = 1..Len(s) /\ Len(t) \in Nat /\ DOMAIN t = 1..Len(t)
        /\ DOMAIN (s \o t) = 1..(Len(s) + Len(t))
    BY <2>1, LenProperties
  <2>3. ASSUME NEW x \in ToSet(s \o t) PROVE x \in ToSet(s) \cup ToSet(t)
    <3>1. PICK i \in 1..(Len(s) + Len(t)) : x = (s \o t)[i]
      BY <2>2, <2>3 DEF ToSet
    <3>2. CASE i =< Len(s)
      BY <2>1, <2>2, <3>1, <3>2 DEF ToSet
    <3>3. CASE ~(i =< Len(s))
      <4>1. i - Len(s) \in DOMAIN t /\ x = t[i - Len(s)]
        BY <2>1, <2>2, <3>1, <3>3
      <4>2. QED
        BY <4>1 DEF ToSet
    <3>4. QED
      BY <3>2, <3>3
  <2>4. ASSUME NEW x \in ToSet(s) PROVE x \in ToSet(s \o t)
    <3>1. PICK i \in 1..Len(s) : x = s[i]
      BY <2>2, <2>4 DEF ToSet
    <3>2. i \in DOMAIN (s \o t) /\ (s \o t)[i] = x
      BY <2>1, <2>2, <3>1
    <3>3. QED
      BY <3>2 DEF ToSet
  <2>5. ASSUME NEW x \in ToSet(t) PROVE x \in ToSet(s \o t)
    <3>1. PICK i \in 1..Len(t) : x = t[i]
      BY <2>2, <2>5 DEF ToSet
    <3> DEFINE j == Len(s) + i
    <3>2. j \in 1..(Len(s) + Len(t)) /\ ~(j =< Len(s)) /\ j - Len(s) = i
      BY <2>2, <3>1
    <3> HIDE DEF j
    <3>3. j \in DOMAIN (s \o t) /\ (s \o t)[j] = x
      BY <2>1, <2>2, <3>1, <3>2
    <3>4. QED
      BY <3>3 DEF ToSet
  <2>6. QED
    BY <2>3, <2>4, <2>5
<1>6. ToSet(queue \o added) = ToSet(queue) \cup ToSet(added)
  BY <1>3, <1>5
<1>7. QED
  BY <1>2, <1>3, <1>4, <1>6

\* The nodes of the queue, each of which is either ready or deferred.
LEMMA QueuesHold ==
  ASSUME NEW d, driver[d].queue \in Seq(Handles)
  PROVE  /\ ToSet(Known(d)) = ToSet(driver[d].queue) \cap Node
         /\ ToSet(Ready(d)) \cup ToSet(Deferred(d)) = ToSet(Known(d))
<1> DEFINE queue == driver[d].queue
           places == {i \in DOMAIN queue : queue[i] \in Node \ {queue[j] : j \in 1..(i - 1)}}
<1>1. places \subseteq DOMAIN queue /\ Len(queue) \in Nat /\ DOMAIN queue = 1..Len(queue)
  BY LenProperties
<1>2. Known(d) = AtPlaces(queue, places)
  BY DEF Known
<1>3. ToSet(Known(d)) = {queue[i] : i \in places}
  <2> HIDE DEF places, queue
  <2>0. queue \in Seq(Handles)
    BY DEF queue
  <2>1. QED
    BY <1>1, <1>2, <2>0, AtPlacesAll
<1>4. {queue[i] : i \in places} = ToSet(queue) \cap Node
  <2>1. ASSUME NEW x \in ToSet(queue) \cap Node PROVE \E i \in places : queue[i] = x
    <3> DEFINE same == {i \in DOMAIN queue : queue[i] = x}
    <3>1. PICK i \in same : \A j \in same : i =< j
      <4>1. same \subseteq Nat /\ same # {}
        BY <1>1 DEF ToSet
      <4> HIDE DEF same
      <4>2. QED
        BY <4>1, Smallest
    <3>2. \A j \in 1..(i - 1) : queue[j] # x
      BY <1>1, <3>1
    <3>3. QED
      BY <3>1, <3>2
  <2>2. QED
    BY <2>1 DEF ToSet
<1> DEFINE ready == {i \in DOMAIN Known(d) : IsReady(Known(d)[i])}
           deferred == {i \in DOMAIN Known(d) : ~IsReady(Known(d)[i])}
<1>5. /\ ready \subseteq DOMAIN Known(d) /\ deferred \subseteq DOMAIN Known(d)
      /\ ready \cup deferred = DOMAIN Known(d)
  OBVIOUS
<1>6. Ready(d) = AtPlaces(Known(d), ready) /\ Deferred(d) = AtPlaces(Known(d), deferred)
  BY DEF Ready, Deferred
<1> HIDE DEF ready, deferred
<1>7. /\ ToSet(Ready(d)) = {Known(d)[i] : i \in ready}
      /\ ToSet(Deferred(d)) = {Known(d)[i] : i \in deferred}
  <2>1. Known(d) \in Seq(Node)
    BY QueuesIn
  <2>2. QED
    BY <1>5, <1>6, <2>1, AtPlacesAll
<1>8. ToSet(Ready(d)) \cup ToSet(Deferred(d)) = ToSet(Known(d))
  BY <1>5, <1>7 DEF ToSet
<1>9. QED
  BY <1>3, <1>4, <1>8 DEF queue

\* What is queued after a wave: what was, and what each of its nodes leads to that was not
\* visited when the node's result was taken.
LeadsOn(d, k) == ToSet(LeadsTo(d, driver[d].wave[k])) \ VisitedBy(d, k)

\* The queue that a wave leaves behind.
LEMMA TakenHolds ==
  ASSUME NEW d, driver[d].queue \in Seq(Handles), driver[d].wave \in Seq(Node)
  PROVE  ToSet(Taken(d)) = ToSet(driver[d].queue) \cup UNION {LeadsOn(d, k) : k \in 1..Len(driver[d].wave)}
<1> DEFINE N == Len(driver[d].wave)
           Holding(m) == ToSet(driver[d].queue) \cup UNION {LeadsOn(d, k) : k \in 1..m}
<1>1. N \in Nat /\ \A k \in 1..N : driver[d].wave[k] \in Node
  BY LenProperties, ElementOfSeq
<1>2. ASSUME NEW k \in 1..N, NEW q \in Seq(Handles)
      PROVE  /\ Next1(d, k, q) \in Seq(Handles)
             /\ ToSet(Next1(d, k, q)) = ToSet(q) \cup LeadsOn(d, k)
  <2>1. LeadsTo(d, driver[d].wave[k]) \in Seq(Handles)
    <3>1. <<>> \in Seq(Node)
      BY EmptySeq
    <3>2. LeadsTo(d, driver[d].wave[k]) \in Seq(Node)
      BY <3>1, LeadsIn DEF LeadsTo
    <3>3. QED
      BY <3>2, SeqOfNodesIsOfHandles
  <2>2. QED
    BY <1>2, <2>1, EnqueueIn, EnqueueHolds DEF Next1, LeadsOn
<1>3. PICK queue : GrowsTo(d, queue, N) /\ Taken(d) = queue[N]
  BY TakenGrows
<1> HIDE DEF N
<1>4. \A k \in 0..N : queue[k] \in Seq(Handles) /\ ToSet(queue[k]) = Holding(k)
  <2> DEFINE Bad == {k \in 0..N : ~(queue[k] \in Seq(Handles) /\ ToSet(queue[k]) = Holding(k))}
  <2> SUFFICES ASSUME Bad # {} PROVE FALSE
    OBVIOUS
  <2>1. PICK k \in Bad : \A l \in Bad : k =< l
    <3>1. Bad \subseteq Nat
      BY <1>1
    <3> HIDE DEF Bad
    <3>2. QED
      BY <3>1, Smallest
  <2>2. queue[0] = driver[d].queue /\ ToSet(queue[0]) = Holding(0)
    BY <1>1, <1>3 DEF GrowsTo
  <2>3. k # 0
    BY <2>2
  <2>4. k - 1 \in 0..N /\ k \in 1..N /\ queue[k] = Next1(d, k, queue[k - 1])
    BY <1>1, <1>3, <2>1, <2>3 DEF GrowsTo
  <2>5. queue[k - 1] \in Seq(Handles) /\ ToSet(queue[k - 1]) = Holding(k - 1)
    BY <2>1, <2>4
  <2>6. queue[k] \in Seq(Handles) /\ ToSet(queue[k]) = Holding(k - 1) \cup LeadsOn(d, k)
    BY <1>2, <2>4, <2>5
  <2>7. 1..k = (1..(k - 1)) \cup {k}
    BY <2>4
  <2>8. Holding(k) = Holding(k - 1) \cup LeadsOn(d, k)
    BY <2>7
  <2>9. QED
    BY <2>1, <2>6, <2>8
<1>5. ToSet(Taken(d)) = Holding(N)
  BY <1>1, <1>3, <1>4
<1>6. QED
  BY <1>5 DEF N

\* A node that has an attempt, and one whose last attempt is a success with a full output.
Tried(n) == \E i \in DOMAIN rows : rows[i].node = n

\* No attempt of a node is behind the i-th.
LastOf(n, i) == \A j \in DOMAIN rows : rows[j].node = n => j =< i

\* The last attempt of a node is a success with the output that its successors read.
LastFull(n) ==
  \E i \in DOMAIN rows : rows[i].node = n /\ rows[i].status = "success" /\ rows[i].out = "full" /\ LastOf(n, i)

\* That is what the snapshot of a node says.
LEMMA SnapshotSays ==
  ASSUME rows \in Seq(Attempts), NEW n
  PROVE  /\ Snapshot(n).status # "none" <=> Tried(n)
         /\ LastFull(n) <=> Snapshot(n) = [status |-> "success", out |-> "full"]
<1> DEFINE places == {i \in 1..Len(rows) : rows[i].node = n}
<1>0. Len(rows) \in Nat /\ DOMAIN rows = 1..Len(rows) /\ \A i \in DOMAIN rows : rows[i] \in Attempts
  BY LenProperties, ElementOfSeq
<1>1. places # {} => Max(places) \in places /\ \A j \in places : j =< Max(places)
  <2>1. places \subseteq 1..Len(rows)
    OBVIOUS
  <2> HIDE DEF places
  <2>2. QED
    BY <1>0, <2>1, LastPlace
<1>2. Latest(n) = IF places # {} THEN Max(places) ELSE 0
  BY DEF Latest, SelectLastInSeq
<1>3. CASE places = {}
  <2>1. ~Tried(n) /\ ~LastFull(n)
    BY <1>0, <1>3 DEF Tried, LastFull
  <2>2. Snapshot(n) = [status |-> "none", out |-> ""]
    BY <1>2, <1>3 DEF Snapshot
  <2>3. Snapshot(n).status = "none"
    BY <1>2, <1>3 DEF Snapshot
  <2>4. [status |-> "success", out |-> "full"].status = "success"
    OBVIOUS
  <2>5. QED
    BY <2>1, <2>3, <2>4
<1>4. CASE places # {}
  <2> DEFINE i == Max(places)
  <2>1. i \in DOMAIN rows /\ rows[i].node = n /\ LastOf(n, i) /\ i # 0
    BY <1>0, <1>1, <1>4 DEF LastOf
  <2>2. Snapshot(n) = [status |-> rows[i].status, out |-> rows[i].out]
    BY <1>2, <1>4, <2>1 DEF Snapshot
  <2> HIDE DEF i, places
  <2>3. Snapshot(n).status = rows[i].status /\ rows[i].status # "none" /\ Tried(n)
    BY <1>0, <2>1, <2>2 DEF Attempts, RowStatuses, Tried
  <2>4. ASSUME LastFull(n) PROVE rows[i].status = "success" /\ rows[i].out = "full"
    <3>1. PICK j \in DOMAIN rows : rows[j].node = n /\ rows[j].status = "success" /\ rows[j].out = "full" /\ LastOf(n, j)
      BY <2>4 DEF LastFull
    <3>2. i =< j /\ j =< i
      BY <2>1, <3>1 DEF LastOf
    <3>3. i = j
      BY <1>0, <2>1, <3>1, <3>2
    <3>4. QED
      BY <3>1, <3>3
  <2>5. ASSUME Snapshot(n) = [status |-> "success", out |-> "full"] PROVE LastFull(n)
    <3>1. rows[i].status = "success" /\ rows[i].out = "full"
      BY <2>2, <2>5
    <3>2. QED
      BY <2>1, <3>1 DEF LastFull
  <2>6. QED
    BY <2>2, <2>3, <2>4, <2>5
<1>5. QED
  BY <1>3, <1>4

\* The recovery loop resumes a run that waits for recovery, and does nothing else.
LoopFits ==
  /\ op[Loop].pc \in {"new", "status", "busy", "plan", "close", "reopen", "spawn", "done"}
  /\ op[Loop].kind \in {"none", "resume"}
  /\ Loop \in UnderWay =>
       /\ op[Loop].kind = "resume"
       /\ run.status = IF On(Loop, "spawn") THEN "running" ELSE "waiting_recovery"

\* A call creates the run: while it is under way the row says how far it is.
StartFits(o) ==
  /\ op[o].pc \in {"new", "create", "reopen", "spawn", "done"}
  /\ op[o].kind \in {"none", "start"}
  /\ o \in UnderWay =>
       /\ op[o].kind = "start"
       /\ run.status = CASE On(o, "create") -> "none" [] On(o, "reopen") -> "pending" [] OTHER -> "running"

\* Where a call can be.
CallFits(o) == IF o = Loop THEN LoopFits ELSE StartFits(o)

\* While a driver is at work no call is under way, and the run is running until it leaves.
DriverFits(d) ==
  Live(d) =>
    /\ UnderWay = {}
    /\ driver[d].place # "load"
    /\ run.status \in IF At(d, "leaving") THEN {"success", "failed", "waiting"} ELSE {"running"}

\* One call or one driver at a time, which nobody cancels.
Solo ==
  /\ cancelled = {}
  /\ \A o \in Callers : CallFits(o)
  /\ \A o, p \in UnderWay : o = p
  /\ \A d, e \in Drivers : Live(d) /\ Live(e) => d = e
  /\ \A d \in Drivers : DriverFits(d)

\* What is left of it to show when no call is under way afterwards.
LEMMA SoloRests ==
  ASSUME cancelled' = {},
         \A o \in Callers : op'[o].pc \in {"new", "done"} /\ op'[o].kind \in {"none", IF o = Loop THEN "resume" ELSE "start"},
         \A d, e \in Drivers : Live(d)' /\ Live(e)' => d = e,
         \A d \in Drivers : Live(d)' =>
           /\ driver'[d].place # "load"
           /\ run'.status \in IF driver'[d].place = "leaving" THEN {"success", "failed", "waiting"} ELSE {"running"}
  PROVE  Solo'
<1>1. UnderWay' = {}
  BY DEF UnderWay
<1>2. \A o \in Callers : CallFits(o)'
  <2> SUFFICES ASSUME NEW o \in Callers PROVE CallFits(o)'
    OBVIOUS
  <2>1. CASE o = Loop
    BY <1>1, <2>1 DEF CallFits, LoopFits
  <2>2. CASE o # Loop
    BY <1>1, <2>2 DEF CallFits, StartFits
  <2>3. QED
    BY <2>1, <2>2
<1>3. \A d \in Drivers : DriverFits(d)'
  BY <1>1 DEF DriverFits, At
<1>4. QED
  BY <1>1, <1>2, <1>3 DEF Solo

\* When one is and no driver is.
LEMMA SoloCalls ==
  ASSUME cancelled' = {}, \A d \in Drivers : ~Live(d)', NEW o \in Callers, CallFits(o)',
         \A p \in Callers \ {o} : op'[p].pc \in {"new", "done"}
                                 /\ op'[p].kind \in {"none", IF p = Loop THEN "resume" ELSE "start"}
  PROVE  Solo'
<1>1. UnderWay' \subseteq {o}
  BY DEF UnderWay
<1>2. \A p \in Callers \ {o} : CallFits(p)'
  <2> SUFFICES ASSUME NEW p \in Callers \ {o} PROVE CallFits(p)'
    OBVIOUS
  <2>1. CASE p = Loop
    BY <1>1, <2>1 DEF CallFits, LoopFits
  <2>2. CASE p # Loop
    BY <1>1, <2>2 DEF CallFits, StartFits
  <2>3. QED
    BY <2>1, <2>2
<1>3. \A d \in Drivers : DriverFits(d)'
  BY DEF DriverFits
<1>4. QED
  BY <1>1, <1>2, <1>3 DEF Solo

\* A driver's step: only a live driver takes one, and what it leaves the run with.
LEMMA DriverWrites ==
  ASSUME Types, cancelled = {}, NEW d \in Drivers, DriverStep(d), At(d, "leaving") \/ run.status = "running"
  PROVE  /\ Live(d) /\ cancelled' = {}
         /\ \/ driver'[d].place = "done"
            \/ driver'[d].place \in {"started", "queue", "announce", "wave"} /\ run'.status = "running"
            \/ driver'[d].place = "leaving" /\ run'.status \in {"success", "failed", "waiting"}
<1>0. DriverTyped /\ d \notin cancelled /\ RunTyped
  BY DEF Types
<1> USE DEF At
<1>1. CASE StartInserts(d) \/ StartEnds(d)
  <2>1. Live(d) /\ cancelled' = {} /\ run' = run /\ run.status = "running"
    BY <1>1 DEF StartInserts, StartEnds, Live
  <2>2. driver'[d].place \in {"started", "queue"}
    BY <1>0, <1>1 DEF StartInserts, StartEnds, DriverTyped, DriverRecs
  <2>3. QED
    BY <2>1, <2>2
<1>2. CASE Loads(d)
  <2>1. Live(d) /\ cancelled' = {} /\ run' = run /\ run.status = "running"
    BY <1>2 DEF Loads, Live
  <2>2. PICK visited : driver' = [driver EXCEPT ![d].place = "queue", ![d].visited = visited]
    BY <1>0, <1>2, Zenon DEF Loads
  <2>3. driver'[d].place = "queue"
    BY <1>0, <2>2 DEF DriverTyped, DriverRecs
  <2>4. QED
    BY <2>1, <2>3
<1>3. CASE TakeWave(d)
  BY <1>0, <1>3 DEF TakeWave, Live, DriverTyped, DriverRecs
<1>4. CASE RunsDry(d)
  <2>1. Live(d) /\ cancelled' = {} /\ driver'[d].place = "leaving"
    BY <1>0, <1>4 DEF RunsDry, Live, Move, DriverTyped, DriverRecs
  <2>2. \E status \in {"failed", "success"} : \E fail : SetRun(status, fail)
    BY <1>0, <1>4 DEF RunsDry, DriverSetsRun
  <2>3. run'.status \in {"failed", "success"}
    BY <2>2 DEF SetRun
  <2>4. QED
    BY <2>1, <2>3
<1>5. CASE Announce(d)
  <2>1. Live(d) /\ cancelled' = {} /\ driver'[d].place = "wave"
    BY <1>0, <1>5 DEF Announce, Live, DriverTyped, DriverRecs
  <2>2. SetRun("running", "")
    BY <1>0, <1>5 DEF Announce, DriverSetsRun
  <2>3. run'.status = "running"
    BY <2>2 DEF SetRun
  <2>4. QED
    BY <2>1, <2>3
<1>6. ASSUME NEW n \in Node, Insert(d, n) \/ Refuse(d, n) \/ Occupy(d, n) \/ Busy(d, n)
                \/ Replies(d, n) \/ Errs(d, n) \/ Complete(d, n) \/ Evaluate(d, n)
      PROVE  Live(d) /\ cancelled' = {} /\ driver'[d].place = "wave" /\ run'.status = "running"
  <2>1. Live(d) /\ cancelled' = {} /\ driver[d].place = "wave" /\ run' = run /\ run.status = "running"
    BY <1>6 DEF Insert, Refuse, Occupy, Busy, Replies, Errs, Complete, Evaluate, Doing, Live
  <2>2. ASSUME NEW task, TaskGoes(d, n, task) PROVE driver'[d].place = driver[d].place
    BY <2>2, TaskGoesOn
  <2>3. CASE Insert(d, n)
    <3>1. PICK task : driver' = [driver EXCEPT ![d].task[n] = task, ![d].row[n] = Len(rows) + 1]
      BY <1>0, <2>3, Zenon DEF Insert
    <3>2. driver'[d].place = driver[d].place
      BY <1>0, <3>1 DEF DriverTyped, DriverRecs
    <3>3. QED
      BY <2>1, <3>2
  <2>4. CASE ~Insert(d, n)
    <3>1. \E task : TaskGoes(d, n, task)
      BY <1>6, <2>4 DEF Refuse, Occupy, Busy, Replies, Errs, Complete, Evaluate
    <3>2. QED
      BY <2>1, <2>2, <3>1
  <2>5. QED
    BY <2>3, <2>4
<1>7. CASE GoOn(d)
  BY <1>0, <1>7 DEF GoOn, WaveDone, Live, DriverTyped, DriverRecs
<1>8. CASE Settle(d)
  <2>1. Live(d) /\ cancelled' = {} /\ driver'[d].place = "leaving"
    BY <1>0, <1>8 DEF Settle, WaveDone, Live, Move, DriverTyped, DriverRecs
  <2>2. \E status \in {"failed", "waiting", "success"} : \E fail : SetRun(status, fail)
    BY <1>0, <1>8 DEF Settle, DriverSetsRun
  <2>3. run'.status \in {"failed", "waiting", "success"}
    BY <2>2 DEF SetRun
  <2>4. QED
    BY <2>1, <2>3
<1>9. CASE Leave(d)
  BY <1>0, <1>9 DEF Leave, Live, GoneDriver, NewDriver, DriverTyped, DriverRecs
<1>10. QED
  BY <1>1, <1>2, <1>3, <1>4, <1>5, <1>6, <1>7, <1>8, <1>9 DEF DriverStep, TaskStep

\* Every step keeps it that one call or one driver has the run.
LEMMA SoloStep ==
  ASSUME OpKinds \subseteq {"start"}, Types, Solo, [Next]_vars
  PROVE  Solo'
<1>0. /\ cancelled = {} /\ DriverTyped /\ OpTyped /\ Shape /\ Loop \in Callers
      /\ \A o \in Callers : CallFits(o) /\ op[o] \in OpRecs
      /\ \A d \in Drivers : DriverFits(d)
  BY TypesGiveShape DEF Types, Solo, Callers, OpTyped
<1>r. \A o \in Callers : o \notin UnderWay => /\ op[o].pc \in {"new", "done"}
                                            /\ op[o].kind \in {"none", IF o = Loop THEN "resume" ELSE "start"}
  <2> SUFFICES ASSUME NEW o \in Callers, o \notin UnderWay
               PROVE  op[o].pc \in {"new", "done"} /\ op[o].kind \in {"none", IF o = Loop THEN "resume" ELSE "start"}
    OBVIOUS
  <2>1. op[o].pc \in {"new", "done"}
    BY DEF UnderWay
  <2>2. CASE o = Loop
    BY <1>0, <2>1, <2>2 DEF CallFits, LoopFits
  <2>3. CASE o # Loop
    BY <1>0, <2>1, <2>3 DEF CallFits, StartFits
  <2>4. QED
    BY <2>2, <2>3
<1>g. GoneOp.pc = "done" /\ GoneOp.kind = "none" /\ NewOp.pc = "new" /\ NewOp.kind = "none"
  BY DEF GoneOp, NewOp
<1>1. ASSUME NEW d \in Drivers, DriverStep(d) PROVE Solo'
  <2>1. Live(d)
    BY <1>1 DEF DriverStep, TaskStep, StartInserts, StartEnds, Loads, TakeWave, RunsDry, Announce, Doing,
         Insert, Refuse, Occupy, Busy, Replies, Errs, Complete, Evaluate, GoOn, Settle, Leave, Live, At, WaveDone
  <2>2. UnderWay = {} /\ (At(d, "leaving") \/ run.status = "running")
    BY <1>0, <2>1 DEF DriverFits
  <2>3. /\ cancelled' = {}
        /\ \/ driver'[d].place = "done"
           \/ driver'[d].place \in {"started", "queue", "announce", "wave"} /\ run'.status = "running"
           \/ driver'[d].place = "leaving" /\ run'.status \in {"success", "failed", "waiting"}
    BY <1>0, <1>1, <2>2, DriverWrites
  <2>4. op' = op /\ \A e \in Drivers \ {d} : driver'[e] = driver[e]
    BY <1>0, <1>1, DriverFrame
  <2>5. \A e \in Drivers \ {d} : ~Live(e) /\ ~Live(e)'
    BY <2>1, <2>4 DEF Solo, Live
  <2>6. \A e \in Drivers : Live(e)' => e = d
    BY <2>5
  <2>7. Live(d)' => /\ driver'[d].place # "load"
                    /\ run'.status \in IF driver'[d].place = "leaving" THEN {"success", "failed", "waiting"}
                                       ELSE {"running"}
    BY <2>3 DEF Live
  <2>8. \A o \in Callers : op'[o].pc \in {"new", "done"} /\ op'[o].kind \in {"none", IF o = Loop THEN "resume" ELSE "start"}
    BY <1>r, <2>2, <2>4
  <2>9. QED
    BY <2>3, <2>6, <2>7, <2>8, SoloRests
<1>2. ASSUME NEW o \in Callers, OpStep(o) PROVE Solo'
  <2>0. op[o].pc \notin {"new", "done"}
    BY <1>2 DEF OpStep, Create, Reopen, Spawn, Look, Cancel, List, Mark, Read, Write, AbortRow, AbortRun,
         Status, Again, Find, Answer, Decide, AskBusy, Plan, Close, On
  <2>1. o \in UnderWay
    BY <2>0 DEF UnderWay
  <2>2. /\ \A p \in Callers \ {o} : p \notin UnderWay
        /\ \A d \in Drivers : ~Live(d)
    BY <1>0, <2>1 DEF Solo, DriverFits
  <2>3. CallFits(o) /\ op[o] \in OpRecs
    BY <1>0
  <2>4. \/ Create(o) \/ Reopen(o) \/ Spawn(o) \/ Status(o) \/ AskBusy(o) \/ Plan(o) \/ Close(o)
    <3>1. op[o].pc \in {"create", "reopen", "spawn", "status", "busy", "plan", "close"}
      BY <2>0, <2>3 DEF CallFits, LoopFits, StartFits
    <3>2. QED
      BY <1>2, <3>1 DEF OpStep, Look, Cancel, List, Mark, Read, Write, AbortRow, AbortRun, Find, Again,
           Answer, Decide, On
  <2>5. cancelled' = {}
    BY <1>0, <2>4 DEF Create, Reopen, Spawn, Status, AskBusy, Plan, Close
  <2>6. ASSUME \A p \in Callers \ {o} : op'[p] = op[p], \A d \in Drivers : ~Live(d)', CallFits(o)'
        PROVE  Solo'
    <3>1. \A p \in Callers \ {o} : op'[p].pc \in {"new", "done"}
                                 /\ op'[p].kind \in {"none", IF p = Loop THEN "resume" ELSE "start"}
      BY <1>r, <2>2, <2>6
    <3>2. QED
      BY <2>5, <2>6, <3>1, SoloCalls
  <2>7. ASSUME driver' = driver, OpEnds(o) PROVE Solo'
    <3>1. op'[o] = GoneOp /\ \A p \in Callers \ {o} : op'[p] = op[p]
      BY <1>0, <2>7 DEF OpEnds, OpTyped
    <3>2. \A p \in Callers : op'[p].pc \in {"new", "done"} /\ op'[p].kind \in {"none", IF p = Loop THEN "resume" ELSE "start"}
      BY <1>r, <1>g, <2>2, <3>1
    <3>3. \A d \in Drivers : ~Live(d)'
      BY <2>2, <2>7 DEF Live
    <3>4. QED
      BY <2>5, <3>2, <3>3, SoloRests
  <2>8. ASSUME NEW r, op' = [op EXCEPT ![o] = r], r.kind = op[o].kind, driver' = driver,
               IF o = Loop
               THEN /\ r.pc \in {"busy", "plan", "close", "reopen", "spawn"}
                    /\ run'.status = IF r.pc = "spawn" THEN "running" ELSE "waiting_recovery"
               ELSE /\ r.pc \in {"reopen", "spawn"}
                    /\ run'.status = IF r.pc = "reopen" THEN "pending" ELSE "running"
        PROVE  Solo'
    <3>1. op'[o] = r /\ \A p \in Callers \ {o} : op'[p] = op[p]
      BY <1>0, <2>8 DEF OpTyped
    <3>2. CASE o = Loop
      BY <2>1, <2>3, <2>6, <2>2, <2>8, <3>1, <3>2 DEF CallFits, LoopFits, On, Live
    <3>3. CASE o # Loop
      BY <2>1, <2>3, <2>6, <2>2, <2>8, <3>1, <3>3 DEF CallFits, StartFits, On, Live
    <3>4. QED
      BY <3>2, <3>3
  <2>9. ASSUME NEW pc, OpGoes(o, pc), driver' = driver,
               IF o = Loop
               THEN /\ pc \in {"busy", "plan", "close", "reopen", "spawn"}
                    /\ run'.status = IF pc = "spawn" THEN "running" ELSE "waiting_recovery"
               ELSE /\ pc \in {"reopen", "spawn"}
                    /\ run'.status = IF pc = "reopen" THEN "pending" ELSE "running"
        PROVE  Solo'
    <3> DEFINE r == [op[o] EXCEPT !.pc = pc]
    <3>1. op' = [op EXCEPT ![o] = r] /\ r.kind = op[o].kind /\ r.pc = pc
      BY <2>3, <2>9 DEF OpGoes, OpRecs
    <3> HIDE DEF r
    <3>2. QED
      BY <2>8, <2>9, <3>1
  <2>10. CASE Create(o)
    <3>1. o # Loop
      BY <2>3, <2>10 DEF Create, On, CallFits, LoopFits
    <3>2. OpGoes(o, "reopen") /\ driver' = driver /\ run'.status = "pending"
      BY <2>10 DEF Create, SetRun
    <3>3. QED
      BY <2>9, <3>1, <3>2
  <2>11. CASE Reopen(o)
    <3>1. OpGoes(o, "spawn") /\ driver' = driver /\ run'.status = "running"
      BY <2>11 DEF Reopen, SetRun
    <3>2. QED
      BY <2>9, <3>1
  <2>12. CASE Spawn(o)
    <3>1. PICK d \in Drivers : d = NewGoroutine
      BY <2>12 DEF Spawn, NewGoroutine, Unused
    <3> DEFINE place == CASE op[o].kind = "start" -> "start" [] op[o].kind = "resume" -> "seeded"
                          [] OTHER -> "load"
    <3>2. place \in {"start", "seeded"}
      BY <2>1, <2>3 DEF CallFits, LoopFits, StartFits
    <3>3. driver' = [driver EXCEPT ![d].place = place, ![d].queue = op[o].starts, ![d].visited = op[o].seed]
      BY <2>12, <3>1 DEF Spawn
    <3> HIDE DEF place
    <3>4. driver'[d].place = place /\ \A e \in Drivers \ {d} : driver'[e] = driver[e]
      BY <1>0, <3>1, <3>3 DEF DriverTyped, DriverRecs
    <3>5. run' = run /\ run.status = "running"
      BY <2>1, <2>3, <2>12 DEF Spawn, On, CallFits, LoopFits, StartFits
    <3>6. \A e \in Drivers : Live(e)' => e = d
      BY <2>2, <3>4 DEF Live
    <3>7. op'[o] = GoneOp /\ \A p \in Callers \ {o} : op'[p] = op[p]
      BY <1>0, <2>12 DEF Spawn, OpEnds, OpTyped
    <3>8. \A p \in Callers : op'[p].pc \in {"new", "done"} /\ op'[p].kind \in {"none", IF p = Loop THEN "resume" ELSE "start"}
      BY <1>r, <1>g, <2>2, <3>7
    <3>9. driver'[d].place \notin {"load", "leaving"} /\ run'.status = "running"
      BY <3>2, <3>4, <3>5
    <3>10. QED
      BY <2>5, <3>6, <3>8, <3>9, SoloRests
  <2>13. ASSUME Status(o) \/ AskBusy(o) \/ Plan(o) \/ Close(o)
         PROVE  /\ o = Loop /\ op[o].kind = "resume" /\ driver' = driver
                /\ run.status = "waiting_recovery"
    <3>1. op[o].pc \in {"status", "busy", "plan", "close"} /\ driver' = driver
      BY <2>13 DEF Status, AskBusy, Plan, Close, On
    <3>2. o = Loop
      BY <2>3, <3>1 DEF CallFits, StartFits
    <3>3. QED
      BY <2>1, <2>3, <3>1, <3>2 DEF CallFits, LoopFits, On
  <2>14. CASE Status(o)
    <3>1. Allows(op[o].kind) /\ op[o].kind \notin Reviews /\ op[o].kind = "resume" /\ run' = run
      BY <2>13, <2>14 DEF Allows, Reviews, Status
    <3>2. OpGoes(o, "busy")
      BY <2>14, <3>1 DEF Status
    <3>3. QED
      BY <2>9, <2>13, <2>14, <3>1, <3>2
  <2>15. CASE AskBusy(o)
    <3>1. OpGoes(o, "plan") \/ OpEnds(o)
      BY <2>15 DEF AskBusy
    <3>2. run' = run
      BY <2>15 DEF AskBusy
    <3>3. QED
      BY <2>7, <2>9, <2>13, <2>15, <3>1, <3>2
  <2>16. CASE Plan(o)
    <3>1. PICK roots, seed : op' = [op EXCEPT ![o].pc = IF roots = <<>> THEN "close" ELSE "reopen",
                                               ![o].starts = roots, ![o].seed = seed]
      BY <2>16 DEF Plan
    <3> DEFINE r == [op[o] EXCEPT !.pc = IF roots = <<>> THEN "close" ELSE "reopen",
                                  !.starts = roots, !.seed = seed]
    <3>2. r.kind = op[o].kind /\ r.pc \in {"close", "reopen"} /\ op' = [op EXCEPT ![o] = r]
      BY <2>3, <3>1 DEF OpRecs
    <3> HIDE DEF r
    <3>3. run' = run
      BY <2>16 DEF Plan
    <3>4. QED
      BY <2>8, <2>13, <2>16, <3>2, <3>3
  <2>17. CASE Close(o)
    BY <2>7, <2>13, <2>17 DEF Close
  <2>18. QED
    BY <2>4, <2>10, <2>11, <2>12, <2>14, <2>15, <2>16, <2>17
<1>3. CASE Restart
  <2>1. cancelled' = {} /\ \A d \in Drivers : ~Live(d)'
    BY <1>3 DEF Restart, Live, NewDriver, GoneDriver
  <2>2. \A o \in Callers : op'[o] \in {NewOp, GoneOp}
    BY <1>3 DEF Restart
  <2>3. \A o \in Callers : op'[o].pc \in {"new", "done"} /\ op'[o].kind \in {"none", IF o = Loop THEN "resume" ELSE "start"}
    BY <1>g, <2>2
  <2>4. QED
    BY <2>1, <2>3, SoloRests
<1>4. ASSUME NEW o \in Ops, NEW kind \in OpKinds, Call(o, kind) PROVE Solo'
  <2>1. kind = "start" /\ o \in Callers /\ o # Loop
    BY <1>4, EngineAssumption DEF Callers
  <2>2. run.status = "none" /\ UnderWay = {} /\ run' = run /\ driver' = driver /\ cancelled' = {}
    BY <1>0, <1>4, <2>1 DEF Call
  <2>3. \A d \in Drivers : ~Live(d)'
    BY <1>0, <2>2 DEF DriverFits, Live
  <2> DEFINE r == [op[o] EXCEPT !.kind = kind, !.pc = FirstStep(kind)]
  <2>4. op' = [op EXCEPT ![o] = r] /\ r.kind = "start" /\ r.pc = "create"
    BY <1>0, <1>4, <2>1 DEF Call, FirstStep, OpRecs
  <2> HIDE DEF r
  <2>5. op'[o] = r /\ \A p \in Callers \ {o} : op'[p] = op[p]
    BY <1>0, <2>1, <2>4 DEF OpTyped
  <2>6. CallFits(o)'
    BY <2>1, <2>2, <2>4, <2>5 DEF CallFits, StartFits, On
  <2>7. \A p \in Callers \ {o} : op'[p].pc \in {"new", "done"}
                                 /\ op'[p].kind \in {"none", IF p = Loop THEN "resume" ELSE "start"}
    BY <1>r, <2>2, <2>5
  <2>8. QED
    BY <2>1, <2>2, <2>3, <2>6, <2>7, SoloCalls
<1>5. CASE LoopResumes
  <2>1. run.status = "waiting_recovery" /\ run' = run /\ driver' = driver /\ cancelled' = {}
    BY <1>0, <1>5 DEF LoopResumes
  <2>2. \A d \in Drivers : ~Live(d)'
    BY <1>0, <2>1 DEF DriverFits, Live
  <2>3. UnderWay = {}
    <3>1. Loop \notin UnderWay
      BY <1>5 DEF LoopResumes, LoopRests, UnderWay
    <3>2. \A o \in Callers : o # Loop => o \notin UnderWay
      BY <1>0, <2>1 DEF CallFits, StartFits
    <3>3. QED
      BY <3>1, <3>2 DEF UnderWay
  <2> DEFINE r == [NewOp EXCEPT !.kind = "resume", !.pc = "status"]
  <2>4. op' = [op EXCEPT ![Loop] = r] /\ r.kind = "resume" /\ r.pc = "status"
    BY <1>5 DEF LoopResumes, NewOp
  <2> HIDE DEF r
  <2>5. op'[Loop] = r /\ \A p \in Callers \ {Loop} : op'[p] = op[p]
    BY <1>0, <2>4 DEF OpTyped
  <2>6. CallFits(Loop)'
    BY <2>1, <2>4, <2>5 DEF CallFits, LoopFits, On
  <2>7. \A p \in Callers \ {Loop} : op'[p].pc \in {"new", "done"}
                                 /\ op'[p].kind \in {"none", IF p = Loop THEN "resume" ELSE "start"}
    BY <1>r, <2>3, <2>5
  <2>8. QED
    BY <1>0, <2>1, <2>2, <2>6, <2>7, SoloCalls
<1>6. CASE WindowEnds /\ run.status = "waiting_recovery"
  <2>1. driver' = driver /\ cancelled' = {} /\ op' = op
    BY <1>0, <1>6 DEF WindowEnds
  <2>2. \A d \in Drivers : ~Live(d)'
    BY <1>0, <1>6, <2>1 DEF DriverFits, Live
  <2>3. UnderWay = {}
    <3>1. Loop \notin UnderWay
      BY <1>6 DEF WindowEnds, LoopRests, UnderWay
    <3>2. \A o \in Callers : o # Loop => o \notin UnderWay
      BY <1>0, <1>6 DEF CallFits, StartFits
    <3>3. QED
      BY <3>1, <3>2 DEF UnderWay
  <2>4. \A o \in Callers : op'[o].pc \in {"new", "done"} /\ op'[o].kind \in {"none", IF o = Loop THEN "resume" ELSE "start"}
    BY <1>r, <2>1, <2>3
  <2>5. QED
    BY <2>1, <2>2, <2>4, SoloRests
<1>7. CASE (WindowEnds /\ run.status # "waiting_recovery") \/ UNCHANGED vars
  <2>1. run' = run /\ driver' = driver /\ cancelled' = cancelled /\ op' = op
    BY <1>7 DEF WindowEnds, vars
  <2>2. QED
    BY <2>1 DEF Solo, CallFits, LoopFits, StartFits, DriverFits, UnderWay, On, Live, At
<1>8. QED
  BY <1>1, <1>2, <1>3, <1>4, <1>5, <1>6, <1>7 DEF Next

\* What lies ahead of a driver: behind it is a set of visited nodes with all that lead to them,
\* and some node that is still to be done is behind every other node that is visited or to be done.
Ahead(rank, front, visited) ==
  \E S \in SUBSET visited :
    /\ \A n \in S : Sources(n) \subseteq S
    /\ S \cap front = {}
    /\ \E y \in front : \A v \in (visited \ S) \cup front : rank[y] =< rank[v]

\* It is enough that each of the other visited nodes has one before it.
LEMMA AheadIf ==
  ASSUME NEW rank \in [Node -> Nat], NEW front, front \subseteq Node, front # {},
         NEW visited, visited \subseteq Node, NEW S \in SUBSET visited,
         \A n \in S : Sources(n) \subseteq S, S \cap front = {},
         \A v \in visited \ S : \E f \in front : rank[f] =< rank[v]
  PROVE  Ahead(rank, front, visited)
<1> DEFINE T == {rank[f] : f \in front}
<1>1. PICK t \in T : \A u \in T : t =< u
  <2>1. T \subseteq Nat
    OBVIOUS
  <2>2. T # {}
    OBVIOUS
  <2> HIDE DEF T
  <2>3. QED
    BY <2>1, <2>2, Smallest
<1>2. PICK y \in front : rank[y] = t
  OBVIOUS
<1>3. \A f \in front : rank[y] =< rank[f]
  BY <1>1, <1>2
<1>4. ASSUME NEW v \in visited \ S PROVE rank[y] =< rank[v]
  <2>1. PICK f \in front : rank[f] =< rank[v]
    BY <1>4
  <2>2. rank[y] \in Nat /\ rank[f] \in Nat /\ rank[v] \in Nat /\ rank[y] =< rank[f]
    BY <1>3
  <2>3. QED
    BY <2>1, <2>2
<1>5. QED
  BY <1>3, <1>4 DEF Ahead

\* What leads to the nodes to be done was tried: a merge sees to it itself (mergeReady).
FromTried(front) == \A n \in front : Kind[n] # "merge" => \A p \in Sources(n) : Tried(p)

\* Nothing is tried before what leads to it.
TriedClosed == \A n \in Node : Tried(n) => \A p \in Sources(n) : Tried(p)

\* The plan of an automatic recovery: it goes on from its roots, or ends the run.
PlanFits(rank) ==
  /\ op[Loop].pc \in {"reopen", "spawn"} =>
       /\ ToSet(op[Loop].starts) \subseteq Node
       /\ Ahead(rank, ToSet(op[Loop].starts), op[Loop].seed)
       /\ FromTried(ToSet(op[Loop].starts))
  /\ On(Loop, "close") => \A n \in op[Loop].seed : LastFull(n)

\* The nodes that a driver still has to do.
Before(d) == ToSet(driver[d].queue) \cup ToSet(driver[d].wave)

\* They are ahead of whatever it has visited.
Advances(rank, d) ==
  /\ driver[d].place \in {"seeded", "queue", "announce", "wave"} =>
       Before(d) \subseteq Node /\ Ahead(rank, Before(d), driver[d].visited) /\ FromTried(Before(d))
  /\ driver[d].place \in {"unused", "start", "started", "seeded", "queue"} => driver[d].wave = <<>>

\* The attempt of a node of the current wave is its last one, and says what the task says.
TracksTask(d, n) ==
  /\ driver[d].task[n] # "idle"
  /\ driver[d].task[n] \in {"inserted", "asking", "done", "true", "false"} => Tried(n)
  /\ driver[d].task[n] \in {"inserted", "asking"} => LastOf(n, driver[d].row[n])
  /\ driver[d].task[n] = "done" /\ Kind[n] = "end" => LastFull(n)
  /\ driver[d].task[n] \in {"true", "false"} => Kind[n] = "condition"

\* So it is for all nodes of the wave.
Tracks(d) == At(d, "wave") => \A n \in ToSet(driver[d].wave) : TracksTask(d, n)

\* A success has an end node whose last attempt is a success.
Reached == run.status = "success" => \E n \in Node : Kind[n] = "end" /\ LastFull(n)

\* The inductive invariant, together with Solo and MergeInv.
EndInv(rank) ==
  /\ TriedClosed
  /\ PlanFits(rank)
  /\ \A d \in Drivers : Advances(rank, d) /\ Tracks(d)
  /\ Reached

\* What is to be shown of a driver's queue.
LEMMA AdvancesIf ==
  ASSUME NEW rank, NEW d, NEW front, NEW visited,
         ToSet(driver'[d].queue) \cup ToSet(driver'[d].wave) = front, driver'[d].visited = visited,
         front \subseteq Node, Ahead(rank, front, visited), FromTried(front)',
         driver'[d].place \in {"seeded", "queue"} => driver'[d].wave = <<>>,
         driver'[d].place \in {"seeded", "queue", "announce", "wave"}
  PROVE  Advances(rank, d)'
<1>1. Before(d)' = front
  BY DEF Before
<1>2. Ahead(rank, Before(d)', driver'[d].visited)
  BY <1>1
<1>3. \A n \in Before(d)' : Kind[n] # "merge" => \A p \in Sources(n) : Tried(p)'
  BY <1>1 DEF FromTried
<1>4. QED
  BY <1>1, <1>2, <1>3 DEF Advances, FromTried, Ahead

\* Attempts are written, and none is inserted.
NodesKept == DOMAIN rows' = DOMAIN rows /\ \A j \in DOMAIN rows : rows'[j].node = rows[j].node

\* A step that inserts nothing.
LEMMA KeepsNodes ==
  ASSUME NodesKept, NEW n
  PROVE  /\ Tried(n)' <=> Tried(n)
         /\ \A i : LastOf(n, i) => LastOf(n, i)'
         /\ (\A j \in DOMAIN rows : rows[j].node = n => rows'[j] = rows[j]) /\ LastFull(n) => LastFull(n)'
<1>1. Tried(n)' <=> Tried(n)
  BY DEF NodesKept, Tried
<1>2. \A i : LastOf(n, i) => LastOf(n, i)'
  BY DEF NodesKept, LastOf
<1>3. ASSUME \A j \in DOMAIN rows : rows[j].node = n => rows'[j] = rows[j], LastFull(n) PROVE LastFull(n)'
  <2>1. PICK i \in DOMAIN rows : rows[i].node = n /\ rows[i].status = "success" /\ rows[i].out = "full" /\ LastOf(n, i)
    BY <1>3 DEF LastFull
  <2>2. i \in DOMAIN rows' /\ rows'[i] = rows[i] /\ LastOf(n, i)'
    BY <1>2, <1>3, <2>1 DEF NodesKept
  <2>3. QED
    BY <2>1, <2>2 DEF LastFull
<1>4. QED
  BY <1>1, <1>2, <1>3

\* Such a step takes no attempt away.
LEMMA KeepsClosed == NodesKept /\ TriedClosed => TriedClosed'
<1> SUFFICES ASSUME NodesKept, TriedClosed, NEW n \in Node, Tried(n)', NEW p \in Sources(n) PROVE Tried(p)'
  BY DEF TriedClosed
<1>1. Tried(n)
  BY KeepsNodes
<1>2. Tried(p)
  BY <1>1 DEF TriedClosed
<1>3. QED
  BY <1>2, KeepsNodes

\* Neither does it take away what leads to the nodes to be done.
LEMMA KeepsFrom == ASSUME NodesKept, NEW front, FromTried(front) PROVE FromTried(front)'
<1> SUFFICES ASSUME NEW n \in front, Kind[n] # "merge", NEW p \in Sources(n) PROVE Tried(p)'
  BY DEF FromTried
<1>1. Tried(p)
  BY DEF FromTried
<1>2. QED
  BY <1>1, KeepsNodes

\* A write changes one attempt.
LEMMA SetRowNodes ==
  ASSUME rows \in Seq(Attempts), NEW i, NEW status, NEW out, SetRow(i, status, out)
  PROVE  /\ NodesKept
         /\ \A j \in DOMAIN rows : j # i => rows'[j] = rows[j]
         /\ i \in DOMAIN rows => rows'[i].status = status /\ rows'[i].out = out
<1>1. rows \in [DOMAIN rows -> Attempts]
  BY LenProperties
<1>2. rows' = [rows EXCEPT ![i].status = status, ![i].out = out]
  BY DEF SetRow
<1>3. QED
  BY <1>1, <1>2 DEF Attempts, NodesKept

\* The first result that settles the run, if there is one.
LEMMA SettlingFirst ==
  ASSUME NEW d, driver[d].wave \in Seq(Node)
  PROVE  /\ Settling(d) = 0 => \A n \in ToSet(driver[d].wave) : ~Settles(d, n)
         /\ Settling(d) # 0 => driver[d].wave[Settling(d)] \in ToSet(driver[d].wave)
                               /\ Settles(d, driver[d].wave[Settling(d)])
<1> DEFINE wave   == driver[d].wave
           places == {i \in 1..Len(wave) : Settles(d, wave[i])}
<1>0. Len(wave) \in Nat /\ DOMAIN wave = 1..Len(wave)
  BY LenProperties
<1>1. Settling(d) = IF places # {} THEN Min(places) ELSE 0
  BY DEF Settling, SelectInSeq
<1>2. places # {} => Min(places) \in places
  <2>1. places \subseteq Nat
    BY <1>0
  <2> HIDE DEF places
  <2>2. ASSUME places # {} PROVE \E i \in places : \A j \in places : i =< j
    BY <2>1, <2>2, Smallest
  <2>3. QED
    BY <2>2 DEF Min
<1>3. \A i \in places : i # 0 /\ i \in DOMAIN wave /\ Settles(d, wave[i])
  BY <1>0
<1>4. CASE places = {}
  <2>1. \A n \in ToSet(wave) : ~Settles(d, n)
    BY <1>0, <1>4 DEF ToSet
  <2>2. QED
    BY <1>1, <1>4, <2>1
<1>5. CASE places # {}
  <2> HIDE DEF places
  <2>1. Settling(d) \in places
    BY <1>1, <1>2, <1>5
  <2>2. QED
    BY <1>3, <2>1 DEF ToSet
<1>6. QED
  BY <1>4, <1>5

\* The choice of a wave: what a merge waits for is no further than the merge itself.
LEMMA TakeWaveAdvances ==
  ASSUME NEW rank, ForkJoin(rank), Types, Types', NEW d \in Drivers, TakeWave(d), Advances(rank, d)
  PROVE  Advances(rank, d)'
<1>0. DriverTyped /\ DriverTyped' /\ driver[d] \in DriverRecs /\ rows' = rows
  BY DEF Types, DriverTyped, TakeWave
<1> DEFINE more == UNION {MergeVisits(m) : m \in MergesOf(d)}
<1>a. PICK front, V : front = ToSet(driver[d].queue) /\ V = driver[d].visited \cup more
  OBVIOUS
<1>1. /\ driver'[d].place = "announce" /\ driver'[d].wave = Ready(d) /\ driver'[d].queue = Deferred(d)
      /\ driver'[d].visited = V
  BY <1>0, <1>a DEF TakeWave, DriverTyped, DriverRecs
<1>2. driver[d].place = "queue" /\ driver[d].wave = <<>>
  BY DEF TakeWave, At, Advances
<1>3. Before(d) = front
  BY <1>2, <1>a DEF Before, ToSet
<1>4. front \subseteq Node /\ Ahead(rank, front, driver[d].visited) /\ FromTried(front)
  BY <1>2, <1>3 DEF Advances
<1>5. ToSet(Ready(d)) \cup ToSet(Deferred(d)) = front /\ ToSet(Known(d)) = front
  BY <1>0, <1>4, <1>a, QueuesHold DEF DriverRecs
<1>6. V \subseteq Node
  BY <1>0, <1>1 DEF DriverTyped, DriverRecs
<1>7. rank \in [Node -> Nat]
  BY DEF ForkJoin
<1>8. ASSUME NEW v \in more PROVE \E f \in front : rank[f] =< rank[v]
  <2>1. PICK m \in MergesOf(d) : v \in MergeVisits(m)
    BY <1>8
  <2>2. m \in front /\ m \in Node /\ Kind[m] = "merge"
    BY <1>4, <1>5, <2>1 DEF MergesOf
  <2>3. v \in ToSet(Needs(m))
    BY <2>1 DEF MergeVisits, ToSet
  <2>4. rank[m] < rank[v]
    BY <2>2, <2>3 DEF ForkJoin
  <2>5. rank[m] \in Nat /\ rank[v] \in Nat
    BY <1>6, <1>7, <1>8, <1>a, <2>2
  <2>6. QED
    BY <2>2, <2>4, <2>5
<1> HIDE DEF more
<1>9. PICK S \in SUBSET driver[d].visited :
             /\ \A n \in S : Sources(n) \subseteq S
             /\ S \cap front = {}
             /\ \E y \in front : \A v \in (driver[d].visited \ S) \cup front : rank[y] =< rank[v]
  BY <1>4 DEF Ahead
<1>10. front # {} /\ \A v \in V \ S : \E f \in front : rank[f] =< rank[v]
  BY <1>8, <1>9, <1>a
<1>11. Ahead(rank, front, V)
  BY <1>4, <1>6, <1>7, <1>9, <1>10, <1>a, AheadIf
<1>12. FromTried(front)'
  <2>1. NodesKept
    BY <1>0 DEF NodesKept
  <2>2. QED
    BY <1>4, <2>1, KeepsFrom
<1>13. QED
  BY <1>1, <1>4, <1>5, <1>11, <1>12, AdvancesIf

\* A queue that has nothing ready has something deferred.
LEMMA DryIsDeferred ==
  ASSUME NEW rank, Types, NEW d \in Drivers, At(d, "queue"), Advances(rank, d), Ready(d) = <<>>
  PROVE  Deferred(d) # <<>>
<1>1. driver[d] \in DriverRecs
  BY DEF Types, DriverTyped
<1>2. Before(d) \subseteq Node /\ Ahead(rank, Before(d), driver[d].visited) /\ driver[d].wave = <<>>
  BY DEF Advances, At
<1>3. Before(d) = ToSet(driver[d].queue)
  BY <1>2 DEF Before, ToSet
<1>4. \E y : y \in ToSet(driver[d].queue)
  BY <1>2, <1>3 DEF Ahead
<1>5. ToSet(Ready(d)) \cup ToSet(Deferred(d)) # {}
  BY <1>1, <1>2, <1>3, <1>4, QueuesHold DEF DriverRecs
<1>6. QED
  BY <1>5 DEF ToSet

\* After a wave: of the node that is behind every other one what it leads to is not visited
\* yet, for whatever is visited with all that lead to it does not come after it.
LEMMA GoOnAdvances ==
  ASSUME NEW rank, ForkJoin(rank), Types, Types', NEW d \in Drivers, GoOn(d), Advances(rank, d), Tracks(d)
  PROVE  Advances(rank, d)'
<1> DEFINE wave == driver[d].wave
           N == Len(driver[d].wave)
<1>a. PICK front, V : front = ToSet(Taken(d)) /\ V = driver[d].visited \cup ToSet(wave)
  OBVIOUS
<1>0. DriverTyped /\ DriverTyped' /\ driver[d] \in DriverRecs /\ rows' = rows
  BY DEF Types, DriverTyped, GoOn
<1>1. /\ N \in Nat /\ DOMAIN wave = 1..N /\ wave \in Seq(Node) /\ ToSet(wave) \subseteq Node
      /\ driver[d].queue \in Seq(Handles) /\ driver[d].visited \subseteq Node
  <2>1. wave \in Seq(Node) /\ driver[d].queue \in Seq(Handles) /\ driver[d].visited \subseteq Node
    BY <1>0 DEF DriverRecs
  <2>2. QED
    BY <2>1, LenProperties, ElementOfSeq DEF ToSet
<1>2. VisitedBy(d, N) = V /\ \A k \in 1..N : driver[d].visited \subseteq VisitedBy(d, k) /\ VisitedBy(d, k) \subseteq V
  BY <1>1, <1>a DEF VisitedBy, ToSet
<1>3. /\ driver'[d].place = "queue" /\ driver'[d].wave = <<>> /\ driver'[d].queue = Taken(d)
      /\ driver'[d].visited = V
  BY <1>0, <1>2 DEF GoOn, DriverTyped, DriverRecs
<1>4. At(d, "wave") /\ \A n \in ToSet(wave) : driver[d].task[n] \notin {"new", "inserted", "asking"} /\ ~Settles(d, n)
  BY <1>1, SettlingFirst DEF GoOn, WaveDone
<1>5. Before(d) \subseteq Node /\ Ahead(rank, Before(d), driver[d].visited) /\ FromTried(Before(d))
  BY <1>4 DEF Advances, At
<1>6. rank \in [Node -> Nat]
  BY DEF ForkJoin
<1>7. ASSUME NEW n \in ToSet(wave)
      PROVE  /\ n \in Node /\ n \in Before(d) /\ Tried(n)
             /\ LeadsTo(d, n) \in Seq(Node) /\ LeadsTo(d, n) # <<>>
             /\ \A s \in ToSet(LeadsTo(d, n)) : s \in Node /\ n \in Sources(s)
  <2>1. n \in Node /\ n \in Before(d)
    BY <1>1 DEF Before
  <2>2. driver[d].task[n] \in {"done", "true", "false"} /\ Kind[n] # "end"
    <3>1. driver[d].task[n] \in Tasks
      BY <1>0, <2>1 DEF DriverRecs
    <3>2. driver[d].task[n] # "idle"
      BY <1>4 DEF Tracks, TracksTask
    <3>3. QED
      BY <1>4, <3>1, <3>2 DEF Settles, Tasks
  <2>3. Tried(n)
    BY <1>4, <2>2 DEF Tracks, TracksTask
  <2>4. CASE Kind[n] = "condition"
    <3> DEFINE ok == driver[d].task[n] = "true"
    <3>1. LeadsTo(d, n) = ConditionNext(n, ok) /\ ok \in BOOLEAN
      BY <2>4 DEF LeadsTo
    <3> HIDE DEF ok
    <3>2. ConditionNext(n, ok) \in Seq(Node) /\ ConditionNext(n, ok) # <<>>
      BY <2>1, <2>4, <3>1, LeadsIn DEF ForkJoin
    <3>3. \A s \in ToSet(ConditionNext(n, ok)) : s \in Node
      BY <3>2, LenProperties, ElementOfSeq DEF ToSet
    <3>4. \A s \in ToSet(ConditionNext(n, ok)) : n \in Sources(s)
      BY LeadsFrom
    <3>5. QED
      BY <2>1, <2>3, <3>1, <3>2, <3>3, <3>4
  <2>5. CASE Kind[n] # "condition"
    <3>1. LeadsTo(d, n) = Successors(n)
      BY <2>2, <2>5 DEF LeadsTo
    <3>2. Successors(n) \in Seq(Node) /\ Successors(n) # <<>>
      BY <2>1, <2>2, <2>5, LeadsIn DEF ForkJoin
    <3>3. \A s \in ToSet(Successors(n)) : s \in Node /\ n \in Sources(s)
      BY <3>2, LeadsFrom, LenProperties, ElementOfSeq DEF ToSet
    <3>4. QED
      BY <2>1, <2>3, <3>1, <3>2, <3>3
  <2>6. QED
    BY <2>4, <2>5
<1>8. front = ToSet(driver[d].queue) \cup UNION {LeadsOn(d, k) : k \in 1..N}
  BY <1>1, <1>a, TakenHolds
<1> HIDE DEF N, wave
<1>9. \A k \in 1..N : wave[k] \in ToSet(wave) /\ LeadsOn(d, k) = ToSet(LeadsTo(d, wave[k])) \ VisitedBy(d, k)
  BY <1>1 DEF LeadsOn, ToSet, wave
<1>10. front \subseteq Node
  BY <1>5, <1>7, <1>8, <1>9 DEF Before
<1>11. FromTried(front)'
  <2> SUFFICES ASSUME NEW s \in front, Kind[s] # "merge", NEW p \in Sources(s) PROVE Tried(p)'
    BY DEF FromTried
  <2>1. Tried(p)
    <3>1. CASE s \in ToSet(driver[d].queue)
      BY <1>5, <3>1 DEF FromTried, Before
    <3>2. CASE s \notin ToSet(driver[d].queue)
      <4>1. PICK k \in 1..N : s \in LeadsOn(d, k)
        BY <1>8, <3>2
      <4>2. wave[k] \in Sources(s) /\ Tried(wave[k])
        BY <1>7, <1>9, <4>1
      <4>3. p = wave[k]
        BY <1>10, <4>2 DEF ForkJoin
      <4>4. QED
        BY <4>2, <4>3
    <3>3. QED
      BY <3>1, <3>2
  <2>2. QED
    BY <1>0, <2>1 DEF Tried
<1>12. PICK S \in SUBSET driver[d].visited, y \in Before(d) :
             /\ \A n \in S : Sources(n) \subseteq S
             /\ S \cap Before(d) = {}
             /\ \A v \in (driver[d].visited \ S) \cup Before(d) : rank[y] =< rank[v]
  BY <1>5 DEF Ahead
<1>13. S \cap front = {}
  BY <1>2, <1>8, <1>9, <1>12 DEF Before
<1>14. \E f \in front : rank[f] =< rank[y]
  <2>1. CASE y \in ToSet(driver[d].queue)
    BY <1>5, <1>6, <1>8, <1>12, <2>1
  <2>2. CASE y \in ToSet(wave)
    <3>1. PICK k \in 1..N : wave[k] = y
      BY <1>1, <2>2 DEF ToSet, N, wave
    <3>2. PICK s \in ToSet(LeadsTo(d, y)) : TRUE
      <4>1. LeadsTo(d, y) \in Seq(Node) /\ LeadsTo(d, y) # <<>>
        BY <1>7, <2>2
      <4>2. 1 \in DOMAIN LeadsTo(d, y)
        BY <4>1, LenProperties, EmptySeq
      <4>3. QED
        BY <4>2 DEF ToSet
    <3>3. s \in Node /\ y \in Sources(s) /\ y \in Node
      BY <1>7, <2>2, <3>2
    <3>4. rank[s] < rank[y] /\ rank[s] \in Nat /\ rank[y] \in Nat
      BY <1>6, <3>3 DEF ForkJoin
    <3>5. s \notin V
      <4>1. s \notin S
        BY <1>12, <3>3
      <4>2. ~(rank[y] =< rank[s])
        BY <3>4
      <4>3. s \notin driver[d].visited /\ s \notin Before(d)
        BY <1>12, <4>1, <4>2
      <4>4. QED
        BY <1>a, <4>3 DEF Before, wave
    <3>6. s \in LeadsOn(d, k)
      BY <1>2, <1>9, <3>1, <3>2, <3>5
    <3>7. QED
      BY <1>8, <3>4, <3>6
  <2>3. QED
    BY <1>12, <2>1, <2>2 DEF Before, wave
<1>15. \A v \in V \ S : \E f \in front : rank[f] =< rank[v]
  <2> SUFFICES ASSUME NEW v \in V \ S PROVE \E f \in front : rank[f] =< rank[v]
    OBVIOUS
  <2>1. rank[y] =< rank[v]
    BY <1>a, <1>12 DEF Before, wave
  <2>2. PICK f \in front : rank[f] =< rank[y]
    BY <1>14
  <2>3. rank[f] \in Nat /\ rank[y] \in Nat /\ rank[v] \in Nat
    BY <1>1, <1>5, <1>6, <1>10, <1>12, <1>a DEF wave
  <2>4. QED
    BY <2>1, <2>2, <2>3
<1>16. V \subseteq Node /\ front # {} /\ S \in SUBSET V
  BY <1>1, <1>12, <1>14, <1>a DEF wave
<1>17. Ahead(rank, front, V)
  BY <1>6, <1>10, <1>12, <1>13, <1>15, <1>16, AheadIf
<1>18. ToSet(driver'[d].queue) \cup ToSet(driver'[d].wave) = front
  BY <1>3, <1>a DEF ToSet
<1>19. QED
  BY <1>3, <1>10, <1>11, <1>17, <1>18, AdvancesIf

\* The insertion of a wave's attempt: all that leads to its node has one already.
LEMMA InsertEnds ==
  ASSUME NEW rank, ForkJoin(rank), Types, Solo, FillsOwnRow, ChosenHasInputs, TriedClosed,
         NEW d \in Drivers, Advances(rank, d), Tracks(d), NEW n \in Node, Insert(d, n)
  PROVE  TriedClosed' /\ Advances(rank, d)' /\ Tracks(d)'
<1> DEFINE status == CASE Kind[n] = "human_review"         -> "waiting"
                       [] Kind[n] \in {"parallel", "merge"} -> "success"
                       [] OTHER                             -> "running"
           task   == IF Kind[n] = "human_review" THEN "waiting" ELSE "inserted"
<1>0. rows \in Seq(Attempts) /\ DriverTyped /\ d \notin cancelled /\ Shape
  BY TypesGiveShape DEF Types, Solo
<1>1. AddRow(n, status) /\ status \in RowStatuses
  BY <1>0 DEF Insert, RowStatuses
<1>2. driver' = [driver EXCEPT ![d].task[n] = task, ![d].row[n] = Len(rows) + 1]
  BY <1>0 DEF Insert
<1>3. task \in {"waiting", "inserted"} /\ At(d, "wave") /\ driver[d].task[n] = "new"
  BY DEF Insert, Doing
<1> HIDE DEF status, task
<1>4. /\ Len(rows) \in Nat /\ DOMAIN rows = 1..Len(rows) /\ DOMAIN rows' = 1..(Len(rows) + 1)
      /\ rows'[Len(rows) + 1].node = n
      /\ \A j \in DOMAIN rows : rows'[j] = rows[j]
  BY <1>0, <1>1, AddRowKeeps
<1>5. /\ driver'[d].place = "wave" /\ driver'[d].wave = driver[d].wave
      /\ driver'[d].queue = driver[d].queue /\ driver'[d].visited = driver[d].visited
      /\ driver'[d].task[n] = task /\ driver'[d].row[n] = Len(rows) + 1
      /\ \A m \in Node \ {n} : /\ driver'[d].row[m] = driver[d].row[m]
                               /\ driver'[d].task[m] = driver[d].task[m]
  BY <1>0, <1>2, <1>3 DEF DriverTyped, DriverRecs, At
<1>6. \A m : Tried(m) => Tried(m)'
  <2> SUFFICES ASSUME NEW m, Tried(m) PROVE Tried(m)'
    OBVIOUS
  <2>1. PICK i \in DOMAIN rows : rows[i].node = m
    BY DEF Tried
  <2>2. i \in DOMAIN rows' /\ rows'[i].node = m
    BY <1>4, <2>1
  <2>3. QED
    BY <2>2 DEF Tried
<1>7. \A m : Tried(m)' => Tried(m) \/ m = n
  <2> SUFFICES ASSUME NEW m, Tried(m)', m # n PROVE Tried(m)
    OBVIOUS
  <2>1. PICK i \in DOMAIN rows' : rows'[i].node = m
    BY DEF Tried
  <2>2. i \in DOMAIN rows
    BY <1>4, <2>1
  <2>3. QED
    BY <1>4, <2>1, <2>2 DEF Tried
<1>8. Before(d) \subseteq Node /\ Ahead(rank, Before(d), driver[d].visited) /\ FromTried(Before(d))
  BY <1>3 DEF Advances, At
<1>9. n \in ToSet(driver[d].wave) /\ n \in Before(d)
  BY <1>0, <1>3 DEF Shape, TasksInWave, Before
<1>10. \A p \in Sources(n) : Tried(p)
  <2>1. CASE Kind[n] = "merge"
    <3>1. Chosen(d, n)
      BY <1>3 DEF Chosen
    <3>2. \A p \in ToSet(Needs(n)) : HasSuccess(p)
      BY <2>1, <3>1 DEF ChosenHasInputs
    <3>3. \A p \in Sources(n) : HasSuccess(p)
      BY <2>1, <3>2 DEF ForkJoin
    <3>4. QED
      BY <3>3 DEF HasSuccess, Tried
  <2>2. CASE Kind[n] # "merge"
    BY <1>8, <1>9, <2>2 DEF FromTried
  <2>3. QED
    BY <2>1, <2>2
<1>11. TriedClosed'
  BY <1>6, <1>7, <1>10 DEF TriedClosed
<1>12. Advances(rank, d)'
  <2>1. PICK front, visited : front = Before(d) /\ visited = driver[d].visited
    OBVIOUS
  <2>2. FromTried(front)'
    BY <1>6, <1>8, <2>1 DEF FromTried
  <2>3. ToSet(driver'[d].queue) \cup ToSet(driver'[d].wave) = front
    BY <1>5, <2>1 DEF Before
  <2>4. QED
    BY <1>5, <1>8, <2>1, <2>2, <2>3, AdvancesIf
<1>13. ASSUME NEW m \in ToSet(driver[d].wave) PROVE TracksTask(d, m)'
  <2>0. TracksTask(d, m)
    BY <1>3, <1>13 DEF Tracks
  <2>m. m \in Node
    BY <1>8, <1>13 DEF Before
  <2>1. CASE m = n
    <3>1. Tried(n)'
      BY <1>4 DEF Tried
    <3>2. LastOf(n, driver[d].row[n])'
      BY <1>4, <1>5 DEF LastOf
    <3>3. QED
      BY <1>3, <1>5, <2>1, <3>1, <3>2 DEF TracksTask
  <2>2. CASE m # n
    <3>1. driver'[d].row[m] = driver[d].row[m] /\ driver'[d].task[m] = driver[d].task[m]
      BY <1>5, <2>2, <2>m
    <3>2. \A j \in DOMAIN rows' : rows'[j].node = m => j \in DOMAIN rows /\ rows[j].node = m /\ rows'[j] = rows[j]
      BY <1>4, <2>2
    <3>3. \A i : LastOf(m, i) => LastOf(m, i)'
      BY <3>2 DEF LastOf
    <3>4. LastFull(m) => LastFull(m)'
      <4> SUFFICES ASSUME LastFull(m) PROVE LastFull(m)'
        OBVIOUS
      <4>1. PICK i \in DOMAIN rows : rows[i].node = m /\ rows[i].status = "success" /\ rows[i].out = "full" /\ LastOf(m, i)
        BY DEF LastFull
      <4>2. i \in DOMAIN rows' /\ rows'[i] = rows[i] /\ LastOf(m, i)'
        BY <1>4, <3>3, <4>1
      <4>3. QED
        BY <4>1, <4>2 DEF LastFull
    <3>5. LastOf(m, driver[d].row[m]) => LastOf(m, driver[d].row[m])'
      <4>1. PICK i : i = driver[d].row[m]
        OBVIOUS
      <4>2. LastOf(m, i) => LastOf(m, i)'
        BY <3>3
      <4>3. QED
        BY <3>1, <4>1, <4>2 DEF LastOf
    <3>6. Tried(m) => Tried(m)'
      BY <1>6
    <3>7. QED
      BY <2>0, <3>1, <3>4, <3>5, <3>6 DEF TracksTask
  <2>3. QED
    BY <2>1, <2>2
<1>14. Tracks(d)'
  BY <1>5, <1>13 DEF Tracks
<1>15. QED
  BY <1>11, <1>12, <1>14

\* A task's step after its insertion, which writes at most its own attempt.
LEMMA TaskEnds ==
  ASSUME NEW rank, Types, TriedClosed, NEW d \in Drivers, At(d, "wave"), Advances(rank, d), Tracks(d),
         NEW n \in Node, NEW task, TaskGoes(d, n, task), NodesKept,
         \A j \in DOMAIN rows : rows[j].node # n => rows'[j] = rows[j],
         task # "idle",
         task \in {"inserted", "asking", "done", "true", "false"} => Tried(n),
         task \in {"inserted", "asking"} => LastOf(n, driver[d].row[n]),
         task = "done" /\ Kind[n] = "end" => LastFull(n)',
         task \in {"true", "false"} => Kind[n] = "condition"
  PROVE  TriedClosed' /\ Advances(rank, d)' /\ Tracks(d)'
<1>0. DriverTyped
  BY DEF Types
<1>1. /\ driver'[d].place = "wave" /\ driver'[d].wave = driver[d].wave /\ driver'[d].row = driver[d].row
      /\ driver'[d].queue = driver[d].queue /\ driver'[d].visited = driver[d].visited
      /\ driver'[d].task[n] = task
      /\ \A m \in Node \ {n} : driver'[d].task[m] = driver[d].task[m]
  BY <1>0 DEF TaskGoes, DriverTyped, DriverRecs, At
<1>2. TriedClosed'
  BY KeepsClosed
<1>3. Before(d) \subseteq Node /\ Ahead(rank, Before(d), driver[d].visited) /\ FromTried(Before(d))
  BY DEF Advances, At
<1>4. Advances(rank, d)'
  <2>1. PICK front, visited : front = Before(d) /\ visited = driver[d].visited
    OBVIOUS
  <2>2. FromTried(front)'
    BY <1>3, <2>1, KeepsFrom
  <2>3. ToSet(driver'[d].queue) \cup ToSet(driver'[d].wave) = front
    BY <1>1, <2>1 DEF Before
  <2>4. QED
    BY <1>1, <1>3, <2>1, <2>2, <2>3, AdvancesIf
<1>5. ASSUME NEW m \in ToSet(driver[d].wave) PROVE TracksTask(d, m)'
  <2>0. TracksTask(d, m) /\ m \in Node
    BY <1>3, <1>5 DEF Tracks, Before
  <2>1. Tried(m) => Tried(m)'
    BY KeepsNodes
  <2>2. LastOf(m, driver[d].row[m]) => LastOf(m, driver[d].row[m])'
    <3>1. PICK i : i = driver[d].row[m]
      OBVIOUS
    <3>2. LastOf(m, i) => LastOf(m, i)'
      BY KeepsNodes
    <3>3. QED
      BY <1>1, <3>1, <3>2 DEF LastOf
  <2>3. CASE m = n
    BY <1>1, <2>1, <2>2, <2>3 DEF TracksTask
  <2>4. CASE m # n
    <3>1. LastFull(m) => LastFull(m)'
      BY <2>4, KeepsNodes
    <3>2. driver'[d].row[m] = driver[d].row[m] /\ driver'[d].task[m] = driver[d].task[m]
      BY <1>1, <2>0, <2>4
    <3>3. QED
      BY <2>0, <2>1, <2>2, <3>1, <3>2 DEF TracksTask
  <2>5. QED
    BY <2>3, <2>4
<1>6. Tracks(d)'
  BY <1>1, <1>5 DEF Tracks
<1>7. QED
  BY <1>2, <1>4, <1>6

\* The tasks of a wave.
LEMMA TasksEnd ==
  ASSUME NEW rank, ForkJoin(rank), Types, Solo, AsksAreAgents, FillsOwnRow, ChosenHasInputs, TriedClosed,
         NEW d \in Drivers, Advances(rank, d), Tracks(d), TaskStep(d)
  PROVE  TriedClosed' /\ Advances(rank, d)' /\ Tracks(d)'
<1>0. rows \in Seq(Attempts) /\ DriverTyped /\ d \notin cancelled /\ Shape
  BY TypesGiveShape DEF Types, Solo
<1>1. PICK n \in Node : \/ Insert(d, n) \/ Refuse(d, n) \/ Occupy(d, n) \/ Busy(d, n)
                        \/ Replies(d, n) \/ Errs(d, n) \/ Complete(d, n) \/ Evaluate(d, n)
  BY DEF TaskStep
<1>2. CASE Insert(d, n)
  BY <1>2, InsertEnds
<1>3. CASE Refuse(d, n)
  <2>1. rows' = rows /\ TaskGoes(d, n, "error") /\ At(d, "wave")
    BY <1>3 DEF Refuse, Doing
  <2>2. NodesKept
    BY <2>1 DEF NodesKept
  <2>3. QED
    BY <2>1, <2>2, TaskEnds
<1>4. ASSUME Filling(d, n), At(d, "wave"), NEW status, NEW out, SetRow(driver[d].row[n], status, out),
             NEW task, TaskGoes(d, n, task),
             \/ task \in {"error", "asking"}
             \/ task = "done" /\ (Kind[n] = "end" => status = "success" /\ out = "full")
             \/ task \in {"true", "false"} /\ Kind[n] = "condition"
      PROVE  TriedClosed' /\ Advances(rank, d)' /\ Tracks(d)'
  <2>1. PICK i : i = driver[d].row[n]
    OBVIOUS
  <2>2. i \in DOMAIN rows /\ rows[i].node = n
    BY <1>4, <2>1 DEF FillsOwnRow
  <2>3. /\ NodesKept
        /\ \A j \in DOMAIN rows : j # i => rows'[j] = rows[j]
        /\ rows'[i].status = status /\ rows'[i].out = out
    BY <1>0, <1>4, <2>1, <2>2, SetRowNodes
  <2>4. n \in ToSet(driver[d].wave)
    BY <1>0, <1>4 DEF Shape, TasksInWave, Filling
  <2>5. TracksTask(d, n)
    BY <1>4, <2>4 DEF Tracks
  <2>6. Tried(n) /\ LastOf(n, i)
    BY <1>4, <2>1, <2>5 DEF TracksTask, Filling
  <2>7. ASSUME task = "done", Kind[n] = "end" PROVE LastFull(n)'
    <3>1. LastOf(n, i)'
      BY <2>3, <2>6, KeepsNodes
    <3>2. i \in DOMAIN rows' /\ rows'[i].node = n
      BY <2>2, <2>3 DEF NodesKept
    <3>3. status = "success" /\ out = "full"
      BY <1>4, <2>7
    <3>4. QED
      BY <2>3, <3>1, <3>2, <3>3 DEF LastFull
  <2>8. QED
    BY <1>4, <2>1, <2>2, <2>3, <2>6, <2>7, TaskEnds
<1>5. ASSUME Filling(d, n), At(d, "wave"), NEW status, NEW out, DriverSetsRow(d, driver[d].row[n], status, out),
             NEW task, TaskGoes(d, n, task),
             \/ task \in {"error", "asking"}
             \/ task = "done" /\ (Kind[n] = "end" => status = "success" /\ out = "full")
             \/ task \in {"true", "false"} /\ Kind[n] = "condition"
      PROVE  TriedClosed' /\ Advances(rank, d)' /\ Tracks(d)'
  BY <1>0, <1>4, <1>5 DEF DriverSetsRow
<1>6. CASE ~Insert(d, n) /\ ~Refuse(d, n)
  <2>0. Filling(d, n) /\ At(d, "wave")
    BY <1>1, <1>6 DEF Occupy, Busy, Replies, Errs, Complete, Evaluate, Doing, Filling
  <2>1. CASE Occupy(d, n)
    BY <1>4, <2>0, <2>1 DEF Occupy
  <2>2. CASE Busy(d, n)
    BY <1>5, <2>0, <2>2 DEF Busy
  <2>3. CASE Replies(d, n)
    <3>1. PICK out : DriverSetsRow(d, driver[d].row[n], "success", out)
      BY <2>3 DEF Replies
    <3>2. TaskGoes(d, n, "done") /\ Kind[n] = "agent"
      BY <2>3 DEF Replies, Doing, AsksAreAgents
    <3>3. QED
      BY <1>5, <2>0, <3>1, <3>2
  <2>4. CASE Errs(d, n)
    <3>1. SetRow(driver[d].row[n], "failed", "bare") /\ TaskGoes(d, n, "error")
      BY <1>0, <2>4 DEF Errs
    <3>2. QED
      BY <1>4, <2>0, <3>1
  <2>5. CASE Complete(d, n)
    <3>1. PICK out : out = IF Kind[n] = "parallel" THEN "bare" ELSE "full"
      OBVIOUS
    <3>2. DriverSetsRow(d, driver[d].row[n], "success", out) /\ TaskGoes(d, n, "done")
      BY <2>5, <3>1 DEF Complete
    <3>3. QED
      BY <1>5, <2>0, <3>1, <3>2
  <2>6. CASE Evaluate(d, n)
    <3>1. Kind[n] = "condition"
      BY <2>6 DEF Evaluate
    <3>2. \/ \E result \in {"true", "false"} :
               DriverSetsRow(d, driver[d].row[n], "success", "full") /\ TaskGoes(d, n, result)
          \/ DriverSetsRow(d, driver[d].row[n], "failed", "bare") /\ TaskGoes(d, n, "error")
      BY <2>6 DEF Evaluate
    <3>3. QED
      BY <1>5, <2>0, <3>1, <3>2
  <2>7. QED
    BY <1>1, <1>6, <2>1, <2>2, <2>3, <2>4, <2>5, <2>6
<1>7. QED
  BY <1>2, <1>3, <1>6

\* Every driver's step keeps what lies ahead of it, and makes the run a success at an end only.
LEMMA DriverEnds ==
  ASSUME NEW rank, ForkJoin(rank), Types, Types', Solo, AsksAreAgents, FillsOwnRow, ChosenHasInputs, EndInv(rank),
         NEW d \in Drivers, DriverStep(d), Live(d)
  PROVE  TriedClosed' /\ Advances(rank, d)' /\ Tracks(d)' /\ Reached'
<1>0. /\ rows \in Seq(Attempts) /\ DriverTyped /\ d \notin cancelled /\ Shape /\ driver[d] \in DriverRecs
      /\ TriedClosed /\ Advances(rank, d) /\ Tracks(d) /\ Reached
  BY TypesGiveShape DEF Types, Solo, EndInv, DriverTyped
<1>r. driver[d].place # "load" /\ (At(d, "leaving") \/ run.status = "running")
  BY DEF Solo, DriverFits
<1>n. ASSUME rows' = rows PROVE NodesKept /\ TriedClosed'
  BY <1>0, <1>n, KeepsClosed DEF NodesKept
<1>s. ASSUME run'.status # "success" PROVE Reached'
  BY <1>s DEF Reached
<1>w. ASSUME driver'[d].place # "wave" PROVE Tracks(d)'
  BY <1>w DEF Tracks, At
<1>1. CASE StartInserts(d)
  <2>1. AddRow(StartNode, "running") /\ "running" \in RowStatuses /\ StartNode \in Node /\ run' = run
    BY <1>0, <1>1, StartIsNode DEF StartInserts, RowStatuses
  <2>2. driver' = [driver EXCEPT ![d].place = "started", ![d].row[StartNode] = Len(rows) + 1]
    BY <1>0, <1>1 DEF StartInserts
  <2>3. driver'[d].place = "started" /\ driver'[d].wave = driver[d].wave
    BY <1>0, <2>2 DEF DriverTyped, DriverRecs
  <2>4. /\ DOMAIN rows = 1..Len(rows) /\ DOMAIN rows' = 1..(Len(rows) + 1) /\ Len(rows) \in Nat
        /\ rows'[Len(rows) + 1].node = StartNode
        /\ \A j \in DOMAIN rows : rows'[j] = rows[j]
    BY <1>0, <2>1, AddRowKeeps
  <2>5. TriedClosed'
    <3> SUFFICES ASSUME NEW m \in Node, Tried(m)', NEW p \in Sources(m) PROVE Tried(p)'
      BY DEF TriedClosed
    <3>1. m # StartNode
      BY DEF ForkJoin
    <3>2. PICK i \in DOMAIN rows' : rows'[i].node = m
      BY DEF Tried
    <3>3. i \in DOMAIN rows /\ rows[i].node = m
      BY <2>4, <3>1, <3>2
    <3>4. Tried(p)
      BY <1>0, <3>3 DEF Tried, TriedClosed
    <3>5. PICK j \in DOMAIN rows : rows[j].node = p
      BY <3>4 DEF Tried
    <3>6. j \in DOMAIN rows' /\ rows'[j].node = p
      BY <2>4, <3>5
    <3>7. QED
      BY <3>6 DEF Tried
  <2>6. driver[d].wave = <<>> /\ ~At(d, "leaving")
    BY <1>0, <1>1 DEF StartInserts, At, Advances
  <2>7. Advances(rank, d)'
    BY <2>3, <2>6 DEF Advances
  <2>8. QED
    BY <1>r, <1>s, <1>w, <2>1, <2>3, <2>5, <2>6, <2>7
<1>2. CASE StartEnds(d)
  <2>1. PICK i : i = driver[d].row[StartNode]
    OBVIOUS
  <2>2. SetRow(i, "success", "full") /\ At(d, "started") /\ run' = run
    BY <1>0, <1>2, <2>1 DEF StartEnds, DriverSetsRow
  <2>3. NodesKept
    BY <1>0, <2>2, SetRowNodes
  <2>4. Tried(StartNode)
    BY <2>2 DEF FillsOwnRow, Tried
  <2>5. PICK front, visited : front = ToSet(Successors(StartNode)) /\ visited = {StartNode}
    OBVIOUS
  <2>6. /\ driver'[d].place = "queue" /\ driver'[d].queue = Successors(StartNode)
        /\ driver'[d].visited = visited /\ driver'[d].wave = <<>>
    BY <1>0, <1>2, <2>2, <2>5 DEF StartEnds, DriverTyped, DriverRecs, Advances, At
  <2>7. Successors(StartNode) \in Seq(Node) /\ Successors(StartNode) # <<>>
    BY StartIsNode, LeadsIn DEF ForkJoin
  <2>8. front # {} /\ front \subseteq Node
    <3>1. 1 \in DOMAIN Successors(StartNode)
      BY <2>7, LenProperties, EmptySeq
    <3>2. QED
      BY <2>5, <2>7, <3>1, LenProperties, ElementOfSeq DEF ToSet
  <2>9. \A s \in front : StartNode \in Sources(s)
    BY <2>5, LeadsFrom
  <2>10. Sources(StartNode) = {} /\ rank \in [Node -> Nat]
    BY DEF ForkJoin
  <2>11. Ahead(rank, front, visited)
    <3>1. StartNode \notin front
      BY <2>9, <2>10
    <3>2. \A n \in visited : Sources(n) \subseteq visited
      BY <2>5, <2>10
    <3>3. visited \subseteq Node /\ visited \cap front = {} /\ visited \in SUBSET visited
      BY <2>5, <3>1, StartIsNode
    <3>4. QED
      BY <2>8, <2>10, <3>2, <3>3, AheadIf
  <2>12. FromTried(front)'
    <3> SUFFICES ASSUME NEW s \in front, Kind[s] # "merge", NEW p \in Sources(s) PROVE Tried(p)'
      BY DEF FromTried
    <3>1. p = StartNode
      BY <2>8, <2>9 DEF ForkJoin
    <3>2. PICK q : q = p
      OBVIOUS
    <3>3. Tried(p)
      BY <2>4, <3>1
    <3>4. QED
      BY <2>3, <3>3, KeepsNodes
  <2>13. ToSet(driver'[d].queue) \cup ToSet(driver'[d].wave) = front
    BY <2>5, <2>6 DEF ToSet
  <2>14. Advances(rank, d)'
    BY <2>6, <2>8, <2>11, <2>12, <2>13, AdvancesIf
  <2>15. TriedClosed'
    BY <1>0, <2>3, KeepsClosed
  <2>16. run'.status # "success"
    BY <1>r, <2>2 DEF At
  <2>17. QED
    BY <1>s, <1>w, <2>6, <2>14, <2>15, <2>16
<1>3. CASE Loads(d)
  <2>1. driver[d].place = "seeded" /\ rows' = rows /\ run' = run
    BY <1>3, <1>r DEF Loads
  <2>2. driver' = [driver EXCEPT ![d].place = "queue", ![d].visited = driver[d].visited]
    BY <1>0, <1>3, <2>1 DEF Loads, At
  <2>3. /\ driver'[d].place = "queue" /\ driver'[d].queue = driver[d].queue
        /\ driver'[d].wave = driver[d].wave /\ driver'[d].visited = driver[d].visited
    BY <1>0, <2>2 DEF DriverTyped, DriverRecs
  <2>4. PICK front, visited : front = Before(d) /\ visited = driver[d].visited
    OBVIOUS
  <2>5. front \subseteq Node /\ Ahead(rank, front, visited) /\ FromTried(front) /\ driver[d].wave = <<>>
    BY <1>0, <2>1, <2>4 DEF Advances
  <2>6. FromTried(front)'
    BY <1>n, <2>1, <2>5, KeepsFrom
  <2>7. ToSet(driver'[d].queue) \cup ToSet(driver'[d].wave) = front
    BY <2>3, <2>4 DEF Before
  <2>8. Advances(rank, d)'
    BY <2>3, <2>4, <2>5, <2>6, <2>7, AdvancesIf
  <2>9. run'.status # "success"
    BY <1>r, <2>1 DEF At
  <2>10. QED
    BY <1>n, <1>s, <1>w, <2>1, <2>3, <2>8, <2>9
<1>4. CASE TakeWave(d)
  <2>1. rows' = rows /\ run' = run /\ driver'[d].place = "announce" /\ ~At(d, "leaving")
    BY <1>0, <1>4 DEF TakeWave, DriverTyped, DriverRecs, At
  <2>2. Advances(rank, d)'
    BY <1>0, <1>4, TakeWaveAdvances
  <2>3. QED
    BY <1>n, <1>r, <1>s, <1>w, <2>1, <2>2
<1>5. CASE RunsDry(d)
  <2>1. rows' = rows /\ driver'[d].place = "leaving"
    BY <1>0, <1>5 DEF RunsDry, Move, DriverTyped, DriverRecs
  <2>2. Deferred(d) # <<>>
    BY <1>0, <1>5, DryIsDeferred DEF RunsDry
  <2>3. run'.status = "failed"
    BY <1>0, <1>5, <2>2 DEF RunsDry, DriverSetsRun, SetRun
  <2>4. Advances(rank, d)'
    BY <2>1 DEF Advances
  <2>5. QED
    BY <1>n, <1>s, <1>w, <2>1, <2>3, <2>4
<1>6. CASE Announce(d)
  <2>0. SetRun("running", "")
    BY <1>0, <1>6 DEF Announce, DriverSetsRun
  <2>a. run'.status = "running"
    BY <2>0 DEF SetRun
  <2>1. At(d, "announce") /\ rows' = rows /\ run'.status = "running"
    BY <1>6, <2>a DEF Announce
  <2>2. /\ driver'[d].place = "wave" /\ driver'[d].queue = driver[d].queue
        /\ driver'[d].wave = driver[d].wave /\ driver'[d].visited = driver[d].visited
        /\ \A n \in Node : driver'[d].task[n] = IF n \in ToSet(driver[d].wave) THEN "new" ELSE "idle"
    BY <1>0, <1>6 DEF Announce, DriverTyped, DriverRecs
  <2>4. PICK front, visited : front = Before(d) /\ visited = driver[d].visited
    OBVIOUS
  <2>5. front \subseteq Node /\ Ahead(rank, front, visited) /\ FromTried(front)
    BY <1>0, <2>1, <2>4 DEF Advances, At
  <2>6. FromTried(front)'
    BY <1>n, <2>1, <2>5, KeepsFrom
  <2>7. ToSet(driver'[d].queue) \cup ToSet(driver'[d].wave) = front
    BY <2>2, <2>4 DEF Before
  <2>8. Advances(rank, d)'
    BY <2>2, <2>4, <2>5, <2>6, <2>7, AdvancesIf
  <2>9. \A n \in ToSet(driver[d].wave) : driver'[d].task[n] = "new"
    BY <2>2, <2>4, <2>5 DEF Before
  <2>10. Tracks(d)'
    BY <2>2, <2>9 DEF Tracks, TracksTask
  <2>11. QED
    BY <1>n, <1>s, <2>1, <2>8, <2>10
<1>7. CASE TaskStep(d)
  <2>1. run' = run /\ At(d, "wave")
    BY <1>7 DEF TaskStep, Insert, Refuse, Occupy, Busy, Replies, Errs, Complete, Evaluate, Doing
  <2>2. TriedClosed' /\ Advances(rank, d)' /\ Tracks(d)'
    BY <1>0, <1>7, TasksEnd
  <2>3. QED
    BY <1>r, <1>s, <2>1, <2>2 DEF At
<1>8. CASE GoOn(d)
  <2>1. rows' = rows /\ run' = run /\ driver'[d].place = "queue" /\ At(d, "wave")
    BY <1>0, <1>8 DEF GoOn, WaveDone, DriverTyped, DriverRecs
  <2>2. Advances(rank, d)'
    BY <1>0, <1>8, GoOnAdvances
  <2>3. QED
    BY <1>n, <1>r, <1>s, <1>w, <2>1, <2>2 DEF At
<1>9. CASE Settle(d)
  <2>1. rows' = rows /\ driver'[d].place = "leaving" /\ At(d, "wave") /\ WaveDone(d) /\ Settling(d) # 0
    BY <1>0, <1>9 DEF Settle, WaveDone, Move, DriverTyped, DriverRecs
  <2>2. PICK n : n = driver[d].wave[Settling(d)]
    OBVIOUS
  <2>3. n \in ToSet(driver[d].wave) /\ Settles(d, n) /\ n \in Node
    BY <1>0, <2>1, <2>2, SettlingFirst, SettlingIn DEF DriverRecs
  <2>4. CASE driver[d].task[n] = "error"
    <3>1. run'.status = "failed"
      BY <1>0, <1>9, <2>2, <2>4 DEF Settle, DriverSetsRun, SetRun
    <3>2. QED
      BY <1>n, <1>s, <1>w, <2>1, <3>1 DEF Advances
  <2>5. CASE driver[d].task[n] = "waiting"
    <3>1. DriverSetsRun(d, "waiting", "")
      BY <1>9, <2>2, <2>5 DEF Settle
    <3>2. SetRun("waiting", "")
      BY <1>0, <3>1 DEF DriverSetsRun
    <3>3. run'.status = "waiting"
      BY <3>2 DEF SetRun
    <3>4. QED
      BY <1>n, <1>s, <1>w, <2>1, <3>3 DEF Advances
  <2>6. CASE driver[d].task[n] \notin {"error", "waiting"}
    <3>1. Kind[n] = "end"
      BY <2>3, <2>6 DEF Settles
    <3>2. driver[d].task[n] \in Tasks /\ TracksTask(d, n)
      BY <1>0, <2>1, <2>3 DEF DriverRecs, Tracks
    <3>3. driver[d].task[n] = "done"
      BY <2>1, <2>3, <2>6, <3>1, <3>2 DEF WaveDone, TracksTask, Tasks
    <3>4. LastFull(n)
      BY <3>1, <3>2, <3>3 DEF TracksTask
    <3>5. LastFull(n)'
      BY <2>1, <3>4 DEF LastFull, LastOf
    <3>6. Reached'
      BY <2>3, <3>1, <3>5 DEF Reached
    <3>7. QED
      BY <1>n, <1>w, <2>1, <3>6 DEF Advances
  <2>7. QED
    BY <2>4, <2>5, <2>6
<1>10. CASE Leave(d)
  <2>1. rows' = rows /\ run' = run /\ driver'[d].place = "done"
    BY <1>0, <1>10 DEF Leave, GoneDriver, NewDriver, DriverTyped, DriverRecs
  <2>2. Reached'
    BY <1>0, <2>1 DEF Reached, LastFull, LastOf
  <2>3. QED
    BY <1>n, <1>w, <2>1, <2>2 DEF Advances
<1>11. QED
  BY <1>1, <1>2, <1>3, <1>4, <1>5, <1>6, <1>7, <1>8, <1>9, <1>10 DEF DriverStep

\* A plan starts behind what is taken over, at nodes to which everything leads that was tried.
LEMMA PlanStarts ==
  ASSUME NEW rank, ForkJoin(rank), rows \in Seq(Attempts), TriedClosed,
         NEW latest, latest = [n \in Node |-> Snapshot(n)], NEW roots \in Roots(latest)
  PROVE  /\ \A n \in Reusable(latest) : LastFull(n)
         /\ roots # <<>> => /\ ToSet(roots) \subseteq Node
                            /\ Ahead(rank, ToSet(roots), Reusable(latest))
                            /\ FromTried(ToSet(roots))
<1> DEFINE S == Reusable(latest)
           need == NeedRerun(latest)
           places == {i \in DOMAIN Order : Order[i] \in need /\ Sources(Order[i]) \cap need = {}}
<1>1. \A n \in Node : n \in Executed(latest) <=> Tried(n)
  BY SnapshotSays DEF Executed
<1>2. Closed(latest, S)
  BY ReusableIsLargest
<1>3. \A n \in S : n \in Node /\ LastFull(n) /\ Tried(n)
  <2> SUFFICES ASSUME NEW n \in S PROVE n \in Node /\ LastFull(n) /\ Tried(n)
    OBVIOUS
  <2>1. n \in Node /\ latest[n].status = "success" /\ latest[n].out = "full"
    BY <1>2 DEF Closed, Checked
  <2>2. Snapshot(n).status = "success" /\ Snapshot(n).out = "full"
    BY <2>1
  <2>3. Snapshot(n) = [status |-> "success", out |-> "full"]
    <3>1. Snapshot(n) \in [status : {Snapshot(n).status}, out : {Snapshot(n).out}]
      BY DEF Snapshot
    <3>2. QED
      BY <2>2, <3>1
  <2>4. LastFull(n)
    BY <2>3, SnapshotSays
  <2>5. QED
    BY <2>1, <2>4 DEF LastFull, Tried
<1>4. ASSUME NEW n \in S PROVE Sources(n) \subseteq S
  <2>1. \A p \in Sources(n) : p \in Node /\ Tried(p)
    BY <1>3, SourcesIn DEF TriedClosed
  <2>2. Sources(n) \subseteq Executed(latest)
    BY <1>1, <2>1
  <2>3. QED
    BY <1>2, <2>2 DEF Closed
<1>5. need = Executed(latest) \ S /\ need \subseteq Node
  BY DEF NeedRerun, Executed
<1>6. roots \in Seq(Node)
  BY PlanIn
<1>7. ASSUME ToSet(roots) \cap S = {}, ToSet(roots) \subseteq Node, roots # <<>>
      PROVE  Ahead(rank, ToSet(roots), S)
  <2>1. ToSet(roots) # {}
    <3>1. 1 \in DOMAIN roots
      BY <1>6, <1>7, LenProperties, EmptySeq
    <3>2. QED
      BY <3>1 DEF ToSet
  <2>2. rank \in [Node -> Nat] /\ S \subseteq Node /\ S \in SUBSET S /\ S \ S = {}
    BY <1>3 DEF ForkJoin
  <2> HIDE DEF S
  <2>3. QED
    BY <1>4, <1>7, <2>1, <2>2, AheadIf
<1>8. ToSet(roots) \cap S = {} /\ ToSet(roots) \subseteq Node /\ FromTried(ToSet(roots))
  <2>1. CASE need # {}
    <3>1. roots = AtPlaces(Order, places)
      BY <2>1 DEF Roots
    <3>2. ToSet(roots) \subseteq need
      <4>1. places \subseteq DOMAIN Order /\ \A i \in places : Order[i] \in need
        OBVIOUS
      <4> HIDE DEF places, need
      <4>2. ToSet(roots) = {Order[i] : i \in places}
        BY <3>1, <4>1, GraphAssumption, AtPlacesAll
      <4>3. QED
        BY <4>1, <4>2
    <3>3. \A n \in ToSet(roots) : \A p \in Sources(n) : Tried(p)
      BY <1>1, <1>5, <3>2 DEF TriedClosed
    <3>4. QED
      BY <1>5, <3>2, <3>3 DEF FromTried
  <2>2. CASE need = {}
    <3>1. roots \in [1..Cardinality(Frontier(latest)) -> Frontier(latest)]
      BY <2>2 DEF Roots, SetToSeqs
    <3>2. ToSet(roots) \subseteq Frontier(latest)
      BY <3>1 DEF ToSet
    <3>3. ASSUME NEW n \in ToSet(roots), Kind[n] # "merge", NEW p \in Sources(n) PROVE Tried(p)
      <4>1. n \in Node /\ \E q \in Sources(n) : q \in S
        BY <3>2, <3>3 DEF Frontier
      <4>2. PICK q \in Sources(n) : q \in S
        BY <4>1
      <4>3. p = q
        BY <3>3, <4>1, <4>2 DEF ForkJoin
      <4>4. QED
        BY <1>3, <4>2, <4>3
    <3>4. QED
      BY <3>2, <3>3 DEF FromTried, Frontier
  <2>3. QED
    BY <2>1, <2>2
<1>9. QED
  BY <1>3, <1>7, <1>8

\* A driver that nothing happens to keeps what lies ahead of it, and one that is not live has
\* nothing ahead of it.
LEMMA AdvancesKept ==
  ASSUME NEW rank, NEW d, rows' = rows, driver'[d] = driver[d], Advances(rank, d), Tracks(d)
  PROVE  Advances(rank, d)' /\ Tracks(d)'
<1>1. Tracks(d)'
  BY DEF Tracks, TracksTask, At, Tried, LastOf, LastFull
<1>2. CASE driver[d].place \notin {"seeded", "queue", "announce", "wave"}
  <2>1. driver'[d].place = driver[d].place /\ driver'[d].wave = driver[d].wave
    OBVIOUS
  <2>2. driver[d].place \in {"unused", "start", "started", "seeded", "queue"} => driver[d].wave = <<>>
    BY DEF Advances
  <2>3. Advances(rank, d)'
    BY <1>2, <2>1, <2>2 DEF Advances
  <2>4. QED
    BY <1>1, <2>3
<1>3. CASE driver[d].place \in {"seeded", "queue", "announce", "wave"}
  <2>1. PICK front, visited : front = Before(d) /\ visited = driver[d].visited
    OBVIOUS
  <2>2. front \subseteq Node /\ Ahead(rank, front, visited) /\ FromTried(front)
    BY <1>3, <2>1 DEF Advances
  <2>3. FromTried(front)'
    BY <2>2 DEF FromTried, Tried
  <2>4. ToSet(driver'[d].queue) \cup ToSet(driver'[d].wave) = front
    BY <2>1 DEF Before
  <2>5. driver'[d].place \in {"seeded", "queue"} => driver'[d].wave = <<>>
    BY DEF Advances
  <2>6. QED
    BY <1>1, <1>3, <2>1, <2>2, <2>3, <2>4, <2>5, AdvancesIf
<1>4. QED
  BY <1>1, <1>2, <1>3

\* A plan is kept while no attempt is written.
LEMMA PlanKept ==
  ASSUME NEW rank, PlanFits(rank), rows' = rows,
         op'[Loop].starts = op[Loop].starts, op'[Loop].seed = op[Loop].seed,
         op'[Loop].pc \in {"reopen", "spawn"} => op[Loop].pc \in {"reopen", "spawn"},
         op'[Loop].pc = "close" => op[Loop].pc = "close"
  PROVE  PlanFits(rank)'
<1>1. CASE op'[Loop].pc \in {"reopen", "spawn"}
  <2>1. PICK starts, seed : starts = op[Loop].starts /\ seed = op[Loop].seed
    OBVIOUS
  <2>2. ToSet(starts) \subseteq Node /\ Ahead(rank, ToSet(starts), seed) /\ FromTried(ToSet(starts))
    BY <1>1, <2>1 DEF PlanFits
  <2>3. FromTried(ToSet(starts))'
    BY <2>2 DEF FromTried, Tried
  <2>4. QED
    BY <1>1, <2>1, <2>2, <2>3 DEF PlanFits, On, Ahead, FromTried
<1>2. CASE op'[Loop].pc = "close"
  BY <1>2 DEF PlanFits, On, LastFull, LastOf
<1>3. QED
  BY <1>1, <1>2 DEF PlanFits, On

\* A call that goes on keeps the invariant: there is no driver meanwhile.
LEMMA CallsEnd ==
  ASSUME NEW rank, ForkJoin(rank), Types, Solo, EndInv(rank), NEW o \in Callers, OpStep(o)
  PROVE  EndInv(rank)'
<1>0. /\ rows \in Seq(Attempts) /\ DriverTyped /\ OpTyped /\ op[o] \in OpRecs /\ Loop \in Callers
      /\ TriedClosed /\ PlanFits(rank) /\ Reached
      /\ \A d \in Drivers : Advances(rank, d) /\ Tracks(d)
  BY DEF Types, EndInv, OpTyped, Callers
<1>1. op[o].pc \notin {"new", "done"}
  BY DEF OpStep, Create, Reopen, Spawn, Look, Cancel, List, Mark, Read, Write, AbortRow, AbortRun,
       Status, Again, Find, Answer, Decide, AskBusy, Plan, Close, On
<1>2. o \in UnderWay /\ CallFits(o)
  BY <1>1 DEF UnderWay, Solo
<1>3. \A d \in Drivers : ~Live(d)
  BY <1>2 DEF Solo, DriverFits
<1>4. o # Loop => Loop \notin UnderWay
  BY <1>2 DEF Solo
<1>5. \/ Create(o) \/ Reopen(o) \/ Spawn(o) \/ Status(o) \/ AskBusy(o) \/ Plan(o) \/ Close(o)
  <2>1. op[o].pc \in {"create", "reopen", "spawn", "status", "busy", "plan", "close"}
    BY <1>1, <1>2 DEF CallFits, LoopFits, StartFits
  <2>2. QED
    BY <2>1 DEF OpStep, Look, Cancel, List, Mark, Read, Write, AbortRow, AbortRun, Find, Again,
         Answer, Decide, On
<1>6. rows' = rows
  BY <1>5 DEF Create, Reopen, Spawn, Status, AskBusy, Plan, Close
<1>7. TriedClosed'
  BY <1>0, <1>6, KeepsClosed DEF NodesKept
<1>8. ASSUME driver' = driver PROVE \A d \in Drivers : Advances(rank, d)' /\ Tracks(d)'
  BY <1>0, <1>6, <1>8, AdvancesKept
<1>9. ASSUME run' = run \/ run'.status # "success" PROVE Reached'
  BY <1>0, <1>6, <1>9 DEF Reached, LastFull, LastOf
<1>10. ASSUME o # Loop, op'[Loop] = op[Loop] PROVE PlanFits(rank)'
  BY <1>0, <1>6, <1>10, PlanKept
<1>11. ASSUME op'[Loop].pc \notin {"reopen", "spawn", "close"} PROVE PlanFits(rank)'
  BY <1>11 DEF PlanFits, On
<1>g. GoneOp.pc = "done"
  BY DEF GoneOp, NewOp
<1>12. ASSUME OpEnds(o) PROVE PlanFits(rank)'
  <2>1. op'[o] = GoneOp /\ \A p \in Callers \ {o} : op'[p] = op[p]
    BY <1>0, <1>12 DEF OpEnds, OpTyped
  <2>2. QED
    BY <1>0, <1>10, <1>11, <1>g, <2>1
<1>13. ASSUME NEW pc, OpGoes(o, pc), pc \notin {"close", "reopen"},
              pc = "spawn" => op[o].pc = "reopen"
       PROVE  PlanFits(rank)'
  <2>1. /\ op'[o].pc = pc /\ op'[o].starts = op[o].starts /\ op'[o].seed = op[o].seed
        /\ \A p \in Callers \ {o} : op'[p] = op[p]
    BY <1>0, <1>13 DEF OpGoes, OpTyped, OpRecs
  <2>2. CASE o = Loop
    BY <1>0, <1>6, <1>13, <2>1, <2>2, PlanKept
  <2>3. CASE o # Loop
    BY <1>0, <1>10, <2>1, <2>3
  <2>4. QED
    BY <2>2, <2>3
<1>14. CASE Create(o)
  <2>1. o # Loop
    BY <1>2, <1>14 DEF Create, On, CallFits, LoopFits
  <2>2. OpGoes(o, "reopen") /\ driver' = driver /\ run'.status = "pending"
    BY <1>14 DEF Create, SetRun
  <2>3. op'[Loop] = op[Loop]
    BY <1>0, <2>1, <2>2 DEF OpGoes, OpTyped
  <2>4. QED
    BY <1>7, <1>8, <1>9, <1>10, <2>1, <2>2, <2>3 DEF EndInv
<1>15. CASE Reopen(o)
  <2>1. OpGoes(o, "spawn") /\ driver' = driver /\ run'.status = "running" /\ op[o].pc = "reopen"
    BY <1>15 DEF Reopen, SetRun, On
  <2>2. QED
    BY <1>7, <1>8, <1>9, <1>13, <2>1 DEF EndInv
<1>16. CASE Spawn(o)
  <2>1. PICK d \in Drivers : d = NewGoroutine /\ driver[d].place = "unused"
    BY <1>16 DEF Spawn, NewGoroutine, Unused
  <2> DEFINE place == CASE op[o].kind = "start" -> "start" [] op[o].kind = "resume" -> "seeded"
                        [] OTHER -> "load"
  <2>2. place \in {"start", "seeded"} /\ (place = "seeded" => o = Loop)
    BY <1>2 DEF CallFits, LoopFits, StartFits
  <2>3. driver' = [driver EXCEPT ![d].place = place, ![d].queue = op[o].starts, ![d].visited = op[o].seed]
    BY <1>16, <2>1 DEF Spawn
  <2> HIDE DEF place
  <2>4. /\ driver'[d].place = place /\ driver'[d].queue = op[o].starts /\ driver'[d].visited = op[o].seed
        /\ driver'[d].wave = driver[d].wave
        /\ \A e \in Drivers \ {d} : driver'[e] = driver[e]
    BY <1>0, <2>1, <2>3 DEF DriverTyped, DriverRecs
  <2>5. driver[d].wave = <<>>
    BY <1>0, <2>1 DEF Advances
  <2>6. Advances(rank, d)'
    <3>1. CASE place = "start"
      BY <2>4, <2>5, <3>1 DEF Advances
    <3>2. CASE place = "seeded"
      <4>1. PICK front, visited : front = ToSet(op[o].starts) /\ visited = op[o].seed
        OBVIOUS
      <4>2. op[Loop].pc = "spawn" /\ o = Loop
        BY <1>16, <2>2, <3>2 DEF Spawn, On
      <4>3. front \subseteq Node /\ Ahead(rank, front, visited) /\ FromTried(front)
        BY <1>0, <4>1, <4>2 DEF PlanFits
      <4>4. FromTried(front)'
        BY <1>6, <4>3 DEF FromTried, Tried
      <4>5. ToSet(driver'[d].queue) \cup ToSet(driver'[d].wave) = front
        BY <2>4, <2>5, <4>1 DEF ToSet
      <4>6. QED
        BY <2>4, <2>5, <3>2, <4>1, <4>3, <4>4, <4>5, AdvancesIf
    <3>3. QED
      BY <2>2, <3>1, <3>2
  <2>7. Tracks(d)'
    BY <2>2, <2>4 DEF Tracks, At
  <2>8. \A e \in Drivers : Advances(rank, e)' /\ Tracks(e)'
    <3> SUFFICES ASSUME NEW e \in Drivers, e # d PROVE Advances(rank, e)' /\ Tracks(e)'
      BY <2>6, <2>7
    <3>1. driver'[e] = driver[e]
      BY <2>4
    <3>2. QED
      BY <1>0, <1>6, <3>1, AdvancesKept
  <2>9. OpEnds(o) /\ run' = run
    BY <1>16 DEF Spawn
  <2>10. QED
    BY <1>7, <1>9, <1>12, <2>8, <2>9 DEF EndInv
<1>17. CASE Status(o) \/ AskBusy(o)
  <2>1. o = Loop /\ op[o].kind = "resume"
    BY <1>2, <1>17 DEF CallFits, StartFits, LoopFits, Status, AskBusy, On
  <2>2. driver' = driver /\ run' = run
    BY <1>17 DEF Status, AskBusy
  <2>3. OpEnds(o) \/ \E pc \in {"busy", "plan"} : OpGoes(o, pc)
    <3>1. CASE Status(o)
      BY <2>1, <3>1 DEF Status, Reviews
    <3>2. CASE AskBusy(o)
      BY <3>2 DEF AskBusy
    <3>3. QED
      BY <1>17, <3>1, <3>2
  <2>4. PlanFits(rank)'
    BY <1>12, <1>13, <2>3
  <2>5. QED
    BY <1>7, <1>8, <1>9, <2>2, <2>4 DEF EndInv
<1>18. CASE Plan(o)
  <2>1. o = Loop
    BY <1>2, <1>18 DEF CallFits, StartFits, Plan, On
  <2>2. driver' = driver /\ run' = run
    BY <1>18 DEF Plan
  <2>3. PICK latest, roots, seed :
           /\ latest = [n \in Node |-> Snapshot(n)] /\ roots \in Roots(latest) /\ seed = Reusable(latest)
           /\ op' = [op EXCEPT ![o].pc = IF roots = <<>> THEN "close" ELSE "reopen",
                               ![o].starts = roots, ![o].seed = seed]
    BY <1>18 DEF Plan
  <2>4. /\ op'[Loop].pc = IF roots = <<>> THEN "close" ELSE "reopen"
        /\ op'[Loop].starts = roots /\ op'[Loop].seed = seed
    BY <1>0, <2>1, <2>3 DEF OpTyped, OpRecs
  <2>5. /\ \A n \in seed : LastFull(n)
        /\ roots # <<>> => ToSet(roots) \subseteq Node /\ Ahead(rank, ToSet(roots), seed) /\ FromTried(ToSet(roots))
    BY <1>0, <2>3, PlanStarts
  <2>6. PlanFits(rank)'
    <3>1. CASE roots = <<>>
      <4>1. op'[Loop].pc = "close" /\ \A n \in seed : LastFull(n)'
        BY <1>6, <2>4, <2>5, <3>1 DEF LastFull, LastOf
      <4>2. QED
        BY <2>4, <4>1 DEF PlanFits, On
    <3>2. CASE roots # <<>>
      <4>1. op'[Loop].pc = "reopen"
        BY <2>4, <3>2
      <4>2. FromTried(ToSet(roots))'
        BY <1>6, <2>5, <3>2 DEF FromTried, Tried
      <4>3. QED
        BY <2>4, <2>5, <3>2, <4>1, <4>2 DEF PlanFits, On, Ahead, FromTried
    <3>3. QED
      BY <3>1, <3>2
  <2>7. QED
    BY <1>7, <1>8, <1>9, <2>2, <2>6 DEF EndInv
<1>19. CASE Close(o)
  <2>1. o = Loop /\ op[o].pc = "close"
    BY <1>2, <1>19 DEF CallFits, StartFits, Close, On
  <2>2. \A n \in op[o].seed : n \in Node /\ LastFull(n)
    BY <1>0, <2>1 DEF PlanFits, OpRecs, On
  <2>3. SetRun(IF \E n \in op[o].seed : Kind[n] = "end" THEN "success" ELSE "interrupted", "")
    BY <1>19 DEF Close
  <2>4. CASE \E n \in op[o].seed : Kind[n] = "end"
    <3>1. PICK n \in op[o].seed : Kind[n] = "end"
      BY <2>4
    <3>2. LastFull(n)'
      BY <1>6, <2>2 DEF LastFull, LastOf
    <3>3. Reached'
      BY <2>2, <3>1, <3>2 DEF Reached
    <3>4. OpEnds(o) /\ driver' = driver
      BY <1>19 DEF Close
    <3>5. QED
      BY <1>7, <1>8, <1>12, <3>3, <3>4 DEF EndInv
  <2>5. CASE ~\E n \in op[o].seed : Kind[n] = "end"
    <3>1. run'.status = "interrupted"
      BY <2>3, <2>5 DEF SetRun
    <3>2. OpEnds(o) /\ driver' = driver
      BY <1>19 DEF Close
    <3>3. QED
      BY <1>7, <1>8, <1>9, <1>12, <3>1, <3>2 DEF EndInv
  <2>6. QED
    BY <2>4, <2>5
<1>20. QED
  BY <1>5, <1>14, <1>15, <1>16, <1>17, <1>18, <1>19

\* Every step keeps the invariant.
LEMMA EndStep ==
  ASSUME NEW rank, ForkJoin(rank), OpKinds \subseteq {"start"}, Types, Types', Solo, MergeInv, EndInv(rank), [Next]_vars
  PROVE  EndInv(rank)'
<1>0. /\ rows \in Seq(Attempts) /\ DriverTyped /\ OpTyped /\ Shape /\ Loop \in Callers
      /\ TriedClosed /\ PlanFits(rank) /\ Reached
      /\ AsksAreAgents /\ FillsOwnRow /\ ChosenHasInputs
      /\ \A d \in Drivers : Advances(rank, d) /\ Tracks(d)
  BY TypesGiveShape DEF Types, EndInv, Callers, MergeInv, Fills
<1>1. ASSUME NEW d \in Drivers, DriverStep(d) PROVE EndInv(rank)'
  <2>1. Live(d)
    BY <1>1 DEF DriverStep, TaskStep, StartInserts, StartEnds, Loads, TakeWave, RunsDry, Announce, Doing,
         Insert, Refuse, Occupy, Busy, Replies, Errs, Complete, Evaluate, GoOn, Settle, Leave, Live, At, WaveDone
  <2>2. TriedClosed' /\ Advances(rank, d)' /\ Tracks(d)' /\ Reached'
    BY <1>0, <1>1, <2>1, DriverEnds
  <2>3. op' = op /\ \A e \in Drivers \ {d} : driver'[e] = driver[e]
    BY <1>0, <1>1, DriverFrame
  <2>4. Loop \notin UnderWay
    BY <2>1 DEF Solo, DriverFits
  <2>5. PlanFits(rank)'
    BY <1>0, <2>3, <2>4 DEF UnderWay, PlanFits, On
  <2>6. ASSUME NEW e \in Drivers, e # d PROVE Advances(rank, e)' /\ Tracks(e)'
    <3>1. ~Live(e) /\ driver'[e] = driver[e]
      BY <2>1, <2>3, <2>6 DEF Solo
    <3>2. driver'[e].place \in {"unused", "done"} /\ driver'[e].wave = driver[e].wave
          /\ driver[e].place = driver'[e].place
      BY <3>1 DEF Live
    <3>3. driver'[e].place = "unused" => driver'[e].wave = <<>>
      BY <1>0, <3>2 DEF Advances
    <3>4. QED
      BY <3>2, <3>3 DEF Advances, Tracks, At
  <2>7. QED
    BY <2>2, <2>5, <2>6 DEF EndInv
<1>2. ASSUME NEW o \in Callers, OpStep(o) PROVE EndInv(rank)'
  BY <1>2, CallsEnd
<1>3. CASE Restart
  <2>1. NodesKept /\ \A j \in DOMAIN rows : rows[j].status = "success" => rows'[j] = rows[j]
    BY <1>0, <1>3, LenProperties DEF Restart, NodesKept, Active, Attempts
  <2>2. TriedClosed'
    BY <1>0, <2>1, KeepsClosed
  <2>3. ASSUME NEW n, LastFull(n) PROVE LastFull(n)'
    <3>1. PICK i \in DOMAIN rows : rows[i].node = n /\ rows[i].status = "success" /\ rows[i].out = "full" /\ LastOf(n, i)
      BY <2>3 DEF LastFull
    <3>2. i \in DOMAIN rows' /\ rows'[i] = rows[i] /\ LastOf(n, i)'
      BY <2>1, <3>1, KeepsNodes DEF NodesKept
    <3>3. QED
      BY <3>1, <3>2 DEF LastFull
  <2>4. run'.status = "success" => run.status = "success"
    <3>1. CASE run.status \in Active
      <4>1. run'.status = "waiting_recovery"
        BY <1>3, <3>1 DEF Restart, Types, RunTyped
      <4>2. QED
        BY <4>1
    <3>2. CASE run.status \notin Active
      BY <1>3, <3>2 DEF Restart
    <3>3. QED
      BY <3>1, <3>2
  <2>5. Reached'
    BY <1>0, <2>3, <2>4 DEF Reached
  <2>6. PlanFits(rank)'
    BY <1>3, <1>0 DEF Restart, NewOp, PlanFits, On
  <2>7. ASSUME NEW d \in Drivers PROVE Advances(rank, d)' /\ Tracks(d)'
    <3>1. driver'[d].place \in {"unused", "done"} /\ driver'[d].wave = <<>>
      BY <1>3 DEF Restart, NewDriver, GoneDriver
    <3>2. QED
      BY <3>1 DEF Advances, Tracks, At
  <2>8. QED
    BY <2>2, <2>5, <2>6, <2>7 DEF EndInv
<1>4. ASSUME rows' = rows, driver' = driver, run'.status = "success" => run' = run, PlanFits(rank)'
      PROVE  EndInv(rank)'
  <2>1. TriedClosed'
    BY <1>0, <1>4, KeepsClosed DEF NodesKept
  <2>2. Reached'
    BY <1>0, <1>4 DEF Reached, LastFull, LastOf
  <2>3. \A d \in Drivers : Advances(rank, d)' /\ Tracks(d)'
    BY <1>0, <1>4, AdvancesKept
  <2>4. QED
    BY <1>4, <2>1, <2>2, <2>3 DEF EndInv
<1>5. ASSUME NEW o \in Ops, NEW kind \in OpKinds, Call(o, kind) PROVE EndInv(rank)'
  <2>1. rows' = rows /\ driver' = driver /\ run' = run /\ op'[Loop] = op[Loop]
    BY <1>0, <1>5, EngineAssumption DEF Call, OpTyped
  <2>2. PlanFits(rank)'
    BY <1>0, <2>1, PlanKept
  <2>3. QED
    BY <1>4, <2>1, <2>2
<1>6. CASE LoopResumes
  <2>1. rows' = rows /\ driver' = driver /\ run' = run
    BY <1>6 DEF LoopResumes
  <2>2. op'[Loop].pc = "status"
    BY <1>0, <1>6 DEF LoopResumes, OpTyped, NewOp
  <2>3. PlanFits(rank)'
    BY <2>2 DEF PlanFits, On
  <2>4. QED
    BY <1>4, <2>1, <2>3
<1>7. CASE WindowEnds \/ UNCHANGED vars
  <2>1. rows' = rows /\ driver' = driver /\ op' = op
    BY <1>7 DEF WindowEnds, vars
  <2>2. run'.status = "success" => run' = run
    <3>1. CASE WindowEnds /\ run.status = "waiting_recovery"
      <4>1. run'.status = "interrupted"
        BY <3>1 DEF WindowEnds, Types, RunTyped
      <4>2. QED
        BY <4>1
    <3>2. CASE ~(WindowEnds /\ run.status = "waiting_recovery")
      BY <1>7, <3>2 DEF WindowEnds, vars
    <3>3. QED
      BY <3>1, <3>2
  <2>3. PlanFits(rank)'
    BY <1>0, <2>1, PlanKept
  <2>4. QED
    BY <1>4, <2>1, <2>2, <2>3
<1>8. QED
  BY <1>1, <1>2, <1>3, <1>5, <1>6, <1>7 DEF Next

\* One call or one driver at a time, where a run is started and recovered only.
LEMMA SoloAlways == ASSUME OpKinds \subseteq {"start"} PROVE Spec => []Solo
<1>1. Init => Solo
  <2> SUFFICES ASSUME Init PROVE Solo
    OBVIOUS
  <2>1. cancelled = {} /\ UnderWay = {} /\ \A d \in Drivers : ~Live(d)
    BY DEF Init, UnderWay, NewOp, Live, NewDriver
  <2>2. \A o \in Callers : CallFits(o)
    BY <2>1 DEF Init, NewOp, CallFits, LoopFits, StartFits
  <2>3. QED
    BY <2>1, <2>2 DEF Solo, DriverFits
<1>2. Types /\ Solo /\ [Next]_vars => Solo'
  BY SoloStep
<1>3. QED
  BY <1>1, <1>2, TypesAlways, PTL DEF Spec

\* A run that is started, interrupted by restarts and resumed is a success only if an end node
\* of its graph was executed, in any graph of forks and merges, for any number of nodes and of
\* recoveries: a queue that has nothing left always settled the run before, and a plan without
\* roots has an end node among what it takes over (workflow_engine.go:273, workflow_recover.go:248).
THEOREM SuccessReachesEnd ==
  ASSUME NEW CONSTANT rank, ForkJoin(rank), OpKinds \subseteq {"start"}
  PROVE  Spec => []SuccessReachedEnd
<1>1. Init => EndInv(rank)
  <2> SUFFICES ASSUME Init PROVE EndInv(rank)
    OBVIOUS
  <2>1. TriedClosed
    <3>1. rows = <<>>
      BY DEF Init
    <3>2. \A n : ~Tried(n)
      BY <3>1 DEF Tried
    <3>3. QED
      BY <3>2 DEF TriedClosed
  <2>2. PlanFits(rank)
    BY DEF Init, PlanFits, On, NewOp, Callers
  <2>3. \A d \in Drivers : Advances(rank, d) /\ Tracks(d)
    BY DEF Init, Advances, Tracks, At, NewDriver
  <2>4. Reached
    BY DEF Init, Reached
  <2>5. QED
    BY <2>1, <2>2, <2>3, <2>4 DEF EndInv
<1>2. OpKinds \cap Interfering = {}
  BY DEF Interfering, Reviews
<1>3. Types /\ Types' /\ Solo /\ MergeInv /\ EndInv(rank) /\ [Next]_vars => EndInv(rank)'
  BY EndStep
<1>4. Types /\ EndInv(rank) => SuccessReachedEnd
  BY SnapshotSays DEF EndInv, Reached, SuccessReachedEnd, Types
<1>5. Spec => []MergeInv
  BY <1>2, MergeInvAlways
<1>6. QED
  BY <1>1, <1>3, <1>4, <1>5, SoloAlways, TypesAlways, PTL DEF Spec
-------------------------------------------------------------------------------
(* The loop by which the plan of a recovery is made, where it starts, and  *)
(* when there is nothing to go on with.                                    *)

\* What has to run again, as it grows during a pass.
PassTo(latest, need, after, m) ==
  after = [i \in 0..m |-> IF i = 0 THEN need ELSE Widened(latest, after[i - 1], Order[i])]

\* A pass is defined.
LEMMA PassGrows ==
  ASSUME NEW latest, NEW need
  PROVE  /\ Len(Order) \in Nat
         /\ \E after : PassTo(latest, need, after, Len(Order)) /\ Pass(latest, need) = after[Len(Order)]
<1> DEFINE N == Len(Order)
           seen == CHOOSE after :
             after = [i \in 0..N |-> IF i = 0 THEN need ELSE Widened(latest, after[i - 1], Order[i])]
<1>1. N \in Nat
  BY GraphAssumption, LenProperties
<1>2. Pass(latest, need) = seen[N]
  BY DEF Pass
<1>3. seen = CHOOSE after : PassTo(latest, need, after, N)
  BY DEF PassTo
<1> HIDE DEF N, seen
<1>4. \E after : PassTo(latest, need, after, N)
  <2> DEFINE Lacking == {m \in 0..N : ~\E after : PassTo(latest, need, after, m)}
  <2> SUFFICES ASSUME ~\E after : PassTo(latest, need, after, N) PROVE FALSE
    OBVIOUS
  <2>1. Lacking # {}
    <3>1. N \in 0..N
      BY <1>1
    <3>2. QED
      BY <3>1
  <2>2. PICK m \in Lacking : \A l \in Lacking : m =< l
    <3>1. Lacking \subseteq Nat
      BY <1>1
    <3> HIDE DEF Lacking
    <3>2. QED
      BY <2>1, <3>1, Smallest
  <2>3. m # 0
    <3>1. PassTo(latest, need, [i \in 0..0 |-> need], 0)
      BY DEF PassTo
    <3>2. 0 \notin Lacking
      BY <3>1
    <3>3. QED
      BY <2>2, <3>2
  <2>4. PICK after : PassTo(latest, need, after, m - 1)
    <3>1. m - 1 \in 0..N /\ ~(m =< m - 1)
      BY <1>1, <2>2, <2>3
    <3>2. m - 1 \notin Lacking
      <4> HIDE DEF Lacking
      <4>1. QED
        BY <2>2, <3>1
    <3>3. QED
      BY <3>1, <3>2
  <2> DEFINE r == [i \in 0..m |-> IF i = m THEN Widened(latest, after[m - 1], Order[m]) ELSE after[i]]
  <2>5. PassTo(latest, need, r, m)
    <3>1. ASSUME NEW i \in 0..m
          PROVE  r[i] = IF i = 0 THEN need ELSE Widened(latest, r[i - 1], Order[i])
      BY <1>1, <2>2, <2>3, <2>4 DEF PassTo
    <3>2. QED
      BY <3>1 DEF PassTo
  <2>6. QED
    BY <2>2, <2>5
<1>5. PassTo(latest, need, seen, N)
  BY <1>3, <1>4
<1>6. QED
  BY <1>1, <1>2, <1>5 DEF N

\* The passes are defined.
LEMMA PassesGrow ==
  ASSUME NEW latest
  PROVE  /\ Cardinality(Node) \in Nat /\ IsFiniteSet(Node)
         /\ Passes(latest)[0] = Executed(latest) \ Checked(latest)
         /\ \A k \in 1..(Cardinality(Node) + 1) : Passes(latest)[k] = Pass(latest, Passes(latest)[k - 1])
<1> DEFINE N == Cardinality(Node) + 1
           first == Executed(latest) \ Checked(latest)
           To(need, m) == need = [k \in 0..m |-> IF k = 0 THEN first ELSE Pass(latest, need[k - 1])]
<1>1. IsFiniteSet(Node) /\ Cardinality(Node) \in Nat /\ N \in Nat
  <2> DEFINE at == [i \in 1..Len(Order) |-> Order[i]]
  <2>1. Len(Order) \in Nat /\ DOMAIN Order = 1..Len(Order)
    BY GraphAssumption, LenProperties
  <2>2. at \in Surjection(1..Len(Order), Node)
    BY <2>1 DEF Surjection, Node, ToSet
  <2>3. IsFiniteSet(1..Len(Order))
    BY <2>1, FS_Interval
  <2>4. IsFiniteSet(Node)
    BY <2>2, <2>3, FS_Surjection
  <2>5. QED
    BY <2>4, FS_CardinalityType
<1>2. Passes(latest) = CHOOSE need : To(need, N)
  BY DEF Passes
<1> HIDE DEF N, first
<1>3. \E need : To(need, N)
  <2> DEFINE Lacking == {m \in 0..N : ~\E need : To(need, m)}
  <2> SUFFICES ASSUME ~\E need : To(need, N) PROVE FALSE
    OBVIOUS
  <2>1. Lacking # {}
    <3> HIDE DEF To
    <3>1. N \in 0..N
      BY <1>1
    <3>2. QED
      BY <3>1
  <2>2. PICK m \in Lacking : \A l \in Lacking : m =< l
    <3>1. Lacking \subseteq Nat
      BY <1>1
    <3> HIDE DEF Lacking
    <3>2. QED
      BY <2>1, <3>1, Smallest
  <2>3. m # 0
    <3>1. To([k \in 0..0 |-> first], 0)
      OBVIOUS
    <3>2. 0 \notin Lacking
      BY <3>1
    <3>3. QED
      BY <2>2, <3>2
  <2>4. PICK need : To(need, m - 1)
    <3>1. m - 1 \in 0..N /\ ~(m =< m - 1)
      BY <1>1, <2>2, <2>3
    <3>2. m - 1 \notin Lacking
      <4> HIDE DEF Lacking
      <4>1. QED
        BY <2>2, <3>1
    <3> HIDE DEF To
    <3>3. QED
      BY <3>1, <3>2
  <2> DEFINE r == [k \in 0..m |-> IF k = m THEN Pass(latest, need[m - 1]) ELSE need[k]]
  <2>5. To(r, m)
    <3>1. ASSUME NEW k \in 0..m PROVE r[k] = IF k = 0 THEN first ELSE Pass(latest, r[k - 1])
      BY <1>1, <2>2, <2>3, <2>4
    <3>2. QED
      BY <3>1
  <2>6. QED
    <3> HIDE DEF To, r
    <3>1. QED
      BY <2>2, <2>5
<1>4. To(Passes(latest), N)
  <2> HIDE DEF To
  <2>1. QED
    BY <1>2, <1>3
<1>5. \A k \in 0..N : Passes(latest)[k] = IF k = 0 THEN first ELSE Pass(latest, Passes(latest)[k - 1])
  BY <1>4
<1>6. QED
  BY <1>1, <1>5 DEF N, first

\* A pass takes nothing away; it adds nothing to a set that is closed; and if it adds nothing
\* at all, there is nothing to add.
LEMMA PassWidens ==
  ASSUME NEW latest, NEW need
  PROVE  /\ need \subseteq Pass(latest, need)
         /\ \A T : need \subseteq T /\ (\A n \in Checked(latest) : Sources(n) \cap T # {} => n \in T)
                     => Pass(latest, need) \subseteq T
         /\ Pass(latest, need) = need => \A n \in Checked(latest) : Sources(n) \cap need # {} => n \in need
<1> DEFINE N == Len(Order)
<1>1. PICK after : PassTo(latest, need, after, N) /\ Pass(latest, need) = after[N]
  BY PassGrows
<1>2. N \in Nat
  BY PassGrows
<1>3. /\ after[0] = need
      /\ \A i \in 1..N : after[i] = Widened(latest, after[i - 1], Order[i])
  BY <1>1, <1>2 DEF PassTo
<1>4. \A i \in 1..N : after[i - 1] \subseteq after[i]
  BY <1>3 DEF Widened
<1>o. DOMAIN Order = 1..N
  BY GraphAssumption, LenProperties
<1> HIDE DEF N
<1>5. \A j \in 0..N : \A i \in 0..j : after[i] \subseteq after[j]
  <2> DEFINE Bad == {j \in 0..N : ~\A i \in 0..j : after[i] \subseteq after[j]}
  <2> SUFFICES ASSUME Bad # {} PROVE FALSE
    OBVIOUS
  <2>1. PICK j \in Bad : \A l \in Bad : j =< l
    <3>1. Bad \subseteq Nat
      BY <1>2
    <3> HIDE DEF Bad
    <3>2. QED
      BY <3>1, Smallest
  <2>2. j # 0
    <3>1. \A i \in 0..0 : after[i] \subseteq after[0]
      OBVIOUS
    <3>2. QED
      BY <2>1, <3>1
  <2>3. j - 1 \in 0..N /\ j \in 1..N /\ ~(j =< j - 1)
    BY <1>2, <2>1, <2>2
  <2>4. j - 1 \notin Bad
    <3> HIDE DEF Bad
    <3>1. QED
      BY <2>1, <2>3
  <2>5. \A i \in 0..(j - 1) : after[i] \subseteq after[j - 1]
    BY <2>3, <2>4
  <2>6. \A i \in 0..j : i = j \/ i \in 0..(j - 1)
    BY <2>3
  <2>7. \A i \in 0..j : after[i] \subseteq after[j]
    BY <1>4, <2>3, <2>5, <2>6
  <2>8. QED
    BY <2>1, <2>7
<1>6. need \subseteq Pass(latest, need)
  BY <1>1, <1>2, <1>3, <1>5
<1>7. ASSUME NEW T, need \subseteq T, \A n \in Checked(latest) : Sources(n) \cap T # {} => n \in T
      PROVE  Pass(latest, need) \subseteq T
  <2> DEFINE Bad == {j \in 0..N : ~(after[j] \subseteq T)}
  <2>1. Bad = {}
    <3> SUFFICES ASSUME Bad # {} PROVE FALSE
      OBVIOUS
    <3>1. PICK j \in Bad : \A l \in Bad : j =< l
      <4>1. Bad \subseteq Nat
        BY <1>2
      <4> HIDE DEF Bad
      <4>2. QED
        BY <4>1, Smallest
    <3>2. j # 0
      BY <1>3, <1>7, <3>1
    <3>3. j - 1 \in 0..N /\ j \in 1..N /\ ~(j =< j - 1)
      BY <1>2, <3>1, <3>2
    <3>4. j - 1 \notin Bad
      <4> HIDE DEF Bad
      <4>1. QED
        BY <3>1, <3>3
    <3>5. after[j - 1] \subseteq T
      BY <3>3, <3>4
    <3>6. after[j] \subseteq T
      BY <1>3, <1>7, <3>3, <3>5 DEF Widened
    <3>7. QED
      BY <3>1, <3>6
  <2>2. N \in 0..N
    BY <1>2
  <2>3. QED
    BY <1>1, <2>1, <2>2
<1>8. ASSUME Pass(latest, need) = need, NEW n \in Checked(latest), Sources(n) \cap need # {}
      PROVE  n \in need
  <2>1. PICK i \in 1..N : Order[i] = n
    BY <1>8, <1>o DEF Checked, Node, ToSet
  <2>2. i - 1 \in 0..N /\ i \in 0..N /\ N \in 0..N /\ 0 \in 0..(i - 1) /\ i \in 0..N
    BY <1>2
  <2>3. need \subseteq after[i - 1]
    BY <1>3, <1>5, <2>2
  <2>4. n \in after[i]
    BY <1>3, <1>8, <2>1, <2>3 DEF Widened
  <2>5. after[i] \subseteq after[N]
    BY <1>5, <2>2
  <2>6. QED
    BY <1>1, <1>8, <2>4, <2>5
<1>9. QED
  BY <1>6, <1>7, <1>8

\* The propagation of a recovery ends, after at most as many passes as there are nodes and one
\* that changes nothing, and a pass that changes nothing leaves exactly what has to run
\* again: no order in which the nodes are listed leaves one out or adds one
\* (workflow_recover.go:96-114).
THEOREM PropagationEnds ==
  ASSUME NEW latest
  PROVE  /\ \E k \in 0..Cardinality(Node) : Passes(latest)[k + 1] = Passes(latest)[k]
         /\ \A k \in 0..Cardinality(Node) :
              Passes(latest)[k + 1] = Passes(latest)[k] => Passes(latest)[k] = NeedRerun(latest)
<1> DEFINE N == Cardinality(Node)
           need == Passes(latest)
           rerun == NeedRerun(latest)
<1>1. N \in Nat /\ IsFiniteSet(Node)
  BY PassesGrow
<1>2. need[0] = Executed(latest) \ Checked(latest)
  BY PassesGrow
<1>3. \A k \in 1..(N + 1) : need[k] = Pass(latest, need[k - 1])
  BY PassesGrow
<1>4. rerun \subseteq Node
  BY DEF NeedRerun, Executed
<1>5. \A n \in Checked(latest) : Sources(n) \cap rerun # {} => n \in rerun
  BY NeedRerunPropagates, CheckedIsExecuted
<1>6. need[0] \subseteq rerun
  BY <1>2, NeedRerunPropagates
<1> HIDE DEF N, need, rerun
<1>7. \A k \in 0..(N + 1) : need[0] \subseteq need[k] /\ need[k] \subseteq rerun
  <2> DEFINE Bad == {k \in 0..(N + 1) : ~(need[0] \subseteq need[k] /\ need[k] \subseteq rerun)}
  <2> SUFFICES ASSUME Bad # {} PROVE FALSE
    OBVIOUS
  <2>1. PICK k \in Bad : \A l \in Bad : k =< l
    <3>1. Bad \subseteq Nat
      BY <1>1
    <3> HIDE DEF Bad
    <3>2. QED
      BY <3>1, Smallest
  <2>2. k # 0
    BY <1>6, <2>1
  <2>3. k - 1 \in 0..(N + 1) /\ k \in 1..(N + 1) /\ ~(k =< k - 1)
    BY <1>1, <2>1, <2>2
  <2>4. k - 1 \notin Bad
    <3> HIDE DEF Bad
    <3>1. QED
      BY <2>1, <2>3
  <2>5. need[0] \subseteq need[k - 1] /\ need[k - 1] \subseteq rerun
    BY <2>3, <2>4
  <2>6. need[k] = Pass(latest, need[k - 1])
    BY <1>3, <2>3
  <2>7. need[0] \subseteq need[k]
    BY <2>5, <2>6, PassWidens
  <2>8. need[k] \subseteq rerun
    BY <1>5, <2>5, <2>6, PassWidens
  <2>9. QED
    BY <2>1, <2>7, <2>8
<1>8. ASSUME NEW k \in 0..N, need[k + 1] = need[k] PROVE need[k] = rerun
  <2>1. k + 1 \in 1..(N + 1) /\ (k + 1) - 1 = k /\ k \in 0..(N + 1)
    BY <1>1
  <2>2. Pass(latest, need[k]) = need[k]
    BY <1>3, <1>8, <2>1
  <2>3. \A n \in Checked(latest) : Sources(n) \cap need[k] # {} => n \in need[k]
    BY <2>2, PassWidens
  <2> DEFINE R == Executed(latest) \ need[k]
  <2>4. R \subseteq Checked(latest)
    BY <1>2, <1>7, <2>1
  <2>5. Closed(latest, R)
    BY <2>3, <2>4 DEF Closed
  <2>6. R \subseteq Reusable(latest)
    BY <2>5, ReusableIsLargest
  <2>7. rerun \subseteq need[k]
    BY <2>6 DEF NeedRerun, rerun
  <2>8. QED
    BY <1>7, <2>1, <2>7
<1>9. \E k \in 0..N : need[k + 1] = need[k]
  <2> SUFFICES ASSUME \A k \in 0..N : need[k + 1] # need[k] PROVE FALSE
    OBVIOUS
  <2>1. ASSUME NEW k \in 0..(N + 1)
        PROVE  IsFiniteSet(need[k]) /\ Cardinality(need[k]) \in Nat /\ Cardinality(need[k]) =< N
    <3>1. need[k] \in SUBSET Node
      BY <1>4, <1>7
    <3>2. QED
      BY <1>1, <3>1, FS_Subset, FS_CardinalityType DEF N
  <2>2. ASSUME NEW k \in 0..N PROVE Cardinality(need[k]) < Cardinality(need[k + 1])
    <3>1. k + 1 \in 1..(N + 1) /\ (k + 1) - 1 = k /\ k \in 0..(N + 1) /\ k + 1 \in 0..(N + 1)
      BY <1>1
    <3>2. need[k + 1] = Pass(latest, need[k])
      BY <1>3, <3>1
    <3>3. need[k] \in SUBSET need[k + 1] /\ need[k] # need[k + 1]
      BY <3>2, PassWidens
    <3>4. QED
      BY <2>1, <3>1, <3>3, FS_Subset
  <2> DEFINE size(k) == Cardinality(need[k])
             Bad == {k \in 0..(N + 1) : size(k) < k}
  <2>3. \A k \in 0..(N + 1) : size(k) \in Nat /\ size(k) =< N
    BY <2>1
  <2>4. \A k \in 0..N : size(k) < size(k + 1)
    BY <2>2
  <2> HIDE DEF size
  <2>5. Bad # {}
    <3>1. N + 1 \in Bad
      BY <1>1, <2>3
    <3>2. QED
      BY <3>1
  <2>6. PICK k \in Bad : \A l \in Bad : k =< l
    <3>1. Bad \subseteq Nat
      BY <1>1
    <3> HIDE DEF Bad
    <3>2. QED
      BY <2>5, <3>1, Smallest
  <2>7. k \in 0..(N + 1) /\ size(k) < k /\ k # 0
    BY <1>1, <2>3, <2>6
  <2>8. k - 1 \in 0..N /\ k - 1 \in 0..(N + 1) /\ ~(k =< k - 1) /\ (k - 1) + 1 = k
    BY <1>1, <2>7
  <2>9. k - 1 \notin Bad
    <3> HIDE DEF Bad
    <3>1. QED
      BY <2>6, <2>8
  <2>10. ~(size(k - 1) < k - 1)
    BY <2>8, <2>9
  <2>11. size(k - 1) < size(k)
    BY <2>4, <2>8
  <2>12. size(k - 1) \in Nat /\ size(k) \in Nat /\ k \in Nat
    BY <1>1, <2>3, <2>7, <2>8
  <2>13. QED
    BY <2>7, <2>10, <2>11, <2>12
<1>10. QED
  BY <1>8, <1>9 DEF N, need, rerun

\* Ranks fall along the edges: nothing comes back to where it was.
Acyclic(rank) == rank \in [Node -> Nat] /\ \A n \in Node : \A p \in Sources(n) : rank[n] < rank[p]

\* The nodes of a set to which no other node of the set leads.
Heads(S) == {n \in S : Sources(n) \cap S = {}}

\* In a graph without cycles every set of nodes has heads, from which the whole set is reached.
LEMMA HeadsLead ==
  ASSUME NEW rank, Acyclic(rank), NEW S, S \subseteq Node
  PROVE  /\ S # {} => Heads(S) # {}
         /\ \A T : Heads(S) \subseteq T /\ (\A n \in S : Sources(n) \cap S \cap T # {} => n \in T)
                     => S \subseteq T
<1>0. rank \in [Node -> Nat] /\ \A n \in Node : \A p \in Sources(n) : p \in Node /\ rank[n] < rank[p]
  BY SourcesIn DEF Acyclic
<1>1. ASSUME NEW U, U \subseteq Node, U # {} PROVE Heads(U) # {}
  <2> DEFINE above(n) == {m \in U : rank[m] > rank[n]}
             size(n)  == Cardinality(above(n))
             sizes    == {size(n) : n \in U}
  <2>1. \A n \in U : IsFiniteSet(above(n)) /\ size(n) \in Nat
    <3> SUFFICES ASSUME NEW n \in U PROVE IsFiniteSet(above(n)) /\ size(n) \in Nat
      OBVIOUS
    <3>1. above(n) \in SUBSET Node
      BY <1>1
    <3> HIDE DEF above
    <3>2. QED
      BY <3>1, PassesGrow, FS_Subset, FS_CardinalityType
  <2> HIDE DEF size
  <2>2. PICK n \in U : \A m \in U : size(n) =< size(m)
    <3>1. sizes \subseteq Nat /\ sizes # {}
      BY <1>1, <2>1
    <3>2. PICK t \in sizes : \A u \in sizes : t =< u
      <4> HIDE DEF sizes
      <4>1. QED
        BY <3>1, Smallest
    <3>3. QED
      BY <3>2
  <2>3. ASSUME NEW p \in Sources(n) \cap U PROVE FALSE
    <3>1. rank[n] < rank[p] /\ \A m \in U : rank[m] \in Nat
      BY <1>0, <1>1, <2>3
    <3>2. above(p) \in SUBSET above(n) /\ p \in above(n) /\ p \notin above(p)
      BY <3>1
    <3>3. size(p) < size(n)
      <4>1. above(p) # above(n)
        BY <3>2
      <4> HIDE DEF above
      <4>2. QED
        BY <2>1, <2>3, <3>2, <4>1, FS_Subset DEF size
    <3>4. size(n) =< size(p) /\ size(n) \in Nat /\ size(p) \in Nat
      BY <2>1, <2>2, <2>3
    <3>5. QED
      BY <3>3, <3>4
  <2>4. QED
    BY <2>3 DEF Heads
<1>2. ASSUME NEW T, Heads(S) \subseteq T, \A n \in S : Sources(n) \cap S \cap T # {} => n \in T,
             NEW x \in S, x \notin T
      PROVE  FALSE
  <2> DEFINE U == S \ T
  <2>1. Heads(U) # {}
    BY <1>1, <1>2
  <2>2. PICK n \in U : Sources(n) \cap U = {}
    BY <2>1 DEF Heads
  <2>3. n \notin Heads(S)
    BY <1>2, <2>2
  <2>4. Sources(n) \cap S \cap T # {}
    BY <2>2, <2>3 DEF Heads
  <2>5. QED
    BY <1>2, <2>2, <2>4
<1>3. QED
  BY <1>1, <1>2

\* Where a plan starts, everything that has to run again is reached: in a graph without cycles
\* what has to run again has roots, and whatever follows the edges from them comes to all of
\* it, so that a recovery leaves nothing out (workflow_recover.go:117-150).
THEOREM RootsReachAll ==
  ASSUME NEW rank, Acyclic(rank), NEW latest, NeedRerun(latest) # {}, NEW roots \in Roots(latest)
  PROVE  /\ roots # <<>>
         /\ ToSet(roots) \subseteq NeedRerun(latest)
         /\ \A T : ToSet(roots) \subseteq T
                   /\ (\A n \in NeedRerun(latest) : Sources(n) \cap NeedRerun(latest) \cap T # {} => n \in T)
                     => NeedRerun(latest) \subseteq T
<1> DEFINE need == NeedRerun(latest)
           places == {i \in DOMAIN Order : Order[i] \in need /\ Sources(Order[i]) \cap need = {}}
<1>1. need \subseteq Node
  BY DEF NeedRerun, Executed
<1>2. roots = AtPlaces(Order, places)
  BY DEF Roots
<1>3. places \subseteq DOMAIN Order
  OBVIOUS
<1>4. {Order[i] : i \in places} = Heads(need)
  <2>1. \A n \in need : \E i \in DOMAIN Order : Order[i] = n
    BY <1>1 DEF Node, ToSet
  <2> HIDE DEF need
  <2>2. \A n \in Heads(need) : \E i \in places : Order[i] = n
    BY <2>1 DEF Heads
  <2>3. \A i \in places : Order[i] \in Heads(need)
    BY DEF Heads
  <2> HIDE DEF places
  <2>4. QED
    BY <2>2, <2>3
<1> HIDE DEF places
<1>5. ToSet(roots) = Heads(need)
  <2>1. Order \in Seq(STRING)
    BY GraphAssumption
  <2>2. ToSet(AtPlaces(Order, places)) = {Order[i] : i \in places}
    BY <1>3, <2>1, AtPlacesAll
  <2>3. QED
    BY <1>2, <1>4, <2>2
<1>6. Heads(need) # {} /\ Heads(need) \subseteq need
  <2>1. need # {}
    OBVIOUS
  <2> HIDE DEF need
  <2>2. QED
    BY <1>1, <2>1, HeadsLead DEF Heads
<1>7. roots # <<>>
  BY <1>5, <1>6 DEF ToSet
<1>8. \A T : Heads(need) \subseteq T /\ (\A n \in need : Sources(n) \cap need \cap T # {} => n \in T)
               => need \subseteq T
  <2> HIDE DEF need
  <2>1. QED
    BY <1>1, HeadsLead
<1>9. QED
  BY <1>5, <1>6, <1>7, <1>8

\* A recovery finds nothing to go on with only if nothing was executed before, or an end of the
\* graph is among what is taken over: in a graph without cycles or dead ends the "interrupted"
\* that it then writes (workflow_recover.go:248-257) is never that of a run that has work left.
THEOREM PlanGoesOn ==
  ASSUME NEW rank, Acyclic(rank), \A n \in Node : Kind[n] # "end" => Successors(n) # <<>>,
         NEW latest, Executed(latest) # {}, <<>> \in Roots(latest)
  PROVE  EndReusable(latest)
<1> DEFINE S == Reusable(latest)
<1>1. NeedRerun(latest) = {}
  BY RootsReachAll
<1>2. S = Executed(latest) /\ S # {} /\ S \subseteq Node
  BY <1>1, ReusedOrRerun DEF Executed
<1>3. Frontier(latest) = {}
  <2>1. <<>> \in [1..Cardinality(Frontier(latest)) -> Frontier(latest)]
    BY <1>1 DEF Roots, SetToSeqs
  <2>2. Frontier(latest) \in SUBSET Node
    BY DEF Frontier
  <2>3. IsFiniteSet(Frontier(latest)) /\ Cardinality(Frontier(latest)) \in Nat
    BY <2>2, PassesGrow, FS_Subset, FS_CardinalityType
  <2>4. 1..Cardinality(Frontier(latest)) = {}
    <3>1. DOMAIN <<>> = {}
      OBVIOUS
    <3>2. QED
      BY <2>1, <3>1
  <2>5. Cardinality(Frontier(latest)) = 0
    BY <2>3, <2>4
  <2>6. QED
    BY <2>3, <2>5, FS_EmptySet
<1>4. rank \in [Node -> Nat]
  BY DEF Acyclic
<1> DEFINE ranks == {rank[n] : n \in S}
<1>5. ranks \subseteq Nat /\ ranks # {}
  BY <1>2, <1>4
<1>6. PICK n \in S : \A m \in S : rank[n] =< rank[m]
  <2>1. PICK t \in ranks : \A u \in ranks : t =< u
    <3> HIDE DEF ranks
    <3>1. QED
      BY <1>5, Smallest
  <2>2. QED
    BY <2>1
<1>7. ASSUME Kind[n] # "end" PROVE FALSE
  <2>1. Successors(n) \in Seq(Node) /\ Successors(n) # <<>>
    BY <1>2, <1>7, LeadsIn
  <2>2. PICK s \in ToSet(Successors(n)) : s \in Node
    <3>1. 1 \in DOMAIN Successors(n) /\ Successors(n)[1] \in Node
      BY <2>1, LenProperties, ElementOfSeq, EmptySeq
    <3>2. QED
      BY <3>1 DEF ToSet
  <2>3. n \in Sources(s)
    BY LeadsFrom
  <2>4. s \in S
    BY <1>3, <2>2, <2>3 DEF Frontier
  <2>5. rank[s] < rank[n] /\ rank[n] =< rank[s] /\ rank[s] \in Nat /\ rank[n] \in Nat
    BY <1>2, <1>4, <1>6, <2>2, <2>3, <2>4 DEF Acyclic
  <2>6. QED
    BY <2>5
<1>8. QED
  BY <1>6, <1>7 DEF EndReusable

\* A recovery that is about to end the run takes an end over, unless nothing was tried.
CloseFits == On(Loop, "close") => rows = <<>> \/ \E n \in op[Loop].seed : Kind[n] = "end"

\* Without a dead end and without a cycle that is so after every step.
LEMMA CloseStep ==
  ASSUME NEW rank, Acyclic(rank), \A n \in Node : Kind[n] # "end" => Successors(n) # <<>>,
         Types, Solo, CloseFits, [Next]_vars
  PROVE  CloseFits'
<1>0. rows \in Seq(Attempts) /\ OpTyped /\ Shape /\ Loop \in Callers
  BY TypesGiveShape DEF Types, Callers
<1>1. ASSUME op'[Loop].pc # "close" PROVE CloseFits'
  BY <1>1 DEF CloseFits, On
<1>2. ASSUME rows' = rows, op'[Loop] = op[Loop] PROVE CloseFits'
  BY <1>2 DEF CloseFits, On
<1>3. ASSUME NEW d \in Drivers, DriverStep(d) PROVE CloseFits'
  <2>1. Live(d)
    BY <1>3 DEF DriverStep, TaskStep, StartInserts, StartEnds, Loads, TakeWave, RunsDry, Announce, Doing,
         Insert, Refuse, Occupy, Busy, Replies, Errs, Complete, Evaluate, GoOn, Settle, Leave, Live, At, WaveDone
  <2>2. Loop \notin UnderWay /\ op' = op
    BY <1>0, <1>3, <2>1, DriverFrame DEF Solo, DriverFits
  <2>3. op'[Loop].pc # "close"
    BY <1>0, <2>2 DEF UnderWay
  <2>4. QED
    BY <1>1, <2>3
<1>4. ASSUME NEW o \in Callers, OpStep(o) PROVE CloseFits'
  <2>1. op[o].pc \notin {"new", "done"} /\ op[o] \in OpRecs
    BY <1>0, <1>4 DEF OpStep, Create, Reopen, Spawn, Look, Cancel, List, Mark, Read, Write, AbortRow, AbortRun,
         Status, Again, Find, Answer, Decide, AskBusy, Plan, Close, On, OpTyped
  <2>2. o \in UnderWay /\ CallFits(o)
    BY <2>1 DEF UnderWay, Solo
  <2>3. \/ Create(o) \/ Reopen(o) \/ Spawn(o) \/ Status(o) \/ AskBusy(o) \/ Plan(o) \/ Close(o)
    <3>1. op[o].pc \in {"create", "reopen", "spawn", "status", "busy", "plan", "close"}
      BY <2>1, <2>2 DEF CallFits, LoopFits, StartFits
    <3>2. QED
      BY <1>4, <3>1 DEF OpStep, Look, Cancel, List, Mark, Read, Write, AbortRow, AbortRun, Find, Again,
           Answer, Decide, On
  <2>4. rows' = rows
    BY <2>3 DEF Create, Reopen, Spawn, Status, AskBusy, Plan, Close
  <2>5. ASSUME ~Plan(o) PROVE op'[o].pc # "close" /\ \A p \in Callers \ {o} : op'[p] = op[p]
    <3>1. GoneOp.pc = "done"
      BY DEF GoneOp, NewOp
    <3>2. OpEnds(o) \/ \E pc \in {"reopen", "spawn", "busy", "plan"} : OpGoes(o, pc)
      <4>1. CASE Status(o)
        <5>1. op[o].kind = "resume"
          BY <2>2, <4>1 DEF CallFits, LoopFits, StartFits, Status, On
        <5>2. OpEnds(o) \/ OpGoes(o, "busy")
          BY <4>1, <5>1 DEF Status, Reviews
        <5>3. QED
          BY <5>2
      <4>2. CASE Create(o) \/ Reopen(o) \/ AskBusy(o)
        BY <4>2 DEF Create, Reopen, AskBusy
      <4>3. CASE Spawn(o) \/ Close(o)
        BY <4>3 DEF Spawn, Close
      <4>4. QED
        BY <2>3, <2>5, <4>1, <4>2, <4>3
    <3>3. QED
      BY <1>0, <2>1, <3>1, <3>2 DEF OpEnds, OpGoes, OpTyped, OpRecs
  <2>6. CASE Plan(o)
    <3>1. o = Loop
      BY <2>2, <2>6 DEF CallFits, StartFits, Plan, On
    <3>2. PICK latest, roots, seed :
             /\ latest = [n \in Node |-> Snapshot(n)] /\ roots \in Roots(latest) /\ seed = Reusable(latest)
             /\ op' = [op EXCEPT ![o].pc = IF roots = <<>> THEN "close" ELSE "reopen",
                                 ![o].starts = roots, ![o].seed = seed]
      BY <2>6 DEF Plan
    <3>3. op'[Loop].pc = (IF roots = <<>> THEN "close" ELSE "reopen") /\ op'[Loop].seed = seed
      BY <1>0, <3>1, <3>2 DEF OpTyped, OpRecs
    <3>4. ASSUME roots = <<>>, rows # <<>> PROVE \E n \in seed : Kind[n] = "end"
      <4>1. 1 \in DOMAIN rows /\ rows[1] \in Attempts
        BY <1>0, <3>4, LenProperties, ElementOfSeq, EmptySeq
      <4>2. rows[1].node \in Node /\ Tried(rows[1].node)
        BY <4>1 DEF Attempts, Tried
      <4>3. Snapshot(rows[1].node).status # "none"
        BY <1>0, <4>2, SnapshotSays
      <4>4. Executed(latest) # {}
        BY <3>2, <4>2, <4>3 DEF Executed
      <4>5. EndReusable(latest)
        BY <3>2, <3>4, <4>4, PlanGoesOn
      <4>6. QED
        BY <3>2, <4>5 DEF EndReusable
    <3>5. CASE roots = <<>>
      <4>1. rows' = <<>> \/ \E n \in op'[Loop].seed : Kind[n] = "end"
        BY <2>4, <3>3, <3>4, <3>5
      <4>2. QED
        BY <4>1 DEF CloseFits
    <3>6. CASE roots # <<>>
      BY <1>1, <3>3, <3>6
    <3>7. QED
      BY <3>5, <3>6
  <2>7. CASE ~Plan(o)
    <3>1. CASE o = Loop
      BY <1>1, <2>5, <2>7, <3>1
    <3>2. CASE o # Loop
      BY <1>0, <1>2, <2>4, <2>5, <2>7, <3>2
    <3>3. QED
      BY <3>1, <3>2
  <2>8. QED
    BY <2>6, <2>7
<1>5. ASSUME NEW o \in Ops, NEW kind \in OpKinds, Call(o, kind) PROVE CloseFits'
  BY <1>0, <1>2, <1>5, EngineAssumption DEF Call, OpTyped
<1>6. CASE LoopResumes
  BY <1>0, <1>1, <1>6 DEF LoopResumes, OpTyped, NewOp
<1>7. CASE Restart
  BY <1>0, <1>1, <1>7 DEF Restart, NewOp, GoneOp
<1>8. CASE WindowEnds \/ UNCHANGED vars
  BY <1>2, <1>8 DEF WindowEnds, vars
<1>9. QED
  BY <1>3, <1>4, <1>5, <1>6, <1>7, <1>8 DEF Next

\* A recovery gives a run up ("interrupted", nothing to go on with) only if the process had died
\* before the first attempt was inserted: in a graph without cycles or dead ends a run that
\* has attempts is gone on with, or is a success, after any number of restarts
\* (workflow_recover.go:248-257).
THEOREM RecoveryGoesOn ==
  ASSUME NEW CONSTANT rank, Acyclic(rank), \A n \in Node : Kind[n] # "end" => Successors(n) # <<>>,
         OpKinds \subseteq {"start"}
  PROVE  Spec => [][Close(Loop) /\ run'.status = "interrupted" => rows = <<>>]_vars
<1>1. Init => CloseFits
  BY DEF Init, CloseFits, On, NewOp, Callers
<1>2. Types /\ Solo /\ CloseFits /\ [Next]_vars => CloseFits'
  BY CloseStep
<1>3. Types /\ CloseFits /\ [Next]_vars => [Close(Loop) /\ run'.status = "interrupted" => rows = <<>>]_vars
  <2> SUFFICES ASSUME Types, CloseFits, Close(Loop), run'.status = "interrupted" PROVE rows = <<>>
    OBVIOUS
  <2>1. ~\E n \in op[Loop].seed : Kind[n] = "end"
    <3>1. ASSUME \E n \in op[Loop].seed : Kind[n] = "end" PROVE FALSE
      <4>1. run' = [status |-> "success", fail |-> ""]
        BY <3>1 DEF Close, SetRun
      <4>2. run'.status = "success"
        BY <4>1
      <4>3. QED
        BY <4>2
    <3>2. QED
      BY <3>1
  <2>2. QED
    BY <2>1 DEF CloseFits, Close
<1>4. QED
  BY <1>1, <1>2, <1>3, SoloAlways, TypesAlways, PTL DEF Spec
================================================================================
