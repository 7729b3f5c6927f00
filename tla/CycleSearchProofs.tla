-------------------------- MODULE CycleSearchProofs --------------------------
(***************************************************************************)
(* Proofs about the search for cycles, for every graph of groups: the      *)
(* search finds a cycle in every cyclic component at its first start, and  *)
(* every step of it is a step of CycleReports or a stutter.  Each step     *)
(* also takes down a measure, so there are finitely many; that the search  *)
(* does take them is fairness and left to TLC.                             *)
(*                                                                         *)
(* The argument has two parts.  A component has a simple cycle through any *)
(* of its keys (CycleThrough): reachability is stated by closed sets, so   *)
(* the set of keys at the end of a simple path is shown to be closed.  And *)
(* while the search of a component is under way, some frame has yet to     *)
(* look at the next key of such a cycle, which agrees with the path up to  *)
(* that frame (CycleIsAhead): no return can fail the outermost call.       *)
(***************************************************************************)
EXTENDS CycleSearch, SequenceTheorems, FiniteSetTheorems, WellFoundedInduction, TLAPS

\* A nonempty set of keys has a least one.
LEMMA LeastIsLeast ==
    ASSUME NEW S, S \subseteq Nat, S # {}
    PROVE  Least(S) \in S /\ \A l \in S : Least(S) <= l
<1>1. \E k \in S : \A l \in S : ~(<<l, k>> \in OpToRel(<, Nat))
    BY NatLessThanWellFounded, WFMin, Zenon
<1>2. PICK k \in S : \A l \in S : ~(l < k)
  <2>1. PICK k \in S : \A l \in S : ~(<<l, k>> \in OpToRel(<, Nat))
      BY <1>1, Zenon
  <2>2. \A l \in S : l < k => <<l, k>> \in OpToRel(<, Nat)
      BY Zenon DEF OpToRel
  <2> QED
      BY <2>1, <2>2, Zenon
<1>3. \A l \in S : k <= l
    BY <1>2
<1> QED
    BY <1>3 DEF Least

-----------------------------------------------------------------------------
(* Reachability *)

Graph == [Key -> SUBSET Key]

LEMMA ReachesItself == ASSUME NEW a, NEW x \in Key PROVE Reports!Reaches(a, x, x)
BY DEF Reports!Reaches

LEMMA ReachesFurther ==
    ASSUME NEW a \in Graph, NEW x \in Key, NEW y \in Key, NEW z \in Key,
           Reports!Reaches(a, x, y), Reports!Reaches(a, y, z)
    PROVE  Reports!Reaches(a, x, z)
BY DEF Reports!Reaches

LEMMA ReachesNext ==
    ASSUME NEW a \in Graph, NEW y \in Key, NEW z \in a[y]
    PROVE  Reports!Reaches(a, y, z)
BY DEF Reports!Reaches, Reports!Closed

\* Components are classes: what is in one has it as its component.
LEMMA ComponentsAreClasses ==
    ASSUME NEW a \in Graph, NEW C \in Reports!CyclicComponents(a), NEW x \in C
    PROVE  x \in Key /\ C = Reports!ComponentOf(a, x)
<1>1. PICK y \in Key : C = Reports!ComponentOf(a, y)
    BY DEF Reports!CyclicComponents
<1>2. x \in Key /\ Reports!Reaches(a, x, y) /\ Reports!Reaches(a, y, x)
    BY <1>1 DEF Reports!ComponentOf
<1>3. \A z \in Key : /\ Reports!Reaches(a, x, z) <=> Reports!Reaches(a, y, z)
                     /\ Reports!Reaches(a, z, x) <=> Reports!Reaches(a, z, y)
    BY <1>2, ReachesFurther
<1> QED
    BY <1>1, <1>2, <1>3 DEF Reports!ComponentOf

\* Hence two components with a key in common are one.
LEMMA ComponentsAreDisjoint ==
    ASSUME NEW a \in Graph, NEW C \in Reports!CyclicComponents(a),
           NEW D \in Reports!CyclicComponents(a), C \cap D # {}
    PROVE  C = D
BY ComponentsAreClasses

LEMMA ComponentsAreInhabited ==
    ASSUME NEW a \in Graph, NEW C \in Reports!CyclicComponents(a)
    PROVE  C # {} /\ C \subseteq Key
BY ComponentsAreClasses DEF Reports!CyclicComponents

\* A simple path from x, each key of which reaches the later ones.
IsPath(a, x, p) ==
    /\ p \in Seq(Key)
    /\ Len(p) > 0
    /\ p[1] = x
    /\ \A i, j \in 1..Len(p) : p[i] = p[j] => i = j
    /\ \A i \in 1..Len(p) - 1 : p[i + 1] \in a[p[i]]
    /\ \A i, j \in 1..Len(p) : i <= j => Reports!Reaches(a, p[i], p[j])

\* What is reached is reached on a simple path: the keys at the end of simple
\* paths are a closed set.
LEMMA PathExists ==
    ASSUME NEW a \in Graph, NEW x \in Key, NEW y \in Key, Reports!Reaches(a, x, y)
    PROVE  \E p : IsPath(a, x, p) /\ p[Len(p)] = y
<1> DEFINE S == {z \in Key : \E p : IsPath(a, x, p) /\ p[Len(p)] = z}
<1>1. x \in S
  <2> DEFINE p == <<x>>
  <2>1. p \in Seq(Key) /\ Len(p) = 1 /\ p[1] = x
      OBVIOUS
  <2>2. IsPath(a, x, p)
      BY <2>1, ReachesItself DEF IsPath
  <2> QED
      BY <2>1, <2>2
<1>2. ASSUME NEW k \in S, NEW m \in a[k] PROVE m \in S
  <2>1. m \in Key /\ k \in Key
      BY DEF Graph
  <2>2. PICK p : IsPath(a, x, p) /\ p[Len(p)] = k
      OBVIOUS
  <2>3. CASE \E i \in 1..Len(p) : p[i] = m
    <3>1. PICK i \in 1..Len(p) : p[i] = m
        BY <2>3
    <3> DEFINE q == SubSeq(p, 1, i)
    <3>2. q \in Seq(Key) /\ Len(q) = i /\ \A j \in 1..i : q[j] = p[j]
        BY <2>2 DEF IsPath
    <3>3. i <= Len(p) /\ Len(p) \in Nat
        BY <2>2 DEF IsPath
    <3> HIDE DEF q
    <3>4. q[1] = x /\ q[Len(q)] = m
        BY <2>2, <3>1, <3>2 DEF IsPath
    <3>5. \A j \in 1..i - 1 : q[j + 1] \in a[q[j]]
      <4> TAKE j \in 1..i - 1
      <4>1. j \in 1..Len(p) - 1 /\ q[j] = p[j] /\ q[j + 1] = p[j + 1]
          BY <3>2, <3>3
      <4> QED
          BY <2>2, <4>1 DEF IsPath
    <3>6. \A j, l \in 1..i : /\ q[j] = q[l] => j = l
                             /\ j <= l => Reports!Reaches(a, q[j], q[l])
      <4> TAKE j, l \in 1..i
      <4>1. /\ j \in 1..Len(p) /\ q[j] = p[j]
            /\ l \in 1..Len(p) /\ q[l] = p[l]
          BY <3>2, <3>3
      <4> QED
          BY <2>2, <4>1 DEF IsPath
    <3>7. IsPath(a, x, q)
        BY <3>2, <3>4, <3>5, <3>6 DEF IsPath
    <3> QED
        BY <2>1, <3>4, <3>7
  <2>4. CASE \A i \in 1..Len(p) : p[i] # m
    <3> DEFINE n == Len(p)
               q == Append(p, m)
    <3>1. /\ q \in Seq(Key) /\ Len(q) = n + 1 /\ n \in Nat
          /\ q[n + 1] = m /\ \A j \in 1..n : q[j] = p[j]
        BY <2>1, <2>2 DEF IsPath
    <3>2. \A i \in 1..n : Reports!Reaches(a, p[i], m)
      <4> TAKE i \in 1..n
      <4>1. Reports!Reaches(a, p[i], k) /\ p[i] \in Key
          BY <2>2, <3>1 DEF IsPath
      <4> QED
          BY <4>1, <2>1, ReachesNext, ReachesFurther
    <3>3. \A i, j \in 1..n + 1 : i <= j => Reports!Reaches(a, q[i], q[j])
        BY <2>1, <2>2, <3>1, <3>2, ReachesItself DEF IsPath
    <3>4. \A i \in 1..n : q[i + 1] \in a[q[i]]
        BY <2>2, <3>1 DEF IsPath
    <3>5. \A i, j \in 1..n + 1 : q[i] = q[j] => i = j
        BY <2>2, <2>4, <3>1 DEF IsPath
    <3> HIDE DEF q
    <3>6. IsPath(a, x, q)
        BY <2>2, <3>1, <3>3, <3>4, <3>5 DEF IsPath
    <3> QED
        BY <2>1, <3>1, <3>6
  <2> QED
      BY <2>3, <2>4
<1>3. S \in SUBSET Key /\ Reports!Closed(a, S)
    BY <1>2 DEF Reports!Closed, Graph
<1> QED
    BY <1>1, <1>3 DEF Reports!Reaches

\* A closed walk from x through distinct keys of C, as a report has it: the
\* first key is the last one again.
IsRound(a, C, x, c) ==
    /\ c \in Seq(C)
    /\ Len(c) > 2
    /\ c[1] = x
    /\ c[Len(c)] = x
    /\ \A i, j \in 1..Len(c) - 1 : c[i] = c[j] => i = j
    /\ \A i \in 1..Len(c) - 1 : c[i + 1] \in a[c[i]]

\* A key that is reached from another one has a predecessor that is, too.
LEMMA HasPredecessor ==
    ASSUME NEW a \in Graph, NEW x \in Key, NEW y \in Key, x # y, Reports!Reaches(a, y, x)
    PROVE  \E z \in Key : x \in a[z] /\ Reports!Reaches(a, y, z)
<1> DEFINE W == {z \in Key : z # x /\ Reports!Reaches(a, y, z)}
<1>1. SUFFICES ASSUME \A z \in Key : Reports!Reaches(a, y, z) => x \notin a[z]
               PROVE  FALSE
    OBVIOUS
<1>2. y \in W
    BY ReachesItself
<1>3. \A z \in W : a[z] \subseteq W
  <2> TAKE z \in W
  <2>1. \A m \in a[z] : m \in Key /\ m # x /\ Reports!Reaches(a, y, m)
      BY <1>1, ReachesNext, ReachesFurther DEF Graph
  <2> QED
      BY <2>1
<1> QED
    BY <1>2, <1>3 DEF Reports!Reaches, Reports!Closed

\* Every key of a cyclic component is on a simple cycle in it.
LEMMA CycleThrough ==
    ASSUME NEW a \in Reports!Loopless, NEW C \in Reports!CyclicComponents(a), NEW x \in C
    PROVE  \E c : IsRound(a, C, x, c)
<1>1. a \in Graph /\ \A k \in Key : k \notin a[k]
    BY DEF Reports!Loopless, Graph
<1>2. x \in Key /\ C = Reports!ComponentOf(a, x)
    BY <1>1, ComponentsAreClasses
<1>3. PICK y \in C : y # x
    BY DEF Reports!CyclicComponents
<1>4. y \in Key /\ Reports!Reaches(a, x, y) /\ Reports!Reaches(a, y, x)
    BY <1>2 DEF Reports!ComponentOf
<1>5. PICK z \in Key : x \in a[z] /\ Reports!Reaches(a, y, z)
    BY <1>1, <1>2, <1>3, <1>4, HasPredecessor
<1>6. Reports!Reaches(a, x, z) /\ Reports!Reaches(a, z, x) /\ z # x
    BY <1>1, <1>2, <1>4, <1>5, ReachesFurther, ReachesNext
<1>7. PICK p : IsPath(a, x, p) /\ p[Len(p)] = z
    BY <1>1, <1>2, <1>6, PathExists
<1> DEFINE n == Len(p)
           c == Append(p, x)
<1>8. n \in Nat /\ n > 1
    BY <1>6, <1>7 DEF IsPath
<1>9. \A i \in 1..n : p[i] \in C
  <2> TAKE i \in 1..n
  <2>1. p[i] \in Key /\ Reports!Reaches(a, x, p[i]) /\ Reports!Reaches(a, p[i], z)
      BY <1>7, <1>8 DEF IsPath
  <2>2. Reports!Reaches(a, p[i], x)
      BY <1>1, <1>2, <1>6, <2>1, ReachesFurther
  <2> QED
      BY <1>2, <2>1, <2>2 DEF Reports!ComponentOf
<1>10. p \in Seq(C)
    BY <1>7, <1>8, <1>9 DEF IsPath
<1>11. /\ c \in Seq(C) /\ Len(c) = n + 1 /\ c[n + 1] = x
       /\ \A i \in 1..n : c[i] = p[i]
    BY <1>8, <1>10
<1> HIDE DEF c
<1>12. \A i \in 1..n : c[i + 1] \in a[c[i]]
  <2> TAKE i \in 1..n
  <2>1. CASE i = n
      BY <1>5, <1>7, <1>8, <1>11, <2>1
  <2>2. CASE i \in 1..n - 1
      BY <1>7, <1>8, <1>11, <2>2 DEF IsPath
  <2> QED
      BY <1>8, <2>1, <2>2
<1>13. \A i, j \in 1..n : c[i] = c[j] => i = j
    BY <1>7, <1>11 DEF IsPath
<1>14. c[1] = x
    BY <1>7, <1>8, <1>11 DEF IsPath
<1>15. Len(c) > 2 /\ Len(c) - 1 = n /\ c[Len(c)] = x
    BY <1>8, <1>11
<1>16. IsRound(a, C, x, c)
    BY <1>11, <1>12, <1>13, <1>14, <1>15 DEF IsRound
<1> QED
    BY <1>16

-----------------------------------------------------------------------------
(* The inductive invariant *)

Cyclic == Reports!CyclicComponents(adjacency)

\* The components that have no report yet.
Open == IF phase = "idle" THEN pending ELSE pending \cup {members}

\* What is pending is a cyclic component, and so is what is being searched.
SearchesComponents ==
    /\ adjacency \in Reports!Loopless
    /\ pending \subseteq Cyclic
    /\ phase # "idle" => members \in Cyclic /\ members \notin pending

\* The first start is the least member, and no other one is ever tried.
StartsOnce ==
    /\ phase = "start" => starts = members
    /\ phase = "search" => Start = Least(members)

\* Some open call has yet to look at the next key of a cycle through the start
\* that goes along the path up to that call.
Ahead(c, d) ==
    /\ IsRound(adjacency, members, Start, c)
    /\ d \in 1..Len(path)
    /\ d < Len(c)
    /\ \A i \in 1..d : c[i] = path[i]
    /\ c[d + 1] \in remaining[d]
CycleIsAhead == phase = "search" => \E c, d : Ahead(c, d)

\* Report i is about component C.
IsAbout(i, C) == Elements(reported[i]) \subseteq C

\* Every report is a cycle of one component, which it enters at its least key, and
\* every component is reported once or open.
ReportsComponents ==
    /\ \A i \in DOMAIN reported :
          /\ reported[i] # <<>> /\ Reports!IsCycle(adjacency, reported[i])
          /\ \E C \in Cyclic \ Open : IsAbout(i, C) /\ reported[i][1] = Least(C)
    /\ \A C \in Cyclic \ Open : \E i \in DOMAIN reported : IsAbout(i, C)
    /\ \A C \in Cyclic : \A i, j \in DOMAIN reported :
          IsAbout(i, C) /\ IsAbout(j, C) => i = j

IInv ==
    /\ TypeOK
    /\ PathIsSimpleWalk
    /\ SearchesComponents
    /\ StartsOnce
    /\ CycleIsAhead
    /\ ReportsComponents

\* While searching there is an innermost frame, and all there is to know of it.
LEMMA SearchIsOpen ==
    ASSUME TypeOK, PathIsSimpleWalk, SearchesComponents, phase = "search"
    PROVE  /\ Depth \in Nat /\ Depth > 0 /\ Len(remaining) = Depth
           /\ path \in Seq(members) /\ members \subseteq Key
           /\ Start \in members /\ Start \in active
           /\ Untried \subseteq adjacency[path[Depth]]
           /\ adjacency \in Graph
           /\ Untried # {} => Neighbor \in Untried /\ Neighbor \in Key
<1>1. path \in Seq(Key) /\ path # <<>> /\ Len(remaining) = Depth
    BY DEF TypeOK, PathIsSimpleWalk, Depth
<1>2. Depth \in Nat /\ Depth > 0 /\ DOMAIN path = 1..Depth
    BY <1>1 DEF Depth
<1>3. \A i \in 1..Depth : path[i] \in active /\ path[i] \in members
    BY <1>2 DEF PathIsSimpleWalk, Elements
<1>4. path \in Seq(members) /\ Start \in members /\ Start \in active
    BY <1>1, <1>2, <1>3 DEF Start, Depth
<1>5. Untried \subseteq adjacency[path[Depth]] /\ adjacency \in Graph
    BY <1>2 DEF PathIsSimpleWalk, Untried, TypeOK, Graph
<1>6. Untried \subseteq Key
    BY <1>3, <1>2, <1>5 DEF Graph, TypeOK
<1>7. Untried # {} => Neighbor \in Untried /\ Neighbor \in Key
    BY <1>6, LeastIsLeast, KeysAreOrdered DEF Neighbor, KeysAreOrdered
<1> QED
    BY <1>1, <1>2, <1>4, <1>5, <1>7 DEF TypeOK

LEMMA InitEstablishes == Init => IInv /\ Reports!Init
<1> SUFFICES ASSUME Init PROVE IInv /\ Reports!Init
    OBVIOUS
<1>1. TypeOK
    BY ComponentsAreInhabited DEF Init, TypeOK, Reports!Loopless, Graph
<1>2. PathIsSimpleWalk
    BY DEF Init, PathIsSimpleWalk, Elements, NoRepeats
<1>3. SearchesComponents /\ StartsOnce /\ CycleIsAhead
    BY DEF Init, SearchesComponents, StartsOnce, CycleIsAhead, Cyclic
<1>4. ReportsComponents
    BY DEF Init, ReportsComponents, Cyclic, Open
<1>5. Reports!Init
    BY DEF Init, Reports!Init
<1> QED
    BY <1>1, <1>2, <1>3, <1>4, <1>5 DEF IInv

-----------------------------------------------------------------------------
(* The steps *)

Kept == IInv' /\ [Reports!Next]_Reports!vars

\* Steps between two reports do not touch what the promise is about.
LEMMA QuietStep ==
    ASSUME SearchesComponents, ReportsComponents, Open' = Open,
           UNCHANGED <<adjacency, reported>>
    PROVE  ReportsComponents' /\ UNCHANGED Reports!vars
<1>1. Cyclic' = Cyclic
    BY DEF Cyclic, Reports!CyclicComponents, Reports!ComponentOf, Reports!Reaches, Reports!Closed
<1>2. \A i, C : IsAbout(i, C)' <=> IsAbout(i, C)
    BY DEF IsAbout
<1>3. ReportsComponents'
    BY <1>1, <1>2 DEF ReportsComponents
<1> QED
    BY <1>3 DEF Reports!vars, Open

LEMMA InnerStep ==
    ASSUME SearchesComponents, ReportsComponents, phase # "idle", phase' # "idle",
           UNCHANGED <<adjacency, pending, members, reported>>
    PROVE  SearchesComponents' /\ ReportsComponents' /\ UNCHANGED Reports!vars
<1>1. Open' = Open
    BY DEF Open
<1>2. SearchesComponents'
    BY DEF SearchesComponents, Cyclic
<1> QED
    BY <1>1, <1>2, QuietStep

\* What a frame that moves on leaves as it was.
LEMMA AdvanceIs ==
    ASSUME remaining \in Seq(SUBSET Key), Depth \in 1..Len(remaining)
    PROVE  /\ Advance(remaining) \in Seq(SUBSET Key)
           /\ Len(Advance(remaining)) = Len(remaining)
           /\ \A i \in 1..Len(remaining) : Advance(remaining)[i] =
                 IF i = Depth THEN remaining[i] \ {Neighbor} ELSE remaining[i]
<1> DEFINE n == Len(remaining)
           r == Advance(remaining)
<1>1. n \in Nat /\ remaining \in [1..n -> SUBSET Key]
    OBVIOUS
<1>2. remaining[Depth] \ {Neighbor} \in SUBSET Key
    BY <1>1
<1>3. r \in [1..n -> SUBSET Key] /\ \A i \in 1..n : r[i] =
            IF i = Depth THEN remaining[i] \ {Neighbor} ELSE remaining[i]
    BY <1>1, <1>2 DEF Advance
<1>4. r \in Seq(SUBSET Key) /\ Len(r) = n
    BY <1>1, <1>3
<1> QED
    BY <1>3, <1>4

LEMMA NextComponentKeeps == ASSUME IInv, NextComponent PROVE Kept
<1> USE DEF IInv
<1>1. PICK C \in pending : pending' = pending \ {C} /\ members' = C /\ starts' = C
    BY DEF NextComponent
<1>2. C \in Cyclic /\ C \subseteq Key
    BY ComponentsAreInhabited DEF SearchesComponents, Cyclic, TypeOK, Graph
<1>3. phase = "idle" /\ phase' = "start" /\ path = <<>> /\ active = {}
    BY DEF NextComponent, PathIsSimpleWalk, Elements
<1>4. UNCHANGED <<adjacency, path, active, remaining, reported>>
    BY DEF NextComponent
<1>5. TypeOK'
    BY <1>1, <1>2, <1>3, <1>4 DEF TypeOK
<1>6. PathIsSimpleWalk'
    BY <1>3, <1>4 DEF PathIsSimpleWalk, Elements, NoRepeats
<1>7. SearchesComponents' /\ StartsOnce' /\ CycleIsAhead'
    BY <1>1, <1>2, <1>3, <1>4 DEF SearchesComponents, StartsOnce, CycleIsAhead, Cyclic
<1>8. Open' = Open
    BY <1>1, <1>3 DEF Open
<1>9. ReportsComponents' /\ UNCHANGED Reports!vars
    BY <1>4, <1>8, QuietStep
<1> QED
    BY <1>5, <1>6, <1>7, <1>9 DEF Kept

LEMMA TryStartKeeps == ASSUME IInv, TryStart PROVE Kept
<1> USE DEF IInv
<1> DEFINE s == Least(starts)
<1>1. phase = "start" /\ phase' = "search" /\ starts = members
    BY DEF TryStart, StartsOnce
<1>2. members \in Cyclic /\ adjacency \in Graph
    BY <1>1 DEF SearchesComponents, TypeOK, Graph
<1>3. members # {} /\ members \subseteq Key
    BY <1>2, ComponentsAreInhabited DEF Cyclic
<1>4. s \in members /\ s \in Key
    BY <1>1, <1>3, LeastIsLeast, KeysAreOrdered DEF KeysAreOrdered
<1>5. /\ path' = <<s>> /\ active' = {s} /\ remaining' = <<adjacency[s]>>
      /\ starts' = starts \ {s}
      /\ UNCHANGED <<adjacency, pending, members, reported>>
    BY DEF TryStart
<1>6. adjacency[s] \subseteq Key
    BY <1>2, <1>4 DEF Graph
<1> HIDE DEF s
<1>7. TypeOK'
    BY <1>1, <1>4, <1>5, <1>6 DEF TypeOK
<1>8. PathIsSimpleWalk'
    BY <1>1, <1>4, <1>5 DEF PathIsSimpleWalk, Elements, NoRepeats
<1>9. StartsOnce'
    BY <1>1, <1>5 DEF StartsOnce, Start, s
<1>10. CycleIsAhead'
  <2>1. PICK c : IsRound(adjacency, members, s, c)
      BY <1>1, <1>2, <1>4, CycleThrough DEF Cyclic, SearchesComponents
  <2>2. c[1] = s /\ c[2] \in adjacency[s] /\ 1 < Len(c)
      BY <2>1 DEF IsRound
  <2>3. Ahead(c, 1)'
      BY <1>5, <2>1, <2>2 DEF Ahead, Start
  <2> QED
      BY <2>3 DEF CycleIsAhead
<1>11. SearchesComponents' /\ ReportsComponents' /\ UNCHANGED Reports!vars
    BY <1>1, <1>5, InnerStep
<1> QED
    BY <1>7, <1>8, <1>9, <1>10, <1>11 DEF Kept

LEMMA SkipNeighborKeeps == ASSUME IInv, SkipNeighbor PROVE Kept
<1> USE DEF IInv
<1>1. /\ phase = "search" /\ Untried # {}
      /\ Neighbor \notin members \/ Neighbor \in active \ {Start}
      /\ remaining' = Advance(remaining)
      /\ UNCHANGED <<adjacency, pending, members, starts, path, active, reported, phase>>
    BY DEF SkipNeighbor
<1>2. /\ Depth \in Nat /\ Depth > 0 /\ Len(remaining) = Depth
      /\ Start \in members
    BY <1>1, SearchIsOpen
<1>3. remaining \in Seq(SUBSET Key)
    BY DEF TypeOK
<1>4. /\ remaining' \in Seq(SUBSET Key) /\ Len(remaining') = Depth
      /\ \A i \in 1..Depth : remaining'[i] =
            IF i = Depth THEN remaining[i] \ {Neighbor} ELSE remaining[i]
  <2>1. Depth \in 1..Len(remaining)
      BY <1>2
  <2>2. /\ Advance(remaining) \in Seq(SUBSET Key)
        /\ Len(Advance(remaining)) = Len(remaining)
        /\ \A i \in 1..Len(remaining) : Advance(remaining)[i] =
              IF i = Depth THEN remaining[i] \ {Neighbor} ELSE remaining[i]
      BY <1>3, <2>1, AdvanceIs
  <2> QED
      BY <1>1, <1>2, <2>2
<1>5. TypeOK'
    BY <1>1, <1>4 DEF TypeOK
<1>6. PathIsSimpleWalk'
  <2>0. DOMAIN path = 1..Depth /\ Len(path) = Depth
      BY DEF Depth, TypeOK
  <2>1. /\ \A i \in 1..Depth : remaining'[i] \subseteq remaining[i]
        /\ DOMAIN path = 1..Depth /\ Len(path) = Depth
      BY <1>4, <2>0
  <2>2. \A i \in DOMAIN path : remaining'[i] \subseteq adjacency[path[i]]
      BY <2>1 DEF PathIsSimpleWalk
  <2>3. \A i \in 1..Len(path) - 1 : path[i + 1] \in adjacency[path[i]] \ remaining'[i]
      BY <1>2, <2>1 DEF PathIsSimpleWalk
  <2> QED
      BY <1>1, <1>4, <2>1, <2>2, <2>3 DEF PathIsSimpleWalk, Elements, NoRepeats
<1>7. StartsOnce'
    BY <1>1 DEF StartsOnce, Start
<1>8. CycleIsAhead'
  <2>1. PICK c, d : Ahead(c, d)
      BY <1>1 DEF CycleIsAhead
  <2>2. d \in 1..Depth /\ c[d + 1] \in remaining[d] /\ IsRound(adjacency, members, Start, c)
      BY <2>1 DEF Ahead, Depth
  <2>3. ASSUME d = Depth PROVE c[d + 1] # Neighbor
    <3>1. SUFFICES ASSUME c[d + 1] = Neighbor PROVE FALSE
        OBVIOUS
    <3>2. d + 1 \in 1..Len(c) /\ Len(c) \in Nat /\ c[d + 1] \in members
        BY <2>1, <2>2 DEF Ahead, IsRound
    <3>3. Neighbor \in active \ {Start}
        BY <1>1, <3>1, <3>2
    <3>4. PICK i \in 1..Depth : path[i] = Neighbor /\ c[i] = Neighbor
        BY <2>1, <2>3, <3>3, <1>2 DEF PathIsSimpleWalk, Elements, Ahead, Depth
    <3>5. CASE d + 1 = Len(c)
        BY <3>1, <3>3, <3>5, <2>2 DEF IsRound
    <3>6. CASE d + 1 < Len(c)
        BY <3>1, <3>2, <3>4, <3>6, <2>2, <2>3, <1>2 DEF IsRound
    <3> QED
        BY <3>2, <3>5, <3>6
  <2>4. c[d + 1] \in remaining'[d]
      BY <1>4, <2>2, <2>3
  <2>5. Ahead(c, d)'
      BY <1>1, <2>1, <2>4 DEF Ahead, Start
  <2> QED
      BY <2>5 DEF CycleIsAhead
<1>9. SearchesComponents' /\ ReportsComponents' /\ UNCHANGED Reports!vars
    BY <1>1, InnerStep
<1> QED
    BY <1>5, <1>6, <1>7, <1>8, <1>9 DEF Kept

LEMMA DescendKeeps == ASSUME IInv, Descend PROVE Kept
<1> USE DEF IInv
<1> DEFINE n == Depth
           k == Neighbor
<1>1. /\ phase = "search" /\ Untried # {}
      /\ k \in members /\ k # Start /\ k \notin active
      /\ active' = active \cup {k}
      /\ path' = Append(path, k)
      /\ remaining' = Append(Advance(remaining), adjacency[k])
      /\ UNCHANGED <<adjacency, pending, members, starts, reported, phase>>
    BY DEF Descend
<1>2. /\ n \in Nat /\ n > 0 /\ Len(remaining) = n /\ Len(path) = n
      /\ path \in Seq(members) /\ members \subseteq Key /\ Start \in active
      /\ Untried \subseteq adjacency[path[n]] /\ adjacency \in Graph
      /\ k \in Untried /\ k \in Key
    BY <1>1, SearchIsOpen DEF Depth
<1>3. adjacency[k] \subseteq Key
    BY <1>2 DEF Graph
<1>4. /\ Advance(remaining) \in Seq(SUBSET Key) /\ Len(Advance(remaining)) = n
      /\ \A i \in 1..n : Advance(remaining)[i] =
            IF i = n THEN remaining[i] \ {k} ELSE remaining[i]
  <2>1. Depth \in 1..Len(remaining) /\ remaining \in Seq(SUBSET Key)
      BY <1>2 DEF TypeOK
  <2>2. /\ Advance(remaining) \in Seq(SUBSET Key)
        /\ Len(Advance(remaining)) = Len(remaining)
        /\ \A i \in 1..Len(remaining) : Advance(remaining)[i] =
              IF i = Depth THEN remaining[i] \ {Neighbor} ELSE remaining[i]
      BY <2>1, AdvanceIs
  <2> QED
      BY <1>2, <2>2
<1>5. /\ path' \in Seq(Key) /\ Len(path') = n + 1 /\ path'[n + 1] = k
      /\ \A i \in 1..n : path'[i] = path[i]
    BY <1>1, <1>2, AppendProperties
<1>6. /\ remaining' \in Seq(SUBSET Key) /\ Len(remaining') = n + 1
      /\ remaining'[n + 1] = adjacency[k]
      /\ \A i \in 1..n : remaining'[i] = IF i = n THEN remaining[i] \ {k} ELSE remaining[i]
  <2> DEFINE r == Advance(remaining)
  <2> HIDE DEF r
  <2>1. r \in Seq(SUBSET Key) /\ Len(r) = n /\ remaining' = Append(r, adjacency[k])
      BY <1>1, <1>4 DEF r
  <2>2. /\ remaining' \in Seq(SUBSET Key) /\ Len(remaining') = n + 1
        /\ remaining'[n + 1] = adjacency[k] /\ \A i \in 1..n : remaining'[i] = r[i]
      BY <1>3, <2>1, AppendProperties
  <2> QED
      BY <1>4, <2>2 DEF r
<1> HIDE DEF n, k
<1>7. TypeOK'
    BY <1>1, <1>2, <1>5, <1>6 DEF TypeOK
<1>8. DOMAIN path = 1..n /\ DOMAIN path' = 1..n + 1 /\ active = {path[i] : i \in 1..n}
    BY <1>2, <1>5 DEF PathIsSimpleWalk, Elements
<1>9. PathIsSimpleWalk'
  <2>1. active' = Elements(path')
    <3>1. Elements(path') = {path'[i] : i \in 1..n} \cup {path'[n + 1]}
        BY <1>2, <1>8 DEF Elements
    <3>2. {path'[i] : i \in 1..n} = {path[i] : i \in 1..n}
        BY <1>5
    <3> QED
        BY <1>1, <1>5, <1>8, <3>1, <3>2
  <2>2. active' \subseteq members'
      BY <1>1 DEF PathIsSimpleWalk
  <2>3. NoRepeats(path')
      BY <1>1, <1>2, <1>5, <1>8 DEF PathIsSimpleWalk, NoRepeats
  <2>4. \A i \in 1..n : remaining[i] \subseteq adjacency[path[i]]
      BY <1>8 DEF PathIsSimpleWalk
  <2>5. \A i \in DOMAIN path' : remaining'[i] \subseteq adjacency'[path'[i]]
    <3>1. \A i \in 1..n : remaining'[i] \subseteq remaining[i] /\ path'[i] = path[i]
        BY <1>5, <1>6
    <3>2. \A i \in 1..n : remaining'[i] \subseteq adjacency'[path'[i]]
        BY <1>1, <2>4, <3>1
    <3>3. remaining'[n + 1] \subseteq adjacency'[path'[n + 1]]
        BY <1>1, <1>5, <1>6
    <3> QED
        BY <1>2, <1>8, <3>2, <3>3
  <2>6. \A i \in 1..Len(path') - 1 : path'[i + 1] \in adjacency'[path'[i]] \ remaining'[i]
    <3>1. \A i \in 1..n - 1 : path'[i + 1] \in adjacency'[path'[i]] \ remaining'[i]
      <4> TAKE i \in 1..n - 1
      <4>1. /\ i \in 1..Len(path) - 1 /\ i \in 1..n /\ i + 1 \in 1..n /\ i # n
          BY <1>2
      <4>2. path[i + 1] \in adjacency[path[i]] \ remaining[i]
          BY <4>1 DEF PathIsSimpleWalk
      <4> QED
          BY <1>1, <1>5, <1>6, <4>1, <4>2
    <3>2. path'[n + 1] \in adjacency'[path'[n]] \ remaining'[n]
      <4>1. n \in 1..n
          BY <1>2
      <4>2. path'[n] = path[n] /\ path'[n + 1] = k /\ k \notin remaining'[n]
          BY <1>5, <1>6, <4>1
      <4>3. k \in adjacency[path[n]]
          BY <1>2
      <4> QED
          BY <1>1, <4>2, <4>3
    <3> QED
        BY <1>2, <1>5, <3>1, <3>2
  <2>7. Len(remaining') = Len(path') /\ (phase' = "search" <=> path' # <<>>)
      BY <1>1, <1>2, <1>5, <1>6
  <2> QED
      BY <2>1, <2>2, <2>3, <2>5, <2>6, <2>7 DEF PathIsSimpleWalk
<1>10. Start' = Start /\ StartsOnce'
    BY <1>1, <1>2, <1>5 DEF StartsOnce, Start
<1>11. CycleIsAhead'
  <2>1. PICK c, d : Ahead(c, d)
      BY <1>1 DEF CycleIsAhead
  <2>2. /\ d \in 1..n /\ c[d + 1] \in remaining[d] /\ d < Len(c)
        /\ IsRound(adjacency, members, Start, c)
        /\ Len(c) \in Nat
        /\ \A i \in 1..d : c[i] = path[i]
      BY <1>2, <2>1 DEF Ahead, IsRound
  <2>3. CASE d = n /\ c[d + 1] = k
    <3>1. d + 1 < Len(c)
        BY <1>1, <2>2, <2>3 DEF IsRound
    <3>2. c[d + 2] \in adjacency[k]
      <4>1. d + 1 \in 1..Len(c) - 1
          BY <2>2, <3>1
      <4>2. c[(d + 1) + 1] \in adjacency[c[d + 1]] /\ (d + 1) + 1 = d + 2
          BY <2>2, <4>1 DEF IsRound
      <4> QED
          BY <2>3, <4>2
    <3>3. \A i \in 1..d + 1 : c[i] = path'[i]
        BY <1>5, <2>2, <2>3
    <3>4. Ahead(c, d + 1)'
        BY <1>1, <1>2, <1>5, <1>6, <1>10, <2>2, <2>3, <3>1, <3>2, <3>3 DEF Ahead
    <3> QED
        BY <3>4 DEF CycleIsAhead
  <2>4. CASE ~(d = n /\ c[d + 1] = k)
    <3>1. c[d + 1] \in remaining'[d]
        BY <1>6, <2>2, <2>4
    <3>2. d \in 1..Len(path') /\ \A i \in 1..d : c[i] = path'[i]
        BY <1>2, <1>5, <2>2
    <3>3. Ahead(c, d)'
        BY <1>1, <1>10, <2>2, <3>1, <3>2 DEF Ahead
    <3> QED
        BY <3>3 DEF CycleIsAhead
  <2> QED
      BY <2>3, <2>4
<1>12. SearchesComponents' /\ ReportsComponents' /\ UNCHANGED Reports!vars
    BY <1>1, InnerStep
<1> QED
    BY <1>7, <1>9, <1>10, <1>11, <1>12 DEF Kept

LEMMA PopIsShorter ==
    ASSUME NEW S, NEW s \in Seq(S), NEW n \in Nat, n > 0, Len(s) = n
    PROVE  /\ Pop(s) \in Seq(S) /\ Len(Pop(s)) = n - 1 /\ DOMAIN Pop(s) = 1..n - 1
           /\ \A i \in 1..n - 1 : Pop(s)[i] = s[i]
<1>1. Pop(s) = SubSeq(s, 1, n - 1)
    BY DEF Pop
<1>2. /\ Pop(s) \in Seq(S) /\ Len(Pop(s)) = n - 1
      /\ \A i \in 1..n - 1 : Pop(s)[i] = s[i]
    BY <1>1
<1> QED
    BY <1>2

\* A call that returns has a caller that still has a cycle to find, so the
\* outermost call never fails.
LEMMA ReturnKeeps == ASSUME IInv, Return PROVE Kept
<1> USE DEF IInv
<1> DEFINE n == Depth
<1>1. /\ phase = "search" /\ Untried = {}
      /\ active' = active \ {path[n]}
      /\ path' = Pop(path) /\ remaining' = Pop(remaining)
      /\ phase' = PhaseAfterReturn
      /\ UNCHANGED <<adjacency, pending, members, starts, reported>>
    BY DEF Return
<1>2. /\ n \in Nat /\ n > 0 /\ Len(remaining) = n /\ Len(path) = n
      /\ DOMAIN path = 1..n
    BY <1>1, SearchIsOpen DEF Depth, TypeOK
<1>3. PICK c, d : Ahead(c, d)
    BY <1>1 DEF CycleIsAhead
<1>4. d \in 1..n - 1 /\ n > 1
    BY <1>1, <1>2, <1>3 DEF Ahead, Untried
<1>5. phase' = "search"
    BY <1>1, <1>4 DEF PhaseAfterReturn
<1>6. /\ path' \in Seq(Key) /\ Len(path') = n - 1 /\ DOMAIN path' = 1..n - 1
      /\ \A i \in 1..n - 1 : path'[i] = path[i]
    BY <1>1, <1>2, PopIsShorter DEF TypeOK
<1>7. /\ remaining' \in Seq(SUBSET Key) /\ Len(remaining') = n - 1
      /\ \A i \in 1..n - 1 : remaining'[i] = remaining[i]
    BY <1>1, <1>2, PopIsShorter DEF TypeOK
<1> HIDE DEF n
<1>8. TypeOK'
    BY <1>1, <1>5, <1>6, <1>7 DEF TypeOK
<1>9. PathIsSimpleWalk'
  <2>1. active = {path[i] : i \in 1..n}
      BY <1>2 DEF PathIsSimpleWalk, Elements
  <2>2. \A i, j \in 1..n : path[i] = path[j] => i = j
      BY <1>2 DEF PathIsSimpleWalk, NoRepeats
  <2>3. active' = Elements(path')
      BY <1>1, <1>2, <1>6, <2>1, <2>2 DEF Elements
  <2>4. active' \subseteq members' /\ NoRepeats(path') /\ Len(remaining') = Len(path')
      BY <1>1, <1>2, <1>6, <1>7, <2>2 DEF PathIsSimpleWalk, NoRepeats
  <2>5. phase' = "search" <=> path' # <<>>
      BY <1>4, <1>5, <1>6
  <2>6. \A i \in DOMAIN path' : remaining'[i] \subseteq adjacency'[path'[i]]
    <3> TAKE i \in DOMAIN path'
    <3>1. i \in 1..n /\ path'[i] = path[i] /\ remaining'[i] = remaining[i]
        BY <1>2, <1>6, <1>7
    <3> QED
        BY <1>1, <1>2, <3>1 DEF PathIsSimpleWalk
  <2>7. \A i \in 1..Len(path') - 1 : path'[i + 1] \in adjacency'[path'[i]] \ remaining'[i]
      BY <1>1, <1>2, <1>6, <1>7 DEF PathIsSimpleWalk
  <2> QED
      BY <2>3, <2>4, <2>5, <2>6, <2>7 DEF PathIsSimpleWalk
<1>10. Start' = Start /\ StartsOnce'
    BY <1>1, <1>4, <1>5, <1>6 DEF StartsOnce, Start
<1>11. Ahead(c, d)'
  <2>1. IsRound(adjacency, members, Start, c)'
      BY <1>1, <1>3, <1>10 DEF Ahead
  <2>2. d \in 1..Len(path') /\ d < Len(c)
      BY <1>3, <1>4, <1>6 DEF Ahead
  <2>3. \A i \in 1..d : c[i] = path'[i]
      BY <1>2, <1>3, <1>4, <1>6 DEF Ahead
  <2>4. c[d + 1] \in remaining'[d]
      BY <1>3, <1>4, <1>7 DEF Ahead
  <2> QED
      BY <2>1, <2>2, <2>3, <2>4 DEF Ahead
<1>12. CycleIsAhead'
    BY <1>11 DEF CycleIsAhead
<1>13. SearchesComponents' /\ ReportsComponents' /\ UNCHANGED Reports!vars
    BY <1>1, <1>5, InnerStep
<1> QED
    BY <1>8, <1>9, <1>10, <1>12, <1>13 DEF Kept

\* A simple path has no more keys than there are.
LEMMA PathIsShort ==
    ASSUME TypeOK, PathIsSimpleWalk
    PROVE  Len(path) \in Nat /\ Len(path) <= Cardinality(Key)
<1> DEFINE n == Len(path)
<1>1. path \in Seq(Key) /\ n \in Nat /\ DOMAIN path = 1..n
    BY LenProperties DEF TypeOK
<1>2. path \in Injection(1..n, Key)
    BY <1>1 DEF PathIsSimpleWalk, NoRepeats, Injection, IsInjective
<1>3. Cardinality(1..n) <= Cardinality(Key)
    BY <1>2, FS_Injection, KeysAreOrdered DEF KeysAreOrdered
<1>4. Cardinality(1..n) = n
    BY <1>1, FS_Interval
<1> QED
    BY <1>1, <1>3, <1>4

\* The path that comes back to its start is a cycle of the component.
LEMMA ClosedPathIsCycle ==
    ASSUME IInv, CloseCycle
    PROVE  LET c == Append(path, Start) IN
           /\ c \in Seq(members) /\ c \in Seq(Key)
           /\ Len(c) \in 3..Cardinality(Key) + 1
           /\ c[1] = Start
           /\ Reports!IsCycle(adjacency, c)
<1> USE DEF IInv
<1> DEFINE n == Depth
           c == Append(path, Start)
<1>1. phase = "search" /\ Untried # {} /\ Neighbor = Start
    BY DEF CloseCycle
<1>2. /\ n \in Nat /\ n > 0 /\ Len(path) = n /\ path \in Seq(members) /\ path \in Seq(Key)
      /\ Start \in members /\ members \subseteq Key
      /\ Start \in adjacency[path[n]]
    BY <1>1, SearchIsOpen DEF Depth, TypeOK
<1>3. n > 1
  <2>1. Start \notin adjacency[Start]
      BY <1>2 DEF SearchesComponents, Reports!Loopless
  <2>2. path[1] = Start
      BY DEF Start
  <2> QED
      BY <1>2, <2>1, <2>2
<1>4. n <= Cardinality(Key)
    BY <1>2, PathIsShort
<1>5. c \in Seq(members) /\ c \in Seq(Key)
    BY <1>2, AppendProperties
<1>6. /\ Len(c) = n + 1 /\ c[n + 1] = Start
      /\ \A i \in 1..n : c[i] = path[i]
    BY <1>2, AppendProperties
<1> HIDE DEF n, c
<1>7. Len(c) \in 3..Cardinality(Key) + 1
    BY <1>2, <1>3, <1>4, <1>6, FS_CardinalityType, KeysAreOrdered DEF KeysAreOrdered
<1>8. c[1] = Start
    BY <1>2, <1>6 DEF Start
<1>9. SubSeq(c, 1, Len(c) - 1) = path
    BY <1>2, <1>5, <1>6
<1>10. \A i \in 1..Len(c) - 1 : c[i + 1] \in adjacency[c[i]]
  <2>1. \A i \in 1..n - 1 : path[i + 1] \in adjacency[path[i]]
      BY <1>2 DEF PathIsSimpleWalk
  <2>2. \A i \in 1..n - 1 : c[i + 1] \in adjacency[c[i]]
      BY <1>2, <1>6, <2>1
  <2>3. c[n + 1] \in adjacency[c[n]]
      BY <1>2, <1>6
  <2> QED
      BY <1>2, <1>6, <2>2, <2>3
<1>11. Reports!IsCycle(adjacency, c)
    BY <1>2, <1>3, <1>6, <1>8, <1>9, <1>10
       DEF Reports!IsCycle, Reports!NoRepeats, PathIsSimpleWalk, NoRepeats
<1> QED
    BY <1>5, <1>7, <1>8, <1>11 DEF c

\* A report is about no component that is open, nor about two.
LEMMA ReportsAreElsewhere ==
    ASSUME TypeOK, SearchesComponents, ReportsComponents,
           NEW i \in DOMAIN reported, NEW C \in Cyclic, IsAbout(i, C)
    PROVE  C \notin Open /\ reported[i][1] \in C /\ reported[i][1] = Least(C)
<1>1. PICK D \in Cyclic \ Open : IsAbout(i, D) /\ reported[i][1] = Least(D)
    BY DEF ReportsComponents
<1>2. reported[i] \in Seq(Key) /\ reported[i] # <<>>
    BY DEF ReportsComponents, TypeOK
<1>3. reported[i][1] \in Elements(reported[i])
    BY <1>2 DEF Elements
<1>4. reported[i][1] \in C \cap D
    BY <1>1, <1>3 DEF IsAbout
<1>5. C = D
  <2>1. adjacency \in Graph
      BY DEF TypeOK, Graph
  <2> QED
      BY <1>4, <2>1, ComponentsAreDisjoint DEF Cyclic
<1> QED
    BY <1>1, <1>4, <1>5

LEMMA CloseCycleKeeps == ASSUME IInv, CloseCycle PROVE Kept
<1> USE DEF IInv
<1> DEFINE c == Append(path, Start)
<1>0. PICK m \in Nat : m = Len(reported)
    BY DEF TypeOK
<1>1. /\ phase = "search" /\ phase' = "idle"
      /\ reported' = Append(reported, c)
      /\ path' = <<>> /\ active' = {} /\ remaining' = <<>>
      /\ UNCHANGED <<adjacency, pending, members, starts>>
    BY DEF CloseCycle
<1>2. /\ c \in Seq(members) /\ c \in Seq(Key) /\ Len(c) \in 3..Cardinality(Key) + 1
      /\ c[1] = Start /\ Reports!IsCycle(adjacency, c)
    BY ClosedPathIsCycle
<1> HIDE DEF c
<1>3. members \in Cyclic /\ members \notin pending /\ Start = Least(members)
    BY <1>1 DEF SearchesComponents, StartsOnce
<1>4. Open = pending \cup {members} /\ Open' = pending /\ Open' = Open \ {members}
    BY <1>1, <1>3 DEF Open
<1>5. Cyclic' = Cyclic
    BY <1>1 DEF Cyclic, Reports!CyclicComponents, Reports!ComponentOf, Reports!Reaches, Reports!Closed
<1>6. /\ reported' \in Seq(Seq(Key))
      /\ DOMAIN reported = 1..m /\ DOMAIN reported' = 1..m + 1
      /\ reported'[m + 1] = c /\ \A i \in 1..m : reported'[i] = reported[i]
    BY <1>0, <1>1, <1>2, AppendProperties DEF TypeOK
<1>7. TypeOK'
    BY <1>1, <1>6 DEF TypeOK
<1>8. PathIsSimpleWalk'
    BY <1>1 DEF PathIsSimpleWalk, Elements, NoRepeats
<1>9. SearchesComponents' /\ StartsOnce' /\ CycleIsAhead'
    BY <1>1, <1>5 DEF SearchesComponents, StartsOnce, CycleIsAhead
<1>10. Elements(c) \subseteq members /\ c # <<>> /\ c[1] \in Elements(c)
    BY <1>2 DEF Elements
<1>11. /\ \A i \in 1..m, C \in Cyclic : IsAbout(i, C)' <=> IsAbout(i, C)
       /\ \A C \in Cyclic : IsAbout(m + 1, C)' <=> Elements(c) \subseteq C
  <2>1. m + 1 \in 1..m + 1 /\ reported'[m + 1] = c
      BY <1>6
  <2>2. \A i \in 1..m : reported'[i] = reported[i]
      BY <1>6
  <2> QED
      BY <2>1, <2>2 DEF IsAbout, Elements
<1>12. \A C \in Cyclic : Elements(c) \subseteq C => C = members
  <2>1. adjacency \in Graph
      BY DEF TypeOK, Graph
  <2> QED
      BY <1>3, <1>10, <2>1, ComponentsAreDisjoint DEF Cyclic
<1>13. ReportsComponents'
  <2>1. ASSUME NEW i \in 1..m + 1
        PROVE  /\ reported'[i] # <<>> /\ Reports!IsCycle(adjacency', reported'[i])
               /\ \E C \in Cyclic \ Open' : IsAbout(i, C)' /\ reported'[i][1] = Least(C)
    <3>1. CASE i \in 1..m
      <4>1. PICK C \in Cyclic \ Open : IsAbout(i, C) /\ reported[i][1] = Least(C)
          BY <1>6, <3>1 DEF ReportsComponents
      <4>2. C \in Cyclic \ Open' /\ IsAbout(i, C)' /\ reported'[i][1] = Least(C)
          BY <1>4, <1>6, <1>11, <3>1, <4>1
      <4>3. reported'[i] # <<>> /\ Reports!IsCycle(adjacency', reported'[i])
          BY <1>1, <1>6, <3>1 DEF ReportsComponents
      <4> QED
          BY <4>2, <4>3
    <3>2. CASE i = m + 1
        BY <1>1, <1>2, <1>3, <1>4, <1>6, <1>10, <1>11, <3>2
    <3> QED
        BY <1>6, <3>1, <3>2
  <2>2. ASSUME NEW C \in Cyclic \ Open' PROVE \E i \in 1..m + 1 : IsAbout(i, C)'
    <3>1. CASE C = members
        BY <1>3, <1>6, <1>10, <1>11, <3>1
    <3>2. CASE C # members
      <4>1. PICK i \in 1..m : IsAbout(i, C)
          BY <1>4, <1>6, <3>2 DEF ReportsComponents
      <4>2. IsAbout(i, C)' /\ i \in 1..m + 1
          BY <1>11, <4>1
      <4> QED
          BY <4>2
    <3> QED
        BY <3>1, <3>2
  <2>3. ASSUME NEW C \in Cyclic, NEW i \in 1..m + 1, NEW j \in 1..m + 1,
               IsAbout(i, C)', IsAbout(j, C)'
        PROVE  i = j
    <3>1. \A l \in 1..m : IsAbout(l, C) => C # members
        BY <1>4, <1>6, ReportsAreElsewhere
    <3>2. CASE i \in 1..m /\ j \in 1..m
        BY <1>6, <1>11, <2>3, <3>2 DEF ReportsComponents
    <3>3. IsAbout(m + 1, C)' => C = members
        BY <1>11, <1>12
    <3>4. \A l \in 1..m : IsAbout(l, C)' => C # members
        BY <1>11, <3>1
    <3>5. CASE i = m + 1 \/ j = m + 1
        BY <2>3, <3>3, <3>4, <3>5
    <3> QED
        BY <3>2, <3>5
  <2> QED
      BY <1>5, <1>6, <2>1, <2>2, <2>3 DEF ReportsComponents
<1>14. Reports!Next
  <2>1. Reports!Elements(c) \subseteq members
      BY <1>10 DEF Reports!Elements, Elements
  <2>2. Reports!Report(members, c)
      BY <1>1, <1>2, <1>4, <2>1 DEF Reports!Report, Open
  <2>3. c \in [1..Len(c) -> members] /\ members \in Open
      BY <1>2, <1>4
  <2>4. Cardinality(Key) = Reports!Cardinality(Key)
      BY DEF Cardinality, Reports!Cardinality
  <2> QED
      BY <1>2, <2>2, <2>3, <2>4 DEF Reports!Next, Open
<1> QED
    BY <1>7, <1>8, <1>9, <1>13, <1>14 DEF Kept

-----------------------------------------------------------------------------
(* The theorems *)

LEMMA NextKeeps == IInv /\ [Next]_vars => Kept
<1> SUFFICES ASSUME IInv, [Next]_vars PROVE Kept
    OBVIOUS
<1>1. CASE NextComponent
    BY <1>1, NextComponentKeeps
<1>2. CASE TryStart
    BY <1>2, TryStartKeeps
<1>3. CASE SkipNeighbor
    BY <1>3, SkipNeighborKeeps
<1>4. CASE CloseCycle
    BY <1>4, CloseCycleKeeps
<1>5. CASE Descend
    BY <1>5, DescendKeeps
<1>6. CASE Return
    BY <1>6, ReturnKeeps
<1>7. CASE UNCHANGED vars
  <2>1. TypeOK' /\ PathIsSimpleWalk' /\ StartsOnce'
      BY <1>7 DEF vars, IInv, TypeOK, PathIsSimpleWalk, StartsOnce, Start
  <2>2. SearchesComponents' /\ ReportsComponents'
      BY <1>7 DEF vars, IInv, SearchesComponents, ReportsComponents, IsAbout, Open, Cyclic, Start
  <2>3. CycleIsAhead'
      BY <1>7 DEF vars, IInv, CycleIsAhead, Ahead, Start
  <2>4. UNCHANGED Reports!vars
      BY <1>7 DEF vars, Reports!vars
  <2> QED
      BY <2>1, <2>2, <2>3, <2>4 DEF Kept, IInv
<1> QED
    BY <1>1, <1>2, <1>3, <1>4, <1>5, <1>6, <1>7 DEF Next

LEMMA Inductive == Spec => []IInv
<1>1. IInv /\ [Next]_vars => IInv'
    BY NextKeeps DEF Kept
<1> QED
    BY <1>1, InitEstablishes, PTL DEF Spec

LEMMA InvariantsFollow == IInv => NoComponentIsDropped /\ FirstStartSucceeds
<1> SUFFICES ASSUME IInv PROVE NoComponentIsDropped /\ FirstStartSucceeds
    OBVIOUS
<1> USE DEF IInv
<1>1. NoComponentIsDropped
  <2> SUFFICES ASSUME NEW C \in Cyclic, C \notin pending, phase = "idle" \/ members # C
               PROVE  Cardinality({i \in DOMAIN reported : Elements(reported[i]) \subseteq C}) = 1
      BY DEF NoComponentIsDropped, Cyclic
  <2>1. C \in Cyclic \ Open
      BY DEF Open
  <2>2. PICK i \in DOMAIN reported : IsAbout(i, C)
      BY <2>1 DEF ReportsComponents
  <2>3. {j \in DOMAIN reported : Elements(reported[j]) \subseteq C} = {i}
      BY <2>2 DEF ReportsComponents, IsAbout
  <2> QED
      BY <2>3, FS_Singleton
<1>2. FirstStartSucceeds
  <2>1. ASSUME NEW i \in DOMAIN reported
        PROVE  reported[i][1] = Least(Reports!ComponentOf(adjacency, reported[i][1]))
    <3>1. PICK C \in Cyclic : IsAbout(i, C)
        BY DEF ReportsComponents
    <3>2. reported[i][1] \in C /\ reported[i][1] = Least(C)
        BY <3>1, ReportsAreElsewhere
    <3>3. C = Reports!ComponentOf(adjacency, reported[i][1])
      <4>1. adjacency \in Graph
          BY DEF TypeOK, Graph
      <4> QED
          BY <3>2, <4>1, ComponentsAreClasses DEF Cyclic
    <3> QED
        BY <3>2, <3>3
  <2> QED
      BY <2>1 DEF FirstStartSucceeds, StartsOnce
<1> QED
    BY <1>1, <1>2

\* The search keeps to the groups: paths, frames and reports hold keys of the
\* graph, whatever the graph is.
THEOREM TypeCorrect == Spec => []TypeOK
<1>1. IInv => TypeOK
    BY DEF IInv
<1> QED
    BY <1>1, Inductive, PTL

\* Every descent and return of find_cycle_from keeps path and active in step:
\* the path is a walk through distinct members, and active is its keys.
THEOREM BookkeepingIsRight == Spec => []PathIsSimpleWalk
<1>1. IInv => PathIsSimpleWalk
    BY DEF IInv
<1> QED
    BY <1>1, Inductive, PTL

\* A component that cycle_events has passed has exactly one report: find_cycle
\* never returns None, which filter_map would drop.
THEOREM EveryComponentIsReported == Spec => []NoComponentIsDropped
BY Inductive, InvariantsFollow, PTL

\* find_cycle succeeds with the least member; no other start is tried.
THEOREM OneStartIsEnough == Spec => []FirstStartSucceeds
BY Inductive, InvariantsFollow, PTL

\* Every step of the search is a step of the promise or a stutter: it reports
\* simple cycles only, one for each component.  (The safety part of
\* ImplementsReports.)
THEOREM ReportsAreCycles == Spec => Reports!Init /\ [][Reports!Next]_Reports!vars
<1>1. IInv /\ [Next]_vars => [Reports!Next]_Reports!vars
    BY NextKeeps DEF Kept
<1> QED
    BY <1>1, Inductive, InitEstablishes, PTL DEF Spec
-----------------------------------------------------------------------------
(* The steps that are left *)

\* Vectors of numbers in lexicographic order.
Vectors(n) == [0..n -> Nat]
IsLower(f, g, n) == \E d \in 0..n : f[d] < g[d] /\ \A i \in 0..d - 1 : f[i] = g[i]
Lower(n) == {p \in Vectors(n) \X Vectors(n) : IsLower(p[1], p[2], n)}

\* There is no end of lower and lower vectors: among those that are least in the
\* first k places there is one that is least in the next as well.
THEOREM LowerIsWellFounded ==
    ASSUME NEW n \in Nat
    PROVE  IsWellFoundedOn(Lower(n), Vectors(n))
<1>1. SUFFICES ASSUME NEW S, S \subseteq Vectors(n), S # {}
               PROVE  \E f \in S : \A g \in S : <<g, f>> \notin Lower(n)
    BY MinWF
<1> DEFINE Beats(g, f, d) == g[d] < f[d] /\ \A i \in 0..d - 1 : g[i] = f[i]
           Leads(f, k) == \A g \in S : \A d \in 0..k - 1 : ~Beats(g, f, d)
           HasLeader(k) == \E f \in S : Leads(f, k)
<1>2. HasLeader(0)
  <2>1. PICK f \in S : TRUE
      BY <1>1
  <2>2. 0..0 - 1 = {}
      OBVIOUS
  <2>3. Leads(f, 0)
      BY <2>2
  <2> QED
      BY <2>3
<1>3. ASSUME NEW k \in 0..n, HasLeader(k) PROVE HasLeader(k + 1)
  <2>1. PICK f \in S : Leads(f, k)
      BY <1>3
  <2> DEFINE Like == {g \in S : \A i \in 0..k - 1 : g[i] = f[i]}
             T == {g[k] : g \in Like}
  <2>2. T \subseteq Nat /\ T # {}
    <3>1. f \in Like
        OBVIOUS
    <3>2. \A g \in Like : g[k] \in Nat
        BY <1>1 DEF Vectors
    <3> QED
        BY <3>1, <3>2
  <2>3. Least(T) \in T /\ \A m \in T : Least(T) <= m
      BY <2>2, LeastIsLeast
  <2>4. PICK h \in Like : h[k] = Least(T)
      BY <2>3
  <2>5. ASSUME NEW g \in S, NEW d \in 0..k, Beats(g, h, d) PROVE FALSE
    <3>1. CASE d = k
      <4>1. g \in Like
          BY <2>4, <2>5, <3>1
      <4>2. h[k] <= g[k] /\ g[k] \in Nat /\ h[k] \in Nat
          BY <2>2, <2>3, <2>4, <4>1
      <4> QED
          BY <2>5, <3>1, <4>2
    <3>2. CASE d # k
      <4>1. d \in 0..k - 1 /\ \A i \in 0..d - 1 : i \in 0..k - 1
          BY <1>3, <2>5, <3>2
      <4>2. Beats(g, f, d)
          BY <2>4, <2>5, <4>1
      <4> QED
          BY <2>1, <4>1, <4>2
    <3> QED
        BY <3>1, <3>2
  <2>6. Leads(h, k + 1)
    <3>1. (k + 1) - 1 = k
        BY <1>3
    <3> QED
        BY <2>5, <3>1
  <2> QED
      BY <2>4, <2>6
<1> HIDE DEF HasLeader
<1>4. HasLeader(n + 1)
  <2> DEFINE Bad == {k \in 0..n + 1 : ~HasLeader(k)}
  <2>1. SUFFICES ASSUME Bad # {} PROVE FALSE
      OBVIOUS
  <2>2. Bad \subseteq Nat
      OBVIOUS
  <2>3. Least(Bad) \in Bad /\ \A l \in Bad : Least(Bad) <= l
      BY <2>1, <2>2, LeastIsLeast
  <2>4. PICK b \in Bad : \A l \in Bad : b <= l
      BY <2>3
  <2>5. b # 0 /\ b \in 0..n + 1 /\ ~HasLeader(b)
      BY <1>2, <2>4
  <2>6. b - 1 \in 0..n /\ b - 1 \in 0..n + 1 /\ (b - 1) + 1 = b
      BY <2>5
  <2>7. HasLeader(b - 1)
      BY <2>4, <2>5, <2>6
  <2> QED
      BY <1>3, <2>5, <2>6, <2>7
<1>5. PICK f \in S : \A g \in S : \A d \in 0..(n + 1) - 1 : ~Beats(g, f, d)
    BY <1>4 DEF HasLeader
<1>6. 0..(n + 1) - 1 = 0..n
    OBVIOUS
<1> QED
    BY <1>5, <1>6 DEF Lower, IsLower

\* What is left to do: components, then starts, then for each frame, outermost
\* first, what its loop has yet to see.  A frame that is not there is less than
\* one whose loop is at its end.
Width == Cardinality(Key) + 1
Frame(i) == IF i \in DOMAIN remaining THEN 1 + Cardinality(remaining[i]) ELSE 0
Measure ==
    [i \in 0..Width |-> CASE i = 0 -> Cardinality(pending)
                          [] i = 1 -> Cardinality(starts)
                          [] i > 1 -> Frame(i - 1)]
IsMeasured == Measure \in Vectors(Width)

LEMMA MeasureIsVector == IInv => IsMeasured
<1> SUFFICES ASSUME IInv PROVE IsMeasured
    OBVIOUS
<1>1. TypeOK
    BY DEF IInv
<1>2. Cardinality(pending) \in Nat
  <2>1. pending \in SUBSET SUBSET Key
      BY <1>1 DEF TypeOK
  <2>2. IsFiniteSet(SUBSET Key)
      BY KeysAreOrdered, FS_SUBSET
  <2> QED
      BY <2>1, <2>2, FS_Subset, FS_CardinalityType
<1>3. Cardinality(starts) \in Nat
  <2>1. starts \in SUBSET Key
      BY <1>1 DEF TypeOK
  <2> QED
      BY <2>1, KeysAreOrdered, FS_Subset, FS_CardinalityType
<1>4. \A i : Frame(i) \in Nat
  <2>1. ASSUME NEW i \in DOMAIN remaining PROVE Cardinality(remaining[i]) \in Nat
    <3>1. remaining[i] \in SUBSET Key
        BY <1>1 DEF TypeOK
    <3> QED
        BY <3>1, KeysAreOrdered, FS_Subset, FS_CardinalityType
  <2> QED
      BY <2>1 DEF Frame
<1>5. Width \in Nat
    BY KeysAreOrdered, FS_CardinalityType DEF Width
<1> QED
    BY <1>2, <1>3, <1>4, <1>5 DEF IsMeasured, Measure, Vectors

\* One place gets less, and those before it stay.
LEMMA GetsLower ==
    ASSUME IsMeasured, IsMeasured', NEW d \in 0..Width,
           Measure'[d] < Measure[d], \A i \in 0..d - 1 : Measure'[i] = Measure[i]
    PROVE  <<Measure', Measure>> \in Lower(Width)
<1>1. Measure \in Vectors(Width) /\ Measure' \in Vectors(Width)
    BY DEF IsMeasured, Width
<1>2. IsLower(Measure', Measure, Width)
    BY DEF IsLower
<1> QED
    BY <1>1, <1>2 DEF Lower

LEMMA OneLess ==
    ASSUME NEW S, IsFiniteSet(S), NEW x \in S
    PROVE  Cardinality(S \ {x}) \in Nat /\ Cardinality(S \ {x}) < Cardinality(S)
<1>1. S \ {x} \in SUBSET S /\ S \ {x} # S
    OBVIOUS
<1>2. IsFiniteSet(S \ {x}) /\ Cardinality(S \ {x}) <= Cardinality(S)
      /\ (Cardinality(S) = Cardinality(S \ {x}) => S = S \ {x})
    BY <1>1, FS_Subset
<1>3. Cardinality(S) \in Nat /\ Cardinality(S \ {x}) \in Nat
    BY <1>2, FS_CardinalityType
<1> QED
    BY <1>1, <1>2, <1>3

\* The frame of the innermost call gets less; those above it stay.
LEMMA FrameGetsLower ==
    ASSUME IInv, IsMeasured, IsMeasured', phase = "search",
           UNCHANGED <<pending, starts>>, NEW d \in 1..Depth,
           Frame(d)' < Frame(d), \A i \in 1..d - 1 : Frame(i)' = Frame(i)
    PROVE  <<Measure', Measure>> \in Lower(Width)
<1>1. Depth \in Nat /\ Depth <= Cardinality(Key) /\ Cardinality(Key) \in Nat
    BY PathIsShort, KeysAreOrdered, FS_CardinalityType DEF IInv, Depth
<1>2. d + 1 \in 0..Width /\ d + 1 > 1 /\ (d + 1) - 1 = d
    BY <1>1 DEF Width
<1>3. Measure[d + 1] = Frame(d) /\ Measure'[d + 1] = Frame(d)'
    BY <1>2 DEF Measure, Width
<1>4. ASSUME NEW i \in 0..(d + 1) - 1 PROVE Measure'[i] = Measure[i]
  <2>1. i \in 0..Width /\ i \in Nat /\ (i > 1 => i - 1 \in 1..d - 1)
      BY <1>1, <1>2, <1>4 DEF Width
  <2>2. i = 0 \/ i = 1 \/ i > 1
      BY <2>1
  <2>3. CASE i > 1
      BY <2>1, <2>3 DEF Measure, Width
  <2>4. CASE i = 0 \/ i = 1
      BY <2>1, <2>4 DEF Measure, Width
  <2> QED
      BY <2>2, <2>3, <2>4
<1> HIDE DEF Measure
<1> QED
    BY <1>2, <1>3, <1>4, GetsLower

LEMMA EachStepLowers ==
    ASSUME IInv, IInv', IsMeasured, IsMeasured', Next
    PROVE  <<Measure', Measure>> \in Lower(Width)
<1>1. Width \in Nat /\ Width >= 1 /\ Cardinality(Key) \in Nat
    BY KeysAreOrdered, FS_CardinalityType DEF Width
<1>2. CASE NextComponent
  <2>1. PICK C \in pending : pending' = pending \ {C}
      BY <1>2 DEF NextComponent
  <2>2. IsFiniteSet(pending)
    <3>1. pending \in SUBSET SUBSET Key
        BY DEF IInv, TypeOK
    <3> QED
        BY <3>1, KeysAreOrdered, FS_SUBSET, FS_Subset
  <2>3. Cardinality(pending') < Cardinality(pending)
      BY <2>1, <2>2, OneLess
  <2>4. Measure'[0] < Measure[0]
      BY <1>1, <2>3 DEF Measure, Width
  <2>5. \A i \in 0..0 - 1 : Measure'[i] = Measure[i]
      OBVIOUS
  <2> QED
      BY <1>1, <2>4, <2>5, GetsLower
<1>3. CASE TryStart
  <2>1. /\ phase = "start" /\ pending' = pending /\ starts' = starts \ {Least(starts)}
      BY <1>3 DEF TryStart
  <2>2. starts = members /\ members \in Cyclic /\ adjacency \in Graph
      BY <2>1 DEF IInv, StartsOnce, SearchesComponents, TypeOK, Graph
  <2>3. starts # {} /\ starts \in SUBSET Key
      BY <2>2, ComponentsAreInhabited DEF Cyclic
  <2>4. Least(starts) \in starts
      BY <2>3, LeastIsLeast, KeysAreOrdered
  <2>5. IsFiniteSet(starts)
      BY <2>3, KeysAreOrdered, FS_Subset
  <2>6. Cardinality(starts') < Cardinality(starts)
      BY <2>1, <2>4, <2>5, OneLess
  <2>7. Measure'[1] < Measure[1] /\ Measure'[0] = Measure[0]
      BY <1>1, <2>1, <2>6 DEF Measure, Width
  <2>8. \A i \in 0..1 - 1 : Measure'[i] = Measure[i]
      BY <2>7
  <2>9. 1 \in 0..Width
      BY <1>1
  <2> QED
      BY <2>7, <2>8, <2>9, GetsLower
<1>4. ASSUME phase = "search", UNCHANGED <<pending, starts>>,
             NEW d \in 1..Depth, Frame(d)' < Frame(d), \A i \in 1..d - 1 : Frame(i)' = Frame(i)
      PROVE  <<Measure', Measure>> \in Lower(Width)
    BY <1>4, FrameGetsLower
<1>5. ASSUME phase = "search"
      PROVE  /\ Depth \in Nat \ {0} /\ Len(remaining) = Depth /\ DOMAIN remaining = 1..Depth
             /\ remaining \in Seq(SUBSET Key)
             /\ \A i \in 1..Depth : IsFiniteSet(remaining[i]) /\ Frame(i) = 1 + Cardinality(remaining[i])
             /\ Untried = remaining[Depth]
             /\ Untried # {} => Neighbor \in Untried
  <2>1. Depth \in Nat /\ Depth > 0 /\ Len(remaining) = Depth /\ remaining \in Seq(SUBSET Key)
      BY <1>5, SearchIsOpen DEF IInv, TypeOK
  <2>2. DOMAIN remaining = 1..Depth
      BY <2>1, LenProperties
  <2>3. \A i \in 1..Depth : remaining[i] \in SUBSET Key
      BY <2>1, <2>2
  <2>4. \A i \in 1..Depth : IsFiniteSet(remaining[i])
      BY <2>3, KeysAreOrdered, FS_Subset
  <2>5. Untried \in SUBSET Nat
      BY <2>1, <2>3, KeysAreOrdered DEF Untried
  <2>6. Untried # {} => Neighbor \in Untried
      BY <2>5, LeastIsLeast DEF Neighbor
  <2> QED
      BY <2>1, <2>2, <2>4, <2>6 DEF Frame, Untried
<1>6. ASSUME phase = "search", Untried # {}, UNCHANGED <<pending, starts>>,
             DOMAIN remaining' \in {1..Depth, 1..Depth + 1},
             \A i \in 1..Depth : remaining'[i] = Advance(remaining)[i]
      PROVE  <<Measure', Measure>> \in Lower(Width)
  <2>1. PICK d \in Nat \ {0} : d = Depth
      BY <1>5, <1>6
  <2>2. /\ DOMAIN remaining = 1..d /\ Len(remaining) = d /\ remaining \in Seq(SUBSET Key)
        /\ \A i \in 1..d : IsFiniteSet(remaining[i])
        /\ Neighbor \in remaining[d]
      BY <1>5, <1>6, <2>1
  <2>3. \A i \in 1..d : Advance(remaining)[i] =
            IF i = d THEN remaining[i] \ {Neighbor} ELSE remaining[i]
    <3>1. Depth \in 1..Len(remaining) /\ Len(remaining) = d
        BY <2>1, <2>2
    <3> QED
        BY <2>1, <2>2, <3>1, AdvanceIs
  <2>4. \A i \in 1..d : i \in DOMAIN remaining' /\ remaining'[i] = Advance(remaining)[i]
      BY <1>6, <2>1
  <2>5. d \in 1..d /\ \A i \in 1..d - 1 : i \in 1..d /\ i # d
      OBVIOUS
  <2>6. remaining'[d] = remaining[d] \ {Neighbor}
      BY <2>3, <2>4, <2>5
  <2>7. /\ Cardinality(remaining'[d]) \in Nat /\ Cardinality(remaining[d]) \in Nat
        /\ Cardinality(remaining'[d]) < Cardinality(remaining[d])
      BY <2>2, <2>5, <2>6, OneLess, FS_CardinalityType
  <2>8. Frame(d)' < Frame(d)
    <3>1. Frame(d) = 1 + Cardinality(remaining[d]) /\ Frame(d)' = 1 + Cardinality(remaining'[d])
        BY <2>2, <2>4, <2>5 DEF Frame
    <3> QED
        BY <2>7, <3>1
  <2>9. \A i \in 1..d - 1 : Frame(i)' = Frame(i)
      BY <2>2, <2>3, <2>4, <2>5 DEF Frame
  <2> QED
      BY <1>4, <1>6, <2>1, <2>5, <2>8, <2>9
<1>7. CASE SkipNeighbor
  <2>1. /\ phase = "search" /\ Untried # {} /\ remaining' = Advance(remaining)
        /\ UNCHANGED <<pending, starts>>
      BY <1>7 DEF SkipNeighbor
  <2>2. DOMAIN remaining' = 1..Depth
      BY <1>5, <2>1, AdvanceIs, LenProperties
  <2> QED
      BY <1>6, <2>1, <2>2
<1>8. CASE Descend
  <2>1. /\ phase = "search" /\ Untried # {} /\ UNCHANGED <<pending, starts>>
        /\ remaining' = Append(Advance(remaining), adjacency[Neighbor])
        /\ Neighbor \in members
      BY <1>8 DEF Descend
  <2>2. /\ Advance(remaining) \in Seq(SUBSET Key) /\ Len(Advance(remaining)) = Depth
        /\ Depth \in Nat
      BY <1>5, <2>1, AdvanceIs
  <2>3. adjacency[Neighbor] \in SUBSET Key
      BY <2>1 DEF IInv, TypeOK
  <2>4. /\ DOMAIN remaining' = 1..Depth + 1
        /\ \A i \in 1..Depth : remaining'[i] = Advance(remaining)[i]
      BY <2>1, <2>2, <2>3, AppendProperties, LenProperties
  <2> QED
      BY <1>6, <2>1, <2>4
<1>9. CASE CloseCycle
  <2>1. phase = "search" /\ remaining' = <<>> /\ UNCHANGED <<pending, starts>>
      BY <1>9 DEF CloseCycle
  <2>2. 1 \in 1..Depth /\ 1 \in DOMAIN remaining
        /\ IsFiniteSet(remaining[1])
      BY <1>5, <2>1
  <2>3. Frame(1)' < Frame(1)
    <3>1. Frame(1)' = 0 /\ Frame(1) = 1 + Cardinality(remaining[1])
        BY <2>1, <2>2 DEF Frame
    <3>2. Cardinality(remaining[1]) \in Nat
        BY <2>2, FS_CardinalityType
    <3> QED
        BY <3>1, <3>2
  <2>4. \A i \in 1..1 - 1 : Frame(i)' = Frame(i)
      OBVIOUS
  <2> QED
      BY <1>4, <2>1, <2>2, <2>3, <2>4
<1>10. CASE Return
  <2>1. phase = "search" /\ remaining' = Pop(remaining) /\ UNCHANGED <<pending, starts>>
      BY <1>10 DEF Return
  <2>2. PICK d \in Nat \ {0} : d = Depth
      BY <1>5, <2>1
  <2>3. /\ DOMAIN remaining = 1..d /\ Len(remaining) = d /\ remaining \in Seq(SUBSET Key)
        /\ IsFiniteSet(remaining[d])
      BY <1>5, <2>1, <2>2
  <2>4. /\ DOMAIN remaining' = 1..d - 1
        /\ \A i \in 1..d - 1 : remaining'[i] = remaining[i]
      BY <2>1, <2>3, PopIsShorter
  <2>5. d \in 1..d /\ d \notin 1..d - 1 /\ \A i \in 1..d - 1 : i \in 1..d
      OBVIOUS
  <2>6. Frame(d)' < Frame(d)
    <3>1. Frame(d)' = 0 /\ Frame(d) = 1 + Cardinality(remaining[d])
        BY <2>3, <2>4, <2>5 DEF Frame
    <3>2. Cardinality(remaining[d]) \in Nat
        BY <2>3, FS_CardinalityType
    <3> QED
        BY <3>1, <3>2
  <2>7. \A i \in 1..d - 1 : Frame(i)' = Frame(i)
      BY <2>3, <2>4, <2>5 DEF Frame
  <2> QED
      BY <1>4, <2>1, <2>2, <2>5, <2>6, <2>7
<1> QED
    BY <1>2, <1>3, <1>7, <1>8, <1>9, <1>10 DEF Next

GetsLess == <<Measure', Measure>> \in Lower(Width)

\* The search can go on for finitely many steps only, on every graph, although it has
\* no set of visited keys: each step takes its measure down in an order that has no
\* infinite descents (LowerIsWellFounded).
THEOREM SearchIsBounded == Spec => []IsMeasured /\ [][GetsLess]_vars
<1>1. IInv /\ IInv' /\ IsMeasured /\ IsMeasured' /\ [Next]_vars => [GetsLess]_vars
    BY EachStepLowers DEF GetsLess
<1> QED
    BY <1>1, MeasureIsVector, Inductive, PTL DEF Spec
=============================================================================
