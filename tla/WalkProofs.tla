------------------------------ MODULE WalkProofs ------------------------------
(***************************************************************************)
(* Theorems about Walk, for all trees, attributes, expansions and targets: *)
(* the walk finds nothing twice, ends after a bounded number of steps, and *)
(* when it is done it has found exactly what the targets are made of.      *)
(*                                                                         *)
(* At any time the nodes of the trees that were started are those that are *)
(* open, in a frame of the stack, and those that are done with.  What has  *)
(* been found for the target is what there is to be found at the latter.   *)
(***************************************************************************)
EXTENDS Walk, FiniteSetTheorems, FunctionTheorems, SequenceTheorems,
        WellFoundedInduction, TLAPS

-----------------------------------------------------------------------------
(* The inductive invariant *)

What == {"path", "macro", "unavailable"}
Entry == (What \cup {"skipped"}) \X Target \X (Node \cup {None})

Types ==
    /\ program \in Programs
    /\ pc \in {"targets", "files", "walk", "done", "failed"}
    /\ todo \subseteq Target
    /\ target \in Target \cup {None}
    /\ files \subseteq Roots
    /\ visited \subseteq Roots
    /\ stack \in Seq(SUBSET Node)
    /\ found \in Seq(Entry)

\* No entry is there twice.
Differ(s) == \A i, j \in DOMAIN s : s[i] = s[j] => i = j
Once == Differ(found)

\* What there is to be found at a node.
IsThere(what, n) ==
    LET expands == Form[n] \in {"attribute item", "macro call"}
    IN  CASE what = "path" ->
               /\ {a \in Ancestors[n] : Form[a] \in {"path", "macro call", "attribute"}} = {n}
               /\ Form[n] = "path"
          [] what = "macro" -> expands
          [] what = "unavailable" ->
               expands /\ (program.expansion[n] = None \/ n \in program.faulty)

\* What it expands to is walked.
Expands(n) ==
    \/ Form[n] = "attribute item"
    \/ Form[n] = "macro call" /\ n \notin program.faulty

\* Exactly what is there at the given nodes has been found for a target.
FoundAt(t, nodes) ==
    \A n \in Node : \A w \in What : <<w, t, n>> \in Found <=> n \in nodes /\ IsThere(w, n)

\* The trees of a target that have been started, the nodes in them that are
\* still to be entered, and those that are done with.
Started == (Files[target] \ files) \cup visited
InTrees(roots) == UNION {Subtree[r] : r \in roots}
Open == UNION {stack[i] : i \in DOMAIN stack}
Done == {n \in InTrees(Started) : Alive(target, n)} \ Open

\* Frames have no node in common; with a node a frame has the attribute items
\* above it, so the walk gets to these first.
Frames ==
    /\ pc = "walk" <=> stack # <<>>
    /\ \A i, j \in DOMAIN stack : i # j => stack[i] \cap stack[j] = {}
    /\ \A i \in DOMAIN stack : \A n \in stack[i] : \A a \in Ancestors[n] :
          Form[a] = "attribute item" => a \in stack[i]

\* A target that is walked.
UnderWay ==
    /\ target \in Target \ todo
    /\ Files[target] # {}
    /\ files \subseteq Files[target]
    /\ visited \subseteq TreesOf(target) \ Files[target]
    /\ Open \subseteq InTrees(Started)
    /\ FoundAt(target, Done)
    /\ <<"skipped", target, None>> \notin Found
    /\ \A n \in Done : Expands(n) => program.expansion[n] \in visited \cup {None}

\* A target that was walked.
Walked(t) ==
    /\ FoundAt(t, Parts(t))
    /\ <<"skipped", t, None>> \in Found <=> Files[t] = {}

IsBusy(t) == pc \in {"files", "walk"} /\ t = target

IInv ==
    /\ Types
    /\ Once
    /\ pc # "failed" =>
          /\ Frames
          /\ pc \in {"files", "walk"} => UnderWay
          /\ pc = "done" => todo = {}
          /\ \A t \in todo : \A e \in Found : e[2] # t
          /\ \A t \in Target \ todo : ~IsBusy(t) => Walked(t)

\* What a target has yet to see: nodes that are open or in trees that have not
\* been started.
Ahead == Open \cup InTrees(Roots \ Started)

\* And all targets together, with the files.
NodesAhead ==
    (todo \X Node) \cup IF pc \in {"files", "walk"} THEN {target} \X Ahead ELSE {}
FilesAhead ==
    (todo \X Roots) \cup IF pc \in {"files", "walk"} THEN {target} \X files ELSE {}
Stage == CASE pc \in {"files", "walk"} -> 2
           [] pc = "targets" -> 1
           [] pc \in {"done", "failed"} -> 0

\* A bound on the steps that are left.
StepsLeft ==
    2 * Cardinality(NodesAhead) + 2 * Cardinality(FilesAhead) + 2 * Cardinality(todo)
        + Len(stack) + Stage

-----------------------------------------------------------------------------
(* Trees *)

\* A set of nodes has a first one.
LEMMA FirstNode ==
    ASSUME NEW S, S \subseteq Node, S # {}
    PROVE  \E n \in S : \A m \in S : n <= m
<1> DEFINE Below == {p \in Nat \X Nat : p[1] < p[2]}
<1>1. IsWellFoundedOn(Below, Nat)
  BY NatLessThanWellFounded, Zenon DEF OpToRel, Below
<1>2. S \subseteq Nat
  BY NodesAreNumbered
<1>3. PICK n \in S : \A m \in S : <<m, n>> \notin Below
  BY <1>1, <1>2, WFMin, Zenon
<1>4. \A m \in S : ~(m < n)
  <2>1. \A m \in S : <<m, n>> \in Nat \X Nat /\ <<m, n>>[1] = m /\ <<m, n>>[2] = n
    BY <1>2
  <2> QED BY <1>3, <2>1
<1> QED BY <1>2, <1>4

\* Ancestors is a recursive function, so a CHOOSE to the provers.  The sets
\* every ancestor is in that is closed under Parent solve its equation.
LEMMA AncestorsOf ==
    /\ DOMAIN Ancestors = Node
    /\ \A n \in Node :
          Ancestors[n] = {n} \cup IF Parent[n] = None THEN {} ELSE Ancestors[Parent[n]]
<1> DEFINE IsClosed(S) == \A x \in S : Parent[x] # None => Parent[x] \in S
           Up == [n \in Node |->
                    {m \in Node : \A S \in SUBSET Node : n \in S /\ IsClosed(S) => m \in S}]
           Solves(A) == A = [n \in Node |->
                               {n} \cup IF Parent[n] = None THEN {} ELSE A[Parent[n]]]
<1>0. \A n \in Node : Parent[n] # None => Parent[n] \in Node
  BY NodesAreInTrees
<1>1. ASSUME NEW n \in Node
      PROVE  Up[n] = {n} \cup IF Parent[n] = None THEN {} ELSE Up[Parent[n]]
  <2>1. n \in Up[n]
    OBVIOUS
  <2>2. CASE Parent[n] = None
    <3>1. IsClosed({n}) /\ {n} \in SUBSET Node
      BY <2>2
    <3>2. Up[n] \subseteq {n}
      BY <3>1
    <3> HIDE DEF Up
    <3> QED BY <2>1, <2>2, <3>2
  <2>3. CASE Parent[n] # None
    <3> DEFINE p == Parent[n]
    <3>1. p \in Node
      BY <1>0, <2>3
    <3>2. p \in Up[p] /\ Up[p] \subseteq Node
      BY <3>1
    <3>3. IsClosed({n} \cup Up[p])
      <4> SUFFICES ASSUME NEW x \in Up[p], Parent[x] # None PROVE Parent[x] \in Up[p]
        BY <3>2
      <4>1. x \in Node /\ Parent[x] \in Node
        BY <1>0, <3>2
      <4> SUFFICES ASSUME NEW S \in SUBSET Node, p \in S, IsClosed(S) PROVE Parent[x] \in S
        BY <3>1, <4>1
      <4>2. x \in S
        BY <3>1
      <4> QED BY <4>2
    <3>4. Up[n] \subseteq {n} \cup Up[p]
      <4> HIDE DEF IsClosed
      <4>1. {n} \cup Up[p] \in SUBSET Node
        BY <3>2
      <4> QED BY <3>3, <4>1
    <3>5. Up[p] \subseteq Up[n]
      <4> SUFFICES ASSUME NEW m \in Up[p], NEW S \in SUBSET Node, n \in S, IsClosed(S)
                   PROVE  m \in S
        BY <3>2
      <4>1. p \in S
        BY <2>3
      <4> QED BY <3>1, <4>1
    <3> HIDE DEF Up
    <3> QED BY <2>1, <2>3, <3>4, <3>5
  <2> QED BY <2>2, <2>3
<1>2. Solves(Up)
  <2> DEFINE F == [n \in Node |-> {n} \cup IF Parent[n] = None THEN {} ELSE Up[Parent[n]]]
  <2>1. DOMAIN Up = Node /\ DOMAIN F = Node
    OBVIOUS
  <2>2. \A n \in Node : Up[n] = F[n]
    BY <1>1
  <2>3. Up = [n \in Node |-> Up[n]] /\ F = [n \in Node |-> F[n]]
    OBVIOUS
  <2> HIDE DEF Up, F
  <2>4. Up = F
    BY <2>2, <2>3
  <2> QED BY <2>4 DEF F
<1>3. Ancestors = CHOOSE A : Solves(A)
  BY DEF Ancestors
<1> HIDE DEF Up
<1>4. Solves(Ancestors)
  <2> HIDE DEF Solves
  <2> QED BY <1>2, <1>3
<1> DEFINE F == [n \in Node |-> {n} \cup IF Parent[n] = None THEN {} ELSE Ancestors[Parent[n]]]
<1>5. Ancestors = F
  BY <1>4
<1>6. /\ DOMAIN F = Node
      /\ \A n \in Node :
            F[n] = {n} \cup IF Parent[n] = None THEN {} ELSE Ancestors[Parent[n]]
  OBVIOUS
<1> HIDE DEF F
<1> QED BY <1>5, <1>6

\* What a node has if its parent does, all nodes have.
LEMMA TreeInduction ==
    ASSUME NEW S, \A n \in Node : (Parent[n] # None => Parent[n] \in S) => n \in S
    PROVE  Node \subseteq S
<1> SUFFICES ASSUME Node \ S # {} PROVE FALSE
  OBVIOUS
<1>1. PICK n \in Node \ S : \A m \in Node \ S : n <= m
  BY FirstNode
<1>2. Parent[n] # None => Parent[n] \in Node /\ Parent[n] < n
  BY NodesAreInTrees
<1>3. \A m \in Node : m < n => ~(n <= m)
  BY NodesAreNumbered
<1> QED BY <1>1, <1>2, <1>3

\* Ancestors are nodes, come first and have their own ancestors among them.
LEMMA AncestorsAreAbove ==
    ASSUME NEW n \in Node
    PROVE  /\ n \in Ancestors[n]
           /\ Ancestors[n] \subseteq Node
           /\ \A a \in Ancestors[n] : a <= n /\ Ancestors[a] \subseteq Ancestors[n]
<1> DEFINE Above(m) == /\ Ancestors[m] \subseteq Node
                       /\ \A a \in Ancestors[m] : a <= m /\ Ancestors[a] \subseteq Ancestors[m]
<1>1. ASSUME NEW m \in Node, Parent[m] # None => Parent[m] \in Node /\ Above(Parent[m])
      PROVE  Above(m)
  <2>1. CASE Parent[m] = None
    <3>1. Ancestors[m] = {m}
      BY <2>1, AncestorsOf
    <3> QED BY <3>1, NodesAreNumbered
  <2>2. CASE Parent[m] # None
    <3>1. /\ Ancestors[m] = {m} \cup Ancestors[Parent[m]]
          /\ Parent[m] < m /\ m \in Nat /\ Parent[m] \in Nat
      BY <1>1, <2>2, AncestorsOf, NodesAreInTrees, NodesAreNumbered
    <3>2. ASSUME NEW a \in Ancestors[Parent[m]] PROVE a <= m
      <4>1. a \in Nat /\ a <= Parent[m]
        BY <1>1, <2>2, NodesAreNumbered
      <4> QED BY <3>1, <4>1
    <3> QED BY <1>1, <2>2, <3>1, <3>2
  <2> QED BY <2>1, <2>2
<1>2. Node \subseteq {m \in Node : Above(m)}
  <2> HIDE DEF Above
  <2>1. \A m \in Node : (Parent[m] # None => Parent[m] \in {k \in Node : Above(k)})
                          => m \in {k \in Node : Above(k)}
    BY <1>1
  <2> QED BY <2>1, TreeInduction
<1>3. n \in Ancestors[n]
  BY AncestorsOf
<1> QED BY <1>2, <1>3

\* A tree has one root.
LEMMA OneRoot ==
    ASSUME NEW n \in Node
    PROVE  \E r \in Roots : Roots \cap Ancestors[n] = {r}
<1> DEFINE S == {m \in Node : \E r \in Roots : Roots \cap Ancestors[m] = {r}}
<1>1. ASSUME NEW m \in Node, Parent[m] # None => Parent[m] \in S
      PROVE  m \in S
  <2>1. CASE Parent[m] = None
    BY <2>1, AncestorsOf DEF Roots
  <2>2. CASE Parent[m] # None
    <3>1. Ancestors[m] = {m} \cup Ancestors[Parent[m]] /\ m \notin Roots
      BY <2>2, AncestorsOf DEF Roots
    <3> QED BY <1>1, <2>2, <3>1
  <2> QED BY <2>1, <2>2
<1>2. Node \subseteq S
  <2> HIDE DEF S
  <2> QED BY <1>1, TreeInduction
<1> QED BY <1>2

\* Below an ancestor there is a child of it on the way.
LEMMA ChildOnTheWay ==
    ASSUME NEW n \in Node, NEW a \in Ancestors[n], a # n
    PROVE  \E c \in Ancestors[n] : Parent[c] = a
<1> DEFINE S == {m \in Node : \A b \in Ancestors[m] \ {m} : \E c \in Ancestors[m] : Parent[c] = b}
<1>1. ASSUME NEW m \in Node, Parent[m] # None => Parent[m] \in S
      PROVE  m \in S
  <2>1. CASE Parent[m] = None
    BY <2>1, AncestorsOf
  <2>2. CASE Parent[m] # None
    <3>1. Ancestors[m] = {m} \cup Ancestors[Parent[m]]
      BY <2>2, AncestorsOf
    <3>2. ASSUME NEW b \in Ancestors[m] \ {m} PROVE \E c \in Ancestors[m] : Parent[c] = b
      <4>1. CASE b = Parent[m]
        BY <3>1, <4>1
      <4>2. CASE b # Parent[m]
        BY <1>1, <2>2, <3>1, <4>2
      <4> QED BY <4>1, <4>2
    <3> QED BY <3>2
  <2> QED BY <2>1, <2>2
<1>2. Node \subseteq S
  <2> HIDE DEF S
  <2> QED BY <1>1, TreeInduction
<1> QED BY <1>2

\* Subtrees: of roots they are apart, and what is above a node in one is in it.
LEMMA Subtrees ==
    /\ \A n \in Node : n \in Subtree[n] /\ Subtree[n] \subseteq Node
    /\ \A n \in Node : \A m \in Subtree[n] : Subtree[m] \subseteq Subtree[n]
    /\ \A r \in Roots : \A n \in Subtree[r] : Ancestors[n] \subseteq Subtree[r]
    /\ \A r, s \in Roots : r # s => Subtree[r] \cap Subtree[s] = {}
<1>0. Roots \subseteq Node
  BY DEF Roots
<1>1. \A n \in Node : n \in Subtree[n] /\ Subtree[n] \subseteq Node
  BY AncestorsAreAbove DEF Subtree
<1>2. \A n \in Node : \A m \in Node : m \in Subtree[n] <=> n \in Ancestors[m]
  BY DEF Subtree
<1>3. ASSUME NEW n \in Node, NEW m \in Subtree[n], NEW k \in Subtree[m] PROVE k \in Subtree[n]
  <2>1. m \in Node /\ k \in Node
    BY <1>1
  <2> QED BY <1>2, <2>1, AncestorsAreAbove
<1>4. ASSUME NEW r \in Roots, NEW n \in Subtree[r], NEW a \in Ancestors[n] PROVE a \in Subtree[r]
  <2>1. n \in Node /\ a \in Node /\ r \in Ancestors[n] /\ r \in Node
    BY <1>0, <1>1, <1>2, AncestorsAreAbove
  <2>2. PICK s \in Roots : Roots \cap Ancestors[a] = {s}
    BY <2>1, OneRoot
  <2>3. s \in Ancestors[n]
    BY <2>1, <2>2, AncestorsAreAbove
  <2>4. s = r
    BY <2>1, <2>3, OneRoot
  <2> QED BY <1>2, <2>1, <2>2, <2>4
<1>5. ASSUME NEW r \in Roots, NEW s \in Roots, NEW n \in Subtree[r] \cap Subtree[s] PROVE r = s
  <2>1. n \in Node /\ r \in Ancestors[n] /\ s \in Ancestors[n]
    BY <1>0, <1>1, <1>2
  <2> QED BY <2>1, OneRoot
<1> QED BY <1>1, <1>3, <1>4, <1>5

-----------------------------------------------------------------------------
(* Targets *)

\* Below a disabled node, and below an item that is replaced, nothing is part
\* of a target.
LEMMA NothingAliveBelow ==
    ASSUME NEW t, NEW n \in Node, NEW m \in Subtree[n]
    PROVE  /\ ~IsEnabled(n, t) => ~Alive(t, m)
           /\ Form[n] = "attribute item" /\ m # n => ~Alive(t, m)
<1>1. m \in Node /\ n \in Ancestors[m]
  BY DEF Subtree
<1>2. Ancestors[n] \subseteq Ancestors[m]
  BY <1>1, AncestorsAreAbove
<1> QED BY <1>1, <1>2 DEF Alive, IsEnabled

\* The predicates on a path find the outermost ones that are no macro's name
\* and in no attribute.
LEMMA PathsAreThere ==
    ASSUME NEW n \in Node, Form[n] \in {"other", "path", "attribute"}
    PROVE  IsThere("path", n) <=> IsTerminalPath(n) /\ ~IsMacroPath(n) /\ IsClassified(n)
<1> DEFINE special == {a \in Ancestors[n] : Form[a] \in {"path", "macro call", "attribute"}}
<1>0. n \in Ancestors[n] /\ Ancestors[n] \subseteq Node
  BY AncestorsAreAbove
<1>1. IsThere("path", n) <=> special = {n} /\ Form[n] = "path"
  BY DEF IsThere
<1>2. ASSUME special = {n}, Form[n] = "path"
      PROVE  IsTerminalPath(n) /\ ~IsMacroPath(n) /\ IsClassified(n)
  <2>1. IsTerminalPath(n)
    BY <1>2 DEF IsTerminalPath
  <2>2. IsClassified(n)
    BY <1>2 DEF IsClassified
  <2>3. ASSUME Parent[n] # None, Form[Parent[n]] = "macro call" PROVE FALSE
    <3>1. Parent[n] \in Node /\ Parent[n] < n /\ n \in Nat
      BY <2>3, NodesAreInTrees, NodesAreNumbered
    <3>2. Parent[n] \in Ancestors[n]
      <4>1. Ancestors[n] = {n} \cup Ancestors[Parent[n]]
        BY <2>3, AncestorsOf
      <4>2. Parent[n] \in Ancestors[Parent[n]]
        BY <3>1, AncestorsAreAbove
      <4> QED BY <4>1, <4>2
    <3> QED BY <1>2, <2>3, <3>1, <3>2
  <2> QED BY <2>1, <2>2, <2>3 DEF IsMacroPath
<1>3. ASSUME IsTerminalPath(n), ~IsMacroPath(n), IsClassified(n), NEW a \in special, a # n
      PROVE  FALSE
  <2>1. Form[a] = "macro call"
    BY <1>3 DEF IsTerminalPath, IsClassified
  <2>2. PICK c \in Ancestors[n] : Parent[c] = a
    BY <1>3, ChildOnTheWay
  <2>3. c \in Node /\ Parent[c] # None
    BY <1>0, <2>2, NodesAreNumbered
  <2>4. Form[c] \in {"path", "attribute"}
    BY <2>1, <2>2, <2>3, NodesAreInTrees
  <2>5. c = n
    BY <1>3, <2>4 DEF IsTerminalPath, IsClassified
  <2> QED BY <1>3, <2>1, <2>2, <2>3, <2>5 DEF IsMacroPath
<1> QED BY <1>0, <1>1, <1>2, <1>3 DEF IsTerminalPath

\* What is there does not change.
LEMMA ProgramStays ==
    ASSUME program' = program
    PROVE  /\ \A n, t : IsEnabled(n, t)' <=> IsEnabled(n, t)
           /\ \A n, t : Alive(t, n)' <=> Alive(t, n)
           /\ \A w, n : IsThere(w, n)' <=> IsThere(w, n)
           /\ \A t : TreesOf(t)' = TreesOf(t)
           /\ \A t : Parts(t)' = Parts(t)
<1>1. \A n, t : IsEnabled(n, t)' <=> IsEnabled(n, t)
  BY DEF IsEnabled
<1>2. \A n, t : Alive(t, n)' <=> Alive(t, n)
  BY <1>1 DEF Alive
<1>3. \A w, n : IsThere(w, n)' <=> IsThere(w, n)
  BY DEF IsThere
<1>4. \A t, S : ExpansionsIn(t, S)' = ExpansionsIn(t, S)
  BY <1>2 DEF ExpansionsIn
<1>5. \A t : TreesOf(t)' = TreesOf(t)
  BY <1>4 DEF TreesOf
<1>6. \A t : Parts(t)' = Parts(t)
  BY <1>2, <1>5 DEF Parts
<1> QED BY <1>1, <1>2, <1>3, <1>5, <1>6

LEMMA TargetStays ==
    ASSUME program' = program, target' = target
    PROVE  /\ \A n : Alive(target, n)' <=> Alive(target, n)
           /\ TreesOf(target)' = TreesOf(target)
           /\ Parts(target)' = Parts(target)
<1>1. \A n : Alive(target, n)' <=> Alive(target, n)
  BY DEF Alive, IsEnabled
<1>2. \A S : ExpansionsIn(target, S)' = ExpansionsIn(target, S)
  BY <1>1 DEF ExpansionsIn
<1>3. TreesOf(target)' = TreesOf(target)
  BY <1>2 DEF TreesOf
<1>4. Parts(target)' = Parts(target)
  BY <1>1, <1>3 DEF Parts
<1> QED BY <1>1, <1>3, <1>4

\* The trees of a target are the fewest.
LEMMA TreesAreClosed ==
    ASSUME NEW t \in Target
    PROVE  /\ TreesOf(t) \subseteq Roots
           /\ Files[t] \subseteq TreesOf(t)
           /\ ExpansionsIn(t, TreesOf(t)) \cap Roots \subseteq TreesOf(t)
           /\ \A S \in SUBSET Roots :
                 Files[t] \subseteq S /\ ExpansionsIn(t, S) \subseteq S => TreesOf(t) \subseteq S
<1>1. TreesOf(t) \subseteq Roots /\ Files[t] \subseteq TreesOf(t)
  BY FilesComeWithOptions DEF TreesOf
<1>2. \A S \in SUBSET Roots :
         Files[t] \subseteq S /\ ExpansionsIn(t, S) \subseteq S => TreesOf(t) \subseteq S
  BY DEF TreesOf
<1>3. ASSUME NEW x \in ExpansionsIn(t, TreesOf(t)), x \in Roots,
             NEW S \in SUBSET Roots, Files[t] \subseteq S, ExpansionsIn(t, S) \subseteq S
      PROVE  x \in S
  <2>1. TreesOf(t) \subseteq S
    BY <1>2, <1>3
  <2>2. ExpansionsIn(t, TreesOf(t)) \subseteq ExpansionsIn(t, S)
    BY <2>1 DEF ExpansionsIn
  <2> QED BY <1>3, <2>2
<1>4. ExpansionsIn(t, TreesOf(t)) \cap Roots \subseteq TreesOf(t)
  <2> SUFFICES ASSUME NEW x \in ExpansionsIn(t, TreesOf(t)), x \in Roots PROVE x \in TreesOf(t)
    OBVIOUS
  <2>1. \A S \in SUBSET Roots : Files[t] \subseteq S /\ ExpansionsIn(t, S) \subseteq S => x \in S
    BY <1>3
  <2> QED BY <2>1 DEF TreesOf
<1> QED BY <1>1, <1>2, <1>4

-----------------------------------------------------------------------------
(* Sequences *)

InIt(s) == {s[i] : i \in DOMAIN s}

\* A sequence of different entries has as many as it is long.
LEMMA AsManyAsLong ==
    ASSUME NEW T, NEW s \in Seq(T), Differ(s)
    PROVE  Cardinality(InIt(s)) = Len(s)
<1>1. PICK k \in Nat : k = Len(s) /\ DOMAIN s = 1..k
  BY LenProperties
<1>2. IsFiniteSet(1..k) /\ Cardinality(1..k) = IF 1 > k THEN 0 ELSE k - 1 + 1
  <2>1. 1 \in Int /\ k \in Int
    OBVIOUS
  <2> QED BY <2>1, FS_Interval
<1>3. Cardinality(1..k) = k
  BY <1>2
<1>4. s \in [1..k -> InIt(s)]
  BY <1>1 DEF InIt
<1>5. \A y \in InIt(s) : \E i \in 1..k : s[i] = y
  BY <1>1 DEF InIt
<1>6. \A i, j \in 1..k : s[i] = s[j] => i = j
  BY <1>1 DEF Differ
<1>7. s \in Surjection(1..k, InIt(s))
  BY <1>4, <1>5, Fun_IsSurj
<1>8. s \in Injection(1..k, InIt(s))
  BY <1>4, <1>6, Fun_IsInj
<1> QED BY <1>1, <1>2, <1>3, <1>7, <1>8, FS_Surjection

\* What one more entry does.
LEMMA OneMore ==
    ASSUME NEW T, NEW s \in Seq(T), NEW x \in T
    PROVE  /\ Append(s, x) \in Seq(T)
           /\ InIt(Append(s, x)) = InIt(s) \cup {x}
           /\ Differ(s) /\ x \notin InIt(s) => Differ(Append(s, x))
<1> DEFINE u == Append(s, x)
           k == Len(s) + 1
<1>1. /\ u \in Seq(T) /\ Len(u) = k /\ Len(s) \in Nat
      /\ DOMAIN s = 1..Len(s) /\ DOMAIN u = 1..k
  BY AppendProperties, LenProperties
<1>2. u[k] = x /\ \A i \in DOMAIN s : u[i] = s[i]
  BY <1>1, AppendProperties
<1>3. DOMAIN u = DOMAIN s \cup {k} /\ k \notin DOMAIN s
  BY <1>1
<1> HIDE DEF u, k
<1>4. InIt(u) = InIt(s) \cup {x}
  BY <1>2, <1>3 DEF InIt
<1>5. Differ(s) /\ x \notin InIt(s) => Differ(u)
  BY <1>2, <1>3 DEF Differ, InIt
<1> QED BY <1>1, <1>4, <1>5 DEF u

-----------------------------------------------------------------------------
(* The current node and its frame *)

\* What holds while the walk is within a tree.
LEMMA WithinATree ==
    ASSUME IInv, pc = "walk"
    PROVE  /\ Depth \in Nat \ {0} /\ Depth \in DOMAIN stack /\ DOMAIN stack = 1..Depth
           /\ Rest = stack[Depth] /\ Rest \subseteq Node /\ Rest \subseteq Open
           /\ UnderWay /\ Frames
           /\ target \in Target /\ Started \subseteq TreesOf(target)
           /\ TreesOf(target) \subseteq Roots
<1>1. stack \in Seq(SUBSET Node) /\ stack # <<>> /\ UnderWay /\ Frames
  BY DEF IInv, Types, Frames
<1>2. Depth \in Nat \ {0} /\ DOMAIN stack = 1..Depth /\ stack \in [1..Depth -> SUBSET Node]
  BY <1>1, EmptySeq, LenProperties DEF Depth
<1>3. Depth \in DOMAIN stack /\ Rest \subseteq Node
  BY <1>2 DEF Rest
<1>4. target \in Target
  BY <1>1 DEF UnderWay
<1>5. Started \subseteq TreesOf(target) /\ TreesOf(target) \subseteq Roots
  BY <1>1, <1>4, TreesAreClosed DEF UnderWay, Started
<1> QED BY <1>1, <1>2, <1>3, <1>4, <1>5 DEF Rest, Open

\* The current node is the first of its frame; that it is enabled is enough for
\* it to be part of the target.
LEMMA CurrentNode ==
    ASSUME IInv, Walking
    PROVE  /\ Current \in Rest /\ Current \in Node /\ Current \in Open \ Done
           /\ Current \in InTrees(Started)
           /\ IsEnabled(Current, target) => Alive(target, Current)
<1>0. pc = "walk" /\ Rest # {}
  BY DEF Walking
<1>1. Rest \subseteq Node /\ Rest \subseteq Open /\ UnderWay /\ Frames /\ Depth \in DOMAIN stack
  BY <1>0, WithinATree
<1>2. PICK k \in Rest : \A m \in Rest : k <= m
  BY <1>0, <1>1, FirstNode
<1> DEFINE n == Current
<1>3. n \in Rest /\ \A m \in Rest : n <= m
  BY <1>2 DEF Current
<1>4. n \in Node /\ n \in Open \ Done /\ n \in InTrees(Started)
  BY <1>1, <1>3 DEF UnderWay, Done
<1> HIDE DEF n
<1>5. ASSUME NEW a \in Ancestors[n] \ {n}, Form[a] = "attribute item" PROVE FALSE
  <2>1. a \in Rest
    BY <1>1, <1>3, <1>5 DEF Frames, Rest
  <2>2. a \in Nat /\ n \in Nat /\ a <= n
    BY <1>4, <1>5, AncestorsAreAbove, NodesAreNumbered
  <2>3. n <= a
    BY <1>3, <2>1
  <2>4. a # n
    BY <1>5
  <2>5. a = n
    BY <2>2, <2>3
  <2> QED BY <2>4, <2>5
<1> QED BY <1>3, <1>4, <1>5 DEF Alive, n

\* What a macro in a started tree expands to is a tree of the target, and no
\* file.
LEMMA ExpansionsBelong ==
    ASSUME IInv, pc = "walk", NEW n \in InTrees(Started), Alive(target, n), Expands(n)
    PROVE  program.expansion[n] \in (TreesOf(target) \ Files[target]) \cup {None}
<1>1. /\ target \in Target /\ Started \subseteq TreesOf(target)
      /\ TreesOf(target) \subseteq Roots /\ Roots \subseteq Node
  BY WithinATree DEF Roots
<1>2. n \in Node /\ n \in UNION {Subtree[r] : r \in TreesOf(target)}
  <2>1. PICK r \in Started : n \in Subtree[r]
    BY DEF InTrees
  <2>2. r \in TreesOf(target) /\ r \in Node
    BY <1>1
  <2>3. n \in Node
    BY <2>1, <2>2, Subtrees
  <2> QED BY <2>1, <2>2, <2>3
<1>3. program.expansion[n] \in (Roots \ UNION {Files[t] : t \in Target}) \cup {None}
  BY <1>2, ProgramsArePrograms DEF IInv, Types, IsProgram
<1>4. program.expansion[n] # None => program.expansion[n] \in ExpansionsIn(target, TreesOf(target))
  BY <1>2 DEF ExpansionsIn, Expands
<1> QED BY <1>1, <1>3, <1>4, TreesAreClosed

\* Taken from the top frame, the nodes leave none behind that an attribute item
\* among them is above.
LeaveWhole(nodes) ==
    \A m \in Rest \ nodes : \A a \in Ancestors[m] : Form[a] = "attribute item" => a \notin nodes

\* Nodes leave the top frame.
LEMMA NodesLeave ==
    ASSUME IInv, pc = "walk", NEW X \in SUBSET Rest, LeaveWhole(X)
    PROVE  LET s == [stack EXCEPT ![Depth] = Rest \ X] IN
           /\ s \in Seq(SUBSET Node) /\ s # <<>> /\ DOMAIN s = DOMAIN stack /\ Len(s) = Depth
           /\ \A i, j \in DOMAIN s : i # j => s[i] \cap s[j] = {}
           /\ \A i \in DOMAIN s : \A n \in s[i] : \A a \in Ancestors[n] :
                 Form[a] = "attribute item" => a \in s[i]
           /\ UNION {s[i] : i \in DOMAIN s} = Open \ X
<1> DEFINE s == [stack EXCEPT ![Depth] = Rest \ X]
<1>1. /\ Depth \in Nat \ {0} /\ Depth \in DOMAIN stack /\ DOMAIN stack = 1..Depth
      /\ Rest = stack[Depth] /\ Rest \subseteq Node /\ Frames
  BY WithinATree
<1>2. stack \in Seq(SUBSET Node) /\ Len(stack) = Depth /\ Depth \in 1..Len(stack)
  BY <1>1 DEF IInv, Types, Depth
<1>3. \A i, j \in DOMAIN stack : i # j => stack[i] \cap stack[j] = {}
  BY <1>1 DEF Frames
<1>4. Rest \ X \in SUBSET Node
  BY <1>1
<1>5. s = [stack EXCEPT ![Depth] = stack[Depth] \ X]
  BY <1>1
<1>6. stack[Depth] \ X \in SUBSET Node /\ X \subseteq stack[Depth]
  BY <1>1, <1>4
<1> HIDE DEF s
<1>7. /\ s \in Seq(SUBSET Node) /\ Len(s) = Len(stack) /\ DOMAIN s = DOMAIN stack
      /\ \A i \in DOMAIN stack : s[i] = stack[i] \ X
      /\ \A i, j \in DOMAIN s : i # j => s[i] \cap s[j] = {}
  <2>1. s \in Seq(SUBSET Node) /\ Len(s) = Len(stack) /\ DOMAIN s = DOMAIN stack
    BY <1>2, <1>5, <1>6
  <2>2. \A i \in DOMAIN stack : s[i] = stack[i] \ X
    BY <1>1, <1>3, <1>5, <1>6
  <2>3. \A i, j \in DOMAIN s : i # j => s[i] \cap s[j] = {}
    BY <1>3, <2>1, <2>2
  <2> QED BY <2>1, <2>2, <2>3
<1>8. UNION {s[i] : i \in DOMAIN s} = Open \ X
  <2>1. \A x : x \in UNION {s[i] : i \in DOMAIN s} <=> \E i \in DOMAIN s : x \in s[i]
    OBVIOUS
  <2>2. \A x : x \in Open <=> \E i \in DOMAIN stack : x \in stack[i]
    BY DEF Open
  <2>3. ASSUME NEW x PROVE x \in UNION {s[i] : i \in DOMAIN s} <=> x \in Open \ X
    <3>1. DOMAIN s = DOMAIN stack /\ \A i \in DOMAIN stack : s[i] = stack[i] \ X
      BY <1>7
    <3>2. \A i \in DOMAIN stack : x \in s[i] <=> x \in stack[i] /\ x \notin X
      BY <3>1
    <3>3. (\E i \in DOMAIN s : x \in s[i]) <=> x \notin X /\ \E i \in DOMAIN stack : x \in stack[i]
      BY <3>1, <3>2
    <3> QED BY <2>1, <2>2, <3>3
  <2> QED BY <2>3
<1>9. s # <<>>
  BY <1>1, <1>2, <1>7, EmptySeq
<1>10. ASSUME NEW i \in DOMAIN s, NEW n \in s[i], NEW a \in Ancestors[n],
              Form[a] = "attribute item"
       PROVE  a \in s[i]
  <2>1. n \in stack[i] /\ n \notin X /\ s[i] = stack[i] \ X /\ i \in DOMAIN stack
    BY <1>7, <1>10
  <2>2. a \in stack[i]
    BY <1>1, <1>10, <2>1 DEF Frames
  <2>3. a \notin X
    <3>1. CASE i = Depth
      BY <1>1, <1>10, <2>1, <3>1 DEF LeaveWhole
    <3>2. CASE i # Depth
      BY <1>1, <1>3, <2>1, <2>2, <3>2
    <3> QED BY <3>1, <3>2
  <2> QED BY <2>1, <2>2, <2>3
<1> QED BY <1>2, <1>7, <1>8, <1>9, <1>10 DEF s

\* A tree that has not been started has no node in common with those that have.
LEMMA TreesAreApart ==
    ASSUME IInv, pc \in {"files", "walk"}, NEW r \in Roots \ Started
    PROVE  Subtree[r] \cap InTrees(Started) = {}
<1>1. Started \subseteq Roots
  BY FilesComeWithOptions DEF IInv, Types, UnderWay, Started
<1>2. \A s \in Started : Subtree[r] \cap Subtree[s] = {}
  BY <1>1, Subtrees
<1> QED BY <1>2 DEF InTrees

\* The walk goes on: nodes leave the top frame, and a tree that has not been
\* started may get a frame of its own.
LEMMA MoveOn ==
    ASSUME IInv, pc = "walk", NEW X \in SUBSET Rest, LeaveWhole(X),
           NEW e \in (TreesOf(target) \ Files[target]) \cup {None},
           GoOn(Rest \ X, e), Unwalked
    PROVE  /\ Frames' /\ stack' \in Seq(SUBSET Node)
           /\ visited' = visited \cup ({e} \ {None})
           /\ (Open \subseteq InTrees(Started))'
           /\ Done' = Done \cup {m \in X : Alive(target, m)}
           /\ Ahead' = Ahead \ X /\ Len(stack') \in {Len(stack), Len(stack) + 1}
<1> DEFINE s == [stack EXCEPT ![Depth] = Rest \ X]
<1>1. /\ s \in Seq(SUBSET Node) /\ s # <<>> /\ DOMAIN s = DOMAIN stack /\ Len(s) = Depth
      /\ \A i, j \in DOMAIN s : i # j => s[i] \cap s[j] = {}
      /\ \A i \in DOMAIN s : \A n \in s[i] : \A a \in Ancestors[n] :
            Form[a] = "attribute item" => a \in s[i]
      /\ UNION {s[i] : i \in DOMAIN s} = Open \ X
  BY NodesLeave
<1>2. /\ Open \subseteq InTrees(Started) /\ X \subseteq Open
      /\ target \in Target /\ TreesOf(target) \subseteq Roots /\ Roots \subseteq Node
      /\ DOMAIN stack = 1..Depth /\ Depth \in Nat
  BY WithinATree DEF UnderWay, Roots
<1>3. \A n : Alive(target, n)' <=> Alive(target, n)
  BY TargetStays DEF Unwalked
<1>4. pc' = "walk" /\ files' = files /\ target' = target
  BY DEF Unwalked
<1>5. UNION {s[i] : i \in DOMAIN s} = Open \ X /\ DOMAIN s = DOMAIN stack
  BY <1>1
<1>6. \A x : x \in Open \ X <=> \E i \in DOMAIN stack : x \in s[i]
  <2> HIDE DEF s
  <2>1. \A x : x \in UNION {s[i] : i \in DOMAIN s} <=> \E i \in DOMAIN s : x \in s[i]
    OBVIOUS
  <2> QED BY <1>5, <2>1
<1>7. InTrees(Roots \ Started) \cap InTrees(Started) = {}
  BY WithinATree, TreesAreApart DEF InTrees
<1>8. CASE e = None \/ e \in visited
  <2>1. stack' = s /\ visited' = visited
    BY <1>8 DEF GoOn
  <2> HIDE DEF s
  <2>2. Frames'
    BY <1>1, <1>4, <2>1 DEF Frames
  <2>3. Open' = Open \ X
    BY <1>5, <2>1 DEF Open
  <2>4. Started' = Started
    BY <1>4, <2>1 DEF Started
  <2>5. InTrees(Started)' = InTrees(Started)
    BY <2>4 DEF InTrees
  <2>6. Done' = {n \in InTrees(Started) : Alive(target, n)} \ (Open \ X)
    BY <1>3, <2>3, <2>5 DEF Done
  <2>7. Done' = Done \cup {m \in X : Alive(target, m)}
    BY <1>2, <2>6 DEF Done
  <2>8. (Open \subseteq InTrees(Started))'
    BY <1>2, <2>3, <2>5
  <2>9. stack' \in Seq(SUBSET Node)
    BY <1>1, <2>1
  <2>10. visited' = visited \cup ({e} \ {None})
    BY <1>8, <2>1
  <2>11. Ahead' = (Open \ X) \cup InTrees(Roots \ Started)
    BY <2>3, <2>4 DEF Ahead, InTrees
  <2>12. Ahead' = Ahead \ X
    BY <1>2, <1>7, <2>11 DEF Ahead
  <2>13. Len(stack') = Len(stack)
    BY <1>1, <2>1 DEF Depth
  <2> QED BY <2>2, <2>7, <2>8, <2>9, <2>10, <2>12, <2>13
<1>9. CASE e # None /\ e \notin visited
  <2>1. stack' = Append(s, Subtree[e]) /\ visited' = visited \cup {e}
    BY <1>9 DEF GoOn
  <2>2. e \in Roots \ Started /\ e \in Node
    BY <1>2, <1>9 DEF Started
  <2> DEFINE tree == Subtree[e]
  <2>3. tree \cap InTrees(Started) = {} /\ tree \in SUBSET Node
    BY <2>2, TreesAreApart, Subtrees
  <2>4. /\ stack' \in Seq(SUBSET Node) /\ stack' # <<>> /\ DOMAIN stack' = 1..Depth + 1
        /\ \A i \in DOMAIN stack : stack'[i] = s[i]
        /\ stack'[Depth + 1] = tree
    <3> HIDE DEF s, tree
    <3>1. stack' = Append(s, tree) /\ Len(s) = Depth /\ s \in Seq(SUBSET Node)
      BY <1>1, <2>1 DEF tree
    <3> QED BY <1>2, <2>3, <3>1, AppendProperties, LenProperties
  <2>5. DOMAIN stack' = DOMAIN stack \cup {Depth + 1} /\ Depth + 1 \notin DOMAIN stack
    BY <1>2, <2>4
  <2> HIDE DEF s
  <2>6. \A i \in DOMAIN stack : stack'[i] \subseteq Open \ X
    BY <1>6, <2>4
  <2>7. Open' = (Open \ X) \cup tree
    <3>1. ASSUME NEW x PROVE x \in Open' <=> x \in Open \ X \/ x \in tree
      <4>1. x \in Open' <=> \E i \in DOMAIN stack' : x \in stack'[i]
        BY DEF Open
      <4>2. x \in Open \ X <=> \E i \in DOMAIN stack : x \in s[i]
        BY <1>6
      <4> QED BY <2>4, <2>5, <4>1, <4>2
    <3> QED BY <3>1
  <2>8. Frames'
    <3>1. ASSUME NEW i \in DOMAIN stack', NEW j \in DOMAIN stack', i # j
          PROVE  stack'[i] \cap stack'[j] = {}
      <4>1. CASE i \in DOMAIN stack /\ j \in DOMAIN stack
        BY <1>1, <2>4, <3>1, <4>1
      <4>2. CASE i \notin DOMAIN stack \/ j \notin DOMAIN stack
        <5>1. \A k \in DOMAIN stack : stack'[k] \cap tree = {}
          BY <1>2, <2>3, <2>6
        <5> QED BY <2>4, <2>5, <3>1, <4>2, <5>1
      <4> QED BY <4>1, <4>2
    <3>2. ASSUME NEW i \in DOMAIN stack', NEW n \in stack'[i], NEW a \in Ancestors[n],
                 Form[a] = "attribute item"
          PROVE  a \in stack'[i]
      <4>1. CASE i \in DOMAIN stack
        BY <1>1, <2>4, <3>2, <4>1
      <4>2. CASE i = Depth + 1
        BY <2>2, <2>4, <3>2, <4>2, Subtrees
      <4> QED BY <2>5, <4>1, <4>2
    <3> QED BY <1>4, <2>4, <3>1, <3>2 DEF Frames
  <2>9. InTrees(Started)' = InTrees(Started) \cup tree
    <3>1. Started' = Started \cup {e}
      BY <1>4, <2>1 DEF Started
    <3>2. InTrees(Started)' = UNION {Subtree[r] : r \in Started \cup {e}}
      BY <3>1 DEF InTrees
    <3> QED BY <3>2 DEF InTrees
  <2>10. Done' = {n \in InTrees(Started) \cup tree : Alive(target, n)} \ ((Open \ X) \cup tree)
    BY <1>3, <2>7, <2>9 DEF Done
  <2>11. Done' = Done \cup {m \in X : Alive(target, m)}
    BY <1>2, <2>3, <2>10 DEF Done
  <2>12. (Open \subseteq InTrees(Started))'
    BY <1>2, <2>7, <2>9
  <2>13. Ahead' = Ahead \ X
    <3>1. Started' = Started \cup {e}
      BY <1>4, <2>1 DEF Started
    <3>2. Ahead' = (Open \ X) \cup tree \cup InTrees(Roots \ (Started \cup {e}))
      BY <2>7, <3>1 DEF Ahead, InTrees
    <3>3. InTrees(Roots \ Started) = tree \cup InTrees(Roots \ (Started \cup {e}))
      BY <2>2 DEF InTrees, tree
    <3> QED BY <1>2, <1>7, <3>2, <3>3 DEF Ahead
  <2>14. Len(stack') = Len(stack) + 1
    <3> HIDE DEF s, tree
    <3>1. stack' = Append(s, tree) /\ Len(s) = Depth /\ s \in Seq(SUBSET Node)
      BY <1>1, <2>1 DEF tree
    <3> QED BY <2>3, <3>1, AppendProperties DEF Depth
  <2> QED BY <1>9, <2>1, <2>4, <2>8, <2>11, <2>12, <2>13, <2>14
<1> QED BY <1>8, <1>9

-----------------------------------------------------------------------------
(* One step of the walk *)

\* What there is to be found at the given nodes.
Entries(nodes) == {x \in What \X {target} \X nodes : IsThere(x[1], x[3])}

\* What these nodes expand to is the given tree, if it is anything.
ExpandTo(nodes, e) == \A n \in nodes : Expands(n) => program.expansion[n] \in {e, None}

LEMMA EntryIsThere ==
    ASSUME NEW nodes, NEW w, NEW t, NEW n
    PROVE  <<w, t, n>> \in Entries(nodes) <=> w \in What /\ t = target /\ n \in nodes /\ IsThere(w, n)
<1> DEFINE x == <<w, t, n>>
<1>1. x[1] = w /\ x[3] = n
  OBVIOUS
<1>2. x \in What \X {target} \X nodes <=> w \in What /\ t = target /\ n \in nodes
  OBVIOUS
<1>3. x \in Entries(nodes) <=> x \in What \X {target} \X nodes /\ IsThere(x[1], x[3])
  BY DEF Entries
<1> HIDE DEF x
<1>4. x \in Entries(nodes) <=> w \in What /\ t = target /\ n \in nodes /\ IsThere(w, n)
  BY <1>1, <1>2, <1>3
<1> QED BY <1>4 DEF x

\* What is found for one target is nothing to the others.
LEMMA OthersStay ==
    ASSUME IInv, pc \in {"files", "walk"}, UNCHANGED <<program, todo, target>>,
           NEW E, E \subseteq What \X {target} \X Node, Found' = Found \cup E
    PROVE  /\ \A t \in todo' : \A e \in Found' : e[2] # t
           /\ \A t \in Target \ todo' : t # target => Walked(t)'
<1>1. UnderWay /\ target \in Target \ todo
  BY DEF IInv, UnderWay
<1>2. \A e \in E : e[2] = target
  OBVIOUS
<1>3. \A t \in todo' : \A e \in Found' : e[2] # t
  BY <1>1, <1>2 DEF IInv
<1>4. ASSUME NEW t \in Target \ todo', t # target PROVE Walked(t)'
  <2>1. Walked(t)
    BY <1>4 DEF IInv, IsBusy
  <2>2. ASSUME NEW w, NEW n PROVE <<w, t, n>> \in Found' <=> <<w, t, n>> \in Found
    <3>1. <<w, t, n>> \notin E
      BY <1>4
    <3> QED BY <3>1
  <2>3. Parts(t)' = Parts(t) /\ \A w, n : IsThere(w, n)' <=> IsThere(w, n)
    BY ProgramStays
  <2>4. FoundAt(t, Parts(t))'
    <3> SUFFICES ASSUME NEW n \in Node, NEW w \in What
                 PROVE  <<w, t, n>> \in Found' <=> n \in Parts(t)' /\ IsThere(w, n)'
      BY DEF FoundAt
    <3>1. <<w, t, n>> \in Found <=> n \in Parts(t) /\ IsThere(w, n)
      BY <2>1 DEF Walked, FoundAt
    <3> QED BY <2>2, <2>3, <3>1
  <2> QED BY <2>1, <2>2, <2>4 DEF Walked
<1> QED BY <1>3, <1>4

\* The walk moves on over some nodes and finds what there is to be found at
\* those of them that are part of the target.
LEMMA StepKeepsInvariant ==
    ASSUME IInv, pc = "walk", NEW X \in SUBSET Rest, LeaveWhole(X),
           NEW e \in (TreesOf(target) \ Files[target]) \cup {None},
           GoOn(Rest \ X, e), Unwalked,
           NEW S, S = {m \in X : Alive(target, m)}, ExpandTo(S, e),
           found' \in Seq(Entry), Once', Found' = Found \cup Entries(S)
    PROVE  IInv'
<1>1. /\ Frames' /\ stack' \in Seq(SUBSET Node)
      /\ visited' = visited \cup ({e} \ {None})
      /\ (Open \subseteq InTrees(Started))'
      /\ Done' = Done \cup S
  BY MoveOn
<1>2. UnderWay /\ Types /\ target \in Target \ todo /\ S \subseteq Node
  BY WithinATree DEF UnderWay, IInv
<1>3. UNCHANGED <<program, todo, target, files, pc>>
  BY DEF Unwalked
<1>4. /\ \A t \in todo' : \A x \in Found' : x[2] # t
      /\ \A t \in Target \ todo' : t # target => Walked(t)'
  <2>1. Entries(S) \subseteq What \X {target} \X Node
    BY <1>2 DEF Entries
  <2> QED BY <1>3, <2>1, OthersStay
<1>5. TreesOf(target)' = TreesOf(target) /\ \A w, n : IsThere(w, n)' <=> IsThere(w, n)
  BY <1>3, ProgramStays, TargetStays
<1>6. visited' \subseteq (TreesOf(target) \ Files[target])' /\ visited' \subseteq Roots
  <2>1. visited' \subseteq TreesOf(target) \ Files[target]
    BY <1>1, <1>2 DEF UnderWay
  <2> QED BY <1>2, <1>3, <1>5, <2>1, TreesAreClosed
<1>7. FoundAt(target, Done)'
  <2> SUFFICES ASSUME NEW n \in Node, NEW w \in What
               PROVE  <<w, target, n>> \in Found' <=> n \in Done' /\ IsThere(w, n)'
    BY <1>3 DEF FoundAt
  <2>1. <<w, target, n>> \in Found <=> n \in Done /\ IsThere(w, n)
    BY <1>2 DEF UnderWay, FoundAt
  <2>2. <<w, target, n>> \in Entries(S) <=> n \in S /\ IsThere(w, n)
    BY EntryIsThere
  <2> QED BY <1>1, <1>5, <2>1, <2>2
<1>8. <<"skipped", target, None>> \notin Found'
  <2>1. <<"skipped", target, None>> \notin Entries(S)
    BY EntryIsThere DEF What
  <2> QED BY <1>2, <2>1 DEF UnderWay
<1>9. ASSUME NEW n \in Done', Expands(n)' PROVE program'.expansion[n] \in visited' \cup {None}
  <2>1. Expands(n)
    BY <1>3, <1>9 DEF Expands
  <2>2. CASE n \in Done
    BY <1>1, <1>2, <1>3, <2>1, <2>2 DEF UnderWay
  <2>3. CASE n \in S
    BY <1>1, <1>3, <2>1, <2>3 DEF ExpandTo
  <2> QED BY <1>1, <2>2, <2>3
<1>10. UnderWay'
  BY <1>1, <1>2, <1>3, <1>6, <1>7, <1>8, <1>9 DEF UnderWay
<1>11. Types'
  BY <1>1, <1>2, <1>3, <1>6 DEF Types
<1> QED BY <1>1, <1>3, <1>4, <1>10, <1>11 DEF IInv, IsBusy

\* One more entry about the current node.
LEMMA EntryIsNew ==
    ASSUME IInv, Walking, NEW w \in What
    PROVE  Find(w, Current) \in Entry \ Found
<1>1. UnderWay /\ target \in Target /\ Current \in Node /\ Current \notin Done
  BY WithinATree, CurrentNode DEF Walking
<1>2. <<w, target, Current>> \notin Found
  BY <1>1 DEF UnderWay, FoundAt
<1>3. <<w, target, Current>> \in Entry
  BY <1>1 DEF Entry
<1> QED BY <1>2, <1>3 DEF Find

\* A macro, with or without a diagnostic.
LEMMA MacroIsFound ==
    ASSUME IInv, Walking, NEW c \in BOOLEAN,
           found' = found \o <<Find("macro", Current)>>
                          \o IF c THEN <<Find("unavailable", Current)>> ELSE <<>>
    PROVE  /\ found' \in Seq(Entry) /\ Once'
           /\ Found' = Found \cup {Find("macro", Current)}
                             \cup IF c THEN {Find("unavailable", Current)} ELSE {}
<1> DEFINE x == Find("macro", Current)
           y == Find("unavailable", Current)
           u == Append(found, x)
           v == Append(u, y)
<1>1. x \in Entry \ Found /\ y \in Entry \ Found
  BY EntryIsNew DEF What
<1>2. x # y
  BY DEF Find
<1>3. found \in Seq(Entry) /\ Differ(found) /\ Found = InIt(found)
  BY DEF IInv, Types, Once, Found, InIt
<1> HIDE DEF x, y
<1>4. u \in Seq(Entry) /\ InIt(u) = InIt(found) \cup {x} /\ Differ(u)
  BY <1>1, <1>3, OneMore
<1>5. v \in Seq(Entry) /\ InIt(v) = InIt(u) \cup {y} /\ Differ(v)
  <2> HIDE DEF u
  <2>1. y \notin InIt(u)
    BY <1>1, <1>2, <1>3, <1>4
  <2> QED BY <1>1, <1>4, <2>1, OneMore
<1>6. u = found \o <<x>>
  BY <1>1, <1>3, AppendIsConcat
<1>7. v = u \o <<y>> /\ u = u \o <<>>
  <2> HIDE DEF u
  <2> QED BY <1>1, <1>4, AppendIsConcat, ConcatEmptySeq
<1>8. found' = u \o IF c THEN <<y>> ELSE <<>>
  BY <1>6 DEF x, y
<1>9. found' = IF c THEN v ELSE u
  <2> HIDE DEF u, v
  <2> QED BY <1>7, <1>8
<1> HIDE DEF u, v
<1>10. found' \in Seq(Entry) /\ Differ(found')
  BY <1>4, <1>5, <1>9
<1>11. InIt(found') = Found \cup {x} \cup IF c THEN {y} ELSE {}
  <2>1. CASE c
    BY <1>3, <1>4, <1>5, <1>9, <2>1
  <2>2. CASE ~c
    BY <1>3, <1>4, <1>9, <2>2
  <2> QED BY <2>1, <2>2
<1> QED BY <1>10, <1>11 DEF Once, Found, InIt, x, y

\* What there is to be found at one node.
LEMMA EntriesAtOne ==
    ASSUME NEW n \in Node
    PROVE  /\ Form[n] \in {"attribute item", "macro call"} =>
                 Entries({n}) = {Find("macro", n)} \cup
                    IF program.expansion[n] = None \/ n \in program.faulty
                    THEN {Find("unavailable", n)} ELSE {}
           /\ Form[n] \in {"other", "path", "attribute"} =>
                 Entries({n}) = IF IsThere("path", n) THEN {Find("path", n)} ELSE {}
<1>1. \A x \in Entries({n}) : \E w \in What : x = Find(w, n) /\ IsThere(w, n)
  <2> SUFFICES ASSUME NEW x \in What \X {target} \X {n}, IsThere(x[1], x[3])
               PROVE  \E w \in What : x = Find(w, n) /\ IsThere(w, n)
    BY DEF Entries
  <2>1. x[1] \in What /\ x[3] = n /\ x = <<x[1], target, n>>
    OBVIOUS
  <2> QED BY <2>1 DEF Find
<1>2. \A w \in What : Find(w, n) \in Entries({n}) <=> IsThere(w, n)
  BY EntryIsThere DEF Find
<1>3. CASE Form[n] \in {"attribute item", "macro call"}
  <2>1. /\ IsThere("macro", n) /\ ~IsThere("path", n)
        /\ IsThere("unavailable", n) <=> program.expansion[n] = None \/ n \in program.faulty
    BY <1>3 DEF IsThere
  <2> QED BY <1>1, <1>2, <1>3, <2>1 DEF What
<1>4. CASE Form[n] \in {"other", "path", "attribute"}
  <2>1. ~IsThere("macro", n) /\ ~IsThere("unavailable", n)
    BY <1>4 DEF IsThere
  <2> QED BY <1>1, <1>2, <1>4, <2>1 DEF What
<1> QED BY <1>3, <1>4

\* What is taken from the top frame is whole.
LEMMA LeavesWhole ==
    ASSUME IInv, pc = "walk", NEW n \in Node
    PROVE  /\ LeaveWhole(Rest \cap Subtree[n])
           /\ Form[n] # "attribute item" => LeaveWhole({n})
<1>1. ASSUME NEW m \in Rest, NEW a \in Ancestors[m], a \in Subtree[n] PROVE m \in Subtree[n]
  <2>1. m \in Node /\ a \in Node
    BY <1>1, WithinATree, AncestorsAreAbove
  <2>2. m \in Subtree[a]
    BY <1>1, <2>1 DEF Subtree
  <2> QED BY <1>1, <2>2, Subtrees
<1> QED BY <1>1 DEF LeaveWhole

-----------------------------------------------------------------------------
(* The actions *)

LEMMA SkipDisabledKeepsInvariant == IInv /\ SkipDisabled => IInv'
<1> SUFFICES ASSUME IInv, SkipDisabled PROVE IInv'
  OBVIOUS
<1> DEFINE n == Current
           X == Rest \cap Subtree[n]
<1>1. /\ Walking /\ pc = "walk" /\ ~IsEnabled(n, target)
      /\ GoOn(Rest \ Subtree[n], None) /\ Unwalked /\ found' = found
  BY DEF SkipDisabled, Walking
<1>2. n \in Node
  BY <1>1, CurrentNode
<1> HIDE DEF n
<1>3. X \in SUBSET Rest /\ LeaveWhole(X) /\ Rest \ Subtree[n] = Rest \ X
  BY <1>1, <1>2, LeavesWhole
<1>4. {} = {m \in X : Alive(target, m)}
  BY <1>1, <1>2, NothingAliveBelow
<1>5. ExpandTo({}, None)
  BY DEF ExpandTo
<1>6. found' \in Seq(Entry) /\ Once' /\ Found' = Found \cup Entries({})
  <2>1. Found' = Found
    BY <1>1 DEF Found
  <2>2. Entries({}) = {}
    BY DEF Entries
  <2> QED BY <1>1, <2>1, <2>2 DEF IInv, Types, Once
<1>7. GoOn(Rest \ X, None)
  BY <1>1, <1>3
<1> HIDE DEF X
<1> QED BY <1>1, <1>3, <1>4, <1>5, <1>6, <1>7, StepKeepsInvariant

\* A single node that is enabled.
LEMMA OneNodeEntered ==
    ASSUME IInv, Walking, IsEnabled(Current, target),
           NEW X \in SUBSET Rest, LeaveWhole(X), Current \in X,
           \/ X = {Current}
           \/ X = Rest \cap Subtree[Current] /\ Form[Current] = "attribute item",
           NEW e \in {program.expansion[Current], None}, e # None => Expands(Current),
           Expands(Current) => e = program.expansion[Current],
           GoOn(Rest \ X, e), Unwalked,
           found' \in Seq(Entry), Once', Found' = Found \cup Entries({Current})
    PROVE  IInv'
<1> DEFINE n == Current
<1>1. n \in Node /\ n \in InTrees(Started) /\ Alive(target, n) /\ pc = "walk"
  BY CurrentNode DEF Walking
<1>2. Expands(n) => program.expansion[n] \in (TreesOf(target) \ Files[target]) \cup {None}
  BY <1>1, ExpansionsBelong
<1> HIDE DEF n
<1>3. e \in (TreesOf(target) \ Files[target]) \cup {None}
  BY <1>2 DEF n
<1>4. {n} = {m \in X : Alive(target, m)}
  BY <1>1, NothingAliveBelow DEF n
<1>5. ExpandTo({n}, e)
  BY DEF ExpandTo, n
<1>6. found' \in Seq(Entry) /\ Once' /\ Found' = Found \cup Entries({n})
  BY DEF n
<1> QED BY <1>1, <1>3, <1>4, <1>5, <1>6, StepKeepsInvariant

LEMMA EnterAttributeItemKeepsInvariant == IInv /\ EnterAttributeItem => IInv'
<1> SUFFICES ASSUME IInv, EnterAttributeItem PROVE IInv'
  OBVIOUS
<1> DEFINE n == Current
           X == Rest \cap Subtree[n]
<1>1. /\ Walking /\ pc = "walk" /\ IsEnabled(n, target) /\ Form[n] = "attribute item"
      /\ found' = found \o <<Find("macro", n)>>
                        \o IF n \in program.faulty THEN <<Find("unavailable", n)>> ELSE <<>>
      /\ GoOn(Rest \ Subtree[n], program.expansion[n]) /\ Unwalked
  BY DEF EnterAttributeItem, Walking
<1>2. n \in Node /\ n \in Rest
  BY <1>1, CurrentNode
<1>3. found' \in Seq(Entry) /\ Once'
      /\ Found' = Found \cup {Find("macro", n)}
                        \cup IF n \in program.faulty THEN {Find("unavailable", n)} ELSE {}
  BY <1>1, MacroIsFound
<1> HIDE DEF n
<1>4. program.expansion[n] # None
  BY <1>1, <1>2, ProgramsArePrograms DEF IInv, Types, IsProgram
<1>5. Found' = Found \cup Entries({n})
  BY <1>1, <1>2, <1>3, <1>4, EntriesAtOne
<1>6. X \in SUBSET Rest /\ LeaveWhole(X) /\ n \in X /\ Rest \ Subtree[n] = Rest \ X
  BY <1>1, <1>2, LeavesWhole, Subtrees
<1>7. Expands(n)
  BY <1>1 DEF Expands
<1>8. GoOn(Rest \ X, program.expansion[n])
  BY <1>1, <1>6
<1> QED BY <1>1, <1>3, <1>5, <1>6, <1>7, <1>8, OneNodeEntered DEF n

LEMMA EnterMacroCallKeepsInvariant == IInv /\ EnterMacroCall => IInv'
<1> SUFFICES ASSUME IInv, EnterMacroCall PROVE IInv'
  OBVIOUS
<1> DEFINE n == Current
           unavailable == program.expansion[n] = None \/ n \in program.faulty
           e == IF unavailable THEN None ELSE program.expansion[n]
<1>1. /\ Walking /\ pc = "walk" /\ IsEnabled(n, target) /\ Form[n] = "macro call"
      /\ found' = found \o <<Find("macro", n)>>
                        \o IF unavailable THEN <<Find("unavailable", n)>> ELSE <<>>
      /\ GoOn(Rest \ {n}, e) /\ Unwalked
  BY DEF EnterMacroCall, Walking
<1>2. n \in Node /\ n \in Rest
  BY <1>1, CurrentNode
<1>3. found' \in Seq(Entry) /\ Once'
      /\ Found' = Found \cup {Find("macro", n)}
                        \cup IF unavailable THEN {Find("unavailable", n)} ELSE {}
  <2>1. unavailable \in BOOLEAN
    OBVIOUS
  <2> HIDE DEF unavailable
  <2> QED BY <1>1, <2>1, MacroIsFound
<1> HIDE DEF n
<1>4. Found' = Found \cup Entries({n})
  BY <1>1, <1>2, <1>3, EntriesAtOne
<1>5. {n} \in SUBSET Rest /\ LeaveWhole({n}) /\ n \in {n}
  BY <1>1, <1>2, LeavesWhole
<1>6. e \in {program.expansion[n], None} /\ (e # None => Expands(n))
      /\ (Expands(n) => e = program.expansion[n])
  BY <1>1 DEF Expands
<1> HIDE DEF e, unavailable
<1> QED BY <1>1, <1>3, <1>4, <1>5, <1>6, OneNodeEntered DEF n

LEMMA EnterNodeKeepsInvariant == IInv /\ EnterNode => IInv'
<1> SUFFICES ASSUME IInv, EnterNode PROVE IInv'
  OBVIOUS
<1> DEFINE n == Current
<1>1. /\ Walking /\ pc = "walk" /\ IsEnabled(n, target)
      /\ Form[n] \in {"other", "path", "attribute"}
      /\ found' = IF IsTerminalPath(n) /\ ~IsMacroPath(n) /\ IsClassified(n)
                  THEN Append(found, Find("path", n)) ELSE found
      /\ GoOn(Rest \ {n}, None) /\ Unwalked
  BY DEF EnterNode, Walking
<1>2. n \in Node /\ n \in Rest
  BY <1>1, CurrentNode
<1>3. Find("path", n) \in Entry \ Found
  BY <1>1, EntryIsNew DEF What
<1> HIDE DEF n
<1>4. found' = IF IsThere("path", n) THEN Append(found, Find("path", n)) ELSE found
  BY <1>1, <1>2, PathsAreThere
<1>5. found \in Seq(Entry) /\ Differ(found) /\ Found = InIt(found) /\ Found' = InIt(found')
  BY DEF IInv, Types, Once, Found, InIt
<1>6. /\ found' \in Seq(Entry) /\ Differ(found')
      /\ InIt(found') = InIt(found) \cup IF IsThere("path", n) THEN {Find("path", n)} ELSE {}
  BY <1>3, <1>4, <1>5, OneMore
<1>7. Found' = Found \cup Entries({n})
  BY <1>1, <1>2, <1>5, <1>6, EntriesAtOne
<1>8. {n} \in SUBSET Rest /\ LeaveWhole({n}) /\ n \in {n}
  BY <1>1, <1>2, LeavesWhole
<1>9. ~Expands(n) /\ Once'
  BY <1>1, <1>6 DEF Expands, Once
<1> QED BY <1>1, <1>6, <1>7, <1>8, <1>9, OneNodeEntered DEF n

\* A call returns: its frame is empty.
LEMMA ReturnKeepsInvariant == IInv /\ Return => IInv'
<1> SUFFICES ASSUME IInv, Return PROVE IInv'
  OBVIOUS
<1>1. /\ pc = "walk" /\ Rest = {} /\ stack' = SubSeq(stack, 1, Depth - 1)
      /\ pc' = IF Depth = 1 THEN "files" ELSE "walk"
      /\ UNCHANGED <<program, todo, target, files, visited, found>>
  BY DEF Return
<1>2. /\ Depth \in Nat \ {0} /\ DOMAIN stack = 1..Depth /\ Rest = stack[Depth]
      /\ UnderWay /\ Frames /\ stack \in Seq(SUBSET Node)
  BY <1>1, WithinATree DEF IInv, Types
<1>3. /\ stack' \in Seq(SUBSET Node) /\ Len(stack') = Depth - 1
      /\ DOMAIN stack' = 1..Depth - 1
      /\ \A i \in 1..Depth - 1 : stack'[i] = stack[i]
  <2>1. \A i \in 1..Depth - 1 : stack[i] \in SUBSET Node
    BY <1>2
  <2>2. Depth - 1 \in Int /\ 1 \in Int /\ (1 <= Depth - 1 \/ Depth - 1 = 0)
    BY <1>2
  <2>3. /\ stack' \in Seq(SUBSET Node)
        /\ Len(stack') = IF 1 <= Depth - 1 THEN (Depth - 1) - 1 + 1 ELSE 0
        /\ \A i \in 1..(Depth - 1) - 1 + 1 : stack'[i] = stack[1 + i - 1]
    BY <1>1, <2>1, <2>2, SubSeqProperties
  <2> QED BY <1>2, <2>2, <2>3, LenProperties
<1>4. pc' = "walk" <=> stack' # <<>>
  BY <1>1, <1>2, <1>3, EmptySeq
<1>5. Open' = Open
  <2>1. \A x : x \in Open' <=> \E i \in 1..Depth - 1 : x \in stack[i]
    BY <1>3 DEF Open
  <2>2. \A x : x \in Open <=> \E i \in 1..Depth : x \in stack[i]
    BY <1>2 DEF Open
  <2>3. \A i \in 1..Depth : i \in 1..Depth - 1 \/ i = Depth
    BY <1>2
  <2>4. 1..Depth - 1 \subseteq 1..Depth
    BY <1>2
  <2> QED BY <1>1, <1>2, <2>1, <2>2, <2>3, <2>4
<1>6. Frames'
  <2>1. 1..Depth - 1 \subseteq 1..Depth
    BY <1>2
  <2> QED BY <1>2, <1>3, <1>4, <2>1 DEF Frames
<1>7. /\ \A n : Alive(target, n)' <=> Alive(target, n)
      /\ TreesOf(target)' = TreesOf(target)
      /\ \A w, n : IsThere(w, n)' <=> IsThere(w, n)
      /\ \A t : Parts(t)' = Parts(t)
  BY <1>1, ProgramStays, TargetStays
<1>8. Started' = Started /\ Done' = Done /\ Found' = Found /\ InTrees(Started)' = InTrees(Started)
  <2>1. Started' = Started
    BY <1>1 DEF Started
  <2>2. InTrees(Started)' = InTrees(Started)
    BY <2>1 DEF InTrees
  <2> QED BY <1>1, <1>5, <1>7, <2>1, <2>2 DEF Done, Found
<1>9. UnderWay'
  BY <1>1, <1>2, <1>5, <1>7, <1>8 DEF UnderWay, FoundAt, Expands
<1>10. Types' /\ Once'
  BY <1>1, <1>3 DEF IInv, Types, Once
<1>11. \A t \in Target \ todo' : ~IsBusy(t)' => Walked(t)'
  BY <1>1, <1>7, <1>8 DEF IInv, IsBusy, Walked, FoundAt
<1> QED BY <1>1, <1>6, <1>8, <1>9, <1>10, <1>11 DEF IInv

LEMMA StartFileKeepsInvariant ==
    ASSUME IInv, NEW f, StartFile(f)
    PROVE  IInv'
<1>1. /\ pc = "files" /\ f \in files /\ files' = files \ {f}
      /\ stack' = <<Subtree[f]>> /\ pc' = "walk"
      /\ UNCHANGED <<program, todo, target, visited, found>>
  BY DEF StartFile
<1>2. UnderWay /\ Frames /\ Types /\ stack = <<>>
  BY <1>1 DEF IInv, Frames
<1>3. f \in Roots /\ f \in Node /\ f \in Files[target] /\ f \notin Started
  BY <1>1, <1>2 DEF UnderWay, Types, Started, Roots
<1> DEFINE tree == Subtree[f]
<1>4. tree \in SUBSET Node /\ tree \cap InTrees(Started) = {}
  BY <1>1, <1>3, Subtrees, TreesAreApart
<1>5. DOMAIN stack' = {1} /\ stack'[1] = tree /\ stack' # <<>> /\ stack' \in Seq(SUBSET Node)
  <2> HIDE DEF tree
  <2>1. stack' = <<tree>>
    BY <1>1 DEF tree
  <2> QED BY <1>4, <2>1
<1>6. Frames'
  BY <1>1, <1>3, <1>5, Subtrees DEF Frames
<1>7. Open = {} /\ Open' = tree
  <2> HIDE DEF tree
  <2>1. DOMAIN stack = {}
    BY <1>2
  <2> QED BY <1>5, <2>1 DEF Open
<1>8. InTrees(Started)' = InTrees(Started) \cup tree
  <2>1. Started' = Started \cup {f}
    BY <1>1, <1>3 DEF Started
  <2>2. InTrees(Started)' = UNION {Subtree[r] : r \in Started \cup {f}}
    BY <2>1 DEF InTrees
  <2> QED BY <2>2 DEF InTrees
<1>9. /\ \A n : Alive(target, n)' <=> Alive(target, n)
      /\ TreesOf(target)' = TreesOf(target)
      /\ \A w, n : IsThere(w, n)' <=> IsThere(w, n)
      /\ \A t : Parts(t)' = Parts(t)
  BY <1>1, ProgramStays, TargetStays
<1> HIDE DEF tree
<1>10. Done' = Done
  <2>1. Done' = {n \in InTrees(Started) \cup tree : Alive(target, n)} \ tree
    BY <1>7, <1>8, <1>9 DEF Done
  <2>2. Done = {n \in InTrees(Started) : Alive(target, n)}
    BY <1>7 DEF Done
  <2> QED BY <1>4, <2>1, <2>2
<1>11. Found' = Found
  BY <1>1 DEF Found
<1>12. UnderWay'
  <2>1. (Open \subseteq InTrees(Started))'
    BY <1>7, <1>8
  <2> QED BY <1>1, <1>2, <1>9, <1>10, <1>11, <2>1 DEF UnderWay, FoundAt, Expands
<1>13. Types' /\ Once'
  BY <1>1, <1>2, <1>5 DEF IInv, Types, Once
<1>14. \A t \in Target \ todo' : ~IsBusy(t)' => Walked(t)'
  BY <1>1, <1>9, <1>11 DEF IInv, IsBusy, Walked, FoundAt
<1> QED BY <1>1, <1>6, <1>11, <1>12, <1>13, <1>14 DEF IInv

\* When all files of a target have been walked, and the expansions with them,
\* the trees that were started are those of the target.
LEMMA AllIsWalked ==
    ASSUME IInv, pc = "files", files = {}
    PROVE  Done = Parts(target)
<1>1. UnderWay /\ Frames /\ Types /\ stack = <<>> /\ target \in Target
  BY DEF IInv, Frames, UnderWay
<1>2. Open = {}
  <2>1. DOMAIN stack = {}
    BY <1>1
  <2> QED BY <2>1 DEF Open
<1>3. Files[target] \subseteq Started /\ Started \subseteq TreesOf(target) /\ Started \subseteq Roots
  BY <1>1, TreesAreClosed DEF UnderWay, Started
<1>4. Done = {n \in InTrees(Started) : Alive(target, n)}
  BY <1>2 DEF Done
<1>5. ExpansionsIn(target, Started) \subseteq Started
  <2>1. ASSUME NEW n \in InTrees(Started), Alive(target, n), Expands(n),
               program.expansion[n] # None
        PROVE  program.expansion[n] \in Started
    BY <1>1, <1>4, <2>1 DEF UnderWay, Started
  <2> QED BY <2>1 DEF ExpansionsIn, Expands, InTrees
<1>6. TreesOf(target) = Started
  BY <1>1, <1>3, <1>5, TreesAreClosed
<1> QED BY <1>4, <1>6 DEF Parts, InTrees

LEMMA EndTargetKeepsInvariant == IInv /\ EndTarget => IInv'
<1> SUFFICES ASSUME IInv, EndTarget PROVE IInv'
  OBVIOUS
<1>1. /\ pc = "files" /\ files = {} /\ pc' = "targets"
      /\ UNCHANGED <<program, todo, target, files, visited, stack, found>>
  BY DEF EndTarget
<1>2. UnderWay /\ Frames /\ Types
  BY <1>1 DEF IInv
<1>3. Found' = Found
  BY <1>1 DEF Found
<1>4. Frames' /\ Types' /\ Once'
  BY <1>1, <1>2 DEF IInv, Frames, Types, Once
<1>5. Walked(target)
  <2>1. Done = Parts(target)
    BY <1>1, AllIsWalked
  <2> QED BY <1>2, <2>1 DEF UnderWay, Walked
<1>6. \A t \in Target \ todo : Walked(t)
  BY <1>1, <1>5 DEF IInv, IsBusy
<1>7. \A t : Walked(t)' <=> Walked(t)
  BY <1>1, <1>3, ProgramStays DEF Walked, FoundAt
<1> QED BY <1>1, <1>3, <1>4, <1>6, <1>7 DEF IInv

LEMMA StartTargetKeepsInvariant ==
    ASSUME IInv, NEW t \in Target, StartTarget(t)
    PROVE  IInv'
<1>1. /\ pc = "targets" /\ t \in todo /\ todo' = todo \ {t}
      /\ UNCHANGED <<program, stack>>
  BY DEF StartTarget
<1>2. /\ Frames /\ Types /\ Once /\ \A e \in Found : e[2] # t
      /\ \A s \in todo : \A e \in Found : e[2] # s
      /\ \A s \in Target \ todo : Walked(s)
      /\ stack = <<>>
  BY <1>1 DEF IInv, IsBusy, Frames
<1>3. /\ \A w, n : IsThere(w, n)' <=> IsThere(w, n)
      /\ \A s : Parts(s)' = Parts(s)
  BY <1>1, ProgramStays
<1>4. \A w, n : <<w, t, n>> \notin Found
  BY <1>2
<1>5. CASE Files[t] # {} /\ t \in CfgOptions
  <2>1. /\ pc' = "files" /\ target' = t /\ files' = Files[t] /\ visited' = {} /\ found' = found
    BY <1>5 DEF StartTarget
  <2>2. Found' = Found
    BY <2>1 DEF Found
  <2>3. Types' /\ Once' /\ Frames'
    BY <1>1, <1>2, <2>1, FilesComeWithOptions DEF Types, Once, Frames
  <2>4. Open' = {}
    <3>1. DOMAIN stack' = {}
      BY <1>1, <1>2
    <3> QED BY <3>1 DEF Open
  <2>5. Done' = {}
    <3>1. Started' = {}
      BY <2>1 DEF Started
    <3>2. InTrees(Started)' = {}
      BY <3>1 DEF InTrees
    <3> QED BY <3>2 DEF Done
  <2>6. UnderWay'
    BY <1>1, <1>4, <1>5, <2>1, <2>2, <2>4, <2>5 DEF UnderWay, FoundAt
  <2>7. \A s \in Target \ todo' : ~IsBusy(s)' => Walked(s)'
    BY <1>1, <1>2, <1>3, <2>1, <2>2 DEF IsBusy, Walked, FoundAt
  <2> QED BY <1>1, <1>2, <2>1, <2>2, <2>3, <2>6, <2>7 DEF IInv
<1>6. CASE ~(Files[t] # {} /\ t \in CfgOptions)
  <2> DEFINE x == <<"skipped", t, None>>
  <2>1. Files[t] = {}
    BY <1>6, FilesComeWithOptions
  <2>2. found' = Append(found, x) /\ UNCHANGED <<pc, target, files, visited>>
    BY <1>6, <2>1 DEF StartTarget
  <2>3. x \in Entry /\ x[2] = t
    BY DEF Entry
  <2> HIDE DEF x
  <2>4. found' \in Seq(Entry) /\ Once' /\ Found' = Found \cup {x}
    <3>1. found \in Seq(Entry) /\ Differ(found) /\ Found = InIt(found) /\ Found' = InIt(found')
      BY <1>2 DEF Types, Once, Found, InIt
    <3>2. x \notin InIt(found)
      BY <1>2, <2>3, <3>1
    <3> QED BY <2>2, <2>3, <3>1, <3>2, OneMore DEF Once
  <2>5. Types' /\ Frames'
    BY <1>1, <1>2, <2>2, <2>4 DEF Types, Frames
  <2>6. \A s \in todo' : \A e \in Found' : e[2] # s
    BY <1>1, <1>2, <2>3, <2>4
  <2>7. ASSUME NEW s \in Target \ todo', s # t PROVE Walked(s)'
    <3>1. Walked(s)
      BY <1>1, <1>2, <2>7
    <3>2. \A w, n : <<w, s, n>> \in Found' <=> <<w, s, n>> \in Found
      BY <2>4, <2>7 DEF x
    <3> QED BY <1>3, <3>1, <3>2 DEF Walked, FoundAt
  <2>8. Walked(t)'
    <3>1. Parts(t) = {}
      <4>1. ExpansionsIn(t, {}) = {}
        BY DEF ExpansionsIn
      <4>2. TreesOf(t) = {}
        BY <2>1, <4>1, TreesAreClosed
      <4> QED BY <4>2 DEF Parts
    <3>2. \A w \in What, n \in Node : <<w, t, n>> \notin Found'
      BY <1>4, <2>4 DEF x, What
    <3>3. x \in Found'
      BY <2>4
    <3> QED BY <1>3, <2>1, <3>1, <3>2, <3>3 DEF Walked, FoundAt, x
  <2> QED BY <1>1, <1>2, <2>2, <2>4, <2>5, <2>6, <2>7, <2>8 DEF IInv
<1> QED BY <1>5, <1>6

\* Nothing is left when the walk is done, and a walk that was aborted keeps
\* what it found.
LEMMA EndsKeepInvariant == IInv /\ (Finish \/ Abort) => IInv'
<1>1. ASSUME IInv, Abort PROVE IInv'
  <2>1. Types' /\ Once' /\ pc' = "failed"
    BY <1>1 DEF IInv, Types, Once, Abort
  <2> QED BY <2>1 DEF IInv
<1>2. ASSUME IInv, Finish PROVE IInv'
  <2>1. /\ pc = "targets" /\ todo = {} /\ pc' = "done"
        /\ UNCHANGED <<program, todo, target, files, visited, stack, found>>
    BY <1>2 DEF Finish
  <2>2. Types' /\ Once' /\ Frames'
    BY <1>2, <2>1 DEF IInv, Types, Once, Frames
  <2>3. \A t \in Target : Walked(t)
    BY <1>2, <2>1 DEF IInv, IsBusy
  <2>4. \A t : Walked(t)' <=> Walked(t)
    BY <2>1, ProgramStays DEF Walked, FoundAt, Found
  <2> QED BY <2>1, <2>2, <2>3, <2>4 DEF IInv
<1> QED BY <1>1, <1>2

-----------------------------------------------------------------------------
\* The invariant is inductive, for every program.
THEOREM Inductive == Spec => []IInv
<1>1. Init => IInv
  <2> SUFFICES ASSUME Init PROVE IInv
    OBVIOUS
  <2>1. /\ pc = "targets" /\ todo = Target /\ stack = <<>> /\ found = <<>>
        /\ program \in Programs /\ target = None /\ files = {} /\ visited = {}
    BY DEF Init
  <2>2. DOMAIN found = {} /\ DOMAIN stack = {}
    BY <2>1
  <2>3. Types /\ Once /\ Frames /\ Found = {}
    BY <2>1, <2>2 DEF Types, Once, Differ, Frames, Found
  <2> QED BY <2>1, <2>3 DEF IInv
<1>2. IInv /\ [Next]_vars => IInv'
  <2> SUFFICES ASSUME IInv, [Next]_vars PROVE IInv'
    OBVIOUS
  <2>1. CASE UNCHANGED vars
    <3>1. UNCHANGED <<program, pc, todo, target, files, visited, stack, found>>
      BY <2>1 DEF vars
    <3>2. Types' /\ Once'
      BY <3>1 DEF IInv, Types, Once
    <3>3. CASE pc = "failed"
      BY <3>1, <3>2, <3>3 DEF IInv
    <3>4. CASE pc # "failed"
      <4>1. Found' = Found /\ Started' = Started /\ Open' = Open
        BY <3>1 DEF Found, Started, Open
      <4>2. InTrees(Started)' = InTrees(Started)
        BY <4>1 DEF InTrees
      <4>3. Done' = Done /\ TreesOf(target)' = TreesOf(target)
        BY <3>1, <4>1, <4>2, TargetStays DEF Done
      <4>4. UnderWay' <=> UnderWay
        BY <3>1, <4>1, <4>2, <4>3, ProgramStays DEF UnderWay, FoundAt, Expands
      <4>5. \A t : (Walked(t)' <=> Walked(t)) /\ (IsBusy(t)' <=> IsBusy(t))
        BY <3>1, <4>1, ProgramStays DEF Walked, FoundAt, IsBusy
      <4>6. Frames'
        BY <3>1, <3>4 DEF IInv, Frames
      <4> QED BY <3>1, <3>2, <3>4, <4>1, <4>4, <4>5, <4>6 DEF IInv
    <3> QED BY <3>3, <3>4
  <2>2. CASE Next
    BY <2>2, StartTargetKeepsInvariant, StartFileKeepsInvariant, EndTargetKeepsInvariant,
       SkipDisabledKeepsInvariant, EnterAttributeItemKeepsInvariant,
       EnterMacroCallKeepsInvariant, EnterNodeKeepsInvariant, ReturnKeepsInvariant,
       EndsKeepInvariant DEF Next, Step
  <2> QED BY <2>1, <2>2
<1> QED BY <1>1, <1>2, PTL DEF Spec

\* No reference and no diagnostic is found twice, however often macros expand
\* to the same tree and expansions to each other.
THEOREM NothingTwice == Spec => []NothingIsFoundTwice
<1>1. IInv => NothingIsFoundTwice
  <2> SUFFICES ASSUME IInv PROVE Cardinality(Found) = Len(found)
    BY DEF NothingIsFoundTwice
  <2>1. found \in Seq(Entry) /\ Differ(found)
    BY DEF IInv, Types, Once
  <2>2. Found = InIt(found)
    BY DEF Found, InIt
  <2> QED BY <2>1, <2>2, AsManyAsLong
<1> QED BY <1>1, Inductive, PTL

\* Every open call but the first is on an expansion of its own.
Expanded == {program.expansion[n] : n \in Node} \ {None}
CallsAreVisits ==
    /\ visited \subseteq Expanded
    /\ Len(stack) <= 1 + Cardinality(visited)

LEMMA ExpandedIsFinite ==
    ASSUME program \in Programs
    PROVE  /\ IsFiniteSet(Expanded)
           /\ \A S \in SUBSET Expanded :
                 IsFiniteSet(S) /\ Cardinality(S) \in Nat
                   /\ Cardinality(S) <= Cardinality(Expanded)
<1>1. Expanded \subseteq Node
  <2>1. program.expansion \in [Node -> (Roots \ UNION {Files[t] : t \in Target}) \cup {None}]
    BY ProgramsArePrograms DEF IsProgram
  <2>2. \A n \in Node : program.expansion[n] \in Roots \cup {None}
    BY <2>1
  <2> QED BY <2>2 DEF Expanded, Roots
<1>2. IsFiniteSet(Expanded)
  BY <1>1, NodesAreNumbered, FS_Subset
<1> QED BY <1>2, FS_Subset, FS_CardinalityType

\* The walk goes on in the same call, or in one more on one more expansion.
LEMMA GoingOnKeepsCalls ==
    ASSUME IInv, CallsAreVisits, pc = "walk",
           NEW rest \in SUBSET Node, NEW e \in Expanded \cup {None}, GoOn(rest, e), program' = program
    PROVE  CallsAreVisits'
<1>1. Depth \in Nat \ {0} /\ stack \in Seq(SUBSET Node) /\ program \in Programs
  BY WithinATree DEF IInv, Types
<1> DEFINE top == [stack EXCEPT ![Depth] = rest]
<1>2. Len(top) = Len(stack) /\ top \in Seq(SUBSET Node)
  BY <1>1, ExceptSeq DEF Depth
<1> HIDE DEF top
<1>3. CASE e = None \/ e \in visited
  BY <1>2, <1>3 DEF GoOn, CallsAreVisits, Expanded, top
<1>4. CASE e # None /\ e \notin visited
  <2>1. stack' = Append(top, Subtree[e]) /\ visited' = visited \cup {e}
    BY <1>4 DEF GoOn, top
  <2>2. Len(stack') = Len(stack) + 1
    BY <1>2, <2>1
  <2>3. Cardinality(visited') = Cardinality(visited) + 1
    BY <1>1, <1>4, <2>1, ExpandedIsFinite, FS_AddElement DEF CallsAreVisits
  <2>4. Cardinality(visited) \in Nat /\ Len(stack) \in Nat
    BY <1>1, ExpandedIsFinite DEF CallsAreVisits
  <2> QED BY <1>4, <2>1, <2>2, <2>3, <2>4 DEF CallsAreVisits, Expanded
<1> QED BY <1>3, <1>4

\* The recursion is no deeper than there are expansions, for all trees and
\* however they expand to each other.
THEOREM DepthIsBounded == Spec => []RecursionIsBounded
<1>1. Init => CallsAreVisits
  BY FS_EmptySet DEF Init, CallsAreVisits
<1>2. IInv /\ CallsAreVisits /\ [Next]_vars => CallsAreVisits'
  <2> SUFFICES ASSUME IInv, CallsAreVisits, [Next]_vars PROVE CallsAreVisits'
    OBVIOUS
  <2>1. /\ program \in Programs /\ stack \in Seq(SUBSET Node)
        /\ Cardinality(visited) \in Nat /\ Cardinality({}) = 0 /\ {} \subseteq Expanded
    BY ExpandedIsFinite, FS_EmptySet DEF IInv, Types, CallsAreVisits
  <2>2. ASSUME NEW t \in Target, StartTarget(t) PROVE CallsAreVisits'
    <3>1. stack = <<>> /\ stack' = stack /\ program' = program /\ visited' \in {visited, {}}
      BY <2>2 DEF StartTarget, IInv, Frames
    <3>2. Len(stack') = 0
      BY <3>1
    <3>3. visited' \subseteq Expanded /\ Cardinality(visited') \in Nat
      BY <2>1, <3>1 DEF CallsAreVisits
    <3> QED BY <3>1, <3>2, <3>3 DEF CallsAreVisits, Expanded
  <2>3. ASSUME NEW f \in Node, StartFile(f) PROVE CallsAreVisits'
    <3>1. Len(stack') = 1 /\ visited' = visited /\ program' = program
      BY <2>3 DEF StartFile
    <3> QED BY <2>1, <3>1 DEF CallsAreVisits, Expanded
  <2>4. ASSUME SkipDisabled \/ EnterAttributeItem \/ EnterMacroCall \/ EnterNode
        PROVE  CallsAreVisits'
    <3>1. pc = "walk" /\ Current \in Node /\ Rest \in SUBSET Node
      BY <2>4, CurrentNode, WithinATree
         DEF SkipDisabled, EnterAttributeItem, EnterMacroCall, EnterNode, Walking
    <3>2. /\ program.expansion[Current] \in Expanded \cup {None}
          /\ None \in Expanded \cup {None}
      BY <3>1 DEF Expanded
    <3> HIDE DEF Current
    <3>3. PICK rest \in SUBSET Node, e \in Expanded \cup {None} :
             GoOn(rest, e) /\ program' = program
      <4>1. program' = program
        BY <2>4 DEF SkipDisabled, EnterAttributeItem, EnterMacroCall, EnterNode, Unwalked
      <4>2. CASE SkipDisabled
        BY <3>1, <3>2, <4>1, <4>2 DEF SkipDisabled
      <4>3. CASE EnterAttributeItem
        BY <3>1, <3>2, <4>1, <4>3 DEF EnterAttributeItem
      <4>4. CASE EnterMacroCall
        BY <3>1, <3>2, <4>1, <4>4 DEF EnterMacroCall
      <4>5. CASE EnterNode
        BY <3>1, <3>2, <4>1, <4>5 DEF EnterNode
      <4> QED BY <2>4, <4>2, <4>3, <4>4, <4>5
    <3> QED BY <3>1, <3>3, GoingOnKeepsCalls
  <2>5. ASSUME Return PROVE CallsAreVisits'
    <3>1. Depth \in Nat \ {0} /\ visited' = visited /\ program' = program
      BY <2>5, WithinATree DEF Return, IInv
    <3>2. Len(stack') = Len(stack) - 1
      BY <2>5, <3>1, SubSeqProperties, WithinATree DEF Return, Depth
    <3> QED BY <2>1, <3>1, <3>2 DEF CallsAreVisits, Expanded, Depth
  <2>6. ASSUME EndTarget \/ Finish \/ Abort \/ UNCHANGED vars PROVE CallsAreVisits'
    <3>1. UNCHANGED <<program, visited, stack>>
      BY <2>6 DEF EndTarget, Finish, Abort, vars
    <3> QED BY <3>1 DEF CallsAreVisits, Expanded
  <2> QED BY <2>2, <2>3, <2>4, <2>5, <2>6 DEF Next, Step
<1>3. IInv /\ CallsAreVisits => RecursionIsBounded
  <2> SUFFICES ASSUME IInv, CallsAreVisits PROVE RecursionIsBounded
    OBVIOUS
  <2>1. program \in Programs /\ stack \in Seq(SUBSET Node)
    BY DEF IInv, Types
  <2>2. /\ Cardinality(visited) \in Nat /\ Cardinality(visited) <= Cardinality(Expanded)
        /\ Cardinality(Expanded) \in Nat /\ Len(stack) \in Nat
    BY <2>1, ExpandedIsFinite DEF CallsAreVisits
  <2> QED BY <2>2 DEF CallsAreVisits, RecursionIsBounded, Expanded
<1> QED BY <1>1, <1>2, <1>3, Inductive, PTL DEF Spec

\* What the walk finds is what the targets are made of: soundness and
\* completeness for all trees, attributes, macros and targets.
THEOREM WalkIsExact == Spec => []FindsWhatIsThere
<1>1. IInv => FindsWhatIsThere
  <2> SUFFICES ASSUME IInv, pc = "done", NEW t \in Target, NEW n \in Node
               PROVE  LET there == n \in Parts(t)
                          expands == Form[n] \in {"attribute item", "macro call"}
                      IN  /\ <<"skipped", t, None>> \in Found <=> Files[t] = {}
                          /\ <<"path", t, n>> \in Found <=>
                                /\ there
                                /\ {a \in Ancestors[n] :
                                      Form[a] \in {"path", "macro call", "attribute"}} = {n}
                                /\ Form[n] = "path"
                          /\ <<"macro", t, n>> \in Found <=> there /\ expands
                          /\ <<"unavailable", t, n>> \in Found <=>
                                there /\ expands
                                /\ (program.expansion[n] = None \/ n \in program.faulty)
    BY DEF FindsWhatIsThere
  <2>1. Walked(t)
    BY DEF IInv, IsBusy
  <2>2. \A w \in What : <<w, t, n>> \in Found <=> n \in Parts(t) /\ IsThere(w, n)
    BY <2>1 DEF Walked, FoundAt
  <2> QED BY <2>1, <2>2 DEF Walked, What, IsThere
<1> QED BY <1>1, Inductive, PTL

-----------------------------------------------------------------------------
(* The steps that are left *)

LEMMA AheadIsFinite ==
    ASSUME Types
    PROVE  /\ IsFiniteSet(NodesAhead) /\ IsFiniteSet(FilesAhead) /\ IsFiniteSet(todo)
           /\ Len(stack) \in Nat
           /\ Ahead \subseteq Node
<1>1. Ahead \subseteq Node
  <2>1. Open \subseteq Node
    BY DEF Types, Open
  <2>2. InTrees(Roots \ Started) \subseteq Node
    BY Subtrees DEF InTrees, Roots
  <2> QED BY <2>1, <2>2 DEF Ahead
<1>2. /\ todo \subseteq Target /\ files \subseteq Node /\ Roots \subseteq Node
      /\ Len(stack) \in Nat
  BY DEF Types, Roots
<1>3. IsFiniteSet((Target \cup {target}) \X Node)
  <2>1. IsFiniteSet(Target \cup {target})
    BY TargetsAreFinite, FS_Singleton, FS_Union
  <2> QED BY <2>1, NodesAreNumbered, FS_Product
<1>4. NodesAhead \in SUBSET ((Target \cup {target}) \X Node)
  BY <1>1, <1>2 DEF NodesAhead
<1>5. FilesAhead \in SUBSET ((Target \cup {target}) \X Node)
  BY <1>2 DEF FilesAhead
<1>6. IsFiniteSet(NodesAhead) /\ IsFiniteSet(FilesAhead)
  BY <1>3, <1>4, <1>5, FS_Subset
<1>7. IsFiniteSet(todo)
  BY <1>2, TargetsAreFinite, FS_Subset
<1> QED BY <1>1, <1>2, <1>6, <1>7

\* A set that shrinks has fewer members.
LEMMA Shrinks ==
    ASSUME NEW S, IsFiniteSet(S), NEW T, T \subseteq S
    PROVE  /\ Cardinality(S) \in Nat /\ Cardinality(T) \in Nat
           /\ Cardinality(T) <= Cardinality(S)
           /\ T # S => Cardinality(T) + 1 <= Cardinality(S)
<1>1. /\ IsFiniteSet(T) /\ Cardinality(T) <= Cardinality(S)
      /\ Cardinality(S) = Cardinality(T) => S = T
  BY FS_Subset
<1>2. Cardinality(S) \in Nat /\ Cardinality(T) \in Nat
  BY <1>1, FS_CardinalityType
<1> QED BY <1>1, <1>2

\* Nothing comes up that was not ahead; how much less is ahead makes up for
\* what there is on the stack.
LEMMA FewerSteps ==
    ASSUME Types, Types',
           NodesAhead' \subseteq NodesAhead, FilesAhead' \subseteq FilesAhead, todo' \subseteq todo,
           \/ NodesAhead' # NodesAhead /\ Len(stack') <= Len(stack) + 1 /\ Stage' <= Stage
           \/ FilesAhead' # FilesAhead /\ Len(stack') <= Len(stack) + 1 /\ Stage' <= Stage
           \/ todo' # todo /\ Len(stack') <= Len(stack) /\ Stage' <= Stage + 1
           \/ Len(stack') + Stage' < Len(stack) + Stage
    PROVE  StepsLeft' < StepsLeft
<1>1. /\ Len(stack) \in Nat /\ Len(stack') \in Nat /\ Stage \in Nat /\ Stage' \in Nat
  BY DEF Types, Stage
<1> DEFINE a1 == Cardinality(NodesAhead')
           a == Cardinality(NodesAhead)
           b1 == Cardinality(FilesAhead')
           b == Cardinality(FilesAhead)
           c1 == Cardinality(todo')
           c == Cardinality(todo)
<1>2. /\ a \in Nat /\ a1 \in Nat /\ a1 <= a
      /\ NodesAhead' # NodesAhead => a1 + 1 <= a
  BY AheadIsFinite, Shrinks
<1>3. /\ b \in Nat /\ b1 \in Nat /\ b1 <= b
      /\ FilesAhead' # FilesAhead => b1 + 1 <= b
  BY AheadIsFinite, Shrinks
<1>4. /\ c \in Nat /\ c1 \in Nat /\ c1 <= c
      /\ todo' # todo => c1 + 1 <= c
  BY AheadIsFinite, Shrinks
<1>5. /\ StepsLeft = 2 * a + 2 * b + 2 * c + Len(stack) + Stage
      /\ StepsLeft' = 2 * a1 + 2 * b1 + 2 * c1 + Len(stack') + Stage'
  BY DEF StepsLeft
<1> HIDE DEF a, a1, b, b1, c, c1
<1> QED BY <1>1, <1>2, <1>3, <1>4, <1>5

\* A node that is entered or skipped is behind.
LEMMA NodeIsBehind ==
    ASSUME IInv, SkipDisabled \/ EnterAttributeItem \/ EnterMacroCall \/ EnterNode
    PROVE  \E X \in SUBSET Rest, e \in (TreesOf(target) \ Files[target]) \cup {None} :
              LeaveWhole(X) /\ Current \in X /\ GoOn(Rest \ X, e) /\ Unwalked
<1> DEFINE n == Current
           X == Rest \cap Subtree[n]
           away == (TreesOf(target) \ Files[target]) \cup {None}
<1>1. Walking /\ pc = "walk"
  BY DEF SkipDisabled, EnterAttributeItem, EnterMacroCall, EnterNode, Walking
<1>2. /\ n \in Node /\ n \in Rest /\ n \in InTrees(Started)
      /\ IsEnabled(n, target) => Alive(target, n)
  BY <1>1, CurrentNode
<1>3. IsEnabled(n, target) /\ Expands(n) => program.expansion[n] \in away
  BY <1>1, <1>2, ExpansionsBelong
<1>4. None \in away
  OBVIOUS
<1> HIDE DEF n, away
<1>5. X \in SUBSET Rest /\ LeaveWhole(X) /\ n \in X /\ Rest \ Subtree[n] = Rest \ X
  BY <1>1, <1>2, LeavesWhole, Subtrees
<1>6. /\ {n} \in SUBSET Rest /\ n \in {n}
      /\ Form[n] # "attribute item" => LeaveWhole({n})
  BY <1>1, <1>2, LeavesWhole
<1> HIDE DEF X
<1>7. CASE SkipDisabled
  <2>1. GoOn(Rest \ X, None) /\ Unwalked
    BY <1>5, <1>7 DEF SkipDisabled, n
  <2> QED BY <1>4, <1>5, <2>1 DEF n, away
<1>8. CASE EnterAttributeItem
  <2>1. GoOn(Rest \ X, program.expansion[n]) /\ Unwalked /\ program.expansion[n] \in away
    BY <1>3, <1>5, <1>8 DEF EnterAttributeItem, Expands, n
  <2> QED BY <1>5, <2>1 DEF n, away
<1>9. CASE EnterMacroCall
  <2>1. PICK e \in away : GoOn(Rest \ {n}, e) /\ Unwalked /\ Form[n] = "macro call"
    BY <1>3, <1>4, <1>9 DEF EnterMacroCall, Expands, n
  <2> QED BY <1>6, <2>1 DEF n, away
<1>10. CASE EnterNode
  <2>1. GoOn(Rest \ {n}, None) /\ Unwalked /\ Form[n] # "attribute item"
    BY <1>10 DEF EnterNode, n
  <2> QED BY <1>4, <1>6, <2>1 DEF n, away
<1> QED BY <1>7, <1>8, <1>9, <1>10

\* Each of the steps counts.
LEMMA EachStepCounts == IInv /\ IInv' /\ Next => StepsLeft' < StepsLeft
<1> SUFFICES ASSUME IInv, IInv', Next PROVE StepsLeft' < StepsLeft
  OBVIOUS
<1>1. Types /\ Types'
  BY DEF IInv
<1>2. ASSUME NEW t \in Target, StartTarget(t) PROVE StepsLeft' < StepsLeft
  <2>1. /\ pc = "targets" /\ t \in todo /\ todo' = todo \ {t} /\ stack' = stack
        /\ \/ pc' = "files" /\ target' = t
           \/ pc' = "targets"
    BY <1>2 DEF StartTarget
  <2>2. Ahead' \subseteq Node /\ files' \subseteq Roots
    <3>1. Open' \subseteq Node
      BY <1>1 DEF Types, Open
    <3>2. InTrees(Roots \ Started)' \subseteq Node
      BY Subtrees DEF InTrees, Roots
    <3> QED BY <1>1, <3>1, <3>2 DEF Ahead, Types
  <2>3. NodesAhead' \subseteq NodesAhead /\ FilesAhead' \subseteq FilesAhead
    BY <2>1, <2>2 DEF NodesAhead, FilesAhead
  <2>4. Len(stack') <= Len(stack) /\ Stage' <= Stage + 1 /\ todo' # todo /\ todo' \subseteq todo
    BY <1>1, <2>1 DEF Stage, Types
  <2> QED BY <1>1, <2>3, <2>4, FewerSteps
<1>3. ASSUME NEW f \in Node, StartFile(f) PROVE StepsLeft' < StepsLeft
  <2>1. /\ pc = "files" /\ f \in files /\ files' = files \ {f} /\ stack' = <<Subtree[f]>>
        /\ pc' = "walk" /\ UNCHANGED <<program, todo, target, visited>>
    BY <1>3 DEF StartFile
  <2>2. UnderWay /\ stack = <<>>
    BY <2>1 DEF IInv, Frames
  <2>3. f \in Roots /\ f \notin Started /\ Started' = Started \cup {f}
    BY <1>1, <2>1, <2>2 DEF Types, UnderWay, Started
  <2>4. Ahead' \subseteq Ahead
    <3>1. Open' = Subtree[f]
      BY <2>1 DEF Open
    <3> QED BY <2>3, <3>1 DEF Ahead, InTrees
  <2>5. NodesAhead' \subseteq NodesAhead
    BY <2>1, <2>4 DEF NodesAhead
  <2>6. FilesAhead' \subseteq FilesAhead /\ FilesAhead' # FilesAhead
    <3>1. <<target, f>> \in FilesAhead /\ <<target, f>> \notin FilesAhead'
      BY <2>1, <2>2 DEF FilesAhead, UnderWay
    <3>2. FilesAhead' \subseteq FilesAhead
      BY <2>1 DEF FilesAhead
    <3> QED BY <3>1, <3>2
  <2>7. Len(stack') <= Len(stack) + 1 /\ Stage' <= Stage /\ todo' \subseteq todo
    BY <2>1, <2>2 DEF Stage
  <2> QED BY <1>1, <2>5, <2>6, <2>7, FewerSteps
<1>4. ASSUME EndTarget \/ Finish PROVE StepsLeft' < StepsLeft
  <2>1. /\ \/ pc = "files" /\ pc' = "targets"
           \/ pc = "targets" /\ pc' = "done"
        /\ todo' = todo /\ stack' = stack
    BY <1>4 DEF EndTarget, Finish
  <2>2. NodesAhead' \subseteq NodesAhead /\ FilesAhead' \subseteq FilesAhead
    BY <2>1 DEF NodesAhead, FilesAhead
  <2>3. Len(stack') + Stage' < Len(stack) + Stage
    BY <1>1, <2>1 DEF Stage, Types
  <2> QED BY <1>1, <2>1, <2>2, <2>3, FewerSteps
<1>5. ASSUME Abort PROVE StepsLeft' < StepsLeft
  <2>1. pc = "walk" /\ pc' = "failed" /\ todo' = todo /\ stack' = stack
    BY <1>5 DEF Abort, Walking
  <2>2. NodesAhead' \subseteq NodesAhead /\ FilesAhead' \subseteq FilesAhead
    BY <2>1 DEF NodesAhead, FilesAhead
  <2>3. Len(stack') + Stage' < Len(stack) + Stage
    BY <1>1, <2>1 DEF Stage, Types
  <2> QED BY <1>1, <2>1, <2>2, <2>3, FewerSteps
<1>6. ASSUME Return PROVE StepsLeft' < StepsLeft
  <2>1. /\ pc = "walk" /\ pc' \in {"files", "walk"} /\ Rest = {}
        /\ stack' = SubSeq(stack, 1, Depth - 1)
        /\ UNCHANGED <<program, todo, target, files, visited>>
    BY <1>6 DEF Return
  <2>2. Depth \in Nat \ {0} /\ DOMAIN stack = 1..Depth /\ stack \in Seq(SUBSET Node)
    BY <2>1, WithinATree DEF IInv, Types
  <2>3. Len(stack') = Depth - 1 /\ \A i \in 1..Depth - 1 : stack'[i] = stack[i]
    BY <2>1, <2>2 DEF Depth
  <2>4. Open' \subseteq Open
    <3>1. stack' \in Seq(SUBSET Node)
      BY <1>1 DEF Types
    <3>2. DOMAIN stack' = 1..Depth - 1
      BY <2>3, <3>1, LenProperties
    <3>3. 1..Depth - 1 \subseteq 1..Depth
      BY <2>2
    <3> QED BY <2>2, <2>3, <3>2, <3>3 DEF Open
  <2>5. Ahead' \subseteq Ahead
    <3>1. Started' = Started
      BY <2>1 DEF Started
    <3>2. InTrees(Roots \ Started)' = InTrees(Roots \ Started)
      BY <3>1 DEF InTrees
    <3> QED BY <2>4, <3>2 DEF Ahead
  <2>6. NodesAhead' \subseteq NodesAhead /\ FilesAhead' \subseteq FilesAhead
    BY <2>1, <2>5 DEF NodesAhead, FilesAhead
  <2>7. Len(stack') + Stage' < Len(stack) + Stage
    BY <2>1, <2>2, <2>3 DEF Stage, Depth
  <2> QED BY <1>1, <2>1, <2>6, <2>7, FewerSteps
<1>7. ASSUME SkipDisabled \/ EnterAttributeItem \/ EnterMacroCall \/ EnterNode
      PROVE  StepsLeft' < StepsLeft
  <2>1. Walking /\ pc = "walk"
    BY <1>7 DEF SkipDisabled, EnterAttributeItem, EnterMacroCall, EnterNode, Walking
  <2>2. PICK X \in SUBSET Rest, e \in (TreesOf(target) \ Files[target]) \cup {None} :
          LeaveWhole(X) /\ Current \in X /\ GoOn(Rest \ X, e) /\ Unwalked
    BY <1>7, NodeIsBehind
  <2>3. Ahead' = Ahead \ X /\ Len(stack') \in {Len(stack), Len(stack) + 1}
    BY <2>1, <2>2, MoveOn
  <2>4. pc' = "walk" /\ UNCHANGED <<todo, target, files>>
    BY <2>1, <2>2 DEF Unwalked
  <2>5. target \notin todo
    BY <2>1, WithinATree DEF UnderWay
  <2>6. Current \in Ahead /\ Current \in X
    BY <2>1, <2>2, CurrentNode DEF Ahead
  <2> HIDE DEF Current
  <2>7. NodesAhead' \subseteq NodesAhead /\ FilesAhead' = FilesAhead
    BY <2>1, <2>3, <2>4 DEF NodesAhead, FilesAhead
  <2>8. NodesAhead' # NodesAhead
    <3>1. <<target, Current>> \in NodesAhead /\ <<target, Current>> \notin NodesAhead'
      BY <2>1, <2>3, <2>4, <2>5, <2>6 DEF NodesAhead
    <3> QED BY <3>1
  <2>9. Len(stack') <= Len(stack) + 1 /\ Stage' <= Stage
    BY <1>1, <2>1, <2>3, <2>4 DEF Stage, Types
  <2> QED BY <1>1, <2>4, <2>7, <2>8, <2>9, FewerSteps
<1> QED BY <1>2, <1>3, <1>4, <1>5, <1>6, <1>7 DEF Next, Step

\* The walk comes to an end after so many steps, about two for each node of a
\* tree, file and target, whatever the macros expand to: the set of visited
\* expansions is guard enough for the recursion.
THEOREM WalkIsBounded == Spec => /\ [](StepsLeft \in Nat)
                                 /\ [][StepsLeft' < StepsLeft]_vars
<1>1. IInv => StepsLeft \in Nat
  <2> SUFFICES ASSUME IInv PROVE StepsLeft \in Nat
    OBVIOUS
  <2>1. Stage \in Nat
    BY DEF IInv, Types, Stage
  <2>2. /\ Cardinality(NodesAhead) \in Nat /\ Cardinality(FilesAhead) \in Nat
        /\ Cardinality(todo) \in Nat /\ Len(stack) \in Nat
    BY AheadIsFinite, FS_CardinalityType DEF IInv
  <2> QED BY <2>1, <2>2 DEF StepsLeft
<1>2. IInv /\ IInv' /\ [Next]_vars => [StepsLeft' < StepsLeft]_vars
  BY EachStepCounts
<1> QED BY <1>1, <1>2, Inductive, PTL DEF Spec
=============================================================================
