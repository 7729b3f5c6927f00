---------------------------- MODULE CycleReports ----------------------------
(***************************************************************************)
(* What the no-cycles condition promises: one simple cycle for every       *)
(* strongly connected component of more than one group, and nothing else.  *)
(* Which cycle of a component is reported, and in which order, is open.    *)
(* CycleSearch.tla shows that the depth-first search of the code does it.  *)
(***************************************************************************)
EXTENDS Naturals, Sequences, FiniteSets

CONSTANT Key  \* group keys of a GroupedGraph

VARIABLES
    adjacency, \* key -> the keys it depends on
    pending,   \* cyclic components for which nothing is reported yet
    reported   \* the cycles reported so far

vars == <<adjacency, pending, reported>>

Elements(s) == {s[i] : i \in DOMAIN s}
NoRepeats(s) == \A i, j \in DOMAIN s : s[i] = s[j] => i = j

Loopless == {a \in [Key -> SUBSET Key] : \A k \in Key : k \notin a[k]}

\* y is reachable from x in a: every closed set that holds x holds y.
Closed(a, S) == \A k \in S : a[k] \subseteq S
Reaches(a, x, y) == \A S \in SUBSET Key : x \in S /\ Closed(a, S) => y \in S

ComponentOf(a, x) == {y \in Key : Reaches(a, x, y) /\ Reaches(a, y, x)}
CyclicComponents(a) ==
    {C \in {ComponentOf(a, x) : x \in Key} : \E x, y \in C : x # y}

\* c is a closed walk through distinct keys: k1 -> k2 -> ... -> kn -> k1.
IsCycle(a, c) ==
    /\ Len(c) > 2
    /\ c[1] = c[Len(c)]
    /\ NoRepeats(SubSeq(c, 1, Len(c) - 1))
    /\ \A i \in 1..Len(c) - 1 : c[i + 1] \in a[c[i]]

Report(C, c) ==
    /\ C \in pending
    /\ IsCycle(adjacency, c)
    /\ Elements(c) \subseteq C
    /\ pending' = pending \ {C}
    /\ reported' = Append(reported, c)
    /\ UNCHANGED adjacency

Init ==
    /\ adjacency \in Loopless
    /\ pending = CyclicComponents(adjacency)
    /\ reported = <<>>

\* The cycle is bounded only to let TLC enumerate it: a simple cycle has at
\* most one key more than there are keys.
Next ==
    \E C \in pending :
        \E n \in 3..Cardinality(Key) + 1 :
            \E c \in [1..n -> C] : Report(C, c)

Spec == Init /\ [][Next]_vars /\ WF_vars(Next)
=============================================================================
