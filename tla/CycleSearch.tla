---------------------------- MODULE CycleSearch -----------------------------
(***************************************************************************)
(* The search of the no-cycles condition: GroupedGraph::cycle_events,      *)
(* find_cycle and find_cycle_from of bylaw-core/src/builtin.rs.            *)
(*                                                                         *)
(* petgraph's kosaraju_scc gives the strongly connected components; those  *)
(* of more than one key are searched in sorted order.  find_cycle tries    *)
(* every member as a start; find_cycle_from is a recursive depth-first     *)
(* search whose call stack is made explicit here: frame i belongs to       *)
(* path[i], and remaining[i] holds the neighbours its loop has yet to see. *)
(* Keys are numbers, ordered as the BTreeMap orders the key strings.       *)
(***************************************************************************)
EXTENDS Naturals, Sequences, FiniteSets

CONSTANT Key

ASSUME KeysAreOrdered == Key \subseteq Nat /\ IsFiniteSet(Key)

VARIABLES
    adjacency, \* GroupedGraph::adjacency, fixed while searching
    pending,   \* cyclic components not searched yet
    members,   \* the component being searched
    starts,    \* members find_cycle has not tried as a start
    path,      \* keys on the way from the start
    active,    \* the keys on the path, as the BTreeSet of the code
    remaining, \* per frame, the neighbours still to look at
    reported,  \* the cycles found
    phase      \* "idle", "start" or "search"

vars == <<adjacency, pending, members, starts, path, active, remaining, reported, phase>>

Reports == INSTANCE CycleReports WITH
    pending <- IF phase = "idle" THEN pending ELSE pending \cup {members}

Elements(s) == {s[i] : i \in DOMAIN s}
NoRepeats(s) == \A i, j \in DOMAIN s : s[i] = s[j] => i = j
Least(S) == CHOOSE k \in S : \A l \in S : k <= l

Start == path[1]
Depth == Len(path)
Untried == remaining[Depth]   \* neighbours the innermost frame has yet to see
Neighbor == Least(Untried)

\* The innermost frame moves on to its next neighbour.
Advance(frames) == [frames EXCEPT ![Depth] = @ \ {Neighbor}]
Pop(s) == SubSeq(s, 1, Len(s) - 1)

\* When the outermost call fails find_cycle tries the next start; when none is
\* left it returns None, and filter_map drops the component without a word.
PhaseAfterReturn ==
    IF Depth > 1 THEN "search" ELSE IF starts # {} THEN "start" ELSE "idle"

-----------------------------------------------------------------------------

Init ==
    /\ adjacency \in Reports!Loopless
    /\ pending = Reports!CyclicComponents(adjacency)
    /\ members = {} /\ starts = {}
    /\ path = <<>> /\ active = {} /\ remaining = <<>>
    /\ reported = <<>>
    /\ phase = "idle"

\* Defects: the search stops after the first component, and starts are taken
\* from all keys.
OnlyFirstComponent ==
    /\ phase = "idle"
    /\ \E C \in pending :
          /\ \A D \in pending : Least(C) <= Least(D)
          /\ pending' = {}
          /\ members' = C
          /\ starts' = C
    /\ phase' = "start"
    /\ UNCHANGED <<adjacency, path, active, remaining, reported>>
StartAnywhere ==
    /\ phase = "idle"
    /\ \E C \in pending :
          /\ pending' = pending \ {C}
          /\ members' = C
          /\ starts' = Key
    /\ phase' = "start"
    /\ UNCHANGED <<adjacency, path, active, remaining, reported>>

\* The next component of the sorted list: components are disjoint, so the one
\* with the least key is the least list.
NextComponent ==
    /\ phase = "idle"
    /\ \E C \in pending :
          /\ \A D \in pending : Least(C) <= Least(D)
          /\ pending' = pending \ {C}
          /\ members' = C
          /\ starts' = C
    /\ phase' = "start"
    /\ UNCHANGED <<adjacency, path, active, remaining, reported>>

TryStart ==
    /\ phase = "start"
    /\ path' = <<Least(starts)>>
    /\ active' = {Least(starts)}
    /\ remaining' = <<adjacency[Least(starts)]>>
    /\ starts' = starts \ {Least(starts)}
    /\ phase' = "search"
    /\ UNCHANGED <<adjacency, pending, members, reported>>

\* Defect: the loop does not get past a neighbour it skips.
SkipInPlace ==
    /\ phase = "search"
    /\ Untried # {}
    /\ Neighbor \notin members \/ Neighbor \in active \ {Start}
    /\ UNCHANGED vars

\* The neighbour is in another component, or already on the path.
SkipNeighbor ==
    /\ phase = "search"
    /\ Untried # {}
    /\ Neighbor \notin members \/ Neighbor \in active \ {Start}
    /\ remaining' = Advance(remaining)
    /\ UNCHANGED <<adjacency, pending, members, starts, path, active, reported, phase>>

\* Defect: the path is reported without the start at its end.
ReportOpenPath ==
    /\ phase = "search"
    /\ Untried # {}
    /\ Neighbor \in members
    /\ Neighbor = Start
    /\ reported' = Append(reported, path)
    /\ path' = <<>> /\ active' = {} /\ remaining' = <<>>
    /\ phase' = "idle"
    /\ UNCHANGED <<adjacency, pending, members, starts>>

\* Back at the start: the path is a cycle and the search of the component ends.
CloseCycle ==
    /\ phase = "search"
    /\ Untried # {}
    /\ Neighbor \in members
    /\ Neighbor = Start
    /\ reported' = Append(reported, Append(path, Start))
    /\ path' = <<>> /\ active' = {} /\ remaining' = <<>>
    /\ phase' = "idle"
    /\ UNCHANGED <<adjacency, pending, members, starts>>

Descend ==
    /\ phase = "search"
    /\ Untried # {}
    /\ Neighbor \in members
    /\ Neighbor # Start
    /\ Neighbor \notin active
    /\ active' = active \cup {Neighbor}
    /\ path' = Append(path, Neighbor)
    /\ remaining' = Append(Advance(remaining), adjacency[Neighbor])
    /\ UNCHANGED <<adjacency, pending, members, starts, reported, phase>>

\* Defects: a failed call that leaves its key on the set of active keys, and
\* one whose caller gives up as well instead of trying its next neighbour.
ReturnKeepsActive ==
    /\ phase = "search"
    /\ Untried = {}
    /\ path' = Pop(path)
    /\ remaining' = Pop(remaining)
    /\ phase' = PhaseAfterReturn
    /\ UNCHANGED <<adjacency, pending, members, starts, active, reported>>
ReturnFailsCaller ==
    /\ phase = "search"
    /\ Untried = {}
    /\ path' = <<>> /\ active' = {} /\ remaining' = <<>>
    /\ phase' = IF starts # {} THEN "start" ELSE "idle"
    /\ UNCHANGED <<adjacency, pending, members, starts, reported>>

\* The innermost call returns false and its caller pops the key again.
Return ==
    /\ phase = "search"
    /\ Untried = {}
    /\ active' = active \ {path[Depth]}
    /\ path' = Pop(path)
    /\ remaining' = Pop(remaining)
    /\ phase' = PhaseAfterReturn
    /\ UNCHANGED <<adjacency, pending, members, starts, reported>>

Next ==
    \/ NextComponent
    \/ TryStart
    \/ SkipNeighbor
    \/ CloseCycle
    \/ Descend
    \/ Return

\* A sequential program keeps running: it takes its next step if there is one.
Spec == Init /\ [][Next]_vars /\ WF_vars(Next)

-----------------------------------------------------------------------------
(* Properties *)

TypeOK ==
    /\ adjacency \in [Key -> SUBSET Key]
    /\ pending \subseteq SUBSET Key
    /\ members \subseteq Key
    /\ starts \subseteq members
    /\ path \in Seq(Key)
    /\ active \subseteq Key
    /\ remaining \in Seq(SUBSET Key)
    /\ reported \in Seq(Seq(Key))
    /\ phase \in {"idle", "start", "search"}

\* The bookkeeping of the recursive search stays consistent through every
\* descent and return: the path is a walk through distinct members, `active`
\* is exactly its keys, and every frame has its loop.
PathIsSimpleWalk ==
    /\ active = Elements(path)
    /\ active \subseteq members
    /\ NoRepeats(path)
    /\ Len(remaining) = Len(path)
    /\ phase = "search" <=> path # <<>>
    /\ \A i \in DOMAIN path : remaining[i] \subseteq adjacency[path[i]]
    /\ \A i \in 1..Len(path) - 1 : path[i + 1] \in adjacency[path[i]] \ remaining[i]

\* find_cycle never returns None for a component of kosaraju_scc, so the
\* filter_map of cycle_events drops no cycle: each component, once passed,
\* has exactly one report.
NoComponentIsDropped ==
    \A C \in Reports!CyclicComponents(adjacency) :
        C \notin pending /\ (phase = "idle" \/ members # C) =>
            Cardinality({i \in DOMAIN reported : Elements(reported[i]) \subseteq C}) = 1

\* The first start always succeeds: the loop of find_cycle over the other
\* members is never entered a second time, so a report begins at the least
\* key of its component.
FirstStartSucceeds ==
    /\ phase = "start" => starts = members
    /\ \A i \in DOMAIN reported :
          reported[i][1] = Least(Reports!ComponentOf(adjacency, reported[i][1]))

\* The search implements the promise: it reports cycles only, inside the
\* component it searches, and every cyclic component eventually gets one.
ImplementsReports == Reports!Spec

\* The exhaustive search ends on every graph.
Terminates == <>[](phase = "idle" /\ pending = {})
=============================================================================
