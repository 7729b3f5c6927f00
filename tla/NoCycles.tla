------------------------------ MODULE NoCycles ------------------------------
(***************************************************************************)
(* The no-cycles condition as a whole (no_cycles_condition of              *)
(* bylaw-core/src/builtin.rs): GroupedGraph folds the architecture graph   *)
(* into groups, CycleSearch searches them, and every cycle becomes a       *)
(* ConditionEvent.                                                         *)
(***************************************************************************)
EXTENDS GroupedGraph

VARIABLES
    pending, members, starts, path, active, remaining, reported, phase, \* CycleSearch
    searching \* build has ended

search == <<pending, members, starts, path, active, remaining, reported, phase>>
vars == <<input, todo, grouped, search, searching>>

Search == INSTANCE CycleSearch

Init ==
    /\ InitBuild
    /\ pending = {} /\ members = {} /\ starts = {}
    /\ path = <<>> /\ active = {} /\ remaining = <<>>
    /\ reported = <<>> /\ phase = "idle"
    /\ searching = FALSE

Build ==
    /\ FoldNext
    /\ UNCHANGED <<search, searching>>

\* cycle_events: kosaraju_scc over the groups.
StartSearch ==
    /\ todo = {}
    /\ ~searching
    /\ pending' = Search!Reports!CyclicComponents(adjacency)
    /\ searching' = TRUE
    /\ UNCHANGED <<input, todo, grouped, members, starts, path, active, remaining, reported, phase>>

SearchStep ==
    /\ searching
    /\ Search!Next
    /\ UNCHANGED <<input, todo, representatives, evidence, searching>>

Next == Build \/ StartSearch \/ SearchStep

Spec == Init /\ [][Next]_vars

Done == searching /\ phase = "idle" /\ pending = {}

\* The event for a reported cycle: its components, the edge it is filed under
\* and the evidence of all its hops in order.
Hops(c) == [i \in 1..Len(c) - 1 |-> <<c[i], c[i + 1]>>]
Event(c) ==
    [cycle |-> [i \in DOMAIN c |-> representatives[c[i]]],
     origin |-> representatives[c[1]],
     target |-> representatives[c[2]],
     evidence |-> [i \in DOMAIN Hops(c) |-> evidence[Hops(c)[i]]]]

-----------------------------------------------------------------------------
(* Properties *)

\* The condition passes exactly when every set of groups has a member that
\* depends on no other of them, i.e. when the groups can be layered.  (This is
\* stated over the edges of the architecture graph, not over what build makes
\* of them.)
DependsOn(k, l) ==
    \E e \in edges : /\ Includes(e.scope)
                     /\ k \in GroupsFor(e.origin)
                     /\ l \in GroupsFor(e.target)
CanBeLayered ==
    \A S \in SUBSET UNION {GroupsFor(id) : id \in ComponentId} :
        S # {} => \E k \in S : \A l \in S \ {k} : ~DependsOn(k, l)
PassesIffLayered == Done => (reported = <<>> <=> CanBeLayered)

\* What a report shows is real: every hop has evidence, and each piece comes
\* from an edge in scope from a component of the first group to a component
\* of the second.
EventsAreEvidenced ==
    \A i \in DOMAIN reported :
        LET c == reported[i]
            shown == Event(c).evidence
        IN  \A j \in DOMAIN shown :
              /\ shown[j] # <<>>
              /\ \A piece \in Elements(shown[j]) :
                    \E e \in edges :
                        /\ Includes(e.scope)
                        /\ EvidenceOf(e) = piece
                        /\ c[j] \in GroupsFor(e.origin)
                        /\ c[j + 1] \in GroupsFor(e.target)

\* A report names its groups by their own members, also when slices overlap:
\* the representative of a group is in it and is an end of one of its edges.
RepresentativesBelong ==
    /\ \A k \in DOMAIN representatives : k \in GroupsFor(representatives[k])
    /\ \A k \in Key : adjacency[k] # {} =>
          {k} \cup adjacency[k] \subseteq DOMAIN representatives
=============================================================================
