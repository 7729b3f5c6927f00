--------------------------------- MODULE Walk ---------------------------------
(***************************************************************************)
(* The walk that finds the references of the selected targets:             *)
(* add_actual_dependencies and walk_syntax_tree of                         *)
(* bylaw-analyzer/src/analyzer.rs, with the predicates on nodes they use.  *)
(*                                                                         *)
(* Every file of every target is walked in preorder; the walk calls itself *)
(* on the tree a macro expands to, once per target and expansion.  What    *)
(* happens to a reference that is found is Analyzer's Record; here it is   *)
(* found or it is not.                                                     *)
(*                                                                         *)
(* External: the syntax trees, what a macro expands to, and the cfg        *)
(* options of a target, which rust-analyzer provides.  Which two calls     *)
(* share an expansion is its choice, so that is left open.                 *)
(***************************************************************************)
EXTENDS Naturals, Sequences, FiniteSets

CONSTANTS
    Target,   \* the selected targets
    Node,     \* syntax nodes, numbered so that a tree is numbered in preorder
    Parent,   \* None for the root of a file or of an expansion
    Form,     \* what a node is to the walk, see Forms
    Files,    \* target -> roots of its files, none if it was not loaded
    CfgOptions, \* targets that have them
    Programs, \* the rest of what is walked, see IsProgram
    None      \* Option::None

\* An "attribute item" is one whose attribute macro rust-analyzer expands; of a
\* "macro call" the path and the attributes are children.  Its arguments are a
\* node too, but one with nothing but tokens in it, so it is left out.
Forms == {"other", "path", "attribute", "attribute item", "macro call"}
Roots == {n \in Node : Parent[n] = None}

\* An attribute that cfg is about: cfg(predicate), or cfg_attr(predicate, ..)
\* and the attributes inside of it.
IsMeta(m) ==
    /\ m.form \in {"cfg", "cfg_attr"}
    /\ m.predicate \in [Target -> {"true", "false", "unknown"}]

\* metas: the attributes of a node; expansion: the root of what a macro call
\* or an attribute item expands to, which is never a file; faulty: nodes whose
\* expansion has an error or is empty.
IsProgram(p) ==
    /\ \A n \in Node : \A m \in p.metas[n] : IsMeta(m)
    /\ p.expansion \in [Node -> (Roots \ UNION {Files[t] : t \in Target}) \cup {None}]
    /\ \A n \in Node : Form[n] = "attribute item" => p.expansion[n] # None
    /\ p.faulty \subseteq {n \in Node : p.expansion[n] # None}

ASSUME TargetsAreFinite == IsFiniteSet(Target)
ASSUME NodesAreNumbered == Node \subseteq Nat /\ IsFiniteSet(Node) /\ None \notin Node
ASSUME NodesAreInTrees ==
    /\ Parent \in [Node -> Node \cup {None}]
    /\ \A n \in Node : Parent[n] # None => Parent[n] < n
    /\ Form \in [Node -> Forms]
    /\ \A n \in Node : Parent[n] # None /\ Form[Parent[n]] = "macro call" =>
                          Form[n] \in {"path", "attribute"}
\* Both are filled in when a crate is bound to the target.
ASSUME FilesComeWithOptions ==
    /\ Files \in [Target -> SUBSET Roots]
    /\ \A t \in Target : Files[t] # {} => t \in CfgOptions
ASSUME ProgramsArePrograms == \A p \in Programs : IsProgram(p)

VARIABLES
    program, \* what is walked
    pc,      \* "targets", "files", "walk", "done" or "failed"
    todo,    \* targets that have not been walked
    target,  \* the one that is
    files,   \* its files that have not been walked
    visited, \* visited_expansions
    stack,   \* nodes that each open call of walk_syntax_tree has yet to enter
    found    \* references and diagnostics, in order: <<what, target, node>>

vars == <<program, pc, todo, target, files, visited, stack, found>>

-----------------------------------------------------------------------------
(* Nodes *)

\* ancestors(): the node and those above it, up to the root of its tree.
Ancestors[n \in Node] ==
    {n} \cup IF Parent[n] = None THEN {} ELSE Ancestors[Parent[n]]

Subtree == [n \in Node |-> {m \in Node : n \in Ancestors[m]}]

\* meta_is_cfg_enabled; cfg_attr counts only when it surely applies.  (The
\* attributes of a cfg_attr are no cfg_attr themselves here.)
MetaIsEnabled(meta, t) ==
    LET enabled[m \in {meta} \cup meta.inner] ==
          IF m.form = "cfg" THEN m.predicate[t] # "false"
          ELSE m.predicate[t] # "true" \/ \A i \in m.inner : enabled[i]
    IN  enabled[meta]

\* syntax_is_cfg_enabled: looks at the attributes of all ancestors.
IsEnabled(n, t) == \A a \in Ancestors[n] : \A m \in program.metas[a] : MetaIsEnabled(m, t)

\* is_terminal_path: a path within a path is none, be it a qualifier of it or
\* an argument of one of its segments.
IsTerminalPath(n) ==
    /\ Form[n] = "path"
    /\ \A a \in Ancestors[n] \ {n} : Form[a] # "path"

\* is_macro_path
IsMacroPath(n) == Parent[n] # None /\ Form[Parent[n]] = "macro call"

\* classify_path has no kind of dependency for a path in an attribute; the
\* kinds of the others are left out.
IsClassified(n) == \A a \in Ancestors[n] : Form[a] # "attribute"

-----------------------------------------------------------------------------

Init ==
    /\ program \in Programs
    /\ pc = "targets"
    /\ todo = Target
    /\ target = None
    /\ files = {}
    /\ visited = {}
    /\ stack = <<>>
    /\ found = <<>>

\* The next target; one that rust-analyzer did not load is reported.
StartTarget(t) ==
    /\ pc = "targets"
    /\ t \in todo
    /\ todo' = todo \ {t}
    /\ IF Files[t] # {} /\ t \in CfgOptions
       THEN /\ pc' = "files"
            /\ target' = t
            /\ files' = Files[t]
            /\ visited' = {}
            /\ UNCHANGED found
       ELSE /\ found' = Append(found,
                 <<IF Files[t] = {} THEN "skipped" ELSE "no options", t, None>>)
            /\ UNCHANGED <<pc, target, files, visited>>
    /\ UNCHANGED <<program, stack>>

\* Defect: each file is walked with a set of visited expansions of its own.
StartFileAfresh(f) ==
    /\ pc = "files"
    /\ f \in files
    /\ files' = files \ {f}
    /\ stack' = <<Subtree[f]>>
    /\ visited' = {}
    /\ pc' = "walk"
    /\ UNCHANGED <<program, todo, target, found>>

StartFile(f) ==
    /\ pc = "files"
    /\ f \in files
    /\ files' = files \ {f}
    /\ stack' = <<Subtree[f]>>
    /\ pc' = "walk"
    /\ UNCHANGED <<program, todo, target, visited, found>>

EndTarget ==
    /\ pc = "files"
    /\ files = {}
    /\ pc' = "targets"
    /\ UNCHANGED <<program, todo, target, files, visited, stack, found>>

-----------------------------------------------------------------------------
(* walk_syntax_tree *)

Depth == Len(stack)
Rest == stack[Depth]
Current == CHOOSE n \in Rest : \A m \in Rest : n <= m
Find(what, n) == <<what, target, n>>

\* Defect: an expansion is walked whenever it is come by.
GoOnAgain(rest, expansion) ==
    IF expansion = None
    THEN stack' = [stack EXCEPT ![Depth] = rest] /\ UNCHANGED visited
    ELSE /\ stack' = Append([stack EXCEPT ![Depth] = rest], Subtree[expansion])
         /\ visited' = visited \cup {expansion}

\* The call goes on with the nodes in rest, after one on an expansion if that
\* is to be walked now.
GoOn(rest, expansion) ==
    IF expansion = None \/ expansion \in visited
    THEN stack' = [stack EXCEPT ![Depth] = rest] /\ UNCHANGED visited
    ELSE /\ stack' = Append([stack EXCEPT ![Depth] = rest], Subtree[expansion])
         /\ visited' = visited \cup {expansion}

Walking == pc = "walk" /\ Rest # {}
Unwalked == UNCHANGED <<program, pc, todo, target, files>>

\* Defect: the walk does not move on.
SkipNothing ==
    /\ Walking
    /\ ~IsEnabled(Current, target)
    /\ GoOn(Rest, None)
    /\ Unwalked
    /\ UNCHANGED found

\* Nothing below a disabled node is looked at.
SkipDisabled ==
    /\ Walking
    /\ ~IsEnabled(Current, target)
    /\ GoOn(Rest \ Subtree[Current], None)
    /\ Unwalked
    /\ UNCHANGED found

\* Defect: a faulty expansion is not looked at.
EnterSoundAttributeItem ==
    LET n == Current
    IN  /\ Walking
        /\ IsEnabled(n, target)
        /\ Form[n] = "attribute item"
        /\ found' = found \o <<Find("macro", n)>>
                          \o IF n \in program.faulty THEN <<Find("unavailable", n)>> ELSE <<>>
        /\ GoOn(Rest \ Subtree[n], IF n \in program.faulty THEN None ELSE program.expansion[n])
        /\ Unwalked

\* An attribute macro replaces its item; what it expanded to is walked even
\* if there was an error.
EnterAttributeItem ==
    LET n == Current
    IN  /\ Walking
        /\ IsEnabled(n, target)
        /\ Form[n] = "attribute item"
        /\ found' = found \o <<Find("macro", n)>>
                          \o IF n \in program.faulty THEN <<Find("unavailable", n)>> ELSE <<>>
        /\ GoOn(Rest \ Subtree[n], program.expansion[n])
        /\ Unwalked

\* A macro call: no expansion, an empty one, or a tree to walk.
EnterMacroCall ==
    LET n == Current
        unavailable == program.expansion[n] = None \/ n \in program.faulty
    IN  /\ Walking
        /\ IsEnabled(n, target)
        /\ Form[n] = "macro call"
        /\ found' = found \o <<Find("macro", n)>>
                          \o IF unavailable THEN <<Find("unavailable", n)>> ELSE <<>>
        /\ GoOn(Rest \ {n}, IF unavailable THEN None ELSE program.expansion[n])
        /\ Unwalked

EnterNode ==
    LET n == Current
    IN  /\ Walking
        /\ IsEnabled(n, target)
        /\ Form[n] \in {"other", "path", "attribute"}
        /\ found' = IF IsTerminalPath(n) /\ ~IsMacroPath(n) /\ IsClassified(n)
                    THEN Append(found, Find("path", n)) ELSE found
        /\ GoOn(Rest \ {n}, None)
        /\ Unwalked

\* The end of a tree: the call returns.
Return ==
    /\ pc = "walk"
    /\ Rest = {}
    /\ stack' = SubSeq(stack, 1, Depth - 1)
    /\ pc' = IF Depth = 1 THEN "files" ELSE "walk"
    /\ UNCHANGED <<program, todo, target, files, visited, found>>

\* A reference or its place in a file cannot be recorded: the error ends the
\* analysis.
Abort ==
    /\ Walking
    /\ IsEnabled(Current, target)
    /\ Form[Current] \in {"path", "attribute item", "macro call"}
    /\ pc' = "failed"
    /\ UNCHANGED <<program, todo, target, files, visited, stack, found>>

Finish ==
    /\ pc = "targets"
    /\ todo = {}
    /\ pc' = "done"
    /\ UNCHANGED <<program, todo, target, files, visited, stack, found>>

Step ==
    \/ \E t \in Target : StartTarget(t)
    \/ \E f \in Node : StartFile(f)
    \/ EndTarget
    \/ SkipDisabled
    \/ EnterAttributeItem
    \/ EnterMacroCall
    \/ EnterNode
    \/ Return
    \/ Finish

Next == Step \/ Abort

\* One thread does all of it and waits for nothing; that it may fail is no
\* help to end.
Spec == Init /\ [][Next]_vars /\ WF_vars(Step)

-----------------------------------------------------------------------------
(* Properties *)

Found == {found[i] : i \in DOMAIN found}

\* What a target is made of: the enabled nodes of its files and, in turn, of
\* the expansions of the macros among them; the items that attribute macros
\* replace are not part of it.
Alive(t, n) ==
    /\ IsEnabled(n, t)
    /\ \A a \in Ancestors[n] \ {n} : Form[a] # "attribute item"
ExpansionsIn(t, roots) ==
    {program.expansion[n] : n \in
        {m \in UNION {Subtree[r] : r \in roots} :
            /\ Alive(t, m)
            /\ \/ Form[m] = "attribute item"
               \/ Form[m] = "macro call" /\ m \notin program.faulty}} \ {None}
\* The fewest trees that take in the files and what they expand to.
TreesOf(t) ==
    {r \in Roots : \A S \in SUBSET Roots :
        Files[t] \subseteq S /\ ExpansionsIn(t, S) \subseteq S => r \in S}
Parts(t) == {n \in UNION {Subtree[r] : r \in TreesOf(t)} : Alive(t, n)}

\* The walk finds what is there, and no more: when it is done, it has found
\* for every target that was loaded each macro and each outermost path of the
\* target (other than the names of macros and what attributes say), however
\* deep in expansions it is and whatever other targets share its file under
\* other cfg options, and has a diagnostic for every macro that did not expand
\* and every target that was not loaded.
FindsWhatIsThere ==
    pc = "done" =>
        \A t \in Target : LET parts == Parts(t) IN \A n \in Node :
            LET there == n \in parts
                expands == Form[n] \in {"attribute item", "macro call"}
            IN  /\ <<"skipped", t, None>> \in Found <=> Files[t] = {}
                /\ <<"path", t, n>> \in Found <=>
                      /\ there
                      /\ {a \in Ancestors[n] :
                            Form[a] \in {"path", "macro call", "attribute"}} = {n}
                      /\ Form[n] = "path"
                /\ <<"macro", t, n>> \in Found <=> there /\ expands
                /\ <<"unavailable", t, n>> \in Found <=>
                      there /\ expands /\ (program.expansion[n] = None \/ n \in program.faulty)

\* Nothing is found twice, though an expansion may be come by from two
\* macros: a second time would add evidence to the edge that is not there, or
\* a diagnostic.
NothingIsFoundTwice == Cardinality(Found) = Len(found)

\* The recursion, whose depth nothing else limits, goes no deeper than there
\* are expansions below the file, though they may have each other and
\* themselves in them.
RecursionIsBounded ==
    Len(stack) <= 1 + Cardinality({program.expansion[n] : n \in Node} \ {None})

\* The walk ends, also on an expansion that has itself in it.
Terminates == <>(pc \in {"done", "failed"})

\* docs/architecture.md:45-47: "Analysis completeness is part of the graph.
\* Unresolved paths, unavailable macro expansions, and skipped requested
\* targets are diagnostics rather than silent omissions."  Taken for each
\* path: one that is in the target and names something of its own, because it
\* is no qualifier of the path around it (whose child it would be), no macro's
\* name and in no attribute, is found.  The code takes a path in a generic
\* argument, which has the path around it as an ancestor, for a qualifier.
NoPathIsOmitted ==
    pc = "done" =>
        \A t \in Target : \A n \in Parts(t) :
            /\ Form[n] = "path"
            /\ Parent[n] = None \/ Form[Parent[n]] = "other"
            /\ IsClassified(n)
            => <<"path", t, n>> \in Found
=============================================================================
