------------------------------ MODULE PathPattern ------------------------------
(***************************************************************************)
(* PathPattern of bylaw-core/src/selector.rs: how a module pattern is read *)
(* and matched against the path of a module.                               *)
(*                                                                         *)
(* matches_from calls itself; its open calls are the variable calls, the   *)
(* innermost last, each waiting in some phase for the answer of the next.  *)
(* A call knows the rest of the pattern and of the path by their first     *)
(* positions, which count from 1 here.                                     *)
(***************************************************************************)
EXTENDS Naturals, Sequences

CONSTANTS
    Name,    \* segments without wildcards
    Sources, \* patterns as written, split at "::"
    Paths    \* paths of modules, split at "::"

One == "*"
Many == "**"

\* "" is an empty segment, "partial" one with a wildcard among other letters.
ASSUME SourcesAreSplit == Sources \subseteq Seq(Name \cup {One, Many, "", "partial"}) \ {<<>>}
ASSUME PathsAreSplit == Paths \subseteq Seq(Name) \ {<<>>}
ASSUME NamesAreNames == Name \cap {One, Many, "", "partial"} = {}

VARIABLES
    source, path, \* what is given
    pc,      \* "new", "refused", "matching" or "matched"
    pattern, \* the segments
    calls,   \* open calls of matches_from: [at, phase]
    answer,  \* what the last call to return did return
    memo     \* position -> what its call returned

vars == <<source, path, pc, pattern, calls, answer, memo>>

-----------------------------------------------------------------------------

Init ==
    /\ source \in Sources
    /\ path \in Paths
    /\ pc = "new"
    /\ pattern = <<>>
    /\ calls = <<>>
    /\ answer = FALSE
    /\ memo = <<>>

\* PathPattern::new: Empty, EmptySegment or InvalidWildcard, ...
Refuse ==
    /\ pc = "new"
    /\ \E k \in DOMAIN source : source[k] \in {"", "partial"}
    /\ pc' = "refused"
    /\ UNCHANGED <<source, path, pattern, calls, answer, memo>>

\* ... or a pattern, with which matches() calls matches_from.
Accept ==
    /\ pc = "new"
    /\ \A k \in DOMAIN source : source[k] \notin {"", "partial"}
    /\ pc' = "matching"
    /\ pattern' = source
    /\ calls' = <<[at |-> <<1, 1>>, phase |-> "start"]>>
    /\ UNCHANGED <<source, path, answer, memo>>

-----------------------------------------------------------------------------
(* matches_from *)

Top == calls[Len(calls)]
PatternIndex == Top.at[1]
PathIndex == Top.at[2]
Matching(phase) == pc = "matching" /\ Top.phase = phase
Fixed == UNCHANGED <<source, path, pattern>>

\* The call waits, in some phase, for one on a later position.
Recurse(at, phase) ==
    /\ calls' = Append([calls EXCEPT ![Len(calls)].phase = phase],
                       [at |-> at, phase |-> "start"])
    /\ UNCHANGED <<pc, answer, memo>>

Return(value) ==
    /\ calls' = SubSeq(calls, 1, Len(calls) - 1)
    /\ answer' = value
    /\ pc' = IF Len(calls) = 1 THEN "matched" ELSE "matching"

Remember(value) ==
    memo' = [at \in DOMAIN memo \cup {Top.at} |-> IF at = Top.at THEN value ELSE memo[at]]

\* Defect: the memo is written and never read.
NeverKnown(at) == FALSE

Known(at) == at \in DOMAIN memo

\* The memo knows the answer.
Recall ==
    /\ Matching("start")
    /\ Known(Top.at)
    /\ Return(memo[Top.at])
    /\ UNCHANGED memo
    /\ Fixed

\* There is a segment left in the path, and a pattern that starts with
\* segment may take it.
Takes(segment, index) == index <= Len(path) /\ segment \in {One, path[index]}

\* Defect: a path may go on after the pattern.
AtEndOfPattern ==
    /\ Matching("start")
    /\ ~Known(Top.at)
    /\ PatternIndex > Len(pattern)
    /\ Return(TRUE)
    /\ Remember(TRUE)
    /\ Fixed

\* The pattern is over.
AtEnd ==
    /\ Matching("start")
    /\ ~Known(Top.at)
    /\ PatternIndex > Len(pattern)
    /\ Return(PathIndex = Len(path) + 1)
    /\ Remember(PathIndex = Len(path) + 1)
    /\ Fixed

\* Exact and One: nothing to take, ...
TakeNothing ==
    /\ Matching("start")
    /\ ~Known(Top.at)
    /\ PatternIndex <= Len(pattern)
    /\ pattern[PatternIndex] # Many
    /\ ~Takes(pattern[PatternIndex], PathIndex)
    /\ Return(FALSE)
    /\ Remember(FALSE)
    /\ Fixed

\* ... or one segment.
TakeSegment ==
    /\ Matching("start")
    /\ ~Known(Top.at)
    /\ PatternIndex <= Len(pattern)
    /\ pattern[PatternIndex] # Many
    /\ Takes(pattern[PatternIndex], PathIndex)
    /\ Recurse(<<PatternIndex + 1, PathIndex + 1>>, "last")
    /\ Fixed

\* Many: let it end here, ...
EndMany ==
    /\ Matching("start")
    /\ ~Known(Top.at)
    /\ PatternIndex <= Len(pattern)
    /\ pattern[PatternIndex] = Many
    /\ Recurse(<<PatternIndex + 1, PathIndex>>, "many")
    /\ Fixed

\* Defect: the call is on the same position again.
GrowManyInPlace ==
    /\ Matching("many")
    /\ ~answer
    /\ PathIndex <= Len(path)
    /\ Recurse(<<PatternIndex, PathIndex>>, "last")
    /\ Fixed

\* ... and if that did not do, let it take one more segment.
GrowMany ==
    /\ Matching("many")
    /\ ~answer
    /\ PathIndex <= Len(path)
    /\ Recurse(<<PatternIndex, PathIndex + 1>>, "last")
    /\ Fixed

\* What the callee returned is the answer.
PassOn ==
    /\ \/ Matching("last")
       \/ Matching("many") /\ (answer \/ PathIndex > Len(path))
    /\ Return(answer)
    /\ Remember(answer)
    /\ Fixed

Next ==
    \/ Refuse
    \/ Accept
    \/ Recall
    \/ AtEnd
    \/ TakeNothing
    \/ TakeSegment
    \/ EndMany
    \/ GrowMany
    \/ PassOn

Spec == Init /\ [][Next]_vars

-----------------------------------------------------------------------------
(* Properties *)

Position == (1..Len(pattern) + 1) \X (1..Len(path) + 1)
Call == [at : Position, phase : {"start", "many", "last"}]

\* Types; each open call but the innermost waits for the next one, which is
\* further on: one more segment is gone of the pattern or of the path.
TypeOK ==
    /\ source \in Sources /\ path \in Paths
    /\ pc \in {"new", "refused", "matching", "matched"}
    /\ pattern \in {<<>>, source}
    /\ calls \in Seq(Call)
    /\ pc = "matching" <=> calls # <<>>
    /\ answer \in BOOLEAN
    /\ memo \in [DOMAIN memo -> BOOLEAN] /\ DOMAIN memo \subseteq Position
    /\ \A k, l \in DOMAIN calls :
          k < l => /\ calls[k].phase # "start"
                   /\ calls[k].at[1] + calls[k].at[2] < calls[l].at[1] + calls[l].at[2]

\* The meaning of a pattern, from docs/configuration.md and the names of the
\* segments: the path can be cut into one piece for each segment of the
\* pattern, a piece of one name for a name (that one) and for * (any), and a
\* piece of any number of names, none included, for **.  cut[k] is where the
\* piece for segment k begins.
IsPiece(segment, first, next) ==
    segment # Many => next = first + 1 /\ segment \in {One, path[first]}

Fits(i, j) ==
    \E cut \in [i..Len(pattern) + 1 -> j..Len(path) + 1] :
        /\ cut[i] = j
        /\ cut[Len(pattern) + 1] = Len(path) + 1
        /\ \A k, l \in DOMAIN cut : k < l => cut[k] <= cut[l]
        /\ \A k \in i..Len(pattern) : IsPiece(pattern[k], cut[k], cut[k + 1])

\* A match has the answer that the pattern means.  So has every position the
\* memo knows, in the middle of the recursion too: what one branch of the
\* search for the end of ** wrote there is right for all the others.
MatchesByMeaning ==
    /\ \A at \in DOMAIN memo : memo[at] = Fits(at[1], at[2])
    /\ pc = "matched" => answer = Fits(1, 1)

\* Nothing is worked out twice: a call that gets past the memo is on a
\* position that is neither known nor being worked out by a call that waits,
\* so that several ** cost the product of the two lengths at most.
NothingIsWorkedOutTwice ==
    \A k \in DOMAIN calls :
        calls[k].phase # "start" =>
            /\ calls[k].at \notin DOMAIN memo
            /\ \A l \in DOMAIN calls : l # k => calls[l].at # calls[k].at
=============================================================================
