--------------------------- MODULE PathPatternProofs ---------------------------
(***************************************************************************)
(* Proofs about PathPattern: the matcher gives the meaning of the pattern, *)
(* for every pattern and every path, and works nothing out twice.          *)
(*                                                                         *)
(* The meaning is a statement about a cut of the whole path; the lemmas    *)
(* EndFits, SegmentFits and ManyFits say what it is at a position in terms *)
(* of later ones, which is what matches_from goes by.                      *)
(***************************************************************************)
EXTENDS PathPattern, TLAPS

\* The pattern and the path have lengths.
Given == Len(pattern) \in Nat /\ Len(path) \in Nat

-----------------------------------------------------------------------------
(* The meaning of a pattern from a position on *)

Cuts(i, j) == [i..Len(pattern) + 1 -> j..Len(path) + 1]
IsCut(cut, i, j) ==
    /\ cut[i] = j
    /\ cut[Len(pattern) + 1] = Len(path) + 1
    /\ \A k, l \in i..Len(pattern) + 1 : k < l => cut[k] <= cut[l]
    /\ \A k \in i..Len(pattern) : IsPiece(pattern[k], cut[k], cut[k + 1])

LEMMA FitsIsCut ==
    ASSUME NEW i, NEW j
    PROVE  Fits(i, j) <=> \E cut \in Cuts(i, j) : IsCut(cut, i, j)
BY DEF Fits, Cuts, IsCut

\* The empty pattern fits the empty path.
LEMMA EndFits ==
    ASSUME Given, NEW j \in 1..Len(path) + 1
    PROVE  Fits(Len(pattern) + 1, j) <=> j = Len(path) + 1
<1> DEFINE n == Len(pattern) + 1
<1>1. ASSUME Fits(n, j) PROVE j = Len(path) + 1
    BY <1>1 DEF Fits
<1>2. ASSUME j = Len(path) + 1 PROVE Fits(n, j)
  <2> DEFINE cut == [k \in n..n |-> j]
  <2>1. cut \in Cuts(n, j) /\ IsCut(cut, n, j)
      BY <1>2 DEF Cuts, IsCut, Given
  <2> QED BY <2>1, FitsIsCut
<1> QED BY <1>1, <1>2

\* Without its first piece, a cut is one of what is left.
LEMMA CutShrinks ==
    ASSUME Given, NEW i \in 1..Len(pattern), NEW j \in 1..Len(path) + 1, Fits(i, j)
    PROVE  \E next \in j..Len(path) + 1 :
              IsPiece(pattern[i], j, next) /\ Fits(i + 1, next)
<1>1. PICK cut \in Cuts(i, j) : IsCut(cut, i, j)
    BY FitsIsCut
<1> DEFINE next == cut[i + 1]
           later == [k \in i + 1..Len(pattern) + 1 |-> cut[k]]
<1>0. /\ i \in i..Len(pattern) + 1 /\ i + 1 \in i..Len(pattern) + 1 /\ i < i + 1
      /\ \A k \in i + 1..Len(pattern) + 1 :
            k \in i..Len(pattern) + 1 /\ (k = i + 1 \/ i + 1 < k)
    BY DEF Given
<1>2. next \in j..Len(path) + 1 /\ IsPiece(pattern[i], j, next)
    BY <1>0, <1>1 DEF Cuts, IsCut, Given
<1>3. \A k \in i + 1..Len(pattern) + 1 : cut[k] \in next..Len(path) + 1
  <2> TAKE k \in i + 1..Len(pattern) + 1
  <2>1. cut[k] \in j..Len(path) + 1 /\ next <= cut[k]
      BY <1>0, <1>1 DEF Cuts, IsCut
  <2> QED
      BY <1>2, <2>1 DEF Given
<1>4. later \in Cuts(i + 1, next)
    BY <1>3 DEF Cuts
<1>5. IsCut(later, i + 1, next)
    BY <1>1 DEF IsCut, Given
<1> HIDE DEF next, later
<1>6. Fits(i + 1, next)
    BY <1>4, <1>5, FitsIsCut
<1> QED BY <1>2, <1>6

\* With a piece before it, a cut is one of more.
LEMMA CutGrows ==
    ASSUME Given, NEW i \in 1..Len(pattern), NEW j \in 1..Len(path) + 1,
           NEW next \in j..Len(path) + 1, IsPiece(pattern[i], j, next), Fits(i + 1, next)
    PROVE  Fits(i, j)
<1>1. PICK cut \in Cuts(i + 1, next) : IsCut(cut, i + 1, next)
    BY FitsIsCut
<1> DEFINE longer == [k \in i..Len(pattern) + 1 |-> IF k = i THEN j ELSE cut[k]]
<1>2. longer \in Cuts(i, j)
    BY <1>1 DEF Cuts, Given
<1>3. longer[i] = j /\ longer[Len(pattern) + 1] = Len(path) + 1
    BY <1>1 DEF IsCut, Given
<1>4. ASSUME NEW k \in i..Len(pattern) + 1, NEW l \in i..Len(pattern) + 1, k < l
      PROVE  longer[k] <= longer[l]
  <2>1. l \in i + 1..Len(pattern) + 1 /\ longer[l] = cut[l] /\ cut[l] \in next..Len(path) + 1
      BY <1>1, <1>4 DEF Cuts, Given
  <2>2. CASE k = i
      BY <2>1, <2>2 DEF Given
  <2>3. CASE k # i
      BY <2>1, <2>3, <1>1, <1>4 DEF IsCut, Given
  <2> QED BY <2>2, <2>3
<1>5. ASSUME NEW k \in i..Len(pattern)
      PROVE  IsPiece(pattern[k], longer[k], longer[k + 1])
  <2>1. CASE k = i
      BY <2>1, <1>1 DEF IsCut, Given
  <2>2. CASE k # i
      BY <2>2, <1>1 DEF IsCut, Given
  <2> QED BY <2>1, <2>2
<1>6. IsCut(longer, i, j)
    BY <1>3, <1>4, <1>5 DEF IsCut
<1> QED BY <1>2, <1>6, FitsIsCut

\* A name or * takes one segment, and the rest must fit.
LEMMA SegmentFits ==
    ASSUME Given, NEW i \in 1..Len(pattern), NEW j \in 1..Len(path) + 1, pattern[i] # Many
    PROVE  Fits(i, j) <=> Takes(pattern[i], j) /\ Fits(i + 1, j + 1)
<1>1. ASSUME Fits(i, j) PROVE Takes(pattern[i], j) /\ Fits(i + 1, j + 1)
    BY <1>1, CutShrinks DEF IsPiece, Takes, Given
<1>2. ASSUME Takes(pattern[i], j), Fits(i + 1, j + 1) PROVE Fits(i, j)
  <2>1. j + 1 \in j..Len(path) + 1 /\ IsPiece(pattern[i], j, j + 1)
      BY <1>2 DEF IsPiece, Takes, Given
  <2> QED BY <2>1, <1>2, CutGrows
<1> QED BY <1>1, <1>2

\* ** takes nothing, or one segment and then what it takes.
LEMMA ManyFits ==
    ASSUME Given, NEW i \in 1..Len(pattern), NEW j \in 1..Len(path) + 1, pattern[i] = Many
    PROVE  Fits(i, j) <=> Fits(i + 1, j) \/ (j <= Len(path) /\ Fits(i, j + 1))
<1>1. ASSUME Fits(i, j), ~Fits(i + 1, j) PROVE j <= Len(path) /\ Fits(i, j + 1)
  <2>1. PICK next \in j..Len(path) + 1 : Fits(i + 1, next)
      BY <1>1, CutShrinks
  <2>2. next \in j + 1..Len(path) + 1 /\ j <= Len(path)
      BY <2>1, <1>1 DEF Given
  <2>3. j + 1 \in 1..Len(path) + 1 /\ IsPiece(pattern[i], j + 1, next)
      BY <2>2 DEF IsPiece, Given
  <2> QED BY <2>1, <2>2, <2>3, CutGrows
<1>2. ASSUME Fits(i + 1, j) PROVE Fits(i, j)
  <2>1. j \in j..Len(path) + 1 /\ IsPiece(pattern[i], j, j)
      BY DEF IsPiece, Given
  <2> QED BY <2>1, <1>2, CutGrows
<1>3. ASSUME j <= Len(path), Fits(i, j + 1) PROVE Fits(i, j)
  <2>1. PICK next \in j + 1..Len(path) + 1 : Fits(i + 1, next)
    <3>1. j + 1 \in 1..Len(path) + 1
        BY <1>3 DEF Given
    <3> QED BY <3>1, <1>3, CutShrinks
  <2>2. next \in j..Len(path) + 1 /\ IsPiece(pattern[i], j, next)
      BY DEF IsPiece, Given
  <2> QED BY <2>1, <2>2, CutGrows
<1> QED BY <1>1, <1>2, <1>3

-----------------------------------------------------------------------------
(* The invariant *)

\* The call that an open call waits for.
Callee(call) ==
    IF call.phase = "many" THEN <<call.at[1] + 1, call.at[2]>>
    ELSE IF pattern[call.at[1]] = Many THEN <<call.at[1], call.at[2] + 1>>
    ELSE <<call.at[1] + 1, call.at[2] + 1>>

\* A call that waits in "many" is on ** and may still let it grow; one that
\* waits in "last" has the answer of its callee for its own.
Waits(call) ==
    /\ call.at[1] <= Len(pattern)
    /\ call.phase = "many" => pattern[call.at[1]] = Many
    /\ call.phase = "last" =>
          IF pattern[call.at[1]] = Many
          THEN call.at[2] <= Len(path) /\ ~Fits(call.at[1] + 1, call.at[2])
          ELSE Takes(pattern[call.at[1]], call.at[2])

\* What TypeOK says, with lengths that are numbers.
Typed ==
    /\ Given
    /\ TypeOK
    /\ pc = "new" => memo = <<>>

Meant(at) == Fits(at[1], at[2])

\* The calls make a chain from the whole pattern; the innermost, if it waits,
\* has just got its answer.
Chained ==
    /\ \A k \in DOMAIN calls : calls[k].phase # "start" => Waits(calls[k])
    /\ \A k \in DOMAIN calls : k > 1 => calls[k].at = Callee(calls[k - 1])
    /\ calls # <<>> => calls[1].at = <<1, 1>>
    /\ calls # <<>> /\ Top.phase # "start" => answer = Meant(Callee(Top))

IInv == Typed /\ Chained /\ MatchesByMeaning /\ NothingIsWorkedOutTwice

-----------------------------------------------------------------------------

\* A meaning that is known stays what it is.
LEMMA MeaningStays ==
    ASSUME pattern' = pattern, path' = path
    PROVE  /\ \A i, j : Fits(i, j)' = Fits(i, j)
           /\ \A segment, index : Takes(segment, index)' = Takes(segment, index)
           /\ Position' = Position
           /\ Call' = Call
           /\ Given' = Given
BY DEF Fits, IsPiece, Takes, Position, Call, Given

LEMMA PositionsAdd ==
    ASSUME Given, NEW at \in Position
    PROVE  at[1] + at[2] \in Nat
BY DEF Position, Given

LEMMA CallsHavePositions ==
    ASSUME NEW call \in Call
    PROVE  call.at \in Position /\ call.phase \in {"start", "many", "last"}
BY DEF Call

LEMMA TopIsTyped ==
    ASSUME IInv, pc = "matching"
    PROVE  /\ Len(calls) \in Nat \ {0}
           /\ DOMAIN calls = 1..Len(calls)
           /\ \A k \in 1..Len(calls) : calls[k] \in Call
           /\ Top = calls[Len(calls)]
           /\ Top \in Call
           /\ Top.at = <<PatternIndex, PathIndex>>
           /\ PatternIndex \in 1..Len(pattern) + 1
           /\ PathIndex \in 1..Len(path) + 1
           /\ Given
<1>1. calls \in Seq(Call) /\ calls # <<>>
    BY DEF IInv, Typed, TypeOK
<1>2. /\ Len(calls) \in Nat \ {0} /\ DOMAIN calls = 1..Len(calls)
      /\ \A k \in 1..Len(calls) : calls[k] \in Call
    BY <1>1
<1>3. Top = calls[Len(calls)] /\ Top \in Call
    BY <1>2 DEF Top
<1>4. Top.at \in Position
    BY <1>3, CallsHavePositions
<1>5. /\ Top.at = <<PatternIndex, PathIndex>>
      /\ PatternIndex \in 1..Len(pattern) + 1
      /\ PathIndex \in 1..Len(path) + 1
    BY <1>4 DEF Position, PatternIndex, PathIndex
<1>6. Given
    BY DEF IInv, Typed
<1> QED BY <1>1, <1>2, <1>3, <1>5, <1>6

\* Open calls are on different positions.
Distinct == \A k, l \in DOMAIN calls : l # k => calls[l].at # calls[k].at

LEMMA CallsAreDistinct == Typed => Distinct
<1> SUFFICES ASSUME Typed, NEW k \in DOMAIN calls, NEW l \in DOMAIN calls, l # k,
                    calls[l].at = calls[k].at
             PROVE  FALSE
    BY DEF Distinct
<1>1. k \in 1..Len(calls) /\ l \in 1..Len(calls) /\ calls[k] \in Call /\ Len(calls) \in Nat
    BY DEF Typed, TypeOK
<1>2. calls[k].at[1] + calls[k].at[2] \in Nat
    BY <1>1, CallsHavePositions, PositionsAdd DEF Typed
<1>3. ~(k < l) /\ ~(l < k)
    BY <1>2 DEF Typed, TypeOK
<1> QED BY <1>1, <1>3

\* A call goes to wait for a new one.
LEMMA RecurseKeepsInvariant ==
    ASSUME IInv, pc = "matching", Fixed,
           NEW at \in Position, NEW phase \in {"many", "last"}, Recurse(at, phase),
           at[1] + at[2] > PatternIndex + PathIndex,
           Top.at \notin DOMAIN memo,
           LET waiting == [Top EXCEPT !.phase = phase]
           IN  Waits(waiting) /\ at = Callee(waiting)
    PROVE  IInv'
<1> DEFINE n == Len(calls)
           waiting == [Top EXCEPT !.phase = phase]
           new == [at |-> at, phase |-> "start"]
<1>0. /\ pattern' = pattern /\ path' = path /\ source' = source /\ memo' = memo
      /\ pc' = pc /\ answer' = answer
    BY DEF Fixed, Recurse
<1>1. n \in Nat \ {0} /\ calls \in Seq(Call) /\ Top = calls[n] /\ Top \in Call
    BY TopIsTyped DEF IInv, Typed, TypeOK, Top
<1>2. waiting \in Call /\ waiting.phase = phase /\ waiting.at = Top.at /\ new \in Call
    BY <1>1 DEF Call
<1>3. calls' = Append([calls EXCEPT ![n] = waiting], new)
    BY <1>1 DEF Recurse, Top
<1> HIDE DEF waiting, new
<1>4. /\ calls' \in Seq(Call) /\ Len(calls') = n + 1 /\ DOMAIN calls' = 1..n + 1
      /\ \A k \in 1..n - 1 : calls'[k] = calls[k]
      /\ calls'[n] = waiting /\ calls'[n + 1] = new
    BY <1>1, <1>2, <1>3
<1>5. Typed'
  <2>1. \A k, l \in DOMAIN calls' :
           k < l => /\ calls'[k].phase # "start"
                    /\ calls'[k].at[1] + calls'[k].at[2] < calls'[l].at[1] + calls'[l].at[2]
    <3>1. \A k \in 1..n : calls'[k].at = calls[k].at /\ calls'[k].phase # "start"
        BY <1>1, <1>2, <1>4 DEF IInv, Typed, TypeOK
    <3>2. calls'[n + 1].at = at
        BY <1>4 DEF new
    <3>3. \A k \in 1..n : calls[k].at[1] + calls[k].at[2] \in Nat
      <4> SUFFICES ASSUME NEW k \in 1..n PROVE calls[k].at[1] + calls[k].at[2] \in Nat
          OBVIOUS
      <4>1. calls[k] \in Call
          BY <1>1
      <4> QED BY <4>1, CallsHavePositions, PositionsAdd DEF IInv, Typed
    <3>4. at[1] + at[2] \in Nat
        BY PositionsAdd DEF IInv, Typed
    <3>5. \A k \in 1..n : calls[k].at[1] + calls[k].at[2] <= calls[n].at[1] + calls[n].at[2]
        BY <1>1, <3>3 DEF IInv, Typed, TypeOK
    <3>6. calls[n].at[1] + calls[n].at[2] < at[1] + at[2]
        BY <1>1 DEF PatternIndex, PathIndex
    <3>7. \A k, l \in 1..n :
             k < l => calls[k].at[1] + calls[k].at[2] < calls[l].at[1] + calls[l].at[2]
        BY <1>1 DEF IInv, Typed, TypeOK
    <3> QED
      <4> SUFFICES ASSUME NEW k \in 1..n + 1, NEW l \in 1..n + 1, k < l
                   PROVE  /\ calls'[k].phase # "start"
                          /\ calls'[k].at[1] + calls'[k].at[2]
                                < calls'[l].at[1] + calls'[l].at[2]
          BY <1>4
      <4>1. k \in 1..n /\ (l \in 1..n \/ l = n + 1)
          BY <1>1
      <4>2. CASE l = n + 1
          BY <4>1, <4>2, <3>1, <3>2, <3>3, <3>4, <3>5, <3>6, <1>1
      <4>3. CASE l \in 1..n
          BY <4>1, <4>3, <3>1, <3>7
      <4> QED BY <4>1, <4>2, <4>3
  <2>2. calls' # <<>>
      BY <1>1, <1>4
  <2> QED BY <2>1, <2>2, <1>0, <1>4, MeaningStays DEF IInv, Typed, TypeOK
<1>6. Chained'
  <2>1. \A k \in DOMAIN calls' : calls'[k].phase # "start" => Waits(calls'[k])
    <3>1. \A k \in 1..n - 1 : calls[k].phase # "start" => Waits(calls[k])
        BY <1>1 DEF IInv, Chained
    <3>2. Waits(waiting) /\ new.phase = "start"
        BY DEF waiting, new
    <3> QED BY <3>1, <3>2, <1>1, <1>4
  <2>2. \A k \in DOMAIN calls' : k > 1 => calls'[k].at = Callee(calls'[k - 1])
    <3>1. \A k \in 1..n : k > 1 => calls[k].at = Callee(calls[k - 1])
        BY <1>1 DEF IInv, Chained
    <3>2. new.at = Callee(waiting) /\ waiting.at = calls[n].at
        BY <1>1, <1>2 DEF waiting, new
    <3> SUFFICES ASSUME NEW k \in 1..n + 1, k > 1
                 PROVE  calls'[k].at = Callee(calls'[k - 1])
        BY <1>4
    <3>3. CASE k = n + 1
        BY <3>3, <3>2, <1>1, <1>4
    <3>4. CASE k \in 1..n
      <4>1. calls'[k].at = calls[k].at /\ calls'[k - 1] = calls[k - 1]
          BY <3>4, <3>2, <1>1, <1>4
      <4> QED BY <4>1, <3>1, <3>4
    <3> QED BY <3>3, <3>4, <1>1
  <2>3. calls'[1].at = <<1, 1>>
    <3>1. calls'[1].at = calls[1].at
        BY <1>1, <1>2, <1>4
    <3> QED BY <3>1, <1>1 DEF IInv, Chained
  <2>4. Top'.phase = "start"
      BY <1>1, <1>4 DEF Top, new
  <2>5. \A call : (Waits(call)' <=> Waits(call)) /\ Callee(call)' = Callee(call)
      BY <1>0, MeaningStays DEF Waits, Callee
  <2> QED BY <2>1, <2>2, <2>3, <2>4, <2>5 DEF Chained
<1>7. MatchesByMeaning'
    BY <1>0, MeaningStays DEF IInv, MatchesByMeaning
<1>8. NothingIsWorkedOutTwice'
  <2>1. \A k \in DOMAIN calls' : calls'[k].phase # "start" => calls'[k].at \notin DOMAIN memo
    <3> TAKE k \in DOMAIN calls'
    <3>1. CASE k = n + 1
        BY <3>1, <1>1, <1>4 DEF new
    <3>2. CASE k = n
        BY <3>2, <1>1, <1>2, <1>4
    <3>3. CASE k \in 1..n - 1
        BY <3>3, <1>1, <1>4 DEF IInv, NothingIsWorkedOutTwice
    <3> QED
        BY <3>1, <3>2, <3>3, <1>1, <1>4
  <2>2. Distinct'
      BY <1>5, CallsAreDistinct, PTL
  <2> QED BY <2>1, <2>2, <1>0 DEF NothingIsWorkedOutTwice, Distinct
<1> QED BY <1>5, <1>6, <1>7, <1>8 DEF IInv

\* A call returns what its position means, and the one that waits for it, if
\* any, goes on.
LEMMA ReturnKeepsInvariant ==
    ASSUME IInv, pc = "matching", Fixed, NEW value \in BOOLEAN, Return(value),
           value = Fits(PatternIndex, PathIndex),
           memo' = memo \/ Remember(value)
    PROVE  IInv'
<1> DEFINE n == Len(calls)
<1>0. /\ pattern' = pattern /\ path' = path /\ source' = source
      /\ answer' = value
      /\ pc' = IF n = 1 THEN "matched" ELSE "matching"
    BY DEF Fixed, Return
<1>1. /\ n \in Nat \ {0} /\ calls \in Seq(Call) /\ DOMAIN calls = 1..n
      /\ Top = calls[n] /\ Top \in Call /\ Top.at \in Position
    BY TopIsTyped, CallsHavePositions DEF IInv, Typed, TypeOK
<1>2. /\ calls' \in Seq(Call) /\ Len(calls') = n - 1 /\ DOMAIN calls' = 1..n - 1
      /\ \A k \in 1..n - 1 : calls'[k] = calls[k]
    BY <1>1 DEF Return
<1>3. /\ memo' \in [DOMAIN memo' -> BOOLEAN]
      /\ DOMAIN memo' \subseteq DOMAIN memo \cup {Top.at}
      /\ \A at \in DOMAIN memo' :
            (at \in DOMAIN memo /\ memo'[at] = memo[at]) \/ (at = Top.at /\ memo'[at] = value)
  <2>1. memo \in [DOMAIN memo -> BOOLEAN]
      BY DEF IInv, Typed, TypeOK
  <2>2. CASE memo' = memo
    <3>1. memo' \in [DOMAIN memo' -> BOOLEAN]
        BY <2>1, <2>2
    <3> QED BY <3>1, <2>2
  <2>3. CASE Remember(value)
    <3> DEFINE D == DOMAIN memo \cup {Top.at}
    <3>1. memo' = [at \in D |-> IF at = Top.at THEN value ELSE memo[at]]
        BY <2>3 DEF Remember
    <3> HIDE DEF D
    <3>2. DOMAIN memo' = D /\ \A at \in D : memo'[at] = IF at = Top.at THEN value ELSE memo[at]
        BY <3>1
    <3>3. \A at \in DOMAIN memo : memo[at] \in BOOLEAN
        BY <2>1
    <3>4. \A at \in D : (IF at = Top.at THEN value ELSE memo[at]) \in BOOLEAN
        BY <3>3 DEF D
    <3>5. memo' \in [D -> BOOLEAN]
        BY <3>1, <3>4
    <3> QED BY <3>2, <3>5 DEF D
  <2> QED BY <2>2, <2>3
<1>4. Typed'
  <2>1. pc' = "matching" <=> calls' # <<>>
      BY <1>0, <1>1, <1>2
  <2>2. \A k, l \in DOMAIN calls' :
           k < l => /\ calls'[k].phase # "start"
                    /\ calls'[k].at[1] + calls'[k].at[2] < calls'[l].at[1] + calls'[l].at[2]
      BY <1>1, <1>2 DEF IInv, Typed, TypeOK
  <2>3. DOMAIN memo' \subseteq Position'
      BY <1>0, <1>1, <1>3, MeaningStays DEF IInv, Typed, TypeOK
  <2>4. pc' # "new" /\ pc' \in {"new", "refused", "matching", "matched"}
      BY <1>0
  <2> QED BY <2>1, <2>2, <2>3, <2>4, <1>0, <1>2, <1>3, MeaningStays DEF IInv, Typed, TypeOK
<1>5. Chained'
  <2>1. \A k \in DOMAIN calls' : calls'[k].phase # "start" => Waits(calls'[k])
      BY <1>1, <1>2 DEF IInv, Chained
  <2>2. \A k \in DOMAIN calls' : k > 1 => calls'[k].at = Callee(calls'[k - 1])
    <3> SUFFICES ASSUME NEW k \in DOMAIN calls', k > 1
                 PROVE  calls'[k].at = Callee(calls'[k - 1])
        OBVIOUS
    <3>1. /\ k \in DOMAIN calls /\ k - 1 \in 1..n - 1
          /\ calls'[k] = calls[k] /\ calls'[k - 1] = calls[k - 1]
        BY <1>1, <1>2
    <3> QED
        BY <3>1 DEF IInv, Chained
  <2>3. calls' # <<>> => calls'[1].at = <<1, 1>>
      BY <1>1, <1>2 DEF IInv, Chained
  <2>4. ASSUME calls' # <<>> PROVE answer' = Meant(Callee(Top'))
    <3>1. n - 1 \in 1..n - 1 /\ Top' = calls[n - 1]
        BY <1>1, <1>2, <2>4 DEF Top
    <3>2. Top.at = Callee(calls[n - 1])
        BY <1>1, <3>1 DEF IInv, Chained
    <3>3. value = Meant(Top.at)
        BY DEF Meant, PatternIndex, PathIndex
    <3> QED BY <3>1, <3>2, <3>3, <1>0
  <2>5. /\ \A call : Waits(call)' = Waits(call)
        /\ \A call : Callee(call)' = Callee(call)
        /\ \A at : Meant(at)' = Meant(at)
      BY <1>0, MeaningStays DEF Waits, Callee, Meant
  <2> QED BY <2>1, <2>2, <2>3, <2>4, <2>5 DEF Chained
<1>6. MatchesByMeaning'
  <2>1. \A at \in DOMAIN memo' : memo'[at] = Fits(at[1], at[2])
    <3>1. \A at \in DOMAIN memo : memo[at] = Fits(at[1], at[2])
        BY DEF IInv, MatchesByMeaning
    <3>2. value = Fits(Top.at[1], Top.at[2])
        BY DEF PatternIndex, PathIndex
    <3> QED BY <3>1, <3>2, <1>3
  <2>2. n = 1 => value = Fits(1, 1)
    <3>1. n = 1 => Top.at = <<1, 1>>
        BY <1>1 DEF IInv, Chained
    <3> QED BY <3>1 DEF PatternIndex, PathIndex
  <2> QED BY <2>1, <2>2, <1>0, MeaningStays DEF MatchesByMeaning
<1>7. NothingIsWorkedOutTwice'
  <2>1. Distinct'
      BY <1>4, CallsAreDistinct, PTL
  <2>2. Distinct
      BY CallsAreDistinct DEF IInv
  <2>3. \A k \in DOMAIN calls' : calls'[k].phase # "start" => calls'[k].at \notin DOMAIN memo'
    <3>1. \A k \in 1..n - 1 : calls[k].at # Top.at
        BY <2>2, <1>1 DEF Distinct
    <3>2. \A k \in 1..n - 1 : calls[k].phase # "start" => calls[k].at \notin DOMAIN memo
        BY <1>1 DEF IInv, NothingIsWorkedOutTwice
    <3> QED BY <3>1, <3>2, <1>2, <1>3
  <2> QED BY <2>1, <2>3 DEF NothingIsWorkedOutTwice, Distinct
<1> QED BY <1>4, <1>5, <1>6, <1>7 DEF IInv

-----------------------------------------------------------------------------
(* The invariant is inductive *)

LEMMA InitEstablishesInvariant == Init => IInv
<1> SUFFICES ASSUME Init PROVE IInv
    OBVIOUS
<1>1. /\ pc = "new" /\ pattern = <<>> /\ calls = <<>> /\ answer = FALSE /\ memo = <<>>
      /\ source \in Sources /\ path \in Paths
    BY DEF Init
<1>2. Len(path) \in Nat
    BY <1>1, PathsAreSplit DEF PathsAreSplit
<1>3. Given
    BY <1>1, <1>2 DEF Given
<1>4. DOMAIN calls = {} /\ calls \in Seq(Call) /\ DOMAIN memo = {}
    BY <1>1
<1>5. memo \in [DOMAIN memo -> BOOLEAN]
    BY <1>1
<1> QED
    BY <1>1, <1>3, <1>4, <1>5
    DEF IInv, Typed, TypeOK, Chained, MatchesByMeaning, NothingIsWorkedOutTwice

LEMMA RefuseKeepsInvariant ==
    ASSUME IInv, Refuse
    PROVE  IInv'
<1>1. /\ pattern' = pattern /\ path' = path /\ source' = source /\ memo' = memo
      /\ calls' = calls /\ answer' = answer /\ pc' = "refused" /\ pc = "new"
    BY DEF Refuse
<1>2. calls = <<>>
    BY <1>1 DEF IInv, Typed, TypeOK
<1>3. DOMAIN calls = {}
    BY <1>2
<1> QED
    BY <1>1, <1>2, <1>3, MeaningStays
    DEF IInv, Typed, TypeOK, Chained, MatchesByMeaning, NothingIsWorkedOutTwice

\* The first call is on the whole of both.
LEMMA AcceptKeepsInvariant ==
    ASSUME IInv, Accept
    PROVE  IInv'
<1> DEFINE first == [at |-> <<1, 1>>, phase |-> "start"]
<1>1. /\ pattern' = source /\ path' = path /\ source' = source /\ memo' = memo
      /\ calls' = <<first>> /\ answer' = answer /\ pc' = "matching" /\ pc = "new"
    BY DEF Accept
<1>2. memo = <<>> /\ source \in Sources /\ path \in Paths /\ answer \in BOOLEAN
    BY <1>1 DEF IInv, Typed, TypeOK
<1>3. Len(source) \in Nat /\ Len(path) \in Nat
  <2> DEFINE Written == Name \cup {One, Many, "", "partial"}
  <2>1. source \in Seq(Written)
      BY <1>2, SourcesAreSplit DEF SourcesAreSplit
  <2> HIDE DEF Written
  <2>2. path \in Seq(Name)
      BY <1>2, PathsAreSplit DEF PathsAreSplit
  <2>3. Len(source) \in Nat
      BY <2>1
  <2> QED BY <2>2, <2>3
<1>4. Given' /\ <<1, 1>> \in Position'
    BY <1>1, <1>3 DEF Given, Position
<1>5. first \in Call'
    BY <1>4 DEF Call
<1>6. first.at = <<1, 1>> /\ first.phase = "start"
    OBVIOUS
<1> HIDE DEF first
<1>7. /\ calls' \in Seq(Call') /\ calls' # <<>> /\ DOMAIN calls' = {1} /\ calls'[1] = first
      /\ Len(calls') = 1
    BY <1>1, <1>5
<1>8. DOMAIN memo' = {} /\ memo' \in [DOMAIN memo' -> BOOLEAN]
    BY <1>1, <1>2
<1>9. Typed'
    BY <1>1, <1>2, <1>4, <1>7, <1>8 DEF Typed, TypeOK
<1>10. Chained'
    BY <1>6, <1>7 DEF Chained, Top
<1>11. MatchesByMeaning' /\ NothingIsWorkedOutTwice'
    BY <1>1, <1>6, <1>7, <1>8 DEF MatchesByMeaning, NothingIsWorkedOutTwice
<1> QED BY <1>9, <1>10, <1>11 DEF IInv

LEMMA RecallKeepsInvariant ==
    ASSUME IInv, Recall
    PROVE  IInv'
<1>1. pc = "matching" /\ Top.at \in DOMAIN memo /\ Return(memo[Top.at]) /\ memo' = memo /\ Fixed
    BY DEF Recall, Matching, Known
<1>2. memo[Top.at] \in BOOLEAN /\ memo[Top.at] = Fits(PatternIndex, PathIndex)
    BY <1>1 DEF IInv, Typed, TypeOK, MatchesByMeaning, PatternIndex, PathIndex
<1> QED BY <1>1, <1>2, ReturnKeepsInvariant

LEMMA AtEndKeepsInvariant ==
    ASSUME IInv, AtEnd
    PROVE  IInv'
<1> DEFINE value == PathIndex = Len(path) + 1
<1>1. pc = "matching" /\ PatternIndex > Len(pattern) /\ Return(value) /\ Remember(value) /\ Fixed
    BY DEF AtEnd, Matching
<1>2. PatternIndex = Len(pattern) + 1
    BY <1>1, TopIsTyped DEF Given
<1>3. value = Fits(PatternIndex, PathIndex)
  <2>1. Fits(PatternIndex, PathIndex) \in BOOLEAN
      BY DEF Fits
  <2> QED BY <2>1, <1>1, <1>2, TopIsTyped, EndFits
<1>4. value \in BOOLEAN
    OBVIOUS
<1> HIDE DEF value
<1> QED BY <1>1, <1>3, <1>4, ReturnKeepsInvariant

LEMMA TakeNothingKeepsInvariant ==
    ASSUME IInv, TakeNothing
    PROVE  IInv'
<1>1. /\ pc = "matching" /\ PatternIndex <= Len(pattern) /\ pattern[PatternIndex] # Many
      /\ ~Takes(pattern[PatternIndex], PathIndex) /\ Return(FALSE) /\ Remember(FALSE) /\ Fixed
    BY DEF TakeNothing, Matching
<1>2. PatternIndex \in 1..Len(pattern)
    BY <1>1, TopIsTyped DEF Given
<1>3. FALSE = Fits(PatternIndex, PathIndex)
  <2>1. Fits(PatternIndex, PathIndex) \in BOOLEAN
      BY DEF Fits
  <2> QED BY <2>1, <1>1, <1>2, TopIsTyped, SegmentFits
<1> QED BY <1>1, <1>3, ReturnKeepsInvariant

LEMMA TakeSegmentKeepsInvariant ==
    ASSUME IInv, TakeSegment
    PROVE  IInv'
<1> DEFINE at == <<PatternIndex + 1, PathIndex + 1>>
           waiting == [Top EXCEPT !.phase = "last"]
<1>1. /\ pc = "matching" /\ PatternIndex <= Len(pattern) /\ pattern[PatternIndex] # Many
      /\ Takes(pattern[PatternIndex], PathIndex) /\ Recurse(at, "last") /\ Fixed
      /\ Top.at \notin DOMAIN memo
    BY DEF TakeSegment, Matching, Known
<1>2. /\ PatternIndex \in 1..Len(pattern) /\ PathIndex \in 1..Len(path)
      /\ Top \in Call /\ Top.at = <<PatternIndex, PathIndex>> /\ Given
    BY <1>1, TopIsTyped DEF Given, Takes
<1>3. at \in Position /\ at[1] + at[2] > PatternIndex + PathIndex
    BY <1>2 DEF Position, Given
<1>4. waiting.at = <<PatternIndex, PathIndex>> /\ waiting.phase = "last"
    BY <1>2 DEF Call
<1>5. Waits(waiting) /\ at = Callee(waiting)
    BY <1>1, <1>2, <1>4 DEF Waits, Callee
<1> HIDE DEF at
<1> QED BY <1>1, <1>3, <1>5, RecurseKeepsInvariant

LEMMA EndManyKeepsInvariant ==
    ASSUME IInv, EndMany
    PROVE  IInv'
<1> DEFINE at == <<PatternIndex + 1, PathIndex>>
           waiting == [Top EXCEPT !.phase = "many"]
<1>1. /\ pc = "matching" /\ PatternIndex <= Len(pattern) /\ pattern[PatternIndex] = Many
      /\ Recurse(at, "many") /\ Fixed /\ Top.at \notin DOMAIN memo
    BY DEF EndMany, Matching, Known
<1>2. /\ PatternIndex \in 1..Len(pattern) /\ PathIndex \in 1..Len(path) + 1
      /\ Top \in Call /\ Top.at = <<PatternIndex, PathIndex>> /\ Given
    BY <1>1, TopIsTyped DEF Given
<1>3. at \in Position /\ at[1] + at[2] > PatternIndex + PathIndex
    BY <1>2 DEF Position, Given
<1>4. waiting.at = <<PatternIndex, PathIndex>> /\ waiting.phase = "many"
    BY <1>2 DEF Call
<1>5. Waits(waiting) /\ at = Callee(waiting)
    BY <1>1, <1>2, <1>4 DEF Waits, Callee
<1> HIDE DEF at
<1> QED BY <1>1, <1>3, <1>5, RecurseKeepsInvariant

\* A call on ** that waited knows that ** cannot end where it is, if the
\* answer was no.
LEMMA ManyHasItsAnswer ==
    ASSUME IInv, Matching("many")
    PROVE  /\ PatternIndex \in 1..Len(pattern) /\ pattern[PatternIndex] = Many
           /\ answer = Fits(PatternIndex + 1, PathIndex)
           /\ Top.at \notin DOMAIN memo
<1>1. pc = "matching" /\ Top.phase = "many" /\ calls # <<>>
    BY DEF Matching, IInv, Typed, TypeOK
<1>2. Waits(Top) /\ answer = Meant(Callee(Top)) /\ Top.at \notin DOMAIN memo
    BY <1>1, TopIsTyped DEF IInv, Chained, NothingIsWorkedOutTwice
<1>3. Callee(Top) = <<PatternIndex + 1, PathIndex>>
    BY <1>1, TopIsTyped DEF Callee, PatternIndex, PathIndex
<1> QED BY <1>1, <1>2, <1>3, TopIsTyped DEF Waits, Meant, PatternIndex, Given

LEMMA GrowManyKeepsInvariant ==
    ASSUME IInv, GrowMany
    PROVE  IInv'
<1> DEFINE at == <<PatternIndex, PathIndex + 1>>
           waiting == [Top EXCEPT !.phase = "last"]
<1>1. /\ pc = "matching" /\ Matching("many") /\ ~answer /\ PathIndex <= Len(path)
      /\ Recurse(at, "last") /\ Fixed
    BY DEF GrowMany, Matching
<1>2. /\ PatternIndex \in 1..Len(pattern) /\ PathIndex \in 1..Len(path)
      /\ Top \in Call /\ Top.at = <<PatternIndex, PathIndex>> /\ Given
      /\ pattern[PatternIndex] = Many /\ ~Fits(PatternIndex + 1, PathIndex)
      /\ Top.at \notin DOMAIN memo
    BY <1>1, TopIsTyped, ManyHasItsAnswer DEF Given
<1>3. at \in Position /\ at[1] + at[2] > PatternIndex + PathIndex
    BY <1>2 DEF Position, Given
<1>4. waiting.at = <<PatternIndex, PathIndex>> /\ waiting.phase = "last"
    BY <1>2 DEF Call
<1>5. Waits(waiting) /\ at = Callee(waiting)
    BY <1>1, <1>2, <1>4 DEF Waits, Callee
<1> HIDE DEF at
<1> QED BY <1>1, <1>2, <1>3, <1>5, RecurseKeepsInvariant

LEMMA PassOnKeepsInvariant ==
    ASSUME IInv, PassOn
    PROVE  IInv'
<1>1. pc = "matching" /\ Return(answer) /\ Remember(answer) /\ Fixed /\ answer \in BOOLEAN
    BY DEF PassOn, Matching, IInv, Typed, TypeOK
<1>2. Fits(PatternIndex, PathIndex) \in BOOLEAN
    BY DEF Fits
<1>3. CASE Matching("last")
  <2>1. Top.phase = "last" /\ calls # <<>>
      BY <1>3 DEF Matching, IInv, Typed, TypeOK
  <2>2. Waits(Top) /\ answer = Meant(Callee(Top))
      BY <1>1, <2>1, TopIsTyped DEF IInv, Chained
  <2>3. PatternIndex \in 1..Len(pattern)
      BY <1>1, <2>2, TopIsTyped DEF Waits, PatternIndex, Given
  <2>4. CASE pattern[PatternIndex] = Many
    <3>1. Callee(Top) = <<PatternIndex, PathIndex + 1>>
        BY <2>1, <2>4 DEF Callee, PatternIndex, PathIndex
    <3>2. PathIndex <= Len(path) /\ ~Fits(PatternIndex + 1, PathIndex)
        BY <2>1, <2>2, <2>4 DEF Waits, PatternIndex, PathIndex
    <3>3. answer = Fits(PatternIndex, PathIndex + 1)
        BY <2>2, <3>1 DEF Meant
    <3>4. answer = Fits(PatternIndex, PathIndex)
        BY <1>1, <1>2, <2>3, <2>4, <3>2, <3>3, TopIsTyped, ManyFits
    <3> QED BY <1>1, <3>4, ReturnKeepsInvariant
  <2>5. CASE pattern[PatternIndex] # Many
    <3>1. Callee(Top) = <<PatternIndex + 1, PathIndex + 1>>
        BY <2>1, <2>5 DEF Callee, PatternIndex, PathIndex
    <3>2. Takes(pattern[PatternIndex], PathIndex)
        BY <2>1, <2>2, <2>5 DEF Waits, PatternIndex, PathIndex
    <3>3. answer = Fits(PatternIndex + 1, PathIndex + 1)
        BY <2>2, <3>1 DEF Meant
    <3>4. answer = Fits(PatternIndex, PathIndex)
        BY <1>1, <1>2, <2>3, <2>5, <3>2, <3>3, TopIsTyped, SegmentFits
    <3> QED BY <1>1, <3>4, ReturnKeepsInvariant
  <2> QED BY <2>4, <2>5
<1>4. CASE Matching("many") /\ (answer \/ PathIndex > Len(path))
  <2>1. /\ PatternIndex \in 1..Len(pattern) /\ pattern[PatternIndex] = Many
        /\ answer = Fits(PatternIndex + 1, PathIndex)
      BY <1>4, ManyHasItsAnswer
  <2>2. answer \/ ~(PathIndex <= Len(path))
      BY <1>1, <1>4, TopIsTyped DEF Given
  <2>3. answer = Fits(PatternIndex, PathIndex)
      BY <1>1, <1>2, <2>1, <2>2, TopIsTyped, ManyFits
  <2> QED BY <1>1, <2>3, ReturnKeepsInvariant
<1> QED BY <1>3, <1>4 DEF PassOn

LEMMA NextKeepsInvariant == IInv /\ [Next]_vars => IInv'
<1> SUFFICES ASSUME IInv, [Next]_vars PROVE IInv'
    OBVIOUS
<1>1. CASE Refuse
    BY <1>1, RefuseKeepsInvariant
<1>2. CASE Accept
    BY <1>2, AcceptKeepsInvariant
<1>3. CASE Recall
    BY <1>3, RecallKeepsInvariant
<1>4. CASE AtEnd
    BY <1>4, AtEndKeepsInvariant
<1>5. CASE TakeNothing
    BY <1>5, TakeNothingKeepsInvariant
<1>6. CASE TakeSegment
    BY <1>6, TakeSegmentKeepsInvariant
<1>7. CASE EndMany
    BY <1>7, EndManyKeepsInvariant
<1>8. CASE GrowMany
    BY <1>8, GrowManyKeepsInvariant
<1>9. CASE PassOn
    BY <1>9, PassOnKeepsInvariant
<1>10. CASE UNCHANGED vars
  <2>1. /\ pattern' = pattern /\ path' = path /\ source' = source /\ memo' = memo
        /\ calls' = calls /\ answer' = answer /\ pc' = pc
      BY <1>10 DEF vars
  <2>2. Typed' = Typed
      BY <2>1, MeaningStays DEF Typed, TypeOK
  <2>3. Chained' = Chained
      BY <2>1, MeaningStays DEF Chained, Top, Waits, Meant, Callee
  <2>4. MatchesByMeaning' = MatchesByMeaning
      BY <2>1, MeaningStays DEF MatchesByMeaning
  <2>5. NothingIsWorkedOutTwice' = NothingIsWorkedOutTwice
      BY <2>1 DEF NothingIsWorkedOutTwice
  <2> QED BY <2>2, <2>3, <2>4, <2>5 DEF IInv
<1> QED
    BY <1>1, <1>2, <1>3, <1>4, <1>5, <1>6, <1>7, <1>8, <1>9, <1>10 DEF Next

\* The invariant holds throughout every match.
THEOREM Inductive == Spec => []IInv
BY InitEstablishesInvariant, NextKeepsInvariant, PTL DEF Spec

\* Every variable of the matcher has its type, and open calls go forward.
THEOREM TypesAreRight == Spec => []TypeOK
<1>1. IInv => TypeOK
    BY DEF IInv, Typed
<1> QED BY <1>1, Inductive, PTL

\* PathPattern::matches says of every path whether the pattern means it.
THEOREM MatcherIsRight == Spec => []MatchesByMeaning
<1>1. IInv => MatchesByMeaning
    BY DEF IInv
<1> QED BY <1>1, Inductive, PTL

\* matches_from gets past its memo at most once for each position.
THEOREM MemoBoundsTheWork == Spec => []NothingIsWorkedOutTwice
<1>1. IInv => NothingIsWorkedOutTwice
    BY DEF IInv
<1> QED BY <1>1, Inductive, PTL
=============================================================================
