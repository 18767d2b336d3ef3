--------------------------- MODULE MineWorkProofs ---------------------------
(* mine_work for counters of any width, any target, start, limit and any hash   *)
(* function: its state is well formed, no counter pair is skipped or counted    *)
(* twice, and its result is sound.                                              *)
EXTENDS MineWork, TLAPS

\* The parameters of a call and the counters stay in range.
THEOREM TypeCorrect == Spec => []TypeOK
<1>1. Init => TypeOK
  BY MineWorkAssumption DEF Init, TypeOK, Counters
<1>2. TypeOK /\ [Next]_vars => TypeOK'
  <2> SUFFICES ASSUME TypeOK, [Next]_vars
               PROVE  TypeOK'
    OBVIOUS
  <2> USE MineWorkAssumption DEF TypeOK, Counters, parameters
  <2>1. CASE RejectTarget
    BY <2>1 DEF RejectTarget
  <2>2. CASE Attempt
    BY <2>2 DEF Attempt, Searching
  <2>3. CASE NextRow
    BY <2>3 DEF NextRow, Searching
  <2>4. CASE Exhaust
    BY <2>4 DEF Exhaust
  <2>5. CASE UNCHANGED vars
    BY <2>5 DEF vars
  <2> QED
    BY <2>1, <2>2, <2>3, <2>4, <2>5 DEF Next
<1> QED
  BY <1>1, <1>2, PTL DEF Spec

-----------------------------------------------------------------------------
(* Coverage of the search space *)

\* Every pair of counters between the start and the present one has failed.
Covered ==
  \A e, n \in Counters :
    ~Before(<<e, n>>, Start) /\ Before(<<e, n>>, Here) => hash[<<e, n>>] > target

\* While the search runs the present pair is not before the start.
NotBehind == ~Before(Here, Start)

CoverInv == Covered /\ NotBehind

\* A candidate's hash and the target are integers, so they can be compared.
LEMMA HashIsInt ==
  ASSUME TypeOK, NEW e \in Counters, NEW n \in Counters
  PROVE  hash[<<e, n>>] \in Int /\ target \in Int
<1>1. <<e, n>> \in Counters \X Counters
  OBVIOUS
<1>2. hash[<<e, n>>] \in HashValues
  BY <1>1 DEF TypeOK
<1>3. HashValues \subseteq Int
  BY MineWorkAssumption
<1> QED
  BY <1>2, <1>3, MineWorkAssumption DEF TypeOK

\* Every step of the loop of mine_work keeps the tried pairs failed ones.
LEMMA CoverStep == TypeOK /\ CoverInv /\ [Next]_vars => CoverInv'
<1> SUFFICES ASSUME TypeOK, CoverInv, [Next]_vars
             PROVE  CoverInv'
  OBVIOUS
<1> USE MineWorkAssumption DEF TypeOK, Counters, CoverInv, NotBehind, Covered,
                               Before, Start, Here, parameters
<1>1. CASE RejectTarget
  BY <1>1 DEF RejectTarget
<1>2. CASE Attempt
  <2>1. CASE MeetsTarget \/ LimitReached
    BY <1>2, <2>1 DEF Attempt, Searching
  <2>2. CASE ~MeetsTarget /\ ~LimitReached
    <3>1. /\ extra_nonce' = extra_nonce /\ nonce' = nonce + 1
          /\ UNCHANGED parameters
      BY <1>2, <2>2 DEF Attempt
    <3>2. extra_nonce \in Counters /\ nonce \in Counters
      BY <1>2 DEF Attempt, Searching
    <3>3. hash[<<extra_nonce, nonce>>] \in Int /\ target \in Int
      BY <3>2, HashIsInt
    <3>4. hash[<<extra_nonce, nonce>>] > target
      BY <2>2, <3>3 DEF MeetsTarget
    <3> QED
      BY <3>1, <3>2, <3>4
  <2> QED
    BY <2>1, <2>2
<1>3. CASE NextRow
  <2>1. /\ extra_nonce' = extra_nonce + 1 /\ nonce' = 0
        /\ nonce > MaxCounter
        /\ UNCHANGED parameters
    BY <1>3 DEF NextRow
  <2> QED
    BY <2>1
<1>4. CASE Exhaust
  BY <1>4 DEF Exhaust
<1>5. CASE UNCHANGED vars
  BY <1>5 DEF vars
<1> QED
  BY <1>1, <1>2, <1>3, <1>4, <1>5 DEF Next

\* The work found is the first one at or after the start, and a search that ends
\* without any has tried every pair (protocol.py:154-170).
THEOREM NoPairSkipped == Spec => []NothingSkipped
<1>1. Init => CoverInv
  BY MineWorkAssumption
     DEF Init, CoverInv, Covered, NotBehind, Before, Start, Here, Counters
<1>2. CoverInv => NothingSkipped
  BY DEF CoverInv, Covered, NothingSkipped
<1> QED
  BY <1>1, <1>2, CoverStep, TypeCorrect, PTL DEF Spec

-----------------------------------------------------------------------------
(* The count of attempts *)

\* Going on to the next extra nonce does not change the distance from the start.
LEMMA NextRowPosition ==
  ASSUME NEW e \in Nat, NEW w \in Nat
  PROVE  (e + 1) * (w + 1) + 0 = e * (w + 1) + (w + 1)
OBVIOUS

\* attempts is the distance from the start (protocol.py:151, 162-169).
THEOREM CountIsDistance == Spec => []AttemptsCounted
<1> USE DEF AttemptsCounted, Position, Start, Here
<1>1. Init => AttemptsCounted
  <2> SUFFICES ASSUME Init PROVE AttemptsCounted
    OBVIOUS
  <2> DEFINE p == start_extra_nonce * (MaxCounter + 1)
  <2>1. p \in Int
    BY MineWorkAssumption DEF Init, Counters
  <2> QED
    BY <2>1 DEF Init, Counters
<1>2. TypeOK /\ AttemptsCounted /\ [Next]_vars => AttemptsCounted'
  <2> SUFFICES ASSUME TypeOK, AttemptsCounted, [Next]_vars
               PROVE  AttemptsCounted'
    OBVIOUS
  <2> DEFINE here == extra_nonce * (MaxCounter + 1)
             start == start_extra_nonce * (MaxCounter + 1)
  <2>0. here \in Int /\ start \in Int /\ nonce \in Int /\ attempts \in Int
        /\ start_nonce \in Int
    BY MineWorkAssumption DEF TypeOK, Counters
  <2>1. CASE RejectTarget
    BY <2>1, <2>0 DEF RejectTarget, parameters
  <2>2. CASE Attempt
    <3>1. here' = here /\ start' = start
      BY <2>2 DEF Attempt, parameters
    <3>2. outcome = "searching" /\ attempts' = attempts + 1
          /\ UNCHANGED start_nonce
      BY <2>2 DEF Attempt, Searching, parameters
    <3>3. \/ nonce' = nonce /\ outcome' \in {"found", "limit"}
          \/ nonce' = nonce + 1 /\ outcome' = outcome
      BY <2>2 DEF Attempt
    <3>4. attempts = (here + nonce) - (start + start_nonce)
      BY <3>2, <2>0
    <3>5. attempts' = (here' + nonce') - (start' + start_nonce')
                        + (IF outcome' \in {"found", "limit"} THEN 1 ELSE 0)
      <4> HIDE DEF here, start
      <4> QED
        BY <3>1, <3>2, <3>3, <3>4, <2>0
    <3> QED
      BY <3>5
  <2>3. CASE NextRow
    <3>1. /\ extra_nonce' = extra_nonce + 1 /\ nonce' = 0
          /\ nonce = MaxCounter + 1
          /\ UNCHANGED <<start_extra_nonce, start_nonce, attempts, outcome>>
      BY <2>3, MineWorkAssumption DEF NextRow, TypeOK, parameters
    <3>2. here' + 0 = here + nonce
      BY <3>1, NextRowPosition, MineWorkAssumption DEF TypeOK
    <3>3. start' = start /\ start \in Int /\ here' \in Int
      BY <3>1, <2>0, MineWorkAssumption DEF TypeOK
    <3>4. (here' + nonce') - (start' + start_nonce')
            = (here + nonce) - (start + start_nonce)
      <4> HIDE DEF here, start
      <4> QED
        BY <3>1, <3>2, <3>3, <2>0
    <3> QED
      BY <3>1, <3>4
  <2>4. CASE Exhaust
    BY <2>4, <2>0 DEF Exhaust, parameters
  <2>5. CASE UNCHANGED vars
    BY <2>5 DEF vars, parameters
  <2> QED
    BY <2>1, <2>2, <2>3, <2>4, <2>5 DEF Next
<1> QED
  BY <1>1, <1>2, TypeCorrect, PTL DEF Spec

-----------------------------------------------------------------------------
(* The result *)

\* SoundResult is not inductive: while the search runs a limit is not reached.
BelowLimit ==
  outcome = "searching" /\ max_attempts # NoLimit =>
    attempts = 0 \/ attempts < max_attempts

ResultInv == SoundResult /\ BelowLimit

\* Every step of mine_work that ends it leaves a sound result.
LEMMA ResultStep == TypeOK /\ ResultInv /\ [Next]_vars => ResultInv'
<1> SUFFICES ASSUME TypeOK, ResultInv, [Next]_vars
             PROVE  ResultInv'
  OBVIOUS
<1> USE MineWorkAssumption DEF TypeOK, Counters, parameters, NoLimit, ResultInv,
                               SoundResult, BelowLimit, Permitted, Here
<1>1. CASE RejectTarget
  BY <1>1 DEF RejectTarget
<1>2. CASE Attempt
  <2>1. /\ extra_nonce \in Counters /\ nonce \in Counters
        /\ outcome = "searching" /\ attempts' = attempts + 1
        /\ UNCHANGED <<hash, target, max_attempts, extra_nonce>>
    BY <1>2 DEF Attempt, Searching
  <2>2. CASE MeetsTarget /\ outcome' = "found" /\ UNCHANGED nonce
    BY <2>1, <2>2 DEF MeetsTarget
  <2>3. CASE ~MeetsTarget /\ LimitReached /\ outcome' = "limit" /\ UNCHANGED nonce
    <3>1. hash[Here] > target
      BY <2>1, <2>3, HashIsInt DEF MeetsTarget
    <3> QED
      BY <2>1, <2>3, <3>1 DEF LimitReached
  <2>4. CASE ~MeetsTarget /\ ~LimitReached /\ UNCHANGED outcome
    BY <2>1, <2>4 DEF LimitReached
  <2> QED
    BY <1>2, <2>2, <2>3, <2>4 DEF Attempt
<1>3. CASE NextRow
  BY <1>3 DEF NextRow, Searching
<1>4. CASE Exhaust
  BY <1>4 DEF Exhaust
<1>5. CASE UNCHANGED vars
  BY <1>5 DEF vars
<1> QED
  BY <1>1, <1>2, <1>3, <1>4, <1>5 DEF Next

\* What mine_work returns meets the target with counters that fit their fields, and
\* a search gives up at its limit exactly, having missed (protocol.py:162-166).
THEOREM ResultIsSound == Spec => []SoundResult
<1>1. Init => ResultInv
  BY MineWorkAssumption DEF Init, ResultInv, SoundResult, BelowLimit, Permitted, NoLimit
<1>2. ResultInv => SoundResult
  BY DEF ResultInv
<1> QED
  BY <1>1, <1>2, ResultStep, TypeCorrect, PTL DEF Spec
-----------------------------------------------------------------------------
(* The search ends *)

\* Where the search can have ended: with each outcome for its reason.
EndInv ==
  /\ outcome = "bad_target" => ~(0 <= target /\ target < TargetLimit)
  /\ outcome = "limit"      => max_attempts # NoLimit
  /\ outcome = "exhausted"  => extra_nonce > MaxCounter

\* Every step of the loop of mine_work that ends it has its reason.
LEMMA EndStep == EndInv /\ [Next]_vars => EndInv'
<1> SUFFICES ASSUME EndInv, [Next]_vars PROVE EndInv'
  OBVIOUS
<1> USE DEF EndInv, parameters
<1>1. CASE RejectTarget
  BY <1>1 DEF RejectTarget
<1>2. CASE Attempt
  BY <1>2 DEF Attempt, Searching, LimitReached
<1>3. CASE NextRow
  BY <1>3 DEF NextRow, Searching
<1>4. CASE Exhaust
  BY <1>4 DEF Exhaust
<1>5. CASE UNCHANGED vars
  BY <1>5 DEF vars
<1> QED
  BY <1>1, <1>2, <1>3, <1>4, <1>5 DEF Next

\* If there is work at or after the start, a search with a valid target and no limit
\* ends with work or not at all (protocol.py:144-170).  It is the safety half of
\* SearchDecides.
THEOREM WorkIsNotMissed ==
  Spec => [](max_attempts = NoLimit /\ target \in 0..(TargetLimit - 1) /\ Reachable
               => outcome \in {"searching", "found"})
<1> DEFINE Decided == max_attempts = NoLimit /\ target \in 0..(TargetLimit - 1) /\ Reachable
                        => outcome \in {"searching", "found"}
<1>1. Init => EndInv
  BY DEF Init, EndInv
<1>2. TypeOK /\ EndInv /\ NothingSkipped => Decided
  <2> SUFFICES ASSUME TypeOK, EndInv, NothingSkipped, max_attempts = NoLimit,
                      target \in 0..(TargetLimit - 1), Reachable
               PROVE  outcome \in {"searching", "found"}
    OBVIOUS
  <2>1. outcome \notin {"bad_target", "limit"}
    BY MineWorkAssumption DEF EndInv
  <2>2. ASSUME outcome = "exhausted" PROVE FALSE
    <3>1. PICK e \in Counters, n \in Counters :
            ~Before(<<e, n>>, Start) /\ hash[<<e, n>>] <= target
      BY DEF Reachable
    <3>2. Before(<<e, n>>, Here)
      BY <2>2, MineWorkAssumption DEF EndInv, Before, Here, Counters, TypeOK
    <3>3. hash[<<e, n>>] > target
      BY <2>2, <3>1, <3>2 DEF NothingSkipped
    <3> QED
      BY <3>1, <3>3, HashIsInt
  <2> QED
    BY <2>1, <2>2 DEF TypeOK
<1> QED
  BY <1>1, <1>2, EndStep, NoPairSkipped, TypeCorrect, PTL DEF Spec

\* The steps that are left to a search: one for each pair of the rows to come, one
\* more for the end of each row, and the last.
StepsLeft ==
  IF outcome # "searching" THEN 0
  ELSE 1 + (MaxCounter + 1 - extra_nonce) * (MaxCounter + 2) + (MaxCounter + 1 - nonce)

\* The rows to come, less this one.
LEMMA OneRowLess ==
  ASSUME NEW rows \in Int, NEW w \in Nat
  PROVE  (rows - 1) * w = rows * w - w
OBVIOUS

\* Every step of mine_work takes one of the steps left.
LEMMA StepsRunOut ==
  ASSUME TypeOK, Next
  PROVE  StepsLeft \in Nat \ {0} /\ StepsLeft' \in Nat /\ StepsLeft' < StepsLeft
<1> DEFINE rows == MaxCounter + 1 - extra_nonce
           w == MaxCounter + 2
           pairs == rows * w
<1>1. /\ MaxCounter \in Nat /\ w \in Nat /\ rows \in Nat
      /\ MaxCounter + 1 - nonce \in Nat /\ nonce \in Int
  BY MineWorkAssumption DEF TypeOK
<1>2. pairs \in Nat
  BY <1>1
<1>3. outcome = "searching"
  BY DEF Next, RejectTarget, Attempt, NextRow, Exhaust, Searching
<1>4. StepsLeft = 1 + pairs + (MaxCounter + 1 - nonce)
  BY <1>3 DEF StepsLeft
<1>5. StepsLeft \in Nat \ {0}
  <2> HIDE DEF pairs
  <2> QED
    BY <1>1, <1>2, <1>4
<1>6. CASE outcome' # "searching"
  BY <1>5, <1>6 DEF StepsLeft
<1>7. CASE outcome' = "searching" /\ Attempt
  <2>1. nonce <= MaxCounter /\ nonce' = nonce + 1 /\ pairs' = pairs
    BY <1>7 DEF Attempt
  <2>2. StepsLeft' = 1 + pairs + (MaxCounter + 1 - (nonce + 1))
    BY <1>7, <2>1 DEF StepsLeft
  <2> HIDE DEF pairs
  <2> QED
    BY <1>1, <1>2, <1>4, <1>5, <2>1, <2>2
<1>8. CASE outcome' = "searching" /\ NextRow
  <2>1. /\ nonce = MaxCounter + 1 /\ nonce' = 0 /\ extra_nonce' = extra_nonce + 1
        /\ extra_nonce \in 0..MaxCounter
    BY <1>1, <1>8 DEF NextRow, Searching, TypeOK
  <2>2. rows' = rows - 1 /\ rows \in Nat \ {0}
    BY <1>1, <2>1
  <2>3. (rows - 1) * w \in Nat
    BY <1>1, <2>2
  <2>4. (rows - 1) * w = pairs - w
    BY <1>1, OneRowLess
  <2>5. StepsLeft' = 1 + (rows - 1) * w + (MaxCounter + 1 - 0)
    BY <1>8, <2>1, <2>2 DEF StepsLeft
  <2>6. StepsLeft' = 1 + (pairs - w) + (MaxCounter + 1) /\ pairs - w \in Nat
    BY <2>3, <2>4, <2>5, <1>1
  <2> HIDE DEF pairs
  <2>7. StepsLeft = 1 + pairs
    BY <1>1, <1>2, <1>4, <2>1
  <2> QED
    BY <1>1, <1>2, <1>5, <2>6, <2>7
<1> QED
  BY <1>3, <1>6, <1>7, <1>8 DEF Next, RejectTarget, Exhaust

\* No search goes on for ever: each step of mine_work takes one of the steps left,
\* which are never negative and at first no more than the counters allow, whatever
\* the hashes and the limit (protocol.py:152-170).  It is the other half of
\* SearchDecides but for the fairness.
THEOREM SearchRunsOut == Spec => [][StepsLeft' \in Nat /\ StepsLeft' < StepsLeft]_vars
<1>1. TypeOK /\ [Next]_vars => [StepsLeft' \in Nat /\ StepsLeft' < StepsLeft]_vars
  BY StepsRunOut
<1> QED
  BY <1>1, TypeCorrect, PTL DEF Spec
=============================================================================
