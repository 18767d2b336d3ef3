------------------------------ MODULE MineWork ------------------------------
(* mine_work (goldatom/protocol.py): the search for local work over the two     *)
(* 32-bit counters of the work header, one attempt per step.  The parameters of *)
(* the call are variables that never change; the hashes of the work headers are *)
(* one of them, read as integers.                                               *)
EXTENDS Integers

CONSTANTS
  MaxCounter,    \* 0xFFFFFFFF in the code
  TargetLimit,   \* 1 << 256 in the code
  HashValues,    \* the integers a work hash is read as
  Targets,       \* the targets a caller may pass
  Limits         \* the values of max_attempts a caller may pass

NoLimit == -1

ASSUME MineWorkAssumption ==
  /\ MaxCounter \in Nat
  /\ TargetLimit \in Nat
  /\ HashValues \subseteq 0..(TargetLimit - 1)
  /\ Targets \subseteq Int
  /\ Limits \subseteq Nat \cup {NoLimit}

Counters == 0..MaxCounter

VARIABLES
  hash, target, start_extra_nonce, start_nonce, max_attempts,
  extra_nonce, nonce, attempts,
  outcome   \* "searching", "found", "limit", "exhausted" or "bad_target"

parameters == <<hash, target, start_extra_nonce, start_nonce, max_attempts>>
vars == <<parameters, extra_nonce, nonce, attempts, outcome>>

TypeOK ==
  /\ hash \in [Counters \X Counters -> HashValues]
  /\ target \in Targets
  /\ start_extra_nonce \in Counters
  /\ start_nonce \in Counters
  /\ max_attempts \in Limits
  /\ extra_nonce \in 0..(MaxCounter + 1)
  /\ nonce \in 0..(MaxCounter + 1)
  /\ attempts \in Nat
  /\ outcome \in {"searching", "found", "limit", "exhausted", "bad_target"}
-----------------------------------------------------------------------------
Init ==
  /\ hash \in [Counters \X Counters -> HashValues]
  /\ target \in Targets
  /\ start_extra_nonce \in Counters
  /\ start_nonce \in Counters
  /\ max_attempts \in Limits
  /\ extra_nonce = start_extra_nonce
  /\ nonce = start_nonce
  /\ attempts = 0
  /\ outcome = "searching"

\* The first statement of the call.
RejectTarget ==
  /\ outcome = "searching" /\ attempts = 0
  /\ ~(0 <= target /\ target < TargetLimit)
  /\ outcome' = "bad_target"
  /\ UNCHANGED <<parameters, extra_nonce, nonce, attempts>>

Searching ==
  /\ outcome = "searching"
  /\ 0 <= target /\ target < TargetLimit
  /\ extra_nonce <= MaxCounter

\* Mutant: a hash equal to the target does not count.
BelowTarget == hash[<<extra_nonce, nonce>>] < target

MeetsTarget == hash[<<extra_nonce, nonce>>] <= target

LimitReached == max_attempts # NoLimit /\ attempts + 1 >= max_attempts

\* Mutant: the limit is tested before the hash.
AttemptLimitFirst ==
  /\ Searching
  /\ nonce <= MaxCounter
  /\ attempts' = attempts + 1
  /\ \/ LimitReached /\ outcome' = "limit" /\ UNCHANGED nonce
     \/ ~LimitReached /\ MeetsTarget /\ outcome' = "found" /\ UNCHANGED nonce
     \/ ~LimitReached /\ ~MeetsTarget /\ nonce' = nonce + 1 /\ UNCHANGED outcome
  /\ UNCHANGED <<parameters, extra_nonce>>

Attempt ==
  /\ Searching
  /\ nonce <= MaxCounter
  /\ attempts' = attempts + 1
  /\ \/ MeetsTarget /\ outcome' = "found" /\ UNCHANGED nonce
     \/ ~MeetsTarget /\ LimitReached /\ outcome' = "limit" /\ UNCHANGED nonce
     \/ ~MeetsTarget /\ ~LimitReached /\ nonce' = nonce + 1 /\ UNCHANGED outcome
  /\ UNCHANGED <<parameters, extra_nonce>>

\* Mutant: the nonce of the next row starts at start_nonce again.
RestartRow ==
  /\ Searching
  /\ nonce > MaxCounter
  /\ extra_nonce' = extra_nonce + 1
  /\ nonce' = start_nonce
  /\ UNCHANGED <<parameters, attempts, outcome>>

NextRow ==
  /\ Searching
  /\ nonce > MaxCounter
  /\ extra_nonce' = extra_nonce + 1
  /\ nonce' = 0
  /\ UNCHANGED <<parameters, attempts, outcome>>

Exhaust ==
  /\ outcome = "searching"
  /\ 0 <= target /\ target < TargetLimit
  /\ extra_nonce > MaxCounter
  /\ outcome' = "exhausted"
  /\ UNCHANGED <<parameters, extra_nonce, nonce, attempts>>

Next == RejectTarget \/ Attempt \/ NextRow \/ Exhaust

Spec == Init /\ [][Next]_vars /\ WF_vars(Next)
-----------------------------------------------------------------------------
(* Properties *)

Before(p, q) == p[1] < q[1] \/ (p[1] = q[1] /\ p[2] < q[2])

Start == <<start_extra_nonce, start_nonce>>
Here == <<extra_nonce, nonce>>

\* Every pair of counters from the start up to the present one was tried and
\* failed, so the work found is the first in search order and an exhausted
\* search missed none.  Resuming a search relies on it.
NothingSkipped ==
  outcome \in {"searching", "found", "limit", "exhausted"} =>
    \A e, n \in Counters :
      ~Before(<<e, n>>, Start) /\ Before(<<e, n>>, Here) =>
        hash[<<e, n>>] > target

\* attempts counts each pair once: it is the distance between two positions of
\* the 64-bit counter that the two 32-bit counters form.
Position(p) == p[1] * (MaxCounter + 1) + p[2]

AttemptsCounted ==
  attempts = Position(Here) - Position(Start)
               + (IF outcome \in {"found", "limit"} THEN 1 ELSE 0)

Permitted == IF max_attempts = 0 THEN 1 ELSE max_attempts

\* The result meets the target with counters that fit their 32-bit fields.  A search
\* with a limit makes as many attempts as it permits, and one if it permits none, before
\* it gives up: never more, no fewer, and not on a hit, the last permitted one included
\* (protocol.py:162-166).
SoundResult ==
  /\ outcome = "found" => /\ extra_nonce \in Counters /\ nonce \in Counters
                          /\ hash[Here] <= target
  /\ max_attempts # NoLimit => attempts <= Permitted
  /\ outcome = "limit" => /\ max_attempts # NoLimit /\ attempts = Permitted
                          /\ hash[Here] > target

\* The search ends, and without a limit it finds work exactly if there is some at
\* or after the start.
Reachable == \E e, n \in Counters :
  ~Before(<<e, n>>, Start) /\ hash[<<e, n>>] <= target

SearchDecides ==
  /\ <>(outcome # "searching")
  /\ max_attempts = NoLimit /\ target \in 0..(TargetLimit - 1) /\ Reachable
       => <>(outcome = "found")
=============================================================================
