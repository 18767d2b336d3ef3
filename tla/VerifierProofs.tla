---------------------------- MODULE VerifierProofs ----------------------------
(* The verifier of a node that grows and reorganizes, for every set of          *)
(* transactions, bundles, profiles and chains: its state is well formed, and    *)
(* the burial it reports is depth on one branch.                                *)
EXTENDS Verifier, GenuineAtomProofs

\* The heights are numbers and the transitions a list, as models.py has checked.
Shaped(b) ==
  /\ {b.claim.height, b.work.challenge_height, b.mint.height} \subseteq Nat
  /\ Len(b.transfers) \in Nat

VerifierTypeOK ==
  /\ Shaped(bundle)
  /\ pc \in Pcs
  /\ stop \in Stops(bundle)
  /\ header \in [height : Nat, confirmations : Int, chainwork : Nat]
  /\ atHeight \in Nat
  /\ best \in Nat
  /\ verdict = "none" <=> pc # "done"
  /\ disturbed \subseteq Nat

TypeInv == NodeInv /\ VerifierTypeOK

\* No check fails with a code that stands for something else.
Named(checks) ==
  /\ checks \in Seq(Range(checks))
  /\ \A i \in DOMAIN checks : checks[i].code \notin {"none", "VALID", "UNCAUGHT"}

\* Two lists of named checks make one.
LEMMA NamedConcat ==
  ASSUME NEW s, NEW t, Named(s), Named(t)
  PROVE  Named(s \o t)
<1> DEFINE S == Range(s) \cup Range(t)
           u == s \o t
<1>1. s \in Seq(S) /\ t \in Seq(S)
  BY SeqMonotonic DEF Named
<1>2. /\ u \in Seq(S) /\ Len(u) = Len(s) + Len(t)
      /\ \A i \in 1..Len(s) : u[i] = s[i]
      /\ \A i \in 1..Len(t) : u[Len(s) + i] = t[i]
  BY <1>1, ConcatProperties
<1>3. /\ Len(s) \in Nat /\ DOMAIN s = 1..Len(s)
      /\ Len(t) \in Nat /\ DOMAIN t = 1..Len(t)
      /\ DOMAIN u = 1..Len(u)
  BY <1>1, <1>2, LenProperties
<1>4. \A i \in DOMAIN u : u[i].code \notin {"none", "VALID", "UNCAUGHT"}
  <2> SUFFICES ASSUME NEW i \in 1..(Len(s) + Len(t))
               PROVE  u[i].code \notin {"none", "VALID", "UNCAUGHT"}
    BY <1>2, <1>3
  <2>1. CASE i \in 1..Len(s)
    BY <2>1, <1>2, <1>3 DEF Named
  <2>2. CASE i \notin 1..Len(s)
    <3>1. i - Len(s) \in 1..Len(t) /\ u[i] = t[i - Len(s)]
      BY <2>2, <1>2, <1>3
    <3> QED
      BY <3>1, <1>3 DEF Named
  <2> QED
    BY <2>1, <2>2
<1>5. u \in Seq(Range(u))
  BY <1>2, SeqOfRange
<1> QED
  BY <1>4, <1>5 DEF Named

\* The checks of verify.py that do not depend on the stop.
LEMMA NamedLists ==
  ASSUME NEW b, NEW tx, NEW network, NEW k, NEW tip, NEW work
  PROVE  /\ Named(StartChecks(b, network))
         /\ Named(ClaimChecks(b, tx))
         /\ Named(ChallengeChecks(b))
         /\ Named(MintChecks(b, tx))
         /\ Named(TransferOrderChecks(b, k))
         /\ Named(TransferChecks(b, k, tx))
         /\ Named(CanonicalChecks(b, k))
         /\ Named(CoinChecks(b))
         /\ Named(TipChecks(b, tip, work))
<1>1. Named(StartChecks(b, network))
  BY DEF Named, Range, StartChecks, Check
<1>2. Named(ClaimChecks(b, tx))
  BY DEF Named, Range, ClaimChecks, Check
<1>3. Named(ChallengeChecks(b))
  BY DEF Named, Range, ChallengeChecks, Check
<1>4. Named(MintChecks(b, tx))
  BY DEF Named, Range, MintChecks, Check
<1>5. Named(TransferOrderChecks(b, k))
  BY DEF Named, Range, TransferOrderChecks, Check
<1>6. Named(TransferChecks(b, k, tx))
  BY DEF Named, Range, TransferChecks, Check
<1>7. Named(CanonicalChecks(b, k))
  BY DEF Named, Range, CanonicalChecks, Check
<1>8. Named(CoinChecks(b))
  BY DEF Named, Range, CoinChecks, Check
<1>9. Named(TipChecks(b, tip, work))
  BY DEF Named, Range, TipChecks, Check
<1> QED
  BY <1>1, <1>2, <1>3, <1>4, <1>5, <1>6, <1>7, <1>8, <1>9

\* The checks made at a stop.
LEMMA NamedStopChecks ==
  ASSUME NEW b, NEW k, NEW tx
  PROVE  Named(StopChecks(b, k, tx))
<1> DEFINE order == IF k >= Mint /\ k + 1 \in Stops(b)
                    THEN TransferOrderChecks(b, k + 1) ELSE <<>>
           first == CASE k = Claim     -> ClaimChecks(b, tx)
                      [] k = Challenge -> ChallengeChecks(b)
                      [] k = Mint      -> MintChecks(b, tx)
                      [] OTHER         -> TransferChecks(b, k, tx)
<1>1. Named(order)
  <2>1. Named(<<>>)
    BY DEF Named, Range
  <2> QED
    BY <2>1, NamedLists
<1>2. Named(first)
  BY NamedLists
<1> QED
  BY <1>1, <1>2, NamedConcat DEF StopChecks

\* A list of checks either lets verify_bundle go on or ends it with a code.
LEMMA DecideTypes ==
  ASSUME VerifierTypeOK, UNCHANGED bundle, pc # "done",
         NEW checks, Named(checks),
         NEW nextPc \in Pcs \ {"done"}, NEW nextStop \in Stops(bundle),
         Decide(checks, nextPc, nextStop)
  PROVE  pc' \in Pcs /\ stop' \in Stops(bundle') /\ (verdict' = "none" <=> pc' # "done")
<1>1. CASE Goto(nextPc, nextStop)
  BY <1>1 DEF Goto, VerifierTypeOK, Pcs
<1>2. CASE Fail(checks)
  BY <1>2 DEF Fail, Finish, Named, VerifierTypeOK, Pcs
<1> QED
  BY <1>1, <1>2 DEF Decide
-----------------------------------------------------------------------------
\* Every call of the verifier leaves its state well formed.
LEMMA CallTypes ==
  ASSUME TypeInv, Call
  PROVE  VerifierTypeOK'
<1>0. /\ UNCHANGED <<blocks, chain, mempool, bundle, disturbed>>
      /\ VerifierTypeOK /\ NodeInv
  BY DEF Call, TypeInv, nodeVars
<1> DEFINE Control == /\ pc' \in Pcs /\ stop' \in Stops(bundle')
                      /\ verdict' = "none" <=> pc' # "done"
           Registers == /\ header' \in [height : Nat, confirmations : Int,
                                        chainwork : Nat]
                        /\ atHeight' \in Nat /\ best' \in Nat
<1>1. {1, 2, 3} \subseteq Stops(bundle) /\ Stops(bundle) \subseteq Nat
  BY <1>0 DEF Shaped, VerifierTypeOK, Stops
<1>2. ASSUME NEW b \in BlockHashes
      PROVE  Header(b) \in [height : Nat, confirmations : Int, chainwork : Nat]
  <2>1. /\ Len(blocks[b].branch) \in Nat /\ Len(chain) \in Nat
        /\ blocks[b] \in Block
    BY <1>0, <1>2, ChainEnd DEF NodeInv, NodeTypeOK, BranchesEnd, BlockHashes
  <2> QED
    BY <2>1 DEF Header, Block
<1>3. BlockHashes \subseteq Nat
  BY <1>0 DEF NodeInv, NodeTypeOK, BlockHashes
<1>4. ASSUME UNCHANGED <<header, atHeight, best>>
      PROVE  Registers
  BY <1>0, <1>4 DEF VerifierTypeOK
<1>5. ASSUME NEW outcome, outcome # "none", Finish(outcome)
      PROVE  Control
  BY <1>0, <1>5 DEF Finish, VerifierTypeOK, Pcs
<1>6. ASSUME NEW nextPc \in Pcs \ {"done"}, NEW nextStop \in Stops(bundle),
             pc # "done", Goto(nextPc, nextStop)
      PROVE  Control
  BY <1>0, <1>6 DEF Goto, VerifierTypeOK
<1>7. CASE ReadNetwork
  <2>1. Control
    BY <1>0, <1>1, <1>7, DecideTypes, NamedLists DEF ReadNetwork, Claim, Pcs
  <2> QED
    BY <2>1, <1>0, <1>4, <1>7 DEF ReadNetwork, VerifierTypeOK
<1>8. CASE ReadHeader
  <2>1. Control
    BY <1>0, <1>5, <1>6, <1>8 DEF ReadHeader, VerifierTypeOK, Pcs
  <2>2. Registers
    BY <1>0, <1>2, <1>8 DEF ReadHeader, VerifierTypeOK
  <2> QED
    BY <2>1, <2>2, <1>0 DEF VerifierTypeOK
<1>9. CASE ReadHashAtHeight
  <2>1. Control
    BY <1>0, <1>5, <1>6, <1>9 DEF ReadHashAtHeight, VerifierTypeOK, Pcs
  <2>2. atHeight' \in Nat
    <3>1. chain \in Seq(BlockHashes)
      BY <1>0, ChainEnd
    <3>2. chain \in Seq(Nat)
      BY <1>3, <3>1, SeqMonotonic
    <3>3. \A h \in DOMAIN chain : chain[h] \in Nat
      BY <3>2
    <3> QED
      BY <1>0, <1>9, <3>3 DEF ReadHashAtHeight, VerifierTypeOK
  <2> QED
    BY <2>1, <2>2, <1>0, <1>9 DEF ReadHashAtHeight, VerifierTypeOK
<1>10. CASE ReadHeaderAtHeight
  <2>1. Control
    <3>1. Named(CanonicalChecks(bundle, stop))
          /\ Named(CanonicalChecks(bundle, stop) \o ChallengeChecks(bundle))
      BY NamedLists, NamedConcat
    <3> QED
      BY <1>0, <1>1, <1>10, <3>1, DecideTypes
         DEF ReadHeaderAtHeight, Mint, VerifierTypeOK, Pcs
  <2>2. Registers
    BY <1>0, <1>10 DEF ReadHeaderAtHeight, NoHeader, VerifierTypeOK
  <2> QED
    BY <2>1, <2>2, <1>0 DEF VerifierTypeOK
<1>11. CASE VerifyProof
  <2>1. \A ok : Named(<<Check("BAD_INCLUSION_PROOF", ok)>>)
    BY DEF Named, Range, Check
  <2>2. Control
    BY <1>0, <1>5, <1>11, <2>1, DecideTypes DEF VerifyProof, VerifierTypeOK, Pcs
  <2> QED
    BY <2>2, <1>0, <1>4, <1>11 DEF VerifyProof, VerifierTypeOK
<1>12. CASE CheckIncluded
  <2>1. \A ok : Named(<<Check("BAD_INCLUSION_PROOF", ok)>>)
    BY DEF Named, Range, Check
  <2>2. Control
    BY <1>0, <1>5, <1>12, <2>1, DecideTypes DEF CheckIncluded, VerifierTypeOK, Pcs
  <2> QED
    BY <2>2, <1>0, <1>4, <1>12 DEF CheckIncluded, VerifierTypeOK
<1>13. CASE FetchTransaction
  <2>1. \A ok : Named(<<Check("TRANSACTION_LOOKUP", ok)>>)
    BY DEF Named, Range, Check
  <2>2. Control
    BY <1>0, <1>13, <2>1, DecideTypes DEF FetchTransaction, VerifierTypeOK, Pcs
  <2> QED
    BY <2>2, <1>0, <1>4, <1>13 DEF FetchTransaction, VerifierTypeOK
<1>14. CASE PlaceTransaction
  <2>1. \A ok : Named(<<Check("TRANSACTION_MISMATCH", ok)>>)
    BY DEF Named, Range, Check
  <2>2. \A ok : Named(<<Check("TRANSACTION_MISMATCH", ok)>>
                     \o StopChecks(bundle, stop, Tx[StopTxid(bundle, stop)]))
    BY <2>1, NamedStopChecks, NamedConcat
  <2>3. Control
    BY <1>0, <1>14, <2>2, DecideTypes DEF PlaceTransaction, VerifierTypeOK, Pcs
  <2> QED
    BY <2>3, <1>0, <1>4, <1>14 DEF PlaceTransaction, VerifierTypeOK
<1>15. CASE ReadCoin
  <2>1. Control
    BY <1>0, <1>15, NamedLists, DecideTypes DEF ReadCoin, VerifierTypeOK, Pcs
  <2> QED
    BY <2>1, <1>0, <1>4, <1>15 DEF ReadCoin, VerifierTypeOK
<1>16. CASE ReadBestHash
  <2>1. Control
    BY <1>0, <1>6, <1>16 DEF ReadBestHash, VerifierTypeOK, Pcs
  <2>2. best' \in Nat
    BY <1>0, <1>3, <1>16, ChainEnd DEF ReadBestHash
  <2> QED
    BY <2>1, <2>2, <1>0, <1>16 DEF ReadBestHash, VerifierTypeOK
<1>17. CASE ReadTip
  <2>1. ASSUME NEW checks, Named(checks), Fail(checks)
        PROVE  Control
    BY <2>1, <1>5 DEF Fail, Named
  <2>2. Control
    BY <1>5, <1>17, <2>1, NamedLists DEF ReadTip
  <2> QED
    BY <2>2, <1>0, <1>4, <1>17 DEF ReadTip, VerifierTypeOK
<1>18. CASE RpcFails
  <2>1. Control
    BY <1>5, <1>18 DEF RpcFails
  <2> QED
    BY <2>1, <1>0, <1>4, <1>18 DEF RpcFails, VerifierTypeOK
<1> QED
  BY <1>7, <1>8, <1>9, <1>10, <1>11, <1>12, <1>13, <1>14, <1>15, <1>16, <1>17,
     <1>18 DEF Call

\* The invariant of the types: the verifier's and the node's together.
LEMMA TypesKept == TypeInv /\ [Next]_vars => TypeInv'
<1> SUFFICES ASSUME TypeInv, [Next]_vars PROVE TypeInv'
  OBVIOUS
<1>1. CASE Begin
  <2>1. UNCHANGED <<blocks, chain, mempool, bundle, header, atHeight, best>>
        /\ pc' = "network" /\ stop' = Claim /\ verdict' = verdict /\ disturbed' = {}
        /\ pc = "idle"
    BY <1>1 DEF Begin, Goto, nodeVars
  <2>2. NodeInv'
    BY <2>1 DEF TypeInv, NodeInv, NodeTypeOK, BranchesEnd, ChainIsBranch, BlockHashes
  <2>3. Claim \in Stops(bundle)
    BY DEF Shaped, TypeInv, VerifierTypeOK, Stops, Claim
  <2> QED
    BY <2>1, <2>2, <2>3 DEF TypeInv, VerifierTypeOK, Pcs
<1>2. CASE Call
  <2>1. NodeInv'
    BY <1>2 DEF Call, nodeVars, TypeInv, NodeInv, NodeTypeOK, BranchesEnd,
                ChainIsBranch, BlockHashes
  <2> QED
    BY <1>2, <2>1, CallTypes DEF TypeInv
<1>3. CASE ChainGrows
  BY <1>3, ExtendKeeps DEF ChainGrows, TypeInv, VerifierTypeOK, verifierVars
<1>4. CASE ChainReorganizes
  <2>1. NodeInv'
    BY <1>4, ReorganizeKeeps DEF ChainReorganizes, TypeInv
  <2>2. DOMAIN chain \subseteq Nat
    BY ChainEnd DEF TypeInv
  <2> QED
    BY <1>4, <2>1, <2>2 DEF ChainReorganizes, TypeInv, VerifierTypeOK, verifierVars
<1>5. CASE UNCHANGED vars
  BY <1>5 DEF vars, nodeVars, verifierVars, TypeInv, VerifierTypeOK, NodeInv,
              NodeTypeOK, BranchesEnd, ChainIsBranch, BlockHashes
<1> QED
  BY <1>1, <1>2, <1>3, <1>4, <1>5 DEF Next, Step

\* No call has been made yet.
LEMMA TypesStart == Init => TypeInv
<1> SUFFICES ASSUME Init PROVE TypeInv
  OBVIOUS
<1>1. NodeInv
  BY NodeStarts DEF Init
<1>2. Shaped(bundle)
  BY VerifierAssumption DEF Init, Shaped
<1>3. Claim \in Stops(bundle)
  BY <1>2 DEF Shaped, Stops, Claim
<1> QED
  BY <1>1, <1>2, <1>3 DEF Init, TypeInv, VerifierTypeOK, NoHeader, Pcs

\* Type correctness: in particular verify_bundle ends with a verdict and only then
\* has one, and never asks for a block the bundle does not name (verify.py:146-387).
THEOREM VerifierTypeCorrect == Spec => []TypeOK
<1>1. Init => bundle \in Bundles
  BY DEF Init
<1>2. bundle \in Bundles /\ [Next]_vars => (bundle \in Bundles)'
  BY DEF Next, Step, Begin, Call, ChainGrows, ChainReorganizes, vars
<1>3. TypeInv /\ bundle \in Bundles => TypeOK
  BY DEF TypeInv, TypeOK, VerifierTypeOK, NodeInv
<1> QED
  BY <1>1, <1>2, <1>3, TypesStart, TypesKept, PTL DEF Spec
-----------------------------------------------------------------------------
(* The calls run out *)

\* The challenge is not a transaction.
GoodStop == pc \in TransactionLookup => stop # Challenge

\* A verifier in order: the types, and no transaction looked up of the challenge.
TurnInv == TypeInv /\ GoodStop

\* The numbers that CallsLeft is computed from.
LEMMA TurnNumbers ==
  ASSUME TypeInv
  PROVE  /\ Len(bundle.transfers) \in Nat
         /\ stop \in 1..(3 + Len(bundle.transfers))
BY DEF TypeInv, VerifierTypeOK, Shaped, Stops

\* At a stop, what is left is the rest of the stop and what follows it.
LEMMA LeftAtStop ==
  ASSUME pc \in HeaderLookup \cup TransactionLookup
  PROVE  CallsLeft = CallsAtStop + 7 * (Mint + Len(bundle.transfers) - stop) + 3
                       - (IF stop <= Challenge THEN 4 ELSE 0)
<1>1. pc \notin {"idle", "network", "coin", "best", "tip", "done"}
  BY DEF HeaderLookup, TransactionLookup
<1> QED
  BY <1>1 DEF CallsLeft

\* The same of the next state.
LEMMA LeftAtNextStop ==
  ASSUME pc' \in HeaderLookup \cup TransactionLookup
  PROVE  CallsLeft' = CallsAtStop' + 7 * (Mint + Len(bundle'.transfers) - stop') + 3
                        - (IF stop' <= Challenge THEN 4 ELSE 0)
<1>1. pc' \notin {"idle", "network", "coin", "best", "tip", "done"}
  BY DEF HeaderLookup, TransactionLookup
<1> QED
  BY <1>1 DEF CallsLeft

\* Before the end there is a call to make.
LEMMA SomeLeft ==
  ASSUME TurnInv, pc # "done"
  PROVE  CallsLeft \in 1..(21 + 7 * Len(bundle.transfers))
<1> DEFINE n == Len(bundle.transfers)
<1>1. n \in Nat /\ stop \in 1..(3 + n)
  BY TurnNumbers DEF TurnInv
<1>2. CASE pc \in HeaderLookup \cup TransactionLookup
  <2>1. CallsAtStop \in 1..7
    BY <1>2 DEF CallsAtStop, HeaderLookup, TransactionLookup
  <2>2. CallsAtStop \in 5..7 \/ stop # 2
    BY <1>2 DEF CallsAtStop, TurnInv, GoodStop, HeaderLookup, Challenge
  <2>3. CallsLeft = CallsAtStop + 7 * (3 + n - stop) + 3 - (IF stop <= 2 THEN 4 ELSE 0)
    BY <1>2, LeftAtStop DEF Mint, Challenge
  <2>4. CallsLeft \in 1..(21 + 7 * n)
    <3> HIDE DEF n
    <3>1. CASE stop = 1
      BY <2>1, <2>3, <3>1, <1>1
    <3>2. CASE stop = 2
      BY <2>1, <2>2, <2>3, <3>2, <1>1
    <3>3. CASE stop > 2
      BY <2>1, <2>3, <3>3, <1>1
    <3> QED
      BY <1>1, <3>1, <3>2, <3>3
  <2> QED
    BY <2>4
<1>3. CASE pc \in {"idle", "network", "coin", "best", "tip"}
  BY <1>1, <1>3 DEF CallsLeft
<1> QED
  BY <1>2, <1>3 DEF TurnInv, TypeInv, VerifierTypeOK, Pcs, HeaderLookup,
                    TransactionLookup

\* A step of the verifier takes calls away and leaves the verifier in order.
Nearer == CallsLeft' < CallsLeft /\ GoodStop'

\* To end is to have no call left.
LEMMA FinishNearer ==
  ASSUME TurnInv, pc # "done", NEW outcome, Finish(outcome)
  PROVE  Nearer
<1>1. CallsLeft \in 1..(21 + 7 * Len(bundle.transfers))
  BY SomeLeft
<1>2. CallsLeft' = 0
  BY DEF CallsLeft, Finish
<1> QED
  BY <1>1, <1>2, TurnNumbers
     DEF Nearer, GoodStop, TransactionLookup, Finish, TurnInv

\* So a list of checks takes a call away if going on does.
LEMMA DecideNearer ==
  ASSUME TurnInv, pc # "done", NEW checks, NEW nextPc, NEW nextStop,
         Decide(checks, nextPc, nextStop),
         Goto(nextPc, nextStop) => Nearer
  PROVE  Nearer
BY FinishNearer DEF Decide, Fail

\* The next call of the same stop.
LEMMA SameStopNearer ==
  ASSUME TurnInv, UNCHANGED bundle, NEW nextPc \in HeaderLookup \cup TransactionLookup,
         pc \in HeaderLookup \cup TransactionLookup, Goto(nextPc, stop),
         CallsAtStop' < CallsAtStop, stop # Challenge \/ nextPc \in HeaderLookup
  PROVE  Nearer
<1> DEFINE n == Len(bundle.transfers)
<1>1. n \in Nat /\ stop \in 1..(3 + n)
  BY TurnNumbers DEF TurnInv
<1>2. /\ pc' = nextPc /\ stop' = stop /\ bundle' = bundle
  BY DEF Goto
<1>3. PICK c \in 0..7, d \in 0..7 :
        c = CallsAtStop /\ d = CallsAtStop' /\ d < c
  BY DEF CallsAtStop
<1>4. CallsLeft = c + 7 * (3 + n - stop) + 3 - (IF stop <= 2 THEN 4 ELSE 0)
  BY <1>3, LeftAtStop DEF Mint, Challenge
<1>5. CallsLeft' = d + 7 * (3 + n - stop) + 3 - (IF stop <= 2 THEN 4 ELSE 0)
  BY <1>2, <1>3, LeftAtNextStop DEF Mint, Challenge
<1>6. CallsLeft' < CallsLeft
  <2> DEFINE others == 7 * (3 + n - stop) + 3 - (IF stop <= 2 THEN 4 ELSE 0)
  <2>1. others \in Int
    BY <1>1
  <2>2. CallsLeft = c + others
    BY <1>1, <1>4
  <2>3. CallsLeft' = d + others
    BY <1>1, <1>5
  <2>4. c \in Int /\ d \in Int /\ d < c
    BY <1>3
  <2> HIDE DEF others
  <2> QED
    BY <2>1, <2>2, <2>3, <2>4, SMTT(30)
<1>7. GoodStop'
  BY <1>2 DEF GoodStop, TransactionLookup, HeaderLookup
<1> QED
  BY <1>6, <1>7 DEF Nearer

\* The first call of the next stop.
LEMMA NextStopNearer ==
  ASSUME TurnInv, UNCHANGED bundle, stop + 1 \in Stops(bundle), Goto("header", stop + 1),
         \/ pc = "place"
         \/ pc = "canonical" /\ stop = Challenge
  PROVE  Nearer
<1> DEFINE n == Len(bundle.transfers)
<1>1. n \in Nat /\ stop \in 1..(3 + n) /\ stop + 1 \in 1..(3 + n)
  BY TurnNumbers DEF TurnInv, Stops
<1>2. pc' = "header" /\ stop' = stop + 1 /\ bundle' = bundle
  BY DEF Goto
<1>3. CallsAtStop' = 7
  BY <1>2 DEF CallsAtStop
<1>4. /\ pc = "place" => CallsAtStop = 1 /\ stop # 2
      /\ pc = "canonical" => CallsAtStop = 5 /\ stop = 2
  BY DEF CallsAtStop, TurnInv, GoodStop, TransactionLookup, Challenge
<1>5. CallsLeft = CallsAtStop + 7 * (3 + n - stop) + 3 - (IF stop <= 2 THEN 4 ELSE 0)
  BY LeftAtStop DEF Mint, Challenge, HeaderLookup, TransactionLookup
<1>6. CallsLeft' = 7 + 7 * (3 + n - (stop + 1)) + 3 - (IF stop + 1 <= 2 THEN 4 ELSE 0)
  BY <1>2, <1>3, LeftAtNextStop DEF Mint, Challenge, HeaderLookup
<1>7. CallsLeft' < CallsLeft
  <2> HIDE DEF n
  <2>1. CASE pc = "place" /\ stop = 1
    BY <1>1, <1>4, <1>5, <1>6, <2>1
  <2>2. CASE pc = "place" /\ stop > 2
    BY <1>1, <1>4, <1>5, <1>6, <2>2
  <2>3. CASE pc = "canonical"
    BY <1>1, <1>4, <1>5, <1>6, <2>3
  <2> QED
    BY <1>1, <1>4, <2>1, <2>2, <2>3
<1>8. GoodStop'
  BY <1>2 DEF GoodStop, TransactionLookup
<1> QED
  BY <1>7, <1>8 DEF Nearer

\* The calls of the assay's own end, one after the other.
LEMMA EndNearer ==
  ASSUME TurnInv, UNCHANGED bundle, NEW nextPc, Goto(nextPc, stop),
         \/ pc = "place" /\ nextPc = "coin" /\ stop + 1 \notin Stops(bundle)
         \/ pc = "coin" /\ nextPc = "best"
         \/ pc = "best" /\ nextPc = "tip"
  PROVE  Nearer
<1> DEFINE n == Len(bundle.transfers)
<1>1. n \in Nat /\ stop \in 1..(3 + n)
  BY TurnNumbers DEF TurnInv
<1>2. pc' = nextPc
  BY DEF Goto
<1>3. CASE pc = "place"
  <2>1. stop + 1 \notin 1..(3 + n)
    BY <1>3 DEF Stops
  <2>2. stop = 3 + n /\ CallsAtStop = 1
    BY <1>1, <1>3, <2>1 DEF CallsAtStop
  <2>3. CallsLeft = CallsAtStop + 7 * (3 + n - stop) + 3 - (IF stop <= 2 THEN 4 ELSE 0)
    BY <1>3, LeftAtStop DEF Mint, Challenge, TransactionLookup
  <2>4. CallsLeft = 4
    <3> HIDE DEF n
    <3> QED
      BY <1>1, <2>2, <2>3
  <2>5. CallsLeft' = 3
    BY <1>2, <1>3 DEF CallsLeft
  <2> QED
    BY <1>2, <1>3, <2>4, <2>5 DEF Nearer, GoodStop, TransactionLookup
<1>4. CASE pc \in {"coin", "best"}
  BY <1>2, <1>4 DEF CallsLeft, Nearer, GoodStop, TransactionLookup
<1> QED
  BY <1>3, <1>4

\* Every call.
LEMMA CallNearer ==
  ASSUME TurnInv, Call
  PROVE  Nearer
<1>0. UNCHANGED bundle /\ stop \in Stops(bundle) /\ Stops(bundle) \subseteq Nat
      /\ stop \in Nat
  BY DEF Call, TurnInv, TypeInv, VerifierTypeOK, Shaped, Stops
<1>1. CASE ReadNetwork
  <2>1. ASSUME Goto("header", Claim) PROVE Nearer
    <3> DEFINE n == Len(bundle.transfers)
    <3>1. n \in Nat
      BY TurnNumbers DEF TurnInv
    <3>2. CallsAtStop' = 7 /\ pc' = "header" /\ stop' = 1 /\ bundle' = bundle
      BY <1>0, <2>1 DEF Goto, CallsAtStop, Claim
    <3>3. CallsLeft' = 7 + 7 * (3 + n - 1) + 3 - 4
      BY <3>2, LeftAtNextStop DEF Mint, Challenge, HeaderLookup
    <3>4. CallsLeft = 21 + 7 * n
      BY <1>1 DEF ReadNetwork, CallsLeft
    <3>5. CallsLeft' < CallsLeft
      <4> HIDE DEF n
      <4> QED
        BY <3>1, <3>3, <3>4
    <3> QED
      BY <3>2, <3>5 DEF Nearer, GoodStop, TransactionLookup
  <2> QED
    BY <1>1, <2>1, DecideNearer DEF ReadNetwork
<1>2. CASE ReadHeader
  <2>1. ASSUME Goto("height", stop) PROVE Nearer
    <3>1. pc = "header" /\ pc' = "height"
      BY <1>2, <2>1 DEF ReadHeader, Goto
    <3>2. CallsAtStop' < CallsAtStop
      BY <3>1 DEF CallsAtStop
    <3> QED
      BY <1>0, <2>1, <3>1, <3>2, SameStopNearer DEF HeaderLookup
  <2> QED
    BY <1>2, <2>1, FinishNearer DEF ReadHeader
<1>3. CASE ReadHashAtHeight
  <2>1. ASSUME Goto("canonical", stop) PROVE Nearer
    <3>1. pc = "height" /\ pc' = "canonical"
      BY <1>3, <2>1 DEF ReadHashAtHeight, Goto
    <3>2. CallsAtStop' < CallsAtStop
      BY <3>1 DEF CallsAtStop
    <3> QED
      BY <1>0, <2>1, <3>1, <3>2, SameStopNearer DEF HeaderLookup
  <2> QED
    BY <1>3, <2>1, FinishNearer DEF ReadHashAtHeight
<1>4. CASE ReadHeaderAtHeight
  <2>1. ASSUME stop # Challenge, Goto("proof", stop) PROVE Nearer
    <3>1. pc = "canonical" /\ pc' = "proof"
      BY <1>4, <2>1 DEF ReadHeaderAtHeight, Goto
    <3>2. CallsAtStop' < CallsAtStop
      BY <3>1 DEF CallsAtStop
    <3> QED
      BY <1>0, <2>1, <3>1, <3>2, SameStopNearer DEF HeaderLookup, TransactionLookup
  <2>2. ASSUME stop = Challenge, Goto("header", Mint) PROVE Nearer
    <3>1. Mint = stop + 1 /\ Mint \in Stops(bundle)
      BY <2>2, TurnNumbers DEF Mint, Challenge, Stops, TurnInv
    <3> QED
      BY <1>0, <1>4, <2>2, <3>1, NextStopNearer DEF ReadHeaderAtHeight
  <2> QED
    BY <1>4, <2>1, <2>2, DecideNearer DEF ReadHeaderAtHeight
<1>5. ASSUME pc \in TransactionLookup, NEW nextPc \in TransactionLookup,
             Goto(nextPc, stop), CallsAtStop' < CallsAtStop
      PROVE  Nearer
  BY <1>0, <1>5, SameStopNearer DEF TurnInv, GoodStop
<1>6. CASE VerifyProof
  <2>1. ASSUME Goto("included", stop) PROVE Nearer
    BY <1>5, <1>6, <2>1 DEF VerifyProof, Goto, CallsAtStop, TransactionLookup
  <2> QED
    BY <1>6, <2>1, DecideNearer, FinishNearer DEF VerifyProof
<1>7. CASE CheckIncluded
  <2>1. ASSUME Goto("fetch", stop) PROVE Nearer
    BY <1>5, <1>7, <2>1 DEF CheckIncluded, Goto, CallsAtStop, TransactionLookup
  <2> QED
    BY <1>7, <2>1, DecideNearer, FinishNearer DEF CheckIncluded
<1>8. CASE FetchTransaction
  <2>1. ASSUME Goto("place", stop) PROVE Nearer
    BY <1>5, <1>8, <2>1 DEF FetchTransaction, Goto, CallsAtStop, TransactionLookup
  <2> QED
    BY <1>8, <2>1, DecideNearer DEF FetchTransaction
<1>9. CASE PlaceTransaction
  <2>1. ASSUME stop + 1 \in Stops(bundle), Goto("header", stop + 1) PROVE Nearer
    BY <1>0, <1>9, <2>1, NextStopNearer DEF PlaceTransaction
  <2>2. ASSUME stop + 1 \notin Stops(bundle), Goto("coin", stop) PROVE Nearer
    BY <1>0, <1>9, <2>2, EndNearer DEF PlaceTransaction
  <2> QED
    BY <1>9, <2>1, <2>2, DecideNearer DEF PlaceTransaction
<1>10. CASE ReadCoin
  <2>1. ASSUME Goto("best", stop) PROVE Nearer
    BY <1>0, <1>10, <2>1, EndNearer DEF ReadCoin
  <2> QED
    BY <1>10, <2>1, DecideNearer DEF ReadCoin
<1>11. CASE ReadBestHash
  BY <1>0, <1>11, EndNearer DEF ReadBestHash
<1>12. CASE ReadTip
  BY <1>12, FinishNearer DEF ReadTip, Fail
<1>13. CASE RpcFails
  BY <1>13, FinishNearer DEF RpcFails, HeaderLookup, TransactionLookup
<1> QED
  BY <1>1, <1>2, <1>3, <1>4, <1>6, <1>7, <1>8, <1>9, <1>10, <1>11, <1>12, <1>13
     DEF Call

\* A state that keeps the place keeps the calls left.
LEMMA SameLeft ==
  ASSUME UNCHANGED <<pc, stop, bundle>>
  PROVE  CallsLeft' = CallsLeft /\ (GoodStop => GoodStop')
BY DEF CallsLeft, CallsAtStop, GoodStop

\* Whatever happens, the calls run out.
LEMMA TurnKept ==
  ASSUME TurnInv, [Next]_vars
  PROVE  /\ TurnInv'
         /\ Call \/ CallsLeft' = CallsLeft
<1>1. CASE Begin
  <2>1. CallsLeft' = CallsLeft
    BY <1>1 DEF Begin, Goto, CallsLeft
  <2>2. GoodStop'
    BY <1>1 DEF Begin, Goto, GoodStop, TransactionLookup
  <2> QED
    BY <2>1, <2>2, TypesKept DEF TurnInv
<1>2. CASE Call
  BY <1>2, CallNearer, TypesKept DEF TurnInv, Nearer
<1>3. CASE UNCHANGED <<pc, stop, bundle>>
  BY <1>3, SameLeft, TypesKept DEF TurnInv
<1> QED
  BY <1>1, <1>2, <1>3 DEF Next, Step, ChainGrows, ChainReorganizes, vars, verifierVars

\* verify_bundle makes at most seven calls for each transaction of the bundle, three
\* for its challenge and four of its own, and each call it makes brings it nearer to
\* its verdict whatever the node answers and the chain does in between
\* (verify.py:146-387).  It is the safety half of its termination.
THEOREM VerifierCallsRunOut == Spec => CallsRunOut
<1>1. Init => TurnInv
  BY TypesStart DEF Init, TurnInv, GoodStop, TransactionLookup
<1>2. TurnInv /\ [Next]_vars => TurnInv'
  BY TurnKept
<1>3. TurnInv /\ [Next]_vars
        => [IF Call THEN CallsLeft' < CallsLeft ELSE CallsLeft' = CallsLeft]_vars
  BY TurnKept, CallNearer DEF Nearer
<1> QED
  BY <1>1, <1>2, <1>3, PTL DEF Spec, CallsRunOut
-----------------------------------------------------------------------------
(* Burial *)

\* The mint block has been found canonical.
MintSettled ==
  \/ pc \in TransactionLookup /\ stop >= Mint
  \/ pc \in HeaderLookup /\ stop > Mint
  \/ pc \in {"coin", "best", "tip"}
  \/ verdict = "VALID"

MintOn(c) ==
  bundle.mint.height \in DOMAIN c /\ c[bundle.mint.height] = bundle.mint.block

\* What was found stays true of the chain while nobody disconnects the block.
MintPlaced ==
  bundle.mint.height \notin disturbed =>
    /\ pc = "canonical" /\ stop = Mint =>
         /\ bundle.mint.height \in DOMAIN chain
         /\ chain[bundle.mint.height] = atHeight
    /\ MintSettled => MintOn(chain)
    /\ pc = "tip" \/ verdict = "VALID" => MintOn(blocks[best].branch)

BestKnown == pc = "tip" \/ verdict = "VALID" => best \in BlockHashes

DeepEnough ==
  verdict = "VALID" /\ bundle.mint.height \notin disturbed =>
    /\ Len(blocks[best].branch) - bundle.mint.height
         >= Profiles[bundle.profile].minimum_burial_blocks
    /\ blocks[best].chainwork - blocks[bundle.mint.block].chainwork
         >= Profiles[bundle.profile].minimum_burial_chainwork

ProfileKnown ==
  pc \in {"idle", "network"} \/ verdict \notin {"none", "VALID"}
    \/ bundle.profile \in DOMAIN Profiles

BurialInv == MintPlaced /\ BestKnown /\ DeepEnough /\ ProfileKnown

\* An assay that ends without a report claims nothing.
LEMMA FinishBurial ==
  ASSUME NEW outcome, outcome \notin {"none", "VALID"}, Finish(outcome)
  PROVE  BurialInv'
BY DEF Finish, BurialInv, MintPlaced, MintSettled, BestKnown, DeepEnough, ProfileKnown,
       TransactionLookup, HeaderLookup

\* Going on keeps what was found, if the verifier goes no further than that.
LEMMA GotoBurial ==
  ASSUME TypeInv, BurialInv, UNCHANGED <<nodeVars, bundle, disturbed>>, pc # "done",
         NEW nextPc \in Pcs \ {"idle", "network", "canonical", "tip", "done"},
         NEW nextStop, Goto(nextPc, nextStop),
         MintSettled' => MintSettled,
         bundle.profile \in DOMAIN Profiles
  PROVE  BurialInv'
<1>1. /\ pc' = nextPc /\ verdict' = "none"
      /\ blocks' = blocks /\ chain' = chain /\ bundle' = bundle /\ disturbed' = disturbed
  BY DEF Goto, TypeInv, VerifierTypeOK, nodeVars
<1>2. MintPlaced'
  BY <1>1 DEF BurialInv, MintPlaced, MintOn
<1> QED
  BY <1>1, <1>2 DEF BurialInv, BestKnown, DeepEnough, ProfileKnown

\* The same for a list of checks.
LEMMA DecideBurial ==
  ASSUME TypeInv, BurialInv, UNCHANGED <<nodeVars, bundle, disturbed>>, pc # "done",
         NEW checks, Named(checks),
         NEW nextPc \in Pcs \ {"idle", "network", "canonical", "tip", "done"},
         NEW nextStop, Decide(checks, nextPc, nextStop),
         Goto(nextPc, nextStop) /\ Passes(checks) /\ MintSettled' => MintSettled,
         Passes(checks) => bundle.profile \in DOMAIN Profiles
  PROVE  BurialInv'
<1>1. CASE Passes(checks) /\ Goto(nextPc, nextStop)
  BY <1>1, GotoBurial
<1>2. CASE Fail(checks)
  BY <1>2, FinishBurial DEF Fail, Named
<1> QED
  BY <1>1, <1>2 DEF Decide

\* The mint stop's hash was read from the chain, so it is on it (verify.py:43-52).
LEMMA CanonicalBurial ==
  ASSUME TypeInv, BurialInv, Call, ReadHeaderAtHeight
  PROVE  BurialInv'
<1> UNCHANGED <<nodeVars, bundle, disturbed>>
  BY DEF Call
<1>0. /\ pc = "canonical" /\ verdict = "none" /\ bundle.profile \in DOMAIN Profiles
      /\ stop \in Nat
  BY DEF Shaped, ReadHeaderAtHeight, TypeInv, VerifierTypeOK, BurialInv, ProfileKnown, Stops
<1>1. CASE stop = Challenge
  <2>1. Named(CanonicalChecks(bundle, stop) \o ChallengeChecks(bundle))
    BY NamedLists, NamedConcat
  <2>2. Decide(CanonicalChecks(bundle, stop) \o ChallengeChecks(bundle), "header", Mint)
    BY <1>1 DEF ReadHeaderAtHeight
  <2>3. ASSUME Goto("header", Mint) PROVE ~MintSettled'
    BY <2>3, <1>0 DEF Goto, MintSettled, Mint, TransactionLookup, HeaderLookup
  <2>4. "header" \in Pcs \ {"idle", "network", "canonical", "tip", "done"}
    BY DEF Pcs
  <2>5. pc # "done"
    BY <1>0
  <2> QED
    BY <1>0, <2>1, <2>2, <2>3, <2>4, <2>5, DecideBurial
<1>2. CASE stop # Challenge
  <2>1. Decide(CanonicalChecks(bundle, stop), "proof", stop)
    BY <1>2 DEF ReadHeaderAtHeight
  <2>2. CASE Fail(CanonicalChecks(bundle, stop))
    BY <2>2, NamedLists, FinishBurial DEF Fail, Named
  <2>3. CASE Passes(CanonicalChecks(bundle, stop)) /\ Goto("proof", stop)
    <3>1. /\ pc' = "proof" /\ verdict' = "none" /\ stop' = stop
          /\ blocks' = blocks /\ chain' = chain /\ bundle' = bundle
          /\ disturbed' = disturbed
      BY <2>3, <1>0 DEF Goto, nodeVars
    <3>2. atHeight = StopBlock(bundle, stop)
      <4>1. CanonicalChecks(bundle, stop)[3].ok
        BY <2>3 DEF Passes, CanonicalChecks
      <4> QED
        BY <4>1 DEF CanonicalChecks, Check
    <3>3. ASSUME stop = Mint, bundle.mint.height \notin disturbed
          PROVE  MintOn(chain)
      <4>1. StopBlock(bundle, Mint) = bundle.mint.block
        BY DEF StopBlock, Mint, Claim, Challenge
      <4> QED
        BY <1>0, <3>2, <3>3, <4>1 DEF BurialInv, MintPlaced, MintOn
    <3>4. ASSUME stop > Mint, bundle.mint.height \notin disturbed
          PROVE  MintOn(chain)
      BY <1>0, <3>4 DEF BurialInv, MintPlaced, MintSettled, HeaderLookup
    <3>5. MintPlaced'
      BY <1>0, <3>1, <3>3, <3>4
         DEF MintPlaced, MintSettled, MintOn, TransactionLookup, HeaderLookup, Mint
    <3> QED
      BY <3>1, <3>5, <1>0 DEF BurialInv, BestKnown, DeepEnough, ProfileKnown
  <2> QED
    BY <2>1, <2>2, <2>3 DEF Decide
<1> QED
  BY <1>1, <1>2

\* The tip's branch is the active chain of the moment getbestblockhash answers.
LEMMA BestBurial ==
  ASSUME TypeInv, BurialInv, Call, ReadBestHash
  PROVE  BurialInv'
<1> UNCHANGED <<nodeVars, bundle, disturbed>>
  BY DEF Call
<1>1. /\ pc = "best" /\ verdict = "none" /\ bundle.profile \in DOMAIN Profiles
  BY DEF ReadBestHash, TypeInv, VerifierTypeOK, BurialInv, ProfileKnown
<1>2. /\ pc' = "tip" /\ verdict' = "none" /\ best' = chain[Len(chain)]
      /\ blocks' = blocks /\ chain' = chain /\ bundle' = bundle
      /\ disturbed' = disturbed
  BY <1>1 DEF ReadBestHash, Goto, nodeVars
<1>3. best' \in BlockHashes /\ blocks[best'].branch = chain
  BY <1>2, ChainEnd DEF TypeInv
<1>4. bundle.mint.height \notin disturbed => MintOn(chain)
  BY <1>1 DEF BurialInv, MintPlaced, MintSettled
<1>5. MintPlaced'
  BY <1>2, <1>3, <1>4 DEF MintPlaced, MintOn
<1> QED
  BY <1>1, <1>2, <1>3, <1>5 DEF BurialInv, BestKnown, DeepEnough, ProfileKnown, BlockHashes

\* The report is given for a depth and a work that have been checked
\* (verify.py:365-370).
LEMMA TipBurial ==
  ASSUME TypeInv, BurialInv, Call, ReadTip
  PROVE  BurialInv'
<1> DEFINE checks == TipChecks(bundle, Header(best), blocks[bundle.mint.block].chainwork)
<1> UNCHANGED <<nodeVars, bundle, disturbed>>
  BY DEF Call
<1>1. /\ pc = "tip" /\ verdict = "none" /\ bundle.profile \in DOMAIN Profiles
      /\ best \in BlockHashes
  BY DEF ReadTip, TypeInv, VerifierTypeOK, BurialInv, ProfileKnown, BestKnown
<1>2. CASE Fail(checks)
  BY <1>2, NamedLists, FinishBurial DEF Fail, Named
<1>3. CASE Passes(checks) /\ Finish("VALID")
  <2>1. /\ pc' = "done" /\ verdict' = "VALID" /\ best' = best
        /\ blocks' = blocks /\ chain' = chain /\ bundle' = bundle
        /\ disturbed' = disturbed
    BY <1>3 DEF Finish, nodeVars, ReadTip
  <2>2. checks[2].ok /\ checks[3].ok
    BY <1>3 DEF Passes, TipChecks
  <2>3. DeepEnough'
    BY <2>1, <2>2 DEF DeepEnough, TipChecks, Check, Header
  <2>4. MintPlaced'
    BY <1>1, <2>1 DEF BurialInv, MintPlaced, MintSettled, MintOn
  <2> QED
    BY <1>1, <2>1, <2>3, <2>4 DEF BurialInv, BestKnown, ProfileKnown, BlockHashes
<1> QED
  BY <1>2, <1>3 DEF ReadTip

\* Every call of the verifier keeps the burial facts.
LEMMA CallBurial ==
  ASSUME TypeInv, BurialInv, Call
  PROVE  BurialInv'
<1>0. /\ UNCHANGED <<nodeVars, bundle, disturbed>>
      /\ verdict = "none" \/ pc = "done"
      /\ stop \in Nat
  BY DEF Shaped, Call, TypeInv, VerifierTypeOK, Stops
<1> DEFINE Middle == Pcs \ {"idle", "network", "canonical", "tip", "done"}
<1>1. ASSUME pc \notin {"idle", "network", "done"}
      PROVE  bundle.profile \in DOMAIN Profiles
  BY <1>0, <1>1 DEF BurialInv, ProfileKnown
<1>2. CASE ReadNetwork
  <2>1. pc = "network" /\ Decide(StartChecks(bundle, Network), "header", Claim)
    BY <1>2 DEF ReadNetwork
  <2>2. Passes(StartChecks(bundle, Network)) => bundle.profile \in DOMAIN Profiles
    <3>1. 1 \in DOMAIN StartChecks(bundle, Network)
          /\ StartChecks(bundle, Network)[1].ok = (bundle.profile \in DOMAIN Profiles)
      BY DEF StartChecks, Check
    <3> QED
      BY <3>1 DEF Passes
  <2>3. Goto("header", Claim) => ~MintSettled'
    BY <1>0, <2>1 DEF Goto, MintSettled, Mint, Claim, TransactionLookup, HeaderLookup
  <2>4. "header" \in Middle
    BY DEF Pcs
  <2>5. Named(StartChecks(bundle, Network))
    BY NamedLists
  <2> QED
    BY <1>0, <2>1, <2>2, <2>3, <2>4, <2>5, DecideBurial
<1>3. CASE ReadHeader
  <2>1. pc = "header" /\ (Finish("HEADER_LOOKUP") \/ Goto("height", stop))
    BY <1>3 DEF ReadHeader
  <2>2. Goto("height", stop) /\ MintSettled' => MintSettled
    BY <1>0, <2>1 DEF Goto, MintSettled, TransactionLookup, HeaderLookup
  <2>3. "height" \in Middle
    BY DEF Pcs
  <2> QED
    BY <1>0, <1>1, <2>1, <2>2, <2>3, GotoBurial, FinishBurial
<1>4. CASE ReadHashAtHeight
  <2>1. CASE Finish("HEADER_LOOKUP")
    BY <2>1, FinishBurial
  <2>2. CASE Goto("canonical", stop)
    <3>1. /\ pc = "height" /\ pc' = "canonical" /\ stop' = stop
          /\ verdict = "none" /\ verdict' = "none"
          /\ blocks' = blocks /\ chain' = chain /\ bundle' = bundle
          /\ disturbed' = disturbed /\ best' = best
      BY <2>2, <1>0, <1>4 DEF ReadHashAtHeight, Goto, nodeVars
    <3>2. stop = Mint => /\ bundle.mint.height \in DOMAIN chain
                         /\ chain[bundle.mint.height] = atHeight'
      BY <1>4, <2>2
         DEF ReadHashAtHeight, Finish, Goto, StopHeight, Claim, Challenge, Mint
    <3>3. MintPlaced'
      BY <3>1, <3>2 DEF BurialInv, MintPlaced, MintSettled, MintOn, TransactionLookup,
                        HeaderLookup
    <3> QED
      BY <1>1, <3>1, <3>3 DEF BurialInv, BestKnown, DeepEnough, ProfileKnown
  <2> QED
    BY <1>4, <2>1, <2>2 DEF ReadHashAtHeight
<1>5. CASE ReadHeaderAtHeight
  BY <1>5, CanonicalBurial
<1>6. ASSUME NEW checks, Named(checks), pc \in TransactionLookup,
             NEW nextPc \in TransactionLookup, Decide(checks, nextPc, stop)
      PROVE  BurialInv'
  <2>1. Goto(nextPc, stop) /\ MintSettled' => MintSettled
    BY <1>0, <1>6 DEF Goto, MintSettled, TransactionLookup, HeaderLookup
  <2>2. nextPc \in Middle /\ pc \notin {"idle", "network", "done"}
    BY <1>6 DEF Pcs, TransactionLookup
  <2> QED
    BY <1>0, <1>1, <1>6, <2>1, <2>2, DecideBurial
<1>7. CASE VerifyProof
  <2>1. \A ok : Named(<<Check("BAD_INCLUSION_PROOF", ok)>>)
    BY DEF Named, Range, Check
  <2> QED
    BY <1>6, <1>7, <2>1, FinishBurial DEF VerifyProof, TransactionLookup
<1>8. CASE CheckIncluded
  <2>1. \A ok : Named(<<Check("BAD_INCLUSION_PROOF", ok)>>)
    BY DEF Named, Range, Check
  <2> QED
    BY <1>6, <1>8, <2>1, FinishBurial DEF CheckIncluded, TransactionLookup
<1>9. CASE FetchTransaction
  <2>1. \A ok : Named(<<Check("TRANSACTION_LOOKUP", ok)>>)
    BY DEF Named, Range, Check
  <2> QED
    BY <1>6, <1>9, <2>1 DEF FetchTransaction, TransactionLookup
<1>10. CASE PlaceTransaction
  <2> DEFINE checks(ok) == <<Check("TRANSACTION_MISMATCH", ok)>>
                             \o StopChecks(bundle, stop, Tx[StopTxid(bundle, stop)])
  <2>1. \A ok : Named(<<Check("TRANSACTION_MISMATCH", ok)>>)
    BY DEF Named, Range, Check
  <2>2. \A ok : Named(checks(ok))
    BY <2>1, NamedStopChecks, NamedConcat
  <2>3. pc = "place"
    BY <1>10 DEF PlaceTransaction
  <2>4. PICK ok : \/ Decide(checks(ok), "header", stop + 1)
                  \/ stop + 1 \notin Stops(bundle) /\ Decide(checks(ok), "coin", stop)
    BY <1>10 DEF PlaceTransaction
  <2> HIDE DEF checks
  <2>5. {"header", "coin"} \subseteq Middle
    BY DEF Pcs
  <2>6. CASE Decide(checks(ok), "header", stop + 1)
    <3>1. Goto("header", stop + 1) /\ MintSettled' => MintSettled
      BY <1>0, <2>3 DEF Goto, MintSettled, Mint, TransactionLookup, HeaderLookup
    <3> QED
      BY <1>0, <1>1, <2>2, <2>3, <2>5, <2>6, <3>1, DecideBurial
  <2>7. CASE stop + 1 \notin Stops(bundle) /\ Decide(checks(ok), "coin", stop)
    <3>1. MintSettled
      BY <2>3, <2>7
         DEF Shaped, TypeInv, VerifierTypeOK, Stops, MintSettled, TransactionLookup, Mint
    <3> QED
      BY <1>0, <1>1, <2>2, <2>3, <2>5, <2>7, <3>1, DecideBurial
  <2> QED
    BY <2>4, <2>6, <2>7
<1>11. CASE ReadCoin
  <2>1. pc = "coin" /\ Decide(CoinChecks(bundle), "best", stop) /\ MintSettled
    BY <1>11 DEF ReadCoin, MintSettled
  <2>2. "best" \in Middle
    BY DEF Pcs
  <2> QED
    BY <1>0, <1>1, <2>1, <2>2, NamedLists, DecideBurial
<1>12. CASE ReadBestHash
  BY <1>12, BestBurial
<1>13. CASE ReadTip
  BY <1>13, TipBurial
<1>14. CASE RpcFails
  BY <1>14, FinishBurial DEF RpcFails
<1> QED
  BY <1>2, <1>3, <1>4, <1>5, <1>7, <1>8, <1>9, <1>10, <1>11, <1>12, <1>13, <1>14
     DEF Call

\* A change of the chain takes nothing from what was found about the mint block,
\* unless it disconnects that block.
LEMMA ChainBurial ==
  ASSUME TypeInv, BurialInv, UNCHANGED <<verifierVars, bundle>>, BlocksKept,
         bundle.mint.height \notin disturbed' =>
           /\ bundle.mint.height \notin disturbed
           /\ bundle.mint.height \in DOMAIN chain =>
                /\ bundle.mint.height \in DOMAIN chain'
                /\ chain'[bundle.mint.height] = chain[bundle.mint.height]
  PROVE  BurialInv'
<1>1. /\ pc' = pc /\ stop' = stop /\ verdict' = verdict /\ best' = best
      /\ bundle' = bundle /\ atHeight' = atHeight
  BY DEF verifierVars
<1>2. BestKnown' /\ ProfileKnown'
  BY <1>1 DEF BurialInv, BestKnown, ProfileKnown, BlocksKept
<1>3. pc = "tip" \/ verdict = "VALID" => blocks'[best] = blocks[best]
  BY DEF BurialInv, BestKnown, BlocksKept
<1>4. MintPlaced'
  BY <1>1, <1>3 DEF BurialInv, MintPlaced, MintSettled, MintOn
<1>5. DeepEnough'
  <2> SUFFICES ASSUME verdict = "VALID", bundle.mint.height \notin disturbed'
               PROVE  blocks'[best] = blocks[best]
                      /\ blocks'[bundle.mint.block] = blocks[bundle.mint.block]
    BY <1>1 DEF BurialInv, DeepEnough
  <2>1. blocks[best].branch \in Seq(BlockHashes)
    BY DEF BurialInv, BestKnown, TypeInv, NodeInv, BranchesEnd
  <2>2. bundle.mint.block \in BlockHashes
    BY <2>1 DEF BurialInv, MintPlaced, MintOn
  <2> QED
    BY <1>3, <2>2 DEF BlocksKept
<1> QED
  BY <1>2, <1>4, <1>5 DEF BurialInv

\* The burial facts hold in every state.
LEMMA BurialKept == TypeInv /\ BurialInv /\ [Next]_vars => BurialInv'
<1> SUFFICES ASSUME TypeInv, BurialInv, [Next]_vars PROVE BurialInv'
  OBVIOUS
<1>1. CASE Begin
  <2>1. /\ pc = "idle" /\ pc' = "network" /\ verdict = "none" /\ verdict' = "none"
    BY <1>1 DEF Begin, Goto, TypeInv, VerifierTypeOK
  <2> QED
    BY <2>1 DEF BurialInv, MintPlaced, MintSettled, BestKnown, DeepEnough, ProfileKnown,
                TransactionLookup, HeaderLookup
<1>2. CASE Call
  BY <1>2, CallBurial
<1>3. CASE ChainGrows
  BY <1>3, ExtendKeeps, ChainBurial DEF ChainGrows, TypeInv, ChainKept
<1>4. CASE ChainReorganizes
  <2>1. UNCHANGED blocks
    BY <1>4, ReorganizeKeeps DEF ChainReorganizes, TypeInv
  <2>2. BlocksKept
    BY <2>1 DEF BlocksKept, BlockHashes
  <2>3. UNCHANGED <<verifierVars, bundle>>
    BY <1>4 DEF ChainReorganizes
  <2>4. bundle.mint.height \notin disturbed' =>
           /\ bundle.mint.height \notin disturbed
           /\ bundle.mint.height \in DOMAIN chain =>
                /\ bundle.mint.height \in DOMAIN chain'
                /\ chain'[bundle.mint.height] = chain[bundle.mint.height]
    BY <1>4 DEF ChainReorganizes
  <2> QED
    BY <2>2, <2>3, <2>4, ChainBurial
<1>5. CASE UNCHANGED vars
  BY <1>5 DEF vars, nodeVars, verifierVars, BurialInv, MintPlaced, MintSettled, MintOn,
              BestKnown, DeepEnough, ProfileKnown, BlockHashes
<1> QED
  BY <1>1, <1>2, <1>3, <1>4, <1>5 DEF Next, Step

\* The mint block of an accepted bundle is an ancestor of the tip the report names,
\* and the reported burial is the depth and the work above it on that one branch,
\* although verify_bundle reads the two headers many calls apart
\* (verify.py:244-251, 362-370).
THEOREM ReportedBurialIsReal == Spec => []BurialOnReportedBranch
<1>1. Init => BurialInv
  BY DEF Init, BurialInv, MintPlaced, MintSettled, BestKnown, DeepEnough, ProfileKnown,
         TransactionLookup, HeaderLookup
<1>2. TypeInv /\ BurialInv => BurialOnReportedBranch
  <2> SUFFICES ASSUME TypeInv, BurialInv, verdict = "VALID",
                      bundle.mint.height \notin disturbed
               PROVE  LET branch == blocks[best].branch
                      IN  /\ branch[bundle.mint.height] = bundle.mint.block
                          /\ Buried(branch, bundle)
    BY DEF BurialOnReportedBranch
  <2> DEFINE branch == blocks[best].branch
             p == Profiles[bundle.profile]
  <2>1. /\ best \in BlockHashes /\ bundle.profile \in DOMAIN Profiles
        /\ branch \in Seq(BlockHashes) /\ branch[Len(branch)] = best
        /\ Len(branch) \in Nat
    BY DEF BurialInv, BestKnown, ProfileKnown, TypeInv, VerifierTypeOK, NodeInv,
           BranchesEnd
  <2>2. MintOn(branch)
    BY DEF BurialInv, MintPlaced
  <2>3. bundle.mint.block \in BlockHashes
    BY <2>1, <2>2 DEF MintOn
  <2>4. /\ blocks[best].chainwork \in Nat
        /\ blocks[bundle.mint.block].chainwork \in Nat
    <3>1. blocks[best] \in Block /\ blocks[bundle.mint.block] \in Block
      BY <2>1, <2>3 DEF TypeInv, NodeInv, NodeTypeOK, BlockHashes
    <3> QED
      BY <3>1 DEF Block
  <2>5. /\ p.minimum_burial_blocks \in Nat /\ p.minimum_burial_chainwork \in Nat
        /\ bundle.mint.height \in Nat
    BY <2>1, ProfilesAssumption DEF Shaped, Profile, TypeInv, VerifierTypeOK
  <2>6. /\ Len(branch) - bundle.mint.height >= p.minimum_burial_blocks
        /\ blocks[best].chainwork - blocks[bundle.mint.block].chainwork
             >= p.minimum_burial_chainwork
    BY DEF BurialInv, DeepEnough
  <2>7. Buried(branch, bundle)
    BY <2>1, <2>4, <2>5, <2>6 DEF Buried
  <2> QED
    BY <2>2, <2>7 DEF MintOn
<1> QED
  BY <1>1, <1>2, BurialKept, TypesStart, TypesKept, PTL DEF Spec
-----------------------------------------------------------------------------
(* No false rejection *)

\* A call of verify_bundle that the node answers.
Reply ==
  \/ ReadNetwork \/ ReadHeader \/ ReadHashAtHeight \/ ReadHeaderAtHeight
  \/ VerifyProof \/ CheckIncluded \/ FetchTransaction \/ PlaceTransaction
  \/ ReadCoin \/ ReadBestHash \/ ReadTip

\* What was read of a good bundle compares equal to it.
GoodHeader ==
  pc \in {"height", "canonical"} =>
    header.height = StopHeight(bundle, stop) /\ header.confirmations >= 1

GoodHash == pc = "canonical" => atHeight = StopBlock(bundle, stop)

\* The tip was the end of a chain that buries the mint.
GoodBest ==
  pc = "tip" =>
    /\ best \in BlockHashes /\ bundle.mint.block \in BlockHashes
    /\ HeightOf(best) - bundle.mint.height
         >= Profiles[bundle.profile].minimum_burial_blocks
    /\ blocks[best].chainwork - blocks[bundle.mint.block].chainwork
         >= Profiles[bundle.profile].minimum_burial_chainwork
    /\ OnActiveChain(best) \/ disturbed # {}

GoodVerdict ==
  verdict \in {"none", "VALID"} \/ (verdict = "BAD_TIP" /\ disturbed # {})

GoodInv == GoodHeader /\ GoodHash /\ GoodStop /\ GoodBest /\ GoodVerdict

\* A list that passes leads on.
LEMMA DecideGoes ==
  ASSUME NEW checks, Passes(checks), NEW nextPc, NEW nextStop,
         Decide(checks, nextPc, nextStop)
  PROVE  Goto(nextPc, nextStop)
BY DEF Decide, Fail, FirstFailure, Passes

\* On the active chain a block has its height and a confirmation.
LEMMA OnChainHeader ==
  ASSUME NodeInv, BranchesRise, NEW h \in DOMAIN chain
  PROVE  /\ chain[h] \in BlockHashes /\ OnActiveChain(chain[h])
         /\ Header(chain[h]).height = h /\ Header(chain[h]).confirmations >= 1
<1>1. /\ h \in Nat /\ chain[h] \in BlockHashes /\ Len(blocks[chain[h]].branch) = h
  BY BlocksRise DEF HeightOf
<1>2. OnActiveChain(chain[h])
  BY DEF OnActiveChain
<1>3. Len(chain) \in Nat /\ h \in 1..Len(chain)
  BY ChainEnd
<1> QED
  BY <1>1, <1>2, <1>3 DEF Header

\* Each stop of a good bundle is on the chain and passes its checks.
LEMMA GoodStops ==
  ASSUME TypeInv, BranchesRise, StaysGood, NEW k \in Stops(bundle)
  PROVE  /\ StopHeight(bundle, k) \in DOMAIN chain
         /\ chain[StopHeight(bundle, k)] = StopBlock(bundle, k)
         /\ StopBlock(bundle, k) \in BlockHashes
         /\ OnActiveChain(StopBlock(bundle, k))
         /\ Header(StopBlock(bundle, k)).height = StopHeight(bundle, k)
         /\ Header(StopBlock(bundle, k)).confirmations >= 1
         /\ k # Challenge => StopTxid(bundle, k) \in blocks[StopBlock(bundle, k)].txs
         /\ Passes(StopChecks(bundle, k, Tx[StopTxid(bundle, k)]))
         /\ Passes(StartChecks(bundle, Network))
<1>1. FullyChecked(chain, bundle) /\ Passes(StartChecks(bundle, Network))
  BY GenuineIsChecked DEF Shaped, TypeInv, VerifierTypeOK, StaysGood
<1>2. LoadedAt(chain, bundle, k) /\ Passes(StopChecks(bundle, k, Tx[StopTxid(bundle, k)]))
  BY <1>1 DEF FullyChecked
<1>3. /\ StopHeight(bundle, k) \in DOMAIN chain
      /\ chain[StopHeight(bundle, k)] = StopBlock(bundle, k)
      /\ k # Challenge => StopTxid(bundle, k) \in blocks[StopBlock(bundle, k)].txs
  BY <1>2 DEF LoadedAt, ConfirmedAt
<1>4. PICK h \in DOMAIN chain :
        h = StopHeight(bundle, k) /\ chain[h] = StopBlock(bundle, k)
  BY <1>3
<1>5. /\ chain[h] \in BlockHashes /\ OnActiveChain(chain[h])
      /\ Header(chain[h]).height = h /\ Header(chain[h]).confirmations >= 1
  BY OnChainHeader DEF TypeInv
<1> QED
  BY <1>1, <1>2, <1>3, <1>4, <1>5

\* So do the checks of its coin.
LEMMA GoodCoin ==
  ASSUME TypeInv, BranchesRise, StaysGood
  PROVE  Passes(CoinChecks(bundle))
<1> DEFINE k == 3 + Len(bundle.transfers)
           txid == TerminalTitle(bundle)[1]
<1>1. k \in Stops(bundle) /\ k # Challenge /\ StopTxid(bundle, k) = txid
  BY DEF Shaped, TypeInv, VerifierTypeOK, Stops, StopTxid, TerminalTitle, TitleAt, Claim,
         Challenge, Mint
<1>2. /\ StopHeight(bundle, k) \in DOMAIN chain
      /\ txid \in blocks[chain[StopHeight(bundle, k)]].txs
  BY <1>1, GoodStops
<1>3. txid \in Confirmed(chain)
  BY <1>2 DEF Confirmed
<1>4. PICK h \in DOMAIN chain :
        h = CHOOSE g \in DOMAIN chain : txid \in blocks[chain[g]].txs
  BY <1>2
<1>5. h \in 1..Len(chain) /\ Len(chain) \in Nat
  BY ChainEnd DEF TypeInv
<1>6. CoinConfirmations(TerminalTitle(bundle)) = Len(chain) + 1 - h
  BY <1>3, <1>4, Zenon DEF CoinConfirmations
<1>7. CoinConfirmations(TerminalTitle(bundle)) >= 1
  BY <1>5, <1>6
<1>8. Visible(TerminalTitle(bundle))
  BY DEF StaysGood
<1> QED
  BY <1>7, <1>8, TwoPass DEF CoinChecks, Check

\* And of its tip, unless it was disconnected since its hash was read.
LEMMA GoodTip ==
  ASSUME TypeInv, BranchesRise, StaysGood, GoodBest, pc = "tip"
  PROVE  LET checks == TipChecks(bundle, Header(best),
                                 blocks[bundle.mint.block].chainwork)
         IN  /\ checks[2].ok /\ checks[3].ok
             /\ OnActiveChain(best) => checks[1].ok
<1>1. OnActiveChain(best) => Header(best).confirmations >= 1
  BY OnChainHeader DEF TypeInv, OnActiveChain
<1> QED
  BY <1>1 DEF GoodBest, TipChecks, Check, Header, HeightOf

\* What is asked of a good bundle is answered well, and the assay goes on.
LEMMA ReplyGood ==
  ASSUME TypeInv, BranchesRise, StaysGood, ProofsOnChain, GoodInv, Reply,
         UNCHANGED <<nodeVars, bundle, disturbed>>
  PROVE  GoodInv'
<1>0. /\ pc # "done" /\ verdict = "none" /\ stop \in Stops(bundle) /\ stop \in Nat
      /\ blocks' = blocks /\ chain' = chain /\ bundle' = bundle
      /\ disturbed' = disturbed
  BY DEF Shaped, Reply, ReadNetwork, ReadHeader, ReadHashAtHeight, ReadHeaderAtHeight,
         VerifyProof, CheckIncluded, FetchTransaction, PlaceTransaction,
         ReadCoin, ReadBestHash, ReadTip, TypeInv, VerifierTypeOK, nodeVars, Stops
<1>1. /\ StopHeight(bundle, stop) \in DOMAIN chain
      /\ chain[StopHeight(bundle, stop)] = StopBlock(bundle, stop)
      /\ StopBlock(bundle, stop) \in BlockHashes
      /\ OnActiveChain(StopBlock(bundle, stop))
      /\ Header(StopBlock(bundle, stop)).height = StopHeight(bundle, stop)
      /\ Header(StopBlock(bundle, stop)).confirmations >= 1
      /\ stop # Challenge =>
           StopTxid(bundle, stop) \in blocks[StopBlock(bundle, stop)].txs
      /\ Passes(StopChecks(bundle, stop, Tx[StopTxid(bundle, stop)]))
      /\ Passes(StartChecks(bundle, Network))
  BY <1>0, GoodStops
\* A step that leads to a place where nothing has been read yet.
<1>2. ASSUME NEW nextPc \in Pcs, NEW nextStop, Goto(nextPc, nextStop),
             nextPc \notin {"height", "canonical", "tip"},
             nextPc \in TransactionLookup => nextStop # Challenge
      PROVE  GoodInv'
  BY <1>0, <1>2
     DEF Goto, GoodInv, GoodHeader, GoodHash, GoodStop, GoodBest, GoodVerdict
<1>3. CASE ReadNetwork
  BY <1>1, <1>2, <1>3, DecideGoes DEF ReadNetwork, Pcs, TransactionLookup
<1>4. CASE ReadHeader
  BY <1>0, <1>1, <1>4
     DEF ReadHeader, Goto, GoodInv, GoodHeader, GoodHash, GoodStop, GoodBest,
         GoodVerdict, TransactionLookup
<1>5. CASE ReadHashAtHeight
  BY <1>0, <1>1, <1>5
     DEF ReadHashAtHeight, Goto, GoodInv, GoodHeader, GoodHash, GoodStop, GoodBest,
         GoodVerdict, TransactionLookup, StopHeight, StopBlock, Transition
<1>6. CASE ReadHeaderAtHeight
  <2>1. pc = "canonical" /\ header.height = StopHeight(bundle, stop)
        /\ header.confirmations >= 1 /\ atHeight = StopBlock(bundle, stop)
    BY <1>6 DEF ReadHeaderAtHeight, GoodInv, GoodHeader, GoodHash
  <2>2. Passes(CanonicalChecks(bundle, stop))
    BY <2>1, ThreePass DEF CanonicalChecks, Check
  <2>3. CASE stop # Challenge
    <3>1. Goto("proof", stop)
      BY <1>6, <2>2, <2>3, DecideGoes DEF ReadHeaderAtHeight
    <3> QED
      BY <1>2, <2>3, <3>1 DEF Pcs
  <2>4. CASE stop = Challenge
    <3>1. Passes(ChallengeChecks(bundle))
      BY <1>0, <1>1, <2>4, StopListPasses DEF Shaped, TypeInv, VerifierTypeOK
    <3>2. Sequence(CanonicalChecks(bundle, stop))
      BY DEF Sequence, Range, CanonicalChecks, Check
    <3>3. Passes(CanonicalChecks(bundle, stop) \o ChallengeChecks(bundle))
      BY <2>2, <3>1, <3>2, ChecksAreSequences, ConcatPasses
    <3>4. Goto("header", Mint)
      BY <1>6, <2>4, <3>3, DecideGoes DEF ReadHeaderAtHeight
    <3> QED
      BY <1>2, <3>4 DEF Pcs, TransactionLookup
  <2> QED
    BY <2>3, <2>4
<1>7. pc \in TransactionLookup =>
        /\ stop # Challenge /\ StopProof(bundle, stop).block = StopBlock(bundle, stop)
        /\ StopTxid(bundle, stop) \in CommittedTxids(StopProof(bundle, stop))
  BY <1>0 DEF GoodInv, GoodStop, ProofsOnChain
<1>8. \A code, ok : ok => Passes(<<Check(code, ok)>>)
  BY DEF Passes, Check
<1>9. CASE VerifyProof
  <2>1. Goto("included", stop) /\ stop # Challenge
    BY <1>1, <1>7, <1>8, <1>9, DecideGoes DEF VerifyProof, TransactionLookup
  <2> QED
    BY <1>2, <2>1 DEF Pcs
<1>10. CASE CheckIncluded
  <2>1. Goto("fetch", stop) /\ stop # Challenge
    BY <1>1, <1>7, <1>8, <1>10, DecideGoes DEF CheckIncluded, TransactionLookup
  <2> QED
    BY <1>2, <2>1 DEF Pcs
<1>11. CASE FetchTransaction
  <2>1. Goto("place", stop) /\ stop # Challenge
    BY <1>1, <1>7, <1>8, <1>11, DecideGoes DEF FetchTransaction, TransactionLookup
  <2> QED
    BY <1>2, <2>1 DEF Pcs
<1>12. CASE PlaceTransaction
  <2> DEFINE placed == <<Check("TRANSACTION_MISMATCH",
                               Header(StopBlock(bundle, stop)).height
                                 = StopHeight(bundle, stop))>>
             made == StopChecks(bundle, stop, Tx[StopTxid(bundle, stop)])
  <2>1. Passes(placed)
    BY <1>1, <1>8
  <2>2. Sequence(placed) /\ Sequence(made)
    BY NamedStopChecks DEF Named, Sequence, Range, Check
  <2>3. Passes(placed \o made)
    BY <1>1, <2>1, <2>2, ConcatPasses
  <2>4. Goto("header", stop + 1) \/ Goto("coin", stop)
    BY <1>12, <2>3, DecideGoes DEF PlaceTransaction
  <2> QED
    BY <1>2, <2>4 DEF Pcs, TransactionLookup
<1>13. CASE ReadCoin
  <2>1. Goto("best", stop)
    BY <1>13, GoodCoin, DecideGoes DEF ReadCoin
  <2> QED
    BY <1>2, <2>1 DEF Pcs, TransactionLookup
<1>14. CASE ReadBestHash
  <2>1. /\ pc' = "tip" /\ stop' = stop /\ verdict' = "none"
        /\ best' = chain[Len(chain)]
    BY <1>0, <1>14 DEF ReadBestHash, Goto
  <2>2. /\ best' \in BlockHashes /\ Len(blocks[best'].branch) = Len(chain)
        /\ blocks[best'].chainwork \in Nat /\ Len(chain) \in Nat
        /\ Len(chain) \in DOMAIN chain
    BY <2>1, ChainEnd DEF TypeInv
  <2>3. OnActiveChain(best)'
    BY <1>0, <2>1, <2>2 DEF OnActiveChain
  <2>4. /\ Len(chain) >= bundle.mint.height
                            + Profiles[bundle.profile].minimum_burial_blocks
        /\ blocks[best'].chainwork
             >= blocks[bundle.mint.block].chainwork
                  + Profiles[bundle.profile].minimum_burial_chainwork
    BY <2>1 DEF StaysGood, Buried
  <2>5. /\ bundle.mint.height \in Nat
        /\ Profiles[bundle.profile].minimum_burial_blocks \in Nat
        /\ Profiles[bundle.profile].minimum_burial_chainwork \in Nat
    BY ProfilesAssumption DEF Shaped, Profile, TypeInv, VerifierTypeOK, StaysGood
  <2>6. /\ bundle.mint.block \in BlockHashes
        /\ blocks[bundle.mint.block].chainwork \in Nat
    <3>1. Mint \in Stops(bundle) /\ StopBlock(bundle, Mint) = bundle.mint.block
      BY DEF Shaped, TypeInv, VerifierTypeOK, Stops, StopBlock, Mint, Claim, Challenge
    <3>2. bundle.mint.block \in BlockHashes
      BY <3>1, GoodStops
    <3>3. blocks[bundle.mint.block] \in Block
      BY <3>2 DEF TypeInv, NodeInv, NodeTypeOK, BlockHashes
    <3> QED
      BY <3>2, <3>3 DEF Block
  <2>7. GoodBest'
    BY <1>0, <2>1, <2>2, <2>3, <2>4, <2>5, <2>6 DEF GoodBest, BlockHashes, HeightOf
  <2> QED
    BY <2>1, <2>7
       DEF GoodInv, GoodHeader, GoodHash, GoodStop, GoodVerdict, TransactionLookup
<1>15. CASE ReadTip
  <2> DEFINE checks == TipChecks(bundle, Header(best),
                                 blocks[bundle.mint.block].chainwork)
  <2>1. pc = "tip" /\ GoodBest
    BY <1>15 DEF ReadTip, GoodInv
  <2>2. /\ checks[2].ok /\ checks[3].ok
        /\ OnActiveChain(best) => checks[1].ok
    BY <2>1, GoodTip
  <2>3. CASE Passes(checks) /\ Finish("VALID")
    BY <2>3 DEF Finish, GoodInv, GoodHeader, GoodHash, GoodStop, GoodBest, GoodVerdict,
                TransactionLookup
  <2>4. CASE Fail(checks)
    <3>1. PICK i \in DOMAIN checks : ~checks[i].ok /\ Finish(checks[i].code)
      BY <2>4 DEF Fail, FirstFailure
    <3>2. DOMAIN checks = 1..3 /\ checks[1].code = "BAD_TIP"
      BY DEF TipChecks, Check
    <3> HIDE DEF checks
    <3>3. i = 1
      BY <2>2, <3>1, <3>2
    <3>4. pc' = "done" /\ verdict' = "BAD_TIP"
      BY <3>1, <3>2, <3>3 DEF Finish
    <3>5. disturbed # {}
      BY <2>1, <2>2, <3>1, <3>3 DEF GoodBest
    <3> QED
      BY <1>0, <3>4, <3>5
         DEF GoodInv, GoodHeader, GoodHash, GoodStop, GoodBest, GoodVerdict,
             TransactionLookup
  <2> QED
    BY <1>15, <2>3, <2>4 DEF ReadTip
<1> QED
  BY <1>3, <1>4, <1>5, <1>6, <1>9, <1>10, <1>11, <1>12, <1>13, <1>14, <1>15 DEF Reply

\* The bundle is good while verify_bundle runs, as GoodAtomAccepted presumes.
Good == pc \notin {"idle", "done"} => StaysGood /\ ProofsOnChain

RiseInv == TypeInv /\ BranchesRise

\* A block that leaves the chain disturbs a height.
LEMMA ChainGood ==
  ASSUME TypeInv, GoodInv, ChainGrows \/ ChainReorganizes
  PROVE  GoodInv'
<1>1. BlocksKept /\ UNCHANGED <<verifierVars, bundle>> /\ disturbed \subseteq disturbed'
  <2>1. CASE ChainGrows
    BY <2>1, ExtendKeeps DEF ChainGrows, TypeInv
  <2>2. CASE ChainReorganizes
    BY <2>2, ReorganizeKeeps DEF ChainReorganizes, TypeInv, BlocksKept, BlockHashes
  <2> QED
    BY <2>1, <2>2
<1>2. ASSUME OnActiveChain(best) PROVE OnActiveChain(best)' \/ disturbed' # {}
  <2>1. PICK h \in DOMAIN chain : chain[h] = best
    BY <1>2 DEF OnActiveChain
  <2>2. CASE ChainGrows
    BY <2>1, <2>2, <1>1, ExtendKeeps
       DEF ChainGrows, TypeInv, ChainKept, OnActiveChain, verifierVars
  <2>3. CASE ChainReorganizes
    BY <2>1, <2>3, <1>1 DEF ChainReorganizes, OnActiveChain, verifierVars
  <2> QED
    BY <2>2, <2>3
<1>3. /\ pc' = pc /\ stop' = stop /\ header' = header /\ atHeight' = atHeight
      /\ best' = best /\ verdict' = verdict /\ bundle' = bundle
  BY <1>1 DEF verifierVars
<1>4. GoodBest'
  <2> SUFFICES ASSUME pc = "tip" PROVE GoodBest'
    BY <1>3 DEF GoodBest
  <2>1. best \in BlockHashes /\ blocks'[best] = blocks[best] /\ best \in BlockHashes'
    BY <1>1 DEF GoodInv, GoodBest, BlocksKept
  <2>2. /\ blocks'[bundle.mint.block] = blocks[bundle.mint.block]
        /\ bundle.mint.block \in BlockHashes'
    BY <1>1 DEF GoodInv, GoodBest, BlocksKept
  <2> QED
    BY <1>1, <1>2, <1>3, <2>1, <2>2 DEF GoodInv, GoodBest, HeightOf
<1> QED
  BY <1>1, <1>3, <1>4 DEF GoodInv, GoodHeader, GoodHash, GoodStop, GoodVerdict

\* No step rejects a good bundle.
LEMMA GoodKept ==
  RiseInv /\ GoodInv /\ Good /\ ~RpcCanFail /\ [Next]_vars => GoodInv'
<1> SUFFICES ASSUME RiseInv, GoodInv, Good, ~RpcCanFail, [Next]_vars PROVE GoodInv'
  OBVIOUS
<1>1. CASE Begin
  BY <1>1 DEF Begin, Goto, GoodInv, GoodHeader, GoodHash, GoodStop, GoodBest,
              GoodVerdict, TransactionLookup, RiseInv, TypeInv, VerifierTypeOK
<1>2. CASE Call
  <2>1. Reply /\ UNCHANGED <<nodeVars, bundle, disturbed>>
    BY <1>2 DEF Call, Reply, RpcFails
  <2>2. pc \notin {"idle", "done"}
    BY <2>1
       DEF Reply, ReadNetwork, ReadHeader, ReadHashAtHeight, ReadHeaderAtHeight,
           VerifyProof, CheckIncluded, FetchTransaction, PlaceTransaction,
           ReadCoin, ReadBestHash, ReadTip
  <2> QED
    BY <2>1, <2>2, ReplyGood DEF Good, RiseInv
<1>3. CASE ChainGrows \/ ChainReorganizes
  BY <1>3, ChainGood DEF RiseInv
<1>4. CASE UNCHANGED vars
  BY <1>4 DEF vars, nodeVars, verifierVars, GoodInv, GoodHeader, GoodHash, GoodStop,
              GoodBest, GoodVerdict, BlockHashes, HeightOf, OnActiveChain
<1> QED
  BY <1>1, <1>2, <1>3, <1>4 DEF Next, Step

\* The branches of the verifier's node rise.
LEMMA RiseKept == RiseInv /\ [Next]_vars => RiseInv'
<1> SUFFICES ASSUME RiseInv, [Next]_vars PROVE BranchesRise'
  BY TypesKept DEF RiseInv
<1>1. CASE UNCHANGED blocks
  BY <1>1, SameBranchesRise DEF RiseInv
<1>2. CASE Extend
  BY <1>2, <1>1, GenerateRises DEF Extend, Broadcast, RiseInv, TypeInv
<1> QED
  BY <1>1, <1>2, ReorganizeKeeps
     DEF Next, Step, Begin, Call, ChainGrows, ChainReorganizes, vars, nodeVars,
         RiseInv, TypeInv

\* A genuine, buried atom with an unspent and visible title is not rejected: while
\* the node answers, verify_bundle ends with VALID or not at all, through blocks and
\* reorganizations, but for BAD_TIP after a reorganization (verify.py:146-387).  It is
\* the safety half of GoodAtomAccepted.
THEOREM GoodAtomsAreNotRejected ==
  ~RpcCanFail /\ Spec /\ [](pc \notin {"idle", "done"} => StaysGood /\ ProofsOnChain)
    => [](verdict \in {"none", "VALID"} \/ (verdict = "BAD_TIP" /\ disturbed # {}))
<1> SUFFICES ASSUME ~RpcCanFail
             PROVE  Spec /\ [](pc \notin {"idle", "done"} => StaysGood /\ ProofsOnChain)
                      => [](verdict \in {"none", "VALID"}
                            \/ (verdict = "BAD_TIP" /\ disturbed # {}))
  OBVIOUS
<1>1. Init => RiseInv /\ GoodInv
  <2>1. Init => RiseInv
    BY TypesStart, RiseStarts DEF RiseInv, Init
  <2> QED
    BY <2>1 DEF Init, GoodInv, GoodHeader, GoodHash, GoodStop, GoodBest, GoodVerdict,
                TransactionLookup
<1>2. GoodInv => verdict \in {"none", "VALID"} \/ (verdict = "BAD_TIP" /\ disturbed # {})
  BY DEF GoodInv, GoodVerdict
<1>3. (pc \notin {"idle", "done"} => StaysGood /\ ProofsOnChain) => Good
  BY DEF Good
<1>4. RiseInv /\ GoodInv /\ Good /\ [Next]_vars => GoodInv'
  BY GoodKept
<1> QED
  BY <1>1, <1>2, <1>3, <1>4, RiseKept, PTL DEF Spec
=============================================================================
