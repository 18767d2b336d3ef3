--------------------------- MODULE AcceptanceProofs ---------------------------
(* What verify_bundle accepts is an atom of the active chain, for every set of  *)
(* transactions, bundles, profiles and chains: each stop keeps what was found   *)
(* at it while no block it is in is disconnected, although the node grows and   *)
(* reorganizes between any two calls.  And wherever it stops at a rule that     *)
(* needs no chain, the independent checker stops at the same one.               *)
EXTENDS VectorChecker, VerifierProofs

\* The stop has been left behind, or all of them.
Reached(k) == k < stop \/ pc \in {"coin", "best", "tip"} \/ verdict = "VALID"

\* Its block has been found canonical.
Found(k) == Reached(k) \/ (k = stop /\ pc \in TransactionLookup)

\* Its transaction has been found in that block.
Included(k) ==
  k # Challenge /\ (Reached(k) \/ (k = stop /\ pc \in {"fetch", "place"}))

On(k) ==
  /\ StopHeight(bundle, k) \in DOMAIN chain
  /\ chain[StopHeight(bundle, k)] = StopBlock(bundle, k)

Contains(k) ==
  /\ StopBlock(bundle, k) \in BlockHashes
  /\ StopTxid(bundle, k) \in blocks[StopBlock(bundle, k)].txs

CheckedAt(k) == Passes(StopChecks(bundle, k, Tx[StopTxid(bundle, k)]))

\* The hash read for the stop's height is still there.
ReadAt(k) ==
  /\ StopHeight(bundle, k) \in DOMAIN chain
  /\ chain[StopHeight(bundle, k)] = atHeight

StopInv(k) ==
  /\ StopHeight(bundle, k) \notin disturbed =>
       /\ pc = "canonical" /\ k = stop => ReadAt(k)
       /\ Found(k) => On(k)
  /\ Included(k) => Contains(k)
  /\ Reached(k) => CheckedAt(k)

StartInv ==
  \/ pc \in {"idle", "network"}
  \/ verdict \notin {"none", "VALID"}
  \/ Passes(StartChecks(bundle, Network))

AcceptInv == StartInv /\ \A k \in Stops(bundle) : StopInv(k)

\* A stop is a number.
LEMMA StopsAreNats ==
  ASSUME TypeInv
  PROVE  Stops(bundle) \subseteq Nat /\ stop \in Nat /\ stop \in Stops(bundle)
BY DEF Shaped, TypeInv, VerifierTypeOK, Stops

\* An assay that ends without a report adds nothing to what was found.
LEMMA FinishAccepts ==
  ASSUME TypeInv, AcceptInv, UNCHANGED <<nodeVars, bundle, disturbed>>,
         NEW outcome, outcome \notin {"none", "VALID"}, Finish(outcome)
  PROVE  AcceptInv'
<1>1. /\ pc' = "done" /\ verdict' = outcome /\ stop' = stop
      /\ blocks' = blocks /\ chain' = chain /\ bundle' = bundle /\ disturbed' = disturbed
  BY DEF Finish, nodeVars
<1> QED
  BY <1>1 DEF AcceptInv, StartInv, StopInv, Found, Included, Reached, On, Contains,
              CheckedAt, BlockHashes, TransactionLookup

\* Going on keeps what was found, if what counts as found from then on was.
LEMMA GotoAccepts ==
  ASSUME TypeInv, AcceptInv, UNCHANGED <<nodeVars, bundle, disturbed>>, pc # "done",
         NEW nextPc \in Pcs \ {"idle", "network", "canonical", "done"},
         NEW nextStop, Goto(nextPc, nextStop),
         Passes(StartChecks(bundle, Network)),
         \A k \in Stops(bundle) :
           /\ StopHeight(bundle, k) \notin disturbed /\ Found(k)' => On(k)
           /\ Included(k)' => Contains(k)
           /\ Reached(k)' => CheckedAt(k)
  PROVE  AcceptInv'
<1>1. /\ pc' = nextPc /\ verdict' = "none" /\ stop' = nextStop
      /\ blocks' = blocks /\ chain' = chain /\ bundle' = bundle /\ disturbed' = disturbed
  BY DEF Goto, TypeInv, VerifierTypeOK, nodeVars
<1> QED
  BY <1>1 DEF AcceptInv, StartInv, StopInv, On, Contains, CheckedAt, BlockHashes

\* The same for a list of checks.
LEMMA DecideAccepts ==
  ASSUME TypeInv, AcceptInv, UNCHANGED <<nodeVars, bundle, disturbed>>, pc # "done",
         NEW checks, Named(checks),
         NEW nextPc \in Pcs \ {"idle", "network", "canonical", "done"},
         NEW nextStop, Decide(checks, nextPc, nextStop),
         Passes(checks) => Passes(StartChecks(bundle, Network)),
         Passes(checks) /\ Goto(nextPc, nextStop) =>
           \A k \in Stops(bundle) :
             /\ StopHeight(bundle, k) \notin disturbed /\ Found(k)' => On(k)
             /\ Included(k)' => Contains(k)
             /\ Reached(k)' => CheckedAt(k)
  PROVE  AcceptInv'
<1>1. CASE Passes(checks) /\ Goto(nextPc, nextStop)
  BY <1>1, GotoAccepts
<1>2. CASE Fail(checks)
  BY <1>2, FinishAccepts DEF Fail, Named
<1> QED
  BY <1>1, <1>2 DEF Decide

\* The hash at the stop's height is read from the chain (verify.py:43-46).
LEMMA HashAccepts ==
  ASSUME TypeInv, AcceptInv, Call, ReadHashAtHeight
  PROVE  AcceptInv'
<1>1. pc = "height" /\ verdict = "none" /\ UNCHANGED <<nodeVars, bundle, disturbed>>
  BY DEF ReadHashAtHeight, Call, TypeInv, VerifierTypeOK
<1>2. CASE Finish("HEADER_LOOKUP")
  BY <1>1, <1>2, FinishAccepts
<1>3. CASE Goto("canonical", stop)
  <2>1. /\ pc' = "canonical" /\ verdict' = "none" /\ stop' = stop
        /\ blocks' = blocks /\ chain' = chain /\ bundle' = bundle
        /\ disturbed' = disturbed
    BY <1>1, <1>3 DEF Goto, nodeVars
  <2>2. ReadAt(stop)'
    BY <1>3, <2>1 DEF ReadHashAtHeight, ReadAt, Finish, Goto
  <2> QED
    BY <1>1, <2>1, <2>2 DEF AcceptInv, StartInv, StopInv, Found, Included, Reached, On,
              Contains, CheckedAt, ReadAt, BlockHashes, TransactionLookup
<1> QED
  BY <1>2, <1>3 DEF ReadHashAtHeight

\* A block is found canonical when it is the one read (verify.py:47-52).
LEMMA CanonicalAccepts ==
  ASSUME TypeInv, AcceptInv, Call, ReadHeaderAtHeight
  PROVE  AcceptInv'
<1> DEFINE canonical == CanonicalChecks(bundle, stop)
           challenge == ChallengeChecks(bundle)
<1>1. /\ pc = "canonical" /\ verdict = "none"
      /\ UNCHANGED <<nodeVars, bundle, disturbed>>
      /\ Passes(StartChecks(bundle, Network))
  BY DEF ReadHeaderAtHeight, Call, TypeInv, VerifierTypeOK, AcceptInv, StartInv
<1>2. Named(canonical) /\ Named(challenge) /\ Named(canonical \o challenge)
  BY NamedLists, NamedConcat
<1>3. ASSUME Passes(canonical), StopHeight(bundle, stop) \notin disturbed
      PROVE  On(stop)
  <2>1. canonical[3].ok
    BY <1>3 DEF Passes, CanonicalChecks
  <2>2. atHeight = StopBlock(bundle, stop)
    BY <2>1 DEF CanonicalChecks, Check
  <2>3. ReadAt(stop)
    BY <1>1, <1>3, StopsAreNats DEF AcceptInv, StopInv
  <2> QED
    BY <2>2, <2>3 DEF On, ReadAt
<1> HIDE DEF canonical, challenge
<1>4. CASE stop # Challenge /\ Decide(canonical, "proof", stop)
  <2>1. ASSUME Passes(canonical), Goto("proof", stop), NEW k \in Stops(bundle)
        PROVE  /\ StopHeight(bundle, k) \notin disturbed /\ Found(k)' => On(k)
               /\ Included(k)' => Contains(k)
               /\ Reached(k)' => CheckedAt(k)
    BY <1>1, <1>3, <2>1
       DEF Goto, AcceptInv, StopInv, Found, Included, Reached, TransactionLookup
  <2> QED
    BY <1>1, <1>2, <1>4, <2>1, DecideAccepts DEF Pcs
<1>5. CASE stop = Challenge /\ Decide(canonical \o challenge, "header", Mint)
  <2>1. ASSUME Passes(canonical \o challenge)
        PROVE  Passes(canonical) /\ CheckedAt(Challenge)
    <3>1. Passes(canonical) /\ Passes(challenge)
      BY <1>2, <2>1, BothPass DEF Named, Sequence
    <3>2. StopChecks(bundle, Challenge, Tx[StopTxid(bundle, Challenge)])
            = challenge \o <<>>
      BY DEF StopChecks, challenge, Claim, Challenge, Mint
    <3>3. challenge \o <<>> = challenge
      BY <1>2, ConcatEmptySeq DEF Named
    <3> QED
      BY <3>1, <3>2, <3>3 DEF CheckedAt
  <2>2. ASSUME Passes(canonical \o challenge), Goto("header", Mint),
               NEW k \in Stops(bundle)
        PROVE  /\ StopHeight(bundle, k) \notin disturbed /\ Found(k)' => On(k)
               /\ Included(k)' => Contains(k)
               /\ Reached(k)' => CheckedAt(k)
    <3>1. /\ pc' = "header" /\ stop' = 3 /\ verdict' = "none" /\ stop = 2 /\ k \in Nat
      BY <1>1, <1>5, <2>2, StopsAreNats DEF Goto, Mint, Challenge
    <3>2. Reached(k)' => k < stop \/ k = stop
      BY <3>1 DEF Reached
    <3>3. /\ Found(k)' <=> Reached(k)'
          /\ Included(k)' => k < stop
      BY <3>1, <3>2 DEF Found, Included, TransactionLookup, Challenge
    <3>4. k < stop => Found(k) /\ Reached(k)
      BY DEF Found, Reached
    <3>5. k < stop /\ k # Challenge => Included(k)
      BY DEF Included, Reached
    <3>6. StopInv(k)
      BY DEF AcceptInv
    <3> QED
      BY <1>3, <1>5, <2>1, <2>2, <3>1, <3>2, <3>3, <3>4, <3>5, <3>6 DEF StopInv, Challenge
  <2> QED
    BY <1>1, <1>2, <1>5, <2>2, DecideAccepts DEF Pcs
<1> QED
  BY <1>4, <1>5 DEF ReadHeaderAtHeight, canonical, challenge

\* A stop is left when its transaction is in its block and its checks pass
\* (verify.py:55-76).
LEMMA PlaceAccepts ==
  ASSUME TypeInv, AcceptInv, Call, PlaceTransaction
  PROVE  AcceptInv'
<1> DEFINE here == <<Check("TRANSACTION_MISMATCH",
                           Header(StopBlock(bundle, stop)).height
                             = StopHeight(bundle, stop))>>
           made == StopChecks(bundle, stop, Tx[StopTxid(bundle, stop)])
           checks == here \o made
<1>1. /\ pc = "place" /\ verdict = "none"
      /\ UNCHANGED <<nodeVars, bundle, disturbed>>
      /\ Passes(StartChecks(bundle, Network))
      /\ stop \in Nat /\ stop \in Stops(bundle) /\ StopInv(stop)
  BY StopsAreNats
     DEF PlaceTransaction, Call, TypeInv, VerifierTypeOK, AcceptInv, StartInv
<1>2. Named(here)
  BY DEF Named, Range, Check
<1>3. Named(made) /\ Named(checks)
  BY <1>2, NamedStopChecks, NamedConcat
<1>4. \/ stop + 1 \in Stops(bundle) /\ Decide(checks, "header", stop + 1)
      \/ stop + 1 \notin Stops(bundle) /\ Decide(checks, "coin", stop)
  BY DEF PlaceTransaction
<1>5. Passes(checks) => CheckedAt(stop)
  <2> HIDE DEF here, made
  <2>1. Passes(checks) => Passes(made)
    BY <1>2, <1>3, BothPass DEF Named, Sequence
  <2> QED
    BY <2>1 DEF CheckedAt, made
<1>6. /\ StopHeight(bundle, stop) \notin disturbed => On(stop)
      /\ stop # Challenge => Contains(stop)
  BY <1>1 DEF StopInv, Found, Included, TransactionLookup
<1> HIDE DEF checks
<1>7. ASSUME Passes(checks), NEW k \in Stops(bundle), k <= stop
      PROVE  /\ StopHeight(bundle, k) \notin disturbed => On(k)
             /\ k # Challenge => Contains(k)
             /\ CheckedAt(k)
  <2>1. CASE k = stop
    BY <1>5, <1>6, <1>7, <2>1
  <2>2. CASE k < stop
    BY <2>2 DEF AcceptInv, StopInv, Found, Included, Reached
  <2> QED
    BY <1>1, <1>7, <2>1, <2>2, StopsAreNats
<1>8. CASE Decide(checks, "header", stop + 1)
  <2>1. ASSUME Passes(checks), Goto("header", stop + 1), NEW k \in Stops(bundle)
        PROVE  /\ StopHeight(bundle, k) \notin disturbed /\ Found(k)' => On(k)
               /\ Included(k)' => Contains(k)
               /\ Reached(k)' => CheckedAt(k)
    <3>1. /\ pc' = "header" /\ stop' = stop + 1 /\ verdict' = "none" /\ k \in Nat
      BY <1>1, <2>1, StopsAreNats DEF Goto
    <3>2. /\ Reached(k)' => k <= stop
          /\ Found(k)' => Reached(k)'
          /\ Included(k)' => Reached(k)' /\ k # Challenge
      BY <1>1, <3>1 DEF Reached, Found, Included, TransactionLookup
    <3> QED
      BY <1>7, <2>1, <3>2
  <2> QED
    BY <1>1, <1>3, <1>8, <2>1, DecideAccepts DEF Pcs
<1>9. CASE stop + 1 \notin Stops(bundle) /\ Decide(checks, "coin", stop)
  <2>1. ASSUME Passes(checks), Goto("coin", stop), NEW k \in Stops(bundle)
        PROVE  /\ StopHeight(bundle, k) \notin disturbed /\ Found(k)' => On(k)
               /\ Included(k)' => Contains(k)
               /\ Reached(k)' => CheckedAt(k)
    <3>1. k <= stop
      BY <1>1, <1>9 DEF Shaped, TypeInv, VerifierTypeOK, Stops
    <3>2. Included(k)' => k # Challenge
      BY DEF Included
    <3> QED
      BY <1>7, <2>1, <3>1, <3>2
  <2> QED
    BY <1>1, <1>3, <1>9, <2>1, DecideAccepts DEF Pcs
<1> QED
  BY <1>4, <1>8, <1>9

\* Every call keeps what was found.
LEMMA CallAccepts ==
  ASSUME TypeInv, AcceptInv, Call
  PROVE  AcceptInv'
<1>0. /\ UNCHANGED <<nodeVars, bundle, disturbed>>
      /\ verdict = "none" \/ pc = "done"
      /\ stop \in Nat /\ Stops(bundle) \subseteq Nat
  BY StopsAreNats DEF Call, TypeInv, VerifierTypeOK
<1> DEFINE Middle == Pcs \ {"idle", "network", "canonical", "done"}
           Kept(k) == /\ StopHeight(bundle, k) \notin disturbed /\ Found(k)' => On(k)
                      /\ Included(k)' => Contains(k)
                      /\ Reached(k)' => CheckedAt(k)
<1>1. ASSUME pc \notin {"idle", "network", "done"}
      PROVE  Passes(StartChecks(bundle, Network))
  BY <1>0, <1>1 DEF AcceptInv, StartInv
\* A step to another call of the same stop, or after the last one.
<1>2. ASSUME NEW nextPc \in Middle, pc # "done", Goto(nextPc, stop),
             nextPc \in TransactionLookup => pc \in TransactionLookup,
             nextPc \in {"fetch", "place"} =>
               pc \in {"fetch", "place"} \/ stop = Challenge \/ Contains(stop),
             nextPc \in {"coin", "best", "tip"} => pc \in {"coin", "best", "tip"},
             NEW k \in Stops(bundle)
      PROVE  Kept(k)
  <2>1. pc' = nextPc /\ stop' = stop /\ verdict' = "none"
    BY <1>0, <1>2 DEF Goto
  <2>2. Reached(k)' => Reached(k)
    BY <1>2, <2>1 DEF Reached
  <2>3. Found(k)' => Found(k)
    BY <1>2, <2>1, <2>2 DEF Found
  <2>4. Included(k)' => Included(k) \/ Contains(k)
    BY <1>2, <2>1, <2>2 DEF Included
  <2> QED
    BY <2>2, <2>3, <2>4 DEF AcceptInv, StopInv
<1> HIDE DEF Kept
<1>3. ASSUME NEW checks, Named(checks), NEW nextPc \in Middle,
             pc \notin {"idle", "network", "done"}, Decide(checks, nextPc, stop),
             nextPc \in TransactionLookup => pc \in TransactionLookup,
             Passes(checks) /\ nextPc \in {"fetch", "place"} =>
               pc \in {"fetch", "place"} \/ stop = Challenge \/ Contains(stop),
             nextPc \in {"coin", "best", "tip"} => pc \in {"coin", "best", "tip"}
      PROVE  AcceptInv'
  <2>1. Passes(checks) /\ Goto(nextPc, stop) => \A k \in Stops(bundle) : Kept(k)
    BY <1>2, <1>3
  <2> QED
    BY <1>0, <1>1, <1>3, <2>1, DecideAccepts DEF Kept
<1>4. CASE ReadNetwork
  <2>1. pc = "network" /\ Decide(StartChecks(bundle, Network), "header", Claim)
    BY <1>4 DEF ReadNetwork
  <2>2. ASSUME Goto("header", Claim), NEW k \in Stops(bundle)
        PROVE  ~Found(k)' /\ ~Included(k)' /\ ~Reached(k)'
    <3>1. pc' = "header" /\ stop' = 1 /\ verdict' = "none" /\ k >= 1
      BY <1>0, <2>1, <2>2 DEF Goto, Claim, Stops
    <3> QED
      BY <1>0, <3>1 DEF Found, Included, Reached, TransactionLookup
  <2>3. "header" \in Middle
    BY DEF Pcs
  <2> QED
    BY <1>0, <2>1, <2>2, <2>3, NamedLists, DecideAccepts
<1>5. CASE ReadHeader
  <2>1. pc = "header" /\ (Finish("HEADER_LOOKUP") \/ Goto("height", stop))
    BY <1>5 DEF ReadHeader
  <2>2. "height" \in Middle /\ "height" \notin TransactionLookup
    BY DEF Pcs, TransactionLookup
  <2>3. CASE Goto("height", stop)
    <3>1. \A k \in Stops(bundle) : Kept(k)
      BY <1>2, <2>1, <2>2, <2>3
    <3> QED
      BY <1>0, <1>1, <2>1, <2>2, <2>3, <3>1, GotoAccepts DEF Kept
  <2> QED
    BY <1>0, <2>1, <2>3, FinishAccepts
<1>6. CASE ReadHashAtHeight
  BY <1>6, HashAccepts
<1>7. CASE ReadHeaderAtHeight
  BY <1>7, CanonicalAccepts
<1>8. CASE VerifyProof
  <2>1. \A ok : Named(<<Check("BAD_INCLUSION_PROOF", ok)>>)
    BY DEF Named, Range, Check
  <2>2. pc = "proof" /\ "included" \in Middle /\ {"proof", "included"} \subseteq TransactionLookup
    BY <1>8 DEF VerifyProof, Pcs, TransactionLookup
  <2> QED
    BY <1>0, <1>3, <1>8, <2>1, <2>2, FinishAccepts DEF VerifyProof
<1>9. CASE CheckIncluded
  <2> DEFINE checks == <<Check("BAD_INCLUSION_PROOF",
                               OnActiveChain(StopBlock(bundle, stop)))>>
  <2>1. Named(checks)
    BY DEF Named, Range, Check
  <2>2. pc = "included" /\ "fetch" \in Middle /\ {"included", "fetch"} \subseteq TransactionLookup
    BY <1>9 DEF CheckIncluded, Pcs, TransactionLookup
  <2>3. CASE Finish("TRANSACTION_LOOKUP")
    BY <1>0, <2>3, FinishAccepts
  <2>4. CASE StopTxid(bundle, stop) \in blocks[StopBlock(bundle, stop)].txs
               /\ Decide(checks, "fetch", stop)
    <3>1. Passes(checks) => Contains(stop)
      <4>1. chain \in Seq(BlockHashes)
        BY ChainEnd DEF TypeInv
      <4>2. Passes(checks) => OnActiveChain(StopBlock(bundle, stop))
        BY DEF Passes, Check
      <4> QED
        BY <2>4, <4>1, <4>2 DEF Contains, OnActiveChain
    <3> QED
      BY <1>3, <2>1, <2>2, <2>4, <3>1
  <2> QED
    BY <1>9, <2>3, <2>4 DEF CheckIncluded
<1>10. CASE FetchTransaction
  <2>1. \A ok : Named(<<Check("TRANSACTION_LOOKUP", ok)>>)
    BY DEF Named, Range, Check
  <2>2. pc = "fetch" /\ "place" \in Middle /\ {"fetch", "place"} \subseteq TransactionLookup
    BY <1>10 DEF FetchTransaction, Pcs, TransactionLookup
  <2> QED
    BY <1>3, <1>10, <2>1, <2>2 DEF FetchTransaction
<1>11. CASE PlaceTransaction
  BY <1>11, PlaceAccepts
<1>12. CASE ReadCoin
  <2>1. pc = "coin" /\ "best" \in Middle /\ "best" \notin TransactionLookup
    BY <1>12 DEF ReadCoin, Pcs, TransactionLookup
  <2> QED
    BY <1>3, <1>12, <2>1, NamedLists DEF ReadCoin
<1>13. CASE ReadBestHash
  <2>1. pc = "best" /\ "tip" \in Middle /\ "tip" \notin TransactionLookup
          /\ Goto("tip", stop)
    BY <1>13 DEF ReadBestHash, Pcs, TransactionLookup
  <2>2. \A k \in Stops(bundle) : Kept(k)
    BY <1>2, <2>1
  <2> QED
    BY <1>0, <1>1, <2>1, <2>2, GotoAccepts DEF Kept
<1>14. CASE ReadTip
  <2> DEFINE checks == TipChecks(bundle, Header(best), blocks[bundle.mint.block].chainwork)
  <2>1. CASE Fail(checks)
    BY <1>0, <2>1, NamedLists, FinishAccepts DEF Fail, Named
  <2>2. CASE Finish("VALID")
    <3>1. /\ pc = "tip" /\ pc' = "done" /\ verdict' = "VALID" /\ stop' = stop
          /\ blocks' = blocks /\ chain' = chain /\ bundle' = bundle
          /\ disturbed' = disturbed
      BY <1>0, <1>14, <2>2 DEF Finish, ReadTip, nodeVars
    <3>2. Passes(StartChecks(bundle, Network))
      BY <1>1, <3>1
    <3>3. \A k \in Stops(bundle) :
            /\ StopHeight(bundle, k) \notin disturbed => On(k)
            /\ k # Challenge => Contains(k)
            /\ CheckedAt(k)
      BY <3>1 DEF AcceptInv, StopInv, Found, Included, Reached
    <3>4. StartInv'
      BY <3>1, <3>2 DEF StartInv
    <3>5. \A k \in Stops(bundle) : StopInv(k)'
      BY <3>1, <3>3 DEF StopInv, Included, On, Contains, CheckedAt, BlockHashes
    <3> QED
      BY <3>1, <3>4, <3>5 DEF AcceptInv
  <2> QED
    BY <1>14, <2>1, <2>2 DEF ReadTip
<1>15. CASE RpcFails
  BY <1>0, <1>15, FinishAccepts DEF RpcFails
<1> QED
  BY <1>4, <1>5, <1>6, <1>7, <1>8, <1>9, <1>10, <1>11, <1>12, <1>13, <1>14, <1>15
     DEF Call

\* A change of the chain takes nothing from what was found about a stop, unless
\* it disconnects the stop's block.
LEMMA ChainAccepts ==
  ASSUME TypeInv, AcceptInv, UNCHANGED <<verifierVars, bundle>>, BlocksKept,
         disturbed \subseteq disturbed',
         \A h \in DOMAIN chain :
           h \notin disturbed' => h \in DOMAIN chain' /\ chain'[h] = chain[h]
  PROVE  AcceptInv'
<1>1. /\ pc' = pc /\ stop' = stop /\ verdict' = verdict /\ atHeight' = atHeight
      /\ bundle' = bundle
  BY DEF verifierVars
<1>2. StartInv'
  BY <1>1 DEF AcceptInv, StartInv
<1>3. ASSUME NEW k \in Stops(bundle)
      PROVE  StopInv(k)'
  <2>1. /\ Reached(k)' <=> Reached(k)
        /\ Found(k)' <=> Found(k)
        /\ Included(k)' <=> Included(k)
        /\ CheckedAt(k)' <=> CheckedAt(k)
    BY <1>1 DEF Reached, Found, Included, CheckedAt
  <2>2. Contains(k) => Contains(k)'
    BY <1>1 DEF Contains, BlocksKept
  <2>3. ASSUME StopHeight(bundle, k) \notin disturbed'
        PROVE  (On(k) => On(k)') /\ (ReadAt(k) => ReadAt(k)')
    BY <1>1, <2>3 DEF On, ReadAt
  <2> QED
    BY <1>1, <2>1, <2>2, <2>3 DEF AcceptInv, StopInv
<1> QED
  BY <1>1, <1>2, <1>3 DEF AcceptInv

\* What was found holds in every state.
LEMMA AcceptKept == TypeInv /\ AcceptInv /\ [Next]_vars => AcceptInv'
<1> SUFFICES ASSUME TypeInv, AcceptInv, [Next]_vars PROVE AcceptInv'
  OBVIOUS
<1>1. CASE Begin
  <2>1. pc' = "network" /\ verdict' = "none" /\ stop' = 1 /\ bundle' = bundle
    BY <1>1 DEF Begin, Goto, Claim, TypeInv, VerifierTypeOK
  <2>2. ASSUME NEW k \in Stops(bundle)
        PROVE  StopInv(k)'
    <3>1. k \in Nat /\ k >= 1
      BY StopsAreNats DEF Stops
    <3> QED
      BY <2>1, <3>1 DEF StopInv, Found, Included, Reached, TransactionLookup
  <2> QED
    BY <2>1, <2>2 DEF AcceptInv, StartInv
<1>2. CASE Call
  BY <1>2, CallAccepts
<1>3. CASE ChainGrows
  BY <1>3, ExtendKeeps, ChainAccepts DEF ChainGrows, TypeInv, ChainKept
<1>4. CASE ChainReorganizes
  <2>1. UNCHANGED blocks
    BY <1>4, ReorganizeKeeps DEF ChainReorganizes, TypeInv
  <2>2. BlocksKept
    BY <2>1 DEF BlocksKept, BlockHashes
  <2>3. /\ UNCHANGED <<verifierVars, bundle>> /\ disturbed \subseteq disturbed'
        /\ \A h \in DOMAIN chain :
             h \notin disturbed' => h \in DOMAIN chain' /\ chain'[h] = chain[h]
    BY <1>4 DEF ChainReorganizes
  <2> QED
    BY <2>2, <2>3, ChainAccepts
<1>5. CASE UNCHANGED vars
  <2>1. /\ UNCHANGED <<verifierVars, bundle>> /\ disturbed' = disturbed
        /\ blocks' = blocks /\ chain' = chain
    BY <1>5 DEF vars, nodeVars
  <2>2. BlocksKept
    BY <2>1 DEF BlocksKept, BlockHashes
  <2> QED
    BY <2>1, <2>2, ChainAccepts
<1> QED
  BY <1>1, <1>2, <1>3, <1>4, <1>5 DEF Next, Step

\* Nothing has been found yet.
LEMMA AcceptStarts == Init => AcceptInv
<1> SUFFICES ASSUME Init PROVE AcceptInv
  OBVIOUS
<1>1. pc = "idle" /\ verdict = "none" /\ stop = 1
  BY DEF Init, Claim
<1>2. ASSUME NEW k \in Stops(bundle)
      PROVE  StopInv(k)
  <2>1. k \in Nat /\ k >= 1
    BY StopsAreNats, TypesStart DEF Stops
  <2> QED
    BY <1>1, <2>1 DEF StopInv, Found, Included, Reached, TransactionLookup
<1> QED
  BY <1>1, <1>2 DEF AcceptInv, StartInv

\* No branch of the node spends an output twice, whatever it is doing.
LEMMA LedgerKept == TypeInv /\ LedgerInv /\ [Next]_vars => LedgerInv'
<1> SUFFICES ASSUME TypeInv, LedgerInv, [Next]_vars PROVE LedgerInv'
  OBVIOUS
<1>1. CASE UNCHANGED blocks
  BY <1>1, ReorganizeSettles
<1>2. CASE ChainGrows
  BY <1>1, <1>2, GenerateSettles DEF ChainGrows, Extend, Broadcast, TypeInv
<1>3. CASE ChainReorganizes
  BY <1>1, <1>3, ReorganizeKeeps DEF ChainReorganizes, TypeInv
<1> QED
  BY <1>1, <1>2, <1>3 DEF Next, Step, Begin, Call, vars, nodeVars

\* What was found at the stops is all of an atom.
LEMMA AcceptedHolds == TypeInv /\ LedgerInv /\ AcceptInv => AcceptedIsGenuine
<1> SUFFICES ASSUME TypeInv, LedgerInv, AcceptInv, verdict = "VALID", Undisturbed
             PROVE  /\ bundle.profile \in DOMAIN Profiles
                    /\ Network = Profiles[bundle.profile].network
                    /\ GenuineHistory(chain, bundle)
  BY DEF AcceptedIsGenuine
<1>1. \A k \in Stops(bundle) : StopHeight(bundle, k) \notin disturbed
  BY DEF Undisturbed
<1>2. ASSUME NEW k \in Stops(bundle)
      PROVE  On(k) /\ (k # Challenge => Contains(k)) /\ CheckedAt(k)
  BY <1>1 DEF AcceptInv, StopInv, Found, Included, Reached
<1>3. FullyChecked(chain, bundle)
  BY <1>2 DEF FullyChecked, LoadedAt, ConfirmedAt, On, Contains, CheckedAt
<1>4. Passes(StartChecks(bundle, Network)) /\ Len(bundle.transfers) \in Nat
  BY DEF Shaped, AcceptInv, StartInv, TypeInv, VerifierTypeOK, Pcs
<1> QED
  BY <1>3, <1>4, CheckedIsGenuine DEF TypeInv

\* A bundle that verify_bundle accepts is a genuine atom of the active chain, all
\* of it at once, as long as no block it is in was disconnected meanwhile
\* (verify.py:146-387).
THEOREM AcceptedAtomsAreGenuine == Spec => []AcceptedIsGenuine
<1>1. Init => LedgerInv
  BY LedgerStarts DEF Init
<1> QED
  BY <1>1, AcceptedHolds, TypesStart, TypesKept, LedgerKept, AcceptStarts, AcceptKept, PTL
     DEF Spec
-----------------------------------------------------------------------------
(* The assay of a node that stands still *)

\* No transaction is in two blocks of the chain.
OnceConfirmed ==
  \A g, h \in DOMAIN chain : blocks[chain[g]].txs \cap blocks[chain[h]].txs # {} => g = h

\* The inclusion proof has been checked.
ProofRead(k) ==
  k # Challenge /\ (Reached(k) \/ (k = stop /\ pc \in {"included", "fetch", "place"}))

Proven(k) ==
  /\ OnActiveChain(StopProof(bundle, k).block)
  /\ StopTxid(bundle, k) \in CommittedTxids(StopProof(bundle, k))

\* What verify_bundle reads stays so, as the chain does not change.
ReadInv ==
  /\ \A k \in Stops(bundle) : ProofRead(k) => Proven(k)
  /\ pc \in {"best", "tip"} \/ verdict = "VALID" => Visible(TerminalTitle(bundle))
  /\ pc = "tip" \/ verdict = "VALID" => best = chain[Len(chain)]

VerifyInv ==
  /\ TypeInv /\ LedgerInv /\ BranchesRise /\ OnceConfirmed /\ disturbed = {}
  /\ AcceptInv /\ BurialInv /\ ReadInv

\* Consensus lets no transaction of the first blocks happen twice.
LEMMA OnceStarts ==
  ASSUME NodeInit
  PROVE  OnceConfirmed
<1>1. /\ Len(History) \in Nat /\ DOMAIN History = 1..Len(History)
  BY NodeAssumption
<1>2. PICK w \in BlockWorks :
        blocks = [n \in DOMAIN History |->
                    [branch    |-> [h \in 1..n |-> h],
                     txs       |-> History[n],
                     chainwork |-> n * w]]
  BY DEF NodeInit
<1>3. /\ DOMAIN chain = 1..Len(History)
      /\ \A h \in DOMAIN chain : blocks[chain[h]].txs = History[h]
  BY <1>1, <1>2 DEF NodeInit
<1>4. ASSUME NEW g \in 1..Len(History), NEW h \in 1..Len(History), g < h
      PROVE  History[g] \cap History[h] = {}
  <2>1. Connectable(History[h], UNION {History[f] : f \in 1..(h - 1)})
    BY <1>1, LedgerAssumption
  <2>2. History[g] \subseteq UNION {History[f] : f \in 1..(h - 1)}
    BY <1>1, <1>4
  <2> QED
    BY <2>1, <2>2 DEF Connectable
<1>5. ASSUME NEW g \in 1..Len(History), NEW h \in 1..Len(History),
             History[g] \cap History[h] # {}
      PROVE  g = h
  <2>1. CASE g < h
    BY <1>4, <1>5, <2>1
  <2>2. CASE h < g
    BY <1>4, <1>5, <2>2
  <2> QED
    BY <1>1, <2>1, <2>2
<1> QED
  BY <1>3, <1>5 DEF OnceConfirmed

\* An assay that ends without a report has read nothing more.
LEMMA FinishReads ==
  ASSUME TypeInv, ReadInv, UNCHANGED <<nodeVars, bundle>>,
         NEW outcome, outcome \notin {"none", "VALID"}, Finish(outcome)
  PROVE  ReadInv'
<1>1. /\ pc' = "done" /\ verdict' = outcome /\ stop' = stop
      /\ blocks' = blocks /\ chain' = chain /\ bundle' = bundle
  BY DEF Finish, nodeVars
<1>2. ASSUME NEW k \in Stops(bundle), ProofRead(k)' PROVE Proven(k)'
  <2>1. ProofRead(k)
    BY <1>1, <1>2 DEF ProofRead, Reached
  <2> QED
    BY <1>1, <2>1 DEF ReadInv, Proven, OnActiveChain, CommittedTxids
<1> QED
  BY <1>1, <1>2 DEF ReadInv

\* Going on keeps what was read, if what counts as read from then on was.
LEMMA GotoReads ==
  ASSUME TypeInv, ReadInv, UNCHANGED <<nodeVars, bundle>>, verdict = "none",
         NEW nextPc, NEW nextStop, Goto(nextPc, nextStop),
         \A k \in Stops(bundle) : ProofRead(k)' => ProofRead(k) \/ Proven(k),
         nextPc \in {"best", "tip"} => Visible(TerminalTitle(bundle)),
         nextPc # "tip"
  PROVE  ReadInv'
<1>1. /\ pc' = nextPc /\ verdict' = "none" /\ stop' = nextStop
      /\ blocks' = blocks /\ chain' = chain /\ mempool' = mempool /\ bundle' = bundle
  BY DEF Goto, nodeVars
<1>2. ASSUME NEW k \in Stops(bundle), ProofRead(k)' PROVE Proven(k)'
  <2>1. Proven(k)
    BY <1>2 DEF ReadInv
  <2> QED
    BY <1>1, <2>1 DEF Proven, OnActiveChain, CommittedTxids
<1>3. Visible(TerminalTitle(bundle)) => Visible(TerminalTitle(bundle))'
  BY <1>1 DEF Visible, Confirmed
<1> QED
  BY <1>1, <1>2, <1>3 DEF ReadInv

\* The same for a list of checks.
LEMMA DecideReads ==
  ASSUME TypeInv, ReadInv, UNCHANGED <<nodeVars, bundle>>, verdict = "none",
         NEW checks, Named(checks), NEW nextPc, NEW nextStop,
         Decide(checks, nextPc, nextStop),
         Passes(checks) /\ Goto(nextPc, nextStop) =>
           /\ \A k \in Stops(bundle) : ProofRead(k)' => ProofRead(k) \/ Proven(k)
           /\ nextPc \in {"best", "tip"} => Visible(TerminalTitle(bundle)),
         nextPc # "tip"
  PROVE  ReadInv'
<1>1. CASE Passes(checks) /\ Goto(nextPc, nextStop)
  BY <1>1, GotoReads
<1>2. CASE Fail(checks)
  BY <1>2, FinishReads DEF Fail, Named
<1> QED
  BY <1>1, <1>2 DEF Decide

\* Every call of verify_bundle keeps what it has read.
LEMMA CallReads ==
  ASSUME TypeInv, ReadInv, Call
  PROVE  ReadInv'
<1>0. /\ UNCHANGED <<nodeVars, bundle>>
      /\ verdict = "none" \/ pc = "done"
      /\ stop \in Nat /\ stop \in Stops(bundle) /\ Stops(bundle) \subseteq Nat
      /\ \A k \in Stops(bundle) : k >= 1 /\ k <= 3 + Len(bundle.transfers)
      /\ Len(bundle.transfers) \in Nat
  BY StopsAreNats DEF Shaped, Call, TypeInv, VerifierTypeOK, Stops
\* A step to another call of the same stop.
<1>1. ASSUME verdict = "none", NEW nextPc, Goto(nextPc, stop), NEW k \in Stops(bundle),
             nextPc \notin {"coin", "best", "tip"},
             nextPc \in {"included", "fetch", "place"} =>
               pc \in {"included", "fetch", "place"} \/ stop = Challenge \/ Proven(stop)
      PROVE  ProofRead(k)' => ProofRead(k) \/ Proven(k)
  BY <1>1 DEF Goto, ProofRead, Reached
<1>2. CASE ReadNetwork
  <2>1. pc = "network" /\ Decide(StartChecks(bundle, Network), "header", Claim)
    BY <1>2 DEF ReadNetwork
  <2>2. ASSUME Goto("header", Claim), NEW k \in Stops(bundle)
        PROVE  ~ProofRead(k)'
    <3>1. pc' = "header" /\ stop' = 1 /\ verdict' = "none" /\ k >= 1
      BY <1>0, <2>1, <2>2 DEF Goto, Claim
    <3> QED
      BY <1>0, <3>1 DEF ProofRead, Reached
  <2> QED
    BY <1>0, <2>1, <2>2, NamedLists, DecideReads
<1>3. CASE ReadHeader
  <2>1. pc = "header" /\ (Finish("HEADER_LOOKUP") \/ Goto("height", stop))
    BY <1>3 DEF ReadHeader
  <2> QED
    BY <1>0, <1>1, <2>1, FinishReads, GotoReads
<1>4. CASE ReadHashAtHeight
  <2>1. pc = "height" /\ (Finish("HEADER_LOOKUP") \/ Goto("canonical", stop))
    BY <1>4 DEF ReadHashAtHeight
  <2> QED
    BY <1>0, <1>1, <2>1, FinishReads, GotoReads
<1>5. CASE ReadHeaderAtHeight
  <2>1. CASE stop # Challenge
    <3>1. pc = "canonical" /\ Decide(CanonicalChecks(bundle, stop), "proof", stop)
      BY <1>5, <2>1 DEF ReadHeaderAtHeight
    <3>2. Named(CanonicalChecks(bundle, stop))
      BY NamedLists
    <3> QED
      BY <1>0, <1>1, <3>1, <3>2, DecideReads
  <2>2. CASE stop = Challenge
    <3> DEFINE checks == CanonicalChecks(bundle, stop) \o ChallengeChecks(bundle)
    <3>1. pc = "canonical" /\ Decide(checks, "header", Mint)
      BY <1>5, <2>2 DEF ReadHeaderAtHeight
    <3>2. Named(checks)
      BY NamedLists, NamedConcat
    <3>3. ASSUME Goto("header", Mint), NEW k \in Stops(bundle)
          PROVE  ProofRead(k)' => ProofRead(k)
      BY <1>0, <2>2, <3>1, <3>3 DEF Goto, ProofRead, Reached, Mint, Challenge
    <3> HIDE DEF checks
    <3> QED
      BY <1>0, <3>1, <3>2, <3>3, DecideReads
  <2> QED
    BY <2>1, <2>2
<1>6. CASE VerifyProof
  <2> DEFINE checks == <<Check("BAD_INCLUSION_PROOF",
                               StopTxid(bundle, stop)
                                 \in CommittedTxids(StopProof(bundle, stop)))>>
  <2>1. /\ pc = "proof"
        /\ \/ Finish("TRANSACTION_LOOKUP")
           \/ /\ OnActiveChain(StopProof(bundle, stop).block)
              /\ Decide(checks, "included", stop)
    BY <1>6 DEF VerifyProof
  <2>2. Named(checks)
    BY DEF Named, Range, Check
  <2>3. ASSUME Passes(checks)
        PROVE  StopTxid(bundle, stop) \in CommittedTxids(StopProof(bundle, stop))
    <3>1. checks[1].ok
      BY <2>3 DEF Passes
    <3> QED
      BY <3>1 DEF Check
  <2> HIDE DEF checks
  <2>4. CASE Finish("TRANSACTION_LOOKUP")
    BY <1>0, <2>1, <2>4, FinishReads
  <2>5. CASE OnActiveChain(StopProof(bundle, stop).block)
               /\ Decide(checks, "included", stop)
    BY <1>0, <1>1, <2>1, <2>2, <2>5, <2>3, DecideReads DEF Proven
  <2> QED
    BY <2>1, <2>4, <2>5
<1>7. CASE CheckIncluded
  <2> DEFINE checks == <<Check("BAD_INCLUSION_PROOF",
                               OnActiveChain(StopBlock(bundle, stop)))>>
  <2>1. pc = "included" /\ (Finish("TRANSACTION_LOOKUP") \/ Decide(checks, "fetch", stop))
    BY <1>7 DEF CheckIncluded
  <2>2. Named(checks)
    BY DEF Named, Range, Check
  <2> HIDE DEF checks
  <2> QED
    BY <1>0, <1>1, <2>1, <2>2, FinishReads, DecideReads
<1>8. CASE FetchTransaction
  <2> DEFINE checks == <<Check("TRANSACTION_LOOKUP",
                               OnActiveChain(StopBlock(bundle, stop)))>>
  <2>1. pc = "fetch" /\ Decide(checks, "place", stop)
    BY <1>8 DEF FetchTransaction
  <2>2. Named(checks)
    BY DEF Named, Range, Check
  <2> HIDE DEF checks
  <2> QED
    BY <1>0, <1>1, <2>1, <2>2, DecideReads
<1>9. CASE PlaceTransaction
  <2> DEFINE checks == <<Check("TRANSACTION_MISMATCH",
                               Header(StopBlock(bundle, stop)).height
                                 = StopHeight(bundle, stop))>>
                       \o StopChecks(bundle, stop, Tx[StopTxid(bundle, stop)])
  <2>1. /\ pc = "place"
        /\ \/ Decide(checks, "header", stop + 1)
           \/ stop + 1 \notin Stops(bundle) /\ Decide(checks, "coin", stop)
    BY <1>9 DEF PlaceTransaction
  <2>2. Named(checks)
    <3>1. Named(<<Check("TRANSACTION_MISMATCH",
                        Header(StopBlock(bundle, stop)).height
                          = StopHeight(bundle, stop))>>)
      BY DEF Named, Range, Check
    <3> QED
      BY <3>1, NamedStopChecks, NamedConcat
  <2> HIDE DEF checks
  <2>3. CASE Decide(checks, "header", stop + 1)
    <3>1. ASSUME Goto("header", stop + 1), NEW k \in Stops(bundle)
          PROVE  ProofRead(k)' => ProofRead(k)
      BY <1>0, <2>1, <3>1 DEF Goto, ProofRead, Reached
    <3> QED
      BY <1>0, <2>1, <2>2, <2>3, <3>1, DecideReads
  <2>4. CASE stop + 1 \notin Stops(bundle) /\ Decide(checks, "coin", stop)
    <3>1. \A k \in Stops(bundle) : k <= stop
      BY <1>0, <2>4 DEF Stops
    <3>2. ASSUME Goto("coin", stop), NEW k \in Stops(bundle)
          PROVE  ProofRead(k)' => ProofRead(k)
      BY <1>0, <2>1, <3>1, <3>2 DEF Goto, ProofRead, Reached
    <3> QED
      BY <1>0, <2>1, <2>2, <2>4, <3>2, DecideReads
  <2> QED
    BY <2>1, <2>3, <2>4
<1>10. CASE ReadCoin
  <2>1. pc = "coin" /\ Decide(CoinChecks(bundle), "best", stop)
    BY <1>10 DEF ReadCoin
  <2>2. Passes(CoinChecks(bundle)) => Visible(TerminalTitle(bundle))
    BY TwoPass DEF CoinChecks, Check, Passes
  <2>3. ASSUME Goto("best", stop), NEW k \in Stops(bundle)
        PROVE  ProofRead(k)' => ProofRead(k)
    BY <2>1, <2>3 DEF Goto, ProofRead, Reached
  <2> QED
    BY <1>0, <2>1, <2>2, <2>3, NamedLists, DecideReads
\* From here on nothing is asked of the stops any more.
<1>11. ASSUME pc \in {"best", "tip"}, pc' = "tip" \/ verdict' = "VALID",
              best' = chain[Len(chain)]
       PROVE  ReadInv'
  <2>1. blocks' = blocks /\ chain' = chain /\ mempool' = mempool /\ bundle' = bundle
    BY <1>0 DEF nodeVars
  <2>2. ASSUME NEW k \in Stops(bundle), k # Challenge PROVE Proven(k)'
    <3>1. Proven(k)
      BY <1>11, <2>2 DEF ReadInv, ProofRead, Reached
    <3> QED
      BY <2>1, <3>1 DEF Proven, OnActiveChain, CommittedTxids
  <2>3. Visible(TerminalTitle(bundle))'
    BY <1>11, <2>1 DEF ReadInv, Visible, Confirmed
  <2> QED
    BY <1>11, <2>1, <2>2, <2>3 DEF ReadInv, ProofRead
<1>12. CASE ReadBestHash
  BY <1>11, <1>12 DEF ReadBestHash, Goto
<1>13. CASE ReadTip
  <2> DEFINE checks == TipChecks(bundle, Header(best),
                                 blocks[bundle.mint.block].chainwork)
  <2>1. pc = "tip" /\ best' = best /\ (Finish("VALID") \/ Fail(checks))
    BY <1>13 DEF ReadTip
  <2>2. CASE Finish("VALID")
    BY <1>11, <2>1, <2>2 DEF Finish, ReadInv
  <2>3. CASE Fail(checks)
    BY <1>0, <2>3, NamedLists, FinishReads DEF Fail, Named
  <2> QED
    BY <2>1, <2>2, <2>3
<1>14. CASE RpcFails
  BY <1>0, <1>14, FinishReads DEF RpcFails
<1>15. pc # "done"
  BY DEF Call, ReadNetwork, ReadHeader, ReadHashAtHeight, ReadHeaderAtHeight,
         VerifyProof, CheckIncluded, FetchTransaction, PlaceTransaction,
         ReadCoin, ReadBestHash, ReadTip, RpcFails, HeaderLookup, TransactionLookup
<1> QED
  BY <1>2, <1>3, <1>4, <1>5, <1>6, <1>7, <1>8, <1>9, <1>10, <1>12, <1>13, <1>14 DEF Call

\* An assay of a bundle begins afresh, whatever the last one left.
LEMMA FreshAccepts ==
  ASSUME NodeInv, LedgerInv, UNCHANGED <<nodeVars, disturbed>>, disturbed = {},
         Shaped(bundle'), pc' \in {"idle", "network"}, stop' = Claim, verdict' = "none",
         header' \in [height : Nat, confirmations : Int, chainwork : Nat],
         atHeight' \in Nat, best' \in Nat
  PROVE  /\ TypeInv' /\ LedgerInv' /\ AcceptInv'
         /\ \A k \in Stops(bundle)' : ~ProofRead(k)'
<1>1. blocks' = blocks /\ chain' = chain /\ mempool' = mempool /\ disturbed' = {}
  BY DEF nodeVars
<1>2. Len(bundle.transfers)' \in Nat
  BY DEF Shaped
<1>3. stop' \in Stops(bundle)' /\ Stops(bundle)' \subseteq Nat
      /\ \A k \in Stops(bundle)' : k >= stop' /\ stop' \in Nat
  BY <1>2 DEF Stops, Claim
<1>4. NodeInv'
  BY <1>1 DEF NodeInv, NodeTypeOK, BranchesEnd, ChainIsBranch, BlockHashes
<1>5. VerifierTypeOK'
  BY <1>1, <1>3 DEF VerifierTypeOK, Pcs
<1>6. LedgerInv'
  BY <1>1, ReorganizeSettles
<1>7. ASSUME NEW k \in Stops(bundle)'
      PROVE  StopInv(k)' /\ ~ProofRead(k)'
  BY <1>3 DEF StopInv, Found, Included, Reached, TransactionLookup, ProofRead
<1>8. AcceptInv'
  BY <1>7 DEF AcceptInv, StartInv
<1> QED
  BY <1>4, <1>5, <1>6, <1>7, <1>8 DEF TypeInv

LEMMA FreshVerifies ==
  ASSUME NodeInv, LedgerInv, BranchesRise, OnceConfirmed, disturbed = {},
         UNCHANGED <<nodeVars, disturbed>>, Shaped(bundle'),
         pc' \in {"idle", "network"}, stop' = Claim, verdict' = "none",
         header' \in [height : Nat, confirmations : Int, chainwork : Nat],
         atHeight' \in Nat, best' \in Nat
  PROVE  VerifyInv'
<1>1. blocks' = blocks /\ chain' = chain /\ disturbed' = {}
  BY DEF nodeVars
<1>2. /\ TypeInv' /\ LedgerInv' /\ AcceptInv'
      /\ \A k \in Stops(bundle)' : ~ProofRead(k)'
  BY FreshAccepts
<1>3. BranchesRise' /\ OnceConfirmed'
  BY <1>1, SameBranchesRise DEF OnceConfirmed
<1>4. ReadInv'
  BY <1>2 DEF ReadInv
<1>5. BurialInv'
  BY DEF BurialInv, MintPlaced, MintSettled, BestKnown, DeepEnough, ProfileKnown,
         TransactionLookup, HeaderLookup
<1> QED
  BY <1>1, <1>2, <1>3, <1>4, <1>5 DEF VerifyInv

\* A call is a step of the verifier's own specification.
LEMMA CallVerifies ==
  ASSUME VerifyInv, Call
  PROVE  VerifyInv'
<1>1. [Next]_vars /\ UNCHANGED <<nodeVars, bundle, disturbed>>
  BY DEF Next, Step, Call
<1>2. blocks' = blocks /\ chain' = chain /\ disturbed' = disturbed
  BY <1>1 DEF nodeVars
<1>3. TypeInv' /\ LedgerInv' /\ AcceptInv' /\ BurialInv'
  BY <1>1, TypesKept, LedgerKept, AcceptKept, BurialKept DEF VerifyInv
<1>4. BranchesRise' /\ OnceConfirmed'
  BY <1>2, SameBranchesRise DEF VerifyInv, OnceConfirmed
<1>5. ReadInv'
  BY CallReads DEF VerifyInv
<1> QED
  BY <1>2, <1>3, <1>4, <1>5 DEF VerifyInv

\* Nothing but a call moves the assay.
LEMMA StillVerifies ==
  ASSUME VerifyInv, UNCHANGED vars
  PROVE  VerifyInv'
<1>1. [Next]_vars
  OBVIOUS
<1>2. /\ blocks' = blocks /\ chain' = chain /\ mempool' = mempool /\ bundle' = bundle
      /\ pc' = pc /\ stop' = stop /\ best' = best /\ verdict' = verdict
      /\ disturbed' = disturbed
  BY DEF vars, nodeVars, verifierVars
<1>3. TypeInv' /\ LedgerInv' /\ AcceptInv' /\ BurialInv'
  BY <1>1, TypesKept, LedgerKept, AcceptKept, BurialKept DEF VerifyInv
<1>4. BranchesRise' /\ OnceConfirmed'
  BY <1>2, SameBranchesRise DEF VerifyInv, OnceConfirmed
<1>5. ReadInv'
  BY <1>2 DEF VerifyInv, ReadInv, ProofRead, Reached, Proven, OnActiveChain,
              CommittedTxids, Visible, Confirmed
<1> QED
  BY <1>2, <1>3, <1>4, <1>5 DEF VerifyInv

\* What is accepted of a chain that stands still is an atom with a title that the
\* node still holds, buried, and its proofs are of its blocks.
LEMMA AcceptedIsGood ==
  ASSUME VerifyInv, verdict = "VALID"
  PROVE  StaysGood /\ ProofsOnChain
<1>1. \A k \in Stops(bundle) : Reached(k) /\ Found(k)
  BY DEF Reached, Found
<1>2. \A k \in Stops(bundle) :
        On(k) /\ CheckedAt(k) /\ (k # Challenge => Included(k) /\ Contains(k))
  BY <1>1 DEF VerifyInv, AcceptInv, StopInv, Included
<1>3. FullyChecked(chain, bundle)
  BY <1>2 DEF FullyChecked, LoadedAt, ConfirmedAt, On, Contains, CheckedAt
<1>4. Passes(StartChecks(bundle, Network)) /\ Len(bundle.transfers) \in Nat
  BY DEF Shaped, VerifyInv, AcceptInv, StartInv, TypeInv, VerifierTypeOK, Pcs
<1>5. /\ bundle.profile \in DOMAIN Profiles
      /\ Network = Profiles[bundle.profile].network
      /\ GenuineHistory(chain, bundle)
  BY <1>3, <1>4, CheckedIsGenuine DEF VerifyInv, TypeInv
<1>6. Buried(chain, bundle)
  <2> DEFINE p == Profiles[bundle.profile]
  <2>1. /\ best = chain[Len(chain)] /\ blocks[best].branch = chain
        /\ Len(chain) \in Nat /\ blocks[best].chainwork \in Nat
    BY ChainEnd DEF VerifyInv, TypeInv, ReadInv
  <2>2. /\ Len(chain) - bundle.mint.height >= p.minimum_burial_blocks
        /\ blocks[best].chainwork - blocks[bundle.mint.block].chainwork
             >= p.minimum_burial_chainwork
    BY <2>1 DEF VerifyInv, BurialInv, DeepEnough
  <2>3. /\ p.minimum_burial_blocks \in Nat /\ p.minimum_burial_chainwork \in Nat
        /\ bundle.mint.height \in Nat
    BY <1>5, ProfilesAssumption DEF Shaped, Profile, VerifyInv, TypeInv, VerifierTypeOK
  <2>4. Mint \in Stops(bundle) /\ StopBlock(bundle, Mint) = bundle.mint.block
        /\ Mint # Challenge
    BY <1>4 DEF Stops, StopBlock, Mint, Claim, Challenge
  <2>5. bundle.mint.block \in BlockHashes
    BY <1>2, <2>4 DEF Contains
  <2>6. blocks[bundle.mint.block].chainwork \in Nat
    <3>1. blocks[bundle.mint.block] \in Block
      BY <2>5 DEF VerifyInv, TypeInv, NodeInv, NodeTypeOK, BlockHashes
    <3> QED
      BY <3>1 DEF Block
  <2> QED
    BY <2>1, <2>2, <2>3, <2>6 DEF Buried
<1>7. StaysGood
  BY <1>5, <1>6 DEF StaysGood, VerifyInv, ReadInv
<1>8. ASSUME NEW k \in Stops(bundle), k # Challenge
      PROVE  /\ StopProof(bundle, k).block = StopBlock(bundle, k)
             /\ StopTxid(bundle, k) \in CommittedTxids(StopProof(bundle, k))
  <2>1. Proven(k)
    BY <1>1, <1>8 DEF VerifyInv, ReadInv, ProofRead
  <2>2. PICK g \in DOMAIN chain : chain[g] = StopProof(bundle, k).block
    BY <2>1 DEF Proven, OnActiveChain
  <2>3. PICK h \in DOMAIN chain : chain[h] = StopBlock(bundle, k)
    BY <1>2 DEF On
  <2>4. StopTxid(bundle, k) \in blocks[chain[g]].txs
    BY <2>1, <2>2 DEF Proven, CommittedTxids
  <2>5. StopTxid(bundle, k) \in blocks[chain[h]].txs
    BY <1>2, <1>8, <2>3 DEF Contains
  <2>6. g = h
    BY <2>4, <2>5 DEF VerifyInv, OnceConfirmed
  <2> QED
    BY <2>1, <2>2, <2>3, <2>6 DEF Proven
<1>9. ProofsOnChain
  BY <1>8 DEF ProofsOnChain
<1> QED
  BY <1>7, <1>9

\* An atom stays one as long as the chain and the bundle are the same.
LEMMA SameGood ==
  ASSUME UNCHANGED <<nodeVars, bundle>>
  PROVE  /\ StaysGood' <=> StaysGood
         /\ ProofsOnChain' <=> ProofsOnChain
<1>1. blocks' = blocks /\ chain' = chain /\ mempool' = mempool /\ bundle' = bundle
  BY DEF nodeVars
<1>2. GenuineClaim(chain, bundle)' <=> GenuineClaim(chain, bundle)
  BY <1>1 DEF GenuineClaim, ConfirmedAt
<1>3. GenuineWork(chain, bundle)' <=> GenuineWork(chain, bundle)
  BY <1>1 DEF GenuineWork
<1>4. GenuineMint(chain, bundle)' <=> GenuineMint(chain, bundle)
  BY <1>1 DEF GenuineMint, ConfirmedAt, Spenders, Confirmed
<1>5. \A k : GenuineTransition(chain, bundle, k)' <=> GenuineTransition(chain, bundle, k)
  BY <1>1 DEF GenuineTransition, ConfirmedAt, Spenders, Confirmed
<1>6. OwnDigests(bundle)' <=> OwnDigests(bundle)
  BY <1>1
<1>7. GenuineHistory(chain, bundle)' <=> GenuineHistory(chain, bundle)
  BY <1>1, <1>2, <1>3, <1>4, <1>5, <1>6 DEF GenuineHistory
<1>8. Buried(chain, bundle)' <=> Buried(chain, bundle)
  BY <1>1 DEF Buried
<1>9. Visible(TerminalTitle(bundle))' <=> Visible(TerminalTitle(bundle))
  BY <1>1 DEF Visible, Confirmed
<1>10. StaysGood' <=> StaysGood
  BY <1>1, <1>7, <1>8, <1>9 DEF StaysGood
<1>11. ProofsOnChain' <=> ProofsOnChain
  BY <1>1 DEF ProofsOnChain, CommittedTxids
<1> QED
  BY <1>10, <1>11
-----------------------------------------------------------------------------
(* The two implementations agree *)

\* What CheckersAgree asks of an outcome that is not VALID.
Agrees(b, outcome) ==
  /\ outcome \in SharedCodes => CheckerSays(b, outcome)
  /\ outcome = "UNKNOWN_PROFILE" => CheckerSays(b, "BAD_PROFILE")
  /\ outcome = "UNSUPPORTED_ALGORITHM" =>
       CheckerSays(b, "BAD_ALGORITHM") \/ CheckerSays(b, "TARGET_TOO_EASY")

\* Codes that only verify_bundle has.
OwnCodes ==
  {"none", "VALID", "WRONG_NETWORK", "HEADER_LOOKUP", "HEADER_MISMATCH",
   "NONCANONICAL_BLOCK", "REORGED_BLOCK", "TRANSACTION_LOOKUP", "TRANSACTION_MISMATCH",
   "BAD_INCLUSION_PROOF", "MISSING_OUTPUT", "CLAIM_SEAL_MISMATCH",
   "UNSUPPORTED_CLAIM_SEAL", "CLAIM_MARKER_COUNT", "CLAIM_NOT_CONSUMED",
   "TITLE_SCRIPT_MISMATCH", "UNSUPPORTED_TITLE_SCRIPT", "MINT_MARKER_COUNT",
   "TRANSFER_ORDER", "TITLE_NOT_CONSUMED", "SUCCESSOR_SCRIPT_MISMATCH",
   "TRANSFER_MARKER_COUNT", "TITLE_SPENT_OR_MISSING", "CURRENT_TITLE_UNCONFIRMED",
   "BAD_TIP", "INSUFFICIENT_BURIAL", "INSUFFICIENT_CHAINWORK", "UNCAUGHT"}

\* They say nothing of the checker.
LEMMA OwnCodesAgree ==
  ASSUME NEW b, NEW outcome \in OwnCodes
  PROVE  Agrees(b, outcome)
BY DEF Agrees, OwnCodes, SharedCodes

\* The two programs compute the same digests (verify_vectors.mjs:143-217).
LEMMA SameDigests ==
  ASSUME NEW b
  PROVE  /\ claimCommitment(b) = ExpectedClaimCommitment(b)
         /\ challengeDigest(b) = ExpectedChallenge(b)
         /\ workHash(b) = ExpectedWorkHash(b)
         /\ mintCommitment(b) = ExpectedMintCommitment(b)
         /\ atomId(b) = AtomId(b)
         /\ \A t \in Nat \ {0} :
              /\ previousOutpoint(b, t) = TitleAt(b, (Mint + t) - 1)
              /\ transferCommitment(b, t) = ExpectedTransferCommitment(b, Mint + t)
<1>1. claimCommitment(b) = ExpectedClaimCommitment(b)
  BY DEF claimCommitment, ExpectedClaimCommitment, claim_commitment
<1>2. challengeDigest(b) = ExpectedChallenge(b)
  BY <1>1 DEF challengeDigest, ExpectedChallenge, derive_challenge
<1>3. workHash(b) = ExpectedWorkHash(b)
  BY <1>1, <1>2 DEF workHash, ExpectedWorkHash, calculate_work_hash
<1>4. mintCommitment(b) = ExpectedMintCommitment(b)
  BY <1>2, <1>3 DEF mintCommitment, ExpectedMintCommitment, mint_commitment
<1>5. atomId(b) = AtomId(b)
  BY <1>4 DEF atomId, AtomId, atom_id
<1>6. ASSUME NEW t \in Nat \ {0}
      PROVE  /\ previousOutpoint(b, t) = TitleAt(b, (Mint + t) - 1)
             /\ transferCommitment(b, t) = ExpectedTransferCommitment(b, Mint + t)
  <2>1. previousOutpoint(b, t) = TitleAt(b, (Mint + t) - 1)
    <3>1. CASE t = 1
      BY <3>1 DEF previousOutpoint, TitleAt, Mint
    <3>2. CASE t # 1
      <4>1. ((3 + t) - 1) - 3 = t - 1 /\ (3 + t) - 1 # 3
        BY <3>2
      <4> QED
        BY <3>2, <4>1 DEF previousOutpoint, TitleAt, Transition, Mint
    <3> QED
      BY <3>1, <3>2
  <2>2. Transition(b, Mint + t) = b.transfers[t]
    <3>1. (3 + t) - 3 = t
      OBVIOUS
    <3> QED
      BY <3>1 DEF Transition, Mint
  <2> QED
    BY <1>5, <2>1, <2>2, Zenon DEF transferCommitment, ExpectedTransferCommitment,
                                  transfer_commitment
<1> QED
  BY <1>1, <1>2, <1>3, <1>4, <1>5, <1>6

\* The checks of the checker: nine of the records, then three of each transition.
LEMMA CheckerList ==
  ASSUME NEW b, Len(b.transfers) \in Nat
  PROVE  /\ DOMAIN AllChecks(b) = 1..(9 + 3 * Len(b.transfers))
         /\ \A i \in 1..9 : AllChecks(b)[i] = RecordChecks(b)[i]
         /\ \A i \in 10..(9 + 3 * Len(b.transfers)) :
              \E t \in 1..Len(b.transfers), m \in 1..3 :
                /\ i = 9 + 3 * (t - 1) + m
                /\ AllChecks(b)[i] = TransitionChecks(b, t)[m]
         /\ \A t \in 1..Len(b.transfers), m \in 1..3 :
              AllChecks(b)[9 + 3 * (t - 1) + m] = TransitionChecks(b, t)[m]
<1>1. PICK n \in Nat : n = Len(b.transfers)
  OBVIOUS
<1> DEFINE T(j) == TransitionChecks(b, (j + 2) \div 3)[((j - 1) % 3) + 1]
           s == RecordChecks(b)
           r == [j \in 1..(3 * n) |-> T(j)]
           u == s \o r
           S == Range(s) \cup Range(r)
<1>2. AllChecks(b) = u
  BY <1>1 DEF AllChecks
<1>3. Len(s) = 9 /\ s \in Seq(Range(s))
  BY DEF RecordChecks, Range
<1> HIDE DEF s, T
<1>4. 3 * n \in Nat /\ r \in Seq(Range(r)) /\ Len(r) = 3 * n
  <2>1. 3 * n \in Nat
    OBVIOUS
  <2>2. r \in [1..(3 * n) -> Range(r)]
    BY DEF Range
  <2> QED
    BY <2>1, <2>2
<1>5. \A j \in 1..(3 * n) : r[j] = T(j)
  OBVIOUS
<1> HIDE DEF r
<1>6. /\ DOMAIN u = 1..(9 + 3 * n)
      /\ \A i \in 1..9 : u[i] = s[i]
      /\ \A j \in 1..(3 * n) : u[9 + j] = r[j]
  <2>1. s \in Seq(S) /\ r \in Seq(S)
    BY <1>3, <1>4, SeqMonotonic
  <2>2. /\ u \in Seq(S) /\ Len(u) = Len(s) + Len(r)
        /\ \A i \in 1..(Len(s) + Len(r)) :
             u[i] = IF i <= Len(s) THEN s[i] ELSE r[i - Len(s)]
    BY <2>1, ConcatProperties
  <2>3. DOMAIN u = 1..(9 + 3 * n)
    BY <1>3, <1>4, <2>2, LenProperties
  <2>4. \A i \in 1..9 : u[i] = s[i]
    BY <1>3, <1>4, <2>2
  <2>5. ASSUME NEW j \in 1..(3 * n) PROVE u[9 + j] = r[j]
    <3>1. 9 + j \in 1..(9 + 3 * n) /\ ~(9 + j <= 9) /\ (9 + j) - 9 = j
      BY <1>4
    <3> QED
      BY <1>3, <1>4, <2>2, <3>1
  <2> QED
    BY <2>3, <2>4, <2>5
<1> HIDE DEF u
<1>7. ASSUME NEW t \in 1..n, NEW m \in 1..3
      PROVE  u[9 + 3 * (t - 1) + m] = TransitionChecks(b, t)[m]
  <2>1. PICK j \in 1..(3 * n) : j = 3 * (t - 1) + m
    OBVIOUS
  <2>2. (j + 2) \div 3 = t /\ ((j - 1) % 3) + 1 = m
    BY <2>1
  <2>3. r[j] = TransitionChecks(b, t)[m]
    BY <1>5, <2>2 DEF T
  <2>4. 9 + j = 9 + 3 * (t - 1) + m
    BY <2>1
  <2> QED
    BY <1>6, <2>3, <2>4
<1>8. ASSUME NEW i \in 10..(9 + 3 * n)
      PROVE  \E t \in 1..n, m \in 1..3 : i = 9 + 3 * (t - 1) + m
  <2>1. PICK j \in 1..(3 * n) : i = 9 + j
    <3>1. i - 9 \in 1..(3 * n) /\ i = 9 + (i - 9)
      BY <1>4
    <3> QED
      BY <3>1
  <2>2. PICK t \in Int : t = (j + 2) \div 3
    OBVIOUS
  <2>3. t \in 1..n /\ j - 3 * (t - 1) \in 1..3
    BY <2>2
  <2>4. i = 9 + 3 * (t - 1) + (j - 3 * (t - 1))
    BY <2>1, <2>3
  <2> QED
    BY <2>3, <2>4
<1>9. ASSUME NEW i \in 10..(9 + 3 * n)
      PROVE  \E t \in 1..n, m \in 1..3 :
               i = 9 + 3 * (t - 1) + m /\ u[i] = TransitionChecks(b, t)[m]
  BY <1>7, <1>8
<1> QED
  BY <1>1, <1>2, <1>6, <1>7, <1>9 DEF s

\* Two checks of the two programs that fail together, with one code.
Same(c, d) == c.code = d.code /\ (c.ok <=> d.ok)

\* The nine checks of the records are the verifier's.
LEMMA SameRecordChecks ==
  ASSUME NEW b, Shaped(b), b.profile \in DOMAIN Profiles, NEW tx, NEW network
  PROVE  LET R == RecordChecks(b) IN
         /\ Same(R[1], StartChecks(b, network)[4])
         /\ R[2].code = "BAD_ALGORITHM"
         /\ R[2].ok <=> StartChecks(b, network)[3].ok
         /\ Same(R[3], ClaimChecks(b, tx)[4])
         /\ Same(R[4], ClaimChecks(b, tx)[6])
         /\ \A i \in 1..4 : Same(R[4 + i], ChallengeChecks(b)[i])
         /\ Same(R[9], MintChecks(b, tx)[5])
<1> DEFINE R == RecordChecks(b)
<1>1. Same(R[1], StartChecks(b, network)[4])
  BY DEF Same, RecordChecks, StartChecks, Check
<1>2. R[2].code = "BAD_ALGORITHM" /\ (R[2].ok <=> StartChecks(b, network)[3].ok)
  BY DEF RecordChecks, StartChecks, Check
<1>3. Same(R[3], ClaimChecks(b, tx)[4])
  BY SameDigests DEF Same, RecordChecks, ClaimChecks, Check
<1>4. Same(R[4], ClaimChecks(b, tx)[6])
  BY DEF Same, RecordChecks, ClaimChecks, Check
<1>5. Same(R[5], ChallengeChecks(b)[1])
  BY SameDigests DEF Same, RecordChecks, ChallengeChecks, Check
<1>6. Same(R[6], ChallengeChecks(b)[2])
  BY SameDigests DEF Same, RecordChecks, ChallengeChecks, Check
<1>7. Same(R[7], ChallengeChecks(b)[3])
  BY SameDigests DEF Same, RecordChecks, ChallengeChecks, Check
<1>8. Same(R[8], ChallengeChecks(b)[4])
  <2>1. Profiles[b.profile].mint_window \in Nat
    BY ProfilesAssumption DEF Profile
  <2>2. b.mint.height \in (b.work.challenge_height + 1)
            ..(b.work.challenge_height + Profiles[b.profile].mint_window)
          <=> InMintWindow(b)
    BY <2>1 DEF Shaped, InMintWindow
  <2> QED
    BY <2>2 DEF Same, RecordChecks, ChallengeChecks, Check
<1>9. Same(R[9], MintChecks(b, tx)[5])
  BY SameDigests DEF Same, RecordChecks, MintChecks, Check
<1> HIDE DEF R
<1>10. \A i \in 1..4 : Same(R[4 + i], ChallengeChecks(b)[i])
  BY <1>5, <1>6, <1>7, <1>8
<1> QED
  BY <1>1, <1>2, <1>3, <1>4, <1>9, <1>10 DEF R

\* The three checks of a transition are the verifier's.
LEMMA SameTransitionChecks ==
  ASSUME NEW b, NEW t \in Nat \ {0}, NEW tx
  PROVE  LET T == TransitionChecks(b, t) IN
         /\ Same(T[1], TransferOrderChecks(b, Mint + t)[1])
         /\ Same(T[2], TransferOrderChecks(b, Mint + t)[2])
         /\ Same(T[3], TransferChecks(b, Mint + t, tx)[5])
<1>1. Transition(b, Mint + t) = b.transfers[t]
  <2>1. (3 + t) - 3 = t
    OBVIOUS
  <2> QED
    BY <2>1 DEF Transition, Mint
<1>2. \A x : x = (Mint + t) - 4 <=> x = t - 1
  BY DEF Mint
<1>3. Same(TransitionChecks(b, t)[1], TransferOrderChecks(b, Mint + t)[1])
  BY <1>1, <1>2 DEF Same, TransitionChecks, TransferOrderChecks, Check
<1>4. Same(TransitionChecks(b, t)[2], TransferOrderChecks(b, Mint + t)[2])
  BY <1>1, SameDigests DEF Same, TransitionChecks, TransferOrderChecks, Check
<1>5. Same(TransitionChecks(b, t)[3], TransferChecks(b, Mint + t, tx)[5])
  BY <1>1, SameDigests DEF Same, TransitionChecks, TransferChecks, Check
<1> QED
  BY <1>3, <1>4, <1>5

\* The checker says the code of the first of its checks that fails.
LEMMA CheckerStops ==
  ASSUME NEW b, b.profile \in DOMAIN Profiles, NEW i \in DOMAIN AllChecks(b),
         ~AllChecks(b)[i].ok, \A j \in 1..(i - 1) : AllChecks(b)[j].ok
  PROVE  CheckerSays(b, AllChecks(b)[i].code)
BY DEF CheckerSays, FirstFailure

\* The transitions before the one of a check have passed, and so has every check
\* before it.
LEMMA ChecksBefore ==
  ASSUME NEW b, Len(b.transfers) \in Nat, NEW t \in 1..Len(b.transfers), NEW m \in 1..3,
         \A i \in 1..9 : RecordChecks(b)[i].ok,
         \A u \in 1..(t - 1), l \in 1..3 : TransitionChecks(b, u)[l].ok,
         \A l \in 1..(m - 1) : TransitionChecks(b, t)[l].ok
  PROVE  \A j \in 1..(9 + 3 * (t - 1) + m - 1) : AllChecks(b)[j].ok
<1> SUFFICES ASSUME NEW j \in 1..(9 + 3 * (t - 1) + m - 1)
             PROVE  AllChecks(b)[j].ok
  OBVIOUS
<1>1. CASE j \in 1..9
  BY <1>1, CheckerList
<1>2. CASE j \notin 1..9
  <2>1. j \in 10..(9 + 3 * Len(b.transfers))
    BY <1>2
  <2>2. PICK u \in 1..Len(b.transfers), l \in 1..3 :
          j = 9 + 3 * (u - 1) + l /\ AllChecks(b)[j] = TransitionChecks(b, u)[l]
    BY <2>1, CheckerList
  <2>3. u \in 1..(t - 1) \/ (u = t /\ l \in 1..(m - 1))
    BY <2>2
  <2> QED
    BY <2>2, <2>3
<1> QED
  BY <1>1, <1>2

\* A transition's check that fails first is the checker's outcome.
LEMMA TransitionStops ==
  ASSUME NEW b, Len(b.transfers) \in Nat, b.profile \in DOMAIN Profiles,
         NEW t \in 1..Len(b.transfers), NEW m \in 1..3,
         \A i \in 1..9 : RecordChecks(b)[i].ok,
         \A u \in 1..(t - 1), l \in 1..3 : TransitionChecks(b, u)[l].ok,
         \A l \in 1..(m - 1) : TransitionChecks(b, t)[l].ok,
         ~TransitionChecks(b, t)[m].ok
  PROVE  CheckerSays(b, TransitionChecks(b, t)[m].code)
<1>1. PICK i \in 1..(9 + 3 * Len(b.transfers)) : i = 9 + 3 * (t - 1) + m
  OBVIOUS
<1>2. i \in DOMAIN AllChecks(b) /\ AllChecks(b)[i] = TransitionChecks(b, t)[m]
  BY <1>1, CheckerList
<1>3. \A j \in 1..(9 + 3 * (t - 1) + m - 1) : AllChecks(b)[j].ok
  BY ChecksBefore
<1>4. \A j \in 1..(i - 1) : AllChecks(b)[j].ok
  BY <1>1, <1>3
<1> QED
  BY <1>2, <1>4, CheckerStops

\* So is a check of a record.
LEMMA RecordStops ==
  ASSUME NEW b, Len(b.transfers) \in Nat, b.profile \in DOMAIN Profiles, NEW i \in 1..9,
         \A j \in 1..(i - 1) : RecordChecks(b)[j].ok, ~RecordChecks(b)[i].ok
  PROVE  CheckerSays(b, RecordChecks(b)[i].code)
<1>1. /\ i \in DOMAIN AllChecks(b)
      /\ \A j \in 1..9 : AllChecks(b)[j] = RecordChecks(b)[j]
  BY CheckerList
<1>2. \A j \in 1..(i - 1) : AllChecks(b)[j].ok
  BY <1>1
<1> QED
  BY <1>1, <1>2, CheckerStops

\* Both stop before any block is loaded (verify.py:146-164).
LEMMA StartAgrees ==
  ASSUME NEW b, Shaped(b), NEW network, NEW i \in DOMAIN StartChecks(b, network),
         FirstFailure(StartChecks(b, network), i)
  PROVE  Agrees(b, StartChecks(b, network)[i].code)
<1> DEFINE checks == StartChecks(b, network)
           R == RecordChecks(b)
<1> SUFFICES Agrees(b, checks[i].code)
  OBVIOUS
<1>1. /\ i \in 1..4 /\ ~checks[i].ok
      /\ \A j \in 1..(i - 1) : checks[j].ok
  BY DEF FirstFailure, StartChecks
<1>2. /\ checks[1].code = "UNKNOWN_PROFILE" /\ checks[2].code = "WRONG_NETWORK"
      /\ checks[3].code = "UNSUPPORTED_ALGORITHM" /\ checks[4].code = "TARGET_TOO_EASY"
      /\ checks[1].ok <=> b.profile \in DOMAIN Profiles
  BY DEF StartChecks, Check
<1> HIDE DEF checks
<1>3. CASE i = 1
  BY <1>1, <1>2, <1>3 DEF Agrees, SharedCodes, CheckerSays
<1>4. CASE i = 2
  BY <1>2, <1>4, OwnCodesAgree DEF OwnCodes
<1>5. ASSUME i \in {3, 4}
      PROVE  /\ b.profile \in DOMAIN Profiles /\ Len(b.transfers) \in Nat
             /\ Same(R[1], checks[4]) /\ R[2].code = "BAD_ALGORITHM"
             /\ R[2].ok <=> checks[3].ok
  <2>1. b.profile \in DOMAIN Profiles
    BY <1>1, <1>2, <1>5
  <2> QED
    BY <2>1, SameRecordChecks DEF checks, Shaped
<1> HIDE DEF R
<1>6. CASE i = 3
  <2>1. R[1].code = "TARGET_TOO_EASY" /\ R[2].code = "BAD_ALGORITHM" /\ ~R[2].ok
    BY <1>1, <1>2, <1>5, <1>6 DEF Same
  <2>2. CASE R[1].ok
    <3>1. CheckerSays(b, R[2].code)
      BY <1>5, <1>6, <2>1, <2>2, RecordStops DEF R
    <3> QED
      BY <1>2, <1>6, <2>1, <3>1 DEF Agrees, SharedCodes
  <2>3. CASE ~R[1].ok
    <3>1. CheckerSays(b, R[1].code)
      BY <1>5, <1>6, <2>3, RecordStops DEF R
    <3> QED
      BY <1>2, <1>6, <2>1, <3>1 DEF Agrees, SharedCodes
  <2> QED
    BY <2>2, <2>3
<1>7. CASE i = 4
  <2>1. R[1].code = "TARGET_TOO_EASY" /\ ~R[1].ok
    BY <1>1, <1>2, <1>5, <1>7 DEF Same
  <2>2. CheckerSays(b, R[1].code)
    BY <1>5, <1>7, <2>1, RecordStops DEF R
  <2> QED
    BY <1>2, <1>7, <2>1, <2>2 DEF Agrees, SharedCodes
<1> QED
  BY <1>1, <1>3, <1>4, <1>6, <1>7

\* What passes in the verifier passes in the checker.
LEMMA RecordsPass ==
  ASSUME NEW b, Shaped(b), NEW network, Passes(StartChecks(b, network)), NEW tx
  PROVE  LET R == RecordChecks(b) IN
         /\ b.profile \in DOMAIN Profiles /\ Len(b.transfers) \in Nat
         /\ R[1].ok /\ R[2].ok
         /\ Passes(ClaimChecks(b, tx)) => R[3].ok /\ R[4].ok
         /\ Passes(ChallengeChecks(b)) => R[5].ok /\ R[6].ok /\ R[7].ok /\ R[8].ok
         /\ Passes(MintChecks(b, tx)) => R[9].ok
<1> DEFINE R == RecordChecks(b)
           start == StartChecks(b, network)
<1>1. start[1].ok /\ start[3].ok /\ start[4].ok
  BY DEF Passes, StartChecks
<1>2. b.profile \in DOMAIN Profiles
  BY <1>1 DEF StartChecks, Check
<1>3. /\ Same(R[1], start[4])
      /\ R[2].ok <=> start[3].ok
      /\ Same(R[3], ClaimChecks(b, tx)[4])
      /\ Same(R[4], ClaimChecks(b, tx)[6])
      /\ \A i \in 1..4 : Same(R[4 + i], ChallengeChecks(b)[i])
      /\ Same(R[9], MintChecks(b, tx)[5])
  BY <1>2, SameRecordChecks
<1>4. /\ Passes(ClaimChecks(b, tx)) => ClaimChecks(b, tx)[4].ok /\ ClaimChecks(b, tx)[6].ok
      /\ Passes(MintChecks(b, tx)) => MintChecks(b, tx)[5].ok
  BY DEF Passes, ClaimChecks, MintChecks
<1>5. Passes(ChallengeChecks(b)) => \A i \in 1..4 : ChallengeChecks(b)[i].ok
  BY DEF Passes, ChallengeChecks
<1> HIDE DEF R, start
<1>6. Passes(ChallengeChecks(b)) => R[5].ok /\ R[6].ok /\ R[7].ok /\ R[8].ok
  <2> SUFFICES ASSUME Passes(ChallengeChecks(b))
               PROVE  \A i \in 1..4 : R[4 + i].ok
    <3>1. 4 + 1 = 5 /\ 4 + 2 = 6 /\ 4 + 3 = 7 /\ 4 + 4 = 8
      OBVIOUS
    <3> QED
      BY <3>1
  <2> QED
    BY <1>3, <1>5 DEF Same
<1> QED
  BY <1>1, <1>2, <1>3, <1>4, <1>6 DEF Same, Shaped, R

\* The claim (verify.py:173-205).
LEMMA ClaimAgrees ==
  ASSUME NEW b, Shaped(b), NEW network, Passes(StartChecks(b, network)), NEW tx,
         NEW i \in DOMAIN ClaimChecks(b, tx), FirstFailure(ClaimChecks(b, tx), i)
  PROVE  Agrees(b, ClaimChecks(b, tx)[i].code)
<1> DEFINE checks == ClaimChecks(b, tx)
           R == RecordChecks(b)
<1> SUFFICES Agrees(b, checks[i].code)
  OBVIOUS
<1>1. /\ i \in 1..6 /\ ~checks[i].ok
      /\ \A j \in 1..(i - 1) : checks[j].ok
  BY DEF FirstFailure, ClaimChecks
<1>2. /\ \A j \in {1, 2, 3, 5} : checks[j].code \in OwnCodes
      /\ checks[4].code = "BAD_CLAIM_COMMITMENT"
      /\ checks[6].code = "BAD_CHALLENGE_HEIGHT"
  BY DEF ClaimChecks, Check, OwnCodes
<1>3. /\ b.profile \in DOMAIN Profiles /\ Len(b.transfers) \in Nat
      /\ R[1].ok /\ R[2].ok
  BY RecordsPass
<1>4. Same(R[3], checks[4]) /\ Same(R[4], checks[6])
  BY <1>3, SameRecordChecks
<1> HIDE DEF checks, R
<1>5. CASE i \in {1, 2, 3, 5}
  BY <1>2, <1>5, OwnCodesAgree
<1>6. CASE i = 4
  <2>1. CheckerSays(b, R[3].code)
    BY <1>1, <1>3, <1>4, <1>6, RecordStops DEF Same, R
  <2> QED
    BY <1>2, <1>4, <1>6, <2>1 DEF Same, Agrees
<1>7. CASE i = 6
  <2>1. R[3].ok /\ ~R[4].ok
    BY <1>1, <1>4, <1>7 DEF Same
  <2>2. CheckerSays(b, R[4].code)
    BY <1>3, <2>1, RecordStops DEF R
  <2> QED
    BY <1>2, <1>4, <1>7, <2>2 DEF Same, Agrees
<1> QED
  BY <1>1, <1>5, <1>6, <1>7

\* The challenge, the work and the mint's place (verify.py:205-243).
LEMMA ChallengeAgrees ==
  ASSUME NEW b, Shaped(b), NEW network, Passes(StartChecks(b, network)), NEW tx,
         Passes(ClaimChecks(b, tx)),
         NEW i \in DOMAIN ChallengeChecks(b), FirstFailure(ChallengeChecks(b), i)
  PROVE  Agrees(b, ChallengeChecks(b)[i].code)
<1> DEFINE checks == ChallengeChecks(b)
           R == RecordChecks(b)
<1> SUFFICES Agrees(b, checks[i].code)
  OBVIOUS
<1>1. /\ i \in 1..4 /\ ~checks[i].ok
      /\ \A j \in 1..(i - 1) : checks[j].ok
  BY DEF FirstFailure, ChallengeChecks
<1>2. checks[i].code \notin {"UNKNOWN_PROFILE", "UNSUPPORTED_ALGORITHM"}
  BY <1>1 DEF ChallengeChecks, Check
<1>3. /\ b.profile \in DOMAIN Profiles /\ Len(b.transfers) \in Nat
      /\ R[1].ok /\ R[2].ok /\ R[3].ok /\ R[4].ok
  BY RecordsPass
<1>4. \A j \in 1..4 : Same(R[4 + j], checks[j])
  BY <1>3, SameRecordChecks
<1> HIDE DEF checks, R
<1>5. ASSUME NEW j \in 1..(4 + i - 1)
      PROVE  R[j].ok
  <2>1. CASE j \in 1..4
    BY <1>3, <2>1
  <2>2. CASE j \notin 1..4
    <3>1. PICK l \in 1..(i - 1) : j = 4 + l
      <4>1. j - 4 \in 1..(i - 1) /\ j = 4 + (j - 4)
        BY <1>1, <2>2
      <4> QED
        BY <4>1
    <3> QED
      BY <1>1, <1>4, <3>1 DEF Same
  <2> QED
    BY <2>1, <2>2
<1>6. ~R[4 + i].ok /\ R[4 + i].code = checks[i].code
  BY <1>1, <1>4 DEF Same
<1>7. CheckerSays(b, R[4 + i].code)
  <2>1. PICK l \in 1..9 : l = 4 + i
    BY <1>1
  <2>2. \A j \in 1..(l - 1) : R[j].ok
    BY <1>1, <1>5, <2>1
  <2> QED
    BY <1>3, <1>6, <2>1, <2>2, RecordStops DEF R
<1> QED
  BY <1>2, <1>6, <1>7 DEF Agrees

\* The mint (verify.py:244-287).
LEMMA MintAgrees ==
  ASSUME NEW b, Shaped(b), NEW network, Passes(StartChecks(b, network)),
         NEW claimTx, Passes(ClaimChecks(b, claimTx)), Passes(ChallengeChecks(b)),
         NEW tx, NEW i \in DOMAIN MintChecks(b, tx), FirstFailure(MintChecks(b, tx), i)
  PROVE  Agrees(b, MintChecks(b, tx)[i].code)
<1> DEFINE checks == MintChecks(b, tx)
           R == RecordChecks(b)
<1> SUFFICES Agrees(b, checks[i].code)
  OBVIOUS
<1>1. i \in 1..6 /\ ~checks[i].ok
  BY DEF FirstFailure, MintChecks
<1>2. /\ \A j \in {1, 2, 3, 4, 6} : checks[j].code \in OwnCodes
      /\ checks[5].code = "BAD_MINT_COMMITMENT"
  BY DEF MintChecks, Check, OwnCodes
<1>3. /\ b.profile \in DOMAIN Profiles /\ Len(b.transfers) \in Nat
      /\ R[1].ok /\ R[2].ok /\ R[3].ok /\ R[4].ok
      /\ R[5].ok /\ R[6].ok /\ R[7].ok /\ R[8].ok
  BY RecordsPass
<1>4. Same(R[9], checks[5])
  BY <1>3, SameRecordChecks
<1> HIDE DEF checks, R
<1>5. CASE i \in {1, 2, 3, 4, 6}
  BY <1>2, <1>5, OwnCodesAgree
<1>6. CASE i = 5
  <2>1. \A j \in 1..(9 - 1) : R[j].ok
    BY <1>3
  <2>2. CheckerSays(b, R[9].code)
    BY <1>1, <1>3, <1>4, <1>6, <2>1, RecordStops DEF Same, R
  <2> QED
    BY <1>2, <1>4, <1>6, <2>2 DEF Same, Agrees
<1> QED
  BY <1>1, <1>5, <1>6

\* What the checker has passed when it reaches transition t.
PassedBefore(b, t) ==
  /\ b.profile \in DOMAIN Profiles /\ Len(b.transfers) \in Nat
  /\ \A i \in 1..9 : RecordChecks(b)[i].ok
  /\ \A u \in 1..(t - 1), l \in 1..3 : TransitionChecks(b, u)[l].ok

\* The order of a transition, checked before its block is loaded.
LEMMA OrderAgrees ==
  ASSUME NEW b, NEW t \in 1..Len(b.transfers), PassedBefore(b, t),
         NEW i \in DOMAIN TransferOrderChecks(b, Mint + t),
         FirstFailure(TransferOrderChecks(b, Mint + t), i)
  PROVE  Agrees(b, TransferOrderChecks(b, Mint + t)[i].code)
<1> DEFINE checks == TransferOrderChecks(b, Mint + t)
           T == TransitionChecks(b, t)
<1> SUFFICES Agrees(b, checks[i].code)
  OBVIOUS
<1>1. /\ i \in 1..3 /\ ~checks[i].ok
      /\ \A j \in 1..(i - 1) : checks[j].ok
  BY DEF FirstFailure, TransferOrderChecks
<1>2. /\ checks[1].code = "TRANSFER_INDEX" /\ checks[2].code = "BROKEN_TITLE_CHAIN"
      /\ checks[3].code \in OwnCodes
  BY DEF TransferOrderChecks, Check, OwnCodes
<1>3. Same(T[1], checks[1]) /\ Same(T[2], checks[2])
  <2>1. t \in Nat \ {0}
    BY DEF PassedBefore
  <2> QED
    BY <2>1, SameTransitionChecks
<1> HIDE DEF checks, T
<1>4. ASSUME NEW m \in 1..3, \A l \in 1..(m - 1) : T[l].ok, ~T[m].ok
      PROVE  CheckerSays(b, T[m].code)
  BY <1>4, TransitionStops DEF PassedBefore, T
<1>5. CASE i = 1
  BY <1>1, <1>2, <1>3, <1>4, <1>5 DEF Same, Agrees
<1>6. CASE i = 2
  <2>1. T[1].ok /\ ~T[2].ok
    BY <1>1, <1>3, <1>6 DEF Same
  <2>2. CheckerSays(b, T[2].code)
    BY <1>4, <2>1
  <2> QED
    BY <1>2, <1>3, <1>6, <2>2 DEF Same, Agrees
<1>7. CASE i = 3
  BY <1>2, <1>7, OwnCodesAgree
<1> QED
  BY <1>1, <1>5, <1>6, <1>7

\* A transition.
LEMMA TransferAgrees ==
  ASSUME NEW b, NEW t \in 1..Len(b.transfers), PassedBefore(b, t),
         Passes(TransferOrderChecks(b, Mint + t)), NEW tx,
         NEW i \in DOMAIN TransferChecks(b, Mint + t, tx),
         FirstFailure(TransferChecks(b, Mint + t, tx), i)
  PROVE  Agrees(b, TransferChecks(b, Mint + t, tx)[i].code)
<1> DEFINE checks == TransferChecks(b, Mint + t, tx)
           order == TransferOrderChecks(b, Mint + t)
           T == TransitionChecks(b, t)
<1> SUFFICES Agrees(b, checks[i].code)
  OBVIOUS
<1>1. i \in 1..6 /\ ~checks[i].ok
  BY DEF FirstFailure, TransferChecks
<1>2. /\ \A j \in {1, 2, 3, 4, 6} : checks[j].code \in OwnCodes
      /\ checks[5].code = "BAD_TRANSFER_COMMITMENT"
  BY DEF TransferChecks, Check, OwnCodes
<1>3. Same(T[1], order[1]) /\ Same(T[2], order[2]) /\ Same(T[3], checks[5])
  BY SameTransitionChecks DEF PassedBefore
<1>4. order[1].ok /\ order[2].ok
  BY DEF Passes, TransferOrderChecks
<1> HIDE DEF checks, order, T
<1>5. CASE i \in {1, 2, 3, 4, 6}
  BY <1>2, <1>5, OwnCodesAgree
<1>6. CASE i = 5
  <2>1. T[1].ok /\ T[2].ok /\ ~T[3].ok
    BY <1>1, <1>3, <1>4, <1>6 DEF Same
  <2>2. ASSUME NEW m \in 1..3, \A l \in 1..(m - 1) : T[l].ok, ~T[m].ok
        PROVE  CheckerSays(b, T[m].code)
    BY <2>2, TransitionStops DEF PassedBefore, T
  <2>3. CheckerSays(b, T[3].code)
    <3>1. \A l \in 1..(3 - 1) : T[l].ok
      BY <2>1
    <3> QED
      BY <2>1, <2>2, <3>1
  <2> QED
    BY <1>2, <1>3, <1>6, <2>3 DEF Same, Agrees
<1> QED
  BY <1>1, <1>5, <1>6

\* The first failure of two lists made one after the other is that of one of them.
LEMMA FirstOfBoth ==
  ASSUME NEW s, NEW r, Sequence(s), Sequence(r),
         NEW i \in DOMAIN (s \o r), FirstFailure(s \o r, i)
  PROVE  \/ i \in DOMAIN s /\ FirstFailure(s, i) /\ (s \o r)[i] = s[i]
         \/ /\ Passes(s)
            /\ \E j \in DOMAIN r : FirstFailure(r, j) /\ (s \o r)[i] = r[j]
<1> DEFINE S == Range(s) \cup Range(r)
           u == s \o r
<1>1. s \in Seq(S) /\ r \in Seq(S)
  BY SeqMonotonic DEF Sequence
<1>2. /\ u \in Seq(S) /\ Len(u) = Len(s) + Len(r)
      /\ \A j \in 1..(Len(s) + Len(r)) :
           u[j] = IF j <= Len(s) THEN s[j] ELSE r[j - Len(s)]
  BY <1>1, ConcatProperties
<1>3. /\ Len(s) \in Nat /\ DOMAIN s = 1..Len(s)
      /\ Len(r) \in Nat /\ DOMAIN r = 1..Len(r)
      /\ DOMAIN u = 1..Len(u)
  BY <1>1, <1>2, LenProperties
<1>4. /\ i \in 1..(Len(s) + Len(r)) /\ ~u[i].ok
      /\ \A j \in 1..(i - 1) : u[j].ok
  BY <1>2, <1>3 DEF FirstFailure
<1> HIDE DEF u
<1>5. CASE i <= Len(s)
  <2>1. \A j \in 1..i : u[j] = s[j]
    BY <1>2, <1>3, <1>4, <1>5
  <2>2. i \in DOMAIN s /\ FirstFailure(s, i) /\ u[i] = s[i]
    BY <1>3, <1>4, <1>5, <2>1 DEF FirstFailure
  <2> QED
    BY <2>2 DEF u
<1>6. CASE ~(i <= Len(s))
  <2>1. Passes(s)
    <3>1. \A j \in 1..Len(s) : j \in 1..(i - 1) /\ u[j] = s[j]
      BY <1>2, <1>3, <1>4, <1>6
    <3> QED
      BY <1>3, <1>4, <3>1 DEF Passes
  <2>2. PICK l \in 1..Len(r) : i = Len(s) + l
    <3>1. i - Len(s) \in 1..Len(r) /\ i = Len(s) + (i - Len(s))
      BY <1>3, <1>4, <1>6
    <3> QED
      BY <3>1
  <2>3. \A j \in 1..l : u[Len(s) + j] = r[j]
    <3> SUFFICES ASSUME NEW j \in 1..l PROVE u[Len(s) + j] = r[j]
      OBVIOUS
    <3>1. /\ Len(s) + j \in 1..(Len(s) + Len(r)) /\ ~(Len(s) + j <= Len(s))
          /\ (Len(s) + j) - Len(s) = j
      BY <1>3, <2>2
    <3> QED
      BY <1>2, <3>1
  <2>4. \A j \in 1..(l - 1) : Len(s) + j \in 1..(i - 1)
    BY <1>3, <2>2
  <2>5. l \in DOMAIN r /\ FirstFailure(r, l) /\ u[i] = r[l]
    BY <1>3, <1>4, <2>2, <2>3, <2>4 DEF FirstFailure
  <2> QED
    BY <2>1, <2>5 DEF u
<1> QED
  BY <1>3, <1>4, <1>5, <1>6

\* The checks of every stop before k have passed.
CheckedBelow(b, k) ==
  \A j \in Stops(b) : j < k => \E tx : Passes(StopChecks(b, j, tx))

\* Then so have the checker's, up to the transition of that stop.
LEMMA BelowPasses ==
  ASSUME NEW b, Shaped(b), NEW network, Passes(StartChecks(b, network)),
         NEW t \in 1..(Len(b.transfers) + 1), CheckedBelow(b, Mint + t)
  PROVE  /\ PassedBefore(b, t)
         /\ t <= Len(b.transfers) => Passes(TransferOrderChecks(b, Mint + t))
<1> DEFINE R == RecordChecks(b)
           At(k) == CHOOSE tx : Passes(StopChecks(b, k, tx))
<1>0. Len(b.transfers) \in Nat /\ Stops(b) = 1..(3 + Len(b.transfers))
  BY DEF Shaped, Stops
<1>1. \A k \in Stops(b) : k < 3 + t => Passes(StopChecks(b, k, At(k)))
  BY DEF CheckedBelow, Mint
<1>2. /\ Passes(ClaimChecks(b, At(1))) /\ Passes(ChallengeChecks(b))
      /\ Passes(MintChecks(b, At(3)))
  <2>1. 1 \in Stops(b) /\ 2 \in Stops(b) /\ 3 \in Stops(b)
    BY <1>0
  <2>2. /\ Passes(StopChecks(b, 1, At(1))) /\ Passes(StopChecks(b, 2, At(2)))
        /\ Passes(StopChecks(b, 3, At(3)))
    BY <1>1, <2>1
  <2> HIDE DEF At
  <2>3. Passes(ClaimChecks(b, At(1)))
    BY <1>0, <2>1, <2>2, StopListPasses DEF Claim
  <2>4. Passes(ChallengeChecks(b))
    BY <1>0, <2>1, <2>2, StopListPasses DEF Challenge
  <2>5. Passes(MintChecks(b, At(3)))
    BY <1>0, <2>1, <2>2, StopListPasses DEF Mint
  <2> QED
    BY <2>3, <2>4, <2>5
<1> HIDE DEF At
<1>3. /\ b.profile \in DOMAIN Profiles
      /\ \A i \in 1..9 : R[i].ok
  <2>1. b.profile \in DOMAIN Profiles /\ R[1].ok /\ R[2].ok /\ R[3].ok /\ R[4].ok
    BY <1>2, RecordsPass
  <2>2. R[5].ok /\ R[6].ok /\ R[7].ok /\ R[8].ok /\ R[9].ok
    BY <1>2, RecordsPass
  <2> QED
    BY <2>1, <2>2
<1>4. ASSUME NEW u \in 1..t, u <= Len(b.transfers)
      PROVE  Passes(TransferOrderChecks(b, Mint + u))
  <2>1. PICK k \in Stops(b) : k = Mint + (u - 1)
    BY <1>0 DEF Mint
  <2>2. k >= Mint /\ k < 3 + t /\ k + 1 = Mint + u /\ k + 1 \in Stops(b)
    BY <1>0, <1>4, <2>1 DEF Mint
  <2>3. Passes(StopChecks(b, k, At(k)))
    BY <1>1, <2>2
  <2>4. Passes(TransferOrderChecks(b, k + 1))
    BY <1>0, <2>2, <2>3, StopListPasses
  <2> QED
    BY <2>2, <2>4
<1>5. ASSUME NEW u \in 1..(t - 1), NEW l \in 1..3
      PROVE  TransitionChecks(b, u)[l].ok
  <2>1. u \in 1..t /\ u <= Len(b.transfers) /\ u \in Nat \ {0}
    BY <1>0
  <2>2. PICK k \in Stops(b) : k = Mint + u
    BY <1>0, <2>1 DEF Mint
  <2>3. k > Mint /\ k < 3 + t
    BY <2>2 DEF Mint
  <2>4. Passes(TransferChecks(b, Mint + u, At(k)))
    BY <1>0, <1>1, <2>2, <2>3, StopListPasses
  <2>5. Passes(TransferOrderChecks(b, Mint + u))
    BY <1>4, <2>1
  <2>6. /\ TransferOrderChecks(b, Mint + u)[1].ok
        /\ TransferOrderChecks(b, Mint + u)[2].ok
        /\ TransferChecks(b, Mint + u, At(k))[5].ok
    BY <2>4, <2>5 DEF Passes, TransferOrderChecks, TransferChecks
  <2>7. /\ TransitionChecks(b, u)[1].ok /\ TransitionChecks(b, u)[2].ok
        /\ TransitionChecks(b, u)[3].ok
    BY <2>1, <2>6, SameTransitionChecks DEF Same
  <2> QED
    BY <2>7
<1>6. t <= Len(b.transfers) => Passes(TransferOrderChecks(b, Mint + t))
  BY <1>0, <1>4
<1> QED
  BY <1>0, <1>3, <1>5, <1>6 DEF PassedBefore

\* Whatever check of a stop fails first, the checker says the same.
LEMMA StopAgrees ==
  ASSUME NEW b, Shaped(b), NEW network, Passes(StartChecks(b, network)),
         NEW k \in Stops(b), CheckedBelow(b, k), NEW tx,
         NEW i \in DOMAIN StopChecks(b, k, tx), FirstFailure(StopChecks(b, k, tx), i)
  PROVE  Agrees(b, StopChecks(b, k, tx)[i].code)
<1> DEFINE order == IF k >= Mint /\ k + 1 \in Stops(b)
                    THEN TransferOrderChecks(b, k + 1) ELSE <<>>
           first == CASE k = Claim     -> ClaimChecks(b, tx)
                      [] k = Challenge -> ChallengeChecks(b)
                      [] k = Mint      -> MintChecks(b, tx)
                      [] OTHER         -> TransferChecks(b, k, tx)
           At(j) == CHOOSE x : Passes(StopChecks(b, j, x))
<1>0. Len(b.transfers) \in Nat /\ Stops(b) = 1..(3 + Len(b.transfers)) /\ k \in Nat
  BY DEF Shaped, Stops
<1>1. StopChecks(b, k, tx) = first \o order
  BY DEF StopChecks
<1>2. Sequence(first) /\ Sequence(order)
  BY ChecksAreSequences
<1>3. \A j \in Stops(b) : j < k => Passes(StopChecks(b, j, At(j)))
  BY DEF CheckedBelow
<1>4. /\ k > 1 => Passes(ClaimChecks(b, At(1)))
      /\ k > 2 => Passes(ChallengeChecks(b))
  <2>1. 1 \in Stops(b) /\ 2 \in Stops(b)
    BY <1>0
  <2>2. /\ k > 1 => Passes(StopChecks(b, 1, At(1)))
        /\ k > 2 => Passes(StopChecks(b, 2, At(2)))
    BY <1>0, <1>3, <2>1
  <2> HIDE DEF At
  <2>3. k > 1 => Passes(ClaimChecks(b, At(1)))
    BY <1>0, <2>1, <2>2, StopListPasses DEF Claim
  <2>4. k > 2 => Passes(ChallengeChecks(b))
    BY <1>0, <2>1, <2>2, StopListPasses DEF Challenge
  <2> QED
    BY <2>3, <2>4
<1> HIDE DEF At
<1>5. ASSUME k > Mint
      PROVE  \E t \in 1..Len(b.transfers) :
               /\ k = Mint + t /\ PassedBefore(b, t)
               /\ Passes(TransferOrderChecks(b, Mint + t))
  <2>1. PICK t \in 1..Len(b.transfers) : k = Mint + t
    <3>1. k - 3 \in 1..Len(b.transfers) /\ k = 3 + (k - 3)
      BY <1>0, <1>5 DEF Mint
    <3> QED
      BY <3>1 DEF Mint
  <2>2. t \in 1..(Len(b.transfers) + 1) /\ t <= Len(b.transfers)
    BY <1>0
  <2>3. CheckedBelow(b, Mint + t)
    BY <2>1
  <2>4. PassedBefore(b, t) /\ Passes(TransferOrderChecks(b, Mint + t))
    BY <2>2, <2>3, BelowPasses
  <2> QED
    BY <2>1, <2>4
\* The checks of the stop's own record.
<1>6. ASSUME NEW j \in DOMAIN first, FirstFailure(first, j)
      PROVE  Agrees(b, first[j].code)
  <2>1. CASE k = Claim
    <3>1. first = ClaimChecks(b, tx)
      BY <2>1 DEF Claim, Challenge, Mint
    <3> HIDE DEF first
    <3> QED
      BY <1>6, <3>1, ClaimAgrees
  <2>2. CASE k = Challenge
    <3>1. first = ChallengeChecks(b) /\ Passes(ClaimChecks(b, At(1)))
      BY <1>4, <2>2 DEF Claim, Challenge, Mint
    <3> HIDE DEF first
    <3> QED
      BY <1>6, <3>1, ChallengeAgrees
  <2>3. CASE k = Mint
    <3>1. /\ first = MintChecks(b, tx)
          /\ Passes(ClaimChecks(b, At(1))) /\ Passes(ChallengeChecks(b))
      BY <1>4, <2>3 DEF Claim, Challenge, Mint
    <3> HIDE DEF first
    <3> QED
      BY <1>6, <3>1, MintAgrees
  <2>4. CASE k > Mint
    <3>1. first = TransferChecks(b, k, tx)
      BY <1>0, <2>4 DEF Claim, Challenge, Mint
    <3>2. PICK t \in 1..Len(b.transfers) :
            /\ k = Mint + t /\ PassedBefore(b, t)
            /\ Passes(TransferOrderChecks(b, Mint + t))
      BY <1>5, <2>4
    <3> HIDE DEF first
    <3> QED
      BY <1>6, <3>1, <3>2, TransferAgrees
  <2> QED
    BY <1>0, <2>1, <2>2, <2>3, <2>4 DEF Claim, Challenge, Mint
\* Those of the order of the next transition.
<1>7. ASSUME Passes(first), NEW j \in DOMAIN order, FirstFailure(order, j)
      PROVE  Agrees(b, order[j].code)
  <2>1. k >= Mint /\ k + 1 \in Stops(b) /\ order = TransferOrderChecks(b, k + 1)
    BY <1>7
  <2>2. PICK t \in 1..Len(b.transfers) : k + 1 = Mint + t
    <3>1. k - 2 \in 1..Len(b.transfers) /\ k + 1 = 3 + (k - 2)
      BY <1>0, <2>1 DEF Mint
    <3> QED
      BY <3>1 DEF Mint
  <2>3. PassedBefore(b, t)
    <3>1. CASE k = Mint
      <4>1. first = MintChecks(b, tx) /\ t = 1
        BY <2>2, <3>1 DEF Claim, Challenge, Mint
      <4>2. /\ Passes(MintChecks(b, tx))
            /\ Passes(ClaimChecks(b, At(1))) /\ Passes(ChallengeChecks(b))
        BY <1>4, <1>7, <3>1, <4>1 DEF Mint
      <4>3. /\ b.profile \in DOMAIN Profiles
            /\ \A r \in 1..9 : RecordChecks(b)[r].ok
        <5>1. /\ b.profile \in DOMAIN Profiles
              /\ RecordChecks(b)[1].ok /\ RecordChecks(b)[2].ok
              /\ RecordChecks(b)[3].ok /\ RecordChecks(b)[4].ok
          BY <4>2, RecordsPass
        <5>2. /\ RecordChecks(b)[5].ok /\ RecordChecks(b)[6].ok
              /\ RecordChecks(b)[7].ok /\ RecordChecks(b)[8].ok
              /\ RecordChecks(b)[9].ok
          BY <4>2, RecordsPass
        <5> QED
          BY <5>1, <5>2
      <4>4. \A u \in 1..(t - 1) : FALSE
        BY <4>1
      <4> QED
        BY <1>0, <4>3, <4>4 DEF PassedBefore
    <3>2. CASE k > Mint
      <4>1. first = TransferChecks(b, k, tx)
        BY <1>0, <3>2 DEF Claim, Challenge, Mint
      <4>2. PICK s \in 1..Len(b.transfers) :
              /\ k = Mint + s /\ PassedBefore(b, s)
              /\ Passes(TransferOrderChecks(b, Mint + s))
        BY <1>5, <3>2
      <4>3. t = s + 1 /\ s \in Nat \ {0}
        BY <1>0, <2>2, <4>2 DEF Mint
      <4>4. /\ TransferOrderChecks(b, Mint + s)[1].ok
            /\ TransferOrderChecks(b, Mint + s)[2].ok
            /\ TransferChecks(b, Mint + s, tx)[5].ok
        <5>1. Passes(TransferChecks(b, Mint + s, tx))
          BY <1>7, <4>1, <4>2
        <5> QED
          BY <4>2, <5>1 DEF Passes, TransferOrderChecks, TransferChecks
      <4>5. /\ TransitionChecks(b, s)[1].ok /\ TransitionChecks(b, s)[2].ok
            /\ TransitionChecks(b, s)[3].ok
        BY <4>3, <4>4, SameTransitionChecks DEF Same
      <4>6. ASSUME NEW u \in 1..(t - 1), NEW l \in 1..3
            PROVE  TransitionChecks(b, u)[l].ok
        <5>1. CASE u = s
          BY <4>5, <5>1
        <5>2. CASE u # s
          <6>1. u \in 1..(s - 1)
            BY <4>3, <5>2
          <6> QED
            BY <4>2, <6>1 DEF PassedBefore
        <5> QED
          BY <5>1, <5>2
      <4> QED
        BY <4>2, <4>6 DEF PassedBefore
    <3> QED
      BY <1>0, <2>1, <3>1, <3>2 DEF Mint
  <2> HIDE DEF order
  <2>4. order = TransferOrderChecks(b, Mint + t)
    BY <2>1, <2>2
  <2> QED
    BY <1>7, <2>3, <2>4, OrderAgrees
<1> HIDE DEF first, order
<1>8. \/ i \in DOMAIN first /\ FirstFailure(first, i) /\ (first \o order)[i] = first[i]
      \/ /\ Passes(first)
         /\ \E j \in DOMAIN order :
              FirstFailure(order, j) /\ (first \o order)[i] = order[j]
  BY <1>1, <1>2, FirstOfBoth
<1> QED
  BY <1>1, <1>6, <1>7, <1>8

\* A bundle that passes every check passes in the checker.
LEMMA AllPass ==
  ASSUME NEW b, Shaped(b), NEW network, Passes(StartChecks(b, network)),
         \A k \in Stops(b) : \E tx : Passes(StopChecks(b, k, tx))
  PROVE  CheckerSays(b, "VALID")
<1> DEFINE n == Len(b.transfers)
<1>1. PassedBefore(b, n + 1)
  <2>1. n \in Nat /\ n + 1 \in 1..(n + 1)
    BY DEF Shaped
  <2>2. CheckedBelow(b, Mint + (n + 1))
    BY DEF CheckedBelow
  <2> QED
    BY <2>1, <2>2, BelowPasses
<1>2. Passes(AllChecks(b))
  <2>1. n \in Nat
    BY DEF Shaped
  <2>2. ASSUME NEW i \in 1..9 PROVE AllChecks(b)[i].ok
    BY <1>1, <2>1, CheckerList DEF PassedBefore
  <2>3. ASSUME NEW i \in 10..(9 + 3 * n) PROVE AllChecks(b)[i].ok
    <3>1. PICK t \in 1..n, m \in 1..3 : AllChecks(b)[i] = TransitionChecks(b, t)[m]
      BY <2>1, CheckerList
    <3>2. t \in 1..((n + 1) - 1)
      BY <2>1
    <3> QED
      BY <1>1, <3>1, <3>2 DEF PassedBefore
  <2>4. DOMAIN AllChecks(b) = 1..(9 + 3 * n)
    BY <2>1, CheckerList
  <2>5. \A i \in 1..(9 + 3 * n) : i \in 1..9 \/ i \in 10..(9 + 3 * n)
    BY <2>1
  <2> QED
    BY <2>2, <2>3, <2>4, <2>5 DEF Passes
<1> QED
  BY <1>1, <1>2 DEF CheckerSays, PassedBefore

AgreeInv == Agrees(bundle, verdict)

\* A list of checks agrees if its first failure does.
LEMMA DecideAgrees ==
  ASSUME TypeInv, UNCHANGED bundle, pc # "done", NEW checks,
         NEW nextPc, NEW nextStop, Decide(checks, nextPc, nextStop),
         \A i \in DOMAIN checks :
           FirstFailure(checks, i) => Agrees(bundle, checks[i].code)
  PROVE  AgreeInv'
<1>1. CASE Goto(nextPc, nextStop)
  <2>1. verdict' = "none" /\ bundle' = bundle
    BY <1>1 DEF Goto, TypeInv, VerifierTypeOK
  <2> QED
    BY <2>1, OwnCodesAgree DEF AgreeInv, OwnCodes
<1>2. CASE Fail(checks)
  <2>1. PICK i \in DOMAIN checks :
          FirstFailure(checks, i) /\ verdict' = checks[i].code
    BY <1>2 DEF Fail, Finish
  <2> QED
    BY <2>1 DEF AgreeInv
<1> QED
  BY <1>1, <1>2 DEF Decide

\* Every call leaves the two programs in agreement.
LEMMA CallAgrees ==
  ASSUME TypeInv, AcceptInv, Call
  PROVE  AgreeInv'
<1>0. /\ UNCHANGED bundle /\ bundle' = bundle /\ Shaped(bundle)
      /\ pc # "done" => verdict = "none"
  BY DEF Call, TypeInv, VerifierTypeOK
\* Codes that only the verifier has, and calls that lead to the next.
<1>1. ASSUME NEW outcome \in OwnCodes, Finish(outcome)
      PROVE  AgreeInv'
  BY <1>0, <1>1, OwnCodesAgree DEF Finish, AgreeInv
<1>2. ASSUME NEW nextPc, NEW nextStop, Goto(nextPc, nextStop), pc # "done"
      PROVE  AgreeInv'
  BY <1>0, <1>2, OwnCodesAgree DEF Goto, AgreeInv, OwnCodes
<1>3. ASSUME NEW code \in OwnCodes, NEW ok, NEW nextPc, NEW nextStop, pc # "done",
             Decide(<<Check(code, ok)>>, nextPc, nextStop)
      PROVE  AgreeInv'
  <2>1. \A i \in DOMAIN <<Check(code, ok)>> : <<Check(code, ok)>>[i].code = code
    BY DEF Check
  <2> QED
    BY <1>0, <1>3, <2>1, OwnCodesAgree, DecideAgrees
<1>4. ASSUME pc \notin {"idle", "network", "done"}
      PROVE  /\ Passes(StartChecks(bundle, Network))
             /\ stop \in Stops(bundle) /\ CheckedBelow(bundle, stop)
  BY <1>0, <1>4, StopsAreNats
     DEF AcceptInv, StartInv, StopInv, Reached, CheckedAt, CheckedBelow
<1>5. CASE ReadNetwork
  <2>1. pc = "network" /\ Decide(StartChecks(bundle, Network), "header", Claim)
    BY <1>5 DEF ReadNetwork
  <2>2. \A i \in DOMAIN StartChecks(bundle, Network) :
          FirstFailure(StartChecks(bundle, Network), i) =>
            Agrees(bundle, StartChecks(bundle, Network)[i].code)
    BY <1>0, StartAgrees
  <2> QED
    BY <1>0, <2>1, <2>2, DecideAgrees
<1>6. CASE ReadHeader
  BY <1>1, <1>2, <1>6 DEF ReadHeader, OwnCodes
<1>7. CASE ReadHashAtHeight
  BY <1>1, <1>2, <1>7 DEF ReadHashAtHeight, OwnCodes
<1>8. CASE ReadHeaderAtHeight
  <2> DEFINE canonical == CanonicalChecks(bundle, stop)
             challenge == ChallengeChecks(bundle)
  <2>1. pc = "canonical" /\ stop \in Stops(bundle) /\ CheckedBelow(bundle, stop)
          /\ Passes(StartChecks(bundle, Network))
    BY <1>4, <1>8 DEF ReadHeaderAtHeight
  <2>2. \A i \in DOMAIN canonical : Agrees(bundle, canonical[i].code)
    <3>1. \A i \in DOMAIN canonical : canonical[i].code \in OwnCodes
      BY DEF CanonicalChecks, Check, OwnCodes
    <3> QED
      BY <3>1, OwnCodesAgree
  <2>3. CASE Decide(canonical, "proof", stop)
    BY <1>0, <2>1, <2>2, <2>3, DecideAgrees
  <2>4. CASE stop = Challenge /\ Decide(canonical \o challenge, "header", Mint)
    <3>1. Sequence(canonical) /\ Sequence(challenge)
      BY NamedLists DEF Named, Sequence
    <3>2. PICK tx : Passes(ClaimChecks(bundle, tx))
      <4>1. 1 \in Stops(bundle) /\ 1 < stop /\ Len(bundle.transfers) \in Nat
        BY <1>0, <2>4 DEF Shaped, Stops, Challenge
      <4>2. PICK tx : Passes(StopChecks(bundle, 1, tx))
        BY <2>1, <4>1 DEF CheckedBelow
      <4>3. Passes(ClaimChecks(bundle, tx))
        BY <4>1, <4>2, StopListPasses DEF Claim
      <4> QED
        BY <4>3
    <3>3. \A i \in DOMAIN challenge :
            FirstFailure(challenge, i) => Agrees(bundle, challenge[i].code)
      BY <1>0, <2>1, <3>2, ChallengeAgrees
    <3> HIDE DEF canonical, challenge
    <3>4. ASSUME NEW i \in DOMAIN (canonical \o challenge),
                 FirstFailure(canonical \o challenge, i)
          PROVE  Agrees(bundle, (canonical \o challenge)[i].code)
      <4>1. \/ i \in DOMAIN canonical /\ (canonical \o challenge)[i] = canonical[i]
            \/ \E j \in DOMAIN challenge :
                 FirstFailure(challenge, j)
                   /\ (canonical \o challenge)[i] = challenge[j]
        BY <3>1, <3>4, FirstOfBoth
      <4> QED
        BY <2>2, <3>3, <4>1
    <3> QED
      BY <1>0, <2>1, <2>4, <3>4, DecideAgrees
  <2> QED
    BY <1>8, <2>3, <2>4 DEF ReadHeaderAtHeight
<1>9. CASE VerifyProof
  BY <1>1, <1>3, <1>9 DEF VerifyProof, OwnCodes
<1>10. CASE CheckIncluded
  BY <1>1, <1>3, <1>10 DEF CheckIncluded, OwnCodes
<1>11. CASE FetchTransaction
  BY <1>3, <1>11 DEF FetchTransaction, OwnCodes
<1>12. CASE PlaceTransaction
  <2> DEFINE here == <<Check("TRANSACTION_MISMATCH",
                             Header(StopBlock(bundle, stop)).height
                               = StopHeight(bundle, stop))>>
             made == StopChecks(bundle, stop, Tx[StopTxid(bundle, stop)])
  <2>1. pc = "place" /\ stop \in Stops(bundle) /\ CheckedBelow(bundle, stop)
          /\ Passes(StartChecks(bundle, Network))
    BY <1>4, <1>12 DEF PlaceTransaction
  <2>2. \A i \in DOMAIN here : Agrees(bundle, here[i].code)
    <3>1. \A i \in DOMAIN here : here[i].code \in OwnCodes
      BY DEF Check, OwnCodes
    <3> QED
      BY <3>1, OwnCodesAgree
  <2>3. \A i \in DOMAIN made : FirstFailure(made, i) => Agrees(bundle, made[i].code)
    BY <1>0, <2>1, StopAgrees
  <2>4. Sequence(here) /\ Sequence(made)
    <3>1. Sequence(here)
      BY DEF Sequence, Range, Check
    <3> QED
      BY <3>1, NamedStopChecks DEF Named, Sequence
  <2>5. \E nextPc, nextStop : Decide(here \o made, nextPc, nextStop)
    BY <1>12 DEF PlaceTransaction
  <2> HIDE DEF here, made
  <2>6. ASSUME NEW i \in DOMAIN (here \o made), FirstFailure(here \o made, i)
        PROVE  Agrees(bundle, (here \o made)[i].code)
    <3>1. \/ i \in DOMAIN here /\ (here \o made)[i] = here[i]
          \/ \E j \in DOMAIN made :
               FirstFailure(made, j) /\ (here \o made)[i] = made[j]
      BY <2>4, <2>6, FirstOfBoth
    <3> QED
      BY <2>2, <2>3, <3>1
  <2> QED
    BY <1>0, <2>1, <2>5, <2>6, DecideAgrees
<1>13. CASE ReadCoin
  <2>1. pc = "coin" /\ Decide(CoinChecks(bundle), "best", stop)
    BY <1>13 DEF ReadCoin
  <2>2. \A i \in DOMAIN CoinChecks(bundle) : CoinChecks(bundle)[i].code \in OwnCodes
    BY DEF CoinChecks, Check, OwnCodes
  <2> QED
    BY <1>0, <2>1, <2>2, OwnCodesAgree, DecideAgrees
<1>14. CASE ReadBestHash
  BY <1>2, <1>14 DEF ReadBestHash
<1>15. CASE ReadTip
  <2> DEFINE checks == TipChecks(bundle, Header(best), blocks[bundle.mint.block].chainwork)
  <2>1. \A i \in DOMAIN checks : checks[i].code \in OwnCodes
    BY DEF TipChecks, Check, OwnCodes
  <2>2. CASE Fail(checks)
    BY <1>1, <2>1, <2>2 DEF Fail
  <2>3. CASE Finish("VALID")
    BY <1>1, <2>3 DEF OwnCodes
  <2> QED
    BY <1>15, <2>2, <2>3 DEF ReadTip
<1>16. CASE RpcFails
  BY <1>1, <1>16 DEF RpcFails, OwnCodes
<1> QED
  BY <1>5, <1>6, <1>7, <1>8, <1>9, <1>10, <1>11, <1>12, <1>13, <1>14, <1>15, <1>16
     DEF Call

\* The two implementations agree on every bundle, whatever the node does meanwhile
\* (verify_vectors.mjs:298-385, verify.py:146-387).
THEOREM ImplementationsAgree == Spec => []CheckersAgree
<1>1. Init => AgreeInv
  BY OwnCodesAgree DEF Init, AgreeInv, OwnCodes
<1>2. TypeInv /\ AcceptInv /\ AgreeInv /\ [Next]_vars => AgreeInv'
  <2> SUFFICES ASSUME TypeInv, AcceptInv, AgreeInv, [Next]_vars PROVE AgreeInv'
    OBVIOUS
  <2>1. CASE Call
    BY <2>1, CallAgrees
  <2>2. CASE Begin \/ ChainGrows \/ ChainReorganizes \/ UNCHANGED vars
    <3>1. verdict' = verdict /\ bundle' = bundle
      BY <2>2 DEF Begin, Goto, ChainGrows, ChainReorganizes, verifierVars, vars
    <3> QED
      BY <3>1 DEF AgreeInv
  <2> QED
    BY <2>1, <2>2 DEF Next, Step
<1>3. TypeInv /\ AcceptInv /\ AgreeInv => CheckersAgree
  <2> SUFFICES ASSUME TypeInv, AcceptInv, AgreeInv PROVE CheckersAgree
    OBVIOUS
  <2>1. ASSUME verdict = "VALID" PROVE CheckerSays(bundle, "VALID")
    <3>1. pc = "done"
      BY <2>1 DEF TypeInv, VerifierTypeOK
    <3>2. Passes(StartChecks(bundle, Network))
      BY <2>1, <3>1 DEF AcceptInv, StartInv
    <3>3. \A k \in Stops(bundle) :
            Passes(StopChecks(bundle, k, Tx[StopTxid(bundle, k)]))
      BY <2>1 DEF AcceptInv, StopInv, Reached, CheckedAt
    <3>4. Shaped(bundle)
      BY DEF TypeInv, VerifierTypeOK
    <3> QED
      BY <3>2, <3>3, <3>4, AllPass
  <2> QED
    BY <2>1 DEF AgreeInv, Agrees, CheckersAgree
<1> QED
  BY <1>1, <1>2, <1>3, TypesStart, TypesKept, AcceptStarts, AcceptKept, PTL DEF Spec
=============================================================================
