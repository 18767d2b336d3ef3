----------------------------- MODULE AssayProofs -----------------------------
(* An assay while the chain only grows, for every set of transactions, bundles, *)
(* profiles and chains: a spent title is never reported valid, and the calls of *)
(* verify_bundle implement the two moments of module Assay.                     *)
EXTENDS AcceptanceProofs, AssayRefinement

\* Growing is one of the things a chain does.
LEMMA AppendIsNext == [NextAppend]_vars => [Next]_vars
BY DEF NextAppend, Next

\* What holds however the chain changes.
LEMMA AppendTypes == AppendSpec => []TypeInv
BY AppendIsNext, TypesStart, TypesKept, PTL DEF AppendSpec

\* A transaction confirmed stays confirmed while the chain grows.
LEMMA ConfirmedKept ==
  ASSUME NodeInv, BlocksKept, ChainKept
  PROVE  Confirmed(chain) \subseteq Confirmed(chain)'
<1> SUFFICES ASSUME NEW h \in DOMAIN chain, NEW t \in blocks[chain[h]].txs
             PROVE  \E g \in DOMAIN chain' : t \in blocks'[chain'[g]].txs
  BY DEF Confirmed
<1>1. chain[h] \in BlockHashes
  BY DEF NodeInv, NodeTypeOK
<1> QED
  BY <1>1 DEF BlocksKept, ChainKept

\* No call but gettxout's lets verify_bundle go on to the tip, and only the tip's
\* ends in a report.
LEMMA DecideDiffers ==
  ASSUME TypeInv, NEW checks, Named(checks), NEW nextPc, NEW nextStop,
         pc # "done", Decide(checks, nextPc, nextStop)
  PROVE  /\ verdict' # "VALID"
         /\ pc' = nextPc \/ pc' = "done"
         /\ pc' = nextPc /\ nextPc # "done" => Passes(checks)
<1>1. CASE Passes(checks) /\ Goto(nextPc, nextStop)
  BY <1>1 DEF Goto, TypeInv, VerifierTypeOK
<1>2. CASE Fail(checks)
  BY <1>2 DEF Fail, Finish, Named
<1> QED
  BY <1>1, <1>2 DEF Decide

\* So a call that is not one of these leads neither to the tip nor to a report.
LEMMA OtherCalls ==
  ASSUME TypeInv, Call, pc \notin {"coin", "best", "tip"}
  PROVE  pc' \notin {"best", "tip"} /\ verdict' # "VALID"
<1>0. pc = "done" <=> verdict # "none"
  BY DEF TypeInv, VerifierTypeOK
<1>1. ASSUME NEW outcome, outcome # "VALID", Finish(outcome)
      PROVE  pc' \notin {"best", "tip"} /\ verdict' # "VALID"
  BY <1>1 DEF Finish
<1>2. ASSUME NEW checks, Named(checks), NEW nextPc, NEW nextStop, pc # "done",
             nextPc \notin {"best", "tip"}, Decide(checks, nextPc, nextStop)
      PROVE  pc' \notin {"best", "tip"} /\ verdict' # "VALID"
  BY <1>2, DecideDiffers
<1>3. CASE ReadNetwork
  BY <1>2, <1>3, NamedLists DEF ReadNetwork
<1>4. CASE ReadHeader
  BY <1>0, <1>1, <1>4 DEF ReadHeader, Goto
<1>5. CASE ReadHashAtHeight
  BY <1>0, <1>1, <1>5 DEF ReadHashAtHeight, Goto
<1>6. CASE ReadHeaderAtHeight
  <2>1. Named(CanonicalChecks(bundle, stop))
        /\ Named(CanonicalChecks(bundle, stop) \o ChallengeChecks(bundle))
    BY NamedLists, NamedConcat
  <2> QED
    BY <1>2, <1>6, <2>1 DEF ReadHeaderAtHeight
<1>7. \A code \in {"BAD_INCLUSION_PROOF", "TRANSACTION_LOOKUP", "TRANSACTION_MISMATCH"} :
        \A ok : Named(<<Check(code, ok)>>)
  BY DEF Named, Range, Check
<1>8. CASE VerifyProof
  BY <1>1, <1>2, <1>7, <1>8 DEF VerifyProof
<1>9. CASE CheckIncluded
  BY <1>1, <1>2, <1>7, <1>9 DEF CheckIncluded
<1>10. CASE FetchTransaction
  BY <1>2, <1>7, <1>10 DEF FetchTransaction
<1>11. CASE PlaceTransaction
  <2>1. \A ok : Named(<<Check("TRANSACTION_MISMATCH", ok)>>
                        \o StopChecks(bundle, stop, Tx[StopTxid(bundle, stop)]))
    BY <1>7, NamedStopChecks, NamedConcat
  <2> QED
    BY <1>2, <1>11, <2>1 DEF PlaceTransaction
<1>12. CASE RpcFails
  BY <1>1, <1>12 DEF RpcFails
<1> QED
  BY <1>3, <1>4, <1>5, <1>6, <1>8, <1>9, <1>10, <1>11, <1>12
     DEF Call, ReadCoin, ReadBestHash, ReadTip

\* A coin that gettxout answers is unspent on the chain (verify.py:350).
LEMMA VisibleIsUnspent ==
  ASSUME NEW b, Visible(TerminalTitle(b))
  PROVE  TitleUnspent(chain, b)
BY DEF Visible, Unspent, Spent, TitleUnspent, Spenders

\* gettxout's call goes on only when the coin is there.
LEMMA CoinCall ==
  ASSUME TypeInv, Call, pc = "coin"
  PROVE  /\ verdict' # "VALID" /\ pc' \in {"best", "done"}
         /\ pc' = "best" => Visible(TerminalTitle(bundle)) /\ ReadCoin
<1>1. ReadCoin \/ RpcFails
  BY DEF Call, ReadNetwork, ReadHeader, ReadHashAtHeight, ReadHeaderAtHeight,
         VerifyProof, CheckIncluded, FetchTransaction, PlaceTransaction,
         ReadBestHash, ReadTip
<1>2. CASE RpcFails
  BY <1>2 DEF RpcFails, Finish
<1>3. CASE ReadCoin
  <2>1. /\ verdict' # "VALID" /\ pc' \in {"best", "done"}
        /\ pc' = "best" => Passes(CoinChecks(bundle))
    BY <1>3, NamedLists, DecideDiffers DEF ReadCoin
  <2>2. Passes(CoinChecks(bundle)) => Visible(TerminalTitle(bundle))
    BY DEF Passes, CoinChecks, Check
  <2> QED
    BY <1>3, <2>1, <2>2
<1> QED
  BY <1>1, <1>2, <1>3
-----------------------------------------------------------------------------
(* A spent title *)

\* The title is spent and its coin was not read before.
Doomed ==
  ~TitleUnspent(chain, bundle) /\ pc \notin {"best", "tip"} /\ verdict # "VALID"

\* Such an assay never comes to a report.
LEMMA DoomedStays == TypeInv /\ Doomed /\ [NextAppend]_vars => Doomed'
<1> SUFFICES ASSUME TypeInv, Doomed, [NextAppend]_vars PROVE Doomed'
  OBVIOUS
<1>1. CASE Begin
  BY <1>1 DEF Begin, Goto, nodeVars, Doomed, TitleUnspent, Spenders, Confirmed
<1>2. CASE Call
  <2>1. UNCHANGED <<blocks, chain, bundle>>
    BY <1>2 DEF Call, nodeVars
  <2>2. ~TitleUnspent(chain, bundle)'
    BY <2>1 DEF Doomed, TitleUnspent, Spenders, Confirmed
  <2>3. pc' \notin {"best", "tip"} /\ verdict' # "VALID"
    BY <1>2, OtherCalls, CoinCall, VisibleIsUnspent DEF Doomed
  <2> QED
    BY <2>2, <2>3 DEF Doomed
<1>3. CASE ChainGrows
  <2>1. UNCHANGED <<bundle, pc, verdict>>
    BY <1>3 DEF ChainGrows, verifierVars
  <2>2. Confirmed(chain) \subseteq Confirmed(chain)'
    BY <1>3, ExtendKeeps, ConfirmedKept DEF ChainGrows, TypeInv
  <2> QED
    BY <2>1, <2>2 DEF Doomed, TitleUnspent, Spenders
<1>4. CASE UNCHANGED vars
  BY <1>4 DEF vars, nodeVars, verifierVars, Doomed, TitleUnspent, Spenders, Confirmed
<1> QED
  BY <1>1, <1>2, <1>3, <1>4 DEF NextAppend, Step

\* While the chain only grows, a title spent at any time before its coin is read is
\* never reported valid: the spender need not be in the bundle (verify.py:348-361).
THEOREM SpentTitlesAreRejected == AppendSpec => SpentTitleRejected
<1> DEFINE SpentEarly == ~TitleUnspent(chain, bundle) /\ pc \notin {"best", "tip", "done"}
<1>1. TypeInv /\ SpentEarly => Doomed
  BY DEF TypeInv, VerifierTypeOK, Doomed
<1>2. Doomed => verdict # "VALID"
  BY DEF Doomed
<1> QED
  BY <1>1, <1>2, AppendTypes, DoomedStays, PTL DEF AppendSpec, SpentTitleRejected
-----------------------------------------------------------------------------
(* The two moments *)

\* It counts as module Verifier does.
LEMMA SameCardinality == \A S : Abstract!Cardinality(S) = Cardinality(S)
BY Zenon DEF Cardinality, IsFiniteSet, Abstract!Cardinality, Abstract!IsFiniteSet

\* Module Assay computes the digests of a bundle as module Verifier does.
LEMMA SameAssayDigests ==
  ASSUME NEW b
  PROVE  /\ Abstract!ExpectedClaimCommitment(b) = ExpectedClaimCommitment(b)
         /\ Abstract!ExpectedChallenge(b) = ExpectedChallenge(b)
         /\ Abstract!ExpectedWorkHash(b) = ExpectedWorkHash(b)
         /\ Abstract!ExpectedMintCommitment(b) = ExpectedMintCommitment(b)
         /\ Abstract!Stops(b) = Stops(b)
         /\ \A k : /\ Abstract!Transition(b, k) = Transition(b, k)
                  /\ Abstract!StopHeight(b, k) = StopHeight(b, k)
                  /\ Abstract!TitleAt(b, k) = TitleAt(b, k)
                  /\ Abstract!ExpectedTransferCommitment(b, k)
                       = ExpectedTransferCommitment(b, k)
<1>1. Abstract!ExpectedClaimCommitment(b) = ExpectedClaimCommitment(b)
  BY DEF ExpectedClaimCommitment, claim_commitment, Abstract!ExpectedClaimCommitment,
         Abstract!claim_commitment
<1>2. Abstract!ExpectedChallenge(b) = ExpectedChallenge(b)
  BY <1>1
     DEF ExpectedChallenge, derive_challenge, Abstract!ExpectedChallenge,
         Abstract!derive_challenge
<1>3. Abstract!ExpectedWorkHash(b) = ExpectedWorkHash(b)
  BY <1>1, <1>2
     DEF ExpectedWorkHash, calculate_work_hash, Abstract!ExpectedWorkHash,
         Abstract!calculate_work_hash
<1>4. Abstract!ExpectedMintCommitment(b) = ExpectedMintCommitment(b)
  BY <1>2, <1>3
     DEF ExpectedMintCommitment, mint_commitment, Abstract!ExpectedMintCommitment,
         Abstract!mint_commitment
<1>5. Abstract!Stops(b) = Stops(b)
  BY DEF Stops, Abstract!Stops
<1>6. \A k : /\ Abstract!Transition(b, k) = Transition(b, k)
             /\ Abstract!StopHeight(b, k) = StopHeight(b, k)
             /\ Abstract!TitleAt(b, k) = TitleAt(b, k)
  BY DEF Transition, StopHeight, TitleAt, Claim, Challenge, Mint, Abstract!Transition,
         Abstract!StopHeight, Abstract!TitleAt, Abstract!Claim, Abstract!Challenge,
         Abstract!Mint
<1>7. ASSUME NEW k
      PROVE  Abstract!ExpectedTransferCommitment(b, k) = ExpectedTransferCommitment(b, k)
  <2>1. Abstract!AtomId(b) = AtomId(b)
    BY <1>4 DEF AtomId, atom_id, Abstract!AtomId, Abstract!atom_id
  <2> QED
    BY <1>6, <2>1
       DEF ExpectedTransferCommitment, transfer_commitment,
           Abstract!ExpectedTransferCommitment, Abstract!transfer_commitment
<1> QED
  BY <1>1, <1>2, <1>3, <1>4, <1>5, <1>6, <1>7

\* What module Assay calls a genuine, unspent, visible and buried atom is what
\* module Verifier calls so.
LEMMA SameAtoms ==
  ASSUME NEW b
  PROVE  /\ Abstract!GenuineHistory(chain, b) <=> GenuineHistory(chain, b)
         /\ Abstract!TitleUnspent(chain, b) <=> TitleUnspent(chain, b)
         /\ Abstract!Visible(Abstract!TerminalTitle(b)) <=> Visible(TerminalTitle(b))
         /\ Abstract!Buried(chain, b) <=> Buried(chain, b)
<1>1. Abstract!GenuineHistory(chain, b) <=> GenuineHistory(chain, b)
  <2>1. Abstract!OwnDigests(b) <=> OwnDigests(b)
    BY SameAssayDigests DEF OwnDigests, Mint, Abstract!OwnDigests, Abstract!Mint
  <2>2. ASSUME NEW txid, NEW n, NEW d
        PROVE  /\ \A h : Abstract!ConfirmedAt(chain, txid, n, h)
                         <=> ConfirmedAt(chain, txid, n, h)
               /\ Abstract!Seals(txid, n, d) <=> Seals(txid, n, d)
               /\ Abstract!Markers(txid, n) = Markers(txid, n)
               /\ Abstract!OnlyMarker(txid, n, d) <=> OnlyMarker(txid, n, d)
               /\ Abstract!Spenders(chain, txid) = Spenders(chain, txid)
    <3>1. Abstract!Markers(txid, n) = Markers(txid, n)
      BY DEF Markers, Abstract!Markers
    <3>2. Abstract!Spenders(chain, txid) = Spenders(chain, txid)
      BY DEF Spenders, Confirmed, Abstract!Spenders, Abstract!Confirmed
    <3> QED
      BY <3>1, <3>2
         DEF ConfirmedAt, Seals, OnlyMarker, Abstract!ConfirmedAt, Abstract!Seals,
             Abstract!OnlyMarker
  <2>3. Abstract!GenuineClaim(chain, b) <=> GenuineClaim(chain, b)
    <3> DEFINE txid == b.claim.outpoint[1]
               vout == b.claim.outpoint[2]
               script == <<"claim", ExpectedClaimCommitment(b)>>
               marked == {v \in Markers(txid, "claim") : Tx[txid].outputs[v].script = script}
               abstractly == {v \in Abstract!Markers(txid, "claim") :
                                Tx[txid].outputs[v].script
                                  = <<"claim", Abstract!ExpectedClaimCommitment(b)>>}
    <3>1. abstractly = marked
      <4>1. Abstract!Markers(txid, "claim") = Markers(txid, "claim")
        BY <2>2
      <4>2. Abstract!ExpectedClaimCommitment(b) = ExpectedClaimCommitment(b)
        BY SameAssayDigests
      <4> QED
        BY <4>1, <4>2, Zenon
    <3>2. GenuineClaim(chain, b) <=>
            /\ b.claim.algorithm = SHA256D
            /\ b.claim.target <= Profiles[b.profile].maximum_target
            /\ ConfirmedAt(chain, txid, b.claim.block, b.claim.height)
            /\ Seals(txid, vout, b.claim.seal_script)
            /\ Cardinality(marked) = 1
      BY DEF GenuineClaim
    <3>3. Abstract!GenuineClaim(chain, b) <=>
            /\ b.claim.algorithm = Abstract!SHA256D
            /\ b.claim.target <= Profiles[b.profile].maximum_target
            /\ Abstract!ConfirmedAt(chain, txid, b.claim.block, b.claim.height)
            /\ Abstract!Seals(txid, vout, b.claim.seal_script)
            /\ Cardinality(abstractly) = 1
      BY SameCardinality DEF Abstract!GenuineClaim
    <3>4. Abstract!SHA256D = SHA256D
      BY DEF SHA256D, Abstract!SHA256D
    <3>5. /\ Abstract!ConfirmedAt(chain, txid, b.claim.block, b.claim.height)
               <=> ConfirmedAt(chain, txid, b.claim.block, b.claim.height)
          /\ Abstract!Seals(txid, vout, b.claim.seal_script)
               <=> Seals(txid, vout, b.claim.seal_script)
      BY <2>2
    <3> HIDE DEF txid, vout, marked, abstractly
    <3> QED
      BY <3>1, <3>2, <3>3, <3>4, <3>5, Zenon
  <2>4. Abstract!GenuineWork(chain, b) <=> GenuineWork(chain, b)
    BY SameAssayDigests
       DEF GenuineWork, derive_challenge, calculate_work_hash, Abstract!GenuineWork,
           Abstract!derive_challenge, Abstract!calculate_work_hash
  <2>5. Abstract!GenuineMint(chain, b) <=> GenuineMint(chain, b)
    BY <2>2, SameAssayDigests DEF GenuineMint, Abstract!GenuineMint
  <2>6. ASSUME NEW k
        PROVE  Abstract!GenuineTransition(chain, b, k) <=> GenuineTransition(chain, b, k)
    BY <2>2, SameAssayDigests
       DEF GenuineTransition, Mint, Abstract!GenuineTransition, Abstract!Mint
  <2> QED
    BY <2>1, <2>3, <2>4, <2>5, <2>6, SameAssayDigests
       DEF GenuineHistory, Mint, Abstract!GenuineHistory, Abstract!Mint
<1>2. Abstract!TitleUnspent(chain, b) <=> TitleUnspent(chain, b)
  BY DEF TitleUnspent, Spenders, Confirmed, TerminalTitle, TitleAt, Transition, Mint,
         Abstract!TitleUnspent, Abstract!Spenders, Abstract!Confirmed,
         Abstract!TerminalTitle, Abstract!TitleAt, Abstract!Transition, Abstract!Mint
<1>3. Abstract!Visible(Abstract!TerminalTitle(b)) <=> Visible(TerminalTitle(b))
  BY DEF Visible, Unspent, Created, Spent, Confirmed, TerminalTitle, TitleAt, Transition,
         Mint, Abstract!Visible, Abstract!Unspent, Abstract!Created, Abstract!Spent,
         Abstract!Confirmed, Abstract!TerminalTitle, Abstract!TitleAt,
         Abstract!Transition, Abstract!Mint
<1>4. Abstract!Buried(chain, b) <=> Buried(chain, b)
  BY DEF Buried, Abstract!Buried
<1> QED
  BY <1>1, <1>2, <1>3, <1>4

\* The node is the same.
LEMMA SameNode ==
  /\ Abstract!NodeInit <=> NodeInit
  /\ Abstract!Extend <=> Extend
<1>1. Abstract!NodeInit <=> NodeInit
  BY DEF NodeInit, Abstract!NodeInit
<1>2. Abstract!Extend <=> Extend
  BY DEF Extend, Broadcast, Generate, Acceptable, Publishable, Visible, Unspent, Created,
         Spent, Confirmed, Connectable, Surviving, TotalWork, BlockHashes, TxIds,
         Abstract!Extend, Abstract!Broadcast, Abstract!Generate, Abstract!Acceptable,
         Abstract!Publishable, Abstract!Visible, Abstract!Unspent, Abstract!Created,
         Abstract!Spent, Abstract!Confirmed, Abstract!Connectable, Abstract!Surviving,
         Abstract!TotalWork, Abstract!BlockHashes, Abstract!TxIds
<1> QED
  BY <1>1, <1>2
-----------------------------------------------------------------------------
\* A chain that grows has at least the length and the work it had.
LEMMA ExtendGrows ==
  ASSUME NodeInv, Extend
  PROVE  /\ Len(chain) <= Len(chain)'
         /\ TotalWork(chain) <= TotalWork(chain)'
<1>0. /\ chain \in Seq(BlockHashes) /\ Len(chain) \in Nat /\ Len(chain) >= 1
      /\ chain[Len(chain)] \in BlockHashes /\ TotalWork(chain) \in Nat
  BY ChainEnd DEF TotalWork
<1>1. ASSUME NEW t \in TxIds, Broadcast(t)
      PROVE  Len(chain) <= Len(chain)' /\ TotalWork(chain) <= TotalWork(chain)'
  BY <1>0, <1>1 DEF Broadcast, TotalWork
<1>2. ASSUME NEW txids \in SUBSET TxIds, NEW work \in BlockWorks, Generate(txids, work)
      PROVE  Len(chain) <= Len(chain)' /\ TotalWork(chain) <= TotalWork(chain)'
  <2> DEFINE next  == Len(blocks) + 1
             block == [branch    |-> Append(chain, next),
                       txs       |-> txids,
                       chainwork |-> TotalWork(chain) + work]
  <2>1. chain' = Append(chain, next) /\ blocks' = Append(blocks, block)
    BY <1>2 DEF Generate
  <2>2. Len(chain') = Len(chain) + 1 /\ chain'[Len(chain) + 1] = next
    BY <1>0, <2>1, AppendProperties
  <2>3. blocks'[next] = block
    BY <2>1 DEF NodeInv, NodeTypeOK
  <2>4. TotalWork(chain)' = TotalWork(chain) + work
    BY <2>2, <2>3 DEF TotalWork
  <2> QED
    BY <1>0, <2>2, <2>4, NodeAssumption
<1> QED
  BY <1>1, <1>2 DEF Extend

\* The block that was the tip has no more above it than the chain has.
TipBelow ==
  pc = "tip" =>
    /\ best \in BlockHashes
    /\ Len(blocks[best].branch) <= Len(chain)
    /\ blocks[best].chainwork <= TotalWork(chain)

\* getbestblockhash's call goes on to the tip.
LEMMA BestCall ==
  ASSUME Call, pc = "best"
  PROVE  \/ ReadBestHash /\ pc' = "tip" /\ verdict' = verdict
         \/ pc' = "done" /\ verdict' = "UNCAUGHT"
<1>1. ReadBestHash \/ RpcFails
  BY DEF Call, ReadNetwork, ReadHeader, ReadHashAtHeight, ReadHeaderAtHeight,
         VerifyProof, CheckIncluded, FetchTransaction, PlaceTransaction,
         ReadCoin, ReadTip
<1> QED
  BY <1>1 DEF ReadBestHash, RpcFails, Goto, Finish, HeaderLookup, TransactionLookup

\* The last call ends it.
LEMMA TipCall ==
  ASSUME Call, pc = "tip"
  PROVE  /\ pc' = "done"
         /\ \/ verdict' \notin {"none", "VALID"}
            \/ /\ verdict' = "VALID"
               /\ Passes(TipChecks(bundle, Header(best),
                                   blocks[bundle.mint.block].chainwork))
<1>1. ReadTip \/ RpcFails
  BY DEF Call, ReadNetwork, ReadHeader, ReadHashAtHeight, ReadHeaderAtHeight,
         VerifyProof, CheckIncluded, FetchTransaction, PlaceTransaction,
         ReadCoin, ReadBestHash
<1>2. CASE RpcFails
  BY <1>2 DEF RpcFails, Finish, HeaderLookup, TransactionLookup
<1>3. CASE ReadTip
  <2>1. Named(TipChecks(bundle, Header(best), blocks[bundle.mint.block].chainwork))
    BY NamedLists
  <2> QED
    BY <1>3, <2>1 DEF ReadTip, Fail, Finish, Named
<1> QED
  BY <1>1, <1>2, <1>3

\* The other calls end nowhere near the tip.
LEMMA TipBelowKept == TypeInv /\ TipBelow /\ [NextAppend]_vars => TipBelow'
<1> SUFFICES ASSUME TypeInv, TipBelow, [NextAppend]_vars, pc' = "tip"
             PROVE  TipBelow'
  BY DEF TipBelow
<1>1. CASE Begin
  BY <1>1 DEF Begin, Goto
<1>2. CASE Call
  <2>1. pc = "best"
    BY <1>2, OtherCalls, CoinCall, TipCall
  <2>2. /\ best' = chain[Len(chain)] /\ chain' = chain /\ blocks' = blocks
    BY <1>2, <2>1, BestCall DEF ReadBestHash, Call, nodeVars
  <2>3. best' \in BlockHashes /\ blocks[best'].branch = chain
    BY <2>2, ChainEnd DEF TypeInv
  <2> QED
    BY <2>2, <2>3, ChainEnd DEF TipBelow, TotalWork, BlockHashes, TypeInv
<1>3. CASE ChainGrows
  <2>1. pc' = pc /\ best' = best
    BY <1>3 DEF ChainGrows, verifierVars
  <2>2. BlocksKept /\ NodeInv'
    BY <1>3, ExtendKeeps DEF ChainGrows, TypeInv
  <2>3. best \in BlockHashes' /\ blocks'[best] = blocks[best]
    BY <2>1, <2>2 DEF TipBelow, BlocksKept
  <2>4. Len(chain) <= Len(chain)' /\ TotalWork(chain) <= TotalWork(chain)'
    BY <1>3, ExtendGrows DEF ChainGrows, TypeInv
  <2>5. /\ Len(chain) \in Nat /\ Len(chain)' \in Nat
        /\ TotalWork(chain) \in Nat /\ TotalWork(chain)' \in Nat
    <3>1. Len(chain) \in Nat /\ TotalWork(chain) \in Nat
      BY ChainEnd DEF TypeInv, TotalWork
    <3>2. NodeInv => Len(chain) \in Nat /\ TotalWork(chain) \in Nat
      BY ChainEnd DEF TotalWork
    <3>3. NodeInv' => (Len(chain) \in Nat /\ TotalWork(chain) \in Nat)'
      BY ChainEnd, PTL DEF TotalWork
    <3> QED
      BY <2>2, <3>1, <3>3
  <2>6. Len(blocks[best].branch) \in Nat /\ blocks[best].chainwork \in Nat
    <3>1. best \in BlockHashes
      BY <2>1 DEF TipBelow
    <3>2. blocks[best] \in Block
      BY <3>1 DEF TypeInv, NodeInv, NodeTypeOK, BlockHashes
    <3> QED
      BY <3>2 DEF Block
  <2> QED
    BY <2>1, <2>3, <2>4, <2>5, <2>6 DEF TipBelow
<1>4. CASE UNCHANGED vars
  BY <1>4 DEF vars, nodeVars, verifierVars, TipBelow, TotalWork, BlockHashes
<1> QED
  BY <1>1, <1>2, <1>3, <1>4 DEF NextAppend, Step

\* The invariant of an assay during which the chain only grows: nothing found at a
\* stop is lost, so that all of it holds of one chain.
AppendInv == TypeInv /\ LedgerInv /\ AcceptInv /\ TipBelow /\ disturbed = {}

\* It holds at first, and blocks, spends and the verifier's calls keep it.
LEMMA AppendStarts == Init => AppendInv
BY TypesStart, LedgerStarts, AcceptStarts DEF Init, AppendInv, TipBelow

LEMMA AppendKept == AppendInv /\ [NextAppend]_vars => AppendInv'
<1> SUFFICES ASSUME AppendInv, [NextAppend]_vars PROVE AppendInv'
  OBVIOUS
<1>1. TypeInv' /\ LedgerInv' /\ AcceptInv'
  BY AppendIsNext, TypesKept, LedgerKept, AcceptKept DEF AppendInv
<1>2. disturbed' = {}
  BY DEF AppendInv, NextAppend, Step, Begin, Call, ChainGrows, vars
<1> QED
  BY <1>1, <1>2, TipBelowKept DEF AppendInv

\* Hence it holds whenever the chain only grows.
LEMMA AppendInvariant == AppendSpec => []AppendInv
BY AppendStarts, AppendKept, PTL DEF AppendSpec

\* When gettxout answers, everything found before holds of the chain it answers for
\* (verify.py:350).
LEMMA CoinHolds ==
  ASSUME AppendInv, pc = "coin", Visible(TerminalTitle(bundle))
  PROVE  /\ bundle.profile \in DOMAIN Profiles
         /\ Profiles[bundle.profile].network = Network
         /\ GenuineHistory(chain, bundle)
         /\ TitleUnspent(chain, bundle)
<1>1. ASSUME NEW k \in Stops(bundle)
      PROVE  On(k) /\ (k # Challenge => Contains(k)) /\ CheckedAt(k)
  BY DEF AppendInv, AcceptInv, StopInv, Found, Included, Reached
<1>2. FullyChecked(chain, bundle)
  BY <1>1 DEF FullyChecked, LoadedAt, ConfirmedAt, On, Contains, CheckedAt
<1>3. Passes(StartChecks(bundle, Network)) /\ Len(bundle.transfers) \in Nat
  BY DEF Shaped, AppendInv, AcceptInv, StartInv, TypeInv, VerifierTypeOK
<1> QED
  BY <1>2, <1>3, CheckedIsGenuine, VisibleIsUnspent DEF AppendInv, TypeInv

\* When the report is made the mint is buried in the chain of the moment, which has
\* all of the one that getbestblockhash answered for (verify.py:362-370).
LEMMA TipBuries ==
  ASSUME AppendInv, pc = "tip",
         Passes(TipChecks(bundle, Header(best), blocks[bundle.mint.block].chainwork))
  PROVE  Buried(chain, bundle)
<1> DEFINE p == Profiles[bundle.profile]
           checks == TipChecks(bundle, Header(best), blocks[bundle.mint.block].chainwork)
<1>1. /\ best \in BlockHashes
      /\ Len(blocks[best].branch) <= Len(chain)
      /\ blocks[best].chainwork <= TotalWork(chain)
  BY DEF AppendInv, TipBelow
<1>2. checks[2].ok /\ checks[3].ok
  BY DEF Passes, TipChecks
<1>3. /\ Len(blocks[best].branch) - bundle.mint.height >= p.minimum_burial_blocks
      /\ blocks[best].chainwork - blocks[bundle.mint.block].chainwork
           >= p.minimum_burial_chainwork
  BY <1>2 DEF TipChecks, Check, Header
<1>4. /\ bundle.mint.height \in Nat
      /\ p.minimum_burial_blocks \in Nat /\ p.minimum_burial_chainwork \in Nat
  <2>1. Passes(StartChecks(bundle, Network))
    BY DEF AppendInv, AcceptInv, StartInv, TypeInv, VerifierTypeOK
  <2>2. StartChecks(bundle, Network)[1].ok
    BY <2>1 DEF Passes, StartChecks
  <2>3. bundle.profile \in DOMAIN Profiles
    BY <2>2 DEF StartChecks, Check
  <2> QED
    BY <2>3, ProfilesAssumption DEF Shaped, Profile, AppendInv, TypeInv, VerifierTypeOK
<1>5. bundle.mint.block \in BlockHashes
  <2>1. Mint \in Stops(bundle) /\ Mint # Challenge
        /\ StopBlock(bundle, Mint) = bundle.mint.block
    BY DEF Shaped, AppendInv, TypeInv, VerifierTypeOK, Stops, Mint, Challenge, Claim,
           StopBlock
  <2> QED
    BY <2>1 DEF AppendInv, AcceptInv, StopInv, Included, Reached, Contains
<1>6. /\ Len(blocks[best].branch) \in Nat /\ blocks[best].chainwork \in Nat
      /\ blocks[bundle.mint.block].chainwork \in Nat
      /\ Len(chain) \in Nat /\ TotalWork(chain) \in Nat
  <2>1. blocks[best] \in Block /\ blocks[bundle.mint.block] \in Block
    BY <1>1, <1>5 DEF AppendInv, TypeInv, NodeInv, NodeTypeOK, BlockHashes
  <2> QED
    BY <2>1, ChainEnd DEF AppendInv, TypeInv, Block, TotalWork
<1> HIDE DEF p, checks
<1>7. /\ Len(chain) >= bundle.mint.height + p.minimum_burial_blocks
      /\ TotalWork(chain) >= blocks[bundle.mint.block].chainwork
                               + p.minimum_burial_chainwork
  BY <1>1, <1>3, <1>4, <1>6
<1> QED
  BY <1>7 DEF Buried, TotalWork, p

\* What an assay has come to, told by its program counter and its verdict.
LEMMA OutcomeIs ==
  /\ verdict = "none" /\ pc \in {"best", "tip"} => Outcome = "held"
  /\ verdict = "none" /\ pc \notin {"best", "tip"} => Outcome = "open"
  /\ verdict = "VALID" => Outcome = "valid"
  /\ verdict \notin {"none", "VALID"} => Outcome = "invalid"
BY DEF Outcome

\* Each call is a moment of the assay or nothing to it.
LEMMA CallImplements ==
  ASSUME AppendInv, Call
  PROVE  \/ Abstract!Hold \/ Abstract!Accept \/ Abstract!Refuse
         \/ Outcome' = Outcome
<1>0. /\ verdict = "none" <=> pc # "done"
      /\ verdict' = "none" <=> pc' # "done"
      /\ pc # "done"
  <2>1. TypeInv /\ VerifierTypeOK'
    BY CallTypes DEF AppendInv
  <2>2. pc # "done"
    BY DEF Call, ReadNetwork, ReadHeader, ReadHashAtHeight, ReadHeaderAtHeight,
           VerifyProof, CheckIncluded, FetchTransaction, PlaceTransaction,
           ReadCoin, ReadBestHash, ReadTip, RpcFails, HeaderLookup, TransactionLookup
  <2> QED
    BY <2>1, <2>2 DEF TypeInv, VerifierTypeOK
<1>1. /\ verdict' = "none" /\ pc' \in {"best", "tip"} => Outcome' = "held"
      /\ verdict' = "none" /\ pc' \notin {"best", "tip"} => Outcome' = "open"
      /\ verdict' = "VALID" => Outcome' = "valid"
      /\ verdict' \notin {"none", "VALID"} => Outcome' = "invalid"
  BY DEF Outcome
<1>2. CASE pc \notin {"coin", "best", "tip"}
  <2>1. Outcome = "open"
    BY <1>0, <1>2, OutcomeIs
  <2>2. Outcome' \in {"open", "invalid"}
    BY <1>1, <1>2, OtherCalls DEF AppendInv
  <2> QED
    BY <2>1, <2>2 DEF Abstract!Refuse
<1>3. CASE pc = "coin"
  <2>1. Outcome = "open"
    BY <1>0, <1>3, OutcomeIs
  <2>2. /\ verdict' # "VALID" /\ pc' \in {"best", "done"}
        /\ pc' = "best" => Visible(TerminalTitle(bundle))
    BY <1>3, CoinCall DEF AppendInv
  <2>3. CASE pc' = "best"
    <3>1. Outcome' = "held"
      BY <1>0, <1>1, <2>3
    <3>2. /\ bundle.profile \in DOMAIN Profiles
          /\ Profiles[bundle.profile].network = Network
          /\ GenuineHistory(chain, bundle)
          /\ TitleUnspent(chain, bundle)
      BY <1>3, <2>2, <2>3, CoinHolds
    <3> QED
      BY <2>1, <2>2, <2>3, <3>1, <3>2, SameAtoms DEF Abstract!Hold
  <2>4. CASE pc' = "done"
    BY <1>0, <1>1, <2>1, <2>2, <2>4 DEF Abstract!Refuse
  <2> QED
    BY <2>2, <2>3, <2>4
<1>4. CASE pc = "best"
  <2>1. Outcome = "held"
    BY <1>0, <1>4, OutcomeIs
  <2>2. Outcome' \in {"held", "invalid"}
    BY <1>0, <1>1, <1>4, BestCall
  <2> QED
    BY <2>1, <2>2 DEF Abstract!Refuse
<1>5. CASE pc = "tip"
  <2>1. Outcome = "held"
    BY <1>0, <1>5, OutcomeIs
  <2>2. CASE verdict' \notin {"none", "VALID"}
    BY <1>1, <2>1, <2>2 DEF Abstract!Refuse
  <2>3. CASE /\ verdict' = "VALID"
             /\ Passes(TipChecks(bundle, Header(best),
                                 blocks[bundle.mint.block].chainwork))
    <3>1. Buried(chain, bundle)
      BY <1>5, <2>3, TipBuries
    <3> QED
      BY <1>1, <2>1, <2>3, <3>1, SameAtoms DEF Abstract!Accept
  <2> QED
    BY <1>5, <2>2, <2>3, TipCall
<1> QED
  BY <1>2, <1>3, <1>4, <1>5

\* A step of the verifier or of its node is a step of the assay, or none.
LEMMA StepImplements ==
  AppendInv /\ [NextAppend]_vars => [Abstract!AssayNext]_Abstract!assayVars
<1> SUFFICES ASSUME AppendInv, [NextAppend]_vars
             PROVE  [Abstract!AssayNext]_Abstract!assayVars
  OBVIOUS
<1>1. CASE Begin
  <2>1. UNCHANGED <<nodeVars, bundle>>
    BY <1>1 DEF Begin
  <2>2. Outcome' = Outcome
    BY <1>1 DEF Begin, Goto, Outcome, AppendInv, TypeInv, VerifierTypeOK
  <2> QED
    BY <2>1, <2>2 DEF nodeVars, Abstract!nodeVars, Abstract!assayVars
<1>2. CASE Call
  <2>1. UNCHANGED <<nodeVars, bundle>>
    BY <1>2 DEF Call
  <2> QED
    BY <1>2, <2>1, CallImplements
       DEF nodeVars, Abstract!nodeVars, Abstract!assayVars, Abstract!AssayNext
<1>3. CASE ChainGrows
  <2>1. Extend /\ UNCHANGED <<verifierVars, bundle>>
    BY <1>3 DEF ChainGrows
  <2>2. Outcome' = Outcome
    BY <2>1 DEF verifierVars, Outcome
  <2> QED
    BY <2>1, <2>2, SameNode DEF Abstract!AssayNext
<1>4. CASE UNCHANGED vars
  <2>1. UNCHANGED <<nodeVars, bundle>> /\ Outcome' = Outcome
    BY <1>4 DEF vars, verifierVars, Outcome
  <2> QED
    BY <2>1 DEF nodeVars, Abstract!nodeVars, Abstract!assayVars
<1> QED
  BY <1>1, <1>2, <1>3, <1>4 DEF NextAppend, Step

\* The calls of verify_bundle, spread over any number of blocks, amount to the two
\* moments of module Assay: one at which all of the bundle is true and its title
\* unspent, and a later one at which the mint is buried (verify.py:146-387).
THEOREM VerifierImplementsAssay == AppendSpec => ImplementsAssay
<1>1. Init => Abstract!AssayInit
  BY SameNode, OutcomeIs DEF Init, Abstract!AssayInit
<1> QED
  BY <1>1, AppendInvariant, StepImplements, PTL
     DEF AppendSpec, ImplementsAssay, Abstract!AssaySpec
=============================================================================
