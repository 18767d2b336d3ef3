-------------------------- MODULE TitleLedgerProofs --------------------------
(* Whatever anybody publishes and however the chain is reorganized, a claim     *)
(* becomes one atom and an atom has one title.  Consensus is used for one fact, *)
(* that no two transactions of a chain spend one output, and the                *)
(* commitments for the rest: one marker of its kind says which history of a     *)
(* transaction is meant.  And the ledger of a tip is what the ledgers below it  *)
(* became: what is proved at one block is proved at all later ones.             *)
EXTENDS TitleLedger, GenuineAtomProofs

Inv == NodeInv /\ LedgerInv

\* The chain the node starts with is well formed, and its ledger is settled.
LEMMA InvStart == NodeInit => Inv
BY NodeStarts, LedgerStarts DEF Inv

\* Neither a new block nor a reorganization spends an output twice.
LEMMA InvKept == Inv /\ [Next]_nodeVars => Inv'
<1> SUFFICES ASSUME Inv, [Next]_nodeVars PROVE Inv'
  OBVIOUS
<1>1. ASSUME NEW txids \in SUBSET (TxIds \ Confirmed(chain)), NEW work \in BlockWorks,
             Generate(txids, work)
      PROVE  Inv'
  BY <1>1, GenerateKeeps, GenerateSettles DEF Inv
<1>2. CASE Reorganize
  BY <1>2, ReorganizeKeeps, ReorganizeSettles DEF Inv
<1>3. CASE UNCHANGED nodeVars
  <2>1. blocks' = blocks /\ chain' = chain /\ mempool' = mempool
    BY <1>3 DEF nodeVars
  <2>2. LedgerInv'
    BY <2>1, ReorganizeSettles DEF Inv
  <2>3. NodeInv'
    BY <2>1 DEF Inv, NodeInv, NodeTypeOK, BranchesEnd, ChainIsBranch, BlockHashes
  <2> QED
    BY <2>2, <2>3 DEF Inv
<1> QED
  BY <1>1, <1>2, <1>3 DEF Next

\* In every reachable state the chain spends each output once.
LEMMA ReachableInv == Spec => []Inv
BY InvStart, InvKept, PTL DEF Spec
-----------------------------------------------------------------------------
(* What a proved history says of its transactions *)

\* A presented history is a sequence of transitions after its mint.
LEMMA PresentedShape ==
  ASSUME NEW c, NEW b \in Presented(c)
  PROVE  Len(b.transfers) \in Nat
<1>1. PICK a \in Histories : b = Placed(c, a)
  BY DEF Presented
<1>2. PICK n \in Nat : n = Len(a.transfers) /\ DOMAIN a.transfers = 1..n
  BY HistoriesAssumption
<1>3. b.transfers = [i \in 1..n |-> Located(c, a.transfers[i])]
  BY <1>1, <1>2, HistoriesAssumption DEF Placed
<1> QED
  BY <1>2, <1>3
\* What a history that is proved was checked for.
LEMMA ProvedIsChecked ==
  ASSUME NEW c, NEW b \in Proved(c)
  PROVE  Len(b.transfers) \in Nat /\ FullyChecked(c, b)
BY PresentedShape DEF Proved, Proves, FullyChecked
-----------------------------------------------------------------------------
(* One atom *)

\* Two proved histories of one claim, or of one mint, name one atom.
LEMMA ClaimHasOneAtom ==
  ASSUME Settled(Confirmed(chain)), NEW a \in Proved(chain), NEW b \in Proved(chain),
         a.claim.outpoint = b.claim.outpoint \/ a.mint.txid = b.mint.txid
  PROVE  AtomId(a) = AtomId(b)
<1>1. /\ a \in Presented(chain) /\ Proves(chain, a)
      /\ b \in Presented(chain) /\ Proves(chain, b)
  BY DEF Proved
<1>2. /\ a.mint.txid \in Confirmed(chain)
      /\ a.claim.outpoint \in Tx[a.mint.txid].inputs
      /\ SoleMarker(Tx[a.mint.txid], "mint", ExpectedMintCommitment(a))
  BY <1>1, ProvedIsChecked, MintIsChecked
<1>3. /\ b.mint.txid \in Confirmed(chain)
      /\ b.claim.outpoint \in Tx[b.mint.txid].inputs
      /\ SoleMarker(Tx[b.mint.txid], "mint", ExpectedMintCommitment(b))
  BY <1>1, ProvedIsChecked, MintIsChecked
<1>4. a.mint.txid = b.mint.txid
  BY <1>2, <1>3 DEF Settled
<1>5. ExpectedMintCommitment(a) = ExpectedMintCommitment(b)
  BY <1>2, <1>3, <1>4, SoleMarkerIsOne
<1>6. a.mint.title_vout = b.mint.title_vout
  BY <1>5 DEF ExpectedMintCommitment, mint_commitment
<1> QED
  BY <1>4, <1>5, <1>6 DEF AtomId, atom_id

\* No claim spend creates two atoms, whatever is published and reorganized.
THEOREM OneAtom == Spec => []OneAtomPerClaim
<1>1. Inv => OneAtomPerClaim
  BY ClaimHasOneAtom, ChainSettled DEF Inv, OneAtomPerClaim
<1> QED
  BY <1>1, ReachableInv, PTL
-----------------------------------------------------------------------------
(* One title *)

\* Transitions of one atom from one title are one transition.
LEMMA StepsAgree ==
  ASSUME Settled(Confirmed(chain)), NEW a \in Proved(chain), NEW b \in Proved(chain),
         NEW k \in Nat, k > Mint, k \in Stops(a), k \in Stops(b),
         TitleAt(a, k - 1) = TitleAt(b, k - 1)
  PROVE  TitleAt(a, k) = TitleAt(b, k)
<1>1. /\ a \in Presented(chain) /\ Proves(chain, a)
      /\ b \in Presented(chain) /\ Proves(chain, b)
  BY DEF Proved
<1>2. /\ Transition(a, k).txid \in Confirmed(chain)
      /\ TitleAt(a, k - 1) \in Tx[Transition(a, k).txid].inputs
      /\ SoleMarker(Tx[Transition(a, k).txid], "transfer",
                    ExpectedTransferCommitment(a, k))
  BY <1>1, ProvedIsChecked, TransitionIsChecked
<1>3. /\ Transition(b, k).txid \in Confirmed(chain)
      /\ TitleAt(b, k - 1) \in Tx[Transition(b, k).txid].inputs
      /\ SoleMarker(Tx[Transition(b, k).txid], "transfer",
                    ExpectedTransferCommitment(b, k))
  BY <1>1, ProvedIsChecked, TransitionIsChecked
<1>4. Transition(a, k).txid = Transition(b, k).txid
  BY <1>2, <1>3 DEF Settled
<1>5. ExpectedTransferCommitment(a, k) = ExpectedTransferCommitment(b, k)
  BY <1>2, <1>3, <1>4, SoleMarkerIsOne
<1>6. Transition(a, k).successor_vout = Transition(b, k).successor_vout
  BY <1>5 DEF ExpectedTransferCommitment, transfer_commitment
<1> QED
  BY <1>4, <1>6 DEF TitleAt, Mint

\* As far as two proved histories of one atom both go, they name one title.
LEMMA TitlesAgree ==
  ASSUME Settled(Confirmed(chain)), NEW a \in Proved(chain), NEW b \in Proved(chain),
         AtomId(a) = AtomId(b),
         NEW k \in Nat, k >= Mint, k \in Stops(a), k \in Stops(b)
  PROVE  TitleAt(a, k) = TitleAt(b, k)
<1> DEFINE D == {n \in Nat : /\ n >= Mint /\ n \in Stops(a) /\ n \in Stops(b)
                            /\ TitleAt(a, n) # TitleAt(b, n)}
<1>1. TitleAt(a, Mint) = TitleAt(b, Mint)
  BY DEF TitleAt, AtomId, atom_id
<1>2. SUFFICES ASSUME D # {} PROVE FALSE
  OBVIOUS
<1>3. PICK n \in D : \A m \in D : n <= m
  BY <1>2, LeastOf
<1>4. n \in Nat /\ n > Mint
  BY <1>1 DEF Mint
<1>5. /\ Len(a.transfers) \in Nat /\ Len(b.transfers) \in Nat
  BY PresentedShape DEF Proved
<1>6. n - 1 \in Nat /\ n - 1 >= Mint /\ n - 1 \in Stops(a) /\ n - 1 \in Stops(b)
  BY <1>4, <1>5 DEF Stops, Mint
<1>7. TitleAt(a, n - 1) = TitleAt(b, n - 1)
  <2>1. n - 1 \notin D
    BY <1>3, <1>4
  <2> QED
    BY <2>1, <1>6
<1> QED
  BY <1>4, <1>7, StepsAgree

\* Of two accepted histories of one atom neither is longer: the longer one's
\* next transition would spend the title at which the other ends.
LEMMA NeitherIsLonger ==
  ASSUME Settled(Confirmed(chain)), NEW a \in Accepted(chain), NEW b \in Accepted(chain),
         AtomId(a) = AtomId(b)
  PROVE  ~(Len(a.transfers) < Len(b.transfers))
<1>1. a \in Proved(chain) /\ b \in Proved(chain) /\ TitleUnspent(chain, a)
  BY DEF Accepted
<1>2. PICK m \in Nat, n \in Nat : m = Len(a.transfers) /\ n = Len(b.transfers)
  BY <1>1, PresentedShape DEF Proved
<1>3. SUFFICES ASSUME m < n PROVE FALSE
  BY <1>2
<1>4. m + 3 \in Nat /\ m + 3 >= Mint /\ m + 3 \in Stops(a) /\ m + 3 \in Stops(b)
  BY <1>2, <1>3 DEF Stops, Mint
<1>5. TerminalTitle(a) = TitleAt(b, m + 3)
  BY <1>1, <1>2, <1>4, TitlesAgree DEF TerminalTitle
<1>6. m + 4 \in Nat /\ m + 4 > Mint /\ m + 4 \in Stops(b) /\ (m + 4) - 1 = m + 3
  BY <1>2, <1>3 DEF Stops, Mint
<1>7. /\ Transition(b, m + 4).txid \in Confirmed(chain)
      /\ TitleAt(b, m + 3) \in Tx[Transition(b, m + 4).txid].inputs
  BY <1>1, <1>6, ProvedIsChecked, TransitionIsChecked
<1> QED
  BY <1>1, <1>5, <1>7 DEF TitleUnspent, Spenders

\* Two histories of one atom that both pass at one tip end in one title.
LEMMA AtomHasOneTitle ==
  ASSUME Settled(Confirmed(chain)), NEW a \in Accepted(chain), NEW b \in Accepted(chain),
         AtomId(a) = AtomId(b)
  PROVE  TerminalTitle(a) = TerminalTitle(b)
<1>1. a \in Proved(chain) /\ b \in Proved(chain)
  BY DEF Accepted
<1>2. Len(a.transfers) \in Nat /\ Len(b.transfers) \in Nat
  BY <1>1, PresentedShape DEF Proved
<1>3. Len(a.transfers) = Len(b.transfers)
  BY <1>2, NeitherIsLonger
<1>4. PICK k \in Nat : k = 3 + Len(a.transfers)
  BY <1>2
<1>5. k >= Mint /\ k \in Stops(a) /\ k \in Stops(b)
  BY <1>2, <1>3, <1>4 DEF Stops, Mint
<1> QED
  BY <1>1, <1>3, <1>4, <1>5, TitlesAgree DEF TerminalTitle

\* A title cannot be split, whatever is published and reorganized.
THEOREM OneTitle == Spec => []OneTitlePerAtom
<1>1. Inv => OneTitlePerAtom
  BY AtomHasOneTitle, ChainSettled DEF Inv, OneTitlePerAtom
<1> QED
  BY <1>1, ReachableInv, PTL
-----------------------------------------------------------------------------
(* Shared titles *)

\* Two accepted histories that end in one title without naming one atom: one has
\* transfers, the other has none.
LEMMA SharedByMintAndTransfer ==
  ASSUME Settled(Confirmed(chain)), NEW a \in Accepted(chain), NEW b \in Accepted(chain),
         AtomId(a) # AtomId(b), TerminalTitle(a) = TerminalTitle(b)
  PROVE  (Len(a.transfers) = 0) # (Len(b.transfers) = 0)
<1>1. /\ a \in Proved(chain) /\ Proves(chain, a)
      /\ b \in Proved(chain) /\ Proves(chain, b)
  BY DEF Accepted, Proved
<1>2. PICK m \in Nat, n \in Nat : m = Len(a.transfers) /\ n = Len(b.transfers)
  BY <1>1, PresentedShape DEF Proved
<1>3. ASSUME m = 0, n = 0 PROVE FALSE
  <2>1. a.mint.txid = b.mint.txid
    BY <1>2, <1>3 DEF TerminalTitle, TitleAt, Mint
  <2> QED
    BY <2>1, <1>1, ClaimHasOneAtom
<1>4. ASSUME m # 0, n # 0 PROVE FALSE
  <2>1. PICK j \in Nat, k \in Nat : j = 3 + m /\ k = 3 + n
    OBVIOUS
  <2>2. /\ j > Mint /\ j \in Stops(a) /\ k > Mint /\ k \in Stops(b)
    BY <1>2, <1>4, <2>1 DEF Stops, Mint
  <2>3. Transition(a, j).txid = Transition(b, k).txid
    BY <1>2, <2>1, <2>2 DEF TerminalTitle, TitleAt
  <2>4. SoleMarker(Tx[Transition(a, j).txid], "transfer", ExpectedTransferCommitment(a, j))
    BY <1>1, <2>2, ProvedIsChecked, TransitionIsChecked
  <2>5. SoleMarker(Tx[Transition(b, k).txid], "transfer", ExpectedTransferCommitment(b, k))
    BY <1>1, <2>2, ProvedIsChecked, TransitionIsChecked
  <2>6. ExpectedTransferCommitment(a, j) = ExpectedTransferCommitment(b, k)
    BY <2>3, <2>4, <2>5, SoleMarkerIsOne
  <2> QED
    BY <2>6 DEF ExpectedTransferCommitment, transfer_commitment
<1> QED
  BY <1>2, <1>3, <1>4

\* No two mints and no two transfers put two atoms on one title.
THEOREM SharedTitles == Spec => []TitleSharedOnlyByMintAndTransfer
<1>1. Inv => TitleSharedOnlyByMintAndTransfer
  BY SharedByMintAndTransfer, ChainSettled DEF Inv, TitleSharedOnlyByMintAndTransfer
<1> QED
  BY <1>1, ReachableInv, PTL
-----------------------------------------------------------------------------
(* A chain and its earlier tips *)

\* No transaction is in two blocks of a branch, and work only adds up along it.
Grows(c) ==
  \A g, h \in DOMAIN c :
    /\ blocks[c[g]].txs \cap blocks[c[h]].txs # {} => g = h
    /\ g <= h => blocks[c[g]].chainwork <= blocks[c[h]].chainwork

BranchesGrow == \A b \in BlockHashes : Grows(blocks[b].branch)

GrowInv == Inv /\ BranchesRise /\ BranchesGrow

\* Multiplication keeps the order.
LEMMA NoLessWork ==
  ASSUME NEW a \in Nat, NEW b \in Nat, NEW w \in Nat, a <= b
  PROVE  a * w <= b * w
OBVIOUS

\* So it is with the blocks the node starts with.
LEMMA GrowStarts == NodeInit => BranchesGrow
<1> SUFFICES ASSUME NodeInit, NEW b \in BlockHashes
             PROVE  Grows(blocks[b].branch)
  BY DEF BranchesGrow
<1>1. PICK w \in BlockWorks :
        blocks = [n \in DOMAIN History |->
                    [branch    |-> [g \in 1..n |-> g],
                     txs       |-> History[n],
                     chainwork |-> n * w]]
  BY DEF NodeInit
<1>2. Len(History) \in Nat /\ DOMAIN History = 1..Len(History) /\ w \in Nat
  BY NodeAssumption
<1>3. b \in 1..Len(History) /\ BlockHashes = 1..Len(History)
  BY <1>1, <1>2 DEF BlockHashes
<1>4. PICK c : c = [g \in 1..b |-> g]
  OBVIOUS
<1>5. blocks[b].branch = c /\ DOMAIN c = 1..b
      /\ \A g \in 1..b : /\ c[g] = g /\ g \in Nat /\ blocks[g].txs = History[g]
                         /\ blocks[g].chainwork = g * w
  BY <1>1, <1>2, <1>3, <1>4
<1>6. ASSUME NEW g \in 1..b, NEW h \in 1..b, g < h
      PROVE  History[g] \cap History[h] = {}
  <2>1. Connectable(History[h], UNION {History[f] : f \in 1..(h - 1)})
    BY <1>2, <1>3, LedgerAssumption
  <2>2. History[g] \subseteq UNION {History[f] : f \in 1..(h - 1)}
    BY <1>3, <1>6
  <2> QED
    BY <2>1, <2>2 DEF Connectable
<1>7. ASSUME NEW g \in 1..b, NEW h \in 1..b, History[g] \cap History[h] # {}
      PROVE  g = h
  <2>1. ~(g < h) /\ ~(h < g)
    BY <1>6, <1>7
  <2> QED
    BY <1>3, <2>1
<1>8. ASSUME NEW g \in 1..b, NEW h \in 1..b, g <= h
      PROVE  g * w <= h * w
  BY <1>2, <1>5, <1>8, NoLessWork
<1> QED
  BY <1>5, <1>7, <1>8 DEF Grows

\* The active chain is a branch.
LEMMA ChainGrows ==
  ASSUME NodeInv, BranchesGrow
  PROVE  Grows(chain)
BY DEF NodeInv, ChainIsBranch, BranchesGrow

\* A new block confirms what the chain has not confirmed, and adds work to it.
LEMMA GenerateGrows ==
  ASSUME NodeInv, BranchesGrow, NEW txids \in SUBSET TxIds, NEW work \in BlockWorks,
         Generate(txids, work)
  PROVE  BranchesGrow'
<1>0. PICK next : next = Len(blocks) + 1
  OBVIOUS
<1>1. BlocksKept /\ NodeInv'
  BY GenerateKeeps
<1>2. /\ blocks \in Seq(Block) /\ Len(blocks) \in Nat /\ BlockHashes = 1..Len(blocks)
      /\ chain \in Seq(BlockHashes) /\ Len(chain) \in Nat /\ Len(chain) >= 1
  BY ChainEnd DEF NodeInv, NodeTypeOK, BlockHashes
<1>3. /\ Len(blocks') = next /\ DOMAIN blocks' = 1..next
      /\ blocks'[next] = [branch    |-> Append(chain, next),
                           txs       |-> txids,
                           chainwork |-> TotalWork(chain) + work]
  BY <1>0, <1>2, AppendProperties DEF Generate
<1>4. PICK c : c = Append(chain, next)
  OBVIOUS
<1>5. /\ DOMAIN c = 1..(Len(chain) + 1) /\ c[Len(chain) + 1] = next
      /\ \A h \in 1..Len(chain) : c[h] = chain[h] /\ blocks'[c[h]] = blocks[chain[h]]
      /\ blocks'[next].branch = c /\ blocks'[next].txs = txids
      /\ blocks'[next].chainwork = TotalWork(chain) + work
  BY <1>1, <1>2, <1>3, <1>4 DEF BlocksKept
<1>6. Grows(chain) /\ DOMAIN chain = 1..Len(chain)
  BY <1>2, ChainGrows
<1>7. ASSUME NEW h \in 1..Len(chain)
      PROVE  /\ blocks[chain[h]].txs \cap txids = {}
             /\ blocks[chain[h]].chainwork <= TotalWork(chain) + work
  <2>1. blocks[chain[h]].txs \subseteq Confirmed(chain)
    BY <1>6 DEF Confirmed
  <2>2. txids \cap Confirmed(chain) = {}
    BY DEF Generate, Connectable
  <2>3. /\ Len(chain) \in DOMAIN chain /\ h <= Len(chain)
        /\ blocks[chain[h]].chainwork <= TotalWork(chain)
    BY <1>2, <1>6 DEF Grows, TotalWork
  <2>4. /\ blocks[chain[h]].chainwork \in Nat /\ TotalWork(chain) \in Nat
        /\ work \in Nat
    <3>1. blocks[chain[h]] \in Block
      BY <1>2
    <3> QED
      BY <3>1, ChainEnd, NodeAssumption DEF Block, TotalWork
  <2> QED
    BY <2>1, <2>2, <2>3, <2>4
<1>8. TotalWork(chain) + work \in Nat
  BY ChainEnd, NodeAssumption DEF TotalWork
<1>9. ASSUME NEW g \in DOMAIN c, NEW h \in DOMAIN c
      PROVE  /\ blocks'[c[g]].txs \cap blocks'[c[h]].txs # {} => g = h
             /\ g <= h => blocks'[c[g]].chainwork <= blocks'[c[h]].chainwork
  <2>1. CASE g \in 1..Len(chain) /\ h \in 1..Len(chain)
    BY <1>5, <1>6, <2>1 DEF Grows
  <2>2. CASE g \in 1..Len(chain) /\ h = Len(chain) + 1
    BY <1>5, <1>7, <2>2
  <2>3. CASE g = Len(chain) + 1 /\ h \in 1..Len(chain)
    <3>1. ~(g <= h)
      BY <1>2, <2>3
    <3> QED
      BY <1>5, <1>7, <2>3, <3>1
  <2>4. CASE g = Len(chain) + 1 /\ h = Len(chain) + 1
    BY <1>5, <1>8, <2>4
  <2> QED
    BY <1>2, <1>5, <2>1, <2>2, <2>3, <2>4
<1>10. ASSUME NEW b \in BlockHashes
       PROVE  Grows(blocks[b].branch)'
  <2>1. PICK d : d = blocks[b].branch
    OBVIOUS
  <2>2. d \in Seq(BlockHashes) /\ Grows(d) /\ blocks'[b].branch = d
    BY <1>1, <2>1 DEF NodeInv, BranchesEnd, BranchesGrow, BlocksKept
  <2>3. \A h \in DOMAIN d : blocks'[d[h]] = blocks[d[h]]
    BY <1>1, <2>2 DEF BlocksKept
  <2> QED
    BY <2>2, <2>3 DEF Grows
<1>11. Grows(blocks[next].branch)'
  BY <1>5, <1>9 DEF Grows
<1>12. ASSUME NEW b \in 1..next
       PROVE  Grows(blocks[b].branch)'
  <2>1. b \in BlockHashes \/ b = next
    BY <1>0, <1>2
  <2> QED
    BY <2>1, <1>10, <1>11
<1>13. BlockHashes' = 1..next
  BY <1>3 DEF BlockHashes
<1> QED
  BY <1>12, <1>13 DEF BranchesGrow

\* In every reachable state.
LEMMA ReachableGrow == Spec => []GrowInv
<1>1. NodeInit => GrowInv
  BY InvStart, RiseStarts, GrowStarts DEF GrowInv
<1>2. GrowInv /\ [Next]_nodeVars => GrowInv'
  <2> SUFFICES ASSUME GrowInv, [Next]_nodeVars PROVE GrowInv'
    OBVIOUS
  <2>1. Inv'
    BY InvKept DEF GrowInv
  <2>2. ASSUME NEW txids \in SUBSET (TxIds \ Confirmed(chain)), NEW work \in BlockWorks,
               Generate(txids, work)
        PROVE  BranchesRise' /\ BranchesGrow'
    BY <2>2, GenerateRises, GenerateGrows DEF GrowInv, Inv
  <2>3. ASSUME UNCHANGED blocks
        PROVE  BranchesRise' /\ BranchesGrow'
    BY <2>3, SameBranchesRise DEF GrowInv, BranchesGrow, Grows, BlockHashes
  <2>4. Reorganize \/ UNCHANGED nodeVars => UNCHANGED blocks
    BY DEF Reorganize, Activate, nodeVars
  <2> QED
    BY <2>1, <2>2, <2>3, <2>4 DEF Next, GrowInv
<1> QED
  BY <1>1, <1>2, PTL DEF Spec

\* One of the tips that the chain had, or the one it has.
Earlier(d) ==
  /\ d \in Seq(BlockHashes) /\ Len(d) \in 1..Len(chain)
  /\ \A h \in 1..Len(d) : d[h] = chain[h]

\* The chain up to one of its blocks.
LEMMA ChainIsEarlier ==
  ASSUME NodeInv, NEW h \in Floor..Len(chain)
  PROVE  Earlier(SubSeq(chain, 1, h))
<1>1. /\ chain \in Seq(BlockHashes) /\ Len(chain) \in Nat /\ DOMAIN chain = 1..Len(chain)
      /\ h \in Nat /\ h >= 1 /\ h <= Len(chain)
  BY ChainEnd, NodeAssumption
<1>2. \A g \in 1..h : chain[g] \in BlockHashes
  BY <1>1
<1>3. PICK d : d = SubSeq(chain, 1, h)
  OBVIOUS
<1>4. d \in Seq(BlockHashes) /\ Len(d) = h /\ \A g \in 1..h : d[g] = chain[g]
  BY <1>1, <1>2, <1>3, SubSeqProperties
<1> QED
  BY <1>1, <1>3, <1>4 DEF Earlier

\* Its blocks are blocks of the chain, with no more work than the tip.
LEMMA EarlierBlocks ==
  ASSUME GrowInv, NEW d, Earlier(d)
  PROVE  /\ Len(chain) \in Nat /\ DOMAIN chain = 1..Len(chain)
         /\ Len(d) \in Nat /\ DOMAIN d = 1..Len(d)
         /\ Len(d) \in DOMAIN d /\ Len(d) <= Len(chain)
         /\ \A h \in DOMAIN d : h \in DOMAIN chain /\ d[h] = chain[h]
         /\ \A h \in DOMAIN chain : blocks[chain[h]].chainwork \in Nat
         /\ Grows(chain) /\ Settled(Confirmed(chain))
         /\ TotalWork(d) <= TotalWork(chain)
         /\ Confirmed(d) \subseteq Confirmed(chain) /\ Confirmed(chain) \subseteq TxIds
<1>1. NodeInv /\ LedgerInv /\ BranchesGrow
  BY DEF GrowInv, Inv
<1>2. chain \in Seq(BlockHashes) /\ Len(chain) \in Nat /\ DOMAIN chain = 1..Len(chain)
  BY <1>1, ChainEnd
<1>3. /\ Len(d) \in Nat /\ Len(d) >= 1 /\ Len(d) <= Len(chain) /\ DOMAIN d = 1..Len(d)
      /\ \A h \in 1..Len(d) : d[h] = chain[h]
  BY <1>2 DEF Earlier
<1>4. \A h \in DOMAIN d : h \in DOMAIN chain /\ d[h] = chain[h]
  BY <1>2, <1>3
<1>5. Grows(chain) /\ Settled(Confirmed(chain)) /\ Confirmed(chain) \subseteq TxIds
  BY <1>1, <1>2, ChainGrows, ChainSettled, ConfirmedAreTxIds DEF NodeInv
<1>6. Confirmed(d) \subseteq Confirmed(chain)
  BY <1>4 DEF Confirmed
<1>7. TotalWork(d) <= TotalWork(chain)
  <2>1. Len(d) \in DOMAIN chain /\ Len(chain) \in DOMAIN chain /\ Len(d) <= Len(chain)
    BY <1>2, <1>3
  <2>2. d[Len(d)] = chain[Len(d)]
    BY <1>3
  <2> QED
    BY <2>1, <2>2, <1>5 DEF Grows, TotalWork
<1>8. ASSUME NEW h \in DOMAIN chain PROVE blocks[chain[h]].chainwork \in Nat
  <2>1. blocks[chain[h]] \in Block
    BY <1>1, <1>2 DEF NodeInv, NodeTypeOK, BlockHashes
  <2> QED
    BY <2>1 DEF Block
<1> QED
  BY <1>2, <1>3, <1>4, <1>5, <1>6, <1>7, <1>8

\* A transaction is confirmed in one block of a chain, at one height.
LEMMA ConfirmedOnce ==
  ASSUME Grows(chain), NEW txid, NEW b1, NEW h1, NEW b2, NEW h2,
         ConfirmedAt(chain, txid, b1, h1), ConfirmedAt(chain, txid, b2, h2)
  PROVE  b1 = b2 /\ h1 = h2
<1>1. blocks[chain[h1]].txs \cap blocks[chain[h2]].txs # {}
  BY DEF ConfirmedAt
<1> QED
  BY <1>1 DEF Grows, ConfirmedAt

\* What an earlier tip had confirmed, a publisher finds where it was.
LEMMA LocatedAsBefore ==
  ASSUME GrowInv, NEW d, Earlier(d), NEW record, record.txid \in Confirmed(d)
  PROVE  Located(d, record) = Located(chain, record)
<1> DEFINE At(c, n) == n \in DOMAIN c /\ record.txid \in blocks[c[n]].txs
           HeightIn(c) == CHOOSE n \in DOMAIN c : record.txid \in blocks[c[n]].txs
<1>1. /\ \A h \in DOMAIN d : h \in DOMAIN chain /\ d[h] = chain[h]
      /\ Grows(chain)
  BY EarlierBlocks
<1>2. PICK n : At(d, n)
  BY DEF Confirmed
<1>3. At(chain, n)
  BY <1>1, <1>2
<1>4. \A m : At(chain, m) => m = n
  BY <1>1, <1>3 DEF Grows
<1>5. \A m : At(d, m) => m = n
  BY <1>1, <1>4
<1>6. HeightIn(d) = n
  BY <1>2, <1>5
<1>7. HeightIn(chain) = n
  BY <1>3, <1>4
<1>8. d[n] = chain[n]
  BY <1>1, <1>2
<1> HIDE DEF At
<1>9. Located(d, record) =
        [record EXCEPT !.block = d[HeightIn(d)], !.height = HeightIn(d),
                       !.proof = [block |-> d[HeightIn(d)], txids |-> {record.txid}]]
  BY DEF Located
<1>10. Located(chain, record) =
        [record EXCEPT !.block = chain[HeightIn(chain)], !.height = HeightIn(chain),
                       !.proof = [block |-> chain[HeightIn(chain)],
                                  txids |-> {record.txid}]]
  BY DEF Located
<1> HIDE DEF HeightIn
<1> QED
  BY <1>6, <1>7, <1>8, <1>9, <1>10

\* So it is with a history of which the earlier tip had confirmed everything.
LEMMA PlacedAsBefore ==
  ASSUME GrowInv, NEW d, Earlier(d), NEW a, HistoryTxids(a) \subseteq Confirmed(d)
  PROVE  Placed(d, a) = Placed(chain, a)
<1>1. Located(d, a.mint) = Located(chain, a.mint)
  BY LocatedAsBefore DEF HistoryTxids
<1>2. ASSUME NEW i \in DOMAIN a.transfers
      PROVE  Located(d, a.transfers[i]) = Located(chain, a.transfers[i])
  BY LocatedAsBefore DEF HistoryTxids
<1>3. [i \in DOMAIN a.transfers |-> Located(d, a.transfers[i])]
        = [i \in DOMAIN a.transfers |-> Located(chain, a.transfers[i])]
  BY <1>2
<1> QED
  BY <1>1, <1>3 DEF Placed

\* What was proved at an earlier tip is proved at every later one.
LEMMA ProvedStays ==
  ASSUME GrowInv, NEW d, Earlier(d)
  PROVE  Proved(d) \subseteq Proved(chain)
<1> SUFFICES ASSUME NEW b \in Proved(d) PROVE b \in Proved(chain)
  OBVIOUS
<1>1. /\ Len(chain) \in Nat /\ DOMAIN chain = 1..Len(chain)
      /\ Len(d) \in Nat /\ Len(d) \in DOMAIN d /\ Len(d) <= Len(chain)
      /\ \A h \in DOMAIN d : h \in DOMAIN chain /\ d[h] = chain[h]
      /\ \A h \in DOMAIN chain : blocks[chain[h]].chainwork \in Nat
      /\ TotalWork(d) <= TotalWork(chain) /\ Confirmed(d) \subseteq Confirmed(chain)
  BY EarlierBlocks
<1>2. b \in Presented(d) /\ Proves(d, b)
  BY DEF Proved
<1>3. b \in Presented(chain)
  <2>1. PICK a \in Histories : b = Placed(d, a) /\ HistoryTxids(a) \subseteq Confirmed(d)
    BY <1>2 DEF Presented
  <2>2. b = Placed(chain, a)
    BY <2>1, PlacedAsBefore
  <2>3. HistoryTxids(a) \subseteq Confirmed(chain)
    BY <1>1, <2>1
  <2> QED
    BY <2>2, <2>3 DEF Presented
<1>4. \A k \in Stops(b) : LoadedAt(chain, b, k)
  <2> SUFFICES ASSUME NEW k \in Stops(b) PROVE LoadedAt(chain, b, k)
    OBVIOUS
  <2>1. LoadedAt(d, b, k)
    BY <1>2 DEF Proves
  <2> QED
    BY <1>1, <2>1 DEF LoadedAt, ConfirmedAt
<1>5. Buried(chain, b)
  <2>1. ConfirmedAt(d, b.mint.txid, b.mint.block, b.mint.height)
    BY ProvedIsChecked, MintIsChecked
  <2>2. PICK h : h = b.mint.height /\ h \in DOMAIN chain /\ chain[h] = b.mint.block
    BY <1>1, <2>1 DEF ConfirmedAt
  <2>3. PICK w \in Nat : w = blocks[b.mint.block].chainwork
    BY <1>1, <2>2
  <2>4. PICK p : p = Profiles[b.profile]
    OBVIOUS
  <2>5. p.minimum_burial_blocks \in Nat /\ p.minimum_burial_chainwork \in Nat
    <3> DEFINE start == StartChecks(b, Network)
    <3>1. Passes(start)
      BY <1>2 DEF Proves
    <3>2. start[1].ok
      BY <3>1 DEF Passes, StartChecks
    <3>3. b.profile \in DOMAIN Profiles
      BY <3>2 DEF StartChecks, Check
    <3> QED
      BY <3>3, <2>4, ProfilesAssumption DEF Profile
  <2>6. /\ Len(d) >= h + p.minimum_burial_blocks
        /\ TotalWork(d) >= w + p.minimum_burial_chainwork
    BY <1>2, <2>2, <2>3, <2>4 DEF Proves, Buried, TotalWork
  <2>7. TotalWork(d) \in Nat /\ TotalWork(chain) \in Nat
    <3>1. Len(chain) \in DOMAIN chain
      BY <1>1
    <3>2. d[Len(d)] = chain[Len(d)] /\ Len(d) \in DOMAIN chain
      BY <1>1
    <3> QED
      BY <1>1, <3>1, <3>2 DEF TotalWork
  <2>8. /\ Len(chain) >= h + p.minimum_burial_blocks
        /\ TotalWork(chain) >= w + p.minimum_burial_chainwork
    BY <1>1, <2>2, <2>3, <2>5, <2>6, <2>7
  <2> QED
    BY <2>2, <2>3, <2>4, <2>8 DEF Buried, TotalWork
<1> QED
  BY <1>2, <1>3, <1>4, <1>5 DEF Proved, Proves
-----------------------------------------------------------------------------
(* A history up to one of its transitions *)

\* p is b as it was after its first n transfers.
Cut(p, b, n) ==
  /\ p.profile = b.profile /\ p.claim = b.claim /\ p.work = b.work /\ p.mint = b.mint
  /\ Len(p.transfers) = n
  /\ \A i \in 1..n : p.transfers[i] = b.transfers[i]

\* Who may present a history may present it so.
LEMMA CutIsPresentable ==
  ASSUME NEW a \in Histories, NEW n \in 0..Len(a.transfers), NEW c
  PROVE  \E p \in Histories :
           /\ Cut(Placed(c, p), Placed(c, a), n)
           /\ HistoryTxids(p) = {a.mint.txid} \cup {a.transfers[i].txid : i \in 1..n}
<1>1. PICK m \in Nat : m = Len(a.transfers) /\ DOMAIN a.transfers = 1..m
  BY HistoriesAssumption
<1>2. PICK p : p = [a EXCEPT !.transfers = SubSeq(@, 1, n)]
  OBVIOUS
<1>3. p \in Histories
  BY <1>2, HistoriesAssumption
<1>4. n \in Nat /\ n <= m
  BY <1>1
<1>5. /\ {"profile", "claim", "work", "mint", "transfers"} \subseteq DOMAIN a
      /\ {"profile", "claim", "work", "mint", "transfers"} \subseteq DOMAIN p
      /\ Len(p.transfers) \in Nat /\ DOMAIN p.transfers = 1..Len(p.transfers)
  BY <1>3, HistoriesAssumption
<1>6. /\ p.profile = a.profile /\ p.claim = a.claim /\ p.work = a.work /\ p.mint = a.mint
      /\ p.transfers = SubSeq(a.transfers, 1, n)
  BY <1>2, <1>5
<1>7. Len(p.transfers) = n /\ \A i \in 1..n : p.transfers[i] = a.transfers[i]
  <2> DEFINE S == {a.transfers[i] : i \in 1..n}
  <2>1. \A i \in 1..n : a.transfers[i] \in S
    OBVIOUS
  <2> HIDE DEF S
  <2>2. /\ Len(SubSeq(a.transfers, 1, n)) = IF 1 <= n THEN n - 1 + 1 ELSE 0
        /\ \A i \in 1..(n - 1 + 1) : SubSeq(a.transfers, 1, n)[i] = a.transfers[1 + i - 1]
    BY <2>1, <1>4, SubSeqProperties
  <2> QED
    BY <1>4, <1>6, <2>2
<1>8. DOMAIN p.transfers = 1..n
  BY <1>5, <1>7
<1>9. HistoryTxids(p) = {a.mint.txid} \cup {a.transfers[i].txid : i \in 1..n}
  BY <1>6, <1>7, <1>8 DEF HistoryTxids
<1>10. PICK q, b : q = Placed(c, p) /\ b = Placed(c, a)
  OBVIOUS
<1>11. /\ q.profile = p.profile /\ q.claim = p.claim /\ q.work = p.work
       /\ q.mint = Located(c, p.mint)
       /\ q.transfers = [i \in 1..n |-> Located(c, p.transfers[i])]
  BY <1>5, <1>8, <1>10 DEF Placed
<1>12. /\ b.profile = a.profile /\ b.claim = a.claim /\ b.work = a.work
       /\ b.mint = Located(c, a.mint)
       /\ b.transfers = [i \in 1..m |-> Located(c, a.transfers[i])]
  BY <1>1, <1>5, <1>10 DEF Placed
<1>13. Len(q.transfers) = n
  BY <1>4, <1>11
<1>14. ASSUME NEW i \in 1..n PROVE q.transfers[i] = b.transfers[i]
  <2>1. i \in 1..m
    BY <1>4
  <2> QED
    BY <2>1, <1>7, <1>11, <1>12
<1>15. Cut(q, b, n)
  BY <1>6, <1>11, <1>12, <1>13, <1>14 DEF Cut
<1> QED
  BY <1>3, <1>9, <1>10, <1>15

\* A history cut short names the same blocks, and passes the checks the whole
\* passes.
LEMMA CutPasses ==
  ASSUME NEW b, NEW p, Len(b.transfers) \in Nat, NEW n \in 0..Len(b.transfers),
         Cut(p, b, n), NEW k \in Stops(p),
         Passes(StopChecks(b, k, Tx[StopTxid(b, k)]))
  PROVE  /\ k \in Stops(b)
         /\ k # Challenge => StopTxid(p, k) = StopTxid(b, k)
         /\ StopBlock(p, k) = StopBlock(b, k) /\ StopHeight(p, k) = StopHeight(b, k)
         /\ Passes(StopChecks(p, k, Tx[StopTxid(p, k)]))
<1> DEFINE tx == Tx[StopTxid(b, k)]
<1>1. /\ p.profile = b.profile /\ p.claim = b.claim /\ p.work = b.work /\ p.mint = b.mint
      /\ Len(p.transfers) = n /\ \A i \in 1..n : p.transfers[i] = b.transfers[i]
  BY DEF Cut
<1>2. /\ k \in Stops(b) /\ k \in Nat /\ k <= 3 + n
      /\ k > Mint \/ k = Claim \/ k = Challenge \/ k = Mint
  BY <1>1 DEF Stops, Claim, Challenge, Mint
<1>3. ASSUME NEW j \in Nat, j > Mint, j <= 3 + n
      PROVE  Transition(p, j) = Transition(b, j)
  <2>1. j - 3 \in 1..n
    BY <1>3 DEF Mint
  <2> QED
    BY <1>1, <2>1 DEF Transition
<1>4. ASSUME NEW j \in Nat, j >= Mint, j <= 3 + n
      PROVE  TitleAt(p, j) = TitleAt(b, j)
  <2>1. CASE j = Mint
    BY <1>1, <2>1 DEF TitleAt
  <2>2. CASE j # Mint
    <3>1. Transition(p, j) = Transition(b, j)
      BY <1>3, <1>4, <2>2 DEF Mint
    <3> QED
      BY <2>2, <3>1 DEF TitleAt
  <2> QED
    BY <2>1, <2>2
<1>5. /\ k # Challenge => StopTxid(p, k) = StopTxid(b, k)
      /\ StopBlock(p, k) = StopBlock(b, k) /\ StopHeight(p, k) = StopHeight(b, k)
  <2>1. CASE k = Claim
    BY <1>1, <2>1 DEF StopTxid, StopBlock, StopHeight, Claim, Challenge, Mint
  <2>2. CASE k = Challenge
    BY <1>1, <2>2 DEF StopBlock, StopHeight, Claim, Challenge, Mint
  <2>3. CASE k = Mint
    BY <1>1, <2>3 DEF StopTxid, StopBlock, StopHeight, Claim, Challenge, Mint
  <2>4. CASE k > Mint
    <3>1. Transition(p, k) = Transition(b, k)
      BY <1>2, <1>3, <2>4
    <3> QED
      BY <2>4, <3>1 DEF StopTxid, StopBlock, StopHeight, Claim, Challenge, Mint
  <2> QED
    BY <1>2, <2>1, <2>2, <2>3, <2>4
<1>6. /\ ClaimChecks(p, tx) = ClaimChecks(b, tx)
      /\ ChallengeChecks(p) = ChallengeChecks(b)
      /\ MintChecks(p, tx) = MintChecks(b, tx)
      /\ AtomId(p) = AtomId(b)
  <2>1. /\ ExpectedClaimCommitment(p) = ExpectedClaimCommitment(b)
        /\ ExpectedChallenge(p) = ExpectedChallenge(b)
        /\ ExpectedWorkHash(p) = ExpectedWorkHash(b)
        /\ ExpectedMintCommitment(p) = ExpectedMintCommitment(b)
    BY <1>1 DEF ExpectedClaimCommitment, ExpectedChallenge, ExpectedWorkHash,
                ExpectedMintCommitment
  <2>2. InMintWindow(p) = InMintWindow(b)
    BY <1>1 DEF InMintWindow
  <2>3. ClaimChecks(p, tx) = ClaimChecks(b, tx)
    BY <1>1, <2>1 DEF ClaimChecks
  <2>4. ChallengeChecks(p) = ChallengeChecks(b)
    BY <1>1, <2>1, <2>2 DEF ChallengeChecks
  <2>5. MintChecks(p, tx) = MintChecks(b, tx)
    BY <1>1, <2>1 DEF MintChecks
  <2> QED
    BY <1>1, <2>1, <2>3, <2>4, <2>5 DEF AtomId
<1>7. ASSUME NEW j \in Nat, j > Mint, j <= 3 + n
      PROVE  /\ TransferOrderChecks(p, j) = TransferOrderChecks(b, j)
             /\ TransferChecks(p, j, tx) = TransferChecks(b, j, tx)
  <2>1. PICK i \in Nat : i = j - 1 /\ i >= Mint /\ i <= 3 + n
    BY <1>7 DEF Mint
  <2>2. /\ Transition(p, j) = Transition(b, j)
        /\ TitleAt(p, j - 1) = TitleAt(b, j - 1)
    BY <1>3, <1>4, <1>7, <2>1
  <2>3. StopHeight(p, i) = StopHeight(b, i)
    <3>1. CASE i = Mint
      BY <1>1, <3>1 DEF StopHeight, Claim, Challenge, Mint
    <3>2. CASE i # Mint
      <4>1. Transition(p, i) = Transition(b, i)
        BY <1>3, <2>1, <3>2 DEF Mint
      <4> QED
        BY <2>1, <3>2, <4>1 DEF StopHeight, Claim, Challenge, Mint
    <3> QED
      BY <3>1, <3>2
  <2>4. ExpectedTransferCommitment(p, j) = ExpectedTransferCommitment(b, j)
    BY <1>1, <1>6, <2>2 DEF ExpectedTransferCommitment
  <2>5. TransferOrderChecks(p, j) = TransferOrderChecks(b, j)
    BY <2>1, <2>2, <2>3 DEF TransferOrderChecks
  <2>6. TransferChecks(p, j, tx) = TransferChecks(b, j, tx)
    BY <2>2, <2>4 DEF TransferChecks
  <2> QED
    BY <2>5, <2>6
<1>8. /\ k = Claim     => Passes(ClaimChecks(b, tx))
      /\ k = Challenge => Passes(ChallengeChecks(b))
      /\ k = Mint      => Passes(MintChecks(b, tx))
      /\ k > Mint      => Passes(TransferChecks(b, k, tx))
      /\ k >= Mint /\ k + 1 \in Stops(b) => Passes(TransferOrderChecks(b, k + 1))
  BY <1>2, StopListPasses
<1>9. k >= Mint /\ k + 1 \in Stops(p) => Passes(TransferOrderChecks(p, k + 1))
  <2> SUFFICES ASSUME k >= Mint, k + 1 \in Stops(p)
               PROVE  Passes(TransferOrderChecks(p, k + 1))
    OBVIOUS
  <2>1. /\ k + 1 \in Stops(b) /\ k + 1 \in Nat /\ k + 1 > Mint /\ k + 1 <= 3 + n
    BY <1>1, <1>2 DEF Stops, Mint
  <2> QED
    BY <2>1, <1>7, <1>8
<1>10. ASSUME NEW any, k # Challenge => any = tx
       PROVE  Passes(StopChecks(p, k, any))
  <2>1. Len(p.transfers) \in Nat
    BY <1>1
  <2>2. /\ k = Claim     => Passes(ClaimChecks(p, any))
        /\ k = Challenge => Passes(ChallengeChecks(p))
        /\ k = Mint      => Passes(MintChecks(p, any))
    BY <1>6, <1>8, <1>10 DEF Claim, Challenge, Mint
  <2>3. k > Mint => Passes(TransferChecks(p, k, any))
    BY <1>2, <1>7, <1>8, <1>10 DEF Challenge, Mint
  <2> QED
    BY <1>9, <2>1, <2>2, <2>3, StopListFits
<1> QED
  BY <1>2, <1>5, <1>10

\* A history that is proved was proved at an earlier tip up to the transition
\* that this tip had last confirmed.
LEMMA ProvedBefore ==
  ASSUME GrowInv, NEW d, Earlier(d), NEW b \in Proved(chain),
         NEW n \in 0..Len(b.transfers), Buried(d, b),
         \A k \in 1..(3 + n) : StopHeight(b, k) \in DOMAIN d
  PROVE  \E p \in Proved(d) : Cut(p, b, n)
<1>1. \A h \in DOMAIN d : h \in DOMAIN chain /\ d[h] = chain[h]
  BY EarlierBlocks
<1>2. Len(b.transfers) \in Nat /\ FullyChecked(chain, b)
  BY ProvedIsChecked
<1>3. PICK a \in Histories : b = Placed(chain, a)
  BY DEF Proved, Presented
<1>4. /\ Len(a.transfers) = Len(b.transfers) /\ DOMAIN a.transfers = 1..Len(a.transfers)
      /\ b.mint = Located(chain, a.mint)
      /\ \A i \in 1..Len(a.transfers) : b.transfers[i] = Located(chain, a.transfers[i])
  <2>1. PICK m \in Nat : m = Len(a.transfers) /\ DOMAIN a.transfers = 1..m
    BY HistoriesAssumption
  <2>2. "mint" \in DOMAIN a /\ "transfers" \in DOMAIN a
    BY HistoriesAssumption
  <2>3. /\ b.mint = Located(chain, a.mint)
        /\ b.transfers = [i \in DOMAIN a.transfers |-> Located(chain, a.transfers[i])]
    BY <1>3, <2>2 DEF Placed
  <2>4. b.transfers = [i \in 1..m |-> Located(chain, a.transfers[i])]
    BY <2>1, <2>3
  <2>5. Len(b.transfers) = m
    BY <2>1, <2>4
  <2> QED
    BY <2>1, <2>3, <2>4, <2>5
<1>5. ASSUME NEW record, "txid" \in DOMAIN record
      PROVE  Located(chain, record).txid = record.txid
  BY <1>5 DEF Located
<1>6. /\ b.mint.txid = a.mint.txid
      /\ \A i \in 1..Len(a.transfers) : b.transfers[i].txid = a.transfers[i].txid
  <2>1. "txid" \in DOMAIN a.mint
    BY HistoriesAssumption
  <2>2. \A i \in 1..Len(a.transfers) : "txid" \in DOMAIN a.transfers[i]
    BY <1>4, HistoriesAssumption
  <2> QED
    BY <1>4, <1>5, <2>1, <2>2
<1>7. PICK short \in Histories :
        /\ Cut(Placed(chain, short), b, n)
        /\ HistoryTxids(short) = {a.mint.txid} \cup {a.transfers[i].txid : i \in 1..n}
  BY <1>3, <1>4, CutIsPresentable
<1>8. n \in Nat /\ n <= Len(b.transfers)
  BY <1>2
<1>9. ASSUME NEW k \in Nat, k >= Mint, k <= 3 + n
      PROVE  StopTxid(b, k) \in Confirmed(d)
  <2>1. k \in Stops(b) /\ k # Challenge /\ k \in 1..(3 + n)
    BY <1>2, <1>8, <1>9 DEF Stops, Challenge, Mint
  <2>2. LoadedAt(chain, b, k)
    BY <1>2, <2>1 DEF FullyChecked
  <2>3. PICK h : h = StopHeight(b, k) /\ h \in DOMAIN d
    BY <2>1
  <2>4. StopTxid(b, k) \in blocks[chain[h]].txs
    BY <2>1, <2>2, <2>3 DEF LoadedAt, ConfirmedAt
  <2> QED
    BY <1>1, <2>3, <2>4 DEF Confirmed
<1>10. HistoryTxids(short) \subseteq Confirmed(d)
  <2>1. b.mint.txid \in Confirmed(d)
    <3>1. StopTxid(b, Mint) = b.mint.txid
      BY DEF StopTxid, Claim, Mint
    <3>2. Mint \in Nat /\ Mint >= Mint /\ Mint <= 3 + n
      BY <1>8 DEF Mint
    <3> QED
      BY <1>9, <3>1, <3>2
  <2>2. ASSUME NEW i \in 1..n PROVE b.transfers[i].txid \in Confirmed(d)
    <3>1. PICK k \in Nat : k = i + 3
      OBVIOUS
    <3>2. k >= Mint /\ k <= 3 + n /\ k # Claim /\ k # Mint
      BY <1>8, <3>1 DEF Claim, Mint
    <3>3. StopTxid(b, k) = b.transfers[i].txid
      <4>1. k - 3 = i
        BY <3>1
      <4> QED
        BY <3>2, <4>1 DEF StopTxid, Transition
    <3> QED
      BY <1>9, <3>2, <3>3
  <2>3. \A i \in 1..n : i \in 1..Len(a.transfers)
    BY <1>4, <1>8
  <2> QED
    BY <1>6, <1>7, <2>1, <2>2, <2>3
<1>11. PICK p : p = Placed(d, short) /\ Cut(p, b, n)
  BY <1>7, <1>10, PlacedAsBefore
<1>12. p \in Presented(d)
  BY <1>10, <1>11 DEF Presented
<1>13. Len(p.transfers) = n /\ p.profile = b.profile /\ p.claim = b.claim
         /\ p.mint = b.mint
  BY <1>11 DEF Cut
<1>14. ASSUME NEW k \in Stops(p)
       PROVE  LoadedAt(d, p, k) /\ Passes(StopChecks(p, k, Tx[StopTxid(p, k)]))
  <2>1. k \in Stops(b) /\ k \in 1..(3 + n)
    BY <1>2, <1>8, <1>13 DEF Stops
  <2>2. LoadedAt(chain, b, k) /\ Passes(StopChecks(b, k, Tx[StopTxid(b, k)]))
    BY <1>2, <2>1 DEF FullyChecked
  <2>3. /\ k # Challenge => StopTxid(p, k) = StopTxid(b, k)
        /\ StopBlock(p, k) = StopBlock(b, k) /\ StopHeight(p, k) = StopHeight(b, k)
        /\ Passes(StopChecks(p, k, Tx[StopTxid(p, k)]))
    BY <1>2, <1>11, <2>2, CutPasses
  <2>4. StopHeight(b, k) \in DOMAIN d
    BY <2>1
  <2>5. LoadedAt(d, p, k)
    BY <1>1, <2>2, <2>3, <2>4 DEF LoadedAt, ConfirmedAt
  <2> QED
    BY <2>3, <2>5
<1>15. Passes(StartChecks(p, Network))
  <2>1. Passes(StartChecks(b, Network))
    BY DEF Proved, Proves
  <2>2. StartChecks(p, Network) = StartChecks(b, Network)
    BY <1>13 DEF StartChecks
  <2> QED
    BY <2>1, <2>2
<1>16. Buried(d, p)
  BY <1>13 DEF Buried
<1> QED
  BY <1>11, <1>12, <1>14, <1>15, <1>16 DEF Proved, Proves
-----------------------------------------------------------------------------
(* The longest history of a claim *)

\* No transaction moves a title twice: its marker commits to one index.
LEMMA TransfersDiffer ==
  ASSUME NEW c, NEW b \in Proved(c), NEW i \in 1..Len(b.transfers),
         NEW j \in 1..Len(b.transfers), b.transfers[i].txid = b.transfers[j].txid
  PROVE  i = j
<1>1. Len(b.transfers) \in Nat /\ FullyChecked(c, b)
  BY ProvedIsChecked
<1>2. ASSUME NEW n \in 1..Len(b.transfers)
      PROVE  \E commitment :
               /\ commitment[4] = n - 1
               /\ SoleMarker(Tx[b.transfers[n].txid], "transfer", commitment)
  <2>1. PICK k \in Nat : k = n + 3
    BY <1>1
  <2>2. k > Mint /\ k \in Stops(b)
    BY <1>1, <2>1 DEF Stops, Mint
  <2>3. Transition(b, k) = b.transfers[n]
    <3>1. k - 3 = n
      BY <1>1, <2>1
    <3> QED
      BY <3>1 DEF Transition
  <2>4. /\ SoleMarker(Tx[Transition(b, k).txid], "transfer",
                      ExpectedTransferCommitment(b, k))
        /\ Passes(TransferOrderChecks(b, k))
    BY <1>1, <2>2, TransitionIsChecked
  <2>5. Transition(b, k).index = k - 4
    <3> DEFINE order == TransferOrderChecks(b, k)
    <3>1. order[1].ok
      BY <2>4 DEF Passes, TransferOrderChecks
    <3> QED
      BY <3>1 DEF TransferOrderChecks, Check
  <2>6. ExpectedTransferCommitment(b, k)[4] = Transition(b, k).index
    BY DEF ExpectedTransferCommitment, transfer_commitment
  <2>7. k - 4 = n - 1
    BY <1>1, <2>1
  <2> QED
    BY <2>3, <2>4, <2>5, <2>6, <2>7
<1>3. PICK ci : ci[4] = i - 1 /\ SoleMarker(Tx[b.transfers[i].txid], "transfer", ci)
  BY <1>2
<1>4. PICK cj : cj[4] = j - 1 /\ SoleMarker(Tx[b.transfers[j].txid], "transfer", cj)
  BY <1>2
<1>5. ci = cj
  BY <1>3, <1>4, SoleMarkerIsOne
<1>6. i - 1 = j - 1
  BY <1>3, <1>4, <1>5
<1> QED
  BY <1>1, <1>6

\* So a history is no longer than the transactions are many.
LEMMA TransfersBounded ==
  ASSUME NEW c, Confirmed(c) \subseteq TxIds, NEW b \in Proved(c)
  PROVE  /\ Cardinality(TxIds) \in Nat
         /\ Len(b.transfers) \in Nat /\ Len(b.transfers) <= Cardinality(TxIds)
<1>1. IsFiniteSet(TxIds) /\ Cardinality(TxIds) \in Nat
  BY HistoriesAssumption, FS_CardinalityType
<1>2. PICK n \in Nat : n = Len(b.transfers)
  BY ProvedIsChecked
<1>3. FullyChecked(c, b) /\ Len(b.transfers) \in Nat
  BY ProvedIsChecked
<1> DEFINE f == [i \in 1..n |-> b.transfers[i].txid]
<1>4. ASSUME NEW i \in 1..n PROVE b.transfers[i].txid \in TxIds
  <2>1. PICK k \in Nat : k = i + 3
    OBVIOUS
  <2>2. k > Mint /\ k \in Stops(b) /\ k - 3 = i
    BY <1>2, <2>1 DEF Stops, Mint
  <2>3. Transition(b, k).txid \in Confirmed(c)
    BY <1>3, <2>2, TransitionIsChecked
  <2> QED
    BY <2>2, <2>3 DEF Transition
<1>5. f \in Injection(1..n, TxIds)
  <2>1. f \in [1..n -> TxIds]
    BY <1>4
  <2>2. ASSUME NEW i \in 1..n, NEW j \in 1..n, f[i] = f[j] PROVE i = j
    BY <1>2, <2>2, TransfersDiffer
  <2> QED
    BY <2>1, <2>2 DEF Injection, IsInjective
<1> HIDE DEF f
<1>6. Cardinality(1..n) <= Cardinality(TxIds)
  BY <1>1, <1>5, FS_Injection
<1>7. Cardinality(1..n) = n
  BY <1>2, FS_Interval
<1> QED
  BY <1>1, <1>2, <1>6, <1>7

\* Of atoms with boundedly many titles one has the most.
LEMMA LongestIs ==
  ASSUME NEW S, S # {}, NEW N \in Nat,
         \A a \in S : Len(a.titles) \in Nat /\ Len(a.titles) <= N
  PROVE  \E a \in S : \A other \in S : Len(other.titles) <= Len(a.titles)
<1> DEFINE Rest == {N - Len(a.titles) : a \in S}
<1>1. Rest \in SUBSET Nat /\ Rest # {}
  OBVIOUS
<1>2. PICK r \in Rest : \A m \in Rest : r <= m
  BY <1>1, LeastOf
<1>3. PICK a \in S : r = N - Len(a.titles)
  OBVIOUS
<1>4. ASSUME NEW other \in S PROVE Len(other.titles) <= Len(a.titles)
  <2>1. r <= N - Len(other.titles)
    BY <1>2
  <2>2. Len(a.titles) \in Nat /\ Len(other.titles) \in Nat
    OBVIOUS
  <2> QED
    BY <1>3, <2>1, <2>2
<1> QED
  BY <1>3, <1>4

\* An atom has the title its mint made and one for every transfer.
LEMMA TitlesCounted ==
  ASSUME NEW c, NEW b \in Proved(c)
  PROVE  /\ Len(TitlesOf(b)) = Len(b.transfers) + 1
         /\ Atom(c, b).titles = TitlesOf(b)
<1>1. Len(b.transfers) \in Nat
  BY ProvedIsChecked
<1> QED
  BY <1>1 DEF TitlesOf, Atom

\* The atom of a claim is told by the longest of its proved histories.
LEMMA AtomIsLongest ==
  ASSUME NEW c, Confirmed(c) \subseteq TxIds, NEW o
  PROVE  IF \E b \in Proved(c) : b.claim.outpoint = o
         THEN \E b \in Proved(c) :
                /\ b.claim.outpoint = o /\ AtomOf(c, o) = Atom(c, b)
                /\ \A other \in Proved(c) : other.claim.outpoint = o =>
                     Len(other.transfers) <= Len(b.transfers)
         ELSE AtomOf(c, o) = NoAtom
<1> DEFINE atoms == {NoAtom} \cup AtomsOf(c, o)
           Longest(a) == \A other \in atoms : Len(other.titles) <= Len(a.titles)
<1>1. PICK N \in Nat : N = Cardinality(TxIds) + 1
  BY HistoriesAssumption, FS_CardinalityType
<1>2. ASSUME NEW b \in Proved(c)
      PROVE  /\ Len(Atom(c, b).titles) = Len(b.transfers) + 1
             /\ Len(b.transfers) \in Nat /\ Len(b.transfers) + 1 <= N
  BY <1>1, TransfersBounded, TitlesCounted
<1>3. NoAtom.titles = <<>> /\ Len(NoAtom.titles) = 0
  BY DEF NoAtom
<1>4. ASSUME NEW a \in atoms PROVE Len(a.titles) \in Nat /\ Len(a.titles) <= N
  <2>1. CASE a = NoAtom
    BY <2>1, <1>1, <1>3
  <2>2. CASE a \in AtomsOf(c, o)
    <3>1. PICK b \in Proved(c) : a = Atom(c, b)
      BY <2>2 DEF AtomsOf
    <3> QED
      BY <3>1, <1>1, <1>2
  <2> QED
    BY <2>1, <2>2
<1>5. AtomOf(c, o) = CHOOSE a \in atoms : Longest(a)
  BY DEF AtomOf
<1>6. \E a \in atoms : Longest(a)
  <2>1. atoms # {}
    OBVIOUS
  <2> HIDE DEF atoms
  <2> QED
    BY <2>1, <1>1, <1>4, LongestIs
<1>7. AtomOf(c, o) \in atoms /\ Longest(AtomOf(c, o))
  <2> HIDE DEF atoms, Longest
  <2> QED
    BY <1>5, <1>6
<1>8. ASSUME NEW q \in Proved(c), q.claim.outpoint = o
      PROVE  \E b \in Proved(c) :
               /\ b.claim.outpoint = o /\ AtomOf(c, o) = Atom(c, b)
               /\ \A other \in Proved(c) : other.claim.outpoint = o =>
                    Len(other.transfers) <= Len(b.transfers)
  <2>1. ASSUME NEW other \in Proved(c), other.claim.outpoint = o
        PROVE  Len(other.transfers) + 1 <= Len(AtomOf(c, o).titles)
    <3>1. Atom(c, other) \in atoms
      BY <2>1 DEF AtomsOf
    <3>2. Len(Atom(c, other).titles) <= Len(AtomOf(c, o).titles)
      BY <1>7, <3>1
    <3> QED
      BY <1>2, <3>2
  <2>2. AtomOf(c, o) # NoAtom
    <3>1. Len(q.transfers) \in Nat /\ Len(q.transfers) + 1 <= Len(AtomOf(c, o).titles)
      BY <1>2, <1>8, <2>1
    <3> QED
      BY <1>3, <3>1
  <2>3. PICK b \in Proved(c) : b.claim.outpoint = o /\ AtomOf(c, o) = Atom(c, b)
    BY <1>7, <2>2 DEF AtomsOf
  <2>4. ASSUME NEW other \in Proved(c), other.claim.outpoint = o
        PROVE  Len(other.transfers) <= Len(b.transfers)
    BY <1>2, <2>1, <2>3, <2>4
  <2> QED
    BY <2>3, <2>4
<1>9. ASSUME ~\E b \in Proved(c) : b.claim.outpoint = o
      PROVE  AtomOf(c, o) = NoAtom
  BY <1>7, <1>9 DEF AtomsOf
<1> QED
  BY <1>8, <1>9
-----------------------------------------------------------------------------
(* The ledger follows the chain *)

\* As far as two proved histories of one claim both go, they name the same
\* heights, under one profile, with the mint in one block.
LEMMA StopsAgree ==
  ASSUME GrowInv, NEW a \in Proved(chain), NEW b \in Proved(chain),
         a.claim.outpoint = b.claim.outpoint
  PROVE  /\ AtomId(a) = AtomId(b) /\ a.profile = b.profile
         /\ a.mint.block = b.mint.block /\ a.mint.height = b.mint.height
         /\ \A k \in Stops(a) \cap Stops(b) : StopHeight(a, k) = StopHeight(b, k)
<1>1. NodeInv /\ LedgerInv /\ Grows(chain) /\ Settled(Confirmed(chain))
  BY ChainGrows, ChainSettled DEF GrowInv, Inv
<1>2. /\ Len(a.transfers) \in Nat /\ FullyChecked(chain, a)
      /\ Len(b.transfers) \in Nat /\ FullyChecked(chain, b)
      /\ Passes(StartChecks(a, Network)) /\ Passes(StartChecks(b, Network))
  BY ProvedIsChecked DEF Proved, Proves
<1>3. AtomId(a) = AtomId(b)
  BY <1>1, ClaimHasOneAtom
<1>4. a.mint.txid = b.mint.txid /\ a.profile = b.profile
  BY <1>3 DEF AtomId, atom_id, ExpectedMintCommitment, mint_commitment
<1>5. a.mint.block = b.mint.block /\ a.mint.height = b.mint.height
  <2>1. /\ ConfirmedAt(chain, a.mint.txid, a.mint.block, a.mint.height)
        /\ ConfirmedAt(chain, b.mint.txid, b.mint.block, b.mint.height)
    BY <1>2, MintIsChecked
  <2> QED
    BY <1>1, <1>4, <2>1, ConfirmedOnce
<1>6. /\ GenuineClaim(chain, a) /\ GenuineClaim(chain, b)
      /\ a.work.challenge_height = a.claim.height + Profiles[a.profile].challenge_delay
      /\ b.work.challenge_height = b.claim.height + Profiles[b.profile].challenge_delay
  BY <1>1, <1>2, ClaimIsGenuine
<1>7. a.claim.height = b.claim.height
  <2>1. /\ ConfirmedAt(chain, a.claim.outpoint[1], a.claim.block, a.claim.height)
        /\ ConfirmedAt(chain, b.claim.outpoint[1], b.claim.block, b.claim.height)
    BY <1>6 DEF GenuineClaim
  <2> QED
    BY <1>1, <2>1, ConfirmedOnce
<1>8. ASSUME NEW k \in Stops(a), k \in Stops(b)
      PROVE  StopHeight(a, k) = StopHeight(b, k)
  <2>1. k \in Nat /\ (k = Claim \/ k = Challenge \/ k = Mint \/ k > Mint)
    BY DEF Stops, Claim, Challenge, Mint
  <2>2. CASE k = Claim
    BY <2>2, <1>7 DEF StopHeight, Claim, Challenge, Mint
  <2>3. CASE k = Challenge
    <3>1. a.work.challenge_height = b.work.challenge_height
      BY <1>4, <1>6, <1>7
    <3> QED
      BY <2>3, <3>1 DEF StopHeight, Claim, Challenge, Mint
  <2>4. CASE k = Mint
    BY <2>4, <1>5 DEF StopHeight, Claim, Challenge, Mint
  <2>5. CASE k > Mint
    <3>1. k >= Mint /\ k # Claim /\ k # Challenge /\ k # Mint
      BY <2>1, <2>5 DEF Claim, Challenge, Mint
    <3>2. TitleAt(a, k) = TitleAt(b, k)
      BY <1>1, <1>3, <1>8, <2>1, <3>1, TitlesAgree
    <3>3. Transition(a, k).txid = Transition(b, k).txid
      BY <3>1, <3>2 DEF TitleAt
    <3>4. /\ ConfirmedAt(chain, Transition(a, k).txid, Transition(a, k).block,
                         Transition(a, k).height)
          /\ ConfirmedAt(chain, Transition(b, k).txid, Transition(b, k).block,
                         Transition(b, k).height)
      BY <1>2, <1>8, <2>1, <2>5, TransitionIsChecked
    <3>5. Transition(a, k).height = Transition(b, k).height
      BY <1>1, <3>3, <3>4, ConfirmedOnce
    <3> QED
      BY <3>1, <3>5 DEF StopHeight
  <2> QED
    BY <2>1, <2>2, <2>3, <2>4, <2>5
<1> QED
  BY <1>3, <1>4, <1>5, <1>8

\* An earlier tip had the title at which its longest history ends unspent, if
\* the atom has moved on since: had the tip confirmed the transition that spends
\* it, a longer history would have been proved there.
LEMMA MovedOnFromUnspent ==
  ASSUME GrowInv, NEW d, Earlier(d), NEW b \in Proved(d), NEW q \in Proved(chain),
         b.claim.outpoint = q.claim.outpoint, Len(b.transfers) < Len(q.transfers),
         \A other \in Proved(d) : other.claim.outpoint = b.claim.outpoint =>
           Len(other.transfers) <= Len(b.transfers)
  PROVE  TitleUnspent(d, b)
<1> SUFFICES ASSUME NEW t \in Spenders(d, TerminalTitle(b)) PROVE FALSE
  BY DEF TitleUnspent
<1>1. /\ Confirmed(d) \subseteq Confirmed(chain) /\ Settled(Confirmed(chain))
      /\ \A h \in DOMAIN d : h \in DOMAIN chain /\ d[h] = chain[h]
      /\ Grows(chain)
  BY EarlierBlocks
<1>2. b \in Proved(chain)
  BY ProvedStays
<1>3. PICK m \in Nat, n \in Nat : m = Len(b.transfers) /\ n = Len(q.transfers) /\ m < n
  BY ProvedIsChecked
<1>4. /\ FullyChecked(chain, b) /\ FullyChecked(d, b) /\ FullyChecked(chain, q)
      /\ Len(b.transfers) \in Nat /\ Len(q.transfers) \in Nat /\ Buried(d, b)
  BY <1>2, ProvedIsChecked DEF Proved, Proves
<1>5. /\ AtomId(b) = AtomId(q) /\ b.profile = q.profile
      /\ b.mint.block = q.mint.block /\ b.mint.height = q.mint.height
      /\ \A k \in Stops(b) \cap Stops(q) : StopHeight(b, k) = StopHeight(q, k)
  BY <1>2, StopsAgree
<1>6. PICK k \in Nat : k = m + 4
  OBVIOUS
<1>7. /\ k > Mint /\ k \in Stops(q) /\ k - 1 = m + 3
      /\ m + 3 \in Nat /\ m + 3 >= Mint /\ m + 3 \in Stops(b) /\ m + 3 \in Stops(q)
  BY <1>3, <1>6 DEF Stops, Mint
<1>8. TerminalTitle(b) = TitleAt(q, k - 1)
  BY <1>1, <1>2, <1>3, <1>5, <1>7, TitlesAgree DEF TerminalTitle
<1>9. /\ ConfirmedAt(chain, Transition(q, k).txid, Transition(q, k).block,
                     Transition(q, k).height)
      /\ Transition(q, k).txid \in Confirmed(chain)
      /\ TitleAt(q, k - 1) \in Tx[Transition(q, k).txid].inputs
  BY <1>4, <1>7, TransitionIsChecked
<1>10. t \in Confirmed(d) /\ TerminalTitle(b) \in Tx[t].inputs
  BY DEF Spenders
<1>11. t = Transition(q, k).txid
  BY <1>1, <1>8, <1>9, <1>10 DEF Settled
<1>12. StopHeight(q, k) \in DOMAIN d
  <2>1. PICK h \in DOMAIN d : t \in blocks[d[h]].txs
    BY <1>10 DEF Confirmed
  <2>2. ConfirmedAt(chain, t, chain[h], h)
    BY <1>1, <2>1 DEF ConfirmedAt
  <2>3. Transition(q, k).height = h
    BY <1>1, <1>9, <1>11, <2>2, ConfirmedOnce
  <2>4. StopHeight(q, k) = Transition(q, k).height
    BY <1>7 DEF StopHeight, Claim, Challenge, Mint
  <2> QED
    BY <2>1, <2>3, <2>4
<1>13. ASSUME NEW j \in 1..(3 + (m + 1))
       PROVE  StopHeight(q, j) \in DOMAIN d
  <2>1. CASE j = k
    BY <2>1, <1>12
  <2>2. CASE j # k
    <3>1. j \in Stops(b) /\ j \in Stops(q)
      BY <1>3, <1>6, <2>2 DEF Stops
    <3>2. LoadedAt(d, b, j)
      BY <1>4, <3>1 DEF FullyChecked
    <3>3. StopHeight(b, j) \in DOMAIN d
      BY <3>2 DEF LoadedAt, ConfirmedAt
    <3> QED
      BY <1>5, <3>1, <3>3
  <2> QED
    BY <2>1, <2>2
<1>14. Buried(d, q)
  BY <1>4, <1>5 DEF Buried
<1>15. m + 1 \in 0..Len(q.transfers)
  BY <1>3
<1>16. PICK p \in Proved(d) : Cut(p, q, m + 1)
  BY <1>13, <1>14, <1>15, ProvedBefore
<1>17. p.claim.outpoint = b.claim.outpoint /\ Len(p.transfers) = m + 1
  BY <1>16 DEF Cut
<1>18. m + 1 <= m
  BY <1>3, <1>16, <1>17
<1> QED
  BY <1>18

\* The titles of two proved histories of one atom agree as far as both go.
LEMMA TitleListsAgree ==
  ASSUME GrowInv, NEW a \in Proved(chain), NEW b \in Proved(chain),
         AtomId(a) = AtomId(b), NEW i \in Nat, i >= 1,
         i <= Len(a.transfers) + 1, i <= Len(b.transfers) + 1
  PROVE  TitlesOf(a)[i] = TitlesOf(b)[i]
<1>1. Settled(Confirmed(chain))
  BY ChainSettled DEF GrowInv, Inv
<1>2. Len(a.transfers) \in Nat /\ Len(b.transfers) \in Nat
  BY ProvedIsChecked
<1>3. PICK k \in Nat : k = Mint + i - 1
  BY DEF Mint
<1>4. k >= Mint /\ k \in Stops(a) /\ k \in Stops(b)
  BY <1>2, <1>3 DEF Stops, Mint
<1>5. TitleAt(a, k) = TitleAt(b, k)
  BY <1>1, <1>4, TitlesAgree
<1>6. TitlesOf(a)[i] = TitleAt(a, Mint + i - 1) /\ TitlesOf(b)[i] = TitleAt(b, Mint + i - 1)
  <2>1. i \in 1..(Len(a.transfers) + 1) /\ i \in 1..(Len(b.transfers) + 1)
    BY <1>2
  <2> QED
    BY <2>1 DEF TitlesOf
<1> QED
  BY <1>3, <1>5, <1>6

\* What burning changes of an atom.
LEMMA BurntAtom ==
  ASSUME NEW id, NEW titles, NEW live, NEW atom,
         atom = [id |-> id, titles |-> titles, live |-> TRUE]
  PROVE  [atom EXCEPT !.live = live] = [id |-> id, titles |-> titles, live |-> live]
<1>1. DOMAIN atom = {"id", "titles", "live"} /\ atom.id = id /\ atom.titles = titles
  OBVIOUS
<1>2. PICK burnt : burnt = [atom EXCEPT !.live = live]
  OBVIOUS
<1>3. /\ DOMAIN burnt = {"id", "titles", "live"}
      /\ burnt.id = id /\ burnt.titles = titles /\ burnt.live = live
  BY <1>1, <1>2
<1>4. burnt = [x \in DOMAIN burnt |-> burnt[x]]
  BY <1>2
<1>5. burnt = [id |-> id, titles |-> titles, live |-> live]
  BY <1>3, <1>4
<1> QED
  BY <1>2, <1>5

\* From an earlier tip to the tip an atom is minted, moved forward or burnt.
LEMMA AtomFollows ==
  ASSUME GrowInv, NEW d, Earlier(d), NEW o
  PROVE  Forward(AtomOf(d, o), AtomOf(chain, o))
<1>1. Confirmed(d) \subseteq Confirmed(chain) /\ Confirmed(chain) \subseteq TxIds
  BY EarlierBlocks
<1>2. CASE ~\E b \in Proved(d) : b.claim.outpoint = o
  <2>1. AtomOf(d, o) = NoAtom
    BY <1>1, <1>2, AtomIsLongest
  <2> QED
    BY <2>1 DEF Forward
<1>3. CASE \E b \in Proved(d) : b.claim.outpoint = o
  <2>1. PICK b \in Proved(d) :
          /\ b.claim.outpoint = o /\ AtomOf(d, o) = Atom(d, b)
          /\ \A other \in Proved(d) : other.claim.outpoint = o =>
               Len(other.transfers) <= Len(b.transfers)
    BY <1>1, <1>3, AtomIsLongest
  <2>2. b \in Proved(chain)
    BY ProvedStays
  <2>3. PICK q \in Proved(chain) :
          /\ q.claim.outpoint = o /\ AtomOf(chain, o) = Atom(chain, q)
          /\ \A other \in Proved(chain) : other.claim.outpoint = o =>
               Len(other.transfers) <= Len(q.transfers)
    BY <1>1, <2>1, <2>2, AtomIsLongest
  <2>4. PICK m \in Nat, n \in Nat : m = Len(b.transfers) /\ n = Len(q.transfers)
    BY ProvedIsChecked
  <2>5. m <= n
    BY <2>1, <2>2, <2>3, <2>4
  <2>6. AtomId(b) = AtomId(q)
    BY <2>1, <2>2, <2>3, StopsAgree
  <2>7. PICK s, u : s = TitlesOf(b) /\ u = TitlesOf(q)
    OBVIOUS
  <2>8. /\ s = [i \in 1..(m + 1) |-> s[i]] /\ u = [i \in 1..(n + 1) |-> u[i]]
        /\ Len(s) = m + 1 /\ Len(u) = n + 1
    BY <2>4, <2>7 DEF TitlesOf
  <2>9. \A i \in 1..(m + 1) : s[i] = u[i]
    BY <2>2, <2>4, <2>5, <2>6, <2>7, TitleListsAgree
  <2>10. CASE m = n
    <3>1. s = u
      BY <2>8, <2>9, <2>10
    <3>2. TerminalTitle(b) = TerminalTitle(q)
      <4>1. Len(b.transfers) + 1 = m + 1 /\ Len(q.transfers) + 1 = m + 1
        BY <2>4, <2>10
      <4>2. PICK k \in Nat : k = 3 + m
        OBVIOUS
      <4>3. Mint + (m + 1) - 1 = k
        BY <4>2 DEF Mint
      <4>4. s[m + 1] = TitleAt(b, k) /\ u[m + 1] = TitleAt(q, k)
        BY <4>1, <4>3, <2>7 DEF TitlesOf
      <4>5. TerminalTitle(b) = TitleAt(b, k) /\ TerminalTitle(q) = TitleAt(q, k)
        BY <4>2, <2>4, <2>10 DEF TerminalTitle
      <4> QED
        BY <3>1, <4>4, <4>5
    <3>3. TitleUnspent(chain, q) => TitleUnspent(d, b)
      BY <1>1, <3>2 DEF TitleUnspent, Spenders
    <3>4. AtomOf(d, o) = [id |-> AtomId(q), titles |-> u, live |-> TitleUnspent(d, b)]
      BY <2>1, <2>6, <2>7, <3>1 DEF Atom
    <3>5. AtomOf(chain, o) = [id |-> AtomId(q), titles |-> u, live |-> TitleUnspent(chain, q)]
      BY <2>3, <2>7 DEF Atom
    <3>6. TitleUnspent(d, b) \in BOOLEAN /\ TitleUnspent(chain, q) \in BOOLEAN
      BY DEF TitleUnspent
    <3>7. CASE TitleUnspent(d, b) = TitleUnspent(chain, q)
      BY <3>4, <3>5, <3>7 DEF Forward
    <3>8. CASE TitleUnspent(d, b) # TitleUnspent(chain, q)
      <4>1. TitleUnspent(d, b) = TRUE /\ TitleUnspent(chain, q) = FALSE
        BY <3>3, <3>6, <3>8
      <4>2. PICK before, after : before = AtomOf(d, o) /\ after = AtomOf(chain, o)
        OBVIOUS
      <4>3. /\ before = [id |-> AtomId(q), titles |-> u, live |-> TRUE]
            /\ after = [id |-> AtomId(q), titles |-> u, live |-> FALSE]
        BY <3>4, <3>5, <4>1, <4>2, Zenon
      <4>4. after = [before EXCEPT !.live = FALSE]
        BY <4>3, BurntAtom
      <4>5. before.live
        BY <4>3
      <4> QED
        BY <4>2, <4>4, <4>5 DEF Forward
    <3> QED
      BY <3>7, <3>8
  <2>11. CASE m < n
    <3>1. TitleUnspent(d, b)
      BY <2>1, <2>3, <2>4, <2>11, MovedOnFromUnspent
    <3>2. /\ AtomOf(d, o).live /\ AtomOf(d, o).titles = s /\ AtomOf(chain, o).titles = u
          /\ AtomOf(chain, o).id = AtomOf(d, o).id
      BY <2>1, <2>3, <2>6, <2>7, <3>1 DEF Atom
    <3>3. IsStrictPrefix(s, u)
      <4> DEFINE S == Range(u)
      <4>1. \A i \in 1..(m + 1) : s[i] \in S /\ u[i] \in S
        <5>1. \A i \in 1..(m + 1) : i \in DOMAIN u
          BY <2>8, <2>11
        <5> QED
          BY <2>9, <5>1 DEF Range
      <4> HIDE DEF S
      <4>2. /\ SubSeq(s, 1, m + 1) \in Seq(S) /\ SubSeq(u, 1, m + 1) \in Seq(S)
            /\ Len(SubSeq(s, 1, m + 1)) = m + 1 /\ Len(SubSeq(u, 1, m + 1)) = m + 1
            /\ \A i \in 1..(m + 1) : /\ SubSeq(s, 1, m + 1)[i] = s[i]
                                     /\ SubSeq(u, 1, m + 1)[i] = u[i]
        BY <4>1, SubSeqProperties
      <4>3. SubSeq(s, 1, m + 1) = SubSeq(u, 1, m + 1)
        <5>1. \A i \in 1..(m + 1) : SubSeq(s, 1, m + 1)[i] = SubSeq(u, 1, m + 1)[i]
          BY <4>2, <2>9
        <5> QED
          BY <4>2, <5>1, SeqEqual
      <4>4. s # u
        BY <2>8, <2>11
      <4>5. Len(s) <= Len(u) /\ SubSeq(s, 1, Len(s)) = SubSeq(u, 1, Len(s))
        <5>1. Len(s) <= Len(u)
          BY <2>8, <2>11
        <5> QED
          BY <2>8, <4>3, <5>1
      <4> QED
        BY <4>4, <4>5 DEF IsStrictPrefix, IsPrefix
    <3> QED
      BY <3>2, <3>3 DEF Forward
  <2> QED
    BY <2>5, <2>10, <2>11
<1> QED
  BY <1>2, <1>3

\* The ledger follows the chain: from any block of it to its tip an atom is only
\* minted, moved forward or burnt, whatever is published and reorganized
\* (SPEC-0.md:390, 527; verify.py:244-361).
THEOREM LedgerFollows == Spec => []LedgerFollowsChain
<1>1. GrowInv => LedgerFollowsChain
  <2> SUFFICES ASSUME GrowInv, NEW o \in ClaimOutpoints, NEW h \in Floor..Len(chain)
               PROVE  Forward(AtomOf(SubSeq(chain, 1, h), o), AtomOf(chain, o))
    BY DEF LedgerFollowsChain
  <2>1. Earlier(SubSeq(chain, 1, h))
    BY ChainIsEarlier DEF GrowInv, Inv
  <2> QED
    BY <2>1, AtomFollows
<1> QED
  BY <1>1, ReachableGrow, PTL
=============================================================================
