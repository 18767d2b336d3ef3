-------------------------- MODULE GenuineAtomProofs --------------------------
(* What every state of the node satisfies: the branch of a block ends in it, is *)
(* made of known blocks, and the active chain is the branch of its last block.  *)
(* And the checks of verify_bundle say what an atom is: a history whose blocks  *)
(* are on the chain and whose checks all pass is genuine (module GenuineAtom).  *)
EXTENDS GenuineAtom, SequenceTheorems, WellFoundedInduction, FiniteSetTheorems, TLAPS

BranchesEnd ==
  \A b \in BlockHashes :
    /\ blocks[b].branch \in Seq(BlockHashes)
    /\ Len(blocks[b].branch) >= 1
    /\ blocks[b].branch[Len(blocks[b].branch)] = b

ChainIsBranch == \E b \in BlockHashes : chain = blocks[b].branch

NodeInv == NodeTypeOK /\ BranchesEnd /\ ChainIsBranch

\* What the node knows it keeps.
BlocksKept == \A b \in BlockHashes : b \in BlockHashes' /\ blocks'[b] = blocks[b]

\* The active chain only gets longer.
ChainKept == \A h \in DOMAIN chain : h \in DOMAIN chain' /\ chain'[h] = chain[h]

\* The active chain is not empty and ends in the block whose branch it is.
LEMMA ChainEnd ==
  ASSUME NodeInv
  PROVE  /\ chain \in Seq(BlockHashes) /\ Len(chain) \in Nat /\ Len(chain) >= 1
         /\ chain[Len(chain)] \in BlockHashes
         /\ blocks[chain[Len(chain)]].branch = chain
         /\ blocks[chain[Len(chain)]].chainwork \in Nat
<1>1. PICK b \in BlockHashes : chain = blocks[b].branch
  BY DEF NodeInv, ChainIsBranch
<1>2. chain[Len(chain)] = b /\ Len(chain) >= 1 /\ chain \in Seq(BlockHashes)
  BY <1>1 DEF NodeInv, BranchesEnd
<1>3. blocks[b] \in Block
  BY DEF NodeInv, NodeTypeOK, BlockHashes
<1> QED
  BY <1>1, <1>2, <1>3 DEF Block

\* A transaction that survives in the mempool was in it.
LEMMA SurvivingInPool ==
  ASSUME NEW pool, NEW confirmed
  PROVE  Surviving(pool, confirmed) \subseteq pool
  BY DEF Surviving

\* The transactions of known blocks are transactions.
LEMMA ConfirmedAreTxIds ==
  ASSUME NodeTypeOK, NEW c \in Seq(BlockHashes)
  PROVE  Confirmed(c) \subseteq TxIds
<1> SUFFICES ASSUME NEW h \in DOMAIN c
             PROVE  blocks[c[h]].txs \subseteq TxIds
  BY DEF Confirmed
<1>1. c[h] \in BlockHashes
  OBVIOUS
<1>2. blocks[c[h]] \in Block
  BY <1>1 DEF NodeTypeOK, BlockHashes
<1> QED
  BY <1>2 DEF Block

\* The chain the node starts with.
LEMMA NodeStarts == NodeInit => NodeInv
<1> SUFFICES ASSUME NodeInit PROVE NodeInv
  OBVIOUS
<1>1. PICK w \in BlockWorks :
        blocks = [b \in DOMAIN History |->
                    [branch    |-> [h \in 1..b |-> h],
                     txs       |-> History[b],
                     chainwork |-> b * w]]
  BY DEF NodeInit
<1>2. /\ Len(History) \in Nat /\ Len(History) >= 1
      /\ DOMAIN History = 1..Len(History) /\ w \in Nat
  BY NodeAssumption
<1>3. BlockHashes = 1..Len(History)
  BY <1>1, <1>2 DEF BlockHashes
<1>4. ASSUME NEW b \in BlockHashes
      PROVE  /\ blocks[b] \in Block
             /\ blocks[b].branch \in Seq(BlockHashes)
             /\ Len(blocks[b].branch) = b
             /\ blocks[b].branch[b] = b
  <2>1. b \in Nat /\ b >= 1 /\ b \in DOMAIN History
    BY <1>2, <1>3
  <2>2. blocks[b] = [branch |-> [h \in 1..b |-> h], txs |-> History[b],
                     chainwork |-> b * w]
    BY <1>1, <2>1
  <2>3. [h \in 1..b |-> h] \in Seq(1..Len(History))
    BY <1>2, <1>3, <2>1
  <2>4. [h \in 1..b |-> h] \in Seq(Nat)
    BY <2>1
  <2>5. b * w \in Nat
    BY <1>2, <2>1
  <2>6. History[b] \in SUBSET TxIds
    BY NodeAssumption, <2>1 DEF TxIds
  <2> QED
    BY <2>1, <2>2, <2>3, <2>4, <2>5, <2>6, <1>3 DEF Block
<1>5. blocks \in Seq(Block)
  <2>1. blocks \in [1..Len(History) -> Block]
    BY <1>1, <1>2, <1>3, <1>4
  <2> QED
    BY <2>1, <1>2
<1>6. chain = blocks[Len(History)].branch
  <2>1. blocks[Len(History)].branch = [h \in 1..Len(History) |-> h]
    BY <1>1, <1>2
  <2>2. chain = [h \in 1..Len(History) |-> h]
    BY <1>2 DEF NodeInit
  <2> QED
    BY <2>1, <2>2
<1>7. Len(History) \in BlockHashes
  BY <1>2, <1>3
<1>8. chain \in Seq(BlockHashes)
  BY <1>4, <1>6, <1>7
<1>9. BranchesEnd
  BY <1>2, <1>3, <1>4 DEF BranchesEnd
<1> QED
  BY <1>5, <1>6, <1>7, <1>8, <1>9 DEF NodeInv, NodeTypeOK, ChainIsBranch, NodeInit
-----------------------------------------------------------------------------
\* A new block extends the chain, and nothing known is lost.
LEMMA GenerateKeeps ==
  ASSUME NodeInv, NEW txids \in SUBSET TxIds, NEW work \in BlockWorks,
         Generate(txids, work)
  PROVE  NodeInv' /\ BlocksKept /\ ChainKept
<1> DEFINE next   == Len(blocks) + 1
           branch == Append(chain, next)
           block  == [branch    |-> branch,
                      txs       |-> txids,
                      chainwork |-> TotalWork(chain) + work]
<1>1. blocks' = Append(blocks, block) /\ chain' = branch
  BY DEF Generate
<1>2. /\ chain \in Seq(BlockHashes) /\ Len(chain) \in Nat /\ Len(chain) >= 1
      /\ TotalWork(chain) \in Nat
  BY ChainEnd DEF TotalWork
<1>3. /\ blocks \in Seq(Block) /\ Len(blocks) \in Nat
      /\ BlockHashes = 1..Len(blocks) /\ next \in Nat
  BY DEF NodeInv, NodeTypeOK, BlockHashes
<1>4. branch \in Seq(1..next) /\ Len(branch) = Len(chain) + 1
      /\ branch[Len(chain) + 1] = next
      /\ \A h \in 1..Len(chain) : branch[h] = chain[h]
  <2>1. chain \in Seq(1..next)
    BY <1>2, <1>3
  <2>2. next \in 1..next
    BY <1>3
  <2> QED
    BY <2>1, <2>2, <1>2, AppendProperties
<1>5. block \in Block
  <2>1. branch \in Seq(Nat)
    BY <1>3, <1>4
  <2>2. TotalWork(chain) + work \in Nat
    BY <1>2, NodeAssumption
  <2> QED
    BY <2>1, <2>2 DEF Block
<1>6. /\ blocks' \in Seq(Block) /\ Len(blocks') = next /\ blocks'[next] = block
      /\ \A b \in 1..Len(blocks) : blocks'[b] = blocks[b]
  BY <1>1, <1>3, <1>5, AppendProperties
<1>7. BlockHashes' = 1..next
  BY <1>6 DEF BlockHashes
<1>8. BlocksKept
  BY <1>3, <1>6, <1>7 DEF BlocksKept
<1>9. ChainKept
  BY <1>1, <1>2, <1>4 DEF ChainKept
<1>10. chain' \in Seq(BlockHashes')
  BY <1>1, <1>4, <1>7
<1>11. BranchesEnd'
  <2> SUFFICES ASSUME NEW b \in 1..next
               PROVE  /\ blocks'[b].branch \in Seq(1..next)
                      /\ Len(blocks'[b].branch) >= 1
                      /\ blocks'[b].branch[Len(blocks'[b].branch)] = b
    BY <1>7 DEF BranchesEnd
  <2>1. CASE b = next
    BY <2>1, <1>2, <1>4, <1>6
  <2>2. CASE b \in BlockHashes
    <3>1. blocks'[b] = blocks[b]
      BY <2>2, <1>3, <1>6
    <3>2. blocks[b].branch \in Seq(1..Len(blocks))
      BY <2>2, <1>3 DEF NodeInv, BranchesEnd
    <3>3. blocks[b].branch \in Seq(1..next)
      BY <3>2, <1>3
    <3> QED
      BY <3>1, <3>3, <2>2 DEF NodeInv, BranchesEnd
  <2> QED
    BY <2>1, <2>2, <1>3
<1>12. ChainIsBranch'
  BY <1>1, <1>3, <1>6, <1>7 DEF ChainIsBranch
<1>13. mempool' \subseteq TxIds
  BY SurvivingInPool DEF Generate, NodeInv, NodeTypeOK
<1> QED
  BY <1>6, <1>8, <1>9, <1>10, <1>11, <1>12, <1>13 DEF NodeInv, NodeTypeOK

\* A transaction that is only broadcast leaves the chain alone.
LEMMA BroadcastKeeps ==
  ASSUME NodeInv, NEW t \in TxIds, Broadcast(t)
  PROVE  NodeInv' /\ BlocksKept /\ ChainKept
BY DEF Broadcast, NodeInv, NodeTypeOK, BranchesEnd, ChainIsBranch, BlocksKept,
       ChainKept, BlockHashes

\* Whatever arrives while the chain grows, it was well formed and stays so.
LEMMA ExtendKeeps ==
  ASSUME NodeInv, Extend
  PROVE  NodeInv' /\ BlocksKept /\ ChainKept
BY GenerateKeeps, BroadcastKeeps DEF Extend

\* A reorganization goes to the branch of a known block.
LEMMA ReorganizeKeeps ==
  ASSUME NodeInv, Reorganize
  PROVE  NodeInv' /\ UNCHANGED blocks
<1>1. PICK branch \in KnownBranches : Activate(branch)
  BY DEF Reorganize
<1>2. PICK b \in BlockHashes : branch = blocks[b].branch
  BY DEF KnownBranches
<1>3. chain' = branch /\ blocks' = blocks
  BY <1>1 DEF Activate
<1>4. chain' \in Seq(BlockHashes')
  BY <1>2, <1>3 DEF NodeInv, BranchesEnd, BlockHashes
<1>5. mempool' \subseteq TxIds
  <2>1. Confirmed(chain) \subseteq TxIds
    BY ConfirmedAreTxIds DEF NodeInv, NodeTypeOK
  <2>2. mempool' \subseteq mempool \cup Confirmed(chain)
    BY <1>1, SurvivingInPool DEF Activate
  <2> QED
    BY <2>1, <2>2 DEF NodeInv, NodeTypeOK
<1>6. ChainIsBranch'
  BY <1>2, <1>3 DEF ChainIsBranch, BlockHashes
<1>7. BranchesEnd'
  BY <1>3 DEF NodeInv, BranchesEnd, BlockHashes
<1> QED
  BY <1>3, <1>4, <1>5, <1>6, <1>7 DEF NodeInv, NodeTypeOK, TxIds
-----------------------------------------------------------------------------
(* The blocks of a branch *)

HeightOf(b) == Len(blocks[b].branch)

\* A branch holds its blocks at their heights, each known before the next.
BranchesRise ==
  \A b \in BlockHashes : \A h \in DOMAIN blocks[b].branch :
    /\ HeightOf(blocks[b].branch[h]) = h
    /\ \A g \in 1..(h - 1) : blocks[b].branch[g] < blocks[b].branch[h]

\* The blocks of the active chain are known, at their heights and in order.
LEMMA BlocksRise ==
  ASSUME NodeInv, BranchesRise, NEW h \in DOMAIN chain
  PROVE  /\ h \in Nat /\ chain[h] \in BlockHashes /\ HeightOf(chain[h]) = h
         /\ \A g \in 1..(h - 1) : chain[g] < chain[h]
<1>1. PICK b \in BlockHashes : chain = blocks[b].branch
  BY DEF NodeInv, ChainIsBranch
<1>2. chain \in Seq(BlockHashes)
  BY ChainEnd
<1> QED
  BY <1>1, <1>2 DEF BranchesRise

\* The branches that the node starts with.
LEMMA RiseStarts == NodeInit => BranchesRise
<1> SUFFICES ASSUME NodeInit, NEW b \in BlockHashes, NEW h \in DOMAIN blocks[b].branch
             PROVE  /\ HeightOf(blocks[b].branch[h]) = h
                    /\ \A g \in 1..(h - 1) : blocks[b].branch[g] < blocks[b].branch[h]
  BY DEF BranchesRise
<1>1. PICK w \in BlockWorks :
        blocks = [n \in DOMAIN History |->
                    [branch    |-> [g \in 1..n |-> g],
                     txs       |-> History[n],
                     chainwork |-> n * w]]
  BY DEF NodeInit
<1>2. Len(History) \in Nat /\ DOMAIN History = 1..Len(History)
  BY NodeAssumption
<1>3. BlockHashes = 1..Len(History)
  BY <1>1, <1>2 DEF BlockHashes
<1>4. ASSUME NEW n \in BlockHashes
      PROVE  blocks[n].branch = [g \in 1..n |-> g] /\ HeightOf(n) = n
  <2>1. n \in Nat /\ [g \in 1..n |-> g] \in Seq(Nat)
    BY <1>2, <1>3
  <2>2. Len([g \in 1..n |-> g]) = n
    BY <2>1
  <2>3. blocks[n].branch = [g \in 1..n |-> g]
    BY <1>1, <1>2, <1>3
  <2> QED
    BY <2>2, <2>3 DEF HeightOf
<1>5. h \in 1..b /\ \A g \in 1..b : blocks[b].branch[g] = g
  BY <1>4
<1>6. h \in BlockHashes /\ b \in Nat
  BY <1>2, <1>3, <1>5
<1>7. HeightOf(blocks[b].branch[h]) = h
  BY <1>4, <1>5, <1>6
<1>8. ASSUME NEW g \in 1..(h - 1)
      PROVE  blocks[b].branch[g] < blocks[b].branch[h]
  <2>1. g \in 1..b /\ g < h
    BY <1>5, <1>6
  <2> QED
    BY <1>5, <2>1
<1> QED
  BY <1>7, <1>8

\* A new block is known last, and is one higher than the chain it extends.
LEMMA GenerateRises ==
  ASSUME NodeInv, BranchesRise, NEW txids \in SUBSET TxIds, NEW work \in BlockWorks,
         Generate(txids, work)
  PROVE  BranchesRise'
<1>0. PICK next : next = Len(blocks) + 1
  OBVIOUS
<1>1. NodeInv' /\ BlocksKept
  BY GenerateKeeps
<1>2. /\ blocks \in Seq(Block) /\ Len(blocks) \in Nat /\ BlockHashes = 1..Len(blocks)
      /\ chain \in Seq(BlockHashes) /\ Len(chain) \in Nat
  BY ChainEnd DEF NodeInv, NodeTypeOK, BlockHashes
<1>3. /\ Len(blocks') = next /\ DOMAIN blocks' = 1..next /\ next \in Nat
      /\ blocks'[next] = [branch    |-> Append(chain, next),
                          txs       |-> txids,
                          chainwork |-> TotalWork(chain) + work]
  BY <1>0, <1>2, AppendProperties DEF Generate
<1>4. BlockHashes' = 1..next
  BY <1>3 DEF BlockHashes
<1>5. ASSUME NEW b \in BlockHashes
      PROVE  blocks'[b] = blocks[b] /\ HeightOf(b)' = HeightOf(b)
  BY <1>1 DEF BlocksKept, HeightOf
<1>6. PICK c : c = Append(chain, next)
  OBVIOUS
<1>7. /\ blocks'[next].branch = c /\ Len(c) = Len(chain) + 1
      /\ DOMAIN c = 1..(Len(chain) + 1) /\ DOMAIN chain = 1..Len(chain)
      /\ c[Len(chain) + 1] = next /\ \A h \in 1..Len(chain) : c[h] = chain[h]
  BY <1>2, <1>3, <1>6
<1>8. ASSUME NEW h \in DOMAIN c
      PROVE  HeightOf(c[h])' = h /\ \A g \in 1..(h - 1) : c[g] < c[h]
  <2>1. CASE h = Len(chain) + 1
    <3>1. HeightOf(next)' = h
      BY <1>7, <2>1 DEF HeightOf
    <3>2. ASSUME NEW g \in 1..(h - 1)
          PROVE  c[g] < next
      BY <1>0, <1>2, <1>7, <2>1
    <3> QED
      BY <1>7, <2>1, <3>1, <3>2
  <2>2. CASE h \in DOMAIN chain
    <3>1. /\ chain[h] \in BlockHashes /\ HeightOf(chain[h]) = h
          /\ \A g \in 1..(h - 1) : chain[g] < chain[h]
      BY <2>2, BlocksRise
    <3> QED
      BY <1>2, <1>5, <1>7, <2>2, <3>1
  <2> QED
    BY <1>7, <2>1, <2>2
<1> SUFFICES ASSUME NEW b \in 1..next, NEW h \in DOMAIN blocks'[b].branch
             PROVE  /\ HeightOf(blocks[b].branch[h])' = h
                    /\ \A g \in 1..(h - 1) : blocks'[b].branch[g] < blocks'[b].branch[h]
  BY <1>4 DEF BranchesRise, HeightOf
<1>9. CASE b = next
  BY <1>7, <1>8, <1>9 DEF HeightOf
<1>10. CASE b \in BlockHashes
  <2>1. blocks'[b] = blocks[b] /\ blocks[b].branch[h] \in BlockHashes
    BY <1>5, <1>10 DEF NodeInv, BranchesEnd
  <2>2. HeightOf(blocks[b].branch[h])' = HeightOf(blocks[b].branch[h])
    BY <2>1, <1>5 DEF HeightOf
  <2> QED
    BY <1>10, <2>1, <2>2 DEF BranchesRise
<1> QED
  BY <1>0, <1>2, <1>9, <1>10

\* While the block index stays as it is, so do its branches.
LEMMA SameBranchesRise ==
  ASSUME BranchesRise, UNCHANGED blocks
  PROVE  BranchesRise'
BY DEF BranchesRise, HeightOf, BlockHashes

-----------------------------------------------------------------------------
(* The ledger of every branch *)

\* No two of these transactions spend one output, and each spends what existed
\* before them all or what another of them created.
Settled(txids) ==
  /\ \A t, u \in txids : t # u => Tx[t].inputs \cap Tx[u].inputs = {}
  /\ \A t \in txids : \A o \in Tx[t].inputs : o \in Funding \/ o[1] \in txids

LedgerInv == \A b \in BlockHashes : Settled(Confirmed(blocks[b].branch))

\* The active chain is one of the branches.
LEMMA ChainSettled ==
  ASSUME NodeInv, LedgerInv
  PROVE  Settled(Confirmed(chain))
BY DEF NodeInv, ChainIsBranch, LedgerInv

\* What connects to a settled ledger leaves it settled.
LEMMA ConnectableSettles ==
  ASSUME NEW txids \in SUBSET TxIds, NEW confirmed \in SUBSET TxIds,
         Settled(confirmed), Connectable(txids, confirmed)
  PROVE  Settled(confirmed \cup txids)
<1>1. ASSUME NEW t \in txids, NEW u \in confirmed
      PROVE  Tx[t].inputs \cap Tx[u].inputs = {}
  <2> SUFFICES ASSUME NEW o \in Tx[t].inputs, o \in Tx[u].inputs
               PROVE  FALSE
    OBVIOUS
  <2>1. o[1] \in txids
    BY <1>1 DEF Connectable, Unspent, Spent, Created
  <2>2. o \notin Funding
    BY <2>1, LedgerAssumption
  <2>3. o[1] \in confirmed
    BY <2>2 DEF Settled
  <2> QED
    BY <2>1, <2>3 DEF Connectable
<1>2. ASSUME NEW t \in txids, NEW u \in txids, t # u
      PROVE  Tx[t].inputs \cap Tx[u].inputs = {}
  BY <1>2 DEF Connectable
<1>3. ASSUME NEW t \in confirmed, NEW u \in confirmed, t # u
      PROVE  Tx[t].inputs \cap Tx[u].inputs = {}
  BY <1>3 DEF Settled
<1>4. ASSUME NEW t \in txids, NEW o \in Tx[t].inputs
      PROVE  o \in Funding \/ o[1] \in confirmed \cup txids
  BY DEF Connectable, Unspent, Created
<1>5. ASSUME NEW t \in confirmed, NEW o \in Tx[t].inputs
      PROVE  o \in Funding \/ o[1] \in confirmed \cup txids
  BY DEF Settled
<1> QED
  BY <1>1, <1>2, <1>3, <1>4, <1>5 DEF Settled

\* The blocks the node starts with.
LEMMA LedgerStarts == NodeInit => LedgerInv
<1> SUFFICES ASSUME NodeInit, NEW b \in BlockHashes
             PROVE  Settled(Confirmed(blocks[b].branch))
  BY DEF LedgerInv
<1> DEFINE before(h) == UNION {History[g] : g \in 1..(h - 1)}
           confirmed == Confirmed(blocks[b].branch)
<1>1. /\ Len(History) \in Nat /\ DOMAIN History = 1..Len(History)
      /\ \A g \in DOMAIN History : History[g] \subseteq TxIds
  BY NodeAssumption DEF TxIds
<1>2. PICK w \in BlockWorks :
        blocks = [n \in DOMAIN History |->
                    [branch    |-> [h \in 1..n |-> h],
                     txs       |-> History[n],
                     chainwork |-> n * w]]
  BY DEF NodeInit
<1>3. BlockHashes = 1..Len(History)
  BY <1>1, <1>2 DEF BlockHashes
<1>4. /\ blocks[b].branch = [h \in 1..b |-> h]
      /\ \A g \in 1..b : g \in DOMAIN History /\ blocks[g].txs = History[g]
  BY <1>1, <1>2, <1>3
<1>5. \A t : t \in confirmed <=> \E g \in 1..b : t \in History[g]
  BY <1>4 DEF Confirmed
<1>6. ASSUME NEW h \in 1..b
      PROVE  /\ Connectable(History[h], before(h))
             /\ \A t : t \in before(h) <=> \E g \in 1..(h - 1) : t \in History[g]
  BY <1>4, LedgerAssumption
<1>7. ASSUME NEW g \in 1..b, NEW t \in History[g], NEW o \in Tx[t].inputs
      PROVE  o \in Funding \/ \E f \in 1..g : o[1] \in History[f]
  <2>1. Unspent(o, before(g)) \/ Created(o, History[g])
    BY <1>6 DEF Connectable
  <2>2. o \in Funding \/ o[1] \in before(g) \/ o[1] \in History[g]
    BY <2>1 DEF Unspent, Created
  <2> QED
    BY <2>2, <1>3, <1>6
<1>8. ASSUME NEW g \in 1..b, NEW h \in 1..b, g < h,
             NEW t \in History[g], NEW u \in History[h]
      PROVE  Tx[t].inputs \cap Tx[u].inputs = {}
  <2> SUFFICES ASSUME NEW o \in Tx[t].inputs, o \in Tx[u].inputs
               PROVE  FALSE
    OBVIOUS
  <2>1. t \in before(h)
    BY <1>3, <1>6, <1>8
  <2>2. o[1] \in History[h]
    BY <2>1, <1>6 DEF Connectable, Unspent, Spent, Created
  <2>3. o \notin Funding
    BY <2>2, <1>1, <1>4, LedgerAssumption
  <2>4. PICK f \in 1..g : o[1] \in History[f]
    BY <2>3, <1>7
  <2>5. o[1] \in before(h)
    BY <2>4, <1>3, <1>6, <1>8
  <2> QED
    BY <2>2, <2>5, <1>6 DEF Connectable
<1>9. ASSUME NEW t \in confirmed, NEW u \in confirmed, t # u
      PROVE  Tx[t].inputs \cap Tx[u].inputs = {}
  <2>1. PICK g \in 1..b : t \in History[g]
    BY <1>5
  <2>2. PICK h \in 1..b : u \in History[h]
    BY <1>5
  <2>3. CASE g < h
    BY <2>1, <2>2, <2>3, <1>8
  <2>4. CASE h < g
    BY <2>1, <2>2, <2>4, <1>8
  <2>5. CASE g = h
    BY <2>1, <2>2, <2>5, <1>6, <1>9 DEF Connectable
  <2> QED
    BY <2>3, <2>4, <2>5, <1>3
<1>10. ASSUME NEW t \in confirmed, NEW o \in Tx[t].inputs
       PROVE  o \in Funding \/ o[1] \in confirmed
  <2>1. PICK g \in 1..b : t \in History[g]
    BY <1>5
  <2> QED
    BY <2>1, <1>3, <1>5, <1>7
<1> QED
  BY <1>9, <1>10 DEF Settled

\* A new block connects to the chain it extends.
LEMMA GenerateSettles ==
  ASSUME NodeInv, LedgerInv, NEW txids \in SUBSET TxIds, NEW work \in BlockWorks,
         Generate(txids, work)
  PROVE  LedgerInv'
<1>0. PICK next : next = Len(blocks) + 1
  OBVIOUS
<1>1. BlocksKept /\ NodeInv'
  BY GenerateKeeps
<1>2. /\ blocks \in Seq(Block) /\ Len(blocks) \in Nat /\ BlockHashes = 1..Len(blocks)
      /\ chain \in Seq(BlockHashes)
  BY DEF NodeInv, NodeTypeOK, BlockHashes
<1>3. /\ Len(blocks') = next /\ DOMAIN blocks' = 1..next
      /\ blocks'[next] = [branch    |-> Append(chain, next),
                           txs       |-> txids,
                           chainwork |-> TotalWork(chain) + work]
  BY <1>0, <1>2, AppendProperties DEF Generate
<1>4. ASSUME NEW b \in BlockHashes
      PROVE  Settled(Confirmed(blocks[b].branch)')
  <2>1. blocks[b].branch \in Seq(BlockHashes)
    BY DEF NodeInv, BranchesEnd
  <2>2. Confirmed(blocks[b].branch)' = Confirmed(blocks[b].branch)
    <3> DEFINE c == blocks[b].branch
    <3>1. blocks'[b].branch = c
      BY <1>1 DEF BlocksKept
    <3>2. ASSUME NEW h \in DOMAIN c PROVE blocks'[c[h]] = blocks[c[h]]
      BY <1>1, <2>1 DEF BlocksKept
    <3> QED
      BY <3>1, <3>2 DEF Confirmed
  <2> QED
    BY <2>2 DEF LedgerInv
<1>5. Confirmed(blocks[next].branch)' = Confirmed(chain) \cup txids
  <2>0. PICK c : c = Append(chain, next)
    OBVIOUS
  <2>1. /\ blocks'[next].branch = c /\ blocks'[next].txs = txids
        /\ Len(chain) \in Nat /\ DOMAIN chain = 1..Len(chain)
        /\ DOMAIN c = 1..(Len(chain) + 1) /\ c[Len(chain) + 1] = next
        /\ \A h \in 1..Len(chain) : c[h] = chain[h]
    BY <1>0, <1>2, <1>3, <2>0
  <2>2. ASSUME NEW h \in 1..Len(chain) PROVE blocks'[c[h]].txs = blocks[chain[h]].txs
    BY <2>1, <1>1, <1>2 DEF BlocksKept
  <2>3. Confirmed(blocks[next].branch)' = UNION {blocks'[c[h]].txs : h \in DOMAIN c}
    BY <2>1 DEF Confirmed
  <2>4. ASSUME NEW t
        PROVE  (\E h \in DOMAIN c : t \in blocks'[c[h]].txs)
                 <=> t \in txids \/ \E h \in DOMAIN chain : t \in blocks[chain[h]].txs
    BY <2>1, <2>2
  <2>5. ASSUME NEW t
        PROVE  t \in Confirmed(blocks[next].branch)'
                 <=> t \in txids \/ t \in Confirmed(chain)
    BY <2>3, <2>4 DEF Confirmed
  <2> QED
    BY <2>5
<1>6. Settled(Confirmed(blocks[next].branch)')
  <2>1. Confirmed(chain) \subseteq TxIds
    BY <1>2, ConfirmedAreTxIds DEF NodeInv
  <2>2. Connectable(txids, Confirmed(chain))
    BY DEF Generate
  <2> QED
    BY <2>1, <2>2, <1>5, ChainSettled, ConnectableSettles
<1>7. ASSUME NEW b \in 1..next
      PROVE  Settled(Confirmed(blocks[b].branch)')
  <2>1. b \in BlockHashes \/ b = next
    BY <1>0, <1>2
  <2> QED
    BY <2>1, <1>4, <1>6
<1>8. BlockHashes' = 1..next
  BY <1>3 DEF BlockHashes
<1>9. ASSUME NEW b \in 1..next
      PROVE  Settled(Confirmed(blocks[b].branch))'
  BY <1>7 DEF Settled
<1> QED
  BY <1>8, <1>9 DEF LedgerInv

\* A reorganization confirms what another known branch confirmed.
LEMMA ReorganizeSettles ==
  ASSUME LedgerInv, UNCHANGED blocks
  PROVE  LedgerInv'
BY DEF LedgerInv, BlockHashes, Settled, Confirmed
-----------------------------------------------------------------------------
\* A set of numbers has a least one.
LEMMA LeastOf ==
  ASSUME NEW S \in SUBSET Nat, S # {}
  PROVE  \E n \in S : \A m \in S : n <= m
<1> DEFINE R == OpToRel(<, Nat)
<1>1. \A x, y \in Nat : x < y => <<x, y>> \in R
  BY DEF OpToRel
<1>2. PICK x \in S : \A y \in S : <<y, x>> \notin R
  BY NatLessThanWellFounded, WFMin
<1>3. ASSUME NEW m \in S PROVE x <= m
  <2>1. ~(m < x)
    BY <1>1, <1>2
  <2> QED
    BY <2>1
<1> QED
  BY <1>3
-----------------------------------------------------------------------------
(* Checked histories *)

\* Every block of the history is on the chain and every check of it passes.
FullyChecked(c, b) ==
  \A k \in Stops(b) :
    LoadedAt(c, b, k) /\ Passes(StopChecks(b, k, Tx[StopTxid(b, k)]))

Sequence(s) == s \in Seq(Range(s))

\* Of two lists of checks made one after the other both pass.
LEMMA BothPass ==
  ASSUME NEW s, NEW t, Sequence(s), Sequence(t), Passes(s \o t)
  PROVE  Passes(s) /\ Passes(t)
<1> DEFINE S == Range(s) \cup Range(t)
<1>1. s \in Seq(S) /\ t \in Seq(S)
  BY SeqMonotonic DEF Sequence
<1>2. /\ \A i \in DOMAIN s : i \in DOMAIN (s \o t) /\ (s \o t)[i] = s[i]
      /\ \A i \in DOMAIN t : /\ Len(s) + i \in DOMAIN (s \o t)
                             /\ (s \o t)[Len(s) + i] = t[i]
  BY <1>1, ConcatProperties, LenProperties
<1> QED
  BY <1>2 DEF Passes

\* Lists of checks are sequences.
LEMMA ChecksAreSequences ==
  ASSUME NEW b, NEW tx, NEW k
  PROVE  /\ Sequence(<<>>)
         /\ Sequence(ClaimChecks(b, tx))
         /\ Sequence(ChallengeChecks(b))
         /\ Sequence(MintChecks(b, tx))
         /\ Sequence(TransferOrderChecks(b, k))
         /\ Sequence(TransferChecks(b, k, tx))
<1>1. Sequence(<<>>)
  BY DEF Sequence, Range
<1>2. Sequence(ClaimChecks(b, tx))
  BY DEF Sequence, Range, ClaimChecks, Check
<1>3. Sequence(ChallengeChecks(b))
  BY DEF Sequence, Range, ChallengeChecks, Check
<1>4. Sequence(MintChecks(b, tx))
  BY DEF Sequence, Range, MintChecks, Check
<1>5. Sequence(TransferOrderChecks(b, k))
  BY DEF Sequence, Range, TransferOrderChecks, Check
<1>6. Sequence(TransferChecks(b, k, tx))
  BY DEF Sequence, Range, TransferChecks, Check
<1> QED
  BY <1>1, <1>2, <1>3, <1>4, <1>5, <1>6

\* The checks made at a stop, and before the transition at the next one.
LEMMA StopListPasses ==
  ASSUME NEW b, Len(b.transfers) \in Nat, NEW k \in Stops(b), NEW tx,
         Passes(StopChecks(b, k, tx))
  PROVE  /\ k = Claim     => Passes(ClaimChecks(b, tx))
         /\ k = Challenge => Passes(ChallengeChecks(b))
         /\ k = Mint      => Passes(MintChecks(b, tx))
         /\ k > Mint      => Passes(TransferChecks(b, k, tx))
         /\ k >= Mint /\ k + 1 \in Stops(b) => Passes(TransferOrderChecks(b, k + 1))
<1> DEFINE order == IF k >= Mint /\ k + 1 \in Stops(b)
                    THEN TransferOrderChecks(b, k + 1) ELSE <<>>
           first == CASE k = Claim     -> ClaimChecks(b, tx)
                      [] k = Challenge -> ChallengeChecks(b)
                      [] k = Mint      -> MintChecks(b, tx)
                      [] OTHER         -> TransferChecks(b, k, tx)
<1>1. k \in Nat
  BY DEF Stops
<1>2. Passes(first \o order)
  BY DEF StopChecks
<1>3. Sequence(first) /\ Sequence(order)
  BY ChecksAreSequences
<1> HIDE DEF first, order
<1>4. Passes(first) /\ Passes(order)
  BY <1>2, <1>3, BothPass
<1> QED
  BY <1>1, <1>4 DEF first, order, Claim, Challenge, Mint

\* The same at the stops of a checked history.
LEMMA StopPasses ==
  ASSUME NEW c, NEW b, Len(b.transfers) \in Nat, FullyChecked(c, b), NEW k \in Stops(b)
  PROVE  LET tx == Tx[StopTxid(b, k)] IN
         /\ k = Claim     => Passes(ClaimChecks(b, tx))
         /\ k = Challenge => Passes(ChallengeChecks(b))
         /\ k = Mint      => Passes(MintChecks(b, tx))
         /\ k > Mint      => Passes(TransferChecks(b, k, tx))
         /\ k >= Mint /\ k + 1 \in Stops(b) => Passes(TransferOrderChecks(b, k + 1))
<1>1. Passes(StopChecks(b, k, Tx[StopTxid(b, k)]))
  BY DEF FullyChecked
<1> QED
  BY <1>1, StopListPasses

\* A checked history's mint is confirmed, spends the claim and carries one mint
\* marker, the one its fields ask for.
LEMMA MintIsChecked ==
  ASSUME NEW c, NEW b, Len(b.transfers) \in Nat, FullyChecked(c, b)
  PROVE  /\ ConfirmedAt(c, b.mint.txid, b.mint.block, b.mint.height)
         /\ b.mint.txid \in Confirmed(c)
         /\ b.claim.outpoint \in Tx[b.mint.txid].inputs
         /\ SoleMarker(Tx[b.mint.txid], "mint", ExpectedMintCommitment(b))
         /\ Passes(MintChecks(b, Tx[b.mint.txid]))
<1> DEFINE checks == MintChecks(b, Tx[b.mint.txid])
<1>1. Mint \in Stops(b) /\ Mint # Claim /\ Mint # Challenge
  BY DEF Stops, Mint, Claim, Challenge
<1>2. StopTxid(b, Mint) = b.mint.txid
  BY DEF StopTxid, Mint, Claim
<1>3. ConfirmedAt(c, b.mint.txid, StopBlock(b, Mint), StopHeight(b, Mint))
  BY <1>1, <1>2 DEF FullyChecked, LoadedAt
<1>4. Passes(checks)
  BY <1>1, <1>2, StopPasses
<1>5. checks[1].ok /\ checks[6].ok
  BY <1>4 DEF Passes, MintChecks
<1>6. SpendsOnce(Tx[b.mint.txid], b.claim.outpoint)
        /\ SoleMarker(Tx[b.mint.txid], "mint", ExpectedMintCommitment(b))
  BY <1>5 DEF MintChecks, Check
<1>7. StopBlock(b, Mint) = b.mint.block /\ StopHeight(b, Mint) = b.mint.height
  BY DEF StopBlock, StopHeight, Mint, Claim, Challenge
<1> QED
  BY <1>3, <1>4, <1>6, <1>7 DEF SpendsOnce, ConfirmedAt, Confirmed

\* A checked history's transition is confirmed, spends the title before it and
\* carries one transfer marker, the one its fields ask for.
LEMMA TransitionIsChecked ==
  ASSUME NEW c, NEW b, Len(b.transfers) \in Nat, FullyChecked(c, b),
         NEW k \in Nat, k > Mint, k \in Stops(b)
  PROVE  /\ ConfirmedAt(c, Transition(b, k).txid, Transition(b, k).block,
                        Transition(b, k).height)
         /\ Transition(b, k).txid \in Confirmed(c)
         /\ TitleAt(b, k - 1) \in Tx[Transition(b, k).txid].inputs
         /\ SoleMarker(Tx[Transition(b, k).txid], "transfer",
                       ExpectedTransferCommitment(b, k))
         /\ Passes(TransferChecks(b, k, Tx[Transition(b, k).txid]))
         /\ Passes(TransferOrderChecks(b, k))
<1> DEFINE tx     == Tx[Transition(b, k).txid]
           checks == TransferChecks(b, k, tx)
<1>1. k # Claim /\ k # Challenge /\ k # Mint
  BY DEF Mint, Claim, Challenge
<1>2. StopTxid(b, k) = Transition(b, k).txid
  BY <1>1 DEF StopTxid
<1>3. ConfirmedAt(c, Transition(b, k).txid, StopBlock(b, k), StopHeight(b, k))
  BY <1>1, <1>2 DEF FullyChecked, LoadedAt
<1>4. Passes(checks)
  BY <1>2, StopPasses
<1>5. Passes(TransferOrderChecks(b, k))
  <2>1. k - 1 \in Stops(b) /\ k - 1 >= Mint /\ (k - 1) + 1 = k
    BY DEF Stops, Mint
  <2> QED
    BY <2>1, StopPasses
<1>6. checks[1].ok /\ checks[6].ok
  BY <1>4 DEF Passes, TransferChecks
<1>7. SpendsOnce(tx, TitleAt(b, k - 1))
        /\ SoleMarker(tx, "transfer", ExpectedTransferCommitment(b, k))
  BY <1>6 DEF TransferChecks, Check
<1>8. StopBlock(b, k) = Transition(b, k).block /\ StopHeight(b, k) = Transition(b, k).height
  BY <1>1 DEF StopBlock, StopHeight
<1> QED
  BY <1>3, <1>4, <1>5, <1>7, <1>8 DEF SpendsOnce, ConfirmedAt, Confirmed

\* A transaction carries at most one sole marker of a kind.
LEMMA SoleMarkerIsOne ==
  ASSUME NEW tx, NEW kind, NEW d, NEW e, SoleMarker(tx, kind, d), SoleMarker(tx, kind, e)
  PROVE  d = e
BY DEF SoleMarker
-----------------------------------------------------------------------------
(* A checked history is genuine *)

\* A sole marker, as the chain has it.
LEMMA SoleMarkerIsOnly ==
  ASSUME NEW txid \in TxIds, NEW kind, NEW d, SoleMarker(Tx[txid], kind, d)
  PROVE  OnlyMarker(txid, kind, d)
<1> DEFINE outputs == Tx[txid].outputs
           markers == collect_markers(outputs, kind)
<1>1. PICK i \in DOMAIN markers : DOMAIN markers = {i} /\ markers[i] = d
  BY DEF SoleMarker
<1>2. DOMAIN markers = Markers(txid, kind)
  BY DEF collect_markers, Markers
<1>3. i \in DOMAIN outputs /\ outputs[i].script[1] = kind /\ outputs[i].script[2] = d
  BY <1>1 DEF collect_markers
<1>4. outputs[i].script = <<kind, d>>
  BY <1>3, ScriptsAssumption
<1> QED
  BY <1>1, <1>2, <1>4 DEF OnlyMarker

\* A marker that matches once, as the chain has it.
LEMMA MatchingMarkerIsOne ==
  ASSUME NEW txid \in TxIds, NEW kind, NEW d, OneMatchingMarker(Tx[txid], kind, d)
  PROVE  Cardinality({v \in Markers(txid, kind) :
                        Tx[txid].outputs[v].script = <<kind, d>>}) = 1
<1> DEFINE outputs == Tx[txid].outputs
           markers == collect_markers(outputs, kind)
           M == {v \in Markers(txid, kind) : outputs[v].script = <<kind, d>>}
<1>1. PICK i \in DOMAIN markers : \A j \in DOMAIN markers : markers[j] = d <=> j = i
  BY DEF OneMatchingMarker
<1>2. DOMAIN markers = Markers(txid, kind)
  BY DEF collect_markers, Markers
<1>3. ASSUME NEW j \in Markers(txid, kind)
      PROVE  outputs[j].script = <<kind, d>> <=> markers[j] = d
  <2>1. markers[j] = outputs[j].script[2] /\ outputs[j].script[1] = kind
    BY DEF collect_markers, Markers
  <2>2. outputs[j].script = <<outputs[j].script[1], outputs[j].script[2]>>
    BY ScriptsAssumption DEF Markers
  <2> QED
    BY <2>1, <2>2
<1>4. M = {i}
  BY <1>1, <1>2, <1>3
<1>5. Cardinality({i}) = 1
  BY FS_Singleton
<1> QED
  BY <1>4, <1>5

\* The one confirmed transaction that spends an outpoint.
LEMMA SpenderIsOne ==
  ASSUME Settled(Confirmed(chain)), NEW txid \in Confirmed(chain), NEW o \in Tx[txid].inputs
  PROVE  Spenders(chain, o) = {txid}
BY DEF Spenders, Settled

\* The output a check compared with the bundle's script is such a coin.
LEMMA SealIsChecked ==
  ASSUME NEW txid, NEW vout, NEW script, vout \in DOMAIN Tx[txid].outputs,
         ScriptAt(Tx[txid], vout) = script,
         is_supported_seal_script(ScriptAt(Tx[txid], vout))
  PROVE  Seals(txid, vout, script)
BY DEF Seals, ScriptAt, is_supported_seal_script

\* The claim of a checked history (verify.py:146-205).
LEMMA ClaimIsGenuine ==
  ASSUME NodeInv, NEW b, Len(b.transfers) \in Nat, FullyChecked(chain, b), NEW network,
         Passes(StartChecks(b, network))
  PROVE  /\ b.profile \in DOMAIN Profiles /\ network = Profiles[b.profile].network
         /\ GenuineClaim(chain, b)
         /\ b.claim.commitment = ExpectedClaimCommitment(b)
         /\ b.work.challenge_height =
              b.claim.height + Profiles[b.profile].challenge_delay
<1> DEFINE txid   == b.claim.outpoint[1]
           start  == StartChecks(b, network)
           checks == ClaimChecks(b, Tx[txid])
<1>1. start[1].ok /\ start[2].ok /\ start[3].ok /\ start[4].ok
  BY DEF Passes, StartChecks
<1>2. /\ b.profile \in DOMAIN Profiles /\ network = Profiles[b.profile].network
      /\ b.claim.algorithm = SHA256D
      /\ b.claim.target <= Profiles[b.profile].maximum_target
  BY <1>1 DEF StartChecks, Check
<1>3. Claim \in Stops(b) /\ Claim # Challenge /\ StopTxid(b, Claim) = txid
      /\ StopBlock(b, Claim) = b.claim.block /\ StopHeight(b, Claim) = b.claim.height
  BY DEF Stops, Claim, Challenge, Mint, StopTxid, StopBlock, StopHeight
<1>4. ConfirmedAt(chain, txid, b.claim.block, b.claim.height)
  BY <1>3 DEF FullyChecked, LoadedAt
<1>5. txid \in TxIds
  <2>1. txid \in Confirmed(chain)
    BY <1>4 DEF ConfirmedAt, Confirmed
  <2> QED
    BY <2>1, ChainEnd, ConfirmedAreTxIds DEF NodeInv
<1>6. Passes(checks)
  BY <1>3, StopPasses
<1>7. /\ checks[1].ok /\ checks[2].ok /\ checks[3].ok
      /\ checks[4].ok /\ checks[5].ok /\ checks[6].ok
  BY <1>6 DEF Passes, ClaimChecks
<1>8. /\ b.claim.outpoint[2] \in DOMAIN Tx[txid].outputs
      /\ ScriptAt(Tx[txid], b.claim.outpoint[2]) = b.claim.seal_script
      /\ is_supported_seal_script(ScriptAt(Tx[txid], b.claim.outpoint[2]))
      /\ ExpectedClaimCommitment(b) = b.claim.commitment
      /\ OneMatchingMarker(Tx[txid], "claim", ExpectedClaimCommitment(b))
      /\ b.work.challenge_height = b.claim.height + Profiles[b.profile].challenge_delay
  BY <1>7 DEF ClaimChecks, Check
<1>9. Seals(txid, b.claim.outpoint[2], b.claim.seal_script)
  BY <1>8, SealIsChecked
<1> QED
  BY <1>2, <1>4, <1>5, <1>8, <1>9, MatchingMarkerIsOne DEF GenuineClaim

\* Its work (verify.py:206-243).
LEMMA WorkIsGenuine ==
  ASSUME NEW b, Len(b.transfers) \in Nat, FullyChecked(chain, b),
         GenuineClaim(chain, b),
         b.work.challenge_height = b.claim.height + Profiles[b.profile].challenge_delay
  PROVE  /\ GenuineWork(chain, b) /\ InMintWindow(b)
         /\ b.work.challenge_digest = ExpectedChallenge(b)
         /\ b.work.work_hash = ExpectedWorkHash(b)
<1> DEFINE checks == ChallengeChecks(b)
<1>1. /\ Challenge \in Stops(b) /\ StopBlock(b, Challenge) = b.work.challenge_block
      /\ StopHeight(b, Challenge) = b.work.challenge_height
  BY DEF Stops, Claim, Challenge, Mint, StopBlock, StopHeight
<1>2. /\ b.work.challenge_height \in DOMAIN chain
      /\ chain[b.work.challenge_height] = b.work.challenge_block
  BY <1>1 DEF FullyChecked, LoadedAt
<1>3. chain[b.claim.height] = b.claim.block
  BY DEF GenuineClaim, ConfirmedAt
<1>4. Passes(checks)
  BY <1>1, StopPasses
<1>5. checks[1].ok /\ checks[2].ok /\ checks[3].ok /\ checks[4].ok
  BY <1>4 DEF Passes, ChallengeChecks
<1>6. /\ ExpectedChallenge(b) = b.work.challenge_digest
      /\ ExpectedWorkHash(b) = b.work.work_hash
      /\ HashInt(ExpectedWorkHash(b)) <= b.claim.target
      /\ InMintWindow(b)
  BY <1>5 DEF ChallengeChecks, Check
<1>7. ExpectedChallenge(b) =
        derive_challenge(b.profile, b.claim.outpoint, chain[b.claim.height],
                         ExpectedClaimCommitment(b), chain[b.work.challenge_height])
  BY <1>2, <1>3 DEF ExpectedChallenge
<1>8. GenuineWork(chain, b)
  BY <1>2, <1>6, <1>7 DEF GenuineWork, ExpectedWorkHash
<1> QED
  BY <1>6, <1>8

\* Its mint (verify.py:244-292).
LEMMA MintIsGenuine ==
  ASSUME NodeInv, LedgerInv, NEW b, Len(b.transfers) \in Nat, FullyChecked(chain, b),
         GenuineClaim(chain, b), InMintWindow(b), b.profile \in DOMAIN Profiles,
         b.work.challenge_height = b.claim.height + Profiles[b.profile].challenge_delay
  PROVE  GenuineMint(chain, b) /\ b.mint.commitment = ExpectedMintCommitment(b)
<1> DEFINE txid   == b.mint.txid
           p      == Profiles[b.profile]
           checks == MintChecks(b, Tx[txid])
<1>1. /\ ConfirmedAt(chain, txid, b.mint.block, b.mint.height)
      /\ txid \in Confirmed(chain) /\ b.claim.outpoint \in Tx[txid].inputs
      /\ SoleMarker(Tx[txid], "mint", ExpectedMintCommitment(b))
      /\ Passes(checks)
  BY MintIsChecked
<1>2. txid \in TxIds
  BY <1>1, ChainEnd, ConfirmedAreTxIds DEF NodeInv
<1>3. OnlyMarker(txid, "mint", ExpectedMintCommitment(b))
  BY <1>1, <1>2, SoleMarkerIsOnly
<1>4. Spenders(chain, b.claim.outpoint) = {txid}
  BY <1>1, ChainSettled, SpenderIsOne
<1>5. checks[2].ok /\ checks[3].ok /\ checks[4].ok /\ checks[5].ok
  BY <1>1 DEF Passes, MintChecks
<1>6. /\ b.mint.title_vout \in DOMAIN Tx[txid].outputs
      /\ ScriptAt(Tx[txid], b.mint.title_vout) = b.mint.title_script
      /\ is_supported_seal_script(ScriptAt(Tx[txid], b.mint.title_vout))
      /\ ExpectedMintCommitment(b) = b.mint.commitment
  BY <1>5 DEF MintChecks, Check
<1>7. Seals(txid, b.mint.title_vout, b.mint.title_script)
  BY <1>6, SealIsChecked
<1>8. b.mint.height - b.claim.height - p.challenge_delay \in 1..p.mint_window
  <2>1. p.challenge_delay \in Nat /\ p.mint_window \in Nat
    BY ProfilesAssumption DEF Profile
  <2>2. b.claim.height \in DOMAIN chain /\ b.mint.height \in DOMAIN chain
    BY <1>1 DEF GenuineClaim, ConfirmedAt
  <2>3. b.claim.height \in Nat /\ b.mint.height \in Nat
    BY <2>2, ChainEnd
  <2> QED
    BY <2>1, <2>3 DEF InMintWindow
<1> QED
  BY <1>1, <1>3, <1>4, <1>6, <1>7, <1>8 DEF GenuineMint

\* Its transitions (verify.py:297-347).
LEMMA TransitionIsGenuine ==
  ASSUME NodeInv, LedgerInv, NEW b, Len(b.transfers) \in Nat, FullyChecked(chain, b),
         NEW k \in Stops(b), k > Mint
  PROVE  /\ GenuineTransition(chain, b, k)
         /\ Transition(b, k).commitment = ExpectedTransferCommitment(b, k)
<1> DEFINE t      == Transition(b, k)
           checks == TransferChecks(b, k, Tx[t.txid])
           order  == TransferOrderChecks(b, k)
<1>1. /\ ConfirmedAt(chain, t.txid, t.block, t.height)
      /\ t.txid \in Confirmed(chain) /\ TitleAt(b, k - 1) \in Tx[t.txid].inputs
      /\ SoleMarker(Tx[t.txid], "transfer", ExpectedTransferCommitment(b, k))
      /\ Passes(checks) /\ Passes(order)
  BY TransitionIsChecked DEF Stops
<1>2. t.txid \in TxIds
  BY <1>1, ChainEnd, ConfirmedAreTxIds DEF NodeInv
<1>3. OnlyMarker(t.txid, "transfer", ExpectedTransferCommitment(b, k))
  BY <1>1, <1>2, SoleMarkerIsOnly
<1>4. Spenders(chain, TitleAt(b, k - 1)) = {t.txid}
  BY <1>1, ChainSettled, SpenderIsOne
<1>5. checks[2].ok /\ checks[3].ok /\ checks[4].ok /\ checks[5].ok
  BY <1>1 DEF Passes, TransferChecks
<1>6. /\ t.successor_vout \in DOMAIN Tx[t.txid].outputs
      /\ ScriptAt(Tx[t.txid], t.successor_vout) = t.successor_script
      /\ is_supported_seal_script(ScriptAt(Tx[t.txid], t.successor_vout))
      /\ ExpectedTransferCommitment(b, k) = t.commitment
  BY <1>5 DEF TransferChecks, Check
<1>7. Seals(t.txid, t.successor_vout, t.successor_script)
  BY <1>6, SealIsChecked
<1>8. order[1].ok /\ order[2].ok /\ order[3].ok
  BY <1>1 DEF Passes, TransferOrderChecks
<1>9. /\ t.index = k - Mint - 1 /\ t.previous = TitleAt(b, k - 1)
      /\ t.height >= StopHeight(b, k - 1)
  <2>1. /\ t.index = k - 4 /\ t.previous = TitleAt(b, k - 1)
        /\ t.height >= StopHeight(b, k - 1)
    BY <1>8 DEF TransferOrderChecks, Check
  <2>2. k - 4 = k - Mint - 1
    BY DEF Mint, Stops
  <2> QED
    BY <2>1, <2>2
<1> QED
  BY <1>1, <1>3, <1>4, <1>6, <1>7, <1>9 DEF GenuineTransition

\* A history whose blocks are on the chain and whose checks all pass is an atom.
LEMMA CheckedIsGenuine ==
  ASSUME NodeInv, LedgerInv, NEW b, Len(b.transfers) \in Nat, FullyChecked(chain, b),
         NEW network, Passes(StartChecks(b, network))
  PROVE  /\ b.profile \in DOMAIN Profiles
         /\ network = Profiles[b.profile].network
         /\ GenuineHistory(chain, b)
<1>1. /\ b.profile \in DOMAIN Profiles /\ network = Profiles[b.profile].network
      /\ GenuineClaim(chain, b)
      /\ b.claim.commitment = ExpectedClaimCommitment(b)
      /\ b.work.challenge_height = b.claim.height + Profiles[b.profile].challenge_delay
  BY ClaimIsGenuine
<1>2. /\ GenuineWork(chain, b) /\ InMintWindow(b)
      /\ b.work.challenge_digest = ExpectedChallenge(b)
      /\ b.work.work_hash = ExpectedWorkHash(b)
  BY <1>1, WorkIsGenuine
<1>3. GenuineMint(chain, b) /\ b.mint.commitment = ExpectedMintCommitment(b)
  BY <1>1, <1>2, MintIsGenuine
<1>4. ASSUME NEW k \in Stops(b), k > Mint
      PROVE  /\ GenuineTransition(chain, b, k)
             /\ Transition(b, k).commitment = ExpectedTransferCommitment(b, k)
  BY <1>4, TransitionIsGenuine
<1> QED
  BY <1>1, <1>2, <1>3, <1>4 DEF GenuineHistory, OwnDigests
-----------------------------------------------------------------------------
(* A genuine history passes the checks *)

\* A list passes when each of its checks does.
LEMMA TwoPass ==
  ASSUME NEW a, NEW b, a.ok, b.ok
  PROVE  Passes(<<a, b>>)
BY DEF Passes

\* The same for three checks.
LEMMA ThreePass ==
  ASSUME NEW a, NEW b, NEW c, a.ok, b.ok, c.ok
  PROVE  Passes(<<a, b, c>>)
BY DEF Passes

\* The same for four checks.
LEMMA FourPass ==
  ASSUME NEW a, NEW b, NEW c, NEW d, a.ok, b.ok, c.ok, d.ok
  PROVE  Passes(<<a, b, c, d>>)
<1>1. ASSUME NEW i \in 1..4 PROVE <<a, b, c, d>>[i].ok
  <2>1. CASE i = 1
    BY <2>1
  <2>2. CASE i = 2
    BY <2>2
  <2>3. CASE i = 3
    BY <2>3
  <2>4. CASE i = 4
    BY <2>4
  <2> QED
    BY <2>1, <2>2, <2>3, <2>4
<1> QED
  BY <1>1 DEF Passes

\* The same for six checks.
LEMMA SixPass ==
  ASSUME NEW a, NEW b, NEW c, NEW d, NEW e, NEW f,
         a.ok, b.ok, c.ok, d.ok, e.ok, f.ok
  PROVE  Passes(<<a, b, c, d, e, f>>)
<1>1. ASSUME NEW i \in 1..6 PROVE <<a, b, c, d, e, f>>[i].ok
  <2>1. CASE i = 1
    BY <2>1
  <2>2. CASE i = 2
    BY <2>2
  <2>3. CASE i = 3
    BY <2>3
  <2>4. CASE i = 4
    BY <2>4
  <2>5. CASE i = 5
    BY <2>5
  <2>6. CASE i = 6
    BY <2>6
  <2> QED
    BY <2>1, <2>2, <2>3, <2>4, <2>5, <2>6
<1> QED
  BY <1>1 DEF Passes

\* A part of a transaction's outputs that has one member is one output.
LEMMA OneOutput ==
  ASSUME NEW txid \in TxIds, NEW S \in SUBSET DOMAIN Tx[txid].outputs,
         Cardinality(S) = 1
  PROVE  \E v : S = {v}
<1>1. IsFiniteSet(S)
  BY ScriptsAssumption, FS_Subset
<1>2. S # {}
  BY <1>1, FS_EmptySet
<1>3. PICK v \in S : TRUE
  BY <1>2
<1>4. Cardinality(S \ {v}) = 0 /\ IsFiniteSet(S \ {v})
  BY <1>1, <1>3, FS_RemoveElement
<1>5. S \ {v} = {}
  BY <1>4, FS_EmptySet
<1> QED
  BY <1>3, <1>5

\* A marker that the chain has once matches once.
LEMMA OneIsMatching ==
  ASSUME NEW txid \in TxIds, NEW kind, NEW d,
         Cardinality({v \in Markers(txid, kind) :
                        Tx[txid].outputs[v].script = <<kind, d>>}) = 1
  PROVE  OneMatchingMarker(Tx[txid], kind, d)
<1> DEFINE outputs == Tx[txid].outputs
           markers == collect_markers(outputs, kind)
           M == {v \in Markers(txid, kind) : outputs[v].script = <<kind, d>>}
<1>1. M \in SUBSET DOMAIN outputs
  BY DEF Markers
<1>2. PICK i : M = {i}
  BY <1>1, OneOutput
<1>3. DOMAIN markers = Markers(txid, kind)
  BY DEF collect_markers, Markers
<1>4. ASSUME NEW j \in Markers(txid, kind)
      PROVE  outputs[j].script = <<kind, d>> <=> markers[j] = d
  <2>1. markers[j] = outputs[j].script[2] /\ outputs[j].script[1] = kind
    BY DEF collect_markers, Markers
  <2>2. outputs[j].script = <<outputs[j].script[1], outputs[j].script[2]>>
    BY ScriptsAssumption DEF Markers
  <2> QED
    BY <2>1, <2>2
<1>5. i \in DOMAIN markers /\ \A j \in DOMAIN markers : markers[j] = d <=> j = i
  BY <1>2, <1>3, <1>4
<1> QED
  BY <1>5 DEF OneMatchingMarker

\* An only marker is a sole one.
LEMMA OnlyMarkerIsSole ==
  ASSUME NEW txid, NEW kind, NEW d, OnlyMarker(txid, kind, d)
  PROVE  SoleMarker(Tx[txid], kind, d)
<1>1. PICK v \in Markers(txid, kind) :
        Markers(txid, kind) = {v} /\ Tx[txid].outputs[v].script = <<kind, d>>
  BY DEF OnlyMarker
<1>2. DOMAIN collect_markers(Tx[txid].outputs, kind) = {v}
  BY <1>1 DEF collect_markers, Markers
<1>3. collect_markers(Tx[txid].outputs, kind)[v] = d
  BY <1>1 DEF collect_markers, Markers
<1> QED
  BY <1>2, <1>3 DEF SoleMarker

\* Such a coin passes the checks made of an output.
LEMMA SealPasses ==
  ASSUME NEW txid, NEW vout, NEW script, Seals(txid, vout, script)
  PROVE  /\ vout \in DOMAIN Tx[txid].outputs
         /\ ScriptAt(Tx[txid], vout) = script
         /\ is_supported_seal_script(ScriptAt(Tx[txid], vout))
BY DEF Seals, ScriptAt, is_supported_seal_script

\* The claim of a genuine history (verify.py:146-205).
LEMMA GenuineClaimPasses ==
  ASSUME NodeInv, NEW b, GenuineHistory(chain, b), b.profile \in DOMAIN Profiles,
         NEW network, network = Profiles[b.profile].network
  PROVE  /\ Passes(StartChecks(b, network))
         /\ Passes(ClaimChecks(b, Tx[b.claim.outpoint[1]]))
         /\ ConfirmedAt(chain, b.claim.outpoint[1], b.claim.block, b.claim.height)
<1> DEFINE txid == b.claim.outpoint[1]
<1>1. GenuineClaim(chain, b) /\ GenuineWork(chain, b) /\ OwnDigests(b)
  BY DEF GenuineHistory
<1>2. /\ b.claim.algorithm = SHA256D
      /\ b.claim.target <= Profiles[b.profile].maximum_target
      /\ ConfirmedAt(chain, txid, b.claim.block, b.claim.height)
      /\ Seals(txid, b.claim.outpoint[2], b.claim.seal_script)
      /\ Cardinality({v \in Markers(txid, "claim") :
                        Tx[txid].outputs[v].script
                          = <<"claim", ExpectedClaimCommitment(b)>>}) = 1
  BY <1>1 DEF GenuineClaim
<1>3. txid \in TxIds
  <2>1. txid \in Confirmed(chain)
    BY <1>2 DEF ConfirmedAt, Confirmed
  <2> QED
    BY <2>1, ChainEnd, ConfirmedAreTxIds DEF NodeInv
<1>4. OneMatchingMarker(Tx[txid], "claim", ExpectedClaimCommitment(b))
  BY <1>2, <1>3, OneIsMatching
<1>5. /\ ExpectedClaimCommitment(b) = b.claim.commitment
      /\ b.work.challenge_height = b.claim.height + Profiles[b.profile].challenge_delay
  BY <1>1 DEF OwnDigests, GenuineWork
<1>6. /\ b.claim.outpoint[2] \in DOMAIN Tx[txid].outputs
      /\ ScriptAt(Tx[txid], b.claim.outpoint[2]) = b.claim.seal_script
      /\ is_supported_seal_script(ScriptAt(Tx[txid], b.claim.outpoint[2]))
  BY <1>2, SealPasses
<1>7. Passes(ClaimChecks(b, Tx[txid]))
  BY <1>4, <1>5, <1>6, SixPass DEF ClaimChecks, Check
<1>8. Passes(StartChecks(b, network))
  BY <1>2, FourPass DEF StartChecks, Check
<1> QED
  BY <1>2, <1>7, <1>8

\* Its work: the challenge block of the bundle is the chain's (verify.py:206-243).
LEMMA GenuineWorkPasses ==
  ASSUME NodeInv, NEW b, GenuineHistory(chain, b), b.profile \in DOMAIN Profiles
  PROVE  /\ Passes(ChallengeChecks(b))
         /\ b.work.challenge_height \in DOMAIN chain
         /\ chain[b.work.challenge_height] = b.work.challenge_block
<1> DEFINE p == Profiles[b.profile]
<1>1. GenuineClaim(chain, b) /\ GenuineWork(chain, b) /\ OwnDigests(b)
      /\ GenuineMint(chain, b)
  BY DEF GenuineHistory
<1>2. PICK height : height = b.claim.height + p.challenge_delay
  OBVIOUS
<1>3. /\ b.work.challenge_height = height /\ height \in DOMAIN chain
      /\ ExpectedChallenge(b) =
           derive_challenge(b.profile, b.claim.outpoint, chain[b.claim.height],
                            ExpectedClaimCommitment(b), chain[height])
      /\ HashInt(calculate_work_hash(ExpectedChallenge(b), ExpectedClaimCommitment(b),
                                     b.work.extra_nonce, b.work.nonce))
           <= b.claim.target
  BY <1>1, <1>2, Zenon DEF GenuineWork
<1>4. chain[height] = b.work.challenge_block
  BY <1>3 DEF ExpectedChallenge, derive_challenge
<1>5. HashInt(ExpectedWorkHash(b)) <= b.claim.target
  BY <1>3 DEF ExpectedWorkHash
<1>6. InMintWindow(b)
  <2>1. p.challenge_delay \in Nat /\ p.mint_window \in Nat
    BY ProfilesAssumption DEF Profile
  <2>2. b.claim.height \in DOMAIN chain /\ b.mint.height \in DOMAIN chain
    BY <1>1 DEF GenuineClaim, GenuineMint, ConfirmedAt
  <2>3. b.claim.height \in Nat /\ b.mint.height \in Nat
    BY <2>2, ChainEnd
  <2>4. b.mint.height - b.claim.height - p.challenge_delay \in 1..p.mint_window
    BY <1>1 DEF GenuineMint
  <2> QED
    BY <1>2, <1>3, <2>1, <2>3, <2>4 DEF InMintWindow
<1>7. /\ ExpectedChallenge(b) = b.work.challenge_digest
      /\ ExpectedWorkHash(b) = b.work.work_hash
  BY <1>1 DEF OwnDigests
<1>8. Passes(ChallengeChecks(b))
  BY <1>5, <1>6, <1>7, FourPass DEF ChallengeChecks, Check
<1> QED
  BY <1>3, <1>4, <1>8

\* Its mint (verify.py:244-292).
LEMMA GenuineMintPasses ==
  ASSUME NEW b, GenuineHistory(chain, b)
  PROVE  /\ Passes(MintChecks(b, Tx[b.mint.txid]))
         /\ ConfirmedAt(chain, b.mint.txid, b.mint.block, b.mint.height)
<1> DEFINE txid == b.mint.txid
<1>1. GenuineMint(chain, b) /\ OwnDigests(b)
  BY DEF GenuineHistory
<1>2. /\ ConfirmedAt(chain, txid, b.mint.block, b.mint.height)
      /\ Spenders(chain, b.claim.outpoint) = {txid}
      /\ Seals(txid, b.mint.title_vout, b.mint.title_script)
      /\ OnlyMarker(txid, "mint", ExpectedMintCommitment(b))
  BY <1>1 DEF GenuineMint
<1>3. SpendsOnce(Tx[txid], b.claim.outpoint)
  BY <1>2 DEF Spenders, SpendsOnce
<1>4. SoleMarker(Tx[txid], "mint", ExpectedMintCommitment(b))
  BY <1>2, OnlyMarkerIsSole
<1>5. /\ b.mint.title_vout \in DOMAIN Tx[txid].outputs
      /\ ScriptAt(Tx[txid], b.mint.title_vout) = b.mint.title_script
      /\ is_supported_seal_script(ScriptAt(Tx[txid], b.mint.title_vout))
  BY <1>2, SealPasses
<1>6. ExpectedMintCommitment(b) = b.mint.commitment
  BY <1>1 DEF OwnDigests
<1>7. Passes(MintChecks(b, Tx[txid]))
  BY <1>3, <1>4, <1>5, <1>6, SixPass DEF MintChecks, Check
<1> QED
  BY <1>2, <1>7

\* Its transitions (verify.py:297-347).
LEMMA GenuineTransitionPasses ==
  ASSUME NEW b, Len(b.transfers) \in Nat, GenuineHistory(chain, b),
         NEW k \in Stops(b), k > Mint
  PROVE  LET t == Transition(b, k) IN
         /\ Passes(TransferOrderChecks(b, k))
         /\ Passes(TransferChecks(b, k, Tx[t.txid]))
         /\ ConfirmedAt(chain, t.txid, t.block, t.height)
<1> DEFINE t == Transition(b, k)
<1>1. /\ GenuineTransition(chain, b, k)
      /\ t.commitment = ExpectedTransferCommitment(b, k)
  BY DEF GenuineHistory, OwnDigests
<1>2. /\ t.index = k - Mint - 1 /\ t.previous = TitleAt(b, k - 1)
      /\ t.height >= StopHeight(b, k - 1)
      /\ ConfirmedAt(chain, t.txid, t.block, t.height)
      /\ Spenders(chain, TitleAt(b, k - 1)) = {t.txid}
      /\ Seals(t.txid, t.successor_vout, t.successor_script)
      /\ OnlyMarker(t.txid, "transfer", ExpectedTransferCommitment(b, k))
  BY <1>1 DEF GenuineTransition
<1>3. SpendsOnce(Tx[t.txid], TitleAt(b, k - 1))
  BY <1>2 DEF Spenders, SpendsOnce
<1>4. SoleMarker(Tx[t.txid], "transfer", ExpectedTransferCommitment(b, k))
  BY <1>2, OnlyMarkerIsSole
<1>5. /\ t.successor_vout \in DOMAIN Tx[t.txid].outputs
      /\ ScriptAt(Tx[t.txid], t.successor_vout) = t.successor_script
      /\ is_supported_seal_script(ScriptAt(Tx[t.txid], t.successor_vout))
  BY <1>2, SealPasses
<1>6. t.index = k - 4
  BY <1>2 DEF Mint, Stops
<1>7. Passes(TransferChecks(b, k, Tx[t.txid]))
  BY <1>1, <1>3, <1>4, <1>5, SixPass DEF TransferChecks, Check
<1>8. Passes(TransferOrderChecks(b, k))
  BY <1>2, <1>6, ThreePass DEF TransferOrderChecks, Check
<1> QED
  BY <1>2, <1>7, <1>8

\* Two lists that pass do so one after the other.
LEMMA ConcatPasses ==
  ASSUME NEW s, NEW t, Sequence(s), Sequence(t), Passes(s), Passes(t)
  PROVE  Passes(s \o t)
<1> DEFINE S == Range(s) \cup Range(t)
<1>1. s \in Seq(S) /\ t \in Seq(S)
  BY SeqMonotonic DEF Sequence
<1>2. /\ Len(s) \in Nat /\ DOMAIN s = 1..Len(s)
      /\ Len(t) \in Nat /\ DOMAIN t = 1..Len(t)
      /\ DOMAIN (s \o t) = 1..(Len(s) + Len(t))
      /\ \A i \in 1..(Len(s) + Len(t)) :
           (s \o t)[i] = IF i <= Len(s) THEN s[i] ELSE t[i - Len(s)]
  BY <1>1, ConcatProperties, LenProperties
<1> SUFFICES ASSUME NEW i \in 1..(Len(s) + Len(t)) PROVE (s \o t)[i].ok
  BY <1>2 DEF Passes
<1>3. CASE i <= Len(s)
  <2>1. i \in DOMAIN s
    BY <1>2, <1>3
  <2> QED
    BY <1>2, <1>3, <2>1 DEF Passes
<1>4. CASE ~(i <= Len(s))
  <2>1. i - Len(s) \in DOMAIN t
    BY <1>2, <1>4
  <2> QED
    BY <1>2, <1>4, <2>1 DEF Passes
<1> QED
  BY <1>3, <1>4

\* The converse of StopListPasses.
LEMMA StopListFits ==
  ASSUME NEW b, Len(b.transfers) \in Nat, NEW k \in Stops(b), NEW tx,
         k = Claim     => Passes(ClaimChecks(b, tx)),
         k = Challenge => Passes(ChallengeChecks(b)),
         k = Mint      => Passes(MintChecks(b, tx)),
         k > Mint      => Passes(TransferChecks(b, k, tx)),
         k >= Mint /\ k + 1 \in Stops(b) => Passes(TransferOrderChecks(b, k + 1))
  PROVE  Passes(StopChecks(b, k, tx))
<1> DEFINE order == IF k >= Mint /\ k + 1 \in Stops(b)
                    THEN TransferOrderChecks(b, k + 1) ELSE <<>>
           first == CASE k = Claim     -> ClaimChecks(b, tx)
                      [] k = Challenge -> ChallengeChecks(b)
                      [] k = Mint      -> MintChecks(b, tx)
                      [] OTHER         -> TransferChecks(b, k, tx)
<1>1. k \in Nat /\ (k = Claim \/ k = Challenge \/ k = Mint \/ k > Mint)
  BY DEF Stops, Claim, Challenge, Mint
<1>2. Passes(first)
  BY <1>1 DEF Claim, Challenge, Mint
<1>3. Passes(<<>>)
  BY DEF Passes
<1>4. Passes(order)
  BY <1>3
<1>5. Sequence(first) /\ Sequence(order)
  BY ChecksAreSequences
<1> HIDE DEF first, order
<1>6. Passes(first \o order)
  BY <1>2, <1>4, <1>5, ConcatPasses
<1> QED
  BY <1>6 DEF first, order, StopChecks

\* Every block of a genuine history is on the chain and every check of it passes:
\* the verifier's checks and the definition of an atom say the same.
LEMMA GenuineIsChecked ==
  ASSUME NodeInv, NEW b, Len(b.transfers) \in Nat, GenuineHistory(chain, b),
         b.profile \in DOMAIN Profiles,
         NEW network, network = Profiles[b.profile].network
  PROVE  FullyChecked(chain, b) /\ Passes(StartChecks(b, network))
<1>1. /\ Passes(StartChecks(b, network))
      /\ Passes(ClaimChecks(b, Tx[b.claim.outpoint[1]]))
      /\ ConfirmedAt(chain, b.claim.outpoint[1], b.claim.block, b.claim.height)
  BY GenuineClaimPasses
<1>2. /\ Passes(ChallengeChecks(b))
      /\ b.work.challenge_height \in DOMAIN chain
      /\ chain[b.work.challenge_height] = b.work.challenge_block
  BY GenuineWorkPasses
<1>3. /\ Passes(MintChecks(b, Tx[b.mint.txid]))
      /\ ConfirmedAt(chain, b.mint.txid, b.mint.block, b.mint.height)
  BY GenuineMintPasses
<1>4. ASSUME NEW k \in Stops(b), k > Mint
      PROVE  LET t == Transition(b, k) IN
             /\ Passes(TransferOrderChecks(b, k))
             /\ Passes(TransferChecks(b, k, Tx[t.txid]))
             /\ ConfirmedAt(chain, t.txid, t.block, t.height)
  BY <1>4, GenuineTransitionPasses
<1>5. ASSUME NEW k \in Stops(b)
      PROVE  LoadedAt(chain, b, k) /\ Passes(StopChecks(b, k, Tx[StopTxid(b, k)]))
  <2> DEFINE tx == Tx[StopTxid(b, k)]
  <2>0. k \in Nat /\ (k = Claim \/ k = Challenge \/ k = Mint \/ k > Mint)
    BY DEF Stops, Claim, Challenge, Mint
  <2>1. LoadedAt(chain, b, k)
    <3>1. CASE k = Claim
      BY <3>1, <1>1 DEF Claim, Challenge, Mint, StopTxid, StopBlock, StopHeight, LoadedAt
    <3>2. CASE k = Challenge
      BY <3>2, <1>2 DEF Claim, Challenge, Mint, StopBlock, StopHeight, LoadedAt
    <3>3. CASE k = Mint
      BY <3>3, <1>3 DEF Claim, Challenge, Mint, StopTxid, StopBlock, StopHeight, LoadedAt
    <3>4. CASE k > Mint
      BY <3>4, <1>4, <2>0
         DEF Claim, Challenge, Mint, StopTxid, StopBlock, StopHeight, LoadedAt
    <3> QED
      BY <2>0, <3>1, <3>2, <3>3, <3>4
  <2>2. k = Claim => tx = Tx[b.claim.outpoint[1]]
    BY DEF StopTxid, Claim, Mint
  <2>3. k = Mint => tx = Tx[b.mint.txid]
    BY DEF StopTxid, Claim, Mint
  <2>4. k > Mint => tx = Tx[Transition(b, k).txid]
    BY <2>0 DEF StopTxid, Claim, Mint
  <2>5. k >= Mint /\ k + 1 \in Stops(b) => Passes(TransferOrderChecks(b, k + 1))
    BY <2>0, <1>4 DEF Mint
  <2>6. k > Mint => Passes(TransferChecks(b, k, tx))
    BY <1>4, <2>4
  <2> HIDE DEF tx
  <2>7. Passes(StopChecks(b, k, tx))
    BY <1>1, <1>2, <1>3, <2>2, <2>3, <2>5, <2>6, StopListFits
  <2> QED
    BY <2>1, <2>7 DEF tx
<1> QED
  BY <1>1, <1>5 DEF FullyChecked
=============================================================================
