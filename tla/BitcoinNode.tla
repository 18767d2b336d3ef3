---------------------------- MODULE BitcoinNode ----------------------------
(* The Bitcoin Core node that goldatom/core_rpc.py queries: its block index,   *)
(* active chain and mempool, and the replies of the RPCs the code uses.        *)
(*                                                                             *)
(* Block hashes are numbered in the order the node learns the blocks; genesis  *)
(* is not numbered, so chain[h] is the block at height h >= 1.  Coinbases and  *)
(* fees are left out.  Consensus is what the code trusts the node for: a block *)
(* connects only transactions whose inputs are unspent, each spent once.       *)
EXTENDS Integers, Sequences, FiniteSets

CONSTANTS
  Tx,          \* txid -> transaction; the transactions anybody may publish
  Funding,     \* outpoints that exist before any of them
  History,     \* the sets of txids of the blocks the node starts with
  BlockWorks,  \* the work one block may carry
  MaxBlocks,   \* bound: blocks the node ever learns of
  Floor        \* bound: heights up to it are never disconnected

ASSUME NodeAssumption ==
  /\ BlockWorks \subseteq Nat \ {0}
  /\ History \in Seq(SUBSET DOMAIN Tx)
  /\ MaxBlocks \in Nat
  /\ Floor \in 1..Len(History)

VARIABLES
  blocks,   \* block index: [branch |-> hashes from height 1 to it, txs, chainwork]
  chain,    \* hashes of the active chain
  mempool   \* txids

nodeVars == <<blocks, chain, mempool>>

BlockHashes == DOMAIN blocks
TxIds == DOMAIN Tx

Block == [branch : Seq(Nat), txs : SUBSET TxIds, chainwork : Nat]

NodeTypeOK ==
  /\ blocks \in Seq(Block)
  /\ chain \in Seq(BlockHashes)
  /\ mempool \subseteq TxIds
-----------------------------------------------------------------------------
(* The ledger *)

\* The transactions confirmed by a chain of blocks.
Confirmed(c) == UNION {blocks[c[h]].txs : h \in DOMAIN c}

\* An output of one of these transactions that is a coin: markers are OP_RETURN
\* and cannot be spent.
Created(o, txids) ==
  /\ o[1] \in txids
  /\ o[2] \in DOMAIN Tx[o[1]].outputs
  /\ Tx[o[1]].outputs[o[2]].script[1] \notin {"claim", "mint", "transfer"}

Spent(o, txids) == \E t \in txids : o \in Tx[t].inputs

\* A coin left when exactly these transactions have happened.
Unspent(o, txids) == (o \in Funding \/ Created(o, txids)) /\ ~Spent(o, txids)

\* These transactions can happen together after the confirmed ones.
Connectable(txids, confirmed) ==
  /\ txids \cap confirmed = {}
  /\ \A t \in txids :
       /\ \A o \in Tx[t].inputs : Unspent(o, confirmed) \/ Created(o, txids)
       /\ \A u \in txids \ {t} : Tx[t].inputs \cap Tx[u].inputs = {}

\* The node starts with a history that consensus allows.
ASSUME LedgerAssumption ==
  /\ \A o \in Funding : o[1] \notin TxIds
  /\ \A h \in DOMAIN History :
       Connectable(History[h], UNION {History[g] : g \in 1..(h - 1)})

\* The largest part of a mempool that survives a change of the chain: a
\* transaction leaves it with every ancestor that was confirmed or conflicted.
Surviving(pool, confirmed) ==
  UNION {s \in SUBSET (pool \ confirmed) : Connectable(s, confirmed)}

\* A commitment to a block hash cannot be published before the block exists.
Publishable(t) == Tx[t].cites \subseteq BlockHashes
-----------------------------------------------------------------------------
(* RPC replies *)

OnActiveChain(b) == \E h \in DOMAIN chain : chain[h] = b

\* getblockheader
Header(b) ==
  LET height == Len(blocks[b].branch)
  IN  [height        |-> height,
       confirmations |-> IF OnActiveChain(b) THEN Len(chain) - height + 1 ELSE -1,
       chainwork     |-> blocks[b].chainwork]

\* verifytxoutproof, for a proof whose block is on the active chain; Core
\* answers an empty list when the branch does not lead to the block's root.
CommittedTxids(proof) ==
  IF proof.txids \subseteq blocks[proof.block].txs THEN proof.txids ELSE {}

\* gettxout with include_mempool: the coins left by the chain and the mempool,
\* and their confirmations (0 when created in the mempool).
Visible(o) == Unspent(o, Confirmed(chain) \cup mempool)

CoinConfirmations(o) ==
  IF o[1] \in Confirmed(chain)
  THEN Len(chain) + 1
         - (CHOOSE h \in DOMAIN chain : o[1] \in blocks[chain[h]].txs)
  ELSE 0
-----------------------------------------------------------------------------
TotalWork(c) == blocks[c[Len(c)]].chainwork

NodeInit ==
  /\ \E w \in BlockWorks :
       blocks = [b \in DOMAIN History |->
                   [branch    |-> [h \in 1..b |-> h],
                    txs       |-> History[b],
                    chainwork |-> b * w]]
  /\ chain = [h \in DOMAIN History |-> h]
  /\ mempool = {}

\* testmempoolaccept
Acceptable(t) ==
  /\ t \notin Confirmed(chain) \cup mempool
  /\ Publishable(t)
  /\ \A o \in Tx[t].inputs : Visible(o)

\* sendrawtransaction, by anybody.
Broadcast(t) ==
  /\ Acceptable(t)
  /\ mempool' = mempool \cup {t}
  /\ UNCHANGED <<blocks, chain>>

\* A new block extends the active chain (generatetoaddress, or another miner).
Generate(txids, work) ==
  /\ Len(blocks) < MaxBlocks
  /\ \A t \in txids : Publishable(t)
  /\ Connectable(txids, Confirmed(chain))
  /\ LET branch == Append(chain, Len(blocks) + 1)
     IN  /\ blocks' = Append(blocks, [branch    |-> branch,
                                      txs       |-> txids,
                                      chainwork |-> TotalWork(chain) + work])
         /\ chain' = branch
  /\ mempool' = Surviving(mempool, Confirmed(chain) \cup txids)

\* The active chain becomes another branch the node knows: a heavier branch wins,
\* invalidateblock cuts the chain back, reconsiderblock restores a branch.
\* Disconnected transactions go back to the mempool.
Activate(branch) ==
  /\ branch # chain
  /\ chain' = branch
  /\ mempool' = Surviving(mempool \cup (Confirmed(chain) \ Confirmed(branch)),
                          Confirmed(branch))
  /\ UNCHANGED blocks

KnownBranches ==
  {branch \in {blocks[b].branch : b \in BlockHashes} :
     Len(branch) >= Floor /\ \A h \in 1..Floor : branch[h] = chain[h]}

Extend ==
  \/ \E t \in TxIds : Broadcast(t)
  \/ \E txids \in SUBSET (TxIds \ Confirmed(chain)), work \in BlockWorks :
       Generate(txids, work)

Reorganize == \E branch \in KnownBranches : Activate(branch)
=============================================================================
