----------------------------- MODULE DriverProofs -----------------------------
(* What scripts/regtest_demo.py writes is true, for every profile, nonce bound  *)
(* and number of blocks: each local of main, once read, stays true of the block *)
(* it was read from, so the records of the bundle agree although they were read *)
(* one by one on a shared node.  It reports success only for an atom: its final *)
(* assay tells when a block it built on was disconnected.                       *)
(*                                                                              *)
(* And what scripts/run_live_core_validation.py demands of it on a node of its  *)
(* own is met: nobody else mines, so the chain is one line of blocks, the atom  *)
(* the driver leaves stands on it, and every assay of it, tampered with or with *)
(* its challenge block invalidated, ends as the script expects.                 *)
EXTENDS LiveValidation, AssayProofs

\* A transaction cites blocks older than the one it is in.
CitesOlder ==
  \A b \in BlockHashes : \A t \in blocks[b].txs : Tx[t].cites \subseteq 1..(b - 1)

SharedNode ==
  NodeInv /\ LedgerInv /\ BranchesRise /\ CitesOlder /\ Len(blocks) <= MaxBlocks

\* The blocks of the active chain are known, at their heights and in order.
LEMMA ChainRises ==
  ASSUME SharedNode, NEW h \in DOMAIN chain
  PROVE  /\ h \in Nat /\ chain[h] \in BlockHashes /\ HeightOf(chain[h]) = h
         /\ \A g \in 1..(h - 1) : chain[g] < chain[h]
BY BlocksRise DEF SharedNode

\* Known blocks are numbered, and there are no more of them than the bound.
LEMMA HashesAreNumbers ==
  ASSUME SharedNode
  PROVE  /\ BlockHashes = 1..Len(blocks) /\ Len(blocks) \in Nat
         /\ BlockHashes \subseteq 1..MaxBlocks /\ BlockHashes \subseteq Nat
         /\ \A b \in BlockHashes : HeightOf(b) \in Nat /\ HeightOf(b) >= 1
<1>1. blocks \in Seq(Block)
  BY DEF SharedNode, NodeInv, NodeTypeOK
<1>2. BlockHashes = 1..Len(blocks) /\ Len(blocks) \in Nat
  BY <1>1 DEF BlockHashes
<1>3. \A b \in BlockHashes : HeightOf(b) \in Nat /\ HeightOf(b) >= 1
  BY DEF SharedNode, NodeInv, BranchesEnd, HeightOf
<1> QED
  BY <1>2, <1>3, NodeAssumption DEF SharedNode

\* The node starts so.
LEMMA SharedNodeStarts == NodeInit => SharedNode
<1> SUFFICES ASSUME NodeInit PROVE SharedNode
  OBVIOUS
<1>1. PICK w \in BlockWorks :
        blocks = [b \in DOMAIN History |->
                    [branch    |-> [h \in 1..b |-> h],
                     txs       |-> History[b],
                     chainwork |-> b * w]]
  BY DEF NodeInit
<1>2. Len(History) \in Nat /\ DOMAIN History = 1..Len(History)
  BY NodeAssumption
<1>3. BlockHashes = 1..Len(History)
  BY <1>1, <1>2 DEF BlockHashes
<1>4. ASSUME NEW b \in BlockHashes
      PROVE  blocks[b].branch = [h \in 1..b |-> h] /\ blocks[b].txs = History[b]
  BY <1>1, <1>2, <1>3
<1>5. CitesOlder
  BY <1>2, <1>3, <1>4, DriverTxAssumption DEF CitesOlder
<1>6. Len(blocks) <= MaxBlocks
  BY <1>1, <1>2, DriverTxAssumption
<1> QED
  BY <1>5, <1>6, NodeStarts, LedgerStarts, RiseStarts DEF SharedNode

\* A new block is known last, and cites what was known before it.
LEMMA GenerateMoves ==
  ASSUME SharedNode, NEW txids \in SUBSET TxIds, NEW work \in BlockWorks,
         Generate(txids, work)
  PROVE  SharedNode' /\ BlocksKept
<1>0. PICK next : next = Len(blocks) + 1
  OBVIOUS
<1>1. NodeInv' /\ BlocksKept /\ ChainKept /\ LedgerInv'
  BY GenerateKeeps, GenerateSettles DEF SharedNode
<1>2. /\ blocks \in Seq(Block) /\ Len(blocks) \in Nat /\ BlockHashes = 1..Len(blocks)
      /\ chain \in Seq(BlockHashes) /\ Len(chain) \in Nat
  BY HashesAreNumbers, ChainEnd DEF SharedNode, NodeInv, NodeTypeOK
<1>3. /\ Len(blocks') = next /\ DOMAIN blocks' = 1..next /\ next \in Nat
      /\ blocks'[next] = [branch    |-> Append(chain, next),
                          txs       |-> txids,
                          chainwork |-> TotalWork(chain) + work]
  BY <1>0, <1>2, AppendProperties DEF Generate
<1>4. BlockHashes' = 1..next
  BY <1>3 DEF BlockHashes
<1>5. ASSUME NEW b \in BlockHashes
      PROVE  blocks'[b] = blocks[b]
  BY <1>1 DEF BlocksKept
<1>6. BranchesRise'
  BY GenerateRises DEF SharedNode
<1>7. CitesOlder'
  <2> SUFFICES ASSUME NEW b \in 1..next, NEW t \in blocks'[b].txs
               PROVE  Tx[t].cites \subseteq 1..(b - 1)
    BY <1>4 DEF CitesOlder
  <2>1. CASE b = next
    BY <1>0, <1>2, <1>3, <2>1 DEF Generate, Publishable
  <2>2. CASE b \in BlockHashes
    BY <1>5, <2>2 DEF SharedNode, CitesOlder
  <2> QED
    BY <1>0, <1>2, <2>1, <2>2
<1>8. Len(blocks') <= MaxBlocks
  BY <1>0, <1>2, <1>3, NodeAssumption DEF Generate
<1> QED
  BY <1>1, <1>6, <1>7, <1>8 DEF SharedNode

\* Nothing else touches the block index.
LEMMA SameBlocks ==
  ASSUME SharedNode, UNCHANGED blocks, NodeInv'
  PROVE  SharedNode' /\ BlocksKept
<1>1. LedgerInv'
  BY ReorganizeSettles DEF SharedNode
<1>2. BranchesRise' /\ CitesOlder' /\ Len(blocks') <= MaxBlocks /\ BlocksKept
  BY DEF SharedNode, BranchesRise, CitesOlder, BlocksKept, BlockHashes, HeightOf
<1> QED
  BY <1>1, <1>2 DEF SharedNode

\* The node is left alone, or only hears of a transaction.
LEMMA BroadcastMoves ==
  ASSUME SharedNode,
         UNCHANGED nodeVars \/ \E t \in TxIds : Broadcast(t)
  PROVE  SharedNode' /\ BlocksKept
<1>1. NodeInv' /\ blocks' = blocks /\ chain' = chain
  <2>1. CASE UNCHANGED nodeVars
    BY <2>1 DEF nodeVars, SharedNode, NodeInv, NodeTypeOK, BranchesEnd, ChainIsBranch,
                BlockHashes
  <2>2. CASE \E t \in TxIds : Broadcast(t)
    BY <2>2, BroadcastKeeps DEF SharedNode, Broadcast
  <2> QED
    BY <2>1, <2>2
<1> QED
  BY <1>1, SameBlocks

\* A reorganization changes the chain only.
LEMMA ReorganizeMoves ==
  ASSUME SharedNode, Reorganize
  PROVE  SharedNode' /\ BlocksKept
<1>1. NodeInv' /\ UNCHANGED blocks
  BY ReorganizeKeeps DEF SharedNode
<1> QED
  BY <1>1, SameBlocks
-----------------------------------------------------------------------------
(* What main knows at each of its places *)

ClaimRead ==
  got.claim_block \in BlockHashes /\ ClaimTxid \in blocks[got.claim_block].txs

ClaimHeightRead == got.claim_height = HeightOf(got.claim_block)

ChallengeRead ==
  got.challenge_block \in BlockHashes /\ HeightOf(got.challenge_block) = challenge_height

WorkFound ==
  /\ Solutions(got.claim_block, got.challenge_block) # {}
  /\ got.nonce = MinedNonce(got.claim_block, got.challenge_block)

MintRead ==
  got.mint_block \in BlockHashes /\ Mint_txid \in blocks[got.mint_block].txs

MintHeightRead == got.mint_height = HeightOf(got.mint_block)

\* The places of main after each of the six reads.
HasMintHeight == {"mint_proof", "write", "verify"}
HasMint == {"mint_header"} \cup HasMintHeight
HasWork == {"accept", "mint", "mint_tx"} \cup HasMint
HasChallenge == {"work"} \cup HasWork
HasClaimHeight == {"claim_proof", "count", "challenge"} \cup HasChallenge
HasClaim == {"claim_header"} \cup HasClaimHeight

Known(place) ==
  /\ place \in HasClaim       => ClaimRead
  /\ place \in HasClaimHeight => ClaimHeightRead
  /\ place \in HasChallenge   => ChallengeRead
  /\ place \in HasWork        => WorkFound
  /\ place \in HasMint        => MintRead
  /\ place \in HasMintHeight  => MintHeightRead

\* mine_blocks returns to where main goes on.
Place == IF at = "mine" THEN then ELSE at

\* The bundle on disk says what was read, and nothing is read after it.
FileInv ==
  file => at \in {"verify", "end"} /\ bundle = Bundle /\ Known("verify")

DriverTypes ==
  /\ at \in Places /\ then \in Places
  /\ toMine \in Nat
  /\ wallet \in {"absent", "unloaded", "loaded"}
  /\ funded \in BOOLEAN
  /\ got \in [DOMAIN NothingRead -> Nat]
  /\ file \in BOOLEAN
  /\ exitCode \in {-1, 0, 1, 2}
  /\ others \in 0..MaxOthers

DriverInv == SharedNode /\ DriverTypes /\ Known(Place) /\ FileInv

\* The main that has read something goes no further than that.
NoFurther ==
  /\ Place' \in HasClaim       => Place \in HasClaim
  /\ Place' \in HasClaimHeight => Place \in HasClaimHeight
  /\ Place' \in HasChallenge   => Place \in HasChallenge
  /\ Place' \in HasWork        => Place \in HasWork
  /\ Place' \in HasMint        => Place \in HasMint
  /\ Place' \in HasMintHeight  => Place \in HasMintHeight

\* A block that was read is known for good, with its height and its transactions,
\* on the chain or off it.
LEMMA BlockStays ==
  ASSUME BlocksKept, NEW b \in BlockHashes
  PROVE  b \in BlockHashes' /\ HeightOf(b)' = HeightOf(b) /\ blocks'[b] = blocks[b]
BY DEF BlocksKept, HeightOf

\* What main has read stays true, whatever the node does.
LEMMA FactsStay ==
  ASSUME SharedNode, BlocksKept, UNCHANGED got
  PROVE  /\ ClaimRead => ClaimRead'
         /\ ClaimRead /\ ClaimHeightRead => ClaimHeightRead'
         /\ ChallengeRead => ChallengeRead'
         /\ WorkFound => WorkFound'
         /\ MintRead => MintRead'
         /\ MintRead /\ MintHeightRead => MintHeightRead'
<1>1. ASSUME NEW b, b \in BlockHashes
      PROVE  b \in BlockHashes' /\ HeightOf(b)' = HeightOf(b) /\ blocks'[b] = blocks[b]
  BY <1>1, BlockStays
<1>2. PICK g : g = got
  OBVIOUS
<1>3. BlockHashes \subseteq BlockHashes'
  BY <1>1
<1>4. got' = g
  BY <1>2
<1>5. ClaimRead => ClaimRead'
  BY <1>1, <1>2, <1>3, <1>4 DEF ClaimRead
<1>6. ClaimRead /\ ClaimHeightRead => ClaimHeightRead'
  BY <1>1, <1>2, <1>4 DEF ClaimRead, ClaimHeightRead
<1>7. ChallengeRead => ChallengeRead'
  BY <1>1, <1>2, <1>3, <1>4 DEF ChallengeRead, challenge_height
<1>8. WorkFound => WorkFound'
  BY DEF WorkFound
<1>9. MintRead => MintRead'
  BY <1>1, <1>2, <1>3, <1>4 DEF MintRead, Mint_txid
<1>10. MintRead /\ MintHeightRead => MintHeightRead'
  BY <1>1, <1>2, <1>4 DEF MintRead, MintHeightRead
<1> QED
  BY <1>5, <1>6, <1>7, <1>8, <1>9, <1>10

\* A step that reads nothing keeps what is known.
LEMMA KnownStays ==
  ASSUME DriverInv, BlocksKept, UNCHANGED got, NoFurther, ~file'
  PROVE  Known(Place)' /\ FileInv'
<1>1. FileInv'
  BY DEF FileInv
<1> QED
  BY <1>1, FactsStay DEF DriverInv, Known, NoFurther, HasClaim, HasClaimHeight,
     HasChallenge, HasWork, HasMint

\* The mint that main has computed is one it may publish.
LEMMA MintIsKnown ==
  ASSUME DriverInv, at = "mint" \/ file
  PROVE  Mint_txid \in TxIds /\ Tx[Mint_txid] = MintTx(got.claim_block, got.challenge_block)
<1>1. ClaimRead /\ ChallengeRead /\ WorkFound
  BY DEF DriverInv, FileInv, Known, Place, HasClaim, HasClaimHeight, HasChallenge, HasWork,
         HasMint, HasMintHeight
<1>2. got.claim_block \in 1..MaxBlocks /\ got.challenge_block \in 1..MaxBlocks
  BY <1>1, HashesAreNumbers DEF DriverInv, ClaimRead, ChallengeRead
<1> QED
  BY <1>1, <1>2, DriverTxAssumption DEF WorkFound, Mint_txid

-----------------------------------------------------------------------------
(* The steps of main *)

Quiet ==
  \/ CheckNetwork \/ EnsureWallet \/ CheckBalance \/ ReadClaimProof \/ WaitForChallenge
  \/ TestAccept \/ ReadMintProof

\* Steps that neither read a local nor touch the node.
LEMMA QuietKeeps ==
  ASSUME DriverInv, Quiet, UNCHANGED <<verifierVars, bundle, disturbed, others>>
  PROVE  DriverInv'
<1>1. UNCHANGED <<nodeVars, got, file, others>>
  BY DEF Quiet, CheckNetwork, EnsureWallet, CheckBalance, ReadClaimProof, WaitForChallenge,
         TestAccept, ReadMintProof, NodeUntouched
<1>2. SharedNode' /\ BlocksKept
  BY <1>1, BroadcastMoves DEF DriverInv
<1>3. ~file /\ at # "mine" /\ at \notin {"verify", "end"}
  BY DEF DriverInv, FileInv, Quiet, CheckNetwork, EnsureWallet, CheckBalance,
         ReadClaimProof, WaitForChallenge, TestAccept, ReadMintProof
<1>4. NoFurther
  BY <1>3 DEF Quiet, CheckNetwork, EnsureWallet, CheckBalance, ReadClaimProof,
         WaitForChallenge, TestAccept, ReadMintProof, Continue, Exit, MineBlocks, NoFurther,
         Place, HasClaim, HasClaimHeight, HasChallenge, HasWork, HasMint, HasMintHeight
<1>5. Known(Place)' /\ FileInv'
  BY <1>1, <1>2, <1>3, <1>4, KnownStays
<1>6. DriverTypes'
  <2>1. /\ demo.challenge_delay \in Nat /\ demo.minimum_burial_blocks \in Nat
        /\ FundingBlocks \in Nat
    BY DriverAssumption, ProfilesAssumption DEF demo, Profile
  <2>2. Len(chain) \in Nat /\ got.claim_height \in Nat
    BY ChainEnd DEF DriverInv, SharedNode, DriverTypes, NothingRead
  <2>3. at' \in Places /\ then' \in Places /\ exitCode' \in {-1, 0, 1, 2}
    BY DEF Quiet, CheckNetwork, EnsureWallet, CheckBalance, ReadClaimProof,
         WaitForChallenge, TestAccept, ReadMintProof, Continue, Exit, MineBlocks, Places,
         DriverInv, DriverTypes
  <2>4. toMine' \in Nat
    BY <2>1, <2>2 DEF Quiet, CheckNetwork, EnsureWallet, CheckBalance, ReadClaimProof,
         WaitForChallenge, TestAccept, ReadMintProof, Continue, Exit, MineBlocks,
         DriverInv, DriverTypes, challenge_height
  <2>5. wallet' \in {"absent", "unloaded", "loaded"} /\ funded' \in BOOLEAN
    BY DEF Quiet, CheckNetwork, EnsureWallet, CheckBalance, ReadClaimProof,
         WaitForChallenge, TestAccept, ReadMintProof, DriverInv, DriverTypes
  <2> QED
    BY <1>1, <2>3, <2>4, <2>5 DEF DriverInv, DriverTypes
<1> QED
  BY <1>2, <1>5, <1>6 DEF DriverInv

\* mine_blocks mines what the mempool holds, and then returns.
LEMMA MineBlockKeeps ==
  ASSUME DriverInv, MineBlock, UNCHANGED <<verifierVars, bundle, disturbed, others>>
  PROVE  DriverInv'
<1>1. /\ at = "mine" /\ UNCHANGED <<then, exitCode, wallet, funded, got, file, others>>
      /\ \/ /\ toMine > 0 /\ at' = at /\ toMine' = toMine - 1
            /\ \E work \in BlockWorks : Generate(mempool, work)
         \/ at' = then /\ toMine' = toMine /\ UNCHANGED nodeVars
  BY DEF MineBlock, Continue, NodeUntouched
<1>2. SharedNode' /\ BlocksKept
  <2>1. mempool \in SUBSET TxIds
    BY DEF DriverInv, SharedNode, NodeInv, NodeTypeOK
  <2> QED
    BY <1>1, <2>1, GenerateMoves, BroadcastMoves DEF DriverInv
<1>3. ~file
  BY <1>1 DEF DriverInv, FileInv
<1>4. NoFurther
  BY <1>1 DEF NoFurther, Place
<1>5. Known(Place)' /\ FileInv'
  BY <1>1, <1>2, <1>3, <1>4, KnownStays
<1>6. DriverTypes'
  BY <1>1 DEF DriverInv, DriverTypes
<1> QED
  BY <1>2, <1>5, <1>6 DEF DriverInv

\* sendrawtransaction, of the claim or of the mint.
LEMMA SendKeeps ==
  ASSUME DriverInv, SendClaim \/ SendMint,
         UNCHANGED <<verifierVars, bundle, disturbed, others>>
  PROVE  DriverInv'
<1>1. /\ at = "claim" \/ at = "mint"
      /\ \/ at' = "end" /\ then' = then
         \/ at' = "mine" /\ at = "claim" /\ then' = "claim_tx"
         \/ at' = "mine" /\ at = "mint" /\ then' = "mint_tx"
      /\ UNCHANGED <<wallet, funded, got, file, others>>
      /\ toMine' \in {1, toMine} /\ exitCode' \in {2, exitCode}
  BY DEF SendClaim, SendMint, SendAndMine, MineBlocks, Exit
<1>2. SharedNode' /\ BlocksKept
  <2>1. UNCHANGED nodeVars \/ \E t \in TxIds : Broadcast(t)
    BY MintIsKnown, DriverTxAssumption DEF SendClaim, SendMint, SendAndMine, NodeUntouched
  <2> QED
    BY <1>1, <2>1, BroadcastMoves DEF DriverInv
<1>3. ~file
  BY <1>1 DEF DriverInv, FileInv
<1>4. NoFurther
  BY <1>1 DEF NoFurther, Place, HasClaim, HasClaimHeight, HasChallenge, HasWork, HasMint,
              HasMintHeight
<1>5. Known(Place)' /\ FileInv'
  BY <1>1, <1>2, <1>3, <1>4, KnownStays
<1>6. DriverTypes'
  BY <1>1 DEF DriverInv, DriverTypes, Places
<1> QED
  BY <1>2, <1>5, <1>6 DEF DriverInv

\* The confirmation that gettransaction reports is on the chain now.
LEMMA ReadConfirmationKeeps ==
  ASSUME DriverInv, ReadClaimBlock \/ ReadMintBlock,
         UNCHANGED <<verifierVars, bundle, disturbed, others>>
  PROVE  DriverInv'
<1>1. /\ UNCHANGED <<nodeVars, then, toMine, wallet, funded, file, others>>
      /\ \/ at = "claim_tx" /\ (at' = "end" \/ at' = "claim_header")
         \/ at = "mint_tx" /\ (at' = "end" \/ at' = "mint_header")
      /\ exitCode' \in {1, exitCode}
  BY DEF ReadClaimBlock, ReadMintBlock, ReadConfirmation, Continue, Exit, NodeUntouched
<1>2. SharedNode' /\ BlocksKept
  BY <1>1, BroadcastMoves DEF DriverInv
<1>3. ~file /\ FileInv'
  BY <1>1 DEF DriverInv, FileInv
<1>4. CASE at' = "end"
  <2>1. got' = got
    BY <1>4 DEF ReadClaimBlock, ReadMintBlock, ReadConfirmation, Continue
  <2>2. NoFurther
    BY <1>4 DEF NoFurther, Place, HasClaim, HasClaimHeight, HasChallenge, HasWork, HasMint,
                HasMintHeight
  <2>3. DriverTypes'
    BY <1>1, <1>4, <2>1 DEF DriverInv, DriverTypes, Places
  <2> QED
    BY <1>1, <1>2, <1>3, <2>1, <2>2, <2>3, KnownStays DEF DriverInv
<1>5. CASE at' = "claim_header"
  <2>1. PICK h \in DOMAIN chain : /\ ClaimTxid \in blocks[chain[h]].txs
                                 /\ got' = [got EXCEPT !.claim_block = chain[h]]
    BY <1>1, <1>5 DEF ReadClaimBlock, ReadMintBlock, ReadConfirmation, Exit, Continue
  <2>2. got'.claim_block = chain[h] /\ chain[h] \in BlockHashes /\ chain[h] \in Nat
    BY <2>1, ChainRises, HashesAreNumbers DEF DriverInv, DriverTypes, NothingRead
  <2>3. ClaimRead'
    <3>1. chain[h] \in BlockHashes
      BY ChainRises DEF DriverInv
    <3>2. chain' = chain /\ blocks' = blocks
      BY <1>1 DEF nodeVars
    <3> QED
      BY <2>1, <2>2, <3>1, <3>2 DEF ClaimRead, HeightOf, BlockHashes
  <2>4. Known(Place)'
    BY <1>5, <2>3 DEF Known, Place, HasClaim, HasClaimHeight, HasChallenge, HasWork,
                      HasMint, HasMintHeight
  <2>5. DriverTypes'
    BY <1>1, <1>5, <2>1, <2>2 DEF DriverInv, DriverTypes, Places, NothingRead
  <2> QED
    BY <1>2, <1>3, <2>4, <2>5 DEF DriverInv
<1>6. CASE at' = "mint_header"
  <2>1. PICK h \in DOMAIN chain : /\ Mint_txid \in blocks[chain[h]].txs
                                 /\ got' = [got EXCEPT !.mint_block = chain[h]]
    BY <1>1, <1>6 DEF ReadClaimBlock, ReadMintBlock, ReadConfirmation, Exit, Continue
  <2>2. /\ got'.mint_block = chain[h] /\ chain[h] \in BlockHashes /\ chain[h] \in Nat
        /\ got'.claim_block = got.claim_block /\ got'.claim_height = got.claim_height
        /\ got'.challenge_block = got.challenge_block /\ got'.nonce = got.nonce
    BY <2>1, ChainRises, HashesAreNumbers DEF DriverInv, DriverTypes, NothingRead
  <2>3. chain' = chain /\ blocks' = blocks
    BY <1>1 DEF nodeVars
  <2>4. MintRead'
    <3>1. chain[h] \in BlockHashes
      BY ChainRises DEF DriverInv
    <3> QED
      BY <2>1, <2>2, <2>3, <3>1 DEF MintRead, Mint_txid, HeightOf, BlockHashes
  <2>5. ClaimRead /\ ClaimHeightRead /\ ChallengeRead /\ WorkFound
    BY <1>1, <1>6 DEF DriverInv, Known, Place, HasClaim, HasClaimHeight, HasChallenge,
                      HasWork
  <2>6. ClaimRead' /\ ClaimHeightRead' /\ ChallengeRead' /\ WorkFound'
    BY <2>2, <2>3, <2>5 DEF ClaimRead, ClaimHeightRead, ChallengeRead, WorkFound,
                            HeightOf, BlockHashes, challenge_height
  <2>7. Known(Place)'
    BY <1>6, <2>4, <2>6 DEF Known, Place, HasMintHeight
  <2>8. DriverTypes'
    BY <1>1, <1>6, <2>1, <2>2 DEF DriverInv, DriverTypes, Places, NothingRead
  <2> QED
    BY <1>2, <1>3, <2>7, <2>8 DEF DriverInv
<1> QED
  BY <1>1, <1>4, <1>5, <1>6

\* getblockheader gives the height of the block that was read.
LEMMA ReadHeightKeeps ==
  ASSUME DriverInv, ReadClaimHeight \/ ReadMintHeight,
         UNCHANGED <<verifierVars, bundle, disturbed, others>>
  PROVE  DriverInv'
<1>1. /\ UNCHANGED <<nodeVars, then, toMine, wallet, funded, file, exitCode, others>>
      /\ \/ at = "claim_header" /\ at' = "claim_proof"
         \/ at = "mint_header" /\ at' = "mint_proof"
  BY DEF ReadClaimHeight, ReadMintHeight, ReadHeight, Continue, NodeUntouched
<1>2. SharedNode' /\ BlocksKept
  BY <1>1, BroadcastMoves DEF DriverInv
<1>3. FileInv'
  BY <1>1 DEF DriverInv, FileInv
<1>4. chain' = chain /\ blocks' = blocks
  BY <1>1 DEF nodeVars
<1>5. CASE at = "claim_header"
  <2>1. got' = [got EXCEPT !.claim_height = HeightOf(got.claim_block)]
    BY <1>5 DEF ReadClaimHeight, ReadMintHeight, ReadHeight, Header, HeightOf
  <2>2. ClaimRead
    BY <1>5 DEF DriverInv, Known, Place, HasClaim
  <2>3. HeightOf(got.claim_block) \in Nat
    BY <2>2, HashesAreNumbers DEF DriverInv, ClaimRead
  <2>4. /\ got'.claim_height = HeightOf(got.claim_block)
        /\ got'.claim_block = got.claim_block
    BY <2>1 DEF DriverInv, DriverTypes, NothingRead
  <2>5. ClaimRead' /\ ClaimHeightRead'
    BY <1>4, <2>2, <2>4 DEF ClaimRead, ClaimHeightRead, HeightOf, BlockHashes
  <2>6. Known(Place)'
    BY <1>1, <1>5, <2>5 DEF Known, Place, HasClaim, HasClaimHeight, HasChallenge, HasWork,
                            HasMint, HasMintHeight
  <2>7. DriverTypes'
    BY <1>1, <1>5, <2>1, <2>3 DEF DriverInv, DriverTypes, Places, NothingRead
  <2> QED
    BY <1>2, <1>3, <2>6, <2>7 DEF DriverInv
<1>6. CASE at = "mint_header"
  <2>1. got' = [got EXCEPT !.mint_height = HeightOf(got.mint_block)]
    BY <1>6 DEF ReadClaimHeight, ReadMintHeight, ReadHeight, Header, HeightOf
  <2>2. ClaimRead /\ ClaimHeightRead /\ ChallengeRead /\ WorkFound /\ MintRead
    BY <1>6 DEF DriverInv, Known, Place, HasClaim, HasClaimHeight, HasChallenge, HasWork,
                HasMint
  <2>3. HeightOf(got.mint_block) \in Nat
    BY <2>2, HashesAreNumbers DEF DriverInv, MintRead
  <2>4. /\ got'.mint_height = HeightOf(got.mint_block) /\ got'.mint_block = got.mint_block
        /\ got'.claim_block = got.claim_block /\ got'.claim_height = got.claim_height
        /\ got'.challenge_block = got.challenge_block /\ got'.nonce = got.nonce
    BY <2>1 DEF DriverInv, DriverTypes, NothingRead
  <2>5. /\ ClaimRead' /\ ClaimHeightRead' /\ ChallengeRead' /\ WorkFound' /\ MintRead'
        /\ MintHeightRead'
    BY <1>4, <2>2, <2>4
       DEF ClaimRead, ClaimHeightRead, ChallengeRead, WorkFound, MintRead, MintHeightRead,
           Mint_txid, challenge_height, HeightOf, BlockHashes
  <2>6. Known(Place)'
    BY <2>5 DEF Known
  <2>7. DriverTypes'
    BY <1>1, <1>6, <2>1, <2>3 DEF DriverInv, DriverTypes, Places, NothingRead
  <2> QED
    BY <1>2, <1>3, <2>6, <2>7 DEF DriverInv
<1> QED
  BY <1>1, <1>5, <1>6

\* getblockhash of the challenge height, or there is no such block.
LEMMA ReadChallengeKeeps ==
  ASSUME DriverInv, ReadChallenge, UNCHANGED <<verifierVars, bundle, disturbed, others>>
  PROVE  DriverInv'
<1>1. /\ UNCHANGED <<nodeVars, then, toMine, wallet, funded, file, others>>
      /\ at = "challenge" /\ exitCode' \in {2, exitCode}
      /\ \/ at' = "end" /\ got' = got
         \/ /\ at' = "work" /\ challenge_height \in DOMAIN chain
            /\ got' = [got EXCEPT !.challenge_block = chain[challenge_height]]
  BY DEF ReadChallenge, Continue, Exit, NodeUntouched
<1>2. SharedNode' /\ BlocksKept
  BY <1>1, BroadcastMoves DEF DriverInv
<1>3. ~file /\ FileInv'
  BY <1>1 DEF DriverInv, FileInv
<1>4. CASE at' = "end"
  <2>1. Known(Place)'
    BY <1>4 DEF Known, Place, HasClaim, HasClaimHeight, HasChallenge, HasWork, HasMint,
                HasMintHeight
  <2>2. DriverTypes'
    BY <1>1, <1>4 DEF DriverInv, DriverTypes, Places
  <2> QED
    BY <1>2, <1>3, <2>1, <2>2 DEF DriverInv
<1>5. CASE at' = "work"
  <2> DEFINE h == challenge_height
  <2>1. h \in DOMAIN chain /\ got' = [got EXCEPT !.challenge_block = chain[h]]
    BY <1>1, <1>5
  <2>2. /\ chain[h] \in Nat /\ chain[h] \in BlockHashes /\ HeightOf(chain[h]) = h
    BY <2>1, ChainRises, HashesAreNumbers DEF DriverInv
  <2>3. /\ got'.challenge_block = chain[h]
        /\ got'.claim_block = got.claim_block /\ got'.claim_height = got.claim_height
    BY <2>1 DEF DriverInv, DriverTypes, NothingRead
  <2>4. ClaimRead /\ ClaimHeightRead
    BY <1>1 DEF DriverInv, Known, Place, HasClaim, HasClaimHeight
  <2>5. chain' = chain /\ blocks' = blocks
    BY <1>1 DEF nodeVars
  <2>6. ClaimRead' /\ ClaimHeightRead'
    BY <2>3, <2>4, <2>5 DEF ClaimRead, ClaimHeightRead, HeightOf, BlockHashes
  <2>7. ChallengeRead'
    BY <2>2, <2>3, <2>5 DEF ChallengeRead, challenge_height, HeightOf, BlockHashes
  <2>8. Known(Place)'
    BY <1>5, <2>6, <2>7 DEF Known, Place, HasWork, HasMint, HasMintHeight
  <2>9. DriverTypes'
    BY <1>1, <1>5, <2>1, <2>2 DEF DriverInv, DriverTypes, Places, NothingRead
  <2> QED
    BY <1>2, <1>3, <2>8, <2>9 DEF DriverInv
<1> QED
  BY <1>1, <1>4, <1>5

\* mine_work returns the first nonce that solves, and there is one.
LEMMA FirstSolution ==
  ASSUME NEW c, NEW d, Solutions(c, d) # {}
  PROVE  MinedNonce(c, d) \in Solutions(c, d) /\ MinedNonce(c, d) \in Nat
<1>1. Solutions(c, d) \in SUBSET Nat
  BY DriverAssumption DEF Solutions
<1>2. \E n \in Solutions(c, d) : \A m \in Solutions(c, d) : n <= m
  BY <1>1, LeastOf
<1>3. MinedNonce(c, d) \in Solutions(c, d)
  BY <1>2 DEF MinedNonce
<1> QED
  BY <1>1, <1>3

\* The search ends with that nonce, or main gives up.
LEMMA SearchKeeps ==
  ASSUME DriverInv, SearchWork, UNCHANGED <<verifierVars, bundle, disturbed, others>>
  PROVE  DriverInv'
<1>1. /\ UNCHANGED <<nodeVars, then, toMine, wallet, funded, file, others>>
      /\ at = "work" /\ exitCode' \in {2, exitCode}
      /\ \/ at' = "end" /\ got' = got
         \/ /\ at' = "accept" /\ Solutions(got.claim_block, got.challenge_block) # {}
            /\ got' = [got EXCEPT !.nonce = MinedNonce(got.claim_block, got.challenge_block)]
  BY DEF SearchWork, Continue, Exit, NodeUntouched
<1>2. SharedNode' /\ BlocksKept
  BY <1>1, BroadcastMoves DEF DriverInv
<1>3. ~file /\ FileInv'
  BY <1>1 DEF DriverInv, FileInv
<1>4. CASE at' = "end"
  <2>1. Known(Place)'
    BY <1>4 DEF Known, Place, HasClaim, HasClaimHeight, HasChallenge, HasWork, HasMint,
                HasMintHeight
  <2>2. DriverTypes'
    BY <1>1, <1>4 DEF DriverInv, DriverTypes, Places
  <2> QED
    BY <1>2, <1>3, <2>1, <2>2 DEF DriverInv
<1>5. CASE at' = "accept"
  <2> DEFINE n == MinedNonce(got.claim_block, got.challenge_block)
  <2>1. /\ Solutions(got.claim_block, got.challenge_block) # {}
        /\ got' = [got EXCEPT !.nonce = n]
    BY <1>1, <1>5
  <2>2. n \in Nat
    BY <2>1, FirstSolution
  <2> HIDE DEF n
  <2>3. /\ got'.nonce = n /\ got'.challenge_block = got.challenge_block
        /\ got'.claim_block = got.claim_block /\ got'.claim_height = got.claim_height
    BY <2>1 DEF DriverInv, DriverTypes, NothingRead
  <2>4. ClaimRead /\ ClaimHeightRead /\ ChallengeRead
    BY <1>1 DEF DriverInv, Known, Place, HasClaim, HasClaimHeight, HasChallenge
  <2>5. chain' = chain /\ blocks' = blocks
    BY <1>1 DEF nodeVars
  <2>6. ClaimRead' /\ ClaimHeightRead' /\ ChallengeRead'
    BY <2>3, <2>4, <2>5
       DEF ClaimRead, ClaimHeightRead, ChallengeRead, challenge_height,
                            HeightOf, BlockHashes
  <2>7. WorkFound'
    BY <2>1, <2>3 DEF WorkFound, n
  <2>8. Known(Place)'
    BY <1>5, <2>6, <2>7 DEF Known, Place, HasMint, HasMintHeight
  <2>9. DriverTypes'
    BY <1>1, <1>5, <2>1, <2>2 DEF DriverInv, DriverTypes, Places, NothingRead
  <2> QED
    BY <1>2, <1>3, <2>8, <2>9 DEF DriverInv
<1> QED
  BY <1>1, <1>4, <1>5

\* Every step of main up to the bundle.
LEMMA MakeKeeps ==
  ASSUME DriverInv, Make
  PROVE  DriverInv'
BY QuietKeeps, MineBlockKeeps, SendKeeps, ReadConfirmationKeeps, ReadHeightKeeps,
   ReadChallengeKeeps, SearchKeeps DEF Make, Quiet
-----------------------------------------------------------------------------
(* The other steps *)

\* Whoever moves, a main that stays where it is, or ends, keeps what it knows.
LEMMA StandingKeeps ==
  ASSUME DriverInv, SharedNode', BlocksKept, UNCHANGED <<got, file, bundle, then, toMine>>,
         UNCHANGED <<wallet, funded>>,
         at' = at \/ at' = "end", exitCode' \in {exitCode, 0, 1, 2}, others' \in 0..MaxOthers
  PROVE  DriverInv'
<1>1. DriverTypes'
  BY DEF DriverInv, DriverTypes, Places
<1>2. Known(Place)'
  BY FactsStay DEF DriverInv, Known, Place, HasClaim, HasClaimHeight, HasChallenge, HasWork,
                   HasMint, HasMintHeight
<1>3. ASSUME file
      PROVE  at' \in {"verify", "end"} /\ bundle' = Bundle' /\ Known("verify")'
  <2>1. at \in {"verify", "end"} /\ bundle = Bundle /\ Known("verify")
    BY <1>3 DEF DriverInv, FileInv
  <2>2. Bundle' = Bundle
    BY DEF Bundle, challenge_height
  <2>3. Known("verify")'
    BY <2>1, FactsStay
       DEF DriverInv, Known, HasClaim, HasClaimHeight, HasChallenge, HasWork, 
                           HasMint, HasMintHeight
  <2> QED
    BY <2>1, <2>2, <2>3
<1> QED
  BY <1>1, <1>2, <1>3 DEF DriverInv, FileInv

\* The bundle on disk is what was read.
LEMMA WriteKeeps ==
  ASSUME DriverInv, WriteBundle
  PROVE  DriverInv'
<1>1. /\ at = "write" /\ at' = "verify" /\ bundle' = Bundle /\ file' = TRUE
      /\ UNCHANGED <<nodeVars, then, toMine, wallet, funded, got, exitCode, others>>
  BY DEF WriteBundle, Continue
<1>2. SharedNode' /\ BlocksKept
  BY <1>1, BroadcastMoves DEF DriverInv
<1>3. Known("verify")'
  BY <1>1, <1>2, FactsStay
     DEF DriverInv, Known, Place, HasClaim, HasClaimHeight, HasChallenge, 
                               HasWork, HasMint, HasMintHeight
<1>4. Bundle' = Bundle
  BY <1>1 DEF Bundle, challenge_height
<1>5. DriverTypes'
  BY <1>1 DEF DriverInv, DriverTypes, Places
<1> QED
  BY <1>1, <1>2, <1>3, <1>4, <1>5 DEF DriverInv, FileInv, Place

\* What was done, or lost on its way back, when a call of main fails.
LEMMA ReplyLostKeeps ==
  ASSUME DriverInv, ReplyLost
  PROVE  DriverInv'
<1>1. /\ UNCHANGED <<got, file, bundle, then, toMine, wallet, funded, others>>
      /\ at' = "end" /\ exitCode' \in {1, 2}
  BY DEF ReplyLost, Exit
<1>2. /\ mempool \in SUBSET TxIds
      /\ at = "mint" => Mint_txid \in TxIds
      /\ ClaimTxid \in TxIds
  BY MintIsKnown, DriverTxAssumption DEF DriverInv, SharedNode, NodeInv, NodeTypeOK
<1>3. SharedNode' /\ BlocksKept
  BY <1>1, <1>2, GenerateMoves, BroadcastMoves DEF ReplyLost, DriverInv
<1>4. others' \in 0..MaxOthers
  BY <1>1 DEF DriverInv, DriverTypes
<1> QED
  BY <1>1, <1>3, <1>4, StandingKeeps

\* Other miners take what they like from the mempool.
LEMMA OthersMineKeeps ==
  ASSUME DriverInv, OthersMine
  PROVE  DriverInv'
<1>1. UNCHANGED <<got, file, bundle, then, toMine, wallet, funded, at, exitCode>>
  BY DEF OthersMine, driverVars
<1>2. PICK txids \in SUBSET mempool, work \in BlockWorks : Generate(txids, work)
  BY DEF OthersMine
<1>3. txids \in SUBSET TxIds
  BY <1>2 DEF DriverInv, SharedNode, NodeInv, NodeTypeOK
<1>4. SharedNode' /\ BlocksKept
  BY <1>1, <1>2, <1>3, GenerateMoves DEF DriverInv
<1>5. others' \in 0..MaxOthers
  BY DriverAssumption DEF OthersMine, DriverInv, DriverTypes
<1> QED
  BY <1>1, <1>4, <1>5, StandingKeeps

\* A step of the final assay, its end, or a call that fails.
LEMMA EndKeeps ==
  ASSUME DriverInv, Verify \/ Report \/ CallFails
  PROVE  DriverInv'
<1>1. /\ UNCHANGED <<nodeVars, got, file, bundle, then, toMine, wallet, funded, others>>
      /\ at' = at \/ at' = "end"
      /\ exitCode' \in {exitCode, 0, 1, 2}
  <2>1. CASE Verify
    BY <2>1 DEF Verify, Call, driverVars
  <2>2. CASE Report
    BY <2>2 DEF Report, Exit, vars
  <2>3. CASE CallFails
    BY <2>3 DEF CallFails, Exit, vars
  <2> QED
    BY <2>1, <2>2, <2>3
<1>2. SharedNode' /\ BlocksKept
  BY <1>1, BroadcastMoves DEF DriverInv
<1>3. others' \in 0..MaxOthers
  BY <1>1 DEF DriverInv, DriverTypes
<1> QED
  BY <1>1, <1>2, <1>3, StandingKeeps

\* Every step of main, of other miners and of the node.
LEMMA DriverKept == DriverInv /\ [DriverNext]_allVars => DriverInv'
<1> SUFFICES ASSUME DriverInv, [DriverNext]_allVars PROVE DriverInv'
  OBVIOUS
<1>1. CASE Make
  BY <1>1, MakeKeeps
<1>2. CASE WriteBundle
  BY <1>2, WriteKeeps
<1>3. CASE Verify \/ Report \/ CallFails
  BY <1>3, EndKeeps
<1>4. CASE ReplyLost
  BY <1>4, ReplyLostKeeps
<1>5. CASE OthersMine
  BY <1>5, OthersMineKeeps
<1>6. CASE OthersReorganize
  <2>1. UNCHANGED <<got, file, bundle, then, toMine, wallet, funded, at, exitCode, others>>
    BY <1>6 DEF OthersReorganize, driverVars
  <2>2. SharedNode' /\ BlocksKept
    BY <1>6, ReorganizeMoves DEF OthersReorganize, DriverInv
  <2>3. others' \in 0..MaxOthers
    BY <2>1 DEF DriverInv, DriverTypes
  <2> QED
    BY <2>1, <2>2, <2>3, StandingKeeps
<1>7. CASE UNCHANGED allVars
  <2>1. /\ UNCHANGED <<got, file, bundle, then, toMine, wallet, funded, at, exitCode, others>>
        /\ UNCHANGED nodeVars
    BY <1>7 DEF allVars, vars, driverVars
  <2>2. SharedNode' /\ BlocksKept
    BY <2>1, BroadcastMoves DEF DriverInv
  <2>3. others' \in 0..MaxOthers
    BY <2>1 DEF DriverInv, DriverTypes
  <2> QED
    BY <2>1, <2>2, <2>3, StandingKeeps
<1> QED
  BY <1>1, <1>2, <1>3, <1>4, <1>5, <1>6, <1>7 DEF DriverNext, SharedNext, DriverStep

\* Main has read nothing at its start.
LEMMA DriverStarts == DriverInit => DriverInv
<1> SUFFICES ASSUME DriverInit PROVE DriverInv
  OBVIOUS
<1>1. SharedNode
  BY SharedNodeStarts DEF DriverInit
<1>2. Known(Place) /\ FileInv
  BY DEF DriverInit, Known, FileInv, Place, HasClaim, HasClaimHeight, HasChallenge, HasWork,
         HasMint, HasMintHeight
<1>3. DriverTypes
  <2>1. NothingRead \in [DOMAIN NothingRead -> Nat]
    BY DEF NothingRead
  <2>2. others \in 0..MaxOthers
    BY DriverAssumption DEF DriverInit
  <2> QED
    BY <2>1, <2>2 DEF DriverInit, DriverTypes, Places
<1> QED
  BY <1>1, <1>2, <1>3 DEF DriverInv

\* The invariant of the driver holds in every state.
LEMMA DriverInvariant == DriverSpec => []DriverInv
BY DriverStarts, DriverKept, PTL DEF DriverSpec

\* Type correctness: in particular the locals of main are numbers when they are
\* used, and mine_blocks is never asked for less than no block
\* (regtest_demo.py:76-235).
THEOREM DriverTypeCorrect == DriverSpec => []DriverTypeOK
<1>1. DriverInv => DriverTypeOK
  BY DEF DriverInv, SharedNode, NodeInv, DriverTypes, DriverTypeOK
<1> QED
  BY <1>1, DriverInvariant, PTL
-----------------------------------------------------------------------------
(* The bundle is honest *)

\* The outputs of the claim: a seal at 1, and one marker, of the claim's own digest.
LEMMA ClaimOutputs ==
  /\ Seals(ClaimTxid, 1, ClaimSeal)
  /\ {v \in Markers(ClaimTxid, "claim") :
        Tx[ClaimTxid].outputs[v].script = <<"claim", ClaimDigest>>} = {2}
<1> DEFINE outputs == Tx[ClaimTxid].outputs
<1>1. /\ DOMAIN outputs = {1, 2, 3}
      /\ outputs[1].script = <<"seal", "goldatom-claim">>
      /\ outputs[2].script = <<"claim", ClaimDigest>>
      /\ outputs[3].script = <<"seal", "change">>
  BY DriverTxAssumption DEF ClaimTx, ClaimSeal, marker_script
<1> HIDE DEF outputs
<1>2. Seals(ClaimTxid, 1, ClaimSeal)
  BY <1>1 DEF Seals, ClaimSeal, outputs
<1>3. Markers(ClaimTxid, "claim") = {2}
  BY <1>1 DEF Markers, outputs
<1> QED
  BY <1>1, <1>2, <1>3 DEF outputs

\* The outputs of a mint: a title at 1, and one marker, of the mint's own digest.
LEMMA MintOutputs ==
  ASSUME NEW c, NEW d, NEW txid, Tx[txid] = MintTx(c, d)
  PROVE  Seals(txid, 1, TitleSeal) /\ OnlyMarker(txid, "mint", MintDigest(c, d))
<1> DEFINE outputs == Tx[txid].outputs
<1>1. PICK digest : digest = MintDigest(c, d)
  OBVIOUS
<1>2. /\ DOMAIN outputs = {1, 2}
      /\ outputs[1].script = <<"seal", "goldatom-title">>
      /\ outputs[2].script = <<"mint", digest>>
  BY <1>1 DEF MintTx, TitleSeal, marker_script
<1> HIDE DEF outputs
<1>3. Seals(txid, 1, TitleSeal)
  BY <1>2 DEF Seals, TitleSeal, outputs
<1>4. Markers(txid, "mint") = {2}
  BY <1>2 DEF Markers, outputs
<1> QED
  BY <1>1, <1>2, <1>3, <1>4 DEF OnlyMarker, outputs

\* The digests of the bundle are those of its own fields.
LEMMA BundleDigests ==
  ASSUME NEW b, b = Bundle, got.nonce = MinedNonce(got.claim_block, got.challenge_block)
  PROVE  /\ ExpectedClaimCommitment(b) = ClaimDigest
         /\ ExpectedChallenge(b) = ChallengeDigest(got.claim_block, got.challenge_block)
         /\ ExpectedWorkHash(b) =
              WorkHash(got.claim_block, got.challenge_block, got.nonce)
         /\ ExpectedMintCommitment(b) = MintDigest(got.claim_block, got.challenge_block)
         /\ OwnDigests(b)
<1>1. /\ b.profile = DemoProfile
      /\ b.claim.outpoint = ClaimOutpoint /\ ClaimOutpoint[2] = 1
      /\ b.claim.block = got.claim_block /\ b.claim.seal_script = ClaimSeal
      /\ b.claim.algorithm = SHA256D /\ b.claim.target = demo.maximum_target
      /\ b.claim.commitment = ClaimDigest
      /\ b.work.challenge_block = got.challenge_block
      /\ b.work.extra_nonce = 0 /\ b.work.nonce = got.nonce
      /\ b.mint.title_vout = 1 /\ b.mint.title_script = TitleSeal
  BY DEF Bundle, ClaimOutpoint
<1>2. /\ b.work.challenge_digest = ChallengeDigest(got.claim_block, got.challenge_block)
      /\ b.work.work_hash = WorkHash(got.claim_block, got.challenge_block, got.nonce)
      /\ b.mint.commitment = MintDigest(got.claim_block, got.challenge_block)
      /\ Len(b.transfers) = 0
  BY DEF Bundle
<1>3. ExpectedClaimCommitment(b) = ClaimDigest
  BY <1>1 DEF ExpectedClaimCommitment, ClaimDigest
<1>4. ExpectedChallenge(b) = ChallengeDigest(got.claim_block, got.challenge_block)
  BY <1>1, <1>3 DEF ExpectedChallenge, ChallengeDigest
<1>5. ExpectedWorkHash(b) = WorkHash(got.claim_block, got.challenge_block, got.nonce)
  BY <1>1, <1>3, <1>4 DEF ExpectedWorkHash, WorkHash
<1>6. ExpectedMintCommitment(b) = MintDigest(got.claim_block, got.challenge_block)
  BY <1>1, <1>4, <1>5 DEF ExpectedMintCommitment, MintDigest
<1>7. \A k \in Stops(b) : k <= Mint
  BY <1>2 DEF Stops, Mint
<1> QED
  BY <1>1, <1>2, <1>3, <1>4, <1>5, <1>6, <1>7 DEF OwnDigests, Mint, Stops

\* The three blocks of the bundle, when they are on the chain, are there at its heights,
\* and the mint, which cites the challenge block, is above it.
LEMMA BlocksInPlace ==
  ASSUME DriverInv, file, BlocksOnChain
  PROVE  /\ ConfirmedAt(chain, ClaimTxid, got.claim_block, got.claim_height)
         /\ challenge_height \in DOMAIN chain
         /\ chain[challenge_height] = got.challenge_block
         /\ ConfirmedAt(chain, Mint_txid, got.mint_block, got.mint_height)
         /\ got.mint_height > challenge_height
<1>1. /\ bundle = Bundle /\ ClaimRead /\ ClaimHeightRead /\ ChallengeRead /\ MintRead
      /\ MintHeightRead
  BY DEF DriverInv, FileInv, Known, HasClaim, HasClaimHeight, HasChallenge, HasWork,
         HasMint, HasMintHeight
<1>2. /\ Len(bundle.transfers) = 0 /\ bundle.claim.block = got.claim_block
      /\ bundle.work.challenge_block = got.challenge_block
      /\ bundle.mint.block = got.mint_block
  BY <1>1 DEF Bundle
<1>3. /\ OnActiveChain(got.claim_block) /\ OnActiveChain(got.challenge_block)
      /\ OnActiveChain(got.mint_block)
  <2>1. Claim \in Stops(bundle) /\ Challenge \in Stops(bundle) /\ Mint \in Stops(bundle)
    BY <1>2 DEF Stops, Claim, Challenge, Mint
  <2>2. /\ StopBlock(bundle, Claim) = got.claim_block
        /\ StopBlock(bundle, Challenge) = got.challenge_block
        /\ StopBlock(bundle, Mint) = got.mint_block
    BY <1>2 DEF StopBlock, Claim, Challenge, Mint
  <2> QED
    BY <2>1, <2>2 DEF BlocksOnChain
<1>9. ASSUME NEW b, OnActiveChain(b)
      PROVE  HeightOf(b) \in DOMAIN chain /\ chain[HeightOf(b)] = b
  BY <1>9, ChainRises DEF OnActiveChain, DriverInv
<1>4. ConfirmedAt(chain, ClaimTxid, got.claim_block, got.claim_height)
  BY <1>1, <1>3, <1>9 DEF ClaimRead, ClaimHeightRead, ConfirmedAt
<1>5. challenge_height \in DOMAIN chain /\ chain[challenge_height] = got.challenge_block
  BY <1>1, <1>3, <1>9 DEF ChallengeRead
<1>6. ConfirmedAt(chain, Mint_txid, got.mint_block, got.mint_height)
  BY <1>1, <1>3, <1>9 DEF MintRead, MintHeightRead, ConfirmedAt
<1>7. got.challenge_block < got.mint_block
  <2>1. Tx[Mint_txid].cites = {got.claim_block, got.challenge_block}
    <3>1. Tx[Mint_txid] = MintTx(got.claim_block, got.challenge_block)
      BY MintIsKnown
    <3> QED
      BY <3>1 DEF MintTx
  <2>2. /\ got.mint_block \in BlockHashes /\ got.mint_block \in Nat
        /\ Mint_txid \in blocks[got.mint_block].txs
    BY <1>1, HashesAreNumbers DEF MintRead, DriverInv
  <2>3. got.challenge_block \in 1..(got.mint_block - 1)
    BY <2>1, <2>2 DEF DriverInv, SharedNode, CitesOlder
  <2> QED
    BY <2>2, <2>3
<1>8. got.mint_height > challenge_height
  <2>1. /\ got.mint_height \in DOMAIN chain /\ chain[got.mint_height] = got.mint_block
        /\ got.mint_height \in Nat /\ challenge_height \in Nat
        /\ got.mint_height >= 1
        /\ got.mint_block \in Nat /\ got.challenge_block \in Nat
    <3>1. chain \in Seq(BlockHashes) /\ got.mint_height \in DOMAIN chain
          /\ chain[got.mint_height] = got.mint_block
      BY <1>6, ChainEnd DEF ConfirmedAt, DriverInv, SharedNode
    <3>2. got.mint_block \in BlockHashes /\ got.challenge_block \in BlockHashes
      BY <1>1 DEF MintRead, ChallengeRead
    <3> QED
      BY <1>5, <3>1, <3>2, HashesAreNumbers DEF DriverInv
  <2>2. ASSUME got.mint_height < challenge_height
        PROVE  got.mint_block < got.challenge_block
    <3>1. got.mint_height \in 1..(challenge_height - 1)
      BY <2>1, <2>2
    <3>2. SharedNode
      BY DEF DriverInv
    <3>3. chain[got.mint_height] < chain[challenge_height]
      BY <1>5, <3>1, <3>2, ChainRises
    <3> QED
      BY <1>5, <2>1, <3>3
  <2>3. got.mint_height # challenge_height
    BY <1>5, <1>7, <2>1
  <2> QED
    BY <1>7, <2>1, <2>2, <2>3
<1> QED
  BY <1>4, <1>5, <1>6, <1>8

\* Only one transaction of the chain spends the claim: the mint.
LEMMA MintSpendsAlone ==
  ASSUME DriverInv, file, ConfirmedAt(chain, Mint_txid, got.mint_block, got.mint_height)
  PROVE  Spenders(chain, ClaimOutpoint) = {Mint_txid}
<1>1. Mint_txid \in Confirmed(chain) /\ ClaimOutpoint \in Tx[Mint_txid].inputs
  <2>1. Tx[Mint_txid] = MintTx(got.claim_block, got.challenge_block)
    BY MintIsKnown
  <2>2. Tx[Mint_txid].inputs = {ClaimOutpoint}
    BY <2>1 DEF MintTx
  <2>3. Mint_txid \in Confirmed(chain)
    BY DEF ConfirmedAt, Confirmed
  <2> QED
    BY <2>2, <2>3
<1>2. Settled(Confirmed(chain))
  BY ChainSettled DEF DriverInv, SharedNode
<1> QED
  BY <1>1, <1>2 DEF Spenders, Settled

\* Every record of a bundle that the driver writes is true of the chain, although the
\* records were read one by one among other miners and reorganizations, whenever the
\* three blocks it names are on the chain; only the mint may have come too late for
\* its window (regtest_demo.py:123-235).
THEOREM WrittenBundlesAreHonest == DriverSpec => []BundleIsHonest
<1>1. DriverInv => BundleIsHonest
  <2> SUFFICES ASSUME DriverInv, file, BlocksOnChain
               PROVE  /\ OwnDigests(bundle) /\ ProofsOnChain
                      /\ GenuineClaim(chain, bundle) /\ GenuineWork(chain, bundle)
                      /\ ConfirmedAt(chain, bundle.mint.txid, bundle.mint.block,
                                     bundle.mint.height)
                      /\ bundle.mint.height > bundle.work.challenge_height
                      /\ InMintWindow(bundle) => GenuineMint(chain, bundle)
    BY DEF BundleIsHonest
  <2>1. bundle = Bundle /\ WorkFound /\ ClaimRead /\ MintRead
    BY DEF DriverInv, FileInv, Known, HasClaim, HasClaimHeight, HasChallenge, HasWork,
           HasMint, HasMintHeight
  <2>2. /\ bundle.profile = DemoProfile
        /\ bundle.claim.outpoint = ClaimOutpoint
        /\ ClaimOutpoint[1] = ClaimTxid /\ ClaimOutpoint[2] = 1
        /\ bundle.claim.block = got.claim_block /\ bundle.claim.height = got.claim_height
        /\ bundle.claim.proof = [block |-> got.claim_block, txids |-> {ClaimTxid}]
        /\ bundle.claim.seal_script = ClaimSeal
        /\ bundle.claim.algorithm = SHA256D /\ bundle.claim.target = demo.maximum_target
    BY <2>1 DEF Bundle, ClaimOutpoint
  <2>3. /\ bundle.work.challenge_height = challenge_height
        /\ bundle.work.challenge_block = got.challenge_block
        /\ bundle.work.extra_nonce = 0 /\ bundle.work.nonce = got.nonce
        /\ Len(bundle.transfers) = 0
    BY <2>1 DEF Bundle
  <2>4. /\ bundle.mint.txid = Mint_txid /\ bundle.mint.block = got.mint_block
        /\ bundle.mint.height = got.mint_height
        /\ bundle.mint.proof = [block |-> got.mint_block, txids |-> {Mint_txid}]
        /\ bundle.mint.title_vout = 1 /\ bundle.mint.title_script = TitleSeal
    BY <2>1 DEF Bundle, Mint_txid
  <2>5. /\ ExpectedClaimCommitment(bundle) = ClaimDigest
        /\ ExpectedChallenge(bundle) = ChallengeDigest(got.claim_block, got.challenge_block)
        /\ ExpectedMintCommitment(bundle) = MintDigest(got.claim_block, got.challenge_block)
        /\ OwnDigests(bundle)
    BY <2>1, BundleDigests DEF WorkFound
  <2>6. /\ ConfirmedAt(chain, ClaimTxid, got.claim_block, got.claim_height)
        /\ challenge_height \in DOMAIN chain
        /\ chain[challenge_height] = got.challenge_block
        /\ ConfirmedAt(chain, Mint_txid, got.mint_block, got.mint_height)
        /\ got.mint_height > challenge_height
    BY BlocksInPlace
  <2>7. demo.maximum_target \in Nat /\ demo.mint_window \in Nat /\ demo.challenge_delay \in Nat
    BY DriverAssumption, ProfilesAssumption DEF demo, Profile
  <2>8. GenuineClaim(chain, bundle)
    <3>1. demo.maximum_target <= Profiles[DemoProfile].maximum_target
      BY <2>7 DEF demo
    <3>2. Cardinality({2}) = 1
      BY FS_Singleton
    <3> QED
      BY <2>2, <2>5, <2>6, <3>1, <3>2, ClaimOutputs DEF GenuineClaim
  <2>9. GenuineWork(chain, bundle)
    <3>1. got.nonce \in Solutions(got.claim_block, got.challenge_block)
      BY <2>1, FirstSolution DEF WorkFound
    <3>2. HashInt(calculate_work_hash(ChallengeDigest(got.claim_block, got.challenge_block),
                                      ClaimDigest, 0, got.nonce)) <= demo.maximum_target
      BY <3>1 DEF Solutions, WorkHash
    <3>3. chain[got.claim_height] = got.claim_block
      BY <2>6 DEF ConfirmedAt
    <3> QED
      BY <2>2, <2>3, <2>5, <2>6, <3>2, <3>3
         DEF GenuineWork, ChallengeDigest, challenge_height, demo
  <2>10. InMintWindow(bundle) => GenuineMint(chain, bundle)
    <3> SUFFICES ASSUME InMintWindow(bundle) PROVE GenuineMint(chain, bundle)
      OBVIOUS
    <3>1. got.mint_height - got.claim_height - demo.challenge_delay \in 1..demo.mint_window
      <4>1. got.mint_height \in Nat /\ got.claim_height \in Nat
        BY DEF DriverInv, DriverTypes, NothingRead
      <4>2. /\ challenge_height + 1 <= got.mint_height
            /\ got.mint_height <= challenge_height + demo.mint_window
        BY <2>2, <2>3, <2>4 DEF InMintWindow, demo
      <4> QED
        BY <2>7, <4>1, <4>2 DEF challenge_height
    <3>2. Spenders(chain, ClaimOutpoint) = {Mint_txid}
      BY <2>6, MintSpendsAlone
    <3>3. /\ Seals(Mint_txid, 1, TitleSeal)
          /\ OnlyMarker(Mint_txid, "mint", MintDigest(got.claim_block, got.challenge_block))
      BY MintIsKnown, MintOutputs
    <3> QED
      BY <2>2, <2>4, <2>5, <2>6, <3>1, <3>2, <3>3 DEF GenuineMint, demo
  <2>11. ProofsOnChain
    <3> SUFFICES ASSUME NEW k \in Stops(bundle) \ {Challenge}
                 PROVE  /\ StopProof(bundle, k).block = StopBlock(bundle, k)
                        /\ StopTxid(bundle, k) \in CommittedTxids(StopProof(bundle, k))
      BY DEF ProofsOnChain
    <3>1. k = Claim \/ k = Mint
      BY <2>3 DEF Stops, Claim, Challenge, Mint
    <3>2. CASE k = Claim
      BY <2>1, <2>2, <3>2
         DEF StopProof, StopBlock, StopTxid, CommittedTxids, ClaimRead, Claim, Challenge,
             Mint
    <3>3. CASE k = Mint
      BY <2>1, <2>4, <3>3
         DEF StopProof, StopBlock, StopTxid, CommittedTxids, MintRead, Claim, Challenge,
             Mint
    <3> QED
      BY <3>1, <3>2, <3>3
  <2> QED
    BY <2>3, <2>4, <2>5, <2>6, <2>8, <2>9, <2>10, <2>11
<1> QED
  BY <1>1, DriverInvariant, PTL

\* Without reorganizations the driver does nothing that it does not do with them.
LEMMA SharedIsDriver == SharedSpec => DriverSpec
<1>1. [SharedNext]_allVars => [DriverNext]_allVars
  BY DEF DriverNext
<1> QED
  BY <1>1, PTL DEF SharedSpec, DriverSpec
-----------------------------------------------------------------------------
(* Success is an atom *)

\* No assay has begun.
Resting ==
  pc = "idle" /\ verdict = "none" /\ header = NoHeader /\ atHeight = 0 /\ best = 0

\* The final assay reads what is on disk while the chain only grows, whatever became
\* of it before.
SuccessInv ==
  /\ DriverInv /\ disturbed = {}
  /\ ~file => Resting /\ exitCode # 0
  /\ file => AppendInv
  /\ verdict = "VALID" => Buried(chain, bundle)
  /\ exitCode = 0 => verdict = "VALID"

\* On its way to the bundle main neither verifies nor succeeds.
LEMMA MakeMoves ==
  ASSUME DriverInv, Make
  PROVE  /\ at \notin {"verify", "end"}
         /\ at' = "verify" => at = "mine" /\ then = "verify"
         /\ exitCode' = exitCode \/ (at' = "end" /\ exitCode' \in {1, 2})
         /\ at' = "mine" => then' # "verify" \/ (at = "mine" /\ then' = then)
         /\ UNCHANGED <<verifierVars, bundle, disturbed, file>>
<1>1. CASE MineBlock
  BY <1>1 DEF Make, MineBlock, Continue
<1>2. CASE SendClaim \/ SendMint
  BY <1>2 DEF Make, SendClaim, SendMint, SendAndMine, MineBlocks, Exit
<1>3. CASE Quiet
  BY <1>3 DEF Make, Quiet, CheckNetwork, EnsureWallet, CheckBalance, ReadClaimProof,
              WaitForChallenge, TestAccept, ReadMintProof, Continue, Exit, MineBlocks
<1>4. CASE ReadClaimBlock \/ ReadMintBlock \/ ReadClaimHeight \/ ReadMintHeight
           \/ ReadChallenge \/ SearchWork
  BY <1>4 DEF Make, ReadClaimBlock, ReadMintBlock, ReadConfirmation, ReadClaimHeight,
              ReadMintHeight, ReadHeight, ReadChallenge, SearchWork, Continue, Exit
<1> QED
  BY <1>1, <1>2, <1>3, <1>4 DEF Make, Quiet

\* The bundle that main makes has the shape that models.py asks for.
LEMMA BundleIsShaped ==
  ASSUME DriverInv
  PROVE  Shaped(Bundle)
<1>1. got \in [DOMAIN NothingRead -> Nat] /\ demo.challenge_delay \in Nat
  BY DriverAssumption, ProfilesAssumption DEF DriverInv, DriverTypes, demo, Profile
<1> QED
  BY <1>1 DEF Shaped, Bundle, challenge_height, NothingRead

\* A mint that is buried stays so while the chain grows.
LEMMA BuriedStays ==
  ASSUME AppendInv, verdict = "VALID", Buried(chain, bundle),
         Extend, bundle' = bundle
  PROVE  Buried(chain, bundle)'
<1> DEFINE p == Profiles[bundle.profile]
<1>1. /\ bundle.profile \in DOMAIN Profiles /\ bundle.mint.height \in Nat
      /\ GenuineHistory(chain, bundle)
  BY AcceptedHolds DEF AppendInv, AcceptedIsGenuine, Undisturbed, TypeInv, VerifierTypeOK,
                       Shaped
<1>2. p.minimum_burial_blocks \in Nat /\ p.minimum_burial_chainwork \in Nat
  BY <1>1, ProfilesAssumption DEF Profile
<1>3. bundle.mint.block \in BlockHashes
  BY <1>1 DEF GenuineHistory, GenuineMint, ConfirmedAt, AppendInv, TypeInv, NodeInv,
              NodeTypeOK
<1>4. blocks'[bundle.mint.block] = blocks[bundle.mint.block] /\ NodeInv'
  BY <1>3, ExtendKeeps DEF AppendInv, TypeInv, BlocksKept
<1>5. Len(chain) <= Len(chain)' /\ TotalWork(chain) <= TotalWork(chain)'
  BY ExtendGrows DEF AppendInv, TypeInv
<1>6. PICK work : work = blocks[bundle.mint.block].chainwork
  OBVIOUS
<1>7. work \in Nat
  <2>1. blocks[bundle.mint.block] \in Block
    BY <1>3 DEF AppendInv, TypeInv, NodeInv, NodeTypeOK, BlockHashes
  <2> QED
    BY <1>6, <2>1 DEF Block
<1>8. NodeInv => Len(chain) \in Nat /\ TotalWork(chain) \in Nat
  BY ChainEnd DEF TotalWork
<1>9. NodeInv' => (Len(chain) \in Nat /\ TotalWork(chain) \in Nat)'
  BY <1>8, ChainEnd, PTL DEF TotalWork
<1>10. PICK n, m, v, w : /\ n = Len(chain) /\ m = Len(chain)'
                         /\ v = TotalWork(chain) /\ w = TotalWork(chain)'
  OBVIOUS
<1>11. /\ n \in Nat /\ m \in Nat /\ v \in Nat /\ w \in Nat /\ n <= m /\ v <= w
  BY <1>4, <1>5, <1>8, <1>9, <1>10 DEF AppendInv, TypeInv
<1>12. /\ n >= bundle.mint.height + p.minimum_burial_blocks
       /\ v >= work + p.minimum_burial_chainwork
  BY <1>6, <1>10 DEF Buried, TotalWork
<1> HIDE DEF p
<1>13. /\ m >= bundle.mint.height + p.minimum_burial_blocks
       /\ w >= work + p.minimum_burial_chainwork
  BY <1>1, <1>2, <1>7, <1>11, <1>12
<1> QED
  BY <1>4, <1>6, <1>10, <1>13 DEF Buried, TotalWork, p

\* Other miners only let the chain grow.
LEMMA OthersExtend ==
  ASSUME DriverInv, OthersMine
  PROVE  Extend
<1>1. PICK txids \in SUBSET mempool, work \in BlockWorks : Generate(txids, work)
  BY DEF OthersMine
<1>2. txids \in SUBSET (TxIds \ Confirmed(chain))
  BY <1>1 DEF DriverInv, SharedNode, NodeInv, NodeTypeOK, Generate, Connectable
<1> QED
  BY <1>1, <1>2 DEF Extend

LEMMA SuccessKept == SuccessInv /\ [DriverNext]_allVars => SuccessInv'
<1> SUFFICES ASSUME SuccessInv, [DriverNext]_allVars PROVE SuccessInv'
  OBVIOUS
<1>1. DriverInv'
  BY DriverKept DEF SuccessInv
<1>2. CASE Make
  <2>1. /\ UNCHANGED <<verifierVars, bundle, disturbed, file>>
        /\ exitCode' = exitCode \/ exitCode' \in {1, 2}
        /\ at \notin {"verify", "end"}
    BY <1>2, MakeMoves DEF SuccessInv
  <2>2. ~file
    BY <2>1 DEF SuccessInv, DriverInv, FileInv
  <2> QED
    BY <1>1, <2>1, <2>2 DEF SuccessInv, Resting, verifierVars
<1>3. CASE WriteBundle
  <2>1. /\ at = "write" /\ file' = TRUE /\ exitCode' = exitCode
        /\ bundle' = Bundle /\ pc' = "network" /\ stop' = Claim /\ verdict' = verdict
        /\ UNCHANGED <<nodeVars, header, atHeight, best, disturbed>>
    BY <1>3 DEF WriteBundle, Continue, Goto
  <2>2. ~file /\ Resting /\ exitCode # 0 /\ disturbed = {} /\ NodeInv /\ LedgerInv
    BY <2>1 DEF SuccessInv, DriverInv, FileInv, SharedNode
  <2>3. /\ header' = NoHeader /\ atHeight' = 0 /\ best' = 0 /\ verdict' = "none"
    BY <2>1, <2>2 DEF Resting
  <2>4. header' \in [height : Nat, confirmations : Int, chainwork : Nat]
    BY <2>3 DEF NoHeader
  <2>5. Shaped(bundle')
    BY <2>1, BundleIsShaped DEF SuccessInv
  <2>6. TypeInv' /\ LedgerInv' /\ AcceptInv'
    BY <2>1, <2>2, <2>3, <2>4, <2>5, FreshAccepts
  <2>7. AppendInv'
    BY <2>1, <2>2, <2>6 DEF AppendInv, TipBelow
  <2> QED
    BY <1>1, <2>1, <2>2, <2>3, <2>7 DEF SuccessInv
<1>4. CASE Verify
  <2>1. Call /\ UNCHANGED <<driverVars, nodeVars, bundle, disturbed>> /\ at = "verify"
    BY <1>4 DEF Verify, Call
  <2>2. CASE file
    <3>1. AppendInv' /\ AppendInv
      BY <2>1, <2>2, AppendKept DEF SuccessInv, NextAppend, Step
    <3>2. CASE pc = "tip"
      <4>1. verdict' = "VALID" => Buried(chain, bundle)
        BY <2>1, <3>1, <3>2, TipCall, TipBuries
      <4>2. verdict = "none"
        BY <3>1, <3>2 DEF AppendInv, TypeInv, VerifierTypeOK
      <4> QED
        BY <1>1, <2>1, <2>2, <3>1, <4>1, <4>2 DEF SuccessInv, driverVars, nodeVars, Buried
    <3>3. CASE pc # "tip"
      <4>1. TypeInv /\ Call /\ pc # "done" /\ (verdict = "none" <=> pc # "done")
        BY <2>1, <3>1
           DEF AppendInv, TypeInv, VerifierTypeOK, Call, ReadNetwork, ReadHeader,
               ReadHashAtHeight, ReadHeaderAtHeight, VerifyProof, CheckIncluded,
               FetchTransaction, PlaceTransaction, ReadCoin, ReadBestHash, ReadTip,
               RpcFails, HeaderLookup, TransactionLookup
      <4>2. CASE pc = "best"
        BY <1>1, <2>1, <2>2, <3>1, <4>1, <4>2, BestCall DEF SuccessInv, driverVars
      <4>3. CASE pc # "best"
        <5>1. verdict' # "VALID"
          BY <3>3, <4>1, <4>3, OtherCalls, CoinCall
        <5> QED
          BY <1>1, <2>1, <2>2, <3>1, <4>1, <5>1 DEF SuccessInv, driverVars
      <4> QED
        BY <4>2, <4>3
    <3> QED
      BY <3>2, <3>3
  <2>3. CASE ~file
    BY <2>1, <2>3 DEF SuccessInv, Resting, Call, ReadNetwork, ReadHeader, ReadHashAtHeight,
         ReadHeaderAtHeight, VerifyProof, CheckIncluded, FetchTransaction,
         PlaceTransaction, ReadCoin, ReadBestHash, ReadTip, RpcFails, HeaderLookup,
         TransactionLookup
  <2> QED
    BY <2>2, <2>3
<1>5. CASE Report \/ CallFails \/ UNCHANGED allVars
  <2>1. UNCHANGED <<vars, file>>
    BY <1>5 DEF Report, CallFails, allVars, driverVars
  <2>2. exitCode' = exitCode \/ (exitCode' = 0 => verdict = "VALID")
    BY <1>5 DEF Report, CallFails, Exit, allVars, driverVars
  <2>3. AppendInv => AppendInv'
    BY <2>1, AppendKept
  <2> QED
    BY <1>1, <2>1, <2>2, <2>3
       DEF SuccessInv, Resting, vars, verifierVars, nodeVars, Buried
<1>6. CASE ReplyLost
  <2>1. /\ UNCHANGED <<verifierVars, bundle, disturbed, file>> /\ exitCode' \in {1, 2}
        /\ at \notin {"verify", "end"}
    BY <1>6 DEF ReplyLost, Exit
  <2>2. ~file
    BY <2>1 DEF SuccessInv, DriverInv, FileInv
  <2> QED
    BY <1>1, <2>1, <2>2 DEF SuccessInv, Resting, verifierVars
<1>7. CASE OthersMine
  <2>1. /\ Extend /\ UNCHANGED <<verifierVars, bundle, disturbed, driverVars>>
    BY <1>7, OthersExtend DEF OthersMine, SuccessInv
  <2>2. AppendInv => AppendInv'
    BY <2>1, AppendKept DEF NextAppend, ChainGrows
  <2>3. verdict' = "VALID" => Buried(chain, bundle)'
    <3> SUFFICES ASSUME verdict = "VALID" PROVE Buried(chain, bundle)'
      BY <2>1 DEF verifierVars
    <3>1. file
      BY DEF SuccessInv, Resting
    <3> QED
      BY <2>1, <3>1, BuriedStays DEF SuccessInv
  <2> QED
    BY <1>1, <2>1, <2>2, <2>3 DEF SuccessInv, Resting, verifierVars, driverVars
<1>8. CASE OthersReorganize
  <2>1. ~file /\ UNCHANGED <<verifierVars, bundle, disturbed, driverVars>>
    BY <1>8 DEF OthersReorganize
  <2> QED
    BY <1>1, <2>1 DEF SuccessInv, Resting, verifierVars, driverVars
<1> QED
  BY <1>2, <1>3, <1>4, <1>5, <1>6, <1>7, <1>8 DEF DriverNext, SharedNext, DriverStep

\* The driver reports success only for a genuine, buried atom of the chain it ends
\* with, whatever was disconnected, failed or lost on the way
\* (regtest_demo.py:236-245).
THEOREM SuccessesAreAtoms == DriverSpec => []SuccessIsAnAtom
<1>1. DriverInit => SuccessInv
  BY DriverStarts DEF DriverInit, SuccessInv, Resting
<1>2. SuccessInv => SuccessIsAnAtom
  <2> SUFFICES ASSUME SuccessInv, exitCode = 0
               PROVE  GenuineHistory(chain, bundle) /\ Buried(chain, bundle)
    BY DEF SuccessIsAnAtom
  <2>1. file /\ AppendInv /\ verdict = "VALID" /\ Buried(chain, bundle)
    BY DEF SuccessInv
  <2> QED
    BY <2>1, AcceptedHolds DEF AppendInv, AcceptedIsGenuine, Undisturbed
<1> QED
  BY <1>1, <1>2, SuccessKept, PTL DEF DriverSpec
-----------------------------------------------------------------------------
(* The live validation: a node without peers has one line of blocks *)

Line == [h \in BlockHashes |-> h]

\* Each block is on the one before it, has more work below it, and no transaction
\* is in two of them.
OneLine ==
  /\ \A b \in BlockHashes : blocks[b].branch = [h \in 1..b |-> h]
  /\ \A a, b \in BlockHashes : a < b => blocks[a].chainwork < blocks[b].chainwork
  /\ \A a, b \in BlockHashes : blocks[a].txs \cap blocks[b].txs # {} => a = b

\* More blocks of the same work have more of it.
LEMMA MoreWork ==
  ASSUME NEW a \in Nat, NEW b \in Nat, NEW w \in Nat, w > 0, a < b
  PROVE  a * w < b * w
OBVIOUS

\* The node starts with one line.
LEMMA LineStarts ==
  ASSUME NodeInit
  PROVE  OneLine /\ chain = Line
<1>1. PICK w \in BlockWorks :
        blocks = [b \in DOMAIN History |->
                    [branch    |-> [h \in 1..b |-> h],
                     txs       |-> History[b],
                     chainwork |-> b * w]]
  BY DEF NodeInit
<1>2. Len(History) \in Nat /\ DOMAIN History = 1..Len(History) /\ w \in Nat /\ w > 0
  BY NodeAssumption
<1>3. BlockHashes = 1..Len(History)
  BY <1>1, <1>2 DEF BlockHashes
<1>4. ASSUME NEW b \in BlockHashes
      PROVE  /\ blocks[b].branch = [h \in 1..b |-> h]
             /\ blocks[b].txs = History[b] /\ blocks[b].chainwork = b * w
  BY <1>1, <1>2, <1>3
<1>5. chain = Line
  BY <1>2, <1>3 DEF NodeInit, Line
<1>6. ASSUME NEW a \in BlockHashes, NEW b \in BlockHashes, a < b
      PROVE  blocks[a].chainwork < blocks[b].chainwork
  <2>1. a \in Nat /\ b \in Nat
    BY <1>3
  <2>2. a * w < b * w
    BY <1>2, <1>6, <2>1, MoreWork
  <2> QED
    BY <1>4, <2>2
<1>7. OnceConfirmed
  BY OnceStarts
<1>8. \A a, b \in BlockHashes : blocks[a].txs \cap blocks[b].txs # {} => a = b
  BY <1>5, <1>7 DEF OnceConfirmed, Line
<1> QED
  BY <1>4, <1>5, <1>6, <1>8 DEF OneLine

\* What is on one line is there once.
LEMMA LineIsOnce ==
  ASSUME OneLine, chain = Line
  PROVE  OnceConfirmed
BY DEF OneLine, Line, OnceConfirmed

\* Without a new block the line stays.
LEMMA LineStays ==
  ASSUME OneLine, UNCHANGED blocks
  PROVE  OneLine' /\ Line' = Line
BY DEF OneLine, Line, BlockHashes

\* A new block makes it longer.
LEMMA LineGrows ==
  ASSUME SharedNode, OneLine, chain = Line,
         NEW txids \in SUBSET TxIds, NEW work \in BlockWorks, Generate(txids, work)
  PROVE  OneLine' /\ chain' = Line'
<1>0. PICK next : next = Len(blocks) + 1
  OBVIOUS
<1>1. /\ blocks \in Seq(Block) /\ Len(blocks) \in Nat /\ BlockHashes = 1..Len(blocks)
      /\ chain \in Seq(BlockHashes) /\ Len(chain) \in Nat /\ Len(chain) >= 1
  BY HashesAreNumbers, ChainEnd DEF SharedNode, NodeInv, NodeTypeOK
<1>2. Len(chain) = Len(blocks) /\ \A h \in 1..Len(blocks) : chain[h] = h
  <2>1. DOMAIN chain = 1..Len(blocks) /\ \A h \in 1..Len(blocks) : chain[h] = h
    BY <1>1 DEF Line
  <2> QED
    BY <1>1, <2>1
<1>3. /\ blocks' = Append(blocks, [branch    |-> Append(chain, next),
                                   txs       |-> txids,
                                   chainwork |-> TotalWork(chain) + work])
      /\ chain' = Append(chain, next)
      /\ txids \cap Confirmed(chain) = {}
  BY <1>0 DEF Generate, Connectable
<1>4. /\ BlockHashes' = 1..next /\ next \in Nat /\ next \notin BlockHashes
      /\ blocks'[next] = [branch    |-> Append(chain, next),
                          txs       |-> txids,
                          chainwork |-> TotalWork(chain) + work]
      /\ \A b \in BlockHashes : blocks'[b] = blocks[b]
  BY <1>0, <1>1, <1>3, AppendProperties DEF BlockHashes
<1>5. chain' = [h \in 1..next |-> h]
  <2>1. /\ Append(chain, next) \in Seq(Nat) /\ Len(Append(chain, next)) = next
        /\ Append(chain, next)[next] = next
        /\ \A h \in 1..Len(blocks) : Append(chain, next)[h] = chain[h]
    <3>1. chain \in Seq(Nat) /\ next \in Nat
      BY <1>0, <1>1, SeqMonotonic
    <3> QED
      BY <1>0, <1>2, <3>1, AppendProperties
  <2>2. \A h \in 1..next : chain'[h] = h
    BY <1>0, <1>1, <1>2, <1>3, <2>1
  <2>3. chain' \in Seq(Nat) /\ Len(chain') = next
    BY <1>3, <2>1
  <2>4. chain' \in [1..next -> Nat]
    BY <2>3
  <2> QED
    BY <2>2, <2>4
<1>6. ASSUME NEW b \in 1..next
      PROVE  blocks'[b].branch = [h \in 1..b |-> h]
  <2>1. CASE b = next
    <3>1. blocks'[next].branch = chain'
      <4>1. PICK c : c = Append(chain, next)
        OBVIOUS
      <4>2. blocks'[next].branch = c
        BY <1>4, <4>1
      <4> QED
        BY <1>3, <4>1, <4>2, Zenon
    <3>2. [h \in 1..b |-> h] = [h \in 1..next |-> h]
      BY <2>1
    <3> QED
      BY <1>5, <2>1, <3>1, <3>2, Zenon
  <2>2. CASE b \in BlockHashes
    BY <1>4, <2>2 DEF OneLine
  <2> QED
    BY <1>0, <1>1, <2>1, <2>2
<1>7. ASSUME NEW a \in 1..next, NEW b \in 1..next, a < b
      PROVE  blocks'[a].chainwork < blocks'[b].chainwork
  <2>1. a \in 1..Len(blocks) /\ (b = next \/ b \in 1..Len(blocks))
    BY <1>0, <1>1, <1>7
  <2>2. CASE b \in 1..Len(blocks)
    BY <1>1, <1>4, <1>7, <2>1, <2>2 DEF OneLine
  <2>3. CASE b = next
    <3> DEFINE top == Len(blocks)
    <3>1. top \in BlockHashes /\ TotalWork(chain) = blocks[top].chainwork
      BY <1>1, <1>2 DEF TotalWork
    <3>2. blocks[a].chainwork \in Nat /\ blocks[top].chainwork \in Nat
      <4>1. blocks[a] \in Block /\ blocks[top] \in Block
        BY <1>1, <2>1, <3>1
      <4> QED
        BY <4>1 DEF Block
    <3>3. blocks[a].chainwork <= blocks[top].chainwork
      <4>1. CASE a = top
        BY <3>2, <4>1
      <4>2. CASE a < top
        BY <1>1, <2>1, <3>1, <3>2, <4>2 DEF OneLine
      <4> QED
        BY <1>1, <2>1, <4>1, <4>2
    <3>4. work \in Nat /\ work > 0
      BY NodeAssumption
    <3>5. /\ blocks'[a].chainwork = blocks[a].chainwork
          /\ blocks'[b].chainwork = blocks[top].chainwork + work
      BY <1>1, <1>4, <2>1, <2>3, <3>1
    <3> HIDE DEF top
    <3> QED
      BY <3>2, <3>3, <3>4, <3>5
  <2> QED
    BY <2>1, <2>2, <2>3
<1>8. ASSUME NEW a \in 1..next, NEW b \in 1..next, blocks'[a].txs \cap blocks'[b].txs # {}
      PROVE  a = b
  <2>1. ASSUME NEW d \in 1..Len(blocks) PROVE blocks'[d].txs \cap txids = {}
    <3>1. d \in DOMAIN chain /\ chain[d] = d /\ blocks'[d] = blocks[d]
      BY <1>1, <1>2, <1>4
    <3>2. blocks[d].txs \subseteq Confirmed(chain)
      BY <3>1 DEF Confirmed
    <3> QED
      BY <1>3, <3>1, <3>2
  <2>2. (a = next \/ a \in 1..Len(blocks)) /\ (b = next \/ b \in 1..Len(blocks))
    BY <1>0, <1>1
  <2>3. blocks'[next].txs = txids
    BY <1>4
  <2> QED
    BY <1>1, <1>4, <1>8, <2>1, <2>2, <2>3 DEF OneLine
<1> QED
  BY <1>4, <1>5, <1>6, <1>7, <1>8 DEF OneLine, Line
-----------------------------------------------------------------------------
(* The driver on that node *)

\* Nobody else mines, so the chain is the line, and the driver's assay reads an atom
\* that stands still; only one that is accepted ends with 0.
AloneInv ==
  /\ DriverInv /\ OneLine /\ chain = Line /\ disturbed = {}
  /\ at \notin {"verify", "end"} => Resting
  /\ at = "verify" => file /\ VerifyInv
  /\ exitCode = 0 => at = "end" /\ file /\ VerifyInv /\ verdict = "VALID"
  /\ at = "mine" => then # "verify"
  /\ at # "end" => exitCode = -1

\* What the driver does to the node.
LEMMA DriverCalls ==
  ASSUME DriverInv, DriverStep
  PROVE  \/ UNCHANGED nodeVars
         \/ \E t \in TxIds : Broadcast(t)
         \/ \E txids \in SUBSET TxIds, work \in BlockWorks : Generate(txids, work)
<1>1. mempool \in SUBSET TxIds /\ ClaimTxid \in TxIds /\ (at = "mint" => Mint_txid \in TxIds)
  BY MintIsKnown, DriverTxAssumption DEF DriverInv, SharedNode, NodeInv, NodeTypeOK
<1>2. CASE Make
  <2>1. CASE MineBlock
    BY <1>1, <2>1 DEF MineBlock, NodeUntouched
  <2>2. CASE SendClaim \/ SendMint
    BY <1>1, <2>2 DEF SendClaim, SendMint, SendAndMine, NodeUntouched
  <2> QED
    BY <1>2, <2>1, <2>2
       DEF Make, CheckNetwork, EnsureWallet, CheckBalance, ReadClaimBlock, ReadMintBlock,
           ReadConfirmation, ReadClaimHeight, ReadMintHeight, ReadHeight, ReadClaimProof,
           WaitForChallenge, ReadChallenge, SearchWork, TestAccept, ReadMintProof,
           NodeUntouched
<1>3. CASE WriteBundle \/ Verify \/ Report \/ CallFails
  BY <1>3 DEF WriteBundle, Verify, Call, Report, CallFails, vars
<1>4. CASE ReplyLost
  BY <1>1, <1>4 DEF ReplyLost
<1> QED
  BY <1>2, <1>3, <1>4 DEF DriverStep

\* None of it makes a second branch.
LEMMA DriverKeepsLine ==
  ASSUME DriverInv, OneLine, chain = Line, DriverStep
  PROVE  OneLine' /\ chain' = Line'
<1>1. CASE UNCHANGED nodeVars \/ \E t \in TxIds : Broadcast(t)
  BY <1>1, LineStays DEF nodeVars, Broadcast
<1>2. CASE \E txids \in SUBSET TxIds, work \in BlockWorks : Generate(txids, work)
  BY <1>2, LineGrows DEF DriverInv
<1> QED
  BY <1>1, <1>2, DriverCalls

\* A main that is alone with its node stays so.
LEMMA AloneKept ==
  ASSUME AloneInv, DriverStep
  PROVE  AloneInv'
<1>1. DriverInv'
  BY DriverKept DEF AloneInv, DriverNext, SharedNext
<1>2. OneLine' /\ chain' = Line'
  BY DriverKeepsLine DEF AloneInv
<1>3. CASE Make
  <2>1. /\ at \notin {"verify", "end"} /\ at' # "verify"
        /\ exitCode' = exitCode \/ (at' = "end" /\ exitCode' \in {1, 2})
        /\ at' = "mine" => then' # "verify"
        /\ UNCHANGED <<verifierVars, disturbed>>
    BY <1>3, MakeMoves DEF AloneInv
  <2>2. exitCode = -1 /\ Resting /\ disturbed' = {}
    BY <2>1 DEF AloneInv
  <2>3. Resting'
    BY <2>1, <2>2 DEF Resting, verifierVars
  <2> QED
    BY <1>1, <1>2, <2>1, <2>2, <2>3 DEF AloneInv
<1>4. CASE WriteBundle
  <2>1. /\ at = "write" /\ at' = "verify" /\ file' = TRUE /\ exitCode' = exitCode
        /\ bundle' = Bundle /\ pc' = "network" /\ stop' = Claim /\ verdict' = verdict
        /\ UNCHANGED <<nodeVars, header, atHeight, best, disturbed>>
    BY <1>4 DEF WriteBundle, Continue, Goto
  <2>2. Resting /\ exitCode = -1 /\ disturbed = {} /\ OneLine /\ chain = Line
    BY <2>1 DEF AloneInv
  <2>3. Shaped(bundle')
    BY <2>1, BundleIsShaped DEF AloneInv
  <2>4. VerifyInv'
    <3>1. /\ header' = NoHeader /\ atHeight' = 0 /\ best' = 0 /\ verdict' = "none"
      BY <2>1, <2>2 DEF Resting
    <3>2. header' \in [height : Nat, confirmations : Int, chainwork : Nat]
      BY <3>1 DEF NoHeader
    <3>3. NodeInv /\ LedgerInv /\ BranchesRise /\ OnceConfirmed
      BY <2>2, LineIsOnce DEF AloneInv, DriverInv, SharedNode
    <3> QED
      BY <2>1, <2>2, <2>3, <3>1, <3>2, <3>3, FreshVerifies
  <2> QED
    BY <1>1, <1>2, <2>1, <2>2, <2>4 DEF AloneInv
<1>5. CASE Verify
  <2>1. Call /\ UNCHANGED <<driverVars, disturbed>> /\ at = "verify"
    BY <1>5 DEF Verify, Call
  <2>2. VerifyInv'
    BY <2>1, CallVerifies DEF AloneInv
  <2> QED
    BY <1>1, <1>2, <2>1, <2>2 DEF AloneInv, driverVars
<1>6. CASE Report
  <2>1. /\ at = "verify" /\ at' = "end" /\ UNCHANGED <<vars, file>>
        /\ exitCode' = 0 => verdict = "VALID"
    BY <1>6 DEF Report, Exit
  <2>2. VerifyInv'
    BY <2>1, StillVerifies DEF AloneInv
  <2> QED
    BY <1>1, <1>2, <2>1, <2>2 DEF AloneInv, vars, verifierVars
<1>7. CASE CallFails \/ ReplyLost
  <2>1. at' = "end" /\ exitCode' \in {1, 2} /\ disturbed' = disturbed
    BY <1>7 DEF CallFails, ReplyLost, Exit, vars
  <2> QED
    BY <1>1, <1>2, <2>1 DEF AloneInv
<1> QED
  BY <1>3, <1>4, <1>5, <1>6, <1>7 DEF DriverStep

\* So it does while the script does something else.
LEMMA AloneStays ==
  ASSUME AloneInv, UNCHANGED allVars
  PROVE  AloneInv'
<1>1. DriverInv'
  BY DriverKept DEF AloneInv
<1>2. UNCHANGED <<nodeVars, verifierVars, disturbed, driverVars, vars>>
  BY DEF allVars, vars
<1>3. OneLine' /\ chain' = Line'
  BY <1>2, LineStays DEF AloneInv, nodeVars
<1>4. VerifyInv => VerifyInv'
  BY <1>2, StillVerifies
<1>5. Resting => Resting'
  BY <1>2 DEF Resting, verifierVars
<1> QED
  BY <1>1, <1>2, <1>3, <1>4, <1>5 DEF AloneInv, driverVars, verifierVars
-----------------------------------------------------------------------------
(* The atom that the script goes on with *)

\* The line below the challenge block.
Cut == [h \in 1..(challenge_height - 1) |-> h]

\* The driver's bundle is an atom of the line, buried, and nobody has spent its title.
Standing ==
  /\ NodeInv /\ LedgerInv /\ BranchesRise /\ OneLine
  /\ got \in [DOMAIN NothingRead -> Nat]
  /\ Passes(StartChecks(Bundle, Network)) /\ FullyChecked(Line, Bundle)
  /\ Buried(Line, Bundle)
  /\ Unspent(TerminalTitle(Bundle), Confirmed(Line) \cup mempool)

\* The fields of the bundle that the following needs.
LEMMA BundleIs ==
  ASSUME NEW b, b = Bundle
  PROVE  /\ b.claim.outpoint = ClaimOutpoint /\ b.claim.block = got.claim_block
         /\ b.claim.height = got.claim_height
         /\ b.claim.proof = [block |-> got.claim_block, txids |-> {ClaimTxid}]
         /\ b.work.challenge_height = challenge_height
         /\ b.work.challenge_block = got.challenge_block
         /\ b.mint.txid = Mint_txid /\ b.mint.block = got.mint_block
         /\ b.mint.height = got.mint_height
         /\ b.mint.proof = [block |-> got.mint_block, txids |-> {Mint_txid}]
         /\ b.transfers = <<>> /\ Len(b.transfers) = 0
         /\ StopTxid(b, Claim) = ClaimTxid /\ StopTxid(b, Mint) = Mint_txid
         /\ Stops(b) = {Claim, Challenge, Mint}
         /\ TerminalTitle(b) = <<Mint_txid, 1>>
<1>1. /\ b.claim.outpoint = ClaimOutpoint /\ b.claim.block = got.claim_block
      /\ b.claim.height = got.claim_height
      /\ b.claim.proof = [block |-> got.claim_block, txids |-> {ClaimTxid}]
      /\ b.work.challenge_height = challenge_height
      /\ b.work.challenge_block = got.challenge_block
      /\ b.transfers = <<>> /\ Len(b.transfers) = 0
  BY DEF Bundle
<1>2. /\ b.mint.txid = Mint_txid /\ b.mint.block = got.mint_block
      /\ b.mint.height = got.mint_height /\ b.mint.title_vout = 1
      /\ b.mint.proof = [block |-> got.mint_block, txids |-> {Mint_txid}]
  BY DEF Bundle, Mint_txid
<1>3. ClaimOutpoint[1] = ClaimTxid
  BY DEF ClaimOutpoint
<1>4. Stops(b) = {Claim, Challenge, Mint}
  BY <1>1 DEF Stops, Claim, Challenge, Mint
<1>5. StopTxid(b, Claim) = ClaimTxid /\ StopTxid(b, Mint) = Mint_txid
  BY <1>1, <1>2, <1>3 DEF StopTxid, Claim, Mint
<1>6. TerminalTitle(b) = <<Mint_txid, 1>>
  BY <1>1, <1>2 DEF TerminalTitle, TitleAt, Mint
<1> QED
  BY <1>1, <1>2, <1>4, <1>5, <1>6

\* The bundle's blocks are on the line.
LEMMA StandingPlaces ==
  ASSUME Standing
  PROVE  /\ got.claim_height \in BlockHashes /\ got.claim_height = got.claim_block
         /\ ClaimTxid \in blocks[got.claim_block].txs
         /\ challenge_height \in BlockHashes /\ challenge_height = got.challenge_block
         /\ got.mint_height \in BlockHashes /\ got.mint_height = got.mint_block
         /\ Mint_txid \in blocks[got.mint_block].txs
         /\ BlockHashes = 1..Len(blocks) /\ Len(blocks) \in Nat
         /\ challenge_height - 1 \in BlockHashes
         /\ got.claim_height \in 1..(challenge_height - 1)
<1>1. PICK b : b = Bundle
  OBVIOUS
<1>2. PICK c : c = Line
  OBVIOUS
<1>3. DOMAIN c = BlockHashes /\ \A h \in BlockHashes : c[h] = h
  BY <1>2 DEF Line
<1>4. /\ Stops(b) = {Claim, Challenge, Mint}
      /\ StopTxid(b, Claim) = ClaimTxid /\ StopTxid(b, Mint) = Mint_txid
      /\ b.claim.block = got.claim_block /\ b.claim.height = got.claim_height
      /\ b.work.challenge_height = challenge_height
      /\ b.work.challenge_block = got.challenge_block
      /\ b.mint.block = got.mint_block /\ b.mint.height = got.mint_height
  BY <1>1, BundleIs
<1>5. \A k \in Stops(b) : LoadedAt(c, b, k)
  BY <1>1, <1>2 DEF Standing, FullyChecked
<1>6. /\ ConfirmedAt(c, ClaimTxid, got.claim_block, got.claim_height)
      /\ challenge_height \in DOMAIN c /\ c[challenge_height] = got.challenge_block
      /\ ConfirmedAt(c, Mint_txid, got.mint_block, got.mint_height)
  <2>1. LoadedAt(c, b, Claim) /\ LoadedAt(c, b, Challenge) /\ LoadedAt(c, b, Mint)
    BY <1>4, <1>5
  <2> QED
    BY <1>4, <2>1 DEF LoadedAt, StopBlock, StopHeight, Claim, Challenge, Mint
<1>7. BlockHashes = 1..Len(blocks) /\ Len(blocks) \in Nat
  BY DEF Standing, NodeInv, NodeTypeOK, BlockHashes
<1>8. /\ got.claim_height \in BlockHashes /\ got.claim_height = got.claim_block
      /\ ClaimTxid \in blocks[got.claim_block].txs
      /\ challenge_height \in BlockHashes /\ challenge_height = got.challenge_block
      /\ got.mint_height \in BlockHashes /\ got.mint_height = got.mint_block
      /\ Mint_txid \in blocks[got.mint_block].txs
  BY <1>3, <1>6 DEF ConfirmedAt
<1>9. demo.challenge_delay \in Nat /\ demo.challenge_delay > 0
  BY DriverAssumption, ProfilesAssumption DEF demo, Profile
<1> QED
  BY <1>7, <1>8, <1>9 DEF challenge_height

\* It is the atom that the assay of the whole line accepts.
LEMMA StandingIsGood ==
  ASSUME Standing, chain = Line, bundle = Bundle
  PROVE  StaysGood /\ ProofsOnChain
<1>1. PICK b : b = Bundle
  OBVIOUS
<1>2. /\ Stops(b) = {Claim, Challenge, Mint} /\ Len(b.transfers) = 0
      /\ StopTxid(b, Claim) = ClaimTxid /\ StopTxid(b, Mint) = Mint_txid
      /\ b.claim.block = got.claim_block /\ b.mint.block = got.mint_block
      /\ b.claim.proof = [block |-> got.claim_block, txids |-> {ClaimTxid}]
      /\ b.mint.proof = [block |-> got.mint_block, txids |-> {Mint_txid}]
  BY <1>1, BundleIs
<1>3. FullyChecked(chain, b) /\ Passes(StartChecks(b, Network)) /\ NodeInv /\ LedgerInv
  BY <1>1 DEF Standing
<1>4. /\ b.profile \in DOMAIN Profiles /\ Network = Profiles[b.profile].network
      /\ GenuineHistory(chain, b)
  BY <1>2, <1>3, CheckedIsGenuine
<1>5. Visible(TerminalTitle(b)) /\ Buried(chain, b)
  BY <1>1 DEF Standing, Visible
<1>6. ProofsOnChain
  <2> SUFFICES ASSUME NEW k \in {Claim, Mint}
               PROVE  /\ StopProof(b, k).block = StopBlock(b, k)
                      /\ StopTxid(b, k) \in CommittedTxids(StopProof(b, k))
    BY <1>1, <1>2 DEF ProofsOnChain
  <2>1. CASE k = Claim
    BY <1>2, <2>1, StandingPlaces
       DEF StopProof, StopBlock, CommittedTxids, Claim, Challenge, Mint
  <2>2. CASE k = Mint
    BY <1>2, <2>2, StandingPlaces
       DEF StopProof, StopBlock, CommittedTxids, Claim, Challenge, Mint
  <2> QED
    BY <2>1, <2>2
<1> QED
  BY <1>1, <1>4, <1>5, <1>6 DEF StaysGood

\* No switch between the line and a part of it disturbs that.
LEMMA StandingStays ==
  ASSUME Standing, UNCHANGED <<blocks, got>>, NodeInv',
         mempool' \subseteq mempool \cup Confirmed(Line)
  PROVE  Standing'
<1>1. PICK b : b = Bundle
  OBVIOUS
<1>2. PICK c : c = Line
  OBVIOUS
<1>3. /\ Bundle' = b /\ Line' = c /\ blocks' = blocks /\ OneLine'
  BY <1>1, <1>2, LineStays DEF Standing, Bundle, challenge_height
<1>4. LedgerInv' /\ BranchesRise'
  BY ReorganizeSettles, SameBranchesRise DEF Standing
<1>5. FullyChecked(c, b) => FullyChecked(c, b)'
  BY <1>3 DEF FullyChecked, LoadedAt, ConfirmedAt
<1>6. FullyChecked(Line, Bundle)'
  BY <1>1, <1>2, <1>3, <1>5 DEF Standing, FullyChecked, LoadedAt, ConfirmedAt
<1>7. Buried(Line, Bundle)'
  BY <1>1, <1>2, <1>3 DEF Standing, Buried
<1>8. Confirmed(Line)' = Confirmed(c) /\ Confirmed(Line) = Confirmed(c)
  BY <1>2, <1>3 DEF Confirmed
<1>9. TerminalTitle(b)[1] \in Confirmed(c)
  <2>1. TerminalTitle(b)[1] = Mint_txid
    BY <1>1, BundleIs
  <2>2. got.mint_height \in DOMAIN c /\ c[got.mint_height] = got.mint_block
        /\ Mint_txid \in blocks[got.mint_block].txs
    BY <1>2, StandingPlaces DEF Line
  <2> QED
    BY <2>1, <2>2 DEF Confirmed
<1>10. Unspent(TerminalTitle(b), Confirmed(c) \cup mempool')
  BY <1>1, <1>2, <1>8, <1>9 DEF Standing, Unspent, Created, Spent
<1>11. Unspent(TerminalTitle(Bundle), Confirmed(Line) \cup mempool)'
  <2>1. TerminalTitle(Bundle)' = TerminalTitle(b)
    BY <1>3
  <2> QED
    BY <1>8, <1>10, <2>1
<1> QED
  BY <1>1, <1>3, <1>4, <1>6, <1>7, <1>11 DEF Standing
-----------------------------------------------------------------------------
(* Activating a branch of the line *)

\* The chain becomes a known branch.
LEMMA ActivateKeeps ==
  ASSUME NodeInv, NEW b \in BlockHashes, NEW branch, branch = blocks[b].branch,
         Activate(branch)
  PROVE  NodeInv' /\ blocks' = blocks /\ chain' = branch
         /\ mempool' \subseteq mempool \cup Confirmed(chain)
<1>1. blocks' = blocks /\ chain' = branch
      /\ mempool' = Surviving(mempool \cup (Confirmed(chain) \ Confirmed(branch)),
                              Confirmed(branch))
  BY DEF Activate
<1>2. mempool' \subseteq mempool \cup Confirmed(chain)
  BY <1>1, SurvivingInPool
<1>3. Confirmed(chain) \subseteq TxIds
  BY ChainEnd, ConfirmedAreTxIds DEF NodeInv
<1>4. branch \in Seq(BlockHashes)
  BY DEF NodeInv, BranchesEnd
<1>5. NodeTypeOK'
  BY <1>1, <1>2, <1>3, <1>4 DEF NodeInv, NodeTypeOK, BlockHashes
<1>6. BranchesEnd' /\ ChainIsBranch'
  BY <1>1 DEF NodeInv, BranchesEnd, ChainIsBranch, BlockHashes
<1> QED
  BY <1>1, <1>2, <1>5, <1>6 DEF NodeInv

\* invalidateblock leaves the line below the challenge block.
LEMMA InvalidateCuts ==
  ASSUME Standing, chain = Line, UNCHANGED got,
         Activate(SubSeq(chain, 1, challenge_height - 1))
  PROVE  Standing' /\ chain' = Cut'
<1> DEFINE n == challenge_height - 1
<1>1. /\ n \in BlockHashes /\ n \in Nat /\ BlockHashes = 1..Len(blocks)
      /\ n <= Len(blocks) /\ Len(blocks) \in Nat
  BY StandingPlaces
<1>2. chain \in Seq(BlockHashes) /\ NodeInv /\ blocks[n].branch = [h \in 1..n |-> h]
  BY <1>1, ChainEnd DEF Standing, OneLine
<1> HIDE DEF n
<1>3. SubSeq(chain, 1, n) = [h \in 1..n |-> h]
  <2>1. SubSeq(chain, 1, n) = [h \in 1..n |-> chain[h]]
    BY <1>1, <1>2 DEF SubSeq
  <2>2. \A h \in 1..n : chain[h] = h
    BY <1>1 DEF Line
  <2> QED
    BY <2>1, <2>2
<1>4. Activate(blocks[n].branch)
  BY <1>2, <1>3 DEF n
<1>5. /\ NodeInv' /\ blocks' = blocks /\ chain' = blocks[n].branch
      /\ mempool' \subseteq mempool \cup Confirmed(chain)
  BY <1>1, <1>2, <1>4, ActivateKeeps
<1>6. Standing'
  BY <1>5, StandingStays
<1>7. Cut' = [h \in 1..n |-> h]
  BY DEF Cut, challenge_height, n
<1> QED
  BY <1>2, <1>5, <1>6, <1>7

\* reconsiderblock brings all of it back, which has the most work.
LEMMA ReconsiderRestores ==
  ASSUME Standing, chain = Cut, UNCHANGED got,
         NEW branch \in KnownBranches,
         \A b \in BlockHashes : blocks[b].chainwork <= TotalWork(branch),
         Activate(branch)
  PROVE  Standing' /\ chain' = Line'
<1>1. PICK b \in BlockHashes : branch = blocks[b].branch
  BY DEF KnownBranches
<1>2. /\ BlockHashes = 1..Len(blocks) /\ Len(blocks) \in Nat /\ NodeInv
      /\ challenge_height - 1 \in BlockHashes
  BY StandingPlaces DEF Standing
<1>3. TotalWork(branch) = blocks[b].chainwork
  BY <1>1, <1>2 DEF NodeInv, BranchesEnd, TotalWork
<1>4. b = Len(blocks)
  <2>1. Len(blocks) \in BlockHashes /\ b \in Nat /\ b <= Len(blocks)
    BY <1>2
  <2>2. blocks[b].chainwork \in Nat /\ blocks[Len(blocks)].chainwork \in Nat
    <3>1. blocks[b] \in Block /\ blocks[Len(blocks)] \in Block
      BY <1>2, <2>1 DEF NodeInv, NodeTypeOK, BlockHashes
    <3> QED
      BY <3>1 DEF Block
  <2>3. blocks[Len(blocks)].chainwork <= blocks[b].chainwork
    BY <1>3, <2>1
  <2>4. b < Len(blocks) => blocks[b].chainwork < blocks[Len(blocks)].chainwork
    BY <2>1 DEF Standing, OneLine
  <2> QED
    BY <1>2, <2>1, <2>2, <2>3, <2>4
<1>5. branch = Line
  BY <1>1, <1>2, <1>4 DEF Standing, OneLine, Line
<1>6. /\ NodeInv' /\ blocks' = blocks /\ chain' = branch
      /\ mempool' \subseteq mempool \cup Confirmed(chain)
  BY <1>1, <1>2, ActivateKeeps
<1>7. Confirmed(chain) \subseteq Confirmed(Line)
  <2>1. \A h \in 1..(challenge_height - 1) : h \in BlockHashes
    BY <1>2
  <2> QED
    BY <2>1 DEF Cut, Line, Confirmed
<1>8. Standing'
  BY <1>6, <1>7, StandingStays
<1>9. Line' = Line
  BY <1>6 DEF Line, BlockHashes
<1> QED
  BY <1>5, <1>6, <1>8, <1>9
-----------------------------------------------------------------------------
(* What the assays read *)

Tampering == {"tampered_work", "tampered_challenge"}

\* A tampered bundle differs in one digest.
LEMMA BundleOfIs ==
  ASSUME NEW s \in Assays, NEW b, b = BundleOf(s), NEW d, d = Bundle
  PROVE  /\ b.profile = d.profile /\ b.claim = d.claim /\ b.mint = d.mint
         /\ b.transfers = d.transfers
         /\ b.work.challenge_height = d.work.challenge_height
         /\ b.work.challenge_block = d.work.challenge_block
         /\ b.work.extra_nonce = d.work.extra_nonce /\ b.work.nonce = d.work.nonce
         /\ b.work.challenge_digest = IF s = "tampered_challenge"
                                      THEN Mutated(d.work.challenge_digest)
                                      ELSE d.work.challenge_digest
         /\ b.work.work_hash = IF s = "tampered_work"
                               THEN Mutated(d.work.work_hash) ELSE d.work.work_hash
         /\ s \notin Tampering => b = d
<1>1. PICK w : w = d.work
  OBVIOUS
<1>2. /\ d = [d EXCEPT !.work = w]
      /\ DOMAIN w = {"challenge_height", "challenge_block", "challenge_digest",
                     "extra_nonce", "nonce", "work_hash"}
      /\ DOMAIN d = {"profile", "claim", "work", "mint", "transfers"}
  BY <1>1 DEF Bundle
<1>3. CASE s = "tampered_work"
  <2>1. b = [d EXCEPT !.work = [w EXCEPT !.work_hash = Mutated(w.work_hash)]]
    BY <1>1, <1>3 DEF BundleOf
  <2> QED
    BY <1>1, <1>2, <1>3, <2>1 DEF Tampering
<1>4. CASE s = "tampered_challenge"
  <2>1. b = [d EXCEPT !.work = [w EXCEPT !.challenge_digest = Mutated(w.challenge_digest)]]
    BY <1>1, <1>4 DEF BundleOf
  <2> QED
    BY <1>1, <1>2, <1>4, <2>1 DEF Tampering
<1>5. CASE s \notin Tampering
  BY <1>5 DEF BundleOf, Tampering
<1> QED
  BY <1>3, <1>4, <1>5 DEF Tampering

\* So it makes the same first checks, and asks for the same digests.
LEMMA BundleOfChecks ==
  ASSUME NEW s \in Assays, NEW b, b = BundleOf(s), NEW d, d = Bundle
  PROVE  /\ ExpectedChallenge(b) = ExpectedChallenge(d)
         /\ ExpectedWorkHash(b) = ExpectedWorkHash(d)
         /\ StartChecks(b, Network) = StartChecks(d, Network)
         /\ \A tx : StopChecks(b, Claim, tx) = StopChecks(d, Claim, tx)
<1>1. /\ b.profile = d.profile /\ b.claim = d.claim
      /\ b.work.challenge_height = d.work.challenge_height
      /\ b.work.challenge_block = d.work.challenge_block
      /\ b.work.extra_nonce = d.work.extra_nonce /\ b.work.nonce = d.work.nonce
  BY BundleOfIs
<1>2. ExpectedClaimCommitment(b) = ExpectedClaimCommitment(d)
  BY <1>1 DEF ExpectedClaimCommitment
<1>3. ExpectedChallenge(b) = ExpectedChallenge(d)
  BY <1>1, <1>2 DEF ExpectedChallenge
<1>4. ExpectedWorkHash(b) = ExpectedWorkHash(d)
  BY <1>1, <1>2, <1>3 DEF ExpectedWorkHash
<1>5. StartChecks(b, Network) = StartChecks(d, Network)
  BY <1>1 DEF StartChecks
<1>6. ASSUME NEW tx
      PROVE  StopChecks(b, Claim, tx) = StopChecks(d, Claim, tx)
  <2>1. ClaimChecks(b, tx) = ClaimChecks(d, tx)
    BY <1>1, <1>2 DEF ClaimChecks
  <2>2. ASSUME NEW x
        PROVE  StopChecks(x, Claim, tx) = ClaimChecks(x, tx) \o <<>>
    <3>1. ~(Claim >= Mint) /\ Claim # Challenge /\ Claim # Mint
      BY DEF Claim, Challenge, Mint
    <3> QED
      BY <3>1 DEF StopChecks
  <2> QED
    BY <2>1, <2>2
<1> QED
  BY <1>3, <1>4, <1>5, <1>6

\* models.py takes them all.
LEMMA BundleOfShaped ==
  ASSUME Standing, NEW s \in Assays
  PROVE  Shaped(BundleOf(s))
<1>1. PICK b : b = BundleOf(s)
  OBVIOUS
<1>2. PICK d : d = Bundle
  OBVIOUS
<1>3. /\ b.claim = d.claim /\ b.mint = d.mint /\ b.transfers = d.transfers
      /\ b.work.challenge_height = d.work.challenge_height
  BY <1>1, <1>2, BundleOfIs
<1>4. /\ d.claim.height = got.claim_height /\ d.work.challenge_height = challenge_height
      /\ d.mint.height = got.mint_height /\ Len(d.transfers) = 0
  BY <1>2, BundleIs
<1>5. {got.claim_height, challenge_height, got.mint_height} \subseteq Nat
  BY StandingPlaces
<1> QED
  BY <1>1, <1>3, <1>4, <1>5 DEF Shaped

\* On the line and on the part that is left, the claim is where the bundle says and
\* passes.
LEMMA ClaimStands ==
  ASSUME Standing, chain \in {Line, Cut}, NEW s \in Assays, bundle = BundleOf(s)
  PROVE  /\ StopHeight(bundle, Claim) \in DOMAIN chain
         /\ chain[StopHeight(bundle, Claim)] = StopBlock(bundle, Claim)
         /\ StopBlock(bundle, Claim) \in BlockHashes
         /\ OnActiveChain(StopBlock(bundle, Claim))
         /\ Header(StopBlock(bundle, Claim)).height = StopHeight(bundle, Claim)
         /\ Header(StopBlock(bundle, Claim)).confirmations >= 1
         /\ StopTxid(bundle, Claim) \in blocks[StopBlock(bundle, Claim)].txs
         /\ StopProof(bundle, Claim).block = StopBlock(bundle, Claim)
         /\ StopTxid(bundle, Claim) \in CommittedTxids(StopProof(bundle, Claim))
         /\ Passes(StartChecks(bundle, Network))
         /\ Passes(StopChecks(bundle, Claim, Tx[StopTxid(bundle, Claim)]))
<1>1. PICK b : b = bundle
  OBVIOUS
<1>2. PICK d : d = Bundle
  OBVIOUS
<1>3. PICK h : h = got.claim_height
  OBVIOUS
<1>4. /\ b.claim = d.claim /\ d.claim.outpoint = ClaimOutpoint
      /\ d.claim.block = got.claim_block /\ d.claim.height = got.claim_height
      /\ d.claim.proof = [block |-> got.claim_block, txids |-> {ClaimTxid}]
  <2>1. b.claim = d.claim
    BY <1>1, <1>2, BundleOfIs
  <2> QED
    BY <1>2, <2>1, BundleIs
<1>5. /\ h \in BlockHashes /\ h = got.claim_block
      /\ ClaimTxid \in blocks[h].txs /\ h \in 1..(challenge_height - 1)
  BY <1>3, StandingPlaces
<1>6. /\ StopHeight(b, Claim) = h /\ StopBlock(b, Claim) = h
      /\ StopTxid(b, Claim) = ClaimTxid
      /\ StopProof(b, Claim) = [block |-> h, txids |-> {ClaimTxid}]
  <2>1. /\ StopHeight(b, Claim) = b.claim.height /\ StopBlock(b, Claim) = b.claim.block
        /\ StopTxid(b, Claim) = b.claim.outpoint[1] /\ StopProof(b, Claim) = b.claim.proof
    BY DEF StopHeight, StopBlock, StopTxid, StopProof, Claim, Challenge, Mint
  <2>2. ClaimOutpoint[1] = ClaimTxid
    BY DEF ClaimOutpoint
  <2>3. got.claim_height = h /\ got.claim_block = h
    BY <1>3, <1>5
  <2> QED
    BY <1>4, <2>1, <2>2, <2>3, Zenon
<1>7. h \in DOMAIN chain /\ chain[h] = h
  BY <1>5 DEF Line, Cut
<1>8. OnActiveChain(h) /\ Header(h).height = h /\ Header(h).confirmations >= 1
  BY <1>7, OnChainHeader DEF Standing
<1>9. ClaimTxid \in CommittedTxids(StopProof(b, Claim))
  BY <1>5, <1>6 DEF CommittedTxids
<1>10. /\ Passes(StartChecks(b, Network))
       /\ Passes(StopChecks(b, Claim, Tx[ClaimTxid]))
  <2>1. /\ StartChecks(b, Network) = StartChecks(d, Network)
        /\ StopChecks(b, Claim, Tx[ClaimTxid]) = StopChecks(d, Claim, Tx[ClaimTxid])
    BY <1>1, <1>2, BundleOfChecks
  <2>2. Claim \in Stops(d) /\ StopTxid(d, Claim) = ClaimTxid
    BY <1>2, BundleIs
  <2> QED
    BY <1>2, <2>1, <2>2 DEF Standing, FullyChecked
<1> QED
  BY <1>1, <1>5, <1>6, <1>7, <1>8, <1>9, <1>10

\* On the whole line the challenge block is where the bundle says, too.
LEMMA ChallengeStands ==
  ASSUME Standing, NEW s \in Assays, bundle = BundleOf(s)
  PROVE  /\ chain = Cut => StopHeight(bundle, Challenge) \notin DOMAIN chain
         /\ chain = Line =>
              /\ StopHeight(bundle, Challenge) \in DOMAIN chain
              /\ chain[StopHeight(bundle, Challenge)] = StopBlock(bundle, Challenge)
              /\ StopBlock(bundle, Challenge) \in BlockHashes
              /\ Header(StopBlock(bundle, Challenge)).height
                   = StopHeight(bundle, Challenge)
              /\ Header(StopBlock(bundle, Challenge)).confirmations >= 1
<1>1. PICK b : b = bundle
  OBVIOUS
<1>2. PICK h : h = challenge_height
  OBVIOUS
<1>3. StopHeight(b, Challenge) = h /\ StopBlock(b, Challenge) = got.challenge_block
  <2>1. /\ b.work.challenge_height = Bundle.work.challenge_height
        /\ b.work.challenge_block = Bundle.work.challenge_block
    BY <1>1, BundleOfIs
  <2> QED
    BY <1>2, <2>1, BundleIs DEF StopHeight, StopBlock, Claim, Challenge, Mint
<1>4. h \in BlockHashes /\ h = got.challenge_block /\ h \in Nat
  BY <1>2, StandingPlaces
<1>5. chain = Cut => h \notin DOMAIN chain
  <2>1. DOMAIN Cut = 1..(h - 1)
    BY <1>2 DEF Cut
  <2> QED
    BY <1>4, <2>1
<1>6. ASSUME chain = Line
      PROVE  /\ h \in DOMAIN chain /\ chain[h] = h
             /\ Header(h).height = h /\ Header(h).confirmations >= 1
  <2>1. h \in DOMAIN chain /\ chain[h] = h
    BY <1>4, <1>6 DEF Line
  <2> QED
    BY <2>1, OnChainHeader DEF Standing
<1> QED
  BY <1>1, <1>3, <1>4, <1>5, <1>6

\* A list of checks made after one that passes fails with its own first failure.
LEMMA FailsAfter ==
  ASSUME NEW s, NEW t, Sequence(s), Sequence(t), Passes(s),
         NEW i \in DOMAIN t, FirstFailure(t, i),
         NEW nextPc, NEW nextStop, Decide(s \o t, nextPc, nextStop)
  PROVE  Finish(t[i].code)
<1> DEFINE S == Range(s) \cup Range(t)
           u == s \o t
<1>1. s \in Seq(S) /\ t \in Seq(S)
  BY SeqMonotonic DEF Sequence
<1>2. /\ Len(s) \in Nat /\ DOMAIN s = 1..Len(s)
      /\ Len(t) \in Nat /\ DOMAIN t = 1..Len(t)
      /\ DOMAIN u = 1..(Len(s) + Len(t))
      /\ \A j \in 1..(Len(s) + Len(t)) :
           u[j] = IF j <= Len(s) THEN s[j] ELSE t[j - Len(s)]
  BY <1>1, ConcatProperties, LenProperties
<1>3. i \in Nat /\ Len(s) + i \in DOMAIN u /\ u[Len(s) + i] = t[i] /\ ~t[i].ok
  BY <1>2 DEF FirstFailure
<1>4. (Passes(u) /\ Goto(nextPc, nextStop)) \/ Fail(u)
  BY DEF Decide
<1> HIDE DEF u
<1>5. PICK j \in DOMAIN u : FirstFailure(u, j) /\ Finish(u[j].code)
  BY <1>3, <1>4 DEF Passes, Fail
<1>6. j \in Nat /\ ~u[j].ok /\ \A m \in 1..(j - 1) : u[m].ok
  BY <1>2, <1>5 DEF FirstFailure
<1>7. j > Len(s)
  <2> SUFFICES ASSUME j <= Len(s) PROVE FALSE
    BY <1>2, <1>6
  <2>1. j \in DOMAIN s /\ u[j] = s[j]
    BY <1>2, <1>5
  <2> QED
    BY <1>6, <2>1 DEF Passes
<1>8. PICK m \in 1..Len(t) : j = Len(s) + m /\ u[j] = t[m]
  <2>1. j - Len(s) \in 1..Len(t) /\ u[j] = t[j - Len(s)]
    BY <1>2, <1>5, <1>6, <1>7
  <2> QED
    BY <1>2, <1>6, <2>1
<1>9. ~(i < m)
  BY <1>2, <1>3, <1>6, <1>8
<1>10. ~(m < i)
  BY <1>2, <1>3, <1>6, <1>8 DEF FirstFailure
<1>11. m = i
  BY <1>3, <1>9, <1>10
<1> QED
  BY <1>5, <1>8, <1>11

\* Another final nibble makes another digest.
LEMMA MutatedDiffers ==
  ASSUME NEW d
  PROVE  /\ Mutated(ExpectedChallenge(d)) # ExpectedChallenge(d)
         /\ Mutated(ExpectedWorkHash(d)) # ExpectedWorkHash(d)
<1>1. ExpectedChallenge(d)[1] = "challenge"
  BY DEF ExpectedChallenge, derive_challenge
<1>2. ExpectedWorkHash(d)[1] = "work"
  BY DEF ExpectedWorkHash, calculate_work_hash
<1>3. \A x : Mutated(x)[1] = "mutated"
  BY DEF Mutated
<1> QED
  BY <1>1, <1>2, <1>3

\* A tampered digest is the first thing of the challenge that fails.
LEMMA ChallengeFails ==
  ASSUME Standing, NEW s \in Tampering, NEW b, b = BundleOf(s)
  PROVE  \E i \in DOMAIN ChallengeChecks(b) :
           /\ FirstFailure(ChallengeChecks(b), i)
           /\ ChallengeChecks(b)[i].code = Expected(s)
<1>1. PICK d : d = Bundle
  OBVIOUS
<1>2. s \in Assays
  BY DEF Tampering, Assays
<1>3. ExpectedChallenge(d) = d.work.challenge_digest /\ ExpectedWorkHash(d) = d.work.work_hash
  <2>1. Challenge \in Stops(d) /\ Len(d.transfers) \in Nat
    <3>1. Stops(d) = {Claim, Challenge, Mint} /\ Len(d.transfers) = 0
      BY <1>1, BundleIs
    <3> QED
      BY <3>1
  <2>2. FullyChecked(Line, d)
    BY <1>1 DEF Standing
  <2>3. Passes(ChallengeChecks(d))
    BY <2>1, <2>2, StopPasses
  <2>4. ChallengeChecks(d)[1].ok /\ ChallengeChecks(d)[2].ok
    BY <2>3 DEF Passes, ChallengeChecks
  <2> QED
    BY <2>4 DEF ChallengeChecks, Check
<1>4. /\ b.work.challenge_digest = IF s = "tampered_challenge"
                                   THEN Mutated(ExpectedChallenge(d))
                                   ELSE ExpectedChallenge(d)
      /\ b.work.work_hash = IF s = "tampered_work"
                            THEN Mutated(ExpectedWorkHash(d)) ELSE ExpectedWorkHash(d)
  BY <1>1, <1>2, <1>3, BundleOfIs
<1>5. ExpectedChallenge(b) = ExpectedChallenge(d) /\ ExpectedWorkHash(b) = ExpectedWorkHash(d)
  BY <1>1, <1>2, BundleOfChecks
<1>6. /\ DOMAIN ChallengeChecks(b) = 1..4
      /\ ChallengeChecks(b)[1] =
           Check("BAD_CHALLENGE", ExpectedChallenge(b) = b.work.challenge_digest)
      /\ ChallengeChecks(b)[2] =
           Check("BAD_WORK_HASH", ExpectedWorkHash(b) = b.work.work_hash)
  BY DEF ChallengeChecks
<1>7. \A code, ok : Check(code, ok).code = code
  BY DEF Check
<1>8. /\ Expected("tampered_challenge") = "BAD_CHALLENGE"
      /\ Expected("tampered_work") = "BAD_WORK_HASH"
  BY DEF Expected
<1>9. CASE s = "tampered_challenge"
  <2>1. ExpectedChallenge(b) # b.work.challenge_digest
    BY <1>4, <1>5, <1>9, MutatedDiffers
  <2>2. FirstFailure(ChallengeChecks(b), 1)
    <3>1. ~ChallengeChecks(b)[1].ok
      BY <2>1 DEF ChallengeChecks, Check
    <3> QED
      BY <3>1 DEF FirstFailure
  <2>3. ChallengeChecks(b)[1].code = "BAD_CHALLENGE"
    BY <1>6, <1>7
  <2>4. Expected(s) = "BAD_CHALLENGE"
    BY <1>9, <1>8
  <2> QED
    BY <1>6, <2>2, <2>3, <2>4
<1>10. CASE s = "tampered_work"
  <2>1. /\ ExpectedChallenge(b) = b.work.challenge_digest
        /\ ExpectedWorkHash(b) # b.work.work_hash
    BY <1>4, <1>5, <1>10, MutatedDiffers
  <2>2. FirstFailure(ChallengeChecks(b), 2)
    <3>1. ChallengeChecks(b)[1].ok /\ ~ChallengeChecks(b)[2].ok
      BY <2>1 DEF ChallengeChecks, Check
    <3>2. \A j \in 1..(2 - 1) : j = 1
      OBVIOUS
    <3> QED
      BY <3>1, <3>2 DEF FirstFailure
  <2>3. ChallengeChecks(b)[2].code = "BAD_WORK_HASH"
    BY <1>6, <1>7
  <2>4. Expected(s) = "BAD_WORK_HASH"
    BY <1>10, <1>8
  <2> QED
    BY <1>6, <2>2, <2>3, <2>4
<1> QED
  BY <1>9, <1>10 DEF Tampering
-----------------------------------------------------------------------------
(* The assays end as the script expects *)

Cutting == Tampering \cup {"invalidated"}

Lookups == {"HEADER_LOOKUP", "TRANSACTION_LOOKUP", "UNCAUGHT"}

\* On the way to the challenge, where a tampered or cut off bundle fails.
Towards ==
  \/ pc = "network"
  \/ stop = Claim /\ pc \in HeaderLookup \cup TransactionLookup /\ GoodHeader /\ GoodHash
  \/ stop = Challenge /\ step = "invalidated" /\ pc \in {"header", "height"}
  \/ stop = Challenge /\ step \in Tampering /\ pc \in HeaderLookup
     /\ GoodHeader /\ GoodHash

\* A call failed, or the assay ended as the script demands.
Ended == pc = "done" /\ verdict \in {Expected(step)} \cup Lookups

Shown == IF step \in {"invalidated", "reconsider"} THEN Cut ELSE Line

AssayInv ==
  /\ TypeInv /\ bundle = BundleOf(step) /\ disturbed = {}
  /\ \/ Ended
     \/ step \in Cutting /\ Towards
     \/ step \notin Cutting /\ GoodInv

\* An assay starts with nothing read.
LEMMA AssayStarts ==
  ASSUME Standing, Standing', UNCHANGED got, NEW s \in Assays, step' = s,
         bundle' = BundleOf(s), pc' = "network", stop' = Claim, verdict' = "none",
         header' = NoHeader, atHeight' = 0, best' = 0, disturbed' = {}
  PROVE  AssayInv'
<1>1. BundleOf(s)' = BundleOf(s)
  BY DEF BundleOf, Bundle, challenge_height
<1>2. Shaped(bundle')
  BY BundleOfShaped
<1>3. header' \in [height : Nat, confirmations : Int, chainwork : Nat]
  BY DEF NoHeader
<1>4. stop' \in Stops(bundle)'
  BY <1>2 DEF Shaped, Stops, Claim
<1>5. TypeInv'
  BY <1>2, <1>3, <1>4 DEF TypeInv, VerifierTypeOK, Pcs, Standing
<1>6. GoodInv'
  BY DEF GoodInv, GoodHeader, GoodHash, GoodStop, GoodBest, GoodVerdict, TransactionLookup
<1> QED
  BY <1>1, <1>5, <1>6 DEF AssayInv, Towards

\* An assay that meets the challenge tampered with or cut off fails there.
LEMMA TowardsKept ==
  ASSUME Standing, step \in Cutting, chain = Shown, AssayInv, Towards, Reply,
         UNCHANGED <<nodeVars, bundle, disturbed, step>>
  PROVE  Towards' \/ Ended'
<1>0. /\ step \in Assays /\ chain \in {Line, Cut} /\ bundle = BundleOf(step)
      /\ step \in Tampering => chain = Line
      /\ step = "invalidated" => chain = Cut
      /\ blocks' = blocks /\ chain' = chain /\ bundle' = bundle /\ step' = step
      /\ step = "invalidated" \/ step \in Tampering
  BY DEF Cutting, Tampering, Assays, Shown, AssayInv, nodeVars
<1>1. /\ Claim # Challenge /\ Claim + 1 = Challenge /\ Claim \in Nat /\ Challenge \in Nat
      /\ Claim + 1 \in Stops(bundle)
  <2>1. Len(bundle.transfers) \in Nat
    BY DEF AssayInv, TypeInv, VerifierTypeOK, Shaped
  <2> QED
    BY <2>1 DEF Claim, Challenge, Stops
<1>2. Expected("invalidated") = "HEADER_LOOKUP"
  BY DEF Expected
<1>3. CASE ReadNetwork
  <2>1. Goto("header", Claim)
    BY <1>0, <1>3, ClaimStands, DecideGoes DEF ReadNetwork
  <2> QED
    BY <2>1 DEF Goto, Towards, HeaderLookup, GoodHeader, GoodHash
<1>4. CASE ReadHeader
  <2>1. CASE stop = Claim
    <3>1. Goto("height", Claim) /\ header' = Header(StopBlock(bundle, Claim))
      BY <1>0, <1>4, <2>1, ClaimStands DEF ReadHeader
    <3>2. header'.height = StopHeight(bundle, Claim) /\ header'.confirmations >= 1
      BY <1>0, <3>1, ClaimStands
    <3> QED
      BY <1>0, <3>1, <3>2
         DEF Goto, Towards, HeaderLookup, GoodHeader, GoodHash
  <2>2. CASE stop = Challenge /\ step = "invalidated"
    BY <1>0, <1>2, <1>4, <2>2 DEF ReadHeader, Goto, Finish, Towards, Ended
  <2>3. CASE stop = Challenge /\ step \in Tampering
    <3>1. Goto("height", Challenge) /\ header' = Header(StopBlock(bundle, Challenge))
      BY <1>0, <1>4, <2>3, ChallengeStands DEF ReadHeader
    <3>2. header'.height = StopHeight(bundle, Challenge) /\ header'.confirmations >= 1
      BY <1>0, <2>3, <3>1, ChallengeStands
    <3> QED
      BY <1>0, <2>3, <3>1, <3>2
         DEF Goto, Towards, HeaderLookup, GoodHeader, GoodHash
  <2> QED
    BY <1>4, <2>1, <2>2, <2>3 DEF ReadHeader, Towards
<1>5. CASE ReadHashAtHeight
  <2>1. CASE stop = Claim
    <3>1. Goto("canonical", Claim) /\ atHeight' = StopBlock(bundle, Claim)
      BY <1>0, <1>5, <2>1, ClaimStands DEF ReadHashAtHeight
    <3>2. GoodHeader /\ header' = header
      BY <1>1, <1>5, <2>1 DEF ReadHashAtHeight, Towards
    <3> QED
      BY <1>0, <1>5, <2>1, <3>1, <3>2
         DEF ReadHashAtHeight, Goto, Towards, HeaderLookup, GoodHeader, GoodHash
  <2>2. CASE stop = Challenge /\ step = "invalidated"
    <3>1. Finish("HEADER_LOOKUP")
      BY <1>0, <1>5, <2>2, ChallengeStands DEF ReadHashAtHeight
    <3> QED
      BY <1>0, <1>2, <2>2, <3>1 DEF Finish, Ended
  <2>3. CASE stop = Challenge /\ step \in Tampering
    <3>1. Goto("canonical", Challenge) /\ atHeight' = StopBlock(bundle, Challenge)
      BY <1>0, <1>5, <2>3, ChallengeStands DEF ReadHashAtHeight
    <3>2. GoodHeader /\ header' = header
      BY <1>1, <1>5, <2>3 DEF ReadHashAtHeight, Towards, Tampering
    <3> QED
      BY <1>0, <1>5, <2>3, <3>1, <3>2
         DEF ReadHashAtHeight, Goto, Towards, HeaderLookup, GoodHeader, GoodHash
  <2> QED
    BY <1>5, <2>1, <2>2, <2>3 DEF ReadHashAtHeight, Towards
<1>6. CASE ReadHeaderAtHeight
  <2>1. /\ pc = "canonical" /\ header.height = StopHeight(bundle, stop)
        /\ header.confirmations >= 1 /\ atHeight = StopBlock(bundle, stop)
        /\ stop = Claim \/ (stop = Challenge /\ step \in Tampering)
    BY <1>6 DEF ReadHeaderAtHeight, Towards, GoodHeader, GoodHash
  <2>2. Passes(CanonicalChecks(bundle, stop))
    BY <2>1, ThreePass DEF CanonicalChecks, Check
  <2>3. CASE stop = Claim
    <3>1. Goto("proof", Claim)
      BY <1>1, <1>6, <2>2, <2>3, DecideGoes DEF ReadHeaderAtHeight
    <3> QED
      BY <3>1 DEF Goto, Towards, TransactionLookup, GoodHeader, GoodHash
  <2>4. CASE stop = Challenge
    <3>1. step \in Tampering
      BY <1>1, <2>1, <2>4
    <3>2. PICK i \in DOMAIN ChallengeChecks(bundle) :
            /\ FirstFailure(ChallengeChecks(bundle), i)
            /\ ChallengeChecks(bundle)[i].code = Expected(step)
      BY <1>0, <3>1, ChallengeFails
    <3>3. Sequence(CanonicalChecks(bundle, stop)) /\ Sequence(ChallengeChecks(bundle))
      <4>1. Sequence(CanonicalChecks(bundle, stop))
        BY DEF Sequence, Range, CanonicalChecks, Check
      <4> QED
        BY <4>1, ChecksAreSequences
    <3>4. Decide(CanonicalChecks(bundle, stop) \o ChallengeChecks(bundle), "header", Mint)
      BY <1>6, <2>4 DEF ReadHeaderAtHeight
    <3>5. Finish(ChallengeChecks(bundle)[i].code)
      BY <2>2, <3>2, <3>3, <3>4, FailsAfter
    <3> QED
      BY <1>0, <3>2, <3>5 DEF Finish, Ended
  <2> QED
    BY <2>1, <2>3, <2>4
<1>7. \A code, ok : ok => Passes(<<Check(code, ok)>>)
  BY DEF Passes, Check
<1>8. pc \in TransactionLookup => stop = Claim
  BY DEF Towards, HeaderLookup, TransactionLookup
<1>9. ASSUME NEW nextPc \in TransactionLookup, Goto(nextPc, Claim)
      PROVE  Towards'
  BY <1>9 DEF Goto, Towards, TransactionLookup, GoodHeader, GoodHash
<1>10. CASE VerifyProof
  <2>1. stop = Claim
    BY <1>8, <1>10 DEF VerifyProof, TransactionLookup
  <2>2. Goto("included", Claim)
    BY <1>0, <1>7, <1>10, <2>1, ClaimStands, DecideGoes DEF VerifyProof
  <2> QED
    BY <1>9, <2>2 DEF TransactionLookup
<1>11. CASE CheckIncluded
  <2>1. stop = Claim
    BY <1>8, <1>11 DEF CheckIncluded, TransactionLookup
  <2>2. Goto("fetch", Claim)
    BY <1>0, <1>7, <1>11, <2>1, ClaimStands, DecideGoes DEF CheckIncluded
  <2> QED
    BY <1>9, <2>2 DEF TransactionLookup
<1>12. CASE FetchTransaction
  <2>1. stop = Claim
    BY <1>8, <1>12 DEF FetchTransaction, TransactionLookup
  <2>2. Goto("place", Claim)
    BY <1>0, <1>7, <1>12, <2>1, ClaimStands, DecideGoes DEF FetchTransaction
  <2> QED
    BY <1>9, <2>2 DEF TransactionLookup
<1>13. CASE PlaceTransaction
  <2> DEFINE placed == <<Check("TRANSACTION_MISMATCH",
                               Header(StopBlock(bundle, Claim)).height
                                 = StopHeight(bundle, Claim))>>
             made == StopChecks(bundle, Claim, Tx[StopTxid(bundle, Claim)])
  <2>1. stop = Claim
    BY <1>8, <1>13 DEF PlaceTransaction, TransactionLookup
  <2>2. Passes(placed) /\ Passes(made)
    BY <1>0, <1>7, ClaimStands
  <2>3. Sequence(placed) /\ Sequence(made)
    BY NamedStopChecks DEF Named, Sequence, Range, Check
  <2>4. Passes(placed \o made)
    BY <2>2, <2>3, ConcatPasses
  <2>5. Goto("header", Challenge)
    BY <1>1, <1>13, <2>1, <2>4, DecideGoes DEF PlaceTransaction
  <2> QED
    BY <1>0, <2>5 DEF Goto, Towards, HeaderLookup, GoodHeader, GoodHash
<1>14. pc \notin {"coin", "best", "tip"}
  BY DEF Towards, HeaderLookup, TransactionLookup
<1> QED
  BY <1>3, <1>4, <1>5, <1>6, <1>10, <1>11, <1>12, <1>13, <1>14
     DEF Reply, ReadCoin, ReadBestHash, ReadTip

\* Every call of an assay keeps it as expected.
LEMMA AssayKept ==
  ASSUME Standing, step \in Assays, chain = Shown, AssayInv, Call, UNCHANGED <<got, step>>
  PROVE  AssayInv'
<1>1. /\ UNCHANGED <<nodeVars, bundle, disturbed>> /\ [Next]_vars
      /\ pc # "done" /\ (Reply \/ RpcFails)
  BY DEF Call, Reply, Next, Step, ReadNetwork, ReadHeader, ReadHashAtHeight,
         ReadHeaderAtHeight, VerifyProof, CheckIncluded, FetchTransaction,
         PlaceTransaction, ReadCoin, ReadBestHash, ReadTip, RpcFails, HeaderLookup,
         TransactionLookup
<1>2. TypeInv'
  BY <1>1, TypesKept DEF AssayInv
<1>3. bundle' = BundleOf(step)' /\ disturbed' = {}
  <2>1. BundleOf(step)' = BundleOf(step)
    BY DEF BundleOf, Bundle, challenge_height
  <2> QED
    BY <1>1, <2>1 DEF AssayInv
<1>4. ~Ended
  BY <1>1 DEF Ended
<1>5. CASE RpcFails
  <2>1. Ended'
    BY <1>5 DEF RpcFails, Finish, Ended, Lookups
  <2> QED
    BY <1>2, <1>3, <2>1 DEF AssayInv
<1>6. CASE Reply /\ step \in Cutting
  <2>1. Towards' \/ Ended'
    BY <1>1, <1>4, <1>6, TowardsKept DEF AssayInv
  <2> QED
    BY <1>2, <1>3, <1>6, <2>1 DEF AssayInv
<1>7. CASE Reply /\ step \notin Cutting
  <2>1. chain = Line /\ bundle = Bundle
    BY <1>7 DEF Shown, Cutting, Tampering, Assays, AssayInv, BundleOf
  <2>2. StaysGood /\ ProofsOnChain /\ BranchesRise
    BY <2>1, StandingIsGood DEF Standing
  <2>3. GoodInv'
    BY <1>1, <1>4, <1>7, <2>2, ReplyGood DEF AssayInv
  <2> QED
    BY <1>2, <1>3, <1>7, <2>3 DEF AssayInv
<1> QED
  BY <1>1, <1>5, <1>6, <1>7

\* The verdict of an assay that is over.
LEMMA AssayEnds ==
  ASSUME step \in Assays, AssayInv, pc = "done"
  PROVE  verdict \in {Expected(step)} \cup Lookups
<1>1. CASE Ended
  BY <1>1 DEF Ended
<1>2. CASE step \in Cutting /\ Towards
  BY <1>2 DEF Towards, HeaderLookup, TransactionLookup
<1>3. CASE step \notin Cutting /\ GoodInv
  <2>1. verdict = "VALID"
    BY <1>3 DEF AssayInv, TypeInv, VerifierTypeOK, GoodInv, GoodVerdict
  <2>2. Expected(step) = "VALID"
    BY <1>3 DEF Expected, Cutting, Tampering
  <2> QED
    BY <2>1, <2>2
<1> QED
  BY <1>1, <1>2, <1>3 DEF AssayInv
-----------------------------------------------------------------------------
(* The script as a whole *)

\* The steps until the driver is checked, and those after it.
Early == {"discover", "prepare", "version", "start", "wait", "lifecycle"}

Late == Assays \cup {"vectors", "invalidate", "reconsider", "record", "summarize"}

Left == {"stop", "end"}

\* A summary is written last, when the chain is whole again; 0 is for nothing else.
SummaryInv ==
  /\ summary = "pass" => step \in Left /\ Standing /\ chain = Line
  /\ step \notin Left => status = -1
  /\ step = "stop" => status = 2 \/ (status = -1 /\ summary = "pass")
  /\ status = 0 => summary = "pass"

LiveInv ==
  /\ step \in Early \cup Late \cup Left
  /\ step \in Early => AloneInv
  /\ step \in Late => Standing /\ chain = Shown
  /\ step \in Assays => AssayInv
  /\ SummaryInv

LEMMA LiveStarts == LiveInit => LiveInv
<1> SUFFICES ASSUME LiveInit PROVE LiveInv
  OBVIOUS
<1>1. DriverInit /\ step = "discover" /\ summary # "pass" /\ status = -1
  BY DEF LiveInit
<1>2. AloneInv
  <2>1. DriverInv /\ OneLine /\ chain = Line
    BY <1>1, DriverStarts, LineStarts DEF DriverInit
  <2> QED
    BY <1>1, <2>1 DEF DriverInit, AloneInv, Resting
<1> QED
  BY <1>1, <1>2 DEF LiveInv, SummaryInv, Early, Late, Left, Assays

\* While the node stands still, so does the atom.
LEMMA StillStanding ==
  ASSUME Standing, UNCHANGED <<nodeVars, got>>
  PROVE  Standing' /\ Line' = Line /\ Cut' = Cut
<1>1. /\ blocks' = blocks /\ chain' = chain /\ mempool' = mempool /\ got' = got
  BY DEF nodeVars
<1>2. NodeInv'
  BY <1>1 DEF Standing, NodeInv, NodeTypeOK, BranchesEnd, ChainIsBranch, BlockHashes
<1>3. Standing'
  BY <1>1, <1>2, StandingStays
<1> QED
  BY <1>1, <1>3 DEF Line, Cut, BlockHashes, challenge_height

\* An assay that waits stays as it is.
LEMMA AssayStays ==
  ASSUME AssayInv, UNCHANGED <<vars, step, got>>
  PROVE  AssayInv'
<1>1. TypeInv'
  BY TypesKept DEF AssayInv
<1>2. /\ blocks' = blocks /\ chain' = chain /\ mempool' = mempool /\ bundle' = bundle
      /\ pc' = pc /\ stop' = stop /\ header' = header /\ atHeight' = atHeight
      /\ best' = best /\ verdict' = verdict /\ disturbed' = disturbed
  BY DEF vars, nodeVars, verifierVars
<1>3. BundleOf(step)' = BundleOf(step)
  BY DEF BundleOf, Bundle, challenge_height
<1>4. Ended => Ended'
  BY <1>2 DEF Ended
<1>5. (GoodHeader => GoodHeader') /\ (GoodHash => GoodHash')
  BY <1>2 DEF GoodHeader, GoodHash
<1>6. Towards => Towards'
  BY <1>2, <1>5 DEF Towards
<1>7. GoodBest => GoodBest'
  BY <1>2 DEF GoodBest, BlockHashes, HeightOf, OnActiveChain
<1>8. GoodInv => GoodInv'
  BY <1>2, <1>5, <1>7 DEF GoodInv, GoodStop, GoodVerdict
<1> QED
  BY <1>1, <1>2, <1>3, <1>4, <1>6, <1>8 DEF AssayInv

\* The script gives up.
LEMMA LeavingKept ==
  ASSUME LiveInv, step \notin Left, UNCHANGED summary,
         \/ step' = "end" /\ status' \in {2, 3}
         \/ step' = "stop" /\ status' = 2
  PROVE  LiveInv'
BY DEF LiveInv, SummaryInv, Early, Late, Left, Assays

\* Or it goes on with the atom.
LEMMA GoingOnKept ==
  ASSUME LiveInv, step \notin Left, UNCHANGED <<summary, status>>,
         step' \in Late, Standing', chain' = Shown', step' \in Assays => AssayInv'
  PROVE  LiveInv'
BY DEF LiveInv, SummaryInv, Early, Late, Left, Assays

\* Mostly with another assay.
LEMMA StartingKept ==
  ASSUME LiveInv, step \notin Left, Standing, Standing', NEW s \in Assays, StartAssay(s),
         chain' = IF s = "invalidated" THEN Cut' ELSE Line'
  PROVE  LiveInv'
<1>1. /\ step' = s /\ UNCHANGED <<summary, status, got>>
      /\ bundle' = BundleOf(s) /\ pc' = "network" /\ stop' = Claim /\ verdict' = "none"
      /\ header' = NoHeader /\ atHeight' = 0 /\ best' = 0 /\ disturbed' = {}
  BY DEF StartAssay, GoTo, driverVars
<1>2. AssayInv'
  BY <1>1, AssayStarts
<1>3. chain' = Shown'
  BY <1>1 DEF Shown, Assays
<1> QED
  BY <1>1, <1>2, <1>3, GoingOnKept DEF Late

\* Until the driver runs, nothing but the process of the node changes.
LEMMA EarlyKept ==
  ASSUME LiveInv, Discover \/ PrepareOutput \/ CheckVersion \/ StartNode \/ WaitForRpc
  PROVE  LiveInv'
<1>1. /\ UNCHANGED allVars /\ step \in Early /\ step \notin Left
      /\ summary' \in {summary, "absent"}
      /\ \/ step' \in Early /\ status' = status
         \/ step' = "end" /\ status' \in {2, 3}
         \/ step' = "stop" /\ status' = 2
  BY DEF Discover, PrepareOutput, CheckVersion, StartNode, WaitForRpc, GoTo, Raise, Idle,
         Early, Left
<1>2. AloneInv'
  BY <1>1, AloneStays DEF LiveInv
<1>3. summary' # "pass"
  BY <1>1 DEF LiveInv, SummaryInv
<1> QED
  BY <1>1, <1>2, <1>3 DEF LiveInv, SummaryInv, Early, Late, Left, Assays

\* The bundle of a driver that exits with 0 is an atom that stands.
LEMMA DriverLeavesAtom ==
  ASSUME AloneInv, exitCode = 0
  PROVE  Standing
<1>1. /\ VerifyInv /\ verdict = "VALID" /\ bundle = Bundle /\ chain = Line
      /\ OneLine /\ NodeInv /\ LedgerInv /\ BranchesRise
      /\ got \in [DOMAIN NothingRead -> Nat]
  BY DEF AloneInv, DriverInv, SharedNode, FileInv, DriverTypes
<1>2. PICK b : b = Bundle
  OBVIOUS
<1>3. PICK c : c = Line
  OBVIOUS
<1>4. StaysGood
  BY <1>1, AcceptedIsGood
<1>5. /\ b.profile \in DOMAIN Profiles /\ Network = Profiles[b.profile].network
      /\ GenuineHistory(chain, b) /\ Buried(chain, b) /\ Visible(TerminalTitle(b))
  BY <1>1, <1>2, <1>4 DEF StaysGood
<1>6. Len(b.transfers) \in Nat
  <2>1. Len(b.transfers) = 0
    BY <1>2, BundleIs
  <2> QED
    BY <2>1
<1>7. FullyChecked(chain, b) /\ Passes(StartChecks(b, Network))
  BY <1>1, <1>5, <1>6, GenuineIsChecked
<1> QED
  BY <1>1, <1>2, <1>5, <1>7 DEF Standing, Visible

\* So the assays begin with one.
LEMMA CheckLifecycleKept ==
  ASSUME LiveInv, CheckLifecycle
  PROVE  LiveInv'
<1>1. step = "lifecycle" /\ step \notin Left /\ AloneInv
  BY DEF CheckLifecycle, LiveInv, Early, Left
<1>2. CASE exitCode = 0
  <2>1. StartAssay("baseline") /\ UNCHANGED <<nodeVars, got>>
    BY <1>2 DEF CheckLifecycle, StartAssay, driverVars
  <2>2. Standing /\ chain = Line
    BY <1>1, <1>2, DriverLeavesAtom DEF AloneInv
  <2>3. Standing' /\ chain' = Line'
    BY <2>1, <2>2, StillStanding DEF nodeVars
  <2> QED
    BY <1>1, <2>1, <2>2, <2>3, StartingKept DEF Assays
<1>3. CASE exitCode # 0
  BY <1>1, <1>3, LeavingKept DEF CheckLifecycle, Raise, Idle
<1> QED
  BY <1>2, <1>3

LEMMA RunAssayKept ==
  ASSUME LiveInv, RunAssay
  PROVE  LiveInv'
<1>1. /\ step \in Assays /\ step \notin Left /\ step \in Late /\ Call
      /\ UNCHANGED <<nodeVars, got, step, status, summary>>
      /\ Standing /\ chain = Shown /\ AssayInv
  BY DEF RunAssay, LiveInv, Assays, Late, Left, Call, liveVars, driverVars
<1>2. Standing' /\ chain' = Shown'
  BY <1>1, StillStanding DEF Shown, nodeVars
<1>3. AssayInv'
  BY <1>1, AssayKept
<1> QED
  BY <1>1, <1>2, <1>3, GoingOnKept

LEMMA CheckAssayKept ==
  ASSUME LiveInv, CheckAssay
  PROVE  LiveInv'
<1>1. /\ step \in Assays /\ step \notin Left /\ step \in Late
      /\ UNCHANGED <<nodeVars, got, summary>> /\ Standing /\ chain = Shown
  BY DEF CheckAssay, StartAssay, Idle, allVars, LiveInv, Assays, Late, Left, driverVars
<1>2. Standing' /\ Line' = Line /\ Cut' = Cut /\ chain' = chain
  BY <1>1, StillStanding DEF nodeVars
<1>3. CASE step = "tampered_work" /\ StartAssay("tampered_challenge")
  BY <1>1, <1>2, <1>3, StartingKept DEF Shown, Assays
<1>4. CASE step # "tampered_work" /\ GoTo(Following(step)) /\ Idle
  <2>1. /\ step' \in Late \ Assays /\ UNCHANGED <<summary, status>>
        /\ step' = "reconsider" <=> step = "invalidated"
    BY <1>1, <1>4 DEF GoTo, Idle, Following, Assays, Late
  <2>2. chain' = Shown'
    BY <1>1, <1>2, <2>1 DEF Shown, Assays, Late
  <2> QED
    BY <1>1, <1>2, <2>1, <2>2, GoingOnKept
<1>5. CASE verdict # Expected(step) /\ Raise(2) /\ Idle
  BY <1>1, <1>5, LeavingKept DEF Raise
<1> QED
  BY <1>3, <1>4, <1>5 DEF CheckAssay

LEMMA CheckVectorsKept ==
  ASSUME LiveInv, CheckVectors
  PROVE  LiveInv'
<1>1. /\ step = "vectors" /\ step \notin Left /\ UNCHANGED <<nodeVars, got, summary>>
      /\ Standing /\ chain = Line
  BY DEF CheckVectors, StartAssay, Idle, allVars, LiveInv, Late, Left, Shown, driverVars
<1>2. Standing' /\ chain' = Line'
  BY <1>1, StillStanding DEF nodeVars
<1>3. CASE StartAssay("tampered_work")
  BY <1>1, <1>2, <1>3, StartingKept DEF Assays
<1>4. CASE Raise(2)
  BY <1>1, <1>4, LeavingKept DEF Raise
<1> QED
  BY <1>3, <1>4 DEF CheckVectors

\* The challenge block goes and comes back.
LEMMA SwitchKept ==
  ASSUME LiveInv, Invalidate \/ Reconsider
  PROVE  LiveInv'
<1>1. CASE Invalidate
  <2>1. /\ step = "invalidate" /\ step \notin Left /\ Standing /\ chain = Line
        /\ UNCHANGED got /\ StartAssay("invalidated")
        /\ Activate(SubSeq(chain, 1, challenge_height - 1))
    BY <1>1 DEF Invalidate, StartAssay, LiveInv, Late, Left, Shown, driverVars
  <2>2. Standing' /\ chain' = Cut'
    BY <2>1, InvalidateCuts
  <2> QED
    BY <2>1, <2>2, StartingKept DEF Assays
<1>2. CASE Reconsider
  <2>1. /\ step = "reconsider" /\ step \notin Left /\ Standing /\ chain = Cut
        /\ UNCHANGED got /\ StartAssay("restored")
    BY <1>2 DEF Reconsider, StartAssay, LiveInv, Late, Left, Shown, driverVars
  <2>2. Standing' /\ chain' = Line'
    BY <1>2, <2>1, ReconsiderRestores DEF Reconsider
  <2> QED
    BY <2>1, <2>2, StartingKept DEF Assays
<1> QED
  BY <1>1, <1>2

\* What is left is to say so, or that something failed, and to stop the node.
LEMMA LastKept ==
  ASSUME LiveInv, Record \/ WriteSummary \/ SomethingFails \/ StopNode
  PROVE  LiveInv'
<1>1. UNCHANGED <<nodeVars, got>>
  BY DEF Record, WriteSummary, SomethingFails, StopNode, Idle, allVars, vars, driverVars
<1>2. Standing => Standing' /\ Line' = Line /\ chain' = chain
  BY <1>1, StillStanding DEF nodeVars
<1>3. CASE Record
  <2>1. /\ step = "record" /\ step' = "summarize" /\ UNCHANGED <<summary, status>>
        /\ Standing /\ chain = Line
    BY <1>3 DEF Record, GoTo, Idle, LiveInv, Late, Shown
  <2> QED
    BY <1>2, <2>1, GoingOnKept DEF Late, Left, Shown, Assays
<1>4. CASE WriteSummary
  <2>1. /\ step = "summarize" /\ step' = "stop" /\ summary' = "pass" /\ status' = status
        /\ Standing /\ chain = Line /\ status = -1
    BY <1>4 DEF WriteSummary, GoTo, LiveInv, SummaryInv, Late, Left, Shown
  <2> QED
    BY <1>2, <2>1 DEF LiveInv, SummaryInv, Early, Late, Left, Assays
<1>5. CASE SomethingFails
  <2>1. step \notin Left
    BY <1>5 DEF SomethingFails, InTry, Assays, Left
  <2> QED
    BY <1>5, <2>1, LeavingKept DEF SomethingFails, Raise, Idle
<1>6. CASE StopNode
  <2>1. /\ step = "stop" /\ step' = "end" /\ summary' = summary
        /\ status' = 2 \/ status' = IF status = -1 THEN 0 ELSE status
    BY <1>6 DEF StopNode
  <2> QED
    BY <1>2, <2>1 DEF LiveInv, SummaryInv, Early, Late, Left, Assays
<1> QED
  BY <1>3, <1>4, <1>5, <1>6

LEMMA LiveKept == LiveInv /\ [LiveNext]_liveAllVars => LiveInv'
<1> SUFFICES ASSUME LiveInv, [LiveNext]_liveAllVars PROVE LiveInv'
  OBVIOUS
<1>1. CASE RunLifecycle
  <2>1. step = "lifecycle" /\ UNCHANGED <<step, summary, status>> /\ DriverStep
    BY <1>1 DEF RunLifecycle, liveVars
  <2>2. AloneInv'
    BY <2>1, AloneKept DEF LiveInv, Early
  <2> QED
    BY <2>1, <2>2 DEF LiveInv, SummaryInv, Early, Late, Left, Assays
<1>2. CASE UNCHANGED liveAllVars
  <2>1. UNCHANGED <<allVars, vars, nodeVars, got, step, summary, status>>
    BY <1>2 DEF liveAllVars, liveVars, allVars, vars, driverVars
  <2>2. (AloneInv => AloneInv') /\ (AssayInv => AssayInv')
    BY <2>1, AloneStays, AssayStays
  <2>3. Standing => Standing' /\ Line' = Line /\ Cut' = Cut /\ chain' = chain
    BY <2>1, StillStanding DEF nodeVars
  <2>4. Standing /\ chain = Shown => chain' = Shown'
    BY <2>1, <2>3 DEF Shown
  <2> QED
    BY <2>1, <2>2, <2>3, <2>4 DEF LiveInv, SummaryInv
<1> QED
  BY <1>1, <1>2, EarlyKept, CheckLifecycleKept, RunAssayKept, CheckAssayKept,
     CheckVectorsKept, SwitchKept, LastKept DEF LiveNext

LEMMA LiveInvariant == LiveSpec => []LiveInv
BY LiveStarts, LiveKept, PTL DEF LiveSpec

\* ExpectationsHold: what scripts/run_live_core_validation.py demands of its five
\* assays (VALID, BAD_WORK_HASH, BAD_CHALLENGE, HEADER_LOOKUP, VALID) is what the
\* verifier says of them, unless a call failed, whatever block the claim, the
\* challenge and the mint of the driver ended up in.
THEOREM ExpectationsAreMet == LiveSpec => []ExpectationsHold
<1>1. LiveInv => ExpectationsHold
  BY AssayEnds DEF LiveInv, ExpectationsHold, Lookups
<1> QED
  BY <1>1, LiveInvariant, PTL

\* CountedRejectionsAreRight: run_live_core_validation.py:287-305 takes an exit status
\* and a code for the rejection of an atom; a failed call may produce both, but what the
\* script has then tampered with or cut off is no atom of the chain: one of its digests is
\* not its own, or its challenge block is out of the chain.
THEOREM RejectionsAreRight == LiveSpec => []CountedRejectionsAreRight
<1>1. ASSUME LiveInv, step \in Cutting
      PROVE  ~GenuineHistory(chain, bundle)
  <2> SUFFICES ASSUME GenuineHistory(chain, bundle) PROVE FALSE
    OBVIOUS
  <2>1. /\ step \in Assays /\ Standing /\ chain = Shown /\ bundle = BundleOf(step)
        /\ step \notin Tampering => step = "invalidated"
    BY <1>1 DEF LiveInv, AssayInv, Cutting, Tampering, Assays, Late
  <2>2. /\ Passes(ChallengeChecks(bundle))
        /\ bundle.work.challenge_height \in DOMAIN chain
    <3>1. Passes(StartChecks(bundle, Network))
      <4>1. StartChecks(bundle, Network) = StartChecks(Bundle, Network)
        BY <2>1, BundleOfChecks
      <4> QED
        BY <2>1, <4>1 DEF Standing
    <3>2. bundle.profile \in DOMAIN Profiles
      <4>1. StartChecks(bundle, Network)[1].ok
        BY <3>1 DEF Passes, StartChecks
      <4> QED
        BY <4>1 DEF StartChecks, Check
    <3> QED
      BY <2>1, <3>2, GenuineWorkPasses DEF Standing
  <2>3. step \in Tampering
    <3>1. chain = Cut => StopHeight(bundle, Challenge) \notin DOMAIN chain
      BY <2>1, ChallengeStands
    <3>2. StopHeight(bundle, Challenge) = bundle.work.challenge_height
      <4>1. PICK b : b = bundle
        OBVIOUS
      <4>2. StopHeight(b, Challenge) = b.work.challenge_height
        BY DEF StopHeight, Claim, Challenge, Mint
      <4> QED
        BY <4>1, <4>2
    <3> QED
      BY <2>1, <2>2, <3>1, <3>2 DEF Shown
  <2>4. PICK i \in DOMAIN ChallengeChecks(bundle) : FirstFailure(ChallengeChecks(bundle), i)
    BY <2>1, <2>3, ChallengeFails
  <2> QED
    BY <2>2, <2>4 DEF FirstFailure, Passes
<1>2. step \in Assays /\ Expected(step) # "VALID" => step \in Cutting
  <2>1. Expected("baseline") = "VALID" /\ Expected("restored") = "VALID"
    BY DEF Expected
  <2> QED
    BY <2>1 DEF Assays, Cutting, Tampering
<1>3. LiveInv => CountedRejectionsAreRight
  BY <1>1, <1>2 DEF CountedRejectionsAreRight
<1> QED
  BY <1>3, LiveInvariant, PTL

\* PassedAtomStands: summary.json says pass, and the script exits with 0, only when
\* the atom of the driver is genuine, buried and unspent in the chain the node is
\* left with, the challenge block the script had invalidated among it.
THEOREM PassedAtomsStand == LiveSpec => []PassedAtomStands
<1>1. ASSUME Standing, chain = Line
      PROVE  /\ GenuineHistory(chain, Bundle)
             /\ TitleUnspent(chain, Bundle)
             /\ Buried(chain, Bundle)
  <2>1. PICK b : b = Bundle
    OBVIOUS
  <2>2. Len(b.transfers) \in Nat
    <3>1. Len(b.transfers) = 0
      BY <2>1, BundleIs
    <3> QED
      BY <3>1
  <2>3. /\ FullyChecked(chain, b) /\ Passes(StartChecks(b, Network))
        /\ NodeInv /\ LedgerInv /\ Buried(chain, b)
        /\ Unspent(TerminalTitle(b), Confirmed(chain) \cup mempool)
    BY <1>1, <2>1 DEF Standing
  <2>4. GenuineHistory(chain, b)
    BY <2>2, <2>3, CheckedIsGenuine
  <2>5. TitleUnspent(chain, b)
    BY <2>3 DEF Unspent, Spent, TitleUnspent, Spenders
  <2> QED
    BY <2>1, <2>3, <2>4, <2>5
<1>2. LiveInv => PassedAtomStands
  BY <1>1 DEF LiveInv, SummaryInv, PassedAtomStands
<1> QED
  BY <1>2, LiveInvariant, PTL
-----------------------------------------------------------------------------
(* The node's end *)

\* The script has a node only where its finally clause is still to come.
ProcessInv ==
  /\ step \in InTry \cup {"discover", "prepare", "version", "start", "stop", "end"}
  /\ step \in {"discover", "prepare", "version", "start"} => process = "none"
  /\ step = "wait" => process = "starting"
  /\ step \in InTry \ {"wait"} => process = "running"
  /\ step = "stop" => process \in {"starting", "running", "exited"}
  /\ step = "end" => process \in {"none", "exited", "killed"}

\* Every step of the script keeps it so.
LEMMA ProcessKept == ProcessInv /\ [LiveNext]_liveAllVars => ProcessInv'
<1> SUFFICES ASSUME ProcessInv, [LiveNext]_liveAllVars PROVE ProcessInv'
  OBVIOUS
<1> USE DEF ProcessInv, InTry, Assays, GoTo, Raise, Idle
<1>1. CASE Discover \/ PrepareOutput \/ CheckVersion \/ StartNode \/ WaitForRpc
  BY <1>1 DEF Discover, PrepareOutput, CheckVersion, StartNode, WaitForRpc
<1>2. CASE RunLifecycle \/ RunAssay \/ UNCHANGED liveAllVars
  BY <1>2 DEF RunLifecycle, RunAssay, liveAllVars, liveVars
<1>3. CASE CheckLifecycle \/ CheckVectors
  BY <1>3 DEF CheckLifecycle, CheckVectors, StartAssay
<1>4. CASE CheckAssay
  BY <1>4 DEF CheckAssay, StartAssay, Following
<1>5. CASE Invalidate \/ Reconsider
  BY <1>5 DEF Invalidate, Reconsider, StartAssay
<1>6. CASE Record \/ WriteSummary \/ SomethingFails \/ StopNode
  BY <1>6 DEF Record, WriteSummary, SomethingFails, StopNode
<1> QED
  BY <1>1, <1>2, <1>3, <1>4, <1>5, <1>6 DEF LiveNext

\* Whatever fails, wherever in the script and in its shutdown, it never ends with the
\* node it started still starting or running (run_live_core_validation.py:417-425).
\* It is the safety half of NodeIsStopped.
THEOREM NoNodeIsLeftRunning ==
  LiveSpec => [](step = "end" => process \notin {"starting", "running"})
<1>1. LiveInit => ProcessInv
  BY DEF LiveInit, ProcessInv, InTry, Assays
<1>2. ProcessInv => (step = "end" => process \notin {"starting", "running"})
  BY DEF ProcessInv
<1> QED
  BY <1>1, <1>2, ProcessKept, PTL DEF LiveSpec
=============================================================================
