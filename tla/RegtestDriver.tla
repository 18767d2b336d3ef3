---------------------------- MODULE RegtestDriver ----------------------------
(* main of scripts/regtest_demo.py: one process that makes an atom on a regtest *)
(* node which other processes use too.  Every RPC is a step: another miner may  *)
(* take or leave the driver's transactions, fill the mint window, or disconnect *)
(* a block the driver has read.  It ends by running the verifier on the bundle  *)
(* it wrote, one RPC at a time.                                                 *)
EXTENDS Verifier

CONSTANTS
  DemoProfile,    \* the profile the driver mints under
  Coin,           \* the wallet coin that fundrawtransaction picks
  Nonces,         \* bound: the nonces mine_work tries (0..999999 in the code)
  FundingBlocks,  \* bound: blocks mined for mature funds (101 in the code)
  MaxOthers       \* bound: blocks that other miners add

demo == Profiles[DemoProfile]

ASSUME DriverAssumption ==
  /\ DemoProfile \in DOMAIN Profiles
  /\ Coin \in Funding
  /\ Nonces \subseteq Nat
  /\ FundingBlocks \in Nat
  /\ MaxOthers \in Nat
-----------------------------------------------------------------------------
(* The transactions of the driver: the mint is determined by the two blocks    *)
(* that the challenge is derived from.                                         *)

ClaimSeal == <<"seal", "goldatom-claim">>
TitleSeal == <<"seal", "goldatom-title">>

ClaimTxid == <<"claim">>
ClaimOutpoint == <<ClaimTxid, 1>>
MintTxid(claimBlock, challengeBlock) == <<"mint", claimBlock, challengeBlock>>

ClaimDigest ==
  claim_commitment(DemoProfile, 1, ClaimSeal, SHA256D, demo.maximum_target)

ChallengeDigest(claimBlock, challengeBlock) ==
  derive_challenge(DemoProfile, ClaimOutpoint, claimBlock, ClaimDigest, challengeBlock)

WorkHash(claimBlock, challengeBlock, nonce) ==
  calculate_work_hash(ChallengeDigest(claimBlock, challengeBlock), ClaimDigest, 0, nonce)

Solutions(claimBlock, challengeBlock) ==
  {n \in Nonces : HashInt(WorkHash(claimBlock, challengeBlock, n)) <= demo.maximum_target}

\* mine_work returns the first (theorem NoPairSkipped).
MinedNonce(claimBlock, challengeBlock) ==
  CHOOSE n \in Solutions(claimBlock, challengeBlock) :
    \A m \in Solutions(claimBlock, challengeBlock) : n <= m

MintDigest(claimBlock, challengeBlock) ==
  LET nonce == MinedNonce(claimBlock, challengeBlock)
  IN  mint_commitment(DemoProfile, ClaimOutpoint,
                      ChallengeDigest(claimBlock, challengeBlock), 0, nonce,
                      WorkHash(claimBlock, challengeBlock, nonce), 1, TitleSeal)

ClaimTx ==
  [inputs  |-> {Coin},
   outputs |-> << [script |-> ClaimSeal, value |-> 2],
                  [script |-> marker_script("claim", ClaimDigest), value |-> 0],
                  [script |-> <<"seal", "change">>, value |-> 1] >>,
   cites   |-> {}]

MintTx(claimBlock, challengeBlock) ==
  [inputs  |-> {ClaimOutpoint},
   outputs |-> << [script |-> TitleSeal, value |-> 1],
                  [script |-> marker_script("mint", MintDigest(claimBlock, challengeBlock)),
                   value |-> 0] >>,
   cites   |-> {claimBlock, challengeBlock}]

\* Whatever the driver makes may be published, and the blocks the node starts with
\* fit its bound and cite only older ones.
ASSUME DriverTxAssumption ==
  /\ ClaimTxid \in TxIds /\ Tx[ClaimTxid] = ClaimTx
  /\ \A c, d \in 1..MaxBlocks : Solutions(c, d) # {} =>
       MintTxid(c, d) \in TxIds /\ Tx[MintTxid(c, d)] = MintTx(c, d)
  /\ Len(History) <= MaxBlocks
  /\ \A h \in DOMAIN History : \A t \in History[h] : Tx[t].cites \subseteq 1..(h - 1)
-----------------------------------------------------------------------------
VARIABLES
  at,        \* the RPC of main to make next
  then,      \* where to go on after mine_blocks
  toMine,    \* blocks mine_blocks has still to mine
  wallet,    \* "absent", "unloaded" or "loaded"
  funded,    \* whether the wallet's balance is enough
  got,       \* main's locals: the blocks and heights read so far, 0 if not yet
  file,      \* whether the bundle has been written to args.output
  exitCode,  \* -1 while main runs; 1 stands for a traceback or a refusal
  others     \* blocks other miners have added

driverVars == <<at, then, toMine, wallet, funded, got, file, exitCode>>
allVars == <<vars, driverVars, others>>

Places ==
  {"chain", "wallet", "balance", "claim", "claim_tx", "claim_header", "claim_proof",
   "count", "challenge", "work", "accept", "mint", "mint_tx", "mint_header",
   "mint_proof", "write", "mine", "verify", "end"}

NothingRead ==
  [claim_block |-> 0, claim_height |-> 0, challenge_block |-> 0, nonce |-> 0,
   mint_block |-> 0, mint_height |-> 0]

challenge_height == got.claim_height + demo.challenge_delay

Bundle ==
  LET challenge == ChallengeDigest(got.claim_block, got.challenge_block)
      mintTxid == MintTxid(got.claim_block, got.challenge_block)
  IN  [profile |-> DemoProfile,
       claim |->
         [outpoint |-> ClaimOutpoint, block |-> got.claim_block,
          height |-> got.claim_height,
          proof |-> [block |-> got.claim_block, txids |-> {ClaimTxid}],
          seal_script |-> ClaimSeal, algorithm |-> SHA256D,
          target |-> demo.maximum_target, commitment |-> ClaimDigest],
       work |->
         [challenge_height |-> challenge_height,
          challenge_block |-> got.challenge_block, challenge_digest |-> challenge,
          extra_nonce |-> 0, nonce |-> got.nonce,
          work_hash |-> WorkHash(got.claim_block, got.challenge_block, got.nonce)],
       mint |->
         [txid |-> mintTxid, block |-> got.mint_block, height |-> got.mint_height,
          proof |-> [block |-> got.mint_block, txids |-> {mintTxid}],
          title_vout |-> 1, title_script |-> TitleSeal,
          commitment |-> MintDigest(got.claim_block, got.challenge_block)],
       transfers |-> <<>>]
-----------------------------------------------------------------------------
\* What bundle holds before the driver has made one.
NoBundle == [profile |-> DemoProfile, transfers |-> <<>>]

DriverInit ==
  /\ NodeInit
  /\ bundle = NoBundle
  /\ pc = "idle" /\ stop = Claim /\ header = NoHeader /\ atHeight = 0 /\ best = 0
  /\ verdict = "none"
  /\ disturbed = {}
  /\ at = "chain" /\ then = "end" /\ toMine = 0
  /\ wallet \in {"absent", "unloaded", "loaded"}
  /\ funded \in BOOLEAN
  /\ got = NothingRead
  /\ file = FALSE
  /\ exitCode = -1
  /\ others = 0

Continue(place) == at' = place /\ UNCHANGED <<then, toMine, exitCode>>

Exit(code) == at' = "end" /\ exitCode' = code /\ UNCHANGED <<then, toMine>>

\* The call mine_blocks(wallet, count), made on the way to another place.
MineBlocks(count, place) ==
  /\ at' = "mine" /\ then' = place /\ toMine' = count
  /\ UNCHANGED exitCode

NodeUntouched == UNCHANGED nodeVars

CheckNetwork ==
  /\ at = "chain"
  /\ \/ Network = "regtest" /\ Continue("wallet")
     \/ Network # "regtest" /\ Exit(1)
  /\ UNCHANGED <<wallet, funded, got, file>> /\ NodeUntouched

\* ensure_wallet: an unloaded wallet is loaded, an absent one created.
EnsureWallet ==
  /\ at = "wallet"
  /\ wallet' = "loaded"
  /\ funded' = (funded /\ wallet # "absent")
  /\ Continue("balance")
  /\ UNCHANGED <<got, file>> /\ NodeUntouched

CheckBalance ==
  /\ at = "balance"
  /\ \/ funded /\ Continue("claim")
     \/ ~funded /\ MineBlocks(FundingBlocks, "claim")
  /\ funded' = TRUE
  /\ UNCHANGED <<wallet, got, file>> /\ NodeUntouched

\* generatetoaddress: blocks of everything the mempool holds, one by one.
MineBlock ==
  /\ at = "mine"
  /\ \/ /\ toMine > 0
        /\ \E work \in BlockWorks : Generate(mempool, work)
        /\ toMine' = toMine - 1
        /\ UNCHANGED <<at, then, exitCode>>
     \/ /\ toMine = 0
        /\ Continue(then)
        /\ NodeUntouched
  /\ UNCHANGED <<wallet, funded, got, file>>

\* sendrawtransaction, then mine_blocks(wallet, 1); a rejected transaction is an
\* RpcError.
SendAndMine(place, txid, next) ==
  /\ at = place
  /\ \/ Broadcast(txid) /\ MineBlocks(1, next)
     \/ ~Acceptable(txid) /\ Exit(2) /\ NodeUntouched
  /\ UNCHANGED <<wallet, funded, got, file>>

SendClaim == SendAndMine("claim", ClaimTxid, "claim_tx")

\* gettransaction has a blockhash only while the transaction is confirmed; the
\* KeyError is none of the exceptions that the script reports.
ReadConfirmation(place, txid, field, next) ==
  /\ at = place
  /\ \/ \E h \in DOMAIN chain :
          /\ txid \in blocks[chain[h]].txs
          /\ got' = [got EXCEPT ![field] = chain[h]]
          /\ Continue(next)
     \/ txid \notin Confirmed(chain) /\ Exit(1) /\ UNCHANGED got
  /\ UNCHANGED <<wallet, funded, file>> /\ NodeUntouched

ReadHeight(place, blockField, heightField, next) ==
  /\ at = place
  /\ got' = [got EXCEPT ![heightField] = Header(got[blockField]).height]
  /\ Continue(next)
  /\ UNCHANGED <<wallet, funded, file>> /\ NodeUntouched

ReadClaimBlock == ReadConfirmation("claim_tx", ClaimTxid, "claim_block", "claim_header")
ReadClaimHeight == ReadHeight("claim_header", "claim_block", "claim_height", "claim_proof")

\* gettxoutproof of a block the node has, which holds the transaction.
ReadClaimProof ==
  /\ at = "claim_proof"
  /\ Continue("count")
  /\ UNCHANGED <<wallet, funded, got, file>> /\ NodeUntouched

\* Mutant: blocks are asked for without looking whether any are missing.
MineToChallenge ==
  /\ at = "count"
  /\ MineBlocks(challenge_height - Len(chain), "challenge")
  /\ UNCHANGED <<wallet, funded, got, file>> /\ NodeUntouched

WaitForChallenge ==
  /\ at = "count"
  /\ \/ /\ Len(chain) < challenge_height
        /\ MineBlocks(challenge_height - Len(chain), "challenge")
     \/ Len(chain) >= challenge_height /\ Continue("challenge")
  /\ UNCHANGED <<wallet, funded, got, file>> /\ NodeUntouched

\* Mutant: the challenge is the tip, which is the challenge block when the driver
\* is alone.
ReadTipAsChallenge ==
  /\ at = "challenge"
  /\ got' = [got EXCEPT !.challenge_block = chain[Len(chain)]]
  /\ Continue("work")
  /\ UNCHANGED <<wallet, funded, file>> /\ NodeUntouched

ReadChallenge ==
  /\ at = "challenge"
  /\ \/ /\ challenge_height \in DOMAIN chain
        /\ got' = [got EXCEPT !.challenge_block = chain[challenge_height]]
        /\ Continue("work")
     \/ challenge_height \notin DOMAIN chain /\ Exit(2) /\ UNCHANGED got
  /\ UNCHANGED <<wallet, funded, file>> /\ NodeUntouched

SearchWork ==
  /\ at = "work"
  /\ \/ /\ Solutions(got.claim_block, got.challenge_block) # {}
        /\ got' = [got EXCEPT !.nonce = MinedNonce(got.claim_block, got.challenge_block)]
        /\ Continue("accept")
     \/ /\ Solutions(got.claim_block, got.challenge_block) = {}
        /\ Exit(2) /\ UNCHANGED got
  /\ UNCHANGED <<wallet, funded, file>> /\ NodeUntouched
-----------------------------------------------------------------------------
Mint_txid == MintTxid(got.claim_block, got.challenge_block)

TestAccept ==
  /\ at = "accept"
  /\ \/ Acceptable(Mint_txid) /\ Continue("mint")
     \/ ~Acceptable(Mint_txid) /\ Exit(2)
  /\ UNCHANGED <<wallet, funded, got, file>> /\ NodeUntouched

SendMint == SendAndMine("mint", Mint_txid, "mint_tx")

ReadMintBlock == ReadConfirmation("mint_tx", Mint_txid, "mint_block", "mint_header")
ReadMintHeight == ReadHeight("mint_header", "mint_block", "mint_height", "mint_proof")

\* Mutant: the mint's own block is counted as burial.
MineOneLess ==
  /\ at = "mint_proof"
  /\ MineBlocks(demo.minimum_burial_blocks - 1, "write")
  /\ UNCHANGED <<wallet, funded, got, file>> /\ NodeUntouched

\* gettxoutproof, then mine_blocks for the burial.
ReadMintProof ==
  /\ at = "mint_proof"
  /\ MineBlocks(demo.minimum_burial_blocks, "write")
  /\ UNCHANGED <<wallet, funded, got, file>> /\ NodeUntouched

Make ==
  /\ \/ CheckNetwork \/ EnsureWallet \/ CheckBalance \/ MineBlock
     \/ SendClaim \/ ReadClaimBlock \/ ReadClaimHeight \/ ReadClaimProof
     \/ WaitForChallenge \/ ReadChallenge \/ SearchWork
     \/ TestAccept \/ SendMint \/ ReadMintBlock \/ ReadMintHeight \/ ReadMintProof
  /\ UNCHANGED <<verifierVars, bundle, disturbed, others>>

\* The bundle is on disk before it is verified.
WriteBundle ==
  /\ at = "write"
  /\ bundle' = Bundle
  /\ file' = TRUE
  /\ Continue("verify")
  /\ Goto("network", Claim)
  /\ UNCHANGED <<nodeVars, header, atHeight, best, disturbed, wallet, funded, got, others>>

Verify ==
  /\ at = "verify"
  /\ Call
  /\ UNCHANGED <<driverVars, others>>

\* A VerificationError is reported; what else leaves verify_bundle may be none of
\* the exceptions that the script reports, one of http.client for instance.
Report ==
  /\ at = "verify" /\ pc = "done"
  /\ \E code \in CASE verdict = "VALID" -> {0} [] verdict = "UNCAUGHT" -> {1, 2}
                     [] OTHER -> {2} : Exit(code)
  /\ UNCHANGED <<vars, wallet, funded, got, file, others>>

\* Any other call of main may fail too, and so may bundle.write: nothing is verified
\* then, and the OSError is one of the exceptions that the script reports.
CallFails ==
  /\ RpcCanFail
  /\ at \notin {"work", "verify", "end"}
  /\ \E code \in {1, 2} : Exit(code) /\ (at = "write" => code = 2)
  /\ UNCHANGED <<vars, wallet, funded, got, file, others>>

\* The node has done what it was asked, and only its reply is lost (module JsonRpc).
ReplyLost ==
  /\ RpcCanFail
  /\ \/ at = "claim" /\ Broadcast(ClaimTxid)
     \/ at = "mint" /\ Broadcast(Mint_txid)
     \/ at = "mine" /\ toMine > 0 /\ \E work \in BlockWorks : Generate(mempool, work)
  /\ \E code \in {1, 2} : Exit(code)
  /\ UNCHANGED <<verifierVars, bundle, disturbed, wallet, funded, got, file, others>>

DriverStep == Make \/ WriteBundle \/ Verify \/ Report \/ CallFails \/ ReplyLost

\* Another miner takes what it likes from the mempool.
OthersMine ==
  /\ others < MaxOthers
  /\ others' = others + 1
  /\ \E txids \in SUBSET mempool, work \in BlockWorks : Generate(txids, work)
  /\ UNCHANGED <<verifierVars, bundle, disturbed, driverVars>>

\* Bound: the reorganizations that fall into the final assay are left to module
\* Verifier.
OthersReorganize ==
  /\ ~file
  /\ Reorganize
  /\ UNCHANGED <<verifierVars, bundle, disturbed, driverVars, others>>

SharedNext == DriverStep \/ OthersMine

DriverNext == SharedNext \/ OthersReorganize

DriverSpec == DriverInit /\ [][DriverNext]_allVars /\ WF_allVars(DriverStep)

\* The same without reorganizations.
SharedSpec == DriverInit /\ [][SharedNext]_allVars /\ WF_allVars(DriverStep)
-----------------------------------------------------------------------------
(* Properties *)

DriverTypeOK ==
  /\ NodeTypeOK
  /\ at \in Places /\ then \in Places
  /\ toMine \in Nat
  /\ wallet \in {"absent", "unloaded", "loaded"}
  /\ funded \in BOOLEAN
  /\ got \in [DOMAIN NothingRead -> Nat]
  /\ file \in BOOLEAN
  /\ exitCode \in {-1, 0, 1, 2}
  /\ others \in 0..MaxOthers

BlocksOnChain == \A k \in Stops(bundle) : OnActiveChain(StopBlock(bundle, k))

\* Every record of a bundle the driver writes is true of the chain, although the
\* records were read one by one among other miners and reorganizations, whenever
\* the three blocks it names are on the chain; only the mint may have come too late
\* for its window (regtest_demo.py:123-235).
BundleIsHonest ==
  file /\ BlocksOnChain =>
    /\ OwnDigests(bundle) /\ ProofsOnChain
    /\ GenuineClaim(chain, bundle) /\ GenuineWork(chain, bundle)
    /\ ConfirmedAt(chain, bundle.mint.txid, bundle.mint.block, bundle.mint.height)
    /\ bundle.mint.height > bundle.work.challenge_height
    /\ InMintWindow(bundle) => GenuineMint(chain, bundle)

\* The driver reports success only for a genuine, buried atom of the chain it ends
\* with: a block it read and built on that was disconnected before the bundle was
\* written, a mint made for a dead challenge, and a reply that was lost are never
\* taken for success (regtest_demo.py:236-245).
SuccessIsAnAtom ==
  exitCode = 0 => GenuineHistory(chain, bundle) /\ Buried(chain, bundle)

\* While the chain only grows and no call fails, the driver ends with an atom that
\* verifies; the one thing other miners can do to it is to fill the mint window.
DriverMakesAtom ==
  <>(exitCode = 0 \/ (exitCode = 2 /\ verdict = "MINT_OUTSIDE_WINDOW"))
=============================================================================
