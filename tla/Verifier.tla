------------------------------ MODULE Verifier ------------------------------
(* verify_bundle (goldatom/verify.py) run by a CoreBitcoinView against a node  *)
(* that keeps changing: every RPC is a step of its own, so blocks, spends and  *)
(* reorganizations fall between any two of them.                               *)
(*                                                                             *)
(* stop is the block of the bundle being verified and pc the RPC to make next: *)
(*   idle       verify_bundle has not been called yet                          *)
(*   network    getblockchaininfo, then the checks before any block is loaded  *)
(*   header     getblockheader of the stop's block                             *)
(*   height     getblockhash of the stop's height                              *)
(*   canonical  getblockheader of that block                                   *)
(*   proof      verifytxoutproof                                               *)
(*   included   getrawtransaction, made by verify_inclusion                    *)
(*   fetch      getrawtransaction, made by get_transaction                     *)
(*   place      getblockheader, made by get_transaction                        *)
(*   coin       gettxout of the terminal title                                 *)
(*   best       getbestblockhash                                               *)
(*   tip        getblockheader of that block                                   *)
EXTENDS GenuineAtom

CONSTANTS
  Network,     \* what getblockchaininfo reports
  Bundles,     \* the bundles a caller may present
  RpcCanFail   \* whether a call may fail: refused, timed out, or an RPC error

\* models.py has checked the shape of a bundle before verify_bundle sees it.
ASSUME VerifierAssumption ==
  /\ RpcCanFail \in BOOLEAN
  /\ \A b \in Bundles :
       /\ {b.claim.height, b.work.challenge_height, b.mint.height} \subseteq Nat
       /\ Len(b.transfers) \in Nat

VARIABLES
  bundle,     \* the bundle being verified
  pc, stop,   \* the next RPC and the block of the bundle it is for
  header,     \* the header read for the stop's block, until it is compared
  atHeight,   \* the block hash getblockhash returned, until it is compared
  best,       \* the block hash getbestblockhash returned; as_of_tip_hash
  verdict,    \* "none", "VALID", a VerificationError code, or "UNCAUGHT"
  disturbed   \* history: heights whose block was disconnected meanwhile

verifierVars == <<pc, stop, header, atHeight, best, verdict>>
vars == <<nodeVars, verifierVars, bundle, disturbed>>

Pcs == {"idle", "network", "header", "height", "canonical", "proof", "included",
        "fetch", "place", "coin", "best", "tip", "done"}

HeaderLookup == {"header", "height", "canonical"}
TransactionLookup == {"proof", "included", "fetch", "place"}

TypeOK ==
  /\ NodeTypeOK
  /\ bundle \in Bundles
  /\ pc \in Pcs
  /\ stop \in Stops(bundle)
  /\ header \in [height : Nat, confirmations : Int, chainwork : Nat]
  /\ atHeight \in Nat
  /\ best \in Nat
  /\ verdict = "none" <=> pc # "done"
  /\ disturbed \subseteq Nat
-----------------------------------------------------------------------------
NoHeader == [height |-> 0, confirmations |-> 0, chainwork |-> 0]

Init ==
  /\ NodeInit
  /\ bundle \in Bundles
  /\ pc = "idle"
  /\ stop = Claim
  /\ header = NoHeader
  /\ atHeight = 0
  /\ best = 0
  /\ verdict = "none"
  /\ disturbed = {}

\* Mutant: the loop over the stops does not advance.
GotoSameStop(nextPc, nextStop) ==
  pc' = nextPc /\ UNCHANGED <<stop, verdict>>

Goto(nextPc, nextStop) ==
  pc' = nextPc /\ stop' = nextStop /\ UNCHANGED verdict

\* Mutant: an error is logged and dropped.
FinishSilently(outcome) ==
  pc' = "done" /\ UNCHANGED <<stop, verdict>>

Finish(outcome) ==
  pc' = "done" /\ verdict' = outcome /\ UNCHANGED stop

Fail(checks) ==
  \E i \in DOMAIN checks : FirstFailure(checks, i) /\ Finish(checks[i].code)

Decide(checks, nextPc, nextStop) ==
  \E made \in {checks} :
    \/ Passes(made) /\ Goto(nextPc, nextStop)
    \/ Fail(made)

ReadNetwork ==
  /\ pc = "network"
  /\ Decide(StartChecks(bundle, Network), "header", Claim)
  /\ UNCHANGED <<header, atHeight, best>>

\* _require_canonical_header
ReadHeader ==
  /\ pc = "header"
  /\ \/ /\ StopBlock(bundle, stop) \in BlockHashes
        /\ header' = Header(StopBlock(bundle, stop))
        /\ Goto("height", stop)
     \/ /\ StopBlock(bundle, stop) \notin BlockHashes
        /\ Finish("HEADER_LOOKUP")
        /\ UNCHANGED header
  /\ UNCHANGED <<atHeight, best>>

ReadHashAtHeight ==
  /\ pc = "height"
  /\ \/ /\ StopHeight(bundle, stop) \in DOMAIN chain
        /\ atHeight' = chain[StopHeight(bundle, stop)]
        /\ Goto("canonical", stop)
     \/ /\ StopHeight(bundle, stop) \notin DOMAIN chain
        /\ Finish("HEADER_LOOKUP")
        /\ UNCHANGED atHeight
  /\ UNCHANGED <<header, best>>

\* Mutant: a block that exists at the claimed height is taken as canonical.
HeightChecksOnly(b, k) ==
  << Check("HEADER_MISMATCH", header.height = StopHeight(b, k)) >>

CanonicalChecks(b, k) ==
  << Check("HEADER_MISMATCH", header.height = StopHeight(b, k)),
     Check("NONCANONICAL_BLOCK", header.confirmations >= 1),
     Check("REORGED_BLOCK", atHeight = StopBlock(b, k)) >>

ReadHeaderAtHeight ==
  /\ pc = "canonical"
  /\ \/ /\ stop # Challenge
        /\ Decide(CanonicalChecks(bundle, stop), "proof", stop)
     \/ /\ stop = Challenge
        /\ Decide(CanonicalChecks(bundle, stop) \o ChallengeChecks(bundle),
                  "header", Mint)
  /\ header' = NoHeader /\ atHeight' = 0
  /\ UNCHANGED best
-----------------------------------------------------------------------------
\* verify_inclusion
VerifyProof ==
  /\ pc = "proof"
  /\ LET proof == StopProof(bundle, stop) IN
     \/ /\ ~OnActiveChain(proof.block)
        /\ Finish("TRANSACTION_LOOKUP")
     \/ /\ OnActiveChain(proof.block)
        /\ Decide(<<Check("BAD_INCLUSION_PROOF",
                          StopTxid(bundle, stop) \in CommittedTxids(proof))>>,
                  "included", stop)
  /\ UNCHANGED <<header, atHeight, best>>

CheckIncluded ==
  /\ pc = "included"
  /\ \/ /\ StopTxid(bundle, stop) \notin blocks[StopBlock(bundle, stop)].txs
        /\ Finish("TRANSACTION_LOOKUP")
     \/ /\ StopTxid(bundle, stop) \in blocks[StopBlock(bundle, stop)].txs
        /\ Decide(<<Check("BAD_INCLUSION_PROOF",
                          OnActiveChain(StopBlock(bundle, stop)))>>,
                  "fetch", stop)
  /\ UNCHANGED <<header, atHeight, best>>

\* get_transaction
FetchTransaction ==
  /\ pc = "fetch"
  /\ Decide(<<Check("TRANSACTION_LOOKUP",
                    OnActiveChain(StopBlock(bundle, stop)))>>, "place", stop)
  /\ UNCHANGED <<header, atHeight, best>>

PlaceTransaction ==
  /\ pc = "place"
  /\ LET checks ==
           <<Check("TRANSACTION_MISMATCH",
                   Header(StopBlock(bundle, stop)).height = StopHeight(bundle, stop))>>
           \o StopChecks(bundle, stop, Tx[StopTxid(bundle, stop)])
     IN  \/ /\ stop + 1 \in Stops(bundle)
            /\ Decide(checks, "header", stop + 1)
         \/ /\ stop + 1 \notin Stops(bundle)
            /\ Decide(checks, "coin", stop)
  /\ UNCHANGED <<header, atHeight, best>>
-----------------------------------------------------------------------------
\* The script and the value that gettxout returns are those of the output that
\* the last stop fetched, so the two checks that compare them cannot fail.
\* Mutant: the coin is looked up among the confirmed outputs, spent or not.
CoinConfirmedOnly(b) ==
  << Check("CURRENT_TITLE_UNCONFIRMED", CoinConfirmations(TerminalTitle(b)) >= 1) >>

CoinChecks(b) ==
  << Check("TITLE_SPENT_OR_MISSING", Visible(TerminalTitle(b))),
     Check("CURRENT_TITLE_UNCONFIRMED", CoinConfirmations(TerminalTitle(b)) >= 1) >>

ReadCoin ==
  /\ pc = "coin"
  /\ Decide(CoinChecks(bundle), "best", stop)
  /\ UNCHANGED <<header, atHeight, best>>

ReadBestHash ==
  /\ pc = "best"
  /\ best' = chain[Len(chain)]
  /\ Goto("tip", stop)
  /\ UNCHANGED <<header, atHeight>>

\* Mutant: the work of the whole branch is counted, not only that above the mint.
TipTotalWork(b, tip, mintChainwork) ==
  << Check("BAD_TIP", tip.confirmations >= 1),
     Check("INSUFFICIENT_BURIAL",
           tip.height - b.mint.height >= Profiles[b.profile].minimum_burial_blocks),
     Check("INSUFFICIENT_CHAINWORK",
           tip.chainwork >= Profiles[b.profile].minimum_burial_chainwork) >>

\* Mutant: the minimum burial itself is refused.
TipAboveMinimum(b, tip, mintChainwork) ==
  << Check("INSUFFICIENT_BURIAL",
           tip.height - b.mint.height > Profiles[b.profile].minimum_burial_blocks),
     Check("INSUFFICIENT_CHAINWORK",
           tip.chainwork - mintChainwork
             > Profiles[b.profile].minimum_burial_chainwork) >>

\* The chainwork subtracted is that of the mint header read at the mint stop.
TipChecks(b, tip, mintChainwork) ==
  << Check("BAD_TIP", tip.confirmations >= 1),
     Check("INSUFFICIENT_BURIAL",
           tip.height - b.mint.height >= Profiles[b.profile].minimum_burial_blocks),
     Check("INSUFFICIENT_CHAINWORK",
           tip.chainwork - mintChainwork
             >= Profiles[b.profile].minimum_burial_chainwork) >>

ReadTip ==
  /\ pc = "tip"
  /\ LET checks == TipChecks(bundle, Header(best), blocks[bundle.mint.block].chainwork)
     IN  \/ Passes(checks) /\ Finish("VALID")
         \/ Fail(checks)
  /\ UNCHANGED <<header, atHeight, best>>

\* Inside the two try blocks a failed call becomes a VerificationError; outside
\* them it leaves verify_bundle as it is.
RpcFails ==
  /\ RpcCanFail
  /\ \/ pc \in HeaderLookup /\ Finish("HEADER_LOOKUP")
     \/ pc \in TransactionLookup /\ Finish("TRANSACTION_LOOKUP")
     \/ pc \in {"network", "coin", "best", "tip"} /\ Finish("UNCAUGHT")
  /\ UNCHANGED <<header, atHeight, best>>
-----------------------------------------------------------------------------
\* The caller may have the bundle long before it calls verify_bundle.
Begin ==
  /\ pc = "idle"
  /\ Goto("network", Claim)
  /\ disturbed' = {}
  /\ UNCHANGED <<nodeVars, bundle, header, atHeight, best>>

Call ==
  /\ \/ ReadNetwork \/ ReadHeader \/ ReadHashAtHeight \/ ReadHeaderAtHeight
     \/ VerifyProof \/ CheckIncluded \/ FetchTransaction \/ PlaceTransaction
     \/ ReadCoin \/ ReadBestHash \/ ReadTip \/ RpcFails
  /\ UNCHANGED <<nodeVars, bundle, disturbed>>

Step == Begin \/ Call

ChainGrows == Extend /\ UNCHANGED <<verifierVars, bundle, disturbed>>

ChainReorganizes ==
  /\ Reorganize
  /\ disturbed' = disturbed \cup
       {h \in DOMAIN chain : h \in DOMAIN chain' => chain'[h] # chain[h]}
  /\ UNCHANGED <<verifierVars, bundle>>

Next == Step \/ ChainGrows \/ ChainReorganizes

Spec == Init /\ [][Next]_vars /\ WF_vars(Step)

\* The same without reorganizations.
NextAppend == Step \/ ChainGrows

AppendSpec == Init /\ [][NextAppend]_vars /\ WF_vars(Step)
-----------------------------------------------------------------------------
(* Properties *)

Undisturbed == {StopHeight(bundle, k) : k \in Stops(bundle)} \cap disturbed = {}

\* A bundle that verify_bundle accepts is a genuine atom of the active chain,
\* all of it at once, although its parts were read at different times: claim,
\* work, mint and transitions hold together as long as no block they are in was
\* disconnected meanwhile, whatever happened above them.
AcceptedIsGenuine ==
  verdict = "VALID" /\ Undisturbed =>
    /\ bundle.profile \in DOMAIN Profiles
    /\ Network = Profiles[bundle.profile].network
    /\ GenuineHistory(chain, bundle)

\* The burial in the report is depth on one branch: the mint block is an
\* ancestor of the block the report names as its tip, deep enough below it in
\* blocks and in work (verify.py reads the two headers many calls apart).
BurialOnReportedBranch ==
  verdict = "VALID" /\ bundle.mint.height \notin disturbed =>
    LET branch == blocks[best].branch
    IN  /\ branch[bundle.mint.height] = bundle.mint.block
        /\ Buried(branch, bundle)

\* While the chain only grows, a title that is spent at any time before its coin
\* is read is never reported valid, neither is one whose spender came too late to
\* be in the bundle.
SpentTitleRejected ==
  [](~TitleUnspent(chain, bundle) /\ pc \notin {"best", "tip", "done"}
       => [](verdict # "VALID"))

\* No false rejection: if a bundle is a genuine, buried atom with an unspent and
\* visible title while verify_bundle runs, it ends and accepts the bundle, even
\* with blocks arriving and reorganizations going on between its calls.  The one
\* exception is a reorganization between getbestblockhash and getblockheader,
\* which ends in BAD_TIP.
StaysGood ==
  /\ bundle.profile \in DOMAIN Profiles
  /\ Network = Profiles[bundle.profile].network
  /\ GenuineHistory(chain, bundle)
  /\ Visible(TerminalTitle(bundle))
  /\ Buried(chain, bundle)

ProofsOnChain ==
  \A k \in Stops(bundle) \ {Challenge} :
    /\ StopProof(bundle, k).block = StopBlock(bundle, k)
    /\ StopTxid(bundle, k) \in CommittedTxids(StopProof(bundle, k))

GoodAtomAccepted ==
  [](pc \notin {"idle", "done"} => StaysGood /\ ProofsOnChain)
    => <>(verdict = "VALID" \/ (verdict = "BAD_TIP" /\ disturbed # {}))

\* Every call that verify_bundle makes brings its end nearer, whatever it is
\* answered and whatever the chain does between two calls: no header is looked up
\* again, no stop is skipped or visited twice, and the calls are seven for each
\* transaction of the bundle, three for its challenge and four of the assay's own.
CallsAtStop ==
  CASE pc = "header"   -> 7
    [] pc = "height"   -> 6
    [] pc = "canonical" -> 5
    [] pc = "proof"    -> 4
    [] pc = "included" -> 3
    [] pc = "fetch"    -> 2
    [] pc = "place"    -> 1
    [] OTHER           -> 0

CallsLeft ==
  LET later == 7 * (Mint + Len(bundle.transfers) - stop)
  IN  CASE pc \in {"idle", "network"} -> 21 + 7 * Len(bundle.transfers)
        [] pc = "coin" -> 3
        [] pc = "best" -> 2
        [] pc = "tip"  -> 1
        [] pc = "done" -> 0
        [] OTHER -> CallsAtStop + later + 3 - (IF stop <= Challenge THEN 4 ELSE 0)

CallsRunOut ==
  [][IF Call THEN CallsLeft' < CallsLeft ELSE CallsLeft' = CallsLeft]_vars

\* SPEC-0 section 12 and 14: the report names the tip at which the assay was
\* calculated, and there the terminal title is in the UTXO set.
TitleUnspentAtReportedTip ==
  verdict = "VALID" => TitleUnspent(blocks[best].branch, bundle)

\* SPEC-0 section 17: once its mint or challenge block is out of the active
\* chain, the old bundle is not valid under the new history.
MintOnReportedBranch ==
  verdict = "VALID" =>
    ConfirmedAt(blocks[best].branch, bundle.mint.txid, bundle.mint.block,
                bundle.mint.height)
=============================================================================
