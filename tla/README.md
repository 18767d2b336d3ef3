# GoldAtom/0 in TLA+

GoldAtom/0 is a verifier-first prototype of "proof-buried work": a Bitcoin
transaction *claims* a target and a seal, a later block fixes a *challenge*, local
SHA-256d *work* answers it, a second transaction *mints* a title by spending the
seal inside a window of heights, and the title then moves by *transfers*.  Nothing
is stored but Bitcoin transactions and a proof *bundle* (JSON) that anybody can
re-verify against a Bitcoin Core node.

## 1. The system

| component | state | operations | talks to |
|---|---|---|---|
| verifier, `goldatom/verify.py` | locals of one call: current title outpoint, script, value, height; headers read | `verify_bundle`, `_require_canonical_header`, `_load_confirmed_transaction` | a `BitcoinView`, by calls; raises `VerificationError(code)` |
| Bitcoin view over Core, `goldatom/core_rpc.py` (`CoreBitcoinView`), `view.py` | cached network name | `network`, `get_header`, `get_header_by_height`, `verify_inclusion`, `get_transaction`, `get_utxo`, `get_tip` | Bitcoin Core, one or two RPCs per operation |
| JSON-RPC client, `goldatom/core_rpc.py` (`JsonRpcClient`) | next request id | `call`, `child`, `_decode_response` | HTTP |
| digests and markers, `goldatom/protocol.py`, `encoding.py`, `profiles.py` | none | claim, challenge, mint and transfer commitments, AtomID, markers, profiles | pure |
| local work, `goldatom/protocol.py` (`mine_work`) | extra nonce, nonce, attempts | the search loop | pure, long-running |
| proof bundle, `goldatom/models.py` | immutable records, the bundle file | strict reading and writing | file system |
| in-memory view, `goldatom/testing.py`, fixture `demo.py` | dictionaries of headers, transactions, proofs, coins; the tip | the same view operations, `spend_utxo`, `replace_header` | the tests |
| command line, `goldatom/cli.py` | none | `simulate`, `inspect`, `verify` | all of the above |
| regtest driver, `scripts/regtest_demo.py` | locals of one run, wallet and chain of the node, the bundle file | claim, wait, work, mint, bury, write, verify | a shared regtest node |
| live validation, `scripts/run_live_core_validation.py` | a node process, files of evidence | start, drive, tamper, reorganize, restore, stop | a private node |
| vector checker, `scripts/verify_vectors.mjs` | none | an independent parser and hasher | files |
| vector generator, `scripts/generate_test_vectors.py` | the example bundles | write the fixtures, verify them | files |
| `goldatom/economics.py`, `simulation/`, `site/`, `docs/`, `validation/` | none | floating-point studies, pages, recorded evidence | - |

**What is hard here.**  `verify_bundle` is sequential, but it makes some twenty
RPCs and the chain moves between any two of them: blocks arrive, the title is spent
in the mempool or in a block, a reorganization disconnects a block that has
already been found canonical.  Every fact the verdict combines is therefore read
at a different moment.  The same holds for the regtest driver, which reads heights
and blocks between its own sends.  Boundaries (mint window, challenge delay,
minimum burial, the two 32-bit work counters) are exact.  Markers are counted, not
searched, so the verdict depends on outputs that have nothing to do with the atom,
and one transaction may be the mint of one atom and the transfer of another.  Every
RPC goes over HTTP, where replies are lost, late or somebody else's; a bundle is
read by two parsers of different strictness.  `hazards` in `PROJECT.json` lists all
of these at their lines.

What makes each component correct:

- verifier: what it accepts is a genuine atom of one chain, although it was read in
  twenty moments; burial is measured on one branch; a spent title is refused; a good
  atom is not refused for what happens around it;
- the ledger that the verifier's verdicts amount to: one atom per claim, one current
  title per atom, and both go forward and back with the chain;
- local work: no counter pair is skipped or tried twice, the limits are exact;
- JSON-RPC client: a result is the reply to the request that was made, every wait ends
  (whether a failed request was executed, its exception does not tell: a connection refused
  and one reset after the node did as asked are both `ConnectionError`s);
- bundle format: what is written is read back as it was, by both parsers;
- command line: status 0 says that the atom stands, end to end, and a traceback says
  nothing about the bundle;
- fixture and in-memory view: the fixture is an atom to every verifier, and a test's
  change to the view is what it says;
- regtest driver: what it writes is true of the chain whoever else mines, success means an
  atom, and on a chain that only grows it ends with one unless the mint window fills up;
- live validation: its expectations are right about the verifier, what it counts as
  rejected is no atom, a "pass" speaks of an atom that stands, the node is stopped;
- vector checker: the two implementations stop at the same rule.

## 2. Modules

In the order in which they build on each other:

| module | models | composed of |
|---|---|---|
| `Protocol` | profiles, digests as injective tagged tuples, markers, work hashes (`HashInt` is an arbitrary function) | - |
| `BitcoinNode` (external) | Bitcoin Core as the code uses it: block index, active chain, mempool, the replies of the RPCs; blocks, broadcasts, reorganizations | - |
| `BundleChecks` | every check of `verify_bundle` that computes on a bundle and a fetched transaction, as lists in the code's order | `Protocol` |
| `GenuineAtom` | what an atom *is*, said of one chain as a whole and not in the verifier's terms; vocabulary of the properties | `BundleChecks`, `BitcoinNode` |
| `Verifier` | `verify_bundle` and `CoreBitcoinView`, one RPC per step | `GenuineAtom` |
| `Assay` | abstract specification: an assay is two moments, *hold* and *accept* | `GenuineAtom` |
| `AssayRefinement` | the mapping under which `Verifier` implements `Assay` | `Verifier`, `Assay` |
| `TitleLedger` | all the atoms that a chain carries: what `verify_bundle` accepts among all the histories anybody may present, while the chain changes | `GenuineAtom` |
| `VectorChecker` | `verify_vectors.mjs`, with preimages of its own | `Verifier` |
| `JsonRpc` | `JsonRpcClient` on a path that loses, delays, repeats and fakes replies | - |
| `BundleFormat` | documents as fields with classes of values; `models.py` reading and writing, `validateShape` reading | - |
| `Simulation` | `FakeBitcoinView`, `build_simulated_fixture`, `verify_bundle` over them | `BundleChecks` |
| `CommandLine` | `cli.py`, one process after the other on one file | `VectorChecker`, `JsonRpc`, `BundleFormat`, `Simulation` |
| `RegtestDriver` | `regtest_demo.py`, one RPC per step, ending in `Verifier`'s calls | `Verifier` |
| `LiveValidation` | `run_live_core_validation.py` around the driver, five assays and the checker | `RegtestDriver`, `VectorChecker` |
| `MineWork` | `mine_work`, one candidate header per step | - |
| `GenuineAtomProofs` (and the node), `VerifierProofs`, `AcceptanceProofs`, `AssayProofs`, `TitleLedgerProofs`, `DriverProofs`, `CommandLineProofs`, `MineWorkProofs` | theorems and their lemmas (section 6) | the modules they speak of |
| `MCVerifier`, `MCTitleLedger`, `MCCommandLine`, `MCRegtestDriver`, `MCLiveValidation`, `MCMineWork` | instances for TLC; `MCBundles` has what three of them share | |

`PROJECT.json` maps the definitions to their lines.

## 3. How the model corresponds to the code

**Verifier.**  A bundle names a chain of *stops*: the claim block, the challenge
block, the mint block and one block per transfer.  `stop` is the one being loaded
and `pc` the RPC to make next, so a step of the model is one RPC together with
everything the code does until the next one.  The locals that live across an RPC
are variables (`header`, `atHeight`, `best`); those that are functions of the
bundle and the stop are operators (`TitleAt` is `current_outpoint`).  `_fail` is the
first failing check of a list: `StartChecks`, `ClaimChecks`, ... hold the checks in
the order of the code, and a list split by an RPC is split in the model too.  The two
`try` blocks turn a failed call into `HEADER_LOOKUP` or `TRANSACTION_LOOKUP`
(`RpcFails`); elsewhere it leaves `verify_bundle` (`UNCAUGHT`).

**Data.**  A digest is the tuple of everything hashed.  Equal digests have equal
preimages (collision resistance), and a field missing from a preimage is missing
from the tuple.  A transaction is its inputs and its outputs' scripts, outputs
counted from 1; a script is a template and a payload.  A proof is a block and the
txids it commits to.  Block hashes are numbers in the order of discovery, and `cites`
says which blocks a transaction's commitments depend on, so that nobody mints before
the challenge block exists.

**Node.**  `Generate` extends the active chain by any set of transactions that
consensus allows, `Broadcast` fills the mempool, `Activate` makes any known branch
active: a heavier branch won, or somebody called `invalidateblock` or
`reconsiderblock`.  The mempool after a change of the chain is what survives with
its ancestors.  `verifytxoutproof` answers only for active blocks, `gettxout` looks
through the mempool, `getrawtransaction` with a block hash answers for inactive
blocks as well: these differences decide what an assay can miss.

**Ledger.**  No program stores the ledger.  `Histories` are told with the heights and
blocks open; a publisher fills in where each transaction is confirmed (`Placed`, as the
driver does), and `Accepted` are those that `verify_bundle` would pass on the chain at
rest.  `Proved` leaves out the title's coin, so that a burnt atom is still somewhere in
the ledger.  `Forward` says what later blocks may do to an atom: mint it, move its title
by one or more transfers, burn it.

**JSON-RPC.**  The answer to a question is the question, so that an answer to another
one shows.  Requests wait in `sent` until the node executes them, perhaps after the
client gave up; `replies` keeps every body, and `Receive` may deliver any of them,
any number of times, with or without an HTTP error status, or a foreign body
(`ForeignBodies`: a proxy's page, malformed JSON, a number or a nesting that
`json.loads` gives up on, an object without a fitting id).  `_decode_response` has the
code's order of tests; `Received` adds the fallback that only HTTP errors have.
"Could not connect" withdraws the request; a timeout or a cut connection does not.

**Bundle format.**  A document counts every field and has the class of its last value
(a 32-byte hash, other hex, an empty string, an integer in or beyond 32 bits, `1.0`,
`null` and so on).  `ReadOutcome` is `GoldAtomBundle.read`: unknown, missing and repeated
fields, the classes each record's `__post_init__` takes.  `CheckerReads` is
`validateShape` and the `require*` calls.  Where the two differ the model shows it:
JavaScript does not tell `1.0` from `1` and keeps the last of two equal keys; Python has
defaults for three fields.

**Simulation.**  A dictionary is a function; the fixture is built as `demo.py` builds it,
with the search of `mine_work` as its first solution, and every value of it has a name, so
that proofs can speak of it.  `SimVerdict` is `verify_bundle`
over the dictionaries, with the same lists of checks as `Verifier` but the view's own
replies.  The view needs no heaviest chain: `replace_header` leaves a hash unknown, and so
the test of a challenge reorganization sees `HEADER_LOOKUP` (`test_protocol.py:72`) where
Bitcoin Core, which still knows the block, leads to `NONCANONICAL_BLOCK` or
`REORGED_BLOCK`; the live validation gets `HEADER_LOOKUP` for another reason, a chain too
short for the height.

**Command line.**  Each process starts from nothing but the file.  `verify` reads it,
runs `Verifier`'s own actions and puts every RPC through `JsonRpc` (`Ask`, `NodeExecutes`,
`Deliver`, `TimesOut`, `Answer`); the chain stands still, since `Verifier` has it move.
`fault` is a history variable that says what went wrong besides the bundle.  Exit status 1 is an
uncaught exception.  A process may be killed at any time; `WriteFile` truncates before it
writes.  `Session` is a test with a fixture of its own.

**Driver.**  `at` is the RPC of `main` to make next and `got` its locals.
`mine_blocks` is one step per block, with other miners in between.  The mint's
txid is a function of the two blocks the challenge is derived from, so a driver
that read the wrong block makes another transaction.  `gettransaction` has a block
hash only while the transaction is confirmed.  A call that changes the node may take
effect and lose its reply (`ReplyLost`); the driver then ends, and nothing resumes it.
`CallFails` has the other failures, that of `bundle.write` among them; `file` stands for a bundle
that was written completely.

**Live validation.**  `step` is the place in `main`; while an assay runs it has the
assay's name.  `Raise` leaves the `try` statement for its `finally` (`StopNode`).
Before the `try`, failures end the script directly, that of `rmtree` with or without the summary
of an earlier run still there.

## 4. Runs

| run | instance | properties |
|---|---|---|
| `tampered_bundles` | 12 lineages on a fixed chain of 6 blocks, 62 bundles | `AcceptedIsGenuine`, `GoodAtomAccepted`, `CheckersAgree` |
| `growing_chain` | one lineage, up to 6 blocks with any transactions, mempool spends, failing RPCs | `SpentTitleRejected`, `BurialOnReportedBranch`, `ImplementsAssay` |
| `reorganizing_chain` | mint and transfer may be disconnected and confirmed again, 6 blocks known in all | `TypeOK`, `BurialOnReportedBranch`, `CallsRunOut`, `GoodAtomAccepted` |
| `challenge_reorganized` | reorganizations down to the claim, bundles with old and refreshed mints | `AcceptedIsGenuine` |
| `title_ledger` | two claims, nine transactions in rivalry, 13 histories, 5 blocks known in all, 15 thousand states | `OneAtomPerClaim`, `OneTitlePerAtom`, `TitleSharedOnlyByMintAndTransfer`, `LedgerFollowsChain` |
| `command_line` | two commands in a row, over any path; a file with a good bundle, five bad ones, every one-field departure, a part of one, or nothing; 65 thousand states | `OutcomeIsTheNodes`, `ZeroMeansGenuine`, `TracebackIsNoVerdict`, `ListingIsTheBundle`, `SimulationStands`, `EveryCommandEnds` |
| `mine_work` | 2x2 counters, every assignment of three hash values, every start, targets out of range, several limits | `NothingSkipped`, `AttemptsCounted`, `SoundResult`, `SearchDecides` |
| `driver_shared_node` | 3 blocks of other miners, any part of the mempool in each | `DriverTypeOK`, `BundleIsHonest`, `DriverMakesAtom` |
| `driver_reorganized` | reorganizations and one block of another miner, failing calls, lost replies, a challenge without a solution; 972 thousand states | `BundleIsHonest`, `SuccessIsAnAtom` |
| `live_validation` | the whole script, anything may fail | `ExpectationsHold`, `CountedRejectionsAreRight`, `PassedAtomStands`, `NodeIsStopped` |
| `title_spent_at_reported_tip` | a block between two calls (finding) | `TitleUnspentAtReportedTip` violated |
| `mint_not_on_reported_branch` | a reorganization between two calls (finding) | `MintOnReportedBranch` violated |

**Bounds and why they are enough.**  Profiles in the instances have a challenge
delay of 1 or 2 and a window of 2 (3 and 12 in the code): enough for a mint at the
first, the last and one past the last height.  `MaxBlocks` leaves at least two
blocks beyond what the bundle needs, so that its last transaction can be
disconnected and confirmed in another block, and another block can be put on top.
`Floor` is the height up to which blocks are never disconnected; in
`challenge_reorganized` it is 1 so that the challenge goes too.  A second transfer
is in the tampered bundles and in the ledger: transfers differ by their index alone, and
the loop body is the same.  One lineage is enough in an assay on a moving chain because
lineages share no outputs; on the fixed chain there are twelve because each departs from
the protocol in another way.  The ledger's transactions do share outputs: a mint that
spends both claims, a mint that also transfers the other atom, a transfer that burns a
second title, two titles with equal scripts in one transaction; three blocks above the
floor take a mint, its transfer and a second transfer, or rivals of them on another branch.

`MineWork` with counters in `0..1` has two rows, a last nonce in a row and a last pair;
`MineWorkProofs` covers every width.  In `driver_reorganized` a branch cut back and
mined again by the driver has other blocks already; one block of another miner and `MaxBlocks` 7 let
the driver go on to the end above a challenge block that is gone, and exit with 0 or not.
Reorganizations stop when the bundle is written, since those that fall into an assay are
`Verifier`'s own runs.

On the command line the departures are of one field at a time, because both readers judge
each field by itself, and end with the first command (`MaxCommands`); a second command is
there for what one leaves to the next.  One error status and two Core codes stand for all:
the client looks only at whether there is one.  Deadlock
is not checked: every program here ends, and so does the supply of blocks.

**Mutants.**  Operators marked "Mutant" are plausible bugs of the definition below
them (a dropped guard, an off-by-one, a wrong source of a value).  `PROJECT.json`
names one for every property; the property fails in its run with it.

## 5. Properties, fairness and findings

What `AcceptedIsGenuine` says deserves a word.  It speaks of
the chain *now*, after the assay, and assumes that no block at a height of the
bundle was disconnected during it (`disturbed`, a history variable).  Without that
condition no program that reads a chain in twenty calls could satisfy it; with it the
property says that blocks arriving on top, spends, mempool traffic and
reorganizations above the atom cannot make `verify_bundle` accept what is not
genuine.  `GoodAtomAccepted` is the other direction, and `ImplementsAssay` the same
thing as a refinement: while the chain only grows, all of the calls amount to one
moment at which everything is true and unspent (when `gettxout` answers) and a later
one at which the mint is buried (when the report is made).

`OneAtomPerClaim` and `OneTitlePerAtom` are criteria 1 and 3 of section 8 of the threat
model.  `TitleSharedOnlyByMintAndTransfer` marks their border: a transaction that is the mint of
one atom and the transfer of another puts two atoms on one output, and the verifier accepts
both, since markers are counted per kind.  Nothing in the specification forbids it.  It
cannot happen with two mints or two transfers, because each kind's single marker commits to its
claim or its atom.  `LedgerFollowsChain` compares the ledger at every height of the active
chain with that at its tip; since every branch is an active chain in some state, it says what
disconnecting blocks does as well.

`ZeroMeansGenuine` is the same promise from end to end: `goldatom verify` exits with 0 if and only if
the bundle in the file is a genuine, buried atom with an unspent title and no fault was in the
way; with a fault it never exits with 0.  Status 2, "INVALID", does not
mean the opposite: a node that cannot be reached ends with 2 as well, and so does output that
cannot be written after a valid verdict.  `TracebackIsNoVerdict` says which exceptions get past
`main`: `RpcError` and those of `http.client` outside the verifier's `try` blocks, and nesting too deep for
`json.loads`.

`BundleIsHonest` is about the driver's writes: whenever the three blocks that a bundle names are on
the chain, every record of it is true there, and only the mint may be too late for its window.
`SuccessIsAnAtom` has no such excuse: with an exit status of 0 the bundle is a genuine atom of the chain,
buried, although blocks the driver had read were disconnected before, the challenge block of a mint
already made among them.  In the live validation a failed call during the assay of the invalidated
challenge gives the very `HEADER_LOOKUP` the script waits for, and passes for a rejection; by
`CountedRejectionsAreRight` the verdict is true all the same, because the challenge really is gone.
A summary of an earlier run that `rmtree` has not reached says "pass" as well; no property of the
file can tell it from a new one, only the exit status (3, or 2) does.

Fairness is weak fairness of the program's own step (`Step`, `DriverStep`, `LiveNext`,
`Process`, `Next` of `MineWork`): a sequential process goes on as long as its next call can
return.  `Process` includes the timeout of the HTTP client and neither the node's
execution of a request nor the delivery of a reply, so `EveryCommandEnds` holds although the
other end owes nothing; with that, every call returns or fails, which the other modules
assume.  Nothing is assumed fair of other miners, of blocks or of the mempool.

Findings, both about what the report claims rather than about forged atoms:

1. `TitleUnspentAtReportedTip`.  The coin is read before the tip the report names
   (`verify.py:349`, `:362`).  With a block in between, the report says that the title is
   valid as of a tip at which it is spent.  `SPEC-0.md:390` and `:418` ask for the
   terminal title in the UTXO set and for the tip at which the assay was calculated.
2. `MintOnReportedBranch`.  The mint block is found canonical once, early on.  If a
   reorganization then confirms the mint in another block before the coin is read,
   the old bundle is reported valid, with burial counted from a block that is not in
   the reported chain.  `SPEC-0.md:399` asks that the claimed block be in the active
   best chain, `SPEC-0.md:526` for a refreshed bundle after such a change.

## 6. Proofs

Checked by TLAPS for every value of the constants, under the named assumptions of the
modules: `ProfilesAssumption`, `NodeAssumption` (kinds of the node's constants),
`LedgerAssumption` (the history a node starts with spends nothing twice, and no transaction
creates the outputs that fund it), `ScriptsAssumption` (a script is a pair, and a transaction has
finitely many outputs), `FilesAssumption` (kinds of the bundles, prints and node answers of a session),
`VerifierAssumption` (kinds of bundles, whose heights are numbers), `HistoriesAssumption` (finitely
many transactions are published, and who may present a history may present it as it was before its
last transfers), `MineWorkAssumption`, `JsonRpcAssumption` (an HTTP status is positive and a code of Bitcoin Core negative, so neither passes for the other),
`DriverAssumption` and `DriverTxAssumption` (what the driver makes may be published, and the
blocks a node starts with fit its bound and cite only older blocks), `SimulationAssumption` (the
simulation's profile is registered and asks for at most one block and the work of one simulated
block, as `profiles.py:40-41` does, and some nonce solves the fixture's challenge: otherwise `mine_work`
raises after a million attempts).

- `VerifierTypeCorrect`: `Spec => []TypeOK`, for any transactions, history, bundles,
  profiles and depth of reorganization.  The node's own invariant `NodeInv` is part
  of the argument: every block ends the branch it records, that branch is made of
  known blocks, and the active chain is the branch of a known block (`GenuineAtomProofs`:
  `NodeStarts`, `ExtendKeeps`, `ReorganizeKeeps`).  "A verdict is there exactly when
  the call is over" needs that no check is named "none" (`NamedStopChecks`).
- `ReportedBurialIsReal`: `Spec => []BurialOnReportedBranch`.  The property speaks only
  of the end; `BurialInv` says what is already true before: once the mint's header has
  been compared, the mint block is where the bundle says on the active chain, unless
  its height was disturbed (`MintPlaced`); the best hash is a known block whose branch has
  the mint block in place (`BestKnown`, `DeepEnough`), a fact about the block index and so
  untouched by reorganizations.  `CallBurial` and `ChainBurial` show it kept by the
  program and by the node.
- `GoodAtomsAreNotRejected`: while a genuine, buried and visible atom stays so and its blocks stay
  where they are, and no call fails, `verify_bundle` ends with VALID or not at all (but for
  `BAD_TIP` after a reorganization).  It is the safety half of `GoodAtomAccepted`, in `Spec`, so
  through blocks and reorganizations.  `GenuineIsChecked` is the converse of `CheckedIsGenuine`:
  each list of checks passes, once `GenuineAtom`'s words are true of the chain.  `GoodInv` says what the
  locals of an assay hold while the atom is good (the header and hash read are those of
  the stop), so every call finds what it compares with.
- `VerifierCallsRunOut`: `Spec => CallsRunOut`.  `CallsLeft` counts down from 21 calls and seven more for
  each transfer; every call takes at least one of them and nothing else changes it.  It needs `GoodStop`, that
  no transaction is looked up at the challenge's stop, which the types do not say (`TurnInv`).
- `AcceptedAtomsAreGenuine`: `Spec => []AcceptedIsGenuine`, in two halves.
  *What is found is kept* (`AcceptanceProofs`): `AcceptInv` has one conjunct for each stop.
  A stop found canonical is on the chain unless its height was disturbed; a stop whose proof was
  verified is in a block that contains its transaction, a fact about the block index that no
  reorganization touches; a stop left behind has passed all its checks, a fact about the
  bundle alone.  `CallAccepts` goes through the RPCs, `ChainAccepts` through the node.
  *What passes is genuine* (`GenuineAtomProofs`): `CheckedIsGenuine` turns the lists of checks into
  `GenuineAtom`'s own words.  The gap between the two is "the only transaction that
  spends": the verifier sees one spender, an atom wants no other.  It is closed by `LedgerInv`
  (`GenuineAtomProofs`): on every branch the node knows no two transactions spend one output.
  That is inductive because a block connects only when its inputs are unspent on its own branch,
  and an invariant of branches rather than of the active chain because any branch may become active.
- `ImplementationsAgree`: `Spec => []CheckersAgree`, for bundles with any number of transfers.
  The two programs compute the same digests from separate texts (`SameDigests`), and each of the
  checker's checks is one of the verifier's (`SameRecordChecks`, `SameTransitionChecks`); what is
  left is order.  By `AcceptInv` every stop before the one that fails has passed, hence so have
  the checker's checks up to it (`BelowPasses`), and the verifier's chain checks in between
  have codes the checker lacks; `StopAgrees` takes the stops one by one.
- `SpentTitlesAreRejected`: `AppendSpec => SpentTitleRejected`, a temporal property nested in
  an implication.  `Doomed` (the title is spent, and no coin of it has been read) is kept
  by every call and every block, since only `gettxout`'s call leads to the tip and that call
  finds nothing; a doomed assay gives no VALID.
- `VerifierImplementsAssay`: `AppendSpec => ImplementsAssay`, for every bundle and history.  A call that
  goes from the coin to the tip maps to *hold*, the last call to *accept* or to a failure, all
  others to stutters; blocks and spends are the abstract chain's own.  `AppendInv` is
  `AcceptInv` on a chain that loses nothing, so at the coin everything found so far is true of
  one and the same chain (`CoinHolds`), and the best block is one it had, so that it now has at least
  the burial reported (`TipBelow`, `ExtendGrows`).  `Abstract` computes with definitions of its own
  instance, and `SameAssayDigests`, `SameAtoms` and `SameNode` identify them.
- `OneAtom`, `OneTitle`, `SharedTitles`: `OneAtomPerClaim`, `OneTitlePerAtom` and
  `TitleSharedOnlyByMintAndTransfer` of `TitleLedger`, for any histories of any length.  By `LedgerInv`
  a claim and a title have one spender; its single marker commits to output, script and
  index, so two histories that agree on a title agree on the next one (`StepsAgree`).  `TitlesAgree`
  takes the least place at which two histories of one atom differ, and `NeitherIsLonger` shows that
  the shorter one ends in an output that the longer one's next transfer has spent.
- `LedgerFollows`: `LedgerFollowsChain`, for histories of any length and chains of any height.
  `GrowInv` adds to `LedgerInv` that a branch confirms a transaction in one block only and
  that work adds up along it (`BranchesGrow`), so a history is placed on the chain as it was at
  an earlier tip (`PlacedAsBefore`) and what was proved stays so (`ProvedStays`).  Forward means
  that an earlier tip proved less only for want of blocks: had it confirmed the spend of the title at
  which its longest history ends, it had proved the longer history up to that transfer
  (`ProvedBefore`, `MovedOnFromUnspent`).  There is a longest history because no
  transaction moves a title twice: its marker commits to one index (`TransfersDiffer`), so a
  history has at most as many transfers as there are transactions (`TransfersBounded`).
- `DriverTypeCorrect`, `WrittenBundlesAreHonest`: `DriverSpec => []DriverTypeOK` and
  `DriverSpec => []BundleIsHonest`, for every profile, set of nonces, number of blocks and
  other miners, and so for `SharedSpec` too (`SharedIsDriver`).  `Known` says what `main` has
  read at each of its places; what a local says of a block and its branch is a fact about the
  block index, true whatever mines or reorganizes meanwhile (`FactsStay`), and of the chain when the
  block is on it.
  Two facts of the node are needed beyond its types: a branch holds its blocks at their own
  heights and in the order the node learned them (`BranchesRise`), and a transaction cites only
  blocks older than its own (`CitesOlder`).  Together they put the mint, which commits to the
  challenge block, above it (`BlocksInPlace`); `LedgerInv` makes it the only spender of the claim.
- `SuccessesAreAtoms`: `DriverSpec => []SuccessIsAnAtom`.  Nothing is claimed of the blocks read before the
  bundle was written: its own assay finds out.  From there on the chain only grows (`OthersExtend`), so
  `SuccessInv` can keep `AppendInv`, under which the calls implement `Assay` (`FreshAccepts` starts it,
  `AppendKept` keeps it).  A VALID then stands for a genuine atom (`AcceptedHolds`), buried
  (`TipBuries`) and not less so with more blocks (`BuriedStays`).
- `ExpectationsAreMet`, `PassedAtomsStand`: `ExpectationsHold` and `PassedAtomStands` of the live
  validation, `LiveSpec => []...`.  Nobody else mines on its node, so all the blocks it ever
  knows are one line (`OneLine`, `LineGrows`) and the chain is that line or, between
  `invalidateblock` and `reconsiderblock`, its part below the challenge block (`Shown`).  `LiveInv`
  has an invariant for each stretch of the script: `AloneInv` (`DriverInv` with `VerifyInv`) while
  the driver runs, then `Standing` (the driver's bundle passes every check on the line, is buried
  and unspent, `DriverLeavesAtom`), which both switches keep (`InvalidateCuts`,
  `ReconsiderRestores`: the end of the line has strictly the most work).  `AssayInv` says where an
  assay of it is: an untouched one is an assay of a good atom (`GoodInv`); one with a
  tampered digest or without its challenge block passes up to the challenge and fails there,
  at the check the script names (`Towards`, `TowardsKept`, `ChallengeFails`).
- `RejectionsAreRight`: `LiveSpec => []CountedRejectionsAreRight`.  Where `LiveInv` holds, a genuine atom
  would pass the challenge's checks with its challenge block on the chain (`GenuineWorkPasses`); a
  tampered bundle fails one of them (`ChallengeFails`), and the cut chain has no block at that height.
- `OutcomesAreTheNodes`: `OutcomeIsTheNodes` of the JSON-RPC client over whole sessions of the
  command line, `CliSpec => []...`.  Ids count
  upwards and a new process starts with an empty wire (`Numbered`), so what carries the id of
  the last request is that request or the one reply to it (`OneAnswer`); `DecodedFrom` says
  that `_decode_response` gives a result or a code of Bitcoin Core only from such a body.
- `ZeroStandsForGenuine`, `TracebacksAreFaults`, `ListingsReadBack`: `ZeroMeansGenuine`,
  `TracebackIsNoVerdict` and `ListingIsTheBundle`, `CliSpec => []...`, for every chain,
  set of files and bundles and every wire.  The node stands still during a session, so `VerifyInv` can
  say what every call has found (`OnceConfirmed`, `ReadInv`) and both directions of the
  equivalence come out of it: `AcceptedIsGood` by `CheckedIsGenuine`, and `SoFarGood` (a good atom's calls
  find what they want) by `GoodInv`.  `PhaseInv` ties the places of `cli.py` to the fault and
  the exit status, and `FileInv` the file to the bundle in it; `ReplyIsCaught` says which replies the two `try` blocks
  turn into a verdict, which needs `OutcomeIsTheNodes` proved before.  `WrittenReads` is the
  round trip: a document that `models.py` writes is one that it and `validateShape` read.
- `RequestsAreBounded`, `CommandsRunOut`: a `verify` command makes at most 21 requests and seven more for each
  transfer, and once a command has read its file every step, reply or timeout takes one of the steps left
  (`StepsLeft`), which the node and the network cannot add to.  `RequestsInv` keeps the sum of the ids used and
  `CallsLeft` in bounds.  It is the safety half of `EveryCommandEnds`.
- `NoNodeIsLeftRunning`: the live validation does not end with its node starting or running, the safety half of
  `NodeIsStopped`: by `ProcessInv` there is a node only where the `finally` clause is still to come.
- `SimulationsStand`, `FixturesVerify`: `SimulationStands`, `CliSpec => []...`, for every delay,
  window, target and hash function, and that a fixture as built is VALID.  `FixtureInv` says what a
  fixture is after any of the tests' changes: the bundle is the builder's, and the view has a header for every height under one
  hash, the builder's or a replacement's, the bundle's transactions with their proofs,
  and the title's coin unless it was spent (`SimInv`).  The loop that adds the headers is a recursive function;
  `HeadersBuilt` finds its value by the least height at which it could differ.  `ReplacedHolds`
  needs that hashes are not used twice (`HashesDiffer`), and carries the tip's hash along, without which
  a verification after a replaced tip would raise.  `SimStopPasses` goes through the checks of every stop,
  `StopStands` adds that a replaced block's old hash is gone (`OldHashIsGone`), `EndStands` does the coin and
  the burial, and `VerdictStands` takes the first part that fails.
- `TypeCorrect`, `NoPairSkipped`, `CountIsDistance`, `ResultIsSound` for `MineWork`, for
  every counter width and hash function.  `NoPairSkipped` follows from `CoverInv`: every
  pair before the present one and not before the start has failed (`Covered`), and the
  present pair is not before the start (`NotBehind`).  `ResultIsSound` follows from
  `ResultInv`, which adds that a running search is below its limit (`BelowLimit`), so the attempt
  that reaches it is the last permitted one, and one is made under a limit of zero.  The
  count needs that attempts equal the distance in the lexicographic order, across rows.
- `WorkIsNotMissed`, `SearchRunsOut` for `MineWork`, together `SearchDecides` but for the fairness: with a valid
  target and no limit a search that has work ahead ends with work or not at all (`EndInv` gives each outcome its
  reason), and every step takes one of finitely many (`StepsLeft`).

Only model-checked: liveness under fairness (`GoodAtomAccepted` as such, `SearchDecides`,
`DriverMakesAtom`, `NodeIsStopped`, `EveryCommandEnds`), which is out of the prover's reach like
`ENABLED`, induction over data and RECURSIVE operators (no module here declares one).  What is proved of
these properties is their safety half: nothing else than the promised end can happen, or the steps that are left
run out.  Every invariant that a run checks is a theorem, those of the two findings aside.

## 7. What is not modelled

- The bytes: field encodings, push opcodes, Merkle branches, hex.  Digests are
  injective by assumption.  Values of outputs and fees on Bitcoin; the verifier compares a
  value only with one it has just read from the same transaction (`Simulation` has them).
- Scripts are trusted to Bitcoin Core, and so is consensus.
- The figures of the report beyond the verdict and the tip; wording and layout of output.
- A reply that trickles in for ever: the client's timeout is one of each read, so a peer
  that sends a byte now and then can hold a command up beyond it.  `EveryCommandEnds` is about
  replies that stop.
- Documents that depart from the format in two fields at once, and transitions that depart
  differently in one document.
- The Markdown and the files of `generate_test_vectors.py`; its fixtures are in `Simulation`.
- `economics.py` and `simulation/` (floating-point studies without state), `site/`, `docs/`,
  `validation/` (pages and recordings).
- A driver or a validation killed from outside: nothing resumes either of them.  Kills are
  modelled where a file survives them, on the command line.

## 8. What could follow

The byte encodings of `encoding.py` under the injective digests; drivers and validations killed from outside,
once the scripts resume; the safety half of `DriverMakesAtom` as a theorem.
