----------------------------- MODULE CommandLine -----------------------------
(* The goldatom commands (goldatom/cli.py main): simulate, verify and inspect,  *)
(* one process after the other on one bundle file, and the tests' use of a      *)
(* simulated fixture.  A process may be killed; every RPC that verify_bundle    *)
(* makes goes through a JsonRpcClient of the process to a node whose chain      *)
(* stands still (module Verifier has it move).                                  *)
EXTENDS VectorChecker, JsonRpc, BundleFormat, Simulation

CONSTANTS
  Files,          \* what the file may hold at first
  Altered,        \* bundles that differ from the one a document is of
  MaxCommands(_)  \* bound: commands run in a row when the file holds this at first

VARIABLES
  command,  \* "simulate", "verify", "inspect", or "session" for a test
  phase,    \* "shell", "read", "ask", "await", "write" or "report"
  file,     \* the bundle file
  printed,  \* on stdout
  exit,     \* the exit status; "1" is an uncaught exception
  fault,    \* history: what went wrong that the bundle is not to blame for
  left      \* commands left

cliVars == <<command, phase, file, printed, exit, fault, left>>
allVars == <<vars, rpcVars, fixture, cliVars>>

Absent == [holds |-> "nothing"]
Partial == [holds |-> "part"]
BundleFile(document, b) == [holds |-> "document", document |-> document, bundle |-> b]

Nothing == [shows |-> "nothing"]
Report == [shows |-> "report"]
Listing(document) == [shows |-> "bundle", document |-> document]

\* The document that write makes of a bundle.
DocumentOf(b) ==
  LET n == Len(b.transfers)
  IN  Written([transfers |-> n, value |-> [f \in FieldsOf(n) |-> "proper"]])

SimulatedFixture == [with_transfer \in BOOLEAN |-> build_simulated_fixture(with_transfer)]

\* Whatever bundle a file holds, or is read as, is one that a caller may present.
ASSUME FilesAssumption ==
  /\ \A f \in Files :
       \/ f \in {Absent, Partial}
       \/ f.holds = "document" /\ f.bundle \in Bundles
  /\ Altered \subseteq Bundles
  /\ \A with_transfer \in BOOLEAN : SimulatedFixture[with_transfer].bundle \in Bundles

Proper(parsed) == \A f \in DOMAIN parsed.value : parsed.value[f] = "proper"

CliInit ==
  /\ Init /\ bundle = CHOOSE b \in Bundles : TRUE
  /\ RpcInit
  /\ fixture = SimulatedFixture[FALSE]
  /\ command \in {"none", "session"}
  /\ phase = "shell"
  /\ file \in IF command = "session" THEN {Absent} ELSE Files
  /\ printed = Nothing
  /\ exit = "none"
  /\ fault = "none"
  /\ left = IF command = "session" THEN 0 ELSE MaxCommands(file)
-----------------------------------------------------------------------------
\* The process ends with this status; why says what went wrong.
Exit(status, why) ==
  phase' = "shell" /\ exit' = status /\ fault' = why

Continue(nextPhase) ==
  phase' = nextPhase /\ UNCHANGED <<exit, fault>>

\* A new process, with nothing left of the last one.
Invoke(name) ==
  /\ phase = "shell" /\ left > 0
  /\ command' = name /\ left' = left - 1
  /\ printed' = Nothing
  /\ pc' = "idle" /\ stop' = Claim /\ header' = NoHeader
  /\ atHeight' = 0 /\ best' = 0 /\ verdict' = "none"
  /\ NewClient
  /\ UNCHANGED <<nodeVars, bundle, disturbed, file>>

\* The parser refuses a cookie file together with a user or a password; the
\* client, one that it cannot read or that has no colon, and half of a pair.
InvokeVerify ==
  \E cookie \in {"none", "good", "bad"}, user, password \in BOOLEAN :
    /\ Invoke("verify")
    /\ IF cookie = "bad" \/ (cookie = "good" /\ (user \/ password))
            \/ (cookie = "none" /\ user # password)
       THEN Exit("2", "arguments")
       ELSE phase' = "read" /\ exit' = "none" /\ fault' = "none"
    /\ UNCHANGED fixture

InvokeInspect ==
  /\ Invoke("inspect")
  /\ phase' = "read" /\ exit' = "none" /\ fault' = "none"
  /\ UNCHANGED fixture

\* Nothing is written or printed unless the fixture verifies.
InvokeSimulate ==
  /\ Invoke("simulate")
  /\ \E with_transfer, output \in BOOLEAN :
       /\ fixture' = SimulatedFixture[with_transfer]
       /\ IF SimVerdict(fixture'.view, fixture'.bundle) # "VALID"
          THEN Exit("2", "none")
          ELSE /\ phase' = IF output THEN "write" ELSE "report"
               /\ exit' = "none" /\ fault' = "none"

\* write_text truncates the file before it writes: an error may leave the old
\* file or a part of the new one.
WriteFile ==
  /\ phase = "write"
  /\ \/ /\ file' = BundleFile(DocumentOf(fixture.bundle), fixture.bundle)
        /\ Continue("report")
     \/ /\ file' \in {file, Partial}
        /\ Exit("2", "file")
  /\ UNCHANGED <<vars, rpcVars, fixture, command, printed, left>>

\* GoldAtomBundle.read of the file: no exception but a ValueError or an OSError is
\* caught.  verify_bundle starts on what was read.
ReadFile ==
  /\ phase = "read"
  /\ LET read == CASE file.holds = "nothing" -> "OSError"
                   [] file.holds = "part" -> "ValueError"
                   [] file.holds = "document" -> ReadOutcome(file.document)
     IN  \/ /\ read \in {"OSError", "ValueError"}
            /\ Exit("2", "file") /\ UNCHANGED <<bundle, pc>>
         \/ /\ read \notin {"OSError", "ValueError", "read"}
            /\ Exit("1", read) /\ UNCHANGED <<bundle, pc>>
         \/ /\ read = "read" /\ command = "inspect"
            /\ Continue("report") /\ UNCHANGED <<bundle, pc>>
         \/ /\ read = "read" /\ command = "verify"
            /\ bundle' \in IF Proper(Parsed(file.document)) THEN {file.bundle}
                           ELSE Altered
            /\ pc' = "network"
            /\ Continue("ask")
  /\ UNCHANGED <<nodeVars, stop, header, atHeight, best, verdict, disturbed>>
  /\ UNCHANGED <<rpcVars, fixture, command, file, printed, left>>
-----------------------------------------------------------------------------
\* The question is what verify_bundle asks next; the node refuses it, for good, if
\* it does not know the block, the height or the transaction asked about.
Ask ==
  /\ phase = "ask"
  /\ Send(<<pc, stop>>)
  /\ Continue("await")
  /\ UNCHANGED <<vars, fixture, command, file, printed, left>>

Unknown(question) ==
  LET k == question[2]
  IN  CASE question[1] = "header" -> StopBlock(bundle, k) \notin BlockHashes
        [] question[1] = "height" -> StopHeight(bundle, k) \notin DOMAIN chain
        [] question[1] = "proof"  -> ~OnActiveChain(StopProof(bundle, k).block)
        [] question[1] \in {"included", "fetch"} ->
             StopTxid(bundle, k) \notin blocks[StopBlock(bundle, k)].txs
        [] OTHER -> FALSE

NodeExecutes ==
  /\ \E r \in sent :
       \/ ~Unknown(r.question) /\ Execute(r, ResultBody(r))
       \/ \E code \in Codes : Execute(r, RefusalBody(r, code))
  /\ UNCHANGED <<vars, fixture, cliVars>>

Deliver ==
  /\ phase = "await"
  /\ CannotConnect \/ Receive
  /\ UNCHANGED <<vars, fixture, cliVars>>

TimesOut ==
  /\ phase = "await"
  /\ ReplyLost
  /\ UNCHANGED <<vars, fixture, cliVars>>

\* A result is what verify_bundle goes on with; any exception ends it, as a
\* VerificationError in the two try blocks.
Answer ==
  /\ phase = "await" /\ outcome # Pending
  /\ \/ /\ outcome.kind = "result"
        /\ \/ ReadNetwork \/ ReadHeader \/ ReadHashAtHeight \/ ReadHeaderAtHeight
           \/ VerifyProof \/ CheckIncluded \/ FetchTransaction \/ PlaceTransaction
           \/ ReadCoin \/ ReadBestHash \/ ReadTip
        /\ UNCHANGED fault
     \/ /\ outcome.kind # "result"
        /\ RpcFails
        /\ fault' = IF outcome.kind = "RpcError" /\ outcome.code < 0
                         /\ Unknown(request.question)
                    THEN fault ELSE outcome.kind
  /\ phase' = IF pc' = "done" THEN "report" ELSE "ask"
  /\ UNCHANGED <<nodeVars, bundle, disturbed, rpcVars, fixture>>
  /\ UNCHANGED <<command, file, printed, exit, left>>

\* What the commands print at the end.  Output that cannot be written is noticed
\* at once, or when the interpreter flushes it on its way out (status 120).
Output(what) ==
  \/ printed' = what /\ Exit("0", fault)
  \/ UNCHANGED printed /\ exit' \in {"2", "120"}
       /\ phase' = "shell" /\ fault' = "output"

Conclude ==
  /\ phase = "report"
  /\ \/ command = "simulate" /\ Output(Report)
     \/ command = "inspect" /\ Output(Listing(Written(Parsed(file.document))))
     \/ command = "verify" /\ verdict = "VALID" /\ Output(Report)
     \/ /\ command = "verify" /\ verdict = "UNCAUGHT"
        /\ Exit(IF fault \in {"OSError", "ConnectionError", "ValueError"}
                THEN "2" ELSE "1", fault)
        /\ UNCHANGED printed
     \/ /\ command = "verify" /\ verdict \notin {"VALID", "UNCAUGHT"}
        /\ Exit("2", fault) /\ UNCHANGED printed
  /\ UNCHANGED <<vars, rpcVars, fixture, command, file, left>>

Killed ==
  /\ phase # "shell"
  /\ Exit("killed", "killed")
  /\ \/ UNCHANGED file
     \/ phase = "write" /\ file' = Partial
  /\ UNCHANGED <<vars, rpcVars, fixture, command, printed, left>>

\* A test has the fixture of its own.
Session ==
  /\ command = "session"
  /\ SpendTitle \/ ReplaceBlock
  /\ UNCHANGED <<vars, rpcVars, cliVars>>

Process == WriteFile \/ ReadFile \/ Ask \/ Answer \/ TimesOut \/ Conclude

CliNext ==
  \/ InvokeVerify \/ InvokeInspect \/ InvokeSimulate
  \/ Process \/ NodeExecutes \/ Deliver \/ Killed \/ Session

\* A process that is not blocked goes on, and every wait has a timeout; neither
\* the node nor the network owes it an answer.
CliSpec == CliInit /\ [][CliNext]_allVars /\ WF_allVars(Process)
-----------------------------------------------------------------------------
(* Properties *)

Ended == phase = "shell" /\ exit # "none"

\* Status 0 of verify means, end to end, that the file's bundle is a genuine, buried
\* atom with an unspent title; and such a bundle gets it unless a fault is in the
\* way, whatever else the path to the node delivers (cli.py:66-84).
ZeroMeansGenuine ==
  command = "verify" /\ Ended =>
    (exit = "0" <=> fault = "none" /\ StaysGood /\ ProofsOnChain)

\* An uncaught exception is never the bundle's doing, but for a file nested too
\* deep: it takes an RPC error or a broken reply outside the verifier's two try
\* blocks (cli.py:84, core_rpc.py:98).
TracebackIsNoVerdict ==
  Ended /\ exit = "1" =>
    \/ fault = "RecursionError" /\ file.document.text = "deep"
    \/ /\ fault \in {"RpcError", "HTTPException", "RecursionError"}
       /\ verdict = "UNCAUGHT"

\* inspect prints the bundle it has read, in a form that both readers take, unless
\* the bundle itself is beyond the checker (models.py:257, verify_vectors.mjs).
ListingIsTheBundle ==
  printed.shows = "bundle" =>
    LET d == printed.document
    IN  /\ ReadOutcome(d) = "read"
        /\ Parsed(d) = Parsed(file.document)
        /\ CheckerReads(d) \/ BeyondChecker(Parsed(d))

\* The fixture's verdict in the view stands as FixtureStands says, and the
\* independent checker accepts its bundle (generate_test_vectors.py:20-23).
SimulationStands ==
  command \in {"session", "simulate"} =>
    FixtureStands /\ CheckerSays(fixture.bundle, "VALID")

\* Every command ends, although the node and the network owe it no reply and may lose,
\* repeat or fake one, because every wait has a timeout (core_rpc.py:28, 96).
EveryCommandEnds == phase # "shell" ~> phase = "shell"
=============================================================================
