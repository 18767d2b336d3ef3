-------------------------- MODULE CommandLineProofs --------------------------
(* The ids of JsonRpcClient suffice: whatever a path loses, delays, repeats or  *)
(* makes up, an outcome is the node's answer to the request that was made, in   *)
(* any number of calls and processes.  And the exit statuses and the listing of *)
(* the commands mean what they say, for every file, chain and bundle.  And the  *)
(* simulated fixture is a genuine atom to the verifier, as built and as long as *)
(* the tests leave it its blocks and its title.                                 *)
EXTENDS CommandLine, AcceptanceProofs

\* The last request has the highest id so far, and the node's replies are objects.
Numbered ==
  /\ nextId \in Nat \ {0} /\ request.id = nextId - 1
  /\ request = [id |-> request.id, question |-> request.question]
  /\ \A r \in sent : r.id \in Nat /\ r.id < nextId
  /\ \A body \in replies : body.form = "object" /\ body.id \in Nat /\ body.id < nextId

\* Whatever has its id is the request itself, or the one reply to it.
Answers(body) ==
  body = ResultBody(request) \/ \E code \in Codes : body = RefusalBody(request, code)

OneAnswer ==
  /\ \A r \in sent : r.id = request.id => r = request
  /\ \A body \in replies :
       body.id = request.id => Answers(body) /\ request \notin sent

RpcInv == Numbered /\ OneAnswer /\ OutcomeIsTheNodes

\* A client starts with no request.
LEMMA FreshClient ==
  ASSUME nextId = 1, request = [id |-> 0, question |-> NoQuestion],
         sent = {}, replies = {}, outcome = Idle
  PROVE  RpcInv
BY DEF RpcInv, Numbered, OneAnswer, OutcomeIsTheNodes, Idle, Outcome

\* A client of a new process is such a one.
LEMMA NewClientKeeps ==
  ASSUME NewClient
  PROVE  RpcInv'
BY DEF NewClient, RpcInv, Numbered, OneAnswer, OutcomeIsTheNodes, Idle, Outcome

\* A call has an id of its own (core_rpc.py:84-85).
LEMMA SendKeeps ==
  ASSUME RpcInv, NEW question, Send(question)
  PROVE  RpcInv'
<1>1. /\ nextId' = nextId + 1 /\ replies' = replies
      /\ request' = [id |-> nextId, question |-> question]
      /\ sent' = sent \cup {request'} /\ outcome' = Pending
  BY DEF Send
<1>2. Numbered'
  BY <1>1 DEF RpcInv, Numbered
<1>3. OneAnswer'
  BY <1>1 DEF RpcInv, Numbered, OneAnswer
<1>4. OutcomeIsTheNodes'
  BY <1>1 DEF OutcomeIsTheNodes, Pending, Outcome
<1> QED
  BY <1>2, <1>3, <1>4 DEF RpcInv

\* The node executes a request once, and whatever it replies has its id.
LEMMA ExecuteKeeps ==
  ASSUME RpcInv, NEW r \in sent, NEW body, Execute(r, body)
  PROVE  RpcInv'
<1>1. /\ sent' = sent \ {r} /\ replies' = replies \cup {body}
      /\ nextId' = nextId /\ request' = request /\ outcome' = outcome
  BY DEF Execute
<1>2. body = ResultBody(r) \/ \E code \in Codes : body = RefusalBody(r, code)
  BY DEF Execute
<1>3. body.id = r.id /\ body.form = "object"
  BY <1>2 DEF ResultBody, RefusalBody, Body
<1>4. Numbered'
  BY <1>1, <1>3 DEF RpcInv, Numbered
<1>5. r.id = request.id => Answers(body) /\ r = request
  BY <1>2 DEF RpcInv, OneAnswer, Answers
<1>6. OneAnswer'
  BY <1>1, <1>3, <1>5 DEF RpcInv, OneAnswer, Answers, ResultBody, RefusalBody
<1>7. OutcomeIsTheNodes'
  BY <1>1 DEF RpcInv, OutcomeIsTheNodes, ResultBody, RefusalBody
<1> QED
  BY <1>4, <1>6, <1>7 DEF RpcInv

\* A failure to connect takes the request back (core_rpc.py:111).
LEMMA CannotConnectKeeps ==
  ASSUME RpcInv, CannotConnect
  PROVE  RpcInv'
<1>1. /\ sent' = sent \ {request} /\ outcome' = Raised("ConnectionError")
      /\ nextId' = nextId /\ request' = request /\ replies' = replies
      /\ request \in sent
  BY DEF CannotConnect
<1>2. Numbered' /\ OneAnswer'
  BY <1>1 DEF RpcInv, Numbered, OneAnswer, Answers, ResultBody, RefusalBody
<1>3. OutcomeIsTheNodes'
  BY <1>1 DEF OutcomeIsTheNodes, Raised, Outcome
<1> QED
  BY <1>2, <1>3 DEF RpcInv

\* Any other failure says nothing of the node.
LEMMA ReplyLostKeeps ==
  ASSUME RpcInv, ReplyLost
  PROVE  RpcInv'
<1>1. /\ outcome'.kind \notin {"result", "RpcError"}
      /\ nextId' = nextId /\ request' = request /\ sent' = sent /\ replies' = replies
  BY DEF ReplyLost, Raised, Outcome
<1>2. Numbered' /\ OneAnswer'
  BY <1>1 DEF RpcInv, Numbered, OneAnswer, Answers, ResultBody, RefusalBody
<1>3. OutcomeIsTheNodes'
  BY <1>1 DEF OutcomeIsTheNodes
<1> QED
  BY <1>2, <1>3 DEF RpcInv

\* What a client makes of a body: a result, or a code, only from one with its id.
LEMMA DecodedFrom ==
  ASSUME NEW body, body.form \in {"object", "other", "malformed", "long", "deep"},
         NEW expected, NEW status \in Nat,
         NEW received, received = Received(body, expected, status)
  PROVE  /\ received.kind = "result" =>
              /\ body.id = expected /\ body.result # NoQuestion
              /\ body.error = "none" /\ received.value = body.result
         /\ received.kind = "RpcError" /\ received.code < 0 =>
              /\ body.id = expected /\ body.error = "object"
              /\ body.code # 0 /\ received.code = body.code
<1> DEFINE decoded == _decode_response(body, expected, status)
<1>1. received = decoded \/ received = RpcError(status)
  BY DEF Received
<1>2. CASE received = RpcError(status)
  BY <1>2 DEF RpcError, Outcome
<1>3. CASE received = decoded /\ body.form = "object"
  BY <1>3 DEF _decode_response, RpcError, Outcome
<1>4. CASE received = decoded /\ body.form \in {"long", "deep", "other", "malformed"}
  BY <1>4 DEF _decode_response, Raised, RpcError, Outcome
<1> QED
  BY <1>1, <1>2, <1>3, <1>4

\* Only the node's reply to this request has its id and a result or a code.
LEMMA ReceiveKeeps ==
  ASSUME RpcInv, Receive
  PROVE  RpcInv'
<1>1. /\ nextId' = nextId /\ request' = request /\ sent' = sent /\ replies' = replies
  BY DEF Receive
<1>2. PICK body \in replies \cup ForeignBodies(request.id), status \in {0} \cup Statuses :
        outcome' = Received(body, request.id, status)
  BY DEF Receive
<1>3. status \in Nat
  BY JsonRpcAssumption
<1>4. body.form \in {"object", "other", "malformed", "long", "deep"}
  BY <1>2 DEF RpcInv, Numbered, ForeignBodies, Body
<1>5. /\ outcome'.kind = "result" =>
           /\ body.id = request.id /\ body.result # NoQuestion
           /\ body.error = "none" /\ outcome'.value = body.result
      /\ outcome'.kind = "RpcError" /\ outcome'.code < 0 =>
           /\ body.id = request.id /\ body.error = "object"
           /\ body.code # 0 /\ outcome'.code = body.code
  BY <1>2, <1>3, <1>4, DecodedFrom
<1>6. body.result # NoQuestion \/ body.code # 0 => body \in replies
  BY <1>2 DEF ForeignBodies, Body
<1>7. ASSUME body.id = request.id, body.result # NoQuestion, body.error = "none"
      PROVE  body = ResultBody(request) /\ body.result = request.question
  BY <1>6, <1>7 DEF RpcInv, OneAnswer, Answers, ResultBody, RefusalBody, Body
<1>8. ASSUME body.id = request.id, body.code # 0
      PROVE  body = RefusalBody(request, body.code)
  BY <1>6, <1>8 DEF RpcInv, OneAnswer, Answers, ResultBody, RefusalBody, Body
<1>9. OutcomeIsTheNodes'
  <2>1. ASSUME outcome'.kind = "result"
        PROVE  outcome'.value = request.question /\ ResultBody(request) \in replies
    BY <1>5, <1>6, <1>7, <2>1
  <2>2. ASSUME outcome'.kind = "RpcError", outcome'.code < 0
        PROVE  RefusalBody(request, outcome'.code) \in replies
    BY <1>5, <1>6, <1>8, <2>2
  <2> QED
    BY <1>1, <2>1, <2>2 DEF OutcomeIsTheNodes, ResultBody, RefusalBody
<1>10. Numbered' /\ OneAnswer'
  BY <1>1 DEF RpcInv, Numbered, OneAnswer, Answers, ResultBody, RefusalBody
<1> QED
  BY <1>9, <1>10 DEF RpcInv
-----------------------------------------------------------------------------
(* The commands *)

\* A session starts with a client that asked nothing.
LEMMA RpcStarts == CliInit => RpcInv
BY FreshClient DEF CliInit, RpcInit

\* Nothing but the client and the node touches the client's state.
LEMMA RpcUntouched ==
  ASSUME RpcInv, UNCHANGED rpcVars
  PROVE  RpcInv'
BY DEF rpcVars, RpcInv, Numbered, OneAnswer, Answers, ResultBody, RefusalBody,
       OutcomeIsTheNodes

\* Every step of a session keeps the invariant.
LEMMA RpcKept == RpcInv /\ [CliNext]_allVars => RpcInv'
<1> SUFFICES ASSUME RpcInv, [CliNext]_allVars
             PROVE  RpcInv'
  OBVIOUS
<1>1. CASE InvokeVerify \/ InvokeInspect \/ InvokeSimulate
  <2>1. NewClient
    BY <1>1 DEF InvokeVerify, InvokeInspect, InvokeSimulate, Invoke
  <2> QED
    BY <2>1, NewClientKeeps
<1>2. CASE Ask
  BY <1>2, SendKeeps DEF Ask
<1>3. CASE NodeExecutes
  BY <1>3, ExecuteKeeps DEF NodeExecutes
<1>4. CASE Deliver
  BY <1>4, CannotConnectKeeps, ReceiveKeeps DEF Deliver
<1>5. CASE TimesOut
  BY <1>5, ReplyLostKeeps DEF TimesOut
<1>6. CASE WriteFile \/ ReadFile \/ Answer \/ Conclude \/ Killed \/ Session
  BY <1>6, RpcUntouched DEF WriteFile, ReadFile, Answer, Conclude, Killed, Session
<1>7. CASE UNCHANGED allVars
  BY <1>7, RpcUntouched DEF allVars
<1> QED
  BY <1>1, <1>2, <1>3, <1>4, <1>5, <1>6, <1>7 DEF CliNext, Process

\* The invariant holds in every session, of any number of processes.
LEMMA RpcInvariant == CliSpec => []RpcInv
BY RpcStarts, RpcKept, PTL DEF CliSpec

\* A call's result, and an error with a code of Bitcoin Core, is the node's answer
\* to the request of this call (core_rpc.py:63-78, 98-113).
THEOREM OutcomesAreTheNodes == CliSpec => []OutcomeIsTheNodes
BY RpcInvariant, PTL DEF RpcInv
-----------------------------------------------------------------------------
(* The readers and the writer of a bundle file *)

\* A class that the format takes is one that the checker takes, or beyond it.
LEMMA TakenIsChecked ==
  ASSUME NEW f \in Fields, NEW class \in Taken(f)
  PROVE  \/ class \in Checked(f)
         \/ class = "wide"
         \/ /\ f \in StringFields \cup Of("transfer", {"index"})
                       \cup Of("previous", {"txid", "vout"})
            /\ class # "proper"
<1>1. CASE f \in HashFields
  BY <1>1 DEF Taken, Checked, Of, HashFields, ByteFields, HeightFields, U32Fields,
              StringFields, FrameFields, Classes
<1>2. CASE f \in ByteFields
  BY <1>2 DEF Taken, Checked, Of, HashFields, ByteFields, HeightFields, U32Fields,
              StringFields, FrameFields, Classes
<1>3. CASE f \in HeightFields
  BY <1>3 DEF Taken, Checked, Of, HashFields, ByteFields, HeightFields, U32Fields,
              StringFields, FrameFields, Classes
<1>4. CASE f \in U32Fields
  BY <1>4 DEF Taken, Checked, Of, HashFields, ByteFields, HeightFields, U32Fields,
              StringFields, FrameFields, Classes
<1>5. CASE f \in StringFields
  BY <1>5 DEF Taken, Checked, Of, HashFields, ByteFields, HeightFields, U32Fields,
              StringFields, FrameFields, Classes
<1>6. CASE f \in FrameFields
  BY <1>6 DEF Taken, Checked, Of, HashFields, ByteFields, HeightFields, U32Fields,
              StringFields, FrameFields, Classes
<1> QED
  BY <1>1, <1>2, <1>3, <1>4, <1>5, <1>6 DEF Fields

\* The proper value is always taken.
LEMMA ProperIsTaken ==
  ASSUME NEW f \in Fields
  PROVE  "proper" \in Taken(f)
BY DEF Taken, Fields, Of, HashFields, ByteFields, HeightFields, U32Fields,
       StringFields, FrameFields

\* What is read of a document that is read has values that the format takes.
LEMMA ParsedIsTaken ==
  ASSUME NEW d, ReadOutcome(d) = "read"
  PROVE  LET b == Parsed(d)
         IN  /\ b = [transfers |-> b.transfers, value |-> b.value]
             /\ DOMAIN b.value = FieldsOf(b.transfers)
             /\ b.value = [f \in FieldsOf(b.transfers) |-> b.value[f]]
             /\ \A f \in FieldsOf(b.transfers) : b.value[f] \in Taken(f)
<1> DEFINE b == Parsed(d)
           transfers == IF d.times[<<"bundle", "transfers">>] = 0 THEN 0 ELSE d.transfers
<1>1. Complete(d)
  BY DEF ReadOutcome
<1>2. /\ b.transfers = transfers
      /\ b.value = [f \in FieldsOf(transfers) |->
                      IF d.times[f] = 0 THEN "proper" ELSE d.value[f]]
      /\ b = [transfers |-> b.transfers, value |-> b.value]
  BY DEF Parsed
<1>3. FieldsOf(transfers) \subseteq FieldsOf(d.transfers)
  BY DEF FieldsOf
<1>4. ASSUME NEW f \in FieldsOf(transfers)
      PROVE  b.value[f] \in Taken(f)
  <2>1. f \in Fields
    BY DEF FieldsOf
  <2> QED
    BY <1>1, <1>2, <1>3, <2>1, ProperIsTaken DEF Complete
<1> QED
  BY <1>2, <1>4

\* What is written of it reads as the same again, and the checker reads it too
\* unless the bundle is beyond it.
LEMMA WrittenReads ==
  ASSUME NEW d, ReadOutcome(d) = "read"
  PROVE  LET written == Written(Parsed(d))
         IN  /\ ReadOutcome(written) = "read"
             /\ Parsed(written) = Parsed(d)
             /\ CheckerReads(written) \/ BeyondChecker(Parsed(written))
<1> DEFINE b == Parsed(d)
           w == Written(b)
<1>1. /\ b = [transfers |-> b.transfers, value |-> b.value]
      /\ DOMAIN b.value = FieldsOf(b.transfers)
      /\ b.value = [f \in FieldsOf(b.transfers) |-> b.value[f]]
      /\ \A f \in FieldsOf(b.transfers) : b.value[f] \in Taken(f)
  BY ParsedIsTaken
<1> HIDE DEF b
<1>2. /\ w.text = "object" /\ w.transfers = b.transfers /\ w.unknown = {}
      /\ w.value = b.value
      /\ \A f \in FieldsOf(b.transfers) : w.times[f] = 1
  BY <1>1 DEF Written, Document
<1>3. ReadOutcome(w) = "read"
  <2>1. Complete(w)
    BY <1>1, <1>2 DEF Complete
  <2> QED
    BY <1>2, <2>1 DEF ReadOutcome
<1>4. Parsed(w) = b
  <2>1. <<"bundle", "transfers">> \in FieldsOf(b.transfers)
    BY DEF FieldsOf, Fields, FrameFields, Of
  <2>2. w.times[<<"bundle", "transfers">>] = 1
    BY <1>2, <2>1
  <2>3. Parsed(w).transfers = b.transfers
    BY <1>2, <2>2 DEF Parsed
  <2>4. Parsed(w) = [transfers |-> b.transfers,
                     value     |-> [f \in FieldsOf(b.transfers) |->
                                      IF w.times[f] = 0 THEN "proper" ELSE w.value[f]]]
    BY <1>2, <2>2 DEF Parsed
  <2>5. [f \in FieldsOf(b.transfers) |-> IF w.times[f] = 0 THEN "proper" ELSE w.value[f]]
          = [f \in FieldsOf(b.transfers) |-> b.value[f]]
    BY <1>2
  <2> QED
    BY <1>1, <2>4, <2>5
<1>5. CheckerReads(w) \/ BeyondChecker(b)
  <2> SUFFICES ASSUME ~BeyondChecker(b), NEW f \in FieldsOf(b.transfers)
               PROVE  w.times[f] >= 1 /\ w.value[f] \in Checked(f)
    BY <1>2 DEF CheckerReads
  <2>1. f \in Fields /\ b.value[f] \in Taken(f) /\ w.value[f] = b.value[f]
    BY <1>1, <1>2 DEF FieldsOf
  <2>2. b.value[f] \in Checked(f)
    BY <1>1, <2>1, TakenIsChecked DEF BeyondChecker
  <2> QED
    BY <1>2, <2>1, <2>2
<1> QED
  BY <1>3, <1>4, <1>5 DEF b
-----------------------------------------------------------------------------
(* Exit statuses and listings *)

\* What a call may raise.
Exceptions ==
  {"ConnectionError", "OSError", "HTTPException", "RpcError", "ValueError",
   "RecursionError"}

\* What each phase of a process presupposes.
PhaseInv ==
  /\ phase \in {"shell", "read", "ask", "await", "write", "report"}
  /\ phase # "shell" => command \in {"simulate", "verify", "inspect"} /\ printed = Nothing
  /\ phase = "read" =>
       /\ command \in {"verify", "inspect"} /\ fault = "none"
       /\ stop = Claim /\ verdict = "none"
  /\ phase \in {"ask", "await"} =>
       command = "verify" /\ fault = "none" /\ pc # "done"
  /\ phase = "await" =>
       /\ request.question = <<pc, stop>>
       /\ outcome = Pending \/ outcome.kind \in Exceptions \cup {"result"}
  /\ phase = "write" => command = "simulate" /\ fixture.bundle \in Bundles
  /\ phase = "report" /\ command = "inspect" => ReadOutcome(file.document) = "read"

FileInv ==
  file \in {Absent, Partial} \/ (file.holds = "document" /\ file.bundle \in Bundles)

\* So far nothing has been held against a good bundle.
SoFarGood == phase \in {"ask", "await"} /\ StaysGood /\ ProofsOnChain => GoodInv

\* What verify reports is a verdict, or what went wrong.
ReportInv ==
  phase = "report" /\ command = "verify" =>
    /\ verdict # "none"
    /\ verdict = "VALID" => fault = "none"
    /\ fault = "none" /\ StaysGood /\ ProofsOnChain => verdict = "VALID"
    /\ verdict = "UNCAUGHT" => fault \in Exceptions

CommandInv ==
  /\ PhaseInv /\ FileInv /\ SoFarGood /\ ReportInv
  /\ ZeroMeansGenuine /\ TracebackIsNoVerdict /\ ListingIsTheBundle

CliInv == RpcInv /\ VerifyInv /\ CommandInv

\* A fixture's bundle is one that a caller may present.
LEMMA FixtureBundles ==
  ASSUME NEW with_transfer \in BOOLEAN
  PROVE  SimulatedFixture[with_transfer].bundle \in Bundles
BY FilesAssumption

\* A session starts in the shell.
LEMMA CliStarts == CliInit => CliInv
<1> SUFFICES ASSUME CliInit PROVE CliInv
  OBVIOUS
<1>1. /\ Init /\ phase = "shell" /\ printed = Nothing /\ exit = "none" /\ disturbed = {}
      /\ IF command = "session" THEN file = Absent ELSE file \in Files
  BY DEF CliInit, Init
<1>2. VerifyInv
  <2>1. TypeInv /\ AcceptInv /\ LedgerInv /\ BranchesRise /\ OnceConfirmed
    BY <1>1, TypesStart, AcceptStarts, LedgerStarts, RiseStarts, OnceStarts DEF Init
  <2>2. BurialInv
    BY <1>1 DEF Init, BurialInv, MintPlaced, MintSettled, BestKnown, DeepEnough,
                ProfileKnown, TransactionLookup, HeaderLookup
  <2>3. ReadInv
    <3>1. ASSUME NEW k \in Stops(bundle) PROVE ~ProofRead(k)
      <4>1. k \in Nat /\ k >= 1
        BY <2>1, StopsAreNats DEF Stops
      <4>2. stop = 1 /\ pc = "idle" /\ verdict = "none"
        BY <1>1 DEF Init, Claim
      <4> QED
        BY <4>1, <4>2 DEF ProofRead, Reached
    <3> QED
      BY <1>1, <3>1 DEF Init, ReadInv
  <2> QED
    BY <1>1, <2>1, <2>2, <2>3 DEF VerifyInv
<1>3. FileInv
  BY <1>1, FilesAssumption DEF FileInv
<1>4. CommandInv
  BY <1>1, <1>3 DEF CommandInv, PhaseInv, SoFarGood, ReportInv, ZeroMeansGenuine,
                    TracebackIsNoVerdict, ListingIsTheBundle, Ended, Nothing
<1> QED
  BY <1>2, <1>4, RpcStarts DEF CliInv

\* A process starts with no verdict, no fault and nothing printed.
LEMMA InvokeKeeps ==
  ASSUME CliInv, InvokeVerify \/ InvokeInspect \/ InvokeSimulate
  PROVE  VerifyInv' /\ CommandInv'
<1>1. PICK name \in {"verify", "inspect", "simulate"} : Invoke(name)
  BY DEF InvokeVerify, InvokeInspect, InvokeSimulate
<1>2. /\ command' = name /\ printed' = Nothing /\ file' = file
      /\ pc' = "idle" /\ stop' = Claim /\ header' = NoHeader
      /\ atHeight' = 0 /\ best' = 0 /\ verdict' = "none"
      /\ UNCHANGED <<nodeVars, disturbed>> /\ bundle' = bundle
  BY <1>1 DEF Invoke
<1>3. VerifyInv'
  <2>1. Shaped(bundle')
    BY <1>2 DEF CliInv, VerifyInv, TypeInv, VerifierTypeOK
  <2>2. header' \in [height : Nat, confirmations : Int, chainwork : Nat]
    BY <1>2 DEF NoHeader
  <2> QED
    BY <1>2, <2>1, <2>2, FreshVerifies DEF CliInv, VerifyInv, TypeInv
<1>4. FileInv'
  BY <1>2 DEF CliInv, CommandInv, FileInv
<1>5. \/ phase' = "read" /\ fault' = "none" /\ command' \in {"verify", "inspect"}
      \/ phase' = "shell" /\ exit' = "2" /\ fault' = "arguments"
      \/ phase' = "shell" /\ exit' = "2" /\ command' = "simulate"
      \/ phase' = "report" /\ command' = "simulate"
      \/ phase' = "write" /\ command' = "simulate" /\ fixture'.bundle \in Bundles
  <2>1. CASE InvokeVerify
    BY <2>1 DEF InvokeVerify, Invoke, Exit
  <2>2. CASE InvokeInspect
    BY <2>2 DEF InvokeInspect, Invoke
  <2>3. CASE InvokeSimulate
    <3>1. PICK with_transfer \in BOOLEAN, output \in BOOLEAN :
            /\ fixture' = SimulatedFixture[with_transfer]
            /\ IF SimVerdict(fixture'.view, fixture'.bundle) # "VALID"
               THEN Exit("2", "none")
               ELSE /\ phase' = IF output THEN "write" ELSE "report"
                    /\ exit' = "none" /\ fault' = "none"
      BY <2>3 DEF InvokeSimulate
    <3>2. command' = "simulate" /\ fixture'.bundle \in Bundles
      BY <2>3, <3>1, FixtureBundles DEF InvokeSimulate, Invoke
    <3> QED
      BY <3>1, <3>2 DEF Exit
  <2> QED
    BY <2>1, <2>2, <2>3
<1>6. PhaseInv' /\ SoFarGood' /\ ReportInv'
  BY <1>2, <1>5 DEF PhaseInv, SoFarGood, ReportInv
<1>7. ZeroMeansGenuine' /\ TracebackIsNoVerdict' /\ ListingIsTheBundle'
  <2>1. exit' \in {"none", "2"} \/ phase' # "shell"
    BY <1>5
  <2>2. phase' = "shell" /\ command' = "verify" => fault' = "arguments" /\ exit' = "2"
    BY <1>5
  <2> QED
    BY <1>2, <2>1, <2>2
       DEF ZeroMeansGenuine, TracebackIsNoVerdict, ListingIsTheBundle, Ended, Nothing
<1> QED
  BY <1>3, <1>4, <1>6, <1>7 DEF CommandInv

\* A file that was written whole holds the fixture's bundle (cli.py:47-54).
LEMMA WriteKeeps ==
  ASSUME CliInv, WriteFile
  PROVE  VerifyInv' /\ CommandInv'
<1>1. /\ phase = "write" /\ command = "simulate" /\ printed = Nothing
      /\ fixture.bundle \in Bundles
      /\ UNCHANGED vars /\ command' = command /\ printed' = printed
  BY DEF WriteFile, CliInv, CommandInv, PhaseInv
<1>2. \/ /\ file' = BundleFile(DocumentOf(fixture.bundle), fixture.bundle)
         /\ phase' = "report"
      \/ file' \in {file, Partial} /\ phase' = "shell" /\ exit' = "2"
  BY DEF WriteFile, Continue, Exit
<1>3. VerifyInv'
  BY <1>1, StillVerifies DEF CliInv
<1>4. FileInv'
  BY <1>1, <1>2 DEF CliInv, CommandInv, FileInv, BundleFile
<1>5. PhaseInv' /\ SoFarGood' /\ ReportInv'
  BY <1>1, <1>2 DEF PhaseInv, SoFarGood, ReportInv
<1>6. ZeroMeansGenuine' /\ TracebackIsNoVerdict' /\ ListingIsTheBundle'
  BY <1>1, <1>2
     DEF ZeroMeansGenuine, TracebackIsNoVerdict, ListingIsTheBundle, Ended, Nothing
<1> QED
  BY <1>3, <1>4, <1>5, <1>6 DEF CommandInv

\* What was read is a bundle, and verify_bundle starts on it (cli.py:55-66).
LEMMA ReadKeeps ==
  ASSUME CliInv, ReadFile
  PROVE  VerifyInv' /\ CommandInv'
<1> DEFINE read == CASE file.holds = "nothing" -> "OSError"
                     [] file.holds = "part" -> "ValueError"
                     [] file.holds = "document" -> ReadOutcome(file.document)
<1>1. /\ phase = "read" /\ command \in {"verify", "inspect"} /\ printed = Nothing
      /\ fault = "none" /\ stop = Claim /\ verdict = "none"
      /\ UNCHANGED <<nodeVars, disturbed>>
      /\ stop' = stop /\ header' = header /\ atHeight' = atHeight /\ best' = best
      /\ verdict' = verdict
      /\ command' = command /\ file' = file /\ printed' = printed /\ fixture' = fixture
  BY DEF ReadFile, CliInv, CommandInv, PhaseInv
<1>2. /\ read = "RecursionError" => file.document.text = "deep"
      /\ read = "read" => ReadOutcome(file.document) = "read" /\ file.bundle \in Bundles
      /\ read \in {"OSError", "ValueError", "RecursionError", "read"}
  BY DEF CliInv, CommandInv, FileInv, Absent, Partial, ReadOutcome
<1>3. \/ /\ phase' = "shell" /\ exit' = "2" /\ fault' = "file"
         /\ UNCHANGED <<bundle, pc>>
      \/ /\ phase' = "shell" /\ exit' = "1" /\ fault' = read
         /\ read = "RecursionError" /\ UNCHANGED <<bundle, pc>>
      \/ /\ phase' = "report" /\ command = "inspect" /\ read = "read"
         /\ UNCHANGED <<bundle, pc>>
      \/ /\ phase' = "ask" /\ command = "verify" /\ fault' = fault /\ pc' = "network"
         /\ bundle' \in {file.bundle} \cup Altered /\ read = "read"
  BY <1>2 DEF ReadFile, Exit, Continue
<1> HIDE DEF read
<1>4. VerifyInv'
  <2>1. CASE UNCHANGED <<bundle, pc>>
    <3>1. UNCHANGED vars
      BY <1>1, <2>1 DEF vars, verifierVars
    <3> QED
      BY <3>1, StillVerifies DEF CliInv
  <2>2. CASE pc' = "network" /\ bundle' \in {file.bundle} \cup Altered /\ read = "read"
    <3>1. Shaped(bundle')
      BY <1>2, <2>2, FilesAssumption, VerifierAssumption DEF Shaped
    <3>2. /\ header \in [height : Nat, confirmations : Int, chainwork : Nat]
          /\ atHeight \in Nat /\ best \in Nat
      BY DEF CliInv, VerifyInv, TypeInv, VerifierTypeOK
    <3> QED
      BY <1>1, <2>2, <3>1, <3>2, FreshVerifies DEF CliInv, VerifyInv, TypeInv
  <2> QED
    BY <1>3, <2>1, <2>2
<1>5. FileInv'
  BY <1>1 DEF CliInv, CommandInv, FileInv
<1>6. SoFarGood'
  BY <1>1, <1>3 DEF SoFarGood, GoodInv, GoodHeader, GoodHash, GoodStop, GoodBest,
                    GoodVerdict, TransactionLookup
<1>7. PhaseInv' /\ ReportInv'
  BY <1>1, <1>2, <1>3 DEF PhaseInv, ReportInv
<1>8. ZeroMeansGenuine' /\ TracebackIsNoVerdict' /\ ListingIsTheBundle'
  BY <1>1, <1>2, <1>3
     DEF ZeroMeansGenuine, TracebackIsNoVerdict, ListingIsTheBundle, Ended, Nothing
<1> QED
  BY <1>4, <1>5, <1>6, <1>7, <1>8 DEF CommandInv

\* The client's side of a call leaves all else as it is.
LEMMA ClientKeeps ==
  ASSUME CliInv, RpcInv', UNCHANGED <<vars, fixture, command, file, printed>>,
         phase' = phase \/ (phase = "ask" /\ phase' = "await"), UNCHANGED <<exit, fault>>,
         phase' = "await" =>
           /\ request'.question = <<pc, stop>>
           /\ outcome' = Pending \/ outcome'.kind \in Exceptions \cup {"result"}
  PROVE  VerifyInv' /\ CommandInv'
<1>1. VerifyInv'
  BY StillVerifies DEF CliInv
<1>2. /\ UNCHANGED <<nodeVars, bundle>> /\ pc' = pc /\ stop' = stop /\ verdict' = verdict
  BY DEF vars, verifierVars
<1>3. /\ StaysGood' <=> StaysGood
      /\ ProofsOnChain' <=> ProofsOnChain
  BY <1>2, SameGood
<1>4. FileInv'
  BY DEF CliInv, CommandInv, FileInv
<1>5. GoodInv => GoodInv'
  BY DEF vars, nodeVars, verifierVars, GoodInv, GoodHeader, GoodHash, GoodStop,
         GoodBest, GoodVerdict, BlockHashes, HeightOf, OnActiveChain
<1>6. SoFarGood' /\ ReportInv'
  BY <1>2, <1>3, <1>5 DEF CliInv, CommandInv, SoFarGood, ReportInv
<1>7. PhaseInv'
  BY <1>2 DEF CliInv, CommandInv, PhaseInv
<1>8. ZeroMeansGenuine' /\ TracebackIsNoVerdict' /\ ListingIsTheBundle'
  BY <1>2, <1>3
     DEF CliInv, CommandInv, ZeroMeansGenuine, TracebackIsNoVerdict,
         ListingIsTheBundle, Ended
<1> QED
  BY <1>1, <1>4, <1>6, <1>7, <1>8 DEF CommandInv

\* A reply, whatever it is, makes a result or an exception of the client.
LEMMA ReceivedKinds ==
  ASSUME RpcInv, Receive
  PROVE  outcome'.kind \in Exceptions \cup {"result"}
<1>1. PICK body \in replies \cup ForeignBodies(request.id), status \in {0} \cup Statuses :
        outcome' = Received(body, request.id, status)
  BY DEF Receive
<1>2. body.form \in {"object", "other", "malformed", "long", "deep"}
  BY <1>1 DEF RpcInv, Numbered, ForeignBodies, Body
<1>3. _decode_response(body, request.id, status).kind \in Exceptions \cup {"result"}
  <2>1. CASE body.form = "object"
    BY <2>1 DEF _decode_response, RpcError, Outcome, Exceptions
  <2>2. CASE body.form \in {"other", "malformed", "long", "deep"}
    BY <2>2 DEF _decode_response, Raised, RpcError, Outcome, Exceptions
  <2> QED
    BY <1>2, <2>1, <2>2
<1> QED
  BY <1>1, <1>3 DEF Received, RpcError, Outcome, Exceptions

\* What the node and the network do, and the client with it.
LEMMA PathKeeps ==
  ASSUME CliInv, RpcInv', Ask \/ NodeExecutes \/ Deliver \/ TimesOut
  PROVE  VerifyInv' /\ CommandInv'
<1>1. CASE Ask
  <2>1. /\ phase = "ask" /\ phase' = "await" /\ UNCHANGED <<exit, fault>>
        /\ request'.question = <<pc, stop>> /\ outcome' = Pending
        /\ UNCHANGED <<vars, fixture, command, file, printed>>
    BY <1>1 DEF Ask, Send, Continue
  <2> QED
    BY <2>1, ClientKeeps
<1>2. ASSUME UNCHANGED <<vars, fixture, cliVars, request>>,
             phase = "await" => \/ outcome' = outcome
                                \/ outcome'.kind \in Exceptions \cup {"result"}
      PROVE  VerifyInv' /\ CommandInv'
  <2>1. /\ UNCHANGED <<vars, fixture, command, file, printed>>
        /\ phase' = phase /\ UNCHANGED <<exit, fault>>
        /\ phase' = "await" =>
             /\ request'.question = <<pc, stop>>
             /\ outcome' = Pending \/ outcome'.kind \in Exceptions \cup {"result"}
    BY <1>2 DEF cliVars, CliInv, CommandInv, PhaseInv
  <2> QED
    BY <2>1, ClientKeeps
<1>3. CASE NodeExecutes
  <2>1. UNCHANGED <<vars, fixture, cliVars>> /\ request' = request /\ outcome' = outcome
    BY <1>3 DEF NodeExecutes, Execute
  <2> QED
    BY <1>2, <2>1
<1>4. CASE Deliver
  <2>1. CASE CannotConnect
    BY <1>2, <1>4, <2>1 DEF Deliver, CannotConnect, Raised, Outcome, Exceptions
  <2>2. CASE Receive
    <3>1. outcome'.kind \in Exceptions \cup {"result"}
      BY <2>2, ReceivedKinds DEF CliInv
    <3> QED
      BY <1>2, <1>4, <2>2, <3>1 DEF Deliver, Receive
  <2> QED
    BY <1>4, <2>1, <2>2 DEF Deliver
<1>5. CASE TimesOut
  BY <1>2, <1>5 DEF TimesOut, ReplyLost, Raised, Outcome, Exceptions
<1> QED
  BY <1>1, <1>3, <1>4, <1>5

\* The node knows whatever verify_bundle asks it of a good bundle.
LEMMA GoodIsKnown ==
  ASSUME TypeInv, BranchesRise, StaysGood, ProofsOnChain, GoodInv, pc # "idle"
  PROVE  ~Unknown(<<pc, stop>>)
<1>1. stop \in Stops(bundle)
  BY DEF TypeInv, VerifierTypeOK
<1>2. /\ StopHeight(bundle, stop) \in DOMAIN chain
      /\ StopBlock(bundle, stop) \in BlockHashes
      /\ OnActiveChain(StopBlock(bundle, stop))
      /\ stop # Challenge =>
           StopTxid(bundle, stop) \in blocks[StopBlock(bundle, stop)].txs
  BY <1>1, GoodStops
<1>3. pc \in TransactionLookup =>
        /\ stop # Challenge
        /\ StopProof(bundle, stop).block = StopBlock(bundle, stop)
  BY <1>1 DEF GoodInv, GoodStop, ProofsOnChain
<1> QED
  BY <1>2, <1>3 DEF Unknown, TransactionLookup

\* The node refuses for good only what is asked inside the two try blocks.
LEMMA UnknownIsCaught ==
  ASSUME Unknown(<<pc, stop>>)
  PROVE  pc \in HeaderLookup \cup TransactionLookup
BY DEF Unknown, HeaderLookup, TransactionLookup

\* Only a failed call leaves verify_bundle uncaught.
LEMMA ReplyIsCaught ==
  ASSUME verdict = "none", Reply
  PROVE  verdict' # "UNCAUGHT"
<1>1. ASSUME NEW checks, Named(checks), Fail(checks)
      PROVE  verdict' # "UNCAUGHT"
  BY <1>1 DEF Fail, Finish, Named
<1>2. ASSUME NEW checks, Named(checks), NEW nextPc, NEW nextStop,
             Decide(checks, nextPc, nextStop)
      PROVE  verdict' # "UNCAUGHT"
  BY <1>1, <1>2 DEF Decide, Goto
<1>3. \A code \in {"BAD_INCLUSION_PROOF", "TRANSACTION_LOOKUP", "TRANSACTION_MISMATCH"} :
        \A ok : Named(<<Check(code, ok)>>)
  BY DEF Named, Range, Check
<1>4. CASE ReadNetwork \/ ReadCoin
  BY <1>2, <1>4, NamedLists DEF ReadNetwork, ReadCoin
<1>5. CASE ReadHeader \/ ReadHashAtHeight \/ ReadBestHash
  BY <1>5 DEF ReadHeader, ReadHashAtHeight, ReadBestHash, Goto, Finish
<1>6. CASE ReadHeaderAtHeight
  <2>1. /\ Named(CanonicalChecks(bundle, stop))
        /\ Named(CanonicalChecks(bundle, stop) \o ChallengeChecks(bundle))
    BY NamedLists, NamedConcat
  <2> QED
    BY <1>2, <1>6, <2>1 DEF ReadHeaderAtHeight
<1>7. CASE VerifyProof \/ CheckIncluded \/ FetchTransaction
  BY <1>2, <1>3, <1>7 DEF VerifyProof, CheckIncluded, FetchTransaction, Finish
<1>8. CASE PlaceTransaction
  <2>1. Named(<<Check("TRANSACTION_MISMATCH",
                      Header(StopBlock(bundle, stop)).height
                        = StopHeight(bundle, stop))>>
              \o StopChecks(bundle, stop, Tx[StopTxid(bundle, stop)]))
    BY <1>3, NamedStopChecks, NamedConcat
  <2> QED
    BY <1>2, <1>8, <2>1 DEF PlaceTransaction
<1>9. CASE ReadTip
  BY <1>1, <1>9, NamedLists DEF ReadTip, Finish
<1> QED
  BY <1>4, <1>5, <1>6, <1>7, <1>8, <1>9 DEF Reply

\* An answer takes verify_bundle one call further, and an exception ends it
\* (cli.py:66-84, verify.py:34-40, 66-72).
LEMMA AnswerKeeps ==
  ASSUME CliInv, Answer
  PROVE  VerifyInv' /\ CommandInv'
<1>1. /\ phase = "await" /\ command = "verify" /\ fault = "none" /\ printed = Nothing
      /\ request.question = <<pc, stop>> /\ outcome.kind \in Exceptions \cup {"result"}
  BY DEF Answer, CliInv, CommandInv, PhaseInv
<1>2. /\ UNCHANGED <<nodeVars, bundle, disturbed>>
      /\ command' = command /\ file' = file /\ printed' = printed /\ exit' = exit
      /\ phase' = IF pc' = "done" THEN "report" ELSE "ask"
  BY DEF Answer
<1>3. \/ Reply /\ fault' = fault
      \/ /\ RpcFails /\ outcome.kind \in Exceptions
         /\ \/ Unknown(<<pc, stop>>) /\ fault' = fault
            \/ fault' = outcome.kind
  BY <1>1 DEF Answer, Reply
<1>4. Call
  BY <1>2, <1>3 DEF Call, Reply
<1>5. VerifyInv'
  BY <1>4, CallVerifies DEF CliInv
<1>6. /\ pc \notin {"idle", "done"} /\ verdict = "none"
      /\ verdict' = "none" <=> pc' # "done"
  BY <1>3, <1>5
     DEF Reply, ReadNetwork, ReadHeader, ReadHashAtHeight, ReadHeaderAtHeight,
         VerifyProof, CheckIncluded, FetchTransaction, PlaceTransaction,
         ReadCoin, ReadBestHash, ReadTip, RpcFails, HeaderLookup, TransactionLookup,
         CliInv, VerifyInv, TypeInv, VerifierTypeOK
<1>7. /\ StaysGood' <=> StaysGood
      /\ ProofsOnChain' <=> ProofsOnChain
  BY <1>2, SameGood
<1>8. StaysGood /\ ProofsOnChain => GoodInv
  BY <1>1 DEF CliInv, CommandInv, SoFarGood
<1>9. ASSUME StaysGood, ProofsOnChain, Reply
      PROVE  GoodInv' /\ verdict' \in {"none", "VALID"}
  <2>1. GoodInv'
    BY <1>2, <1>8, <1>9, ReplyGood DEF CliInv, VerifyInv
  <2>2. disturbed' = {}
    BY <1>2 DEF CliInv, VerifyInv
  <2> QED
    BY <2>1, <2>2 DEF GoodInv, GoodVerdict
<1>10. ASSUME RpcFails
       PROVE  /\ pc' = "done" /\ verdict' # "VALID"
              /\ pc \in HeaderLookup \cup TransactionLookup => verdict' # "UNCAUGHT"
  BY <1>10 DEF RpcFails, Finish, HeaderLookup, TransactionLookup
<1>11. SoFarGood'
  BY <1>2, <1>3, <1>7, <1>9, <1>10 DEF SoFarGood
<1>12. ReportInv'
  <2>1. CASE Reply /\ fault' = fault
    BY <1>1, <1>2, <1>6, <1>7, <1>9, <2>1, ReplyIsCaught DEF ReportInv
  <2>2. CASE RpcFails /\ Unknown(<<pc, stop>>) /\ fault' = fault
    <3>1. ~(StaysGood /\ ProofsOnChain)
      BY <1>6, <1>8, <2>2, GoodIsKnown DEF CliInv, VerifyInv
    <3>2. verdict' # "VALID" /\ verdict' # "UNCAUGHT"
      BY <1>10, <2>2, UnknownIsCaught
    <3> QED
      BY <1>6, <1>7, <1>10, <2>2, <3>1, <3>2 DEF ReportInv
  <2>3. CASE RpcFails /\ outcome.kind \in Exceptions /\ fault' = outcome.kind
    BY <1>6, <1>10, <2>3 DEF ReportInv, Exceptions
  <2> QED
    BY <1>3, <2>1, <2>2, <2>3
<1>13. PhaseInv' /\ FileInv'
  <2>1. phase' \in {"ask", "report"} /\ (phase' = "ask" => pc' # "done" /\ fault' = fault)
    BY <1>2, <1>3, <1>10
  <2> QED
    BY <1>1, <1>2, <2>1 DEF PhaseInv, CliInv, CommandInv, FileInv
<1>14. ZeroMeansGenuine' /\ TracebackIsNoVerdict' /\ ListingIsTheBundle'
  BY <1>1, <1>2
     DEF ZeroMeansGenuine, TracebackIsNoVerdict, ListingIsTheBundle, Ended, Nothing
<1> QED
  BY <1>5, <1>11, <1>12, <1>13, <1>14 DEF CommandInv

\* Status 0 is for a report or a listing, and 1 for what nobody caught
\* (cli.py:47-88).
LEMMA ConcludeKeeps ==
  ASSUME CliInv, Conclude
  PROVE  VerifyInv' /\ CommandInv'
<1>1. /\ phase = "report" /\ printed = Nothing
      /\ UNCHANGED vars /\ command' = command /\ file' = file /\ fixture' = fixture
  BY DEF Conclude, CliInv, CommandInv, PhaseInv
<1>2. /\ UNCHANGED <<nodeVars, bundle>> /\ verdict' = verdict
  BY <1>1 DEF vars, verifierVars
<1>3. /\ StaysGood' <=> StaysGood
      /\ ProofsOnChain' <=> ProofsOnChain
  BY <1>2, SameGood
<1>4. VerifyInv'
  BY <1>1, StillVerifies DEF CliInv
<1>5. /\ phase' = "shell"
      /\ \/ exit' = "0" /\ fault' = fault /\ (command = "verify" => verdict = "VALID")
         \/ exit' \in {"2", "120"} /\ fault' = "output"
         \/ /\ command = "verify" /\ verdict # "VALID" /\ exit' = "2" /\ fault' = fault
         \/ /\ command = "verify" /\ verdict = "UNCAUGHT" /\ exit' = "1" /\ fault' = fault
            /\ fault \notin {"OSError", "ConnectionError", "ValueError"}
      /\ \/ printed' = printed \/ printed' = Report
         \/ command = "inspect" /\ printed' = Listing(Written(Parsed(file.document)))
  BY DEF Conclude, Output, Exit
<1>6. PhaseInv' /\ FileInv' /\ SoFarGood' /\ ReportInv'
  BY <1>1, <1>5 DEF PhaseInv, FileInv, SoFarGood, ReportInv, CliInv, CommandInv
<1>7. ZeroMeansGenuine'
  <2>1. verdict = "VALID" => StaysGood /\ ProofsOnChain
    BY AcceptedIsGood DEF CliInv
  <2>2. command = "verify" =>
          /\ verdict = "VALID" => fault = "none"
          /\ fault = "none" /\ StaysGood /\ ProofsOnChain => verdict = "VALID"
    BY <1>1 DEF CliInv, CommandInv, ReportInv
  <2> QED
    BY <1>1, <1>3, <1>5, <2>1, <2>2 DEF ZeroMeansGenuine, Ended
<1>8. TracebackIsNoVerdict'
  <2>1. command = "verify" /\ verdict = "UNCAUGHT" => fault \in Exceptions
    BY <1>1 DEF CliInv, CommandInv, ReportInv
  <2> QED
    BY <1>2, <1>5, <2>1 DEF TracebackIsNoVerdict, Exceptions
<1>9. ListingIsTheBundle'
  <2>1. command = "inspect" => ReadOutcome(file.document) = "read"
    BY <1>1 DEF CliInv, CommandInv, PhaseInv
  <2>2. CASE command = "inspect" /\ printed' = Listing(Written(Parsed(file.document)))
    <3>1. printed'.document = Written(Parsed(file.document))
      BY <2>2 DEF Listing
    <3> QED
      BY <1>1, <2>1, <2>2, <3>1, WrittenReads DEF ListingIsTheBundle
  <2>3. CASE printed' = printed \/ printed' = Report
    BY <1>1, <2>3 DEF ListingIsTheBundle, Nothing, Report
  <2> QED
    BY <1>5, <2>2, <2>3
<1> QED
  BY <1>4, <1>6, <1>7, <1>8, <1>9 DEF CommandInv

\* A process that is killed says nothing.
LEMMA KilledKeeps ==
  ASSUME CliInv, Killed
  PROVE  VerifyInv' /\ CommandInv'
<1>1. /\ UNCHANGED vars /\ phase' = "shell" /\ exit' = "killed" /\ fault' = "killed"
      /\ printed = Nothing /\ printed' = printed /\ file' \in {file, Partial}
  BY DEF Killed, Exit, CliInv, CommandInv, PhaseInv
<1>2. VerifyInv'
  BY <1>1, StillVerifies DEF CliInv
<1>3. PhaseInv' /\ FileInv' /\ SoFarGood' /\ ReportInv'
  BY <1>1 DEF PhaseInv, FileInv, SoFarGood, ReportInv, CliInv, CommandInv
<1>4. ZeroMeansGenuine' /\ TracebackIsNoVerdict' /\ ListingIsTheBundle'
  BY <1>1 DEF ZeroMeansGenuine, TracebackIsNoVerdict, ListingIsTheBundle, Nothing
<1> QED
  BY <1>2, <1>3, <1>4 DEF CommandInv

\* A test's fixture is no command's.
LEMMA SessionKeeps ==
  ASSUME CliInv, Session \/ UNCHANGED allVars
  PROVE  VerifyInv' /\ CommandInv'
<1>1. /\ UNCHANGED <<vars, cliVars>> /\ request' = request /\ outcome' = outcome
      /\ phase = "shell" \/ fixture' = fixture
  BY DEF Session, allVars, rpcVars, CliInv, CommandInv, PhaseInv
<1>2. /\ UNCHANGED <<nodeVars, bundle>> /\ pc' = pc /\ stop' = stop /\ verdict' = verdict
      /\ command' = command /\ phase' = phase /\ file' = file /\ printed' = printed
      /\ exit' = exit /\ fault' = fault
  BY <1>1 DEF vars, verifierVars, cliVars
<1>3. /\ StaysGood' <=> StaysGood
      /\ ProofsOnChain' <=> ProofsOnChain
  BY <1>2, SameGood
<1>4. VerifyInv'
  BY <1>1, StillVerifies DEF CliInv
<1>5. GoodInv => GoodInv'
  BY <1>1 DEF vars, nodeVars, verifierVars, GoodInv, GoodHeader, GoodHash, GoodStop,
              GoodBest, GoodVerdict, BlockHashes, HeightOf, OnActiveChain
<1>6. SoFarGood' /\ ReportInv'
  BY <1>2, <1>3, <1>5 DEF CliInv, CommandInv, SoFarGood, ReportInv
<1>7. PhaseInv' /\ FileInv'
  BY <1>1, <1>2 DEF CliInv, CommandInv, PhaseInv, FileInv
<1>8. ZeroMeansGenuine' /\ TracebackIsNoVerdict' /\ ListingIsTheBundle'
  BY <1>2, <1>3
     DEF CliInv, CommandInv, ZeroMeansGenuine, TracebackIsNoVerdict,
         ListingIsTheBundle, Ended
<1> QED
  BY <1>4, <1>6, <1>7, <1>8 DEF CommandInv

\* Every step of a session keeps the commands' invariant.
LEMMA CliKept == CliInv /\ [CliNext]_allVars => CliInv'
<1> SUFFICES ASSUME CliInv, [CliNext]_allVars
             PROVE  CliInv'
  OBVIOUS
<1>1. RpcInv'
  BY RpcKept DEF CliInv
<1>2. CASE InvokeVerify \/ InvokeInspect \/ InvokeSimulate
  BY <1>1, <1>2, InvokeKeeps DEF CliInv
<1>3. CASE WriteFile
  BY <1>1, <1>3, WriteKeeps DEF CliInv
<1>4. CASE ReadFile
  BY <1>1, <1>4, ReadKeeps DEF CliInv
<1>5. CASE Ask \/ NodeExecutes \/ Deliver \/ TimesOut
  BY <1>1, <1>5, PathKeeps DEF CliInv
<1>6. CASE Answer
  BY <1>1, <1>6, AnswerKeeps DEF CliInv
<1>7. CASE Conclude
  BY <1>1, <1>7, ConcludeKeeps DEF CliInv
<1>8. CASE Killed
  BY <1>1, <1>8, KilledKeeps DEF CliInv
<1>9. CASE Session \/ UNCHANGED allVars
  BY <1>1, <1>9, SessionKeeps DEF CliInv
<1> QED
  BY <1>2, <1>3, <1>4, <1>5, <1>6, <1>7, <1>8, <1>9 DEF CliNext, Process

\* The invariant holds in every session.
LEMMA CliInvariant == CliSpec => []CliInv
BY CliStarts, CliKept, PTL DEF CliSpec

\* Status 0 of verify means, end to end, that the file's bundle is a genuine, buried
\* atom whose title the node still holds; and such a bundle gets it unless a fault
\* is in the way: no answer is taken for one to another question, and no refusal by
\* the node is laid to a good bundle (cli.py:66-84).
THEOREM ZeroStandsForGenuine == CliSpec => []ZeroMeansGenuine
BY CliInvariant, PTL DEF CliInv, CommandInv

\* An uncaught exception says nothing of the bundle, but for a file nested too deep
\* (cli.py:84, core_rpc.py:98).
THEOREM TracebacksAreFaults == CliSpec => []TracebackIsNoVerdict
BY CliInvariant, PTL DEF CliInv, CommandInv

\* What inspect prints reads back as the bundle that was read, and the checker takes
\* it too unless the bundle is beyond it, for every document (models.py:257).
THEOREM ListingsReadBack == CliSpec => []ListingIsTheBundle
BY CliInvariant, PTL DEF CliInv, CommandInv
-----------------------------------------------------------------------------
(* The commands run out *)

\* The request ids leave room for the calls that verify_bundle has still to make; in
\* await one of them is on its way.
RequestsInv ==
  /\ GoodStop
  /\ phase = "read"  => nextId = 1
  /\ phase = "ask"   => nextId + CallsLeft <= 22 + 7 * Len(bundle.transfers)
  /\ phase = "await" => nextId + CallsLeft <= 23 + 7 * Len(bundle.transfers)
  /\ nextId <= 22 + 7 * Len(bundle.transfers)

\* A new client has made no request.
LEMMA RequestsStart == CliInit => RequestsInv
<1> SUFFICES ASSUME CliInit PROVE RequestsInv
  OBVIOUS
<1>1. CliInv
  BY CliStarts
<1>2. Len(bundle.transfers) \in Nat
  BY <1>1, TurnNumbers DEF CliInv, VerifyInv
<1> QED
  BY <1>2 DEF CliInit, Init, RpcInit, RequestsInv, GoodStop, TransactionLookup

\* A process starts with a client of its own.
LEMMA InvokeRequests ==
  ASSUME CliInv, InvokeVerify \/ InvokeInspect \/ InvokeSimulate
  PROVE  RequestsInv'
<1>1. PICK name \in {"verify", "inspect", "simulate"} : Invoke(name)
  BY DEF InvokeVerify, InvokeInspect, InvokeSimulate
<1>2. nextId' = 1 /\ bundle' = bundle /\ pc' = "idle"
  BY <1>1 DEF Invoke, NewClient
<1>3. phase' \notin {"ask", "await"}
  BY DEF InvokeVerify, InvokeInspect, InvokeSimulate, Exit
<1>4. Len(bundle.transfers) \in Nat
  BY TurnNumbers DEF CliInv, VerifyInv
<1> QED
  BY <1>2, <1>3, <1>4 DEF RequestsInv, GoodStop, TransactionLookup

\* The bundle that was read decides how many requests there may be.
LEMMA ReadRequests ==
  ASSUME CliInv, RequestsInv, ReadFile
  PROVE  RequestsInv'
<1>1. nextId = 1 /\ nextId' = nextId /\ stop' = stop
  BY DEF ReadFile, RequestsInv, rpcVars
<1>2. Len(bundle'.transfers) \in Nat
  <2>1. VerifyInv'
    BY ReadKeeps
  <2>2. Shaped(bundle)'
    BY <2>1 DEF VerifyInv, TypeInv, VerifierTypeOK
  <2> QED
    BY <2>2 DEF Shaped
<1>3. \/ phase' \in {"shell", "report"} /\ pc' = pc
      \/ phase' = "ask" /\ pc' = "network"
  BY DEF ReadFile, Exit, Continue
<1>4. pc' = "network" => CallsLeft' = 21 + 7 * Len(bundle'.transfers)
  BY DEF CallsLeft
<1>5. GoodStop'
  BY <1>1, <1>3 DEF RequestsInv, GoodStop, TransactionLookup
<1> QED
  BY <1>1, <1>2, <1>3, <1>4, <1>5 DEF RequestsInv

\* verify_bundle is in order, and so are the numbers of its calls.
LEMMA TurnOfCommand ==
  ASSUME CliInv, RequestsInv, phase \in {"ask", "await"}
  PROVE  /\ TurnInv /\ CallsLeft \in Nat \ {0} /\ nextId \in Nat
         /\ Len(bundle.transfers) \in Nat
<1>1. TurnInv /\ pc # "done"
  BY DEF CliInv, VerifyInv, RequestsInv, TurnInv, CommandInv, PhaseInv
<1>2. CallsLeft \in 1..(21 + 7 * Len(bundle.transfers))
  BY <1>1, SomeLeft
<1>3. Len(bundle.transfers) \in Nat /\ nextId \in Nat
  BY <1>1, TurnNumbers DEF TurnInv, CliInv, RpcInv, Numbered
<1> QED
  BY <1>1, <1>2, <1>3

\* The same of the next state.
LEMMA LeftIsNumber == TurnInv /\ pc # "done" => CallsLeft \in Nat
<1> SUFFICES ASSUME TurnInv, pc # "done" PROVE CallsLeft \in Nat
  OBVIOUS
<1>1. CallsLeft \in 1..(21 + 7 * Len(bundle.transfers))
  BY SomeLeft
<1>2. Len(bundle.transfers) \in Nat
  BY TurnNumbers DEF TurnInv
<1> QED
  BY <1>1, <1>2

LEMMA NextLeftIsNumber == (TurnInv /\ pc # "done" => CallsLeft \in Nat)'
BY LeftIsNumber, PTL

\* A request takes an id, for a call that is left.
LEMMA AskRequests ==
  ASSUME CliInv, RequestsInv, Ask
  PROVE  RequestsInv'
<1>1. /\ phase = "ask" /\ phase' = "await" /\ nextId' = nextId + 1
      /\ UNCHANGED <<pc, stop, bundle>>
  BY DEF Ask, Send, Continue, vars, verifierVars
<1>2. CallsLeft' = CallsLeft /\ GoodStop'
  BY <1>1, SameLeft DEF RequestsInv
<1>3. CallsLeft \in Nat \ {0} /\ nextId \in Nat /\ Len(bundle.transfers) \in Nat
  BY <1>1, TurnOfCommand
<1>4. nextId + CallsLeft <= 22 + 7 * Len(bundle.transfers)
  BY <1>1 DEF RequestsInv
<1>5. /\ nextId' + CallsLeft' <= 23 + 7 * Len(bundle.transfers)
      /\ nextId' <= 22 + 7 * Len(bundle.transfers)
  BY <1>1, <1>2, <1>3, <1>4
<1> QED
  BY <1>1, <1>2, <1>5 DEF RequestsInv

\* What the client was told takes verify_bundle nearer to its end.
LEMMA AnswerNearer ==
  ASSUME CliInv, RequestsInv, Answer
  PROVE  Nearer
<1>1. TurnInv
  BY TurnOfCommand DEF Answer
<1>2. Call
  BY DEF Answer, Call
<1> QED
  BY <1>1, <1>2, CallNearer

\* An answer makes a call of those left.
LEMMA AnswerRequests ==
  ASSUME CliInv, RequestsInv, Answer
  PROVE  RequestsInv'
<1>1. /\ phase = "await" /\ phase' \in {"ask", "report"}
      /\ nextId' = nextId /\ bundle' = bundle
  BY DEF Answer, rpcVars
<1>2. CallsLeft \in Nat /\ nextId \in Nat /\ Len(bundle.transfers) \in Nat
  BY <1>1, TurnOfCommand
<1>3. CallsLeft' < CallsLeft /\ GoodStop'
  BY AnswerNearer DEF Nearer
<1>4. phase' = "ask" => CallsLeft' \in Nat
  <2>1. CliInv'
    BY CliKept DEF CliNext, Process
  <2>2. ASSUME phase' = "ask" PROVE TurnInv' /\ pc' # "done"
    BY <1>3, <2>1, <2>2 DEF TurnInv, CliInv, VerifyInv, CommandInv, PhaseInv
  <2> QED
    BY <2>2, NextLeftIsNumber
<1>5. nextId + CallsLeft <= 23 + 7 * Len(bundle.transfers)
  BY <1>1 DEF RequestsInv
<1>6. phase' = "ask" => nextId + CallsLeft' <= 22 + 7 * Len(bundle.transfers)
  BY <1>2, <1>3, <1>4, <1>5
<1> QED
  BY <1>1, <1>3, <1>6 DEF RequestsInv

\* Every step of a session keeps the room.
LEMMA RequestsKept == CliInv /\ RequestsInv /\ [CliNext]_allVars => RequestsInv'
<1> SUFFICES ASSUME CliInv, RequestsInv, [CliNext]_allVars PROVE RequestsInv'
  OBVIOUS
<1>1. ASSUME UNCHANGED <<pc, stop, bundle, nextId>>,
             phase' \in {phase, "shell", "report"}
      PROVE  RequestsInv'
  BY <1>1, SameLeft DEF RequestsInv
<1>2. CASE WriteFile \/ Conclude \/ Killed
  BY <1>1, <1>2 DEF WriteFile, Conclude, Killed, Output, Exit, Continue, vars,
                    verifierVars, rpcVars
<1>3. CASE NodeExecutes \/ Deliver \/ TimesOut
  BY <1>1, <1>3 DEF NodeExecutes, Execute, Deliver, CannotConnect, Receive, TimesOut,
                    ReplyLost, vars, verifierVars, cliVars
<1>4. CASE Session \/ UNCHANGED allVars
  BY <1>1, <1>4 DEF Session, allVars, vars, verifierVars, rpcVars, cliVars
<1> QED
  BY <1>2, <1>3, <1>4, InvokeRequests, ReadRequests, AskRequests, AnswerRequests
     DEF CliNext, Process

LEMMA RequestsInvariant == CliSpec => [](CliInv /\ RequestsInv)
BY CliInvariant, CliStarts, RequestsStart, CliKept, RequestsKept, PTL DEF CliSpec

\* verify makes at most 21 requests and seven more for each transfer of the bundle,
\* whatever the node, the network and the file are, so it waits for a timeout no more
\* often than that (core_rpc.py:81-113, verify.py:146-387).
THEOREM RequestsAreBounded ==
  CliSpec => [](nextId - 1 <= 21 + 7 * Len(bundle.transfers))
<1>1. CliInv /\ RequestsInv => nextId - 1 <= 21 + 7 * Len(bundle.transfers)
  <2> SUFFICES ASSUME CliInv, RequestsInv
               PROVE  nextId - 1 <= 21 + 7 * Len(bundle.transfers)
    OBVIOUS
  <2>1. nextId \in Nat /\ Len(bundle.transfers) \in Nat
    BY TurnNumbers DEF CliInv, RpcInv, Numbered, VerifyInv
  <2> QED
    BY <2>1 DEF RequestsInv
<1> QED
  BY <1>1, RequestsInvariant, PTL

\* The steps that are left to a command once it has read the file: three for each
\* call, and the report.
StepsLeft ==
  CASE phase = "ask"    -> 3 * CallsLeft + 1
    [] phase = "await"  -> 3 * CallsLeft - (IF outcome = Pending THEN 0 ELSE 1)
    [] phase = "write"  -> 2
    [] phase = "report" -> 1
    [] OTHER            -> 0

\* A wait that is over has an outcome.
LEMMA WaitEnds ==
  ASSUME CliInv, Deliver \/ TimesOut
  PROVE  outcome = Pending /\ outcome' # Pending
<1>1. Pending.kind \notin Exceptions \cup {"result"}
  BY DEF Pending, Outcome, Exceptions
<1>2. outcome'.kind \in Exceptions \cup {"result"}
  BY ReceivedKinds DEF Deliver, TimesOut, CannotConnect, ReplyLost, Raised, Outcome,
                       Exceptions, CliInv
<1> QED
  BY <1>1, <1>2 DEF Deliver, TimesOut, CannotConnect, ReplyLost, Receive

\* Every step of the command itself, and every reply, takes one of them.
LEMMA StepsRunOut ==
  ASSUME CliInv, RequestsInv, CliNext, phase \notin {"shell", "read"}
  PROVE  /\ StepsLeft' \in Nat /\ StepsLeft' <= StepsLeft
         /\ Process \/ Deliver \/ Killed => StepsLeft' < StepsLeft
<1>1. phase \in {"ask", "await", "write", "report"}
  BY DEF CliInv, CommandInv, PhaseInv
<1>2. phase \in {"ask", "await"} => CallsLeft \in Nat \ {0}
  BY TurnOfCommand
<1>3. StepsLeft \in Nat \ {0}
  BY <1>1, <1>2 DEF StepsLeft
<1>4. CASE phase' = "shell"
  BY <1>3, <1>4 DEF StepsLeft
<1>5. CASE WriteFile
  BY <1>4, <1>5 DEF WriteFile, Continue, Exit, StepsLeft
<1>6. CASE Ask
  <2>1. /\ phase = "ask" /\ phase' = "await" /\ outcome' = Pending
        /\ UNCHANGED <<pc, stop, bundle>>
    BY <1>6 DEF Ask, Send, Continue, vars, verifierVars
  <2>2. CallsLeft' = CallsLeft
    BY <2>1, SameLeft
  <2>3. StepsLeft = 3 * CallsLeft + 1 /\ StepsLeft' = 3 * CallsLeft - 0
    BY <2>1, <2>2 DEF StepsLeft
  <2> QED
    BY <1>2, <2>1, <2>3
<1>7. CASE NodeExecutes
  <2>1. UNCHANGED <<pc, stop, bundle, phase, outcome>>
    BY <1>7 DEF NodeExecutes, Execute, vars, verifierVars, cliVars
  <2>2. CallsLeft' = CallsLeft
    BY <2>1, SameLeft
  <2>3. StepsLeft' = StepsLeft
    BY <2>1, <2>2 DEF StepsLeft
  <2>4. ~(Process \/ Deliver \/ Killed)
    <3>1. /\ WriteFile \/ ReadFile \/ Conclude => phase' # phase
          /\ Ask \/ Answer \/ Killed => phase' # phase
      BY DEF WriteFile, ReadFile, Conclude, Output, Ask, Answer, Killed, Exit, Continue
    <3>2. Deliver \/ TimesOut => outcome' # outcome
      BY WaitEnds
    <3> QED
      BY <2>1, <3>1, <3>2 DEF Process
  <2> QED
    BY <1>3, <2>3, <2>4
<1>8. CASE Deliver \/ TimesOut
  <2>1. phase = "await" /\ UNCHANGED <<pc, stop, bundle, phase>>
    BY <1>8 DEF Deliver, TimesOut, vars, verifierVars, cliVars
  <2>2. CallsLeft' = CallsLeft
    BY <2>1, SameLeft
  <2>3. StepsLeft = 3 * CallsLeft - 0 /\ StepsLeft' = 3 * CallsLeft - 1
    BY <1>8, <2>1, <2>2, WaitEnds DEF StepsLeft
  <2> QED
    BY <1>2, <2>1, <2>3
<1>9. CASE Answer
  <2>1. /\ phase = "await" /\ outcome # Pending
        /\ phase' = "report" \/ (phase' = "ask" /\ pc' # "done")
    BY <1>9 DEF Answer
  <2>2. StepsLeft = 3 * CallsLeft - 1
    BY <2>1 DEF StepsLeft
  <2>3. CASE phase' = "report"
    BY <1>2, <2>1, <2>2, <2>3 DEF StepsLeft
  <2>4. CASE phase' = "ask"
    <3>1. CallsLeft' < CallsLeft
      BY <1>9, AnswerNearer DEF Nearer
    <3>2. CallsLeft' \in Nat
      <4>1. CliInv' /\ RequestsInv'
        BY CliKept, RequestsKept
      <4>2. TurnInv' /\ pc' # "done"
        BY <2>1, <2>4, <4>1 DEF TurnInv, CliInv, VerifyInv, RequestsInv
      <4> QED
        BY <4>2, NextLeftIsNumber
    <3>3. StepsLeft' = 3 * CallsLeft' + 1
      BY <2>4 DEF StepsLeft
    <3>4. PICK c \in Nat, d \in Nat : c = CallsLeft /\ d = CallsLeft' /\ d < c
      BY <1>2, <2>1, <3>1, <3>2
    <3>5. StepsLeft = 3 * c - 1 /\ StepsLeft' = 3 * d + 1
      BY <2>2, <3>3, <3>4
    <3>6. d < c
      BY <3>4
    <3>7. 3 * d + 1 \in Nat /\ 3 * d + 1 < 3 * c - 1
      BY <3>6
    <3> QED
      BY <3>5, <3>7
  <2> QED
    BY <2>1, <2>3, <2>4
<1>10. CASE Conclude \/ Killed
  <2>1. phase' = "shell"
    BY <1>10 DEF Conclude, Output, Exit, Killed
  <2> QED
    BY <1>4, <2>1
<1>11. ~(InvokeVerify \/ InvokeInspect \/ InvokeSimulate \/ ReadFile)
  BY DEF InvokeVerify, InvokeInspect, InvokeSimulate, Invoke, ReadFile
<1>12. ~Session
  BY DEF Session, CliInv, CommandInv, PhaseInv
<1> QED
  BY <1>5, <1>6, <1>7, <1>8, <1>9, <1>10, <1>11, <1>12 DEF CliNext, Process

\* Once a command has read its file only so many of its steps are left: each of its own
\* steps, of the replies and of the timeouts takes one, and nothing that the node or
\* the network does adds any (core_rpc.py:28, 96; cli.py:39-86).  It is the safety
\* half of EveryCommandEnds.
THEOREM CommandsRunOut ==
  CliSpec => [][phase \notin {"shell", "read"} =>
                  /\ StepsLeft' \in Nat /\ StepsLeft' <= StepsLeft
                  /\ Process \/ Deliver \/ Killed => StepsLeft' < StepsLeft]_allVars
<1>1. CliInv /\ RequestsInv /\ [CliNext]_allVars
        => [phase \notin {"shell", "read"} =>
              /\ StepsLeft' \in Nat /\ StepsLeft' <= StepsLeft
              /\ Process \/ Deliver \/ Killed => StepsLeft' < StepsLeft]_allVars
  BY StepsRunOut
<1> QED
  BY <1>1, RequestsInvariant, PTL DEF CliSpec
-----------------------------------------------------------------------------
(* The simulated fixture *)

\* The heights of the fixture, in their order.
LEMMA SimHeights ==
  ASSUME NEW with_transfer \in BOOLEAN
  PROVE  /\ {ChallengeAt, MintAt, TransferAt, LastAt(with_transfer), TipAt(with_transfer)}
              \subseteq Nat
         /\ ClaimAt = 100 /\ ClaimAt < ChallengeAt
         /\ MintAt = ChallengeAt + 1 /\ TransferAt = MintAt + 1
         /\ LastAt(with_transfer) = IF with_transfer THEN TransferAt ELSE MintAt
         /\ TipAt(with_transfer) = LastAt(with_transfer) + 1
         /\ ChallengeAt = ClaimAt + Profiles[Simulated].challenge_delay
         /\ Profiles[Simulated].challenge_delay \in Nat
<1>1. /\ Profiles[Simulated].challenge_delay \in Nat
      /\ Profiles[Simulated].challenge_delay > 0
  BY SimulationAssumption, ProfilesAssumption DEF Profile
<1> QED
  BY <1>1 DEF ClaimAt, ChallengeAt, MintAt, TransferAt, LastAt, TipAt

\* The names of a view's dictionaries.
ViewFields ==
  {"network", "headers_by_hash", "headers_by_height", "transactions", "proofs", "utxos",
   "tip_hash"}

\* The view once the headers up to this height are added: what the loop has built.
Built(height, tip) ==
  [network |-> Profiles[Simulated].network,
   headers_by_hash |->
     [x \in {SimBlock(h) : h \in 100..height} |-> SimHeader(x - 1000, tip)],
   headers_by_height |-> [h \in 100..height |-> SimHeader(h, tip)],
   transactions |-> <<>>, proofs |-> <<>>, utxos |-> <<>>,
   tip_hash |-> IF height = 99 THEN 0
                ELSE IF height = tip THEN SimBlock(tip) ELSE SimBlock(100)]

\* The loop starts from an empty view.
LEMMA BuiltStarts ==
  ASSUME NEW tip \in Nat
  PROVE  Built(99, tip) = EmptyView(Profiles[Simulated].network)
<1>1. {SimBlock(h) : h \in 100..99} = {} /\ 100..99 = {}
  OBVIOUS
<1>2. \A f : DOMAIN f = {} /\ f = [x \in {} |-> f[x]] => f = <<>>
  OBVIOUS
<1>3. [x \in {} |-> SimHeader(x - 1000, tip)] = <<>>
  BY <1>2
<1>4. [h \in {} |-> SimHeader(h, tip)] = <<>>
  BY <1>2
<1> QED
  BY <1>1, <1>3, <1>4 DEF Built, EmptyView

\* One round adds one header.
LEMMA BuiltGoesOn ==
  ASSUME NEW tip \in Nat, NEW height \in 100..tip
  PROVE  Built(height, tip) =
           add_header(Built(height - 1, tip), SimHeader(height, tip), height = tip)
<1> DEFINE v == Built(height - 1, tip)
           h == SimHeader(height, tip)
           by_hash == Built(height, tip).headers_by_hash
           by_height == Built(height, tip).headers_by_height
<1>1. h.hash = SimBlock(height) /\ h.height = height
  BY DEF SimHeader
<1>2. With(v.headers_by_height, height, h) = by_height
  <2>1. (100..(height - 1)) \cup {height} = 100..height
    OBVIOUS
  <2>2. DOMAIN v.headers_by_height = 100..(height - 1)
    BY DEF Built
  <2>3. \A i \in 100..(height - 1) : v.headers_by_height[i] = SimHeader(i, tip)
    BY DEF Built
  <2>4. by_height = [i \in 100..height |-> SimHeader(i, tip)]
    BY DEF Built
  <2> HIDE DEF v, by_height
  <2>5. \A i \in 100..height : i # height => i \in 100..(height - 1)
    OBVIOUS
  <2>6. \A i \in 100..height :
           (IF i = height THEN h ELSE v.headers_by_height[i]) = SimHeader(i, tip)
    BY <2>3, <2>5
  <2> QED
    BY <2>1, <2>2, <2>4, <2>6 DEF With
<1>3. With(v.headers_by_hash, SimBlock(height), h) = by_hash
  <2> DEFINE S(n) == {SimBlock(i) : i \in 100..n}
  <2>1. S(height - 1) \cup {SimBlock(height)} = S(height)
    <3>1. (100..(height - 1)) \cup {height} = 100..height
      OBVIOUS
    <3> QED
      BY <3>1
  <2>2. DOMAIN v.headers_by_hash = S(height - 1)
    BY DEF Built
  <2>3. \A x \in S(height - 1) : v.headers_by_hash[x] = SimHeader(x - 1000, tip)
    BY DEF Built
  <2>4. by_hash = [x \in S(height) |-> SimHeader(x - 1000, tip)]
    BY DEF Built
  <2>5. SimBlock(height) - 1000 = height
    BY DEF SimBlock
  <2> HIDE DEF v, by_hash, S
  <2>6. \A x \in S(height) :
           (IF x = SimBlock(height) THEN h ELSE v.headers_by_hash[x])
             = SimHeader(x - 1000, tip)
    BY <2>1, <2>3, <2>5
  <2> QED
    BY <2>1, <2>2, <2>4, <2>6 DEF With
<1>4. (IF height = tip \/ v.tip_hash = 0 THEN SimBlock(height) ELSE v.tip_hash)
        = Built(height, tip).tip_hash
  <2>1. v.tip_hash = IF height - 1 = 99 THEN 0
                     ELSE IF height - 1 = tip THEN SimBlock(tip) ELSE SimBlock(100)
    BY DEF Built
  <2>2. Built(height, tip).tip_hash = IF height = 99 THEN 0
                     ELSE IF height = tip THEN SimBlock(tip) ELSE SimBlock(100)
    BY DEF Built
  <2>3. SimBlock(100) # 0 /\ height # 99 /\ height - 1 # tip
    BY DEF SimBlock
  <2>4. height - 1 = 99 => height = 100
    OBVIOUS
  <2> HIDE DEF v
  <2> QED
    BY <2>1, <2>2, <2>3, <2>4
<1> DEFINE w == add_header(v, h, height = tip)
<1>5. /\ DOMAIN v = ViewFields
      /\ v.network = Profiles[Simulated].network
      /\ v.transactions = <<>> /\ v.proofs = <<>> /\ v.utxos = <<>>
  BY DEF Built, ViewFields
<1>6. /\ DOMAIN w = ViewFields /\ w = [f \in DOMAIN w |-> w[f]]
      /\ w.network = Profiles[Simulated].network
      /\ w.transactions = <<>> /\ w.proofs = <<>> /\ w.utxos = <<>>
      /\ w.headers_by_height = by_height /\ w.headers_by_hash = by_hash
      /\ w.tip_hash = Built(height, tip).tip_hash
  <2> HIDE DEF v, h, by_hash, by_height
  <2> QED
    BY <1>1, <1>2, <1>3, <1>4, <1>5 DEF add_header, ViewFields
<1>7. LET b == Built(height, tip) IN
      /\ DOMAIN b = ViewFields /\ b = [f \in DOMAIN b |-> b[f]]
      /\ b.network = Profiles[Simulated].network
      /\ b.transactions = <<>> /\ b.proofs = <<>> /\ b.utxos = <<>>
  BY DEF Built, ViewFields
<1> HIDE DEF v, w, h
<1>8. \A f \in ViewFields : w[f] = Built(height, tip)[f]
  BY <1>6, <1>7 DEF by_hash, by_height, ViewFields
<1>9. w = Built(height, tip)
  BY <1>6, <1>7, <1>8
<1> QED
  BY <1>9 DEF w, v, h

\* The loop builds the view with every header up to the tip (demo.py:67-78).
LEMMA HeadersBuilt ==
  ASSUME NEW tip \in Nat, tip >= 100
  PROVE  Headers(tip) = Built(tip, tip)
<1> DEFINE round(f, h) == IF h = 99 THEN EmptyView(Profiles[Simulated].network)
                          ELSE add_header(f[h - 1], SimHeader(h, tip), h = tip)
           Loop(f) == f = [h \in 99..tip |-> round(f, h)]
           built == [h \in 99..tip |-> Built(h, tip)]
           upTo == CHOOSE f : Loop(f)
<1>1. Headers(tip) = upTo[tip]
  BY DEF Headers
<1>2. Loop(built)
  <2>1. ASSUME NEW h \in 99..tip PROVE Built(h, tip) = round(built, h)
    <3>1. CASE h = 99
      BY <3>1, BuiltStarts
    <3>2. CASE h # 99
      <4>1. h \in 100..tip /\ h - 1 \in 99..tip
        BY <3>2
      <4>2. built[h - 1] = Built(h - 1, tip)
        BY <4>1
      <4> QED
        BY <3>2, <4>1, <4>2, BuiltGoesOn
    <3> QED
      BY <3>1, <3>2
  <2> HIDE DEF round
  <2> QED
    BY <2>1
<1>3. Loop(upTo)
  <2>1. \E f : Loop(f)
    BY <1>2
  <2> HIDE DEF Loop
  <2> QED
    BY <2>1, Zenon
<1>4. PICK f : f = upTo
  OBVIOUS
<1>5. \A h \in 99..tip : f[h] = round(f, h)
  <2> HIDE DEF upTo, round
  <2> QED
    BY <1>3, <1>4
<1>6. \A h \in 99..tip : f[h] = Built(h, tip)
  <2> DEFINE wrong == {h \in 99..tip : f[h] # Built(h, tip)}
  <2>1. CASE wrong = {}
    BY <2>1
  <2>2. CASE wrong # {}
    <3>1. PICK h \in wrong : \A m \in wrong : h <= m
      <4>1. wrong \in SUBSET Nat
        OBVIOUS
      <4> HIDE DEF wrong
      <4> QED
        BY <2>2, <4>1, LeastOf
    <3>2. h # 99
      BY <1>5, <3>1, BuiltStarts
    <3>3. h \in 100..tip /\ h - 1 \in 99..tip /\ ~(h <= h - 1)
      BY <3>1, <3>2
    <3>4. f[h - 1] = Built(h - 1, tip)
      BY <3>1, <3>3
    <3>5. f[h] = Built(h, tip)
      BY <1>5, <3>2, <3>3, <3>4, BuiltGoesOn
    <3> QED
      BY <3>1, <3>5
  <2> QED
    BY <2>1, <2>2
<1>7. tip \in 99..tip
  OBVIOUS
<1> HIDE DEF upTo
<1> QED
  BY <1>1, <1>4, <1>6, <1>7

-----------------------------------------------------------------------------
(* What a view of the fixture holds *)

HeaderFields == {"hash", "height", "confirmations", "chainwork"}

\* The headers of all heights are there, under a hash each, the tip's too.
HoldsHeader(v, h, tip) ==
  LET e == v.headers_by_height[h] IN
  /\ DOMAIN e = HeaderFields
  /\ e.height = h /\ e.confirmations = tip - h + 1
  /\ e.chainwork = 1000000 + (h - 99) * 10000
  /\ e.hash \in {SimBlock(h), -h}
  /\ e.hash \in DOMAIN v.headers_by_hash /\ v.headers_by_hash[e.hash] = e

HoldsHeaders(v, tip) ==
  /\ DOMAIN v.headers_by_height = 100..tip
  /\ \A h \in 100..tip : HoldsHeader(v, h, tip)
  /\ \A x \in DOMAIN v.headers_by_hash :
       \E h \in 100..tip : x = v.headers_by_height[h].hash
  /\ v.tip_hash = v.headers_by_height[tip].hash

\* The transaction is there, and its proof.
Holds(v, tx, height) ==
  /\ <<tx.txid, SimBlock(height)>> \in DOMAIN v.transactions
  /\ v.transactions[<<tx.txid, SimBlock(height)>>] =
       [inputs |-> tx.inputs, outputs |-> tx.outputs,
        block |-> SimBlock(height), height |-> height]
  /\ SimProof(tx, height) \in DOMAIN v.proofs
  /\ v.proofs[SimProof(tx, height)] = <<tx.txid, SimBlock(height)>>

HoldsCoin(v, with_transfer) ==
  LET title == SimTitle(with_transfer)
  IN  title \in DOMAIN v.utxos => v.utxos[title] = SimCoin(with_transfer)

SimInv(v, with_transfer) ==
  /\ DOMAIN v = ViewFields
  /\ v.network = Profiles[Simulated].network
  /\ HoldsHeaders(v, TipAt(with_transfer))
  /\ Holds(v, ClaimTx, ClaimAt) /\ Holds(v, MintTx, MintAt)
  /\ with_transfer => Holds(v, TransferTx, TransferAt)
  /\ HoldsCoin(v, with_transfer)

\* The loop's view has them all.
LEMMA BuiltHolds ==
  ASSUME NEW tip \in Nat, tip >= 100
  PROVE  LET v == Headers(tip) IN
         /\ DOMAIN v = ViewFields /\ v.network = Profiles[Simulated].network
         /\ HoldsHeaders(v, tip)
         /\ \A h \in 100..tip : v.headers_by_height[h].hash = SimBlock(h)
<1> DEFINE v == Built(tip, tip)
<1>1. /\ DOMAIN v = ViewFields /\ v.network = Profiles[Simulated].network
      /\ DOMAIN v.headers_by_height = 100..tip
      /\ \A h \in 100..tip : v.headers_by_height[h] = SimHeader(h, tip)
      /\ DOMAIN v.headers_by_hash = {SimBlock(h) : h \in 100..tip}
      /\ \A x \in DOMAIN v.headers_by_hash : v.headers_by_hash[x] = SimHeader(x - 1000, tip)
      /\ v.tip_hash = SimBlock(tip)
  BY DEF Built, ViewFields
<1> HIDE DEF v
<1>2. ASSUME NEW h \in 100..tip
      PROVE  HoldsHeader(v, h, tip) /\ v.headers_by_height[h].hash = SimBlock(h)
  <2>1. v.headers_by_height[h] = SimHeader(h, tip)
    BY <1>1
  <2>2. SimBlock(h) \in DOMAIN v.headers_by_hash
    BY <1>1
  <2>3. SimBlock(h) - 1000 = h
    BY DEF SimBlock
  <2>4. v.headers_by_hash[SimBlock(h)] = SimHeader(h, tip)
    BY <1>1, <2>2, <2>3
  <2>5. LET e == SimHeader(h, tip) IN
        /\ DOMAIN e = HeaderFields /\ e.hash = SimBlock(h) /\ e.height = h
        /\ e.confirmations = tip - h + 1 /\ e.chainwork = 1000000 + (h - 99) * 10000
    BY DEF SimHeader, HeaderFields
  <2> QED
    BY <2>1, <2>2, <2>4, <2>5 DEF HoldsHeader
<1>3. tip \in 100..tip
  OBVIOUS
<1>4. HoldsHeaders(v, tip)
  BY <1>1, <1>2, <1>3 DEF HoldsHeaders
<1>5. v = Headers(tip)
  BY HeadersBuilt DEF v
<1> QED
  BY <1>1, <1>2, <1>4, <1>5

\* A transaction is added beside those of other blocks.
LEMMA ConfirmHolds ==
  ASSUME NEW v, DOMAIN v = ViewFields, NEW tx, NEW height \in Nat,
         NEW w, w = Confirm(v, tx, height)
  PROVE  /\ DOMAIN w = ViewFields /\ w.network = v.network
         /\ w.headers_by_hash = v.headers_by_hash
         /\ w.headers_by_height = v.headers_by_height /\ w.tip_hash = v.tip_hash
         /\ Holds(w, tx, height)
         /\ \A t : \A h \in Nat \ {height} : Holds(v, t, h) => Holds(w, t, h)
<1>1. PICK stored, place, proof :
        /\ stored = [inputs |-> tx.inputs, outputs |-> tx.outputs,
                     block |-> SimBlock(height), height |-> height]
        /\ place = <<tx.txid, SimBlock(height)>>
        /\ proof = SimProof(tx, height)
  OBVIOUS
<1>2. w = [v EXCEPT !.transactions = With(@, place, stored), !.proofs = With(@, proof, place)]
  BY <1>1 DEF Confirm, add_transaction
<1>3. /\ DOMAIN w = ViewFields /\ w.network = v.network
      /\ w.headers_by_hash = v.headers_by_hash
      /\ w.headers_by_height = v.headers_by_height /\ w.tip_hash = v.tip_hash
      /\ w.transactions = With(v.transactions, place, stored)
      /\ w.proofs = With(v.proofs, proof, place)
  BY <1>2 DEF ViewFields
<1>4. PICK before, after, proofs, proved :
        /\ before = v.transactions /\ after = w.transactions
        /\ proofs = v.proofs /\ proved = w.proofs
  OBVIOUS
<1>5. /\ DOMAIN after = (DOMAIN before) \cup {place} /\ after[place] = stored
      /\ \A k \in DOMAIN before : k # place => after[k] = before[k]
      /\ DOMAIN proved = (DOMAIN proofs) \cup {proof} /\ proved[proof] = place
      /\ \A k \in DOMAIN proofs : k # proof => proved[k] = proofs[k]
  <2>1. after = With(before, place, stored) /\ proved = With(proofs, proof, place)
    BY <1>3, <1>4
  <2> QED
    BY <2>1 DEF With
<1>6. Holds(w, tx, height)
  BY <1>1, <1>4, <1>5 DEF Holds
<1>7. ASSUME NEW t, NEW h \in Nat \ {height}, Holds(v, t, h)
      PROVE  Holds(w, t, h)
  <2>1. PICK there, shown : there = <<t.txid, SimBlock(h)>> /\ shown = SimProof(t, h)
    OBVIOUS
  <2>2. SimBlock(h) # SimBlock(height)
    BY DEF SimBlock
  <2>3. there # place /\ shown # proof
    BY <1>1, <2>1, <2>2 DEF SimProof
  <2>4. there \in DOMAIN before /\ shown \in DOMAIN proofs
    BY <1>4, <1>7, <2>1 DEF Holds
  <2>5. /\ there \in DOMAIN after /\ after[there] = before[there]
        /\ shown \in DOMAIN proved /\ proved[shown] = proofs[shown]
    BY <1>5, <2>3, <2>4
  <2> QED
    BY <1>4, <1>7, <2>1, <2>5 DEF Holds
<1> QED
  BY <1>3, <1>6, <1>7

\* A view with these headers and transactions keeps them as coins come.
LEMMA SameHeaders ==
  ASSUME NEW v, NEW w, NEW tip, w.headers_by_hash = v.headers_by_hash,
         w.headers_by_height = v.headers_by_height, w.tip_hash = v.tip_hash,
         HoldsHeaders(v, tip)
  PROVE  HoldsHeaders(w, tip)
<1>1. ASSUME NEW h, HoldsHeader(v, h, tip) PROVE HoldsHeader(w, h, tip)
  BY <1>1, SMT DEF HoldsHeader
<1> QED
  BY <1>1 DEF HoldsHeaders

\* And its transactions.
LEMMA SameTransactions ==
  ASSUME NEW v, NEW w, NEW tx, NEW height, w.transactions = v.transactions,
         w.proofs = v.proofs, Holds(v, tx, height)
  PROVE  Holds(w, tx, height)
BY DEF Holds

\* The fixture as built (demo.py:58-239).
LEMMA FixtureBuilt ==
  ASSUME NEW with_transfer \in BOOLEAN
  PROVE  LET f == build_simulated_fixture(with_transfer) IN
         /\ DOMAIN f = {"bundle", "view"} /\ f.bundle = SimBundle(with_transfer)
         /\ SimInv(f.view, with_transfer)
         /\ SimTitle(with_transfer) \in DOMAIN f.view.utxos
         /\ \A h \in 100..TipAt(with_transfer) :
              f.view.headers_by_height[h].hash = SimBlock(h)
<1> DEFINE tip == TipAt(with_transfer)
           v0 == Headers(tip)
           v1 == Confirm(v0, ClaimTx, ClaimAt)
           v2 == Confirm(v1, MintTx, MintAt)
           v3 == Confirm(v2, TransferTx, TransferAt)
           v4 == IF with_transfer THEN v3 ELSE v2
           v5 == add_utxo(v4, SimTitle(with_transfer), SimCoin(with_transfer))
<1>1. /\ DOMAIN v0 = ViewFields /\ v0.network = Profiles[Simulated].network
      /\ HoldsHeaders(v0, tip)
      /\ \A h \in 100..tip : v0.headers_by_height[h].hash = SimBlock(h)
  <2>1. tip \in Nat /\ tip >= 100
    BY SimHeights
  <2> HIDE DEF tip
  <2> QED
    BY <2>1, BuiltHolds
<1>2. /\ {ClaimAt, MintAt, TransferAt} \subseteq Nat
      /\ ClaimAt # MintAt /\ ClaimAt # TransferAt /\ MintAt # TransferAt
  BY SimHeights
<1> DEFINE SameSoFar(w) == /\ DOMAIN w = ViewFields /\ w.network = v0.network
                           /\ w.headers_by_hash = v0.headers_by_hash
                           /\ w.headers_by_height = v0.headers_by_height
                           /\ w.tip_hash = v0.tip_hash
<1> HIDE DEF tip, v0
<1>3. SameSoFar(v1) /\ Holds(v1, ClaimTx, ClaimAt)
  BY <1>1, <1>2, ConfirmHolds
<1> HIDE DEF v1
<1>4. SameSoFar(v2) /\ Holds(v2, ClaimTx, ClaimAt) /\ Holds(v2, MintTx, MintAt)
  BY <1>2, <1>3, ConfirmHolds
<1> HIDE DEF v2
<1>5. /\ SameSoFar(v3) /\ Holds(v3, ClaimTx, ClaimAt) /\ Holds(v3, MintTx, MintAt)
      /\ Holds(v3, TransferTx, TransferAt)
  BY <1>2, <1>4, ConfirmHolds
<1> HIDE DEF v3
<1>6. /\ SameSoFar(v4) /\ Holds(v4, ClaimTx, ClaimAt) /\ Holds(v4, MintTx, MintAt)
      /\ with_transfer => Holds(v4, TransferTx, TransferAt)
  BY <1>4, <1>5
<1> HIDE DEF v4
<1>7. /\ SameSoFar(v5) /\ v5.transactions = v4.transactions /\ v5.proofs = v4.proofs
      /\ v5.utxos = With(v4.utxos, SimTitle(with_transfer), SimCoin(with_transfer))
  BY <1>6 DEF add_utxo, ViewFields
<1> HIDE DEF v5
<1>8. /\ SimTitle(with_transfer) \in DOMAIN v5.utxos
      /\ HoldsCoin(v5, with_transfer)
  BY <1>7 DEF HoldsCoin, With
<1>9. HoldsHeaders(v5, tip) /\ \A h \in 100..tip : v5.headers_by_height[h].hash = SimBlock(h)
  BY <1>1, <1>7, SameHeaders
<1>10. /\ Holds(v5, ClaimTx, ClaimAt) /\ Holds(v5, MintTx, MintAt)
       /\ with_transfer => Holds(v5, TransferTx, TransferAt)
  BY <1>6, <1>7, SameTransactions
<1>11. SimInv(v5, with_transfer)
  BY <1>1, <1>7, <1>8, <1>9, <1>10 DEF SimInv, tip
<1>12. build_simulated_fixture(with_transfer)
         = [bundle |-> SimBundle(with_transfer), view |-> v5]
  BY DEF build_simulated_fixture, v0, v1, v2, v3, v4, v5, tip
<1> QED
  BY <1>8, <1>9, <1>11, <1>12 DEF tip
-----------------------------------------------------------------------------
(* The fixture's bundle passes every check *)

\* What its records say.
LEMMA SimFields ==
  ASSUME NEW with_transfer \in BOOLEAN, NEW b, b = SimBundle(with_transfer)
  PROVE  /\ b.profile = Simulated
         /\ b.claim.outpoint = ClaimOutpoint /\ b.claim.block = SimBlock(ClaimAt)
         /\ b.claim.height = ClaimAt /\ b.claim.seal_script = ClaimSeal
         /\ b.claim.algorithm = SHA256D /\ b.claim.target = SimTarget
         /\ b.claim.commitment = ClaimDigest /\ b.claim.proof = SimProof(ClaimTx, ClaimAt)
         /\ b.work.challenge_height = ChallengeAt
         /\ b.work.challenge_block = SimBlock(ChallengeAt)
         /\ b.work.challenge_digest = ChallengeDigest /\ b.work.extra_nonce = 0
         /\ b.work.nonce = MinedNonce /\ b.work.work_hash = MinedHash
         /\ b.mint.txid = MintTx.txid /\ b.mint.block = SimBlock(MintAt)
         /\ b.mint.height = MintAt /\ b.mint.proof = SimProof(MintTx, MintAt)
         /\ b.mint.title_vout = 1 /\ b.mint.title_script = TitleScript
         /\ b.mint.commitment = MintDigest
         /\ ~with_transfer => b.transfers = <<>> /\ Len(b.transfers) = 0
         /\ with_transfer => /\ Len(b.transfers) = 1 /\ b.transfers # <<>>
                             /\ b.transfers[1].index = 0
                             /\ b.transfers[1].previous = MintTitle
                             /\ b.transfers[1].txid = TransferTx.txid
                             /\ b.transfers[1].block = SimBlock(TransferAt)
                             /\ b.transfers[1].height = TransferAt
                             /\ b.transfers[1].proof = SimProof(TransferTx, TransferAt)
                             /\ b.transfers[1].successor_vout = 1
                             /\ b.transfers[1].successor_script = SuccessorScript
                             /\ b.transfers[1].commitment = TransferDigest
BY DEF SimBundle

\* The transactions of the stops, and the heights.
SimTxAt(k) == CASE k = Claim -> ClaimTx
                [] k = Mint  -> MintTx
                [] OTHER     -> TransferTx
SimHeightAt(k) == CASE k = Claim     -> ClaimAt
                    [] k = Challenge -> ChallengeAt
                    [] k = Mint      -> MintAt
                    [] OTHER         -> TransferAt

\* The bundle's stops are these.
LEMMA SimStops ==
  ASSUME NEW with_transfer \in BOOLEAN, NEW b, b = SimBundle(with_transfer),
         NEW k \in Stops(b)
  PROVE  /\ k \in {Claim, Challenge, Mint} \/ (k = 4 /\ with_transfer)
         /\ StopHeight(b, k) = SimHeightAt(k) /\ StopBlock(b, k) = SimBlock(SimHeightAt(k))
         /\ k # Challenge => /\ Place(b, k) = <<SimTxAt(k).txid, SimBlock(SimHeightAt(k))>>
                             /\ StopProof(b, k) = SimProof(SimTxAt(k), SimHeightAt(k))
         /\ SimHeightAt(k) \in 100..TipAt(with_transfer) /\ SimHeightAt(k) \in Nat
<1>1. k \in 1..3 \/ (k = 4 /\ with_transfer)
  <2>1. PICK n : n = Len(b.transfers) /\ (with_transfer => n = 1) /\ (~with_transfer => n = 0)
    BY SimFields
  <2>2. k \in 1..(3 + n)
    BY <2>1 DEF Stops
  <2>3. CASE n = 1 /\ with_transfer
    <3>1. k \in 1..4
      BY <2>2, <2>3
    <3>2. k \in 1..3 \/ k = 4
      BY <3>1
    <3> QED
      BY <2>3, <3>2, Zenon
  <2>4. CASE n = 0
    BY <2>2, <2>4
  <2> QED
    BY <2>1, <2>3, <2>4
<1>2. ClaimOutpoint[1] = ClaimTx.txid
  BY DEF ClaimOutpoint
<1>3. CASE k = 1
  BY <1>2, <1>3, SimFields, SimHeights
     DEF Claim, Challenge, Mint, StopHeight, StopBlock, StopTxid, StopProof, Place,
         SimTxAt, SimHeightAt
<1>4. CASE k = 2
  BY <1>4, SimFields, SimHeights
     DEF Claim, Challenge, Mint, StopHeight, StopBlock, SimHeightAt
<1>5. CASE k = 3
  BY <1>5, SimFields, SimHeights
     DEF Claim, Challenge, Mint, StopHeight, StopBlock, StopTxid, StopProof, Place,
         SimTxAt, SimHeightAt
<1>6. CASE k = 4 /\ with_transfer
  <2>1. Transition(b, k) = b.transfers[1]
    BY <1>6 DEF Transition
  <2>2. /\ b.transfers[1].txid = TransferTx.txid
        /\ b.transfers[1].block = SimBlock(TransferAt) /\ b.transfers[1].height = TransferAt
        /\ b.transfers[1].proof = SimProof(TransferTx, TransferAt)
    BY <1>6, SimFields
  <2>3. TransferAt \in 100..TipAt(with_transfer) /\ TransferAt \in Nat
    <3>1. TipAt(with_transfer) = TransferAt + 1
      BY <1>6 DEF TipAt, LastAt
    <3>2. TransferAt \in Nat /\ TransferAt >= 100
      BY SimHeights
    <3> QED
      BY <3>1, <3>2
  <2>4. /\ StopHeight(b, k) = TransferAt /\ StopBlock(b, k) = SimBlock(TransferAt)
        /\ StopTxid(b, k) = TransferTx.txid
        /\ StopProof(b, k) = SimProof(TransferTx, TransferAt)
    <3>1. k # Claim /\ k # Challenge /\ k # Mint
      BY <1>6 DEF Claim, Challenge, Mint
    <3> QED
      BY <2>1, <2>2, <3>1 DEF StopHeight, StopBlock, StopTxid, StopProof
  <2>5. SimTxAt(k) = TransferTx /\ SimHeightAt(k) = TransferAt
    BY <1>6 DEF Claim, Challenge, Mint, SimTxAt, SimHeightAt
  <2> QED
    BY <1>6, <2>3, <2>4, <2>5 DEF Place
<1> QED
  BY <1>1, <1>3, <1>4, <1>5, <1>6

\* The digests that the verifier recomputes are the builder's.
LEMMA SimDigests ==
  ASSUME NEW with_transfer \in BOOLEAN, NEW b, b = SimBundle(with_transfer)
  PROVE  /\ ExpectedClaimCommitment(b) = ClaimDigest
         /\ ExpectedChallenge(b) = ChallengeDigest
         /\ ExpectedWorkHash(b) = MinedHash
         /\ ExpectedMintCommitment(b) = MintDigest
         /\ with_transfer => ExpectedTransferCommitment(b, 4) = TransferDigest
<1>1. ExpectedClaimCommitment(b) = ClaimDigest
  <2>1. ClaimOutpoint[2] = 1
    BY DEF ClaimOutpoint
  <2>2. /\ b.profile = Simulated /\ b.claim.outpoint = ClaimOutpoint
        /\ b.claim.seal_script = ClaimSeal /\ b.claim.algorithm = SHA256D
        /\ b.claim.target = SimTarget
    BY SimFields
  <2>3. b.claim.outpoint[2] = 1
    BY <2>1, <2>2
  <2> QED
    BY <2>2, <2>3, Zenon DEF ExpectedClaimCommitment, ClaimDigest
<1>2. ExpectedChallenge(b) = ChallengeDigest
  BY <1>1, SimFields, Zenon DEF ExpectedChallenge, ChallengeDigest
<1>3. ExpectedWorkHash(b) = MinedHash
  BY <1>1, <1>2, SimFields, Zenon DEF ExpectedWorkHash, MinedHash
<1>4. ExpectedMintCommitment(b) = MintDigest
  BY <1>2, <1>3, SimFields, Zenon DEF ExpectedMintCommitment, MintDigest
<1>5. ASSUME with_transfer PROVE ExpectedTransferCommitment(b, 4) = TransferDigest
  <2>1. Transition(b, 4) = b.transfers[1]
    <3>1. 4 - 3 = 1
      OBVIOUS
    <3> QED
      BY <3>1, Zenon DEF Transition
  <2>2. TitleAt(b, 4 - 1) = MintTitle
    BY SimFields DEF TitleAt, Mint, MintTitle
  <2>3. AtomId(b) = atom_id(MintTx.txid, 1, MintDigest)
    BY <1>4, SimFields, Zenon DEF AtomId
  <2>4. /\ b.profile = Simulated /\ b.transfers[1].index = 0
        /\ b.transfers[1].successor_vout = 1
        /\ b.transfers[1].successor_script = SuccessorScript
    BY <1>5, SimFields
  <2> QED
    BY <2>1, <2>2, <2>3, <2>4, Zenon
       DEF ExpectedTransferCommitment, TransferDigest
<1> QED
  BY <1>1, <1>2, <1>3, <1>4, <1>5

\* A transaction of the fixture has one seal and one marker.
LEMMA SimOutputs ==
  ASSUME NEW tx, NEW label, NEW inputs, NEW seal, NEW value, NEW kind \in MarkerKinds,
         NEW digest,
         tx.outputs = SimTx(label, inputs, <<"seal", seal>>, value,
                            marker_script(kind, digest)).outputs
  PROVE  /\ 1 \in DOMAIN tx.outputs /\ ScriptAt(tx, 1) = <<"seal", seal>>
         /\ is_supported_seal_script(ScriptAt(tx, 1))
         /\ SoleMarker(tx, kind, digest) /\ OneMatchingMarker(tx, kind, digest)
<1>1. PICK outputs : outputs = tx.outputs
  OBVIOUS
<1>2. /\ DOMAIN outputs = {1, 2} /\ outputs[1].script = <<"seal", seal>>
      /\ outputs[2].script = <<kind, digest>>
  BY <1>1 DEF SimTx, marker_script
<1>3. {j \in DOMAIN outputs : outputs[j].script[1] = kind} = {2}
  BY <1>2 DEF MarkerKinds
<1>4. PICK markers : markers = collect_markers(outputs, kind)
  OBVIOUS
<1>5. DOMAIN markers = {2} /\ markers[2] = digest
  BY <1>2, <1>3, <1>4 DEF collect_markers
<1>6. SoleMarker(tx, kind, digest) /\ OneMatchingMarker(tx, kind, digest)
  BY <1>1, <1>4, <1>5 DEF SoleMarker, OneMatchingMarker
<1> QED
  BY <1>1, <1>2, <1>6 DEF ScriptAt, is_supported_seal_script

\* The search found work, since there was some to find (demo.py:111-116).
LEMMA WorkIsFound == WorkMeets(MinedNonce)
<1> DEFINE found == {n \in SimNonces : WorkMeets(n)}
<1>1. PICK n \in found : \A m \in found : n <= m
  <2>1. \E n \in SimNonces : WorkMeets(n)
    BY SimulationAssumption
  <2>2. found # {}
    BY <2>1
  <2>3. SimNonces \subseteq Nat
    BY SimulationAssumption
  <2>4. found \in SUBSET Nat
    BY <2>3
  <2> HIDE DEF found
  <2> QED
    BY <2>2, <2>4, LeastOf
<1>2. \A k \in SimNonces : k < n => ~WorkMeets(k)
  <2>1. SimNonces \subseteq Nat
    BY SimulationAssumption
  <2> QED
    BY <1>1, <2>1
<1>3. \E x \in SimNonces : WorkMeets(x) /\ \A k \in SimNonces : k < x => ~WorkMeets(k)
  BY <1>1, <1>2
<1> QED
  BY <1>3, Zenon DEF MinedNonce

\* Its claim passes (verify.py:146-205).
LEMMA SimClaimPasses ==
  ASSUME NEW with_transfer \in BOOLEAN, NEW b, b = SimBundle(with_transfer),
         NEW tx, tx.outputs = ClaimTx.outputs
  PROVE  Passes(ClaimChecks(b, tx))
<1>1. /\ b.profile = Simulated /\ b.claim.outpoint[2] = 1
      /\ b.claim.seal_script = ClaimSeal /\ b.claim.commitment = ClaimDigest
      /\ b.work.challenge_height = ChallengeAt /\ b.claim.height = ClaimAt
  BY SimFields DEF ClaimOutpoint
<1>2. ChallengeAt = ClaimAt + Profiles[Simulated].challenge_delay
  BY DEF ChallengeAt
<1>3. /\ 1 \in DOMAIN tx.outputs /\ ScriptAt(tx, 1) = ClaimSeal
      /\ is_supported_seal_script(ScriptAt(tx, 1))
      /\ OneMatchingMarker(tx, "claim", ClaimDigest)
  <2>1. ClaimSeal = <<"seal", "claim-seal">>
    BY DEF ClaimSeal, _p2tr_script
  <2>2. tx.outputs = SimTx("claim", {}, <<"seal", "claim-seal">>, 100000,
                           marker_script("claim", ClaimDigest)).outputs
    BY <2>1 DEF ClaimTx
  <2>3. "claim" \in MarkerKinds
    BY DEF MarkerKinds
  <2> QED
    BY <2>1, <2>2, <2>3, SimOutputs
<1>4. ExpectedClaimCommitment(b) = ClaimDigest
  BY SimDigests
<1> QED
  BY <1>1, <1>2, <1>3, <1>4, SixPass DEF ClaimChecks, Check

\* Its work passes (verify.py:206-243).
LEMMA SimWorkPasses ==
  ASSUME NEW with_transfer \in BOOLEAN, NEW b, b = SimBundle(with_transfer)
  PROVE  Passes(ChallengeChecks(b))
<1>1. /\ b.profile = Simulated /\ b.claim.target = SimTarget
      /\ b.work.challenge_digest = ChallengeDigest /\ b.work.work_hash = MinedHash
      /\ b.work.challenge_height = ChallengeAt /\ b.mint.height = MintAt
  BY SimFields
<1>2. ExpectedChallenge(b) = ChallengeDigest /\ ExpectedWorkHash(b) = MinedHash
  BY SimDigests
<1>3. HashInt(ExpectedWorkHash(b)) <= b.claim.target
  BY <1>1, <1>2, WorkIsFound DEF WorkMeets, MinedHash
<1>4. InMintWindow(b)
  <2>1. MintAt = ChallengeAt + 1 /\ ChallengeAt \in Nat
    BY SimHeights
  <2>2. Profiles[Simulated].mint_window \in Nat /\ Profiles[Simulated].mint_window > 0
    BY SimulationAssumption, ProfilesAssumption DEF Profile
  <2> QED
    BY <1>1, <2>1, <2>2 DEF InMintWindow
<1> QED
  BY <1>1, <1>2, <1>3, <1>4, FourPass DEF ChallengeChecks, Check

\* Its mint passes (verify.py:244-292).
LEMMA SimMintPasses ==
  ASSUME NEW with_transfer \in BOOLEAN, NEW b, b = SimBundle(with_transfer),
         NEW tx, tx.inputs = MintTx.inputs, tx.outputs = MintTx.outputs
  PROVE  Passes(MintChecks(b, tx))
<1>1. /\ b.claim.outpoint = ClaimOutpoint /\ b.mint.title_vout = 1
      /\ b.mint.title_script = TitleScript /\ b.mint.commitment = MintDigest
  BY SimFields
<1>2. /\ 1 \in DOMAIN tx.outputs /\ ScriptAt(tx, 1) = TitleScript
      /\ is_supported_seal_script(ScriptAt(tx, 1))
      /\ SoleMarker(tx, "mint", MintDigest)
  <2>1. TitleScript = <<"seal", "title-owner-0">>
    BY DEF TitleScript, _p2tr_script
  <2>2. tx.outputs = SimTx("mint", {ClaimOutpoint}, <<"seal", "title-owner-0">>, 98000,
                           marker_script("mint", MintDigest)).outputs
    BY <2>1 DEF MintTx
  <2>3. "mint" \in MarkerKinds
    BY DEF MarkerKinds
  <2> QED
    BY <2>1, <2>2, <2>3, SimOutputs
<1>3. SpendsOnce(tx, ClaimOutpoint)
  BY DEF MintTx, SimTx, SpendsOnce
<1>4. ExpectedMintCommitment(b) = MintDigest
  BY SimDigests
<1> QED
  BY <1>1, <1>2, <1>3, <1>4, SixPass DEF MintChecks, Check

\* Its transition passes, in its place (verify.py:293-347).
LEMMA SimTransferPasses ==
  ASSUME NEW with_transfer \in BOOLEAN, with_transfer, NEW b, b = SimBundle(with_transfer),
         NEW tx, tx.inputs = TransferTx.inputs, tx.outputs = TransferTx.outputs
  PROVE  Passes(TransferOrderChecks(b, 4)) /\ Passes(TransferChecks(b, 4, tx))
<1>1. /\ Transition(b, 4) = b.transfers[1]
      /\ Transition(b, 4).index = 0 /\ Transition(b, 4).previous = MintTitle
      /\ Transition(b, 4).height = TransferAt /\ Transition(b, 4).successor_vout = 1
      /\ Transition(b, 4).successor_script = SuccessorScript
      /\ Transition(b, 4).commitment = TransferDigest
  <2>1. 4 - 3 = 1
    OBVIOUS
  <2>2. Transition(b, 4) = b.transfers[1]
    BY <2>1, Zenon DEF Transition
  <2>3. /\ b.transfers[1].index = 0 /\ b.transfers[1].previous = MintTitle
        /\ b.transfers[1].height = TransferAt /\ b.transfers[1].successor_vout = 1
        /\ b.transfers[1].successor_script = SuccessorScript
        /\ b.transfers[1].commitment = TransferDigest
    BY SimFields
  <2> QED
    BY <2>2, <2>3, Zenon
<1>2. b.mint.txid = MintTx.txid /\ b.mint.title_vout = 1 /\ b.mint.height = MintAt
  BY SimFields
<1>3. TitleAt(b, 4 - 1) = MintTitle /\ StopHeight(b, 4 - 1) = MintAt
  <2>1. 4 - 1 = Mint /\ Mint # Claim /\ Mint # Challenge
    BY DEF Claim, Challenge, Mint
  <2> QED
    BY <1>2, <2>1 DEF TitleAt, StopHeight, MintTitle
<1>4. TransferAt >= MintAt
  <2>1. TransferAt = MintAt + 1 /\ MintAt \in Nat
    BY SimHeights
  <2> QED
    BY <2>1
<1>5. /\ 1 \in DOMAIN tx.outputs /\ ScriptAt(tx, 1) = SuccessorScript
      /\ is_supported_seal_script(ScriptAt(tx, 1))
      /\ SoleMarker(tx, "transfer", TransferDigest)
  <2>1. SuccessorScript = <<"seal", "title-owner-1">>
    BY DEF SuccessorScript, _p2tr_script
  <2>2. tx.outputs = SimTx("transfer-0", {MintTitle}, <<"seal", "title-owner-1">>, 96000,
                           marker_script("transfer", TransferDigest)).outputs
    BY <2>1 DEF TransferTx
  <2>3. "transfer" \in MarkerKinds
    BY DEF MarkerKinds
  <2> QED
    BY <2>1, <2>2, <2>3, SimOutputs
<1>6. SpendsOnce(tx, MintTitle)
  BY DEF TransferTx, SimTx, SpendsOnce
<1>7. ExpectedTransferCommitment(b, 4) = TransferDigest
  BY SimDigests
<1>8. Passes(TransferOrderChecks(b, 4))
  <2>1. 4 - 4 = 0
    OBVIOUS
  <2>2. Transition(b, 4).index = 4 - 4
    BY <1>1, <2>1, Zenon
  <2> QED
    BY <1>1, <1>3, <1>4, <2>2, ThreePass DEF TransferOrderChecks, Check
<1>9. Passes(TransferChecks(b, 4, tx))
  BY <1>1, <1>3, <1>5, <1>6, <1>7, SixPass DEF TransferChecks, Check
<1> QED
  BY <1>8, <1>9

\* So every stop's checks pass on the transaction that the builder made for it.
LEMMA SimStopPasses ==
  ASSUME NEW with_transfer \in BOOLEAN, NEW b, b = SimBundle(with_transfer),
         NEW k \in Stops(b), NEW tx,
         k # Challenge => /\ tx.inputs = SimTxAt(k).inputs
                          /\ tx.outputs = SimTxAt(k).outputs
  PROVE  Passes(StopChecks(b, k, tx))
<1>1. k = Claim \/ k = Challenge \/ k = Mint \/ (k = 4 /\ with_transfer)
  BY SimStops
<1>2. Len(b.transfers) \in Nat /\ (~with_transfer => Len(b.transfers) = 0)
      /\ (with_transfer => Len(b.transfers) = 1)
  BY SimFields
<1>3. k = Claim => Passes(ClaimChecks(b, tx))
  <2> SUFFICES ASSUME k = Claim PROVE Passes(ClaimChecks(b, tx))
    OBVIOUS
  <2>1. k # Challenge
    BY DEF Claim, Challenge
  <2>2. SimTxAt(k) = ClaimTx
    BY DEF SimTxAt, Claim, Mint
  <2>3. tx.outputs = ClaimTx.outputs
    BY <2>1, <2>2
  <2> QED
    BY <2>3, SimClaimPasses
<1>4. Passes(ChallengeChecks(b))
  BY SimWorkPasses
<1>5. k = Mint => Passes(MintChecks(b, tx))
  BY SimMintPasses DEF SimTxAt, Claim, Challenge, Mint
<1>6. k > Mint => Passes(TransferChecks(b, k, tx))
  <2>1. CASE k = 4 /\ with_transfer
    <3>1. tx.inputs = TransferTx.inputs /\ tx.outputs = TransferTx.outputs
      BY <2>1 DEF SimTxAt, Claim, Challenge, Mint
    <3> QED
      BY <2>1, <3>1, SimTransferPasses
  <2> QED
    BY <1>1, <2>1 DEF Claim, Challenge, Mint
<1>7. k >= Mint /\ k + 1 \in Stops(b) => Passes(TransferOrderChecks(b, k + 1))
  <2> SUFFICES ASSUME k >= Mint, k + 1 \in Stops(b)
               PROVE  Passes(TransferOrderChecks(b, k + 1))
    OBVIOUS
  <2>1. k + 1 \in {1, 2, 3} \/ (k + 1 = 4 /\ with_transfer)
    BY SimStops DEF Claim, Challenge, Mint
  <2>2. k + 1 = 4 /\ with_transfer
    BY <1>1, <2>1 DEF Claim, Challenge, Mint
  <2> QED
    BY <2>2, SimTransferPasses
<1> QED
  BY <1>2, <1>3, <1>4, <1>5, <1>6, <1>7, StopListFits

\* And the checks that come before the chain (verify.py:146-173).
LEMMA SimStartPasses ==
  ASSUME NEW with_transfer \in BOOLEAN, NEW b, b = SimBundle(with_transfer)
  PROVE  Passes(StartChecks(b, Profiles[Simulated].network))
<1>1. b.profile = Simulated /\ b.claim.algorithm = SHA256D /\ b.claim.target = SimTarget
  BY SimFields
<1>2. SimTarget \in Nat /\ Simulated \in DOMAIN Profiles
  BY SimulationAssumption, ProfilesAssumption DEF SimTarget, Profile
<1>3. SimTarget <= Profiles[Simulated].maximum_target
  BY <1>2 DEF SimTarget
<1> QED
  BY <1>1, <1>2, <1>3, FourPass DEF StartChecks, Check
-----------------------------------------------------------------------------
(* The verdict on the fixture *)

\* One list of checks after another is a list of checks.
LEMMA ConcatIsSequence ==
  ASSUME NEW s, NEW t, Sequence(s), Sequence(t)
  PROVE  Sequence(s \o t)
<1> DEFINE S == Range(s) \cup Range(t)
<1>1. s \in Seq(S) /\ t \in Seq(S)
  BY SeqMonotonic DEF Sequence
<1>2. s \o t \in Seq(S)
  BY <1>1, ConcatProperties
<1> HIDE DEF S
<1>3. PICK u : u = s \o t
  OBVIOUS
<1>4. u \in [1..Len(u) -> S] /\ Len(u) \in Nat /\ DOMAIN u = 1..Len(u)
  BY <1>2, <1>3, LenProperties
<1>5. \A i \in 1..Len(u) : u[i] \in Range(u)
  BY <1>4 DEF Range
<1>6. u \in [1..Len(u) -> Range(u)]
  BY <1>4, <1>5
<1>7. u \in Seq(Range(u))
  BY <1>4, <1>6, SeqDef
<1> QED
  BY <1>3, <1>7 DEF Sequence

\* A list of one check.
LEMMA OnePasses ==
  ASSUME NEW code, NEW ok, NEW s, s = <<Check(code, ok)>>
  PROVE  (ok => Passes(s)) /\ Sequence(s)
<1>1. DOMAIN s = {1} /\ s[1] = Check(code, ok) /\ s[1].ok = ok
  BY DEF Check
<1>2. s \in Seq({Check(code, ok)}) /\ Range(s) = {Check(code, ok)}
  BY <1>1 DEF Range
<1> QED
  BY <1>1, <1>2 DEF Passes, Sequence

\* What there is of a height's header.
LEMMA HeaderIsHeld ==
  ASSUME NEW v, NEW tip \in Nat, HoldsHeaders(v, tip), NEW h \in 100..tip,
         NEW e, e = v.headers_by_height[h]
  PROVE  /\ h \in DOMAIN v.headers_by_height /\ DOMAIN e = HeaderFields
         /\ e.height = h /\ e.confirmations = tip - h + 1
         /\ e.hash \in {SimBlock(h), -h}
         /\ e.hash \in DOMAIN v.headers_by_hash /\ v.headers_by_hash[e.hash] = e
<1>1. DOMAIN v.headers_by_height = 100..tip /\ HoldsHeader(v, h, tip)
  BY DEF HoldsHeaders
<1> QED
  BY <1>1, SMT DEF HoldsHeader

\* Of two hashes of the fixture's chain, one of them a block's as built.
LEMMA HashesDiffer ==
  ASSUME NEW m \in Nat, NEW n \in Nat
  PROVE  /\ SimBlock(m) = SimBlock(n) => m = n
         /\ SimBlock(m) # -n
         /\ -m = -n => m = n
BY DEF SimBlock

\* A block that was replaced is under its old hash no more.
LEMMA OldHashIsGone ==
  ASSUME NEW v, NEW tip \in Nat, HoldsHeaders(v, tip), NEW h \in 100..tip,
         v.headers_by_height[h].hash # SimBlock(h)
  PROVE  SimBlock(h) \notin DOMAIN v.headers_by_hash
<1> SUFFICES ASSUME SimBlock(h) \in DOMAIN v.headers_by_hash PROVE FALSE
  OBVIOUS
<1>1. PICK n \in 100..tip : SimBlock(h) = v.headers_by_height[n].hash
  BY DEF HoldsHeaders
<1>2. v.headers_by_height[n].hash \in {SimBlock(n), -n}
  BY HeaderIsHeld
<1>3. h \in Nat /\ n \in Nat
  OBVIOUS
<1>4. h = n
  BY <1>1, <1>2, <1>3, HashesDiffer
<1> QED
  BY <1>1, <1>4

\* The transactions of the stops are in the view.
LEMMA StopIsHeld ==
  ASSUME NEW with_transfer \in BOOLEAN, NEW b, b = SimBundle(with_transfer),
         NEW v, SimInv(v, with_transfer), NEW k \in Stops(b), k # Challenge
  PROVE  Holds(v, SimTxAt(k), SimHeightAt(k))
<1>1. k = Claim \/ k = Mint \/ (k = 4 /\ with_transfer)
  BY SimStops
<1>2. CASE k = Claim
  <2>1. SimTxAt(k) = ClaimTx /\ SimHeightAt(k) = ClaimAt
    BY <1>2 DEF SimTxAt, SimHeightAt, Claim, Challenge, Mint
  <2> QED
    BY <2>1 DEF SimInv
<1>3. CASE k = Mint
  <2>1. SimTxAt(k) = MintTx /\ SimHeightAt(k) = MintAt
    BY <1>3 DEF SimTxAt, SimHeightAt, Claim, Challenge, Mint
  <2> QED
    BY <2>1 DEF SimInv
<1>4. CASE k = 4 /\ with_transfer
  <2>1. SimTxAt(k) = TransferTx /\ SimHeightAt(k) = TransferAt
    BY <1>4 DEF SimTxAt, SimHeightAt, Claim, Challenge, Mint
  <2> QED
    BY <1>4, <2>1 DEF SimInv
<1> QED
  BY <1>1, <1>2, <1>3, <1>4

\* A stop passes unless its block was replaced; then its header is not found
\* (verify.py:174-347).
LEMMA StopStands ==
  ASSUME NEW with_transfer \in BOOLEAN, NEW b, b = SimBundle(with_transfer),
         NEW v, SimInv(v, with_transfer), NEW k \in Stops(b)
  PROVE  IF v.headers_by_height[StopHeight(b, k)].hash = StopBlock(b, k)
         THEN Passes(SimStopChecks(v, b, k))
         ELSE SimStopChecks(v, b, k) = <<Check("HEADER_LOOKUP", FALSE)>>
<1>1. PICK height, tip :
        /\ height = SimHeightAt(k) /\ tip = TipAt(with_transfer)
        /\ StopHeight(b, k) = height /\ StopBlock(b, k) = SimBlock(height)
        /\ height \in 100..tip /\ height \in Nat /\ tip \in Nat
  BY SimStops, SimHeights
<1>2. HoldsHeaders(v, tip)
  BY <1>1 DEF SimInv
<1>3. PICK e : e = v.headers_by_height[height]
  OBVIOUS
<1>4. CASE e.hash # SimBlock(height)
  <2>1. SimBlock(height) \notin DOMAIN v.headers_by_hash
    BY <1>1, <1>2, <1>3, <1>4, OldHashIsGone
  <2>2. ~HeaderFound(v, b, k)
    BY <1>1, <2>1 DEF HeaderFound
  <2> QED
    BY <1>1, <1>3, <1>4, <2>2 DEF SimStopChecks
<1>5. CASE e.hash = SimBlock(height)
  <2>1. /\ height \in DOMAIN v.headers_by_height
        /\ e.height = height /\ e.confirmations = tip - height + 1
        /\ SimBlock(height) \in DOMAIN v.headers_by_hash
        /\ v.headers_by_hash[SimBlock(height)] = e
    BY <1>1, <1>2, <1>3, <1>5, HeaderIsHeld
  <2>2. HeaderFound(v, b, k)
    BY <1>1, <2>1 DEF HeaderFound
  <2>3. PICK first : first = HeaderChecks(v, b, k)
    OBVIOUS
  <2>4. Passes(first) /\ Sequence(first)
    <3>1. e.confirmations >= 1
      BY <1>1, <2>1
    <3>2. Passes(first)
      BY <1>1, <1>3, <1>5, <2>1, <2>3, <3>1, ThreePass DEF HeaderChecks, Check
    <3>3. Sequence(first)
      BY <2>3 DEF Sequence, Range, HeaderChecks, Check
    <3> QED
      BY <3>2, <3>3
  <2>5. CASE k = Challenge
    <3>1. Passes(ChallengeChecks(b)) /\ Sequence(ChallengeChecks(b))
      BY SimWorkPasses, ChecksAreSequences
    <3>2. Passes(first \o ChallengeChecks(b))
      BY <2>4, <3>1, ConcatPasses
    <3>3. SimStopChecks(v, b, k) = first \o ChallengeChecks(b)
      BY <2>2, <2>3, <2>5 DEF SimStopChecks
    <3> QED
      BY <1>1, <1>3, <1>5, <3>2, <3>3
  <2>6. CASE k # Challenge
    <3>1. PICK t, place : /\ t = SimTxAt(k)
                          /\ place = Place(b, k) /\ place = <<t.txid, SimBlock(height)>>
                          /\ StopProof(b, k) = SimProof(t, height)
      BY <1>1, <2>6, SimStops
    <3>2. Holds(v, t, height)
      BY <1>1, <2>6, <3>1, StopIsHeld
    <3>3. PICK tx : tx = v.transactions[place]
      OBVIOUS
    <3>4. /\ place \in DOMAIN v.transactions
          /\ tx.inputs = t.inputs /\ tx.outputs = t.outputs /\ tx.height = height
          /\ StopProof(b, k) \in DOMAIN v.proofs /\ v.proofs[StopProof(b, k)] = place
      BY <3>1, <3>2, <3>3 DEF Holds
    <3>5. Passes(PlaceChecks(v, b, k))
      BY <3>1, <3>4, TwoPass DEF PlaceChecks, Check
    <3>6. Passes(StopChecks(b, k, tx))
      BY <3>1, <3>4, SimStopPasses
    <3>7. PICK second, third : second = <<Check("TRANSACTION_MISMATCH", tx.height = height)>>
                               /\ third = StopChecks(b, k, tx)
      OBVIOUS
    <3>8. Passes(second) /\ Sequence(second)
      BY <3>4, <3>7, OnePasses
    <3>9. Sequence(third)
      <4> DEFINE order == IF k >= Mint /\ k + 1 \in Stops(b)
                          THEN TransferOrderChecks(b, k + 1) ELSE <<>>
                 own == CASE k = Claim     -> ClaimChecks(b, tx)
                          [] k = Challenge -> ChallengeChecks(b)
                          [] k = Mint      -> MintChecks(b, tx)
                          [] OTHER         -> TransferChecks(b, k, tx)
      <4>1. Sequence(order) /\ Sequence(own)
        BY ChecksAreSequences
      <4>2. third = own \o order
        BY <3>7 DEF StopChecks
      <4> HIDE DEF own, order
      <4> QED
        BY <4>1, <4>2, ConcatIsSequence
    <3>10. Passes(first \o second \o third)
      BY <2>4, <3>6, <3>7, <3>8, <3>9, ConcatPasses, ConcatIsSequence
    <3>11. SimStopChecks(v, b, k) = first \o second \o third
      BY <1>1, <2>2, <2>3, <2>6, <3>1, <3>3, <3>5, <3>7 DEF SimStopChecks
    <3> QED
      BY <1>1, <1>3, <1>5, <3>10, <3>11
  <2> QED
    BY <2>5, <2>6
<1> QED
  BY <1>4, <1>5

\* The title that the bundle ends with.
LEMMA SimEnd ==
  ASSUME NEW with_transfer \in BOOLEAN, NEW b, b = SimBundle(with_transfer),
         NEW last, last = IF b.transfers = <<>> THEN Mint ELSE 3 + Len(b.transfers)
  PROVE  /\ TerminalTitle(b) = SimTitle(with_transfer)
         /\ TerminalTitle(b)[2] = 1
         /\ Place(b, last) = <<LastTx(with_transfer).txid, SimBlock(LastAt(with_transfer))>>
<1>1. b.mint.txid = MintTx.txid /\ b.mint.title_vout = 1 /\ b.mint.block = SimBlock(MintAt)
  BY SimFields
<1>2. CASE ~with_transfer
  <2>1. b.transfers = <<>> /\ Len(b.transfers) = 0
    BY <1>2, SimFields
  <2>2. 3 + Len(b.transfers) = Mint /\ last = Mint /\ Mint # Claim /\ Mint # Challenge
    BY <2>1 DEF Claim, Challenge, Mint
  <2>3. TerminalTitle(b) = <<MintTx.txid, 1>>
    BY <1>1, <2>2 DEF TerminalTitle, TitleAt
  <2>4. LastTx(with_transfer) = MintTx /\ LastAt(with_transfer) = MintAt
    BY <1>2 DEF LastTx, LastAt
  <2>5. Place(b, last) = <<MintTx.txid, SimBlock(MintAt)>>
    BY <1>1, <2>2 DEF Place, StopTxid, StopBlock
  <2> QED
    BY <2>3, <2>4, <2>5 DEF SimTitle
<1>3. CASE with_transfer
  <2>1. /\ Len(b.transfers) = 1 /\ b.transfers # <<>>
        /\ b.transfers[1].txid = TransferTx.txid /\ b.transfers[1].successor_vout = 1
        /\ b.transfers[1].block = SimBlock(TransferAt)
    BY <1>3, SimFields
  <2>2. /\ 3 + Len(b.transfers) = 4 /\ last = 4 /\ 4 - 3 = 1
        /\ 4 # Claim /\ 4 # Challenge /\ 4 # Mint
    BY <2>1 DEF Claim, Challenge, Mint
  <2>3. Transition(b, 4) = b.transfers[1]
    BY <2>2, Zenon DEF Transition
  <2>4. TerminalTitle(b) = <<TransferTx.txid, 1>>
    BY <2>1, <2>2, <2>3 DEF TerminalTitle, TitleAt
  <2>5. LastTx(with_transfer) = TransferTx /\ LastAt(with_transfer) = TransferAt
    BY <1>3 DEF LastTx, LastAt
  <2>6. Place(b, last) = <<TransferTx.txid, SimBlock(TransferAt)>>
    BY <2>1, <2>2, <2>3 DEF Place, StopTxid, StopBlock
  <2> QED
    BY <2>4, <2>5, <2>6 DEF SimTitle
<1> QED
  BY <1>2, <1>3

\* The chain adds the work of two blocks or more from the mint on.
LEMMA SimBurial ==
  ASSUME NEW with_transfer \in BOOLEAN, NEW v, NEW mint, NEW tip,
         HoldsHeaders(v, TipAt(with_transfer)),
         mint = v.headers_by_height[MintAt],
         tip = v.headers_by_height[TipAt(with_transfer)]
  PROVE  /\ tip.height - MintAt >= Profiles[Simulated].minimum_burial_blocks
         /\ tip.chainwork - mint.chainwork >= Profiles[Simulated].minimum_burial_chainwork
         /\ tip.confirmations >= 1 /\ tip.hash \in DOMAIN v.headers_by_hash
         /\ v.headers_by_hash[tip.hash] = tip /\ tip.hash = v.tip_hash
<1>1. PICK low, high : /\ low = MintAt /\ high = TipAt(with_transfer)
                       /\ low \in Nat /\ high \in Nat /\ low >= 100
                       /\ (high = low + 1 \/ high = low + 2)
  <2>1. /\ MintAt = ChallengeAt + 1 /\ TransferAt = MintAt + 1 /\ ChallengeAt >= 100
        /\ ChallengeAt \in Nat
    BY SimHeights
  <2>2. TipAt(with_transfer) = MintAt + 1 \/ TipAt(with_transfer) = TransferAt + 1
    BY DEF TipAt, LastAt
  <2> QED
    BY <2>1, <2>2
<1>2. low \in 100..high /\ high \in 100..high
  BY <1>1
<1>3. HoldsHeader(v, low, high) /\ HoldsHeader(v, high, high)
  BY <1>1, <1>2 DEF HoldsHeaders
<1>4. /\ mint.chainwork = 1000000 + (low - 99) * 10000
      /\ tip.chainwork = 1000000 + (high - 99) * 10000
  BY <1>1, <1>3, SMT DEF HoldsHeader
<1>5. /\ tip.height = high /\ tip.confirmations = 1
      /\ tip.hash \in DOMAIN v.headers_by_hash /\ v.headers_by_hash[tip.hash] = tip
  BY <1>1, <1>2, HeaderIsHeld
<1>6. PICK blocksAsked, workAsked :
        /\ blocksAsked = Profiles[Simulated].minimum_burial_blocks
        /\ workAsked = Profiles[Simulated].minimum_burial_chainwork
        /\ blocksAsked \in Nat /\ workAsked \in Nat
        /\ blocksAsked <= 1 /\ workAsked <= 10000
  BY SimulationAssumption, ProfilesAssumption DEF Profile
<1>7. tip.chainwork - mint.chainwork >= 10000
  BY <1>1, <1>4, SMT
<1>8. tip.hash = v.tip_hash
  BY DEF HoldsHeaders
<1>9. tip.chainwork \in Int /\ mint.chainwork \in Int
  BY <1>1, <1>4, SMT
<1> QED
  BY <1>1, <1>5, <1>6, <1>7, <1>8, <1>9, SMT

\* With the mint's block in place the end of the checks is about the title alone
\* (verify.py:348-386).
LEMMA EndStands ==
  ASSUME NEW with_transfer \in BOOLEAN, NEW b, b = SimBundle(with_transfer),
         NEW v, SimInv(v, with_transfer),
         v.headers_by_height[MintAt].hash = SimBlock(MintAt)
  PROVE  IF TerminalTitle(b) \in DOMAIN v.utxos THEN Passes(SimEndChecks(v, b))
         ELSE SimEndChecks(v, b) = <<Check("TITLE_SPENT_OR_MISSING", FALSE)>>
<1>1. CASE TerminalTitle(b) \notin DOMAIN v.utxos
  BY <1>1 DEF SimEndChecks
<1>2. CASE TerminalTitle(b) \in DOMAIN v.utxos
  <2>1. PICK title, last, place :
          /\ title = TerminalTitle(b) /\ title = SimTitle(with_transfer) /\ title[2] = 1
          /\ last = IF b.transfers = <<>> THEN Mint ELSE 3 + Len(b.transfers)
          /\ place = Place(b, last)
          /\ place = <<LastTx(with_transfer).txid, SimBlock(LastAt(with_transfer))>>
    BY SimEnd
  <2>2. Holds(v, LastTx(with_transfer), LastAt(with_transfer))
    BY DEF SimInv, LastTx, LastAt
  <2>3. v.transactions[place].outputs = LastTx(with_transfer).outputs
    BY <2>1, <2>2 DEF Holds
  <2>4. PICK coin, output :
          /\ coin = v.utxos[title] /\ output = LastTx(with_transfer).outputs[1]
          /\ coin.script = output.script /\ coin.value = output.value
          /\ coin.confirmations = TipAt(with_transfer) - LastAt(with_transfer) + 1
    BY <1>2, <2>1 DEF SimInv, HoldsCoin, SimCoin
  <2>5. coin.confirmations >= 1
    <3>1. TipAt(with_transfer) = LastAt(with_transfer) + 1 /\ LastAt(with_transfer) \in Nat
      BY SimHeights
    <3> QED
      BY <2>4, <3>1
  <2>6. PICK mint, tip : /\ mint = v.headers_by_height[MintAt]
                         /\ tip = v.headers_by_height[TipAt(with_transfer)]
    OBVIOUS
  <2>7. /\ tip.height - MintAt >= Profiles[Simulated].minimum_burial_blocks
        /\ tip.chainwork - mint.chainwork >= Profiles[Simulated].minimum_burial_chainwork
        /\ tip.confirmations >= 1 /\ v.tip_hash \in DOMAIN v.headers_by_hash
        /\ v.headers_by_hash[v.tip_hash] = tip
    BY <2>6, SimBurial DEF SimInv
  <2>8. mint = v.headers_by_hash[SimBlock(MintAt)]
    <3>1. MintAt \in 100..TipAt(with_transfer) /\ TipAt(with_transfer) \in Nat
      <4>1. 3 \in Stops(b)
        <5>1. Len(b.transfers) \in Nat
          BY SimFields
        <5> QED
          BY <5>1 DEF Stops
      <4>2. SimHeightAt(3) = MintAt
        BY DEF SimHeightAt, Claim, Challenge, Mint
      <4> QED
        BY <4>1, <4>2, SimStops, SimHeights
    <3> QED
      BY <2>6, <3>1, HeaderIsHeld DEF SimInv
  <2>9. b.profile = Simulated /\ b.mint.height = MintAt /\ b.mint.block = SimBlock(MintAt)
    BY SimFields
  <2>10. SimEndChecks(v, b) =
           << Check("CURRENT_TITLE_MISMATCH", coin.script = output.script),
              Check("CURRENT_TITLE_VALUE", coin.value = output.value),
              Check("CURRENT_TITLE_UNCONFIRMED", coin.confirmations >= 1),
              Check("BAD_TIP", tip.confirmations >= 1),
              Check("INSUFFICIENT_BURIAL",
                    tip.height - MintAt >= Profiles[Simulated].minimum_burial_blocks),
              Check("INSUFFICIENT_CHAINWORK",
                    tip.chainwork - mint.chainwork
                      >= Profiles[Simulated].minimum_burial_chainwork) >>
    BY <1>2, <2>1, <2>3, <2>4, <2>6, <2>7, <2>8, <2>9 DEF SimEndChecks
  <2>11. Passes(SimEndChecks(v, b))
    BY <2>4, <2>5, <2>7, <2>10, SixPass DEF Check
  <2> QED
    BY <1>2, <2>11
<1> QED
  BY <1>1, <1>2

\* A list of one check that fails gives its code.
LEMMA OneFails ==
  ASSUME NEW code, NEW s, s = <<Check(code, FALSE)>>
  PROVE  /\ ~Passes(s)
         /\ s[CHOOSE i \in DOMAIN s : FirstFailure(s, i)].code = code
<1>1. DOMAIN s = {1} /\ s[1].code = code /\ ~s[1].ok
  BY DEF Check
<1>2. FirstFailure(s, 1)
  <2>1. \A j \in 1..(1 - 1) : FALSE
    OBVIOUS
  <2> QED
    BY <1>1, <2>1, Zenon DEF FirstFailure
<1>3. \E i \in DOMAIN s : FirstFailure(s, i)
  BY <1>1, <1>2
<1>4. PICK i : i = CHOOSE j \in DOMAIN s : FirstFailure(s, j)
  OBVIOUS
<1>5. i \in DOMAIN s
  BY <1>3, <1>4, Zenon
<1>6. i = 1
  BY <1>1, <1>5
<1> QED
  BY <1>1, <1>4, <1>6 DEF Passes

\* The verdict is about the blocks that the bundle names and its title, and about
\* nothing else.
LEMMA VerdictStands ==
  ASSUME NEW with_transfer \in BOOLEAN, NEW b, b = SimBundle(with_transfer),
         NEW v, SimInv(v, with_transfer)
  PROVE  SimVerdict(v, b) = "VALID"
           <=> /\ \A k \in Stops(b) :
                    v.headers_by_height[StopHeight(b, k)].hash = StopBlock(b, k)
               /\ TerminalTitle(b) \in DOMAIN v.utxos
<1> DEFINE InPlace(k) == v.headers_by_height[StopHeight(b, k)].hash = StopBlock(b, k)
           parts == 0..(3 + Len(b.transfers))
           Fails(k) == ~Passes(SimPart(v, b, k))
           First(k) == Fails(k) /\ \A j \in 0..(k - 1) : ~Fails(j)
<1>1. Len(b.transfers) \in Nat
  BY SimFields
<1>2. /\ Stops(b) = 1..(3 + Len(b.transfers)) /\ 3 \in Stops(b)
      /\ \A k \in parts : k = 0 \/ k \in Stops(b)
      /\ \A k \in Stops(b) : k \in parts /\ k # 0
  BY <1>1 DEF Stops
<1>3. ~Fails(0)
  <2>1. v.network = Profiles[Simulated].network
    BY DEF SimInv
  <2> QED
    BY <2>1, SimStartPasses DEF SimPart
<1>4. \A k \in Stops(b) :
         IF InPlace(k) THEN ~Fails(k) ELSE SimPart(v, b, k) = <<Check("HEADER_LOOKUP", FALSE)>>
  <2> TAKE k \in Stops(b)
  <2>1. SimPart(v, b, k) = SimStopChecks(v, b, k)
    BY <1>2 DEF SimPart
  <2> QED
    BY <2>1, StopStands
<1>5. PICK checks : checks = SimChecks(v, b)
  OBVIOUS
<1>6. SimVerdict(v, b) =
        IF Passes(checks) THEN "VALID"
        ELSE checks[CHOOSE i \in DOMAIN checks : FirstFailure(checks, i)].code
  BY <1>5 DEF SimVerdict
<1>7. CASE \A k \in Stops(b) : InPlace(k)
  <2>1. \A k \in parts : ~Fails(k)
    BY <1>2, <1>3, <1>4, <1>7
  <2>2. checks = SimEndChecks(v, b)
    BY <1>5, <2>1 DEF SimChecks
  <2>3. v.headers_by_height[MintAt].hash = SimBlock(MintAt)
    <3>1. StopHeight(b, 3) = MintAt /\ StopBlock(b, 3) = SimBlock(MintAt)
      BY SimFields DEF StopHeight, StopBlock, Claim, Challenge, Mint
    <3> QED
      BY <1>2, <1>7, <3>1
  <2>4. CASE TerminalTitle(b) \in DOMAIN v.utxos
    BY <1>6, <1>7, <2>2, <2>3, <2>4, EndStands
  <2>5. CASE TerminalTitle(b) \notin DOMAIN v.utxos
    <3>1. checks = <<Check("TITLE_SPENT_OR_MISSING", FALSE)>>
      BY <2>2, <2>3, <2>5, EndStands
    <3>2. SimVerdict(v, b) = "TITLE_SPENT_OR_MISSING"
      BY <1>6, <3>1, OneFails
    <3> QED
      BY <2>5, <3>2
  <2> QED
    BY <2>4, <2>5
<1>8. CASE \E k \in Stops(b) : ~InPlace(k)
  <2>1. ASSUME NEW k \in Stops(b), ~InPlace(k) PROVE Fails(k)
    BY <1>4, <2>1, OneFails
  <2>2. PICK k \in parts : Fails(k)
    BY <1>2, <1>8, <2>1
  <2>3. \E n \in parts : First(n)
    <3> DEFINE failing == {n \in parts : Fails(n)}
    <3>1. failing \in SUBSET Nat /\ failing # {}
      BY <1>1, <2>2
    <3>2. PICK n \in failing : \A m \in failing : n <= m
      <4> HIDE DEF failing
      <4> QED
        BY <3>1, LeastOf
    <3>3. n \in parts /\ n \in Nat
      BY <3>1, <3>2
    <3>4. ASSUME NEW j \in 0..(n - 1) PROVE ~Fails(j)
      <4>1. j \in parts /\ ~(n <= j)
        BY <1>1, <3>3
      <4> QED
        BY <3>2, <4>1
    <3> QED
      BY <3>2, <3>3, <3>4
  <2>4. PICK n : n = CHOOSE m \in parts : First(m)
    OBVIOUS
  <2>5. n \in parts /\ First(n)
    <3> HIDE DEF First, parts
    <3> QED
      BY <2>3, <2>4, Zenon
  <2>6. checks = SimPart(v, b, n)
    BY <1>5, <2>2, <2>4 DEF SimChecks
  <2>7. n \in Stops(b) /\ ~InPlace(n)
    BY <1>2, <1>3, <1>4, <2>5
  <2>8. checks = <<Check("HEADER_LOOKUP", FALSE)>>
    BY <1>4, <2>6, <2>7
  <2>9. SimVerdict(v, b) = "HEADER_LOOKUP"
    BY <1>6, <2>8, OneFails
  <2> QED
    BY <2>7, <2>9
<1> QED
  BY <1>7, <1>8

\* The bundle of a fixture passes in the checker.
LEMMA SimInChecker ==
  ASSUME NEW with_transfer \in BOOLEAN, NEW b, b = SimBundle(with_transfer)
  PROVE  CheckerSays(b, "VALID")
<1>1. Shaped(b)
  <2>1. /\ b.claim.height = ClaimAt /\ b.work.challenge_height = ChallengeAt
        /\ b.mint.height = MintAt /\ Len(b.transfers) \in Nat
    BY SimFields
  <2>2. ClaimAt \in Nat /\ ChallengeAt \in Nat /\ MintAt \in Nat
    BY SimHeights
  <2> QED
    BY <2>1, <2>2 DEF Shaped
<1>2. Passes(StartChecks(b, Profiles[Simulated].network))
  BY SimStartPasses
<1>3. \A k \in Stops(b) : \E tx : Passes(StopChecks(b, k, tx))
  <2> TAKE k \in Stops(b)
  <2>1. Passes(StopChecks(b, k, SimTxAt(k)))
    BY SimStopPasses
  <2> QED
    BY <2>1
<1> QED
  BY <1>1, <1>2, <1>3, AllPass

-----------------------------------------------------------------------------
(* The tests' changes *)

FixtureInv ==
  \E with_transfer \in BOOLEAN :
    /\ DOMAIN fixture = {"bundle", "view"}
    /\ fixture.bundle = SimBundle(with_transfer)
    /\ SimInv(fixture.view, with_transfer)

\* A title that is spent leaves the rest of the view.
LEMMA SpendKeeps == FixtureInv /\ SpendTitle => FixtureInv'
<1> SUFFICES ASSUME FixtureInv, SpendTitle PROVE FixtureInv'
  OBVIOUS
<1>1. PICK with_transfer \in BOOLEAN :
        /\ DOMAIN fixture = {"bundle", "view"}
        /\ fixture.bundle = SimBundle(with_transfer)
        /\ SimInv(fixture.view, with_transfer)
  BY DEF FixtureInv
<1>2. PICK o \in DOMAIN fixture.view.utxos :
        fixture' = [fixture EXCEPT !.view = spend_utxo(@, o)]
  BY DEF SpendTitle
<1>3. PICK v, w : v = fixture.view /\ w = spend_utxo(v, o)
  OBVIOUS
<1>4. DOMAIN fixture' = {"bundle", "view"} /\ fixture'.bundle = fixture.bundle
      /\ fixture'.view = w
  BY <1>1, <1>2, <1>3
<1>5. /\ DOMAIN w = ViewFields /\ w.network = v.network
      /\ w.headers_by_hash = v.headers_by_hash
      /\ w.headers_by_height = v.headers_by_height /\ w.tip_hash = v.tip_hash
      /\ w.transactions = v.transactions /\ w.proofs = v.proofs
      /\ w.utxos = Without(v.utxos, o)
  BY <1>1, <1>3 DEF SimInv, ViewFields, spend_utxo
<1>6. HoldsCoin(w, with_transfer)
  <2>1. HoldsCoin(v, with_transfer)
    BY <1>1, <1>3 DEF SimInv
  <2> QED
    BY <1>5, <2>1 DEF HoldsCoin, Without
<1>7. HoldsHeaders(w, TipAt(with_transfer))
  BY <1>1, <1>3, <1>5, SameHeaders DEF SimInv
<1>8. /\ Holds(w, ClaimTx, ClaimAt) /\ Holds(w, MintTx, MintAt)
      /\ with_transfer => Holds(w, TransferTx, TransferAt)
  BY <1>1, <1>3, <1>5, SameTransactions DEF SimInv
<1>9. SimInv(w, with_transfer)
  BY <1>1, <1>3, <1>5, <1>6, <1>7, <1>8 DEF SimInv
<1> QED
  BY <1>1, <1>4, <1>9 DEF FixtureInv

\* A replaced block has the header of the old one but for its hash, and its old
\* hash is gone (testing.py:125-143).
LEMMA ReplacedHolds ==
  ASSUME NEW v, DOMAIN v = ViewFields, NEW tip \in Nat, HoldsHeaders(v, tip),
         NEW h \in 100..tip, v.headers_by_height[h].hash = SimBlock(h),
         NEW w, w = replace_header(v, h, -h)
  PROVE  /\ DOMAIN w = ViewFields /\ w.network = v.network
         /\ w.transactions = v.transactions /\ w.proofs = v.proofs /\ w.utxos = v.utxos
         /\ HoldsHeaders(w, tip)
<1>1. PICK old, new : /\ old = v.headers_by_height[h]
                      /\ new = [old EXCEPT !.hash = -h]
  OBVIOUS
<1>2. /\ DOMAIN old = HeaderFields /\ old.hash = SimBlock(h)
  BY <1>1, HeaderIsHeld
<1>3. /\ DOMAIN new = HeaderFields /\ new.hash = -h /\ new.height = old.height
      /\ new.confirmations = old.confirmations /\ new.chainwork = old.chainwork
  BY <1>1, <1>2 DEF HeaderFields
<1>4. w = [v EXCEPT !.headers_by_hash = With(Without(@, old.hash), -h, new),
                    !.headers_by_height[h] = new,
                    !.tip_hash = IF @ = old.hash THEN -h ELSE @]
  BY <1>1 DEF replace_header
<1>5. /\ DOMAIN w = ViewFields /\ w.network = v.network
      /\ w.transactions = v.transactions /\ w.proofs = v.proofs /\ w.utxos = v.utxos
      /\ w.headers_by_hash = With(Without(v.headers_by_hash, old.hash), -h, new)
      /\ w.headers_by_height = [v.headers_by_height EXCEPT ![h] = new]
      /\ w.tip_hash = IF v.tip_hash = old.hash THEN -h ELSE v.tip_hash
  BY <1>4 DEF ViewFields
<1>6. PICK before, after, hashes, hashed :
        /\ before = v.headers_by_height /\ after = w.headers_by_height
        /\ hashes = v.headers_by_hash /\ hashed = w.headers_by_hash
  OBVIOUS
<1>7. /\ DOMAIN before = 100..tip /\ v.tip_hash = before[tip].hash
      /\ \A n \in 100..tip : HoldsHeader(v, n, tip)
      /\ \A x \in DOMAIN hashes : \E n \in 100..tip : x = before[n].hash
  BY <1>6 DEF HoldsHeaders
<1>8. /\ DOMAIN after = 100..tip /\ after[h] = new
      /\ \A n \in 100..tip : n # h => after[n] = before[n]
  BY <1>5, <1>6, <1>7
<1>9. /\ DOMAIN hashed = ((DOMAIN hashes) \ {SimBlock(h)}) \cup {-h}
      /\ hashed[-h] = new
      /\ \A x \in DOMAIN hashed : x # -h => hashed[x] = hashes[x]
  BY <1>2, <1>5, <1>6 DEF With, Without
<1>10. \A n \in 100..tip : n # h =>
          /\ before[n].hash # SimBlock(h) /\ before[n].hash # -h
          /\ before[n].hash \in DOMAIN hashes /\ hashes[before[n].hash] = before[n]
  <2> TAKE n \in 100..tip
  <2>1. /\ before[n].hash \in {SimBlock(n), -n}
        /\ before[n].hash \in DOMAIN hashes /\ hashes[before[n].hash] = before[n]
    BY <1>6, HeaderIsHeld
  <2>2. n \in Nat /\ h \in Nat
    OBVIOUS
  <2> QED
    BY <2>1, <2>2, HashesDiffer
<1>11. ASSUME NEW n \in 100..tip PROVE HoldsHeader(w, n, tip)
  <2>1. CASE n = h
    <3>1. HoldsHeader(v, h, tip)
      BY <1>7
    <3>2. /\ old.height = h /\ old.confirmations = tip - h + 1
          /\ old.chainwork = 1000000 + (h - 99) * 10000
      BY <1>1, <3>1, SMT DEF HoldsHeader
    <3>3. -h \in DOMAIN hashed /\ after[h] = new /\ hashed[-h] = new
      BY <1>8, <1>9
    <3> QED
      BY <1>3, <1>6, <2>1, <3>2, <3>3, SMT DEF HoldsHeader
  <2>2. CASE n # h
    <3>1. after[n] = before[n] /\ before[n].hash \in DOMAIN hashed
          /\ hashed[before[n].hash] = before[n]
      BY <1>8, <1>9, <1>10, <2>2
    <3>2. HoldsHeader(v, n, tip)
      BY <1>7
    <3> QED
      BY <1>6, <3>1, <3>2, SMT DEF HoldsHeader
  <2> QED
    BY <2>1, <2>2
<1>12. \A x \in DOMAIN hashed : \E n \in 100..tip : x = after[n].hash
  <2> TAKE x \in DOMAIN hashed
  <2>1. CASE x = -h
    BY <1>3, <1>8, <2>1
  <2>2. CASE x # -h
    <3>1. x \in DOMAIN hashes /\ x # SimBlock(h)
      BY <1>9, <2>2
    <3>2. PICK n \in 100..tip : x = before[n].hash
      BY <1>7, <3>1
    <3>3. n # h
      BY <1>1, <1>2, <1>6, <3>1, <3>2
    <3> QED
      BY <1>8, <3>2, <3>3
  <2> QED
    BY <2>1, <2>2
<1>13. w.tip_hash = after[tip].hash
  <2>1. tip \in 100..tip
    OBVIOUS
  <2>2. CASE tip = h
    BY <1>1, <1>2, <1>3, <1>5, <1>6, <1>7, <1>8, <2>2
  <2>3. CASE tip # h
    BY <1>2, <1>5, <1>7, <1>8, <1>10, <2>1, <2>3
  <2> QED
    BY <2>2, <2>3
<1>14. HoldsHeaders(w, tip)
  BY <1>6, <1>8, <1>11, <1>12, <1>13 DEF HoldsHeaders
<1> QED
  BY <1>5, <1>14

\* A block that is replaced leaves the rest of the view.
LEMMA ReplaceKeeps == FixtureInv /\ ReplaceBlock => FixtureInv'
<1> SUFFICES ASSUME FixtureInv, ReplaceBlock PROVE FixtureInv'
  OBVIOUS
<1>1. PICK with_transfer \in BOOLEAN :
        /\ DOMAIN fixture = {"bundle", "view"}
        /\ fixture.bundle = SimBundle(with_transfer)
        /\ SimInv(fixture.view, with_transfer)
  BY DEF FixtureInv
<1>2. PICK h \in DOMAIN fixture.view.headers_by_height :
        /\ fixture.view.headers_by_height[h].hash = SimBlock(h)
        /\ fixture' = [fixture EXCEPT !.view = replace_header(@, h, -h)]
  BY DEF ReplaceBlock
<1>3. PICK v, w, tip : /\ v = fixture.view /\ w = replace_header(v, h, -h)
                       /\ tip = TipAt(with_transfer) /\ tip \in Nat
  BY SimHeights
<1>4. DOMAIN fixture' = {"bundle", "view"} /\ fixture'.bundle = fixture.bundle
      /\ fixture'.view = w
  BY <1>1, <1>2, <1>3
<1>5. DOMAIN v = ViewFields /\ HoldsHeaders(v, tip) /\ h \in 100..tip
  BY <1>1, <1>2, <1>3 DEF SimInv, HoldsHeaders
<1>6. /\ DOMAIN w = ViewFields /\ w.network = v.network
      /\ w.transactions = v.transactions /\ w.proofs = v.proofs /\ w.utxos = v.utxos
      /\ HoldsHeaders(w, tip)
  BY <1>2, <1>3, <1>5, ReplacedHolds
<1>7. HoldsCoin(w, with_transfer)
  BY <1>1, <1>3, <1>6 DEF SimInv, HoldsCoin
<1>8. /\ Holds(w, ClaimTx, ClaimAt) /\ Holds(w, MintTx, MintAt)
      /\ with_transfer => Holds(w, TransferTx, TransferAt)
  BY <1>1, <1>3, <1>6, SameTransactions DEF SimInv
<1>9. SimInv(w, with_transfer)
  BY <1>1, <1>3, <1>6, <1>7, <1>8 DEF SimInv
<1> QED
  BY <1>1, <1>4, <1>9 DEF FixtureInv

\* A fixture starts as built.
LEMMA BuiltIsHeld ==
  ASSUME NEW with_transfer \in BOOLEAN, fixture = SimulatedFixture[with_transfer]
  PROVE  FixtureInv
<1>1. fixture = build_simulated_fixture(with_transfer)
  BY DEF SimulatedFixture
<1> QED
  BY <1>1, FixtureBuilt DEF FixtureInv

\* Every step of a session keeps the fixture what it is.
LEMMA FixtureKept == FixtureInv /\ [CliNext]_allVars => FixtureInv'
<1> SUFFICES ASSUME FixtureInv, [CliNext]_allVars PROVE FixtureInv'
  OBVIOUS
<1>1. CASE fixture' = fixture
  BY <1>1 DEF FixtureInv
<1>2. CASE InvokeSimulate
  <2>1. PICK with_transfer \in BOOLEAN : fixture' = SimulatedFixture[with_transfer]
    BY <1>2 DEF InvokeSimulate
  <2> QED
    BY <2>1, FixtureBuilt DEF SimulatedFixture, FixtureInv
<1>3. CASE Session
  BY <1>3, SpendKeeps, ReplaceKeeps DEF Session
<1>4. CASE InvokeVerify \/ InvokeInspect \/ Process \/ NodeExecutes \/ Deliver \/ Killed
  <2>1. fixture' = fixture
    BY <1>4 DEF InvokeVerify, InvokeInspect, Process, WriteFile, ReadFile, Ask, Answer,
                TimesOut, Conclude, NodeExecutes, Deliver, Killed
  <2> QED
    BY <1>1, <2>1
<1>5. CASE UNCHANGED allVars
  BY <1>1, <1>5 DEF allVars
<1> QED
  BY <1>2, <1>3, <1>4, <1>5 DEF CliNext

\* A fixture is as built but for the titles spent and the blocks replaced.
LEMMA FixtureInvariant == CliSpec => []FixtureInv
<1>1. CliInit => FixtureInv
  <2> SUFFICES ASSUME CliInit PROVE FixtureInv
    OBVIOUS
  <2>1. FALSE \in BOOLEAN /\ fixture = SimulatedFixture[FALSE]
    BY DEF CliInit
  <2> QED
    BY <2>1, BuiltIsHeld
<1> QED
  BY <1>1, FixtureKept, PTL DEF CliSpec

\* The verdict on a fixture in its view stands on the blocks its bundle names and on
\* its title alone, whatever other blocks and coins the tests change and for every
\* profile of the simulation, and the independent checker accepts the bundle
\* (demo.py, testing.py, generate_test_vectors.py:20-23).
THEOREM SimulationsStand == CliSpec => []SimulationStands
<1>1. FixtureInv => SimulationStands
  <2> SUFFICES ASSUME FixtureInv PROVE FixtureStands /\ CheckerSays(fixture.bundle, "VALID")
    BY DEF SimulationStands
  <2>1. PICK with_transfer \in BOOLEAN :
          /\ fixture.bundle = SimBundle(with_transfer)
          /\ SimInv(fixture.view, with_transfer)
    BY DEF FixtureInv
  <2>2. FixtureStands
    BY <2>1, VerdictStands DEF FixtureStands
  <2>3. CheckerSays(fixture.bundle, "VALID")
    BY <2>1, SimInChecker
  <2> QED
    BY <2>2, <2>3
<1> QED
  BY <1>1, FixtureInvariant, PTL

\* A fixture as built verifies, so the simulation always reports it (cli.py:57-64).
THEOREM FixturesVerify ==
  ASSUME NEW with_transfer \in BOOLEAN, NEW f, f = SimulatedFixture[with_transfer]
  PROVE  SimVerdict(f.view, f.bundle) = "VALID"
<1>1. /\ f.bundle = SimBundle(with_transfer) /\ SimInv(f.view, with_transfer)
      /\ SimTitle(with_transfer) \in DOMAIN f.view.utxos
      /\ \A h \in 100..TipAt(with_transfer) : f.view.headers_by_height[h].hash = SimBlock(h)
  BY FixtureBuilt DEF SimulatedFixture
<1>2. TerminalTitle(f.bundle) \in DOMAIN f.view.utxos
  BY <1>1, SimEnd
<1>3. \A k \in Stops(f.bundle) :
        f.view.headers_by_height[StopHeight(f.bundle, k)].hash = StopBlock(f.bundle, k)
  BY <1>1, SimStops
<1> QED
  BY <1>1, <1>2, <1>3, VerdictStands
=============================================================================
