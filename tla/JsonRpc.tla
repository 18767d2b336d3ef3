------------------------------ MODULE JsonRpc ------------------------------
(* JsonRpcClient (goldatom/core_rpc.py): one client, which numbers its requests *)
(* and makes one call at a time, on a path that may lose a request or a reply,  *)
(* deliver a reply late or again, or answer in the node's place.                *)
(*                                                                              *)
(* The answer to a question is the question itself: whoever gets the answer to  *)
(* another one can tell.  Code and status 0 stand for None.                     *)
EXTENDS Integers

CONSTANTS
  Statuses,  \* HTTP status codes of error replies
  Codes      \* error codes of Bitcoin Core

ASSUME JsonRpcAssumption ==
  Statuses \subseteq Nat \ {0} /\ Codes \subseteq {c \in Int : c < 0}

VARIABLES
  nextId,   \* _next_id
  request,  \* the last request [id, question]
  sent,     \* requests on their way to the node, or in its queue
  replies,  \* the bodies the node has replied with
  outcome   \* how the last call ended

rpcVars == <<nextId, request, sent, replies, outcome>>
-----------------------------------------------------------------------------
NoQuestion == <<"none", 0>>

Outcome(kind, code, value) == [kind |-> kind, code |-> code, value |-> value]
Idle == Outcome("idle", 0, NoQuestion)
Pending == Outcome("pending", 0, NoQuestion)
Raised(exception) == Outcome(exception, 0, NoQuestion)
RpcError(code) == Outcome("RpcError", code, NoQuestion)

\* form: an "object", "other" JSON, "malformed" JSON, or JSON that json.loads gives
\* up on in another way: "long" numbers, "deep" nesting.
Body(form, id, error, code, result) ==
  [form |-> form, id |-> id, error |-> error, code |-> code, result |-> result]

ResultBody(r) == Body("object", r.id, "none", 0, r.question)
RefusalBody(r, code) == Body("object", r.id, "object", code, NoQuestion)

\* What a proxy, or a port that is not the node's, may put in a reply.
ForeignBodies(id) ==
  {Body(form, 0, "none", 0, NoQuestion) :
     form \in {"object", "other", "malformed", "long", "deep"}}
  \cup {Body("object", id, error, 0, NoQuestion) : error \in {"none", "other", "object"}}
-----------------------------------------------------------------------------
\* Mutant: the id of a reply is not compared.
DecodeAnyId(body, expected, status) ==
  IF body.form = "object" /\ body.error = "none" /\ body.result # NoQuestion
  THEN Outcome("result", 0, body.result)
  ELSE RpcError(IF body.code # 0 THEN body.code ELSE status)

_decode_response(body, expected, status) ==
  CASE body.form = "long" -> Raised("ValueError")
    [] body.form = "deep" -> Raised("RecursionError")
    [] body.form \in {"other", "malformed"} -> RpcError(status)
    [] body.form = "object" ->
         IF body.id = expected /\ body.error = "none" /\ body.result # NoQuestion
         THEN Outcome("result", 0, body.result)
         ELSE IF body.id = expected /\ body.error = "object" /\ body.code # 0
         THEN RpcError(body.code)
         ELSE RpcError(status)

\* With an HTTP error status whatever is wrong with the body is an RpcError.
Received(body, expected, status) ==
  LET decoded == _decode_response(body, expected, status)
  IN  IF status # 0 /\ decoded.kind \in {"ValueError", "RecursionError"}
      THEN RpcError(status) ELSE decoded

RpcInit ==
  /\ nextId = 1
  /\ request = [id |-> 0, question |-> NoQuestion]
  /\ sent = {} /\ replies = {}
  /\ outcome = Idle

\* A client of another process.
NewClient ==
  /\ nextId' = 1
  /\ request' = [id |-> 0, question |-> NoQuestion]
  /\ sent' = {} /\ replies' = {}
  /\ outcome' = Idle

Send(question) ==
  /\ outcome # Pending
  /\ request' = [id |-> nextId, question |-> question]
  /\ nextId' = nextId + 1
  /\ sent' = sent \cup {request'}
  /\ outcome' = Pending
  /\ UNCHANGED replies

\* The node executes a request, maybe after the client gave it up.
Execute(r, body) ==
  /\ r \in sent
  /\ body \in {ResultBody(r)} \cup {RefusalBody(r, code) : code \in Codes}
  /\ sent' = sent \ {r}
  /\ replies' = replies \cup {body}
  /\ UNCHANGED <<nextId, request, outcome>>

\* urllib's URLError: connecting or sending failed.
CannotConnect ==
  /\ outcome = Pending
  /\ request \in sent
  /\ sent' = sent \ {request}
  /\ outcome' = Raised("ConnectionError")
  /\ UNCHANGED <<nextId, request, replies>>

\* Mutant: no timeout while the node has not answered.
LostAfterwards ==
  /\ outcome = Pending
  /\ request \notin sent
  /\ outcome' \in {Raised("ConnectionError"), Raised("OSError"), Raised("HTTPException")}
  /\ UNCHANGED <<nextId, request, sent, replies>>

\* The timeout, or the connection ends, while the reply is awaited or read: a
\* ConnectionError (RemoteDisconnected, ConnectionResetError), another OSError, or an
\* exception of http.client that is none.  The kind does not tell whether the node
\* has executed the request.
ReplyLost ==
  /\ outcome = Pending
  /\ outcome' \in {Raised("ConnectionError"), Raised("OSError"), Raised("HTTPException")}
  /\ UNCHANGED <<nextId, request, sent, replies>>

\* The reply of the node to this request or to an earlier one, or a foreign one.
Receive ==
  /\ outcome = Pending
  /\ \E body \in replies \cup ForeignBodies(request.id), status \in {0} \cup Statuses :
       outcome' = Received(body, request.id, status)
  /\ UNCHANGED <<nextId, request, sent, replies>>
-----------------------------------------------------------------------------
(* Properties *)

\* A call returns the node's answer to this very request, and an RpcError with a
\* code of Bitcoin Core means that the node refused this very request, whatever
\* the HTTP status and whatever else is delivered (core_rpc.py:63-78, 98-113).
OutcomeIsTheNodes ==
  /\ outcome.kind = "result" =>
       outcome.value = request.question /\ ResultBody(request) \in replies
  /\ outcome.kind = "RpcError" /\ outcome.code < 0 =>
       RefusalBody(request, outcome.code) \in replies
=============================================================================
