---------------------------- MODULE LiveValidation ----------------------------
(* main of scripts/run_live_core_validation.py: it starts a node of its own,     *)
(* runs the regtest driver against it, has the bundle verified as it is, tampered *)
(* with, after its challenge block is invalidated and after it is restored, and   *)
(* stops the node whatever happens.  The driver and every assay are the processes *)
(* of modules RegtestDriver and Verifier; the node has no peers, so nobody else   *)
(* mines.                                                                         *)
(*                                                                                *)
(* When RpcCanFail, so may anything else the script runs: the binary, the node's  *)
(* startup and shutdown, a subprocess.                                            *)
EXTENDS RegtestDriver, VectorChecker

VARIABLES
  step,      \* where main is; an assay's name while that assay runs
  process,   \* the node: "none", "starting", "running", "killed" or "exited"
  summary,   \* summary.json: "absent", "stale" (the pass of an earlier run) or "pass"
  status     \* exit status, -1 until something decides it

liveVars == <<step, process, summary, status>>
liveAllVars == <<allVars, liveVars>>

Assays ==
  {"baseline", "tampered_work", "tampered_challenge", "invalidated", "restored"}

\* The steps inside the try statement whose finally stops the node.
InTry == Assays \cup
  {"wait", "lifecycle", "vectors", "invalidate", "reconsider", "record", "summarize"}

\* What the script expects of an assay.
Expected(assay) ==
  CASE assay = "tampered_work"      -> "BAD_WORK_HASH"
    [] assay = "tampered_challenge" -> "BAD_CHALLENGE"
    [] assay = "invalidated"        -> "HEADER_LOOKUP"
    [] OTHER                        -> "VALID"

\* mutate_final_nibble
Mutated(digest) == <<"mutated", digest>>

\* The file an assay reads.
BundleOf(assay) ==
  CASE assay = "tampered_work" ->
         [Bundle EXCEPT !.work.work_hash = Mutated(@)]
    [] assay = "tampered_challenge" ->
         [Bundle EXCEPT !.work.challenge_digest = Mutated(@)]
    [] OTHER -> Bundle
-----------------------------------------------------------------------------
LiveInit ==
  /\ DriverInit
  /\ wallet = "absent" /\ ~funded
  /\ step = "discover"
  /\ process = "none"
  /\ summary \in {"absent", "stale"}
  /\ status = -1

GoTo(place) == step' = place /\ UNCHANGED status

\* Mutant: an exception leaves main without the finally clause.
Leave(code) == step' = "end" /\ status' = code

\* An exception inside the try statement.
Raise(code) == step' = "stop" /\ status' = code

Idle == UNCHANGED <<allVars, process, summary>>

\* verify_command in a process of its own.
StartAssay(assay) ==
  /\ GoTo(assay)
  /\ bundle' = BundleOf(assay)
  /\ pc' = "network" /\ stop' = Claim /\ verdict' = "none"
  /\ header' = NoHeader /\ atHeight' = 0 /\ best' = 0
  /\ disturbed' = {}
  /\ UNCHANGED <<driverVars, others, process, summary>>

\* Without a binary, the records of an earlier run stay as they are.
Discover ==
  /\ step = "discover"
  /\ \/ GoTo("prepare")
     \/ RpcCanFail /\ step' = "end" /\ status' = 3
  /\ Idle

\* rmtree may fail before or after it reached the summary.
PrepareOutput ==
  /\ step = "prepare"
  /\ \/ summary' = "absent" /\ GoTo("version")
     \/ RpcCanFail /\ summary' \in {summary, "absent"} /\ step' = "end" /\ status' = 2
  /\ UNCHANGED <<allVars, process>>

\* bitcoind --version, before there is a node to stop.
CheckVersion ==
  /\ step = "version"
  /\ \/ GoTo("start")
     \/ RpcCanFail /\ step' = "end" /\ status' = 2
  /\ Idle

StartNode ==
  /\ step = "start"
  /\ \/ process' = "starting" /\ GoTo("wait")
     \/ RpcCanFail /\ UNCHANGED process /\ step' = "end" /\ status' = 2
  /\ UNCHANGED <<allVars, summary>>

\* wait_for_rpc: the node answers, has exited, or misses the deadline.
WaitForRpc ==
  /\ step = "wait"
  /\ \/ process' = "running" /\ GoTo("lifecycle")
     \/ RpcCanFail /\ process' \in {"starting", "exited"} /\ Raise(2)
  /\ UNCHANGED <<allVars, summary>>

RunLifecycle ==
  /\ step = "lifecycle"
  /\ DriverStep
  /\ UNCHANGED liveVars

CheckLifecycle ==
  /\ step = "lifecycle" /\ at = "end"
  /\ \/ exitCode = 0 /\ StartAssay("baseline")
        /\ UNCHANGED nodeVars
     \/ exitCode # 0 /\ Raise(2) /\ Idle

RunAssay ==
  /\ step \in Assays
  /\ Call
  /\ UNCHANGED <<driverVars, others, liveVars>>

\* Mutant: the script forgets to restore the challenge block.
FollowingWithoutRestore(assay) ==
  CASE assay = "baseline"           -> "vectors"
    [] assay = "tampered_challenge" -> "invalidate"
    [] OTHER                        -> "record"

\* What the script does after an assay that ended as expected.
Following(assay) ==
  CASE assay = "baseline"           -> "vectors"
    [] assay = "tampered_challenge" -> "invalidate"
    [] assay = "invalidated"        -> "reconsider"
    [] OTHER                        -> "record"

CheckAssay ==
  /\ step \in Assays /\ pc = "done"
  /\ \/ /\ verdict = Expected(step)
        /\ \/ step = "tampered_work" /\ StartAssay("tampered_challenge")
           \/ step # "tampered_work" /\ GoTo(Following(step)) /\ Idle
     \/ verdict # Expected(step) /\ Raise(2) /\ Idle
  /\ UNCHANGED nodeVars

CheckVectors ==
  /\ step = "vectors"
  /\ \/ CheckerSays(bundle, "VALID") /\ StartAssay("tampered_work")
     \/ ~CheckerSays(bundle, "VALID") /\ Raise(2) /\ Idle
  /\ UNCHANGED nodeVars

\* Mutant: the tip is invalidated in place of the challenge block.
InvalidateTip ==
  /\ step = "invalidate"
  /\ Activate(SubSeq(chain, 1, Len(chain) - 1))
  /\ StartAssay("invalidated")

\* invalidateblock: the chain ends below the challenge block.
Invalidate ==
  /\ step = "invalidate"
  /\ Activate(SubSeq(chain, 1, challenge_height - 1))
  /\ StartAssay("invalidated")

\* reconsiderblock: the heaviest branch is active again.
Reconsider ==
  /\ step = "reconsider"
  /\ \E branch \in KnownBranches :
       /\ \A b \in BlockHashes : blocks[b].chainwork <= TotalWork(branch)
       /\ Activate(branch)
  /\ StartAssay("restored")

Record == step = "record" /\ GoTo("summarize") /\ Idle

WriteSummary ==
  /\ step = "summarize"
  /\ summary' = "pass"
  /\ GoTo("stop")
  /\ UNCHANGED <<allVars, process>>

SomethingFails ==
  /\ RpcCanFail
  /\ step \in InTry \ {"wait"}
  /\ Raise(2)
  /\ Idle

\* The finally clause: stop or terminate, and kill a node that does not exit in
\* time; the last wait may time out too.
StopNode ==
  /\ step = "stop"
  /\ step' = "end"
  /\ \/ process' = "exited" /\ status' = IF status = -1 THEN 0 ELSE status
     \/ RpcCanFail /\ process' = "killed" /\ status' = 2
  /\ UNCHANGED <<allVars, summary>>

LiveNext ==
  \/ Discover \/ PrepareOutput \/ CheckVersion \/ StartNode \/ WaitForRpc
  \/ RunLifecycle \/ CheckLifecycle \/ CheckVectors
  \/ RunAssay \/ CheckAssay \/ Invalidate \/ Reconsider
  \/ Record \/ WriteSummary \/ SomethingFails \/ StopNode

LiveSpec == LiveInit /\ [][LiveNext]_liveAllVars /\ WF_liveAllVars(LiveNext)
-----------------------------------------------------------------------------
(* Properties *)

\* The script's expectations are right about the verifier: no assay ends otherwise
\* than the script demands, unless one of its calls failed.
ExpectationsHold ==
  step \in Assays /\ pc = "done" =>
    verdict \in {Expected(step), "HEADER_LOOKUP", "TRANSACTION_LOOKUP", "UNCAUGHT"}

\* A failed call may end in the very code the script waits for (HEADER_LOOKUP of the
\* invalidated challenge), and the script counts it as the rejection.  Even so, no
\* bundle that it counts as rejected is a genuine atom of the chain at that moment.
CountedRejectionsAreRight ==
  step \in Assays /\ Expected(step) # "VALID" /\ pc = "done" /\ verdict = Expected(step)
    => ~GenuineHistory(chain, bundle)

\* A summary that this run wrote speaks of an atom that is genuine, buried and unspent
\* in the chain the node is left with, the challenge block restored, and the
\* script's exit status is 0 only with such a summary.
PassedAtomStands ==
  /\ summary = "pass" =>
       /\ GenuineHistory(chain, Bundle)
       /\ TitleUnspent(chain, Bundle)
       /\ Buried(chain, Bundle)
  /\ status = 0 => summary = "pass"

\* Whatever fails, a node that was started is stopped (the docstring's promise).
NodeIsStopped == process \in {"starting", "running"} ~> process \in {"killed", "exited"}
=============================================================================
