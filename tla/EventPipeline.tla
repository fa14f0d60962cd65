--------------------------- MODULE EventPipeline ---------------------------
(***************************************************************************)
(* The withdrawal of one event on top of the running bridge: the Python    *)
(* driver (generate_withdrawals_with_live_event_proving.py with its helper *)
(* bridge_e2e.py), the binaries it starts one after the other (witness     *)
(* exporter, witness builder, event prover), and the branch of the         *)
(* verifier's loop that checks the event proof.                            *)
(*                                                                         *)
(* The event is proven against a root that the verifier holds: the layer-1 *)
(* root of the key block right after it, whose tree has the W blocks       *)
(* before that key block as leaves.  The verifier holds roots of thinned   *)
(* key blocks only, and only the newest W of them.                         *)
(*                                                                         *)
(* Every run of the driver uses sequence number 0: there is one proof file *)
(* and one result file, proof_event_000000.json and                        *)
(* proof_event_000000.result.json.                                         *)
(***************************************************************************)
EXTENDS Bridge

CONSTANT MaxRuns   \* bound on the runs of the driver

ASSUME RunsAssumption == MaxRuns \in Nat

VARIABLES
  opc,          \* where the driver is
  runs,         \* how often it has been started
  mark,         \* chain head when it entered the fire window
  event,        \* block of its withdrawal event
  witness,      \* what the witness builder wrote
  outcome,      \* how its last run ended
  eventFile,    \* proofs/proof_event_000000.json
  eventResult,  \* proofs/proof_event_000000.result.json
  eventSeen,    \* the verifier's last_seen_event_seqno is 0, no longer -1
  eventFaults   \* how many faults have hit the driver

driverVars == <<opc, runs, mark, event, witness, outcome>>
eventVars  == <<driverVars, eventFile, eventResult, eventSeen, eventFaults>>

(* `root` is the key block whose layer-1 root is the anchor; `valid`: the path
   of the event's block leads to that root. *)
NoWitness == [root |-> 0, valid |-> FALSE]

NoEventFile   == [status |-> "absent", event |-> 0, root |-> 0]
TornEventFile == [status |-> "torn", event |-> 0, root |-> 0]

(* EventProofResult, with the public instances it echoes: `event` is the one the
   proof was about, 0 when the file could not be read. *)
NoEventResult   == [status |-> "absent", verified |-> FALSE, event |-> 0]
TornEventResult == [status |-> "torn", verified |-> FALSE, event |-> 0]

EventInit ==
  /\ Init
  /\ opc = "idle" /\ runs = 0 /\ mark = 0 /\ event = 0
  /\ witness = NoWitness /\ outcome = "none"
  /\ eventFile = NoEventFile /\ eventResult = NoEventResult
  /\ eventSeen = FALSE /\ eventFaults = 0

(* One of the bounded faults hits the driver or a binary it has started. *)
EventFault == faults + eventFaults < MaxFaults /\ eventFaults' = eventFaults + 1

-----------------------------------------------------------------------------
(* The boundary arithmetic, once in Python and once in Rust. *)

(* Slip: any block is proven under the next thinned key block. *)
EventKeyBlockThinned(e) == (e \div Step) * Step + Step

(* key_block_seq: the key block whose layer-1 tree has block e as a leaf. *)
EventKeyBlock(e) == (e \div W) * W + W

(* thinned_key_block_seq: the next key block that is proven at all. *)
ThinnedKeyBlock(e) == (e \div Step) * Step + Step

(* fire_start: the last W blocks before a thinned key block. *)
InFireWindow(latest) == latest >= ThinnedKeyBlock(latest) - W

(* Leaves of the layer-1 tree of key block k. *)
Encloses(k, e) == k - W <= e /\ e < k

-----------------------------------------------------------------------------
(* The driver. *)

Exit(result) ==
  /\ opc' = "idle" /\ outcome' = result
  /\ mark' = 0 /\ witness' = NoWitness
  /\ UNCHANGED <<runs, event, eventFile>>

OStart ==
  /\ opc = "idle" /\ runs < MaxRuns
  /\ runs' = runs + 1 /\ opc' = "window" /\ outcome' = "none" /\ event' = 0
  /\ UNCHANGED <<mark, witness, eventFile>>

(* wait_for_fire_window: only then is the withdrawal sent. *)
OFire ==
  /\ opc = "window" /\ InFireWindow(head)
  /\ mark' = head /\ opc' = "capture"
  /\ UNCHANGED <<runs, event, witness, outcome, eventFile>>

(* capture_event_metadata: the event has landed in one of the blocks made since,
   perhaps in one that is past the window. *)
OCapture(b) ==
  /\ opc = "capture" /\ mark < b /\ b <= head
  /\ EventKeyBlock(b) = ThinnedKeyBlock(b)
  /\ event' = b /\ opc' = "state"
  /\ UNCHANGED <<runs, mark, witness, outcome, eventFile>>

OCaptureWrongWindow(b) ==
  /\ opc = "capture" /\ mark < b /\ b <= head
  /\ EventKeyBlock(b) # ThinnedKeyBlock(b)
  /\ Exit("failed")

(* Slip: waits for the verifier to get past the key block. *)
OStateReachedLate ==
  /\ opc = "state" /\ verifier.lastSeq > ThinnedKeyBlock(event)
  /\ opc' = "build"
  /\ UNCHANGED <<runs, mark, event, witness, outcome, eventFile>>

(* wait_for_verifier_state *)
OStateReached ==
  /\ opc = "state" /\ verifier.lastSeq >= ThinnedKeyBlock(event)
  /\ opc' = "build"
  /\ UNCHANGED <<runs, mark, event, witness, outcome, eventFile>>

(* slot_for_event_height(1, ..) *)
Slots(k) == {i \in DOMAIN verifier.recent[1] : verifier.recent[1][i].height = k}

(* Slip: the default of --state, prover_state.json. *)
OBuildFromProver ==
  /\ opc = "build"
  /\ LET k == EventKeyBlock(event)
     IN  \E i \in DOMAIN prover.recent[1] :
            /\ prover.recent[1][i].height = k
            /\ witness' = [root  |-> prover.recent[1][i].hash[2],
                           valid |-> /\ prover.recent[1][i].hash = <<1, k>>
                                     /\ Encloses(k, event)]
  /\ opc' = "prove"
  /\ UNCHANGED <<runs, mark, event, outcome, eventFile>>

(* bridge-event-witness-builder: the anchor is the root the verifier holds for
   the key block; the path is computed from the chain's blocks. *)
OBuild ==
  /\ opc = "build"
  /\ LET k == EventKeyBlock(event)
     IN  \E i \in Slots(k) :
            witness' = [root  |-> verifier.recent[1][i].hash[2],
                        valid |-> /\ verifier.recent[1][i].hash = <<1, k>>
                                  /\ Encloses(k, event)]
  /\ opc' = "prove"
  /\ UNCHANGED <<runs, mark, event, outcome, eventFile>>

(* The verifier never had the key block's root, or no longer has it. *)
OBuildRolledOut ==
  /\ opc = "build" /\ Slots(EventKeyBlock(event)) = {}
  /\ Exit("failed")

(* The query for one of the two roots in the tree fails and the zero hash takes
   its place; that the rebuilt root is another one is only logged. *)
OBuildZeroRoot ==
  /\ opc = "build" /\ Slots(EventKeyBlock(event)) # {}
  /\ witness' = [root |-> EventKeyBlock(event), valid |-> FALSE]
  /\ opc' = "prove"
  /\ UNCHANGED <<runs, mark, event, outcome, eventFile>>

(* bridge-event-prove writes only a proof that it has verified itself. *)
OProve ==
  /\ opc = "prove" /\ witness.valid
  /\ eventFile' = [status |-> "whole", event |-> event, root |-> witness.root]
  /\ opc' = "await"
  /\ UNCHANGED <<runs, mark, event, witness, outcome>>

OProveTear ==
  /\ opc = "prove" /\ witness.valid
  /\ eventFile' = TornEventFile /\ opc' = "proveWrite"
  /\ UNCHANGED <<runs, mark, event, witness, outcome>>

OProveEnd ==
  /\ opc = "proveWrite"
  /\ eventFile' = [status |-> "whole", event |-> event, root |-> witness.root]
  /\ opc' = "await"
  /\ UNCHANGED <<runs, mark, event, witness, outcome>>

OProveFails ==
  /\ opc = "prove" /\ ~witness.valid
  /\ Exit("failed")

(* wait_for_daemon_result and the exit code; a file that does not parse is read
   again. *)
OVerdict ==
  /\ opc = "await" /\ eventResult.status = "whole"
  /\ Exit(IF eventResult.verified THEN "accepted" ELSE "rejected")

(* Each of the four waits has a deadline. *)
OTimeout ==
  /\ opc \in {"window", "capture", "state", "await"}
  /\ Exit("timeout")

(* A failing query, or one of the processes dying, ends the run. *)
ODie ==
  /\ opc # "idle"
  /\ Exit("failed")

DriverStep ==
  \/ OFire
  \/ \E b \in Blocks : OCapture(b) \/ OCaptureWrongWindow(b)
  \/ OStateReached
  \/ OBuild \/ OBuildRolledOut \/ OProve \/ OProveEnd \/ OProveFails
  \/ OVerdict

(* Faults of the driver and of the binaries it starts. *)
DriverFault == OBuildZeroRoot \/ OProveTear \/ ODie

Elsewhere == UNCHANGED <<eventResult, eventSeen, vars>>

DriverMoves == DriverStep /\ Elsewhere /\ UNCHANGED eventFaults

-----------------------------------------------------------------------------
(* The verifier's event branch: last in its loop, after the bk-updates and the
   layer bundles. *)

EventWaiting ==
  /\ ~SelfVerify /\ vpc = "loop" /\ SeedChecked
  /\ \A s \in Blocks :
       ~NextFile(bkupds, s, bkSeen) /\ ~NextFile(proofs, s, seen)
  /\ ~eventSeen /\ Exists(eventFile)

(* flatten_layer_hashes, without the zeros that fill it up. *)
MirroredRoots ==
  UNION {{verifier.recent[l][i].hash : i \in DOMAIN verifier.recent[l]} :
           l \in Layers}

(* process_event_proof: a proof that can be read is accepted if its root is
   among those mirrored now; its own validity its prover has checked. *)
EventVerdict ==
  IF eventFile.status = "whole"
  THEN [status |-> "whole", event |-> eventFile.event,
        verified |-> <<1, eventFile.root>> \in MirroredRoots]
  ELSE [status |-> "whole", event |-> 0, verified |-> FALSE]

VEvent ==
  /\ EventWaiting
  /\ eventResult' = EventVerdict
  /\ eventSeen' = TRUE
  /\ UNCHANGED <<driverVars, eventFile, eventFaults, vars>>

(* Slip: the event counts as seen before its result is on disk. *)
VEventTearSeen ==
  /\ EventWaiting
  /\ VCrash /\ UNCHANGED proverVars
  /\ eventResult' = TornEventResult
  /\ eventSeen' = TRUE
  /\ UNCHANGED <<driverVars, eventFile, eventFaults>>

(* The verifier dies while it writes the result. *)
VEventTear ==
  /\ EventWaiting
  /\ VCrash /\ UNCHANGED proverVars
  /\ eventResult' = TornEventResult
  /\ UNCHANGED <<driverVars, eventFile, eventSeen, eventFaults>>

-----------------------------------------------------------------------------
(* A step of the bridge.  The event cursor is not part of the verifier's state:
   a verifier that is started again checks the event proof again. *)
BridgeStep ==
  /\ Next
  /\ eventSeen' = (eventSeen /\ vpc' # "down")
  /\ UNCHANGED <<driverVars, eventFile, eventResult, eventFaults>>

EventNext ==
  \/ BridgeStep
  \/ (OStart \/ OTimeout) /\ Elsewhere /\ UNCHANGED eventFaults
  \/ DriverMoves
  \/ DriverFault /\ EventFault /\ Elsewhere
  \/ VEvent \/ VEventTear

allVars == <<vars, eventVars>>

EventSpec == EventInit /\ [][EventNext]_allVars

(* As for the bridge; the driver's script runs on, and the event branch is the
   verifier's own loop.  No run has to be started, and no deadline to pass. *)
EventFairSpec ==
  EventSpec /\ Fairness /\ WF_allVars(DriverMoves) /\ WF_allVars(VEvent)

-----------------------------------------------------------------------------
RolledOut(k) == verifier.lastSeq >= k + W * Step

(* A run reports success only for an event whose block lies under a key block
   that the verifier itself has accepted a bundle for, or that is the seed. *)
SuccessIsEarned ==
  [][outcome # "accepted" /\ outcome' = "accepted" =>
       LET k == eventFile.root
       IN  Encloses(k, event) /\ (k = seedFile.seq \/ Accepted(results[k]))
    ]_allVars

(* A proof the verifier could read is rejected only once its key block has left
   the window by W newer bundles, and then for good: neither waiting for the
   verifier nor a restart, which repeats the check, loses the anchor earlier. *)
RejectedOnlyIfRolledOut ==
  eventResult.status = "whole" /\ eventResult.event # 0 /\ ~eventResult.verified
    => RolledOut(ThinnedKeyBlock(eventResult.event))

(* Without a failed query every witness proves: the tree that the arithmetic
   picks holds the event's block, wherever in the window or past it the event
   has landed, and the verifier's root under that height is the tree's. *)
WitnessProves == opc = "prove" /\ eventFaults = 0 => witness.valid

(* The event has landed in the window, and its key block is on the chain. *)
EventInTime == opc = "state" /\ ThinnedKeyBlock(event) <= LastKeyBlock

EventSettled ==
  \/ outcome \in {"accepted", "timeout"} \/ faults + eventFaults > 0
  \/ RolledOut(ThinnedKeyBlock(event))

(* Without faults an event that landed in the window is accepted, unless a
   deadline passes or its root rolls out first. *)
EventDelivered == EventInTime ~> EventSettled

(* A driver that has handed over a proof always gets an answer, whatever the
   verifier goes through. *)
EventAnswered == (opc = "await") ~> (opc = "idle")
=============================================================================
