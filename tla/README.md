# A formal model of the Acki Nacki → Ethereum bridge prover

The repository holds the off-chain half of a bridge. A **prover daemon** follows
the Acki Nacki chain and produces halo2 proofs for its key blocks; a **verifier
daemon** stands in for the Ethereum contract, checks the proofs and keeps the
same history record as the contract. The two share a directory of JSON files.
On top of them a driver takes the event of one withdrawal through the witness
builder and the event prover to the verifier.
This directory holds TLA+ specifications of the two daemons, of the record they
keep, of the files between them, of the way the prover comes by its keys, its
evidence and its set of block keepers, and of the event pipeline; TLC configurations
that check them on small chains; and TLAPS proofs of what holds on every chain.

Contents: [the system](#1-the-system), [the modules](#2-the-modules),
[abstractions](#3-abstractions-and-bounds), [the runs](#4-the-runs),
[findings](#5-findings), [the proofs](#6-the-proofs),
[what is not modelled](#7-what-is-not-modelled), [plan](#8-plan).

## 1. The system

### Components

| Component | State it keeps | Operations | Makes it correct |
|---|---|---|---|
| **History record** `bridge-prover-lib/src/bridge_state.rs` | one ring buffer of W roots per layer, block-keeper-set commitment, last seen height and seq_no, update cursor, ring of self-verify outcomes | `append_bundle`, `apply_bk_set_update`, `push_bundle_result`, chronological readers, `prev_max_level_layer_hash_for`, `load`, `save` | read in order, each buffer is the newest W roots; the commitment moves only by a bundle or along the chain of updates; the next proof starts from the newest root |
| **Prover daemon** `bridge-prover-daemon/src/main.rs` | the record in `prover_state.json`, the pubkey table, its position in the loop | seed, drain rotations, prove a key block, hand over, await the verdict, append; self-verify variant | never ahead of the verifier in rotations; both its files agree; every key block reaches the mirror |
| **Verifier daemon** `bridge-verifier-daemon/src/main.rs` | the record in `verifier_state.json`, two cursors derived from it, the `bootstrapped` flag | seed, process a bk-update, process a layer bundle, check event proofs | appends verified bundles only, each once and in order; its commitment is one the chain committed to |
| **File channel** `bridge-prover-lib/src/{ipc,bootstrap}.rs` | `proof_NNN`, `result_NNN`, `bkupd_NNN`, `bkupd_result_NNN`, `bootstrap_seed.json` | write, scan for the next file, wait for a verdict | a torn or stale file never counts as a positive verdict |
| **Pubkey table** `prover_bk_set.rs` | keys of the current set by signer index, their commitment, the last rotation applied | `load`, `from_pubkeys`, `rotate`, `save` | same commitment and same rotation as the record; after the first rotation the chain's set |
| **Rotation stream** `bk_set_fetcher.rs` | none; behind it the config file `bk_set.json` | `fetch_bk_set` in two pages, `next_update_after` over the newest 100 rows | the two pages make the current set although the chain moves in between; the oldest pending rotation, none skipped |
| **Attestation evidence** `attestation_fetcher.rs` | none | classify the rows of a block, patch the sequence number into them | fallback evidence goes to the fallback circuit, and a proof that verifies is of a final block |
| **Chain builder** `real_chain_builder.rs`, `chain_proof_builder.rs` | none | choose the layer, list the links, rebuild a tree for each | from a complete record there is a chain within `MAX_CHAIN_LEN` to every next key block, and it ends in the published root |
| **Block-id tree** `block_id_tree.rs` | none | Merkle leaves and paths | leaves 2 and 3 carry the sets before and after a block |
| **Proof verification** `verifier.rs` | none | verify one proof under one key | the key of the circuit that made it |
| **Keys** `keys.rs` | three files per circuit in `params/`; verifying keys, configurations and at most one proving key in memory | `new`, `ensure_*_keys`, `load_*_pk`, `unload_*_pk` | a configuration file stands for complete keys; one proving key at a time |
| Circuits `prover.rs`, `layer_prover.rs`, `poseidon*.rs` | none | prove | by which evidence makes a proof that verifies; the constraint systems are not modelled |
| GraphQL client `gql_client.rs`, `types.rs` | none | queries | rows of attestations and pages of rotations; a failing query is a fault of its caller |
| Event pipeline `bridge-event-*` | none of its own; reads the verifier's window; the verifier's event cursor | build the witness, prove, check an event | the path of the event's block ends in the root it is anchored at; a proof that could be read is rejected only if that root has rolled out of the window |
| Live-event driver `python/generate_withdrawals_with_live_event_proving.py`, `python/helper/bridge_e2e.py` | its position, the event's metadata | fire window, capture, wait for the verifier, run the binaries, exit code | exit 0 means that the verifier accepted the event |
| Short-stub driver, scripts | process handles | start, wait, compare | test drivers; not modelled |

### How they interact

```
 chain ──GraphQL──▶ prover daemon ──bootstrap_seed.json──▶ verifier daemon
                       │   ▲      ──proof_NNN, bkupd_NNN──▶   │   ▲
        prover_state.json  │      ◀─result_NNN, bkupd_result_NNN  │
        prover_bk_set.json ┘                    verifier_state.json ┘
```

The daemons share nothing but files. There is no handshake and no file is ever
deleted: a cursor on one side and an existence test on the other is the whole
protocol. For every thinned key block (every W·P-th block) the prover

1. drains the rotations of the block-keeper set up to that block, one at a time:
   request, verdict (300 s timeout), save the record, save the pubkey table;
2. proves the block (Circuit 1 over the attestation, Circuit 2 over the layer
   chain), writes the proof, waits for the verdict (300 s timeout);
3. appends the block's roots to its own record, whatever the verdict was.

The verifier polls: seed first, then the lowest unseen bk-update, then the
lowest unseen proof, and when there is none, an unseen event proof. It *saves* an
applied bk-update before it reports it, and *reports* a layer bundle before it
appends it.

The event driver waits until the chain is in the last W blocks before a thinned
key block, sends the withdrawal, waits until the verifier has got past that key
block, has a witness built from `verifier_state.json` and a proof made of it
(`proof_event_000000.json`), and takes its exit code from the verifier's
`proof_event_000000.result.json`.

### What is hard

* **Two saves, no transaction.** The prover saves its record and its pubkey table
  one after the other; the verifier saves and reports in two steps, in opposite
  orders for the two kinds of request. A crash can fall between any two.
* **A timeout is not an answer.** After it the prover goes on while the request
  is still there to be processed, behind newer ones.
* **`fs::write` truncates first.** A reader can find a file with nothing in it,
  and neither side looks at a torn file twice.
* **Stale verdicts.** A request for the same block is written again after a
  restart and finds the old verdict waiting.
* **The drain runs ahead of the key block it precedes**, so that a rotation *at*
  the key block changes the set before the block is proven.
* **Layers come and go.** A key block carries one layer or several; the prover must
  tell a layer that is new from one that has only been away, from nothing but
  the windows it holds.
* **The window moves while an event is proven.** The anchor is read before the proof
  is made and looked up again after it, and the bundles that push it out of the
  window are processed first.
* **Every driver run is number 0.** The second run writes over the first one's proof
  and finds the first one's result.
* **What the chain shows grows.** A block is classified by the attestations there are;
  a fallback block looks like a primary one until its second attestation is committed.
  The current set is read in two queries, and the chain may rotate between them.
* **Keys are three files.** They are written in place, one after the other, and taken
  for complete when one parses and another exists.
* **Start-up decides.** Seed, pubkey table and record are created in an order,
  and a crash in between leaves a subset of them.

`PROJECT.json` lists each of these at its line, with the properties that watch
over it.

## 2. The modules

| Module | What it is |
|---|---|
| `HistoryData` | operators only: the history record as its readers see it, and the effect of `append_bundle` and `apply_bk_set_update` on it |
| `ContractMirror` | abstract specification: what the record promises, without ring buffers |
| `HistoryWindow` | operators only: the ring buffer of one layer |
| `BridgeState` | the record with its ring buffers, one action per mutating method; implements `ContractMirror` |
| `LayerChain` | operators only: the layers of the chain's history and the chain of Merkle paths Circuit 2 walks through them |
| `BridgeChannel` | chain, files and faults: what the daemons share; instantiates `LayerChain` over the blocks of the chain |
| `ProverDaemon`, `VerifierDaemon` | one action per step of each daemon's main task |
| `Bridge` | both daemons composed, fairness, all system properties |
| `EventPipeline` | the driver, the binaries it starts and the verifier's event branch, on top of `Bridge` |
| `AttestationEvidence` | operators only: the attestations of a block as rows, their classification, the patched sequence number, and which evidence makes a proof that verifies |
| `KeyCache` | the key files of `params/`, and the keys in memory |
| `KeyBlockProving` | the prover between two key blocks: start-up with key generation, evidence, two proofs, one proving key at a time |
| `RotationLog` | abstract specification: following the chain's sequence of sets |
| `RotationStream` | pages, lookback, config file, pubkey table and drain, over keys by signer index; implements `RotationLog` |
| `MCBridgeState`, `MCBridge`, `MCEventPipeline`, `MCKeyBlockProving`, `MCRotationStream` | instances for TLC |
| `BridgeStateProofs`, `BridgeProofs`, `MirrorProofs`, `LayerProofs`, `HealthyProofs`, `EventProofs`, `KeyBlockProvingProofs`, `RotationStreamProofs` | theorems; each extends the one before it as far as it is about the same component |

`Bridge`, `KeyBlockProving` and `RotationStream` describe the same prover at three places.
`Bridge` takes evidence, proofs and sets for what they establish and is about the two
daemons and their files. `KeyBlockProving` opens the step `PProve` of `Bridge`: how evidence
and keys become a proof, and what a death in the middle leaves in `params/`.
`RotationStream` opens the start-up and the drain: how the set a commitment
stands for is read from the node.

The daemons use the *abstract* record (`HistoryData`); that the Rust ring buffers
provide it is what `BridgeState` is checked, and proved, for.

Operators whose comment begins with "Slip:" are plausible mistakes at the
definition that follows them (a dropped guard, an off-by-one). No action uses
them; putting one in the place of its neighbour breaks a property, which
shows that the property depends on that definition.

### State and code

| Variable | In the code |
|---|---|
| `windows`, `stored`, `recent` | the fields of `BridgeState` |
| `prover`, `outcomes` | the prover's `BridgeState`, in memory and in `prover_state.json`: every change is followed by `save` before anything else is shared. `outcomes` is its `recent_bundles` |
| `table` | `ProverBkSet` in memory, the `bk_set` map derived from it, and `prover_bk_set.json` |
| `ppc`, `target`, `update`, `fetched` | the point reached in the loop, and its locals |
| `verifier` | the verifier's `BridgeState` and `verifier_state.json` |
| `seen`, `bkSeen`, `booted` | `last_seen_seqno`, `last_seen_bk_update_seqno`, `bootstrapped` |
| `vpc`, `job` | the point reached, and the request under way |
| `proofs`, `results`, `bkupds`, `bkResults`, `seedFile` | the files, by block |
| `head` | what the GraphQL node shows |
| `opc`, `runs`, `mark`, `event`, `outcome` | the driver: the point reached in `main`, how often it was started, `latest_seq` when it fires, `event_seq`, the exit code |
| `witness` | the witness builder's output: which root it is anchored at, and whether the path leads there |
| `eventFile`, `eventResult` | `proof_event_000000.json`, `proof_event_000000.result.json` |
| `eventSeen` | `last_seen_event_seqno` is 0; it is a local of the verifier's `main` and starts at -1 again after a restart |
| `vkFile`, `pkFile`, `cfgFile` | the verifying key, proving key and configuration of each circuit in `params/`: absent, torn or whole |
| `vkMem`, `cfgMem`, `loaded` | which circuits have a verifying key, a configuration, a proving key in the `KeyManager` |
| `finality`, `shown` | how each block is finalised, and how many of its attestations the node shows |
| `pc`, `ensuring`, `last`, `evidence`, `sent` (`KeyBlockProving`) | the point reached in `main`, the circuit of the `ensure_*_keys` call, `stored_last_seen_block_seq_no`, the classified rows, the requests written |
| `log`, `sets`, `config` | the rows of `bkSetUpdates`, the set of the chain after each of them, `bk_set.json` |
| `pc`, `paged`, `table`, `commit`, `cursor`, `update`, `target` (`RotationStream`) | the point reached, the rows of the first page, `prover_bk_set.json`, the set committed to in `prover_state.json`, `stored_last_bk_set_update_seq_no`, the rotation in hand, the rotations up to the key block |
| `verdict` (`RotationStream`) | `bkupd_*.json` and `bkupd_result_*.json` of each rotation: not asked for, asked, accepted, refused, applied but never reported |

An action covers the code between two points at which another process could
see a difference: a file written, or a crash that leaves something else on
disk. `PBkApply` is `apply_bk_set_update` and `save`; `PBkRotate` is `rotate` and
its `save`; the crash between them is the one that drifts the two files apart.
Every `continue` of the prover's loop is an action or a disjunct: the four
early ones that move the cursors share `SkipTarget`.

## 3. Abstractions and bounds

* **One thread.** Height and seq_no of a block coincide. The code compares a
  key block's height with a rotation's seq_no (main.rs:429); the model takes the
  chain on which that is meant to be the same thing.
* **A root is named by its layer and the key block that published it**, a tree by
  the root the node has for it. The chain builder gets all leaves from the node
  but one, the leaf it chains through; so a rebuilt tree has the published root
  exactly if that leaf is the node's: the previous root of the layer, or, for a
  layer that is new, the newest root of the mirror (with no previous root). How
  leaf 0 is filled, which only the node can settle, is left out; see the hazard
  at real_chain_builder.rs:382.
* **Layer roots appear where W^L divides the height** (prover README:47). The number
  of layers is a parameter.
* **A proof is what it establishes**: the set it was made for, the circuit, and
  whether the chain closes. Soundness of the circuits is assumed; so is the
  completeness of an honest proof.
* **A set is its commitment.** Sets may come back (`SetCount` in `MCBridge`
  makes the third one the first again).
* **Torn files**: a write is atomic, or it is caught in the middle and finished
  by a later step. A crash of the *writer* leaves the file torn.
  The seed file and the state files are renamed into place and never torn.
* **Faults**: crashes, failed queries, failed proofs, evidence that is not there
  yet and torn writes are counted against `MaxFaults`; timeouts are not counted
  and may happen whenever there is no verdict yet.
* **One pass of the verifier is one look.** Between two writes of the prover lies
  the generation of a proof, or a timeout of 300 s; a pass that finds nothing
  takes milliseconds. The *processing* of what it finds is interleaved.
* **State saves do not fail** (full disk); the daemons exit in that case almost
  everywhere, which is the modelled crash.

* **One event, one thread of runs.** The driver is started again only after it has
  exited. A transaction lands in any block made after it was sent. The path in the block's
  event tree and the account data are part of a proof's validity.

With faults W is 2, P is 1 and there are three layers: a key block at every second
block, a second layer at every fourth and a third at the eighth; chains of 6 to
10 blocks, one to three rotations. The healthy run has W = 4, P = 2 and 34
blocks: bundles of two links, a second layer that appears at block 16 and comes
back at block 32, `MaxChainLen` at the smallest value that suffices, 2.
That is enough for a window to overflow, for a rotation before, at and behind
a key block, two rotations within one bundle, a set that comes back, a crash
in the recovery from a crash, a late bundle overtaken by a rotation, a layer
skipped, seen for the first time and seen again.
Three faults allow each daemon to die and a file to be torn in one behaviour.
`MaxSeq` and `MaxFaults` bound everything; no counter grows otherwise.

The event pipeline runs with W = P = 2, so that half of the blocks are outside the
fire window, over 16 blocks with the seed at 4: the verifier holds two roots, and
three bundles follow the seed, so that a root rolls out of the window between the
witness and the check. One fault hits any of the three processes (`eventFaults`
counts those of the driver, under the same bound `MaxFaults`). `MaxRuns` bounds the
driver's runs, to one.

`KeyBlockProving` runs with five block keepers and two key blocks, each finalised by four
signers or by three and a second attestation, with one signer counted twice or none:
enough for Circuit 1a to reject what Circuit 1b accepts. The malformed answers are two
primary entries, a fallback entry alone, a pair over two blocks and an entry that does not
parse. Two faults allow a crash in the recovery from a crash; one write error may go
unnoticed (`MaxLostWrites`). The prover writes a request (`SendRequest`), waits, and goes on
whatever the answer is or when there is none (`Proceed`); the verdict itself is `Bridge`'s.

`RotationStream` runs with two signers, two keys, three rotations, pages of one row and a
lookback of two, so that the two pages may meet or not, and the prover may be behind by
more than a query shows. Three faults allow the verifier to lose a report, or to come back
and take up a refused request, while the prover crashes or lacks a proof. That the prover
stops waiting is not counted: it may do so as often as there is no verdict yet. Rows exchange a key, change two signers at once, have a
change that is not recognised, or no height; the chain starts with an empty set
or one that the log does not hold, and can return to a set it had before.

All runs but `bridge_state` set `CHECK_DEADLOCK FALSE`: at the end of the bounded chain
the daemons poll for ever, and a step that finds nothing changes nothing. Also a
prover that has refused to start stays down.

### Fairness

`FairSpec` assumes weak fairness of the chain's growth and of each daemon's
own steps. Each daemon is a single task that never waits for a lock: its waits
are polls with a sleep, so whatever it can do it will do; a supervisor
(`scripts/run-bridge-test.sh`, an operator) starts it again when it is down. Faults
are not fair: no liveness property needs a crash to happen. Timeouts are part
of the prover's steps where a run enables them, as they are in the code.

`EventFairSpec` adds weak fairness of the driver's own steps, a script that runs on
by itself, and of the verifier's event branch, which is the last of its loop: it
is enabled for good once the chain has stopped and all bundles are processed. No
run of the driver has to be started and no deadline has to pass.

`KeyBlockProving` and `RotationStream` assume that the prover's own steps are fair, for the
reason above, its restart included. In the first every block also gets its attestations in
the end, as the chain goes on only from finalised blocks; in the second key blocks
go on coming, and the verifier answers the requests that it has yet to look at, in one
way or the other; that it accepts them is not fairness but a hypothesis of `CatchesUp`.
Neither malformed answers nor write errors nor failed
queries are fair.

## 4. The runs

| Run | Configuration | What it shows |
|---|---|---|
| `bridge_state` | two layers of two slots, any roots and heights, bundles with zero to two layers | the ring buffers implement `ContractMirror` through every wrap; cursor and length agree; the next chain starts from the newest root of the highest layer |
| `faults` | three rotations (one at a key block, one back to an old set), a fallback block, three faults, timeouts, `FairSpec` | what survives anything: both prover files agree wherever both are read, the prover never counts a rotation the verifier has not applied, the verifier is at most one rotation and one bundle ahead, a mirror never takes a block twice or out of order, the verifier's commitment is one of the chain and all it mirrors is backed by a verdict on disk, a complete record always has a chain to the next key block, a lost acknowledgement stays lost; and the prover never hangs on the verifier: it reaches the end or has refused to start |
| `faultless` | four rotations off the key blocks, two in one bundle, a fallback block, two links a bundle, a layer that comes back, `FairSpec` | the healthy system: mirrors equal whenever both are idle, `last_seen` is the last block applied, every chain closes, the commitment only moves forward, every key block and rotation arrives |
| `self_verify` | the stand-alone build with three faults | what it mirrors has a proof on disk that verifies; a skipped block stops it for good, or until a key block with a higher layer comes |
| `events` | one run of the driver over the running bridge, one fault, `EventFairSpec` | success is only reported for an event under a key block that the verifier took; a proof that could be read is rejected only if W bundles have pushed its root out; the witness proves unless a query failed; without faults and deadlines an event that landed in time is accepted; a proof handed over gets its answer through crash, torn file and restart |
| `proving` | two key blocks from the first start on, two faults, one unnoticed write error, `FairSpec` | a configuration file stands for complete keys, one proving key is in memory at a time, a proof that verifies is of a final block, a torn proving key is never repaired, and every key block is proven otherwise |
| `rotation_stream` | three rotations, pages of one row, lookback of two, three faults, timeouts, a verifier that may refuse or never report, `FairSpec` | the prover follows the log of sets: commitment and keys are the chain's after the rotation it counts, none is skipped within the lookback, the two pages make the current set, a prover on the chain of sets whose requests are neither refused nor left without a report catches up |
| `climb`, `rollback`, `rotation_block`, `mid_chain`, `evidence` | the smallest chain that shows it | one violated statement of the documentation each, see below |

`LostAckIsFinal`, `SkipIsFatal` and `TornPkIsFinal` say that something bad is permanent. They
are stated because an operator has to know: no restart heals any of these states.

`VerifiedIsFinal` says that the classifier never hands over more than the chain had decided:
whatever the server answered, and although the rows are read before the block may be final, a
proof that verifies is of a block with all its attestations or with two thirds of the set
behind it, and one tagged fallback is of a fallback block with both. The promises that the right circuit is
chosen and the right number read are not kept; the run `evidence` shows that. `RequestsVerify`, which no run checks and `RequestsCharacterised` proves,
says that these are the only two reasons for a proof not to verify.

`CatchesUp` holds however often a verdict comes after the prover has stopped waiting: the
verdict is a file, and the next attempt at the same rotation finds it. For the same
reason a refusal answers every later attempt, until the verifier is started again and looks
at the request anew, and a report lost in a crash of the verifier is lost for good. `Followable`
excludes these two by name: for a rotation whose report is lost the conclusion is false, and
`LostAckIsFinal` says so of the two daemons.

The healthy properties are conditional on `SeededEarly` (the seed was taken before
the first rotation), because of the finding `mid_chain`.

## 5. Findings

Each is a disagreement between the code and what the repository says of it; TLC
produces the behaviour.

1. **`climb`** "Determine if a TRULY new layer appeared (never seen before). A layer
   re-appearing after being absent is NOT a new layer" (real_chain_builder.rs:69).
   The code compares with the number of layers the mirror holds. A mirror seeded
   between two roots of layer 2 holds none of them, takes the next one for the
   first, rebuilds its tree with a zero previous root and gets a proof that does
   not verify. With W = 128 that is the first multiple of 16384 after any start
   beyond block 16384 that is not on one.
2. **`rollback`** "Processing bk-update bundles first preserves that order" (verifier
   main.rs:244). After a timeout the prover goes on; the request of a later rotation
   overtakes the late bundle; `append_bundle` then puts the old commitment back,
   and no later bk-update matches it.
3. **`rotation_block`** "The layer bundle for the bk-update block itself uses the OLD
   commitment and so still verifies." The drain includes the target, so the prover
   holds the new set when it comes to that block, cannot find its signers and
   skips it.
4. **`mid_chain`** "Works for fresh devnet and mid-chain shellnet." A fresh pubkey table
   holds the current set with no rotation counted; the drain finds the chain's
   first rotation, rejects it for its old commitment and never gets further.
5. **`evidence`**, the circuit: "[...] returned as an error so the daemon retries instead of silently
   choosing the wrong circuit" (attestation_fetcher.rs:138-141); "Once a fallback event occurs the
   daemon will automatically route to 1b" (docs/fallback_path.md:110). A block on its way to the
   fallback path shows one PRIMARY row until its second attestation is on the chain.
   Line 159 takes that for a block of the primary path, and Circuit 1a is used; with too few
   signers for it the proof does not verify, and the block is not looked at again.
6. **`evidence`**, the number: "patch it in here so downstream consumers [...] read the correct value from
   raw_bytes" (attestation_fetcher.rs:48-51). The offset goes by the sum of the occurrence counts
   (199), the bytes and their reader by the number of distinct signers. A signer counted twice
   shifts the number by four bytes, and the prover reads another one.
   `EvidenceAsPromised` states both promises, and each is broken by itself: the number is
   misread on either path, and the circuit is wrong with no signer counted twice.

Side notes, which no run is about or which a passing one covers:

* The record is saved before the seed file is written (prover main.rs:350); after a
  crash in between, the seed file is never written, and the verifier starts with
  the first bundle on an empty mirror. `Lockstep` is therefore stated of the healthy system.
* "We re-derive from the in-memory bk_set map and overwrite the file" (prover
  main.rs:203-205): the code exits instead (222-229), and one crash between the two
  saves of a rotation gets there. This is the refusal in `ProverProgress`, and what
  `TableAgrees` and its theorem rely on.
* "Exit 0 iff daemon accepts the Circuit 4 proof"
  (generate_withdrawals_with_live_event_proving.py:37) holds of the first run only. A second
  run against the same daemons takes the result file of the first, and the
  verifier, past number 0, does not look at its proof at all. The result echoes the public
  instances, but nobody compares them. `SuccessIsEarned` asks for less: that the event is
  under a block that the verifier took.
* A query for the current set that fails at the very first start makes the prover adopt
  `bk_set.json` without a word (bk_set_fetcher.rs); nothing compares that set with the chain
  before the first rotation. `RotationLog` calls this step `Trust`.
* "Both daemons fetch the set once at startup and cache it for the whole run — there is no
  `bkSetUpdates` subscription. If the on-chain set rotates mid-run, the prover will silently
  skip key blocks" (TECHNICAL_README.md:193), and "Recovery is 'restart both daemons'"
  (bridge-prover-daemon/README.md:225). The texts are older than the drain (main.rs:420-709), which
  rotates the table before each key block. `AllRotationsApplied` and `AllMirrored` hold on just
  this case: rotations in the middle of a run, no restart, every later key block mirrored.
  What these texts describe does remain for a key block that is itself the rotation (finding 3)
  and for a daemon started mid-chain (finding 4).
* "It is rare in healthy operation but must be handled — otherwise a single fallback key block
  stalls every downstream bundle" (docs/fallback_path.md:18-19). The self-verify build checks a
  Circuit 1b proof with the key of the primary circuit (main.rs:955), exits, and does so again
  at every restart; the run `self_verify` has such a block, which its daemon never mirrors. The verifier
  daemon picks the right key (main.rs:341-357).
* `test_bridge_short_stub.py` passes `--verifier-state` to the witness builder, whose
  option is called `--state`.

Also, the prover's append is commented "Reached only when both proofs
self-verified" (main.rs:1024); in paired mode it is reached after a negative
verdict, an unreadable one and a timeout too. The verifier then lacks a block
that the prover has, and nothing brings it there; `MirrorIsBacked` shows that the
damage goes no further. And a side effect of the skip paths is that `stored_last_seen_block_seq_no`, documented
as "whose history was applied via `append_bundle`", names a block that was not
(main.rs:845). `LastSeenWasApplied` holds only as long as nothing is skipped.

## 6. The proofs

TLC checks the chains above; the theorems hold for every width, step, chain,
assignment of sets to blocks, set of fallback blocks and number of faults,
in both builds; for every set of circuits, number of keepers and way of
finalisation; for every page size, lookback and row of the log. They assume only the named
assumptions of the modules: window, thinning factor and number of layers are
positive, the head is on the chain, an explicit seed is a multiple of the step (main.rs:138
exits otherwise), no block is signed by the zero commitment, a block is final only with
two thirds of the set or, on the fallback path, with more than half of it, a page has
at least one row.

**Ring buffers** (`BridgeStateProofs`). `TypeCorrect`, `CursorCorrect`, `ChainStartCorrect` and
`Refinement`. The inductive invariant is `TypeOK ∧ CursorAtLength ∧ LayersFilled`.
`CursorAtLength` is what makes the readers right: they start at slot 0 until the window is
full and at the cursor afterwards. `AppendIsPush` is the heart: reading after `append` is
`Push` on what was read before, by cases on a window that fills, becomes full, or
wraps. `ModWrap` and `ModSmall` do the arithmetic. `LayersFilled` says that the layers in use
have no gap, which is why counting them finds the highest (`CountIsHighest`): the layers
in use are among the first *t* and there are *t* of them.

**Types of the composed system** (`BridgeProofs`). `TypeCorrect`, from `Typed`, which adds
`TargetVisible`: beyond the top of the loop the target is a block of the chain. It
is needed to index the files by the target.

**Safety of the composed system** (`BridgeProofs`), each from an invariant that was
model-checked first:

| Theorem | Invariant | Why the property alone is not inductive |
|---|---|---|
| `TablesAgree` | `FilesInv` | while the record is saved and the table is not, they differ by exactly the pending rotation; a crash there must lead to the refusal, which compares the commitments |
| `RotationsAcknowledged` | `AckInv` | a positive verdict on disk, or one being written, must already be backed by the verifier's cursor |
| `RotationLag` | `RotationInv` | every request on disk is for a rotation no later than the prover's next one |
| `Lag` | `LagInv` (with `FilesInv`) | proofs on disk, the seed and the job under way are within one step of the prover's cursor |

`RotationsAcknowledged`, `RotationLag` and `Lag` are the protocol's core: with no
locking, no deletion and a timeout that ignores the other side, neither
daemon can get further than one unit of work from the other in the direction
that matters.

**Mirrors** (`MirrorProofs`). One invariant, `MirrorInv`, on top of those above. Its parts:

| Part | What it says | Why it is needed |
|---|---|---|
| `ContentInv` | every request that can be read carries the sets of its own block | a late request is applied with what it carries, not with what holds then |
| `SeedInv` | before the prover is seeded nobody has handed anything over; a verifier that still has the seed to come does nothing else | otherwise the seed could rewind a mirror |
| `SeenInv` | a request in hand is past the record; between two requests the cursors are not behind it | the guard is on cursors that a restart resets, the theorem on the record |
| `OrderInv` | every window is ordered and behind the record's last block | pushing needs a bound on what is there |
| `BackedInv` | a bundle about to be appended has its verdict on disk | `append_bundle` follows the report; neither side overwrites a file up to its record |

From it follow `MirrorsStayInOrder`, `CommitmentIsFromHistory`, `MirrorsAreBacked` and
`LostAckStays`; the last needs `RotationInv` too, since only the one lost rotation could be
acknowledged in its place.

**Events** (`EventProofs`). `EventsKeepBridge`: the composition of the bridge with the
event pipeline implements the bridge. Every step of the driver, of its binaries and
of the event branch maps to a stutter, except the verifier's death while it writes
an event result, which maps to its crash. `EventsKeepSafety` carries the safety theorems
over. `WitnessesProve` and `SuccessNeedsAcceptance` rest on `AnchorsBacked`: the window of
layer 1 holds for each height that block's own root, and only of blocks with a
positive verdict on disk, or of the seed. `BackedStays` says that this survives the window
moving on, so that it is still true when the answer comes.

**Keys and evidence** (`KeyBlockProvingProofs`). `ProvingTypeCorrect`, `ConfigCommits`,
`OnePkInMemory`, `VerifiedRequestsAreFinal`, `RequestsCharacterised` and `TornPkStays`, from
`ProvingInv`: which files are whole at each point of the key generation, which key is loaded at
each point of the loop, and that the rows in hand are the first one or two attestations of the
block, no more than the chain has shown by now (`EvidenceInv`). For `VerifiedRequestsAreFinal` the
request of a block only changes when it is sent (`SentOnlyBySend`) and what the chain shows only
grows (`ShownGrows`), so that what was final then still is. What remains of `RequestsCharacterised`
is linear arithmetic over offsets and signer counts.

**Rotations** (`RotationStreamProofs`). `StreamTypeCorrect`, `TableFollowsChain`,
`NoRotationSkipped`, `PagesMakeTheSet` and the refinement `RefinesRotationLog`. The invariant
says where the record and the table may differ, and by which rotation (`StreamInv`), that the
first page is a prefix of the log (`PageInv`), and that the sets are those that the rows lead to
(`ChainInv`). The last is what `PagesMakeTheSet` needs: the key of a signer in the current set is
that of the last row that changes it, and that row is in one of the two pages. The verifier's steps
touch verdicts only, and nothing that is proved depends on what a verdict is.

**Layers** (`LayerProofs`). `CompleteMirrorsChain` and `SkippedIsFatal`. Both depend on which blocks
have a root of which layer, that is on the powers of W; the provers have no theory of
powers, and nothing here is proved by induction on a formula. Three things stand in for it:

* `IntervalInduction`: a set that contains 0, and with every number below n its successor,
  contains 0..n. It takes a *set*, not a formula, and follows from the library's facts about
  finite cardinalities. The recursive function `spans` is unfolded with it once, in
  `SpanType` and `SpanDivides`.
* `Multiple(n, d)` instead of `n % d = 0`: an existential over a product that sums,
  differences and transitivity close under, so that no leaf has nonlinear arithmetic in it.
* `LayersAreLowest`: the layers of a block are the lowest ones, so that counting them, which is
  what the code does, names the highest.

The invariant is `KeyInv`: the prover's record ends at a thinned key block, the target is the
next one, and a window is in use only if its layer has a root by then. `CompleteMirrorsChain` then goes by the
number of layers of the target: one layer (`LowLinks`: P links, each over the one before), a
higher one that the mirror has (`OneLink`: the step divides the layer's distance, so its newest
root is the previous one), one that is new (`NewLayerLink`: the mirror's top layer is a data leaf,
and there is no previous root). It assumes `ThinningFits`, the two constraints that
lib.rs:25-28 states for the thinning factor. `SkippedIsFatal` is about the self-verify build: `ClosesNeedsLast` says that a
chain over layer 1 starts at the last seen key block, whose root a mirror that skipped it does not have.

**The healthy system** (`HealthyProofs`). `CommitmentMovesForward`, `MirrorsInLockstep` and
`LastSeenApplied`. What they assume about the constants is needed, as the violated
runs show:

| Assumption | Meaning | Without it |
|---|---|---|
| `Faultless` | paired daemons, `MaxFaults = 0`, no timeouts | `rollback`: the commitment goes back after a timeout |
| `NoReturn` (first theorem) | a replaced set does not come back | going back cannot be told from going forward |
| `OffKeyBlocks` (other two) | no rotation at a thinned key block | `rotation_block`: that block is skipped |
| `ThinningFits` (other two) | as above | no chain fits |
| `SeedFits` (other two) | the block that the prover is seeded from has a root of every layer that has one by then | `climb`: the next root of the missing layer cannot be proven |

The constants of the run `faultless` satisfy all of them, so that it is an instance of the three theorems.
`OffKeyBlocks` is *not* needed for the first: after a rotation at the key block itself the
prover holds the wrong set, skips the block, and so no bundle is behind the rotation. The
parts of the invariant:

| Part | What it says |
|---|---|
| `Points` | what there is at each point of the two loops; a record that is not seeded is new, so that no start-up refuses |
| `Answers` | only the request that the prover waits for is unanswered, and a verdict on its way is to that request: with no timeout nothing is ever late (`FoundIsAwaited`) |
| `CursorInv` | the two update cursors are equal, except between a rotation's acceptance and its acknowledgement |
| `RollInv` | no rotation past the current key block is requested, and a bundle in the verifier's hands is past the verifier's update cursor |
| `Drained` | at the key block the table holds the set that signs it (`DrainDone`: no rotation is left between the cursor and the target, by `IntervalInduction` along the blocks) |
| `Lock` | the verifier's record equals the prover's, or is ahead of it by exactly the request that the prover waits for |
| `EarlyInv` | after a seed from before the first rotation: `Drained`, `Lock`, and the prover's record is complete, so that `CompleteMirrorsChain`'s lemma excludes every skip and every negative verdict |

`AppendComplete` keeps the record complete: between two thinned key blocks no layer above the
first has a root, since the step divides the distance of its roots.

**What a rejected event means** (`EventProofs`). `RejectionIsFinal` assumes nothing. The verifier looks the
anchor up in the window of layer 1, and rejects when it is not there (or the proof does not
verify, which `WitnessesProve`'s lemmas exclude for a proof that was made). The window is spaced by at
least the step (`SpacedInv`), so W entries behind the anchor are W bundles (`RolledOut`); an anchor that
has once been in the window is there or rolled out ever after (`Kept`), through restarts that
repeat the check and through the driver's other steps (`RejectInv`).

**Only model-checked**: all liveness (`AllMirrored`, `AllRotationsApplied`, `ProverProgress`,
`EventDelivered`, `EventAnswered`, `AllProven`, `CatchesUp`): the fairness conditions are
ENABLED predicates, for which there is no backend here. Every invariant, action property and refinement
that a passing run checks is also a theorem.

## 7. What is not modelled

* The constraint systems and Poseidon: cryptography without state.
* GraphQL transport and JSON. That a query fails is a fault in the daemon that makes it.
* Malformed or unknown-version proof files: the prover is the only writer. Of the
  blob in a rotation row, which changes the client recognises; not how it searches the bytes.
* A proving key that does not load while a rotation is proven ends the drain and not the
  daemon; in `KeyBlockProving` it always ends the daemon.
* The keys of the event circuit: the same code in another process.
* Leaf 0 of the layer trees (real_chain_builder.rs:382), which only the node can settle;
  several threads (main.rs:429); a state save that fails while the daemon goes on (verifier
  main.rs:864). `PROJECT.json` lists them as hazards without a property.
* Of the live-event driver all that comes before the fire window (deploying the
  multisig, minting, key checks); the short stub, which stops before the verifier;
  the scripts, which start processes and synchronise directories.
* The witness exporter's decoding of the event and of its cells.

## 8. Plan

In order of importance:

1. *(done)* History record, contract, ring buffers; the two daemons over the file
   channel; typing and the four safety theorems.
2. *(done)* `LayerChain`: several layers, the jump to a new layer, `MAX_CHAIN_LEN`, and
   whether the chain ends in the published root, composed with the daemons.
3. *(done)* `EventPipeline`: a withdrawal's event, its block's path to a root of the
   verifier's window, the window moving on while the proof is made, the driver's
   verdict; the proof that the pipeline leaves the bridge alone.
4. *(done)* `KeyBlockProving` and `RotationStream`: the attestation classifier, the key
   files, the rotation stream with its pages and its lookback, and the refinement of
   `RotationLog`; their proofs.
5. *(done)* Proofs about the mirrors, the lost acknowledgement, the start of the chain, and
   the event's witness and success.
6. *(done)* Proofs about the layers, the healthy system and the rejected event.
7. Left: a chain with two threads, in which height and sequence number part; a composition of
   `RotationStream` with the verifier.
