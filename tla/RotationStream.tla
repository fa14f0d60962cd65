--------------------------- MODULE RotationStream ---------------------------
(***************************************************************************)
(* How the prover comes by its table of public keys and keeps it: the      *)
(* bkSetUpdates of the node, read in pages (bk_set_fetcher.rs), the config *)
(* file behind them, prover_bk_set.json, and the drain of the main loop    *)
(* that follows one rotation after the other.  Bridge models the same      *)
(* drain over commitments and heights, with the verifier; here are the     *)
(* keys, the rows of the update log and the pages they are read in.  Of    *)
(* the verifier, there is what becomes of a request for its verdict (not   *)
(* in the self-verify build, which makes up the verdict): the request and  *)
(* the verdict are files that nobody removes.                              *)
(*                                                                         *)
(* Rotations are numbered in the order of the chain, and the number stands *)
(* for the height.  A commitment is modelled by the table it commits to.   *)
(***************************************************************************)
EXTENDS Integers, Sequences

CONSTANTS
  Index,       \* signer indices
  Key,         \* public keys
  NoKey,       \* no signer under an index
  NoTable,     \* no file yet
  Page,        \* rows of the first and of the last page (500)
  Lookback,    \* NEXT_UPDATE_AFTER_LOOKBACK
  RowsMade,    \* the rows the chain may write
  FirstSets,   \* the sets it may start with
  Configs,     \* contents of the config file, NoTable for none
  MaxLog,      \* bound on the rotations
  MaxFaults    \* bound on crashes of either daemon, failed queries and failed proofs

Table == [Index -> Key \cup {NoKey}]

EmptyTable == [i \in Index |-> NoKey]

(* A row of bkSetUpdates: the changes of the rotation, the indices whose change
   the client recognises in the blob as an addition or removal, and whether
   the row has a height. *)
Row ==
  {r \in [changes : UNION {[S -> Key \cup {NoKey}] : S \in SUBSET Index},
          seen : SUBSET Index, dated : BOOLEAN] :
     r.seen \subseteq DOMAIN r.changes}

ASSUME StreamAssumption ==
  /\ NoTable \notin Table /\ NoKey \notin Key
  /\ Page \in Nat \ {0} /\ Lookback \in Nat \ {0}
  /\ RowsMade \subseteq Row
  /\ FirstSets \subseteq Table
  /\ Configs \subseteq Table \cup {NoTable}
  /\ MaxLog \in Nat /\ MaxFaults \in Nat

VARIABLES
  log,       \* the rows of bkSetUpdates, oldest first
  sets,      \* sets[n + 1]: the set of the chain after n rotations
  config,    \* bk_set.json
  target,    \* rotations up to the key block the prover is at
  pc,        \* where the prover is
  paged,     \* rows in the first page it has fetched
  table,     \* prover_bk_set.json, and the same in memory
  commit,    \* the set committed to in prover_state.json
  cursor,    \* stored_last_bk_set_update_seq_no
  update,    \* the rotation in hand
  verdict,   \* what has become of the request for each rotation
  faults

chainVars  == <<log, sets, config>>
stateVars  == <<commit, cursor>>
vars == <<chainVars, target, pc, paged, table, stateVars, update, verdict, faults>>

PC == {"down", "fetch", "seed", "idle", "prove", "wait", "rotate", "refused"}

Verdict ==
  {"none",      \* no request
   "asked",     \* a request that the verifier has yet to answer
   "accepted",  \* applied by the verifier, and reported
   "refused",   \* refused, which stands until the verifier looks again
   "lost"}      \* applied by the verifier, and never reported

TypeOK ==
  /\ log \in Seq(RowsMade) /\ sets \in Seq(Table) /\ Len(sets) = Len(log) + 1
  /\ config \in Configs
  /\ target \in 0 .. Len(log)
  /\ pc \in PC
  /\ paged \in 0 .. Page
  /\ table \in Table \cup {NoTable} /\ commit \in Table \cup {NoTable}
  /\ cursor \in 0 .. Len(log) /\ update \in 0 .. Len(log)
  /\ verdict \in [1 .. MaxLog -> Verdict]
  /\ faults \in 0 .. MaxFaults

Init ==
  /\ log = << >> /\ sets \in {<<t>> : t \in FirstSets} /\ config \in Configs
  /\ target = 0 /\ pc = "down" /\ paged = 0
  /\ table = NoTable /\ commit = NoTable /\ cursor = 0 /\ update = 0
  /\ verdict = [n \in 1 .. MaxLog |-> "none"]
  /\ faults = 0

-----------------------------------------------------------------------------
(* The chain. *)

(* The table t after the changes of row r under the indices S. *)
Changed(t, r, S) == [i \in Index |-> IF i \in S THEN r.changes[i] ELSE t[i]]

Rotate(r) ==
  /\ Len(log) < MaxLog
  /\ log' = Append(log, r)
  /\ sets' = Append(sets, Changed(sets[Len(sets)], r, DOMAIN r.changes))
  /\ UNCHANGED <<config, target, pc, paged, table, stateVars, update, verdict, faults>>

(* The prover turns to a key block past all rotations so far. *)
KeyBlock ==
  /\ pc = "idle" /\ target < Len(log)
  /\ target' = Len(log)
  /\ UNCHANGED <<chainVars, pc, paged, table, stateVars, update, verdict, faults>>

-----------------------------------------------------------------------------
(* Start-up: fetch_bk_set. *)

Smaller(a, b) == IF a < b THEN a ELSE b

(* Slip: the first query has no limit. *)
FetchAll ==
  /\ pc = "down"
  /\ paged' = Len(log)
  /\ pc' = "fetch"
  /\ UNCHANGED <<chainVars, target, table, stateVars, update, verdict, faults>>

FetchOldest ==
  /\ pc = "down"
  /\ paged' = Smaller(Page, Len(log))
  /\ pc' = "fetch"
  /\ UNCHANGED <<chainVars, target, table, stateVars, update, verdict, faults>>

(* The rows of the first page, and of the last one when it is fetched, by a query
   of its own. *)
FirstPage == 1 .. paged
LastPage  == Len(log) - Smaller(Page, Len(log)) + 1 .. Len(log)

(* Slip: the recent rows are applied before the oldest ones. *)
RecentFirst(m, n) ==
  IF m \in FirstPage <=> n \in FirstPage THEN m < n ELSE n \in FirstPage

(* The order in which the rows are applied: a row that is in both pages is left
   where the first one has it. *)
AppliedBefore(m, n) == m < n

LastChange(i, n) ==
  /\ i \in log[n].seen
  /\ \A m \in FirstPage \cup LastPage :
       i \in log[m].seen /\ m # n => AppliedBefore(m, n)

(* The recognised changes of these rows, from an empty table: the last change
   under an index wins. *)
FetchedTable ==
  [i \in Index |->
     IF \E n \in FirstPage \cup LastPage : LastChange(i, n)
     THEN log[CHOOSE n \in FirstPage \cup LastPage : LastChange(i, n)].changes[i]
     ELSE NoKey]

(* load_bk_set: no rows, or an empty table made from them, and the config file
   is taken.  Without one the daemon exits, and is started again. *)
LoadedTable == IF FetchedTable # EmptyTable THEN FetchedTable ELSE config

(* A pubkey file on disk is the authority, and what was loaded is dropped; it
   has to agree with an initialised state. *)
Load(loaded) ==
  /\ pc = "fetch"
  /\ table' = IF table # NoTable THEN table ELSE loaded
  /\ pc' = IF loaded = NoTable THEN "down"
           ELSE IF commit = NoTable THEN "seed"
           ELSE IF table' = commit THEN "idle" ELSE "refused"
  /\ paged' = 0
  /\ UNCHANGED <<chainVars, target, stateVars, update, verdict>>

FetchNewest == Load(LoadedTable) /\ UNCHANGED faults

(* A query failed: the config file is taken, as if there were no rows. *)
FetchFails == faults < MaxFaults /\ Load(config) /\ faults' = faults + 1

(* The seed: the state starts with the commitment of the table, and with no
   rotation applied. *)
ApplySeed ==
  /\ pc = "seed"
  /\ commit' = table
  /\ pc' = "idle"
  /\ UNCHANGED <<chainVars, target, paged, table, cursor, update, verdict, faults>>

-----------------------------------------------------------------------------
(* The drain. *)

(* Slip: one row less. *)
CandidatesShort ==
  {n \in 1 .. Len(log) : n > Len(log) - Lookback + 1 /\ n > cursor /\ log[n].dated}

(* The rows with a height past the cursor, among the newest Lookback ones. *)
Candidates == {n \in 1 .. Len(log) : n > Len(log) - Lookback /\ n > cursor /\ log[n].dated}

(* Slip: the newest of them. *)
NewestPast(n) == n \in Candidates /\ \A m \in Candidates : m <= n

(* next_update_after *)
NextUpdateAfter(n) == n \in Candidates /\ \A m \in Candidates : n <= m

NewTable(n) == Changed(table, log[n], log[n].seen)

(* Slip: the new table is not compared with leaf 3. *)
ConnectedOld(n) == log[n].seen # {} /\ sets[n] = table

(* Slip: the table held is not compared with leaf 2. *)
ConnectedNew(n) == log[n].seen # {} /\ NewTable(n) = sets[n + 1]

(* Leaf 2 of the rotation block is the set held, and the recognised changes, of
   which there is one, lead to its leaf 3. *)
Connected(n) == log[n].seen # {} /\ sets[n] = table /\ NewTable(n) = sets[n + 1]

(* A rotation past the target is deferred. *)
Pick(n) ==
  /\ pc = "idle" /\ NextUpdateAfter(n) /\ n <= target
  /\ Connected(n)
  /\ update' = n /\ pc' = "prove"
  /\ UNCHANGED <<chainVars, target, paged, table, stateVars, verdict, faults>>

(* No evidence or no proof: the drain is left, and tried again with the next key
   block. *)
UpdateFails ==
  /\ pc = "prove" /\ faults < MaxFaults
  /\ pc' = "idle" /\ update' = 0 /\ faults' = faults + 1
  /\ UNCHANGED <<chainVars, target, paged, table, stateVars, verdict>>

(* The request is written, over the one of an earlier attempt if there was one;
   what the verifier has made of that one stays. *)
Ask ==
  /\ pc = "prove"
  /\ verdict' = [verdict EXCEPT ![update] = IF @ = "none" THEN "asked" ELSE @]
  /\ pc' = "wait"
  /\ UNCHANGED <<chainVars, target, paged, table, stateVars, update, faults>>

(* No verdict in the time the prover waits, however often that is, half a verdict,
   or a refusal, which may be of an earlier attempt: the drain is left, and tried
   again with the next key block. *)
NotAccepted ==
  /\ pc = "wait" /\ verdict[update] # "accepted"
  /\ pc' = "idle" /\ update' = 0
  /\ UNCHANGED <<chainVars, target, paged, table, stateVars, verdict, faults>>

(* The verifier has accepted the update: the state is saved first, ... *)
ApplyUpdate ==
  /\ pc = "wait" /\ verdict[update] = "accepted"
  /\ commit' = sets[update + 1] /\ cursor' = update
  /\ pc' = "rotate"
  /\ UNCHANGED <<chainVars, target, paged, table, update, verdict, faults>>

(* ... then the table is rotated and saved. *)
RotateTable ==
  /\ pc = "rotate"
  /\ table' = NewTable(update)
  /\ pc' = "idle" /\ update' = 0
  /\ UNCHANGED <<chainVars, target, paged, stateVars, verdict, faults>>

Crash ==
  /\ pc \notin {"down", "refused"} /\ faults < MaxFaults
  /\ pc' = "down" /\ target' = 0 /\ paged' = 0 /\ update' = 0
  /\ faults' = faults + 1
  /\ UNCHANGED <<chainVars, table, stateVars, verdict>>

Prover ==
  \/ FetchOldest \/ FetchNewest \/ ApplySeed \/ KeyBlock
  \/ \E n \in 1 .. Len(log) : Pick(n)
  \/ Ask \/ NotAccepted \/ ApplyUpdate \/ RotateTable

-----------------------------------------------------------------------------
(* The verifier. *)

(* The lowest-numbered request that it has yet to answer. *)
NextAsked(n) ==
  verdict[n] = "asked" /\ \A m \in 1 .. n - 1 : verdict[m] # "asked"

ProverUnchanged == UNCHANGED <<chainVars, target, pc, paged, table, stateVars, update>>

(* process_bk_update_bundle.  What the answer depends on is Bridge's: here the
   verifier may accept or refuse. *)
Answer(n) ==
  /\ NextAsked(n)
  /\ \E v \in {"accepted", "refused"} : verdict' = [verdict EXCEPT ![n] = v]
  /\ ProverUnchanged /\ UNCHANGED faults

(* The verifier dies between saving the update and reporting it, or the verdict
   cannot be written: the cursor is past the request, which is not looked at
   again. *)
LoseVerdict(n) ==
  /\ NextAsked(n) /\ faults < MaxFaults
  /\ verdict' = [verdict EXCEPT ![n] = "lost"]
  /\ faults' = faults + 1
  /\ ProverUnchanged

(* Past the last rotation that the verifier has applied: its saved cursor. *)
PastSaved(n) == \A m \in n .. MaxLog : verdict[m] \notin {"accepted", "lost"}

(* Started again, the verifier looks at every request past its saved cursor, those
   that it has refused included. *)
VerifierRestart ==
  /\ faults < MaxFaults
  /\ verdict' = [n \in 1 .. MaxLog |->
                   IF verdict[n] = "refused" /\ PastSaved(n) THEN "asked" ELSE verdict[n]]
  /\ faults' = faults + 1
  /\ ProverUnchanged

Verifier == \E n \in 1 .. MaxLog : Answer(n)

Next ==
  \/ Prover \/ Verifier
  \/ FetchFails \/ UpdateFails \/ Crash \/ VerifierRestart
  \/ \E n \in 1 .. MaxLog : LoseVerdict(n)
  \/ \E r \in RowsMade : Rotate(r)

Spec == Init /\ [][Next]_vars

(* The prover runs whenever it can, is started again when it is down, and the
   chain goes on producing key blocks.  The verifier answers a request in the end,
   unless it dies over it. *)
FairSpec == Spec /\ WF_vars(Prover) /\ WF_vars(Verifier)

-----------------------------------------------------------------------------
(* The prover follows the chain's sets in order, from the one set that it has
   taken on trust. *)
Follower ==
  INSTANCE RotationLog WITH
    held <- IF commit # NoTable THEN commit ELSE table,
    applied <- cursor

FollowsTheLog == Follower!Spec

(* Once a rotation has been applied, the set the prover is committed to is the
   chain's set after that very rotation, and its keys are those keys, however
   far it lags and whatever rows it could not read; between the two files a
   crash can leave them apart, and the prover does not start. *)
TableIsChainSet ==
  /\ cursor > 0 => commit = sets[cursor + 1]
  /\ commit # NoTable /\ pc \notin {"down", "fetch", "rotate", "refused"} => table = commit

(* While the lag fits into one query, no rotation is passed over, even if the
   chain returns to a set it had before and a later rotation starts from the
   set held. *)
NoneSkipped ==
  [][(/\ cursor' # cursor
      /\ Len(log) - cursor <= Lookback
      /\ log[cursor + 1].dated) => cursor' = cursor + 1]_vars

(* The table made from the two pages is the current set, although the chain
   moves between the two queries, as long as both succeed, the pages meet, the
   first set is in the log, and every change is recognised. *)
BootstrapComplete ==
  [][(/\ pc = "fetch" /\ pc' = "seed" /\ table = NoTable /\ faults' = faults
      /\ Len(log) <= Page + paged
      /\ sets[1] = EmptyTable /\ sets[Len(sets)] # EmptyTable
      /\ \A n \in 1 .. Len(log) : log[n].seen = DOMAIN log[n].changes)
        => table' = sets[Len(sets)]]_vars

(* The prover is on the chain of sets and can read what it is behind, and the
   verifier has neither refused a rotation it is behind nor applied one without
   ever saying so. *)
Followable ==
  /\ pc # "refused"
  /\ commit = sets[cursor + 1]
  /\ Len(log) - cursor <= Lookback
  /\ \A n \in cursor + 1 .. Len(log) :
       /\ log[n].dated /\ log[n].seen = DOMAIN log[n].changes /\ log[n].seen # {}
       /\ verdict[n] \notin {"refused", "lost"}

(* A prover that stays on the chain of sets catches up with it, however often the
   verdict comes after it has stopped waiting, and over crashes on both sides.
   This assumes a verifier that accepts: a refusal stands in the way of every
   later attempt until the verifier is started again, and a lost report stands for
   good (the second is Bridge's LostAckIsFinal); and that evidence and proofs fail
   only finitely often. *)
CatchesUp == <>[]Followable => []<>(cursor = Len(log))
=============================================================================
