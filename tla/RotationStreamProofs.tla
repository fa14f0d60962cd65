------------------------ MODULE RotationStreamProofs ------------------------
(***************************************************************************)
(* Proofs about RotationStream, for every page size, lookback and number   *)
(* of rotations: its types, the agreement of the prover's table with the   *)
(* chain, that it follows RotationLog, that no rotation in reach is passed *)
(* over, and that two pages that meet make the current set.                *)
(***************************************************************************)
EXTENDS RotationStream, TLAPS

(* Which of the two files exist where. *)
FilesInv ==
  /\ commit # NoTable => table # NoTable
  /\ commit = NoTable => cursor = 0 /\ pc \in {"down", "fetch", "seed"}
  /\ pc = "seed" => table # NoTable /\ commit = NoTable
  /\ pc \in {"idle", "prove", "wait"} => table = commit

(* The update in hand. *)
UpdateInv ==
  /\ pc \in {"prove", "wait", "rotate"} => update \in 1 .. Len(log)
  /\ pc \in {"prove", "wait"} =>
       /\ cursor < update /\ Connected(update)
       /\ Len(log) - cursor <= Lookback /\ log[cursor + 1].dated => update = cursor + 1
  /\ pc = "rotate" => update = cursor /\ NewTable(update) = commit

OnChain == cursor > 0 => commit = sets[cursor + 1]

StreamInv == TypeOK /\ FilesInv /\ UpdateInv /\ OnChain

-----------------------------------------------------------------------------
(* Tables. *)

LEMMA RowParts ==
  ASSUME NEW r \in RowsMade
  PROVE  /\ r.seen \subseteq DOMAIN r.changes /\ DOMAIN r.changes \subseteq Index
         /\ \A i \in DOMAIN r.changes : r.changes[i] \in Key \cup {NoKey}
BY StreamAssumption DEF Row

LEMMA ChangedType ==
  ASSUME NEW t \in Table, NEW r \in RowsMade, NEW S \in SUBSET DOMAIN r.changes
  PROVE  Changed(t, r, S) \in Table
<1>1. \A i \in Index : (IF i \in S THEN r.changes[i] ELSE t[i]) \in Key \cup {NoKey}
  BY RowParts DEF Table
<1> QED BY <1>1 DEF Changed, Table

LEMMA PagesInLog ==
  ASSUME TypeOK
  PROVE  LastPage \subseteq 1 .. Len(log)
<1>1. Len(log) \in Nat /\ Page \in Nat \ {0}
  BY StreamAssumption DEF TypeOK
<1>2. Smaller(Page, Len(log)) \in 0 .. Len(log)
  BY <1>1 DEF Smaller
<1> QED BY <1>1, <1>2 DEF LastPage

(* The first page that was read is still there. *)
PageInv == paged <= Len(log)

LEMMA FetchedType ==
  ASSUME TypeOK, PageInv
  PROVE  FetchedTable \in Table /\ LoadedTable \in Table \cup {NoTable}
<1> DEFINE R == FirstPage \cup LastPage
<1>1. R \subseteq 1 .. Len(log)
  BY PagesInLog DEF TypeOK, PageInv, FirstPage
<1>2. ASSUME NEW i \in Index, NEW n \in R, LastChange(i, n)
      PROVE  log[n].changes[i] \in Key \cup {NoKey}
  <2>1. log[n] \in RowsMade
    BY <1>1 DEF TypeOK
  <2>2. i \in log[n].seen
    BY <1>2 DEF LastChange
  <2> QED BY <2>1, <2>2, RowParts
<1> HIDE DEF R
<1>3. \A i \in Index :
        (IF \E n \in R : LastChange(i, n)
         THEN log[CHOOSE n \in R : LastChange(i, n)].changes[i] ELSE NoKey) \in Key \cup {NoKey}
  BY <1>2
<1>4. FetchedTable \in Table
  BY <1>3 DEF FetchedTable, Table, R
<1>5. config \in Table \cup {NoTable}
  BY StreamAssumption DEF TypeOK
<1> QED BY <1>4, <1>5 DEF LoadedTable

-----------------------------------------------------------------------------
(* The chain grows; nothing before changes. *)

LEMMA RotateGrows ==
  ASSUME TypeOK, NEW r \in RowsMade, Rotate(r)
  PROVE  /\ log' \in Seq(RowsMade) /\ sets' \in Seq(Table)
         /\ Len(log') = Len(log) + 1 /\ Len(sets') = Len(sets) + 1
         /\ \A n \in 1 .. Len(log) : log'[n] = log[n]
         /\ \A n \in 1 .. Len(log) + 1 : sets'[n] = sets[n]
         /\ log'[Len(log) + 1] = r
         /\ sets'[Len(log) + 2] = Changed(sets[Len(log) + 1], r, DOMAIN r.changes)
<1>1. sets[Len(sets)] \in Table
  BY DEF TypeOK
<1>2. Changed(sets[Len(sets)], r, DOMAIN r.changes) \in Table
  BY <1>1, ChangedType
<1> QED BY <1>2 DEF TypeOK, Rotate

(* The verifier touches the verdicts only. *)
VerifierStep == Verifier \/ VerifierRestart \/ \E n \in 1 .. MaxLog : LoseVerdict(n)

LEMMA VerifierApart == VerifierStep => ProverUnchanged
BY DEF VerifierStep, Verifier, Answer, LoseVerdict, VerifierRestart

LEMMA TypeStep ==
  ASSUME StreamInv, PageInv, [Next]_vars
  PROVE  TypeOK' /\ PageInv'
<1> USE DEF TypeOK, StreamInv, chainVars, stateVars, PC, PageInv
<1>0. /\ Page \in Nat /\ MaxFaults \in Nat /\ Len(log) \in Nat
      /\ NoTable \notin Table
  BY StreamAssumption
<1>1. ASSUME NEW r \in RowsMade, Rotate(r)
      PROVE  TypeOK' /\ PageInv'
  <2>1. UNCHANGED <<config, target, pc, paged, table, stateVars, update, verdict, faults>>
    BY <1>1 DEF Rotate
  <2> QED BY <1>0, <1>1, <2>1, RotateGrows
<1>2. CASE FetchOldest
  BY <1>0, <1>2 DEF FetchOldest, Smaller
<1>3. ASSUME NEW t \in Table \cup {NoTable}, Load(t), faults' \in 0 .. MaxFaults
      PROVE  TypeOK' /\ PageInv'
  BY <1>0, <1>3 DEF Load
<1>4. CASE FetchNewest
  BY <1>3, <1>4, FetchedType DEF FetchNewest
<1>5. CASE FetchFails
  <2>1. config \in Table \cup {NoTable}
    BY StreamAssumption
  <2> QED BY <1>0, <1>3, <1>5, <2>1 DEF FetchFails
<1>6. CASE ApplySeed \/ KeyBlock
  BY <1>0, <1>6 DEF ApplySeed, KeyBlock
<1>7. ASSUME NEW n \in 1 .. Len(log), Pick(n)
      PROVE  TypeOK' /\ PageInv'
  BY <1>0, <1>7 DEF Pick
<1>8. CASE UpdateFails \/ NotAccepted
  BY <1>0, <1>8 DEF UpdateFails, NotAccepted
<1>9. CASE ApplyUpdate
  <2>1. update \in 1 .. Len(log)
    BY <1>9 DEF ApplyUpdate, UpdateInv
  <2>2. sets[update + 1] \in Table
    BY <1>0, <2>1
  <2> QED BY <1>0, <1>9, <2>1, <2>2 DEF ApplyUpdate
<1>10. CASE RotateTable
  <2>1. table' = commit
    BY <1>10 DEF RotateTable, UpdateInv
  <2> QED BY <1>0, <1>10, <2>1 DEF RotateTable
<1>11. CASE Crash
  BY <1>0, <1>11 DEF Crash
<1>12. CASE UNCHANGED vars
  BY <1>12 DEF vars
<1>13. CASE Ask
  <2>1. verdict' \in [1 .. MaxLog -> Verdict]
    BY <1>13 DEF Ask, Verdict
  <2> QED BY <1>0, <1>13, <2>1 DEF Ask
<1>14. CASE VerifierStep
  <2>1. verdict' \in [1 .. MaxLog -> Verdict] /\ faults' \in 0 .. MaxFaults
    BY <1>0, <1>14 DEF VerifierStep, Verifier, Answer, LoseVerdict, VerifierRestart, Verdict
  <2>2. ProverUnchanged
    BY <1>14, VerifierApart
  <2> QED BY <2>1, <2>2 DEF ProverUnchanged
<1> QED
  BY <1>1, <1>2, <1>4, <1>5, <1>6, <1>7, <1>8, <1>9, <1>10, <1>11, <1>12, <1>13, <1>14
     DEF Next, Prover, VerifierStep

-----------------------------------------------------------------------------
(* The files, the update and the chain. *)

LEMMA FilesStep ==
  ASSUME StreamInv, PageInv, [Next]_vars
  PROVE  FilesInv'
<1> USE DEF StreamInv, FilesInv, chainVars, stateVars
<1>0. NoTable \notin Table
  BY StreamAssumption
<1>1. ASSUME UNCHANGED <<pc, table, commit, cursor>>
      PROVE  FilesInv'
  BY <1>1
<1>2. ASSUME NEW t, Load(t)
      PROVE  FilesInv'
  BY <1>0, <1>2 DEF Load
<1>3. CASE FetchNewest \/ FetchFails
  BY <1>2, <1>3 DEF FetchNewest, FetchFails
<1>4. CASE FetchOldest
  BY <1>4 DEF FetchOldest
<1>5. CASE ApplySeed
  BY <1>5 DEF ApplySeed
<1>6. ASSUME NEW n \in 1 .. Len(log), Pick(n)
      PROVE  FilesInv'
  BY <1>6 DEF Pick
<1>7. CASE UpdateFails \/ Ask \/ NotAccepted
  BY <1>7 DEF UpdateFails, Ask, NotAccepted
<1>8. CASE ApplyUpdate
  <2>1. update \in 1 .. Len(log) /\ sets[update + 1] \in Table
    BY <1>8 DEF ApplyUpdate, UpdateInv, TypeOK
  <2> QED BY <1>0, <1>8, <2>1 DEF ApplyUpdate
<1>9. CASE RotateTable
  <2>1. table' = commit /\ commit # NoTable
    BY <1>9 DEF RotateTable, UpdateInv
  <2> QED BY <1>9, <2>1 DEF RotateTable
<1>10. CASE Crash
  BY <1>10 DEF Crash
<1>11. CASE KeyBlock \/ UNCHANGED vars \/ \E r \in RowsMade : Rotate(r)
  BY <1>1, <1>11 DEF KeyBlock, vars, Rotate
<1>12. CASE VerifierStep
  BY <1>1, <1>12, VerifierApart DEF ProverUnchanged
<1> QED
  BY <1>3, <1>4, <1>5, <1>6, <1>7, <1>8, <1>9, <1>10, <1>11, <1>12 DEF Next, Prover, VerifierStep

(* A rotation at the end of the chain does not touch the update in hand; that it
   is the next one is asked only while the lag fits into the lookback. *)
LEMMA UpdateKept ==
  ASSUME StreamInv, NEW r \in RowsMade, Rotate(r)
  PROVE  UpdateInv'
<1> USE DEF StreamInv
<1>1. UNCHANGED <<pc, update, table, commit, cursor>>
  BY DEF Rotate, stateVars
<1>2. Len(log) \in Nat /\ cursor \in 0 .. Len(log) /\ Lookback \in Nat
  BY StreamAssumption DEF TypeOK
<1>3. /\ Len(log') = Len(log) + 1
      /\ \A n \in 1 .. Len(log) : log'[n] = log[n] /\ sets'[n] = sets[n] /\ sets'[n + 1] = sets[n + 1]
  BY <1>2, RotateGrows
<1>4. ASSUME pc \in {"prove", "wait", "rotate"}
      PROVE  /\ update \in 1 .. Len(log') /\ log'[update] = log[update]
             /\ NewTable(update)' = NewTable(update) /\ Connected(update)' = Connected(update)
  <2>1. update \in 1 .. Len(log) /\ update \in 1 .. Len(log')
    BY <1>2, <1>3, <1>4 DEF UpdateInv
  <2>2. /\ log'[update] = log[update]
        /\ sets'[update] = sets[update] /\ sets'[update + 1] = sets[update + 1]
    BY <1>3, <2>1
  <2>3. NewTable(update)' = NewTable(update)
    BY <1>1, <2>2 DEF NewTable, Changed
  <2> QED BY <1>1, <2>1, <2>2, <2>3 DEF Connected
<1>5. ASSUME pc \in {"prove", "wait"}, Len(log') - cursor <= Lookback, log'[cursor + 1].dated
      PROVE  update = cursor + 1
  <2>1. cursor < update /\ update \in 1 .. Len(log)
    BY <1>5 DEF UpdateInv
  <2>2. cursor + 1 \in 1 .. Len(log)
    BY <1>2, <2>1
  <2>3. log'[cursor + 1] = log[cursor + 1]
    BY <1>3, <2>2
  <2> QED BY <1>2, <1>3, <1>5, <2>3 DEF UpdateInv
<1> QED BY <1>1, <1>4, <1>5 DEF UpdateInv

LEMMA UpdateStep ==
  ASSUME StreamInv, [Next]_vars
  PROVE  UpdateInv'
<1> USE DEF StreamInv, chainVars, stateVars
<1>1. ASSUME pc' \notin {"prove", "wait", "rotate"}
      PROVE  UpdateInv'
  BY <1>1 DEF UpdateInv
<1>2. ASSUME UNCHANGED <<log, sets, commit, cursor, table, update>>,
             pc' = pc \/ (pc = "prove" /\ pc' = "wait")
      PROVE  UpdateInv'
  BY <1>2 DEF UpdateInv, Connected, NewTable, Changed
<1>3. ASSUME NEW n \in 1 .. Len(log), Pick(n)
      PROVE  UpdateInv'
  <2>1. /\ update' = n /\ pc' = "prove" /\ UNCHANGED <<log, sets, table, cursor>>
        /\ Connected(n) /\ cursor < n /\ NextUpdateAfter(n)
    BY <1>3 DEF Pick, NextUpdateAfter, Candidates
  <2>2. Connected(n)'
    BY <2>1 DEF Connected, NewTable, Changed
  <2>3. ASSUME Len(log) - cursor <= Lookback, log[cursor + 1].dated
        PROVE  n = cursor + 1
    <3>1. Len(log) \in Nat /\ cursor \in Nat /\ Lookback \in Nat
      BY StreamAssumption DEF TypeOK
    <3>2. cursor + 1 \in Candidates
      BY <2>1, <2>3, <3>1 DEF Candidates
    <3> QED BY <2>1, <3>1, <3>2 DEF NextUpdateAfter
  <2> QED BY <2>1, <2>2, <2>3 DEF UpdateInv, Connected
<1>4. CASE ApplyUpdate
  <2>1. /\ update' = update /\ cursor' = update /\ pc' = "rotate" /\ commit' = sets[update + 1]
        /\ UNCHANGED <<log, table>> /\ Connected(update) /\ update \in 1 .. Len(log)
    BY <1>4 DEF ApplyUpdate, UpdateInv
  <2>2. NewTable(update)' = sets[update + 1]
    BY <2>1 DEF NewTable, Changed, Connected
  <2> QED BY <2>1, <2>2 DEF UpdateInv
<1>5. CASE KeyBlock \/ FetchOldest \/ ApplySeed \/ UpdateFails \/ NotAccepted \/ RotateTable \/ Crash
  BY <1>1, <1>5 DEF KeyBlock, FetchOldest, ApplySeed, UpdateFails, NotAccepted, RotateTable, Crash
<1>6. CASE FetchNewest \/ FetchFails
  BY <1>1, <1>6 DEF FetchNewest, FetchFails, Load
<1>7. CASE Ask \/ UNCHANGED vars
  <2>1. /\ UNCHANGED <<log, sets, commit, cursor, table, update>>
        /\ pc' = pc \/ (pc = "prove" /\ pc' = "wait")
    BY <1>7 DEF Ask, vars
  <2> QED BY <1>2, <2>1
<1>8. CASE VerifierStep
  <2>1. UNCHANGED <<log, sets, commit, cursor, table, update, pc>>
    BY <1>8, VerifierApart DEF ProverUnchanged
  <2> QED BY <1>2, <2>1
<1> QED
  BY <1>3, <1>4, <1>5, <1>6, <1>7, <1>8, UpdateKept DEF Next, Prover, VerifierStep

LEMMA OnChainStep ==
  ASSUME StreamInv, [Next]_vars
  PROVE  OnChain'
<1> USE DEF StreamInv, OnChain, chainVars, stateVars
<1>1. ASSUME UNCHANGED <<commit, cursor, sets>>
      PROVE  OnChain'
  BY <1>1
<1>2. ASSUME NEW r \in RowsMade, Rotate(r)
      PROVE  OnChain'
  <2>1. cursor \in 0 .. Len(log) /\ Len(log) \in Nat /\ UNCHANGED <<commit, cursor>>
    BY <1>2 DEF TypeOK, Rotate
  <2>2. sets'[cursor + 1] = sets[cursor + 1]
    BY <1>2, <2>1, RotateGrows
  <2> QED BY <2>1, <2>2
<1>3. CASE ApplySeed
  BY <1>3 DEF ApplySeed, FilesInv
<1>4. CASE ApplyUpdate
  BY <1>4 DEF ApplyUpdate
<1>5. CASE FetchOldest \/ FetchNewest \/ FetchFails \/ KeyBlock \/ UpdateFails \/ Ask \/ NotAccepted
           \/ RotateTable \/ Crash \/ UNCHANGED vars
  BY <1>1, <1>5 DEF FetchOldest, FetchNewest, FetchFails, Load, KeyBlock, UpdateFails, Ask,
                    NotAccepted, RotateTable, Crash, vars
<1>6. CASE \E n \in 1 .. Len(log) : Pick(n)
  BY <1>1, <1>6 DEF Pick
<1>7. CASE VerifierStep
  BY <1>1, <1>7, VerifierApart DEF ProverUnchanged
<1> QED BY <1>2, <1>3, <1>4, <1>5, <1>6, <1>7 DEF Next, Prover, VerifierStep

LEMMA StreamInit == Init => StreamInv /\ PageInv
<1> SUFFICES ASSUME Init PROVE StreamInv /\ PageInv
  OBVIOUS
<1>0. log = << >> /\ Len(log) = 0 /\ log \in Seq(RowsMade)
  BY DEF Init
<1> PICK t \in FirstSets : sets = <<t>>
  BY DEF Init
<1>1. t \in Table /\ sets \in Seq(Table) /\ Len(sets) = 1
  BY StreamAssumption
<1>2. TypeOK /\ PageInv
  BY <1>0, <1>1, StreamAssumption DEF Init, TypeOK, PC, Verdict, PageInv
<1>3. FilesInv /\ UpdateInv /\ OnChain
  BY StreamAssumption DEF Init, FilesInv, UpdateInv, OnChain
<1> QED BY <1>2, <1>3 DEF StreamInv

LEMMA StreamInvariant == Spec => [](StreamInv /\ PageInv)
<1>1. StreamInv /\ PageInv /\ [Next]_vars => StreamInv' /\ PageInv'
  BY TypeStep, FilesStep, UpdateStep, OnChainStep DEF StreamInv
<1> QED BY <1>1, StreamInit, PTL DEF Spec

-----------------------------------------------------------------------------
(* The theorems. *)

(* The state keeps its types. *)
THEOREM StreamTypeCorrect == Spec => []TypeOK
<1>1. StreamInv => TypeOK
  BY DEF StreamInv
<1> QED BY <1>1, StreamInvariant, PTL

(* A prover that has applied a rotation holds the chain's set after it. *)
THEOREM TableFollowsChain == Spec => []TableIsChainSet
<1>1. StreamInv => TableIsChainSet
  <2> SUFFICES ASSUME StreamInv PROVE TableIsChainSet
    OBVIOUS
  <2>1. cursor > 0 => commit = sets[cursor + 1]
    BY DEF StreamInv, OnChain
  <2>2. commit # NoTable /\ pc \notin {"down", "fetch", "rotate", "refused"} => table = commit
    BY DEF StreamInv, FilesInv, TypeOK, PC
  <2> QED BY <2>1, <2>2 DEF TableIsChainSet
<1> QED BY <1>1, StreamInvariant, PTL

(* No rotation in reach is passed over. *)
THEOREM NoRotationSkipped == Spec => NoneSkipped
<1>1. StreamInv /\ [Next]_vars
        => [(/\ cursor' # cursor
             /\ Len(log) - cursor <= Lookback
             /\ log[cursor + 1].dated) => cursor' = cursor + 1]_vars
  <2> SUFFICES ASSUME StreamInv, [Next]_vars, cursor' # cursor,
                      Len(log) - cursor <= Lookback, log[cursor + 1].dated
               PROVE  cursor' = cursor + 1
    OBVIOUS
  <2>1. ApplyUpdate
    BY VerifierApart DEF Next, Prover, VerifierStep, ProverUnchanged, FetchOldest, FetchNewest,
       FetchFails, Load, ApplySeed, KeyBlock, Pick, UpdateFails, Ask, NotAccepted, RotateTable, Crash,
       Rotate, vars, stateVars
  <2> QED BY <2>1 DEF ApplyUpdate, StreamInv, UpdateInv
<1> QED BY <1>1, StreamInvariant, PTL DEF Spec, NoneSkipped

(* The set the prover is committed to moves along the rotations of the chain. *)
THEOREM RefinesRotationLog == Spec => FollowsTheLog
<1> DEFINE held == IF commit # NoTable THEN commit ELSE table
<1>0. NoTable \notin Table
  BY StreamAssumption
<1>1. Init => Follower!Init
  BY <1>0, StreamAssumption DEF Init, Follower!Init
<1>2. StreamInv /\ PageInv /\ [Next]_vars => [Follower!Next]_<<sets, held, cursor>>
  <2> SUFFICES ASSUME StreamInv, PageInv, [Next]_vars
               PROVE  [Follower!Next]_<<sets, held, cursor>>
    OBVIOUS
  <2> USE DEF chainVars, stateVars
  <2>1. ASSUME UNCHANGED <<sets, commit, cursor, table>>
        PROVE  UNCHANGED <<sets, held, cursor>>
    BY <2>1
  <2>2. ASSUME NEW r \in RowsMade, Rotate(r)
        PROVE  Follower!Rotate
    <3>1. sets[Len(sets)] \in Table
      BY DEF StreamInv, TypeOK
    <3>2. Changed(sets[Len(sets)], r, DOMAIN r.changes) \in Table
      BY <3>1, ChangedType
    <3>3. UNCHANGED <<commit, table, cursor>>
      BY <2>2 DEF Rotate
    <3> QED BY <2>2, <3>2, <3>3 DEF Rotate, Follower!Rotate
  <2>3. ASSUME NEW t \in Table \cup {NoTable}, Load(t)
        PROVE  Follower!Trust \/ UNCHANGED <<sets, held, cursor>>
    <3>1. UNCHANGED <<sets, commit, cursor>> /\ table' = IF table # NoTable THEN table ELSE t
      BY <2>3 DEF Load
    <3>2. CASE held # NoTable \/ t = NoTable
      BY <3>1, <3>2 DEF StreamInv, FilesInv
    <3>3. CASE held = NoTable /\ t # NoTable
      <4>1. held' = t
        BY <3>1, <3>3
      <4> QED BY <3>1, <3>3, <4>1 DEF Follower!Trust
    <3> QED BY <3>2, <3>3
  <2>4. CASE FetchNewest \/ FetchFails
    <3>1. LoadedTable \in Table \cup {NoTable} /\ config \in Table \cup {NoTable}
      BY FetchedType, StreamAssumption DEF StreamInv, TypeOK
    <3>2. Follower!Trust \/ UNCHANGED <<sets, held, cursor>>
      BY <2>3, <2>4, <3>1 DEF FetchNewest, FetchFails
    <3> QED BY <3>2 DEF Follower!Next
  <2>5. CASE ApplySeed
    <3>1. held = table /\ held' = table
      BY <2>5 DEF ApplySeed, StreamInv, FilesInv
    <3> QED BY <2>5, <3>1 DEF ApplySeed
  <2>6. CASE ApplyUpdate
    <3>1. /\ update \in 1 .. Len(log) /\ cursor < update /\ table = sets[update] /\ table = commit
          /\ table # NoTable /\ Len(sets) = Len(log) + 1 /\ sets[update + 1] \in Table
      BY <2>6 DEF ApplyUpdate, StreamInv, UpdateInv, FilesInv, Connected, TypeOK
    <3>2. commit' = sets[update + 1] /\ cursor' = update /\ sets' = sets
      BY <2>6 DEF ApplyUpdate
    <3>3. held = sets[update] /\ held' = sets[update + 1]
      BY <1>0, <3>1, <3>2
    <3>4. Follower!Apply(update)
      BY <3>1, <3>2, <3>3 DEF Follower!Apply
    <3>5. update \in 1 .. Len(sets) - 1
      BY <3>1 DEF StreamInv, TypeOK
    <3> QED BY <3>4, <3>5 DEF Follower!Next
  <2>7. CASE RotateTable
    BY <2>7 DEF RotateTable, StreamInv, FilesInv
  <2>8. CASE FetchOldest \/ KeyBlock \/ UpdateFails \/ Ask \/ NotAccepted \/ Crash \/ UNCHANGED vars
    BY <2>1, <2>8 DEF FetchOldest, KeyBlock, UpdateFails, Ask, NotAccepted, Crash, vars
  <2>9. CASE \E n \in 1 .. Len(log) : Pick(n)
    BY <2>1, <2>9 DEF Pick
  <2>10. CASE VerifierStep
    BY <2>1, <2>10, VerifierApart DEF ProverUnchanged
  <2> QED
    BY <2>2, <2>4, <2>5, <2>6, <2>7, <2>8, <2>9, <2>10
       DEF Next, Prover, VerifierStep, Follower!Next
<1> QED BY <1>1, <1>2, StreamInvariant, PTL DEF Spec, FollowsTheLog, Follower!Spec

-----------------------------------------------------------------------------
(* The current set, read off the log. *)

Untouched(i, n) == \A m \in 1 .. n : i \notin DOMAIN log[m].changes

LastTouched(i, l) ==
  /\ i \in DOMAIN log[l].changes
  /\ \A m \in l + 1 .. Len(log) : i \notin DOMAIN log[m].changes

(* Under every index the current set has what the last change put there, or what
   the chain began with. *)
ChainInv ==
  \A i \in Index :
    \/ Untouched(i, Len(log)) /\ sets[Len(log) + 1][i] = sets[1][i]
    \/ \E l \in 1 .. Len(log) :
         LastTouched(i, l) /\ sets[Len(log) + 1][i] = log[l].changes[i]

LEMMA ChainStep ==
  ASSUME TypeOK, ChainInv, [Next]_vars
  PROVE  ChainInv'
<1>1. CASE UNCHANGED <<log, sets>>
  BY <1>1 DEF ChainInv, Untouched, LastTouched
<1>2. ASSUME NEW r \in RowsMade, Rotate(r)
      PROVE  ChainInv'
  <2>0. Len(log) \in Nat /\ sets[Len(log) + 1] \in Table
    BY DEF TypeOK
  <2>1. /\ Len(log') = Len(log) + 1
        /\ \A n \in 1 .. Len(log) : log'[n] = log[n]
        /\ \A n \in 1 .. Len(log) + 1 : sets'[n] = sets[n]
        /\ log'[Len(log) + 1] = r
        /\ sets'[Len(log) + 2] = Changed(sets[Len(log) + 1], r, DOMAIN r.changes)
    BY <1>2, RotateGrows
  <2> SUFFICES ASSUME NEW i \in Index
               PROVE  \/ Untouched(i, Len(log))' /\ sets'[Len(log') + 1][i] = sets'[1][i]
                      \/ \E l \in 1 .. Len(log') :
                           LastTouched(i, l)' /\ sets'[Len(log') + 1][i] = log'[l].changes[i]
    BY DEF ChainInv
  <2>2. sets'[Len(log') + 1][i] =
          IF i \in DOMAIN r.changes THEN r.changes[i] ELSE sets[Len(log) + 1][i]
    BY <2>0, <2>1 DEF Changed
  <2>3. CASE i \in DOMAIN r.changes
    <3> PICK l : l = Len(log) + 1
      OBVIOUS
    <3>1. l \in 1 .. Len(log') /\ l + 1 .. Len(log') = {}
      BY <2>0, <2>1
    <3>2. LastTouched(i, l)'
      BY <2>1, <2>3, <3>1 DEF LastTouched
    <3>3. sets'[Len(log') + 1][i] = log'[l].changes[i]
      BY <2>1, <2>2, <2>3
    <3> QED BY <3>1, <3>2, <3>3
  <2>4. CASE i \notin DOMAIN r.changes
    <3>1. CASE Untouched(i, Len(log)) /\ sets[Len(log) + 1][i] = sets[1][i]
      <4>1. Untouched(i, Len(log))'
        <5>1. ASSUME NEW m \in 1 .. Len(log')
              PROVE  i \notin DOMAIN log'[m].changes
          <6>1. m \in 1 .. Len(log) \/ m = Len(log) + 1
            BY <2>0, <2>1
          <6>2. CASE m \in 1 .. Len(log)
            <7>1. log'[m] = log[m]
              BY <2>1, <6>2
            <7> QED BY <6>2, <7>1, <3>1 DEF Untouched
          <6> QED BY <6>1, <6>2, <2>1, <2>4
        <5> QED BY <5>1 DEF Untouched
      <4>2. sets'[1] = sets[1]
        BY <2>0, <2>1
      <4> QED BY <2>2, <2>4, <3>1, <4>1, <4>2
    <3>2. ASSUME NEW l \in 1 .. Len(log), LastTouched(i, l),
                 sets[Len(log) + 1][i] = log[l].changes[i]
          PROVE  \E k \in 1 .. Len(log') :
                   LastTouched(i, k)' /\ sets'[Len(log') + 1][i] = log'[k].changes[i]
      <4>1. l \in 1 .. Len(log') /\ log'[l] = log[l]
        BY <2>0, <2>1
      <4>2. ASSUME NEW m \in l + 1 .. Len(log')
            PROVE  i \notin DOMAIN log'[m].changes
        <5>1. m \in l + 1 .. Len(log) \/ m = Len(log) + 1
          BY <2>0, <2>1
        <5>2. CASE m \in l + 1 .. Len(log)
          <6>1. log'[m] = log[m]
            BY <2>0, <2>1, <5>2
          <6> QED BY <5>2, <6>1, <3>2 DEF LastTouched
        <5> QED BY <5>1, <5>2, <2>1, <2>4
      <4>3. LastTouched(i, l)'
        BY <4>1, <4>2, <3>2 DEF LastTouched
      <4> QED BY <2>2, <2>4, <3>2, <4>1, <4>3
    <3> QED BY <3>1, <3>2 DEF ChainInv
  <2> QED BY <2>3, <2>4
<1>3. CASE ~\E r \in RowsMade : Rotate(r)
  BY <1>1, <1>3, VerifierApart DEF Next, Prover, VerifierStep, ProverUnchanged, FetchOldest,
     FetchNewest, FetchFails, Load, ApplySeed, KeyBlock, Pick, UpdateFails, Ask, NotAccepted,
     ApplyUpdate, RotateTable, Crash, vars, chainVars
<1> QED BY <1>2, <1>3

LEMMA PagesMeet ==
  ASSUME TypeOK, PageInv, Len(log) <= Page + paged
  PROVE  FirstPage \cup LastPage = 1 .. Len(log)
<1>1. Len(log) \in Nat /\ paged \in 0 .. Len(log) /\ Page \in Nat
  BY StreamAssumption DEF TypeOK, PageInv
<1>2. Smaller(Page, Len(log)) = IF Page < Len(log) THEN Page ELSE Len(log)
  BY DEF Smaller
<1>3. CASE Page < Len(log)
  <2>1. LastPage = Len(log) - Page + 1 .. Len(log)
    BY <1>2, <1>3 DEF LastPage
  <2> QED BY <1>1, <1>3, <2>1 DEF FirstPage
<1>4. CASE ~(Page < Len(log))
  <2>1. LastPage = 1 .. Len(log)
    BY <1>1, <1>2, <1>4 DEF LastPage
  <2> QED BY <1>1, <2>1 DEF FirstPage
<1> QED BY <1>3, <1>4

LEMMA FetchedIsCurrent ==
  ASSUME TypeOK, PageInv, ChainInv, Len(log) <= Page + paged, sets[1] = EmptyTable,
         \A n \in 1 .. Len(log) : log[n].seen = DOMAIN log[n].changes
  PROVE  FetchedTable = sets[Len(log) + 1]
<1> DEFINE R == FirstPage \cup LastPage
<1>1. R = 1 .. Len(log) /\ Len(log) \in Nat
  BY PagesMeet DEF TypeOK
<1>2. sets[Len(log) + 1] \in Table
  BY <1>1 DEF TypeOK
<1>3. ASSUME NEW i \in Index
      PROVE  FetchedTable[i] = sets[Len(log) + 1][i]
  <2>1. \A n \in R : LastChange(i, n) <=>
          /\ i \in DOMAIN log[n].changes
          /\ \A m \in R : i \in DOMAIN log[m].changes /\ m # n => m < n
    BY <1>1 DEF LastChange, AppliedBefore
  <2>2. FetchedTable[i] = IF \E n \in R : LastChange(i, n)
                          THEN log[CHOOSE n \in R : LastChange(i, n)].changes[i] ELSE NoKey
    BY DEF FetchedTable
  <2> HIDE DEF R
  <2>3. CASE Untouched(i, Len(log)) /\ sets[Len(log) + 1][i] = sets[1][i]
    <3>1. ~\E n \in R : LastChange(i, n)
      BY <1>1, <2>1, <2>3 DEF Untouched
    <3> QED BY <2>2, <2>3, <3>1 DEF EmptyTable
  <2>4. ASSUME NEW l \in 1 .. Len(log), LastTouched(i, l),
               sets[Len(log) + 1][i] = log[l].changes[i]
        PROVE  FetchedTable[i] = sets[Len(log) + 1][i]
    <3>1. \A m \in R : i \in DOMAIN log[m].changes /\ m # l => m < l
      BY <1>1, <2>4 DEF LastTouched
    <3>2. LastChange(i, l)
      BY <1>1, <2>1, <2>4, <3>1 DEF LastTouched
    <3>3. \A n \in R : LastChange(i, n) => n = l
      <4> SUFFICES ASSUME NEW n \in R, LastChange(i, n), n # l
                   PROVE  FALSE
        OBVIOUS
      <4>1. n < l
        BY <2>1, <3>1
      <4>2. l < n
        BY <1>1, <2>1, <3>2
      <4> QED BY <1>1, <4>1, <4>2
    <3>4. (CHOOSE n \in R : LastChange(i, n)) = l
      BY <1>1, <3>2, <3>3
    <3> QED BY <1>1, <2>2, <2>4, <3>2, <3>4
  <2> QED BY <2>3, <2>4 DEF ChainInv
<1>4. FetchedTable = [i \in Index |-> FetchedTable[i]]
  BY DEF FetchedTable
<1>5. sets[Len(log) + 1] = [i \in Index |-> sets[Len(log) + 1][i]]
  BY <1>2 DEF Table
<1> QED BY <1>3, <1>4, <1>5

LEMMA ChainInvariant == Spec => []ChainInv
<1>1. Init => ChainInv
  <2> SUFFICES ASSUME Init PROVE ChainInv
    OBVIOUS
  <2>1. Len(log) = 0
    BY DEF Init
  <2> QED BY <2>1 DEF ChainInv, Untouched
<1>2. StreamInv /\ ChainInv /\ [Next]_vars => ChainInv'
  BY ChainStep DEF StreamInv
<1> QED BY <1>1, <1>2, StreamInvariant, PTL DEF Spec

(* Two pages that meet, and both queries successful, make the current set. *)
THEOREM PagesMakeTheSet == Spec => BootstrapComplete
<1>1. StreamInv /\ PageInv /\ ChainInv /\ [Next]_vars
        => [(/\ pc = "fetch" /\ pc' = "seed" /\ table = NoTable /\ faults' = faults
             /\ Len(log) <= Page + paged
             /\ sets[1] = EmptyTable /\ sets[Len(sets)] # EmptyTable
             /\ \A n \in 1 .. Len(log) : log[n].seen = DOMAIN log[n].changes)
              => table' = sets[Len(sets)]]_vars
  <2> SUFFICES ASSUME StreamInv, PageInv, ChainInv, [Next]_vars,
                      pc = "fetch", pc' = "seed", table = NoTable, faults' = faults,
                      Len(log) <= Page + paged,
                      sets[1] = EmptyTable, sets[Len(sets)] # EmptyTable,
                      \A n \in 1 .. Len(log) : log[n].seen = DOMAIN log[n].changes
               PROVE  table' = sets[Len(sets)]
    OBVIOUS
  <2>1. faults \in Nat /\ Len(sets) = Len(log) + 1
    BY DEF StreamInv, TypeOK
  <2>2. FetchNewest
    BY <2>1, VerifierApart DEF Next, Prover, VerifierStep, ProverUnchanged, FetchOldest, FetchFails,
       ApplySeed, KeyBlock, Pick, UpdateFails, Ask, NotAccepted, ApplyUpdate, RotateTable, Crash,
       Rotate, vars
  <2>3. FetchedTable = sets[Len(sets)]
    BY <2>1, FetchedIsCurrent DEF StreamInv
  <2>4. LoadedTable = sets[Len(sets)]
    BY <2>3 DEF LoadedTable
  <2> QED BY <2>2, <2>4 DEF FetchNewest, Load
<1> QED BY <1>1, StreamInvariant, ChainInvariant, PTL DEF Spec, BootstrapComplete
=============================================================================
