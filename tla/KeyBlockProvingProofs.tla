------------------------ MODULE KeyBlockProvingProofs ------------------------
(***************************************************************************)
(* Proofs about KeyBlockProving, for every set size, chain and behaviour   *)
(* of the server: its types, the order in which keys are cached, the       *)
(* number of proving keys in memory, and which requests verify.            *)
(***************************************************************************)
EXTENDS KeyBlockProving, FiniteSetTheorems, TLAPS

Proving == {"evidence", "attest", "bundle", "layer", "request", "wait"}
Starting == {"ensure", "savePk", "saveConfig"}

Current == Ensured[ensuring]

(* At most the chain's attestations of a block are shown, and while a key block
   is being proven the evidence is some of those shown, from the first on. *)
EvidenceInv ==
  /\ \A b \in Blocks : shown[b] <= FinalAt(b)
  /\ pc \in Proving =>
       /\ Target \in Blocks
       /\ \E n \in 1 .. shown[Target] : evidence = FirstRows(Target, n)

(* The proving key in memory is the one of the proof being made. *)
LoadedInv ==
  loaded = IF pc = "attest" THEN {Attesting} ELSE IF pc = "layer" THEN {"layer"} ELSE {}

(* While the keys are ensured, memory knows every circuit whose configuration
   and verifying key are good, the one being generated apart. *)
MemoryInv ==
  pc \in Starting =>
    \A c \in Circuit : /\ cfgFile[c] = "whole" /\ vkFile[c] = "whole"
                       /\ pc = "ensure" \/ c # Current
                       => c \in vkMem

(* The files of the circuit whose keys are being generated. *)
OrderInv ==
  lostWrites = 0 /\ pc \in {"savePk", "saveConfig"} =>
    /\ cfgFile[Current] # "whole" /\ vkFile[Current] = "whole"
    /\ pc = "saveConfig" => pkFile[Current] = "whole"

-----------------------------------------------------------------------------
(* Types. *)

LEMMA CurrentInCircuit ==
  ASSUME ensuring \in 1 .. 3
  PROVE  Current \in Circuit
BY ProvingAssumption DEF Current, Ensured

LEMMA FirstRowsType ==
  ASSUME TypeOK, NEW b \in Blocks, NEW n \in 0 .. 2
  PROVE  /\ FirstRows(b, n) \in Seq(Row)
         /\ Len(FirstRows(b, n)) = n
         /\ \A i \in 1 .. n : FirstRows(b, n)[i] =
              Attestation(IF i = 1 THEN "PRIMARY" ELSE "FALLBACK", b,
                          finality[b].signers, finality[b].occurrences)
<1> DEFINE r == FirstRows(b, n)
<1>1. finality[b] \in FinalityRecord
  BY ProvingAssumption DEF TypeOK
<1>2. finality[b].signers \in 1 .. SetSize /\ finality[b].occurrences \in Nat
  BY <1>1 DEF FinalityRecord
<1>3. \A i \in 1 .. n : r[i] =
         Attestation(IF i = 1 THEN "PRIMARY" ELSE "FALLBACK", b,
                     finality[b].signers, finality[b].occurrences)
  BY DEF FirstRows
<1>4. b \in Nat
  BY ProvingAssumption DEF Blocks
<1>5. \A i \in 1 .. n : r[i] \in Row
  <2> TAKE i \in 1 .. n
  <2> DEFINE t == IF i = 1 THEN "PRIMARY" ELSE "FALLBACK"
  <2>1. t \in TargetTypes
    BY DEF TargetTypes
  <2> HIDE DEF t
  <2>2. Attestation(t, b, finality[b].signers, finality[b].occurrences) \in Row
    BY <1>2, <1>4, <2>1 DEF Attestation, Row
  <2> QED BY <1>3, <2>2 DEF t
<1>6. DOMAIN r = 1 .. n /\ r = [i \in 1 .. n |-> r[i]]
  BY DEF FirstRows
<1>7. r \in [1 .. n -> Row]
  BY <1>5, <1>6
<1>8. r \in Seq(Row)
  BY <1>7
<1>9. Len(r) = n
  BY <1>6, <1>8
<1> QED BY <1>3, <1>8, <1>9

LEMMA ShownBound ==
  ASSUME TypeOK, NEW b \in Blocks
  PROVE  shown[b] \in 0 .. 2 /\ FinalAt(b) \in 1 .. 2
BY DEF TypeOK, FinalAt

LEMMA RequestType ==
  \A rows, seq : [circuit |-> CircuitOf(rows), verifies |-> EvidenceProves(rows, seq)] \in Request
<1> TAKE rows, seq
<1>1. CircuitOf(rows) \in {"none", "primary", "fallback"}
  BY DEF CircuitOf
<1>2. EvidenceProves(rows, seq) \in BOOLEAN
  BY DEF EvidenceProves
<1> QED BY <1>1, <1>2 DEF Request

LEMMA TypeStep ==
  ASSUME TypeOK, EvidenceInv, [Next]_vars
  PROVE  TypeOK'
<1> USE DEF TypeOK, KeyCacheTypeOK
<1>0. Current \in Circuit
  BY CurrentInCircuit
<1>d. pc \in Proving => Target \in 0 .. MaxBlock
  BY ProvingAssumption DEF EvidenceInv, Blocks
<1>b. (Fault \/ NoFault) => faults' \in 0 .. MaxFaults /\ lostWrites' \in 0 .. MaxLostWrites
  BY ProvingAssumption DEF Fault, NoFault
<1>c. Exit => /\ vkMem' \subseteq Circuit /\ cfgMem' \subseteq Circuit /\ loaded' \subseteq Circuit
              /\ finality' \in [Blocks -> Finality] /\ shown' \in [Blocks -> 0 .. 2]
              /\ pc' \in PC /\ ensuring' \in 1 .. 3 /\ last' \in 0 .. MaxBlock
              /\ evidence' \in Seq(Row) /\ sent' \in [Blocks -> Request]
  BY DEF Exit, ForgetKeys, chainVars, PC
<1>1. ASSUME NEW b \in Blocks, Attest(b)
      PROVE  TypeOK'
  <2>1. shown' \in [Blocks -> 0 .. 2]
    BY <1>1 DEF Attest, FinalAt
  <2> QED BY <1>1, <1>b, <2>1 DEF Attest, keyFiles, keyMemory, sessionVars
<1>2. CASE Start
  BY <1>2, <1>b DEF Start, NewKeyManager, keyFiles, chainVars, PC
<1>3. CASE KeysReady
  BY <1>3, <1>b DEF KeysReady, EnsureNext, keyFiles, keyMemory, chainVars, PC
<1>4. CASE Generate
  <2>1. CASE GenerateVk("whole") /\ NoFault
    BY <2>1, <1>b, <1>0 DEF GenerateVk, SaveVk, Current, FileStatus, keyMemory, chainVars, PC
  <2>2. CASE GeneratePk("whole") /\ NoFault
    BY <2>2, <1>b, <1>0 DEF GeneratePk, SavePk, Current, FileStatus, keyMemory, chainVars, PC
  <2>3. CASE GenerateConfig
    <3>1. cfgFile' \in [Circuit -> FileStatus]
      BY <2>3 DEF GenerateConfig, SaveConfig, FileStatus
    <3>2. vkMem' \subseteq Circuit /\ cfgMem' \subseteq Circuit /\ loaded' \subseteq Circuit
      BY <2>3, <1>0 DEF GenerateConfig, Keep, Current
    <3> QED BY <2>3, <1>b, <3>1, <3>2 DEF GenerateConfig, EnsureNext, chainVars, PC
  <2> QED BY <1>4, <2>1, <2>2, <2>3 DEF Generate
<1>5. CASE FetchEvidence
  <2>1. Rows(Target) \in Seq(Row)
    BY <1>5, FirstRowsType DEF FetchEvidence, Rows
  <2> QED BY <1>5, <1>b, <2>1 DEF FetchEvidence, keyFiles, keyMemory, chainVars, PC
<1>6. CASE LoadAttestationPk
  <2>1. loaded' \subseteq Circuit
    BY <1>6, ProvingAssumption DEF LoadAttestationPk, LoadPk, Attesting, CircuitOf
  <2> QED BY <1>6, <1>b, <2>1 DEF LoadAttestationPk, keyFiles, chainVars, PC
<1>7. CASE ProveAttestation
  BY <1>7, <1>b DEF ProveAttestation, UnloadPk, keyFiles, chainVars, PC
<1>8. CASE LoadLayerPk
  <2>1. loaded' \subseteq Circuit
    BY <1>8, ProvingAssumption DEF LoadLayerPk, LoadPk
  <2> QED BY <1>8, <1>b, <2>1 DEF LoadLayerPk, keyFiles, chainVars, PC
<1>9. CASE ProveLayer
  BY <1>9, <1>b DEF ProveLayer, UnloadPk, keyFiles, chainVars, PC
<1>10. CASE LoadFails
  BY <1>10, <1>b, <1>c DEF LoadFails, keyFiles
<1>11. CASE LoseWrite
  <2>1. lostWrites' \in 0 .. MaxLostWrites /\ faults' \in 0 .. MaxFaults
    BY <1>11, ProvingAssumption DEF LoseWrite
  <2>2. CASE GenerateVk("torn")
    BY <2>1, <2>2, <1>0 DEF GenerateVk, SaveVk, Current, FileStatus, keyMemory, chainVars, PC
  <2>3. CASE GeneratePk("torn")
    BY <2>1, <2>3, <1>0 DEF GeneratePk, SavePk, Current, FileStatus, keyMemory, chainVars, PC
  <2> QED BY <1>11, <2>2, <2>3 DEF LoseWrite
<1>12. CASE Crash
  <2>1. /\ vkFile' \in [Circuit -> FileStatus] /\ pkFile' \in [Circuit -> FileStatus]
        /\ cfgFile' \in [Circuit -> FileStatus]
    BY <1>12 DEF Crash, SaveVk, SavePk, SaveConfig, FileStatus, keyFiles
  <2>2. Fault /\ Exit
    BY <1>12 DEF Crash
  <2> QED BY <2>1, <2>2, <1>b, <1>c
<1>13. ASSUME NEW rows \in Malformed, FetchMalformed(rows)
       PROVE  TypeOK'
  <2>1. evidence' \in Seq(Row) /\ pc' \in PC
    BY <1>13, ProvingAssumption DEF FetchMalformed, PC
  <2> QED BY <1>13, <1>b, <2>1 DEF FetchMalformed, keyFiles, keyMemory, chainVars
<1>14. CASE ProofFails
  <2>1. Fault /\ loaded' \subseteq loaded /\ pc \in Proving
    BY <1>14 DEF ProofFails, UnloadPk, Proving
  <2> QED BY <1>14, <2>1, <1>b, <1>d DEF ProofFails, keyFiles, chainVars, PC
<1>15. CASE SendRequest
  <2>1. sent' \in [Blocks -> Request]
    BY <1>15, RequestType DEF SendRequest, Attesting
  <2> QED BY <1>15, <2>1, <1>b DEF SendRequest, keyFiles, keyMemory, chainVars, PC
<1>16. CASE Proceed
  <2>1. pc \in Proving
    BY <1>16 DEF Proceed, Proving
  <2> QED BY <1>16, <2>1, <1>b, <1>d DEF Proceed, keyFiles, keyMemory, chainVars, PC
<1>17. CASE UNCHANGED vars
  BY <1>17 DEF vars, keyFiles, keyMemory, chainVars, sessionVars
<1> QED
  BY <1>1, <1>2, <1>3, <1>4, <1>5, <1>6, <1>7, <1>8, <1>9, <1>10, <1>11, <1>12, <1>13, <1>14,
     <1>15, <1>16, <1>17 DEF Next, SessionStep

-----------------------------------------------------------------------------
(* What the evidence of a block proves. *)

(* One attestation is primary evidence, two are fallback evidence. *)
LEMMA RowsClassified ==
  ASSUME TypeOK, NEW b \in Blocks, NEW n \in 0 .. 2
  PROVE  /\ n = 0 => ~Usable(FirstRows(b, n))
         /\ CircuitOf(FirstRows(b, n)) = IF n = 2 THEN "fallback" ELSE "primary"
         /\ n > 0 => PrimaryEntry(FirstRows(b, n)) = FirstRows(b, n)[1]
<1> DEFINE r == FirstRows(b, n)
<1>0. r \in Seq(Row) /\ Len(r) = n /\ DOMAIN r = 1 .. n
  <2>1. r \in Seq(Row) /\ Len(r) = n
    BY FirstRowsType
  <2> QED BY <2>1
<1>1. \A i \in 1 .. n : /\ r[i].type = IF i = 1 THEN "PRIMARY" ELSE "FALLBACK"
                        /\ r[i].block_id = b
  BY DEF FirstRows, Attestation
<1> HIDE DEF r
<1>2. Entries(r, "PRIMARY") = IF n = 0 THEN {} ELSE {1}
  BY <1>0, <1>1 DEF Entries
<1>3. Entries(r, "FALLBACK") = IF n = 2 THEN {2} ELSE {}
  BY <1>0, <1>1 DEF Entries
<1>4. n = 0 => ~Usable(r)
  BY <1>0 DEF Usable, IsPrimaryEvidence, IsFallbackEvidence
<1>5. n = 2 => IsFallbackEvidence(r)
  BY <1>0, <1>1, <1>2, <1>3 DEF IsFallbackEvidence
<1>6. n # 2 => ~IsFallbackEvidence(r)
  BY <1>0 DEF IsFallbackEvidence
<1>7. n > 0 => PrimaryEntry(r) = r[1]
  BY <1>2 DEF PrimaryEntry
<1> QED BY <1>4, <1>5, <1>6, <1>7 DEF CircuitOf, r

(* The number patched in is the one read exactly when no signer is counted
   twice. *)
LEMMA PatchHits ==
  ASSUME NEW row, row.signers \in Nat, row.occurrences \in Nat, NEW seq \in Nat \ {0}
  PROVE  /\ SeqNoRead(row, seq) = seq <=> row.occurrences = row.signers
         /\ row.occurrences = row.signers => ~Overwritten(row)
<1>1. PatchOffset(row) = 288 + 4 * row.occurrences
  BY DEF PatchOffset, DataOffset, SeqNoOffset
<1>2. DataOffset(row.signers) + SeqNoOffset = 288 + 4 * row.signers
  BY DEF DataOffset, SeqNoOffset
<1>3. RawLength(row) = 328 + 4 * row.signers
  BY DEF RawLength, DataOffset, SeqNoOffset
<1>4. PatchOffset(row) = DataOffset(row.signers) + SeqNoOffset
        <=> row.occurrences = row.signers
  BY <1>1, <1>2
<1>5. row.occurrences = row.signers => Patched(row)
  BY <1>1, <1>3 DEF Patched
<1> QED BY <1>4, <1>5 DEF SeqNoRead, Overwritten

LEMMA RowsProve ==
  ASSUME TypeOK, NEW b \in Blocks, NEW n \in 1 .. FinalAt(b)
  PROVE  LET r == FirstRows(b, n)
             f == finality[b]
         IN  /\ CircuitOf(r) = "fallback" => f.path = "fallback"
             /\ CircuitOf(r) # "none"
             /\ EvidenceProves(r, b) <=>
                  /\ f.occurrences = f.signers
                  /\ CircuitOf(r) = "primary" => 3 * f.signers >= 2 * SetSize
<1> DEFINE r == FirstRows(b, n)
           f == finality[b]
<1>0. f.path \in {"primary", "fallback"}
  BY ProvingAssumption DEF TypeOK, FinalityRecord
<1>1. n \in 1 .. 2 /\ (n = 2 => f.path = "fallback")
  BY <1>0 DEF FinalAt
<1>2. CircuitOf(r) = (IF n = 2 THEN "fallback" ELSE "primary") /\ PrimaryEntry(r) = r[1]
  BY <1>1, RowsClassified
<1>a. r \in Seq(Row) /\ Len(r) = n /\ DOMAIN r = 1 .. n
  <2>1. n \in 0 .. 2
    BY <1>1
  <2>2. r \in Seq(Row) /\ Len(r) = n
    BY <2>1, FirstRowsType
  <2> QED BY <2>2
<1>b. \A i \in 1 .. n : r[i].signers = f.signers /\ r[i].occurrences = f.occurrences
  BY DEF FirstRows, Attestation
<1>3. /\ r \in Seq(Row) /\ Len(r) = n /\ DOMAIN r = 1 .. n
      /\ \A i \in 1 .. n : r[i].signers = f.signers /\ r[i].occurrences = f.occurrences
  BY <1>a, <1>b
<1>4. f \in Finality
  BY DEF TypeOK
<1>5. f.signers \in Nat /\ f.occurrences \in Nat
  BY <1>4, ProvingAssumption, SetSizeAssumption DEF FinalityRecord
<1>6. f.path \in {"primary", "fallback"} /\ (f.path = "fallback" => 2 * f.signers > SetSize)
  BY <1>4, ProvingAssumption DEF FinalityRecord
<1>7. b \in Nat \ {0}
  BY ProvingAssumption DEF Blocks
<1>8. SeqNoRead(r[1], b) = b <=> f.occurrences = f.signers
  BY <1>1, <1>3, <1>5, <1>7, PatchHits
<1>9. f.occurrences = f.signers => \A i \in DOMAIN r : ~Overwritten(r[i])
  BY <1>3, <1>5, <1>7, PatchHits
<1> HIDE DEF r, f
<1>10. EnoughSigners(CircuitOf(r), r) <=>
         (CircuitOf(r) = "primary" => 3 * f.signers >= 2 * SetSize)
  <2>1. CASE n = 1
    BY <2>1, <1>2, <1>3 DEF EnoughSigners
  <2>2. CASE n = 2
    <3>1. \A i \in DOMAIN r : 2 * r[i].signers > SetSize
      BY <2>2, <1>1, <1>3, <1>6
    <3> QED BY <2>2, <3>1, <1>2 DEF EnoughSigners
  <2> QED BY <1>1, <2>1, <2>2
<1>11. EvidenceProves(r, b) <=>
         /\ f.occurrences = f.signers
         /\ CircuitOf(r) = "primary" => 3 * f.signers >= 2 * SetSize
  BY <1>2, <1>8, <1>9, <1>10 DEF EvidenceProves
<1> QED BY <1>1, <1>2, <1>11 DEF r, f

(* What is shown of a block is what the daemon may have classified. *)
LEMMA EvidenceStep ==
  ASSUME TypeOK, EvidenceInv, [Next]_vars
  PROVE  EvidenceInv'
<1>1. CASE UNCHANGED vars
  BY <1>1 DEF vars, EvidenceInv, chainVars, sessionVars, FinalAt, Target, FirstRows
<1>2. ASSUME NEW b \in Blocks, Attest(b)
      PROVE  EvidenceInv'
  <2>1. UNCHANGED <<finality, pc, last, evidence>>
    BY <1>2 DEF Attest, sessionVars
  <2>2. \A c \in Blocks : shown'[c] <= FinalAt(c)
    BY <1>2, ShownBound DEF Attest, EvidenceInv, TypeOK
  <2>3. ASSUME pc \in Proving
        PROVE  Target \in Blocks /\ \E n \in 1 .. shown'[Target] : evidence = FirstRows(Target, n)
    <3>1. PICK n \in 1 .. shown[Target] : Target \in Blocks /\ evidence = FirstRows(Target, n)
      BY <2>3 DEF EvidenceInv
    <3>2. shown[Target] \in Nat /\ shown'[Target] \in Nat /\ shown[Target] <= shown'[Target]
      BY <1>2, <3>1 DEF Attest, TypeOK
    <3> QED BY <3>1, <3>2
  <2> QED BY <2>1, <2>2, <2>3 DEF EvidenceInv, FinalAt, Target, FirstRows
<1>3. ASSUME UNCHANGED chainVars, pc' \notin Proving
      PROVE  EvidenceInv'
  BY <1>3 DEF EvidenceInv, chainVars, FinalAt
<1>4. ASSUME UNCHANGED <<chainVars, last, evidence>>, pc \in Proving
      PROVE  EvidenceInv'
  BY <1>4 DEF EvidenceInv, chainVars, FinalAt, Target, FirstRows
<1>5. CASE FetchEvidence
  <2>1. Target \in Blocks /\ Usable(Rows(Target)) /\ evidence' = Rows(Target)
        /\ UNCHANGED <<chainVars, last>>
    BY <1>5 DEF FetchEvidence
  <2>2. shown[Target] \in 1 .. shown[Target]
    <3>1. shown[Target] \in 0 .. 2
      BY <2>1, ShownBound
    <3>2. shown[Target] # 0
      BY <2>1, <3>1, RowsClassified DEF Rows
    <3> QED BY <3>1, <3>2
  <2>3. evidence' = FirstRows(Target, shown[Target])
    BY <2>1 DEF Rows
  <2>4. Target' = Target /\ finality' = finality /\ shown' = shown
    BY <2>1 DEF Target, chainVars
  <2>5. \E n \in 1 .. shown[Target]' : evidence' = FirstRows(Target, n)'
    BY <2>2, <2>3, <2>4 DEF FirstRows
  <2> QED BY <2>1, <2>4, <2>5 DEF EvidenceInv, FinalAt
<1>6. ASSUME NEW rows \in Malformed, FetchMalformed(rows)
      PROVE  EvidenceInv'
  <2>1. UNCHANGED <<chainVars, last, evidence, pc>>
    BY <1>6, ProvingAssumption DEF FetchMalformed
  <2> QED BY <2>1 DEF EvidenceInv, chainVars, FinalAt, Target, FirstRows
<1>7. CASE Start \/ KeysReady \/ Generate \/ LoseWrite
  BY <1>7, <1>3 DEF Start, KeysReady, EnsureNext, Generate, LoseWrite, GenerateVk, GeneratePk,
                    GenerateConfig, Proving
<1>8. CASE LoadFails \/ Crash \/ ProofFails \/ Proceed
  BY <1>8, <1>3 DEF LoadFails, Crash, Exit, ProofFails, Proceed, Proving
<1>9. CASE LoadAttestationPk \/ ProveAttestation \/ LoadLayerPk \/ ProveLayer \/ SendRequest
  BY <1>9, <1>4 DEF LoadAttestationPk, ProveAttestation, LoadLayerPk, ProveLayer, SendRequest,
                    Proving
<1> QED
  BY <1>1, <1>2, <1>5, <1>6, <1>7, <1>8, <1>9 DEF Next, SessionStep

(* The request of the key block in hand is made from attestations of it that are
   on the chain. *)
LEMMA SentRows ==
  ASSUME TypeOK, EvidenceInv, SendRequest
  PROVE  \E n \in 1 .. FinalAt(Target) :
           /\ n <= shown[Target] /\ Target \in Blocks
           /\ sent'[Target].circuit = CircuitOf(FirstRows(Target, n))
           /\ sent'[Target].verifies = EvidenceProves(FirstRows(Target, n), Target)
           /\ \A b \in Blocks \ {Target} : sent'[b] = sent[b]
<1>1. PICK n \in 1 .. shown[Target] : Target \in Blocks /\ evidence = FirstRows(Target, n)
  BY DEF SendRequest, EvidenceInv, Proving
<1>2. n \in 1 .. FinalAt(Target) /\ n <= shown[Target]
  BY <1>1, ShownBound DEF EvidenceInv
<1>3. /\ sent'[Target].circuit = CircuitOf(evidence)
      /\ sent'[Target].verifies = EvidenceProves(evidence, Target)
      /\ \A b \in Blocks \ {Target} : sent'[b] = sent[b]
  BY <1>1 DEF SendRequest, TypeOK, Attesting
<1> QED BY <1>1, <1>2, <1>3

LEMMA SentOnlyBySend ==
  ASSUME [Next]_vars, ~SendRequest
  PROVE  UNCHANGED <<finality, sent>>
BY DEF Next, vars, SessionStep, Attest, Start, KeysReady, Generate, GenerateVk, GeneratePk,
   GenerateConfig, FetchEvidence, LoadAttestationPk, ProveAttestation, LoadLayerPk, ProveLayer,
   Proceed, LoadFails, LoseWrite, ProofFails, Crash, FetchMalformed, Exit, chainVars, sessionVars

LEMMA RequestsStep ==
  ASSUME TypeOK, EvidenceInv, RequestsVerify, [Next]_vars
  PROVE  RequestsVerify'
<1>1. CASE SendRequest
  <2>1. PICK n \in 1 .. FinalAt(Target) :
          /\ n <= shown[Target] /\ Target \in Blocks
          /\ sent'[Target].circuit = CircuitOf(FirstRows(Target, n))
          /\ sent'[Target].verifies = EvidenceProves(FirstRows(Target, n), Target)
          /\ \A b \in Blocks \ {Target} : sent'[b] = sent[b]
    BY <1>1, SentRows
  <2>2. finality' = finality
    BY <1>1 DEF SendRequest, chainVars
  <2>3. sent'[Target].verifies <=>
          /\ finality[Target].occurrences = finality[Target].signers
          /\ sent'[Target].circuit = "primary" => 3 * finality[Target].signers >= 2 * SetSize
    BY <2>1, RowsProve
  <2>4. sent'[Target].circuit = "fallback" => finality[Target].path = "fallback"
    BY <2>1, RowsProve
  <2> QED BY <2>1, <2>2, <2>3, <2>4 DEF RequestsVerify
<1>2. CASE ~SendRequest
  BY <1>2, SentOnlyBySend DEF RequestsVerify
<1> QED BY <1>1, <1>2

(* Attestations stay on the chain. *)
LEMMA ShownGrows ==
  ASSUME TypeOK, [Next]_vars
  PROVE  \A b \in Blocks : shown[b] <= shown'[b]
<1>0. \A b \in Blocks : shown[b] \in 0 .. 2
  BY DEF TypeOK
<1>1. ASSUME NEW b \in Blocks, Attest(b)
      PROVE  \A c \in Blocks : shown[c] <= shown'[c]
  BY <1>0, <1>1 DEF Attest, TypeOK
<1>2. CASE ~\E b \in Blocks : Attest(b)
  <2>1. UNCHANGED shown
    BY <1>2 DEF Next, vars, SessionStep, Start, KeysReady, Generate, GenerateVk, GeneratePk,
       GenerateConfig, FetchEvidence, LoadAttestationPk, ProveAttestation, LoadLayerPk, ProveLayer,
       SendRequest, Proceed, LoadFails, LoseWrite, ProofFails, Crash, FetchMalformed, Exit, chainVars
  <2> QED BY <1>0, <2>1
<1> QED BY <1>1, <1>2

LEMMA FinalStep ==
  ASSUME TypeOK, EvidenceInv, VerifiedIsFinal, [Next]_vars
  PROVE  VerifiedIsFinal'
<1>0. \A b \in Blocks : shown[b] \in 0 .. 2 /\ shown'[b] \in 0 .. 2 /\ shown[b] <= shown'[b]
  BY TypeStep, ShownGrows DEF TypeOK
<1>a. \A b \in Blocks : FinalAt(b) \in 1 .. 2 /\ shown'[b] <= FinalAt(b)'
  BY EvidenceStep, ShownBound DEF EvidenceInv
<1>1. finality' = finality /\ \A b \in Blocks : FinalAt(b)' = FinalAt(b)
  BY SentOnlyBySend DEF SendRequest, chainVars, FinalAt
<1>2. ASSUME NEW b \in Blocks, sent'[b] = sent[b]
      PROVE  /\ sent'[b].circuit = "fallback" => finality'[b].path = "fallback" /\ shown'[b] = 2
             /\ sent'[b].verifies =>
                  shown'[b] = FinalAt(b)' \/ 3 * finality'[b].signers >= 2 * SetSize
  BY <1>0, <1>a, <1>1, <1>2 DEF VerifiedIsFinal
<1>3. CASE SendRequest
  <2>1. PICK n \in 1 .. FinalAt(Target) :
          /\ n <= shown[Target] /\ Target \in Blocks
          /\ sent'[Target].circuit = CircuitOf(FirstRows(Target, n))
          /\ sent'[Target].verifies = EvidenceProves(FirstRows(Target, n), Target)
          /\ \A b \in Blocks \ {Target} : sent'[b] = sent[b]
    BY <1>3, SentRows
  <2>2. n \in 0 .. 2
    BY <1>a, <2>1
  <2>3. sent'[Target].circuit = IF n = 2 THEN "fallback" ELSE "primary"
    BY <2>1, <2>2, RowsClassified
  <2>4. /\ sent'[Target].circuit = "fallback" => finality[Target].path = "fallback"
        /\ sent'[Target].verifies =>
             (sent'[Target].circuit = "primary" => 3 * finality[Target].signers >= 2 * SetSize)
    BY <2>1, RowsProve
  <2>5. n = 2 => shown'[Target] = 2 /\ FinalAt(Target) = 2
    BY <1>0, <1>a, <2>1
  <2> QED BY <1>1, <1>2, <2>1, <2>3, <2>4, <2>5 DEF VerifiedIsFinal
<1>4. CASE ~SendRequest
  BY <1>2, <1>4, SentOnlyBySend DEF VerifiedIsFinal
<1> QED BY <1>3, <1>4

-----------------------------------------------------------------------------
(* The proving keys in memory. *)

LEMMA LoadedStep ==
  ASSUME TypeOK, LoadedInv, [Next]_vars
  PROVE  LoadedInv'
<1>0. Attesting \in {"primary", "fallback"}
  BY DEF Attesting, CircuitOf
<1>1. ASSUME loaded' = {}, pc' \notin {"attest", "layer"}
      PROVE  LoadedInv'
  BY <1>1 DEF LoadedInv
<1>2. ASSUME UNCHANGED <<loaded, pc, evidence>>
      PROVE  LoadedInv'
  BY <1>2 DEF LoadedInv, Attesting
<1>3. CASE UNCHANGED vars
  BY <1>2, <1>3 DEF vars, keyMemory, sessionVars
<1>4. ASSUME NEW b \in Blocks, Attest(b)
      PROVE  LoadedInv'
  BY <1>2, <1>4 DEF Attest, keyMemory, sessionVars
<1>5. ASSUME NEW rows \in Malformed, FetchMalformed(rows)
      PROVE  LoadedInv'
  BY <1>2, <1>5, ProvingAssumption DEF FetchMalformed, keyMemory
<1>6. CASE KeysReady \/ Generate \/ LoseWrite
  <2>1. loaded' = loaded /\ pc \in Starting /\ pc' \notin {"attest", "layer"}
    BY <1>6 DEF KeysReady, EnsureNext, Generate, LoseWrite, GenerateVk, GeneratePk, GenerateConfig,
                Keep, keyMemory, Starting
  <2> QED BY <2>1, <1>1 DEF LoadedInv, Starting
<1>7. CASE Start \/ LoadFails \/ Crash
  BY <1>7, <1>1 DEF Start, NewKeyManager, LoadFails, Crash, Exit, ForgetKeys
<1>8. CASE FetchEvidence \/ SendRequest \/ Proceed
  BY <1>8, <1>1 DEF FetchEvidence, SendRequest, Proceed, LoadedInv, keyMemory
<1>9. CASE LoadAttestationPk
  BY <1>9 DEF LoadAttestationPk, LoadPk, LoadedInv, Attesting
<1>10. CASE LoadLayerPk
  BY <1>10 DEF LoadLayerPk, LoadPk, LoadedInv
<1>11. CASE ProveAttestation \/ ProveLayer \/ ProofFails
  BY <1>11, <1>1 DEF ProveAttestation, ProveLayer, ProofFails, UnloadPk, LoadedInv
<1> QED
  BY <1>3, <1>4, <1>5, <1>6, <1>7, <1>8, <1>9, <1>10, <1>11 DEF Next, SessionStep

-----------------------------------------------------------------------------
(* The files and the memory. *)

KeysSafe == MemoryInv /\ OrderInv /\ ConfigCommitsKeys

(* Only the steps of start-up, and a crash in the middle of it, touch the
   files. *)
LEMMA FilesOnlyAtStart ==
  ASSUME [Next]_vars, ~(Generate \/ LoseWrite \/ Crash)
  PROVE  UNCHANGED <<keyFiles, lostWrites>>
BY DEF Next, vars, SessionStep, Attest, Start, KeysReady, FetchEvidence, LoadAttestationPk,
   ProveAttestation, LoadLayerPk, ProveLayer, SendRequest, Proceed, LoadFails, ProofFails,
   FetchMalformed, Fault, NoFault

LEMMA MemoryStep ==
  ASSUME TypeOK, MemoryInv, [Next]_vars
  PROVE  MemoryInv'
<1> USE DEF MemoryInv
<1>0. Current \in Circuit
  BY CurrentInCircuit DEF TypeOK
<1>1. ASSUME pc' \notin Starting
      PROVE  MemoryInv'
  BY <1>1
<1>2. ASSUME UNCHANGED <<pc, ensuring, keyFiles, vkMem>>
      PROVE  MemoryInv'
  BY <1>2 DEF Current, keyFiles
<1>3. CASE Start
  BY <1>3 DEF Start, NewKeyManager, keyFiles
<1>4. CASE KeysReady
  BY <1>4 DEF KeysReady, EnsureNext, keyFiles, keyMemory, Starting
<1>5. ASSUME NEW s, GenerateVk(s)
      PROVE  MemoryInv'
  BY <1>5, <1>0 DEF GenerateVk, SaveVk, TypeOK, KeyCacheTypeOK, keyMemory, Starting, Current
<1>6. ASSUME NEW s, GeneratePk(s)
      PROVE  MemoryInv'
  BY <1>6 DEF GeneratePk, keyMemory, Starting, Current
<1>7. CASE GenerateConfig
  <2>1. \A c \in Circuit \ {Current} : cfgFile'[c] = cfgFile[c]
    BY <1>7 DEF GenerateConfig, SaveConfig, TypeOK, KeyCacheTypeOK, Current
  <2>2. vkFile' = vkFile /\ vkMem' = vkMem \cup {Current} /\ pc = "saveConfig"
    BY <1>7 DEF GenerateConfig, Keep, Current
  <2> QED BY <2>1, <2>2 DEF Starting
<1>8. CASE Generate \/ LoseWrite
  BY <1>5, <1>6, <1>7, <1>8 DEF Generate, LoseWrite
<1>9. CASE LoadFails \/ Crash \/ ProofFails \/ SendRequest \/ Proceed
  BY <1>9, <1>1 DEF LoadFails, Crash, Exit, ProofFails, SendRequest, Proceed, Starting
<1>10. CASE FetchEvidence \/ LoadAttestationPk \/ ProveAttestation \/ LoadLayerPk \/ ProveLayer
  BY <1>10, <1>1 DEF FetchEvidence, LoadAttestationPk, ProveAttestation, LoadLayerPk, ProveLayer,
                     Starting
<1>11. CASE \E rows \in Malformed : FetchMalformed(rows)
  BY <1>11, <1>2, ProvingAssumption DEF FetchMalformed, keyMemory
<1>12. CASE \E b \in Blocks : Attest(b)
  BY <1>12, <1>2 DEF Attest, keyMemory, sessionVars
<1>13. CASE UNCHANGED vars
  BY <1>13, <1>2 DEF vars, keyMemory, sessionVars
<1> QED
  BY <1>3, <1>4, <1>8, <1>9, <1>10, <1>11, <1>12, <1>13 DEF Next, SessionStep

(* A step that writes no file, or loses a write, leaves the order as it is. *)
LEMMA OrderStutter ==
  ASSUME OrderInv, ConfigCommitsKeys, UNCHANGED <<keyFiles, lostWrites>>,
         \/ UNCHANGED <<pc, ensuring>>
         \/ pc' \notin {"savePk", "saveConfig"}
  PROVE  OrderInv' /\ ConfigCommitsKeys'
BY DEF OrderInv, ConfigCommitsKeys, Complete, Current, keyFiles

(* Keys are generated only where the configuration is not good. *)
LEMMA ConfigNotGood ==
  ASSUME TypeOK, KeysSafe, lostWrites = 0, pc = "ensure", ~Available(Current)
  PROVE  cfgFile[Current] # "whole"
<1>1. Current \in Circuit
  BY CurrentInCircuit DEF TypeOK
<1>2. Complete(Current)
  BY <1>1 DEF KeysSafe, ConfigCommitsKeys
<1>3. cfgFile[Current] = "whole" => Current \in vkMem
  BY <1>1, <1>2 DEF KeysSafe, MemoryInv, Complete, Starting
<1> QED BY <1>2, <1>3 DEF Available, Complete

LEMMA OrderStep ==
  ASSUME TypeOK, KeysSafe, [Next]_vars
  PROVE  OrderInv' /\ ConfigCommitsKeys'
<1> USE DEF KeysSafe
<1>0. /\ Current \in Circuit /\ vkFile \in [Circuit -> FileStatus]
      /\ pkFile \in [Circuit -> FileStatus] /\ cfgFile \in [Circuit -> FileStatus]
      /\ lostWrites \in Nat
  BY CurrentInCircuit, ProvingAssumption DEF TypeOK, KeyCacheTypeOK
<1>1. CASE LoseWrite
  <2>1. lostWrites' # 0
    BY <1>1, <1>0 DEF LoseWrite
  <2> QED BY <2>1 DEF OrderInv, ConfigCommitsKeys
<1>2. CASE GenerateVk("whole") /\ NoFault
  <2> SUFFICES ASSUME lostWrites = 0
               PROVE  OrderInv' /\ ConfigCommitsKeys'
    BY <1>2 DEF NoFault, OrderInv, ConfigCommitsKeys
  <2>1. cfgFile[Current] # "whole"
    BY <1>2, ConfigNotGood DEF GenerateVk, Current
  <2>2. /\ vkFile' = [vkFile EXCEPT ![Current] = "whole"] /\ pc' = "savePk" /\ Current' = Current
        /\ cfgFile' = cfgFile /\ pkFile' = pkFile
    BY <1>2 DEF GenerateVk, SaveVk, Current
  <2> QED BY <1>0, <2>1, <2>2 DEF OrderInv, ConfigCommitsKeys, Complete
<1>3. CASE GeneratePk("whole") /\ NoFault
  <2>1. /\ pkFile' = [pkFile EXCEPT ![Current] = "whole"] /\ pc' = "saveConfig"
        /\ Current' = Current /\ cfgFile' = cfgFile /\ vkFile' = vkFile /\ pc = "savePk"
        /\ lostWrites' = lostWrites
    BY <1>3 DEF GeneratePk, SavePk, Current, NoFault
  <2> QED BY <1>0, <2>1 DEF OrderInv, ConfigCommitsKeys, Complete
<1>4. CASE GenerateConfig
  <2>1. /\ cfgFile' = [cfgFile EXCEPT ![Current] = "whole"] /\ pc' \in {"ensure", "idle"}
        /\ pkFile' = pkFile /\ vkFile' = vkFile /\ pc = "saveConfig" /\ lostWrites' = lostWrites
    BY <1>4 DEF GenerateConfig, SaveConfig, Current, NoFault, EnsureNext
  <2> QED BY <1>0, <2>1 DEF OrderInv, ConfigCommitsKeys, Complete
<1>5. CASE Crash
  <2>1. pc' = "down" /\ lostWrites' = lostWrites
    BY <1>5 DEF Crash, Fault, Exit
  <2>2. OrderInv'
    BY <2>1 DEF OrderInv
  <2> SUFFICES ASSUME lostWrites = 0
               PROVE  \A c \in Circuit : Complete(c)'
    BY <2>1, <2>2 DEF ConfigCommitsKeys
  <2>3. \A c \in Circuit : Complete(c)
    BY DEF ConfigCommitsKeys
  <2>4. CASE UNCHANGED keyFiles
    BY <2>3, <2>4 DEF Complete, keyFiles
  <2>5. CASE pc = "ensure" /\ ~Available(Current) /\ SaveVk(Current, "torn")
             /\ UNCHANGED <<pkFile, cfgFile>>
    <3>1. cfgFile[Current] # "whole"
      BY <2>5, ConfigNotGood
    <3> QED BY <1>0, <2>3, <2>5, <3>1 DEF SaveVk, Complete
  <2>6. CASE pc = "savePk" /\ SavePk(Current, "torn") /\ UNCHANGED <<vkFile, cfgFile>>
    <3>1. cfgFile[Current] # "whole"
      BY <2>6 DEF OrderInv
    <3> QED BY <1>0, <2>3, <2>6, <3>1 DEF SavePk, Complete
  <2>7. CASE SaveConfig(Current, "torn") /\ UNCHANGED <<vkFile, pkFile>>
    BY <1>0, <2>3, <2>7 DEF SaveConfig, Complete
  <2> QED BY <1>5, <2>4, <2>5, <2>6, <2>7 DEF Crash, Current
<1>6. CASE ~(Generate \/ LoseWrite \/ Crash)
  <2>1. UNCHANGED <<keyFiles, lostWrites>>
    BY <1>6, FilesOnlyAtStart
  <2>2. UNCHANGED <<pc, ensuring>> \/ pc' \notin {"savePk", "saveConfig"}
    BY <1>6, ProvingAssumption DEF Next, vars, SessionStep, Attest, Start, KeysReady, EnsureNext,
       FetchEvidence, LoadAttestationPk, ProveAttestation, LoadLayerPk, ProveLayer, SendRequest,
       Proceed, LoadFails, Exit, ProofFails, FetchMalformed, sessionVars
  <2> QED BY <2>1, <2>2, OrderStutter
<1> QED BY <1>1, <1>2, <1>3, <1>4, <1>5, <1>6 DEF Generate

-----------------------------------------------------------------------------
(* The theorems. *)

ProvingInv ==
  TypeOK /\ EvidenceInv /\ RequestsVerify /\ VerifiedIsFinal /\ LoadedInv /\ KeysSafe

LEMMA ProvingInit == Init => ProvingInv
<1> SUFFICES ASSUME Init PROVE ProvingInv
  OBVIOUS
<1>1. TypeOK
  BY ProvingAssumption DEF Init, TypeOK, KeyCacheInit, KeyCacheTypeOK, FileStatus, PC, NoRequest,
     Request
<1>2. EvidenceInv
  BY DEF Init, EvidenceInv, FinalAt, Proving
<1>3. RequestsVerify /\ VerifiedIsFinal
  BY DEF Init, RequestsVerify, VerifiedIsFinal, NoRequest
<1>4. LoadedInv
  BY DEF Init, LoadedInv, KeyCacheInit
<1>5. KeysSafe
  BY DEF Init, KeysSafe, MemoryInv, OrderInv, ConfigCommitsKeys, Complete, KeyCacheInit, Starting
<1> QED BY <1>1, <1>2, <1>3, <1>4, <1>5 DEF ProvingInv

LEMMA ProvingStep == ProvingInv /\ [Next]_vars => ProvingInv'
BY TypeStep, EvidenceStep, RequestsStep, FinalStep, LoadedStep, MemoryStep, OrderStep
   DEF ProvingInv, KeysSafe

LEMMA ProvingInvariant == Spec => []ProvingInv
BY ProvingInit, ProvingStep, PTL DEF Spec

(* The state keeps its types: no request is numbered beyond the chain, the
   circuits' keys are ensured one after the other and no further. *)
THEOREM ProvingTypeCorrect == Spec => []TypeOK
<1>1. ProvingInv => TypeOK
  BY DEF ProvingInv
<1> QED BY <1>1, ProvingInvariant, PTL

(* A configuration file commits the two key files before it. *)
THEOREM ConfigCommits == Spec => []ConfigCommitsKeys
<1>1. ProvingInv => ConfigCommitsKeys
  BY DEF ProvingInv, KeysSafe
<1> QED BY <1>1, ProvingInvariant, PTL

(* One proving key at a time. *)
THEOREM OnePkInMemory == Spec => []SinglePk
<1>1. ProvingInv => SinglePk
  <2>1. ASSUME NEW x PROVE Cardinality({x}) <= 1
    BY FS_Singleton
  <2>2. Cardinality({}) <= 1
    BY FS_EmptySet
  <2> QED BY <2>1, <2>2 DEF ProvingInv, LoadedInv, SinglePk
<1> QED BY <1>1, ProvingInvariant, PTL

(* No request claims more than the chain has made final, for every set size, chain
   and server. *)
THEOREM VerifiedRequestsAreFinal == Spec => []VerifiedIsFinal
<1>1. ProvingInv => VerifiedIsFinal
  BY DEF ProvingInv
<1> QED BY <1>1, ProvingInvariant, PTL

(* Which requests verify, for every set size, chain and server: the two conditions
   that the code lacks are exactly the two under which a request fails. *)
THEOREM RequestsCharacterised == Spec => []RequestsVerify
<1>1. ProvingInv => RequestsVerify
  BY DEF ProvingInv
<1> QED BY <1>1, ProvingInvariant, PTL

(* A proving key that a daemon past its start-up cannot load: every later daemon
   finds its circuit's keys available. *)
TakenForGood(c) ==
  /\ Stuck(c)
  /\ pc \in Starting => c \in vkMem
  /\ pc \in {"savePk", "saveConfig"} => c # Current

LEMMA TornStep ==
  ASSUME TypeOK, NEW c \in Circuit, TakenForGood(c), [Next]_vars
  PROVE  TakenForGood(c)'
<1> USE DEF TakenForGood, Stuck
<1>0. /\ Current \in Circuit /\ vkFile \in [Circuit -> FileStatus]
      /\ pkFile \in [Circuit -> FileStatus] /\ cfgFile \in [Circuit -> FileStatus]
  BY CurrentInCircuit DEF TypeOK, KeyCacheTypeOK
<1>1. pc = "ensure" /\ ~Available(Current) => c # Current
  BY DEF Available, Starting
<1>2. ASSUME NEW s, GenerateVk(s)
      PROVE  TakenForGood(c)'
  <2>1. /\ vkFile' = [vkFile EXCEPT ![Current] = s] /\ pc' = "savePk" /\ Current' = Current
        /\ pkFile' = pkFile /\ cfgFile' = cfgFile /\ vkMem' = vkMem /\ pc = "ensure" /\ c # Current
    BY <1>1, <1>2 DEF GenerateVk, SaveVk, Current, keyMemory
  <2> QED BY <1>0, <2>1 DEF Starting
<1>3. ASSUME NEW s, GeneratePk(s)
      PROVE  TakenForGood(c)'
  <2>1. /\ pkFile' = [pkFile EXCEPT ![Current] = s] /\ pc' = "saveConfig" /\ Current' = Current
        /\ vkFile' = vkFile /\ cfgFile' = cfgFile /\ vkMem' = vkMem /\ pc = "savePk"
    BY <1>3 DEF GeneratePk, SavePk, Current, keyMemory
  <2> QED BY <1>0, <2>1 DEF Starting
<1>4. CASE GenerateConfig
  <2>1. /\ cfgFile' = [cfgFile EXCEPT ![Current] = "whole"] /\ pc' \in {"ensure", "idle"}
        /\ vkFile' = vkFile /\ pkFile' = pkFile /\ vkMem \subseteq vkMem' /\ pc = "saveConfig"
    BY <1>4 DEF GenerateConfig, SaveConfig, Keep, Current, EnsureNext
  <2> QED BY <1>0, <2>1 DEF Starting
<1>5. CASE Crash
  <2>1. pc' = "down"
    BY <1>5 DEF Crash, Exit
  <2>2. CASE UNCHANGED keyFiles
    BY <2>1, <2>2 DEF keyFiles, Starting
  <2>3. CASE pc = "ensure" /\ ~Available(Current) /\ SaveVk(Current, "torn")
             /\ UNCHANGED <<pkFile, cfgFile>>
    BY <1>0, <1>1, <2>1, <2>3 DEF SaveVk, Starting
  <2>4. CASE pc = "savePk" /\ SavePk(Current, "torn") /\ UNCHANGED <<vkFile, cfgFile>>
    BY <1>0, <2>1, <2>4 DEF SavePk, Starting
  <2>5. CASE pc = "saveConfig" /\ SaveConfig(Current, "torn") /\ UNCHANGED <<vkFile, pkFile>>
    BY <1>0, <2>1, <2>5 DEF SaveConfig, Starting
  <2> QED BY <1>5, <2>2, <2>3, <2>4, <2>5 DEF Crash, Current
<1>6. CASE ~(Generate \/ LoseWrite \/ Crash)
  <2>1. UNCHANGED keyFiles
    BY <1>6, FilesOnlyAtStart
  <2>2. CASE Start
    BY <2>1, <2>2 DEF Start, NewKeyManager, keyFiles
  <2>3. CASE KeysReady
    BY <2>1, <2>3 DEF KeysReady, EnsureNext, keyFiles, keyMemory, Starting
  <2>4. CASE ~Start /\ ~KeysReady
    <3>1. pc' \notin Starting \/ UNCHANGED <<pc, ensuring, vkMem>>
      BY <1>6, <2>4, ProvingAssumption DEF Next, vars, SessionStep, Attest, FetchEvidence,
         LoadAttestationPk, ProveAttestation, LoadLayerPk, ProveLayer, SendRequest, Proceed, LoadFails,
         Exit, ProofFails, FetchMalformed, sessionVars, keyMemory, Starting
    <3> QED BY <2>1, <3>1 DEF keyFiles, Current, Starting
  <2> QED BY <2>2, <2>3, <2>4
<1> QED BY <1>2, <1>3, <1>4, <1>5, <1>6 DEF Generate, LoseWrite

(* A torn proving key behind good files stays, through every restart. *)
THEOREM TornPkStays == Spec => TornPkIsFinal
<1> SUFFICES ASSUME NEW c \in Circuit
             PROVE  Spec => [](pc = "idle" /\ Stuck(c) => []Stuck(c))
  BY DEF TornPkIsFinal
<1>1. ProvingInv /\ TakenForGood(c) /\ [Next]_vars => TakenForGood(c)'
  BY TornStep DEF ProvingInv
<1>2. pc = "idle" /\ Stuck(c) => TakenForGood(c)
  BY DEF TakenForGood, Starting
<1>3. TakenForGood(c) => Stuck(c)
  BY DEF TakenForGood
<1> QED BY <1>1, <1>2, <1>3, ProvingInvariant, PTL DEF Spec
=============================================================================
