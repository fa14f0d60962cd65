------------------------------- MODULE KeyCache -------------------------------
(***************************************************************************)
(* KeyManager (bridge-prover-lib/src/keys.rs): for every circuit a         *)
(* verifying key, a proving key and the circuit's configuration, cached in *)
(* params/.  The files are written in place: a process that dies, or meets *)
(* a write error, in the middle of one leaves it torn.  A torn file exists *)
(* and does not parse.                                                     *)
(***************************************************************************)
EXTENDS Naturals

CONSTANT Circuit      \* the circuits whose keys this process needs

VARIABLES
  vkFile, pkFile, cfgFile,   \* the three files of each circuit
  vkMem, cfgMem,             \* circuits whose VK and configuration are in memory
  loaded                     \* circuits whose proving key is in memory

keyFiles  == <<vkFile, pkFile, cfgFile>>
keyMemory == <<vkMem, cfgMem, loaded>>

FileStatus == {"absent", "torn", "whole"}

KeyCacheTypeOK ==
  /\ vkFile \in [Circuit -> FileStatus]
  /\ pkFile \in [Circuit -> FileStatus]
  /\ cfgFile \in [Circuit -> FileStatus]
  /\ vkMem \subseteq Circuit /\ cfgMem \subseteq Circuit /\ loaded \subseteq Circuit

KeyCacheInit ==
  /\ vkFile = [c \in Circuit |-> "absent"]
  /\ pkFile = [c \in Circuit |-> "absent"]
  /\ cfgFile = [c \in Circuit |-> "absent"]
  /\ vkMem = {} /\ cfgMem = {} /\ loaded = {}

(* KeyManager::new: the configurations that parse, and the verifying keys that
   parse under them.  No proving key is read. *)
NewKeyManager ==
  /\ cfgMem' = {c \in Circuit : cfgFile[c] = "whole"}
  /\ vkMem' = {c \in Circuit : cfgFile[c] = "whole" /\ vkFile[c] = "whole"}
  /\ loaded' = {}

(* The process is gone, and its memory with it. *)
ForgetKeys == vkMem' = {} /\ cfgMem' = {} /\ loaded' = {}

(* Slip: the proving key is parsed, not only looked for. *)
AvailableParsed(c) == c \in vkMem /\ pkFile[c] = "whole"

(* ensure_*_keys returns early: the VK is in memory and a PK file is there. *)
Available(c) == c \in vkMem /\ pkFile[c] # "absent"

SaveVk(c, status)     == vkFile'  = [vkFile  EXCEPT ![c] = status]
SavePk(c, status)     == pkFile'  = [pkFile  EXCEPT ![c] = status]
SaveConfig(c, status) == cfgFile' = [cfgFile EXCEPT ![c] = status]

(* What keygen leaves in memory: not the proving key. *)
Keep(c) ==
  /\ vkMem' = vkMem \cup {c}
  /\ cfgMem' = cfgMem \cup {c}
  /\ UNCHANGED loaded

(* load_*_pk *)
Loadable(c) == c \in cfgMem /\ pkFile[c] = "whole"
LoadPk(c)   == loaded' = loaded \cup {c}

(* Slip: the key stays in memory. *)
UnloadNothing(c) == loaded' = loaded

(* unload_*_pk *)
UnloadPk(c) == loaded' = loaded \ {c}

-----------------------------------------------------------------------------
(* A proving key that the cache takes for available in every later run and that
   never loads. *)
Stuck(c) == cfgFile[c] = "whole" /\ vkFile[c] = "whole" /\ pkFile[c] = "torn"

(* The configuration is the last file written: with it the other two are
   complete. *)
Complete(c) == cfgFile[c] = "whole" => vkFile[c] = "whole" /\ pkFile[c] = "whole"
=============================================================================
