-------------------------- MODULE MCKeyBlockProving --------------------------
(* KeyBlockProving for TLC: a set of five keepers, the ways a block may be
   finalised with and without a repeated signer, and malformed answers. *)
EXTENDS KeyBlockProving

MCCircuit == {"primary", "fallback", "layer"}

Final(path, signers, occurrences) ==
  [path |-> path, signers |-> signers, occurrences |-> occurrences]

MCFinality ==
  {Final("primary", 4, 4), Final("primary", 4, 5),
   Final("fallback", 3, 3), Final("fallback", 3, 4)}

(* A fallback block one of whose signers is counted twice. *)
MCRepeatedFallback == {Final("fallback", 3, 4)}

(* Two PRIMARY entries, a FALLBACK entry alone, a pair over two blocks, and an
   entry that does not parse. *)
MCMalformed ==
  {<<Attestation("PRIMARY", 1, 3, 3), Attestation("PRIMARY", 1, 4, 4)>>,
   <<Attestation("FALLBACK", 1, 4, 4)>>,
   <<Attestation("PRIMARY", 1, 3, 3), Attestation("FALLBACK", 2, 3, 3)>>,
   <<Attestation("unparsable", 1, 4, 4)>>}
=============================================================================
