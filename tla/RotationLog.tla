----------------------------- MODULE RotationLog -----------------------------
(***************************************************************************)
(* What following the block-keeper sets promises, whatever the pages,      *)
(* restarts and unreadable rows in between: the chain has a sequence of    *)
(* sets, one more after every rotation; the follower trusts one set at the *)
(* start, and from then on moves only along rotations of the chain, each   *)
(* from the very set it holds, in the order of the chain.                  *)
(***************************************************************************)
EXTENDS Naturals, Sequences

CONSTANTS
  Table,     \* tables of public keys, by signer index
  NoTable    \* held before the first start

VARIABLES
  sets,      \* sets[n + 1]: the set of the chain after n rotations
  held,      \* the table the follower has committed to
  applied    \* number of the last rotation it has applied

Init == sets \in {<<t>> : t \in Table} /\ held = NoTable /\ applied = 0

Rotate ==
  /\ \E t \in Table : sets' = Append(sets, t)
  /\ UNCHANGED <<held, applied>>

(* Start from a table that nobody has verified. *)
Trust ==
  /\ held = NoTable
  /\ held' \in Table
  /\ UNCHANGED <<sets, applied>>

Apply(n) ==
  /\ applied < n /\ held = sets[n]
  /\ held' = sets[n + 1] /\ applied' = n
  /\ UNCHANGED sets

Next == Rotate \/ Trust \/ \E n \in 1 .. Len(sets) - 1 : Apply(n)

Spec == Init /\ [][Next]_<<sets, held, applied>>
=============================================================================
