----------------------------- MODULE ClaimLedger -----------------------------
(***************************************************************************)
(* What a claim store promises its callers, whatever the backend: the      *)
(* contract of ClaimStoreBackend (claims/backend.ts) as the claim commands *)
(* use it.  `claim create` is the only operation that writes, and it only  *)
(* ever adds its own claim to the state it read, so a write that is        *)
(* conditional on that state appends one claim and loses none.             *)
(*                                                                         *)
(* LocalFileStore and RedisStore implement this specification.             *)
(***************************************************************************)
CONSTANT Claim

VARIABLES
  stored,        \* the claims in the store
  acknowledged   \* the claims whose creator was told that they are stored

vars == <<stored, acknowledged>>

TypeOK ==
  /\ stored \subseteq Claim
  /\ acknowledged \subseteq Claim

Init ==
  /\ stored = {}
  /\ acknowledged = {}

(* write(next, previous) succeeds: next is previous with one more claim.   *)
Append(c) ==
  /\ c \notin stored
  /\ stored' = stored \cup {c}
  /\ UNCHANGED acknowledged

(* The creator of a claim is told that it is stored. *)
Acknowledge(c) ==
  /\ c \in stored \ acknowledged
  /\ acknowledged' = acknowledged \cup {c}
  /\ UNCHANGED stored

Next == \E c \in Claim : Append(c) \/ Acknowledge(c)

Spec == Init /\ [][Next]_vars
=============================================================================
