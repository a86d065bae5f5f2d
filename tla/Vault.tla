------------------------------- MODULE Vault -------------------------------
(***************************************************************************)
(* What the runtime secret store promises its callers, with every          *)
(* operation atomic: the vault is sealed, collecting unseal keys slot by   *)
(* slot, or unsealed; a plaintext KeyRoot seed is cached only while it is  *)
(* unsealed.  SecretStore.tla shows that the locking code implements this, *)
(* and the service modules use these atomic operations in its place.       *)
(***************************************************************************)
EXTENDS Naturals

CONSTANTS Roots,     \* the KeyRoot ids whose seeds may be cached
          MaxKeys    \* bound: the largest unseal key count configured

VARIABLES required,  \* the configured unseal key count, 0 before it is known
          pending,   \* the slots submitted in the current unseal attempt
          unsealed,  \* the vault encryption key exists
          cached     \* the roots whose plaintext seed is in memory

vars == <<required, pending, unsealed, cached>>

Init ==
    /\ required = 0
    /\ pending = {}
    /\ unsealed = FALSE
    /\ cached = {}

\* The key count is fixed once.
Configure(n) ==
    /\ required = 0
    /\ required' = n
    /\ UNCHANGED <<pending, unsealed, cached>>

\* One more slot, but not the last one.
Collect(k) ==
    /\ ~unsealed
    /\ k \in (1..required) \ pending
    /\ pending \cup {k} # 1..required
    /\ pending' = pending \cup {k}
    /\ UNCHANGED <<required, unsealed, cached>>

\* The last slot: the attempt is consumed and the vault is unsealed.
Unseal(k) ==
    /\ ~unsealed
    /\ k \in (1..required) \ pending
    /\ pending \cup {k} = 1..required
    /\ pending' = {}
    /\ unsealed' = TRUE
    /\ UNCHANGED <<required, cached>>

\* A failed derivation or an explicit reset drops the whole attempt.
DropAttempt ==
    /\ ~unsealed
    /\ pending' = {}
    /\ UNCHANGED <<required, unsealed, cached>>

CacheSeed(r) ==
    /\ unsealed
    /\ r \notin cached
    /\ cached' = cached \cup {r}
    /\ UNCHANGED <<required, pending, unsealed>>

DropSeed(r) ==
    /\ cached' = cached \ {r}
    /\ UNCHANGED <<required, pending, unsealed>>

Seal_AttemptKept ==
    /\ unsealed' = FALSE
    /\ cached' = {}
    /\ UNCHANGED <<required, pending>>

Seal ==
    /\ pending' = {}
    /\ unsealed' = FALSE
    /\ cached' = {}
    /\ UNCHANGED required

Next ==
    \/ \E n \in 1..MaxKeys : Configure(n) \/ Collect(n) \/ Unseal(n)
    \/ DropAttempt
    \/ \E r \in Roots : CacheSeed(r) \/ DropSeed(r)
    \/ Seal

Spec == Init /\ [][Next]_vars
=============================================================================
