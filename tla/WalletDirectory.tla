--------------------------- MODULE WalletDirectory ---------------------------
(***************************************************************************)
(* What Sigryx promises about key roots and wallets: roots are only added; *)
(* a user of a root is given one wallet, once and for all, at a derivation *)
(* index nobody else on that root has.  KeyRootWallet.tla shows that the   *)
(* services implement this over PostgreSQL and the runtime store.          *)
(***************************************************************************)
EXTENDS Naturals

CONSTANTS Roots, Users,
          MaxIndex   \* bound: derivation indexes are 0..MaxIndex-1

VARIABLES rows,      \* the roots that exist
          wallets    \* the wallets that exist

vars == <<rows, wallets>>

Wallet == [root : Roots, user : Users, index : 0..(MaxIndex - 1)]

Init ==
    /\ rows = {}
    /\ wallets = {}

AddRoots(S) ==
    /\ rows' = rows \cup S
    /\ UNCHANGED wallets

Allocate(w) ==
    /\ w.root \in rows
    /\ \A v \in wallets : v.root = w.root => v.user # w.user /\ v.index # w.index
    /\ wallets' = wallets \cup {w}
    /\ UNCHANGED rows

Next ==
    \/ \E S \in SUBSET Roots : AddRoots(S)
    \/ \E w \in Wallet : Allocate(w)

Spec == Init /\ [][Next]_vars
=============================================================================
