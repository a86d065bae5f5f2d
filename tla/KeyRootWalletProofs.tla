------------------------- MODULE KeyRootWalletProofs -------------------------
(***************************************************************************)
(* For any number of requests, roots, users and indexes: the safety        *)
(* properties of KeyRootWallet and that it implements WalletDirectory.     *)
(* The argument is one inductive invariant, IInv, preserved part by part;  *)
(* each lemma names the parts its own rests on.                            *)
(***************************************************************************)
EXTENDS KeyRootWallet, TLAPS

(* A request that has been allocated an index has loaded its root, and     *)
(* roots are never deleted (key_root_repository.go has no DELETE).         *)
LEMMA LocalRoots ==
    ASSUME LocalInv, NEW t \in Threads, pc[t] \in Allocated
    PROVE  root[t] \in Roots /\ user[t] \in Users /\ root[t] \in rows
  BY DEF LocalInv, ForWallet

(* Every step keeps the state well typed; NextIndex never passes its       *)
(* bound.                                                                  *)
LEMMA TypeStep == TypeOK /\ LocalInv /\ NoIndexReuse /\ [Next]_vars => TypeOK'
<1> SUFFICES ASSUME TypeOK /\ LocalInv /\ NoIndexReuse, [Next]_vars
             PROVE  TypeOK'
  OBVIOUS
<1> USE KeyRootAssumption DEF dbVars, vaultVars, localVars, Continue, Goto,
    Return, Refuse, Fail, TypeOK, Steps, Wallet, LocalInv, ForWallet,
    Creating, Allocated
<1>1. ASSUME NEW t \in Threads, Begin(t, "crCheck", NoRoot, NoUser, {}, {})
      PROVE  TypeOK'
  BY <1>1 DEF Begin
<1>2. ASSUME NEW t \in Threads, NEW r \in used, NEW u \in Users, Begin(t,
            "wlLookup", r, u, {}, {})
      PROVE  TypeOK'
  BY <1>2 DEF Begin
<1>3. ASSUME NEW t \in Threads, Begin(t, "exCheck", NoRoot, NoUser, {}, rows)
      PROVE  TypeOK'
  BY <1>3 DEF Begin
<1>4. ASSUME NEW t \in Threads, NEW b \in backups, Begin(t, "imCheck", NoRoot,
            NoUser, b, {})
      PROVE  TypeOK'
  BY <1>4 DEF Begin
<1>5. ASSUME NEW t \in Threads, CreateCheck(t)
      PROVE  TypeOK'
  BY <1>5 DEF CreateCheck
<1>6. ASSUME NEW t \in Threads, CreateSeal(t)
      PROVE  TypeOK'
  BY <1>6 DEF CreateSeal, IfUnsealed
<1>7. ASSUME NEW t \in Threads, CreateStore(t)
      PROVE  TypeOK'
  <2>1. root[t] \in Roots
    BY <1>7 DEF CreateStore
  <2>2. CASE unsealed /\ root[t] \notin cached
    BY <1>7, <2>1, <2>2 DEF CreateStore, V!CacheSeed
  <2>3. CASE ~(unsealed /\ root[t] \notin cached)
    BY <1>7, <2>3 DEF CreateStore
  <2> QED  BY <2>2, <2>3
<1>8. ASSUME NEW t \in Threads, CreatePersist(t)
      PROVE  TypeOK'
  <2>1. root[t] \in Roots
    BY <1>8 DEF CreatePersist
  <2>2. CASE Return(t, Ok)
    BY <1>8, <2>1, <2>2 DEF CreatePersist
  <2>3. CASE Continue(t, "crRollback")
    BY <1>8, <2>1, <2>3 DEF CreatePersist
  <2> QED  BY <1>8, <2>2, <2>3 DEF CreatePersist
<1>9. ASSUME NEW t \in Threads, CreateRollback(t)
      PROVE  TypeOK'
  BY <1>9 DEF CreateRollback, V!DropSeed
<1>10. ASSUME NEW t \in Threads, Lookup(t)
      PROVE  TypeOK'
  <2>1. CASE WalletOf(root[t], user[t]) # {}
    <3>1. PICK w \in wallets : Return(t, w)
      BY <1>10, <2>1 DEF Lookup, WalletOf
    <3> QED  BY <1>10, <3>1 DEF Lookup
  <2>2. CASE Continue(t, "wlCheck")
    BY <1>10, <2>2 DEF Lookup
  <2> QED  BY <1>10, <2>1, <2>2 DEF Lookup
<1>11. ASSUME NEW t \in Threads, CheckUnsealed(t)
      PROVE  TypeOK'
  BY <1>11 DEF CheckUnsealed, IfUnsealed
<1>12. ASSUME NEW t \in Threads, LoadRoot(t)
      PROVE  TypeOK'
  BY <1>12 DEF LoadRoot
<1>13. ASSUME NEW t \in Threads, NextIndex(t)
      PROVE  TypeOK'
  <2>1. root[t] \in Roots
    BY <1>13 DEF NextIndex
  <2>2. CASE Refuse(t) /\ UNCHANGED counter
    BY <1>13, <2>2 DEF NextIndex
  <2>3. CASE counter[root[t]] < MaxIndex
    <3>1. counter[root[t]] \in 0..MaxIndex /\ counter[root[t]] + 1 \in 0..MaxIndex
      BY <2>1, <2>3
    <3>2. counter' = [counter EXCEPT ![root[t]] = @ + 1]
      BY <1>13, <2>3 DEF NextIndex
    <3>3. counter' \in [Roots -> 0..MaxIndex]
      BY <2>1, <3>1, <3>2
    <3>4. CASE Fail(t)
      BY <1>13, <3>3, <3>4 DEF NextIndex
    <3>5. CASE ~Fail(t)
      BY <1>13, <2>3, <3>1, <3>3, <3>5 DEF NextIndex
    <3> QED  BY <3>4, <3>5
  <2> QED  BY <1>13, <2>2, <2>3 DEF NextIndex
<1>14. ASSUME NEW t \in Threads, UseCachedSeed(t)
      PROVE  TypeOK'
  BY <1>14 DEF UseCachedSeed, WithSeed
<1>15. ASSUME NEW t \in Threads, OpenSeed(t)
      PROVE  TypeOK'
  BY <1>15 DEF OpenSeed, IfUnsealed
<1>16. ASSUME NEW t \in Threads, CacheOpened(t)
      PROVE  TypeOK'
  <2>1. root[t] \in Roots
    BY <1>16 DEF CacheOpened
  <2>2. cached' \subseteq Roots /\ unsealed' \in BOOLEAN
    BY <1>16, <2>1 DEF CacheOpened, V!CacheSeed
  <2>3. CASE Refuse(t)
    BY <1>16, <2>2, <2>3 DEF CacheOpened
  <2>4. CASE Continue(t, "wlUse")
    BY <1>16, <2>2, <2>4 DEF CacheOpened
  <2> QED  BY <1>16, <2>3, <2>4 DEF CacheOpened
<1>17. ASSUME NEW t \in Threads, UseNewSeed(t)
      PROVE  TypeOK'
  BY <1>17 DEF UseNewSeed, WithSeed
<1>18. ASSUME NEW t \in Threads, DeriveError(t)
      PROVE  TypeOK'
  BY <1>18 DEF DeriveError
<1>19. ASSUME NEW t \in Threads, Insert(t)
      PROVE  TypeOK'
  <2>1. New(t) \in Wallet
    BY <1>19 DEF Insert, New, NoIndexReuse
  <2>2. wallets' \subseteq Wallet
    BY <1>19, <2>1 DEF Insert
  <2>3. CASE Continue(t, "wlReload")
    BY <1>19, <2>2, <2>3 DEF Insert
  <2>4. CASE Return(t, New(t))
    BY <1>19, <2>1, <2>2, <2>4 DEF Insert
  <2>5. CASE Fail(t)
    BY <1>19, <2>2, <2>5 DEF Insert
  <2> QED  BY <1>19, <2>3, <2>4, <2>5 DEF Insert
<1>20. ASSUME NEW t \in Threads, Reload(t)
      PROVE  TypeOK'
  <2>1. CASE WalletOf(root[t], user[t]) # {}
    <3>1. PICK w \in wallets : Return(t, w)
      BY <1>20, <2>1 DEF Reload, WalletOf
    <3> QED  BY <1>20, <3>1 DEF Reload
  <2>2. CASE Refuse(t)
    BY <1>20, <2>2 DEF Reload
  <2> QED  BY <1>20, <2>1, <2>2 DEF Reload
<1>21. ASSUME NEW t \in Threads, ExportCheck(t)
      PROVE  TypeOK'
  BY <1>21 DEF ExportCheck, IfUnsealed
<1>22. ASSUME NEW t \in Threads, ExportList(t)
      PROVE  TypeOK'
  BY <1>22 DEF ExportList
<1>23. ASSUME NEW t \in Threads, ExportSeed(t)
      PROVE  TypeOK'
  BY <1>23 DEF ExportSeed, Packed, Take
<1>24. ASSUME NEW t \in Threads, ExportOpen(t)
      PROVE  TypeOK'
  BY <1>24 DEF ExportOpen, Packed
<1>25. ASSUME NEW t \in Threads, ExportDone(t)
      PROVE  TypeOK'
  BY <1>25 DEF ExportDone
<1>26. ASSUME NEW t \in Threads, ImportCheck(t)
      PROVE  TypeOK'
  BY <1>26 DEF ImportCheck, IfUnsealed
<1>27. ASSUME NEW t \in Threads, ImportSeal(t)
      PROVE  TypeOK'
  BY <1>27 DEF ImportSeal
<1>28. ASSUME NEW t \in Threads, ImportRead(t)
      PROVE  TypeOK'
  BY <1>28 DEF ImportRead, Handled, Take
<1>29. ASSUME NEW t \in Threads, ImportInsert(t)
      PROVE  TypeOK'
  BY <1>29 DEF ImportInsert, Handled
<1>30. ASSUME NEW t \in Threads, ImportCommit(t)
      PROVE  TypeOK'
  <2>1. rows' \subseteq Roots /\ open' \in [Threads -> SUBSET Roots]
    BY <1>30 DEF ImportCommit
  <2>2. CASE Fail(t)
    BY <1>30, <2>1, <2>2 DEF ImportCommit
  <2>3. CASE ~Fail(t)
    BY <1>30, <2>1, <2>3 DEF ImportCommit
  <2> QED  BY <2>2, <2>3
<1>31. ASSUME NEW t \in Threads, ImportDrop(t)
      PROVE  TypeOK'
  BY <1>31 DEF ImportDrop, Handled, V!DropSeed
<1>32. ASSUME NEW t \in Threads, ImportDone(t)
      PROVE  TypeOK'
  BY <1>32 DEF ImportDone
<1>33. ASSUME NEW t \in Threads, DbError(t)
      PROVE  TypeOK'
  BY <1>33 DEF DbError
<1>34. ASSUME SealVault
      PROVE  TypeOK'
  BY <1>34 DEF SealVault, V!Seal
<1>35. ASSUME UnsealVault
      PROVE  TypeOK'
  BY <1>35 DEF UnsealVault, V!Unseal
<1>36. ASSUME Crash
      PROVE  TypeOK'
  <2>1. /\ rows' \subseteq Roots /\ counter' \in [Roots -> 0..MaxIndex]
        /\ wallets' \subseteq Wallet /\ used' \subseteq Roots
        /\ backups' \subseteq SUBSET Roots
        /\ unsealed' \in BOOLEAN /\ cached' \subseteq Roots
    BY <1>36 DEF Crash
  <2>2. /\ open' \in [Threads -> SUBSET Roots]
        /\ manifest' \in [Threads -> SUBSET Roots]
        /\ work' \in [Threads -> SUBSET Roots]
        /\ began' \in [Threads -> SUBSET Roots]
    BY <1>36 DEF Crash
  <2>3. /\ pc' \in [Threads -> Steps]
        /\ root' \in [Threads -> Roots \cup {NoRoot}]
        /\ user' \in [Threads -> Users \cup {NoUser}]
        /\ index' \in [Threads -> 0..MaxIndex]
        /\ reply' \in [Threads -> Wallet \cup {NoReply, Ok, Refused, Failed}]
    BY <1>36 DEF Crash
  <2> QED  BY <2>1, <2>2, <2>3
<1>37. CASE UNCHANGED vars
  BY <1>37 DEF vars
<1> QED  BY <1>1, <1>2, <1>3, <1>4, <1>5, <1>6, <1>7, <1>8, <1>9, <1>10,
    <1>11, <1>12, <1>13, <1>14, <1>15, <1>16, <1>17, <1>18, <1>19, <1>20,
    <1>21, <1>22, <1>23, <1>24, <1>25, <1>26, <1>27, <1>28, <1>29, <1>30,
    <1>31, <1>32, <1>33, <1>34, <1>35, <1>36, <1>37 DEF Next, Request,
    CreateRoot, CreateWallet, Export, Import

(* What a request carries from one step to the next stays what it was: the *)
(* root it generated, or the user and the existing root of the wallet it   *)
(* creates.                                                                *)
LEMMA LocalStep == TypeOK /\ LocalInv /\ ImportInv /\ [Next]_vars => LocalInv'
<1> SUFFICES ASSUME TypeOK /\ LocalInv /\ ImportInv, [Next]_vars
             PROVE  LocalInv'
  OBVIOUS
<1> USE KeyRootAssumption DEF dbVars, vaultVars, localVars, Continue, Goto,
    Return, Refuse, Fail, TypeOK, LocalInv, ForWallet, Creating, Allocated
<1>1. ASSUME NEW t \in Threads, Begin(t, "crCheck", NoRoot, NoUser, {}, {})
      PROVE  LocalInv'
  BY <1>1 DEF Begin
<1>2. ASSUME NEW t \in Threads, NEW r \in used, NEW u \in Users, Begin(t,
            "wlLookup", r, u, {}, {})
      PROVE  LocalInv'
  BY <1>2 DEF Begin
<1>3. ASSUME NEW t \in Threads, Begin(t, "exCheck", NoRoot, NoUser, {}, rows)
      PROVE  LocalInv'
  BY <1>3 DEF Begin
<1>4. ASSUME NEW t \in Threads, NEW b \in backups, Begin(t, "imCheck", NoRoot,
            NoUser, b, {})
      PROVE  LocalInv'
  BY <1>4 DEF Begin
<1>5. ASSUME NEW t \in Threads, CreateCheck(t)
      PROVE  LocalInv'
  BY <1>5 DEF CreateCheck, ImportInv
<1>6. ASSUME NEW t \in Threads, CreateSeal(t)
      PROVE  LocalInv'
  BY <1>6 DEF CreateSeal, IfUnsealed
<1>7. ASSUME NEW t \in Threads, CreateStore(t)
      PROVE  LocalInv'
  BY <1>7 DEF CreateStore, V!CacheSeed
<1>8. ASSUME NEW t \in Threads, CreatePersist(t)
      PROVE  LocalInv'
  BY <1>8 DEF CreatePersist
<1>9. ASSUME NEW t \in Threads, CreateRollback(t)
      PROVE  LocalInv'
  BY <1>9 DEF CreateRollback, V!DropSeed
<1>10. ASSUME NEW t \in Threads, Lookup(t)
      PROVE  LocalInv'
  BY <1>10 DEF Lookup, WalletOf
<1>11. ASSUME NEW t \in Threads, CheckUnsealed(t)
      PROVE  LocalInv'
  BY <1>11 DEF CheckUnsealed, IfUnsealed
<1>12. ASSUME NEW t \in Threads, LoadRoot(t)
      PROVE  LocalInv'
  BY <1>12 DEF LoadRoot
<1>13. ASSUME NEW t \in Threads, NextIndex(t)
      PROVE  LocalInv'
  BY <1>13 DEF NextIndex
<1>14. ASSUME NEW t \in Threads, UseCachedSeed(t)
      PROVE  LocalInv'
  BY <1>14 DEF UseCachedSeed, WithSeed
<1>15. ASSUME NEW t \in Threads, OpenSeed(t)
      PROVE  LocalInv'
  BY <1>15 DEF OpenSeed, IfUnsealed
<1>16. ASSUME NEW t \in Threads, CacheOpened(t)
      PROVE  LocalInv'
  BY <1>16 DEF CacheOpened, V!CacheSeed
<1>17. ASSUME NEW t \in Threads, UseNewSeed(t)
      PROVE  LocalInv'
  BY <1>17 DEF UseNewSeed, WithSeed
<1>18. ASSUME NEW t \in Threads, DeriveError(t)
      PROVE  LocalInv'
  BY <1>18 DEF DeriveError
<1>19. ASSUME NEW t \in Threads, Insert(t)
      PROVE  LocalInv'
  BY <1>19 DEF Insert, New, Conflicts
<1>20. ASSUME NEW t \in Threads, Reload(t)
      PROVE  LocalInv'
  BY <1>20 DEF Reload, WalletOf
<1>21. ASSUME NEW t \in Threads, ExportCheck(t)
      PROVE  LocalInv'
  BY <1>21 DEF ExportCheck, IfUnsealed
<1>22. ASSUME NEW t \in Threads, ExportList(t)
      PROVE  LocalInv'
  BY <1>22 DEF ExportList
<1>23. ASSUME NEW t \in Threads, ExportSeed(t)
      PROVE  LocalInv'
  BY <1>23 DEF ExportSeed, Packed, Take, ImportInv
<1>24. ASSUME NEW t \in Threads, ExportOpen(t)
      PROVE  LocalInv'
  BY <1>24 DEF ExportOpen, Packed
<1>25. ASSUME NEW t \in Threads, ExportDone(t)
      PROVE  LocalInv'
  BY <1>25 DEF ExportDone
<1>26. ASSUME NEW t \in Threads, ImportCheck(t)
      PROVE  LocalInv'
  BY <1>26 DEF ImportCheck, IfUnsealed
<1>27. ASSUME NEW t \in Threads, ImportSeal(t)
      PROVE  LocalInv'
  BY <1>27 DEF ImportSeal
<1>28. ASSUME NEW t \in Threads, ImportRead(t)
      PROVE  LocalInv'
  BY <1>28 DEF ImportRead, Handled, Take, ImportInv
<1>29. ASSUME NEW t \in Threads, ImportInsert(t)
      PROVE  LocalInv'
  BY <1>29 DEF ImportInsert, Handled
<1>30. ASSUME NEW t \in Threads, ImportCommit(t)
      PROVE  LocalInv'
  BY <1>30 DEF ImportCommit
<1>31. ASSUME NEW t \in Threads, ImportDrop(t)
      PROVE  LocalInv'
  BY <1>31 DEF ImportDrop, Handled, V!DropSeed
<1>32. ASSUME NEW t \in Threads, ImportDone(t)
      PROVE  LocalInv'
  BY <1>32 DEF ImportDone
<1>33. ASSUME NEW t \in Threads, DbError(t)
      PROVE  LocalInv'
  BY <1>33 DEF DbError
<1>34. ASSUME SealVault
      PROVE  LocalInv'
  BY <1>34 DEF SealVault, V!Seal
<1>35. ASSUME UnsealVault
      PROVE  LocalInv'
  BY <1>35 DEF UnsealVault, V!Unseal
<1>36. ASSUME Crash
      PROVE  LocalInv'
  BY <1>36 DEF Crash
<1>37. CASE UNCHANGED vars
  BY <1>37 DEF vars
<1> QED  BY <1>1, <1>2, <1>3, <1>4, <1>5, <1>6, <1>7, <1>8, <1>9, <1>10,
    <1>11, <1>12, <1>13, <1>14, <1>15, <1>16, <1>17, <1>18, <1>19, <1>20,
    <1>21, <1>22, <1>23, <1>24, <1>25, <1>26, <1>27, <1>28, <1>29, <1>30,
    <1>31, <1>32, <1>33, <1>34, <1>35, <1>36, <1>37 DEF Next, Request,
    CreateRoot, CreateWallet, Export, Import

(* No step gives two requests, or a request and a wallet, the same index:  *)
(* NextIndex increments the counter past the one it returns, and an index  *)
(* in hand lies below the counter whatever else happens.                   *)
LEMMA IndexStep ==
    TypeOK /\ LocalInv /\ NoIndexReuse /\ [Next]_vars => NoIndexReuse'
<1> SUFFICES ASSUME TypeOK /\ LocalInv /\ NoIndexReuse, [Next]_vars
             PROVE  NoIndexReuse'
  OBVIOUS
<1> USE KeyRootAssumption DEF dbVars, vaultVars, localVars, Continue, Goto,
    Return, Refuse, Fail, TypeOK, NoIndexReuse, Allocated
<1>1. ASSUME NEW t \in Threads, Begin(t, "crCheck", NoRoot, NoUser, {}, {})
      PROVE  NoIndexReuse'
  BY <1>1 DEF Begin
<1>2. ASSUME NEW t \in Threads, NEW r \in used, NEW u \in Users, Begin(t,
            "wlLookup", r, u, {}, {})
      PROVE  NoIndexReuse'
  BY <1>2 DEF Begin
<1>3. ASSUME NEW t \in Threads, Begin(t, "exCheck", NoRoot, NoUser, {}, rows)
      PROVE  NoIndexReuse'
  BY <1>3 DEF Begin
<1>4. ASSUME NEW t \in Threads, NEW b \in backups, Begin(t, "imCheck", NoRoot,
            NoUser, b, {})
      PROVE  NoIndexReuse'
  BY <1>4 DEF Begin
<1>5. ASSUME NEW t \in Threads, CreateCheck(t)
      PROVE  NoIndexReuse'
  BY <1>5 DEF CreateCheck
<1>6. ASSUME NEW t \in Threads, CreateSeal(t)
      PROVE  NoIndexReuse'
  BY <1>6 DEF CreateSeal, IfUnsealed
<1>7. ASSUME NEW t \in Threads, CreateStore(t)
      PROVE  NoIndexReuse'
  BY <1>7 DEF CreateStore, V!CacheSeed
<1>8. ASSUME NEW t \in Threads, CreatePersist(t)
      PROVE  NoIndexReuse'
  BY <1>8 DEF CreatePersist
<1>9. ASSUME NEW t \in Threads, CreateRollback(t)
      PROVE  NoIndexReuse'
  BY <1>9 DEF CreateRollback, V!DropSeed
<1>10. ASSUME NEW t \in Threads, Lookup(t)
      PROVE  NoIndexReuse'
  BY <1>10 DEF Lookup, WalletOf
<1>11. ASSUME NEW t \in Threads, CheckUnsealed(t)
      PROVE  NoIndexReuse'
  BY <1>11 DEF CheckUnsealed, IfUnsealed
<1>12. ASSUME NEW t \in Threads, LoadRoot(t)
      PROVE  NoIndexReuse'
  BY <1>12 DEF LoadRoot
<1>13. ASSUME NEW t \in Threads, NextIndex(t)
      PROVE  NoIndexReuse'
  <2>1. root[t] \in Roots /\ pc[t] = "wlIndex"
    BY <1>13 DEF NextIndex, LocalInv, ForWallet
  <2>2. CASE Refuse(t) /\ UNCHANGED counter
    BY <1>13, <2>2 DEF NextIndex
  <2>3. CASE counter' = [counter EXCEPT ![root[t]] = @ + 1] /\ Fail(t)
    BY <1>13, <2>1, <2>3 DEF NextIndex, Wallet
  <2>4. CASE /\ counter' = [counter EXCEPT ![root[t]] = @ + 1]
             /\ index' = [index EXCEPT ![t] = counter[root[t]]]
             /\ Goto(t, "wlSeed")
             /\ UNCHANGED <<root, wallets>>
    <3>1. \A w \in wallets' : w.index < counter'[w.root]
      BY <2>1, <2>4 DEF Wallet
    <3>2. \A u \in Threads : pc'[u] \in Allocated =>
            /\ index'[u] < counter'[root'[u]]
            /\ \A w \in wallets' : w.root = root'[u] => w.index # index'[u]
      <4> TAKE u \in Threads
      <4>1. CASE u = t
        BY <2>1, <2>4, <4>1
      <4>2. CASE u # t /\ pc[u] \in Allocated
        BY <2>1, <2>4, <4>2, LocalRoots
      <4> QED  BY <2>4, <4>1, <4>2
    <3>3. \A u \in Threads : \A v \in Threads \ {u} :
            pc'[u] \in Allocated /\ pc'[v] \in Allocated /\ root'[v] = root'[u]
              => index'[v] # index'[u]
      <4> TAKE u \in Threads
      <4> TAKE v \in Threads \ {u}
      <4>1. CASE u = t
        BY <2>1, <2>4, <4>1, LocalRoots
      <4>2. CASE v = t
        BY <2>1, <2>4, <4>2, LocalRoots
      <4>3. CASE u # t /\ v # t
        BY <2>4, <4>3
      <4> QED  BY <4>1, <4>2, <4>3
    <3> QED  BY <3>1, <3>2, <3>3
  <2> QED  BY <1>13, <2>2, <2>3, <2>4 DEF NextIndex
<1>14. ASSUME NEW t \in Threads, UseCachedSeed(t)
      PROVE  NoIndexReuse'
  BY <1>14 DEF UseCachedSeed, WithSeed
<1>15. ASSUME NEW t \in Threads, OpenSeed(t)
      PROVE  NoIndexReuse'
  BY <1>15 DEF OpenSeed, IfUnsealed
<1>16. ASSUME NEW t \in Threads, CacheOpened(t)
      PROVE  NoIndexReuse'
  BY <1>16 DEF CacheOpened, V!CacheSeed
<1>17. ASSUME NEW t \in Threads, UseNewSeed(t)
      PROVE  NoIndexReuse'
  BY <1>17 DEF UseNewSeed, WithSeed
<1>18. ASSUME NEW t \in Threads, DeriveError(t)
      PROVE  NoIndexReuse'
  BY <1>18 DEF DeriveError
<1>19. ASSUME NEW t \in Threads, Insert(t)
      PROVE  NoIndexReuse'
  BY <1>19 DEF Insert, New, Conflicts, LocalInv, ForWallet, Wallet
<1>20. ASSUME NEW t \in Threads, Reload(t)
      PROVE  NoIndexReuse'
  BY <1>20 DEF Reload, WalletOf
<1>21. ASSUME NEW t \in Threads, ExportCheck(t)
      PROVE  NoIndexReuse'
  BY <1>21 DEF ExportCheck, IfUnsealed
<1>22. ASSUME NEW t \in Threads, ExportList(t)
      PROVE  NoIndexReuse'
  BY <1>22 DEF ExportList
<1>23. ASSUME NEW t \in Threads, ExportSeed(t)
      PROVE  NoIndexReuse'
  BY <1>23 DEF ExportSeed, Packed, Take
<1>24. ASSUME NEW t \in Threads, ExportOpen(t)
      PROVE  NoIndexReuse'
  BY <1>24 DEF ExportOpen, Packed
<1>25. ASSUME NEW t \in Threads, ExportDone(t)
      PROVE  NoIndexReuse'
  BY <1>25 DEF ExportDone
<1>26. ASSUME NEW t \in Threads, ImportCheck(t)
      PROVE  NoIndexReuse'
  BY <1>26 DEF ImportCheck, IfUnsealed
<1>27. ASSUME NEW t \in Threads, ImportSeal(t)
      PROVE  NoIndexReuse'
  BY <1>27 DEF ImportSeal
<1>28. ASSUME NEW t \in Threads, ImportRead(t)
      PROVE  NoIndexReuse'
  BY <1>28 DEF ImportRead, Handled, Take
<1>29. ASSUME NEW t \in Threads, ImportInsert(t)
      PROVE  NoIndexReuse'
  BY <1>29 DEF ImportInsert, Handled
<1>30. ASSUME NEW t \in Threads, ImportCommit(t)
      PROVE  NoIndexReuse'
  BY <1>30 DEF ImportCommit
<1>31. ASSUME NEW t \in Threads, ImportDrop(t)
      PROVE  NoIndexReuse'
  BY <1>31 DEF ImportDrop, Handled, V!DropSeed
<1>32. ASSUME NEW t \in Threads, ImportDone(t)
      PROVE  NoIndexReuse'
  BY <1>32 DEF ImportDone
<1>33. ASSUME NEW t \in Threads, DbError(t)
      PROVE  NoIndexReuse'
  BY <1>33 DEF DbError
<1>34. ASSUME SealVault
      PROVE  NoIndexReuse'
  BY <1>34 DEF SealVault, V!Seal
<1>35. ASSUME UnsealVault
      PROVE  NoIndexReuse'
  BY <1>35 DEF UnsealVault, V!Unseal
<1>36. ASSUME Crash
      PROVE  NoIndexReuse'
  BY <1>36 DEF Crash
<1>37. CASE UNCHANGED vars
  BY <1>37 DEF vars
<1> QED  BY <1>1, <1>2, <1>3, <1>4, <1>5, <1>6, <1>7, <1>8, <1>9, <1>10,
    <1>11, <1>12, <1>13, <1>14, <1>15, <1>16, <1>17, <1>18, <1>19, <1>20,
    <1>21, <1>22, <1>23, <1>24, <1>25, <1>26, <1>27, <1>28, <1>29, <1>30,
    <1>31, <1>32, <1>33, <1>34, <1>35, <1>36, <1>37 DEF Next, Request,
    CreateRoot, CreateWallet, Export, Import

(* A unique index refuses an INSERT only for the user's own wallet: its    *)
(* index is nobody's, by NoIndexReuse, so it is the user that conflicts.   *)
LEMMA ConflictStep ==
    TypeOK /\ LocalInv /\ NoIndexReuse /\ ConflictIsOwnWallet
        /\ [Next]_vars => ConflictIsOwnWallet'
<1> SUFFICES ASSUME TypeOK /\ LocalInv /\ NoIndexReuse /\ ConflictIsOwnWallet,
                    [Next]_vars
             PROVE  ConflictIsOwnWallet'
  OBVIOUS
<1> USE KeyRootAssumption DEF dbVars, vaultVars, localVars, Continue, Goto,
    Return, Refuse, Fail, TypeOK, ConflictIsOwnWallet, WalletOf
<1>1. ASSUME NEW t \in Threads, Begin(t, "crCheck", NoRoot, NoUser, {}, {})
      PROVE  ConflictIsOwnWallet'
  BY <1>1 DEF Begin
<1>2. ASSUME NEW t \in Threads, NEW r \in used, NEW u \in Users, Begin(t,
            "wlLookup", r, u, {}, {})
      PROVE  ConflictIsOwnWallet'
  BY <1>2 DEF Begin
<1>3. ASSUME NEW t \in Threads, Begin(t, "exCheck", NoRoot, NoUser, {}, rows)
      PROVE  ConflictIsOwnWallet'
  BY <1>3 DEF Begin
<1>4. ASSUME NEW t \in Threads, NEW b \in backups, Begin(t, "imCheck", NoRoot,
            NoUser, b, {})
      PROVE  ConflictIsOwnWallet'
  BY <1>4 DEF Begin
<1>5. ASSUME NEW t \in Threads, CreateCheck(t)
      PROVE  ConflictIsOwnWallet'
  BY <1>5 DEF CreateCheck
<1>6. ASSUME NEW t \in Threads, CreateSeal(t)
      PROVE  ConflictIsOwnWallet'
  BY <1>6 DEF CreateSeal, IfUnsealed
<1>7. ASSUME NEW t \in Threads, CreateStore(t)
      PROVE  ConflictIsOwnWallet'
  BY <1>7 DEF CreateStore, V!CacheSeed
<1>8. ASSUME NEW t \in Threads, CreatePersist(t)
      PROVE  ConflictIsOwnWallet'
  BY <1>8 DEF CreatePersist
<1>9. ASSUME NEW t \in Threads, CreateRollback(t)
      PROVE  ConflictIsOwnWallet'
  BY <1>9 DEF CreateRollback, V!DropSeed
<1>10. ASSUME NEW t \in Threads, Lookup(t)
      PROVE  ConflictIsOwnWallet'
  BY <1>10 DEF Lookup, WalletOf
<1>11. ASSUME NEW t \in Threads, CheckUnsealed(t)
      PROVE  ConflictIsOwnWallet'
  BY <1>11 DEF CheckUnsealed, IfUnsealed
<1>12. ASSUME NEW t \in Threads, LoadRoot(t)
      PROVE  ConflictIsOwnWallet'
  BY <1>12 DEF LoadRoot
<1>13. ASSUME NEW t \in Threads, NextIndex(t)
      PROVE  ConflictIsOwnWallet'
  BY <1>13 DEF NextIndex
<1>14. ASSUME NEW t \in Threads, UseCachedSeed(t)
      PROVE  ConflictIsOwnWallet'
  BY <1>14 DEF UseCachedSeed, WithSeed
<1>15. ASSUME NEW t \in Threads, OpenSeed(t)
      PROVE  ConflictIsOwnWallet'
  BY <1>15 DEF OpenSeed, IfUnsealed
<1>16. ASSUME NEW t \in Threads, CacheOpened(t)
      PROVE  ConflictIsOwnWallet'
  BY <1>16 DEF CacheOpened, V!CacheSeed
<1>17. ASSUME NEW t \in Threads, UseNewSeed(t)
      PROVE  ConflictIsOwnWallet'
  BY <1>17 DEF UseNewSeed, WithSeed
<1>18. ASSUME NEW t \in Threads, DeriveError(t)
      PROVE  ConflictIsOwnWallet'
  BY <1>18 DEF DeriveError
<1>19. ASSUME NEW t \in Threads, Insert(t)
      PROVE  ConflictIsOwnWallet'
  BY <1>19 DEF Insert, New, Conflicts, NoIndexReuse, Allocated
<1>20. ASSUME NEW t \in Threads, Reload(t)
      PROVE  ConflictIsOwnWallet'
  BY <1>20 DEF Reload, WalletOf
<1>21. ASSUME NEW t \in Threads, ExportCheck(t)
      PROVE  ConflictIsOwnWallet'
  BY <1>21 DEF ExportCheck, IfUnsealed
<1>22. ASSUME NEW t \in Threads, ExportList(t)
      PROVE  ConflictIsOwnWallet'
  BY <1>22 DEF ExportList
<1>23. ASSUME NEW t \in Threads, ExportSeed(t)
      PROVE  ConflictIsOwnWallet'
  BY <1>23 DEF ExportSeed, Packed, Take
<1>24. ASSUME NEW t \in Threads, ExportOpen(t)
      PROVE  ConflictIsOwnWallet'
  BY <1>24 DEF ExportOpen, Packed
<1>25. ASSUME NEW t \in Threads, ExportDone(t)
      PROVE  ConflictIsOwnWallet'
  BY <1>25 DEF ExportDone
<1>26. ASSUME NEW t \in Threads, ImportCheck(t)
      PROVE  ConflictIsOwnWallet'
  BY <1>26 DEF ImportCheck, IfUnsealed
<1>27. ASSUME NEW t \in Threads, ImportSeal(t)
      PROVE  ConflictIsOwnWallet'
  BY <1>27 DEF ImportSeal
<1>28. ASSUME NEW t \in Threads, ImportRead(t)
      PROVE  ConflictIsOwnWallet'
  BY <1>28 DEF ImportRead, Handled, Take
<1>29. ASSUME NEW t \in Threads, ImportInsert(t)
      PROVE  ConflictIsOwnWallet'
  BY <1>29 DEF ImportInsert, Handled
<1>30. ASSUME NEW t \in Threads, ImportCommit(t)
      PROVE  ConflictIsOwnWallet'
  BY <1>30 DEF ImportCommit
<1>31. ASSUME NEW t \in Threads, ImportDrop(t)
      PROVE  ConflictIsOwnWallet'
  BY <1>31 DEF ImportDrop, Handled, V!DropSeed
<1>32. ASSUME NEW t \in Threads, ImportDone(t)
      PROVE  ConflictIsOwnWallet'
  BY <1>32 DEF ImportDone
<1>33. ASSUME NEW t \in Threads, DbError(t)
      PROVE  ConflictIsOwnWallet'
  BY <1>33 DEF DbError
<1>34. ASSUME SealVault
      PROVE  ConflictIsOwnWallet'
  BY <1>34 DEF SealVault, V!Seal
<1>35. ASSUME UnsealVault
      PROVE  ConflictIsOwnWallet'
  BY <1>35 DEF UnsealVault, V!Unseal
<1>36. ASSUME Crash
      PROVE  ConflictIsOwnWallet'
  BY <1>36 DEF Crash
<1>37. CASE UNCHANGED vars
  BY <1>37 DEF vars
<1> QED  BY <1>1, <1>2, <1>3, <1>4, <1>5, <1>6, <1>7, <1>8, <1>9, <1>10,
    <1>11, <1>12, <1>13, <1>14, <1>15, <1>16, <1>17, <1>18, <1>19, <1>20,
    <1>21, <1>22, <1>23, <1>24, <1>25, <1>26, <1>27, <1>28, <1>29, <1>30,
    <1>31, <1>32, <1>33, <1>34, <1>35, <1>36, <1>37 DEF Next, Request,
    CreateRoot, CreateWallet, Export, Import

(* Every wallet returned has been read from the table or inserted there.   *)
LEMMA ReplyStep ==
    TypeOK /\ LocalInv /\ ConflictIsOwnWallet /\ ReturnedWalletExists
        /\ [Next]_vars => ReturnedWalletExists'
<1> SUFFICES ASSUME TypeOK /\ LocalInv /\ ConflictIsOwnWallet /\ ReturnedWalletExists,
                    [Next]_vars
             PROVE  ReturnedWalletExists'
  OBVIOUS
<1> USE KeyRootAssumption DEF dbVars, vaultVars, localVars, Continue, Goto,
    Return, Refuse, Fail, TypeOK, ReturnedWalletExists
<1>1. ASSUME NEW t \in Threads, Begin(t, "crCheck", NoRoot, NoUser, {}, {})
      PROVE  ReturnedWalletExists'
  BY <1>1 DEF Begin
<1>2. ASSUME NEW t \in Threads, NEW r \in used, NEW u \in Users, Begin(t,
            "wlLookup", r, u, {}, {})
      PROVE  ReturnedWalletExists'
  BY <1>2 DEF Begin
<1>3. ASSUME NEW t \in Threads, Begin(t, "exCheck", NoRoot, NoUser, {}, rows)
      PROVE  ReturnedWalletExists'
  BY <1>3 DEF Begin
<1>4. ASSUME NEW t \in Threads, NEW b \in backups, Begin(t, "imCheck", NoRoot,
            NoUser, b, {})
      PROVE  ReturnedWalletExists'
  BY <1>4 DEF Begin
<1>5. ASSUME NEW t \in Threads, CreateCheck(t)
      PROVE  ReturnedWalletExists'
  BY <1>5 DEF CreateCheck
<1>6. ASSUME NEW t \in Threads, CreateSeal(t)
      PROVE  ReturnedWalletExists'
  BY <1>6 DEF CreateSeal, IfUnsealed
<1>7. ASSUME NEW t \in Threads, CreateStore(t)
      PROVE  ReturnedWalletExists'
  BY <1>7 DEF CreateStore, V!CacheSeed
<1>8. ASSUME NEW t \in Threads, CreatePersist(t)
      PROVE  ReturnedWalletExists'
  BY <1>8 DEF CreatePersist
<1>9. ASSUME NEW t \in Threads, CreateRollback(t)
      PROVE  ReturnedWalletExists'
  BY <1>9 DEF CreateRollback, V!DropSeed
<1>10. ASSUME NEW t \in Threads, Lookup(t)
      PROVE  ReturnedWalletExists'
  BY <1>10 DEF Lookup, WalletOf
<1>11. ASSUME NEW t \in Threads, CheckUnsealed(t)
      PROVE  ReturnedWalletExists'
  BY <1>11 DEF CheckUnsealed, IfUnsealed
<1>12. ASSUME NEW t \in Threads, LoadRoot(t)
      PROVE  ReturnedWalletExists'
  BY <1>12 DEF LoadRoot
<1>13. ASSUME NEW t \in Threads, NextIndex(t)
      PROVE  ReturnedWalletExists'
  BY <1>13 DEF NextIndex
<1>14. ASSUME NEW t \in Threads, UseCachedSeed(t)
      PROVE  ReturnedWalletExists'
  BY <1>14 DEF UseCachedSeed, WithSeed
<1>15. ASSUME NEW t \in Threads, OpenSeed(t)
      PROVE  ReturnedWalletExists'
  BY <1>15 DEF OpenSeed, IfUnsealed
<1>16. ASSUME NEW t \in Threads, CacheOpened(t)
      PROVE  ReturnedWalletExists'
  BY <1>16 DEF CacheOpened, V!CacheSeed
<1>17. ASSUME NEW t \in Threads, UseNewSeed(t)
      PROVE  ReturnedWalletExists'
  BY <1>17 DEF UseNewSeed, WithSeed
<1>18. ASSUME NEW t \in Threads, DeriveError(t)
      PROVE  ReturnedWalletExists'
  BY <1>18 DEF DeriveError
<1>19. ASSUME NEW t \in Threads, Insert(t)
      PROVE  ReturnedWalletExists'
  BY <1>19 DEF Insert, New, Conflicts
<1>20. ASSUME NEW t \in Threads, Reload(t)
      PROVE  ReturnedWalletExists'
  BY <1>20 DEF Reload, WalletOf
<1>21. ASSUME NEW t \in Threads, ExportCheck(t)
      PROVE  ReturnedWalletExists'
  BY <1>21 DEF ExportCheck, IfUnsealed
<1>22. ASSUME NEW t \in Threads, ExportList(t)
      PROVE  ReturnedWalletExists'
  BY <1>22 DEF ExportList
<1>23. ASSUME NEW t \in Threads, ExportSeed(t)
      PROVE  ReturnedWalletExists'
  BY <1>23 DEF ExportSeed, Packed, Take
<1>24. ASSUME NEW t \in Threads, ExportOpen(t)
      PROVE  ReturnedWalletExists'
  BY <1>24 DEF ExportOpen, Packed
<1>25. ASSUME NEW t \in Threads, ExportDone(t)
      PROVE  ReturnedWalletExists'
  BY <1>25 DEF ExportDone
<1>26. ASSUME NEW t \in Threads, ImportCheck(t)
      PROVE  ReturnedWalletExists'
  BY <1>26 DEF ImportCheck, IfUnsealed
<1>27. ASSUME NEW t \in Threads, ImportSeal(t)
      PROVE  ReturnedWalletExists'
  BY <1>27 DEF ImportSeal
<1>28. ASSUME NEW t \in Threads, ImportRead(t)
      PROVE  ReturnedWalletExists'
  BY <1>28 DEF ImportRead, Handled, Take
<1>29. ASSUME NEW t \in Threads, ImportInsert(t)
      PROVE  ReturnedWalletExists'
  BY <1>29 DEF ImportInsert, Handled
<1>30. ASSUME NEW t \in Threads, ImportCommit(t)
      PROVE  ReturnedWalletExists'
  BY <1>30 DEF ImportCommit
<1>31. ASSUME NEW t \in Threads, ImportDrop(t)
      PROVE  ReturnedWalletExists'
  BY <1>31 DEF ImportDrop, Handled, V!DropSeed
<1>32. ASSUME NEW t \in Threads, ImportDone(t)
      PROVE  ReturnedWalletExists'
  BY <1>32 DEF ImportDone
<1>33. ASSUME NEW t \in Threads, DbError(t)
      PROVE  ReturnedWalletExists'
  BY <1>33 DEF DbError
<1>34. ASSUME SealVault
      PROVE  ReturnedWalletExists'
  BY <1>34 DEF SealVault, V!Seal
<1>35. ASSUME UnsealVault
      PROVE  ReturnedWalletExists'
  BY <1>35 DEF UnsealVault, V!Unseal
<1>36. ASSUME Crash
      PROVE  ReturnedWalletExists'
  BY <1>36 DEF Crash
<1>37. CASE UNCHANGED vars
  BY <1>37 DEF vars
<1> QED  BY <1>1, <1>2, <1>3, <1>4, <1>5, <1>6, <1>7, <1>8, <1>9, <1>10,
    <1>11, <1>12, <1>13, <1>14, <1>15, <1>16, <1>17, <1>18, <1>19, <1>20,
    <1>21, <1>22, <1>23, <1>24, <1>25, <1>26, <1>27, <1>28, <1>29, <1>30,
    <1>31, <1>32, <1>33, <1>34, <1>35, <1>36, <1>37 DEF Next, Request,
    CreateRoot, CreateWallet, Export, Import

(* Create caches a seed only on its way to insert the row or drop the      *)
(* seed; the other seeds cached are those of rows.                         *)
LEMMA SeedStep ==
    TypeOK /\ LocalInv /\ NoOrphanSeed /\ [Next]_vars => NoOrphanSeed'
<1> SUFFICES ASSUME TypeOK /\ LocalInv /\ NoOrphanSeed, [Next]_vars
             PROVE  NoOrphanSeed'
  OBVIOUS
<1> USE KeyRootAssumption DEF dbVars, vaultVars, localVars, Continue, Goto,
    Return, Refuse, Fail, TypeOK, NoOrphanSeed, LocalInv, Allocated
<1>1. ASSUME NEW t \in Threads, Begin(t, "crCheck", NoRoot, NoUser, {}, {})
      PROVE  NoOrphanSeed'
  BY <1>1 DEF Begin
<1>2. ASSUME NEW t \in Threads, NEW r \in used, NEW u \in Users, Begin(t,
            "wlLookup", r, u, {}, {})
      PROVE  NoOrphanSeed'
  BY <1>2 DEF Begin
<1>3. ASSUME NEW t \in Threads, Begin(t, "exCheck", NoRoot, NoUser, {}, rows)
      PROVE  NoOrphanSeed'
  BY <1>3 DEF Begin
<1>4. ASSUME NEW t \in Threads, NEW b \in backups, Begin(t, "imCheck", NoRoot,
            NoUser, b, {})
      PROVE  NoOrphanSeed'
  BY <1>4 DEF Begin
<1>5. ASSUME NEW t \in Threads, CreateCheck(t)
      PROVE  NoOrphanSeed'
  BY <1>5 DEF CreateCheck
<1>6. ASSUME NEW t \in Threads, CreateSeal(t)
      PROVE  NoOrphanSeed'
  BY <1>6 DEF CreateSeal, IfUnsealed
<1>7. ASSUME NEW t \in Threads, CreateStore(t)
      PROVE  NoOrphanSeed'
  BY <1>7 DEF CreateStore, V!CacheSeed
<1>8. ASSUME NEW t \in Threads, CreatePersist(t)
      PROVE  NoOrphanSeed'
  BY <1>8 DEF CreatePersist
<1>9. ASSUME NEW t \in Threads, CreateRollback(t)
      PROVE  NoOrphanSeed'
  BY <1>9 DEF CreateRollback, V!DropSeed
<1>10. ASSUME NEW t \in Threads, Lookup(t)
      PROVE  NoOrphanSeed'
  BY <1>10 DEF Lookup, WalletOf
<1>11. ASSUME NEW t \in Threads, CheckUnsealed(t)
      PROVE  NoOrphanSeed'
  BY <1>11 DEF CheckUnsealed, IfUnsealed
<1>12. ASSUME NEW t \in Threads, LoadRoot(t)
      PROVE  NoOrphanSeed'
  BY <1>12 DEF LoadRoot
<1>13. ASSUME NEW t \in Threads, NextIndex(t)
      PROVE  NoOrphanSeed'
  BY <1>13 DEF NextIndex
<1>14. ASSUME NEW t \in Threads, UseCachedSeed(t)
      PROVE  NoOrphanSeed'
  BY <1>14 DEF UseCachedSeed, WithSeed
<1>15. ASSUME NEW t \in Threads, OpenSeed(t)
      PROVE  NoOrphanSeed'
  BY <1>15 DEF OpenSeed, IfUnsealed
<1>16. ASSUME NEW t \in Threads, CacheOpened(t)
      PROVE  NoOrphanSeed'
  BY <1>16 DEF CacheOpened, V!CacheSeed
<1>17. ASSUME NEW t \in Threads, UseNewSeed(t)
      PROVE  NoOrphanSeed'
  BY <1>17 DEF UseNewSeed, WithSeed
<1>18. ASSUME NEW t \in Threads, DeriveError(t)
      PROVE  NoOrphanSeed'
  BY <1>18 DEF DeriveError
<1>19. ASSUME NEW t \in Threads, Insert(t)
      PROVE  NoOrphanSeed'
  BY <1>19 DEF Insert, New, Conflicts
<1>20. ASSUME NEW t \in Threads, Reload(t)
      PROVE  NoOrphanSeed'
  BY <1>20 DEF Reload, WalletOf
<1>21. ASSUME NEW t \in Threads, ExportCheck(t)
      PROVE  NoOrphanSeed'
  BY <1>21 DEF ExportCheck, IfUnsealed
<1>22. ASSUME NEW t \in Threads, ExportList(t)
      PROVE  NoOrphanSeed'
  BY <1>22 DEF ExportList
<1>23. ASSUME NEW t \in Threads, ExportSeed(t)
      PROVE  NoOrphanSeed'
  BY <1>23 DEF ExportSeed, Packed, Take
<1>24. ASSUME NEW t \in Threads, ExportOpen(t)
      PROVE  NoOrphanSeed'
  BY <1>24 DEF ExportOpen, Packed
<1>25. ASSUME NEW t \in Threads, ExportDone(t)
      PROVE  NoOrphanSeed'
  BY <1>25 DEF ExportDone
<1>26. ASSUME NEW t \in Threads, ImportCheck(t)
      PROVE  NoOrphanSeed'
  BY <1>26 DEF ImportCheck, IfUnsealed
<1>27. ASSUME NEW t \in Threads, ImportSeal(t)
      PROVE  NoOrphanSeed'
  BY <1>27 DEF ImportSeal
<1>28. ASSUME NEW t \in Threads, ImportRead(t)
      PROVE  NoOrphanSeed'
  BY <1>28 DEF ImportRead, Handled, Take
<1>29. ASSUME NEW t \in Threads, ImportInsert(t)
      PROVE  NoOrphanSeed'
  BY <1>29 DEF ImportInsert, Handled
<1>30. ASSUME NEW t \in Threads, ImportCommit(t)
      PROVE  NoOrphanSeed'
  BY <1>30 DEF ImportCommit
<1>31. ASSUME NEW t \in Threads, ImportDrop(t)
      PROVE  NoOrphanSeed'
  BY <1>31 DEF ImportDrop, Handled, V!DropSeed
<1>32. ASSUME NEW t \in Threads, ImportDone(t)
      PROVE  NoOrphanSeed'
  BY <1>32 DEF ImportDone
<1>33. ASSUME NEW t \in Threads, DbError(t)
      PROVE  NoOrphanSeed'
  BY <1>33 DEF DbError
<1>34. ASSUME SealVault
      PROVE  NoOrphanSeed'
  BY <1>34 DEF SealVault, V!Seal
<1>35. ASSUME UnsealVault
      PROVE  NoOrphanSeed'
  BY <1>35 DEF UnsealVault, V!Unseal
<1>36. ASSUME Crash
      PROVE  NoOrphanSeed'
  BY <1>36 DEF Crash
<1>37. CASE UNCHANGED vars
  BY <1>37 DEF vars
<1> QED  BY <1>1, <1>2, <1>3, <1>4, <1>5, <1>6, <1>7, <1>8, <1>9, <1>10,
    <1>11, <1>12, <1>13, <1>14, <1>15, <1>16, <1>17, <1>18, <1>19, <1>20,
    <1>21, <1>22, <1>23, <1>24, <1>25, <1>26, <1>27, <1>28, <1>29, <1>30,
    <1>31, <1>32, <1>33, <1>34, <1>35, <1>36, <1>37 DEF Next, Request,
    CreateRoot, CreateWallet, Export, Import

(* An export lists the rows after it began, and rows are never deleted.    *)
LEMMA ExportStep == TypeOK /\ ExportInv /\ [Next]_vars => ExportInv'
<1> SUFFICES ASSUME TypeOK /\ ExportInv, [Next]_vars PROVE ExportInv'
  OBVIOUS
<1> USE KeyRootAssumption DEF dbVars, vaultVars, localVars, Continue, Goto,
    Return, Refuse, Fail, TypeOK, ExportInv
<1>1. ASSUME NEW t \in Threads, Begin(t, "crCheck", NoRoot, NoUser, {}, {})
      PROVE  ExportInv'
  BY <1>1 DEF Begin
<1>2. ASSUME NEW t \in Threads, NEW r \in used, NEW u \in Users, Begin(t,
            "wlLookup", r, u, {}, {})
      PROVE  ExportInv'
  BY <1>2 DEF Begin
<1>3. ASSUME NEW t \in Threads, Begin(t, "exCheck", NoRoot, NoUser, {}, rows)
      PROVE  ExportInv'
  BY <1>3 DEF Begin
<1>4. ASSUME NEW t \in Threads, NEW b \in backups, Begin(t, "imCheck", NoRoot,
            NoUser, b, {})
      PROVE  ExportInv'
  BY <1>4 DEF Begin
<1>5. ASSUME NEW t \in Threads, CreateCheck(t)
      PROVE  ExportInv'
  BY <1>5 DEF CreateCheck
<1>6. ASSUME NEW t \in Threads, CreateSeal(t)
      PROVE  ExportInv'
  BY <1>6 DEF CreateSeal, IfUnsealed
<1>7. ASSUME NEW t \in Threads, CreateStore(t)
      PROVE  ExportInv'
  BY <1>7 DEF CreateStore, V!CacheSeed
<1>8. ASSUME NEW t \in Threads, CreatePersist(t)
      PROVE  ExportInv'
  BY <1>8 DEF CreatePersist
<1>9. ASSUME NEW t \in Threads, CreateRollback(t)
      PROVE  ExportInv'
  BY <1>9 DEF CreateRollback, V!DropSeed
<1>10. ASSUME NEW t \in Threads, Lookup(t)
      PROVE  ExportInv'
  BY <1>10 DEF Lookup, WalletOf
<1>11. ASSUME NEW t \in Threads, CheckUnsealed(t)
      PROVE  ExportInv'
  BY <1>11 DEF CheckUnsealed, IfUnsealed
<1>12. ASSUME NEW t \in Threads, LoadRoot(t)
      PROVE  ExportInv'
  BY <1>12 DEF LoadRoot
<1>13. ASSUME NEW t \in Threads, NextIndex(t)
      PROVE  ExportInv'
  BY <1>13 DEF NextIndex
<1>14. ASSUME NEW t \in Threads, UseCachedSeed(t)
      PROVE  ExportInv'
  BY <1>14 DEF UseCachedSeed, WithSeed
<1>15. ASSUME NEW t \in Threads, OpenSeed(t)
      PROVE  ExportInv'
  BY <1>15 DEF OpenSeed, IfUnsealed
<1>16. ASSUME NEW t \in Threads, CacheOpened(t)
      PROVE  ExportInv'
  BY <1>16 DEF CacheOpened, V!CacheSeed
<1>17. ASSUME NEW t \in Threads, UseNewSeed(t)
      PROVE  ExportInv'
  BY <1>17 DEF UseNewSeed, WithSeed
<1>18. ASSUME NEW t \in Threads, DeriveError(t)
      PROVE  ExportInv'
  BY <1>18 DEF DeriveError
<1>19. ASSUME NEW t \in Threads, Insert(t)
      PROVE  ExportInv'
  BY <1>19 DEF Insert, New, Conflicts
<1>20. ASSUME NEW t \in Threads, Reload(t)
      PROVE  ExportInv'
  BY <1>20 DEF Reload, WalletOf
<1>21. ASSUME NEW t \in Threads, ExportCheck(t)
      PROVE  ExportInv'
  BY <1>21 DEF ExportCheck, IfUnsealed
<1>22. ASSUME NEW t \in Threads, ExportList(t)
      PROVE  ExportInv'
  BY <1>22 DEF ExportList
<1>23. ASSUME NEW t \in Threads, ExportSeed(t)
      PROVE  ExportInv'
  BY <1>23 DEF ExportSeed, Packed, Take
<1>24. ASSUME NEW t \in Threads, ExportOpen(t)
      PROVE  ExportInv'
  BY <1>24 DEF ExportOpen, Packed
<1>25. ASSUME NEW t \in Threads, ExportDone(t)
      PROVE  ExportInv'
  BY <1>25 DEF ExportDone
<1>26. ASSUME NEW t \in Threads, ImportCheck(t)
      PROVE  ExportInv'
  BY <1>26 DEF ImportCheck, IfUnsealed
<1>27. ASSUME NEW t \in Threads, ImportSeal(t)
      PROVE  ExportInv'
  BY <1>27 DEF ImportSeal
<1>28. ASSUME NEW t \in Threads, ImportRead(t)
      PROVE  ExportInv'
  BY <1>28 DEF ImportRead, Handled, Take
<1>29. ASSUME NEW t \in Threads, ImportInsert(t)
      PROVE  ExportInv'
  BY <1>29 DEF ImportInsert, Handled
<1>30. ASSUME NEW t \in Threads, ImportCommit(t)
      PROVE  ExportInv'
  BY <1>30 DEF ImportCommit
<1>31. ASSUME NEW t \in Threads, ImportDrop(t)
      PROVE  ExportInv'
  BY <1>31 DEF ImportDrop, Handled, V!DropSeed
<1>32. ASSUME NEW t \in Threads, ImportDone(t)
      PROVE  ExportInv'
  BY <1>32 DEF ImportDone
<1>33. ASSUME NEW t \in Threads, DbError(t)
      PROVE  ExportInv'
  BY <1>33 DEF DbError
<1>34. ASSUME SealVault
      PROVE  ExportInv'
  BY <1>34 DEF SealVault, V!Seal
<1>35. ASSUME UnsealVault
      PROVE  ExportInv'
  BY <1>35 DEF UnsealVault, V!Unseal
<1>36. ASSUME Crash
      PROVE  ExportInv'
  BY <1>36 DEF Crash
<1>37. CASE UNCHANGED vars
  BY <1>37 DEF vars
<1> QED  BY <1>1, <1>2, <1>3, <1>4, <1>5, <1>6, <1>7, <1>8, <1>9, <1>10,
    <1>11, <1>12, <1>13, <1>14, <1>15, <1>16, <1>17, <1>18, <1>19, <1>20,
    <1>21, <1>22, <1>23, <1>24, <1>25, <1>26, <1>27, <1>28, <1>29, <1>30,
    <1>31, <1>32, <1>33, <1>34, <1>35, <1>36, <1>37 DEF Next, Request,
    CreateRoot, CreateWallet, Export, Import

(* An import inserts its roots in one transaction, so the database holds   *)
(* the foreign roots of a backup all at once, and a backup listed from the *)
(* database holds all of them too.                                         *)
LEMMA ImportStep ==
    TypeOK /\ LocalInv /\ ExportInv /\ ImportInv /\ [Next]_vars => ImportInv'
<1> SUFFICES ASSUME TypeOK /\ LocalInv /\ ExportInv /\ ImportInv, [Next]_vars
             PROVE  ImportInv'
  OBVIOUS
<1> USE KeyRootAssumption DEF dbVars, vaultVars, localVars, Continue, Goto,
    Return, Refuse, Fail, TypeOK, ImportInv, Whole, Restoring
<1>1. ASSUME NEW t \in Threads, Begin(t, "crCheck", NoRoot, NoUser, {}, {})
      PROVE  ImportInv'
  BY <1>1 DEF Begin
<1>2. ASSUME NEW t \in Threads, NEW r \in used, NEW u \in Users, Begin(t,
            "wlLookup", r, u, {}, {})
      PROVE  ImportInv'
  BY <1>2 DEF Begin
<1>3. ASSUME NEW t \in Threads, Begin(t, "exCheck", NoRoot, NoUser, {}, rows)
      PROVE  ImportInv'
  BY <1>3 DEF Begin
<1>4. ASSUME NEW t \in Threads, NEW b \in backups, Begin(t, "imCheck", NoRoot,
            NoUser, b, {})
      PROVE  ImportInv'
  BY <1>4 DEF Begin
<1>5. ASSUME NEW t \in Threads, CreateCheck(t)
      PROVE  ImportInv'
  BY <1>5 DEF CreateCheck
<1>6. ASSUME NEW t \in Threads, CreateSeal(t)
      PROVE  ImportInv'
  BY <1>6 DEF CreateSeal, IfUnsealed
<1>7. ASSUME NEW t \in Threads, CreateStore(t)
      PROVE  ImportInv'
  BY <1>7 DEF CreateStore, V!CacheSeed
<1>8. ASSUME NEW t \in Threads, CreatePersist(t)
      PROVE  ImportInv'
  BY <1>8 DEF CreatePersist, LocalInv, Creating
<1>9. ASSUME NEW t \in Threads, CreateRollback(t)
      PROVE  ImportInv'
  BY <1>9 DEF CreateRollback, V!DropSeed
<1>10. ASSUME NEW t \in Threads, Lookup(t)
      PROVE  ImportInv'
  BY <1>10 DEF Lookup, WalletOf
<1>11. ASSUME NEW t \in Threads, CheckUnsealed(t)
      PROVE  ImportInv'
  BY <1>11 DEF CheckUnsealed, IfUnsealed
<1>12. ASSUME NEW t \in Threads, LoadRoot(t)
      PROVE  ImportInv'
  BY <1>12 DEF LoadRoot
<1>13. ASSUME NEW t \in Threads, NextIndex(t)
      PROVE  ImportInv'
  BY <1>13 DEF NextIndex
<1>14. ASSUME NEW t \in Threads, UseCachedSeed(t)
      PROVE  ImportInv'
  BY <1>14 DEF UseCachedSeed, WithSeed
<1>15. ASSUME NEW t \in Threads, OpenSeed(t)
      PROVE  ImportInv'
  BY <1>15 DEF OpenSeed, IfUnsealed
<1>16. ASSUME NEW t \in Threads, CacheOpened(t)
      PROVE  ImportInv'
  BY <1>16 DEF CacheOpened, V!CacheSeed
<1>17. ASSUME NEW t \in Threads, UseNewSeed(t)
      PROVE  ImportInv'
  BY <1>17 DEF UseNewSeed, WithSeed
<1>18. ASSUME NEW t \in Threads, DeriveError(t)
      PROVE  ImportInv'
  BY <1>18 DEF DeriveError
<1>19. ASSUME NEW t \in Threads, Insert(t)
      PROVE  ImportInv'
  <2>1. CASE Conflicts(New(t))
    BY <1>19, <2>1 DEF Insert
  <2>2. CASE ~Conflicts(New(t))
    <3>1. UNCHANGED <<rows, open, used, backups>>
      BY <1>19 DEF Insert
    <3>2. PICK a : Return(t, a)
      BY <1>19, <2>2 DEF Insert
    <3> QED
      BY <1>19, <3>1, <3>2 DEF Insert
  <2> QED
    BY <2>1, <2>2
<1>20. ASSUME NEW t \in Threads, Reload(t)
      PROVE  ImportInv'
  <2>1. UNCHANGED <<rows, open, used, backups>>
    BY <1>20 DEF Reload
  <2>2. PICK a : Return(t, a)
    BY <1>20 DEF Reload
  <2> QED
    BY <1>20, <2>1, <2>2 DEF Reload
<1>21. ASSUME NEW t \in Threads, ExportCheck(t)
      PROVE  ImportInv'
  BY <1>21 DEF ExportCheck, IfUnsealed
<1>22. ASSUME NEW t \in Threads, ExportList(t)
      PROVE  ImportInv'
  BY <1>22 DEF ExportList
<1>23. ASSUME NEW t \in Threads, ExportSeed(t)
      PROVE  ImportInv'
  BY <1>23 DEF ExportSeed, Packed, Take
<1>24. ASSUME NEW t \in Threads, ExportOpen(t)
      PROVE  ImportInv'
  BY <1>24 DEF ExportOpen, Packed, ExportInv
<1>25. ASSUME NEW t \in Threads, ExportDone(t)
      PROVE  ImportInv'
  BY <1>25 DEF ExportDone
<1>26. ASSUME NEW t \in Threads, ImportCheck(t)
      PROVE  ImportInv'
  BY <1>26 DEF ImportCheck, IfUnsealed
<1>27. ASSUME NEW t \in Threads, ImportSeal(t)
      PROVE  ImportInv'
  BY <1>27 DEF ImportSeal
<1>28. ASSUME NEW t \in Threads, ImportRead(t)
      PROVE  ImportInv'
  BY <1>28 DEF ImportRead, Handled, Take
<1>29. ASSUME NEW t \in Threads, ImportInsert(t)
      PROVE  ImportInv'
  BY <1>29 DEF ImportInsert, Handled
<1>30. ASSUME NEW t \in Threads, ImportCommit(t)
      PROVE  ImportInv'
  BY <1>30 DEF ImportCommit
<1>31. ASSUME NEW t \in Threads, ImportDrop(t)
      PROVE  ImportInv'
  BY <1>31 DEF ImportDrop, Handled, V!DropSeed
<1>32. ASSUME NEW t \in Threads, ImportDone(t)
      PROVE  ImportInv'
  BY <1>32 DEF ImportDone
<1>33. ASSUME NEW t \in Threads, DbError(t)
      PROVE  ImportInv'
  BY <1>33 DEF DbError
<1>34. ASSUME SealVault
      PROVE  ImportInv'
  BY <1>34 DEF SealVault, V!Seal
<1>35. ASSUME UnsealVault
      PROVE  ImportInv'
  BY <1>35 DEF UnsealVault, V!Unseal
<1>36. ASSUME Crash
      PROVE  ImportInv'
  BY <1>36 DEF Crash
<1>37. CASE UNCHANGED vars
  BY <1>37 DEF vars
<1> QED  BY <1>1, <1>2, <1>3, <1>4, <1>5, <1>6, <1>7, <1>8, <1>9, <1>10,
    <1>11, <1>12, <1>13, <1>14, <1>15, <1>16, <1>17, <1>18, <1>19, <1>20,
    <1>21, <1>22, <1>23, <1>24, <1>25, <1>26, <1>27, <1>28, <1>29, <1>30,
    <1>31, <1>32, <1>33, <1>34, <1>35, <1>36, <1>37 DEF Next, Request,
    CreateRoot, CreateWallet, Export, Import

(* The initial state satisfies the inductive invariant.                    *)
LEMMA InitIInv == Init => IInv
<1> SUFFICES ASSUME Init PROVE IInv
  OBVIOUS
<1> USE KeyRootAssumption DEF Init
<1>1. backups \subseteq SUBSET Roots /\ used \subseteq Roots
  OBVIOUS
<1>2. counter \in [Roots -> 0..MaxIndex] /\ index \in [Threads -> 0..MaxIndex]
  OBVIOUS
<1>3. pc \in [Threads -> Steps]
  BY DEF Steps
<1>4. TypeOK
  BY <1>1, <1>2, <1>3 DEF TypeOK
<1>5. LocalInv /\ NoIndexReuse /\ ConflictIsOwnWallet
  BY DEF LocalInv, Creating, ForWallet, Allocated, NoIndexReuse, ConflictIsOwnWallet
<1>6. ReturnedWalletExists /\ NoOrphanSeed /\ ExportInv
  BY DEF ReturnedWalletExists, NoOrphanSeed, ExportInv
<1>7. ImportInv
  BY DEF ImportInv, Whole, Restoring
<1> QED
  BY <1>4, <1>5, <1>6, <1>7 DEF IInv

(* Every step preserves the inductive invariant.                           *)
LEMMA StepIInv == IInv /\ [Next]_vars => IInv'
  BY TypeStep, LocalStep, IndexStep, ConflictStep, ReplyStep, SeedStep, ExportStep,
     ImportStep DEF IInv

(* The inductive invariant holds of every reachable state.                 *)
THEOREM Invariance == Spec => []IInv
  BY InitIInv, StepIInv, PTL DEF Spec

(* The state is always well typed: in particular no counter passes the     *)
(* last non-hardened index (wallet_repository.go NextIndex).               *)
THEOREM TypeCorrect == Spec => []TypeOK
<1>1. IInv => TypeOK
  BY DEF IInv
<1> QED
  BY <1>1, Invariance, PTL

(* For any number of concurrent wallet creations, failures, seals and      *)
(* restarts, no derivation index of a root is ever used twice.             *)
THEOREM IndexesAreUnique == Spec => []NoIndexReuse
<1>1. IInv => NoIndexReuse
  BY DEF IInv
<1> QED
  BY <1>1, Invariance, PTL

(* The reload after a unique violation (wallet.go 109-119) always finds    *)
(* the user's wallet.                                                      *)
THEOREM ConflictsAreOwn == Spec => []ConflictIsOwnWallet
<1>1. IInv => ConflictIsOwnWallet
  BY DEF IInv
<1> QED
  BY <1>1, Invariance, PTL

(* A wallet that was returned to a client is and stays in the database.    *)
THEOREM WalletsAreStable == Spec => []ReturnedWalletExists
<1>1. IInv => ReturnedWalletExists
  BY DEF IInv
<1> QED
  BY <1>1, Invariance, PTL

(* No plaintext seed outlives the failure of the Create that made it       *)
(* (key_root.go 95-113).                                                   *)
THEOREM SeedsAreRooted == Spec => []NoOrphanSeed
<1>1. IInv => NoOrphanSeed
  BY DEF IInv
<1> QED
  BY <1>1, Invariance, PTL

(* A backup holds every root there was when its export began.              *)
THEOREM BackupsAreComplete == Spec => []BackupComplete
<1>1. IInv => BackupComplete
  BY DEF IInv, ExportInv, BackupComplete
<1> QED
  BY <1>1, Invariance, PTL

(* A backup is restored as a whole or not at all (RestoreKeyRoots).        *)
THEOREM ImportsAreAtomic == Spec => []ImportAllOrNothing
<1>1. IInv => ImportAllOrNothing
  BY DEF IInv, ImportInv, Whole, ImportAllOrNothing
<1> QED
  BY <1>1, Invariance, PTL

-----------------------------------------------------------------------------
(* The services implement the wallet directory.                            *)

(* Initially there is no root and no wallet.                               *)
LEMMA DirectoryInit == Init => D!Init
  BY DEF Init, D!Init

(* A wallet is allocated by the INSERT that succeeds, roots are added by   *)
(* the one of Create and by the commit of an import, and every other step  *)
(* leaves both tables alone.                                               *)
LEMMA DirectoryStep ==
    TypeOK /\ LocalInv /\ NoIndexReuse /\ [Next]_vars => [D!Next]_(D!vars)
<1> SUFFICES ASSUME TypeOK /\ LocalInv /\ NoIndexReuse, [Next]_vars
             PROVE  [D!Next]_(D!vars)
  OBVIOUS
<1> USE KeyRootAssumption DEF dbVars, vaultVars, localVars, Continue, Goto,
    Return, Refuse, Fail
<1>1. ASSUME NEW t \in Threads, Begin(t, "crCheck", NoRoot, NoUser, {}, {})
      PROVE  [D!Next]_(D!vars)
  BY <1>1 DEF Begin, D!vars
<1>2. ASSUME NEW t \in Threads, NEW r \in used, NEW u \in Users, Begin(t,
            "wlLookup", r, u, {}, {})
      PROVE  [D!Next]_(D!vars)
  BY <1>2 DEF Begin, D!vars
<1>3. ASSUME NEW t \in Threads, Begin(t, "exCheck", NoRoot, NoUser, {}, rows)
      PROVE  [D!Next]_(D!vars)
  BY <1>3 DEF Begin, D!vars
<1>4. ASSUME NEW t \in Threads, NEW b \in backups, Begin(t, "imCheck", NoRoot,
            NoUser, b, {})
      PROVE  [D!Next]_(D!vars)
  BY <1>4 DEF Begin, D!vars
<1>5. ASSUME NEW t \in Threads, CreateCheck(t)
      PROVE  [D!Next]_(D!vars)
  BY <1>5 DEF CreateCheck, D!vars
<1>6. ASSUME NEW t \in Threads, CreateSeal(t)
      PROVE  [D!Next]_(D!vars)
  BY <1>6 DEF CreateSeal, IfUnsealed, D!vars
<1>7. ASSUME NEW t \in Threads, CreateStore(t)
      PROVE  [D!Next]_(D!vars)
  BY <1>7 DEF CreateStore, V!CacheSeed, D!vars
<1>8. ASSUME NEW t \in Threads, CreatePersist(t)
      PROVE  [D!Next]_(D!vars)
  <2>1. {root[t]} \in SUBSET Roots
    BY <1>8 DEF CreatePersist, TypeOK, LocalInv, Creating
  <2>2. CASE rows' = rows
    BY <1>8, <2>2 DEF CreatePersist, D!vars
  <2>3. CASE rows' = rows \cup {root[t]}
    <3>1. D!AddRoots({root[t]})
      BY <1>8, <2>3 DEF CreatePersist, D!AddRoots
    <3> QED  BY <2>1, <3>1 DEF D!Next
  <2> QED  BY <1>8, <2>2, <2>3 DEF CreatePersist
<1>9. ASSUME NEW t \in Threads, CreateRollback(t)
      PROVE  [D!Next]_(D!vars)
  BY <1>9 DEF CreateRollback, V!DropSeed, D!vars
<1>10. ASSUME NEW t \in Threads, Lookup(t)
      PROVE  [D!Next]_(D!vars)
  BY <1>10 DEF Lookup, WalletOf, D!vars
<1>11. ASSUME NEW t \in Threads, CheckUnsealed(t)
      PROVE  [D!Next]_(D!vars)
  BY <1>11 DEF CheckUnsealed, IfUnsealed, D!vars
<1>12. ASSUME NEW t \in Threads, LoadRoot(t)
      PROVE  [D!Next]_(D!vars)
  BY <1>12 DEF LoadRoot, D!vars
<1>13. ASSUME NEW t \in Threads, NextIndex(t)
      PROVE  [D!Next]_(D!vars)
  BY <1>13 DEF NextIndex, D!vars
<1>14. ASSUME NEW t \in Threads, UseCachedSeed(t)
      PROVE  [D!Next]_(D!vars)
  BY <1>14 DEF UseCachedSeed, WithSeed, D!vars
<1>15. ASSUME NEW t \in Threads, OpenSeed(t)
      PROVE  [D!Next]_(D!vars)
  BY <1>15 DEF OpenSeed, IfUnsealed, D!vars
<1>16. ASSUME NEW t \in Threads, CacheOpened(t)
      PROVE  [D!Next]_(D!vars)
  BY <1>16 DEF CacheOpened, V!CacheSeed, D!vars
<1>17. ASSUME NEW t \in Threads, UseNewSeed(t)
      PROVE  [D!Next]_(D!vars)
  BY <1>17 DEF UseNewSeed, WithSeed, D!vars
<1>18. ASSUME NEW t \in Threads, DeriveError(t)
      PROVE  [D!Next]_(D!vars)
  BY <1>18 DEF DeriveError, D!vars
<1>19. ASSUME NEW t \in Threads, Insert(t)
      PROVE  [D!Next]_(D!vars)
  <2>1. CASE wallets' = wallets
    BY <1>19, <2>1 DEF Insert, D!vars
  <2>2. CASE ~Conflicts(New(t)) /\ wallets' = wallets \cup {New(t)}
    <3>1. root[t] \in Roots /\ user[t] \in Users /\ root[t] \in rows
      BY <1>19, LocalRoots DEF Insert, Allocated
    <3>2. index[t] \in 0..(MaxIndex - 1)
      BY <1>19, <3>1 DEF Insert, TypeOK, NoIndexReuse, Allocated
    <3>3. New(t) \in D!Wallet
      BY <3>1, <3>2 DEF New, D!Wallet
    <3>4. D!Allocate(New(t))
      BY <1>19, <2>2, <3>1 DEF Insert, D!Allocate, Conflicts, New
    <3> QED  BY <3>3, <3>4 DEF D!Next
  <2> QED  BY <1>19, <2>1, <2>2 DEF Insert
<1>20. ASSUME NEW t \in Threads, Reload(t)
      PROVE  [D!Next]_(D!vars)
  BY <1>20 DEF Reload, WalletOf, D!vars
<1>21. ASSUME NEW t \in Threads, ExportCheck(t)
      PROVE  [D!Next]_(D!vars)
  BY <1>21 DEF ExportCheck, IfUnsealed, D!vars
<1>22. ASSUME NEW t \in Threads, ExportList(t)
      PROVE  [D!Next]_(D!vars)
  BY <1>22 DEF ExportList, D!vars
<1>23. ASSUME NEW t \in Threads, ExportSeed(t)
      PROVE  [D!Next]_(D!vars)
  BY <1>23 DEF ExportSeed, Packed, Take, D!vars
<1>24. ASSUME NEW t \in Threads, ExportOpen(t)
      PROVE  [D!Next]_(D!vars)
  BY <1>24 DEF ExportOpen, Packed, D!vars
<1>25. ASSUME NEW t \in Threads, ExportDone(t)
      PROVE  [D!Next]_(D!vars)
  BY <1>25 DEF ExportDone, D!vars
<1>26. ASSUME NEW t \in Threads, ImportCheck(t)
      PROVE  [D!Next]_(D!vars)
  BY <1>26 DEF ImportCheck, IfUnsealed, D!vars
<1>27. ASSUME NEW t \in Threads, ImportSeal(t)
      PROVE  [D!Next]_(D!vars)
  BY <1>27 DEF ImportSeal, D!vars
<1>28. ASSUME NEW t \in Threads, ImportRead(t)
      PROVE  [D!Next]_(D!vars)
  BY <1>28 DEF ImportRead, Handled, Take, D!vars
<1>29. ASSUME NEW t \in Threads, ImportInsert(t)
      PROVE  [D!Next]_(D!vars)
  BY <1>29 DEF ImportInsert, Handled, D!vars
<1>30. ASSUME NEW t \in Threads, ImportCommit(t)
      PROVE  [D!Next]_(D!vars)
  <2>1. open[t] \in SUBSET Roots
    BY <1>30 DEF ImportCommit, TypeOK, LocalInv, Creating
  <2>2. CASE rows' = rows
    BY <1>30, <2>2 DEF ImportCommit, D!vars
  <2>3. CASE rows' = rows \cup open[t]
    <3>1. D!AddRoots(open[t])
      BY <1>30, <2>3 DEF ImportCommit, D!AddRoots
    <3> QED  BY <2>1, <3>1 DEF D!Next
  <2> QED  BY <1>30, <2>2, <2>3 DEF ImportCommit
<1>31. ASSUME NEW t \in Threads, ImportDrop(t)
      PROVE  [D!Next]_(D!vars)
  BY <1>31 DEF ImportDrop, Handled, V!DropSeed, D!vars
<1>32. ASSUME NEW t \in Threads, ImportDone(t)
      PROVE  [D!Next]_(D!vars)
  BY <1>32 DEF ImportDone, D!vars
<1>33. ASSUME NEW t \in Threads, DbError(t)
      PROVE  [D!Next]_(D!vars)
  BY <1>33 DEF DbError, D!vars
<1>34. ASSUME SealVault
      PROVE  [D!Next]_(D!vars)
  BY <1>34 DEF SealVault, V!Seal, D!vars
<1>35. ASSUME UnsealVault
      PROVE  [D!Next]_(D!vars)
  BY <1>35 DEF UnsealVault, V!Unseal, D!vars
<1>36. ASSUME Crash
      PROVE  [D!Next]_(D!vars)
  BY <1>36 DEF Crash, D!vars
<1>37. CASE UNCHANGED vars
  BY <1>37 DEF vars, D!vars
<1> QED  BY <1>1, <1>2, <1>3, <1>4, <1>5, <1>6, <1>7, <1>8, <1>9, <1>10,
    <1>11, <1>12, <1>13, <1>14, <1>15, <1>16, <1>17, <1>18, <1>19, <1>20,
    <1>21, <1>22, <1>23, <1>24, <1>25, <1>26, <1>27, <1>28, <1>29, <1>30,
    <1>31, <1>32, <1>33, <1>34, <1>35, <1>36, <1>37 DEF Next, Request,
    CreateRoot, CreateWallet, Export, Import

(* The services of key_root.go, wallet.go and recovery.go implement the    *)
(* wallet directory.                                                       *)
THEOREM RefinesDirectory == Spec => ImplementsDirectory
<1>1. IInv /\ [Next]_vars => [D!Next]_(D!vars)
  BY DirectoryStep DEF IInv
<1> QED
  BY <1>1, DirectoryInit, Invariance, PTL DEF Spec, ImplementsDirectory, D!Spec
=============================================================================
