------------------------- MODULE SecretStoreProofs -------------------------
(***************************************************************************)
(* For any set of goroutines, secrets and roots and any key count: the     *)
(* safety properties of SecretStore and that it implements Vault.  The     *)
(* argument is one inductive invariant, IInv, preserved part by part.      *)
(***************************************************************************)
EXTENDS SecretStore, TLAPS, FiniteSetTheorems

(* The sets of secrets the store can reach are sets of secrets.             *)
LEMMA OwnedTypes ==
    ASSUME TypeOK
    PROVE  /\ PendingKeys \subseteq Secrets
           /\ CachedSeeds \subseteq Secrets
           /\ StoreOwns \subseteq Secrets
           /\ Detached \subseteq Secrets
  BY DEF TypeOK, PendingKeys, CachedSeeds, StoreOwns, Detached, Filled

(* While no derivation runs, a slot in range leaves room for one more key.  *)
LEMMA SubmitBound ==
    ASSUME TypeOK, AttemptInv, mu = NoThread, NEW k \in 1..required
    PROVE  submitted + 1 <= required
  BY DEF TypeOK, AttemptInv, MuFree

(* What it is to be owned by the store, before and after a step.            *)
LEMMA InStore ==
    ASSUME NEW s \in Secrets
    PROVE  /\ s \in StoreOwns <=> \/ \E k \in Slots : unsealKeys[k] = s
                                  \/ \E r \in Roots : seeds[r] = s
                                  \/ vek = s
           /\ s \in StoreOwns' <=> \/ \E k \in Slots : unsealKeys'[k] = s
                                   \/ \E r \in Roots : seeds'[r] = s
                                   \/ vek' = s
  BY NullAssumption DEF StoreOwns, PendingKeys, CachedSeeds, Filled

(* A thread that is in no destruction loop has nothing to destroy.          *)
LEMMA NothingDoomed ==
    ASSUME LoopInv, NEW t \in Threads, pc[t] \notin Destroying
    PROVE  doomed[t] = {}
  BY DEF LoopInv

(* What the others have detached stays detached while t, which had nothing  *)
(* to destroy, takes a step.                                                *)
LEMMA DetachedGrows ==
    ASSUME NEW t \in Threads, doomed[t] = {},
           \A u \in Threads \ {t} : pc'[u] = pc[u] /\ doomed'[u] = doomed[u]
    PROVE  Detached \subseteq Detached'
<1> SUFFICES ASSUME NEW s \in Detached PROVE s \in Detached'
  OBVIOUS
<1>1. PICK u \in Threads : pc[u] # "refused" /\ s \in doomed[u]
  BY DEF Detached
<1>2. u # t
  BY <1>1
<1>3. pc'[u] # "refused" /\ s \in doomed'[u]
  BY <1>1, <1>2
<1> QED
  BY <1>3 DEF Detached

(* The key count is fixed only before any key was submitted.                *)
LEMMA ConfigureEmpty ==
    ASSUME AttemptInv, NEW t \in Threads, NEW n \in Slots, Configure(t, n)
    PROVE  Filled = {} /\ Filled' = {}
  BY DEF AttemptInv, Configure, Filled

(* Every step preserves the types.                                          *)
LEMMA TypeStep == TypeOK /\ CallInv /\ AttemptInv /\ [Next]_vars => TypeOK'
<1> SUFFICES ASSUME TypeOK /\ CallInv /\ AttemptInv, [Next]_vars PROVE TypeOK'
  OBVIOUS
<1> USE MaxKeysAssumption, NullAssumption DEF TypeOK, Slots, Kinds, Steps, Destroying,
    storeVars, callVars
<1>1. ASSUME NEW t \in Threads, NEW n \in Slots, Configure(t, n)
      PROVE  TypeOK'
  BY <1>1 DEF Configure, MuFree
<1>2. ASSUME NEW t \in Threads, NEW k \in 0..MaxKeys, NEW s \in Secrets,
            SubmitCall(t, k, s)
      PROVE  TypeOK'
  BY <1>2 DEF SubmitCall, Fresh
<1>3. ASSUME NEW t \in Threads, NEW s \in Secrets, NEW kind \in {"unsealKey",
            "seed"}, RefuseEarly(t, s, kind)
      PROVE  TypeOK'
  BY <1>3 DEF RefuseEarly, Fresh
<1>4. ASSUME NEW t \in Threads, NEW r \in Roots, NEW s \in Secrets,
            StoreSeedCall(t, r, s)
      PROVE  TypeOK'
  BY <1>4 DEF StoreSeedCall, Fresh
<1>5. ASSUME NEW t \in Threads, NEW r \in Roots, RemoveSeed(t, r)
      PROVE  TypeOK'
  BY <1>5 DEF RemoveSeed, MuFree
<1>6. ASSUME NEW t \in Threads, NEW r \in Roots, WithKeyRootSeed(t, r)
      PROVE  TypeOK'
  BY <1>6 DEF WithKeyRootSeed, ReadPointer, MuFree
<1>7. ASSUME NEW t \in Threads, WithVaultEncryptionKey(t)
      PROVE  TypeOK'
  BY <1>7 DEF WithVaultEncryptionKey, ReadPointer, MuFree
<1>8. ASSUME NEW t \in Threads, Reset(t)
      PROVE  TypeOK'
  BY <1>8, OwnedTypes DEF Reset, TakeUnsealKeys, MuFree
<1>9. ASSUME NEW t \in Threads, Clear(t)
      PROVE  TypeOK'
  BY <1>9, OwnedTypes DEF Clear, TakeUnsealKeys, MuFree
<1>10. ASSUME NEW t \in Threads, SubmitReject(t)
      PROVE  TypeOK'
  BY <1>10 DEF SubmitReject, Refuse, MuFree, CallInv
<1>11. ASSUME NEW t \in Threads, SubmitStore(t)
      PROVE  TypeOK'
  BY <1>11 DEF SubmitStore, SubmitSlot, Acceptable, MuFree
<1>12. ASSUME NEW t \in Threads, SubmitLast(t)
      PROVE  TypeOK'
  <2>1. submitted + 1 <= required
    BY <1>12, SubmitBound DEF SubmitLast, SubmitSlot, Acceptable, MuFree
  <2> QED
    BY <1>12, <2>1 DEF SubmitLast, SubmitSlot, Acceptable
<1>13. ASSUME NEW t \in Threads, StoreSeedReject(t)
      PROVE  TypeOK'
  BY <1>13 DEF StoreSeedReject, Refuse, MuFree, CallInv
<1>14. ASSUME NEW t \in Threads, StoreSeedKeep(t)
      PROVE  TypeOK'
  BY <1>14 DEF StoreSeedKeep, SeedAcceptable, MuFree, CallInv
<1>15. ASSUME NEW t \in Threads, Reenter(t)
      PROVE  TypeOK'
  BY <1>15 DEF Reenter, MuFree
<1>16. ASSUME NEW t \in Threads, Enter(t)
      PROVE  TypeOK'
  <2>1. PICK next \in {"callback", "reenter"} : pc' = [pc EXCEPT ![t] = next]
    BY <1>16 DEF Enter
  <2> QED  BY <1>16, <2>1 DEF Enter
<1>17. ASSUME NEW t \in Threads, EnterDestroyed(t)
      PROVE  TypeOK'
  BY <1>17 DEF EnterDestroyed
<1>18. ASSUME NEW t \in Threads, DeriveRead(t)
      PROVE  TypeOK'
  BY <1>18 DEF DeriveRead
<1>19. ASSUME NEW t \in Threads, NEW s \in Secrets, Destroy(t, s)
      PROVE  TypeOK'
  BY <1>19 DEF Destroy
<1>20. ASSUME NEW t \in Threads, DeriveFail(t)
      PROVE  TypeOK'
  BY <1>20, OwnedTypes DEF DeriveFail, LeaveDerivation, TakeUnsealKeys
<1>21. ASSUME NEW t \in Threads, NEW s \in Secrets, DeriveDone(t, s)
      PROVE  TypeOK'
  BY <1>21, OwnedTypes DEF DeriveDone, LeaveDerivation, TakeUnsealKeys, Fresh
<1>22. ASSUME NEW t \in Threads, Leave(t)
      PROVE  TypeOK'
  BY <1>22 DEF Leave
<1>23. ASSUME NEW t \in Threads, Return(t)
      PROVE  TypeOK'
  BY <1>23 DEF Return
<1>24. CASE UNCHANGED vars
  BY <1>24 DEF vars
<1> HIDE DEF TypeOK
<1> QED
  BY <1>1, <1>2, <1>3, <1>4, <1>5, <1>6, <1>7, <1>8, <1>9, <1>10, <1>11, <1>12,
      <1>13, <1>14, <1>15, <1>16, <1>17, <1>18, <1>19, <1>20, <1>21, <1>22,
      <1>23, <1>24
  DEF Next, Step, Call, StoreSection, SecretSection

(* Every step keeps what the store holds live, of its kind and held once.   *)
LEMMA StoreStep == IInv /\ [Next]_vars => StoreInv'
<1> SUFFICES ASSUME IInv, [Next]_vars PROVE StoreInv'
  OBVIOUS
<1> USE MaxKeysAssumption, NullAssumption DEF TypeOK, Slots, Kinds, Steps, Destroying,
    storeVars, callVars, IInv, StoreInv, CallInv, LoopInv, StoreOwns,
    PendingKeys, CachedSeeds, Filled
<1>1. ASSUME NEW t \in Threads, NEW n \in Slots, Configure(t, n)
      PROVE  StoreInv'
  BY <1>1 DEF Configure, MuFree
<1>2. ASSUME NEW t \in Threads, NEW k \in 0..MaxKeys, NEW s \in Secrets,
            SubmitCall(t, k, s)
      PROVE  StoreInv'
  BY <1>2 DEF SubmitCall, Fresh
<1>3. ASSUME NEW t \in Threads, NEW s \in Secrets, NEW kind \in {"unsealKey",
            "seed"}, RefuseEarly(t, s, kind)
      PROVE  StoreInv'
  BY <1>3 DEF RefuseEarly, Fresh
<1>4. ASSUME NEW t \in Threads, NEW r \in Roots, NEW s \in Secrets,
            StoreSeedCall(t, r, s)
      PROVE  StoreInv'
  BY <1>4 DEF StoreSeedCall, Fresh
<1>5. ASSUME NEW t \in Threads, NEW r \in Roots, RemoveSeed(t, r)
      PROVE  StoreInv'
  BY <1>5 DEF RemoveSeed, MuFree
<1>6. ASSUME NEW t \in Threads, NEW r \in Roots, WithKeyRootSeed(t, r)
      PROVE  StoreInv'
  BY <1>6 DEF WithKeyRootSeed, ReadPointer, MuFree
<1>7. ASSUME NEW t \in Threads, WithVaultEncryptionKey(t)
      PROVE  StoreInv'
  BY <1>7 DEF WithVaultEncryptionKey, ReadPointer, MuFree
<1>8. ASSUME NEW t \in Threads, Reset(t)
      PROVE  StoreInv'
  BY <1>8 DEF Reset, TakeUnsealKeys, MuFree
<1>9. ASSUME NEW t \in Threads, Clear(t)
      PROVE  StoreInv'
  BY <1>9 DEF Clear, TakeUnsealKeys, MuFree
<1>10. ASSUME NEW t \in Threads, SubmitReject(t)
      PROVE  StoreInv'
  BY <1>10 DEF SubmitReject, Refuse, MuFree
<1>11. ASSUME NEW t \in Threads, SubmitStore(t)
      PROVE  StoreInv'
  BY <1>11 DEF SubmitStore, SubmitSlot, Acceptable, MuFree
<1>12. ASSUME NEW t \in Threads, SubmitLast(t)
      PROVE  StoreInv'
  BY <1>12 DEF SubmitLast, SubmitSlot, Acceptable, MuFree
<1>13. ASSUME NEW t \in Threads, StoreSeedReject(t)
      PROVE  StoreInv'
  BY <1>13 DEF StoreSeedReject, Refuse, MuFree
<1>14. ASSUME NEW t \in Threads, StoreSeedKeep(t)
      PROVE  StoreInv'
  BY <1>14 DEF StoreSeedKeep, SeedAcceptable, MuFree
<1>15. ASSUME NEW t \in Threads, Reenter(t)
      PROVE  StoreInv'
  BY <1>15 DEF Reenter, MuFree
<1>16. ASSUME NEW t \in Threads, Enter(t)
      PROVE  StoreInv'
  BY <1>16 DEF Enter
<1>17. ASSUME NEW t \in Threads, EnterDestroyed(t)
      PROVE  StoreInv'
  BY <1>17 DEF EnterDestroyed
<1>18. ASSUME NEW t \in Threads, DeriveRead(t)
      PROVE  StoreInv'
  BY <1>18 DEF DeriveRead
<1>19. ASSUME NEW t \in Threads, NEW s \in Secrets, Destroy(t, s)
      PROVE  StoreInv'
  BY <1>19 DEF Destroy
<1>20. ASSUME NEW t \in Threads, DeriveFail(t)
      PROVE  StoreInv'
  BY <1>20 DEF DeriveFail, LeaveDerivation, TakeUnsealKeys
<1>21. ASSUME NEW t \in Threads, NEW s \in Secrets, DeriveDone(t, s)
      PROVE  StoreInv'
  BY <1>21 DEF DeriveDone, LeaveDerivation, TakeUnsealKeys, Fresh
<1>22. ASSUME NEW t \in Threads, Leave(t)
      PROVE  StoreInv'
  BY <1>22 DEF Leave
<1>23. ASSUME NEW t \in Threads, Return(t)
      PROVE  StoreInv'
  BY <1>23 DEF Return
<1>24. CASE UNCHANGED vars
  BY <1>24 DEF vars
<1> QED
  BY <1>1, <1>2, <1>3, <1>4, <1>5, <1>6, <1>7, <1>8, <1>9, <1>10, <1>11, <1>12,
      <1>13, <1>14, <1>15, <1>16, <1>17, <1>18, <1>19, <1>20, <1>21, <1>22,
      <1>23, <1>24
  DEF Next, Step, Call, StoreSection, SecretSection

(* Every step keeps a handed-over secret the property of its call alone.    *)
LEMMA CallStep == IInv /\ [Next]_vars => CallInv'
<1> SUFFICES ASSUME IInv, [Next]_vars PROVE CallInv'
  OBVIOUS
<1> USE MaxKeysAssumption, NullAssumption DEF TypeOK, Slots, Kinds, Steps, Destroying,
    storeVars, callVars, IInv, StoreInv, CallInv, LoopInv, StoreOwns,
    PendingKeys, CachedSeeds, Filled
<1>1. ASSUME NEW t \in Threads, NEW n \in Slots, Configure(t, n)
      PROVE  CallInv'
  BY <1>1 DEF Configure, MuFree
<1>2. ASSUME NEW t \in Threads, NEW k \in 0..MaxKeys, NEW s \in Secrets,
            SubmitCall(t, k, s)
      PROVE  CallInv'
  BY <1>2 DEF SubmitCall, Fresh
<1>3. ASSUME NEW t \in Threads, NEW s \in Secrets, NEW kind \in {"unsealKey",
            "seed"}, RefuseEarly(t, s, kind)
      PROVE  CallInv'
  BY <1>3 DEF RefuseEarly, Fresh
<1>4. ASSUME NEW t \in Threads, NEW r \in Roots, NEW s \in Secrets,
            StoreSeedCall(t, r, s)
      PROVE  CallInv'
  BY <1>4 DEF StoreSeedCall, Fresh
<1>5. ASSUME NEW t \in Threads, NEW r \in Roots, RemoveSeed(t, r)
      PROVE  CallInv'
  BY <1>5 DEF RemoveSeed, MuFree
<1>6. ASSUME NEW t \in Threads, NEW r \in Roots, WithKeyRootSeed(t, r)
      PROVE  CallInv'
  BY <1>6 DEF WithKeyRootSeed, ReadPointer, MuFree
<1>7. ASSUME NEW t \in Threads, WithVaultEncryptionKey(t)
      PROVE  CallInv'
  BY <1>7 DEF WithVaultEncryptionKey, ReadPointer, MuFree
<1>8. ASSUME NEW t \in Threads, Reset(t)
      PROVE  CallInv'
  BY <1>8 DEF Reset, TakeUnsealKeys, MuFree
<1>9. ASSUME NEW t \in Threads, Clear(t)
      PROVE  CallInv'
  BY <1>9 DEF Clear, TakeUnsealKeys, MuFree
<1>10. ASSUME NEW t \in Threads, SubmitReject(t)
      PROVE  CallInv'
  BY <1>10 DEF SubmitReject, Refuse, MuFree
<1>11. ASSUME NEW t \in Threads, SubmitStore(t)
      PROVE  CallInv'
  BY <1>11 DEF SubmitStore, SubmitSlot, Acceptable, MuFree
<1>12. ASSUME NEW t \in Threads, SubmitLast(t)
      PROVE  CallInv'
  BY <1>12 DEF SubmitLast, SubmitSlot, Acceptable, MuFree
<1>13. ASSUME NEW t \in Threads, StoreSeedReject(t)
      PROVE  CallInv'
  BY <1>13 DEF StoreSeedReject, Refuse, MuFree
<1>14. ASSUME NEW t \in Threads, StoreSeedKeep(t)
      PROVE  CallInv'
  BY <1>14 DEF StoreSeedKeep, SeedAcceptable, MuFree
<1>15. ASSUME NEW t \in Threads, Reenter(t)
      PROVE  CallInv'
  BY <1>15 DEF Reenter, MuFree
<1>16. ASSUME NEW t \in Threads, Enter(t)
      PROVE  CallInv'
  BY <1>16 DEF Enter
<1>17. ASSUME NEW t \in Threads, EnterDestroyed(t)
      PROVE  CallInv'
  BY <1>17 DEF EnterDestroyed
<1>18. ASSUME NEW t \in Threads, DeriveRead(t)
      PROVE  CallInv'
  BY <1>18 DEF DeriveRead
<1>19. ASSUME NEW t \in Threads, NEW s \in Secrets, Destroy(t, s)
      PROVE  CallInv'
  BY <1>19 DEF Destroy
<1>20. ASSUME NEW t \in Threads, DeriveFail(t)
      PROVE  CallInv'
  BY <1>20 DEF DeriveFail, LeaveDerivation, TakeUnsealKeys
<1>21. ASSUME NEW t \in Threads, NEW s \in Secrets, DeriveDone(t, s)
      PROVE  CallInv'
  BY <1>21 DEF DeriveDone, LeaveDerivation, TakeUnsealKeys, Fresh
<1>22. ASSUME NEW t \in Threads, Leave(t)
      PROVE  CallInv'
  BY <1>22 DEF Leave
<1>23. ASSUME NEW t \in Threads, Return(t)
      PROVE  CallInv'
  BY <1>23 DEF Return
<1>24. CASE UNCHANGED vars
  BY <1>24 DEF vars
<1> QED
  BY <1>1, <1>2, <1>3, <1>4, <1>5, <1>6, <1>7, <1>8, <1>9, <1>10, <1>11, <1>12,
      <1>13, <1>14, <1>15, <1>16, <1>17, <1>18, <1>19, <1>20, <1>21, <1>22,
      <1>23, <1>24
  DEF Next, Step, Call, StoreSection, SecretSection

(* Every step keeps a detached secret the property of its destroyer alone.  *)
LEMMA LoopStep == IInv /\ [Next]_vars => LoopInv'
<1> SUFFICES ASSUME IInv, [Next]_vars PROVE LoopInv'
  OBVIOUS
<1> USE MaxKeysAssumption, NullAssumption DEF TypeOK, Slots, Kinds, Steps, Destroying,
    storeVars, callVars, IInv, StoreInv, CallInv, LoopInv, StoreOwns,
    PendingKeys, CachedSeeds, Filled
<1>1. ASSUME NEW t \in Threads, NEW n \in Slots, Configure(t, n)
      PROVE  LoopInv'
  BY <1>1 DEF Configure, MuFree
<1>2. ASSUME NEW t \in Threads, NEW k \in 0..MaxKeys, NEW s \in Secrets,
            SubmitCall(t, k, s)
      PROVE  LoopInv'
  BY <1>2 DEF SubmitCall, Fresh
<1>3. ASSUME NEW t \in Threads, NEW s \in Secrets, NEW kind \in {"unsealKey",
            "seed"}, RefuseEarly(t, s, kind)
      PROVE  LoopInv'
  BY <1>3 DEF RefuseEarly, Fresh
<1>4. ASSUME NEW t \in Threads, NEW r \in Roots, NEW s \in Secrets,
            StoreSeedCall(t, r, s)
      PROVE  LoopInv'
  BY <1>4 DEF StoreSeedCall, Fresh
<1>5. ASSUME NEW t \in Threads, NEW r \in Roots, RemoveSeed(t, r)
      PROVE  LoopInv'
  BY <1>5 DEF RemoveSeed, MuFree
<1>6. ASSUME NEW t \in Threads, NEW r \in Roots, WithKeyRootSeed(t, r)
      PROVE  LoopInv'
  BY <1>6 DEF WithKeyRootSeed, ReadPointer, MuFree
<1>7. ASSUME NEW t \in Threads, WithVaultEncryptionKey(t)
      PROVE  LoopInv'
  BY <1>7 DEF WithVaultEncryptionKey, ReadPointer, MuFree
<1>8. ASSUME NEW t \in Threads, Reset(t)
      PROVE  LoopInv'
  BY <1>8 DEF Reset, TakeUnsealKeys, MuFree
<1>9. ASSUME NEW t \in Threads, Clear(t)
      PROVE  LoopInv'
  BY <1>9 DEF Clear, TakeUnsealKeys, MuFree
<1>10. ASSUME NEW t \in Threads, SubmitReject(t)
      PROVE  LoopInv'
  BY <1>10 DEF SubmitReject, Refuse, MuFree
<1>11. ASSUME NEW t \in Threads, SubmitStore(t)
      PROVE  LoopInv'
  BY <1>11 DEF SubmitStore, SubmitSlot, Acceptable, MuFree
<1>12. ASSUME NEW t \in Threads, SubmitLast(t)
      PROVE  LoopInv'
  BY <1>12 DEF SubmitLast, SubmitSlot, Acceptable, MuFree
<1>13. ASSUME NEW t \in Threads, StoreSeedReject(t)
      PROVE  LoopInv'
  BY <1>13 DEF StoreSeedReject, Refuse, MuFree
<1>14. ASSUME NEW t \in Threads, StoreSeedKeep(t)
      PROVE  LoopInv'
  BY <1>14 DEF StoreSeedKeep, SeedAcceptable, MuFree
<1>15. ASSUME NEW t \in Threads, Reenter(t)
      PROVE  LoopInv'
  BY <1>15 DEF Reenter, MuFree
<1>16. ASSUME NEW t \in Threads, Enter(t)
      PROVE  LoopInv'
  BY <1>16 DEF Enter
<1>17. ASSUME NEW t \in Threads, EnterDestroyed(t)
      PROVE  LoopInv'
  BY <1>17 DEF EnterDestroyed
<1>18. ASSUME NEW t \in Threads, DeriveRead(t)
      PROVE  LoopInv'
  BY <1>18 DEF DeriveRead
<1>19. ASSUME NEW t \in Threads, NEW s \in Secrets, Destroy(t, s)
      PROVE  LoopInv'
  BY <1>19 DEF Destroy
<1>20. ASSUME NEW t \in Threads, DeriveFail(t)
      PROVE  LoopInv'
  BY <1>20 DEF DeriveFail, LeaveDerivation, TakeUnsealKeys
<1>21. ASSUME NEW t \in Threads, NEW s \in Secrets, DeriveDone(t, s)
      PROVE  LoopInv'
  BY <1>21 DEF DeriveDone, LeaveDerivation, TakeUnsealKeys, Fresh
<1>22. ASSUME NEW t \in Threads, Leave(t)
      PROVE  LoopInv'
  BY <1>22 DEF Leave
<1>23. ASSUME NEW t \in Threads, Return(t)
      PROVE  LoopInv'
  BY <1>23 DEF Return
<1>24. CASE UNCHANGED vars
  BY <1>24 DEF vars
<1> QED
  BY <1>1, <1>2, <1>3, <1>4, <1>5, <1>6, <1>7, <1>8, <1>9, <1>10, <1>11, <1>12,
      <1>13, <1>14, <1>15, <1>16, <1>17, <1>18, <1>19, <1>20, <1>21, <1>22,
      <1>23, <1>24
  DEF Next, Step, Call, StoreSection, SecretSection

\* s has an owner, written out for the prover.
Owned(s) ==
    \/ \E k \in Slots : unsealKeys[k] = s
    \/ \E r \in Roots : seeds[r] = s
    \/ vek = s
    \/ \E u \in Threads : own[u] = s \/ s \in doomed[u]

(* Owned is the conclusion of NoLeak, before and after a step.              *)
LEMMA OwnedNow ==
    ASSUME NEW s \in Secrets
    PROVE  /\ Owned(s) <=>
                \/ s \in StoreOwns
                \/ \E t \in Threads : own[t] = s \/ s \in doomed[t]
           /\ Owned(s)' <=>
                \/ s \in StoreOwns'
                \/ \E t \in Threads : own'[t] = s \/ s \in doomed'[t]
  BY NullAssumption DEF Owned, StoreOwns, PendingKeys, CachedSeeds, Filled
(* No step leaves a live secret without an owner.                           *)
LEMMA NoLeakStep == IInv /\ [Next]_vars => NoLeak'
<1> SUFFICES ASSUME IInv, [Next]_vars, NEW x \in Secrets, region'[x] # "nil"
             PROVE  Owned(x)'
    BY OwnedNow DEF NoLeak, Live
<1>a. region[x] # "nil" => Owned(x)
    BY OwnedNow DEF IInv, NoLeak, Live
<1>b. TypeOK
    BY DEF IInv
<1>c. \A t \in Threads : pc[t] \in {"idle", "submit", "storeSeed", "derive"} =>
          doomed[t] = {}
    BY NothingDoomed DEF IInv, Destroying
<1> USE NullAssumption DEF TypeOK, Slots, storeVars, callVars, Owned
<1>1. ASSUME NEW t \in Threads, NEW n \in Slots, Configure(t, n)
      PROVE  Owned(x)'
  BY <1>a, <1>b, <1>1, ConfigureEmpty DEF Configure, MuFree, IInv, Filled
<1>2. ASSUME NEW t \in Threads, NEW k \in 0..MaxKeys, NEW s \in Secrets,
            SubmitCall(t, k, s)
      PROVE  Owned(x)'
  BY <1>a, <1>b, <1>2 DEF SubmitCall, Fresh, IInv, CallInv
<1>3. ASSUME NEW t \in Threads, NEW s \in Secrets, NEW kind \in {"unsealKey",
            "seed"}, RefuseEarly(t, s, kind)
      PROVE  Owned(x)'
  BY <1>a, <1>b, <1>c, <1>3 DEF RefuseEarly, Fresh
<1>4. ASSUME NEW t \in Threads, NEW r \in Roots, NEW s \in Secrets,
            StoreSeedCall(t, r, s)
      PROVE  Owned(x)'
  BY <1>a, <1>b, <1>4 DEF StoreSeedCall, Fresh, IInv, CallInv
<1>5. ASSUME NEW t \in Threads, NEW r \in Roots, RemoveSeed(t, r)
      PROVE  Owned(x)'
  BY <1>a, <1>b, <1>c, <1>5 DEF RemoveSeed, MuFree
<1>6. ASSUME NEW t \in Threads, NEW r \in Roots, WithKeyRootSeed(t, r)
      PROVE  Owned(x)'
  BY <1>a, <1>b, <1>6 DEF WithKeyRootSeed, ReadPointer, MuFree
<1>7. ASSUME NEW t \in Threads, WithVaultEncryptionKey(t)
      PROVE  Owned(x)'
  BY <1>a, <1>b, <1>7 DEF WithVaultEncryptionKey, ReadPointer, MuFree
<1>8. ASSUME NEW t \in Threads, Reset(t)
      PROVE  Owned(x)'
  <2>1. doomed[t] = {} /\ doomed' = [doomed EXCEPT ![t] = PendingKeys]
    BY <1>b, <1>c, <1>8 DEF Reset
  <2>2. \A k \in Slots : unsealKeys[k] = x => x \in PendingKeys
    BY DEF PendingKeys, Filled
  <2> QED
    BY <1>a, <1>b, <1>a, <1>b, <1>8, <2>1, <2>2 DEF Reset
<1>9. ASSUME NEW t \in Threads, Clear(t)
      PROVE  Owned(x)'
  <2>1. x \in StoreOwns \/ (\E u \in Threads : own[u] = x \/ x \in doomed[u])
    BY <1>a, <1>b, <1>9, InStore DEF Clear
  <2>2. doomed[t] = {}
    BY <1>c, <1>9 DEF Clear
  <2>3. doomed'[t] = StoreOwns /\ own' = own
        /\ \A u \in Threads \ {t} : doomed'[u] = doomed[u]
    BY <1>b, <1>9 DEF Clear
  <2> QED
    BY <2>1, <2>2, <2>3
<1>10. ASSUME NEW t \in Threads, SubmitReject(t)
      PROVE  Owned(x)'
  BY <1>a, <1>b, <1>c, <1>10 DEF SubmitReject, Refuse, MuFree, IInv, CallInv
<1>11. ASSUME NEW t \in Threads, SubmitStore(t)
      PROVE  Owned(x)'
  BY <1>a, <1>b, <1>11 DEF SubmitStore, SubmitSlot, Acceptable, MuFree
<1>12. ASSUME NEW t \in Threads, SubmitLast(t)
      PROVE  Owned(x)'
  BY <1>a, <1>b, <1>12 DEF SubmitLast, SubmitSlot, Acceptable, MuFree
<1>13. ASSUME NEW t \in Threads, StoreSeedReject(t)
      PROVE  Owned(x)'
  BY <1>a, <1>b, <1>c, <1>13 DEF StoreSeedReject, Refuse, MuFree, IInv, CallInv
<1>14. ASSUME NEW t \in Threads, StoreSeedKeep(t)
      PROVE  Owned(x)'
  BY <1>a, <1>b, <1>14 DEF StoreSeedKeep, SeedAcceptable, MuFree, IInv, CallInv
<1>15. ASSUME NEW t \in Threads, Reenter(t)
      PROVE  Owned(x)'
  BY <1>a, <1>b, <1>15 DEF Reenter, MuFree
<1>16. ASSUME NEW t \in Threads, Enter(t)
      PROVE  Owned(x)'
  BY <1>a, <1>b, <1>16 DEF Enter
<1>17. ASSUME NEW t \in Threads, EnterDestroyed(t)
      PROVE  Owned(x)'
  BY <1>a, <1>b, <1>17 DEF EnterDestroyed
<1>18. ASSUME NEW t \in Threads, DeriveRead(t)
      PROVE  Owned(x)'
  BY <1>a, <1>b, <1>18 DEF DeriveRead
<1>19. ASSUME NEW t \in Threads, NEW s \in Secrets, Destroy(t, s)
      PROVE  Owned(x)'
  BY <1>a, <1>b, <1>19 DEF Destroy
<1>20. ASSUME NEW t \in Threads, DeriveFail(t)
      PROVE  Owned(x)'
  BY <1>a, <1>b, <1>c, <1>20
     DEF DeriveFail, LeaveDerivation, TakeUnsealKeys, PendingKeys, Filled
<1>21. ASSUME NEW t \in Threads, NEW s \in Secrets, DeriveDone(t, s)
      PROVE  Owned(x)'
  <2>1. vek = NoSecret
    BY <1>b, <1>21 DEF DeriveDone, IInv, AttemptInv
  <2>2. doomed[t] = {} /\ doomed' = [doomed EXCEPT ![t] = PendingKeys]
    BY <1>b, <1>c, <1>21 DEF DeriveDone, LeaveDerivation
  <2>3. \A k \in Slots : unsealKeys[k] = x => x \in PendingKeys
    BY DEF PendingKeys, Filled
  <2>4. x = s => vek' = x
    BY <1>21 DEF DeriveDone
  <2>5. x # s => region[x] # "nil"
    BY <1>b, <1>21 DEF DeriveDone
  <2> QED
    BY <1>a, <1>b, <1>21, <2>1, <2>2, <2>3, <2>4, <2>5
       DEF DeriveDone, LeaveDerivation
<1>22. ASSUME NEW t \in Threads, Leave(t)
      PROVE  Owned(x)'
  BY <1>a, <1>b, <1>22 DEF Leave
<1>23. ASSUME NEW t \in Threads, Return(t)
      PROVE  Owned(x)'
  BY <1>a, <1>b, <1>23 DEF Return
<1>24. CASE UNCHANGED vars
  BY <1>a, <1>b, <1>24 DEF vars
<1> QED
  BY <1>a, <1>b, <1>1, <1>2, <1>3, <1>4, <1>5, <1>6, <1>7, <1>8, <1>9, <1>10,
      <1>11, <1>12, <1>13, <1>14, <1>15, <1>16, <1>17, <1>18, <1>19, <1>20,
      <1>21, <1>22, <1>23, <1>24
  DEF Next, Step, Call, StoreSection, SecretSection

(* Every step keeps the mutexes of secrets with the running callbacks.      *)
LEMMA LockStep == IInv /\ [Next]_vars => LockInv'
<1> SUFFICES ASSUME IInv, [Next]_vars PROVE LockInv'
  OBVIOUS
<1> USE MaxKeysAssumption, NullAssumption DEF TypeOK, Slots, Kinds, Steps, Destroying,
    storeVars, callVars, IInv, LockInv, StoreInv, LoopInv, StoreOwns,
    PendingKeys, CachedSeeds, Filled
<1>1. ASSUME NEW t \in Threads, NEW n \in Slots, Configure(t, n)
      PROVE  LockInv'
  BY <1>1 DEF Configure, MuFree
<1>2. ASSUME NEW t \in Threads, NEW k \in 0..MaxKeys, NEW s \in Secrets,
            SubmitCall(t, k, s)
      PROVE  LockInv'
  <2>1. \A u \in Threads : ref'[u] = ref[u] /\ ref[u] # s
    BY <1>2 DEF SubmitCall, Fresh
  <2>2. lockedBy' = lockedBy /\ \A q \in Secrets : q # s => region'[q] =
      region[q]
    BY <1>2 DEF SubmitCall
  <2>3. \A u \in Threads : pc'[u] = pc[u] \/ (u = t /\ pc[u] = "idle" /\ pc'[u]
      = "submit")
    BY <1>2 DEF SubmitCall
  <2> QED
    BY <1>2, <2>1, <2>2, <2>3 DEF Fresh
<1>3. ASSUME NEW t \in Threads, NEW s \in Secrets, NEW kind \in {"unsealKey",
            "seed"}, RefuseEarly(t, s, kind)
      PROVE  LockInv'
  BY <1>3 DEF RefuseEarly, Fresh
<1>4. ASSUME NEW t \in Threads, NEW r \in Roots, NEW s \in Secrets,
            StoreSeedCall(t, r, s)
      PROVE  LockInv'
  BY <1>4 DEF StoreSeedCall, Fresh
<1>5. ASSUME NEW t \in Threads, NEW r \in Roots, RemoveSeed(t, r)
      PROVE  LockInv'
  BY <1>5 DEF RemoveSeed, MuFree
<1>6. ASSUME NEW t \in Threads, NEW r \in Roots, WithKeyRootSeed(t, r)
      PROVE  LockInv'
  BY <1>6 DEF WithKeyRootSeed, ReadPointer, MuFree
<1>7. ASSUME NEW t \in Threads, WithVaultEncryptionKey(t)
      PROVE  LockInv'
  BY <1>7 DEF WithVaultEncryptionKey, ReadPointer, MuFree
<1>8. ASSUME NEW t \in Threads, Reset(t)
      PROVE  LockInv'
  BY <1>8 DEF Reset, TakeUnsealKeys, MuFree
<1>9. ASSUME NEW t \in Threads, Clear(t)
      PROVE  LockInv'
  BY <1>9 DEF Clear, TakeUnsealKeys, MuFree
<1>10. ASSUME NEW t \in Threads, SubmitReject(t)
      PROVE  LockInv'
  BY <1>10 DEF SubmitReject, Refuse, MuFree
<1>11. ASSUME NEW t \in Threads, SubmitStore(t)
      PROVE  LockInv'
  BY <1>11 DEF SubmitStore, SubmitSlot, Acceptable, MuFree
<1>12. ASSUME NEW t \in Threads, SubmitLast(t)
      PROVE  LockInv'
  BY <1>12 DEF SubmitLast, SubmitSlot, Acceptable, MuFree
<1>13. ASSUME NEW t \in Threads, StoreSeedReject(t)
      PROVE  LockInv'
  BY <1>13 DEF StoreSeedReject, Refuse, MuFree
<1>14. ASSUME NEW t \in Threads, StoreSeedKeep(t)
      PROVE  LockInv'
  BY <1>14 DEF StoreSeedKeep, SeedAcceptable, MuFree
<1>15. ASSUME NEW t \in Threads, Reenter(t)
      PROVE  LockInv'
  BY <1>15 DEF Reenter, MuFree
<1>16. ASSUME NEW t \in Threads, Enter(t)
      PROVE  LockInv'
  BY <1>16 DEF Enter
<1>17. ASSUME NEW t \in Threads, EnterDestroyed(t)
      PROVE  LockInv'
  BY <1>17 DEF EnterDestroyed
<1>18. ASSUME NEW t \in Threads, DeriveRead(t)
      PROVE  LockInv'
  BY <1>18 DEF DeriveRead
<1>19. ASSUME NEW t \in Threads, NEW s \in Secrets, Destroy(t, s)
      PROVE  LockInv'
  BY <1>19 DEF Destroy
<1>20. ASSUME NEW t \in Threads, DeriveFail(t)
      PROVE  LockInv'
  BY <1>20 DEF DeriveFail, LeaveDerivation, TakeUnsealKeys
<1>21. ASSUME NEW t \in Threads, NEW s \in Secrets, DeriveDone(t, s)
      PROVE  LockInv'
  BY <1>21 DEF DeriveDone, LeaveDerivation, TakeUnsealKeys, Fresh
<1>22. ASSUME NEW t \in Threads, Leave(t)
      PROVE  LockInv'
  BY <1>22 DEF Leave
<1>23. ASSUME NEW t \in Threads, Return(t)
      PROVE  LockInv'
  BY <1>23 DEF Return
<1>24. CASE UNCHANGED vars
  BY <1>24 DEF vars
<1> QED
  BY <1>1, <1>2, <1>3, <1>4, <1>5, <1>6, <1>7, <1>8, <1>9, <1>10, <1>11, <1>12,
      <1>13, <1>14, <1>15, <1>16, <1>17, <1>18, <1>19, <1>20, <1>21, <1>22,
      <1>23, <1>24
  DEF Next, Step, Call, StoreSection, SecretSection

(* Only finitely many slots are filled.                                     *)
LEMMA FilledFinite ==
    ASSUME TypeOK
    PROVE  IsFiniteSet(Filled)
<1>1. IsFiniteSet(1..MaxKeys)
  BY FS_Interval, MaxKeysAssumption
<1> QED
  BY <1>1, FS_Subset DEF Filled, Slots

(* The derived sets change only with the fields they are read from.         *)
LEMMA SameSets ==
    /\ UNCHANGED unsealKeys => UNCHANGED <<Filled, PendingKeys>>
    /\ UNCHANGED seeds => UNCHANGED CachedSeeds
  BY DEF Filled, PendingKeys, CachedSeeds

(* An accepted key fills exactly one more slot.                             *)
LEMMA SlotAdded ==
    ASSUME TypeOK, NEW t \in Threads, SubmitSlot(t), own[t] # NoSecret
    PROVE  /\ Filled' = Filled \cup {slot[t]}
           /\ Cardinality(Filled') = Cardinality(Filled) + 1
<1>1. Filled' = Filled \cup {slot[t]} /\ slot[t] \notin Filled
  BY NullAssumption DEF TypeOK, SubmitSlot, Acceptable, Filled, Slots
<1> QED
  BY <1>1, FilledFinite, FS_AddElement

(* Taking the attempt's keys empties every slot.                            *)
LEMMA SlotsTaken ==
    ASSUME NEW t \in Threads, TakeUnsealKeys(t)
    PROVE  Filled' = {} /\ Cardinality(Filled') = 0
  BY FS_EmptySet DEF TakeUnsealKeys, Filled

(* Every step keeps the count, the slots and the derivation in agreement.   *)
LEMMA AttemptStep == IInv /\ [Next]_vars => AttemptInv'
<1> SUFFICES ASSUME IInv, [Next]_vars PROVE AttemptInv'
  OBVIOUS
<1> USE MaxKeysAssumption, NullAssumption DEF TypeOK, Slots, Kinds, Steps, Destroying,
    storeVars, callVars, IInv, AttemptInv, MuFree
<1>1. ASSUME NEW t \in Threads, NEW n \in Slots, Configure(t, n)
      PROVE  AttemptInv'
  BY <1>1, SameSets, ConfigureEmpty DEF Configure, MuFree
<1>2. ASSUME NEW t \in Threads, NEW k \in 0..MaxKeys, NEW s \in Secrets,
            SubmitCall(t, k, s)
      PROVE  AttemptInv'
  BY <1>2, SameSets DEF SubmitCall, Fresh
<1>3. ASSUME NEW t \in Threads, NEW s \in Secrets, NEW kind \in {"unsealKey",
            "seed"}, RefuseEarly(t, s, kind)
      PROVE  AttemptInv'
  BY <1>3, SameSets DEF RefuseEarly, Fresh
<1>4. ASSUME NEW t \in Threads, NEW r \in Roots, NEW s \in Secrets,
            StoreSeedCall(t, r, s)
      PROVE  AttemptInv'
  BY <1>4, SameSets DEF StoreSeedCall, Fresh
<1>5. ASSUME NEW t \in Threads, NEW r \in Roots, RemoveSeed(t, r)
      PROVE  AttemptInv'
  <2>1. vek # NoSecret
    BY <1>5 DEF RemoveSeed, CachedSeeds
  <2> QED
    BY <1>5, <2>1, SameSets DEF RemoveSeed
<1>6. ASSUME NEW t \in Threads, NEW r \in Roots, WithKeyRootSeed(t, r)
      PROVE  AttemptInv'
  BY <1>6, SameSets DEF WithKeyRootSeed, ReadPointer, MuFree
<1>7. ASSUME NEW t \in Threads, WithVaultEncryptionKey(t)
      PROVE  AttemptInv'
  BY <1>7, SameSets DEF WithVaultEncryptionKey, ReadPointer, MuFree
<1>8. ASSUME NEW t \in Threads, Reset(t)
      PROVE  AttemptInv'
  BY <1>8, SameSets, SlotsTaken DEF Reset, TakeUnsealKeys, MuFree
<1>9. ASSUME NEW t \in Threads, Clear(t)
      PROVE  AttemptInv'
  BY <1>9, SameSets, SlotsTaken DEF Clear, TakeUnsealKeys, MuFree, CachedSeeds
<1>10. ASSUME NEW t \in Threads, SubmitReject(t)
      PROVE  AttemptInv'
  BY <1>10, SameSets DEF SubmitReject, Refuse, MuFree
<1>11. ASSUME NEW t \in Threads, SubmitStore(t)
      PROVE  AttemptInv'
  <2>1. SubmitSlot(t) /\ own[t] # NoSecret
    BY <1>11 DEF SubmitStore, SubmitSlot, CallInv
  <2>2. Filled' = Filled \cup {slot[t]} /\ submitted' = Cardinality(Filled')
    BY <2>1, SlotAdded DEF SubmitSlot
  <2>3. slot[t] \in 1..required /\ mu = NoThread /\ vek = NoSecret
    BY <2>1 DEF SubmitSlot, Acceptable
  <2> QED
    BY <1>11, <2>2, <2>3, SameSets DEF SubmitStore, SubmitSlot
<1>12. ASSUME NEW t \in Threads, SubmitLast(t)
      PROVE  AttemptInv'
  <2>1. SubmitSlot(t) /\ own[t] # NoSecret
    BY <1>12 DEF SubmitLast, SubmitSlot, CallInv
  <2>2. Filled' = Filled \cup {slot[t]} /\ submitted' = Cardinality(Filled')
    BY <2>1, SlotAdded DEF SubmitSlot
  <2>3. slot[t] \in 1..required /\ mu = NoThread /\ vek = NoSecret
    BY <2>1 DEF SubmitSlot, Acceptable
  <2> QED
    BY <1>12, <2>2, <2>3, SameSets DEF SubmitLast, SubmitSlot
<1>13. ASSUME NEW t \in Threads, StoreSeedReject(t)
      PROVE  AttemptInv'
  BY <1>13, SameSets DEF StoreSeedReject, Refuse, MuFree
<1>14. ASSUME NEW t \in Threads, StoreSeedKeep(t)
      PROVE  AttemptInv'
  BY <1>14, SameSets DEF StoreSeedKeep, SeedAcceptable, MuFree, CachedSeeds
<1>15. ASSUME NEW t \in Threads, Reenter(t)
      PROVE  AttemptInv'
  BY <1>15, SameSets DEF Reenter, MuFree
<1>16. ASSUME NEW t \in Threads, Enter(t)
      PROVE  AttemptInv'
  BY <1>16, SameSets DEF Enter
<1>17. ASSUME NEW t \in Threads, EnterDestroyed(t)
      PROVE  AttemptInv'
  BY <1>17, SameSets DEF EnterDestroyed
<1>18. ASSUME NEW t \in Threads, DeriveRead(t)
      PROVE  AttemptInv'
  BY <1>18, SameSets DEF DeriveRead
<1>19. ASSUME NEW t \in Threads, NEW s \in Secrets, Destroy(t, s)
      PROVE  AttemptInv'
  BY <1>19, SameSets DEF Destroy
<1>20. ASSUME NEW t \in Threads, DeriveFail(t)
      PROVE  AttemptInv'
  BY <1>20, SameSets, SlotsTaken DEF DeriveFail, LeaveDerivation, TakeUnsealKeys
<1>21. ASSUME NEW t \in Threads, NEW s \in Secrets, DeriveDone(t, s)
      PROVE  AttemptInv'
  BY <1>21, SameSets, SlotsTaken DEF DeriveDone, LeaveDerivation,
      TakeUnsealKeys, Fresh
<1>22. ASSUME NEW t \in Threads, Leave(t)
      PROVE  AttemptInv'
  BY <1>22, SameSets DEF Leave
<1>23. ASSUME NEW t \in Threads, Return(t)
      PROVE  AttemptInv'
  BY <1>23, SameSets DEF Return
<1>24. CASE UNCHANGED vars
  BY <1>24, SameSets DEF vars
<1> QED
  BY <1>1, <1>2, <1>3, <1>4, <1>5, <1>6, <1>7, <1>8, <1>9, <1>10, <1>11, <1>12,
      <1>13, <1>14, <1>15, <1>16, <1>17, <1>18, <1>19, <1>20, <1>21, <1>22,
      <1>23, <1>24
  DEF Next, Step, Call, StoreSection, SecretSection

(* What a Clear was given before it stays in some destroyer's hands.        *)
LEMMA OwedStep == IInv /\ [Next]_vars => OwedInv'
<1> SUFFICES ASSUME IInv, [Next]_vars PROVE OwedInv'
  OBVIOUS
<1> USE MaxKeysAssumption, NullAssumption DEF TypeOK, Slots, Kinds, Steps, Destroying,
    storeVars, callVars, IInv, OwedInv, LoopInv, Detached
<1>1. ASSUME NEW t \in Threads, NEW n \in Slots, Configure(t, n)
      PROVE  OwedInv'
  BY <1>1 DEF Configure, MuFree
<1>2. ASSUME NEW t \in Threads, NEW k \in 0..MaxKeys, NEW s \in Secrets,
            SubmitCall(t, k, s)
      PROVE  OwedInv'
  BY <1>2 DEF SubmitCall, Fresh
<1>3. ASSUME NEW t \in Threads, NEW s \in Secrets, NEW kind \in {"unsealKey",
            "seed"}, RefuseEarly(t, s, kind)
      PROVE  OwedInv'
  BY <1>3 DEF RefuseEarly, Fresh
<1>4. ASSUME NEW t \in Threads, NEW r \in Roots, NEW s \in Secrets,
            StoreSeedCall(t, r, s)
      PROVE  OwedInv'
  BY <1>4 DEF StoreSeedCall, Fresh
<1>5. ASSUME NEW t \in Threads, NEW r \in Roots, RemoveSeed(t, r)
      PROVE  OwedInv'
  <2>1. doomed[t] = {} /\ pc[t] # "clearing"
    BY <1>5, NothingDoomed DEF RemoveSeed, MuFree
  <2>2. \A u \in Threads \ {t} : pc'[u] = pc[u] /\ doomed'[u] = doomed[u]
    BY <1>5 DEF RemoveSeed, MuFree
  <2>3. pc'[t] # "clearing" /\ owed' = owed
    BY <1>5 DEF RemoveSeed, MuFree
  <2>4. Detached \subseteq Detached'
    BY <2>1, <2>2, DetachedGrows
  <2> HIDE DEF Detached, LoopInv, TypeOK
  <2> QED
    BY <2>1, <2>2, <2>3, <2>4
<1>6. ASSUME NEW t \in Threads, NEW r \in Roots, WithKeyRootSeed(t, r)
      PROVE  OwedInv'
  BY <1>6 DEF WithKeyRootSeed, ReadPointer, MuFree
<1>7. ASSUME NEW t \in Threads, WithVaultEncryptionKey(t)
      PROVE  OwedInv'
  BY <1>7 DEF WithVaultEncryptionKey, ReadPointer, MuFree
<1>8. ASSUME NEW t \in Threads, Reset(t)
      PROVE  OwedInv'
  BY <1>8 DEF Reset, TakeUnsealKeys, MuFree
<1>9. ASSUME NEW t \in Threads, Clear(t)
      PROVE  OwedInv'
  BY <1>9 DEF Clear, TakeUnsealKeys, MuFree
<1>10. ASSUME NEW t \in Threads, SubmitReject(t)
      PROVE  OwedInv'
  <2>1. doomed[t] = {} /\ pc[t] # "clearing"
    BY <1>10, NothingDoomed DEF SubmitReject, Refuse, MuFree
  <2>2. \A u \in Threads \ {t} : pc'[u] = pc[u] /\ doomed'[u] = doomed[u]
    BY <1>10 DEF SubmitReject, Refuse, MuFree
  <2>3. pc'[t] # "clearing" /\ owed' = owed
    BY <1>10 DEF SubmitReject, Refuse, MuFree
  <2>4. Detached \subseteq Detached'
    BY <2>1, <2>2, DetachedGrows
  <2> HIDE DEF Detached, LoopInv, TypeOK
  <2> QED
    BY <2>1, <2>2, <2>3, <2>4
<1>11. ASSUME NEW t \in Threads, SubmitStore(t)
      PROVE  OwedInv'
  BY <1>11 DEF SubmitStore, SubmitSlot, Acceptable, MuFree
<1>12. ASSUME NEW t \in Threads, SubmitLast(t)
      PROVE  OwedInv'
  BY <1>12 DEF SubmitLast, SubmitSlot, Acceptable, MuFree
<1>13. ASSUME NEW t \in Threads, StoreSeedReject(t)
      PROVE  OwedInv'
  <2>1. doomed[t] = {} /\ pc[t] # "clearing"
    BY <1>13, NothingDoomed DEF StoreSeedReject, Refuse, MuFree
  <2>2. \A u \in Threads \ {t} : pc'[u] = pc[u] /\ doomed'[u] = doomed[u]
    BY <1>13 DEF StoreSeedReject, Refuse, MuFree
  <2>3. pc'[t] # "clearing" /\ owed' = owed
    BY <1>13 DEF StoreSeedReject, Refuse, MuFree
  <2>4. Detached \subseteq Detached'
    BY <2>1, <2>2, DetachedGrows
  <2> HIDE DEF Detached, LoopInv, TypeOK
  <2> QED
    BY <2>1, <2>2, <2>3, <2>4
<1>14. ASSUME NEW t \in Threads, StoreSeedKeep(t)
      PROVE  OwedInv'
  BY <1>14 DEF StoreSeedKeep, SeedAcceptable, MuFree
<1>15. ASSUME NEW t \in Threads, Reenter(t)
      PROVE  OwedInv'
  BY <1>15 DEF Reenter, MuFree
<1>16. ASSUME NEW t \in Threads, Enter(t)
      PROVE  OwedInv'
  BY <1>16 DEF Enter
<1>17. ASSUME NEW t \in Threads, EnterDestroyed(t)
      PROVE  OwedInv'
  BY <1>17 DEF EnterDestroyed
<1>18. ASSUME NEW t \in Threads, DeriveRead(t)
      PROVE  OwedInv'
  BY <1>18 DEF DeriveRead
<1>19. ASSUME NEW t \in Threads, NEW s \in Secrets, Destroy(t, s)
      PROVE  OwedInv'
  BY <1>19 DEF Destroy
<1>20. ASSUME NEW t \in Threads, DeriveFail(t)
      PROVE  OwedInv'
  BY <1>20 DEF DeriveFail, LeaveDerivation, TakeUnsealKeys
<1>21. ASSUME NEW t \in Threads, NEW s \in Secrets, DeriveDone(t, s)
      PROVE  OwedInv'
  <2>1. doomed[t] = {} /\ pc[t] # "clearing"
    BY <1>21, NothingDoomed DEF DeriveDone, LeaveDerivation, TakeUnsealKeys, Fresh
  <2>2. \A u \in Threads \ {t} : pc'[u] = pc[u] /\ doomed'[u] = doomed[u]
    BY <1>21 DEF DeriveDone, LeaveDerivation, TakeUnsealKeys, Fresh
  <2>3. pc'[t] # "clearing" /\ owed' = owed
    BY <1>21 DEF DeriveDone, LeaveDerivation, TakeUnsealKeys, Fresh
  <2>4. Detached \subseteq Detached'
    BY <2>1, <2>2, DetachedGrows
  <2> HIDE DEF Detached, LoopInv, TypeOK
  <2> QED
    BY <2>1, <2>2, <2>3, <2>4
<1>22. ASSUME NEW t \in Threads, Leave(t)
      PROVE  OwedInv'
  BY <1>22 DEF Leave
<1>23. ASSUME NEW t \in Threads, Return(t)
      PROVE  OwedInv'
  BY <1>23 DEF Return
<1>24. CASE UNCHANGED vars
  BY <1>24 DEF vars
<1> QED
  BY <1>1, <1>2, <1>3, <1>4, <1>5, <1>6, <1>7, <1>8, <1>9, <1>10, <1>11, <1>12,
      <1>13, <1>14, <1>15, <1>16, <1>17, <1>18, <1>19, <1>20, <1>21, <1>22,
      <1>23, <1>24
  DEF Next, Step, Call, StoreSection, SecretSection

(* The strengthened invariant holds initially.                              *)
LEMMA InitIInv == Init => IInv
<1> SUFFICES ASSUME Init PROVE IInv
  OBVIOUS
<1> USE MaxKeysAssumption, NullAssumption DEF Init, Slots, Kinds, Steps
<1>1. TypeOK
  BY DEF TypeOK
<1>2. Filled = {} /\ CachedSeeds = {} /\ Cardinality(Filled) = 0
  BY FS_EmptySet DEF Filled, CachedSeeds
<1>3. StoreInv /\ CallInv /\ LoopInv /\ LockInv /\ OwedInv
  BY <1>2 DEF StoreInv, CallInv, LoopInv, LockInv, OwedInv
<1>4. NoLeak
  BY DEF NoLeak, Live
<1>5. AttemptInv
  BY <1>2 DEF AttemptInv
<1> QED
  BY <1>1, <1>3, <1>4, <1>5 DEF IInv

(* The strengthened invariant is preserved by every step.                   *)
LEMMA StepIInv == IInv /\ [Next]_vars => IInv'
  BY TypeStep, StoreStep, CallStep, LoopStep, NoLeakStep, LockStep, AttemptStep,
     OwedStep DEF IInv

(* The strengthened invariant holds for every number of goroutines,         *)
(* secrets, roots and keys.                                                 *)
THEOREM Invariance == Spec => []IInv
  BY InitIInv, StepIInv, PTL DEF Spec

(* The variables of the store keep their types.                             *)
THEOREM TypeCorrect == Spec => []TypeOK
<1>1. IInv => TypeOK
  BY DEF IInv
<1> QED
  BY <1>1, Invariance, PTL

(* Every live secret has exactly one owner that will destroy it, and a      *)
(* destroyed one has none: store.go leaks nothing and destroys nothing      *)
(* twice.                                                                   *)
THEOREM SingleOwnership == Spec => []OneOwner
<1>1. IInv => OneOwner
  <2> SUFFICES ASSUME IInv, NEW s \in Secrets
               PROVE  IF s \in Live THEN \E o \in Owners(s) : Owners(s) = {o}
                                    ELSE Owners(s) = {}
    BY DEF OneOwner
  <2> USE DEF IInv, TypeOK
  <2>1. CASE s \notin Live
    <3>1. \A k \in Slots : unsealKeys[k] # s
      BY <2>1, NullAssumption DEF StoreInv, Live, Filled
    <3>2. (\A r \in Roots : seeds[r] # s) /\ vek # s
      BY <2>1, NullAssumption DEF StoreInv, Live
    <3>3. \A t \in Threads : own[t] # s /\ s \notin doomed[t]
      BY <2>1, NullAssumption DEF CallInv, LoopInv, Live
    <3> QED
      BY <2>1, <3>1, <3>2, <3>3 DEF Owners
  <2>2. CASE \E k \in Slots : unsealKeys[k] = s
    <3>1. PICK k \in Slots : unsealKeys[k] = s
      BY <2>2
    <3>2. region[s] = "unsealKey" /\ (\A j \in Slots : unsealKeys[j] = s => j =
        k)
          /\ s \in StoreOwns
      BY <3>1, NullAssumption DEF StoreInv, Filled, StoreOwns, PendingKeys
    <3>3. (\A r \in Roots : seeds[r] # s) /\ vek # s
      BY <3>2, NullAssumption DEF StoreInv
    <3>4. \A t \in Threads : own[t] # s /\ s \notin doomed[t]
      BY <3>2, NullAssumption DEF CallInv, LoopInv
    <3>5. Owners(s) = {<<"slot", k>>}
      BY <3>1, <3>2, <3>3, <3>4 DEF Owners
    <3> QED
      BY <3>2, <3>5 DEF Live
  <2>3. CASE \E r \in Roots : seeds[r] = s
    <3>1. PICK r \in Roots : seeds[r] = s
      BY <2>3
    <3>2. region[s] = "seed" /\ (\A q \in Roots : seeds[q] = s => q = r)
          /\ s \in StoreOwns
      BY <3>1, NullAssumption DEF StoreInv, StoreOwns, CachedSeeds
    <3>3. (\A k \in Slots : unsealKeys[k] # s) /\ vek # s
      BY <3>2, NullAssumption DEF StoreInv, Filled
    <3>4. \A t \in Threads : own[t] # s /\ s \notin doomed[t]
      BY <3>2, NullAssumption DEF CallInv, LoopInv
    <3>5. Owners(s) = {<<"root", r>>}
      BY <3>1, <3>2, <3>3, <3>4 DEF Owners
    <3> QED
      BY <3>2, <3>5 DEF Live
  <2>4. CASE vek = s
    <3>1. region[s] = "vek" /\ s \in StoreOwns
      BY <2>4, NullAssumption DEF StoreInv, StoreOwns
    <3>2. (\A k \in Slots : unsealKeys[k] # s) /\ (\A r \in Roots : seeds[r] #
        s)
      BY <3>1, NullAssumption DEF StoreInv, Filled
    <3>3. \A t \in Threads : own[t] # s /\ s \notin doomed[t]
      BY <3>1, NullAssumption DEF CallInv, LoopInv
    <3>4. Owners(s) = {<<"vek", s>>}
      BY <2>4, <3>2, <3>3 DEF Owners
    <3> QED
      BY <3>1, <3>4 DEF Live
  <2>5. CASE \E t \in Threads : own[t] = s
    <3>1. PICK t \in Threads : own[t] = s
      BY <2>5
    <3>2. s \in Live /\ s \notin StoreOwns
          /\ \A u \in Threads : (own[u] = s => u = t) /\ s \notin doomed[u]
      BY <3>1, NullAssumption DEF CallInv, LoopInv, Live
    <3>3. (\A k \in Slots : unsealKeys[k] # s) /\ (\A r \in Roots : seeds[r] #
        s)
          /\ vek # s
      BY <3>2, InStore
    <3>4. Owners(s) = {<<"call", t>>}
      BY <3>1, <3>2, <3>3 DEF Owners
    <3> QED
      BY <3>2, <3>4
  <2>6. CASE \E t \in Threads : s \in doomed[t]
    <3>1. PICK t \in Threads : s \in doomed[t]
      BY <2>6
    <3>2. s \in Live /\ s \notin StoreOwns
          /\ \A u \in Threads : own[u] # s /\ (s \in doomed[u] => u = t)
      BY <3>1 DEF LoopInv, Live
    <3>3. (\A k \in Slots : unsealKeys[k] # s) /\ (\A r \in Roots : seeds[r] #
        s)
          /\ vek # s
      BY <3>2, InStore
    <3>4. Owners(s) = {<<"loop", t>>}
      BY <3>1, <3>2, <3>3 DEF Owners
    <3> QED
      BY <3>2, <3>4
  <2> QED
    BY <2>1, <2>2, <2>3, <2>4, <2>5, <2>6, InStore DEF NoLeak
<1> QED
  BY <1>1, Invariance, PTL

(* No WithBytes callback runs over destroyed memory or over an unseal key.  *)
THEOREM CallbacksSafe == Spec => []CallbackSafe
<1>1. IInv => CallbackSafe
  BY DEF IInv, TypeOK, Kinds, LockInv, CallbackSafe
<1> QED
  BY <1>1, Invariance, PTL

(* A sealed store caches no seed, an unsealed one holds no unseal key, and  *)
(* the submission counter counts the filled slots.                          *)
THEOREM SealedEmpty == Spec => []SealedIsEmpty
<1>1. IInv => SealedIsEmpty
  BY DEF IInv, AttemptInv, SealedIsEmpty, MuFree, PendingKeys
<1> QED
  BY <1>1, Invariance, PTL

(* A derivation runs with every slot filled.                                *)
LEMMA AllFilled ==
    ASSUME IInv, mu # NoThread
    PROVE  Filled = 1..required
<1>1. IsFiniteSet(1..required) /\ Cardinality(1..required) = required
  BY FS_Interval DEF IInv, TypeOK
<1>2. Cardinality(Filled) <= required
  BY <1>1, FS_Subset DEF IInv, AttemptInv
<1>3. Cardinality(Filled) = required
  BY <1>2 DEF IInv, AttemptInv, TypeOK
<1> QED
  BY <1>1, <1>3, FS_Subset DEF IInv, AttemptInv

(* The derivation finds each key live and unlocked, so it never waits while *)
(* it holds Store.mu.                                                       *)
THEOREM DerivationNeverBlocks == Spec => []DeriveNeverBlocks
<1>1. IInv => DeriveNeverBlocks
  <2> SUFFICES ASSUME IInv, mu # NoThread, NEW k \in 1..required
               PROVE  /\ unsealKeys[k] # NoSecret
                      /\ region[unsealKeys[k]] = "unsealKey"
                      /\ lockedBy[unsealKeys[k]] = NoThread
    BY DEF DeriveNeverBlocks
  <2>1. unsealKeys[k] \in Secrets /\ region[unsealKeys[k]] = "unsealKey"
    BY AllFilled DEF IInv, TypeOK, StoreInv, Filled
  <2> QED
    BY <2>1, NullAssumption DEF IInv, TypeOK, LockInv
<1> QED
  BY <1>1, Invariance, PTL

(* When Clear returns, what it was given before it survives only in a       *)
(* concurrent destruction loop.                                             *)
THEOREM ClearSurvivorsDoomed == Spec => []ClearLeavesOnlyDoomed
<1>1. IInv => ClearLeavesOnlyDoomed
  BY DEF IInv, OwedInv, ClearLeavesOnlyDoomed
<1> QED
  BY <1>1, Invariance, PTL

(* The initial store is the initial abstract vault.                         *)
LEMMA VaultInit == Init => Abstract!Init
  BY DEF Init, Abstract!Init, PendingSlots, Filled

(* Every step of the store is a step of the abstract vault or leaves it     *)
(* alone.                                                                   *)
LEMMA VaultStep == IInv /\ [Next]_vars => [Abstract!Next]_(Abstract!vars)
<1> SUFFICES ASSUME IInv, [Next]_vars PROVE [Abstract!Next]_(Abstract!vars)
    OBVIOUS
<1> USE MaxKeysAssumption, NullAssumption
        DEF TypeOK, IInv, Slots, storeVars, callVars, MuFree, Abstract!vars
<1>a. PendingSlots = IF mu = NoThread THEN Filled ELSE Filled \ {slot[mu]}
  BY DEF PendingSlots
<1>b. PendingSlots' = IF mu' = NoThread THEN Filled' ELSE Filled' \ {slot'[mu']}
  BY StepIInv DEF PendingSlots
<1>1. ASSUME NEW t \in Threads, NEW n \in Slots, Configure(t, n)
      PROVE  [Abstract!Next]_(Abstract!vars)
  <2>1. Filled = {} /\ Filled' = {}
    BY <1>1, ConfigureEmpty
  <2>2. Abstract!Configure(n)
    BY <1>a, <1>b, <1>1, <2>1 DEF Configure, Abstract!Configure
  <2> QED
    BY <2>2 DEF Abstract!Next
<1>2. ASSUME NEW t \in Threads, NEW k \in 0..MaxKeys, NEW s \in Secrets,
            SubmitCall(t, k, s)
      PROVE  [Abstract!Next]_(Abstract!vars)
  BY <1>a, <1>b, <1>2, SameSets DEF SubmitCall, AttemptInv
<1>3. ASSUME NEW t \in Threads, NEW s \in Secrets, NEW kind \in {"unsealKey",
            "seed"}, RefuseEarly(t, s, kind)
      PROVE  [Abstract!Next]_(Abstract!vars)
  BY <1>a, <1>b, <1>3, SameSets DEF RefuseEarly, Fresh
<1>4. ASSUME NEW t \in Threads, NEW r \in Roots, NEW s \in Secrets,
            StoreSeedCall(t, r, s)
      PROVE  [Abstract!Next]_(Abstract!vars)
  BY <1>a, <1>b, <1>4, SameSets DEF StoreSeedCall, Fresh
<1>5. ASSUME NEW t \in Threads, NEW r \in Roots, RemoveSeed(t, r)
      PROVE  [Abstract!Next]_(Abstract!vars)
  <2>1. Abstract!DropSeed(r)
    BY <1>a, <1>b, <1>5, SameSets DEF RemoveSeed, Abstract!DropSeed
  <2> QED
    BY <2>1 DEF Abstract!Next
<1>6. ASSUME NEW t \in Threads, NEW r \in Roots, WithKeyRootSeed(t, r)
      PROVE  [Abstract!Next]_(Abstract!vars)
  BY <1>a, <1>b, <1>6, SameSets DEF WithKeyRootSeed, ReadPointer
<1>7. ASSUME NEW t \in Threads, WithVaultEncryptionKey(t)
      PROVE  [Abstract!Next]_(Abstract!vars)
  BY <1>a, <1>b, <1>7, SameSets DEF WithVaultEncryptionKey, ReadPointer
<1>8. ASSUME NEW t \in Threads, Reset(t)
      PROVE  [Abstract!Next]_(Abstract!vars)
  <2>1. Filled' = {}
    BY <1>8, SlotsTaken DEF Reset
  <2>2. Abstract!DropAttempt
    BY <1>b, <1>8, <2>1 DEF Reset, Abstract!DropAttempt
  <2> QED
    BY <2>2 DEF Abstract!Next
<1>9. ASSUME NEW t \in Threads, Clear(t)
      PROVE  [Abstract!Next]_(Abstract!vars)
  <2>1. Filled' = {}
    BY <1>9, SlotsTaken DEF Clear
  <2>2. Abstract!Seal
    BY <1>b, <1>9, <2>1 DEF Clear, Abstract!Seal
  <2> QED
    BY <2>2 DEF Abstract!Next
<1>10. ASSUME NEW t \in Threads, SubmitReject(t)
      PROVE  [Abstract!Next]_(Abstract!vars)
  BY <1>a, <1>b, <1>10, SameSets DEF SubmitReject, Refuse
<1>11. ASSUME NEW t \in Threads, SubmitStore(t)
      PROVE  [Abstract!Next]_(Abstract!vars)
  <2> DEFINE k == slot[t]
  <2>1. SubmitSlot(t) /\ own[t] # NoSecret
    BY <1>11 DEF SubmitStore, SubmitSlot, CallInv
  <2>2. Filled' = Filled \cup {k} /\ Cardinality(Filled') = Cardinality(Filled)
      + 1
    BY <2>1, SlotAdded
  <2>3. k \in (1..required) \ Filled /\ vek = NoSecret /\ mu = NoThread
    BY <2>1 DEF SubmitSlot, Acceptable, Filled
  <2>4. Cardinality(1..required) = required
    BY FS_Interval
  <2>5. Cardinality(Filled') = submitted + 1 /\ submitted + 1 < required
    BY <1>11, <2>2 DEF SubmitStore, AttemptInv
  <2>6. Filled' # 1..required
    BY <2>4, <2>5
  <2>7. Abstract!Collect(k)
    BY <1>a, <1>b, <1>11, <2>2, <2>3, <2>6
       DEF SubmitStore, SubmitSlot, Abstract!Collect
  <2> QED
    BY <2>3, <2>7 DEF Abstract!Next
<1>12. ASSUME NEW t \in Threads, SubmitLast(t)
      PROVE  [Abstract!Next]_(Abstract!vars)
  <2>1. SubmitSlot(t) /\ own[t] # NoSecret
    BY <1>12 DEF SubmitLast, SubmitSlot, CallInv
  <2>2. Filled' = Filled \cup {slot[t]} /\ slot[t] \notin Filled
    BY <2>1, SlotAdded DEF SubmitSlot, Acceptable, Filled
  <2> QED
    BY <1>a, <1>b, <1>12, <2>2 DEF SubmitLast, SubmitSlot
<1>13. ASSUME NEW t \in Threads, StoreSeedReject(t)
      PROVE  [Abstract!Next]_(Abstract!vars)
  BY <1>a, <1>b, <1>13, SameSets DEF StoreSeedReject, Refuse
<1>14. ASSUME NEW t \in Threads, StoreSeedKeep(t)
      PROVE  [Abstract!Next]_(Abstract!vars)
  <2>1. own[t] # NoSecret
    BY <1>14 DEF StoreSeedKeep, CallInv
  <2>2. PICK r \in Roots : r = root[t]
    BY <1>14 DEF StoreSeedKeep, CallInv
  <2>3. Abstract!CacheSeed(r)
    BY <1>a, <1>b, <1>14, <2>1, <2>2, SameSets
       DEF StoreSeedKeep, SeedAcceptable, Abstract!CacheSeed
  <2> QED
    BY <2>3 DEF Abstract!Next
<1>15. ASSUME NEW t \in Threads, Reenter(t)
      PROVE  [Abstract!Next]_(Abstract!vars)
  BY <1>a, <1>b, <1>15, SameSets DEF Reenter
<1>16. ASSUME NEW t \in Threads, Enter(t)
      PROVE  [Abstract!Next]_(Abstract!vars)
  BY <1>a, <1>b, <1>16, SameSets DEF Enter
<1>17. ASSUME NEW t \in Threads, EnterDestroyed(t)
      PROVE  [Abstract!Next]_(Abstract!vars)
  BY <1>a, <1>b, <1>17, SameSets DEF EnterDestroyed
<1>18. ASSUME NEW t \in Threads, DeriveRead(t)
      PROVE  [Abstract!Next]_(Abstract!vars)
  BY <1>a, <1>b, <1>18, SameSets DEF DeriveRead
<1>19. ASSUME NEW t \in Threads, NEW s \in Secrets, Destroy(t, s)
      PROVE  [Abstract!Next]_(Abstract!vars)
  BY <1>a, <1>b, <1>19, SameSets DEF Destroy
<1>20. ASSUME NEW t \in Threads, DeriveFail(t)
      PROVE  [Abstract!Next]_(Abstract!vars)
  <2>1. mu = t /\ vek = NoSecret
    BY <1>20 DEF DeriveFail, AttemptInv
  <2>2. Filled' = {}
    BY <1>20, SlotsTaken DEF DeriveFail, LeaveDerivation
  <2>3. Abstract!DropAttempt
    BY <1>b, <1>20, <2>1, <2>2
       DEF DeriveFail, LeaveDerivation, Abstract!DropAttempt
  <2> QED
    BY <2>3 DEF Abstract!Next
<1>21. ASSUME NEW t \in Threads, NEW s \in Secrets, DeriveDone(t, s)
      PROVE  [Abstract!Next]_(Abstract!vars)
  <2> DEFINE k == slot[t]
  <2>1. mu = t /\ vek = NoSecret /\ k \in Filled
    BY <1>21 DEF DeriveDone, AttemptInv
  <2>2. Filled' = {}
    BY <1>21, SlotsTaken DEF DeriveDone, LeaveDerivation
  <2>3. Filled = 1..required
    BY <2>1, AllFilled
  <2>4. Abstract!Unseal(k)
    BY <1>a, <1>b, <1>21, <2>1, <2>2, <2>3
       DEF DeriveDone, LeaveDerivation, Abstract!Unseal
  <2>5. k \in 1..MaxKeys
    BY <2>1 DEF Filled
  <2> QED
    BY <2>4, <2>5 DEF Abstract!Next
<1>22. ASSUME NEW t \in Threads, Leave(t)
      PROVE  [Abstract!Next]_(Abstract!vars)
  BY <1>a, <1>b, <1>22, SameSets DEF Leave
<1>23. ASSUME NEW t \in Threads, Return(t)
      PROVE  [Abstract!Next]_(Abstract!vars)
  BY <1>a, <1>b, <1>23, SameSets DEF Return
<1>24. CASE UNCHANGED vars
  BY <1>a, <1>b, <1>24, SameSets DEF vars
<1> QED
  BY <1>1, <1>2, <1>3, <1>4, <1>5, <1>6, <1>7, <1>8, <1>9, <1>10, <1>11, <1>12,
      <1>13, <1>14, <1>15, <1>16, <1>17, <1>18, <1>19, <1>20, <1>21, <1>22,
      <1>23, <1>24
  DEF Next, Step, Call, StoreSection, SecretSection

(* The locking code of store.go implements the atomic vault.                *)
THEOREM RefinesVault == Spec => ImplementsVault
  BY VaultInit, VaultStep, Invariance, PTL
  DEF Spec, ImplementsVault, Abstract!Spec
=============================================================================
