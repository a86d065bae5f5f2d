------------------------- MODULE AuthSessionsProofs -------------------------
(***************************************************************************)
(* For any number of requests, principals, roles, passwords and sessions:  *)
(* the safety properties of AuthSessions and that it implements            *)
(* SessionLedger.  The argument is one inductive invariant, IInv,          *)
(* preserved part by part; each lemma names the parts its own rests on.    *)
(***************************************************************************)
EXTENDS AuthSessions, TLAPS

(* Every step keeps the state well typed and the constraints of the schema.*)
LEMMA TypeStep ==
  TypeOK /\ ThreadInv /\ [Next]_vars => TypeOK'
<1> SUFFICES ASSUME TypeOK /\ ThreadInv, [Next]_vars
             PROVE  TypeOK'
  OBVIOUS
<1> USE AuthAssumption DEF tableVars, sessionVars, localVars, Continue, Goto,
      Finish, Begin, Count, Restore, TypeOK, Steps, Principals, CutOff,
      ThreadInv, OwnSession
<1>1. ASSUME NEW t \in Threads, SetupCount(t)
      PROVE  TypeOK'
  BY <1>1 DEF SetupCount
<1>2. ASSUME NEW t \in Threads, SetupCreate(t)
      PROVE  TypeOK'
  BY <1>2 DEF SetupCreate
<1>3. ASSUME NEW t \in Threads, LoginUser(t)
      PROVE  TypeOK'
  BY <1>3 DEF LoginUser
<1>4. ASSUME NEW t \in Threads, LoginCreate(t)
      PROVE  TypeOK'
  BY <1>4 DEF LoginCreate, CreateSession
<1>5. ASSUME NEW t \in Threads, LoginIssue(t)
      PROVE  TypeOK'
  BY <1>5 DEF LoginIssue
<1>6. ASSUME NEW t \in Threads, LoginUndo(t)
      PROVE  TypeOK'
  BY <1>6 DEF LoginUndo
<1>7. ASSUME NEW t \in Threads, ServiceToken(t)
      PROVE  TypeOK'
  BY <1>7 DEF ServiceToken, Admits
<1>8. ASSUME NEW t \in Threads, RefreshSession(t)
      PROVE  TypeOK'
  BY <1>8 DEF RefreshSession, Live
<1>9. ASSUME NEW t \in Threads, RefreshUser(t)
      PROVE  TypeOK'
  <2>1. CASE Finish(t)
    BY <1>9, <2>1 DEF RefreshUser
  <2>2. CASE Continue(t, "refreshRotate")
    BY <1>9, <2>2 DEF RefreshUser
  <2> QED  BY <1>9, <2>1, <2>2 DEF RefreshUser, CheckRow
<1>10. ASSUME NEW t \in Threads, RefreshRotate(t)
      PROVE  TypeOK'
  <2>1. CASE Rotatable(ses[t], presented[t])
    <3>1. ses[t] \in Sessions /\ presented[t] \in Nat /\ drawn + 1 \in Nat
      BY <1>10 DEF RefreshRotate, RotateSession
    <3>2. exchanges' \subseteq [session : Sessions, old : Nat, new : Nat]
      BY <1>10, <2>1, <3>1 DEF RefreshRotate, RotateSession
    <3>3. token' \in [Sessions -> Nat] /\ drawn' \in Nat
      BY <1>10, <2>1, <3>1 DEF RefreshRotate, RotateSession
    <3>4. keyed' \subseteq Sessions \cup Accounts
      BY <1>10, <2>1, <3>1 DEF RefreshRotate, RotateSession
    <3>5. Continue(t, "signedIn") /\ UNCHANGED <<tableVars, owner, revoked,
              proof, lapsed, calls>>
      BY <1>10, <2>1 DEF RefreshRotate, RotateSession
    <3> QED  BY <3>2, <3>3, <3>4, <3>5
  <2>2. CASE ~Rotatable(ses[t], presented[t])
    <3>1. Finish(t) /\ UNCHANGED <<drawn, token, keyed, exchanges, tableVars,
              owner, revoked, proof, lapsed, calls>>
      BY <1>10, <2>2 DEF RefreshRotate, RotateSession
    <3> QED  BY <3>1
  <2> QED  BY <2>1, <2>2
<1>11. ASSUME NEW t \in Threads, AuthorizeUser(t)
      PROVE  TypeOK'
  BY <1>11 DEF AuthorizeUser, Live
<1>12. ASSUME NEW t \in Threads, UserRow(t)
      PROVE  TypeOK'
  <2>1. CASE Finish(t)
    BY <1>12, <2>1 DEF UserRow
  <2>2. CASE GrantOrReadRole(t, who[t]) /\ UNCHANGED <<who, ses, presented,
                 secret, newAllowed, cutsOff, covered, barred>>
    <3>1. who[t] \in Users
      BY <1>12 DEF UserRow
    <3>2. asked' \in [Threads -> Roles \cup {None}] /\ pc' \in [Threads -> Steps]
      BY <2>2, <3>1 DEF GrantOrReadRole
    <3> QED  BY <1>12, <2>2, <3>2 DEF UserRow
  <2> QED  BY <1>12, <2>1, <2>2 DEF UserRow, CheckRow
<1>13. ASSUME NEW t \in Threads, AuthorizeService(t)
      PROVE  TypeOK'
  <2>1. PICK p \in Accounts \cap keyed :
          \/ Begin(t, "granted", p, None, 0) /\ UNCHANGED asked
          \/ /\ Begin(t, "roleRow", p, None, 0)
             /\ asked' = [asked EXCEPT ![t] = role[p]]
    BY <1>13 DEF AuthorizeService
  <2>2. UNCHANGED <<tableVars, sessionVars, lapsed, secret>>
    BY <1>13 DEF AuthorizeService
  <2>3. asked' \in [Threads -> Roles \cup {None}]
    BY <2>1
  <2>4. CASE Begin(t, "granted", p, None, 0)
    BY <2>1, <2>2, <2>3, <2>4
  <2>5. CASE Begin(t, "roleRow", p, None, 0)
    BY <2>1, <2>2, <2>3, <2>5
  <2> QED  BY <2>1, <2>4, <2>5
<1>14. ASSUME NEW t \in Threads, RoleRow(t)
      PROVE  TypeOK'
  <2>1. CASE Finish(t)
    BY <1>14, <2>1 DEF RoleRow
  <2>2. CASE Continue(t, "granted")
    BY <1>14, <2>2 DEF RoleRow
  <2> QED  BY <1>14, <2>1, <2>2 DEF RoleRow
<1>15. ASSUME NEW t \in Threads, Respond(t)
      PROVE  TypeOK'
  BY <1>15 DEF Respond
<1>16. ASSUME NEW t \in Threads, Logout(t)
      PROVE  TypeOK'
  BY <1>16 DEF Logout
<1>17. ASSUME NEW t \in Threads, MeRead(t)
      PROVE  TypeOK'
  BY <1>17 DEF MeRead
<1>18. ASSUME NEW t \in Threads, MeWrite(t)
      PROVE  TypeOK'
  <2>1. who[t] \in Users
    BY <1>18 DEF MeWrite, UpdateUserCredentials
  <2>2. password' \in [Users -> Passwords \cup {None}]
        /\ allowed' \in [Principals -> Allowlists]
    BY <1>18, <2>1 DEF MeWrite, UpdateUserCredentials
  <2>3. UNCHANGED <<rows, root, enabled, role, roles, granting, sessionVars,
                    lapsed, calls>>
    BY <1>18 DEF MeWrite, UpdateUserCredentials
  <2>4. CASE cutsOff[t]
    <3>1. /\ covered' = [covered EXCEPT ![t] = SessionsOf(who[t])]
          /\ pc' = [pc EXCEPT ![t] = "revokeAll"]
      BY <1>18, <2>4 DEF MeWrite, UpdateUserCredentials
    <3>3. covered' \in [Threads -> SUBSET Sessions]
      BY <3>1 DEF SessionsOf
    <3>4. pc' \in [Threads -> Steps]
      BY <3>1
    <3>2. UNCHANGED <<who, ses, presented, secret, newAllowed, cutsOff, asked,
                      barred>>
      BY <1>18, <2>4 DEF MeWrite, UpdateUserCredentials
    <3> QED  BY <2>2, <2>3, <3>2, <3>3, <3>4
  <2>5. CASE Finish(t)
    BY <2>2, <2>3, <2>5
  <2> QED  BY <1>18, <2>4, <2>5 DEF MeWrite, UpdateUserCredentials
<1>19. ASSUME NEW t \in Threads, RevokeAll(t)
      PROVE  TypeOK'
  BY <1>19 DEF RevokeAll, RevokeUserSessions, SessionsOf
<1>20. ASSUME NEW t \in Threads, UpdateUser(t)
      PROVE  TypeOK'
  <2>1. PICK u \in (Users \cap rows) \ root, r \in roles, active \in BOOLEAN,
             l \in Allowlists :
          /\ Update(u, r, active, l)
          /\ IF active
             THEN UNCHANGED <<pc, who, covered>>
             ELSE /\ Goto(t, "revokeAll")
                  /\ who' = [who EXCEPT ![t] = u]
                  /\ covered' = [covered EXCEPT ![t] = SessionsOf(u)]
    BY <1>20 DEF UpdateUser
  <2>2. /\ enabled' \subseteq Principals
        /\ allowed' \in [Principals -> Allowlists]
        /\ barred' \in [Threads -> SUBSET (Principals \cup Sessions \cup Roles)]
    BY <2>1 DEF Update
  <2>3. role' \in [Principals -> Roles \cup {None}] /\ role' = [role EXCEPT ![u] = r]
    BY <2>1 DEF Update
  <2>4. UNCHANGED <<rows, root, password, roles, granting, sessionVars, lapsed,
                    ses, presented, secret, newAllowed, cutsOff, asked>>
    BY <1>20 DEF UpdateUser
  <2>5. calls' \in 0..MaxCalls
    BY <1>20 DEF UpdateUser
  <2>6. /\ pc' \in [Threads -> Steps]
        /\ who' \in [Threads -> Principals \cup {None}]
        /\ covered' \in [Threads -> SUBSET Sessions]
    BY <2>1 DEF SessionsOf
  <2>7. /\ \A x \in Principals : role'[x] # None <=> x \in rows \ root
        /\ \A x \in rows \ root : role'[x] \in roles
    BY <2>1, <2>3
  <2> QED  BY <2>2, <2>3, <2>4, <2>5, <2>6, <2>7
<1>21. ASSUME NEW t \in Threads, StatementFails(t)
      PROVE  TypeOK'
  BY <1>21 DEF StatementFails
<1>22. ASSUME CreateRole
      PROVE  TypeOK'
  BY <1>22 DEF CreateRole
<1>23. ASSUME UpdateRole
      PROVE  TypeOK'
  BY <1>23 DEF UpdateRole
<1>24. ASSUME CreateUser \/ CreateServiceAccount
      PROVE  TypeOK'
  <2>1. PICK r \in roles, l \in Allowlists, x \in Principals \ rows :
          Insert(x, r, l)
    BY <1>24 DEF CreateUser, CreateServiceAccount
  <2>2. password' \in [Users -> Passwords \cup {None}]
    BY <1>24 DEF CreateUser, CreateServiceAccount
  <2>3. /\ rows' = rows \cup {x}
        /\ role' = [role EXCEPT ![x] = r]
        /\ role' \in [Principals -> Roles \cup {None}]
        /\ allowed' \in [Principals -> Allowlists]
        /\ enabled' \subseteq Principals
    BY <2>1 DEF Insert
  <2>4. UNCHANGED <<root, roles, granting, sessionVars, lapsed, pc, localVars,
                    barred>> /\ calls' \in 0..MaxCalls
    BY <1>24 DEF CreateUser, CreateServiceAccount
  <2>5. root \subseteq rows
    BY DEF TypeOK
  <2>6. /\ \A y \in Principals : role'[y] # None <=> y \in rows' \ root
        /\ \A y \in rows' \ root : role'[y] \in roles
    BY <2>1, <2>3, <2>5
  <2> QED  BY <2>2, <2>3, <2>4, <2>6
<1>25. ASSUME UpdateServiceAccount
      PROVE  TypeOK'
  BY <1>25 DEF UpdateServiceAccount, Update
<1>26. ASSUME Lapse
      PROVE  TypeOK'
  BY <1>26 DEF Lapse
<1>27. CASE UNCHANGED vars
  BY <1>27 DEF vars, tableVars, sessionVars, localVars
<1>28. ASSUME NEW t \in Threads, CreateUnheard(t)
      PROVE  TypeOK'
  BY <1>28 DEF CreateUnheard, CreateSession
<1>29. ASSUME NEW t \in Threads, RotateUnheard(t)
      PROVE  TypeOK'
  <2>1. ses[t] \in Sessions /\ presented[t] \in Nat /\ drawn + 1 \in Nat
    BY <1>29 DEF RotateUnheard
  <2>2. exchanges' \subseteq [session : Sessions, old : Nat, new : Nat]
    BY <1>29, <2>1 DEF RotateUnheard, RotateSession
  <2>3. token' \in [Sessions -> Nat] /\ drawn' \in Nat
    BY <1>29, <2>1 DEF RotateUnheard, RotateSession
  <2>4. Finish(t) /\ UNCHANGED <<tableVars, owner, revoked, keyed, proof, lapsed,
                                 calls>>
    BY <1>29 DEF RotateUnheard
  <2> QED  BY <2>2, <2>3, <2>4
<1>30. ASSUME NEW t \in Threads, WriteUnheard(t)
      PROVE  TypeOK'
  <2>1. who[t] \in Users
    BY <1>30 DEF WriteUnheard
  <2>2. password' \in [Users -> Passwords \cup {None}]
        /\ allowed' \in [Principals -> Allowlists]
    BY <1>30, <2>1 DEF WriteUnheard, UpdateUserCredentials
  <2>3. Finish(t) /\ UNCHANGED <<rows, root, enabled, role, roles, granting,
                                 sessionVars, lapsed, calls>>
    BY <1>30 DEF WriteUnheard, UpdateUserCredentials
  <2> QED  BY <2>2, <2>3
<1>31. ASSUME NEW t \in Threads, RevokeUnheard(t)
      PROVE  TypeOK'
  BY <1>31 DEF RevokeUnheard, RevokeUserSessions, SessionsOf
<1> QED  BY <1>1, <1>2, <1>3, <1>4, <1>5, <1>6, <1>7, <1>8, <1>9, <1>10,
      <1>11, <1>12, <1>13, <1>14, <1>15, <1>16, <1>17, <1>18, <1>19, <1>20,
      <1>21, <1>22, <1>23, <1>24, <1>25, <1>26, <1>27, <1>28, <1>29, <1>30,
      <1>31 DEF Next, Thread, StatementUnheard

(* A request stays with the user and the session it began with.            *)
LEMMA ThreadStep ==
  TypeOK /\ ThreadInv /\ TokenInv /\ [Next]_vars => ThreadInv'
<1> SUFFICES ASSUME TypeOK /\ ThreadInv /\ TokenInv, [Next]_vars
             PROVE  ThreadInv'
  OBVIOUS
<1> USE AuthAssumption DEF tableVars, sessionVars, localVars, Continue, Goto,
      Finish, Begin, Count, Restore, TypeOK, Steps, Principals, ThreadInv,
      OwnSession, SessionsOf, TokenInv
<1>1. ASSUME NEW t \in Threads, SetupCount(t)
      PROVE  ThreadInv'
  BY <1>1 DEF SetupCount
<1>2. ASSUME NEW t \in Threads, SetupCreate(t)
      PROVE  ThreadInv'
  BY <1>2 DEF SetupCreate
<1>3. ASSUME NEW t \in Threads, LoginUser(t)
      PROVE  ThreadInv'
  BY <1>3 DEF LoginUser
<1>4. ASSUME NEW t \in Threads, LoginCreate(t)
      PROVE  ThreadInv'
  BY <1>4 DEF LoginCreate, CreateSession
<1>5. ASSUME NEW t \in Threads, LoginIssue(t)
      PROVE  ThreadInv'
  BY <1>5 DEF LoginIssue
<1>6. ASSUME NEW t \in Threads, LoginUndo(t)
      PROVE  ThreadInv'
  BY <1>6 DEF LoginUndo
<1>7. ASSUME NEW t \in Threads, ServiceToken(t)
      PROVE  ThreadInv'
  BY <1>7 DEF ServiceToken
<1>8. ASSUME NEW t \in Threads, RefreshSession(t)
      PROVE  ThreadInv'
  BY <1>8 DEF RefreshSession, Live
<1>9. ASSUME NEW t \in Threads, RefreshUser(t)
      PROVE  ThreadInv'
  BY <1>9 DEF RefreshUser, CheckRow
<1>10. ASSUME NEW t \in Threads, RefreshRotate(t)
      PROVE  ThreadInv'
  BY <1>10 DEF RefreshRotate, RotateSession
<1>11. ASSUME NEW t \in Threads, AuthorizeUser(t)
      PROVE  ThreadInv'
  BY <1>11 DEF AuthorizeUser, Live
<1>12. ASSUME NEW t \in Threads, UserRow(t)
      PROVE  ThreadInv'
  BY <1>12 DEF UserRow, CheckRow, GrantOrReadRole
<1>13. ASSUME NEW t \in Threads, AuthorizeService(t)
      PROVE  ThreadInv'
  BY <1>13 DEF AuthorizeService
<1>14. ASSUME NEW t \in Threads, RoleRow(t)
      PROVE  ThreadInv'
  BY <1>14 DEF RoleRow
<1>15. ASSUME NEW t \in Threads, Respond(t)
      PROVE  ThreadInv'
  BY <1>15 DEF Respond
<1>16. ASSUME NEW t \in Threads, Logout(t)
      PROVE  ThreadInv'
  BY <1>16 DEF Logout
<1>17. ASSUME NEW t \in Threads, MeRead(t)
      PROVE  ThreadInv'
  BY <1>17 DEF MeRead
<1>18. ASSUME NEW t \in Threads, MeWrite(t)
      PROVE  ThreadInv'
  BY <1>18 DEF MeWrite, UpdateUserCredentials
<1>19. ASSUME NEW t \in Threads, RevokeAll(t)
      PROVE  ThreadInv'
  BY <1>19 DEF RevokeAll, RevokeUserSessions
<1>20. ASSUME NEW t \in Threads, UpdateUser(t)
      PROVE  ThreadInv'
  BY <1>20 DEF UpdateUser, Update
<1>21. ASSUME NEW t \in Threads, StatementFails(t)
      PROVE  ThreadInv'
  BY <1>21 DEF StatementFails
<1>22. ASSUME CreateRole
      PROVE  ThreadInv'
  BY <1>22 DEF CreateRole
<1>23. ASSUME UpdateRole
      PROVE  ThreadInv'
  BY <1>23 DEF UpdateRole
<1>24. ASSUME CreateUser \/ CreateServiceAccount
      PROVE  ThreadInv'
  BY <1>24 DEF CreateUser, CreateServiceAccount, Insert
<1>25. ASSUME UpdateServiceAccount
      PROVE  ThreadInv'
  BY <1>25 DEF UpdateServiceAccount, Update
<1>26. ASSUME Lapse
      PROVE  ThreadInv'
  BY <1>26 DEF Lapse
<1>27. CASE UNCHANGED vars
  BY <1>27 DEF vars, tableVars, sessionVars, localVars
<1>28. ASSUME NEW t \in Threads, CreateUnheard(t)
      PROVE  ThreadInv'
  BY <1>28 DEF CreateUnheard, CreateSession
<1>29. ASSUME NEW t \in Threads, RotateUnheard(t)
      PROVE  ThreadInv'
  BY <1>29 DEF RotateUnheard, RotateSession
<1>30. ASSUME NEW t \in Threads, WriteUnheard(t)
      PROVE  ThreadInv'
  BY <1>30 DEF WriteUnheard, UpdateUserCredentials
<1>31. ASSUME NEW t \in Threads, RevokeUnheard(t)
      PROVE  ThreadInv'
  BY <1>31 DEF RevokeUnheard, RevokeUserSessions
<1> QED  BY <1>1, <1>2, <1>3, <1>4, <1>5, <1>6, <1>7, <1>8, <1>9, <1>10,
      <1>11, <1>12, <1>13, <1>14, <1>15, <1>16, <1>17, <1>18, <1>19, <1>20,
      <1>21, <1>22, <1>23, <1>24, <1>25, <1>26, <1>27, <1>28, <1>29, <1>30,
      <1>31 DEF Next, Thread, StatementUnheard

(* A root admin is created when there is none, whatever was counted.       *)
LEMMA RootStep ==
  OneRootAdmin /\ [Next]_vars => OneRootAdmin'
<1> SUFFICES ASSUME OneRootAdmin, [Next]_vars
             PROVE  OneRootAdmin'
  OBVIOUS
<1> USE DEF OneRootAdmin, tableVars
<1>1. ASSUME NEW t \in Threads, SetupCount(t)
      PROVE  OneRootAdmin'
  BY <1>1 DEF SetupCount
<1>2. ASSUME NEW t \in Threads, SetupCreate(t)
      PROVE  OneRootAdmin'
  BY <1>2 DEF SetupCreate
<1>3. ASSUME NEW t \in Threads, LoginUser(t)
      PROVE  OneRootAdmin'
  BY <1>3 DEF LoginUser
<1>4. ASSUME NEW t \in Threads, LoginCreate(t)
      PROVE  OneRootAdmin'
  BY <1>4 DEF LoginCreate, CreateSession
<1>5. ASSUME NEW t \in Threads, LoginIssue(t)
      PROVE  OneRootAdmin'
  BY <1>5 DEF LoginIssue
<1>6. ASSUME NEW t \in Threads, LoginUndo(t)
      PROVE  OneRootAdmin'
  BY <1>6 DEF LoginUndo
<1>7. ASSUME NEW t \in Threads, ServiceToken(t)
      PROVE  OneRootAdmin'
  BY <1>7 DEF ServiceToken
<1>8. ASSUME NEW t \in Threads, RefreshSession(t)
      PROVE  OneRootAdmin'
  BY <1>8 DEF RefreshSession
<1>9. ASSUME NEW t \in Threads, RefreshUser(t)
      PROVE  OneRootAdmin'
  BY <1>9 DEF RefreshUser
<1>10. ASSUME NEW t \in Threads, RefreshRotate(t)
      PROVE  OneRootAdmin'
  BY <1>10 DEF RefreshRotate, RotateSession
<1>11. ASSUME NEW t \in Threads, AuthorizeUser(t)
      PROVE  OneRootAdmin'
  BY <1>11 DEF AuthorizeUser
<1>12. ASSUME NEW t \in Threads, UserRow(t)
      PROVE  OneRootAdmin'
  BY <1>12 DEF UserRow
<1>13. ASSUME NEW t \in Threads, AuthorizeService(t)
      PROVE  OneRootAdmin'
  BY <1>13 DEF AuthorizeService
<1>14. ASSUME NEW t \in Threads, RoleRow(t)
      PROVE  OneRootAdmin'
  BY <1>14 DEF RoleRow
<1>15. ASSUME NEW t \in Threads, Respond(t)
      PROVE  OneRootAdmin'
  BY <1>15 DEF Respond
<1>16. ASSUME NEW t \in Threads, Logout(t)
      PROVE  OneRootAdmin'
  BY <1>16 DEF Logout
<1>17. ASSUME NEW t \in Threads, MeRead(t)
      PROVE  OneRootAdmin'
  BY <1>17 DEF MeRead
<1>18. ASSUME NEW t \in Threads, MeWrite(t)
      PROVE  OneRootAdmin'
  BY <1>18 DEF MeWrite, UpdateUserCredentials
<1>19. ASSUME NEW t \in Threads, RevokeAll(t)
      PROVE  OneRootAdmin'
  BY <1>19 DEF RevokeAll, RevokeUserSessions
<1>20. ASSUME NEW t \in Threads, UpdateUser(t)
      PROVE  OneRootAdmin'
  BY <1>20 DEF UpdateUser
<1>21. ASSUME NEW t \in Threads, StatementFails(t)
      PROVE  OneRootAdmin'
  BY <1>21 DEF StatementFails
<1>22. ASSUME CreateRole
      PROVE  OneRootAdmin'
  BY <1>22 DEF CreateRole
<1>23. ASSUME UpdateRole
      PROVE  OneRootAdmin'
  BY <1>23 DEF UpdateRole
<1>24. ASSUME CreateUser \/ CreateServiceAccount
      PROVE  OneRootAdmin'
  BY <1>24 DEF CreateUser, CreateServiceAccount
<1>25. ASSUME UpdateServiceAccount
      PROVE  OneRootAdmin'
  BY <1>25 DEF UpdateServiceAccount
<1>26. ASSUME Lapse
      PROVE  OneRootAdmin'
  BY <1>26 DEF Lapse
<1>27. CASE UNCHANGED vars
  BY <1>27 DEF vars, tableVars, sessionVars, localVars
<1>28. ASSUME NEW t \in Threads, CreateUnheard(t)
      PROVE  OneRootAdmin'
  BY <1>28 DEF CreateUnheard, CreateSession
<1>29. ASSUME NEW t \in Threads, RotateUnheard(t)
      PROVE  OneRootAdmin'
  BY <1>29 DEF RotateUnheard, RotateSession
<1>30. ASSUME NEW t \in Threads, WriteUnheard(t)
      PROVE  OneRootAdmin'
  BY <1>30 DEF WriteUnheard, UpdateUserCredentials
<1>31. ASSUME NEW t \in Threads, RevokeUnheard(t)
      PROVE  OneRootAdmin'
  BY <1>31 DEF RevokeUnheard, RevokeUserSessions
<1> QED  BY <1>1, <1>2, <1>3, <1>4, <1>5, <1>6, <1>7, <1>8, <1>9, <1>10,
      <1>11, <1>12, <1>13, <1>14, <1>15, <1>16, <1>17, <1>18, <1>19, <1>20,
      <1>21, <1>22, <1>23, <1>24, <1>25, <1>26, <1>27, <1>28, <1>29, <1>30,
      <1>31 DEF Next, Thread, StatementUnheard

(* A session holds the token drawn last for it: exchanging it leaves it    *)
(* current nowhere.                                                        *)
LEMMA RotateKeeps ==
  ASSUME TypeOK, TokenInv, NEW s \in Sessions, owner[s] # None, NEW k,
         Rotatable(s, k), RotateSession(s, k), UNCHANGED <<owner, revoked>>,
         keyed' \subseteq keyed \cup {s}
  PROVE  TokenInv'
<1> USE DEF TypeOK, TokenInv
<1>1. /\ drawn' = drawn + 1
      /\ token' = [token EXCEPT ![s] = drawn + 1]
      /\ exchanges' = exchanges \cup
             {[session |-> s, old |-> token[s], new |-> drawn + 1]}
  BY DEF RotateSession, Rotatable
<1>2. \A z \in Sessions : token'[z] <= drawn' /\ token[z] <= drawn
  BY <1>1
<1>3. \A y, z \in Sessions : owner[y] # None /\ owner[z] # None
         /\ token'[y] = token'[z] => y = z
  BY <1>1, <1>2
<1>4. \A x \in exchanges' :
         /\ x.old <= drawn' /\ x.new <= drawn'
         /\ \A z \in Sessions : owner[z] # None => token'[z] # x.old
  <2> SUFFICES ASSUME NEW x \in exchanges'
               PROVE  /\ x.old <= drawn' /\ x.new <= drawn'
                      /\ \A z \in Sessions : owner[z] # None => token'[z] # x.old
    OBVIOUS
  <2>1. CASE x \in exchanges
    BY <1>1, <2>1
  <2>2. CASE x.old = token[s] /\ x.new = drawn + 1
    BY <1>1, <1>2, <2>2
  <2> QED  BY <1>1, <2>1, <2>2
<1>5. \A z \in Sessions : owner[z] = None => z \notin revoked \cup keyed'
  OBVIOUS
<1>6. \A z \in Sessions : owner[z] # None => token'[z] >= 1
  BY <1>1
<1> QED  BY <1>2, <1>3, <1>4, <1>5, <1>6

(* A session holds the token drawn last for it, and draws a new one only   *)
(* when that one is presented.                                             *)
LEMMA TokenStep ==
  TypeOK /\ ThreadInv /\ TokenInv /\ [Next]_vars => TokenInv'
<1> SUFFICES ASSUME TypeOK /\ ThreadInv /\ TokenInv, [Next]_vars
             PROVE  TokenInv'
  OBVIOUS
<1> USE AuthAssumption DEF sessionVars, TypeOK, Principals, ThreadInv,
      OwnSession, SessionsOf, TokenInv, Continue, Goto
<1>1. ASSUME NEW t \in Threads, SetupCount(t)
      PROVE  TokenInv'
  BY <1>1 DEF SetupCount
<1>2. ASSUME NEW t \in Threads, SetupCreate(t)
      PROVE  TokenInv'
  BY <1>2 DEF SetupCreate
<1>3. ASSUME NEW t \in Threads, LoginUser(t)
      PROVE  TokenInv'
  BY <1>3 DEF LoginUser
<1>4. ASSUME NEW t \in Threads, LoginCreate(t)
      PROVE  TokenInv'
  BY <1>4 DEF LoginCreate, CreateSession
<1>5. ASSUME NEW t \in Threads, LoginIssue(t)
      PROVE  TokenInv'
  <2>1. owner[ses[t]] # None /\ ses[t] \in Sessions
    BY <1>5 DEF LoginIssue
  <2>2. UNCHANGED <<owner, token, revoked, drawn, exchanges>>
        /\ keyed' \subseteq keyed \cup {ses[t]}
    BY <1>5 DEF LoginIssue
  <2> QED  BY <2>1, <2>2
<1>6. ASSUME NEW t \in Threads, LoginUndo(t)
      PROVE  TokenInv'
  <2>1. owner[ses[t]] # None /\ ses[t] \in Sessions
    BY <1>6 DEF LoginUndo
  <2> QED  BY <1>6, <2>1 DEF LoginUndo
<1>7. ASSUME NEW t \in Threads, ServiceToken(t)
      PROVE  TokenInv'
  BY <1>7 DEF ServiceToken
<1>8. ASSUME NEW t \in Threads, RefreshSession(t)
      PROVE  TokenInv'
  BY <1>8 DEF RefreshSession
<1>9. ASSUME NEW t \in Threads, RefreshUser(t)
      PROVE  TokenInv'
  BY <1>9 DEF RefreshUser
<1>10. ASSUME NEW t \in Threads, RefreshRotate(t)
      PROVE  TokenInv'
  <2>1. owner[ses[t]] # None /\ ses[t] \in Sessions
    BY <1>10 DEF RefreshRotate, RotateSession
  <2>2. UNCHANGED <<owner, revoked>>
    BY <1>10 DEF RefreshRotate, RotateSession
  <2>3. CASE Rotatable(ses[t], presented[t])
    <3>1. RotateSession(ses[t], presented[t]) /\ keyed' = keyed \cup {ses[t]}
      BY <1>10, <2>3 DEF RefreshRotate
    <3> QED  BY <2>1, <2>2, <2>3, <3>1, RotateKeeps
  <2>4. CASE ~Rotatable(ses[t], presented[t])
    BY <1>10, <2>4 DEF RefreshRotate, RotateSession
  <2> QED  BY <2>3, <2>4
<1>11. ASSUME NEW t \in Threads, AuthorizeUser(t)
      PROVE  TokenInv'
  BY <1>11 DEF AuthorizeUser
<1>12. ASSUME NEW t \in Threads, UserRow(t)
      PROVE  TokenInv'
  BY <1>12 DEF UserRow
<1>13. ASSUME NEW t \in Threads, AuthorizeService(t)
      PROVE  TokenInv'
  BY <1>13 DEF AuthorizeService
<1>14. ASSUME NEW t \in Threads, RoleRow(t)
      PROVE  TokenInv'
  BY <1>14 DEF RoleRow
<1>15. ASSUME NEW t \in Threads, Respond(t)
      PROVE  TokenInv'
  BY <1>15 DEF Respond
<1>16. ASSUME NEW t \in Threads, Logout(t)
      PROVE  TokenInv'
  <2>1. owner[ses[t]] # None /\ ses[t] \in Sessions
    BY <1>16 DEF Logout
  <2> QED  BY <1>16, <2>1 DEF Logout
<1>17. ASSUME NEW t \in Threads, MeRead(t)
      PROVE  TokenInv'
  BY <1>17 DEF MeRead
<1>18. ASSUME NEW t \in Threads, MeWrite(t)
      PROVE  TokenInv'
  BY <1>18 DEF MeWrite, UpdateUserCredentials
<1>19. ASSUME NEW t \in Threads, RevokeAll(t)
      PROVE  TokenInv'
  <2>1. who[t] # None
    BY <1>19 DEF RevokeAll, RevokeUserSessions
  <2>2. \A s \in SessionsOf(who[t]) : owner[s] # None
    BY <2>1
  <2> QED  BY <1>19, <2>2 DEF RevokeAll, RevokeUserSessions
<1>20. ASSUME NEW t \in Threads, UpdateUser(t)
      PROVE  TokenInv'
  BY <1>20 DEF UpdateUser
<1>21. ASSUME NEW t \in Threads, StatementFails(t)
      PROVE  TokenInv'
  BY <1>21 DEF StatementFails
<1>22. ASSUME CreateRole
      PROVE  TokenInv'
  BY <1>22 DEF CreateRole
<1>23. ASSUME UpdateRole
      PROVE  TokenInv'
  BY <1>23 DEF UpdateRole
<1>24. ASSUME CreateUser \/ CreateServiceAccount
      PROVE  TokenInv'
  BY <1>24 DEF CreateUser, CreateServiceAccount
<1>25. ASSUME UpdateServiceAccount
      PROVE  TokenInv'
  BY <1>25 DEF UpdateServiceAccount
<1>26. ASSUME Lapse
      PROVE  TokenInv'
  BY <1>26 DEF Lapse
<1>27. CASE UNCHANGED vars
  BY <1>27 DEF vars, tableVars, sessionVars, localVars
<1>28. ASSUME NEW t \in Threads, CreateUnheard(t)
      PROVE  TokenInv'
  BY <1>28 DEF CreateUnheard, CreateSession
<1>29. ASSUME NEW t \in Threads, RotateUnheard(t)
      PROVE  TokenInv'
  <2>1. owner[ses[t]] # None /\ ses[t] \in Sessions
    BY <1>29 DEF RotateUnheard
  <2> QED  BY <1>29, <2>1, RotateKeeps DEF RotateUnheard
<1>30. ASSUME NEW t \in Threads, WriteUnheard(t)
      PROVE  TokenInv'
  BY <1>30 DEF WriteUnheard, UpdateUserCredentials
<1>31. ASSUME NEW t \in Threads, RevokeUnheard(t)
      PROVE  TokenInv'
  <2>1. who[t] # None
    BY <1>31 DEF RevokeUnheard
  <2>2. \A s \in SessionsOf(who[t]) : owner[s] # None
    BY <2>1
  <2> QED  BY <1>31, <2>2 DEF RevokeUnheard, RevokeUserSessions
<1> QED  BY <1>1, <1>2, <1>3, <1>4, <1>5, <1>6, <1>7, <1>8, <1>9, <1>10,
      <1>11, <1>12, <1>13, <1>14, <1>15, <1>16, <1>17, <1>18, <1>19, <1>20,
      <1>21, <1>22, <1>23, <1>24, <1>25, <1>26, <1>27, <1>28, <1>29, <1>30,
      <1>31 DEF Next, Thread, StatementUnheard

(* An exchanged token is current for no session any more.                  *)
LEMMA RotateOnce ==
  ASSUME TypeOK, TokenInv, TokenExchangedOnce, NEW s \in Sessions,
         owner[s] # None, NEW k, Rotatable(s, k), RotateSession(s, k)
  PROVE  TokenExchangedOnce'
<1> DEFINE e == [session |-> s, old |-> k, new |-> drawn + 1]
<1>1. exchanges' = exchanges \cup {e} /\ k = token[s]
  BY DEF RotateSession, Rotatable
<1>2. \A x \in exchanges : x.old # e.old /\ x.new # e.new
  BY <1>1 DEF TokenInv, TypeOK
<1> HIDE DEF e
<1> QED  BY <1>1, <1>2 DEF TokenExchangedOnce

LEMMA ExchangeStep ==
  TypeOK /\ ThreadInv /\ TokenInv /\ TokenExchangedOnce /\ [Next]_vars => TokenExchangedOnce'
<1> SUFFICES ASSUME TypeOK /\ ThreadInv /\ TokenInv /\ TokenExchangedOnce, [Next]_vars
             PROVE  TokenExchangedOnce'
  OBVIOUS
<1> USE DEF sessionVars, TokenExchangedOnce
<1>1. ASSUME NEW t \in Threads, SetupCount(t)
      PROVE  TokenExchangedOnce'
  BY <1>1 DEF SetupCount
<1>2. ASSUME NEW t \in Threads, SetupCreate(t)
      PROVE  TokenExchangedOnce'
  BY <1>2 DEF SetupCreate
<1>3. ASSUME NEW t \in Threads, LoginUser(t)
      PROVE  TokenExchangedOnce'
  BY <1>3 DEF LoginUser
<1>4. ASSUME NEW t \in Threads, LoginCreate(t)
      PROVE  TokenExchangedOnce'
  BY <1>4 DEF LoginCreate, CreateSession
<1>5. ASSUME NEW t \in Threads, LoginIssue(t)
      PROVE  TokenExchangedOnce'
  BY <1>5 DEF LoginIssue
<1>6. ASSUME NEW t \in Threads, LoginUndo(t)
      PROVE  TokenExchangedOnce'
  BY <1>6 DEF LoginUndo
<1>7. ASSUME NEW t \in Threads, ServiceToken(t)
      PROVE  TokenExchangedOnce'
  BY <1>7 DEF ServiceToken
<1>8. ASSUME NEW t \in Threads, RefreshSession(t)
      PROVE  TokenExchangedOnce'
  BY <1>8 DEF RefreshSession
<1>9. ASSUME NEW t \in Threads, RefreshUser(t)
      PROVE  TokenExchangedOnce'
  BY <1>9 DEF RefreshUser
<1>10. ASSUME NEW t \in Threads, RefreshRotate(t)
      PROVE  TokenExchangedOnce'
  <2>1. owner[ses[t]] # None /\ ses[t] \in Sessions
    BY <1>10, AuthAssumption DEF RefreshRotate, RotateSession, ThreadInv, OwnSession, Principals
  <2>2. CASE Rotatable(ses[t], presented[t])
    <3>1. RotateSession(ses[t], presented[t])
      BY <1>10, <2>2 DEF RefreshRotate
    <3> QED  BY <2>1, <2>2, <3>1, RotateOnce
  <2>3. CASE ~Rotatable(ses[t], presented[t])
    BY <1>10, <2>3 DEF RefreshRotate, RotateSession
  <2> QED  BY <2>2, <2>3
<1>11. ASSUME NEW t \in Threads, AuthorizeUser(t)
      PROVE  TokenExchangedOnce'
  BY <1>11 DEF AuthorizeUser
<1>12. ASSUME NEW t \in Threads, UserRow(t)
      PROVE  TokenExchangedOnce'
  BY <1>12 DEF UserRow
<1>13. ASSUME NEW t \in Threads, AuthorizeService(t)
      PROVE  TokenExchangedOnce'
  BY <1>13 DEF AuthorizeService
<1>14. ASSUME NEW t \in Threads, RoleRow(t)
      PROVE  TokenExchangedOnce'
  BY <1>14 DEF RoleRow
<1>15. ASSUME NEW t \in Threads, Respond(t)
      PROVE  TokenExchangedOnce'
  BY <1>15 DEF Respond
<1>16. ASSUME NEW t \in Threads, Logout(t)
      PROVE  TokenExchangedOnce'
  BY <1>16 DEF Logout
<1>17. ASSUME NEW t \in Threads, MeRead(t)
      PROVE  TokenExchangedOnce'
  BY <1>17 DEF MeRead
<1>18. ASSUME NEW t \in Threads, MeWrite(t)
      PROVE  TokenExchangedOnce'
  BY <1>18 DEF MeWrite, UpdateUserCredentials
<1>19. ASSUME NEW t \in Threads, RevokeAll(t)
      PROVE  TokenExchangedOnce'
  BY <1>19 DEF RevokeAll, RevokeUserSessions
<1>20. ASSUME NEW t \in Threads, UpdateUser(t)
      PROVE  TokenExchangedOnce'
  BY <1>20 DEF UpdateUser
<1>21. ASSUME NEW t \in Threads, StatementFails(t)
      PROVE  TokenExchangedOnce'
  BY <1>21 DEF StatementFails
<1>22. ASSUME CreateRole
      PROVE  TokenExchangedOnce'
  BY <1>22 DEF CreateRole
<1>23. ASSUME UpdateRole
      PROVE  TokenExchangedOnce'
  BY <1>23 DEF UpdateRole
<1>24. ASSUME CreateUser \/ CreateServiceAccount
      PROVE  TokenExchangedOnce'
  BY <1>24 DEF CreateUser, CreateServiceAccount
<1>25. ASSUME UpdateServiceAccount
      PROVE  TokenExchangedOnce'
  BY <1>25 DEF UpdateServiceAccount
<1>26. ASSUME Lapse
      PROVE  TokenExchangedOnce'
  BY <1>26 DEF Lapse
<1>27. CASE UNCHANGED vars
  BY <1>27 DEF vars, tableVars, sessionVars, localVars
<1>28. ASSUME NEW t \in Threads, CreateUnheard(t)
      PROVE  TokenExchangedOnce'
  BY <1>28 DEF CreateUnheard, CreateSession
<1>29. ASSUME NEW t \in Threads, RotateUnheard(t)
      PROVE  TokenExchangedOnce'
  <2>1. owner[ses[t]] # None /\ ses[t] \in Sessions
    BY <1>29, AuthAssumption DEF RotateUnheard, ThreadInv, OwnSession, Principals
  <2> QED  BY <1>29, <2>1, RotateOnce DEF RotateUnheard
<1>30. ASSUME NEW t \in Threads, WriteUnheard(t)
      PROVE  TokenExchangedOnce'
  BY <1>30 DEF WriteUnheard, UpdateUserCredentials
<1>31. ASSUME NEW t \in Threads, RevokeUnheard(t)
      PROVE  TokenExchangedOnce'
  BY <1>31 DEF RevokeUnheard, RevokeUserSessions
<1> QED  BY <1>1, <1>2, <1>3, <1>4, <1>5, <1>6, <1>7, <1>8, <1>9, <1>10,
      <1>11, <1>12, <1>13, <1>14, <1>15, <1>16, <1>17, <1>18, <1>19, <1>20,
      <1>21, <1>22, <1>23, <1>24, <1>25, <1>26, <1>27, <1>28, <1>29, <1>30,
      <1>31 DEF Next, Thread, StatementUnheard

(* RevokeUserSessions revokes what the user had when the row was written:  *)
(* a session never changes its user.                                       *)
LEMMA ChangeStep ==
  TypeOK /\ ThreadInv /\ TokenInv /\ ChangeRevokesEarlier /\ [Next]_vars => ChangeRevokesEarlier'
<1> SUFFICES ASSUME TypeOK /\ ThreadInv /\ TokenInv /\ ChangeRevokesEarlier, [Next]_vars
             PROVE  ChangeRevokesEarlier'
  OBVIOUS
<1> USE AuthAssumption DEF tableVars, sessionVars, localVars, Continue, Goto,
      Finish, Begin, Count, Restore, TypeOK, ThreadInv, OwnSession,
      SessionsOf, ChangeRevokesEarlier
<1>1. ASSUME NEW t \in Threads, SetupCount(t)
      PROVE  ChangeRevokesEarlier'
  BY <1>1 DEF SetupCount
<1>2. ASSUME NEW t \in Threads, SetupCreate(t)
      PROVE  ChangeRevokesEarlier'
  BY <1>2 DEF SetupCreate
<1>3. ASSUME NEW t \in Threads, LoginUser(t)
      PROVE  ChangeRevokesEarlier'
  BY <1>3 DEF LoginUser
<1>4. ASSUME NEW t \in Threads, LoginCreate(t)
      PROVE  ChangeRevokesEarlier'
  BY <1>4 DEF LoginCreate, CreateSession
<1>5. ASSUME NEW t \in Threads, LoginIssue(t)
      PROVE  ChangeRevokesEarlier'
  BY <1>5 DEF LoginIssue
<1>6. ASSUME NEW t \in Threads, LoginUndo(t)
      PROVE  ChangeRevokesEarlier'
  BY <1>6 DEF LoginUndo
<1>7. ASSUME NEW t \in Threads, ServiceToken(t)
      PROVE  ChangeRevokesEarlier'
  BY <1>7 DEF ServiceToken
<1>8. ASSUME NEW t \in Threads, RefreshSession(t)
      PROVE  ChangeRevokesEarlier'
  BY <1>8 DEF RefreshSession, Live
<1>9. ASSUME NEW t \in Threads, RefreshUser(t)
      PROVE  ChangeRevokesEarlier'
  BY <1>9 DEF RefreshUser, CheckRow
<1>10. ASSUME NEW t \in Threads, RefreshRotate(t)
      PROVE  ChangeRevokesEarlier'
  BY <1>10 DEF RefreshRotate, RotateSession
<1>11. ASSUME NEW t \in Threads, AuthorizeUser(t)
      PROVE  ChangeRevokesEarlier'
  BY <1>11 DEF AuthorizeUser, Live
<1>12. ASSUME NEW t \in Threads, UserRow(t)
      PROVE  ChangeRevokesEarlier'
  BY <1>12 DEF UserRow, CheckRow, GrantOrReadRole
<1>13. ASSUME NEW t \in Threads, AuthorizeService(t)
      PROVE  ChangeRevokesEarlier'
  BY <1>13 DEF AuthorizeService
<1>14. ASSUME NEW t \in Threads, RoleRow(t)
      PROVE  ChangeRevokesEarlier'
  BY <1>14 DEF RoleRow
<1>15. ASSUME NEW t \in Threads, Respond(t)
      PROVE  ChangeRevokesEarlier'
  BY <1>15 DEF Respond
<1>16. ASSUME NEW t \in Threads, Logout(t)
      PROVE  ChangeRevokesEarlier'
  BY <1>16 DEF Logout
<1>17. ASSUME NEW t \in Threads, MeRead(t)
      PROVE  ChangeRevokesEarlier'
  BY <1>17 DEF MeRead
<1>18. ASSUME NEW t \in Threads, MeWrite(t)
      PROVE  ChangeRevokesEarlier'
  BY <1>18 DEF MeWrite, UpdateUserCredentials
<1>19. ASSUME NEW t \in Threads, RevokeAll(t)
      PROVE  ChangeRevokesEarlier'
  BY <1>19 DEF RevokeAll, RevokeUserSessions
<1>20. ASSUME NEW t \in Threads, UpdateUser(t)
      PROVE  ChangeRevokesEarlier'
  BY <1>20 DEF UpdateUser, Update
<1>21. ASSUME NEW t \in Threads, StatementFails(t)
      PROVE  ChangeRevokesEarlier'
  BY <1>21 DEF StatementFails
<1>22. ASSUME CreateRole
      PROVE  ChangeRevokesEarlier'
  BY <1>22 DEF CreateRole
<1>23. ASSUME UpdateRole
      PROVE  ChangeRevokesEarlier'
  BY <1>23 DEF UpdateRole
<1>24. ASSUME CreateUser \/ CreateServiceAccount
      PROVE  ChangeRevokesEarlier'
  BY <1>24 DEF CreateUser, CreateServiceAccount, Insert
<1>25. ASSUME UpdateServiceAccount
      PROVE  ChangeRevokesEarlier'
  BY <1>25 DEF UpdateServiceAccount, Update
<1>26. ASSUME Lapse
      PROVE  ChangeRevokesEarlier'
  BY <1>26 DEF Lapse
<1>27. CASE UNCHANGED vars
  BY <1>27 DEF vars, tableVars, sessionVars, localVars
<1>28. ASSUME NEW t \in Threads, CreateUnheard(t)
      PROVE  ChangeRevokesEarlier'
  BY <1>28 DEF CreateUnheard, CreateSession
<1>29. ASSUME NEW t \in Threads, RotateUnheard(t)
      PROVE  ChangeRevokesEarlier'
  BY <1>29 DEF RotateUnheard, RotateSession
<1>30. ASSUME NEW t \in Threads, WriteUnheard(t)
      PROVE  ChangeRevokesEarlier'
  BY <1>30 DEF WriteUnheard, UpdateUserCredentials
<1>31. ASSUME NEW t \in Threads, RevokeUnheard(t)
      PROVE  ChangeRevokesEarlier'
  BY <1>31 DEF RevokeUnheard, RevokeUserSessions
<1> QED  BY <1>1, <1>2, <1>3, <1>4, <1>5, <1>6, <1>7, <1>8, <1>9, <1>10,
      <1>11, <1>12, <1>13, <1>14, <1>15, <1>16, <1>17, <1>18, <1>19, <1>20,
      <1>21, <1>22, <1>23, <1>24, <1>25, <1>26, <1>27, <1>28, <1>29, <1>30,
      <1>31 DEF Next, Thread, StatementUnheard

(* A request passes a check only for what is not cut off then, and what is *)
(* restored leaves the history.                                            *)
LEMMA BarredStep ==
  TypeOK /\ ThreadInv /\ TokenInv /\ BarredInv /\ [Next]_vars => BarredInv'
<1> SUFFICES ASSUME TypeOK /\ ThreadInv /\ TokenInv /\ BarredInv, [Next]_vars
             PROVE  BarredInv'
  OBVIOUS
<1> USE AuthAssumption DEF tableVars, sessionVars, localVars, Continue, Goto,
      Finish, Begin, Count, Restore, TypeOK, Principals, ThreadInv,
      OwnSession, SessionsOf, TokenInv, BarredInv, CutOff
<1>1. ASSUME NEW t \in Threads, SetupCount(t)
      PROVE  BarredInv'
  <2>1. Begin(t, "setupCreate", None, None, 0)
    BY <1>1, AuthAssumption DEF SetupCount, Admits, Live
  <2>2. CutOff' = CutOff
    BY <1>1 DEF SetupCount, Begin, sessionVars, tableVars, CutOff
  <2>3. barred' = [barred EXCEPT ![t] = CutOff] /\ asked[t] = None
    BY <2>1 DEF Begin, ThreadInv
  <2>4. None \notin CutOff /\ TRUE
    BY <2>1, AuthAssumption DEF CutOff, TypeOK, Principals, TokenInv, Live
  <2> HIDE DEF CutOff
  <2> QED  BY <1>1, <2>1, <2>2, <2>3, <2>4 DEF SetupCount, Begin, BarredInv
<1>2. ASSUME NEW t \in Threads, SetupCreate(t)
      PROVE  BarredInv'
  BY <1>2 DEF SetupCreate
<1>3. ASSUME NEW t \in Threads, LoginUser(t)
      PROVE  BarredInv'
  <2>1. PICK u \in Users \cap rows \cap enabled : Begin(t, "loginCreate", u, None, 0)
    BY <1>3, AuthAssumption DEF LoginUser, Admits, Live
  <2>2. CutOff' = CutOff
    BY <1>3 DEF LoginUser, Begin, sessionVars, tableVars, CutOff
  <2>3. barred' = [barred EXCEPT ![t] = CutOff] /\ asked[t] = None
    BY <2>1 DEF Begin, ThreadInv
  <2>4. None \notin CutOff /\ u \notin CutOff
    BY <2>1, AuthAssumption DEF CutOff, TypeOK, Principals, TokenInv, Live
  <2> HIDE DEF CutOff
  <2> QED  BY <1>3, <2>1, <2>2, <2>3, <2>4 DEF LoginUser, Begin, BarredInv
<1>4. ASSUME NEW t \in Threads, LoginCreate(t)
      PROVE  BarredInv'
  BY <1>4 DEF LoginCreate, CreateSession
<1>5. ASSUME NEW t \in Threads, LoginIssue(t)
      PROVE  BarredInv'
  BY <1>5 DEF LoginIssue
<1>6. ASSUME NEW t \in Threads, LoginUndo(t)
      PROVE  BarredInv'
  BY <1>6 DEF LoginUndo
<1>7. ASSUME NEW t \in Threads, ServiceToken(t)
      PROVE  BarredInv'
  <2>1. PICK p \in Accounts \cap rows \cap enabled : Begin(t, "signedIn", p, None, 0)
    BY <1>7, AuthAssumption DEF ServiceToken, Admits, Live
  <2>2. CutOff' = CutOff
    BY <1>7 DEF ServiceToken, Begin, sessionVars, tableVars, CutOff
  <2>3. barred' = [barred EXCEPT ![t] = CutOff] /\ asked[t] = None
    BY <2>1 DEF Begin, ThreadInv
  <2>4. None \notin CutOff /\ p \notin CutOff
    BY <2>1, AuthAssumption DEF CutOff, TypeOK, Principals, TokenInv, Live
  <2> HIDE DEF CutOff
  <2> QED  BY <1>7, <2>1, <2>2, <2>3, <2>4 DEF ServiceToken, Begin, BarredInv
<1>8. ASSUME NEW t \in Threads, RefreshSession(t)
      PROVE  BarredInv'
  <2>1. PICK s \in Sessions : Live(s) /\ Begin(t, "refreshUser", owner[s], s, token[s])
    BY <1>8, AuthAssumption DEF RefreshSession, Admits, Live
  <2>2. CutOff' = CutOff
    BY <1>8 DEF RefreshSession, Begin, sessionVars, tableVars, CutOff
  <2>3. barred' = [barred EXCEPT ![t] = CutOff] /\ asked[t] = None
    BY <2>1 DEF Begin, ThreadInv
  <2>4. None \notin CutOff /\ s \notin CutOff
    BY <2>1, AuthAssumption DEF CutOff, TypeOK, Principals, TokenInv, Live
  <2> HIDE DEF CutOff
  <2> QED  BY <1>8, <2>1, <2>2, <2>3, <2>4 DEF RefreshSession, Begin, BarredInv
<1>9. ASSUME NEW t \in Threads, RefreshUser(t)
      PROVE  BarredInv'
  BY <1>9 DEF RefreshUser, CheckRow, Admits
<1>10. ASSUME NEW t \in Threads, RefreshRotate(t)
      PROVE  BarredInv'
  BY <1>10 DEF RefreshRotate, RotateSession
<1>11. ASSUME NEW t \in Threads, AuthorizeUser(t)
      PROVE  BarredInv'
  <2>1. PICK s \in Sessions : Live(s) /\ Begin(t, "userRow", owner[s], s, 0)
    BY <1>11, AuthAssumption DEF AuthorizeUser, Admits, Live
  <2>2. CutOff' = CutOff
    BY <1>11 DEF AuthorizeUser, Begin, sessionVars, tableVars, CutOff
  <2>3. barred' = [barred EXCEPT ![t] = CutOff] /\ asked[t] = None
    BY <2>1 DEF Begin, ThreadInv
  <2>4. None \notin CutOff /\ s \notin CutOff
    BY <2>1, AuthAssumption DEF CutOff, TypeOK, Principals, TokenInv, Live
  <2> HIDE DEF CutOff
  <2> QED  BY <1>11, <2>1, <2>2, <2>3, <2>4 DEF AuthorizeUser, Begin, BarredInv
<1>12. ASSUME NEW t \in Threads, UserRow(t)
      PROVE  BarredInv'
  <2>1. CASE Finish(t)
    BY <1>12, <2>1 DEF UserRow
  <2>2. CASE who[t] \in enabled /\ GrantOrReadRole(t, who[t]) /\ UNCHANGED
                 <<who, ses, presented, secret, newAllowed, cutsOff, covered, barred>>
    <3>1. who[t] \in Users /\ who[t] \notin barred[t]
      BY <1>12, <2>2 DEF UserRow
    <3>2. UNCHANGED <<tableVars, sessionVars, lapsed, calls>>
      BY <1>12 DEF UserRow
    <3> QED  BY <1>12, <2>2, <3>1, <3>2 DEF GrantOrReadRole, UserRow
  <2> QED  BY <1>12, <2>1, <2>2 DEF UserRow, CheckRow, Admits
<1>13. ASSUME NEW t \in Threads, AuthorizeService(t)
      PROVE  BarredInv'
  <2>1. PICK p \in Accounts \cap enabled :
          \/ Begin(t, "granted", p, None, 0) /\ UNCHANGED asked
          \/ /\ Begin(t, "roleRow", p, None, 0)
             /\ asked' = [asked EXCEPT ![t] = role[p]]
    BY <1>13, AuthAssumption DEF AuthorizeService, Admits, Live
  <2>2. CutOff' = CutOff
    BY <1>13 DEF AuthorizeService, Begin, sessionVars, tableVars, CutOff
  <2>3. barred' = [barred EXCEPT ![t] = CutOff] /\ asked[t] = None
    BY <2>1 DEF Begin, ThreadInv
  <2>4. None \notin CutOff /\ p \notin CutOff
    BY <2>1, AuthAssumption DEF CutOff, TypeOK, Principals, TokenInv, Live
  <2> HIDE DEF CutOff
  <2> QED  BY <1>13, <2>1, <2>2, <2>3, <2>4 DEF AuthorizeService, Begin, BarredInv
<1>14. ASSUME NEW t \in Threads, RoleRow(t)
      PROVE  BarredInv'
  BY <1>14 DEF RoleRow
<1>15. ASSUME NEW t \in Threads, Respond(t)
      PROVE  BarredInv'
  BY <1>15 DEF Respond
<1>16. ASSUME NEW t \in Threads, Logout(t)
      PROVE  BarredInv'
  BY <1>16 DEF Logout
<1>17. ASSUME NEW t \in Threads, MeRead(t)
      PROVE  BarredInv'
  BY <1>17 DEF MeRead
<1>18. ASSUME NEW t \in Threads, MeWrite(t)
      PROVE  BarredInv'
  BY <1>18 DEF MeWrite, UpdateUserCredentials
<1>19. ASSUME NEW t \in Threads, RevokeAll(t)
      PROVE  BarredInv'
  BY <1>19 DEF RevokeAll, RevokeUserSessions
<1>20. ASSUME NEW t \in Threads, UpdateUser(t)
      PROVE  BarredInv'
  BY <1>20 DEF UpdateUser, Update
<1>21. ASSUME NEW t \in Threads, StatementFails(t)
      PROVE  BarredInv'
  BY <1>21 DEF StatementFails
<1>22. ASSUME CreateRole
      PROVE  BarredInv'
  BY <1>22 DEF CreateRole
<1>23. ASSUME UpdateRole
      PROVE  BarredInv'
  BY <1>23 DEF UpdateRole
<1>24. ASSUME CreateUser \/ CreateServiceAccount
      PROVE  BarredInv'
  BY <1>24 DEF CreateUser, CreateServiceAccount, Insert
<1>25. ASSUME UpdateServiceAccount
      PROVE  BarredInv'
  BY <1>25 DEF UpdateServiceAccount, Update
<1>26. ASSUME Lapse
      PROVE  BarredInv'
  BY <1>26 DEF Lapse
<1>27. CASE UNCHANGED vars
  BY <1>27 DEF vars, tableVars, sessionVars, localVars
<1>28. ASSUME NEW t \in Threads, CreateUnheard(t)
      PROVE  BarredInv'
  BY <1>28 DEF CreateUnheard, CreateSession
<1>29. ASSUME NEW t \in Threads, RotateUnheard(t)
      PROVE  BarredInv'
  BY <1>29 DEF RotateUnheard, RotateSession
<1>30. ASSUME NEW t \in Threads, WriteUnheard(t)
      PROVE  BarredInv'
  BY <1>30 DEF WriteUnheard, UpdateUserCredentials
<1>31. ASSUME NEW t \in Threads, RevokeUnheard(t)
      PROVE  BarredInv'
  BY <1>31 DEF RevokeUnheard, RevokeUserSessions
<1> QED  BY <1>1, <1>2, <1>3, <1>4, <1>5, <1>6, <1>7, <1>8, <1>9, <1>10,
      <1>11, <1>12, <1>13, <1>14, <1>15, <1>16, <1>17, <1>18, <1>19, <1>20,
      <1>21, <1>22, <1>23, <1>24, <1>25, <1>26, <1>27, <1>28, <1>29, <1>30,
      <1>31 DEF Next, Thread, StatementUnheard

LEMMA InitIInv == Init => IInv
<1> SUFFICES ASSUME Init PROVE IInv
  OBVIOUS
<1> USE AuthAssumption
<1>1. TypeOK
  <2>1. CASE rows = {}
    BY <2>1 DEF Init, TypeOK, Steps, Principals, Installed
  <2>2. ASSUME NEW a \in Users, NEW u \in Users, NEW r \in Roles,
               NEW p \in Passwords, a # u, Installed(a, u, r, p)
        PROVE  TypeOK
    BY <2>2 DEF Init, TypeOK, Steps, Principals, Installed
  <2> QED  BY <2>1, <2>2 DEF Init
<1>2. ThreadInv /\ TokenInv /\ ChangeRevokesEarlier /\ BarredInv
  BY DEF Init, ThreadInv, TokenInv, ChangeRevokesEarlier, BarredInv
<1>3. OneRootAdmin /\ TokenExchangedOnce
  BY DEF Init, Installed, OneRootAdmin, TokenExchangedOnce
<1> QED  BY <1>1, <1>2, <1>3 DEF IInv

LEMMA StepIInv == IInv /\ [Next]_vars => IInv'
  BY TypeStep, ThreadStep, RootStep, TokenStep, ExchangeStep, ChangeStep,
     BarredStep DEF IInv

(* The inductive invariant holds in every reachable state.                 *)
THEOREM Invariance == Spec => []IInv
  BY InitIInv, StepIInv, PTL DEF Spec

(* The state is well typed and keeps the constraints of the schema.        *)
THEOREM TypeCorrect == Spec => []TypeOK
<1>1. IInv => TypeOK
  BY DEF IInv
<1> QED  BY <1>1, Invariance, PTL

(* However many Setup requests race, there is one root admin at most.      *)
THEOREM RootIsUnique == Spec => []OneRootAdmin
<1>1. IInv => OneRootAdmin
  BY DEF IInv
<1> QED  BY <1>1, Invariance, PTL

(* A refresh token is exchanged at most once.                              *)
THEOREM TokensAreExchangedOnce == Spec => []TokenExchangedOnce
<1>1. IInv => TokenExchangedOnce
  BY DEF IInv
<1> QED  BY <1>1, Invariance, PTL

(* What was cut off before a request began is not served to it.            *)
THEOREM CutOffIsNotServed == Spec => []CutOffNeverServed
<1>1. IInv => CutOffNeverServed
  <2> SUFFICES ASSUME IInv, NEW t \in Threads, pc[t] \in {"granted", "signedIn"}
               PROVE  {who[t], ses[t], asked[t]} \cap barred[t] = {}
    BY DEF CutOffNeverServed
  <2> QED  BY DEF IInv, BarredInv
<1> QED  BY <1>1, Invariance, PTL

(* A change that cuts a user off succeeds only after its sessions are      *)
(* revoked.                                                                *)
THEOREM ChangesRevoke == Spec => []ChangeRevokesEarlier
<1>1. IInv => ChangeRevokesEarlier
  BY DEF IInv
<1> QED  BY <1>1, Invariance, PTL

LEMMA LedgerInit == Init => Ledger!Init
  BY DEF Init, Ledger!Init

(* Statements on sessions are steps of the ledger, the others stutter.     *)
LEMMA LedgerStep ==
  TypeOK /\ ThreadInv /\ TokenInv /\ [Next]_vars => [Ledger!Next]_(Ledger!vars)
<1> SUFFICES ASSUME TypeOK /\ ThreadInv /\ TokenInv, [Next]_vars
             PROVE  [Ledger!Next]_(Ledger!vars)
  OBVIOUS
<1> USE DEF sessionVars, Ledger!vars
<1>1. ASSUME NEW t \in Threads, SetupCount(t)
      PROVE  [Ledger!Next]_(Ledger!vars)
  BY <1>1 DEF SetupCount
<1>2. ASSUME NEW t \in Threads, SetupCreate(t)
      PROVE  [Ledger!Next]_(Ledger!vars)
  BY <1>2 DEF SetupCreate
<1>3. ASSUME NEW t \in Threads, LoginUser(t)
      PROVE  [Ledger!Next]_(Ledger!vars)
  BY <1>3 DEF LoginUser
<1>4. ASSUME NEW t \in Threads, LoginCreate(t)
      PROVE  [Ledger!Next]_(Ledger!vars)
  <2>1. PICK s \in Sessions :
          /\ owner[s] = None
          /\ owner' = [owner EXCEPT ![s] = who[t]]
          /\ token' = [token EXCEPT ![s] = drawn + 1]
    BY <1>4 DEF LoginCreate, CreateSession
  <2>2. who[t] \in Users /\ drawn' = drawn + 1 /\ UNCHANGED revoked
    BY <1>4 DEF LoginCreate, CreateSession, ThreadInv
  <2>3. Ledger!Open(s, who[t])
    BY <2>1, <2>2 DEF Ledger!Open
  <2> QED  BY <2>2, <2>3 DEF Ledger!Next
<1>5. ASSUME NEW t \in Threads, LoginIssue(t)
      PROVE  [Ledger!Next]_(Ledger!vars)
  BY <1>5 DEF LoginIssue
<1>6. ASSUME NEW t \in Threads, LoginUndo(t)
      PROVE  [Ledger!Next]_(Ledger!vars)
  <2>1. ses[t] \in Sessions /\ owner[ses[t]] # None
    BY <1>6, AuthAssumption DEF LoginUndo, ThreadInv, OwnSession, Principals
  <2>2. Ledger!Revoke({ses[t]})
    BY <1>6, <2>1 DEF LoginUndo, Ledger!Revoke
  <2>3. {ses[t]} \in SUBSET Sessions
    BY <2>1
  <2> QED  BY <2>2, <2>3 DEF Ledger!Next
<1>7. ASSUME NEW t \in Threads, ServiceToken(t)
      PROVE  [Ledger!Next]_(Ledger!vars)
  BY <1>7 DEF ServiceToken
<1>8. ASSUME NEW t \in Threads, RefreshSession(t)
      PROVE  [Ledger!Next]_(Ledger!vars)
  BY <1>8 DEF RefreshSession
<1>9. ASSUME NEW t \in Threads, RefreshUser(t)
      PROVE  [Ledger!Next]_(Ledger!vars)
  BY <1>9 DEF RefreshUser
<1>10. ASSUME NEW t \in Threads, RefreshRotate(t)
      PROVE  [Ledger!Next]_(Ledger!vars)
  <2>1. ses[t] \in Sessions /\ owner[ses[t]] # None
    BY <1>10, AuthAssumption DEF RefreshRotate, RotateSession, ThreadInv, OwnSession, Principals
  <2>2. CASE Rotatable(ses[t], presented[t])
    <3>1. Ledger!Exchange(ses[t], presented[t])
      BY <1>10, <2>1, <2>2 DEF RefreshRotate, RotateSession, Rotatable, Ledger!Exchange
    <3>2. presented[t] \in 1..drawn
      BY <2>1, <2>2 DEF Rotatable, TokenInv, TypeOK
    <3> QED  BY <2>1, <3>1, <3>2 DEF Ledger!Next
  <2>3. CASE ~Rotatable(ses[t], presented[t])
    BY <1>10, <2>3 DEF RefreshRotate, RotateSession
  <2> QED  BY <2>2, <2>3
<1>11. ASSUME NEW t \in Threads, AuthorizeUser(t)
      PROVE  [Ledger!Next]_(Ledger!vars)
  BY <1>11 DEF AuthorizeUser
<1>12. ASSUME NEW t \in Threads, UserRow(t)
      PROVE  [Ledger!Next]_(Ledger!vars)
  BY <1>12 DEF UserRow
<1>13. ASSUME NEW t \in Threads, AuthorizeService(t)
      PROVE  [Ledger!Next]_(Ledger!vars)
  BY <1>13 DEF AuthorizeService
<1>14. ASSUME NEW t \in Threads, RoleRow(t)
      PROVE  [Ledger!Next]_(Ledger!vars)
  BY <1>14 DEF RoleRow
<1>15. ASSUME NEW t \in Threads, Respond(t)
      PROVE  [Ledger!Next]_(Ledger!vars)
  BY <1>15 DEF Respond
<1>16. ASSUME NEW t \in Threads, Logout(t)
      PROVE  [Ledger!Next]_(Ledger!vars)
  <2>1. ses[t] \in Sessions /\ owner[ses[t]] # None
    BY <1>16, AuthAssumption DEF Logout, ThreadInv, OwnSession, Principals
  <2>2. Ledger!Revoke({ses[t]})
    BY <1>16, <2>1 DEF Logout, Ledger!Revoke
  <2>3. {ses[t]} \in SUBSET Sessions
    BY <2>1
  <2> QED  BY <2>2, <2>3 DEF Ledger!Next
<1>17. ASSUME NEW t \in Threads, MeRead(t)
      PROVE  [Ledger!Next]_(Ledger!vars)
  BY <1>17 DEF MeRead
<1>18. ASSUME NEW t \in Threads, MeWrite(t)
      PROVE  [Ledger!Next]_(Ledger!vars)
  BY <1>18 DEF MeWrite, UpdateUserCredentials
<1>19. ASSUME NEW t \in Threads, RevokeAll(t)
      PROVE  [Ledger!Next]_(Ledger!vars)
  <2>1. who[t] # None
    BY <1>19, AuthAssumption DEF RevokeAll, RevokeUserSessions, ThreadInv, Principals
  <2>2. Ledger!Revoke(SessionsOf(who[t]))
    BY <1>19, <2>1 DEF RevokeAll, RevokeUserSessions, SessionsOf, Ledger!Revoke
  <2>3. SessionsOf(who[t]) \in SUBSET Sessions
    BY DEF SessionsOf
  <2> QED  BY <2>2, <2>3 DEF Ledger!Next
<1>20. ASSUME NEW t \in Threads, UpdateUser(t)
      PROVE  [Ledger!Next]_(Ledger!vars)
  BY <1>20 DEF UpdateUser
<1>21. ASSUME NEW t \in Threads, StatementFails(t)
      PROVE  [Ledger!Next]_(Ledger!vars)
  BY <1>21 DEF StatementFails
<1>22. ASSUME CreateRole
      PROVE  [Ledger!Next]_(Ledger!vars)
  BY <1>22 DEF CreateRole
<1>23. ASSUME UpdateRole
      PROVE  [Ledger!Next]_(Ledger!vars)
  BY <1>23 DEF UpdateRole
<1>24. ASSUME CreateUser \/ CreateServiceAccount
      PROVE  [Ledger!Next]_(Ledger!vars)
  BY <1>24 DEF CreateUser, CreateServiceAccount
<1>25. ASSUME UpdateServiceAccount
      PROVE  [Ledger!Next]_(Ledger!vars)
  BY <1>25 DEF UpdateServiceAccount
<1>26. ASSUME Lapse
      PROVE  [Ledger!Next]_(Ledger!vars)
  BY <1>26 DEF Lapse
<1>27. CASE UNCHANGED vars
  BY <1>27 DEF vars, tableVars, sessionVars, localVars
<1>28. ASSUME NEW t \in Threads, CreateUnheard(t)
      PROVE  [Ledger!Next]_(Ledger!vars)
  <2>1. PICK s \in Sessions :
          /\ owner[s] = None
          /\ owner' = [owner EXCEPT ![s] = who[t]]
          /\ token' = [token EXCEPT ![s] = drawn + 1]
          /\ drawn' = drawn + 1
    BY <1>28 DEF CreateUnheard, CreateSession
  <2>2. who[t] \in Users /\ UNCHANGED revoked
    BY <1>28 DEF CreateUnheard, ThreadInv
  <2>3. Ledger!Open(s, who[t])
    BY <2>1, <2>2 DEF Ledger!Open
  <2> QED  BY <2>2, <2>3 DEF Ledger!Next
<1>29. ASSUME NEW t \in Threads, RotateUnheard(t)
      PROVE  [Ledger!Next]_(Ledger!vars)
  <2>1. ses[t] \in Sessions /\ owner[ses[t]] # None
    BY <1>29, AuthAssumption DEF RotateUnheard, ThreadInv, OwnSession, Principals
  <2>2. Ledger!Exchange(ses[t], presented[t])
    BY <1>29, <2>1 DEF RotateUnheard, RotateSession, Rotatable, Ledger!Exchange
  <2>3. presented[t] \in 1..drawn
    BY <1>29, <2>1 DEF RotateUnheard, Rotatable, TokenInv, TypeOK
  <2> QED  BY <2>1, <2>2, <2>3 DEF Ledger!Next
<1>30. ASSUME NEW t \in Threads, WriteUnheard(t)
      PROVE  [Ledger!Next]_(Ledger!vars)
  BY <1>30 DEF WriteUnheard, UpdateUserCredentials
<1>31. ASSUME NEW t \in Threads, RevokeUnheard(t)
      PROVE  [Ledger!Next]_(Ledger!vars)
  <2>1. who[t] # None
    BY <1>31, AuthAssumption DEF RevokeUnheard, ThreadInv, Principals
  <2>2. Ledger!Revoke(SessionsOf(who[t]))
    BY <1>31, <2>1 DEF RevokeUnheard, RevokeUserSessions, SessionsOf, Ledger!Revoke
  <2>3. SessionsOf(who[t]) \in SUBSET Sessions
    BY DEF SessionsOf
  <2> QED  BY <2>2, <2>3 DEF Ledger!Next
<1> QED  BY <1>1, <1>2, <1>3, <1>4, <1>5, <1>6, <1>7, <1>8, <1>9, <1>10,
      <1>11, <1>12, <1>13, <1>14, <1>15, <1>16, <1>17, <1>18, <1>19, <1>20,
      <1>21, <1>22, <1>23, <1>24, <1>25, <1>26, <1>27, <1>28, <1>29, <1>30,
      <1>31 DEF Next, Thread, StatementUnheard

(* The services of auth.go and access.go implement the ledger of sessions. *)
THEOREM RefinesSessionLedger == Spec => ImplementsSessionLedger
<1>1. IInv /\ [Next]_vars => [Ledger!Next]_(Ledger!vars)
  BY LedgerStep DEF IInv
<1> QED
  BY <1>1, LedgerInit, Invariance, PTL DEF Spec, ImplementsSessionLedger,
     Ledger!Spec

LEMMA FinalStep ==
  TypeOK /\ ThreadInv /\ TokenInv /\ [Next]_vars =>
    \A s \in revoked : s \in revoked' /\ token'[s] = token[s]
<1> SUFFICES ASSUME TypeOK, ThreadInv, TokenInv, [Next]_vars, NEW s \in revoked
             PROVE  s \in revoked' /\ token'[s] = token[s]
  OBVIOUS
<1>1. s \in Sessions /\ owner[s] # None
  BY DEF TypeOK, TokenInv
<1>2. CASE UNCHANGED Ledger!vars
  BY <1>2 DEF Ledger!vars
<1>3. ASSUME NEW z \in Sessions, NEW u \in Users, Ledger!Open(z, u)
      PROVE  s \in revoked' /\ token'[s] = token[s]
  BY <1>1, <1>3 DEF Ledger!Open, TypeOK
<1>4. ASSUME NEW z \in Sessions, NEW k \in 1..drawn, Ledger!Exchange(z, k)
      PROVE  s \in revoked' /\ token'[s] = token[s]
  BY <1>1, <1>4 DEF Ledger!Exchange, TypeOK
<1>5. ASSUME NEW S \in SUBSET Sessions, Ledger!Revoke(S)
      PROVE  s \in revoked' /\ token'[s] = token[s]
  BY <1>5 DEF Ledger!Revoke
<1> QED  BY <1>2, <1>3, <1>4, <1>5, LedgerStep DEF Ledger!Next

(* Revocation is final: it follows from the ledger.                        *)
THEOREM RevocationStays == Spec => RevocationIsFinal
<1>1. IInv /\ [Next]_vars =>
        [\A s \in revoked : s \in revoked' /\ token'[s] = token[s]]_vars
  BY FinalStep DEF IInv
<1> QED  BY <1>1, Invariance, PTL DEF Spec, RevocationIsFinal
=============================================================================
