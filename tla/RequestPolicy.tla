---------------------------- MODULE RequestPolicy ----------------------------
(***************************************************************************)
(* What the HTTP layer decides before a handler runs: which policy a route *)
(* has, where a request comes from, and how its audit event is classified  *)
(* (auth_middleware.go, audit_middleware.go, core/domain/audit.go).  A     *)
(* route is named by its audit action; "http.request" stands for every     *)
(* path that no table lists.                                               *)
(***************************************************************************)
EXTENDS Naturals, Sequences, FiniteSetsExt

SkippedRoutes == {"health"}  \* with the two documentation pages

PublicRoutes ==
    SkippedRoutes \cup {"auth.setup", "auth.login", "auth.refresh", "auth.service_token"}

SessionRoutes == {"auth.logout", "auth.update_me"}

RootRoutes == {"recovery.export", "recovery.import"}

PermissionRoutes ==
    {"vault.status", "vault.initialize", "vault.unseal", "vault.seal",
     "keyroot.list", "keyroot.create", "wallet.create",
     "sign.transaction", "sign.typed_data", "sign.generic", "sign.integrity",
     "verify.transaction", "verify.typed_data", "verify.generic", "verify.integrity",
     "audit.list", "access.permissions.list", "access.roles.list",
     "access.roles.create", "access.roles.update", "access.users.list",
     "access.users.create", "access.users.update", "access.service_accounts.list",
     "access.service_accounts.create", "access.service_accounts.update"}

AllRoutes ==
    PublicRoutes \cup SessionRoutes \cup RootRoutes \cup PermissionRoutes \cup {"http.request"}

\* A route without a policy is refused to everyone.
Configured(r) == r \in SessionRoutes \cup RootRoutes \cup PermissionRoutes

CriticalActions ==
    {"audit.retention_cleanup", "auth.setup", "auth.service_token", "auth.update_me",
     "wallet.create", "sign.transaction", "sign.typed_data", "sign.generic",
     "sign.integrity", "vault.initialize", "vault.unseal", "vault.seal", "keyroot.create",
     "recovery.export", "recovery.import", "access.roles.create", "access.roles.update",
     "access.users.create", "access.users.update", "access.service_accounts.create",
     "access.service_accounts.update", "security.integrity_violation",
     "security.alert_delivery_failed"}

Classes == {"NORMAL", "CRITICAL"}

DefaultAuditRetentionClass(action) ==
    IF action \in CriticalActions THEN "CRITICAL" ELSE "NORMAL"

-----------------------------------------------------------------------------
(* resolveClientIP.  Only a trusted peer may name another client.  The     *)
(* addresses in the first X-Forwarded-For line of the request, the one     *)
(* Header.Get returns, are taken from the last one: what does not parse is *)
(* skipped, and so is a trusted proxy.  Failing that, X-Real-IP.           *)

resolveClientIP(peer, forwarded, realIP, Addresses, Trusted) ==
    LET loop[i \in 0..Len(forwarded)] ==
            IF i = 0 THEN IF realIP \in Addresses THEN realIP ELSE peer
            ELSE IF forwarded[i] \in Addresses \ Trusted THEN forwarded[i]
            ELSE loop[i - 1]
    IN IF peer \in Trusted THEN loop[Len(forwarded)] ELSE peer

\* The same without the loop: the last address that is no trusted proxy.
ClientIP(peer, forwarded, realIP, Addresses, Trusted) ==
    LET clients == {i \in DOMAIN forwarded : forwarded[i] \in Addresses \ Trusted}
    IN IF peer \notin Trusted THEN peer
       ELSE IF clients # {} THEN forwarded[Max(clients)]
       ELSE IF realIP \in Addresses THEN realIP
       ELSE peer
=============================================================================
