# Sigryx: models, checks and proofs

Sigryx is a self-hosted key and signing vault written in Go.  This directory
holds TLA+ modules translated from its source, TLC configurations that check
them on small instances, and TLAPS proofs of the properties that matter most
for every instance.

1. [The system](#1-the-system-inventory): components, state, interactions, hazards
2. [The plan](#2-the-plan): how the system is split into modules
3. [The modules and the code](#3-the-modules-and-the-code)
4. [The runs](#4-the-runs-what-they-check-and-show)
5. [Fairness](#5-fairness-and-why-the-code-justifies-it)
6. [The proofs](#6-the-proofs)
7. [Disagreements between code and documentation](#7-disagreements-between-code-and-documentation)
8. [What is not modelled](#8-what-is-not-modelled-and-why)

Paths below are relative to the repository.  `PROJECT.json` has the exact
correspondence: every definition with its lines, every run, every mutant (a
plausible bug that breaks the property) and every hazard with its line.

## 1. The system: inventory

Requests arrive over HTTP and run concurrently, one goroutine each, in one
process.  They share a PostgreSQL database, which survives, and one runtime
secret store in protected memory, which does not.  There are no queues and,
but for the audit retention worker, no background tasks.

    HTTP edge -> authentication -> service -+-> PostgreSQL (rows, unique indexes, triggers)
                  (every request)           +-> runtime secret store -> protected memory
                       audit after it       +-> Ethereum adapter (pure)

| Component | Source | State | Operations |
|---|---|---|---|
| Protected memory secret | `pkg/securemem` | a locked region, a mutex, a destroyed flag | `New`, `Random`, `WithBytes`, `Destroy`, `Size` |
| Runtime secret store | `pkg/secretstore` | required and submitted key counts, pending unseal keys by slot, vault encryption key, cached KeyRoot seeds; one RWMutex | `ConfigureUnsealKeyCount`, `SubmitUnsealKey`, `ResetUnsealAttempt`, `WithVaultEncryptionKey`, `StoreKeyRootSeed`, `RemoveKeyRootSeed`, `WithKeyRootSeed`, `Clear`, `Progress`, `IsUnsealed` |
| Seal service | `service/seal.go`, `unseal_key_slot_repository.go` | unseal key slot rows, created once | `Initialize`, `SubmitUnsealCredential`, `Seal`, `Status` |
| Key roots | `service/key_root.go`, `key_root_seed.go`, `key_root_repository.go` | rows with a sealed seed; the seed in the store | `Create`, `GetAll`, lazy opening |
| Wallets | `service/wallet.go`, `wallet_repository.go` | wallet rows with three unique indexes, index counters | `Create`, `GetByID` |
| Recovery | `service/recovery.go`, `pkg/recovery` | rows of key roots | `Export`, `Import` |
| Integrity signing | `service/signing.go`, `pkg/signingrecord`, `signing_record_repository.go` | append-only sealed records, unique by (context, object) | `SignIntegrity`, `VerifyIntegrity` |
| Other signing | `service/signing.go`, `blockchain/ethereum` | none | sign and verify transactions, typed data, raw data |
| Authentication, sessions | `service/auth.go`, `access_repository.go`, `pkg/authn` | users, sessions with a refresh token hash | `Setup`, `Login`, `ServiceToken`, `Refresh`, `Logout`, `UpdateMe`, `Authorize` |
| Access management | `service/access.go` | roles, users, service accounts | create, list and update of each |
| Audit, retention | `service/audit.go`, `audit_retention.go`, `cmd/main.go` | audit events by retention class | `Record`, `List`, `Cleanup`, the worker |
| Alerts | `adapter/out/alert` | none | one webhook call |
| HTTP edge | `adapter/in/http`, `pkg/httpserver` | none | routes, address resolution, authorization, audit, error mapping |
| Pure packages | `pkg/hdwallet`, `hdseed`, `cryptox`, `canonicaljson`, `idgen` | none | derivation, signatures, AEAD, canonical JSON |
| Schema | `migrations`, `internal/ent` (generated) | constraints, append-only triggers, purge function | |

How they interact, what is hard, and what makes each correct:

- **Protected memory and the store.**  `Store.mu` guards pointers; each
  `Secret` has a mutex held for the whole of a `WithBytes` callback.  The store
  detaches secrets under `mu` and destroys them after unlocking, because
  `Destroy` waits for callbacks and a callback may call the store again.  A
  pointer is read under `mu` and used after it.  The derivation of the vault key
  is the one place that takes secret mutexes under `mu`.  Correct means: every
  live secret has one owner that will destroy it, no callback runs over
  destroyed memory, the lock order cannot deadlock, and sealed means empty.
- **Seal service.**  Reads the slot table and then calls the store, several
  times, with no lock across the calls.  Races: two initializations, a
  submission against a seal, a status against either; a restart loses the
  runtime count.  Correct means: one initialization wins and its credentials
  are the ones given out, only all owners unseal, nothing else disturbs an
  attempt.
- **Key roots, wallets, recovery.**  Every one crosses the store and the
  database without a common transaction: a seed is cached before its row
  exists, an index is allocated before the wallet is inserted, an export walks
  over rows that others change, an import is one transaction that others cannot
  see into.  Correct means: indexes are never reused, a user of a root has one
  wallet whatever fails or is retried, no plaintext seed without its row,
  backups complete, imports whole.
- **Integrity signing.**  One record per object for ever; two signers race to
  insert it, a seal falls between the check and the opening of the record.
  Correct means: no two different signatures are ever returned for an object,
  and nothing is reported as tampered that was not.
- **Authentication, access.**  Read, check, write over several statements
  without a transaction: logins, refreshes and updates race with revocations.
  Correct means: one root admin, a refresh token works once, a revoked session
  stays revoked, nobody is served who was cut off before asking, and a change
  of credentials succeeds only when the sessions before it are revoked.
- **Audit, retention.**  Events are appended after the effect; every process
  deletes in batches, skips rows another has locked, stops a class at a batch
  that is short, and records itself at the end only.  Correct means: nothing
  younger than its retention is deleted, what is recorded was deleted, expired
  events disappear in the end, and every answered request leaves an event or an
  error in the log.
- **Algorithms.**  Derivation, signatures, RLP, EIP-712 and canonical JSON run
  on what clients send.  Correct means: distinct inputs are signed as distinct
  bytes, what is signed verifies and nothing near it does, equal values have
  one canonical text, and a decoder accepts one form of each value.

## 2. The plan

Modules, in order of importance.  A module of the first two blocks has state and
steps; the services use the actions of the abstract store, and each promise is
a module of its own that the service is shown to implement.  The third block is
pure operators.

| Module | Models | Composes with | Status |
|---|---|---|---|
| `Vault` | abstract runtime store, every operation atomic | | |
| `SecretStore` | store and secrets at the granularity of their mutexes | implements `Vault` | checked, proved |
| `SealService` | initialization, unsealing, sealing, status | instantiates `Vault` | checked, safety proved |
| `WalletDirectory` | abstract: roots and one wallet per user, index unique | | |
| `KeyRootWallet` | key roots, wallets, recovery over one database | instantiates `Vault`, implements `WalletDirectory` | checked, proved |
| `SigningLedger` | abstract: one immutable record per (context, object) | | |
| `IntegritySigning` | `SignIntegrity`, `VerifyIntegrity`, incidents and alerts, against seals and generic signing | instantiates `Vault`, implements `SigningLedger` | checked, proved |
| `SessionLedger` | abstract: sessions whose one token is exchanged for the next | | |
| `AuthSessions` | authentication, authorization, access management | implements `SessionLedger` | checked, proved |
| `RequestPolicy` | routes and their policies, classes of events, the client's address | used by `AuditTrail` | checked |
| `AuditTrail` | middleware chain, retention workers of several processes, shutdown | extends `RequestPolicy` | checked, safety proved |
| `Secp256k1` | curve, keys, derivation, signatures | | compared, proved for every curve |
| `SigningDigests` | what is hashed for generic and integrity signatures | | proved |
| `EthereumEncoding` | what signing a transaction writes: RLP, payloads, raw transactions | | compared, proved |
| `EthereumTransaction` | what verifying one reads: the strict RLP decoder | extends `EthereumEncoding` | compared |
| `TypedData` | EIP-712 digests | | compared |
| `CanonicalJSON` | canonical texts, pointers, selections | | compared |

The proofs are in `SecretStoreProofs`, `SealServiceProofs`,
`KeyRootWalletProofs`, `IntegritySigningProofs`, `AuthSessionsProofs`,
`AuditTrailProofs` and, for the operators, `AlgorithmProofs`; `DataLemmas` has the
induction and the arithmetic that the last two share.  An `MC` module gives the
instance of its name.

## 3. The modules and the code

Conventions.  Each module that models code runs any number of requests, one
per thread.  `pc[t]` is the statement or call a request is about to make; one
action is one critical section, one SQL statement or one call on the store,
together with everything the code does up to the next such point, since nothing
else can observe that.  `Refuse` is an error the code returns for a request that
is invalid or untimely, `Fail` an error from outside.  A definition called
`Op_Fault` is `Op` with a plausible bug: no specification uses it, but
substituting it for `Op` must break the property it is paired with.

**`SecretStore`.**  `Store.mu` is `mu`: a section that waits for nothing inside
is one action guarded by `MuFree`; the derivation, which takes the mutexes of
the unseal keys, holds `mu` from `SubmitLast` to `DeriveDone` or `DeriveFail`.
A `Secret` is `region` (what its memory holds, `"nil"` once destroyed) and
`lockedBy` (its mutex).  `Enter`, `Leave` are the two ends of a `WithBytes`
callback, and `Reenter` is a callback that calls the store.  `Destroy` is one
turn of a destruction loop.  A secret that is destroyed and to which no pointer
remains may be allocated again (`Fresh`), which makes the model finite and is
what the allocator does.  `owed` is history: what a running `Clear` was given.
Nil arguments, which change nothing, are left out.  `Progress` and `IsUnsealed`
are reads under the lock: they appear where a caller uses what they return.

**`Vault`** is the same store with atomic operations.  `SecretStore` implements
it with `PendingSlots` (the slot whose submission runs the derivation appears
only with its outcome), so the service modules use `Vault`'s actions in place of
the store's calls.  That is sound for the sections of `Store.mu` because
`DeriveNeverBlocks` shows that nothing inside them waits.

**`SealService`.**  `rows` is the slot table: each slot is named by the request
that generated its credential, so a credential opens a slot exactly when the
names agree, and `NoThread` as a credential is material that opens nothing.
`tx` is the transaction of `CreateInitial`, invisible until it commits; slot 1
is in every attempt, so a second bulk INSERT waits for the first and fails on
the primary key if that commits.  The commit may be acknowledged or not.
`issued` (credentials actually returned) and `contrib` (slots whose genuine
credential the store has accepted since it was last emptied) are history.
`StatusProgress` and `StatusUnsealed` are the two lock acquisitions of
`statusFromCount`.  Anyone may submit a wrong credential at any time.

**`KeyRootWallet`.**  `rows`, `wallets`, `counter` are the three tables; `open`
is the restoring transaction.  A root id names its seed: ids are never
repeated (`used`) and a row or a backup carries the seed generated with its id.
Derivation is an injection from root and index that may fail, so an address or
path conflict is an index conflict (`Conflicts`).  `NextIndex` is one UPSERT with
its bound; it and every INSERT may commit without the service hearing of it.
`WithSeed` is `withKeyRootSeed`: the cached seed, or else the sealed one is
opened, cached, and looked up again, with everything that may happen between.
An export walks over the rows it read (`work`) and packs their seeds one by one
into its `manifest`.  An import may be of a backup made elsewhere (`ForeignRoots`).  `began` is
history: the rows there were when an export began.  Seals, unseals and
restarts are actions of their own that may come between any two steps.

**`WalletDirectory`** is what a client relies on: roots are only added, and a
user of a root gets one wallet for ever, at an index of its own.

**`IntegritySigning`.**  `records` is the table of signing records, one per
object, an object being a (context, object id) pair.  Its triggers refuse UPDATE
and DELETE, so no action changes or removes a record.  A document is a selection
of fields and the value selected: the canonical form has the fields as its keys,
so requests with different selections have different forms, and equal forms have
one digest.  Signing is deterministic (RFC 6979), so a signature is what it signs
and by whom; `Forged` is bytes that are nobody's signature.  A `generic` request
is any of the other signing operations, which share the way to the seed and keep
nothing.  `loaded`, `code` and `trail` are the record a request has read, the
incident it has found and the audit events written for it; either event may be
lost, since a failing append is ignored.  Refusals are not told apart, as no
property is about them; verdicts of a verification are.  `issued` (records
whose signatures were returned) and `known` (a verification is about one of
them) are history.

**`SigningLedger`** is what a caller relies on: the first record of an object is
there for ever and is the only one whose signature is issued for it.

**`AuthSessions`.**  The tables are `rows` (with `root`, `enabled`, `password`,
`role`, `allowed`), `roles`, `granting`, and the sessions (`owner`, `token`,
`revoked`, `lapsed`).  Each refresh token is a number, fresh by `drawn`.  One
action is one SQL statement and the local checks that follow it: `LoginUser`,
`LoginCreate` and `LoginIssue` are the three parts of a login, `MeRead`,
`MeWrite` and `RevokeAll` those of `UpdateMe`, and so on; a statement that fails is
`StatementFails`, and a write that is committed without the service hearing of it
`StatementUnheard`.  A request that its first statement refuses is no step, and
one that writes once after reads that cannot go stale is one step.  A role grants the
one permission asked for or does not; an allowlist is the set of addresses it
matches.  History: `exchanges` (token pairs), `barred` (what was cut off
when a request began and is still), `covered` (the sessions a user had when
its row was written), `proof` (the password behind a session).

**`SessionLedger`** is what the holder of a token relies on: it is exchanged once,
for one nobody had before, and a revoked session is over.

**`RequestPolicy`** has the route tables by audit action; a route that no table
lists has no policy and is refused.  `resolveClientIP` is the loop of the code over the
entries of X-Forwarded-For, and `ClientIP`, which the requests use, its closed form.

**`AuditTrail`.**  `event` and `live` are the table, `stage` and `request` the
request a process serves, `phase`, `started`, `held` and `deleted` its retention
worker.  `Unwind` is what the chain does once a handler has returned or
panicked; `AppendEvent` and `AppendFail` are the INSERT, `LogError` what follows
a failure.  `PurgeLock` is the purge function's `FOR UPDATE SKIP LOCKED` and
`PurgeCommit` the end of its statement, so locks of other processes come between
(a crash drops them); `PurgeNone` is a statement that finds nothing, and
`PurgeFail` one that fails, its effect undone or not acknowledged.  A cycle that fails
there, or whose process crashes, gives up (`GiveUp`) and appends nothing of what it has
committed; one that ends appends a `CleanupEvent`, if the INSERT takes effect.  The rows
behind this are history: those a cycle has removed so far (`purged`), those each cleanup
event stands for (`reports`), and those removed by cycles that failed (`lost`).  `Stop`,
`Exit`, `Crash` and `Start` are the life of a process: a signal cancels the
worker, and requests are given until the shutdown timeout.  The clock (`now`)
counts days.

**`Secp256k1`.**  The operators of `hdwallet`, for a curve and a radix given by
constants: addition of scalars digit by digit with the carry and borrow of the
code, points, child keys, `SignDigest` over a sequence of nonces, and
verification with and without a recovery id.  `Hmac` is a parameter.  Its numbers are
those of the code; their width is not.  `PrimeField`, `PrimeOrder` and `CyclicGroup`
say what is asked of a curve; they are facts of secp256k1, not code.

**`EthereumEncoding`.**  The RLP encoder, what the two types of transaction sign, the raw
transaction, and the lengths the decoder reads.  Its recursions are functions, so that
it can be proved about.  **`EthereumTransaction`** adds the strict decoder and what a
verification rebuilds.  `Wrapped` is the `int` sum of an offset and a length, which may
wrap at `MaxInt`; then slicing panics (`Panic`).

**`TypedData`.**  The walk over types, the type string as the sequence of its tokens,
integers in words, and the hash of structures.  The name of a field is a sequence of
tokens too, since the code validates none; names of types hold no marks.

**`CanonicalJSON`.**  Numbers, values, pointers, and `Select`.  An object is a
function from its keys, which has no order, as the code sorts them.

**`SigningDigests`.**  What is hashed for a generic and an integrity signature,
with lengths framed.  Hashes are injective in all of these.

## 4. The runs: what they check and show

All pass except the six marked; every property of a passing run has a mutant of
the code that breaks it under the same configuration.

| Run | Instance | Shows |
|---|---|---|
| `store` | 2 goroutines, 5 secrets, 1 root, up to 2 keys | one owner per live secret, callbacks over live memory only, sealed is empty, the derivation never waits, `Clear` leaves only what is already being destroyed; what is detached is destroyed, every call returns, re-entrant callbacks included; the locking code implements `Vault` |
| `store_clear_comment` (violation) | 3 goroutines | the comment on `Clear` taken literally |
| `seal` | 2 requests, up to 3 keys | one initializer, the store never locked into a wrong count, unsealed only by all owners, an accepted key lost only to a seal, a restart or a failed derivation; owners who keep submitting unseal the vault |
| `seal_status_doc` (violation) | 2 requests, up to 2 keys | a status that mixes two moments |
| `keyroots` | 2 requests, 3 roots, 2 of them foreign, 2 users, 3 indexes on one of the roots | no index reused, conflicts are always the user's own wallet, a returned wallet exists; no orphan seed, complete backups, imports whole or not at all; the services implement `WalletDirectory` |
| `signing` | 2 requests, 1 object, 1 user, 2 selections of 2 values | what was issued is durable and stays verifiable, a match is a match with the immutable record, the incident reported is true and the first that applies, and tampering is reported only under a seal; the service implements `SigningLedger`.  Before that: the algorithms |
| `signing_verdict_doc` (violation) | 2 requests, 1 object | a verdict that an issued signature does not match |
| `sessions` | 2 requests, 5 begun in all, 2 users, 1 service account, 1 role, 2 sessions, 1 password, 2 addresses | one root admin, tokens exchanged once, nobody served who was cut off before asking, changes revoke what was there, revocation is final; the services implement `SessionLedger` |
| `sessions_password_doc` (violation) | as `sessions`, with 2 passwords | a login that outlives the change of its password |
| `sessions_networks_doc` (violation) | as `sessions`, with 2 passwords | a rename that undoes an administrator's change |
| `audit` | 2 processes, 2 rows, batches of 1, retention of 1 and 2 days, 4 days | rows leave after their retention; a cleanup event counts rows that are gone and no other event counts, and only cycles that failed or are under way have removed others; every answered request leaves an event or an error; what expired is removed in the end |
| `audit_cleanup_doc` (violation) | as `audit` | a cycle that fails after a batch reports nothing of it |

Why the bounds are enough.  Every race in the code is between two requests;
a third is one that seals, removes or destroys meanwhile, which in most models
is an action of its own.  Three keys have a first, a middle and a last
submission.  Two goroutines need a key each in flight beside two pending ones or the
vault key and a cached seed: five secrets.  Three indexes for two users let
`keyroots` use up the counter through failed requests (`MaxIndex` stands
for 2147483648) and still create both wallets.  Two foreign roots make an import
that is half done, and the third root is one created here.  The
constraint `OneRootAllocates` keeps `keyroots` to states in which one root at most has
allocated an index: roots share no counter and no unique index.  Two signers of one
object race for its record, and an object that is signed already, verified while
the vault is sealed, takes one request beside the seal; two selections and
values are what a mismatch needs.  Records of different objects share no state
but the vault, so one object does.  Five requests (`MaxCalls`) on an installed
database are a login, a refresh under way and the two that change and revoke, and one
more; on an empty one they are two setups and what follows.  Two users are an
administrator and another, or two that race for the root; two sessions are the
one that is revoked and the one that is opened meanwhile.  Passwords matter to the two
violations only, so `sessions` has one.  Two rows (`MaxRows`) with
batches of one are a full batch and a short one, and one row held by the other
process while this one goes on, or lost by a cycle that failed before another
reports one; an event of each class, four days
(`MaxClock`) and retentions of one and two let either expire first.  A process
takes no request when the rows are used up, and only those in `Serving` take any.
What the bounds cut off, the proofs cover: each safety property is a
theorem for every instance, `RequestIsAudited` included.

Symmetry: threads, secrets, roots that are not foreign, users, objects, fields,
values, passwords and sessions are interchangeable, as no definition tells them apart.
It is used for invariants and for safety properties that are as symmetric
(`MatchMeansRecorded`, `RevocationIsFinal` and the refinements of the runs that use
it); the runs with liveness use none.  Deadlock checking is off in the `sessions` runs only, where `MaxCalls`
requests are all that ever begin; elsewhere a new request can always begin, and one
under way waits only for a transaction that can end.

The algorithms are compared with what they should do by named assumptions of
`MCSecp256k1`, `MCEthereumTransaction`, `MCTypedData` and `MCCanonicalJSON`, all of which
`MCIntegritySigning` extends, so that the run `signing` evaluates them first:

| Assumptions | Inputs | Show |
|---|---|---|
| `PointsAreAGroup`, `DigitsAddUp`, `ChildDataDiffer`, `WalletsAreDistinct`, `SignaturesVerify` | every scalar of y^2 = x^3 + 7 modulo 43, of order 31; two digits of three radices | the curve is what the theorems about it assume; carries and borrows; distinct derivations; a signature verifies with its recovery id, key and digest and with no others |
| `RLPRoundTrips`, `RLPIsCanonical`, `LongLengthsPanic`, `SignedIsVerified`, `PayloadsDiffer` | payloads of 0, 1, 2, 55, 56, 255, 256 bytes, nested lists, strings of up to four of fourteen bytes, a 16-bit `int` | decoding undoes encoding and accepts one form; which lengths panic; a raw transaction gives back what was signed; no two transactions sign the same |
| `TypeHasItsDependencies`, `NamesAreNotValidated`, `IntegersAreWords`, `DigestsDiffer` | graphs of three structures, a name that holds marks, 5-bit words, 288 accepted envelopes and those refused | type strings list what they reach, and are alike for types that differ in where a name ends; two's complement; envelopes with plain names that differ have different digests |
| `NumbersAreCanonical`, `TextsAreCanonical`, `PointersAreNormal`, `IndicesMayHaveASign`, `SelectsThePointers` | 6 digits, 2 in an exponent; values nested twice; pointers of five characters | equal values have one text, different ones different texts; a pointer has one form; a selection is what its pointers name |

They are small where the code's cases are: a curve order below the modulus, as
on secp256k1; lengths around 55 and 255, where RLP changes form; all carries.
`ClientIPIsTheLoop` (`MCAuditTrail`, run `audit`) compares `ClientIP` with
`resolveClientIP` on headers of up to four entries.

## 5. Fairness, and why the code justifies it

`SecretStore!FairSpec`.  Nobody need call the store.  A call that has been made
is scheduled, and:

- strong fairness of the sections that wait for a mutex.  `sync.Mutex` hands over
  to a waiter that has starved, and a waiting `RWMutex` writer holds back new
  readers, so a goroutine does not lose for ever to others;
- weak fairness of what waits for nothing: the end of a callback (callbacks
  in the code only compute), the end of a derivation that has read its keys,
  the return of a call.  A derivation that fails early is never required to.

`SealService!FairSpec`.  Strong fairness of the steps of a request that is being
served (one of them waits for another transaction, and PostgreSQL queues lock
waiters) and, for each slot, of its owners' submissions: they keep sending the
credentials that were issued.  This second part is about people, not code: it is
the premise of the promise that owners can unseal.  So is `Undisturbed`: from some
time on, no seal, no restart, no database error and no failing derivation.
Wrong and repeated credentials, other initializations and status requests go on
for ever.

`AuditTrail!FairSpec`.  Of one process, `Steady`: weak fairness of the start of a cycle,
as the ticker fires, and of its last INSERT, which ends one way or the other; strong
fairness of the purge statement, which may fail again and again, but a database that
answers some of the time answers it some time, since every cycle sends it anew.  Of
the others: strong fairness of `PurgeCommit`, so that they do not, whenever `Steady`
looks, hold the locks on a row that they never manage to remove; with weak fairness a
process that crashes and locks the row again for ever would do that.  Nothing else is
promised: the others need start no cycle, no request need be served, and processes crash or
stop whenever they do.  `ExpiredIsPurged` asks that `Steady` stays up from some time on.

`KeyRootWallet`, `IntegritySigning` and `AuthSessions` promise nothing that must
happen, so they state no fairness.

## 6. The proofs

The proofs hold for every number of threads, secrets, roots, users, keys, indexes,
objects, selections, values, sessions, roles, processes, rows and days.  The assumptions
are on constants only: null values are not members of the sets they complete, sets
of ids are disjoint, the bounds are natural or positive, foreign roots are roots.
The theorems about the algorithms state their own, on their inputs.

Each proof about a component with state follows one argument.  An inductive invariant `IInv`, at the end of the
component's module, is a conjunction of named parts; one lemma per part shows
that every action preserves it, from the parts that lemma names; `Invariance` is
`Spec => []IInv`; and each property is a consequence.

- **`SecretStore`.**  `OneOwner` is not inductive: that a refused secret has no
  other owner needs to know where each call stands (`CallInv`), what each
  loop holds (`LoopInv`), that the store holds each secret once and of its kind
  (`StoreInv`) and that a live secret is somewhere (`NoLeak`).  `CallbackSafe`
  rests on `LockInv`: a pointer read under `mu` can come to point at destroyed
  memory, but never at an unseal key, and destruction needs the mutex.
  `AttemptInv` ties the counter to the filled slots and the derivation to `mu`;
  it gives `DeriveNeverBlocks`, `SealedIsEmpty` and the step of the refinement in
  which the last key unseals.  `RefinesVault`: every step of the code is a step
  of the atomic store or a stutter.
- **`SealService`.**  `RowsInv`: at most one transaction has inserted slots, and
  into an empty table.  `SubmitInv`: what a submission has read (that slots
  exist, that the store is configured with their number, that its credential is
  the one issued) stays true until its key reaches the store, although no lock
  is held; this makes `ConfigurationNeverLocked` and `UnsealedByAllOwners`
  inductive.  `AttemptsAreKept` proves the action property.
- **`KeyRootWallet`.**  `NoIndexReuse` is inductive with the types and
  `LocalInv`, and gives `ConflictIsOwnWallet`: the index of a new wallet is
  nobody's, so a unique violation can only be about the user.  `ImportInv`
  follows the restoring transaction: what it has inserted, has yet to do, or
  found present adds up to the backup.  `ExportInv` does so for
  an export: what it has packed or is still to pack has every row there was.  `RefinesDirectory`: the INSERT that
  succeeds is the atomic allocation, the INSERT of a root and the commit of an
  import add roots, and every other step is a stutter.
- **`IntegritySigning`.**  Everything rests on `Immutable`: a step keeps every
  record there is and every request under way but the one it moves.  So what a
  request has read (`LoadedInv`), the incident it has found
  (`ComparisonsHold`) and the match of a signature it was given
  (`KnownInv`) stay true across the seals and races between its steps.
  `RecordsInv`, a record holds its wallet's signature of its document, is why
  a reused record is the one the loser would have made, and why a matching
  record cannot fail on its digest; with these `IssuedStaysKnown` and
  `MatchMeansRecorded` follow.  `UnsealedInv`, the vault is unsealed for a request past
  its check unless it was sealed since, is why tampering is reported only under a seal
  (`TamperedIfSealed`).  `RefinesLedger`: the INSERT that commits fixes the
  record, a reuse issues it again, and every other step is a stutter.

- **`AuthSessions`.**  `ThreadInv` says that a request works on a session of its own
  user, `TokenInv` that a token is current for one session and was never exchanged
  before, which makes `TokenExchangedOnce` inductive although the row is read
  and rotated by two statements.  `BarredInv` carries `CutOffNeverServed`: a
  request moves on only past what it has found not cut off, and what is cut
  off meanwhile was not when it began.  `ChangeRevokesEarlier` needs that a session
  once opened keeps its owner.  `RefinesSessionLedger`: the INSERT of a
  session opens it, `RotateSession` exchanges, and the revocations revoke.
- **`AuditTrail`.**  `HeldInv`: what a statement has locked is of the class being
  purged and was due when the cycle began, and the clock does not go back
  (`GoneInv`).  Row locks exclude each other (`TypeOK`), so no two cycles remove the
  same row: the counts of a cycle are those of its rows (`CountInv`), those of an event
  the rows it stands for (`ReportInv`), and the rows that are gone are shared out among
  the events, the cycles under way and the failures (`ShareInv`).  Together they give
  `PurgeIsAccounted`;
  `RequestIsAudited` needs the types only, as the chain is one process's own.
  `LoopFindsClient`: the loop of `resolveClientIP` and its closed form agree on
  headers of every length.  `RightmostClientCounts`: what a client writes in front of the
  address that the nearest trusted proxy appended does not count.

The proofs about the algorithms need induction, and the induction theorems of the
library take an operator that the provers cannot instantiate.  `DataLemmas` does without:
a set of numbers that is not empty has a least one (`LeastNumber`), so a set that has 0
and with each number below n the next has all up to n (`UpTo`); `Recursion`, `RecursionDown`
and `RecursionBelow` then give a recursive function its equations.  In the proof of a loop,
T is the set of the indexes at which what the loop keeps holds.

- **Points and keys.**  `MultiplesAreReduced`: double and add reaches only points with
  coordinates below P, and never asks for the inverse of zero.  `StepsDiffer`: a hardened
  derivation step starts with a zero, any other with the sign byte of a compressed key.
  `DerivedKeysAreValid`: along a path of any length, what is not refused is a valid key.
  `WalletsDiffer`: two wallets of a root with one chain code are a collision of the HMAC,
  which the theorem exhibits; nothing is assumed of the HMAC.
- **Signatures.**  `SignaturesAreLow`: `SignDigest` returns what the first usable nonce
  gives, in range and low.  `SignaturesVerify`: what it returns is accepted for the public key
  with its recovery id and not with the other; the scalar that multiplies the base
  point in the verification is the nonce, or its mirror image when s was mirrored
  (`NonceIsRecovered`), and mirroring a point changes the parity of its y.
  `RecoveryBytesVerify` adds the two forms of the 65th byte, `MirrorsAreRefused` that the other
  form of a signature is refused for whatever key and digest.  Assumed: P and N odd with
  inverses (`PrimeField`, `PrimeOrder`), and that the multiples of the base point add up as
  their scalars do (`CyclicGroup`), the group law that no prover here can derive from the formulas.
  `PointsAreAGroup` evaluates all three on the curve modulo 43, so they are not contradictory.
- **Addition modulo N.**  `DigitsAddModN`: the carry loop, the comparison from the highest digit
  and the borrow loop of `addScalarsModN` compute (a + b) mod n in every radix and number
  of digits, for a and b below n.  `AddsUp` is what both loops keep.
- **`SigningDigests`.**  A length in front of a value tells where it ends
  (`FramesEnd`, by cancelling equal prefixes), so what is hashed
  determines the label and the parts (`PartsAreDetermined`): a generic signature is never
  one of an integrity record, and `IntegritySigning` may take a digest for
  the object and the document it stands for.
- **`EthereumEncoding`.**  `IntegersHaveOneForm`: an integer and its bytes without leading zeros
  determine each other.  `LengthsAreRead`: `decodeRLPLength` finds the payload behind every
  prefix the encoder writes.  `PayloadsDiffer` and `RawTransactionsDiffer`: no two
  transactions sign the same payload, and none shares a raw form with another
  transaction or signature, whatever their quantities and sizes.  A code
  (`Code`) tells where it ends and what it stands for; strings, quantities, lists of a
  code, entries and access lists are codes, and fields at one place of two
  transactions are of one of them (`Alike`).

Model-checked only: liveness (`DetachedIsDestroyed`, `CallsReturn`,
`OwnersUnseal`, `ExpiredIsPurged`), which this prover cannot do under fairness, as it
cannot reason about ENABLED.  So is what is written with recursive operators, about which
it cannot reason: the decoder and the verification of `EthereumTransaction`, `TypedData` and
`CanonicalJSON`.

## 7. Disagreements between code and documentation

Found while modelling; each is a run that fails on the documented statement.

- `store_clear_comment`: "After Clear returns" the vault key no longer exists
  (`pkg/secretstore/store.go` 361-366).  When a concurrent `Clear` has detached it, and is
  still destroying it, it does.  `ClearLeavesOnlyDoomed` is what holds.
- `seal_status_doc`: the state is UNSEALED when every key is submitted
  (`docs/src/content/docs/concepts/seal-unseal.md` 93-95).  `statusFromCount`
  reads the progress and the state under two acquisitions of the lock; with a
  seal in between it answers SEALED with all keys submitted.
- `signing_verdict_doc`: the record check answers whether the input matches the
  immutable record (`docs/src/content/docs/concepts/integrity-signing.md`
  146-150).  `VerifyIntegrity` looks whether the vault is unsealed once, and opens
  the record later; with a seal in between it answers
  `SIGNING_RECORD_TAMPERED`, writes the audit event and alerts, for a
  record nobody touched.  `STORED_SIGNATURE_INVALID` is likewise the answer when
  the wallet cannot be read the second time.  `IssuedStaysKnown` is what holds.
- `sessions_password_doc`: changing the password revokes all sessions
  (`docs/src/content/docs/getting-started/authentication.md` 81).  A login that read the
  old hash before the change inserts its session after the revocation.
  `ChangeRevokesEarlier` is what holds.
- `sessions_networks_doc`: only the root admin may change its own networks by
  `PATCH /v1/auth/me` (the same page, 83).  `UpdateMe` writes back the networks it
  read, so a rename undoes what an administrator set in between.
- `audit_cleanup_doc`: a cleanup that deletes a row appends an event
  (`docs/src/content/docs/operations/audit-retention.md` 169).  A cycle that committed
  some batches and then failed returns before it (`cmd/main.go` 219-225), so no event
  ever reports them.  `PurgeIsAccounted` is what holds: the events there are count right,
  and only failed cycles lose track of rows.

Seen as well, without a run of their own:

- `docs/src/content/docs/concepts/integrity-signing.md` 10 names RFC 6901.  An array
  index is read by `strconv.Atoi` (`pkg/canonicaljson/pointer.go` 122-131), so "+1",
  "+01" and "-0" are indices too (`IndicesMayHaveASign`).  As the selected value
  is stored under the pointer as written, this makes no two records alike.
- `transaction.go` 455 and 472 add a length to an offset before they compare it: a
  length within a few bytes of `MaxInt` wraps, and the slice panics instead of
  the refusal there is for other lengths (`LongLengthsPanic`).  The panic middleware
  answers the request.
- `eip712.go` 243-308 takes a sign off the text and gives the rest to
  `big.Int.SetString`, which reads another: "--2" is 2 and "0x-2" is -2
  (`IntegersAreWords`).
- `eip712.go` 139-153 writes names of fields as they come: the type string of a structure
  with a field named "a,uint256 b" is that of one with two fields (`NamesAreNotValidated`).
- A change of password, or a deactivation, whose second statement fails answers an error
  with the row written and the sessions not revoked (`auth.go` 247-253, `access.go`
  145-150); and a process that dies between the effect of a request and the INSERT of its
  event leaves no event (`audit_middleware.go` 49-66).  The models have both; no property
  forbids them, as nothing in the repository promises more.

## 8. What is not modelled, and why

- Generated code (`internal/ent`, more than three quarters of the implementation's
  lines, and `docs`).  What its statements do to the tables is in the actions of
  the repositories that call it; its builders, one per column, have no behaviour of
  the program in them.  This is why the share of lines that definitions map to is low.
- Hashes, ciphers and random numbers (keccak256, SHA-2, HMAC, Argon2id, AES-GCM, RFC
  6979 nonces, BIP39 seeds): out of TLC's reach.  Assumed: hashes are injective, a
  payload opens exactly under the key and the context it was sealed with,
  nonces are the same for the same key and digest, and distinct derivation paths
  give distinct addresses.
- The parsers of hex, quantities, addresses, paths and type names, the tokens and
  strings of JSON: formats without a state; what they return is the
  operators' input.
- Memory protection (`mlock`, `mprotect`, zeroing) is libsodium's and the
  kernel's; the model has the mutex and the destroyed flag only.
- The backup file: its format and encryption are abstracted to the set of roots
  it holds.  A malformed one is refused before any state changes.
- A second derivation scheme: there is one, so the scheme conflicts of wallets
  and imports cannot arise.
- Several server processes with one runtime store each: `AuditTrail` has them, as
  the workers meet in the database.  In the other models there is one; the races on the
  tables are those of the requests modelled.
- Restoring into another database loses wallet counters, as
  `docs/src/content/docs/operations/recovery.md` says; the model has one
  database.
- Access tokens: they are signed and expire by themselves, so an expired one is
  refused before any statement, and no definition distinguishes them otherwise.
- Alerts (`adapter/out/alert`): one request to a webhook, not repeated; that it may
  fail is in `IntegritySigning`.
- HTTP decoding, lists and other plain reads, error texts, logging, configuration
  parsing, connection set-up.
