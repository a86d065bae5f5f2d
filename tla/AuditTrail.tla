----------------------------- MODULE AuditTrail -----------------------------
(***************************************************************************)
(* The life of an audit event: Sigryx processes that share one database    *)
(* take requests through the middleware chain, which appends an event for  *)
(* each, while the retention worker of each process purges the events that *)
(* have expired and records that it did (adapter/in/http/server.go,        *)
(* auth_middleware.go, audit_middleware.go, core/service/audit.go,         *)
(* audit_retention.go, postgres/audit_repository.go, cmd/main.go, and the  *)
(* function sigryx_purge_audit_events).                                    *)
(*                                                                         *)
(* The clock counts days.  Statements fail with or without effect, and     *)
(* processes crash, stop and start at any time.  Each process serves one   *)
(* request at a time.                                                      *)
(***************************************************************************)
EXTENDS RequestPolicy, FiniteSets

CONSTANTS
    Processes,   \* the processes on the database
    Serving,     \* those of them that clients send requests to
    Steady,      \* one of them, for the liveness property
    MaxRows,     \* rows ever inserted
    Unwritten,   \* a row not inserted yet
    NoRequest,   \* no request is being served
    Routes,      \* the routes requested
    Days,        \* retention of each class in days, 0 for ever
    BatchSize,   \* rows purged by a statement at most
    MaxClock     \* the day the clock stops

ASSUME ProcessesAssumption == Serving \subseteq Processes /\ Steady \in Processes
ASSUME RoutesAssumption == Routes \subseteq AllRoutes /\ NoRequest \notin Routes
ASSUME ConfigAssumption ==
    /\ Days \in [Classes -> Nat]
    /\ BatchSize \in Nat \ {0}
    /\ MaxRows \in Nat /\ MaxClock \in Nat

Rows == 1..MaxRows
Event == [at : 0..MaxClock, class : Classes, deleted : [Classes -> Nat]]

ASSUME UnwrittenAssumption == Unwritten \notin Event

VARIABLES
    now,       \* the clock
    event,     \* row -> the event inserted
    live,      \* the rows in the table
    state,     \* process -> whether it runs
    (* of its request *)
    stage,     \* where it is
    request,   \* the route it asks for
    (* of its retention worker *)
    phase,     \* the class being purged, or what comes after
    started,   \* when the cycle began: both cutoffs follow from it
    held,      \* the rows its statement has locked
    deleted,   \* class -> the rows counted in this cycle
    (* history *)
    purged,    \* the rows this cycle has removed, as it was told
    reports,   \* row -> the rows that the cleanup event in it stands for
    lost       \* the rows removed by cycles that failed

tableVars == <<event, live>>
requestVars == <<stage, request>>
historyVars == <<purged, reports, lost>>
workerVars == <<phase, started, held, deleted, historyVars>>
vars == <<now, tableVars, state, requestVars, workerVars>>

Written == {r \in Rows : event[r] # Unwritten}
NoneDeleted == [c \in Classes |-> 0]

\* Row locks exclude each other, and keep the rows in the table.
TypeOK ==
    /\ now \in 0..MaxClock
    /\ event \in [Rows -> Event \cup {Unwritten}]
    /\ live \subseteq Written
    /\ state \in [Processes -> {"down", "up", "stopping"}]
    /\ stage \in [Processes -> {"idle", "auth", "handler", "audit", "log"}]
    /\ request \in [Processes -> Routes \cup {NoRequest}]
    /\ \A p \in Processes : stage[p] = "idle" <=> request[p] = NoRequest
    /\ phase \in [Processes -> Classes \cup {"wait", "record"}]
    /\ started \in [Processes -> 0..now]
    /\ held \in [Processes -> SUBSET live]
    /\ \A p, q \in Processes : p # q => held[p] \cap held[q] = {}
    /\ deleted \in [Processes -> [Classes -> Nat]]
    /\ purged \in [Processes -> SUBSET (Written \ live)]
    /\ reports \in [Rows -> SUBSET (Written \ live)]
    /\ lost \subseteq Written \ live

Init ==
    /\ now = 0
    /\ event = [r \in Rows |-> Unwritten] /\ live = {}
    /\ state = [p \in Processes |-> "down"]
    /\ stage = [p \in Processes |-> "idle"]
    /\ request = [p \in Processes |-> NoRequest]
    /\ phase = [p \in Processes |-> "wait"]
    /\ started = [p \in Processes |-> 0]
    /\ held = [p \in Processes |-> {}]
    /\ deleted = [p \in Processes |-> NoneDeleted]
    /\ purged = [p \in Processes |-> {}]
    /\ reports = [r \in Rows |-> {}] /\ lost = {}
-----------------------------------------------------------------------------
(* Record and Append.  Rows are numbered as they are inserted.             *)

Insert(e) ==
    \E r \in Rows \ Written :
        /\ \A s \in Rows \ Written : r <= s
        /\ event' = [event EXCEPT ![r] = e]
        /\ live' = live \cup {r}

AuditEvent(action) ==
    [at |-> now, class |-> DefaultAuditRetentionClass(action), deleted |-> NoneDeleted]
-----------------------------------------------------------------------------
(* A request, through auditMiddleware, gin.Recovery and authMiddleware to  *)
(* its handler and back.                                                   *)

Receive(p, r) ==
    /\ p \in Serving /\ Written # Rows
    /\ state[p] = "up" /\ stage[p] = "idle"
    /\ request' = [request EXCEPT ![p] = r]
    /\ stage' = [stage EXCEPT ![p] = IF r \in PublicRoutes THEN "handler" ELSE "auth"]
    /\ UNCHANGED <<now, tableVars, state, workerVars>>

Forget(p) ==
    /\ stage' = [stage EXCEPT ![p] = "idle"]
    /\ request' = [request EXCEPT ![p] = NoRequest]

\* The chain unwinds into auditMiddleware, which skips some routes.
Unwind(p) ==
    /\ IF request[p] \in SkippedRoutes
         THEN Forget(p)
         ELSE stage' = [stage EXCEPT ![p] = "audit"] /\ UNCHANGED request
    /\ UNCHANGED <<now, tableVars, state, workerVars>>

\* No bearer token, no policy for the route, or what Authorize refuses.
Refuse(p) == stage[p] = "auth" /\ Unwind(p)

Admit(p) ==
    /\ stage[p] = "auth" /\ Configured(request[p])
    /\ stage' = [stage EXCEPT ![p] = "handler"]
    /\ UNCHANGED <<now, tableVars, state, request, workerVars>>

Handle(p) == stage[p] = "handler" /\ Unwind(p)

Panic_AuditInside(p) ==
    /\ stage[p] = "handler"
    /\ Forget(p)
    /\ UNCHANGED <<now, tableVars, state, workerVars>>

\* gin.Recovery, inside auditMiddleware, turns the panic into a status.
Panic(p) == stage[p] = "handler" /\ Unwind(p)

\* The INSERT is committed and acknowledged, or fails, with or without
\* effect.
AppendEvent(p) ==
    /\ stage[p] = "audit"
    /\ Insert(AuditEvent(request[p]))
    /\ Forget(p)
    /\ UNCHANGED <<now, state, workerVars>>

AppendFail(p) ==
    /\ stage[p] = "audit"
    /\ Insert(AuditEvent(request[p])) \/ UNCHANGED tableVars
    /\ stage' = [stage EXCEPT ![p] = "log"]
    /\ UNCHANGED <<now, state, request, workerVars>>

\* The error is logged; the answer stays what it was.
LogError(p) ==
    /\ stage[p] = "log"
    /\ Forget(p)
    /\ UNCHANGED <<now, tableVars, state, workerVars>>
-----------------------------------------------------------------------------
(* The retention worker: runCleanup, Cleanup and purgeClass.               *)

EndCycle(p) ==
    /\ phase' = [phase EXCEPT ![p] = "wait"]
    /\ started' = [started EXCEPT ![p] = 0]
    /\ deleted' = [deleted EXCEPT ![p] = NoneDeleted]

\* What the cycle has removed, and what it removes now, goes unrecorded.
GiveUp(p, removed) ==
    /\ EndCycle(p)
    /\ lost' = lost \cup purged[p] \cup removed
    /\ purged' = [purged EXCEPT ![p] = {}]
    /\ UNCHANGED reports

\* At the start of the process, and then whenever the ticker fires.  There
\* is no worker when both classes are kept for ever.
BeginCycle(p) ==
    /\ state[p] = "up" /\ phase[p] = "wait"
    /\ \E c \in Classes : Days[c] > 0
    /\ started' = [started EXCEPT ![p] = now]
    /\ phase' = [phase EXCEPT ![p] = IF Days["NORMAL"] > 0 THEN "NORMAL" ELSE "CRITICAL"]
    /\ UNCHANGED <<now, tableVars, state, requestVars, held, deleted, historyVars>>

Purging(p) == phase[p] \in Classes

Expired(r, day) ==
    /\ Days[event[r].class] > 0
    /\ event[r].at + Days[event[r].class] < day

Candidates_AnyClass(p) ==
    {r \in live : event[r].at + Days[phase[p]] < started[p]}
        \ UNION {held[q] : q \in Processes}

Candidates_LocksIgnored(p) ==
    {r \in live : event[r].class = phase[p] /\ Expired(r, started[p])}

\* The rows the statement may lock: those another one holds are skipped.
Candidates(p) ==
    {r \in live : event[r].class = phase[p] /\ Expired(r, started[p])}
        \ UNION {held[q] : q \in Processes}

Count_FirstClassOnly(p, removed) ==
    LET total == [deleted[p] EXCEPT ![phase[p]] = @ + Cardinality(removed)]
        finished == Cardinality(removed) < BatchSize
    IN IF finished /\ total = NoneDeleted
         THEN EndCycle(p)
         ELSE /\ deleted' = [deleted EXCEPT ![p] = total]
              /\ phase' = [phase EXCEPT ![p] = IF finished THEN "record" ELSE @]
              /\ UNCHANGED started

Count_LastClassOnly(p, removed) ==
    LET total == [deleted[p] EXCEPT ![phase[p]] = @ + Cardinality(removed)]
        finished == Cardinality(removed) < BatchSize
        more == phase[p] = "NORMAL" /\ Days["CRITICAL"] > 0
    IN IF finished /\ ~more /\ total[phase[p]] = 0
         THEN EndCycle(p)
         ELSE /\ deleted' = [deleted EXCEPT ![p] = total]
              /\ phase' = [phase EXCEPT ![p] = IF ~finished THEN @
                                               ELSE IF more THEN "CRITICAL"
                                               ELSE "record"]
              /\ UNCHANGED started

\* What a statement returned is counted; a short batch ends the class.
Count(p, removed) ==
    LET total == [deleted[p] EXCEPT ![phase[p]] = @ + Cardinality(removed)]
        finished == Cardinality(removed) < BatchSize
        more == phase[p] = "NORMAL" /\ Days["CRITICAL"] > 0
    IN IF finished /\ ~more /\ total = NoneDeleted
         THEN EndCycle(p)
         ELSE /\ deleted' = [deleted EXCEPT ![p] = total]
              /\ phase' = [phase EXCEPT ![p] = IF ~finished THEN @
                                               ELSE IF more THEN "CRITICAL"
                                               ELSE "record"]
              /\ UNCHANGED started

PurgeNone(p) ==
    /\ state[p] = "up" /\ Purging(p) /\ held[p] = {} /\ Candidates(p) = {}
    /\ Count(p, {})
    /\ UNCHANGED <<now, tableVars, state, requestVars, held, historyVars>>

\* The oldest rows, as many as the batch takes.
PurgeLock(p) ==
    /\ state[p] = "up" /\ Purging(p) /\ held[p] = {} /\ Candidates(p) # {}
    /\ \E batch \in SUBSET Candidates(p) :
         /\ Cardinality(batch) = Min({BatchSize, Cardinality(Candidates(p))})
         /\ \A r \in batch, s \in Candidates(p) \ batch : event[r].at <= event[s].at
         /\ held' = [held EXCEPT ![p] = batch]
    /\ UNCHANGED <<now, tableVars, state, requestVars, phase, started, deleted, historyVars>>

PurgeCommit(p) ==
    /\ held[p] # {}
    /\ live' = live \ held[p]
    /\ held' = [held EXCEPT ![p] = {}]
    /\ Count(p, held[p])
    /\ purged' = [purged EXCEPT ![p] = @ \cup held[p]]
    /\ UNCHANGED <<now, event, state, requestVars, reports, lost>>

\* The statement, or the context at the head of the loop, has an error; the
\* statement may have been committed all the same.  The cycle is given up,
\* with what it has deleted, and the worker waits for the ticker.
PurgeFail(p) ==
    /\ Purging(p)
    /\ live' \in {live, live \ held[p]}
    /\ held' = [held EXCEPT ![p] = {}]
    /\ GiveUp(p, live \ live')
    /\ UNCHANGED <<now, event, state, requestVars>>

CleanupEvent(p) == [at |-> now, class |-> "CRITICAL", deleted |-> deleted[p]]

\* The event stands for what the cycle removed, if its INSERT takes effect.
RecordCleanup(p) ==
    /\ phase[p] = "record"
    /\ \/ /\ Insert(CleanupEvent(p))
          /\ EndCycle(p)
          /\ reports' = [r \in Rows |->
                          IF r \in live' \ live THEN purged[p] ELSE reports[r]]
          /\ purged' = [purged EXCEPT ![p] = {}]
          /\ UNCHANGED lost
       \/ UNCHANGED tableVars /\ GiveUp(p, {})
    /\ UNCHANGED <<now, state, requestVars, held>>
-----------------------------------------------------------------------------
(* Processes and time.                                                     *)

Start(p) ==
    /\ state[p] = "down"
    /\ state' = [state EXCEPT ![p] = "up"]
    /\ UNCHANGED <<now, tableVars, requestVars, workerVars>>

\* The signal context is cancelled: no request is accepted any more, and
\* no statement sent to purge.
Stop(p) ==
    /\ state[p] = "up"
    /\ state' = [state EXCEPT ![p] = "stopping"]
    /\ UNCHANGED <<now, tableVars, requestVars, workerVars>>

Exit(p) ==
    /\ state[p] = "stopping" /\ stage[p] = "idle" /\ phase[p] = "wait"
    /\ state' = [state EXCEPT ![p] = "down"]
    /\ UNCHANGED <<now, tableVars, requestVars, workerVars>>

\* The database may yet commit the statement of the process that is gone.
\* The shutdown timeout ends a process like this too.
Crash(p) ==
    /\ state[p] # "down"
    /\ state' = [state EXCEPT ![p] = "down"]
    /\ Forget(p)
    /\ live' \in {live, live \ held[p]}
    /\ held' = [held EXCEPT ![p] = {}]
    /\ GiveUp(p, live \ live')
    /\ UNCHANGED <<now, event>>

Tick ==
    /\ now < MaxClock
    /\ now' = now + 1
    /\ UNCHANGED <<tableVars, state, requestVars, workerVars>>
-----------------------------------------------------------------------------
Serve(p) ==
    \/ \E r \in Routes : Receive(p, r)
    \/ Refuse(p) \/ Admit(p) \/ Handle(p) \/ Panic(p) \/ AppendEvent(p)
    \/ AppendFail(p) \/ LogError(p)

Cleanup(p) ==
    \/ BeginCycle(p) \/ PurgeNone(p) \/ PurgeLock(p) \/ PurgeCommit(p)
    \/ PurgeFail(p) \/ RecordCleanup(p)

Next ==
    \/ \E p \in Processes :
         Serve(p) \/ Cleanup(p) \/ Start(p) \/ Stop(p) \/ Exit(p) \/ Crash(p)
    \/ Tick

Spec == Init /\ [][Next]_vars

\* The ticker fires, statements return, and one that is tried again and
\* again succeeds in the end.
Fairness ==
    /\ \A p \in Processes \ {Steady} : SF_vars(PurgeCommit(p))
    /\ WF_vars(BeginCycle(Steady)) /\ WF_vars(RecordCleanup(Steady))
    /\ SF_vars(PurgeNone(Steady)) /\ SF_vars(PurgeLock(Steady)) /\ SF_vars(PurgeCommit(Steady))

FairSpec == Spec /\ Fairness
-----------------------------------------------------------------------------
OfClass(S, c) == {r \in S : event[r].class = c}

Gone == Written \ live

\* The removed rows, by who answers for them.
Reported == UNION {reports[r] : r \in Rows}
UnderWay == UNION {purged[p] : p \in {q \in Processes : phase[q] # "wait"}}

(* No event leaves the table before its class's retention is over, whoever *)
(* purges and whatever fails.  The counts of a cleanup event are those of  *)
(* rows that are gone, of each class, and no row is counted by two events; *)
(* a row that is gone and that no event counts was removed by a cycle that *)
(* is under way, or by one that failed or whose INSERT did                 *)
(* (audit_retention.go 66-124, main.go 196-236, the purge function 75-89). *)
PurgeIsAccounted ==
    /\ \A r \in Gone : Expired(r, now)
    /\ \A r \in Written, c \in Classes :
         event[r].deleted[c] = Cardinality(OfClass(reports[r], c))
    /\ \A r, s \in Rows : r # s => reports[r] \cap reports[s] = {}
    /\ Gone = Reported \cup UnderWay \cup lost
    /\ Reported \cap UnderWay = {}
    /\ Reported \cap lost = {}

(* A cycle that has deleted a row appends an event that reports it before  *)
(* it ends (docs/src/content/docs/operations/audit-retention.md 169), as   *)
(* long as the process lives.  The code returns on the first error, after  *)
(* whatever batches are committed (main.go 219-225).                       *)
CleanupIsRecorded ==
    [][\A p \in Processes :
         /\ phase[p] # "wait" /\ phase'[p] = "wait" /\ state'[p] = "up"
         /\ purged[p] # {}
         => \E r \in live' \ live : purged[p] \subseteq reports'[r]]_vars

(* Every request that is answered, refused and panicking ones included,    *)
(* leaves an event of its class, or an error in the log if that could not  *)
(* be inserted; only a process that dies leaves neither (server.go 30-38,  *)
(* audit_middleware.go 30-71).                                             *)
RequestIsAudited ==
    [][\A p \in Processes :
         /\ stage[p] \in {"auth", "handler", "audit"} /\ stage'[p] = "idle"
         /\ request[p] \notin SkippedRoutes
         /\ state'[p] # "down"
         => \E r \in live' \ live : event'[r] = AuditEvent(request[p])]_vars

(* With one process that keeps running, an expired event is removed in the *)
(* end, even if other processes crash again and again with locks on it     *)
(* that make this one skip it (audit_retention.go 103-124, main.go         *)
(* 248-259).                                                               *)
ExpiredIsPurged ==
    <>[](state[Steady] = "up") =>
        \A r \in Rows : (r \in live /\ Expired(r, now)) ~> (r \notin live)
-----------------------------------------------------------------------------
(* The strengthening of the invariants that a step preserves.  A statement *)
(* holds rows of the class being purged that were due when the cycle       *)
(* began, a cycle's counts are right at every step of it, and the removed  *)
(* rows are shared out among the events, the cycles and the failures.      *)

HeldInv ==
    \A p \in Processes : held[p] # {} =>
        /\ Purging(p)
        /\ \A r \in held[p] : event[r].class = phase[p] /\ Expired(r, started[p])

GoneInv == \A r \in Gone : Expired(r, now)

CountInv ==
    \A p \in Processes, c \in Classes : deleted[p][c] = Cardinality(OfClass(purged[p], c))

IdleInv == \A p \in Processes : phase[p] = "wait" => deleted[p] = NoneDeleted

ReportInv ==
    /\ \A r \in Written, c \in Classes :
         event[r].deleted[c] = Cardinality(OfClass(reports[r], c))
    /\ \A r \in Rows \ Written : reports[r] = {}

ShareInv ==
    /\ \A r, s \in Rows : r # s => reports[r] \cap reports[s] = {}
    /\ \A p, q \in Processes : p # q => purged[p] \cap purged[q] = {}
    /\ \A r \in Rows, p \in Processes : reports[r] \cap purged[p] = {}
    /\ \A r \in Rows : reports[r] \cap lost = {}
    /\ \A p \in Processes : purged[p] \cap lost = {}
    /\ \A s \in Gone : \/ s \in lost
                       \/ \E r \in Rows : s \in reports[r]
                       \/ \E p \in Processes : s \in purged[p]

IInv == TypeOK /\ HeldInv /\ GoneInv /\ CountInv /\ IdleInv /\ ReportInv /\ ShareInv
=============================================================================
