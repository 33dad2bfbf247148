---------------------------- MODULE ContractSync ----------------------------
(***************************************************************************)
(* Contract sync and expiry rollover for one underlying (apps/options:     *)
(* contract_sync, sync_lock, expiry_service, instrument_master, tasks):    *)
(* the daily sync, the rollover after the cutoff, the health check and the *)
(* management command upsert the listed expiries under a Redis lease that  *)
(* expires by itself.                                                      *)
(*                                                                         *)
(* Expiries are days; time is a day and whether its cutoff has passed.     *)
(* The exchange lists the next Listed days.  Each worker process caches    *)
(* the instrument master for a day.                                        *)
(***************************************************************************)
EXTENDS Naturals, FiniteSets, FiniteSetsExt

CONSTANTS
  Workers,     \* processes that can sync
  Listed,      \* expiries the exchange lists at once
  SyncCount,   \* OPTIONS_EXPIRY_SYNC_COUNT
  MaxDays,     \* bound
  MaxCrashes   \* bound

SyncAssumption ==
  /\ Listed \in Nat /\ SyncCount \in 1 .. Listed /\ MaxDays \in Nat \ {0} /\ MaxCrashes \in Nat

VARIABLES
  day, afterCutoff,
  rows,        \* rows[e]: "none", or is_active of the contracts of expiry e
  lease,       \* the Redis key: {} or the worker whose token it holds
  task,        \* task[w]: "idle", "asked", "leased", "read", "written"
  cache,       \* the process's master: the day it was downloaded, 0 if none
  listing,     \* the expiries the running sync read
  lost,        \* history: workers whose lease expired while they worked
  crashes

vars == <<day, afterCutoff, rows, lease, task, cache, listing, lost, crashes>>

Expiries == 1 .. MaxDays + Listed

Init ==
  /\ day = 1 /\ afterCutoff = FALSE
  /\ rows = [e \in Expiries |-> "none"]
  /\ lease = {} /\ lost = {} /\ crashes = 0
  /\ task = [w \in Workers |-> "idle"] /\ cache = [w \in Workers |-> 0]
  /\ listing = [w \in Workers |-> {}]

\* is_expiry_eligible: today's expiry counts until the cutoff.
Eligible(e) == e > day \/ (e = day /\ ~afterCutoff)

ListedOn(d) == d .. d + Listed - 1
Nearest(expiries) == {e \in expiries : Cardinality({x \in expiries : x < e}) < SyncCount}

\* list_eligible_expiries, rollover_required, resolve_current_expiry.
EligibleRows == {e \in Expiries : rows[e] # "none" /\ Eligible(e)}
RolloverByRows == Cardinality({e \in Expiries : rows[e] # "none"}) < SyncCount

RolloverRequired == Cardinality(EligibleRows) < SyncCount
CurrentExpiry == IF EligibleRows = {} THEN {} ELSE {Min(EligibleRows)}

\* The beat's daily sync and the command sync at any time; the rollover and the
\* health check only when the buffer has thinned.
Ask(w) ==
  /\ task[w] = "idle" /\ task' = [task EXCEPT ![w] = "asked"]
  /\ UNCHANGED <<day, afterCutoff, rows, lease, cache, listing, lost, crashes>>

HealthCheck(w) == RolloverRequired /\ Ask(w)

\* SET NX EX: acquired, or the sync is skipped (also when Redis is away).
Acquire(w) ==
  /\ task[w] = "asked"
  /\ IF lease = {} THEN lease' = {w} /\ task' = [task EXCEPT ![w] = "leased"]
     ELSE UNCHANGED lease /\ task' = [task EXCEPT ![w] = "idle"]
  /\ lost' = lost \ {w}
  /\ UNCHANGED <<day, afterCutoff, rows, cache, listing, crashes>>

Refuse(w) ==
  /\ task[w] = "asked" /\ task' = [task EXCEPT ![w] = "idle"]
  /\ UNCHANGED <<day, afterCutoff, rows, lease, cache, listing, lost, crashes>>

\* get_instrument_master: the day's copy, else a download; a copy within its 24
\* hours, or a failed download, serves the old one; without one it raises.
Read(w, downloads) ==
  LET from == IF cache[w] = day THEN day ELSE IF downloads THEN day ELSE cache[w]
  IN /\ task[w] = "leased"
     /\ cache' = [cache EXCEPT ![w] = from]
     /\ listing' = [listing EXCEPT ![w] = IF from = 0 THEN {} ELSE Nearest(ListedOn(from))]
     /\ task' = [task EXCEPT ![w] = IF from = 0 THEN "written" ELSE "read"]
     /\ UNCHANGED <<day, afterCutoff, rows, lease, lost, crashes>>

CommitListed(w, fails) ==
  /\ task[w] = "read"
  /\ rows' = IF fails THEN rows
             ELSE [e \in Expiries |-> IF e \in listing[w] THEN "active"
                                      ELSE IF rows[e] = "none" THEN "none" ELSE "inactive"]
  /\ task' = [task EXCEPT ![w] = "written"]
  /\ UNCHANGED <<day, afterCutoff, lease, cache, listing, lost, crashes>>

\* _do_sync's transaction: upsert what was listed, recompute every row; an
\* error or a dry run rolls it back.
Commit(w, fails) ==
  /\ task[w] = "read"
  /\ rows' = IF fails THEN rows
             ELSE [e \in Expiries |->
                    IF e \notin listing[w] /\ rows[e] = "none" THEN "none"
                    ELSE IF Eligible(e) THEN "active" ELSE "inactive"]
  /\ task' = [task EXCEPT ![w] = "written"]
  /\ UNCHANGED <<day, afterCutoff, lease, cache, listing, lost, crashes>>

\* release_lock: deletes the key only if it still holds this worker's token.
Release(w) ==
  /\ task[w] = "written"
  /\ lease' = lease \ {w}
  /\ task' = [task EXCEPT ![w] = "idle"]
  /\ lost' = lost \ {w}
  /\ listing' = [listing EXCEPT ![w] = {}]
  /\ UNCHANGED <<day, afterCutoff, rows, cache, crashes>>

\* The lease outlives its timeout: a slow holder, or a dead one.
Expire ==
  /\ lease # {} /\ lease' = {} /\ lost' = lost \union lease
  /\ UNCHANGED <<day, afterCutoff, rows, task, cache, listing, crashes>>

\* A worker process dies; its cache and its token go with it.
Crash(w) ==
  /\ task[w] # "idle" /\ crashes < MaxCrashes
  /\ crashes' = crashes + 1
  /\ task' = [task EXCEPT ![w] = "idle"] /\ cache' = [cache EXCEPT ![w] = 0]
  /\ listing' = [listing EXCEPT ![w] = {}]
  /\ UNCHANGED <<day, afterCutoff, rows, lease, lost>>

Clock ==
  /\ IF afterCutoff THEN day < MaxDays /\ day' = day + 1 ELSE UNCHANGED day
  /\ afterCutoff' = ~afterCutoff
  /\ UNCHANGED <<rows, lease, task, cache, listing, lost, crashes>>

Sync(w) ==
  \/ Acquire(w) \/ Release(w)
  \/ \E b \in BOOLEAN : Read(w, b) \/ Commit(w, b)

Next ==
  \/ Clock \/ Expire
  \/ \E w \in Workers : Ask(w) \/ Refuse(w) \/ Sync(w) \/ Crash(w)

Spec == Init /\ [][Next]_vars

\* A lease expires, the health check runs every 15 minutes, tasks finish and the
\* exchange's file is not broken for ever.
FairSpec ==
  /\ Spec /\ WF_vars(Expire)
  /\ \A w \in Workers :
       /\ SF_vars(HealthCheck(w)) /\ WF_vars(Sync(w)) /\ SF_vars(Acquire(w) /\ lease = {})
       /\ SF_vars(Read(w, TRUE)) /\ SF_vars(Commit(w, FALSE))

-----------------------------------------------------------------------------
(* Properties *)

\* The types of the rows, the lease and the tasks.
TypeOK ==
  /\ day \in 1 .. MaxDays /\ rows \in [Expiries -> {"none", "active", "inactive"}]
  /\ lease \subseteq Workers /\ Cardinality(lease) <= 1 /\ lost \subseteq Workers
  /\ task \in [Workers -> {"idle", "asked", "leased", "read", "written"}]

Syncing(w) == task[w] \in {"leased", "read", "written"}

\* Two syncs overlap only if the lease of one of them ran out: a slow sync never
\* releases the lease of its successor (sync_lock).
LeaseExcludes ==
  \A v, w \in Workers : v # w /\ Syncing(v) /\ Syncing(w) => v \in lost \/ w \in lost

\* No contract of a passed expiry becomes active again (_do_sync recomputes every
\* row), whatever sync, cached list or overlap follows.
PassedStaysInactive ==
  [][\A e \in Expiries : rows[e] = "inactive" => rows'[e] = "inactive"]_vars

\* Whatever was missed (a rollover, a day, a lease whose holder died, a failed
\* download), an underlying left without a current expiry gets one again
\* (options_sync_health_check).
ExpiryComesBack == (CurrentExpiry = {}) ~> (CurrentExpiry # {})
=============================================================================
