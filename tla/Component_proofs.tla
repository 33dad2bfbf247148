-------------------------- MODULE Component_proofs --------------------------
(***************************************************************************)
(* Theorems of the components too small for a proof module of their own,   *)
(* each proved by itself, for every value of the constants its assumption  *)
(* allows:                                                                 *)
(*                                                                         *)
(*   ContractSync      the lease of the contract sync                      *)
(*   BrokerSession     the calls of the broker client                      *)
(*   ReviewLoop        the review of suggested changes                     *)
(*   ChampionGate      the promotion of models                             *)
(*   FeedSubscription  the feed's subscriptions                            *)
(*   PriceAlerts       the price alerts                                    *)
(*   CandleStore       the fetches of a contract's history                 *)
(*   ContractChart     the chart of a contract                             *)
(*   OptionPage        the option chain on screen                          *)
(*   Drishti           the assistant's questions                           *)
(*   EquitySync        the account row                                     *)
(*   PolicySignal, RegimeVote, SignalDecisions                             *)
(*                     the decisions of the signal engines, for every      *)
(*                     reading of the indicators                           *)
(***************************************************************************)
EXTENDS Integers, Sequences, FiniteSets, FiniteSetTheorems, SequenceTheorems, TLAPS

CONSTANTS
  Workers, Listed, SyncCount, MaxDays, MaxCrashes,            \* ContractSync
  Processes, Threads, ProcessOf, Kinds, Attempts, Threshold,  \* BrokerSession
  Admins, Appliers, Contents, MaxReviews,                     \* ReviewLoop
  Task, Accuracies, MaxRegression, MinTraining, MinHoldout, Holdouts, PolicyGates,
  MinSamples, MaxDrawdownR, MaxTrades, MaxRows, Deaths,       \* ChampionGate
  Tokens, MaxSockets, MaxMoves,                               \* FeedSubscription
  Alerts, Prices, MaxEdits, MaxDeaths,                        \* PriceAlerts (with Workers)
  Jobs, Requests, MaxBars, MaxTicks, MaxExpiries,             \* CandleStore
  Strikes, Frames, Contracts, MaxSelections,                  \* ContractChart
  Listing, MaxPageMoves,                                      \* OptionPage
  Actions, MaxExchanges, MaxLoads, MaxClears, Admin,          \* Drishti
  Syncers, InitialFunds, Premium, Results, MaxSwitches, FlattenPct,  \* EquitySync
  Limits                                                      \* RegimeVote

VARIABLES
  day, afterCutoff, rows, lease, task, cache, listing, lost, crashes,
  conn, call, breaker, shared, slot, throttled, posted,
  note, reviews, request, command, version, granted,
  trades, registry, trainer, deaths,
  marketOpen, desired, tokens, socket, streamed, active, ready, thread, failures, refresh, mishap,
  moves,
  price, alert, checking, edit, edits, announced, killed,
  clock, traded, running, bars, job, locked, expired, pushed,
  wanted, requestId, questions, contract, candles, bar, drawn, wire, timer, flags,
  underlying, expiry, picked, rolled, inquiries, chain, strike, spot, failed, clicks,
  exchange, shown, waiting, mic, load, clear, log,
  mode, account, funds, position, result, syncing, enforcing, rearm, halted, switches

Sync == INSTANCE ContractSync
Broker == INSTANCE BrokerSession
Review == INSTANCE ReviewLoop
Feed == INSTANCE FeedSubscription
Watch == INSTANCE PriceAlerts WITH row <- alert, check <- checking, told <- announced, deaths <- killed
Store == INSTANCE CandleStore WITH rows <- bars, MaxTrades <- MaxTicks
Chart == INSTANCE ContractChart WITH Listed <- Contracts, asked <- questions
View == INSTANCE OptionPage WITH asked <- inquiries, moves <- clicks, MaxMoves <- MaxPageMoves
Chat == INSTANCE Drishti
Equity == INSTANCE EquitySync WITH trade <- position, sync <- syncing, check <- enforcing
Policy == INSTANCE PolicySignal
Vote == INSTANCE RegimeVote
Decide == INSTANCE SignalDecisions
\* One training task at a time, which may be killed; no candidate is activated by hand.
Gate == INSTANCE ChampionGate WITH
  Trainers <- {Task}, Candidates <- FALSE, MaxCrashes <- Deaths, crashes <- deaths

-----------------------------------------------------------------------------
(* ContractSync: the lease *)

(***************************************************************************)
(* LeaseExcludes is not inductive: that two syncs overlap only after an    *)
(* expiry follows from what each single sync knows of the lease.  A sync   *)
(* that runs holds the lease unless it expired under it; the rest of the   *)
(* state is typed.                                                         *)
(***************************************************************************)
Steps == {"idle", "asked", "leased", "read", "written"}
Activity == {"none", "active", "inactive"}
SyncTypes ==
  /\ day \in 1 .. MaxDays /\ afterCutoff \in BOOLEAN
  /\ rows \in [Sync!Expiries -> Activity]
  /\ task \in [Workers -> Steps] /\ lost \subseteq Workers
OneHolder == lease = {} \/ \E w \in Workers : lease = {w}
HoldsUnlessLost == \A w \in Workers : Sync!Syncing(w) => w \in lost \/ lease = {w}
LeaseInv == SyncTypes /\ OneHolder /\ HoldsUnlessLost

\* What is known of a lease that nobody holds twice.
LEMMA HolderTypes ==
  ASSUME OneHolder
  PROVE  lease \subseteq Workers /\ IsFiniteSet(lease) /\ Cardinality(lease) <= 1
<1>1. CASE lease = {}
  BY <1>1, FS_EmptySet
<1>2. ASSUME NEW w \in Workers, lease = {w}
      PROVE  lease \subseteq Workers /\ IsFiniteSet(lease) /\ Cardinality(lease) <= 1
  <2>1. IsFiniteSet({w}) /\ Cardinality({w}) = 1
    BY FS_Singleton
  <2> QED
    BY <1>2, <2>1
<1> QED
  BY <1>1, <1>2 DEF OneHolder

LEMMA LeaseInit ==
  ASSUME Sync!SyncAssumption, Sync!Init
  PROVE  LeaseInv
<1>1. SyncTypes
  <2>1. day \in 1 .. MaxDays
    BY DEF Sync!SyncAssumption, Sync!Init
  <2>2. rows \in [Sync!Expiries -> Activity]
    BY DEF Sync!Init, Activity
  <2>3. task \in [Workers -> Steps]
    BY DEF Sync!Init, Steps
  <2> QED
    BY <2>1, <2>2, <2>3 DEF Sync!Init, SyncTypes
<1>2. OneHolder /\ HoldsUnlessLost
  BY DEF Sync!Init, OneHolder, HoldsUnlessLost, Sync!Syncing
<1> QED
  BY <1>1, <1>2 DEF LeaseInv

\* Time and syncs keep the types.
LEMMA SyncTypesStep ==
  ASSUME Sync!SyncAssumption, SyncTypes, OneHolder, [Sync!Next]_(Sync!vars)
  PROVE  SyncTypes'
<1> USE DEF SyncTypes, Steps, Activity
<1>1. CASE Sync!Clock
  BY <1>1 DEF Sync!Clock, Sync!SyncAssumption, Sync!Expiries
<1>2. CASE Sync!Expire
  BY <1>2, HolderTypes DEF Sync!Expire, Sync!Expiries
<1>3. ASSUME NEW w \in Workers, Sync!Ask(w)
      PROVE  SyncTypes'
  BY <1>3 DEF Sync!Ask, Sync!Expiries
<1>4. ASSUME NEW w \in Workers, Sync!Refuse(w)
      PROVE  SyncTypes'
  BY <1>4 DEF Sync!Refuse, Sync!Expiries
<1>5. ASSUME NEW w \in Workers, Sync!Acquire(w)
      PROVE  SyncTypes'
  BY <1>5 DEF Sync!Acquire, Sync!Expiries
<1>6. ASSUME NEW w \in Workers, Sync!Release(w)
      PROVE  SyncTypes'
  BY <1>6 DEF Sync!Release, Sync!Expiries
<1>7. ASSUME NEW w \in Workers, NEW b \in BOOLEAN, Sync!Read(w, b)
      PROVE  SyncTypes'
  BY <1>7 DEF Sync!Read, Sync!Expiries
<1>8. ASSUME NEW w \in Workers, NEW b \in BOOLEAN, Sync!Commit(w, b)
      PROVE  SyncTypes'
  BY <1>8 DEF Sync!Commit, Sync!Expiries
<1>9. ASSUME NEW w \in Workers, Sync!Crash(w)
      PROVE  SyncTypes'
  BY <1>9 DEF Sync!Crash, Sync!Expiries
<1>10. CASE UNCHANGED Sync!vars
  BY <1>10 DEF Sync!vars, Sync!Expiries
<1> QED
  BY <1>1, <1>2, <1>3, <1>4, <1>5, <1>6, <1>7, <1>8, <1>9, <1>10 DEF Sync!Next, Sync!Sync

\* The key names one worker at most, and a worker that syncs is named by it
\* until it expires: taking the lease needs it free, and a worker releases no
\* lease but its own.
LEMMA HolderStep ==
  ASSUME LeaseInv, [Sync!Next]_(Sync!vars)
  PROVE  OneHolder' /\ HoldsUnlessLost'
<1> USE DEF LeaseInv, SyncTypes, Steps, OneHolder, HoldsUnlessLost, Sync!Syncing
<1>1. CASE Sync!Clock
  BY <1>1 DEF Sync!Clock
<1>2. CASE Sync!Expire
  BY <1>2 DEF Sync!Expire
<1>3. ASSUME NEW w \in Workers, Sync!Ask(w) \/ Sync!Refuse(w)
      PROVE  OneHolder' /\ HoldsUnlessLost'
  BY <1>3 DEF Sync!Ask, Sync!Refuse
<1>5. ASSUME NEW w \in Workers, Sync!Acquire(w)
      PROVE  OneHolder' /\ HoldsUnlessLost'
  <2>1. CASE lease = {}
    BY <1>5, <2>1 DEF Sync!Acquire
  <2>2. CASE lease # {}
    BY <1>5, <2>2 DEF Sync!Acquire
  <2> QED
    BY <2>1, <2>2
<1>6. ASSUME NEW w \in Workers, Sync!Release(w)
      PROVE  OneHolder' /\ HoldsUnlessLost'
  BY <1>6 DEF Sync!Release
<1>7. ASSUME NEW w \in Workers, NEW b \in BOOLEAN, Sync!Read(w, b) \/ Sync!Commit(w, b)
      PROVE  OneHolder' /\ HoldsUnlessLost'
  BY <1>7 DEF Sync!Read, Sync!Commit
<1>9. ASSUME NEW w \in Workers, Sync!Crash(w)
      PROVE  OneHolder' /\ HoldsUnlessLost'
  BY <1>9 DEF Sync!Crash
<1>10. CASE UNCHANGED Sync!vars
  BY <1>10 DEF Sync!vars
<1> QED
  BY <1>1, <1>2, <1>3, <1>5, <1>6, <1>7, <1>9, <1>10 DEF Sync!Next, Sync!Sync

\* In every reachable state of the sync the lease has at most one holder, and a
\* sync that writes holds it unless it ran out under it (sync_lock.py).
THEOREM LeaseInvariance ==
  ASSUME Sync!SyncAssumption
  PROVE  Sync!Spec => []LeaseInv
<1>1. Sync!Init => LeaseInv
  BY LeaseInit
<1>2. LeaseInv /\ [Sync!Next]_(Sync!vars) => LeaseInv'
  BY SyncTypesStep, HolderStep DEF LeaseInv
<1> QED
  BY <1>1, <1>2, PTL DEF Sync!Spec

\* The types of the rows, the lease and the tasks, for any number of workers and
\* any listing (contract_sync).
THEOREM SyncIsTyped ==
  ASSUME Sync!SyncAssumption
  PROVE  Sync!Spec => []Sync!TypeOK
<1>1. ASSUME LeaseInv
      PROVE  Sync!TypeOK
  <2>1. lease \subseteq Workers /\ Cardinality(lease) <= 1
    BY <1>1, HolderTypes DEF LeaseInv
  <2>2. Sync!Cardinality(lease) = Cardinality(lease)
    BY DEF Sync!Cardinality, Cardinality
  <2> QED
    BY <1>1, <2>1, <2>2 DEF LeaseInv, SyncTypes, Steps, Activity, Sync!TypeOK, Sync!Expiries
<1> QED
  BY <1>1, LeaseInvariance, PTL

\* Two syncs overlap only if the lease of one of them ran out, however many
\* workers there are, whatever crashes and however late a slow one releases
\* (sync_lock's token).
THEOREM SyncsExclude ==
  ASSUME Sync!SyncAssumption
  PROVE  Sync!Spec => []Sync!LeaseExcludes
<1>1. LeaseInv => Sync!LeaseExcludes
  BY DEF LeaseInv, HoldsUnlessLost, Sync!LeaseExcludes
<1> QED
  BY <1>1, LeaseInvariance, PTL

-----------------------------------------------------------------------------
(* ContractSync: passed expiries *)

\* What was made inactive has passed, and what has passed never comes back.
OnlyPassedInactive == \A e \in Sync!Expiries : rows[e] = "inactive" => ~Sync!Eligible(e)

\* Time only takes eligibility away.
LEMMA EligibilityShrinks ==
  ASSUME SyncTypes, [Sync!Next]_(Sync!vars), NEW e \in Sync!Expiries, Sync!Eligible(e)'
  PROVE  Sync!Eligible(e)
<1>1. e \in Int /\ day \in Int
  BY DEF SyncTypes, Sync!Expiries
<1>2. CASE Sync!Clock
  BY <1>1, <1>2 DEF Sync!Clock, Sync!Eligible, SyncTypes
<1>3. CASE UNCHANGED <<day, afterCutoff>>
  BY <1>3 DEF Sync!Eligible
<1>4. [Sync!Next]_(Sync!vars) => Sync!Clock \/ UNCHANGED <<day, afterCutoff>>
  BY DEF Sync!Next, Sync!Sync, Sync!vars, Sync!Expire, Sync!Ask, Sync!Refuse, Sync!Acquire,
         Sync!Read, Sync!Commit, Sync!Release, Sync!Crash
<1> QED
  BY <1>2, <1>3, <1>4

\* A step leaves the rows alone or is a sync's transaction.
LEMMA OnlyCommitWrites ==
  ASSUME [Sync!Next]_(Sync!vars)
  PROVE  UNCHANGED rows \/ \E w \in Workers, b \in BOOLEAN : Sync!Commit(w, b)
BY DEF Sync!Next, Sync!Sync, Sync!vars, Sync!Clock, Sync!Expire, Sync!Ask, Sync!Refuse,
       Sync!Acquire, Sync!Read, Sync!Release, Sync!Crash

LEMMA PassedStep ==
  ASSUME SyncTypes, OnlyPassedInactive, [Sync!Next]_(Sync!vars)
  PROVE  /\ OnlyPassedInactive'
         /\ \A e \in Sync!Expiries : rows[e] = "inactive" => rows'[e] = "inactive"
<1>1. CASE UNCHANGED rows
  BY <1>1, EligibilityShrinks DEF OnlyPassedInactive, Sync!Expiries
<1>2. ASSUME NEW w \in Workers, NEW b \in BOOLEAN, Sync!Commit(w, b)
      PROVE  /\ \A e \in Sync!Expiries : rows'[e] = "inactive" => ~Sync!Eligible(e)
             /\ \A e \in Sync!Expiries : rows[e] = "inactive" => rows'[e] = "inactive"
  BY <1>2 DEF Sync!Commit, OnlyPassedInactive, SyncTypes
<1>3. ASSUME \A e \in Sync!Expiries : rows'[e] = "inactive" => ~Sync!Eligible(e)
      PROVE  OnlyPassedInactive'
  BY <1>3, EligibilityShrinks DEF OnlyPassedInactive, Sync!Expiries
<1> QED
  BY <1>1, <1>2, <1>3, OnlyCommitWrites

\* No contract of a passed expiry becomes active again, whatever sync, cached
\* list or overlap follows (_do_sync recomputes every row).
THEOREM PassedContractsStayInactive ==
  ASSUME Sync!SyncAssumption
  PROVE  Sync!Spec => Sync!PassedStaysInactive
<1>1. Sync!Init => OnlyPassedInactive
  BY DEF Sync!Init, OnlyPassedInactive
<1>2. LeaseInv /\ OnlyPassedInactive /\ [Sync!Next]_(Sync!vars) => OnlyPassedInactive'
  BY PassedStep DEF LeaseInv
<1>3. LeaseInv /\ OnlyPassedInactive /\ [Sync!Next]_(Sync!vars)
        => [\A e \in Sync!Expiries : rows[e] = "inactive" => rows'[e] = "inactive"]_(Sync!vars)
  BY PassedStep DEF LeaseInv
<1> QED
  BY <1>1, <1>2, <1>3, LeaseInvariance, PTL DEF Sync!Spec, Sync!PassedStaysInactive

-----------------------------------------------------------------------------
(* BrokerSession: an order is sent once *)

(***************************************************************************)
(* A thread that is in the submission of an order has not sent it: the one *)
(* step that sends also ends the call, because only reads are retried and  *)
(* only prices are fetched again after a reconnect.                        *)
(***************************************************************************)
Answers == {"ok", "invalid", "limited", "error", "timeout"}
Outcomes == {"answered", "refused", "lost"}
NotYetSent == \A t \in Threads : call[t].kind = "order" => posted[t] = 0
BrokerInv == Broker!TypeOK /\ NotYetSent

\* A call at any step is a call.
LEMMA CallTypes ==
  ASSUME Broker!BrokerAssumption
  PROVE  /\ Broker!NoCall \in Broker!Calls
         /\ 1 \in 1 .. Attempts /\ 2 \in 1 .. 2 /\ 0 \in 0 .. Threshold
BY DEF Broker!BrokerAssumption, Broker!NoCall, Broker!Calls, Broker!Sessions

LEMMA BrokerInit ==
  ASSUME Broker!BrokerAssumption, Broker!Init
  PROVE  BrokerInv
<1>1. Broker!Closed \in Broker!Breakers
  BY DEF Broker!Closed, Broker!Breakers, Broker!BrokerAssumption
<1>2. Broker!TypeOK
  <2>1. conn \in [Processes -> Broker!Sessions]
    BY DEF Broker!Init, Broker!Sessions
  <2>2. call \in [Threads -> Broker!Calls]
    BY CallTypes DEF Broker!Init
  <2>3. breaker \in [Processes -> Broker!Breakers] /\ shared \in Broker!Breakers
    BY <1>1 DEF Broker!Init
  <2>4. posted \in [Threads -> 0 .. 2]
    BY DEF Broker!Init
  <2> QED
    BY <2>1, <2>2, <2>3, <2>4 DEF Broker!Init, Broker!TypeOK
<1>3. NotYetSent
  BY DEF Broker!Init, NotYetSent
<1> QED
  BY <1>2, <1>3 DEF BrokerInv

\* A login of another process makes a session stale at most.
LEMMA StaleTypes ==
  ASSUME Broker!TypeOK
  PROVE  /\ Broker!EndSessions \in [Threads -> Broker!Calls]
         /\ \A t \in Threads : Broker!EndSessions[t].kind = call[t].kind
         /\ \A s \in Broker!Sessions : Broker!Stale(s) \in Broker!Sessions
<1>1. \A s \in Broker!Sessions : Broker!Stale(s) \in Broker!Sessions
  BY DEF Broker!Stale, Broker!Sessions
<1>2. ASSUME NEW t \in Threads
      PROVE  /\ [call[t] EXCEPT !.session = Broker!Stale(@)] \in Broker!Calls
             /\ [call[t] EXCEPT !.session = Broker!Stale(@)].kind = call[t].kind
  <2>1. call[t] \in Broker!Calls
    BY DEF Broker!TypeOK
  <2> QED
    BY <1>1, <2>1 DEF Broker!Calls
<1> QED
  BY <1>1, <1>2 DEF Broker!EndSessions

\* A breaker that counts stays a breaker.
LEMMA CountedTypes ==
  ASSUME Broker!BrokerAssumption, NEW b \in Broker!Breakers, NEW t, NEW answer
  PROVE  Broker!Counted(b, t, answer) \in Broker!Breakers
<1> USE DEF Broker!BrokerAssumption, Broker!Breakers
<1>1. Broker!Exhausted(b) \in Broker!Breakers
  BY DEF Broker!Exhausted
<1>2. [b EXCEPT !.failures = 0] \in Broker!Breakers
  OBVIOUS
<1> QED
  BY <1>1, <1>2 DEF Broker!Counted

LEMMA LoginStep ==
  ASSUME Broker!BrokerAssumption, BrokerInv, NEW t \in Threads, NEW o \in Outcomes,
         Broker!Login(t, o)
  PROVE  BrokerInv'
<1> USE DEF BrokerInv
<1>1. conn' \in [Processes -> Broker!Sessions]
  BY StaleTypes DEF Broker!Login, Broker!TypeOK, Broker!Sessions, Outcomes
<1>2. call' \in [Threads -> Broker!Calls] /\ \A u \in Threads : call'[u].kind \in {call[u].kind, "none"}
  <2>1. CASE o = "answered"
    <3>1. call' = [Broker!EndSessions EXCEPT ![t].at = "check", ![t].session = "valid"]
      BY <2>1 DEF Broker!Login
    <3>2. [Broker!EndSessions[t] EXCEPT !.at = "check", !.session = "valid"] \in Broker!Calls
      BY StaleTypes DEF Broker!Calls, Broker!Sessions
    <3> QED
      BY <3>1, <3>2, StaleTypes
  <2>2. CASE o = "lost"
    BY <2>2, StaleTypes, CallTypes DEF Broker!Login, Broker!NoCall
  <2>3. CASE o = "refused"
    BY <2>3, CallTypes DEF Broker!Login, Broker!TypeOK, Broker!NoCall
  <2> QED
    BY <2>1, <2>2, <2>3 DEF Outcomes
<1>3. UNCHANGED <<breaker, shared, slot, throttled, posted>>
  BY DEF Broker!Login
<1>4. Broker!TypeOK'
  BY <1>1, <1>2, <1>3 DEF Broker!TypeOK
<1>5. NotYetSent'
  BY <1>2, <1>3 DEF NotYetSent
<1> QED
  BY <1>4, <1>5

\* The step that sends an order ends its submission, whatever the answer.
LEMMA SendStep ==
  ASSUME Broker!BrokerAssumption, BrokerInv, NEW t \in Threads, NEW a \in Answers,
         Broker!Send(t, a)
  PROVE  /\ BrokerInv'
         /\ \A u \in Threads : call[u].kind = "order" => posted'[u] <= 1
<1> DEFINE c == call[t]
<1>1. c \in Broker!Calls /\ posted[t] \in 0 .. 2 /\ ProcessOf[t] \in Processes
  BY DEF BrokerInv, Broker!TypeOK, Broker!BrokerAssumption
<1>2. posted' = [posted EXCEPT ![t] = IF c.kind = "order" /\ @ < 2 THEN @ + 1 ELSE @]
  BY DEF Broker!Send
<1>3. posted' \in [Threads -> 0 .. 2]
  BY <1>1, <1>2 DEF BrokerInv, Broker!TypeOK
<1>4. UNCHANGED <<conn, slot, throttled>>
  BY DEF Broker!Send
<1>5. breaker' \in [Processes -> Broker!Breakers] /\ shared' \in Broker!Breakers
  BY <1>1, CountedTypes DEF BrokerInv, Broker!TypeOK, Broker!Send
<1> DEFINE new == IF Broker!Retries(t, a) THEN [c EXCEPT !.at = "slot", !.attempt = @ + 1]
                  ELSE IF c.kind = "ltp" /\ a = "invalid" /\ c.login = 1 THEN [c EXCEPT !.at = "drop"]
                  ELSE Broker!NoCall
<1>6. call' = [call EXCEPT ![t] = new] /\ new \in Broker!Calls /\ new.kind # "order"
  <2>1. call' = [call EXCEPT ![t] = new]
    BY DEF Broker!Send
  <2>2. CASE Broker!Retries(t, a)
    <3>1. c.attempt + 1 \in 1 .. Attempts /\ c.kind # "order"
      BY <1>1, <2>2 DEF Broker!Retries, Broker!Calls, Broker!BrokerAssumption
    <3>2. new = [c EXCEPT !.at = "slot", !.attempt = c.attempt + 1]
      BY <2>2
    <3> HIDE DEF new
    <3> QED
      BY <1>1, <2>1, <3>1, <3>2 DEF Broker!Calls
  <2>3. CASE ~Broker!Retries(t, a) /\ c.kind = "ltp" /\ a = "invalid" /\ c.login = 1
    BY <1>1, <2>1, <2>3 DEF Broker!Calls
  <2>4. CASE ~Broker!Retries(t, a) /\ ~(c.kind = "ltp" /\ a = "invalid" /\ c.login = 1)
    BY <2>1, <2>4, CallTypes DEF Broker!NoCall
  <2> QED
    BY <2>2, <2>3, <2>4
<1> HIDE DEF new
<1>7. Broker!TypeOK'
  BY <1>3, <1>4, <1>5, <1>6 DEF BrokerInv, Broker!TypeOK
<1>8. ASSUME NEW u \in Threads, call'[u].kind = "order"
      PROVE  posted'[u] = 0
  <2>1. u # t
    BY <1>6, <1>8 DEF BrokerInv, Broker!TypeOK
  <2> QED
    BY <1>2, <1>6, <1>8, <2>1 DEF BrokerInv, NotYetSent, Broker!TypeOK
<1>9. ASSUME NEW u \in Threads, call[u].kind = "order"
      PROVE  posted'[u] <= 1
  BY <1>1, <1>2, <1>9 DEF BrokerInv, NotYetSent, Broker!TypeOK
<1> QED
  BY <1>7, <1>8, <1>9 DEF BrokerInv, NotYetSent

LEMMA CallStep ==
  ASSUME Broker!BrokerAssumption, BrokerInv, NEW t \in Threads, NEW kind \in Kinds,
         Broker!Call(t, kind)
  PROVE  BrokerInv'
<1>1. [Broker!NoCall EXCEPT !.at = "connect", !.kind = kind] \in Broker!Calls
  BY CallTypes DEF Broker!Calls
<1> QED
  BY <1>1 DEF Broker!Call, BrokerInv, NotYetSent, Broker!TypeOK

\* The other steps of a thread neither send nor change what it calls.
LEMMA MoveStep ==
  ASSUME Broker!BrokerAssumption, BrokerInv, NEW t \in Threads,
         \/ Broker!Reuse(t) \/ Broker!Check(t) \/ Broker!Slot(t) \/ Broker!Drop(t)
  PROVE  BrokerInv'
<1> USE DEF BrokerInv
<1>1. call[t] \in Broker!Calls /\ ProcessOf[t] \in Processes /\ conn[ProcessOf[t]] \in Broker!Sessions
  BY DEF Broker!TypeOK, Broker!BrokerAssumption
<1>2. call' \in [Threads -> Broker!Calls] /\ \A u \in Threads : call'[u].kind \in {call[u].kind, "none"}
  <2>1. CASE Broker!Reuse(t)
    <3>1. [call[t] EXCEPT !.at = "check", !.session = conn[ProcessOf[t]]] \in Broker!Calls
      BY <1>1 DEF Broker!Calls
    <3>2. call' = [call EXCEPT ![t] = [call[t] EXCEPT !.at = "check", !.session = conn[ProcessOf[t]]]]
      BY <2>1 DEF Broker!Reuse
    <3> QED
      BY <3>1, <3>2 DEF Broker!TypeOK
  <2>2. CASE Broker!Check(t) \/ Broker!Slot(t)
    <3>1. \A at \in {"slot", "send"} : [call[t] EXCEPT !.at = at] \in Broker!Calls
      BY <1>1 DEF Broker!Calls
    <3>2. CASE Broker!Finish(t)
      BY <3>2, CallTypes DEF Broker!Finish, Broker!NoCall, Broker!TypeOK
    <3>3. ASSUME NEW at \in {"slot", "send"}, Broker!Goto(t, at)
          PROVE  /\ call' \in [Threads -> Broker!Calls]
                 /\ \A u \in Threads : call'[u].kind \in {call[u].kind, "none"}
      <4> DEFINE new == [call[t] EXCEPT !.at = at]
      <4>1. call' = [call EXCEPT ![t] = new]
        BY <3>3 DEF Broker!Goto
      <4>2. new \in Broker!Calls /\ new.kind = call[t].kind
        BY <1>1, <3>1 DEF Broker!Calls
      <4> HIDE DEF new
      <4> QED
        BY <4>1, <4>2 DEF BrokerInv, Broker!TypeOK
    <3>4. Broker!Finish(t) \/ Broker!Goto(t, "slot") \/ Broker!Goto(t, "send")
      BY <2>2 DEF Broker!Check, Broker!Slot, Broker!TakeSlot, Broker!GiveUpSlot
    <3> QED
      BY <3>2, <3>3, <3>4
  <2>3. CASE Broker!Drop(t)
    <3>1. [call[t] EXCEPT !.at = "connect", !.login = 2, !.attempt = 1, !.session = "none"]
            \in Broker!Calls
      BY <1>1, CallTypes DEF Broker!Calls, Broker!Sessions
    <3>2. call' = [call EXCEPT ![t] = [call[t] EXCEPT !.at = "connect", !.login = 2, !.attempt = 1,
                                                      !.session = "none"]]
      BY <2>3 DEF Broker!Drop
    <3> QED
      BY <3>1, <3>2 DEF Broker!TypeOK
  <2> QED
    BY <2>1, <2>2, <2>3
<1>3. /\ UNCHANGED <<breaker, shared, throttled, posted>>
      /\ slot' \in BOOLEAN /\ conn' \in [Processes -> Broker!Sessions]
  BY <1>1 DEF Broker!TypeOK, Broker!Reuse, Broker!Check, Broker!Slot, Broker!TakeSlot,
              Broker!GiveUpSlot, Broker!Drop, Broker!Sessions
<1>4. Broker!TypeOK'
  BY <1>2, <1>3 DEF Broker!TypeOK
<1>5. NotYetSent'
  BY <1>2, <1>3 DEF NotYetSent, Broker!TypeOK
<1> QED
  BY <1>4, <1>5

\* Cooldowns, counters and slots end by the clock, the account calms down.
LEMMA ClockStep ==
  ASSUME Broker!BrokerAssumption, BrokerInv,
         \/ Broker!CooldownsEnd \/ Broker!SharedCountExpires \/ Broker!SlotExpires \/ Broker!Calm
         \/ UNCHANGED Broker!vars
  PROVE  BrokerInv'
<1>1. UNCHANGED <<conn, call, posted>> /\ slot' \in BOOLEAN /\ throttled' \in BOOLEAN
  BY DEF BrokerInv, Broker!TypeOK, Broker!CooldownsEnd, Broker!SharedCooldownEnds, Broker!CooldownEnds,
         Broker!SharedCountExpires, Broker!SlotExpires, Broker!Calm, Broker!vars
<1>2. /\ \A b \in Broker!Breakers : [b EXCEPT !.open = FALSE] \in Broker!Breakers
      /\ \A b \in Broker!Breakers : [b EXCEPT !.failures = 0] \in Broker!Breakers
  BY CallTypes DEF Broker!Breakers
<1>3. shared' \in Broker!Breakers /\ breaker' \in [Processes -> Broker!Breakers]
  BY <1>2 DEF BrokerInv, Broker!TypeOK, Broker!CooldownsEnd, Broker!SharedCooldownEnds, Broker!CooldownEnds,
         Broker!SharedCountExpires, Broker!SlotExpires, Broker!Calm, Broker!vars
<1> QED
  BY <1>1, <1>3 DEF BrokerInv, NotYetSent, Broker!TypeOK

LEMMA BrokerStep ==
  ASSUME Broker!BrokerAssumption, BrokerInv, [Broker!Next]_(Broker!vars)
  PROVE  /\ BrokerInv'
         /\ [\A t \in Threads : call[t].kind = "order" => posted'[t] <= 1]_(Broker!vars)
<1>1. ASSUME NEW t \in Threads, NEW kind \in Kinds, Broker!Call(t, kind)
      PROVE  \A u \in Threads : call[u].kind = "order" => posted'[u] <= 1
  BY <1>1 DEF BrokerInv, NotYetSent, Broker!TypeOK, Broker!Call
<1>2. ASSUME UNCHANGED posted
      PROVE  \A u \in Threads : call[u].kind = "order" => posted'[u] <= 1
  BY <1>2 DEF BrokerInv, NotYetSent
<1>3. ASSUME NEW t \in Threads,
             \/ Broker!Reuse(t) \/ Broker!Check(t) \/ Broker!Slot(t) \/ Broker!Drop(t)
             \/ \E o \in Outcomes : Broker!Login(t, o)
      PROVE  UNCHANGED posted
  BY <1>3 DEF Broker!Reuse, Broker!Check, Broker!Slot, Broker!TakeSlot, Broker!GiveUpSlot, Broker!Drop,
              Broker!Login
<1>4. ASSUME \/ Broker!CooldownsEnd \/ Broker!SharedCountExpires \/ Broker!SlotExpires \/ Broker!Calm
      PROVE  UNCHANGED posted
  BY <1>4 DEF Broker!CooldownsEnd, Broker!SharedCooldownEnds, Broker!CooldownEnds,
              Broker!SharedCountExpires, Broker!SlotExpires, Broker!Calm
<1>5. ASSUME NEW t \in Threads, Broker!Proceed(t)
      PROVE  /\ BrokerInv'
             /\ \A u \in Threads : call[u].kind = "order" => posted'[u] <= 1
  BY <1>2, <1>3, <1>5, MoveStep, LoginStep, SendStep DEF Broker!Proceed, Outcomes, Answers
<1> QED
  BY <1>1, <1>2, <1>4, <1>5, CallStep, ClockStep DEF Broker!Next

\* The types of the sessions, calls and breakers, for any number of processes and
\* threads (broker_client).
THEOREM BrokerIsTyped ==
  ASSUME Broker!BrokerAssumption
  PROVE  Broker!Spec => []Broker!TypeOK
<1>1. Broker!Init => BrokerInv
  BY BrokerInit
<1>2. BrokerInv /\ [Broker!Next]_(Broker!vars) => BrokerInv'
  BY BrokerStep
<1> QED
  BY <1>1, <1>2, PTL DEF Broker!Spec, BrokerInv

\* However an order's submission ends, its request was sent at most once, for any
\* number of processes, threads and attempts (place_order).
THEOREM OrdersAreSentOnce ==
  ASSUME Broker!BrokerAssumption
  PROVE  Broker!Spec => Broker!OrderSentOnce
<1>1. Broker!Init => BrokerInv
  BY BrokerInit
<1>2. BrokerInv /\ [Broker!Next]_(Broker!vars) => BrokerInv'
  BY BrokerStep
<1>3. BrokerInv /\ [Broker!Next]_(Broker!vars)
        => [\A t \in Threads : call[t].kind = "order" => posted'[t] <= 1]_(Broker!vars)
  BY BrokerStep
<1> QED
  BY <1>1, <1>2, <1>3, PTL DEF Broker!Spec, Broker!OrderSentOnce

-----------------------------------------------------------------------------
(* ReviewLoop: nothing is applied that was not approved *)

(***************************************************************************)
(* granted only grows, and every place an approved note can be copied to   *)
(* holds something granted: the note while its flag is set (a rerun resets *)
(* the flag with the content, a save grants what it commits) and what a    *)
(* command read.                                                           *)
(***************************************************************************)
Texts == Review!Suggested \union {Review!None}
Row == [content : Texts, approved : BOOLEAN]
Request == [pc : {"idle", "loaded"}, screen : Texts, row : Row]
ReviewTypes ==
  /\ note \in Row /\ reviews \in 0 .. MaxReviews
  /\ request \in [Admins -> Request]
  /\ command \in [Appliers -> Contents \union {Review!None}]
  /\ version \in Contents \union {Review!None}
\* What is seen or loaded is what the task drafted: an empty table shows nothing.
DraftsAreSuggested ==
  /\ \A a \in Admins : request[a].screen # Review!None => note.content \in Review!Suggested
  /\ \A a \in Admins : request[a].pc = "loaded" => request[a].row.content \in Review!Suggested
  /\ granted \subseteq Review!Suggested
ApprovedIsGranted ==
  /\ note.approved => note.content \in granted
  /\ \A x \in Appliers : command[x] # Review!None => command[x] \in granted
  /\ version # Review!None => version \in granted
ReviewInv == ReviewTypes /\ DraftsAreSuggested /\ ApprovedIsGranted

LEMMA ReviewInit ==
  ASSUME Review!LoopAssumption, Review!Init
  PROVE  ReviewInv
<1>1. ReviewTypes
  BY DEF Review!LoopAssumption, Review!Init, ReviewTypes, Row, Request, Texts
<1>2. DraftsAreSuggested /\ ApprovedIsGranted
  BY DEF Review!Init, DraftsAreSuggested, ApprovedIsGranted
<1> QED
  BY <1>1, <1>2 DEF ReviewInv

LEMMA ReviewStep ==
  ASSUME Review!LoopAssumption, ReviewInv, [Review!Next]_(Review!vars)
  PROVE  ReviewInv'
<1> USE DEF ReviewInv, ReviewTypes, DraftsAreSuggested, ApprovedIsGranted, Row, Request, Texts
<1>1. CASE Review!RunDailyReview
  BY <1>1 DEF Review!RunDailyReview, Review!LoopAssumption
<1>2. ASSUME NEW a \in Admins, Review!View(a)
      PROVE  ReviewInv'
  BY <1>2 DEF Review!View
<1>3. ASSUME NEW a \in Admins, Review!Load(a)
      PROVE  ReviewInv'
  BY <1>3 DEF Review!Load
<1>4. ASSUME NEW a \in Admins, Review!Save(a)
      PROVE  ReviewInv'
  BY <1>4 DEF Review!Save
<1>5. ASSUME NEW x \in Appliers, Review!ReadApproved(x)
      PROVE  ReviewInv'
  BY <1>5 DEF Review!ReadApproved
<1>6. ASSUME NEW x \in Appliers, Review!CreateVersion(x)
      PROVE  ReviewInv'
  BY <1>6 DEF Review!CreateVersion
<1>7. CASE UNCHANGED Review!vars
  BY <1>7 DEF Review!vars
<1> QED
  BY <1>1, <1>2, <1>3, <1>4, <1>5, <1>6, <1>7 DEF Review!Next

\* In every reachable state of the review what an applier has read, and what every
\* version holds, was approved with that text (learning's views and apply command).
THEOREM ReviewInvariance ==
  ASSUME Review!LoopAssumption
  PROVE  Review!Spec => []ReviewInv
<1>1. Review!Init => ReviewInv
  BY ReviewInit
<1>2. ReviewInv /\ [Review!Next]_(Review!vars) => ReviewInv'
  BY ReviewStep
<1> QED
  BY <1>1, <1>2, PTL DEF Review!Spec

\* The types of the note, the requests and the version.
THEOREM ReviewIsTyped ==
  ASSUME Review!LoopAssumption
  PROVE  Review!Spec => []Review!TypeOK
<1>1. ReviewInv => Review!TypeOK
  BY DEF ReviewInv, ReviewTypes, DraftsAreSuggested, Row, Request, Texts, Review!TypeOK
<1> QED
  BY <1>1, ReviewInvariance, PTL

\* Nothing reaches a StrategyVersion that was not committed as approved before,
\* however many reruns, administrators and commands overlap (apps.learning).
THEOREM AppliedChangesWereApproved ==
  ASSUME Review!LoopAssumption
  PROVE  Review!Spec => []Review!AppliedWasApproved
<1>1. ReviewInv => Review!AppliedWasApproved
  BY DEF ReviewInv, ApprovedIsGranted, Review!AppliedWasApproved
<1> QED
  BY <1>1, ReviewInvariance, PTL

-----------------------------------------------------------------------------
(* ChampionGate: what a list of versions keeps *)

\* A version that was trained; its accuracy and its holdout come from the task.
Version ==
  [holdout : BOOLEAN, accuracy : Accuracies, results : Holdouts \union {<<>>},
   promoted : BOOLEAN, active : BOOLEAN]

\* The gate: new is no worse than old by more than the margin, where both were
\* measured on a holdout.
Beats(new, old) ==
  new.holdout /\ old.holdout => new.accuracy >= old.accuracy - MaxRegression

IsPromoted(s, i) == i \in DOMAIN s /\ s[i].promoted
IsLatest(s, i) == IsPromoted(s, i) /\ \A j \in DOMAIN s : s[j].promoted => j <= i
ActiveIsLatest(s) == \A i \in DOMAIN s : s[i].active => IsLatest(s, i)
LatestIsActive(s) == \A i \in DOMAIN s : IsLatest(s, i) => s[i].active
Adjacent(s, i, j) ==
  i < j /\ \A k \in DOMAIN s : s[k].promoted => ~(i < k /\ k < j)
ChainBeats(s) ==
  \A i, j \in DOMAIN s :
    s[i].promoted /\ s[j].promoted /\ Adjacent(s, i, j) => Beats(s[j], s[i])

\* Removing one element closes the gap.
LEMMA RemoveAtType ==
  ASSUME NEW S, NEW s \in Seq(S), NEW k \in 1 .. Len(s)
  PROVE  /\ Gate!RemoveAt(s, k) \in Seq(S)
         /\ Len(Gate!RemoveAt(s, k)) = Len(s) - 1
         /\ \A i \in 1 .. Len(s) - 1 : Gate!RemoveAt(s, k)[i] = s[IF i < k THEN i ELSE i + 1]
<1> DEFINE a == SubSeq(s, 1, k - 1)
           b == SubSeq(s, k + 1, Len(s))
<1>1. Len(s) \in Nat /\ k \in Int
  BY LenProperties
<1>2. /\ a \in Seq(S) /\ Len(a) = k - 1
      /\ \A i \in 1 .. k - 1 : a[i] = s[i]
  BY <1>1, SubSeqProperties
<1>3. /\ b \in Seq(S) /\ Len(b) = Len(s) - k
      /\ \A i \in 1 .. Len(s) - k : b[i] = s[k + i]
  BY <1>1, SubSeqProperties
<1>4. Gate!RemoveAt(s, k) = a \o b
  BY DEF Gate!RemoveAt
<1> HIDE DEF a, b
<1>5. a \o b \in Seq(S) /\ Len(a \o b) = Len(s) - 1
  <2>1. a \o b \in Seq(S) /\ Len(a \o b) = Len(a) + Len(b)
    BY <1>2, <1>3, ConcatProperties
  <2> QED
    BY <1>1, <1>2, <1>3, <2>1
<1>6. ASSUME NEW i \in 1 .. Len(s) - 1
      PROVE  (a \o b)[i] = s[IF i < k THEN i ELSE i + 1]
  <2>1. CASE i < k
    BY <1>1, <1>2, <1>3, <2>1, ConcatProperties
  <2>2. CASE ~(i < k)
    <3>1. i - Len(a) \in 1 .. Len(s) - k /\ k + (i - Len(a)) = i + 1
      BY <1>1, <1>2, <2>2
    <3>2. (a \o b)[i] = b[i - Len(a)]
      BY <1>1, <1>2, <1>3, <2>2, ConcatProperties
    <3> QED
      BY <1>3, <2>2, <3>1, <3>2
  <2> QED
    BY <2>1, <2>2
<1> QED
  BY <1>4, <1>5, <1>6

Oldest(s) == Gate!Min({i \in DOMAIN s : ~s[i].active})

\* The bound of the model drops a version that is not active and has no
\* promoted one before it but the active one.
LEMMA OldestInactive ==
  ASSUME NEW s \in Seq(Version), ActiveIsLatest(s), Len(s) >= 2
  PROVE  /\ Oldest(s) \in 1 .. Len(s) /\ ~s[Oldest(s)].active
         /\ \A i \in 1 .. Len(s) : i < Oldest(s) => s[i].active
<1> DEFINE F == {i \in DOMAIN s : ~s[i].active}
<1>1. DOMAIN s = 1 .. Len(s) /\ Len(s) \in Nat
  BY LenProperties
<1>2. 1 \in F \/ 2 \in F
  BY <1>1 DEF ActiveIsLatest, IsLatest, IsPromoted
<1>3. \E k \in F : \A y \in F : k <= y
  BY <1>1, <1>2
<1>4. Oldest(s) \in F /\ \A y \in F : Oldest(s) <= y
  BY <1>3 DEF Gate!Min, Oldest
<1> QED
  BY <1>1, <1>4

\* Forgetting it breaks no property of the list.
LEMMA RecentKeeps ==
  ASSUME MaxRows \in Nat \ {0}, NEW s \in Seq(Version), Len(s) <= MaxRows + 1, ActiveIsLatest(s)
  PROVE  /\ Gate!Recent(s) \in Seq(Version) /\ Len(Gate!Recent(s)) <= MaxRows
         /\ ActiveIsLatest(Gate!Recent(s))
         /\ LatestIsActive(s) => LatestIsActive(Gate!Recent(s))
         /\ LatestIsActive(s) /\ ChainBeats(s) => ChainBeats(Gate!Recent(s))
<1>1. DOMAIN s = 1 .. Len(s) /\ Len(s) \in Nat
  BY LenProperties
<1>2. CASE Len(s) <= MaxRows
  BY <1>2 DEF Gate!Recent
<1>3. CASE Len(s) > MaxRows
  <2> DEFINE k == Oldest(s)
             r == Gate!RemoveAt(s, k)
             At(i) == IF i < k THEN i ELSE i + 1
  <2>1. Gate!Recent(s) = r
    BY <1>1, <1>3 DEF Gate!Recent, Oldest
  <2>2. k \in 1 .. Len(s) /\ ~s[k].active /\ \A i \in 1 .. Len(s) : i < k => s[i].active
    BY <1>1, <1>3, OldestInactive
  <2> HIDE DEF k
  <2>3. /\ r \in Seq(Version) /\ Len(r) = Len(s) - 1
        /\ \A i \in 1 .. Len(s) - 1 : r[i] = s[At(i)]
    BY <2>2, RemoveAtType
  <2> HIDE DEF r
  <2>4. DOMAIN r = 1 .. Len(s) - 1
    BY <2>3, LenProperties
  <2>5. /\ \A i \in DOMAIN r : At(i) \in DOMAIN s /\ r[i] = s[At(i)] /\ At(i) # k /\ i \in Int
        /\ \A i, j \in DOMAIN r : At(i) <= At(j) <=> i <= j
        /\ \A i, j \in DOMAIN r : At(i) < At(j) <=> i < j
        /\ \A m \in DOMAIN s : m # k => \E i \in DOMAIN r : At(i) = m
    <3>1. \A i \in DOMAIN r : At(i) \in DOMAIN s /\ r[i] = s[At(i)] /\ At(i) # k /\ i \in Int
      BY <1>1, <2>2, <2>3, <2>4
    <3>2. /\ \A i, j \in DOMAIN r : At(i) <= At(j) <=> i <= j
          /\ \A i, j \in DOMAIN r : At(i) < At(j) <=> i < j
      BY <1>1, <2>2, <2>4
    <3>3. ASSUME NEW m \in DOMAIN s, m # k
          PROVE  \E i \in DOMAIN r : At(i) = m
      <4>1. CASE m < k
        BY <1>1, <2>2, <2>4, <4>1
      <4>2. CASE m > k
        <5>1. m - 1 \in DOMAIN r /\ At(m - 1) = m
          BY <1>1, <2>2, <2>4, <4>2
        <5> QED
          BY <5>1
      <4> QED
        BY <1>1, <2>2, <3>3, <4>1, <4>2
    <3> QED
      BY <3>1, <3>2, <3>3
  <2>6. \A i \in DOMAIN r : At(i) < k => s[At(i)].active
    BY <1>1, <2>2, <2>5
  <2>7. \A i \in DOMAIN r : At(i) \in Int /\ At(i) # k /\ k \in Int
    BY <1>1, <2>2, <2>5
  <2> HIDE DEF At
  <2>8. ActiveIsLatest(r)
    BY <2>5 DEF ActiveIsLatest, IsLatest, IsPromoted
  <2>9. ASSUME LatestIsActive(s), NEW i \in DOMAIN r, IsLatest(r, i)
        PROVE  r[i].active
    <3>1. CASE At(i) < k
      BY <2>5, <2>6, <3>1
    <3>2. CASE k < At(i)
      <4>1. ASSUME NEW m \in DOMAIN s, s[m].promoted
            PROVE  m <= At(i)
        <5>1. CASE m = k
          BY <2>7, <3>2, <5>1
        <5>2. CASE m # k
          <6>1. PICK j \in DOMAIN r : At(j) = m
            BY <2>5, <5>2
          <6> QED
            BY <2>5, <2>9, <4>1, <6>1 DEF IsLatest
        <5> QED
          BY <5>1, <5>2
      <4>2. IsLatest(s, At(i))
        BY <2>5, <2>9, <4>1 DEF IsLatest, IsPromoted
      <4> QED
        BY <2>5, <2>9, <4>2 DEF LatestIsActive
    <3> QED
      BY <2>7, <3>1, <3>2
  <2>10. ASSUME LatestIsActive(s), ChainBeats(s),
                NEW i \in DOMAIN r, NEW j \in DOMAIN r, r[i].promoted, r[j].promoted, Adjacent(r, i, j)
         PROVE  Beats(r[j], r[i])
    <3>1. At(i) < At(j)
      BY <2>5, <2>10 DEF Adjacent
    <3>2. ASSUME NEW m \in DOMAIN s, s[m].promoted, At(i) < m, m < At(j)
          PROVE  FALSE
      <4>1. CASE m = k
        <5>1. IsLatest(s, At(i))
          BY <2>5, <2>6, <3>2, <4>1 DEF ActiveIsLatest
        <5>2. m <= At(i)
          BY <3>2, <5>1 DEF IsLatest
        <5> QED
          BY <1>1, <2>7, <3>2, <5>2
      <4>2. CASE m # k
        <5>1. PICK l \in DOMAIN r : At(l) = m
          BY <2>5, <4>2
        <5> QED
          BY <2>5, <2>10, <3>2, <5>1 DEF Adjacent
      <4> QED
        BY <4>1, <4>2
    <3>3. Adjacent(s, At(i), At(j))
      BY <3>1, <3>2 DEF Adjacent
    <3> QED
      BY <2>5, <2>10, <3>3 DEF ChainBeats
  <2> QED
    BY <1>1, <1>3, <2>1, <2>3, <2>8, <2>9, <2>10 DEF LatestIsActive, ChainBeats
<1> QED
  BY <1>1, <1>2, <1>3

-----------------------------------------------------------------------------
(* ChampionGate: one champion, and successors that pass *)

(***************************************************************************)
(* The registry and the version the task holds between its two commits.    *)
(* An active version is the latest promoted one, and none is active while  *)
(* the task is about to register its successor: this keeps the champion    *)
(* unique.  Unless the task is killed between the two commits, the latest  *)
(* promoted version is the champion the gate compared with, until its      *)
(* successor is registered; and then every version beats the promoted one  *)
(* before it.                                                              *)
(***************************************************************************)
Held == trainer[Task].row
Working == trainer[Task].pc # "idle"
Registers == trainer[Task].pc = "register"

GateTypes ==
  /\ trades \in 0 .. MaxTrades /\ deaths \in 0 .. Deaths
  /\ registry \in Seq(Version) /\ Len(registry) <= MaxRows
  /\ trainer \in [{Task} -> [pc : {"idle", "promote", "register"}, row : Version \union {Gate!NoRow}]]
  /\ Working => Held \in Version
OneLeads ==
  /\ ActiveIsLatest(registry)
  /\ Working => (Held.active <=> Held.promoted)
  /\ trainer[Task].pc = "promote" => Held.active
  /\ Registers /\ Held.active => \A i \in DOMAIN registry : ~registry[i].active
GateInv == GateTypes /\ OneLeads

Succession ==
  /\ LatestIsActive(registry) \/ (Registers /\ Held.active)
  /\ Working /\ Held.active =>
       \A i \in DOMAIN registry : IsLatest(registry, i) => Beats(Held, registry[i])
  /\ ChainBeats(registry)

LEMMA GateInit ==
  ASSUME Gate!GateAssumption, Gate!Init
  PROVE  GateInv /\ Succession
<1>1. registry = <<>> /\ DOMAIN registry = {} /\ Len(registry) = 0 /\ registry \in Seq(Version)
  BY DEF Gate!Init
<1>2. trainer[Task] = Gate!Idle
  BY DEF Gate!Init
<1>3. GateTypes
  BY <1>1, <1>2 DEF Gate!Init, Gate!GateAssumption, GateTypes, Gate!Idle, Working
<1>4. ~Working /\ ~Registers /\ trainer[Task].pc = "idle"
  BY <1>2 DEF Working, Registers, Gate!Idle
<1>5. OneLeads
  BY <1>1, <1>4 DEF OneLeads, ActiveIsLatest
<1>6. Succession
  <2>1. LatestIsActive(registry) /\ ChainBeats(registry)
    BY <1>1 DEF LatestIsActive, ChainBeats
  <2> QED
    BY <1>4, <2>1, Zenon DEF Succession
<1> QED
  BY <1>3, <1>5, <1>6 DEF GateInv

\* A step of the task is a step of its record.
LEMMA TrainerIs ==
  ASSUME GateTypes, NEW new, trainer' = [trainer EXCEPT ![Task] = new],
         new \in [pc : {"idle", "promote", "register"}, row : Version \union {Gate!NoRow}]
  PROVE  /\ trainer'[Task] = new
         /\ trainer' \in [{Task} -> [pc : {"idle", "promote", "register"}, row : Version \union {Gate!NoRow}]]
BY DEF GateTypes

\* The challenger that wins is active and beats the champion, which is the latest
\* promoted version.
LEMMA TrainStep ==
  ASSUME Gate!GateAssumption, GateInv, Gate!Train(Task)
  PROVE  GateInv' /\ (Succession => Succession')
<1>1. PICK a \in Accuracies, rs \in Holdouts, covered \in BOOLEAN :
        LET new == [Gate!NoRow EXCEPT !.holdout = PolicyGates \/ trades >= MinHoldout,
                                      !.accuracy = a, !.results = rs]
            wins == Gate!Promotes(new, covered)
        IN  trainer' = [trainer EXCEPT ![Task] = [pc |-> IF wins THEN "promote" ELSE "register",
                                                  row |-> [new EXCEPT !.promoted = wins, !.active = wins]]]
  BY DEF Gate!Train
<1> DEFINE new == [Gate!NoRow EXCEPT !.holdout = PolicyGates \/ trades >= MinHoldout,
                                     !.accuracy = a, !.results = rs]
           wins == Gate!Promotes(new, covered)
           held == [new EXCEPT !.promoted = wins, !.active = wins]
           next == [pc |-> IF wins THEN "promote" ELSE "register", row |-> held]
<1>2. trainer' = [trainer EXCEPT ![Task] = next]
  BY <1>1
<1>3. wins \in BOOLEAN
  BY DEF Gate!Promotes, Gate!ShouldPromote
<1>4. /\ held \in Version
      /\ held.promoted = wins /\ held.active = wins
      /\ held.holdout = new.holdout /\ held.accuracy = new.accuracy
  BY <1>3 DEF Gate!NoRow, Version, Gate!GateAssumption, GateInv, GateTypes
<1>5. wins => Gate!ShouldPromote(new)
  BY DEF Gate!Promotes
<1> HIDE DEF new, wins, held
<1>6. trainer'[Task] = next /\ GateTypes'
  BY <1>2, <1>4, TrainerIs DEF Gate!Train, GateInv, GateTypes, Working, Held
<1>7. UNCHANGED registry /\ trainer[Task].pc = "idle"
  BY DEF Gate!Train
<1>8. Held' = held /\ (Registers' <=> ~wins) /\ Working' /\ (trainer'[Task].pc = "promote" <=> wins)
  BY <1>3, <1>6 DEF Held, Registers, Working
<1>9. OneLeads'
  BY <1>4, <1>7, <1>8 DEF GateInv, OneLeads
<1>10. ASSUME LatestIsActive(registry), wins, NEW i \in DOMAIN registry, IsLatest(registry, i)
       PROVE  Beats(held, registry[i])
  <2>1. Gate!Active = {i}
    BY <1>10 DEF GateInv, OneLeads, ActiveIsLatest, LatestIsActive, IsLatest, IsPromoted, Gate!Active,
                 GateTypes
  <2>2. Gate!Champion = i
    <3>1. i \in Int
      BY DEF GateInv, GateTypes
    <3> QED
      BY <2>1, <3>1 DEF Gate!Champion, Gate!Max
  <2> QED
    BY <1>4, <1>5, <1>10, <2>1, <2>2 DEF Gate!ShouldPromote, Beats
<1>11. ASSUME Succession
       PROVE  Succession'
  <2>1. LatestIsActive(registry) /\ ChainBeats(registry)
    BY <1>7, <1>11 DEF Succession, Registers
  <2>2. Held'.active => wins
    BY <1>4, <1>8
  <2>3. ASSUME Held'.active, NEW i \in DOMAIN registry, IsLatest(registry, i)
        PROVE  Beats(held, registry[i])
    BY <1>10, <2>1, <2>2, <2>3
  <2> QED
    BY <1>7, <1>8, <2>1, <2>3, Zenon DEF Succession
<1> QED
  BY <1>6, <1>9, <1>11 DEF GateInv

LEMMA RetireStep ==
  ASSUME Gate!GateAssumption, GateInv, Gate!Retire(Task)
  PROVE  GateInv' /\ (Succession => Succession')
<1>1. /\ registry' = Gate!Retired /\ UNCHANGED <<trades, deaths>>
      /\ trainer[Task].pc = "promote"
  BY DEF Gate!Retire
<1>2. registry' \in Seq(Version) /\ Len(registry') = Len(registry) /\ DOMAIN registry' = DOMAIN registry
  <2>1. \A i \in DOMAIN registry : registry[i] \in Version
    BY DEF GateInv, GateTypes
  <2>2. \A v \in Version : [v EXCEPT !.active = FALSE] \in Version
    BY DEF Version
  <2> QED
    <3>1. registry \in Seq(Version) /\ DOMAIN registry = 1 .. Len(registry) /\ Len(registry) \in Nat
      BY DEF GateInv, GateTypes
    <3>2. registry' \in [1 .. Len(registry) -> Version]
      BY <1>1, <2>1, <2>2, <3>1 DEF Gate!Retired
    <3> QED
      BY <3>1, <3>2
<1>3. \A i \in DOMAIN registry :
        /\ ~registry'[i].active /\ registry'[i].promoted = registry[i].promoted
        /\ registry'[i].holdout = registry[i].holdout /\ registry'[i].accuracy = registry[i].accuracy
  <2>1. \A i \in DOMAIN registry : registry[i] \in Version
    BY DEF GateInv, GateTypes
  <2> QED
    BY <1>1, <2>1 DEF Gate!Retired, Version
<1>4. trainer'[Task].pc = "register" /\ Held' = Held
  BY DEF Gate!Retire, Held, GateInv, GateTypes
<1>5. trainer' \in [{Task} -> [pc : {"idle", "promote", "register"}, row : Version \union {Gate!NoRow}]]
  BY DEF Gate!Retire, GateInv, GateTypes
<1>6. Held \in Version /\ Held.active
  BY <1>1 DEF GateInv, GateTypes, OneLeads, Working
<1>7. GateTypes'
  BY <1>1, <1>2, <1>4, <1>5, <1>6 DEF GateInv, GateTypes
<1>8. OneLeads'
  BY <1>1, <1>2, <1>3, <1>4, <1>6 DEF GateInv, OneLeads, ActiveIsLatest, Working, Registers
<1>9. \A i \in DOMAIN registry : IsLatest(registry', i) <=> IsLatest(registry, i)
  BY <1>2, <1>3 DEF IsLatest, IsPromoted
<1>10. ASSUME Succession
       PROVE  Succession'
  <2>1. Registers' /\ Held'.active
    BY <1>4, <1>6 DEF Registers
  <2>2. ASSUME NEW i \in DOMAIN registry', IsLatest(registry', i)
        PROVE  Beats(Held', registry'[i])
    BY <1>1, <1>2, <1>3, <1>4, <1>6, <1>9, <1>10, <2>2 DEF Succession, Beats, Working
  <2>3. ChainBeats(registry')
    BY <1>2, <1>3, <1>10 DEF Succession, ChainBeats, Adjacent, Beats
  <2> QED
    BY <2>1, <2>2, <2>3 DEF Succession
<1> QED
  BY <1>7, <1>8, <1>10 DEF GateInv

\* What the held version adds to the list: the latest, if it was promoted.
LEMMA AppendKeeps ==
  ASSUME GateInv, Registers
  PROVE  LET s == Append(registry, Held)
         IN  /\ s \in Seq(Version) /\ Len(s) = Len(registry) + 1
             /\ ActiveIsLatest(s)
             /\ Succession => LatestIsActive(s) /\ ChainBeats(s)
<1> DEFINE s == Append(registry, Held)
           n == Len(registry) + 1
<1>1. Held \in Version /\ registry \in Seq(Version) /\ (Held.active <=> Held.promoted)
  BY DEF GateInv, GateTypes, OneLeads, Working, Registers
<1>2. /\ s \in Seq(Version) /\ Len(s) = n /\ DOMAIN s = 1 .. n /\ n \in Int
      /\ s[n] = Held /\ \A i \in 1 .. n - 1 : s[i] = registry[i]
      /\ DOMAIN registry = 1 .. n - 1
  BY <1>1
<1> HIDE DEF s
<1>3. ActiveIsLatest(s)
  <2>1. CASE Held.active
    BY <1>1, <1>2, <2>1 DEF GateInv, OneLeads, ActiveIsLatest, IsLatest, IsPromoted
  <2>2. CASE ~Held.active
    <3>1. ASSUME NEW i \in DOMAIN s, s[i].active
          PROVE  IsLatest(s, i)
      <4>1. i \in DOMAIN registry /\ registry[i].active
        BY <1>2, <2>2, <3>1
      <4>2. IsLatest(registry, i)
        BY <4>1 DEF GateInv, OneLeads, ActiveIsLatest
      <4> QED
        BY <1>1, <1>2, <2>2, <4>1, <4>2 DEF IsLatest, IsPromoted
    <3> QED
      BY <3>1 DEF ActiveIsLatest
  <2> QED
    BY <2>1, <2>2
<1>4. ASSUME Succession
      PROVE  LatestIsActive(s)
  <2>1. ASSUME NEW i \in DOMAIN s, IsLatest(s, i)
        PROVE  s[i].active
    <3>1. CASE i = n
      BY <1>1, <1>2, <2>1, <3>1 DEF IsLatest, IsPromoted
    <3>2. CASE i # n
      <4>1. i \in DOMAIN registry /\ s[i] = registry[i] /\ ~(n <= i)
        BY <1>2, <3>2
      <4>2. ~Held.promoted
        BY <1>2, <2>1, <4>1 DEF IsLatest
      <4>3. IsLatest(registry, i)
        BY <1>2, <2>1, <4>1 DEF IsLatest, IsPromoted
      <4> QED
        BY <1>1, <1>4, <4>1, <4>2, <4>3 DEF Succession, LatestIsActive
    <3> QED
      BY <3>1, <3>2
  <2> QED
    BY <2>1 DEF LatestIsActive
<1>5. ASSUME Succession
      PROVE  ChainBeats(s)
  <2>1. ASSUME NEW i \in DOMAIN s, NEW j \in DOMAIN s, s[i].promoted, s[j].promoted, Adjacent(s, i, j)
        PROVE  Beats(s[j], s[i])
    <3>1. i \in DOMAIN registry /\ s[i] = registry[i] /\ i \in Int /\ j \in Int /\ i < j
      BY <1>2, <2>1 DEF Adjacent
    <3>2. CASE j = n
      <4>1. IsLatest(registry, i)
        BY <1>2, <2>1, <3>1, <3>2 DEF IsLatest, IsPromoted, Adjacent
      <4> QED
        BY <1>1, <1>2, <1>5, <2>1, <3>1, <3>2, <4>1 DEF Succession, Working, Registers
    <3>3. CASE j # n
      <4>1. j \in DOMAIN registry /\ s[j] = registry[j]
        BY <1>2, <3>3
      <4>2. Adjacent(registry, i, j)
        BY <1>2, <2>1 DEF Adjacent
      <4> QED
        BY <1>5, <2>1, <3>1, <4>1, <4>2 DEF Succession, ChainBeats
    <3> QED
      BY <3>2, <3>3
  <2> QED
    BY <2>1 DEF ChainBeats
<1> QED
  BY <1>2, <1>3, <1>4, <1>5 DEF s

LEMMA RegisterStep ==
  ASSUME Gate!GateAssumption, GateInv, Gate!Register(Task)
  PROVE  GateInv' /\ (Succession => Succession')
<1> DEFINE s == Append(registry, Held)
<1>1. /\ Registers /\ registry' = Gate!Recent(s) /\ UNCHANGED <<trades, deaths>>
      /\ trainer' = [trainer EXCEPT ![Task] = Gate!Idle]
  BY DEF Gate!Register, Registers, Held
<1>2. /\ s \in Seq(Version) /\ Len(s) = Len(registry) + 1 /\ ActiveIsLatest(s)
      /\ Succession => LatestIsActive(s) /\ ChainBeats(s)
  BY <1>1, AppendKeeps
<1>3. MaxRows \in Nat \ {0} /\ Len(registry) <= MaxRows /\ Len(registry) \in Nat
  BY DEF Gate!GateAssumption, GateInv, GateTypes
<1> HIDE DEF s
<1>4. Len(s) <= MaxRows + 1
  BY <1>2, <1>3
<1>5. /\ registry' \in Seq(Version) /\ Len(registry') <= MaxRows /\ ActiveIsLatest(registry')
      /\ Succession => LatestIsActive(registry') /\ ChainBeats(registry')
  BY <1>1, <1>2, <1>3, <1>4, RecentKeeps
<1>6. trainer'[Task] = Gate!Idle /\ GateTypes'
  BY <1>1, <1>5, TrainerIs DEF GateInv, GateTypes, Gate!Idle, Working
<1>7. ~Working' /\ ~Registers' /\ trainer'[Task].pc = "idle"
  BY <1>6 DEF Gate!Idle, Working, Registers
<1>8. OneLeads'
  BY <1>5, <1>7 DEF OneLeads
<1>9. ASSUME Succession
      PROVE  Succession'
  <2>1. LatestIsActive(registry') /\ ChainBeats(registry')
    BY <1>5, <1>9
  <2>2. ~Working'
    BY <1>7
  <2> QED
    BY <2>1, <2>2, Zenon DEF Succession
<1> QED
  BY <1>6, <1>8, <1>9 DEF GateInv

\* A killed task loses what it held; the registry stays as its commits left it.
LEMMA DieStep ==
  ASSUME Gate!GateAssumption, GateInv, Gate!Die(Task)
  PROVE  GateInv' /\ Deaths # 0
<1>1. /\ UNCHANGED <<trades, registry>> /\ deaths < Deaths /\ deaths' = deaths + 1
      /\ trainer' = [trainer EXCEPT ![Task] = Gate!Idle]
  BY DEF Gate!Die
<1>2. deaths \in 0 .. Deaths /\ Deaths \in Nat
  BY DEF GateInv, GateTypes, Gate!GateAssumption
<1>3. trainer'[Task] = Gate!Idle /\ GateTypes'
  BY <1>1, <1>2, TrainerIs DEF GateInv, GateTypes, Gate!Idle, Working
<1>4. OneLeads'
  BY <1>1, <1>3 DEF GateInv, OneLeads, Gate!Idle, Working, Registers
<1> QED
  BY <1>1, <1>2, <1>3, <1>4 DEF GateInv

LEMMA GateStep ==
  ASSUME Gate!GateAssumption, GateInv, [Gate!Next]_(Gate!vars)
  PROVE  GateInv' /\ (Deaths = 0 /\ Succession => Succession')
<1>1. CASE Gate!TradeCloses
  <2>1. UNCHANGED <<registry, trainer, deaths>> /\ trades' \in 0 .. MaxTrades
    BY <1>1 DEF Gate!TradeCloses, GateInv, GateTypes, Gate!GateAssumption
  <2> QED
    BY <2>1 DEF GateInv, GateTypes, OneLeads, Succession, Working, Registers, Held
<1>2. CASE UNCHANGED Gate!vars
  BY <1>2 DEF Gate!vars, GateInv, GateTypes, OneLeads, Succession, Working, Registers, Held
<1>3. ~Gate!Activate
  BY DEF Gate!Activate
<1> QED
  BY <1>1, <1>2, <1>3, TrainStep, RetireStep, RegisterStep, DieStep DEF Gate!Next

\* In every reachable state of the training at most one version is active, and none
\* while the task is about to register a successor (ml_train.py's two commits).
THEOREM GateInvariance ==
  ASSUME Gate!GateAssumption
  PROVE  Gate!Spec => []GateInv
<1>1. Gate!Init => GateInv
  BY GateInit
<1>2. GateInv /\ [Gate!Next]_(Gate!vars) => GateInv'
  BY GateStep
<1> QED
  BY <1>1, <1>2, PTL DEF Gate!Spec

\* Two versions are never active together, however often the task runs and wherever
\* it is killed: every reader that asks for the active model gets the same one.
THEOREM ChampionIsUnique ==
  ASSUME Gate!GateAssumption
  PROVE  Gate!Spec => []Gate!OneChampion
<1>1. ASSUME GateInv
      PROVE  Gate!OneChampion
  <2>1. \A i, j \in Gate!Active : i = j
    BY <1>1 DEF GateInv, GateTypes, OneLeads, ActiveIsLatest, IsLatest, IsPromoted, Gate!Active
  <2>2. Gate!Cardinality(Gate!Active) = Cardinality(Gate!Active)
    BY DEF Gate!Cardinality, Cardinality
  <2>3. Cardinality(Gate!Active) <= 1
    <3>1. CASE Gate!Active = {}
      BY <3>1, FS_EmptySet
    <3>2. ASSUME NEW i \in Gate!Active
          PROVE  Cardinality(Gate!Active) <= 1
      <4>1. Gate!Active = {i}
        BY <2>1
      <4>2. Cardinality({i}) = 1
        BY FS_Singleton
      <4> QED
        BY <4>1, <4>2
    <3> QED
      BY <3>1, <3>2
  <2> QED
    BY <2>2, <2>3 DEF Gate!OneChampion
<1> QED
  BY <1>1, GateInvariance, PTL

\* A set of numbers below a bound has a greatest one.
LEMMA GreatestExists ==
  ASSUME NEW n \in Nat, NEW S \in SUBSET (1 .. n), S # {}
  PROVE  Gate!Max(S) \in S /\ \A y \in S : y <= Gate!Max(S)
<1> DEFINE T == {n - x : x \in S}
<1>1. T \subseteq Nat /\ T # {}
  <2>1. \A x \in S : x \in Int /\ n - x \in Nat
    OBVIOUS
  <2> QED
    BY <2>1
<1>2. PICK m \in T : \A y \in T : ~(<<y, m>> \in OpToRel(<, Nat))
  BY <1>1, NatLessThanWellFounded, WFMin
<1>3. \A y \in T : ~(y < m)
  BY <1>1, <1>2 DEF OpToRel
<1>4. PICK g \in S : m = n - g
  OBVIOUS
<1>5. \A y \in S : y <= g
  <2>1. ASSUME NEW y \in S
        PROVE  y <= g
    <3>1. n - y \in T
      OBVIOUS
    <3>2. ~(n - y < n - g)
      BY <1>3, <1>4, <3>1
    <3> QED
      BY <3>2
  <2> QED
    BY <2>1
<1> QED
  BY <1>5 DEF Gate!Max

\* A version that follows a champion was measured not to be worse than it by more
\* than the margin, whatever was registered in between, as long as the task is not
\* killed between its two commits (_should_promote).
THEOREM SuccessorsPass ==
  ASSUME Gate!GateAssumption, Deaths = 0
  PROVE  Gate!Spec => []Gate!SuccessorPassesTheGate
<1>1. Gate!Init => GateInv /\ Succession
  BY GateInit
<1>2. GateInv /\ Succession /\ [Gate!Next]_(Gate!vars) => (GateInv /\ Succession)'
  BY GateStep
<1>3. ASSUME GateInv, Succession
      PROVE  Gate!SuccessorPassesTheGate
  <2>1. SUFFICES ASSUME NEW j \in Gate!Promoted, Gate!Follows(j), registry[j].holdout,
                        registry[Gate!Predecessor(j)].holdout
                 PROVE  registry[j].accuracy >= registry[Gate!Predecessor(j)].accuracy - MaxRegression
    BY DEF Gate!SuccessorPassesTheGate
  <2> DEFINE S == {i \in Gate!Promoted : i < j}
             p == Gate!Predecessor(j)
  <2>2. Len(registry) \in Nat /\ DOMAIN registry = 1 .. Len(registry)
    BY <1>3 DEF GateInv, GateTypes
  <2>3. S \in SUBSET (1 .. Len(registry)) /\ S # {}
    BY <2>1, <2>2 DEF Gate!Promoted, Gate!Follows
  <2>4. p \in S /\ \A y \in S : y <= p
    BY <2>2, <2>3, GreatestExists DEF Gate!Predecessor
  <2> HIDE DEF p
  <2>5. Adjacent(registry, p, j)
    BY <2>2, <2>4 DEF Adjacent, Gate!Promoted
  <2>6. Beats(registry[j], registry[p])
    BY <1>3, <2>4, <2>5 DEF Succession, ChainBeats, Gate!Promoted
  <2> QED
    BY <2>1, <2>6 DEF Beats, p
<1> QED
  BY <1>1, <1>2, <1>3, PTL DEF Gate!Spec

-----------------------------------------------------------------------------
(* FeedSubscription: the belief about the stream *)

(***************************************************************************)
(* The connection thread resets the belief when it dials; a refresh round  *)
(* replaces it before it calls the broker.  While nothing went wrong since *)
(* the dial, a socket that is dialed streams nothing and no round runs     *)
(* yet, and one that is served streams the belief up to what the round in  *)
(* progress has still to add and to drop.                                  *)
(***************************************************************************)
States == {"none", "dialing", "open", "closed"}
Rounds ==
  [pc : {"idle", "compute", "diff", "add", "drop"}, s : Feed!Sockets,
   new : SUBSET Tokens, added : SUBSET Tokens, removed : SUBSET Tokens]
Connections ==
  [pc : {"loop", "backoff", "dial", "subscribe", "serve"}, s : Feed!Sockets, want : SUBSET Tokens]
FeedTypes ==
  /\ desired \in SUBSET Tokens /\ tokens \in SUBSET Tokens
  /\ ready \in BOOLEAN /\ mishap \in BOOLEAN
  /\ socket \in [Feed!Sockets -> States] /\ streamed \in [Feed!Sockets -> SUBSET Tokens]
  /\ thread \in Connections /\ refresh \in Rounds
Connected == thread.pc \in {"dial", "subscribe", "serve"}
FailuresFit == failures \in 0 .. 3 /\ (Connected => failures <= 2)
OneActive ==
  /\ active \subseteq {thread.s}
  /\ thread.pc \in {"loop", "backoff", "dial"} => active = {}
  /\ ready => thread.pc = "serve"
  /\ \A s \in Feed!Sockets : socket[s] = "none" => streamed[s] = {}
RoundIsDue ==
  CASE refresh.pc = "add"  -> (streamed[refresh.s] \union refresh.added) \ refresh.removed = tokens
    [] refresh.pc = "drop" -> streamed[refresh.s] \ refresh.removed = tokens
    [] OTHER               -> streamed[thread.s] = tokens
BeliefFollows ==
  ~mishap =>
    /\ thread.pc \in {"dial", "subscribe"} =>
         refresh.pc = "idle" /\ tokens = thread.want /\ streamed[thread.s] = {}
    /\ thread.pc = "serve" => RoundIsDue /\ (refresh.pc # "idle" => refresh.s = thread.s)
FeedInv == FeedTypes /\ FailuresFit /\ OneActive /\ BeliefFollows

\* A refresh thread that waits.
LEMMA RestingType ==
  ASSUME Feed!FeedAssumption
  PROVE  0 \in Feed!Sockets /\ Feed!Resting \in Rounds /\ Feed!Resting.pc = "idle"
<1>1. 0 \in Feed!Sockets
  BY DEF Feed!FeedAssumption, Feed!Sockets
<1> QED
  BY <1>1 DEF Feed!Resting, Rounds

LEMMA FeedInit ==
  ASSUME Feed!FeedAssumption, Feed!Init
  PROVE  FeedInv
<1>1. 0 \in Feed!Sockets
  BY RestingType
<1>2. FeedTypes
  <2>1. socket \in [Feed!Sockets -> States] /\ streamed \in [Feed!Sockets -> SUBSET Tokens]
    BY DEF Feed!Init, States
  <2>2. thread \in Connections /\ refresh \in Rounds
    BY <1>1 DEF Feed!Init, Feed!Resting, Connections, Rounds
  <2> QED
    BY <2>1, <2>2 DEF Feed!Init, FeedTypes
<1>3. FailuresFit /\ OneActive /\ BeliefFollows
  BY DEF Feed!Init, FailuresFit, Connected, OneActive, BeliefFollows
<1> QED
  BY <1>2, <1>3 DEF FeedInv

\* The connection thread.
LEMMA DialStep ==
  ASSUME FeedInv, NEW s \in Feed!Sockets, Feed!Dial(s)
  PROVE  FeedInv'
<1> USE DEF FeedInv
<1>1. /\ thread.pc = "loop" /\ socket[s] = "none"
      /\ UNCHANGED <<desired, streamed, active, ready, refresh>>
  BY DEF Feed!Dial, Feed!Unborn
<1>2. CASE /\ tokens' = desired
           /\ socket' = [socket EXCEPT ![s] = "dialing"]
           /\ thread' = [pc |-> "dial", s |-> s, want |-> desired]
           /\ failures' = IF failures >= 3 THEN 0 ELSE failures
           /\ mishap' = (refresh.pc # "idle")
  <2>1. FeedTypes'
    BY <1>1, <1>2 DEF FeedTypes, Connections, States
  <2>2. FailuresFit'
    BY <1>2 DEF FailuresFit
  <2>3. OneActive'
    BY <1>1, <1>2 DEF OneActive, FeedTypes
  <2>4. BeliefFollows'
    BY <1>1, <1>2 DEF BeliefFollows, OneActive
  <2> QED
    BY <2>1, <2>2, <2>3, <2>4
<1>3. CASE /\ failures' = IF failures >= 3 THEN 1 ELSE failures + 1
           /\ thread' = [thread EXCEPT !.pc = "backoff"]
           /\ UNCHANGED <<tokens, socket, mishap>>
  <2>1. FeedTypes'
    BY <1>1, <1>3 DEF FeedTypes, Connections
  <2>2. FailuresFit'
    BY <1>3 DEF FailuresFit, Connected, FeedTypes, Connections
  <2>3. OneActive' /\ BeliefFollows'
    BY <1>1, <1>3 DEF OneActive, BeliefFollows, FeedTypes, Connections
  <2> QED
    BY <2>1, <2>2, <2>3
<1> QED
  BY <1>2, <1>3 DEF Feed!Dial

LEMMA SubscribeStep ==
  ASSUME FeedInv, NEW fails \in BOOLEAN, Feed!Subscribe(fails)
  PROVE  FeedInv'
<1> USE DEF FeedInv
<1>1. /\ thread.pc = "subscribe" /\ thread' = [thread EXCEPT !.pc = "serve"] /\ ready' = TRUE
      /\ UNCHANGED <<desired, tokens, socket, active, failures, refresh>>
  BY DEF Feed!Subscribe
<1>2. thread'.pc = "serve" /\ thread'.s = thread.s /\ thread' \in Connections
  BY <1>1 DEF FeedTypes, Connections
<1>3. \/ mishap' = TRUE /\ UNCHANGED streamed
      \/ streamed' = [streamed EXCEPT ![thread.s] = thread.want] /\ UNCHANGED mishap
             /\ socket[thread.s] = "open"
  BY DEF Feed!Subscribe, Feed!Call
<1>4. FeedTypes'
  BY <1>1, <1>2, <1>3 DEF FeedTypes, Connections
<1>5. FailuresFit' /\ OneActive'
  BY <1>1, <1>2, <1>3 DEF FailuresFit, Connected, OneActive, FeedTypes, Connections
<1>6. BeliefFollows'
  BY <1>1, <1>2, <1>3 DEF BeliefFollows, RoundIsDue, FeedTypes, Connections
<1> QED
  BY <1>4, <1>5, <1>6

\* The other steps of the connection, the watchdog and the surroundings change no
\* belief and no stream.
LEMMA SocketStep ==
  ASSUME FeedInv,
         \/ Feed!Backoff \/ Feed!Returned \/ Feed!Opened \/ Feed!Watchdog \/ Feed!Lose
         \/ Feed!Move \/ Feed!OpenOrClose \/ UNCHANGED Feed!vars
  PROVE  FeedInv'
<1> USE DEF FeedInv
<1>1. CASE Feed!Backoff
  BY <1>1 DEF Feed!Backoff, FeedTypes, Connections, FailuresFit, Connected, OneActive, BeliefFollows
<1>2. CASE Feed!Returned
  <2>1. FeedTypes'
    BY <1>2 DEF Feed!Returned, FeedTypes, Connections
  <2>2. FailuresFit'
    BY <1>2 DEF Feed!Returned, FailuresFit, Connected, FeedTypes, Connections
  <2>3. OneActive' /\ BeliefFollows'
    BY <1>2 DEF Feed!Returned, OneActive, BeliefFollows, FeedTypes, Connections
  <2> QED
    BY <2>1, <2>2, <2>3
<1>3. CASE Feed!Opened
  <2>1. /\ thread'.pc = "subscribe" /\ thread'.s = thread.s /\ thread'.want = thread.want
        /\ thread' \in Connections /\ thread.pc = "dial"
        /\ socket' = [socket EXCEPT ![thread.s] = "open"] /\ active' = {thread.s}
        /\ UNCHANGED <<desired, tokens, streamed, ready, failures, refresh, mishap>>
    BY <1>3 DEF Feed!Opened, FeedTypes, Connections
  <2>2. FeedTypes'
    BY <2>1 DEF FeedTypes, States
  <2>3. FailuresFit' /\ OneActive' /\ BeliefFollows'
    BY <2>1 DEF FailuresFit, Connected, OneActive, BeliefFollows, FeedTypes
  <2> QED
    BY <2>2, <2>3
<1>4. CASE Feed!Watchdog \/ Feed!Lose
  <2>1. /\ socket' = [socket EXCEPT ![thread.s] = "closed"]
        /\ UNCHANGED <<desired, tokens, streamed, thread, failures, refresh, mishap>>
        /\ (ready' => ready) /\ ready' \in BOOLEAN /\ active' \subseteq active
    <3>1. ready \in BOOLEAN
      BY DEF FeedTypes
    <3>2. CASE Feed!Watchdog
      BY <3>1, <3>2 DEF Feed!Watchdog
    <3>3. CASE Feed!Lose
      BY <3>3 DEF Feed!Lose
    <3> QED
      BY <1>4, <3>2, <3>3
  <2>2. FeedTypes'
    BY <2>1 DEF FeedTypes, States
  <2>3. FailuresFit'
    BY <2>1 DEF FailuresFit, Connected
  <2>4. \A s \in Feed!Sockets : socket'[s] = "none" => socket[s] = "none"
    BY <2>1 DEF FeedTypes
  <2>5. OneActive'
    <3>1. active' \subseteq {thread'.s} /\ (thread'.pc \in {"loop", "backoff", "dial"} => active' = {})
      BY <2>1 DEF OneActive
    <3>2. ready' => thread'.pc = "serve"
      BY <2>1 DEF OneActive
    <3>3. \A s \in Feed!Sockets : socket'[s] = "none" => streamed'[s] = {}
      BY <2>1, <2>4 DEF OneActive
    <3> QED
      BY <3>1, <3>2, <3>3 DEF OneActive
  <2>6. BeliefFollows'
    BY <2>1 DEF BeliefFollows, RoundIsDue
  <2> QED
    BY <2>2, <2>3, <2>5, <2>6
<1>5. CASE Feed!Move \/ Feed!OpenOrClose \/ UNCHANGED Feed!vars
  <2>1. /\ UNCHANGED <<tokens, socket, streamed, active, ready, thread, failures, refresh, mishap>>
        /\ desired' \in SUBSET Tokens
    BY <1>5 DEF Feed!Move, Feed!OpenOrClose, Feed!vars, FeedTypes
  <2> QED
    BY <2>1 DEF FeedTypes, FailuresFit, Connected, OneActive, BeliefFollows, RoundIsDue
<1> QED
  BY <1>1, <1>2, <1>3, <1>4, <1>5

\* The refresh thread: each step of a round leaves what the round has still to do.
LEMMA RefreshStep ==
  ASSUME Feed!FeedAssumption, FeedInv, Feed!Refresh
  PROVE  FeedInv'
<1> USE DEF FeedInv
<1>1. UNCHANGED <<desired, socket, active, ready, thread, failures>>
  BY DEF Feed!Refresh, Feed!Look, Feed!Diff, Feed!Compute, Feed!Add, Feed!Drop
<1>2. thread.s \in Feed!Sockets /\ refresh.s \in Feed!Sockets
  BY DEF FeedTypes, Connections, Rounds
<1>3. CASE Feed!Look
  <2>1. /\ UNCHANGED <<tokens, streamed, mishap>> /\ refresh.pc = "idle"
        /\ thread.pc = "serve" /\ refresh' = [Feed!Resting EXCEPT !.pc = "compute", !.s = thread.s]
    BY <1>3 DEF Feed!Look, OneActive
  <2>2. refresh' \in Rounds /\ refresh'.pc = "compute" /\ refresh'.s = thread.s
    BY <1>2, <2>1 DEF Feed!Resting, Rounds
  <2>3. FeedTypes' /\ FailuresFit' /\ OneActive'
    BY <1>1, <2>1, <2>2 DEF FeedTypes, FailuresFit, Connected, OneActive
  <2>4. BeliefFollows'
    BY <1>1, <2>1, <2>2 DEF BeliefFollows, RoundIsDue
  <2> QED
    BY <2>3, <2>4
<1>4. ASSUME NEW b \in BOOLEAN, Feed!Compute(b)
      PROVE  FeedInv'
  <2>1. /\ UNCHANGED <<tokens, streamed, mishap>> /\ refresh.pc = "compute"
        /\ refresh' \in Rounds /\ refresh'.pc = "diff" /\ refresh'.s = refresh.s
    BY <1>4 DEF Feed!Compute, FeedTypes, Rounds
  <2>2. FeedTypes' /\ FailuresFit' /\ OneActive'
    BY <1>1, <2>1 DEF FeedTypes, FailuresFit, Connected, OneActive
  <2>3. BeliefFollows'
    BY <1>1, <2>1 DEF BeliefFollows, RoundIsDue
  <2> QED
    BY <2>2, <2>3
<1>5. CASE Feed!Diff
  <2>1. /\ UNCHANGED <<streamed, mishap>> /\ refresh.pc = "diff" /\ tokens' = refresh.new
        /\ refresh' \in Rounds
        /\ \/ refresh'.pc = "idle" /\ tokens' = tokens
           \/ /\ refresh'.pc = "add" /\ refresh'.s = refresh.s
              /\ refresh'.added = tokens' \ tokens /\ refresh'.removed = tokens \ tokens'
    <3> QED
      BY <1>5, RestingType DEF Feed!Diff, FeedTypes, Rounds
  <2>2. FeedTypes' /\ FailuresFit' /\ OneActive'
    BY <1>1, <2>1 DEF FeedTypes, Rounds, FailuresFit, Connected, OneActive
  <2>3. BeliefFollows'
    BY <1>1, <2>1 DEF BeliefFollows, RoundIsDue
  <2> QED
    BY <2>2, <2>3
<1>6. ASSUME NEW b \in BOOLEAN, Feed!Add(b) \/ Feed!Drop(b)
      PROVE  FeedInv'
  <2> DEFINE s == refresh.s
  <2>1. /\ UNCHANGED tokens /\ refresh' \in Rounds
        /\ \/ refresh.pc = "add" /\ refresh'.pc = "drop" /\ refresh'.s = s
                 /\ refresh'.removed = refresh.removed
           \/ refresh.pc = "drop" /\ refresh'.pc = "idle"
    <3> QED
      BY <1>6, RestingType DEF Feed!Add, Feed!Drop, FeedTypes, Rounds
  <2>2. \/ mishap' = TRUE /\ UNCHANGED streamed
        \/ /\ UNCHANGED mishap
           /\ \/ UNCHANGED streamed
              \/ socket[s] = "open" /\ \E t \in SUBSET Tokens : streamed' = [streamed EXCEPT ![s] = t]
           /\ streamed'[s] = IF refresh.pc = "add" THEN streamed[s] \union refresh.added
                             ELSE streamed[s] \ refresh.removed
    <3>1. streamed[s] \in SUBSET Tokens /\ refresh.added \in SUBSET Tokens
      BY <1>2 DEF FeedTypes, Rounds
    <3>2. CASE Feed!Add(b)
      BY <1>2, <3>1, <3>2 DEF Feed!Add, Feed!Call, FeedTypes
    <3>3. CASE Feed!Drop(b)
      BY <1>2, <3>1, <3>3 DEF Feed!Drop, Feed!Call, FeedTypes
    <3> QED
      BY <1>6, <3>2, <3>3
  <2> HIDE DEF s
  <2>3. FeedTypes'
    BY <1>1, <2>1, <2>2 DEF FeedTypes
  <2>4. FailuresFit' /\ OneActive'
    BY <1>1, <2>2 DEF FailuresFit, Connected, OneActive, FeedTypes
  <2>5. BeliefFollows'
    BY <1>1, <1>2, <2>1, <2>2 DEF BeliefFollows, RoundIsDue, s
  <2> QED
    BY <2>3, <2>4, <2>5
<1> QED
  BY <1>3, <1>4, <1>5, <1>6 DEF Feed!Refresh

\* In every reachable state of the feed what the process believes subscribed follows
\* from the sockets, or a round that will repair it is due (broker_ws_client.py).
THEOREM FeedInvariance ==
  ASSUME Feed!FeedAssumption
  PROVE  Feed!Spec => []FeedInv
<1>1. Feed!Init => FeedInv
  BY FeedInit
<1>2. FeedInv /\ [Feed!Next]_(Feed!vars) => FeedInv'
  BY DialStep, SubscribeStep, SocketStep, RefreshStep DEF Feed!Next, Feed!Connection
<1> QED
  BY <1>1, <1>2, PTL DEF Feed!Spec

\* The types; one socket at most is active, and it is the connection thread's, for
\* any number of connections (broker_ws_client).
THEOREM FeedIsTyped ==
  ASSUME Feed!FeedAssumption
  PROVE  Feed!Spec => []Feed!TypeOK
<1>1. FeedInv => Feed!TypeOK
  BY DEF FeedInv, FeedTypes, States, FailuresFit, OneActive, Feed!TypeOK
<1> QED
  BY <1>1, FeedInvariance, PTL

\* Between refresh rounds the feed believes what a served socket streams, unless a
\* call was refused or a round spanned a reconnect (_refresh_subscription).
THEOREM BeliefIsTrue ==
  ASSUME Feed!FeedAssumption
  PROVE  Feed!Spec => []Feed!BeliefIsStreamed
<1>1. FeedInv => Feed!BeliefIsStreamed
  BY DEF FeedInv, BeliefFollows, RoundIsDue, Feed!BeliefIsStreamed, Feed!Serving
<1> QED
  BY <1>1, FeedInvariance, PTL

-----------------------------------------------------------------------------
(* PriceAlerts: how often an alert is announced *)

(***************************************************************************)
(* OneShot counts announcements; what bounds them is who may still make    *)
(* one.  A generation of a row begins when it is created and when an edit  *)
(* writes it back.  While it is armed, only announcements of the           *)
(* generations before are under way; the save that fires it lets every     *)
(* check that holds it add one, and no check takes a fired row.            *)
(***************************************************************************)
AlertRows == Watch!Rows
Taken == [id : Alerts, row : AlertRows]
CheckShape(x) ==
  /\ x.pc \in {"idle", "next", "save", "announce"} /\ x.todo \in SUBSET Taken
  /\ x.pc = "idle" => x.todo = {}
  /\ \A t, u \in x.todo : t.id = u.id => t = u
  /\ x.pc \in {"save", "announce"} => x.at \in Taken /\ \A t \in x.todo : t.id # x.at.id

Has(x, a) == (\E t \in x.todo : t.id = a) \/ (x.pc \in {"save", "announce"} /\ x.at.id = a)
Tells(x, a) == x.pc = "announce" /\ x.at.id = a
Holders(c, a) == {w \in Workers : Has(c[w], a)}
Tellers(c, a) == {w \in Workers : Tells(c[w], a)}

\* h and j: how many checks hold the row and announce it; e: the pending edit.
Generation(e, n) == IF e = Watch!NoRow THEN n + 1 ELSE n
OwesAtMost(h, j, r, e, n, k) ==
  LET all == Cardinality(Workers)
  IN /\ r.state = "none" => h = 0 /\ j = 0 /\ k = 0 /\ e = Watch!NoRow
     /\ r.state = "armed" => k + j + all <= all * Generation(e, n)
     /\ r.state = "fired" => k + h <= all * Generation(e, n)
     /\ r.state = "deleted" => k + j <= all * Generation(e, n)

AlertTypes ==
  /\ alert \in [Alerts -> AlertRows] /\ edit \in [Alerts -> AlertRows]
  /\ edits \in [Alerts -> Nat] /\ announced \in [Alerts -> Nat]
  /\ DOMAIN checking = Workers /\ \A w \in Workers : CheckShape(checking[w])
EditsAreOfRows ==
  \A a \in Alerts : edit[a] # Watch!NoRow => edit[a].state \in {"armed", "fired"} /\ edits[a] >= 1
Owed(a) ==
  OwesAtMost(Cardinality(Holders(checking, a)), Cardinality(Tellers(checking, a)),
             alert[a], edit[a], edits[a], announced[a])
AlertInv == AlertTypes /\ EditsAreOfRows /\ \A a \in Alerts : Owed(a)

LEMMA HoldersCount ==
  ASSUME Watch!AlertsAssumption, NEW c, NEW a
  PROVE  /\ IsFiniteSet(Holders(c, a)) /\ IsFiniteSet(Tellers(c, a))
         /\ Cardinality(Holders(c, a)) \in Nat /\ Cardinality(Tellers(c, a)) \in Nat
         /\ Cardinality(Workers) \in Nat
         /\ Cardinality(Tellers(c, a)) <= Cardinality(Holders(c, a))
         /\ Cardinality(Holders(c, a)) <= Cardinality(Workers)
<1>1. IsFiniteSet(Workers)
  <2>1. Watch!IsFiniteSet(Workers)
    BY DEF Watch!AlertsAssumption
  <2> QED
    BY <2>1 DEF Watch!IsFiniteSet, IsFiniteSet
<1>2. Tellers(c, a) \subseteq Holders(c, a) /\ Holders(c, a) \subseteq Workers
  BY DEF Tellers, Holders, Tells, Has
<1> QED
  BY <1>1, <1>2, FS_Subset, FS_CardinalityType


LEMMA ProductGrows ==
  ASSUME NEW m \in Nat, NEW n \in Nat
  PROVE  m * n \in Nat /\ m * (n + 1) = m * n + m
OBVIOUS

\* Fewer holders and fewer announcers owe less.
LEMMA OwesLess ==
  ASSUME NEW h \in Nat, NEW j \in Nat, NEW i \in Nat, NEW l \in Nat, i <= h, l <= j,
         NEW r, NEW e, NEW n \in Nat, NEW k \in Nat, OwesAtMost(h, j, r, e, n, k),
         Cardinality(Workers) \in Nat
  PROVE  OwesAtMost(i, l, r, e, n, k)
<1> DEFINE owed == Cardinality(Workers) * Generation(e, n)
<1>1. Generation(e, n) \in Nat
  BY DEF Generation
<1>2. owed \in Nat
  BY <1>1, ProductGrows
<1> HIDE DEF owed
<1>3. /\ r.state = "armed" => k + j + Cardinality(Workers) <= owed
      /\ r.state = "fired" => k + h <= owed
      /\ r.state = "deleted" => k + j <= owed
  BY DEF OwesAtMost, owed
<1>4. /\ r.state = "armed" => k + l + Cardinality(Workers) <= owed
      /\ r.state = "fired" => k + i <= owed
      /\ r.state = "deleted" => k + l <= owed
  BY <1>2, <1>3
<1>5. r.state = "none" => i = 0 /\ l = 0 /\ k = 0 /\ e = Watch!NoRow
  BY DEF OwesAtMost
<1> QED
  BY <1>4, <1>5 DEF OwesAtMost, owed

\* A check that only lets go of rows.
LEMMA ChecksLetGo ==
  ASSUME Watch!AlertsAssumption, NEW c, NEW d, NEW a,
         \A w \in Workers : (Has(d[w], a) => Has(c[w], a)) /\ (Tells(d[w], a) => Tells(c[w], a)),
         NEW r, NEW e, NEW n \in Nat, NEW k \in Nat,
         OwesAtMost(Cardinality(Holders(c, a)), Cardinality(Tellers(c, a)), r, e, n, k)
  PROVE  OwesAtMost(Cardinality(Holders(d, a)), Cardinality(Tellers(d, a)), r, e, n, k)
<1>1. Holders(d, a) \subseteq Holders(c, a) /\ Tellers(d, a) \subseteq Tellers(c, a)
  BY DEF Holders, Tellers
<1> DEFINE H == Holders(c, a)
           I == Holders(d, a)
           J == Tellers(c, a)
           L == Tellers(d, a)
<1>2. /\ IsFiniteSet(H) /\ IsFiniteSet(J) /\ Cardinality(Workers) \in Nat
      /\ Cardinality(H) \in Nat /\ Cardinality(I) \in Nat
      /\ Cardinality(J) \in Nat /\ Cardinality(L) \in Nat
  BY HoldersCount
<1>3. I \subseteq H /\ L \subseteq J
  BY <1>1
<1>4. OwesAtMost(Cardinality(H), Cardinality(J), r, e, n, k)
  OBVIOUS
<1> HIDE DEF H, I, J, L
<1>5. Cardinality(I) <= Cardinality(H) /\ Cardinality(L) <= Cardinality(J)
  BY <1>2, <1>3, FS_Subset
<1>6. OwesAtMost(Cardinality(I), Cardinality(L), r, e, n, k)
  BY <1>2, <1>4, <1>5, OwesLess
<1> QED
  BY <1>6 DEF I, L

\* The trader's steps: the checks rest, and one row gets another generation at most.
LEMMA TraderOwes ==
  ASSUME Watch!AlertsAssumption, NEW h \in Nat, NEW j \in Nat, j <= h, h <= Cardinality(Workers),
         Cardinality(Workers) \in Nat,
         NEW r, NEW e, NEW n \in Nat, NEW k \in Nat, OwesAtMost(h, j, r, e, n, k),
         NEW s
  PROVE  /\ r.state = "none" /\ s.state = "armed" => OwesAtMost(h, j, s, e, n, k)
         /\ s.state = "deleted" /\ r.state \in {"armed", "fired"} => OwesAtMost(h, j, s, e, n, k)
         /\ e = Watch!NoRow /\ r # Watch!NoRow /\ r.state \in {"armed", "fired"} => OwesAtMost(h, j, r, r, n + 1, k)
         /\ e # Watch!NoRow /\ s.state \in {"armed", "fired"} /\ r.state \in {"none", "armed", "fired", "deleted"}
              => OwesAtMost(h, j, s, Watch!NoRow, n, k)
<1> DEFINE all == Cardinality(Workers)
           g == Generation(e, n)
           owed == all * g
           grown == all * (n + 1)
<1>1. g \in Nat
  BY DEF Generation
<1>2. owed \in Nat /\ grown = all * n + all /\ all * n \in Nat
  BY <1>1, ProductGrows
<1>3. all \in Nat /\ h <= all
  OBVIOUS
<1>4. (e = Watch!NoRow => g = n + 1 /\ owed = grown) /\ (e # Watch!NoRow => g = n /\ owed = all * n)
  BY DEF Generation
<1>5. /\ r.state = "none" => h = 0 /\ j = 0 /\ k = 0 /\ e = Watch!NoRow
      /\ r.state = "armed" => k + j + all <= owed
      /\ r.state = "fired" => k + h <= owed
      /\ r.state = "deleted" => k + j <= owed
  BY DEF OwesAtMost
<1>6. ASSUME r.state = "none", s.state = "armed"
      PROVE  OwesAtMost(h, j, s, e, n, k)
  <2> HIDE DEF owed, grown, g
  <2>1. k + j + all <= owed
    BY <1>2, <1>3, <1>4, <1>5, <1>6
  <2> QED
    BY <1>6, <2>1 DEF OwesAtMost, owed, g
<1>7. ASSUME s.state = "deleted", r.state \in {"armed", "fired"}
      PROVE  OwesAtMost(h, j, s, e, n, k)
  <2> HIDE DEF owed, grown, g
  <2>1. k + j <= owed
    BY <1>2, <1>3, <1>5, <1>7
  <2> QED
    BY <1>7, <2>1 DEF OwesAtMost, owed, g
<1>8. ASSUME e = Watch!NoRow, r # Watch!NoRow, r.state \in {"armed", "fired"}
      PROVE  OwesAtMost(h, j, r, r, n + 1, k)
  <2>1. Generation(r, n + 1) = g
    BY <1>4, <1>8 DEF Generation
  <2> QED
    BY <1>5, <1>8, <2>1 DEF OwesAtMost
<1>9. ASSUME e # Watch!NoRow, s.state \in {"armed", "fired"}, r.state \in {"none", "armed", "fired", "deleted"}
      PROVE  OwesAtMost(h, j, s, Watch!NoRow, n, k)
  <2>1. Generation(Watch!NoRow, n) = n + 1
    BY DEF Generation
  <2> HIDE DEF owed, grown, g
  <2>2. k + j <= owed /\ owed = all * n
    BY <1>2, <1>3, <1>4, <1>5, <1>9
  <2> DEFINE base == all * n
  <2>3. base \in Nat /\ grown = base + all /\ k + j <= base
    BY <1>2, <2>2
  <2> HIDE DEF base
  <2>4. k + j + all <= grown /\ k + h <= grown
    BY <1>3, <2>3
  <2> QED
    BY <1>9, <2>1, <2>4 DEF OwesAtMost, grown
<1> QED
  BY <1>6, <1>7, <1>8, <1>9

LEMMA AlertInit ==
  ASSUME Watch!AlertsAssumption, Watch!Init
  PROVE  AlertInv
<1>1. Watch!NoRow \in AlertRows /\ Watch!NoRow.state = "none" /\ CheckShape(Watch!Rest)
      /\ \A a : ~Has(Watch!Rest, a) /\ ~Tells(Watch!Rest, a)
  BY DEF Watch!NoRow, Watch!Rest, Watch!Rows, AlertRows, CheckShape, Has, Tells
<1>2. /\ checking = [w \in Workers |-> Watch!Rest] /\ \A w \in Workers : checking[w] = Watch!Rest
      /\ alert = [a \in Alerts |-> Watch!NoRow] /\ edit = [a \in Alerts |-> Watch!NoRow]
      /\ edits = [a \in Alerts |-> 0] /\ announced = [a \in Alerts |-> 0]
  BY DEF Watch!Init
<1>3. AlertTypes /\ EditsAreOfRows
  BY <1>1, <1>2 DEF AlertTypes, EditsAreOfRows
<1>4. ASSUME NEW a \in Alerts
      PROVE  Owed(a)
  <2>1. Holders(checking, a) = {} /\ Tellers(checking, a) = {}
    BY <1>1, <1>2 DEF Holders, Tellers
  <2>2. Cardinality(Holders(checking, a)) = 0 /\ Cardinality(Tellers(checking, a)) = 0
    BY <2>1, FS_EmptySet
  <2> QED
    BY <1>1, <1>2, <2>2 DEF Owed, OwesAtMost
<1> QED
  BY <1>3, <1>4 DEF AlertInv

LEMMA TraderStep ==
  ASSUME Watch!AlertsAssumption, AlertInv, NEW a \in Alerts,
         Watch!Create(a) \/ Watch!Speak(a) \/ Watch!Delete(a) \/ Watch!ReadForEdit(a) \/ Watch!SaveEdit(a)
  PROVE  AlertInv'
<1> DEFINE h(b) == Cardinality(Holders(checking, b))
           j(b) == Cardinality(Tellers(checking, b))
<1>1. /\ \A b \in Alerts : alert[b] \in AlertRows /\ edit[b] \in AlertRows
      /\ \A b \in Alerts : edits[b] \in Nat /\ announced[b] \in Nat
      /\ \A b \in Alerts : OwesAtMost(h(b), j(b), alert[b], edit[b], edits[b], announced[b])
  BY DEF AlertInv, AlertTypes, Owed
<1>2. \A b \in Alerts : h(b) \in Nat /\ j(b) \in Nat /\ j(b) <= h(b) /\ h(b) <= Cardinality(Workers)
  BY HoldersCount
<1>3. Cardinality(Workers) \in Nat
  BY HoldersCount
<1>4. UNCHANGED <<checking, announced>>
  BY DEF Watch!Create, Watch!Speak, Watch!Armed, Watch!Delete, Watch!ReadForEdit, Watch!SaveEdit
<1>5. \A b \in Alerts : h(b)' = h(b) /\ j(b)' = j(b)
  BY <1>4 DEF Holders, Tellers
<1> HIDE DEF h, j
<1>6. CASE Watch!Create(a) \/ Watch!Speak(a)
  <2>1. PICK target \in Prices, above \in BOOLEAN : Watch!Armed(a, target, above)
    <3>1. CASE Watch!Create(a)
      BY <3>1 DEF Watch!Create
    <3>2. CASE Watch!Speak(a)
      <4>1. PICK target \in Prices : Watch!Armed(a, target, target >= price)
        BY <3>2 DEF Watch!Speak
      <4> DEFINE above == target >= price
      <4>2. above \in BOOLEAN /\ Watch!Armed(a, target, above)
        BY <4>1
      <4> HIDE DEF above
      <4> QED
        BY <4>2
    <3> QED
      BY <1>6, <3>1, <3>2
  <2> DEFINE s == [state |-> "armed", target |-> target, above |-> above]
  <2>2. /\ alert[a].state = "none" /\ alert' = [alert EXCEPT ![a] = s] /\ UNCHANGED <<edit, edits>>
        /\ s \in AlertRows /\ s.state = "armed"
    BY <2>1 DEF Watch!Armed, AlertRows, Watch!Rows
  <2> HIDE DEF s
  <2>3. OwesAtMost(h(a), j(a), s, edit[a], edits[a], announced[a])
    BY <1>1, <1>2, <1>3, <2>2, TraderOwes
  <2>4. AlertTypes' /\ EditsAreOfRows'
    BY <1>4, <2>2 DEF AlertInv, AlertTypes, EditsAreOfRows
  <2>5. alert'[a] = s /\ \A b \in Alerts : b # a => alert'[b] = alert[b]
    BY <2>2 DEF AlertInv, AlertTypes
  <2>6. \A b \in Alerts : OwesAtMost(h(b), j(b), alert'[b], edit[b], edits[b], announced[b])
    BY <1>1, <2>3, <2>5
  <2>7. \A b \in Alerts : Owed(b)'
    BY <1>4, <1>5, <2>2, <2>6 DEF Owed, h, j
  <2> QED
    BY <2>4, <2>7 DEF AlertInv
<1>7. CASE Watch!Delete(a)
  <2> DEFINE s == [alert[a] EXCEPT !.state = "deleted"]
  <2>1. /\ alert[a].state \in {"armed", "fired"} /\ alert' = [alert EXCEPT ![a] = s]
        /\ UNCHANGED <<edit, edits>>
    BY <1>7 DEF Watch!Delete, Watch!Exists
  <2>2. s \in AlertRows /\ s.state = "deleted"
    BY <1>1 DEF AlertRows, Watch!Rows
  <2> HIDE DEF s
  <2>3. OwesAtMost(h(a), j(a), s, edit[a], edits[a], announced[a])
    BY <1>1, <1>2, <1>3, <2>1, <2>2, TraderOwes
  <2>4. AlertTypes' /\ EditsAreOfRows'
    BY <1>4, <2>1, <2>2 DEF AlertInv, AlertTypes, EditsAreOfRows
  <2>5. alert'[a] = s /\ \A b \in Alerts : b # a => alert'[b] = alert[b]
    BY <2>1 DEF AlertInv, AlertTypes
  <2>6. \A b \in Alerts : OwesAtMost(h(b), j(b), alert'[b], edit[b], edits[b], announced[b])
    BY <1>1, <2>3, <2>5
  <2>7. \A b \in Alerts : Owed(b)'
    BY <1>4, <1>5, <2>1, <2>6 DEF Owed, h, j
  <2> QED
    BY <2>4, <2>7 DEF AlertInv
<1>8. CASE Watch!ReadForEdit(a)
  <2>1. /\ alert[a].state \in {"armed", "fired"} /\ edit[a] = Watch!NoRow
        /\ edit' = [edit EXCEPT ![a] = alert[a]] /\ edits' = [edits EXCEPT ![a] = edits[a] + 1]
        /\ UNCHANGED alert
    BY <1>8 DEF Watch!ReadForEdit, Watch!Exists
  <2>2. alert[a] # Watch!NoRow
    BY <2>1 DEF Watch!NoRow
  <2>3. OwesAtMost(h(a), j(a), alert[a], alert[a], edits[a] + 1, announced[a])
    BY <1>1, <1>2, <1>3, <2>1, <2>2, TraderOwes
  <2>4. AlertTypes'
    BY <1>1, <1>4, <2>1 DEF AlertInv, AlertTypes
  <2>5. /\ edit'[a] = alert[a] /\ \A b \in Alerts : b # a => edit'[b] = edit[b]
        /\ edits'[a] = edits[a] + 1 /\ \A b \in Alerts : b # a => edits'[b] = edits[b]
    BY <2>1 DEF AlertInv, AlertTypes
  <2>6. EditsAreOfRows'
    BY <1>1, <2>1, <2>5 DEF AlertInv, EditsAreOfRows
  <2>7. \A b \in Alerts : OwesAtMost(h(b), j(b), alert[b], edit'[b], edits'[b], announced[b])
    BY <1>1, <2>3, <2>5
  <2>8. \A b \in Alerts : Owed(b)'
    BY <1>4, <1>5, <2>1, <2>7 DEF Owed, h, j
  <2> QED
    BY <2>4, <2>6, <2>8 DEF AlertInv
<1>9. CASE Watch!SaveEdit(a)
  <2>1. PICK target \in Prices : alert' = [alert EXCEPT ![a] = [edit[a] EXCEPT !.target = target]]
    BY <1>9 DEF Watch!SaveEdit
  <2> DEFINE s == [edit[a] EXCEPT !.target = target]
  <2>2. /\ edit[a] # Watch!NoRow /\ edit' = [edit EXCEPT ![a] = Watch!NoRow] /\ UNCHANGED edits
        /\ alert' = [alert EXCEPT ![a] = s]
    BY <1>9, <2>1 DEF Watch!SaveEdit
  <2>3. edit[a].state \in {"armed", "fired"}
    BY <2>2 DEF AlertInv, EditsAreOfRows
  <2>4. s \in AlertRows /\ s.state = edit[a].state
    BY <1>1 DEF AlertRows, Watch!Rows
  <2>5. Watch!NoRow \in AlertRows
    BY DEF AlertRows, Watch!Rows, Watch!NoRow
  <2> HIDE DEF s
  <2>6. alert[a].state \in {"none", "armed", "fired", "deleted"}
    BY <1>1 DEF AlertRows, Watch!Rows
  <2>7. OwesAtMost(h(a), j(a), s, Watch!NoRow, edits[a], announced[a])
    BY <1>1, <1>2, <1>3, <2>2, <2>3, <2>4, <2>6, TraderOwes
  <2>8. AlertTypes'
    BY <1>4, <2>2, <2>4, <2>5 DEF AlertInv, AlertTypes
  <2>9. /\ alert'[a] = s /\ \A b \in Alerts : b # a => alert'[b] = alert[b]
        /\ edit'[a] = Watch!NoRow /\ \A b \in Alerts : b # a => edit'[b] = edit[b]
    BY <2>2 DEF AlertInv, AlertTypes
  <2>10. EditsAreOfRows'
    BY <2>2, <2>9 DEF AlertInv, EditsAreOfRows
  <2>11. \A b \in Alerts : OwesAtMost(h(b), j(b), alert'[b], edit'[b], edits[b], announced[b])
    BY <1>1, <2>7, <2>9
  <2>12. \A b \in Alerts : Owed(b)'
    BY <1>4, <1>5, <2>2, <2>11 DEF Owed, h, j
  <2> QED
    BY <2>8, <2>10, <2>12 DEF AlertInv
<1> QED
  BY <1>6, <1>7, <1>8, <1>9

\* What changes of one check is the check of one worker.
LEMMA OneCheckMoves ==
  ASSUME AlertTypes, NEW w \in Workers, NEW x, CheckShape(x)
  PROVE  /\ DOMAIN [checking EXCEPT ![w] = x] = Workers /\ [checking EXCEPT ![w] = x][w] = x
         /\ \A v \in Workers : v # w => [checking EXCEPT ![w] = x][v] = checking[v]
         /\ \A v \in Workers : CheckShape([checking EXCEPT ![w] = x][v])
BY DEF AlertTypes

\* A check that lets go of rows and writes none.
LEMMA LetsGo ==
  ASSUME Watch!AlertsAssumption, AlertInv, NEW w \in Workers, NEW x, CheckShape(x),
         checking' = [checking EXCEPT ![w] = x], UNCHANGED <<alert, edit, edits, announced>>,
         \A a \in Alerts : (Has(x, a) => Has(checking[w], a) \/ alert[a].state = "armed")
                        /\ (Tells(x, a) => Tells(checking[w], a))
  PROVE  AlertInv'
<1>1. /\ DOMAIN checking' = Workers /\ checking'[w] = x
      /\ \A v \in Workers : v # w => checking'[v] = checking[v]
      /\ \A v \in Workers : CheckShape(checking'[v])
  BY OneCheckMoves DEF AlertInv
<1>2. AlertTypes' /\ EditsAreOfRows'
  BY <1>1 DEF AlertInv, AlertTypes, EditsAreOfRows
<1>3. ASSUME NEW a \in Alerts
      PROVE  Owed(a)'
  <2>1. /\ edits[a] \in Nat /\ announced[a] \in Nat
        /\ OwesAtMost(Cardinality(Holders(checking, a)), Cardinality(Tellers(checking, a)),
                      alert[a], edit[a], edits[a], announced[a])
    BY DEF AlertInv, AlertTypes, Owed
  <2>2. \A v \in Workers : Tells(checking'[v], a) => Tells(checking[v], a)
    BY <1>1
  <2>3. CASE alert[a].state # "armed"
    <3>1. \A v \in Workers : Has(checking'[v], a) => Has(checking[v], a)
      BY <1>1, <2>3
    <3>2. OwesAtMost(Cardinality(Holders(checking', a)), Cardinality(Tellers(checking', a)),
                     alert[a], edit[a], edits[a], announced[a])
      BY <2>1, <2>2, <3>1, ChecksLetGo
    <3> QED
      BY <3>2 DEF Owed
  <2>4. CASE alert[a].state = "armed"
    <3> DEFINE J == Tellers(checking, a)
               L == Tellers(checking', a)
               owed == Cardinality(Workers) * Generation(edit[a], edits[a])
    <3>1. L \subseteq J
      BY <2>2 DEF Tellers
    <3>2. IsFiniteSet(J) /\ Cardinality(J) \in Nat /\ Cardinality(L) \in Nat /\ Cardinality(Workers) \in Nat
      BY HoldersCount
    <3>3. announced[a] + Cardinality(J) + Cardinality(Workers) <= owed
      BY <2>1, <2>4 DEF OwesAtMost
    <3>4. owed \in Nat
      <4>1. Generation(edit[a], edits[a]) \in Nat
        BY <2>1 DEF Generation
      <4> QED
        BY <3>2, <4>1, ProductGrows
    <3> HIDE DEF J, L, owed
    <3>5. announced[a] + Cardinality(L) + Cardinality(Workers) <= owed
      <4>1. Cardinality(L) <= Cardinality(J)
        BY <3>1, <3>2, FS_Subset
      <4> QED
        BY <2>1, <3>2, <3>3, <3>4, <4>1
    <3> QED
      BY <2>4, <3>5 DEF Owed, OwesAtMost, L, owed
  <2> QED
    BY <2>3, <2>4
<1> QED
  BY <1>2, <1>3 DEF AlertInv

LEMMA StartStep ==
  ASSUME Watch!AlertsAssumption, AlertInv, NEW w \in Workers, Watch!Start(w)
  PROVE  AlertInv'
<1> DEFINE todo == {[id |-> a, row |-> alert[a]] : a \in {a \in Alerts : alert[a].state = "armed"}}
           x == [Watch!Rest EXCEPT !.pc = "next", !.todo = todo]
<1>1. checking' = [checking EXCEPT ![w] = x] /\ UNCHANGED <<alert, edit, edits, announced>>
  BY DEF Watch!Start
<1>2. \A a \in Alerts : alert[a] \in AlertRows
  BY DEF AlertInv, AlertTypes
<1>3. todo \in SUBSET Taken
  BY <1>2 DEF Taken
<1>4. \A t \in todo : t.id \in Alerts /\ alert[t.id].state = "armed" /\ t = [id |-> t.id, row |-> alert[t.id]]
  OBVIOUS
<1> HIDE DEF todo
<1>5. x.pc = "next" /\ x.todo = todo
  BY DEF Watch!Rest
<1> HIDE DEF x
<1>6. CheckShape(x)
  BY <1>3, <1>4, <1>5 DEF CheckShape
<1>7. \A a \in Alerts : (Has(x, a) => alert[a].state = "armed") /\ ~Tells(x, a)
  BY <1>4, <1>5 DEF Has, Tells
<1> QED
  BY <1>1, <1>6, <1>7, LetsGo

LEMMA LookStep ==
  ASSUME Watch!AlertsAssumption, AlertInv, NEW w \in Workers, Watch!Look(w) \/ Watch!Die(w)
  PROVE  AlertInv'
<1> DEFINE c == checking[w]
<1>1. CheckShape(c)
  BY DEF AlertInv, AlertTypes
<1>2. CheckShape(Watch!Rest) /\ \A a \in Alerts : ~Has(Watch!Rest, a) /\ ~Tells(Watch!Rest, a)
  BY DEF Watch!Rest, CheckShape, Has, Tells
<1>3. CASE checking' = [checking EXCEPT ![w] = Watch!Rest] /\ UNCHANGED <<alert, edit, edits, announced>>
  BY <1>2, <1>3, LetsGo
<1>4. CASE /\ c.pc = "next" /\ UNCHANGED <<alert, edit, edits, announced>>
           /\ \E t \in c.todo :
                checking' = [checking EXCEPT ![w].todo = @ \ {t},
                                             ![w].pc = IF Watch!Crossed(t.row) THEN "save" ELSE "next",
                                             ![w].at = IF Watch!Crossed(t.row) THEN t ELSE Watch!NoRow]
  <2>1. PICK t \in c.todo :
          checking' = [checking EXCEPT ![w].todo = @ \ {t},
                                       ![w].pc = IF Watch!Crossed(t.row) THEN "save" ELSE "next",
                                       ![w].at = IF Watch!Crossed(t.row) THEN t ELSE Watch!NoRow]
    BY <1>4
  <2> DEFINE x == [c EXCEPT !.todo = @ \ {t}, !.pc = IF Watch!Crossed(t.row) THEN "save" ELSE "next",
                            !.at = IF Watch!Crossed(t.row) THEN t ELSE Watch!NoRow]
  <2>2. checking' = [checking EXCEPT ![w] = x]
    BY <2>1
  <2>3. x.todo = c.todo \ {t} /\ (x.pc = "next" \/ (x.pc = "save" /\ x.at = t))
    OBVIOUS
  <2> HIDE DEF x
  <2>4. CheckShape(x)
    BY <1>1, <2>3 DEF CheckShape
  <2>5. \A a \in Alerts : (Has(x, a) => Has(c, a)) /\ ~Tells(x, a)
    BY <2>3 DEF Has, Tells
  <2> QED
    BY <1>4, <2>2, <2>4, <2>5, LetsGo
<1> QED
  BY <1>3, <1>4 DEF Watch!Look, Watch!Die

\* The save that fires a row, and one that finds it gone.
LEMMA SaveStep ==
  ASSUME Watch!AlertsAssumption, AlertInv, NEW w \in Workers, Watch!Save(w)
  PROVE  AlertInv'
<1> DEFINE c == checking[w]
<1>1. CheckShape(c) /\ c.pc = "save" /\ UNCHANGED <<edit, edits, announced>>
  BY DEF AlertInv, AlertTypes, Watch!Save
<1>2. PICK a \in Alerts : a = c.at.id /\ c.at \in Taken /\ \A t \in c.todo : t.id # a
  BY <1>1 DEF CheckShape, Taken
<1>3. CASE ~Watch!Exists(a)
  <2>1. CheckShape(Watch!Rest) /\ \A b \in Alerts : ~Has(Watch!Rest, b) /\ ~Tells(Watch!Rest, b)
    BY DEF Watch!Rest, CheckShape, Has, Tells
  <2>2. checking' = [checking EXCEPT ![w] = Watch!Rest] /\ UNCHANGED alert
    BY <1>2, <1>3 DEF Watch!Save
  <2> QED
    BY <1>1, <2>1, <2>2, LetsGo
<1>4. CASE Watch!Exists(a)
  <2> DEFINE x == [c EXCEPT !.pc = "announce"]
             s == [alert[a] EXCEPT !.state = "fired"]
  <2>1. checking' = [checking EXCEPT ![w] = x] /\ alert' = [alert EXCEPT ![a] = s]
    BY <1>2, <1>4 DEF Watch!Save
  <2>2. alert[a].state \in {"armed", "fired"} /\ alert[a] \in AlertRows
    BY <1>2, <1>4 DEF Watch!Exists, AlertInv, AlertTypes
  <2>3. s \in AlertRows /\ s.state = "fired"
    BY <2>2 DEF AlertRows, Watch!Rows
  <2>4. x.pc = "announce" /\ x.todo = c.todo /\ x.at = c.at
    BY <1>1 DEF CheckShape
  <2> HIDE DEF x, s
  <2>5. CheckShape(x)
    BY <1>1, <2>4 DEF CheckShape
  <2>6. /\ DOMAIN checking' = Workers /\ checking'[w] = x
        /\ \A v \in Workers : v # w => checking'[v] = checking[v]
        /\ \A v \in Workers : CheckShape(checking'[v])
    BY <2>1, <2>5, OneCheckMoves DEF AlertInv
  <2>7. alert' \in [Alerts -> AlertRows] /\ alert'[a] = s /\ \A b \in Alerts : b # a => alert'[b] = alert[b]
    BY <1>2, <2>1, <2>3 DEF AlertInv, AlertTypes
  <2>8. AlertTypes' /\ EditsAreOfRows'
    BY <1>1, <2>6, <2>7 DEF AlertInv, AlertTypes, EditsAreOfRows
  <2>9. \A b : (Has(x, b) <=> Has(c, b)) /\ (b # a => ~Tells(x, b) /\ ~Tells(c, b))
    BY <1>1, <1>2, <2>4 DEF Has, Tells
  <2>10. \A b \in Alerts :
          /\ edits[b] \in Nat /\ announced[b] \in Nat
          /\ OwesAtMost(Cardinality(Holders(checking, b)), Cardinality(Tellers(checking, b)),
                        alert[b], edit[b], edits[b], announced[b])
    BY DEF AlertInv, AlertTypes, Owed
  <2>11. ASSUME NEW b \in Alerts, b # a
         PROVE  Owed(b)'
    <3>1. \A v \in Workers : (Has(checking'[v], b) => Has(checking[v], b)) /\ (Tells(checking'[v], b) => Tells(checking[v], b))
      BY <2>6, <2>9, <2>11
    <3>2. OwesAtMost(Cardinality(Holders(checking', b)), Cardinality(Tellers(checking', b)),
                     alert[b], edit[b], edits[b], announced[b])
      BY <2>10, <3>1, ChecksLetGo
    <3> QED
      BY <1>1, <2>7, <2>11, <3>2 DEF Owed
  <2>12. Owed(a)'
    <3> DEFINE h == Cardinality(Holders(checking, a))
               j == Cardinality(Tellers(checking, a))
               k == announced[a]
               owed == Cardinality(Workers) * Generation(edit[a], edits[a])
    <3>1. Holders(checking', a) = Holders(checking, a)
      BY <2>6, <2>9 DEF Holders
    <3>2. h \in Nat /\ j \in Nat /\ h <= Cardinality(Workers) /\ Cardinality(Workers) \in Nat
      BY HoldersCount
    <3>3. k \in Nat /\ (alert[a].state = "armed" => k + j + Cardinality(Workers) <= owed)
          /\ (alert[a].state = "fired" => k + h <= owed)
      BY <1>2, <2>10 DEF OwesAtMost
    <3>4. owed \in Nat
      <4>1. Generation(edit[a], edits[a]) \in Nat
        BY <1>2, <2>10 DEF Generation
      <4> QED
        BY <3>2, <4>1, ProductGrows
    <3> HIDE DEF h, j, k, owed
    <3>5. k + h <= owed
      BY <2>2, <3>2, <3>3, <3>4
    <3>6. OwesAtMost(h, Cardinality(Tellers(checking', a)), s, edit[a], edits[a], k)
      BY <2>3, <3>5 DEF OwesAtMost, owed
    <3> QED
      BY <1>1, <2>7, <3>1, <3>6 DEF Owed, h, k
  <2> QED
    BY <2>8, <2>11, <2>12 DEF AlertInv
<1> QED
  BY <1>3, <1>4

\* An announcement uses up its check's hold.
LEMMA AnnounceStep ==
  ASSUME Watch!AlertsAssumption, AlertInv, NEW w \in Workers, Watch!Announce(w)
  PROVE  AlertInv'
<1> DEFINE c == checking[w]
           x == [c EXCEPT !.pc = "next", !.at = Watch!NoRow]
<1>1. CheckShape(c) /\ c.pc = "announce"
  BY DEF AlertInv, AlertTypes, Watch!Announce
<1>2. PICK a \in Alerts : a = c.at.id /\ c.at \in Taken /\ \A t \in c.todo : t.id # a
  BY <1>1 DEF CheckShape, Taken
<1>3. /\ CheckShape(c) /\ c.pc = "announce" /\ UNCHANGED <<alert, edit, edits>>
      /\ checking' = [checking EXCEPT ![w] = x]
      /\ announced' = announced \/ announced' = [announced EXCEPT ![a] = announced[a] + 1]
  BY <1>1, <1>2 DEF Watch!Announce
<1>4. x.pc = "next" /\ x.todo = c.todo
  BY <1>3 DEF CheckShape
<1> HIDE DEF x
<1>5. CheckShape(x)
  BY <1>3, <1>4 DEF CheckShape
<1>6. /\ DOMAIN checking' = Workers /\ checking'[w] = x
      /\ \A v \in Workers : v # w => checking'[v] = checking[v]
      /\ \A v \in Workers : CheckShape(checking'[v])
  BY <1>3, <1>5, OneCheckMoves DEF AlertInv
<1>7. \A b \in Alerts : announced[b] \in Nat
  BY DEF AlertInv, AlertTypes
<1>8. /\ announced' \in [Alerts -> Nat] /\ \A b \in Alerts : b # a => announced'[b] = announced[b]
      /\ announced'[a] \in {announced[a], announced[a] + 1}
  BY <1>3, <1>2, <1>7 DEF AlertInv, AlertTypes
<1>9. AlertTypes' /\ EditsAreOfRows'
  BY <1>3, <1>6, <1>8 DEF AlertInv, AlertTypes, EditsAreOfRows
<1>10. \A b \in Alerts :
        /\ edits[b] \in Nat
        /\ OwesAtMost(Cardinality(Holders(checking, b)), Cardinality(Tellers(checking, b)),
                      alert[b], edit[b], edits[b], announced[b])
  BY DEF AlertInv, AlertTypes, Owed
<1>11. Has(c, a) /\ Tells(c, a) /\ ~Has(x, a) /\ ~Tells(x, a)
  BY <1>3, <1>2, <1>4 DEF Has, Tells
<1>12. \A b : (Has(x, b) => Has(c, b)) /\ (Tells(x, b) => Tells(c, b))
  BY <1>4 DEF Has, Tells
<1>13. ASSUME NEW b \in Alerts, b # a
       PROVE  Owed(b)'
  <2>1. \A v \in Workers : (Has(checking'[v], b) => Has(checking[v], b)) /\ (Tells(checking'[v], b) => Tells(checking[v], b))
    BY <1>6, <1>12
  <2>2. OwesAtMost(Cardinality(Holders(checking', b)), Cardinality(Tellers(checking', b)),
                   alert[b], edit[b], edits[b], announced[b])
    BY <1>7, <1>10, <2>1, ChecksLetGo
  <2> QED
    BY <1>3, <1>8, <1>13, <2>2 DEF Owed
<1>14. Owed(a)'
  <2> DEFINE H == Holders(checking, a)
             J == Tellers(checking, a)
             I == Holders(checking', a)
             L == Tellers(checking', a)
             k == announced[a]
             owed == Cardinality(Workers) * Generation(edit[a], edits[a])
  <2>1. I = H \ {w} /\ w \in H
    BY <1>6, <1>11 DEF Holders
  <2>2. L = J \ {w} /\ w \in J
    BY <1>6, <1>11 DEF Tellers
  <2>3. /\ IsFiniteSet(H) /\ IsFiniteSet(J) /\ Cardinality(H) \in Nat /\ Cardinality(J) \in Nat
        /\ Cardinality(Workers) \in Nat
    BY HoldersCount
  <2>4. /\ alert[a].state = "none" => Cardinality(H) = 0
        /\ alert[a].state = "armed" => k + Cardinality(J) + Cardinality(Workers) <= owed
        /\ alert[a].state = "fired" => k + Cardinality(H) <= owed
        /\ alert[a].state = "deleted" => k + Cardinality(J) <= owed
    BY <1>2, <1>10 DEF OwesAtMost
  <2>5. owed \in Nat /\ k \in Nat
    <3>1. Generation(edit[a], edits[a]) \in Nat
      BY <1>2, <1>10 DEF Generation
    <3> QED
      BY <1>2, <1>7, <2>3, <3>1, ProductGrows
  <2> HIDE DEF H, J, I, L, owed
  <2>6. /\ Cardinality(I) = Cardinality(H) - 1 /\ Cardinality(L) = Cardinality(J) - 1
        /\ Cardinality(I) \in Nat /\ Cardinality(L) \in Nat
    BY <2>1, <2>2, <2>3, FS_RemoveElement, FS_CardinalityType
  <2> DEFINE m == announced'[a]
  <2>7. m \in Nat /\ m <= k + 1
    BY <1>8, <2>5
  <2> HIDE DEF k, m
  <2>8. /\ alert[a].state # "none"
        /\ alert[a].state = "armed" => m + Cardinality(L) + Cardinality(Workers) <= owed
        /\ alert[a].state = "fired" => m + Cardinality(I) <= owed
        /\ alert[a].state = "deleted" => m + Cardinality(L) <= owed
    BY <2>3, <2>4, <2>5, <2>6, <2>7
  <2>9. OwesAtMost(Cardinality(I), Cardinality(L), alert[a], edit[a], edits[a], m)
    BY <2>8 DEF OwesAtMost, owed
  <2> QED
    BY <1>3, <2>9 DEF Owed, I, L, m
<1> QED
  BY <1>9, <1>13, <1>14 DEF AlertInv

\* What is owed above is an invariant, for any number of overlapping checks, edits
\* and deaths.
THEOREM AlertInvariance ==
  ASSUME Watch!AlertsAssumption
  PROVE  Watch!Spec => []AlertInv
<1>1. Watch!Init => AlertInv
  BY AlertInit
<1>2. AlertInv /\ [Watch!Next]_(Watch!vars) => AlertInv'
  <2> SUFFICES ASSUME AlertInv, [Watch!Next]_(Watch!vars)
               PROVE  AlertInv'
    OBVIOUS
  <2>1. CASE Watch!Candle \/ UNCHANGED Watch!vars
    BY <2>1 DEF Watch!Candle, Watch!vars, AlertInv, AlertTypes, EditsAreOfRows, Owed
  <2> QED
    BY <2>1, TraderStep, StartStep, LookStep, SaveStep, AnnounceStep DEF Watch!Next, Watch!Work
<1> QED
  BY <1>1, <1>2, PTL DEF Watch!Spec

\* An alert is announced once by each overlapping check at most, and again only after
\* an edit that had read the row wrote it back (check_price_alerts, PriceAlertViewSet).
THEOREM AlertsAreOneShot ==
  ASSUME Watch!AlertsAssumption
  PROVE  Watch!Spec => []Watch!OneShot
<1>1. ASSUME AlertInv, NEW a \in Alerts
      PROVE  announced[a] <= Watch!Cardinality(Workers) * (1 + edits[a])
  <2> DEFINE h == Cardinality(Holders(checking, a))
             j == Cardinality(Tellers(checking, a))
             g == Generation(edit[a], edits[a])
             all == Cardinality(Workers)
             k == announced[a]
             n == edits[a]
  <2>1. h \in Nat /\ j \in Nat /\ all \in Nat
    BY HoldersCount
  <2>2. alert[a] \in AlertRows /\ n \in Nat /\ k \in Nat /\ (g = n \/ g = n + 1)
    BY <1>1 DEF AlertInv, AlertTypes, Generation
  <2>3. OwesAtMost(h, j, alert[a], edit[a], n, k)
    BY <1>1 DEF AlertInv, Owed
  <2>4. alert[a].state \in {"none", "armed", "fired", "deleted"}
    BY <2>2 DEF AlertRows, Watch!Rows
  <2> HIDE DEF h, j, all, k, n
  <2> DEFINE owed == all * g
             grown == all * (n + 1)
  <2>5. /\ alert[a].state = "none" => k = 0
        /\ alert[a].state = "armed" => k + j + all <= owed
        /\ alert[a].state = "fired" => k + h <= owed
        /\ alert[a].state = "deleted" => k + j <= owed
    BY <2>3 DEF OwesAtMost, all, n
  <2>6. grown \in Nat /\ owed \in Nat /\ owed <= grown
    <3> HIDE DEF g
    <3>1. all * n \in Nat /\ all * (n + 1) = all * n + all
      BY <2>1, <2>2, ProductGrows
    <3>2. CASE g = n
      BY <2>1, <3>1, <3>2
    <3>3. CASE g = n + 1
      BY <2>1, <3>1, <3>3
    <3> QED
      BY <2>2, <3>2, <3>3
  <2> HIDE DEF owed, grown, g
  <2>7. k <= grown
    BY <2>1, <2>2, <2>4, <2>5, <2>6
  <2>8. Watch!Cardinality(Workers) = all
    BY DEF Watch!Cardinality, Cardinality, all
  <2>9. 1 + n = n + 1
    BY <2>2
  <2> QED
    BY <2>7, <2>8, <2>9 DEF grown, k, n
<1>2. AlertInv => Watch!OneShot
  BY <1>1 DEF Watch!OneShot
<1> QED
  BY <1>2, AlertInvariance, PTL

-----------------------------------------------------------------------------
(* CandleStore: how many requests fetch one history *)

(***************************************************************************)
(* FetchesAreBounded is inductive once the set of the requests in flight   *)
(* is known to be finite: the lock adds one and is gone with it, whoever   *)
(* deletes it, and a lock that runs out leaves its holder counted.         *)
(***************************************************************************)
WriterFields == {"pc", "got", "old"}
Flying == {"fetch", "fetched", "release"}
WritersAre == DOMAIN job = Store!Writers /\ \A w \in Store!Writers : DOMAIN job[w] = WriterFields
FetchInv ==
  /\ WritersAre /\ expired \in Nat /\ locked \in BOOLEAN
  /\ IsFiniteSet(Store!InFlight)
  /\ Cardinality(Store!InFlight) <= expired + (IF locked THEN 1 ELSE 0)

\* A step of one writer: who is in flight after it.
LEMMA OneWriterMoves ==
  ASSUME WritersAre, NEW w \in Store!Writers, NEW x, DOMAIN x = WriterFields,
         job' = [job EXCEPT ![w] = x]
  PROVE  /\ WritersAre'
         /\ Store!InFlight' = IF w \in Requests /\ x.pc \in Flying THEN Store!InFlight \cup {w}
                              ELSE Store!InFlight \ {w}
<1>1. DOMAIN job' = Store!Writers /\ job'[w] = x /\ \A v \in Store!Writers : v # w => job'[v] = job[v]
  BY DEF WritersAre
<1>2. Requests \subseteq Store!Writers
  BY DEF Store!Writers
<1>3. WritersAre'
  BY <1>1 DEF WritersAre, Store!Writers
<1> QED
  BY <1>1, <1>2, <1>3 DEF Store!InFlight, Flying

LEMMA FetchInit ==
  ASSUME Store!Init
  PROVE  FetchInv
<1>1. WritersAre /\ \A w \in Store!Writers : job[w].pc = "idle"
  BY DEF Store!Init, Store!Rest, WritersAre, WriterFields
<1>2. Store!InFlight = {}
  BY <1>1 DEF Store!InFlight, Store!Writers
<1>3. expired = 0 /\ locked = FALSE /\ Cardinality({}) = 0 /\ IsFiniteSet({})
  BY FS_EmptySet DEF Store!Init
<1>4. (IF locked THEN 1 ELSE 0) = 0 /\ locked \in BOOLEAN
  BY <1>3
<1> QED
  BY <1>1, <1>2, <1>3, <1>4 DEF FetchInv

\* A request that gets the lock is the one the lock counts.
LEMMA AskFetch ==
  ASSUME FetchInv, NEW r \in Requests, Store!Ask(r)
  PROVE  FetchInv'
<1> DEFINE x == [job[r] EXCEPT !.pc = "fetch"]
           F == Store!InFlight
<1>1. /\ job' = [job EXCEPT ![r] = x] /\ r \notin F /\ locked = FALSE /\ locked' = TRUE
      /\ expired' = expired /\ r \in Store!Writers
  BY DEF Store!Ask, Store!InFlight, Store!Writers, FetchInv
<1>2. DOMAIN x = WriterFields /\ x.pc \in Flying
  BY <1>1 DEF FetchInv, WritersAre, WriterFields, Flying
<1> HIDE DEF x
<1>3. F' = F \cup {r} /\ WritersAre'
  BY <1>1, <1>2, OneWriterMoves DEF FetchInv
<1>4. IsFiniteSet(F) /\ Cardinality(F) \in Nat /\ Cardinality(F) <= expired /\ expired \in Nat
  BY <1>1, FS_CardinalityType DEF FetchInv
<1> HIDE DEF F
<1>5. IsFiniteSet(F \cup {r}) /\ Cardinality(F \cup {r}) = Cardinality(F) + 1
  BY <1>1, <1>4, FS_AddElement
<1>6. IsFiniteSet(F') /\ Cardinality(F') <= expired + 1
  BY <1>3, <1>4, <1>5
<1>7. (IF locked' THEN 1 ELSE 0) = 1 /\ locked' \in BOOLEAN /\ expired' \in Nat
  BY <1>1, <1>4
<1> QED
  BY <1>1, <1>3, <1>6, <1>7 DEF F, FetchInv

\* The step that deletes the lock is the end of one that was counted.
LEMMA ReleaseFetch ==
  ASSUME FetchInv, NEW r \in Requests, Store!Release(r)
  PROVE  FetchInv'
<1> DEFINE F == Store!InFlight
<1>1. /\ job' = [job EXCEPT ![r] = Store!Rest] /\ r \in F /\ locked' = FALSE /\ expired' = expired
      /\ r \in Store!Writers
  BY DEF Store!Release, Store!InFlight, Store!Writers
<1>2. DOMAIN Store!Rest = WriterFields /\ Store!Rest.pc \notin Flying
  BY DEF Store!Rest, WriterFields, Flying
<1>3. F' = F \ {r} /\ WritersAre'
  BY <1>1, <1>2, OneWriterMoves DEF FetchInv
<1>4. IsFiniteSet(F) /\ Cardinality(F) \in Nat /\ Cardinality(F) <= expired + 1 /\ expired \in Nat
  BY FS_CardinalityType DEF FetchInv
<1> HIDE DEF F
<1>5. IsFiniteSet(F \ {r}) /\ Cardinality(F \ {r}) = Cardinality(F) - 1
  BY <1>1, <1>4, FS_RemoveElement
<1>6. IsFiniteSet(F') /\ Cardinality(F') <= expired
  BY <1>3, <1>4, <1>5
<1>7. (IF locked' THEN 1 ELSE 0) = 0 /\ locked' \in BOOLEAN /\ expired' \in Nat
  <2>1. locked' = FALSE
    BY <1>1
  <2>2. expired' \in Nat
    BY <1>1, <1>4
  <2> QED
    BY <2>1, <2>2
<1>8. Cardinality(F') <= expired' + 0
  BY <1>1, <1>4, <1>6
<1> QED
  BY <1>3, <1>6, <1>7, <1>8 DEF F, FetchInv

\* What a writer does between its start and its end.
LEMMA WriterStep ==
  ASSUME Store!StoreAssumption, FetchInv, NEW w \in Store!Writers,
         \/ w \in Jobs /\ (Store!Fetch(w) \/ Store!Read(w) \/ Store!Write(w))
         \/ w \in Requests /\ (Store!Fetched(w) \/ Store!Upsert(w))
  PROVE  FetchInv'
<1> DEFINE F == Store!InFlight
<1>1. locked' = locked /\ expired' = expired
  BY DEF Store!Fetch, Store!Read, Store!Write, Store!Fetched, Store!Upsert
<1>2. DOMAIN job[w] = WriterFields /\ DOMAIN Store!Rest = WriterFields
  BY DEF FetchInv, WritersAre, Store!Rest, WriterFields
<1>3. CASE w \in Jobs
  <2>1. w \notin Requests /\ w \notin F
    BY <1>3 DEF Store!StoreAssumption, Store!InFlight
  <2>2. PICK x : DOMAIN x = WriterFields /\ job' = [job EXCEPT ![w] = x]
    <3>1. CASE Store!Fetch(w)
      <4> DEFINE x == [Store!Rest EXCEPT !.pc = "fetched", !.got = Store!Answer]
      <4>1. DOMAIN x = WriterFields /\ job' = [job EXCEPT ![w] = x]
        BY <1>2, <3>1 DEF Store!Fetch
      <4> HIDE DEF x
      <4> QED
        BY <4>1
    <3>2. CASE Store!Read(w)
      <4> DEFINE x == [job[w] EXCEPT !.pc = "read", !.old = bars]
      <4>1. DOMAIN x = WriterFields /\ job' = [job EXCEPT ![w] = x]
        BY <1>2, <3>2 DEF Store!Read, FetchInv, WritersAre
      <4> HIDE DEF x
      <4> QED
        BY <4>1
    <3>3. CASE Store!Write(w)
      BY <1>2, <3>3 DEF Store!Write
    <3> QED
      BY <1>3, <2>1, <3>1, <3>2, <3>3
  <2>3. F' = F /\ WritersAre'
    BY <2>1, <2>2, OneWriterMoves DEF FetchInv
  <2> HIDE DEF F
  <2> QED
    BY <1>1, <2>3 DEF F, FetchInv
<1>4. CASE w \in Requests
  <2>1. PICK x : DOMAIN x = WriterFields /\ x.pc \in Flying /\ w \in F /\ job' = [job EXCEPT ![w] = x]
    <3>1. CASE Store!Fetched(w)
      <4> DEFINE x == [job[w] EXCEPT !.pc = "fetched", !.got = Store!Answer]
                 y == [job[w] EXCEPT !.pc = "release"]
      <4>1. job' = [job EXCEPT ![w] = x] \/ job' = [job EXCEPT ![w] = y]
        BY <3>1 DEF Store!Fetched, FetchInv, WritersAre
      <4>2. DOMAIN x = WriterFields /\ DOMAIN y = WriterFields /\ x.pc \in Flying /\ y.pc \in Flying
        BY <1>2 DEF WriterFields, Flying
      <4>3. w \in F
        BY <1>4, <3>1 DEF Store!Fetched, Store!InFlight
      <4> HIDE DEF x, y, F
      <4> QED
        BY <4>1, <4>2, <4>3
    <3>2. CASE Store!Upsert(w)
      <4>1. w \in F /\ job[w].pc = "fetched"
        BY <1>4, <3>2 DEF Store!Upsert, Store!InFlight
      <4> DEFINE y == [job[w] EXCEPT !.pc = "release"]
                 G(b) == [job[w].got EXCEPT ![b] = Store!Absent]
                 x(b) == [job[w] EXCEPT !.got = G(b)]
      <4>2. job' = [job EXCEPT ![w] = y] \/ \E b : job' = [job EXCEPT ![w] = x(b)]
        BY <3>2 DEF Store!Upsert, FetchInv, WritersAre
      <4>3. DOMAIN y = WriterFields /\ y.pc \in Flying
        BY <1>2 DEF WriterFields, Flying
      <4> HIDE DEF G
      <4>4. \A b : DOMAIN x(b) = WriterFields /\ x(b).pc \in Flying
        BY <1>2, <4>1 DEF WriterFields, Flying
      <4> HIDE DEF x, y, F
      <4> QED
        BY <4>1, <4>2, <4>3, <4>4
    <3> QED
      BY <1>3, <1>4, <3>1, <3>2 DEF Store!StoreAssumption
  <2>2. F' = F \cup {w} /\ WritersAre'
    BY <1>4, <2>1, OneWriterMoves DEF FetchInv
  <2> HIDE DEF F
  <2>3. F' = F
    BY <2>1, <2>2
  <2> QED
    BY <1>1, <2>2, <2>3 DEF F, FetchInv
<1> QED
  BY <1>3, <1>4

\* In every reachable state the requests in flight are finitely many and bounded by
\* the lock and the locks that ran out (get_option_candles).
THEOREM FetchInvariance ==
  ASSUME Store!StoreAssumption
  PROVE  Store!Spec => []FetchInv
<1>1. Store!Init => FetchInv
  BY FetchInit
<1>2. ASSUME FetchInv, [Store!Next]_Store!vars
      PROVE  FetchInv'
  <2>1. CASE Store!NextBar \/ Store!Trade \/ Store!Restart \/ UNCHANGED Store!vars
    <3>1. job' = job /\ locked' = locked /\ expired' = expired
      BY <2>1 DEF Store!NextBar, Store!Trade, Store!Restart, Store!vars
    <3> QED
      BY <1>2, <3>1 DEF FetchInv, WritersAre, Store!InFlight, Store!Writers
  <2>2. CASE Store!Expire
    <3>1. job' = job /\ locked = TRUE /\ locked' = FALSE /\ expired' = expired + 1 /\ expired \in Nat
      BY <1>2, <2>2 DEF Store!Expire, FetchInv
    <3>2. Store!InFlight' = Store!InFlight /\ WritersAre'
      BY <1>2, <3>1 DEF FetchInv, WritersAre, Store!InFlight, Store!Writers
    <3> DEFINE n == Cardinality(Store!InFlight)
    <3>3. n <= expired + 1 /\ IsFiniteSet(Store!InFlight) /\ n \in Nat
      BY <1>2, <3>1, FS_CardinalityType DEF FetchInv
    <3>4. (IF locked' THEN 1 ELSE 0) = 0 /\ locked' \in BOOLEAN /\ expired' \in Nat
      <4>1. locked' = FALSE
        BY <3>1
      <4>2. expired' \in Nat
        BY <3>1
      <4> QED
        BY <4>1, <4>2
    <3>5. n <= expired' + 0
      BY <3>1, <3>3
    <3> QED
      BY <3>2, <3>3, <3>4, <3>5 DEF FetchInv
  <2>3. Jobs \subseteq Store!Writers /\ Requests \subseteq Store!Writers
    BY DEF Store!Writers
  <2> QED
    BY <1>2, <2>1, <2>2, <2>3, AskFetch, ReleaseFetch, WriterStep
    DEF Store!Next, Store!Ingest, Store!Serve
<1> QED
  BY <1>1, <1>2, PTL DEF Store!Spec

\* No more fetches of one contract are under way at a time than one and one for every
\* lock that ran out, for any number of requests, although a late holder deletes the
\* lock of the next (get_option_candles).
THEOREM FetchesStayFew ==
  ASSUME Store!StoreAssumption
  PROVE  Store!Spec => []Store!FetchesAreBounded
<1>1. \A S : Store!Cardinality(S) = Cardinality(S)
  BY DEF Store!Cardinality, Cardinality
<1>2. FetchInv => Store!FetchesAreBounded
  BY <1>1 DEF FetchInv, Store!FetchesAreBounded
<1> QED
  BY <1>2, FetchInvariance, PTL

-----------------------------------------------------------------------------
(* ContractChart: what the chart of a contract shows *)

(***************************************************************************)
(* An answer is taken when its number is the newest, so what has to be     *)
(* known is that a request with that number asks for the selection, its    *)
(* own strike or, once, the nearest listed one; all others have smaller    *)
(* numbers. The socket is that of the values the second effect ran with    *)
(* last, and there is one or a reconnect exactly when it had both.         *)
(***************************************************************************)
Resolved(s) == IF s \in Contracts THEN s ELSE Chart!Nearest(s)
AsksFor(r, w) ==
  /\ w # Chart!None /\ r.frame = w.frame
  /\ \/ ~r.fallback /\ r.strike = w.strike
     \/ r.fallback /\ w.strike \notin Contracts /\ r.strike = Chart!Nearest(w.strike)
IsQuestion(r) == DOMAIN r = {"id", "strike", "frame", "fallback"} /\ r.fallback \in BOOLEAN /\ r.id \in Nat
NewestAsks ==
  /\ requestId \in Nat /\ wanted \in Chart!Selections \cup {Chart!None}
  /\ \A r \in questions : IsQuestion(r) /\ r.id <= requestId /\ (r.id = requestId => AsksFor(r, wanted))
ShownIsWanted ==
  /\ contract # 0 => wanted # Chart!None
  /\ candles # Chart!None =>
       /\ wanted # Chart!None /\ candles.frame = wanted.frame /\ candles.strike = contract
       /\ contract = Resolved(wanted.strike)
WireIsDrawn ==
  /\ drawn.wanted \in Chart!Selections \cup {Chart!None} /\ timer \in BOOLEAN
  /\ wire # Chart!None =>
       /\ DOMAIN wire = {"strike", "frame", "open"}
       /\ wire.strike = drawn.contract /\ wire.frame = drawn.wanted.frame
  /\ IF drawn.contract # 0 /\ drawn.wanted # Chart!None THEN (wire # Chart!None) # timer
     ELSE wire = Chart!None /\ ~timer
ChartInv == NewestAsks /\ ShownIsWanted /\ WireIsDrawn

\* A selection and a socket are not None.
LEMMA ThingsAreNotNone ==
  /\ \A s \in Chart!Selections : s # Chart!None /\ DOMAIN s = {"strike", "frame"}
  /\ \A a, b, c : [strike |-> a, frame |-> b, open |-> c] # Chart!None
  /\ \A a, b : [strike |-> a, frame |-> b] # Chart!None
<1>1. \A r : "strike" \in DOMAIN r => r # Chart!None
  BY DEF Chart!None
<1> QED
  BY <1>1 DEF Chart!Selections

LEMMA ChartInit ==
  ASSUME Chart!Init
  PROVE  ChartInv
BY DEF Chart!Init, ChartInv, NewestAsks, ShownIsWanted, WireIsDrawn

\* The second effect sets the socket up for what it is given.
LEMMA RewiredIsDrawn ==
  ASSUME NEW v, NEW s \in Chart!Selections \cup {Chart!None}, Chart!Rewired(v, s)
  PROVE  WireIsDrawn'
<1>1. /\ drawn'.contract = v /\ drawn'.wanted = s /\ timer' = FALSE
      /\ wire' = IF v = 0 \/ s = Chart!None THEN Chart!None
                 ELSE [strike |-> v, frame |-> s.frame, open |-> FALSE]
  BY DEF Chart!Rewired
<1>2. CASE v = 0 \/ s = Chart!None
  BY <1>1, <1>2 DEF WireIsDrawn
<1>3. CASE v # 0 /\ s # Chart!None
  <2>1. /\ wire' # Chart!None /\ wire'.strike = v /\ wire'.frame = s.frame
        /\ DOMAIN wire' = {"strike", "frame", "open"}
    BY <1>1, <1>3, ThingsAreNotNone
  <2> QED
    BY <1>1, <1>3, <2>1 DEF WireIsDrawn
<1> QED
  BY <1>2, <1>3

LEMMA SelectStep ==
  ASSUME ChartInv, NEW s \in Chart!Selections, Chart!Select(s)
  PROVE  ChartInv'
<1> DEFINE r == [id |-> requestId', strike |-> s.strike, frame |-> s.frame, fallback |-> FALSE]
<1>1. /\ wanted' = s /\ requestId' = requestId + 1 /\ contract' = 0 /\ candles' = Chart!None
      /\ questions' = questions \cup {r}
  BY DEF Chart!Select
<1>2. s # Chart!None /\ requestId \in Nat /\ requestId' \in Nat
  BY <1>1, ThingsAreNotNone DEF ChartInv, NewestAsks
<1>3. IsQuestion(r) /\ r.id = requestId' /\ AsksFor(r, s)
  BY <1>2 DEF IsQuestion, AsksFor
<1>4. \A q \in questions : IsQuestion(q) /\ q.id <= requestId' /\ q.id # requestId'
  BY <1>1, <1>2 DEF ChartInv, NewestAsks, IsQuestion
<1> HIDE DEF r
<1>5. NewestAsks'
  BY <1>1, <1>2, <1>3, <1>4 DEF NewestAsks
<1>6. ShownIsWanted'
  BY <1>1 DEF ShownIsWanted
<1>7. WireIsDrawn'
  <2>1. CASE Chart!Rewired(contract, s)
    BY <2>1, RewiredIsDrawn
  <2>2. CASE UNCHANGED <<drawn, wire, timer>>
    BY <2>2 DEF ChartInv, WireIsDrawn
  <2> QED
    BY <2>1, <2>2 DEF Chart!Select
<1> QED
  BY <1>5, <1>6, <1>7 DEF ChartInv

LEMMA AnswersStep ==
  ASSUME Chart!ChartAssumption, ChartInv, NEW r \in questions,
         Chart!Answer(r) \/ Chart!NotListed(r) \/ Chart!Fail(r)
  PROVE  ChartInv'
<1>1. UNCHANGED <<wanted, requestId, drawn, wire, timer>>
  BY DEF Chart!Answer, Chart!NotListed, Chart!Fail
<1>2. WireIsDrawn'
  BY <1>1 DEF ChartInv, WireIsDrawn
<1>3. CASE Chart!Answer(r)
  <2>1. NewestAsks'
    BY <1>1, <1>3 DEF Chart!Answer, ChartInv, NewestAsks
  <2>2. CASE r.id = requestId
    <3>1. /\ contract' = r.strike /\ r.strike \in Contracts
          /\ candles' = [strike |-> r.strike, frame |-> r.frame]
      BY <1>3, <2>2 DEF Chart!Answer
    <3>2. candles'.strike = r.strike /\ candles'.frame = r.frame
      BY <3>1
    <3>3. AsksFor(r, wanted)
      BY <2>2 DEF ChartInv, NewestAsks
    <3>4. r.strike = Resolved(wanted.strike)
      BY <3>1, <3>3 DEF AsksFor, Resolved
    <3>5. ShownIsWanted'
      BY <1>1, <3>1, <3>2, <3>3, <3>4 DEF ShownIsWanted, AsksFor
    <3> QED
      BY <1>2, <2>1, <3>5 DEF ChartInv
  <2>3. CASE r.id # requestId
    <3>1. ShownIsWanted'
      BY <1>1, <1>3, <2>3 DEF Chart!Answer, ChartInv, ShownIsWanted
    <3> QED
      BY <1>2, <2>1, <3>1 DEF ChartInv
  <2> QED
    BY <2>2, <2>3
<1>4. CASE Chart!NotListed(r)
  <2> DEFINE q == [r EXCEPT !.strike = Chart!Nearest(r.strike), !.fallback = TRUE]
  <2>1. ShownIsWanted'
    BY <1>1, <1>4 DEF Chart!NotListed, ChartInv, ShownIsWanted
  <2>2. CASE r.id = requestId /\ ~r.fallback /\ questions' = (questions \ {r}) \cup {q}
    <3>1. IsQuestion(r) /\ AsksFor(r, wanted) /\ r.strike \notin Contracts
      BY <1>4, <2>2 DEF Chart!NotListed, ChartInv, NewestAsks
    <3>2. IsQuestion(q) /\ q.id = requestId
      BY <2>2, <3>1 DEF IsQuestion
    <3>3. AsksFor(q, wanted)
      BY <2>2, <3>1 DEF IsQuestion, AsksFor
    <3> HIDE DEF q
    <3>4. NewestAsks'
      BY <1>1, <2>2, <3>2, <3>3 DEF ChartInv, NewestAsks
    <3> QED
      BY <1>2, <2>1, <3>4 DEF ChartInv
  <2>3. CASE questions' = questions \ {r}
    <3>1. NewestAsks'
      BY <1>1, <2>3 DEF ChartInv, NewestAsks
    <3> QED
      BY <1>2, <2>1, <3>1 DEF ChartInv
  <2> QED
    BY <1>4, <2>2, <2>3 DEF Chart!NotListed
<1>5. CASE Chart!Fail(r)
  <2>1. ShownIsWanted' /\ NewestAsks'
    BY <1>1, <1>5 DEF Chart!Fail, ChartInv, ShownIsWanted, NewestAsks
  <2> QED
    BY <1>2, <2>1 DEF ChartInv
<1> QED
  BY <1>3, <1>4, <1>5

LEMMA WireStep ==
  ASSUME ChartInv,
         \/ Chart!Render \/ Chart!Open \/ Chart!Close \/ Chart!Reconnect
         \/ \E t \in Chart!Times : Chart!Push(t)
         \/ UNCHANGED Chart!vars
  PROVE  ChartInv'
<1>1. UNCHANGED <<wanted, requestId, questions, contract, candles>>
  BY DEF Chart!Render, Chart!Open, Chart!Close, Chart!Reconnect, Chart!Push, Chart!vars
<1>2. NewestAsks' /\ ShownIsWanted'
  BY <1>1 DEF ChartInv, NewestAsks, ShownIsWanted
<1>3. CASE Chart!Render
  <2>1. WireIsDrawn'
    BY <1>3, RewiredIsDrawn DEF Chart!Render, ChartInv, NewestAsks
  <2> QED
    BY <1>2, <2>1 DEF ChartInv
<1>4. CASE Chart!Open
  <2> DEFINE x == [wire EXCEPT !.open = TRUE]
  <2>1. wire # Chart!None /\ wire' = x /\ UNCHANGED <<drawn, timer>>
    BY <1>4 DEF Chart!Open
  <2>2. DOMAIN x = {"strike", "frame", "open"} /\ x.strike = wire.strike /\ x.frame = wire.frame
    BY <2>1 DEF ChartInv, WireIsDrawn
  <2>3. x # Chart!None
    BY <2>2 DEF Chart!None
  <2> HIDE DEF x
  <2>4. WireIsDrawn'
    BY <2>1, <2>2, <2>3 DEF ChartInv, WireIsDrawn
  <2> QED
    BY <1>2, <2>4 DEF ChartInv
<1>5. CASE Chart!Close
  <2>1. WireIsDrawn'
    BY <1>5 DEF Chart!Close, ChartInv, WireIsDrawn
  <2> QED
    BY <1>2, <2>1 DEF ChartInv
<1>6. CASE Chart!Reconnect
  <2>1. /\ timer /\ timer' = FALSE /\ drawn' = drawn
        /\ wire' = [strike |-> drawn.contract, frame |-> drawn.wanted.frame, open |-> FALSE]
    BY <1>6 DEF Chart!Reconnect, ChartInv, WireIsDrawn
  <2>2. /\ wire' # Chart!None /\ DOMAIN wire' = {"strike", "frame", "open"}
        /\ wire'.strike = drawn.contract /\ wire'.frame = drawn.wanted.frame
    BY <2>1, ThingsAreNotNone
  <2>3. /\ drawn.contract # 0 /\ drawn.wanted # Chart!None
        /\ drawn.wanted \in Chart!Selections \cup {Chart!None}
    BY <2>1 DEF ChartInv, WireIsDrawn
  <2>4. (wire' # Chart!None) # timer'
    BY <2>1, <2>2
  <2>5. WireIsDrawn'
    BY <2>1, <2>2, <2>3, <2>4 DEF WireIsDrawn
  <2> QED
    BY <1>2, <2>5 DEF ChartInv
<1>7. CASE UNCHANGED <<drawn, wire, timer>>
  <2>1. WireIsDrawn'
    BY <1>7 DEF ChartInv, WireIsDrawn
  <2> QED
    BY <1>2, <2>1 DEF ChartInv
<1> QED
  BY <1>3, <1>4, <1>5, <1>6, <1>7 DEF Chart!Push, Chart!vars

\* In every reachable state the newest request asks for the selection and the socket
\* is the one the last run of the second effect set up (useOptionCandles.js).
THEOREM ChartInvariance ==
  ASSUME Chart!ChartAssumption
  PROVE  Chart!Spec => []ChartInv
<1>1. Chart!Init => ChartInv
  BY ChartInit
<1>2. ChartInv /\ [Chart!Next]_Chart!vars => ChartInv'
  BY SelectStep, AnswersStep, WireStep DEF Chart!Next
<1> QED
  BY <1>1, <1>2, PTL DEF Chart!Spec

\* The history on the chart is the newest selection's, its own strike's or the
\* nearest listed one's, in whatever order the answers come; after the render due
\* the socket is that contract's, and there is one or a reconnect, not both.
THEOREM ChartIsOfTheSelection ==
  ASSUME Chart!ChartAssumption
  PROVE  Chart!Spec => []Chart!ChartShowsTheSelection
<1>1. ASSUME ChartInv
      PROVE  Chart!ChartShowsTheSelection
  <2>1. ASSUME ~Chart!DueRender, drawn.wanted # wanted
        PROVE  drawn.wanted # Chart!None /\ wanted # Chart!None /\ drawn.wanted.frame = wanted.frame
    BY <1>1, <2>1 DEF Chart!DueRender, Chart!Frame, ChartInv, WireIsDrawn, NewestAsks
  <2>2. ~Chart!DueRender => drawn.contract = contract
    BY DEF Chart!DueRender
  <2>3. ~Chart!DueRender =>
          /\ wire # Chart!None => wire.strike = contract /\ wire.frame = wanted.frame
          /\ contract # 0 => (wire # Chart!None) # timer
          /\ contract = 0 => wire = Chart!None /\ ~timer
    BY <1>1, <2>1, <2>2 DEF ChartInv, WireIsDrawn, ShownIsWanted
  <2> QED
    BY <1>1, <2>3 DEF ChartInv, ShownIsWanted, Resolved, Chart!ChartShowsTheSelection
<1> QED
  BY <1>1, ChartInvariance, PTL

-----------------------------------------------------------------------------
(* OptionPage: whose chain is on the screen *)

(***************************************************************************)
(* A request that still holds was made for what is selected: a new         *)
(* selection revokes the former ones in the step that replaces it. The     *)
(* chain is the selection's unless such a request is out, the newest one   *)
(* has failed, or no expiry is known; this has to be said of no chain too, *)
(* because a tick starts one.                                              *)
(***************************************************************************)
HeldOf(Q, kind) == {r \in Q : r.kind = kind /\ r.holds}
AreInquiries(Q) ==
  \A r \in Q : DOMAIN r = {"kind", "underlying", "expiry", "holds"} /\ r.holds \in BOOLEAN
HeldAreOf(Q, u, e) ==
  /\ \A r \in HeldOf(Q, "chain") : r.underlying = u /\ r.expiry = e
  /\ \A r \in HeldOf(Q, "spot") : r.underlying = u
Loaded(c, e) == c # View!None /\ c.rest = e /\ c.ticks \subseteq {e}
IsChain(c, u) == c = View!None \/ (DOMAIN c = {"underlying", "rest", "ticks"} /\ c.underlying = u)
ChainIsDue(Q, c, e, f) == HeldOf(Q, "chain") # {} \/ f \/ e = 0 \/ Loaded(c, e)
PageInv ==
  /\ AreInquiries(inquiries) /\ HeldAreOf(inquiries, underlying, expiry)
  /\ IsChain(chain, underlying) /\ ChainIsDue(inquiries, chain, expiry, failed)
  /\ spot \in {underlying, "none"}

\* What the clean-up of an effect leaves of the requests of each kind.
LEMMA SupersededHolds ==
  ASSUME NEW Q, AreInquiries(Q), NEW K
  PROVE  /\ AreInquiries(View!Superseded(Q, K))
         /\ \A kind \in K : HeldOf(View!Superseded(Q, K), kind) = {}
         /\ \A kind : kind \notin K => HeldOf(View!Superseded(Q, K), kind) = HeldOf(Q, kind)
<1> DEFINE Off(r) == [r EXCEPT !.holds = FALSE]
           S == View!Superseded(Q, K)
<1>1. \A r \in Q : /\ DOMAIN Off(r) = {"kind", "underlying", "expiry", "holds"}
                   /\ Off(r).kind = r.kind /\ Off(r).holds = FALSE
  BY DEF AreInquiries
<1>2. S = {IF r.kind \in K THEN Off(r) ELSE r : r \in Q}
  BY DEF View!Superseded
<1> HIDE DEF Off, S
<1>3. AreInquiries(S)
  BY <1>1, <1>2 DEF AreInquiries
<1>4. \A kind \in K : HeldOf(S, kind) = {}
  BY <1>1, <1>2 DEF HeldOf
<1>5. ASSUME NEW kind, kind \notin K
      PROVE  HeldOf(S, kind) = HeldOf(Q, kind)
  BY <1>1, <1>2, <1>5 DEF HeldOf
<1> QED
  BY <1>3, <1>4, <1>5 DEF S

\* One more request that holds.
Plus(Q, kind, u, e) == Q \cup {View!Ask(kind, u, e)}
LEMMA AskedHolds ==
  ASSUME NEW Q, AreInquiries(Q), NEW kind, NEW u, NEW e
  PROVE  /\ AreInquiries(Plus(Q, kind, u, e))
         /\ HeldOf(Plus(Q, kind, u, e), kind) = HeldOf(Q, kind) \cup {View!Ask(kind, u, e)}
         /\ \A k : k # kind => HeldOf(Plus(Q, kind, u, e), k) = HeldOf(Q, k)
         /\ View!Ask(kind, u, e).underlying = u /\ View!Ask(kind, u, e).expiry = e
<1> DEFINE q == View!Ask(kind, u, e)
<1>1. /\ DOMAIN q = {"kind", "underlying", "expiry", "holds"} /\ q.kind = kind /\ q.holds = TRUE
      /\ q.underlying = u /\ q.expiry = e
  BY DEF View!Ask
<1>2. Plus(Q, kind, u, e) = Q \cup {q}
  BY DEF Plus
<1> HIDE DEF q
<1>3. AreInquiries(Q \cup {q})
  BY <1>1 DEF AreInquiries
<1>4. HeldOf(Q \cup {q}, kind) = HeldOf(Q, kind) \cup {q}
  BY <1>1 DEF HeldOf
<1>5. \A k : k # kind => HeldOf(Q \cup {q}, k) = HeldOf(Q, k)
  BY <1>1 DEF HeldOf
<1> QED
  BY <1>1, <1>2, <1>3, <1>4, <1>5 DEF q

\* The chain's effect revokes its former request and makes one for the selection.
LEMMA ReloadedHolds ==
  ASSUME NEW Q, AreInquiries(Q), NEW u, NEW e
  PROVE  /\ AreInquiries(View!Reloaded(Q, u, e))
         /\ HeldOf(View!Reloaded(Q, u, e), "chain") = IF e = 0 THEN {} ELSE {View!Ask("chain", u, e)}
         /\ \A k : k # "chain" => HeldOf(View!Reloaded(Q, u, e), k) = HeldOf(Q, k)
         /\ View!Ask("chain", u, e).underlying = u /\ View!Ask("chain", u, e).expiry = e
<1> DEFINE S == View!Superseded(Q, {"chain"})
<1>1. AreInquiries(S) /\ HeldOf(S, "chain") = {} /\ \A k : k # "chain" => HeldOf(S, k) = HeldOf(Q, k)
  BY SupersededHolds
<1>2. View!Reloaded(Q, u, e) = IF e = 0 THEN S ELSE Plus(S, "chain", u, e)
  BY DEF View!Reloaded, Plus
<1> HIDE DEF S
<1>3. /\ AreInquiries(Plus(S, "chain", u, e))
      /\ HeldOf(Plus(S, "chain", u, e), "chain") = {View!Ask("chain", u, e)}
      /\ \A k : k # "chain" => HeldOf(Plus(S, "chain", u, e), k) = HeldOf(Q, k)
      /\ View!Ask("chain", u, e).underlying = u /\ View!Ask("chain", u, e).expiry = e
  BY <1>1, AskedHolds
<1> QED
  BY <1>1, <1>2, <1>3

LEMMA FewerHolds ==
  ASSUME NEW Q, AreInquiries(Q), NEW r
  PROVE  /\ AreInquiries(Q \ {r})
         /\ \A k : r.kind # k \/ ~r.holds => HeldOf(Q \ {r}, k) = HeldOf(Q, k)
         /\ \A k : HeldOf(Q \ {r}, k) \subseteq HeldOf(Q, k)
BY DEF AreInquiries, HeldOf

LEMMA PageInit ==
  ASSUME View!Init
  PROVE  PageInv
<1>1. AreInquiries(inquiries) /\ HeldOf(inquiries, "chain") = {}
  BY DEF View!Init, View!Ask, AreInquiries, HeldOf
<1>2. \A r \in HeldOf(inquiries, "spot") : r.underlying = underlying
  BY DEF View!Init, View!Ask, HeldOf
<1> QED
  BY <1>1, <1>2 DEF View!Init, PageInv, HeldAreOf, IsChain, ChainIsDue

\* A selection of another underlying.
LEMMA UnderlyingStep ==
  ASSUME PageInv, NEW u, View!ChooseUnderlying(u)
  PROVE  PageInv'
<1> DEFINE A == View!Superseded(inquiries, {"spot"})
           B == View!Reloaded(A, u, expiry)
           C == Plus(B, "status", u, 0)
           D == Plus(C, "spot", u, 0)
<1>1. /\ inquiries' = D /\ underlying' = u /\ expiry' = expiry
      /\ chain' = View!None /\ spot' = "none" /\ failed' = FALSE
  BY DEF View!ChooseUnderlying, Plus
<1>2. AreInquiries(A) /\ HeldOf(A, "spot") = {}
  BY SupersededHolds DEF PageInv
<1> HIDE DEF A
<1>3. /\ AreInquiries(B) /\ HeldOf(B, "spot") = {}
      /\ HeldOf(B, "chain") = IF expiry = 0 THEN {} ELSE {View!Ask("chain", u, expiry)}
      /\ View!Ask("chain", u, expiry).underlying = u /\ View!Ask("chain", u, expiry).expiry = expiry
  BY <1>2, ReloadedHolds
<1> HIDE DEF B
<1>4. AreInquiries(C) /\ HeldOf(C, "spot") = {} /\ HeldOf(C, "chain") = HeldOf(B, "chain")
  BY <1>3, AskedHolds
<1> HIDE DEF C
<1>5. /\ AreInquiries(D) /\ HeldOf(D, "spot") = {View!Ask("spot", u, 0)}
      /\ HeldOf(D, "chain") = HeldOf(B, "chain") /\ View!Ask("spot", u, 0).underlying = u
  BY <1>4, AskedHolds
<1> HIDE DEF D
<1>6. AreInquiries(inquiries') /\ HeldAreOf(inquiries', u, expiry)
  BY <1>1, <1>3, <1>5 DEF HeldAreOf
<1>7. ChainIsDue(inquiries', chain', expiry, failed')
  BY <1>1, <1>3, <1>5 DEF ChainIsDue
<1> QED
  BY <1>1, <1>6, <1>7 DEF PageInv, IsChain

\* The expiry of the selection becomes e; the requests in between are Q.
LEMMA ExpiryStep ==
  ASSUME PageInv, NEW Q, AreInquiries(Q), HeldOf(Q, "chain") = HeldOf(inquiries, "chain"),
         HeldOf(Q, "spot") = HeldOf(inquiries, "spot"), NEW e, View!ExpiryBecomes(e, Q),
         UNCHANGED <<underlying, chain, spot>>
  PROVE  PageInv'
<1>1. CASE e = expiry
  <2>1. expiry' = expiry /\ inquiries' = Q /\ failed' = failed
    BY <1>1 DEF View!ExpiryBecomes
  <2>2. HeldAreOf(Q, underlying, expiry) /\ ChainIsDue(Q, chain, expiry, failed)
    BY DEF PageInv, HeldAreOf, ChainIsDue
  <2> QED
    BY <2>1, <2>2 DEF PageInv
<1>2. CASE e # expiry
  <2> DEFINE B == View!Reloaded(Q, underlying, e)
  <2>1. expiry' = e /\ inquiries' = B
    BY <1>2 DEF View!ExpiryBecomes
  <2>2. /\ AreInquiries(B) /\ HeldOf(B, "spot") = HeldOf(inquiries, "spot")
        /\ HeldOf(B, "chain") = IF e = 0 THEN {} ELSE {View!Ask("chain", underlying, e)}
        /\ View!Ask("chain", underlying, e).underlying = underlying
        /\ View!Ask("chain", underlying, e).expiry = e
    BY ReloadedHolds
  <2> HIDE DEF B
  <2>3. HeldAreOf(B, underlying, e)
    BY <2>2 DEF PageInv, HeldAreOf
  <2>4. ChainIsDue(B, chain, e, failed')
    BY <2>2 DEF ChainIsDue
  <2> QED
    BY <2>1, <2>2, <2>3, <2>4 DEF PageInv
<1> QED
  BY <1>1, <1>2

\* An answer that leaves the selection alone.
LEMMA PageAnswers ==
  ASSUME PageInv, NEW r \in inquiries, View!Chain(r) \/ View!Strike(r) \/ View!Spot(r)
  PROVE  PageInv'
<1>1. inquiries' = inquiries \ {r} /\ UNCHANGED <<underlying, expiry>>
  BY DEF View!Chain, View!Strike, View!Spot
<1>2. /\ AreInquiries(inquiries \ {r})
      /\ \A k : r.kind # k \/ ~r.holds => HeldOf(inquiries \ {r}, k) = HeldOf(inquiries, k)
      /\ \A k : HeldOf(inquiries \ {r}, k) \subseteq HeldOf(inquiries, k)
  BY FewerHolds DEF PageInv
<1>3. HeldAreOf(inquiries \ {r}, underlying, expiry)
  BY <1>2 DEF PageInv, HeldAreOf
<1>4. CASE View!Chain(r) /\ r.holds
  <2>1. r.underlying = underlying /\ r.expiry = expiry /\ spot' = spot
    BY <1>4 DEF View!Chain, PageInv, HeldAreOf, HeldOf
  <2>2. CASE failed' = TRUE /\ chain' = chain
    BY <1>1, <1>2, <1>3, <2>1, <2>2 DEF PageInv, ChainIsDue
  <2>3. CASE chain' = [underlying |-> r.underlying, rest |-> r.expiry, ticks |-> {}]
    <3>1. chain' # View!None
      <4>1. "rest" \in DOMAIN chain' /\ "rest" \notin DOMAIN View!None
        BY <2>3 DEF View!None
      <4> QED
        BY <4>1
    <3>2. Loaded(chain', expiry) /\ IsChain(chain', underlying)
      BY <2>1, <2>3, <3>1 DEF Loaded, IsChain
    <3> QED
      BY <1>1, <1>2, <1>3, <2>1, <3>2 DEF PageInv, ChainIsDue
  <2> QED
    BY <1>4, <2>2, <2>3 DEF View!Chain
<1>5. CASE ~(View!Chain(r) /\ r.holds)
  <2>1. UNCHANGED <<chain, failed>> /\ HeldOf(inquiries \ {r}, "chain") = HeldOf(inquiries, "chain")
    BY <1>2, <1>5 DEF View!Chain, View!Strike, View!Spot
  <2>2. ChainIsDue(inquiries \ {r}, chain, expiry, failed)
    BY <2>1 DEF PageInv, ChainIsDue
  <2>3. spot' \in {underlying, "none"}
    BY <1>5 DEF View!Chain, View!Strike, View!Spot, PageInv, HeldAreOf, HeldOf
  <2> QED
    BY <1>1, <1>2, <1>3, <2>1, <2>2, <2>3 DEF PageInv
<1> QED
  BY <1>4, <1>5

\* The poll, a click for a strike, a tick of the selection.
LEMMA PageSteps ==
  ASSUME PageInv,
         \/ View!Poll \/ View!AskStrike \/ UNCHANGED View!vars
         \/ \E u \in View!Underlyings : View!Roll(u)
         \/ \E e \in View!Expiries, u \in View!Underlyings : View!Tick(u, e)
  PROVE  PageInv'
<1>1. UNCHANGED <<underlying, expiry, spot, failed>>
  BY DEF View!Poll, View!AskStrike, View!Roll, View!Tick, View!vars
<1>2. CASE View!Poll
  <2> DEFINE Q == Plus(inquiries, "status", underlying, 0)
  <2>1. inquiries' = Q /\ chain' = chain
    BY <1>2 DEF View!Poll, Plus
  <2>2. /\ AreInquiries(Q) /\ HeldOf(Q, "chain") = HeldOf(inquiries, "chain")
        /\ HeldOf(Q, "spot") = HeldOf(inquiries, "spot")
    BY AskedHolds DEF PageInv
  <2> HIDE DEF Q
  <2>3. /\ HeldAreOf(Q, underlying, expiry)
        /\ ChainIsDue(Q, chain, expiry, failed)
    BY <2>2 DEF PageInv, HeldAreOf, ChainIsDue
  <2> QED
    BY <1>1, <2>1, <2>2, <2>3 DEF PageInv
<1>3. CASE View!AskStrike
  <2> DEFINE A == View!Superseded(inquiries, {"strike"})
             Q == Plus(A, "strike", underlying, expiry)
  <2>1. inquiries' = Q /\ chain' = chain
    BY <1>3 DEF View!AskStrike, Plus
  <2>2. /\ AreInquiries(A) /\ HeldOf(A, "chain") = HeldOf(inquiries, "chain")
        /\ HeldOf(A, "spot") = HeldOf(inquiries, "spot")
    BY SupersededHolds DEF PageInv
  <2> HIDE DEF A
  <2>3. /\ AreInquiries(Q) /\ HeldOf(Q, "chain") = HeldOf(inquiries, "chain")
        /\ HeldOf(Q, "spot") = HeldOf(inquiries, "spot")
    BY <2>2, AskedHolds
  <2> HIDE DEF Q
  <2>4. HeldAreOf(Q, underlying, expiry) /\ ChainIsDue(Q, chain, expiry, failed)
    BY <2>3 DEF PageInv, HeldAreOf, ChainIsDue
  <2> QED
    BY <1>1, <2>1, <2>3, <2>4 DEF PageInv
<1>4. ASSUME NEW e \in View!Expiries, NEW u \in View!Underlyings, View!Tick(u, e)
      PROVE  PageInv'
  <2>1. e = expiry /\ inquiries' = inquiries
    BY <1>4 DEF View!Tick
  <2>2. CASE chain = View!None
    <3>1. chain' = [underlying |-> underlying, rest |-> 0, ticks |-> {e}]
      BY <1>4, <2>2 DEF View!Tick
    <3>2. IsChain(chain', underlying) /\ ~Loaded(chain, expiry)
      BY <2>2, <3>1 DEF IsChain, Loaded
    <3> QED
      BY <1>1, <2>1, <3>2 DEF PageInv, ChainIsDue
  <2>3. CASE chain # View!None
    <3> DEFINE x == [chain EXCEPT !.ticks = @ \cup {e}]
    <3>1. chain' = x
      BY <1>4, <2>3 DEF View!Tick
    <3>2. /\ DOMAIN x = {"underlying", "rest", "ticks"} /\ x.underlying = underlying
          /\ x.rest = chain.rest /\ x.ticks = chain.ticks \cup {e}
      BY <2>3 DEF PageInv, IsChain
    <3> HIDE DEF x
    <3>3. x # View!None
      BY <3>2 DEF View!None
    <3>4. Loaded(chain, expiry) => Loaded(x, expiry)
      BY <2>1, <3>2, <3>3 DEF Loaded
    <3> QED
      BY <1>1, <2>1, <3>1, <3>2, <3>4 DEF PageInv, IsChain, ChainIsDue
  <2> QED
    BY <2>2, <2>3
<1>5. CASE UNCHANGED <<inquiries, chain>>
  BY <1>1, <1>5 DEF PageInv
<1> QED
  BY <1>2, <1>3, <1>4, <1>5 DEF View!Roll, View!vars

\* In every reachable state the requests that still hold are for the selection
\* (the effects' clean-ups in OptionsAnalytics.jsx).
THEOREM PageInvariance ==
  View!Spec => []PageInv
<1>1. View!Init => PageInv
  BY PageInit
<1>2. ASSUME PageInv, [View!Next]_View!vars
      PROVE  PageInv'
  <2>1. ASSUME NEW u \in View!Underlyings, View!ChooseUnderlying(u)
        PROVE  PageInv'
    BY <1>2, <2>1, UnderlyingStep
  <2>2. ASSUME NEW e \in View!Expiries, View!ChooseExpiry(e)
        PROVE  PageInv'
    <3>1. View!ExpiryBecomes(e, inquiries) /\ UNCHANGED <<underlying, chain, spot>>
      BY <2>2 DEF View!ChooseExpiry
    <3> QED
      BY <1>2, <3>1, ExpiryStep DEF PageInv
  <2>3. ASSUME NEW r \in inquiries, View!Status(r)
        PROVE  PageInv'
    <3> DEFINE Q == inquiries \ {r}
    <3>1. PICK e : View!ExpiryBecomes(e, Q) /\ UNCHANGED <<underlying, chain, spot>>
      BY <2>3 DEF View!Status
    <3>2. AreInquiries(Q) /\ \A k : k # "status" => HeldOf(Q, k) = HeldOf(inquiries, k)
      BY <1>2, <2>3, FewerHolds DEF View!Status, PageInv
    <3> HIDE DEF Q
    <3> QED
      BY <1>2, <3>1, <3>2, ExpiryStep
  <2> QED
    BY <1>2, <2>1, <2>2, <2>3, PageAnswers, PageSteps DEF View!Next
<1> QED
  BY <1>1, <1>2, PTL DEF View!Spec

\* The chain on screen is the selected underlying's, and the selected expiry's unless
\* its request is out or has failed, whatever slow answer comes back, for any listing.
THEOREM ChainIsTheSelection ==
  View!Spec => []View!ChainIsOfTheSelection
<1>1. PageInv => View!ChainIsOfTheSelection
  BY DEF PageInv, IsChain, ChainIsDue, Loaded, HeldOf, View!ChainIsOfTheSelection
<1> QED
  BY <1>1, PageInvariance, PTL

-----------------------------------------------------------------------------
(* Drishti: what runs confirmed was asked first *)

(***************************************************************************)
(* An exchange that is sent with confirm follows a question: the panel     *)
(* waits, or the microphone was started, only after one came back, a       *)
(* question stays one, and exchanges are sent in their order, so whatever  *)
(* is sent now is later than it.                                           *)
(***************************************************************************)
ExchangeFields == {"stage", "action", "confirm", "outcome"}
Question(x) == x.outcome = "asked"
Unhandled == {"unsent", "sent", "left"}
AreExchanges(X) ==
  /\ DOMAIN X = Chat!Exchanges
  /\ \A e \in Chat!Exchanges :
       /\ DOMAIN X[e] = ExchangeFields
       /\ X[e].stage \in Unhandled => X[e].outcome = "none"
       /\ X[e].stage = "unsent" => X[e].confirm = FALSE
SentInOrder(X) ==
  \A d, e \in Chat!Exchanges : d < e /\ X[e].stage # "unsent" => X[d].stage # "unsent"
SomeAsked(X) == \E d \in Chat!Exchanges : Question(X[d])
AskedBefore(X, e) == \E d \in 1..(e - 1) : Question(X[d])
ConfirmsFollow(X) ==
  \A e \in Chat!Exchanges :
    X[e].confirm = TRUE \/ (X[e].outcome = "ran" /\ X[e].action = "restricted") => AskedBefore(X, e)
ChatInv ==
  /\ MaxExchanges \in Nat
  /\ AreExchanges(exchange) /\ SentInOrder(exchange) /\ ConfirmsFollow(exchange)
  /\ waiting \in BOOLEAN
  /\ waiting \/ mic = "confirm" => SomeAsked(exchange)

LEMMA ChatInit ==
  ASSUME Chat!DrishtiAssumption, Chat!Init
  PROVE  ChatInv
<1>1. MaxExchanges \in Nat
  BY DEF Chat!DrishtiAssumption
<1>2. DOMAIN exchange = Chat!Exchanges /\ \A e \in Chat!Exchanges : exchange[e] = Chat!Unsent
  BY DEF Chat!Init
<1>3. /\ DOMAIN Chat!Unsent = ExchangeFields /\ Chat!Unsent.stage = "unsent"
      /\ Chat!Unsent.confirm = FALSE /\ Chat!Unsent.outcome = "none"
  BY DEF Chat!Unsent, ExchangeFields
<1>4. AreExchanges(exchange) /\ SentInOrder(exchange) /\ ConfirmsFollow(exchange)
  BY <1>2, <1>3 DEF AreExchanges, SentInOrder, ConfirmsFollow
<1>5. waiting = FALSE /\ mic = "off"
  BY DEF Chat!Init
<1> QED
  BY <1>1, <1>4, <1>5 DEF ChatInv

\* One exchange becomes x, which stays a question if it was one.
LEMMA OneExchangeMoves ==
  ASSUME MaxExchanges \in Nat, NEW X, AreExchanges(X), SentInOrder(X), ConfirmsFollow(X),
         NEW e \in Chat!Exchanges, NEW x, DOMAIN x = ExchangeFields, x.stage # "unsent",
         x.stage \in Unhandled => x.outcome = "none",
         \A d \in 1..(e - 1) : X[d].stage # "unsent",
         Question(X[e]) => Question(x),
         x.confirm = TRUE \/ (x.outcome = "ran" /\ x.action = "restricted") => AskedBefore(X, e),
         NEW Y, Y = [X EXCEPT ![e] = x]
  PROVE  /\ AreExchanges(Y) /\ SentInOrder(Y) /\ ConfirmsFollow(Y)
         /\ SomeAsked(X) => SomeAsked(Y)
<1>1. /\ DOMAIN Y = Chat!Exchanges /\ Y[e] = x
      /\ \A d \in Chat!Exchanges : d # e => Y[d] = X[d]
  BY DEF AreExchanges
<1>2. \A d \in Chat!Exchanges : Question(X[d]) => Question(Y[d])
  BY <1>1
<1>3. AreExchanges(Y)
  BY <1>1 DEF AreExchanges
<1>4. SentInOrder(Y)
  BY <1>1 DEF SentInOrder, Chat!Exchanges
<1>5. ASSUME NEW d \in Chat!Exchanges, AskedBefore(X, d)
      PROVE  AskedBefore(Y, d)
  <2>1. 1..(d - 1) \subseteq Chat!Exchanges
    BY DEF Chat!Exchanges
  <2> QED
    BY <1>2, <1>5, <2>1 DEF AskedBefore
<1>6. ConfirmsFollow(Y)
  BY <1>1, <1>5 DEF ConfirmsFollow
<1> QED
  BY <1>2, <1>3, <1>4, <1>6 DEF SomeAsked

\* A question that is there when an exchange is sent is before it.
LEMMA SentStep ==
  ASSUME ChatInv, NEW e \in Chat!Exchanges, NEW action, NEW confirm \in BOOLEAN,
         Chat!Sent(e, action, confirm), confirm => SomeAsked(exchange),
         waiting' = waiting, mic' = mic \/ mic' = "off"
  PROVE  ChatInv'
<1> DEFINE x == [exchange[e] EXCEPT !.stage = "sent", !.action = action, !.confirm = confirm]
<1>1. exchange[e].stage = "unsent" /\ \A d \in 1..(e - 1) : exchange[d].stage # "unsent"
  BY DEF Chat!Sent
<1>2. exchange' = [exchange EXCEPT ![e] = x]
  BY DEF Chat!Sent, ChatInv, AreExchanges
<1>3. /\ DOMAIN x = ExchangeFields /\ x.stage = "sent" /\ x.outcome = "none" /\ x.confirm = confirm
      /\ ~Question(exchange[e])
  BY <1>1 DEF ChatInv, AreExchanges, ExchangeFields, Unhandled, Question
<1> HIDE DEF x
<1>4. confirm => AskedBefore(exchange, e)
  <2>1. ASSUME NEW d \in Chat!Exchanges, Question(exchange[d])
        PROVE  d \in 1..(e - 1)
    <3>1. exchange[d].stage # "unsent"
      BY <2>1 DEF ChatInv, AreExchanges, Unhandled, Question
    <3>2. ~(e < d) /\ d # e
      BY <1>1, <3>1 DEF ChatInv, SentInOrder
    <3> QED
      BY <3>2 DEF ChatInv, Chat!Exchanges
  <2> QED
    BY <2>1 DEF SomeAsked, AskedBefore
<1>5. /\ AreExchanges(exchange') /\ SentInOrder(exchange') /\ ConfirmsFollow(exchange')
      /\ SomeAsked(exchange) => SomeAsked(exchange')
  <2> DEFINE Y == exchange'
  <2>1. Y = [exchange EXCEPT ![e] = x]
    BY <1>2
  <2> HIDE DEF Y
  <2>2. /\ AreExchanges(Y) /\ SentInOrder(Y) /\ ConfirmsFollow(Y)
        /\ SomeAsked(exchange) => SomeAsked(Y)
    BY <1>1, <1>3, <1>4, <2>1, OneExchangeMoves DEF ChatInv
  <2> QED
    BY <2>2 DEF Y
<1> QED
  BY <1>5 DEF ChatInv

\* An exchange that ends, with or without an answer, stays what it was.
LEMMA EndStep ==
  ASSUME ChatInv, NEW e \in Chat!Exchanges, Chat!Reply(e) \/ Chat!Fail(e) \/ Chat!Handle(e)
  PROVE  ChatInv'
<1> DEFINE o == exchange[e]
<1>1. /\ DOMAIN o = ExchangeFields /\ o.stage # "unsent"
      /\ \A d \in 1..(e - 1) : exchange[d].stage # "unsent"
  BY DEF Chat!Reply, Chat!Fail, Chat!Handle, ChatInv, AreExchanges, SentInOrder, Chat!Exchanges
<1>2. o.confirm = TRUE \/ (o.outcome = "ran" /\ o.action = "restricted") => AskedBefore(exchange, e)
  BY DEF ChatInv, ConfirmsFollow
<1>3. PICK x : /\ DOMAIN x = ExchangeFields /\ x.stage \notin Unhandled
               /\ x.action = o.action /\ x.confirm = o.confirm
               /\ Question(o) => Question(x)
               /\ x.outcome = "ran" /\ x.action = "restricted" => AskedBefore(exchange, e)
               /\ exchange' = [exchange EXCEPT ![e] = x]
               /\ Chat!Reply(e) => x.outcome = o.outcome
  <2>1. CASE Chat!Reply(e)
    <3> DEFINE x == [o EXCEPT !.stage = "done"]
    <3>1. exchange' = [exchange EXCEPT ![e] = x]
      BY <2>1 DEF Chat!Reply, ChatInv, AreExchanges
    <3>2. /\ DOMAIN x = ExchangeFields /\ x.stage \notin Unhandled /\ x.action = o.action
          /\ x.confirm = o.confirm /\ x.outcome = o.outcome
      BY <1>1 DEF ExchangeFields, Unhandled
    <3> HIDE DEF x
    <3> QED
      BY <1>2, <3>1, <3>2 DEF Question
  <2>2. CASE Chat!Fail(e) /\ ~Chat!Reply(e)
    <3> DEFINE v == IF o.outcome = "none" THEN "failed" ELSE o.outcome
               x == [o EXCEPT !.stage = "done", !.outcome = v]
    <3>1. exchange' = [exchange EXCEPT ![e] = x] /\ o.stage \in {"sent", "handled"}
      BY <2>2 DEF Chat!Fail, ChatInv, AreExchanges
    <3>2. /\ DOMAIN x = ExchangeFields /\ x.stage \notin Unhandled /\ x.action = o.action
          /\ x.confirm = o.confirm /\ x.outcome = v
      BY <1>1 DEF ExchangeFields, Unhandled
    <3> HIDE DEF x
    <3> QED
      BY <1>2, <2>2, <3>1, <3>2 DEF Question
  <2>3. CASE Chat!Handle(e)
    <3> DEFINE v == Chat!Outcome(o)
               st == IF o.stage = "sent" THEN "handled" ELSE "done"
               x == [o EXCEPT !.stage = st, !.outcome = v]
    <3>1. exchange' = [exchange EXCEPT ![e] = x] /\ o.stage \in Unhandled /\ o.stage # "handled"
      BY <2>3 DEF Chat!Handle, ChatInv, AreExchanges, Unhandled
    <3>2. /\ DOMAIN x = ExchangeFields /\ x.stage \notin Unhandled /\ x.action = o.action
          /\ x.confirm = o.confirm /\ x.outcome = v
      BY <1>1 DEF ExchangeFields, Unhandled
    <3>3. ~Question(o) /\ ~Chat!Reply(e)
      BY <3>1 DEF ChatInv, AreExchanges, Question, Unhandled, Chat!Reply
    <3>4. v = "ran" /\ o.action = "restricted" => o.confirm = TRUE
      BY DEF Chat!Outcome
    <3> HIDE DEF x, v
    <3> QED
      BY <1>2, <3>1, <3>2, <3>3, <3>4
  <2> QED
    BY <2>1, <2>2, <2>3
<1> HIDE DEF o
<1>4. /\ AreExchanges(exchange') /\ SentInOrder(exchange') /\ ConfirmsFollow(exchange')
      /\ SomeAsked(exchange) => SomeAsked(exchange')
  <2> DEFINE Y == exchange'
  <2>1. Y = [exchange EXCEPT ![e] = x]
    BY <1>3
  <2>2. x.stage # "unsent"
    BY <1>3 DEF Unhandled
  <2>3. Question(exchange[e]) => Question(x)
    BY <1>3 DEF o
  <2>4. x.confirm = TRUE \/ (x.outcome = "ran" /\ x.action = "restricted") => AskedBefore(exchange, e)
    BY <1>2, <1>3
  <2> HIDE DEF Y
  <2>5. /\ AreExchanges(Y) /\ SentInOrder(Y) /\ ConfirmsFollow(Y)
        /\ SomeAsked(exchange) => SomeAsked(Y)
    BY <1>1, <1>3, <2>1, <2>2, <2>3, <2>4, OneExchangeMoves DEF ChatInv
  <2> QED
    BY <2>5 DEF Y
<1>5. mic' = mic /\ waiting' \in BOOLEAN /\ (waiting' => waiting \/ SomeAsked(exchange'))
  <2>1. CASE Chat!Reply(e)
    <3>1. mic' = mic /\ waiting' = (o.outcome = "asked")
      BY <2>1 DEF Chat!Reply, o
    <3>2. o.outcome = "asked" => SomeAsked(exchange')
      <4>1. exchange'[e] = x
        BY <1>3 DEF ChatInv, AreExchanges
      <4> QED
        BY <1>3, <2>1, <4>1 DEF SomeAsked, Question
    <3> QED
      BY <3>1, <3>2
  <2>2. CASE ~Chat!Reply(e)
    BY <2>2 DEF Chat!Fail, Chat!Handle, ChatInv
  <2> QED
    BY <2>1, <2>2
<1> QED
  BY <1>4, <1>5 DEF ChatInv

\* A reload forgets what waits, and no question.
LEMMA ReloadStep ==
  ASSUME ChatInv, Chat!Reload
  PROVE  ChatInv'
<1> DEFINE Y == exchange'
<1>1. /\ DOMAIN Y = Chat!Exchanges
      /\ \A e \in Chat!Exchanges :
           /\ DOMAIN Y[e] = ExchangeFields /\ Y[e].action = exchange[e].action
           /\ Y[e].confirm = exchange[e].confirm /\ Y[e].outcome = exchange[e].outcome
           /\ Y[e].stage \in Unhandled => exchange[e].stage \in Unhandled
           /\ Y[e].stage = "unsent" <=> exchange[e].stage = "unsent"
  BY DEF Chat!Reload, ChatInv, AreExchanges, ExchangeFields, Unhandled
<1>2. waiting' = FALSE /\ mic' = "off"
  BY DEF Chat!Reload
<1> HIDE DEF Y
<1>3. AreExchanges(Y) /\ SentInOrder(Y)
  BY <1>1 DEF ChatInv, AreExchanges, SentInOrder
<1>4. ASSUME NEW e \in Chat!Exchanges, AskedBefore(exchange, e)
      PROVE  AskedBefore(Y, e)
  <2>1. 1..(e - 1) \subseteq Chat!Exchanges
    BY DEF ChatInv, Chat!Exchanges
  <2> QED
    BY <1>1, <1>4, <2>1 DEF AskedBefore, Question
<1>5. ConfirmsFollow(Y)
  BY <1>1, <1>4 DEF ChatInv, ConfirmsFollow
<1> QED
  BY <1>2, <1>3, <1>5 DEF ChatInv, Y

\* In every reachable state the panel waits, the microphone confirms and an exchange
\* is confirmed only after a question (jarvisStore.js, engine.process).
THEOREM ChatInvariance ==
  ASSUME Chat!DrishtiAssumption
  PROVE  Chat!Spec => []ChatInv
<1>1. Chat!Init => ChatInv
  BY ChatInit
<1>2. ASSUME ChatInv, [Chat!Next]_Chat!vars
      PROVE  ChatInv'
  <2>1. ASSUME NEW e \in Chat!Exchanges, NEW action, Chat!Submit(e, action)
        PROVE  ChatInv'
    BY <1>2, <2>1, SentStep DEF Chat!Submit, ChatInv
  <2>2. ASSUME NEW e \in Chat!Exchanges, NEW action, Chat!Heard(e, action)
        PROVE  ChatInv'
    <3>1. (mic = "confirm") \in BOOLEAN /\ (mic = "confirm" => SomeAsked(exchange))
      BY <1>2 DEF ChatInv
    <3> QED
      BY <1>2, <2>2, <3>1, SentStep DEF Chat!Heard
  <2>3. CASE Chat!Listen
    BY <1>2, <2>3 DEF Chat!Listen, ChatInv
  <2>4. CASE Chat!Reload
    BY <1>2, <2>4, ReloadStep
  <2>5. CASE \/ \E h \in DOMAIN load : Chat!Ask(h) \/ Chat!ReadLog(h) \/ Chat!Hydrate(h)
             \/ \E c \in DOMAIN clear : Chat!Clear(c) \/ Chat!DeleteLog(c) \/ Chat!Cleared(c)
             \/ UNCHANGED Chat!vars
    <3>1. exchange' = exchange /\ waiting' = waiting /\ mic' = mic
      BY <2>5 DEF Chat!Ask, Chat!ReadLog, Chat!Hydrate, Chat!Clear, Chat!DeleteLog, Chat!Cleared,
                  Chat!vars
    <3> QED
      BY <1>2, <3>1 DEF ChatInv
  <2> QED
    BY <1>2, <2>1, <2>2, <2>3, <2>4, <2>5, EndStep DEF Chat!Next
<1> QED
  BY <1>1, <1>2, PTL DEF Chat!Spec

\* A restricted command that ran was sent after a question had come back, for any
\* number of exchanges, reloads and errors and also by the microphone's stale callback.
THEOREM ConfirmedWasAsked ==
  ASSUME Chat!DrishtiAssumption
  PROVE  Chat!Spec => []Chat!AskedFirst
<1>1. ChatInv => Chat!AskedFirst
  BY DEF ChatInv, ConfirmsFollow, AskedBefore, Question, Chat!AskedFirst
<1> QED
  BY <1>1, ChatInvariance, PTL

-----------------------------------------------------------------------------
(* EquitySync: the account row keeps its baseline *)

(***************************************************************************)
(* A writer of the row replaces fields of what it finds there or writes    *)
(* what it fetched.  That the peak bounds the current value and that the   *)
(* dates are in order needs the fetched balances and the booked result to  *)
(* be amounts of money, wherever a task carries them.                      *)
(***************************************************************************)
AccountRows ==
  [current : Int, dayStart : Int, peak : Int, day : Nat, source : {"paper", "live"}, syncedOn : Nat]
Balances == [pc : {"idle", "fetch", "write"}, funds : Int]
Ordered(a) == a.day <= day /\ a.syncedOn <= a.day /\ a.peak >= a.current
EquityInv ==
  /\ mode \in {"paper", "live"} /\ day \in Nat /\ halted \in BOOLEAN
  /\ account \in AccountRows /\ Ordered(account)
  /\ funds \in Int /\ result \in Int
  /\ position \in {"none", "ordered", "open", "sold"}
  /\ syncing \in [Syncers -> Balances]
Keeps(a) == a.day = account.day /\ a.source = account.source => a.dayStart = account.dayStart

\* The row get_equity leaves behind.
LEMMA RolledRow ==
  ASSUME EquityInv
  PROVE  Equity!Rolled \in AccountRows /\ Ordered(Equity!Rolled) /\ Keeps(Equity!Rolled)
<1> DEFINE left == [account EXCEPT !.source = "paper", !.dayStart = account.current,
                                   !.peak = account.current, !.day = day, !.syncedOn = 0]
           morning == [account EXCEPT !.dayStart = account.current, !.day = day]
<1>1. CASE mode = "paper" /\ account.source # "paper"
  <2>1. Equity!Rolled = left
    BY <1>1 DEF Equity!Rolled
  <2>2. left \in AccountRows
    BY DEF EquityInv, AccountRows
  <2>3. left.source = "paper" /\ left.day = day /\ left.syncedOn = 0 /\ left.peak = left.current
    BY DEF EquityInv, AccountRows
  <2>4. left.peak \in Int /\ day \in Nat
    BY <2>2 DEF EquityInv, AccountRows
  <2>5. Ordered(left)
    BY <2>3, <2>4 DEF Ordered
  <2>6. Keeps(left)
    BY <1>1, <2>3 DEF Keeps
  <2> QED
    BY <2>1, <2>2, <2>5, <2>6
<1>2. CASE ~(mode = "paper" /\ account.source # "paper") /\ account.day < day
  <2>1. Equity!Rolled = morning
    BY <1>2 DEF Equity!Rolled
  <2>2. morning \in AccountRows
    BY DEF EquityInv, AccountRows
  <2>3. /\ morning.day = day /\ morning.syncedOn = account.syncedOn /\ morning.peak = account.peak
        /\ morning.current = account.current
    BY DEF EquityInv, AccountRows
  <2>4. /\ account.syncedOn \in Nat /\ account.day \in Nat /\ day \in Nat
        /\ account.syncedOn <= account.day /\ account.peak >= account.current
    BY DEF EquityInv, AccountRows, Ordered
  <2>5. Ordered(morning)
    BY <1>2, <2>3, <2>4 DEF Ordered
  <2>6. morning.day # account.day
    BY <1>2, <2>3, <2>4
  <2>7. Keeps(morning)
    BY <2>6 DEF Keeps
  <2> QED
    BY <2>1, <2>2, <2>5, <2>7
<1>3. CASE ~(mode = "paper" /\ account.source # "paper") /\ ~(account.day < day)
  <2>1. Equity!Rolled = account
    BY <1>3 DEF Equity!Rolled
  <2> QED
    BY <2>1 DEF EquityInv, Keeps
<1> QED
  BY <1>1, <1>2, <1>3

\* The row a sync writes.
LEMMA SyncedRow ==
  ASSUME EquityInv, NEW f \in Int
  PROVE  Equity!Synced(f) \in AccountRows /\ Ordered(Equity!Synced(f)) /\ Keeps(Equity!Synced(f))
<1> DEFINE row == Equity!Synced(f)
           restart == account.source # "live"
           base == restart \/ account.day # day
           start == IF base THEN f ELSE account.dayStart
           top == IF restart THEN f ELSE Equity!Larger(account.peak, f)
<1>1. row = [current |-> f, source |-> "live", syncedOn |-> day, day |-> day,
             dayStart |-> start, peak |-> top]
  BY DEF Equity!Synced
<1>2. account.peak \in Int /\ account.dayStart \in Int /\ day \in Nat
  BY DEF EquityInv, AccountRows
<1>3. start \in Int
  BY <1>2
<1>4. top \in Int /\ top >= f
  BY <1>2 DEF Equity!Larger
<1>5. base => row.day # account.day \/ row.source # account.source
  BY <1>1
<1>6. ~base => start = account.dayStart
  OBVIOUS
<1> HIDE DEF start, top, base, row
<1>7. row \in AccountRows /\ row.dayStart = start
  BY <1>1, <1>2, <1>3, <1>4 DEF AccountRows
<1>8. Ordered(row)
  BY <1>1, <1>2, <1>4 DEF Ordered
<1>9. Keeps(row)
  BY <1>5, <1>6, <1>7 DEF Keeps
<1> QED
  BY <1>7, <1>8, <1>9 DEF row

\* The row a booking leaves behind.
LEMMA BookedRow ==
  ASSUME EquityInv
  PROVE  LET row == [account EXCEPT !.current = @ + result,
                                    !.peak = Equity!Larger(@, account.current + result)]
         IN row \in AccountRows /\ Ordered(row) /\ Keeps(row)
<1> DEFINE row == [account EXCEPT !.current = @ + result,
                                  !.peak = Equity!Larger(@, account.current + result)]
           top == Equity!Larger(account.peak, account.current + result)
<1>1. account.current \in Int /\ account.peak \in Int /\ result \in Int
  BY DEF EquityInv, AccountRows
<1>2. top \in Int /\ top >= account.current + result
  BY <1>1 DEF Equity!Larger
<1>3. /\ row = [account EXCEPT !.current = account.current + result, !.peak = top]
  BY DEF EquityInv, AccountRows
<1>4. account \in AccountRows /\ Ordered(account)
  BY DEF EquityInv
<1> HIDE DEF top
<1>5. [account EXCEPT !.current = account.current + result, !.peak = top] \in AccountRows
  <2>1. \A c, p \in Int : [account EXCEPT !.current = c, !.peak = p] \in AccountRows
    BY <1>4 DEF AccountRows
  <2>2. account.current + result \in Int
    BY <1>1
  <2> QED
    BY <1>2, <2>1, <2>2
<1>6. /\ row.current = account.current + result /\ row.peak = top /\ row.day = account.day
      /\ row.syncedOn = account.syncedOn /\ row.dayStart = account.dayStart
  BY <1>3, <1>4 DEF AccountRows
<1> HIDE DEF row
<1>7. Ordered(row)
  BY <1>2, <1>4, <1>6 DEF Ordered
<1>8. Keeps(row)
  BY <1>6 DEF Keeps
<1> QED
  BY <1>3, <1>5, <1>7, <1>8 DEF row

\* A step either leaves the row alone or replaces it by one of the three.
LEMMA RowWriters ==
  ASSUME EquityInv, Equity!Next
  PROVE  /\ account' \in AccountRows
         /\ account'.syncedOn <= account'.day /\ account'.peak >= account'.current
         /\ account'.day <= day
         /\ Keeps(account')
<1> DEFINE Good(a) == a \in AccountRows /\ Ordered(a) /\ Keeps(a)
<1>1. Good(account)
  BY DEF EquityInv, Keeps
<1>2. Good(Equity!Rolled)
  BY RolledRow
<1>3. ASSUME NEW s \in Syncers
      PROVE  Good(Equity!Synced(syncing[s].funds))
  <2>1. syncing[s].funds \in Int
    BY <1>3 DEF EquityInv, Balances
  <2> QED
    BY <2>1, SyncedRow
<1>4. Good([account EXCEPT !.current = @ + result,
                           !.peak = Equity!Larger(@, account.current + result)])
  BY BookedRow
<1> HIDE DEF Good
<1>5. Good(account')
  <2>1. ASSUME NEW s \in Syncers, Equity!Synchronize(s)
        PROVE  Good(account')
    <3>1. CASE Equity!Write(s)
      BY <1>3, <3>1 DEF Equity!Write
    <3>2. CASE Equity!CheckFlat(s) \/ Equity!Fetch(s)
      BY <1>1, <3>2 DEF Equity!CheckFlat, Equity!Fetch
    <3> QED
      BY <2>1, <3>1, <3>2 DEF Equity!Synchronize
  <2>2. CASE Equity!Read \/ Equity!Look
    BY <1>2, <2>2 DEF Equity!Read, Equity!Look
  <2>3. CASE Equity!Trip \/ Equity!SeeHalted \/ Equity!WriteRearm
    BY <1>1, <2>3 DEF Equity!Trip, Equity!SeeHalted, Equity!WriteRearm
  <2>4. CASE Equity!Book
    BY <1>4, <2>4 DEF Equity!Book
  <2>5. CASE Equity!Order \/ Equity!Fill
    BY <1>1, <2>5 DEF Equity!Order, Equity!Fill
  <2>6. ASSUME NEW r \in Results, Equity!Sell(r)
        PROVE  Good(account')
    BY <1>1, <2>6 DEF Equity!Sell
  <2>7. CASE Equity!NextDay \/ Equity!SwitchMode
    BY <1>1, <2>7 DEF Equity!NextDay, Equity!SwitchMode
  <2> QED
    BY <2>1, <2>2, <2>3, <2>4, <2>5, <2>6, <2>7 DEF Equity!Next, Equity!Enforce, Equity!Trading
<1> QED
  BY <1>5 DEF Good, Ordered

LEMMA EquityInit ==
  ASSUME Equity!EquityAssumption, Equity!Init
  PROVE  EquityInv
<1>1. account \in AccountRows /\ day = 1 /\ Ordered(account)
  BY DEF Equity!EquityAssumption, Equity!Init, AccountRows, Ordered
<1>2. syncing \in [Syncers -> Balances]
  BY DEF Equity!Init, Equity!NotSyncing, Balances
<1>3. mode \in {"paper", "live"} /\ day \in Nat /\ funds \in Int /\ result \in Int
  BY DEF Equity!EquityAssumption, Equity!Init
<1>4. halted \in BOOLEAN /\ position \in {"none", "ordered", "open", "sold"}
  BY DEF Equity!Init
<1> QED
  BY <1>1, <1>2, <1>3, <1>4 DEF EquityInv

\* Everything but the row.
LEMMA MoneyStep ==
  ASSUME EquityInv, Equity!EquityAssumption, Equity!Next
  PROVE  /\ mode' \in {"paper", "live"} /\ day' \in Nat /\ day <= day' /\ halted' \in BOOLEAN
         /\ funds' \in Int /\ result' \in Int
         /\ position' \in {"none", "ordered", "open", "sold"}
         /\ syncing' \in [Syncers -> Balances]
<1>0. /\ mode \in {"paper", "live"} /\ day \in Nat /\ halted \in BOOLEAN
      /\ funds \in Int /\ result \in Int
      /\ position \in {"none", "ordered", "open", "sold"}
      /\ syncing \in [Syncers -> Balances] /\ Premium \in Nat /\ Results \subseteq Int
  BY DEF EquityInv, Equity!EquityAssumption
<1>1. ASSUME NEW s \in Syncers, Equity!Synchronize(s)
      PROVE  /\ syncing' \in [Syncers -> Balances]
             /\ UNCHANGED <<mode, day, halted, funds, result, position>>
  <2>1. CASE Equity!CheckFlat(s)
    <3>1. [syncing[s] EXCEPT !.pc = "fetch"] \in Balances
      BY <1>0 DEF Balances
    <3>2. syncing' = [syncing EXCEPT ![s] = [syncing[s] EXCEPT !.pc = "fetch"]]
      BY <1>0, <2>1 DEF Equity!CheckFlat
    <3> QED
      BY <1>0, <2>1, <3>1, <3>2 DEF Equity!CheckFlat
  <2>2. CASE Equity!Fetch(s)
    <3>1. [pc |-> "write", funds |-> funds] \in Balances /\ Equity!NotSyncing \in Balances
      BY <1>0 DEF Balances, Equity!NotSyncing
    <3>2. \/ syncing' = [syncing EXCEPT ![s] = [pc |-> "write", funds |-> funds]]
          \/ syncing' = [syncing EXCEPT ![s] = Equity!NotSyncing]
      BY <2>2 DEF Equity!Fetch
    <3> QED
      BY <1>0, <2>2, <3>1, <3>2 DEF Equity!Fetch
  <2>3. CASE Equity!Write(s)
    <3>1. Equity!NotSyncing \in Balances
      BY DEF Balances, Equity!NotSyncing
    <3> QED
      BY <1>0, <2>3, <3>1 DEF Equity!Write
  <2> QED
    BY <1>1, <2>1, <2>2, <2>3 DEF Equity!Synchronize
<1>2. CASE Equity!Read \/ Equity!Look \/ Equity!Trip \/ Equity!SeeHalted \/ Equity!WriteRearm
  <2>1. UNCHANGED <<mode, day, funds, result, position, syncing>>
    BY <1>2 DEF Equity!Read, Equity!Look, Equity!Trip, Equity!SeeHalted, Equity!WriteRearm
  <2>2. halted' \in BOOLEAN
    BY <1>0, <1>2 DEF Equity!Read, Equity!Look, Equity!Trip, Equity!SeeHalted, Equity!WriteRearm
  <2> QED
    BY <1>0, <2>1, <2>2
<1>3. CASE Equity!Order \/ Equity!Fill \/ Equity!Book
  BY <1>0, <1>3 DEF Equity!Order, Equity!Fill, Equity!Book
<1>4. ASSUME NEW r \in Results, Equity!Sell(r)
      PROVE  /\ funds' \in Int /\ result' \in Int /\ position' = "sold"
             /\ UNCHANGED <<mode, day, halted, syncing>>
  <2>1. r \in Int
    BY <1>0, <1>4
  <2> QED
    BY <1>0, <1>4, <2>1 DEF Equity!Sell
<1>5. CASE Equity!NextDay \/ Equity!SwitchMode
  BY <1>0, <1>5 DEF Equity!NextDay, Equity!SwitchMode
<1>6. day <= day
  BY <1>0
<1> QED
  BY <1>0, <1>1, <1>2, <1>3, <1>4, <1>5, <1>6 DEF Equity!Next, Equity!Enforce, Equity!Trading

LEMMA EquityStep ==
  ASSUME EquityInv, Equity!EquityAssumption, [Equity!Next]_(Equity!vars)
  PROVE  EquityInv' /\ Equity!KeepsBaseline
<1>1. CASE Equity!Next
  <2>1. /\ account' \in AccountRows
        /\ account'.syncedOn <= account'.day /\ account'.peak >= account'.current
        /\ account'.day <= day /\ Keeps(account')
    BY <1>1, RowWriters
  <2>2. /\ mode' \in {"paper", "live"} /\ day' \in Nat /\ day <= day' /\ halted' \in BOOLEAN
        /\ funds' \in Int /\ result' \in Int
        /\ position' \in {"none", "ordered", "open", "sold"}
        /\ syncing' \in [Syncers -> Balances]
    BY <1>1, MoneyStep
  <2>3. account'.day \in Nat /\ day \in Nat
    BY <2>1 DEF AccountRows, EquityInv
  <2>4. account'.day <= day'
    BY <2>1, <2>2, <2>3
  <2>5. Equity!KeepsBaseline
    BY <2>1 DEF Keeps, Equity!KeepsBaseline
  <2> QED
    BY <2>1, <2>2, <2>4, <2>5 DEF EquityInv, Ordered
<1>2. CASE UNCHANGED Equity!vars
  BY <1>2 DEF Equity!vars, EquityInv, Ordered, AccountRows, Equity!KeepsBaseline
<1> QED
  BY <1>1, <1>2

\* The account row, the fetched balances and the dates stay in order: the inductive
\* invariant behind the two theorems below (sync_live_account_equity, get_equity).
THEOREM EquityInvariance ==
  ASSUME Equity!EquityAssumption
  PROVE  Equity!Spec => []EquityInv
<1>1. Equity!Init => EquityInv
  BY EquityInit
<1>2. EquityInv /\ [Equity!Next]_(Equity!vars) => EquityInv'
  BY EquityStep
<1> QED
  BY <1>1, <1>2, PTL DEF Equity!Spec

\* The rows stay typed and the drawdown the risk gate computes is never negative
\* (drawdown_pct), however the sync, the booking and the roll-over interleave.
THEOREM DrawdownIsNeverNegative ==
  ASSUME Equity!EquityAssumption
  PROVE  Equity!Spec => []Equity!TypeOK
<1>1. EquityInv => Equity!TypeOK
  BY DEF EquityInv, Ordered, AccountRows, Equity!TypeOK
<1> QED
  BY <1>1, EquityInvariance, PTL

\* Within a day and a source the baseline of the daily-loss limit stays what it was:
\* neither a late sync nor a reader moves it (_check_daily_loss).
THEOREM BaselineIsKept ==
  ASSUME Equity!EquityAssumption
  PROVE  Equity!Spec => [][Equity!KeepsBaseline]_(Equity!vars)
<1>1. EquityInv /\ [Equity!Next]_(Equity!vars) => [Equity!KeepsBaseline]_(Equity!vars)
  BY EquityStep
<1> QED
  BY <1>1, EquityInvariance, PTL DEF Equity!Spec

-----------------------------------------------------------------------------
(* PolicySignal: what the model may do, and what an entry risks *)

\* The larger and the smaller of two numbers.
LEMMA MaxOfTwo ==
  ASSUME NEW a \in Int, NEW b \in Int
  PROVE  Policy!Max({a, b}) = IF a >= b THEN a ELSE b
<1>1. \E x \in {a, b} : \A y \in {a, b} : x >= y
  OBVIOUS
<1>2. Policy!Max({a, b}) \in {a, b} /\ \A y \in {a, b} : Policy!Max({a, b}) >= y
  BY <1>1 DEF Policy!Max
<1> QED
  BY <1>2

LEMMA MinOfTwo ==
  ASSUME NEW a \in Int, NEW b \in Int
  PROVE  Policy!Min({a, b}) = IF a <= b THEN a ELSE b
<1>1. \E x \in {a, b} : \A y \in {a, b} : x =< y
  OBVIOUS
<1>2. Policy!Min({a, b}) \in {a, b} /\ \A y \in {a, b} : Policy!Min({a, b}) =< y
  BY <1>1 DEF Policy!Min
<1> QED
  BY <1>2

\* With and without a model the side is the score's, so where both trade they trade
\* the same one; a win probability under one half trades nothing, whatever the
\* features and the ideas are (evaluate_entry, evaluate_scalp_entry).
THEOREM ModelsOnlyVeto ==
  ASSUME NEW f, NEW ideas, NEW chance \in 0..100 \cup {Policy!None}
  PROVE  Policy!ModelOnlyVetoes(f, ideas, chance)
<1> DEFINE with == Policy!Decision(Policy!Direction(f, chance), TRUE, TRUE)
           without == Policy!Decision(Policy!Direction(f, Policy!None), TRUE, TRUE)
           scalp == Policy!Decision(Policy!ScalpDirection(ideas, chance), TRUE, TRUE)
<1>1. with = Policy!Direction(f, chance) /\ without = Policy!Direction(f, Policy!None)
      /\ scalp = Policy!ScalpDirection(ideas, chance)
  BY DEF Policy!Decision
<1>2. without \in {"HOLD", Policy!Side(Policy!Score(f))}
  BY <1>1 DEF Policy!Direction
<1>3. chance # Policy!None => with \in {"HOLD", Policy!Side(Policy!Score(f))}
  BY <1>1 DEF Policy!Direction
<1>4. ASSUME chance \in 0..49 PROVE with = "HOLD" /\ scalp = "HOLD"
  <2>1. chance # Policy!None /\ chance < 50
    BY <1>4 DEF Policy!None
  <2>2. Policy!Direction(f, chance) = "HOLD"
    BY <2>1 DEF Policy!Direction
  <2>3. Policy!ScalpDirection(ideas, chance) = "HOLD"
    BY <1>4 DEF Policy!ScalpDirection
  <2> QED
    BY <1>1, <2>2, <2>3
<1>5. chance = Policy!None => with = without
  OBVIOUS
<1> HIDE DEF with, without, scalp
<1>6. "HOLD" \in {with, without} \/ with = without
  BY <1>2, <1>3, <1>5
<1>7. chance \in 0..49 => {with, scalp} = {"HOLD"}
  BY <1>4
<1> QED
  BY <1>6, <1>7 DEF Policy!ModelOnlyVetoes, with, without, scalp

\* The stop of an entry above a tick lies under it, not below a tick and not
\* further away than the distance.
LEMMA LevelsAre ==
  ASSUME NEW e \in Int, e > 50, NEW d \in Int, d > 0, NEW r \in {3, 4}
  PROVE  /\ Policy!Levels(e, d, r).entry = e
         /\ Policy!Levels(e, d, r).stop \in Int
         /\ 50 <= Policy!Levels(e, d, r).stop /\ Policy!Levels(e, d, r).stop < e
         /\ e - d <= Policy!Levels(e, d, r).stop
         /\ Policy!Levels(e, d, r).target = e + (r * d) \div 2
BY MaxOfTwo DEF Policy!Levels, Policy!Tick

\* The risk of an idea in thousandths of its price.
LEMMA RatioIsBounded ==
  ASSUME NEW idea, idea.entry \in Nat \ {0}, idea.stop \in Nat
  PROVE  Policy!RiskRatio(idea) \in 50..250
<1> DEFINE gap == idea.entry - idea.stop
           m == Policy!Max({gap, -gap})
           ratio == (1000 * m) \div idea.entry
<1>1. gap \in Int /\ m \in Int
  BY MaxOfTwo
<1> HIDE DEF m
<1>2. ratio \in Int
  BY <1>1
<1>3. Policy!RiskRatio(idea) = IF ratio = 0 THEN 100 ELSE Policy!Max({50, Policy!Min({ratio, 250})})
  BY DEF Policy!RiskRatio, m
<1> HIDE DEF ratio
<1>4. Policy!Min({ratio, 250}) \in Int /\ Policy!Min({ratio, 250}) <= 250
  BY <1>2, MinOfTwo
<1> DEFINE b == Policy!Min({ratio, 250})
<1> HIDE DEF b
<1>5. Policy!Max({50, b}) \in 50..250
  <2>1. b \in Int /\ b <= 250 /\ 50 \in Int
    BY <1>4 DEF b
  <2>2. Policy!Max({50, b}) = IF 50 >= b THEN 50 ELSE b
    BY <2>1, MaxOfTwo
  <2> QED
    BY <2>1, <2>2
<1> QED
  BY <1>3, <1>5 DEF b

\* For every premium above a tick, every range and every idea the stop is under the
\* premium and at a tick at least, and the reward pays for the risk, twice for a
\* swing, one and a half times for a scalp (ai_signal_service.py).
THEOREM EntriesHaveTheirReward ==
  ASSUME NEW quote, quote.ltp \in Nat, quote.ask \in Nat \cup {Policy!None}, NEW atr \in Nat,
         NEW idea, idea.entry \in Nat \ {0}, idea.stop \in Nat
  PROVE  Policy!EntryHasItsReward(quote, atr, idea)
<1> DEFINE e == Policy!EntryRef(quote)
<1> SUFFICES ASSUME e > 50
             PROVE  /\ LET l == Policy!SwingLevels(quote, atr)
                       IN /\ 50 <= l.stop /\ l.stop < l.entry
                          /\ l.target - l.entry >= 2 * (l.entry - l.stop)
                    /\ LET l == Policy!ScalpLevels(quote, idea)
                       IN /\ 50 <= l.stop /\ l.stop < l.entry
                          /\ 2 * (l.target - l.entry) + 1 >= 3 * (l.entry - l.stop)
                          /\ 4 * (l.entry - l.stop) <= l.entry
  BY DEF Policy!EntryHasItsReward, Policy!Tick
<1>1. e \in Nat
  BY DEF Policy!EntryRef, Policy!None
<1>2. LET l == Policy!SwingLevels(quote, atr)
      IN /\ 50 <= l.stop /\ l.stop < l.entry
         /\ l.target - l.entry >= 2 * (l.entry - l.stop)
  <2> DEFINE w == IF atr = 0 THEN (15 * e) \div 100 ELSE (75 * atr) \div 100
             t == e \div 10
             d == Policy!Max({w, t})
             l == Policy!Levels(e, d, 4)
  <2>1. w \in Int /\ t \in Int /\ t > 0
    BY <1>1
  <2>2. Policy!SwingLevels(quote, atr) = l
    BY DEF Policy!SwingLevels
  <2> HIDE DEF e, w, t
  <2>3. d \in Int /\ d > 0
    BY <2>1, MaxOfTwo
  <2> HIDE DEF d
  <2>4. /\ l.entry = e /\ l.stop \in Int /\ 50 <= l.stop /\ l.stop < e /\ e - d <= l.stop
        /\ l.target = e + (4 * d) \div 2
    BY <1>1, <2>3, LevelsAre
  <2>5. (4 * d) \div 2 = 2 * d
    BY <2>3
  <2> HIDE DEF l
  <2>6. l.target - l.entry >= 2 * (l.entry - l.stop)
    BY <1>1, <2>3, <2>4, <2>5
  <2> QED
    BY <2>2, <2>4, <2>6
<1>3. LET l == Policy!ScalpLevels(quote, idea)
      IN /\ 50 <= l.stop /\ l.stop < l.entry
         /\ 2 * (l.target - l.entry) + 1 >= 3 * (l.entry - l.stop)
         /\ 4 * (l.entry - l.stop) <= l.entry
  <2> DEFINE r == Policy!RiskRatio(idea)
             p == r * e
             d == p \div 1000
             l == Policy!Levels(e, d, 3)
  <2>1. Policy!ScalpLevels(quote, idea) = l
    BY DEF Policy!ScalpLevels
  <2>2. r \in 50..250
    BY RatioIsBounded
  <2> HIDE DEF e, r
  <2>3. p \in Int /\ 50 * e <= p /\ p <= 250 * e
    BY <1>1, <2>2
  <2> HIDE DEF p
  <2>4. d \in Int /\ d > 0 /\ 4 * d <= e
    BY <1>1, <2>3
  <2> HIDE DEF d
  <2>5. /\ l.entry = e /\ l.stop \in Int /\ 50 <= l.stop /\ l.stop < e /\ e - d <= l.stop
        /\ l.target = e + (3 * d) \div 2
    BY <1>1, <2>4, LevelsAre
  <2> DEFINE g == (3 * d) \div 2
  <2>6. g \in Int /\ 2 * g + 1 >= 3 * d
    BY <2>4
  <2> HIDE DEF l, g
  <2>7. l.target = e + g
    BY <2>5 DEF g
  <2>8. 2 * (l.target - l.entry) + 1 >= 3 * (l.entry - l.stop) /\ 4 * (l.entry - l.stop) <= l.entry
    BY <1>1, <2>4, <2>5, <2>6, <2>7
  <2> QED
    BY <2>1, <2>5, <2>8
<1> QED
  BY <1>2, <1>3

-----------------------------------------------------------------------------
(* RegimeVote: no regime is outvoted *)

LEMMA VoteCounts ==
  ASSUME NEW inds, IsFiniteSet(DOMAIN inds), NEW p, NEW q, p # q
  PROVE  /\ Vote!Cardinality(Vote!Reads(inds, p)) \in Nat
         /\ Vote!Cardinality(DOMAIN inds) \in Nat
         /\ Vote!Cardinality(Vote!Reads(inds, p)) + Vote!Cardinality(Vote!Reads(inds, q))
              <= Vote!Cardinality(DOMAIN inds)
<1> DEFINE P == Vote!Reads(inds, p)
           Q == Vote!Reads(inds, q)
           D == DOMAIN inds
<1>1. P \subseteq D /\ Q \subseteq D /\ P \cap Q = {} /\ P \cup Q \subseteq D
  BY DEF Vote!Reads
<1>2. \A S : Vote!Cardinality(S) = Cardinality(S)
  BY DEF Vote!Cardinality, Cardinality
<1> HIDE DEF P, Q, D
<1>3. IsFiniteSet(D)
  BY DEF D
<1>4. IsFiniteSet(P) /\ IsFiniteSet(Q) /\ IsFiniteSet(P \cup Q)
  BY <1>1, <1>3, FS_Subset
<1>5. /\ Cardinality(P) \in Nat /\ Cardinality(Q) \in Nat /\ Cardinality(D) \in Nat
      /\ Cardinality(P \cup Q) \in Nat
  BY <1>3, <1>4, FS_CardinalityType
<1>6. Cardinality(P \cup Q) = Cardinality(P) + Cardinality(Q) - Cardinality(P \cap Q)
  BY <1>4, FS_Union
<1>7. Cardinality(P \cap Q) = 0
  BY <1>1, FS_EmptySet
<1>8. Cardinality(P \cup Q) <= Cardinality(D)
  BY <1>1, <1>3, FS_Subset
<1>9. Cardinality(P) + Cardinality(Q) <= Cardinality(D)
  BY <1>5, <1>6, <1>7, <1>8
<1> QED
  BY <1>2, <1>5, <1>9 DEF P, Q, D

\* The regime that is named has at least as many timeframes as any other family, for
\* any number of timeframes and any readings (multi_timeframe_regime.py).
THEOREM NamedRegimeWasVoted ==
  ASSUME NEW reading, IsFiniteSet(DOMAIN reading.inds)
  PROVE  Vote!VoteIsNotOutvoted(reading)
<1> DEFINE inds == reading.inds
           named == Vote!Composite(reading)[1]
           Votes(regime) == Vote!Cardinality(Vote!Reads(inds, regime))
           n == Vote!Cardinality(DOMAIN inds)
           Regimes == {"trending", "sideways", "high_volatility"}
           All(p) == \A regime \in Regimes : Votes(regime) <= Votes(p)
<1>1. SUFFICES ASSUME named # "UNDEFINED" PROVE All(Vote!Family[named])
  BY DEF Vote!VoteIsNotOutvoted
<1>2. \A p, q \in Regimes : p # q => /\ Votes(p) \in Nat /\ n \in Nat
                                     /\ Votes(p) + Votes(q) <= n
  BY VoteCounts
<1>3. ASSUME NEW p \in Regimes, Vote!Half(Vote!Reads(inds, p), inds)
      PROVE  All(p)
  <2>1. 2 * Votes(p) >= n
    BY <1>3 DEF Vote!Half
  <2>2. "trending" # "sideways" /\ "trending" # "high_volatility" /\ "sideways" # "high_volatility"
    OBVIOUS
  <2> HIDE DEF Votes, n
  <2> QED
    BY <1>2, <2>1, <2>2
<1>4. inds # <<>>
  <2>1. inds = <<>> => named = "UNDEFINED"
    BY DEF Vote!Composite
  <2> QED
    BY <1>1, <2>1
<1>5. CASE Vote!Half(Vote!Reads(inds, "high_volatility"), inds)
  <2>1. named = Vote!HighVolSubtype(inds, reading.bars)
    BY <1>4, <1>5 DEF Vote!Composite
  <2>2. named \in {"BREAKOUT", "BREAKDOWN", "EVENT_DRIVEN", "HIGH_VOLATILITY"}
    BY <2>1 DEF Vote!HighVolSubtype
  <2>3. Vote!Family[named] = "high_volatility"
    BY <2>2 DEF Vote!Family
  <2> QED
    BY <1>3, <1>5, <2>3
<1>6. CASE /\ ~Vote!Half(Vote!Reads(inds, "high_volatility"), inds)
           /\ Vote!Half(Vote!Reads(inds, "trending"), inds)
  <2>1. named = Vote!TrendDirection(inds)
    BY <1>4, <1>6 DEF Vote!Composite
  <2>2. named \in {"TRENDING_BULLISH", "TRENDING_BEARISH"}
    BY <1>1, <2>1 DEF Vote!TrendDirection
  <2>3. Vote!Family[named] = "trending"
    BY <2>2 DEF Vote!Family
  <2> QED
    BY <1>3, <1>6, <2>3
<1>7. CASE /\ ~Vote!Half(Vote!Reads(inds, "high_volatility"), inds)
           /\ ~Vote!Half(Vote!Reads(inds, "trending"), inds)
  <2>1. /\ Vote!Half(Vote!Reads(inds, "sideways"), inds)
        /\ named = Vote!SidewaysSubtype(inds)
    BY <1>1, <1>4, <1>7 DEF Vote!Composite
  <2>2. named \in {"LOW_VOLATILITY", "MEAN_REVERSION", "SIDEWAYS"}
    BY <2>1 DEF Vote!SidewaysSubtype
  <2>3. Vote!Family[named] = "sideways"
    BY <2>2 DEF Vote!Family
  <2> QED
    BY <1>3, <2>1, <2>3
<1> QED
  BY <1>5, <1>6, <1>7

-----------------------------------------------------------------------------
(* SignalDecisions: the two engines on one market *)

\* What the conditions compare, as numbers.
Compared == {"order", "slope9", "slope21", "sar", "macd", "hist", "rsi", "volume"}

\* The conditions of both sides have the same names; six of them hold for one side
\* at most.
LEMMA ConditionsAre ==
  ASSUME NEW ind, \A n \in Compared : ind[n] \in Int
  PROVE  /\ DOMAIN Decide!Bullish(ind) = DOMAIN Decide!Bearish(ind)
         /\ DOMAIN Decide!Bullish(ind) \subseteq
              {"trend", "ema9", "ema21", "sar", "macd", "hist", "rsi", "volume"}
         /\ {"trend", "ema9", "sar", "macd"} \subseteq DOMAIN Decide!Bullish(ind)
         /\ Decide!Matched(Decide!Bullish(ind)) \cap Decide!Matched(Decide!Bearish(ind))
              \subseteq {"ema21", "volume"}
<1> DEFINE bull == [trend |-> ind.order > 0, ema9 |-> ind.slope9 > 0, ema21 |-> ind.slope21 >= 0,
                    sar |-> ind.sar > 0, macd |-> ind.macd > 0, hist |-> ind.hist > 0,
                    rsi |-> ind.rsi > (IF Decide!Regime(ind) = "sideways" THEN 60 ELSE 50),
                    volume |-> ind.volume >= 12]
           bear == [trend |-> ind.order < 0, ema9 |-> ind.slope9 < 0, ema21 |-> ind.slope21 <= 0,
                    sar |-> ind.sar < 0, macd |-> ind.macd < 0, hist |-> ind.hist < 0,
                    rsi |-> ind.rsi < (IF Decide!Regime(ind) = "sideways" THEN 40 ELSE 50),
                    volume |-> ind.volume >= 12]
           N == {"trend", "ema9", "ema21", "sar", "macd", "hist", "rsi", "volume"}
<1>1. DOMAIN bull = N /\ DOMAIN bear = N
  OBVIOUS
<1>2. /\ ind.order \in Int /\ ind.slope9 \in Int /\ ind.sar \in Int /\ ind.macd \in Int
      /\ ind.hist \in Int /\ ind.rsi \in Int
  BY DEF Compared
<1>3. /\ ~(bull.trend /\ bear.trend) /\ ~(bull.ema9 /\ bear.ema9) /\ ~(bull.sar /\ bear.sar)
      /\ ~(bull.macd /\ bear.macd) /\ ~(bull.hist /\ bear.hist) /\ ~(bull.rsi /\ bear.rsi)
  <2>1. \A x \in Int : ~(x > 0 /\ x < 0)
    OBVIOUS
  <2>2. ~(bull.trend /\ bear.trend)
    BY <1>2, <2>1
  <2>3. ~(bull.ema9 /\ bear.ema9)
    BY <1>2, <2>1
  <2>4. ~(bull.sar /\ bear.sar)
    BY <1>2, <2>1
  <2>5. ~(bull.macd /\ bear.macd)
    BY <1>2, <2>1
  <2>6. ~(bull.hist /\ bear.hist)
    BY <1>2, <2>1
  <2>7. ~(bull.rsi /\ bear.rsi)
    <3>1. \A x \in Int : /\ ~(x > 60 /\ x < 40) /\ ~(x > 50 /\ x < 50)
      OBVIOUS
    <3>2. CASE Decide!Regime(ind) = "sideways"
      BY <1>2, <3>1, <3>2
    <3>3. CASE Decide!Regime(ind) # "sideways"
      BY <1>2, <3>1, <3>3
    <3> QED
      BY <3>2, <3>3
  <2> QED
    BY <2>2, <2>3, <2>4, <2>5, <2>6, <2>7
<1>4. \A c \in N \ {"ema21", "volume"} : ~(bull[c] /\ bear[c])
  BY <1>3
<1>5. Decide!Bullish(ind) = Decide!Reported(ind, bull) /\ Decide!Bearish(ind) = Decide!Reported(ind, bear)
  BY DEF Decide!Bullish, Decide!Bearish
<1> HIDE DEF bull, bear
<1>6. PICK M : /\ M \in {N, N \ {"volume"}}
               /\ DOMAIN Decide!Bullish(ind) = M /\ DOMAIN Decide!Bearish(ind) = M
               /\ \A c \in M : Decide!Bullish(ind)[c] = bull[c] /\ Decide!Bearish(ind)[c] = bear[c]
  <2>1. CASE ind.volume # Decide!None
    BY <1>1, <1>5, <2>1 DEF Decide!Reported
  <2>2. CASE ind.volume = Decide!None
    BY <1>1, <1>5, <2>2 DEF Decide!Reported, Decide!Restrict
  <2> QED
    BY <2>1, <2>2
<1>7. Decide!Matched(Decide!Bullish(ind)) \cap Decide!Matched(Decide!Bearish(ind))
        \subseteq {"ema21", "volume"}
  BY <1>4, <1>6 DEF Decide!Matched
<1>8. M \subseteq N /\ {"trend", "ema9", "sar", "macd"} \subseteq M
  BY <1>6
<1> QED
  BY <1>6, <1>7, <1>8

\* What the general engine buys the index strategy does not see as a bearish market:
\* two majorities of mostly exclusive conditions cannot both be had, for every
\* reading of the indicators (engine.py, index_direction_strategy.py).
THEOREM EnginesNeverOppose ==
  ASSUME NEW case, \A n \in Compared : case.ind[n] \in Int
  PROVE  Decide!EnginesAgree(case)
<1> DEFINE ind == case.ind
           U == Decide!Matched(Decide!Bullish(ind))
           V == Decide!Matched(Decide!Bearish(ind))
           D == DOMAIN Decide!Bullish(ind)
<1>1. SUFFICES ASSUME Decide!GeneralPasses(case), Decide!Direction(ind) = "bearish"
               PROVE  FALSE
  BY DEF Decide!EnginesAgree, Decide!GeneralSignal
<1>2. Decide!Clears(Decide!Bullish(ind), 800, ind)
  BY <1>1 DEF Decide!GeneralPasses
<1>3. Decide!Cardinality(V) > Decide!Cardinality(U)
  BY <1>1 DEF Decide!Direction, Decide!ClearMajority
<1>4. 1000 * Decide!Cardinality(U) >= Decide!Threshold(800, ind) * Decide!Cardinality(D)
  BY <1>2 DEF Decide!Clears
<1>5. Decide!Threshold(800, ind) \in Int /\ Decide!Threshold(800, ind) >= 800
  <2>1. \E x \in {1000, 925} : \A y \in {1000, 925} : x =< y
    OBVIOUS
  <2>2. Decide!Min({1000, 925}) \in {1000, 925}
    BY <2>1 DEF Decide!Min
  <2>3. 800 + 125 = 925
    OBVIOUS
  <2> QED
    BY <2>2, <2>3 DEF Decide!Threshold
<1>6. /\ U \subseteq D /\ V \subseteq D /\ U \cap V \subseteq {"ema21", "volume"}
      /\ D \subseteq {"trend", "ema9", "ema21", "sar", "macd", "hist", "rsi", "volume"}
      /\ {"trend", "ema9", "sar", "macd"} \subseteq D
  <2>1. DOMAIN Decide!Bullish(ind) = DOMAIN Decide!Bearish(ind)
    BY ConditionsAre
  <2> QED
    BY <2>1, ConditionsAre DEF Decide!Matched
<1>7. \A S : Decide!Cardinality(S) = Cardinality(S)
  BY DEF Decide!Cardinality, Cardinality
<1> DEFINE t == Decide!Threshold(800, ind)
<1> HIDE DEF U, V, D, t
<1>8. /\ IsFiniteSet({"ema21", "volume"}) /\ Cardinality({"ema21", "volume"}) <= 2
  <2>1. IsFiniteSet({"ema21"}) /\ Cardinality({"ema21"}) = 1
    BY FS_Singleton
  <2>2. {"ema21", "volume"} = {"ema21"} \cup {"volume"}
    OBVIOUS
  <2> QED
    BY <2>1, <2>2, FS_AddElement
<1>9. IsFiniteSet({"trend", "ema9", "sar", "macd"}) /\ Cardinality({"trend", "ema9", "sar", "macd"}) = 4
  <2>1. IsFiniteSet({"trend"}) /\ Cardinality({"trend"}) = 1
    BY FS_Singleton
  <2>2. IsFiniteSet({"trend"} \cup {"ema9"}) /\ Cardinality({"trend"} \cup {"ema9"}) = 2
    BY <2>1, FS_AddElement
  <2>3. /\ IsFiniteSet(({"trend"} \cup {"ema9"}) \cup {"sar"})
        /\ Cardinality(({"trend"} \cup {"ema9"}) \cup {"sar"}) = 3
    BY <2>2, FS_AddElement
  <2>4. /\ IsFiniteSet((({"trend"} \cup {"ema9"}) \cup {"sar"}) \cup {"macd"})
        /\ Cardinality((({"trend"} \cup {"ema9"}) \cup {"sar"}) \cup {"macd"}) = 4
    BY <2>3, FS_AddElement
  <2>5. {"trend", "ema9", "sar", "macd"} = (({"trend"} \cup {"ema9"}) \cup {"sar"}) \cup {"macd"}
    OBVIOUS
  <2> QED
    BY <2>4, <2>5
<1>10. IsFiniteSet(D)
  <2> DEFINE N == ((({"trend", "ema9", "sar", "macd"} \cup {"hist"}) \cup {"rsi"}) \cup {"ema21"}) \cup {"volume"}
  <2>1. IsFiniteSet(N)
    BY <1>9, FS_AddElement
  <2>2. D \subseteq N
    BY <1>6
  <2> QED
    BY <2>1, <2>2, FS_Subset
<1>11. IsFiniteSet(U) /\ IsFiniteSet(V) /\ IsFiniteSet(U \cup V) /\ IsFiniteSet(U \cap V)
  BY <1>6, <1>10, FS_Subset
<1>12. /\ Cardinality(U) \in Nat /\ Cardinality(V) \in Nat /\ Cardinality(D) \in Nat
       /\ Cardinality(U \cup V) \in Nat /\ Cardinality(U \cap V) \in Nat
  BY <1>10, <1>11, FS_CardinalityType
<1>13. Cardinality(U \cup V) = Cardinality(U) + Cardinality(V) - Cardinality(U \cap V)
  BY <1>11, FS_Union
<1>14. Cardinality(U \cup V) <= Cardinality(D)
  BY <1>6, <1>10, FS_Subset
<1>15. Cardinality(U \cap V) <= 2
  <2> DEFINE W == {"ema21", "volume"}
  <2>1. IsFiniteSet(W) /\ Cardinality(W) <= 2
    BY <1>8
  <2>2. U \cap V \subseteq W
    BY <1>6
  <2> HIDE DEF W
  <2>3. Cardinality(W) \in Nat
    BY <2>1, FS_CardinalityType
  <2>4. Cardinality(U \cap V) <= Cardinality(W)
    BY <2>1, <2>2, FS_Subset
  <2> QED
    BY <1>12, <2>1, <2>3, <2>4
<1>16. 4 <= Cardinality(D)
  BY <1>6, <1>9, <1>10, FS_Subset
<1>17. 1000 * Cardinality(U) >= 800 * Cardinality(D)
  <2>1. 1000 * Cardinality(U) >= t * Cardinality(D)
    BY <1>4, <1>7 DEF U, D, t
  <2>2. t \in Int /\ t >= 800
    BY <1>5 DEF t
  <2> DEFINE d == Cardinality(D)
  <2>3. d \in Nat
    BY <1>12
  <2> HIDE DEF d
  <2>4. t * d >= 800 * d
    BY <2>2, <2>3
  <2>5. t * d \in Int
    BY <2>2, <2>3
  <2> QED
    BY <1>12, <2>1, <2>4, <2>5 DEF d
<1>18. Cardinality(V) > Cardinality(U)
  BY <1>3, <1>7 DEF U, V
<1> QED
  BY <1>12, <1>13, <1>14, <1>15, <1>16, <1>17, <1>18
============================================================================
