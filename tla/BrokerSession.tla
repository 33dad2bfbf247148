---------------------------- MODULE BrokerSession ----------------------------
(***************************************************************************)
(* The REST client of the broker (market_data/broker_client.py): processes *)
(* share one account, in which every login invalidates the session of the  *)
(* process that logged in before; the threads of a process share one       *)
(* session, one failure counter and one cooldown, and every process shares *)
(* a counter, a cooldown and a request slot in the cache.                  *)
(*                                                                         *)
(* A session is "none", "valid" or "stale": which login it came from does  *)
(* not matter, only whether the broker still honours it.                   *)
(***************************************************************************)
EXTENDS Naturals, FiniteSets

CONSTANTS
  Processes,
  Threads,     \* calls of one thread are sequential
  ProcessOf,   \* ProcessOf[t]: the process of thread t
  Kinds,       \* calls made: among "ltp", "read", "order"
  Attempts,    \* _SMARTAPI_RETRY_ATTEMPTS
  Threshold    \* _SMARTAPI_COOLDOWN_TRIP_THRESHOLD

BrokerAssumption ==
  /\ ProcessOf \in [Threads -> Processes]
  /\ Kinds \subseteq {"ltp", "read", "order"}
  /\ Attempts \in Nat \ {0} /\ Threshold \in Nat \ {0}

VARIABLES
  conn,        \* conn[p]: the cached session of process p
  call,        \* call[t]: the call thread t is in
  breaker,     \* breaker[p]: consecutive exhausted calls, and the cooldown
  shared,      \* the same, in the cache
  slot,        \* the request slot's key is set
  throttled,   \* the broker may still limit the account
  posted       \* history: requests of the order t submits that were sent

vars == <<conn, call, breaker, shared, slot, throttled, posted>>

Sessions == {"none", "valid", "stale"}
Closed == [failures |-> 0, open |-> FALSE]
Breakers == [failures : 0 .. Threshold, open : BOOLEAN]

NoCall == [at |-> "idle", kind |-> "none", login |-> 1, attempt |-> 1, session |-> "none"]
Calls == [at : {"idle", "connect", "check", "slot", "send", "drop"},
          kind : Kinds \union {"none"}, login : 1 .. 2, attempt : 1 .. Attempts,
          session : Sessions]

Init ==
  /\ conn = [p \in Processes |-> "none"]
  /\ call = [t \in Threads |-> NoCall]
  /\ breaker = [p \in Processes |-> Closed] /\ shared = Closed
  /\ slot = FALSE /\ throttled = TRUE /\ posted = [t \in Threads |-> 0]

Goto(t, at) == call' = [call EXCEPT ![t].at = at]
Finish(t) == call' = [call EXCEPT ![t] = NoCall]

Call(t, kind) ==
  /\ call[t].at = "idle"
  /\ call' = [call EXCEPT ![t] = [NoCall EXCEPT !.at = "connect", !.kind = kind]]
  /\ posted' = [posted EXCEPT ![t] = 0]
  /\ UNCHANGED <<conn, breaker, shared, slot, throttled>>

\* _connect hands out the cached session without asking whether it still holds.
Reuse(t) ==
  LET p == ProcessOf[t]
  IN /\ call[t].at = "connect" /\ conn[p] # "none"
     /\ call' = [call EXCEPT ![t].at = "check", ![t].session = conn[p]]
     /\ UNCHANGED <<conn, breaker, shared, slot, throttled, posted>>

\* A login honoured by the broker ends every other session of the account.
Stale(session) == IF session = "valid" THEN "stale" ELSE session
EndSessions == [u \in Threads |-> [call[u] EXCEPT !.session = Stale(@)]]

\* _connect with no session: one login, under the connect lock.  It is answered,
\* refused before it took effect, or lost after it did; only the first is kept.
Login(t, outcome) ==
  LET p == ProcessOf[t]
  IN /\ call[t].at = "connect" /\ conn[p] = "none"
     /\ call' = CASE outcome = "answered" ->
                       [EndSessions EXCEPT ![t].at = "check", ![t].session = "valid"]
                  [] outcome = "lost"     -> [EndSessions EXCEPT ![t] = NoCall]
                  [] outcome = "refused"  -> [call EXCEPT ![t] = NoCall]
     /\ conn' = CASE outcome = "answered" ->
                       [q \in Processes |-> IF q = p THEN "valid" ELSE Stale(conn[q])]
                  [] outcome = "lost"     -> [q \in Processes |-> Stale(conn[q])]
                  [] outcome = "refused"  -> conn
     /\ UNCHANGED <<breaker, shared, slot, throttled, posted>>

\* _smartapi_request begins by asking both breakers, once.
CoolingDown(p) == shared.open \/ breaker[p].open

Check(t) ==
  /\ call[t].at = "check"
  /\ IF CoolingDown(ProcessOf[t]) THEN Finish(t) ELSE Goto(t, "slot")
  /\ UNCHANGED <<conn, breaker, shared, slot, throttled, posted>>

\* _wait_for_smartapi_slot: the slot, or the deadline, or a cache that is away.
TakeSlot(t) ==
  /\ call[t].at = "slot" /\ ~slot /\ slot' = TRUE
  /\ Goto(t, "send")
  /\ UNCHANGED <<throttled, conn, breaker, shared, posted>>

GiveUpSlot(t) ==
  /\ call[t].at = "slot" /\ Goto(t, "send")
  /\ UNCHANGED <<conn, breaker, shared, slot, throttled, posted>>

Slot(t) == TakeSlot(t) \/ GiveUpSlot(t)

SlotExpires == slot /\ slot' = FALSE /\ UNCHANGED <<throttled, conn, call, breaker, shared, posted>>

\* What the broker makes of a request: a stale session is refused.
Answers(session) ==
  {"error", "timeout"} \union (IF throttled THEN {"limited"} ELSE {})
    \union (IF session = "valid" THEN {"ok"} ELSE {"invalid"})

RetriesAll(t, answer) == answer = "limited" /\ call[t].attempt < Attempts

\* Only reads are sent again, place_order passes retry_rate_limits=False.
Retries(t, answer) ==
  answer = "limited" /\ call[t].kind # "order" /\ call[t].attempt < Attempts

\* _record_smartapi_rate_limit_exhaustion and _reset_smartapi_rate_limit_failures:
\* a reset leaves an open cooldown open.
Exhausted(b) ==
  LET n == IF b.failures < Threshold THEN b.failures + 1 ELSE b.failures
  IN [failures |-> n, open |-> b.open \/ n >= Threshold]

Counted(b, t, answer) ==
  CASE answer = "limited" /\ ~Retries(t, answer) -> Exhausted(b)
    [] answer \in {"ok", "invalid"}              -> [b EXCEPT !.failures = 0]
    [] OTHER                                     -> b

\* One attempt: sent, answered, counted in both breakers.
Send(t, answer) ==
  LET p == ProcessOf[t]
      c == call[t]
  IN /\ c.at = "send" /\ answer \in Answers(c.session)
     /\ posted' = [posted EXCEPT ![t] = IF c.kind = "order" /\ @ < 2 THEN @ + 1 ELSE @]
     /\ breaker' = [breaker EXCEPT ![p] = Counted(@, t, answer)]
     /\ shared' = Counted(shared, t, answer)
     /\ call' = [call EXCEPT ![t] =
                   IF Retries(t, answer) THEN [c EXCEPT !.at = "slot", !.attempt = @ + 1]
                   ELSE IF c.kind = "ltp" /\ answer = "invalid" /\ c.login = 1
                        THEN [c EXCEPT !.at = "drop"]
                   ELSE NoCall]
     /\ UNCHANGED <<conn, slot, throttled>>

\* _force_reconnect drops whatever session the process has by now; the fetch is
\* then repeated once.
Drop(t) ==
  /\ call[t].at = "drop"
  /\ conn' = [conn EXCEPT ![ProcessOf[t]] = "none"]
  /\ call' = [call EXCEPT ![t] = [@ EXCEPT !.at = "connect", !.login = 2, !.attempt = 1,
                                           !.session = "none"]]
  /\ UNCHANGED <<breaker, shared, slot, throttled, posted>>

\* A cooldown ends by the clock and leaves the counter; the shared counter has
\* its own lifetime.
CooldownEnds(p) ==
  /\ breaker[p].open /\ breaker' = [breaker EXCEPT ![p].open = FALSE]
  /\ UNCHANGED <<conn, call, shared, slot, throttled, posted>>

SharedCooldownEnds ==
  /\ shared.open /\ shared' = [shared EXCEPT !.open = FALSE]
  /\ UNCHANGED <<conn, call, breaker, slot, throttled, posted>>

SharedCountExpires ==
  /\ shared.failures > 0 /\ shared' = [shared EXCEPT !.failures = 0]
  /\ UNCHANGED <<conn, call, breaker, slot, throttled, posted>>

\* The broker lifts the limits on the account (once: a bound of the model).
Calm ==
  /\ throttled /\ throttled' = FALSE
  /\ UNCHANGED <<conn, call, breaker, shared, slot, posted>>

\* A thread carries its call on.
Proceed(t) ==
  \/ Reuse(t) \/ Check(t) \/ Slot(t) \/ Drop(t)
  \/ \E o \in {"answered", "refused", "lost"} : Login(t, o)
  \/ \E a \in {"ok", "invalid", "limited", "error", "timeout"} : Send(t, a)

CooldownsEnd == SharedCooldownEnds \/ \E p \in Processes : CooldownEnds(p)

Next ==
  \/ CooldownsEnd \/ SharedCountExpires \/ SlotExpires \/ Calm
  \/ \E t \in Threads : Proceed(t) \/ \E kind \in Kinds : Call(t, kind)

Spec == Init /\ [][Next]_vars

\* A thread runs; the health check asks for a price again and again, and the
\* account is not throttled, unreachable or in cooldown for ever. A slot that
\* never comes free needs no fairness: the wait for it is bounded.
FairSpec(t) ==
  /\ Spec /\ WF_vars(CooldownsEnd) /\ WF_vars(Calm)
  /\ WF_vars(Proceed(t))
  /\ SF_vars(Call(t, "ltp"))
  /\ SF_vars(call[t].kind = "ltp" /\ (Send(t, "ok") \/ Send(t, "invalid")))

-----------------------------------------------------------------------------
(* Properties *)

\* The types of the sessions, calls and breakers.
TypeOK ==
  /\ conn \in [Processes -> Sessions] /\ call \in [Threads -> Calls]
  /\ breaker \in [Processes -> Breakers] /\ shared \in Breakers
  /\ slot \in BOOLEAN /\ throttled \in BOOLEAN /\ posted \in [Threads -> 0 .. 2]

\* However an order's submission ends, its request was sent at most once
\* (place_order: an ambiguous answer is reconciled, never repeated).
OrderSentOnce == [][\A t \in Threads : call[t].kind = "order" => posted'[t] <= 1]_vars

\* No call of a thread that runs waits for ever, whatever the others do (the
\* bounded wait for the slot, the hard timeout).
CallsEnd(t) == call[t].at # "idle" ~> call[t].at = "idle"

\* A process whose session another login ended gets rid of it: it does not hold
\* a stale session for ever.
StaleSession(p) == conn[p] = "stale"
=============================================================================
