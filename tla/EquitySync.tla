----------------------------- MODULE EquitySync -----------------------------
(***************************************************************************)
(* The account row and the kill-switch row (apps/risk) and everyone who    *)
(* writes them in live operation: any reader (get_equity), the broker      *)
(* balance sync of the trading cycle and of a manual buy, the booking of a *)
(* live exit, the limit check, the re-arm command and the mode switch.     *)
(*                                                                         *)
(* The sync and the limit check read, work outside any lock and write      *)
(* later; sync[s] and check hold what they read.  The broker's net funds   *)
(* fall by the premium while a position is held and settle at its result.  *)
(***************************************************************************)
EXTENDS Integers

CONSTANTS
  Syncers,        \* tasks that can synchronize at once
  InitialFunds,
  Premium,        \* funds held by an open position
  Results,        \* results a trade may have
  MaxTrades, MaxDays, MaxSwitches,   \* bounds
  FlattenPct      \* DRAWDOWN_FLATTEN_PCT, the only limit that trips the switch

EquityAssumption ==
  /\ InitialFunds \in Nat \ {0} /\ Premium \in Nat /\ Results \subseteq Int
  /\ MaxTrades \in Nat /\ MaxDays \in Nat /\ MaxSwitches \in Nat /\ FlattenPct \in Nat

VARIABLES
  mode, day,
  account,     \* AccountEquity: current, dayStart, peak, day, source, syncedOn
  funds,       \* the broker's net balance
  trade,       \* "none", "ordered", "open", "sold" (filled, not booked yet)
  result,      \* the result of the trade that was sold
  sync,        \* sync_live_account_equity in each task
  check,       \* enforce_account_risk_limits: "idle", or "trip" once it saw a breach
  rearm,       \* rearm_kill_switch: "idle", or "write" once it saw an active switch
  halted,      \* KillSwitchState.is_active
  trades, switches

vars == <<mode, day, account, funds, trade, result, sync, check, rearm, halted, trades, switches>>

Larger(a, b) == IF a >= b THEN a ELSE b
NotSyncing == [pc |-> "idle", funds |-> 0]

Init ==
  /\ mode = "paper" /\ day = 1
  /\ account = [current |-> InitialFunds, dayStart |-> InitialFunds, peak |-> InitialFunds,
                day |-> 1, source |-> "paper", syncedOn |-> 0]
  /\ funds = InitialFunds /\ trade = "none" /\ result = 0
  /\ sync = [s \in Syncers |-> NotSyncing]
  /\ check = "idle" /\ rearm = "idle" /\ halted = FALSE
  /\ trades = 0 /\ switches = 0

\* get_equity: leaving a live session restarts the baseline, a new day rolls it.
\* (The code reads the mode just before it locks the row; here it is one step.)
Rolled ==
  LET left == [account EXCEPT !.source = "paper", !.dayStart = account.current,
                              !.peak = account.current, !.day = day, !.syncedOn = 0]
  IN IF mode = "paper" /\ account.source # "paper" THEN left
     ELSE IF account.day < day THEN [account EXCEPT !.dayStart = account.current, !.day = day]
     ELSE account

\* _check_drawdown at the flatten threshold; the other limits only refuse entries.
Breached(a) == a.peak > 0 /\ 100 * (a.peak - a.current) >= FlattenPct * a.peak

-----------------------------------------------------------------------------
(* sync_live_account_equity: check, fetch, write *)

CheckFlat(s) ==
  /\ sync[s].pc = "idle" /\ mode = "live"
  /\ trade = "none"
  /\ sync' = [sync EXCEPT ![s].pc = "fetch"]
  /\ UNCHANGED <<mode, day, account, funds, trade, result, check, rearm, halted, trades, switches>>

\* The broker answers, or the call raises.
Fetch(s) ==
  /\ sync[s].pc = "fetch"
  /\ \/ sync' = [sync EXCEPT ![s] = [pc |-> "write", funds |-> funds]]
     \/ sync' = [sync EXCEPT ![s] = NotSyncing]
  /\ UNCHANGED <<mode, day, account, funds, trade, result, check, rearm, halted, trades, switches>>

Synced(f) ==
  LET restart == account.source # "live"
      base == restart \/ account.day # day
  IN [current |-> f, source |-> "live", syncedOn |-> day, day |-> day,
      dayStart |-> IF base THEN f ELSE account.dayStart,
      peak |-> IF restart THEN f ELSE Larger(account.peak, f)]

Write(s) ==
  /\ sync[s].pc = "write"
  /\ account' = Synced(sync[s].funds)
  /\ sync' = [sync EXCEPT ![s] = NotSyncing]
  /\ UNCHANGED <<mode, day, funds, trade, result, check, rearm, halted, trades, switches>>

-----------------------------------------------------------------------------
(* The kill switch *)

\* Any reader of the row: the dashboard, a risk check.
Read ==
  /\ account' = Rolled /\ account' # account
  /\ UNCHANGED <<mode, day, funds, trade, result, sync, check, rearm, halted, trades, switches>>

LookForCrossing ==
  /\ check = "idle"
  /\ account' = Rolled
  /\ check' = IF Breached(Rolled) /\ ~Breached(account) THEN "trip" ELSE "idle"
  /\ UNCHANGED <<mode, day, funds, trade, result, sync, rearm, halted, trades, switches>>

\* enforce_account_risk_limits: a breach is seen in one transaction ...
Look ==
  /\ check = "idle"
  /\ account' = Rolled
  /\ check' = IF Breached(Rolled) THEN "trip" ELSE "idle"
  /\ UNCHANGED <<mode, day, funds, trade, result, sync, rearm, halted, trades, switches>>

\* ... and trigger_kill_switch writes the other row afterwards.
Trip ==
  /\ check = "trip"
  /\ halted' = TRUE /\ check' = "idle"
  /\ UNCHANGED <<mode, day, account, funds, trade, result, sync, rearm, trades, switches>>

\* rearm_kill_switch reads the row and saves it without a lock.
SeeHalted ==
  /\ rearm = "idle" /\ halted /\ rearm' = "write"
  /\ UNCHANGED <<mode, day, account, funds, trade, result, sync, check, halted, trades, switches>>

WriteRearm ==
  /\ rearm = "write" /\ halted' = FALSE /\ rearm' = "idle"
  /\ UNCHANGED <<mode, day, account, funds, trade, result, sync, check, trades, switches>>

-----------------------------------------------------------------------------
(* Trades, days and modes *)

\* open_position_live: the baseline must be of today (_check_equity_provenance).
Order ==
  /\ mode = "live" /\ trade = "none" /\ trades < MaxTrades /\ ~halted /\ ~Breached(account)
  /\ account.source = "live" /\ account.syncedOn = day
  /\ trade' = "ordered" /\ trades' = trades + 1
  /\ UNCHANGED <<mode, day, account, funds, result, sync, check, rearm, halted, switches>>

Fill ==
  /\ trade = "ordered" /\ trade' = "open"
  /\ funds' = funds - Premium
  /\ UNCHANGED <<mode, day, account, result, sync, check, rearm, halted, trades, switches>>

Sell(r) ==
  /\ trade = "open" /\ trade' = "sold"
  /\ funds' = funds + Premium + r /\ result' = r
  /\ UNCHANGED <<mode, day, account, sync, check, rearm, halted, trades, switches>>

\* _finalize_close_fill, under the row's lock.
Book ==
  /\ trade = "sold" /\ trade' = "none" /\ result' = 0
  /\ account' = [account EXCEPT !.current = @ + result,
                                !.peak = Larger(@, account.current + result)]
  /\ UNCHANGED <<mode, day, funds, sync, check, rearm, halted, trades, switches>>

NextDay ==
  /\ day < MaxDays /\ day' = day + 1
  /\ UNCHANGED <<mode, account, funds, trade, result, sync, check, rearm, halted, trades, switches>>

SwitchMode ==
  /\ trade = "none" /\ switches < MaxSwitches
  /\ mode' = IF mode = "paper" THEN "live" ELSE "paper"
  /\ switches' = switches + 1
  /\ UNCHANGED <<day, account, funds, trade, result, sync, check, rearm, halted, trades>>

Synchronize(s) == CheckFlat(s) \/ Fetch(s) \/ Write(s)
Enforce == Look \/ Trip
Trading == Order \/ Fill \/ Book \/ \E r \in Results : Sell(r)

Next ==
  \/ \E s \in Syncers : Synchronize(s)
  \/ Read \/ Enforce \/ SeeHalted \/ WriteRearm
  \/ Trading \/ NextDay \/ SwitchMode

Spec == Init /\ [][Next]_vars

\* The beat schedule repeats the sync and the limit check, a broker call does
\* not fail for ever, and a command that started ends.
FairSpec ==
  /\ Spec
  /\ \A s \in Syncers :
       WF_vars(CheckFlat(s)) /\ WF_vars(Fetch(s)) /\ SF_vars(Fetch(s) /\ sync'[s].pc = "write") /\ WF_vars(Write(s))
  /\ WF_vars(Enforce) /\ WF_vars(WriteRearm)

-----------------------------------------------------------------------------
(* Properties *)

\* The types of both rows; the drawdown is never negative (drawdown_pct).
TypeOK ==
  /\ mode \in {"paper", "live"} /\ account.source \in {"paper", "live"} /\ halted \in BOOLEAN
  /\ account.day <= day /\ account.syncedOn <= account.day
  /\ account.peak >= account.current
  /\ trade \in {"none", "ordered", "open", "sold"}

\* Several tasks may write a balance that was fetched before a trade was booked;
\* with no exposure the row still comes to agree with the broker
\* (sync_live_account_equity).
BooksConverge ==
  (mode = "live" /\ trade = "none") ~> (account.current = funds \/ trade # "none" \/ mode # "live")

\* Within one day and one source the daily-loss baseline does not move, whichever
\* of get_equity and the sync comes first (the baseline of _check_daily_loss).
KeepsBaseline ==
  account'.day = account.day /\ account'.source = account.source
    => account'.dayStart = account.dayStart

\* A re-arm that races a new trip can erase it; a breach that lasts trips the
\* switch again (enforce_account_risk_limits every cycle).
BreachIsRetripped == Breached(account) ~> (halted \/ ~Breached(account))
=============================================================================
