-------------------------- MODULE FeedSubscription --------------------------
(***************************************************************************)
(* The live feed's socket and its option subscription                      *)
(* (apps/market_data/broker_ws_client, apps/options/subscription_manager): *)
(* the connection thread opens one socket after another, the refresh       *)
(* thread changes the subscription of the open one, and both keep          *)
(* _option_tokens, the feed's belief about what the broker streams.        *)
(*                                                                         *)
(* Sockets are numbered; the broker and the market are choices.  mishap is *)
(* history: a chunk the socket refused, or a refresh round that spanned a  *)
(* reconnect, since the socket was dialed.                                 *)
(***************************************************************************)
EXTENDS Naturals, FiniteSets

CONSTANTS
  Tokens,        \* option tokens in the chain
  MaxSockets,    \* bound: connections opened
  MaxMoves       \* bound: moves of the strike range

FeedAssumption == MaxSockets \in Nat \ {0} /\ MaxMoves \in Nat

Sockets == 0 .. MaxSockets - 1

VARIABLES
  marketOpen,
  desired,      \* what option_tokens_provider answers now
  tokens,       \* _option_tokens
  socket,       \* socket[s]: "none", "dialing", "open", "closed"
  streamed,     \* streamed[s]: option tokens the broker sends on s
  active,       \* _active_sws: {} or {s}
  ready,        \* _ws_ready
  thread,       \* the connection thread: pc, its socket, the desired set it captured
  failures,     \* _consecutive_failures
  refresh,      \* the refresh thread: pc, its socket, the new set, added, removed
  mishap,
  moves

vars == <<marketOpen, desired, tokens, socket, streamed, active, ready, thread, failures,
          refresh, mishap, moves>>

Resting == [pc |-> "idle", s |-> 0, new |-> {}, added |-> {}, removed |-> {}]

Init ==
  /\ marketOpen = TRUE /\ desired \in {t \in SUBSET Tokens : Cardinality(t) = 1}
  /\ tokens = {} /\ active = {} /\ ready = FALSE
  /\ socket = [s \in Sockets |-> "none"] /\ streamed = [s \in Sockets |-> {}]
  /\ thread = [pc |-> "loop", s |-> 0, want |-> {}]
  /\ failures = 0 /\ refresh = Resting /\ mishap = FALSE /\ moves = 0

Unborn == {s \in Sockets : socket[s] = "none"}

\* A call on a socket: refused unless the socket is open, or for its own reasons.
\* _subscribe_tokens and _unsubscribe_tokens log the refusal and go on.
Call(s, done, fails) ==
  IF socket[s] = "open" /\ ~fails
    THEN streamed' = [streamed EXCEPT ![s] = done] /\ UNCHANGED mishap
    ELSE UNCHANGED streamed /\ mishap' = TRUE

-----------------------------------------------------------------------------
(* The connection thread: run_forever, _connect_and_subscribe *)

DialNoReset(s) ==
  /\ thread.pc = "loop" /\ marketOpen /\ s \in Unborn
  /\ \A r \in Unborn : s <= r
  /\ \/ /\ tokens' = desired
        /\ socket' = [socket EXCEPT ![s] = "dialing"]
        /\ thread' = [pc |-> "dial", s |-> s, want |-> desired]
        /\ mishap' = (refresh.pc # "idle")
        /\ UNCHANGED failures
     \/ /\ failures' = failures + 1
        /\ thread' = [thread EXCEPT !.pc = "backoff"]
        /\ UNCHANGED <<tokens, socket, mishap>>
  /\ UNCHANGED <<marketOpen, desired, streamed, active, ready, refresh, moves>>

\* Three failures in a row: a fresh login, then the credentials; either may raise.
Dial(s) ==
  /\ thread.pc = "loop" /\ marketOpen /\ s \in Unborn
  /\ \A r \in Unborn : s <= r
  /\ \/ /\ tokens' = desired
        /\ socket' = [socket EXCEPT ![s] = "dialing"]
        /\ thread' = [pc |-> "dial", s |-> s, want |-> desired]
        /\ failures' = IF failures >= 3 THEN 0 ELSE failures
        /\ mishap' = (refresh.pc # "idle")
     \/ /\ failures' = IF failures >= 3 THEN 1 ELSE failures + 1
        /\ thread' = [thread EXCEPT !.pc = "backoff"]
        /\ UNCHANGED <<tokens, socket, mishap>>
  /\ UNCHANGED <<marketOpen, desired, streamed, active, ready, refresh, moves>>

Backoff ==
  /\ thread.pc = "backoff" /\ thread' = [thread EXCEPT !.pc = "loop"]
  /\ UNCHANGED <<marketOpen, desired, tokens, socket, streamed, active, ready, failures, refresh,
                 mishap, moves>>

\* on_open: the socket becomes the active one, then the whole set is subscribed.
Opened ==
  /\ thread.pc = "dial" /\ socket[thread.s] = "dialing"
  /\ socket' = [socket EXCEPT ![thread.s] = "open"]
  /\ active' = {thread.s}
  /\ thread' = [thread EXCEPT !.pc = "subscribe"]
  /\ UNCHANGED <<marketOpen, desired, tokens, streamed, ready, failures, refresh, mishap, moves>>

Subscribe(fails) ==
  /\ thread.pc = "subscribe"
  /\ Call(thread.s, thread.want, fails)
  /\ ready' = TRUE
  /\ thread' = [thread EXCEPT !.pc = "serve"]
  /\ UNCHANGED <<marketOpen, desired, tokens, socket, active, failures, refresh, moves>>

\* connect() returned: the socket closed, or the watchdog ended the handshake.
Returned ==
  /\ thread.pc \in {"dial", "serve"} /\ socket[thread.s] = "closed"
  /\ ready' = FALSE /\ active' = active \ {thread.s}
  /\ failures' = IF thread.pc = "dial" THEN failures + 1 ELSE 0
  /\ thread' = [thread EXCEPT !.pc = IF thread.pc = "dial" THEN "backoff" ELSE "loop"]
  /\ UNCHANGED <<marketOpen, desired, tokens, socket, streamed, refresh, mishap, moves>>

WatchdogWhenOpen ==
  /\ thread.pc = "dial" /\ socket[thread.s] = "open"
  /\ socket' = [socket EXCEPT ![thread.s] = "closed"]
  /\ UNCHANGED <<marketOpen, desired, tokens, streamed, active, ready, thread, failures, refresh,
                 mishap, moves>>

\* The watchdog timer: a handshake that never opens is closed.
Watchdog ==
  /\ thread.pc = "dial" /\ socket[thread.s] = "dialing"
  /\ socket' = [socket EXCEPT ![thread.s] = "closed"]
  /\ UNCHANGED <<marketOpen, desired, tokens, streamed, active, ready, thread, failures, refresh,
                 mishap, moves>>

-----------------------------------------------------------------------------
(* The refresh thread: _refresh_subscription *)

Look ==
  /\ refresh.pc = "idle" /\ ready /\ active # {}
  /\ refresh' = [Resting EXCEPT !.pc = "compute", !.s = CHOOSE s \in active : TRUE]
  /\ UNCHANGED <<marketOpen, desired, tokens, socket, streamed, active, ready, thread, failures,
                 mishap, moves>>

\* The provider answers; when it raises, the current set is the answer.
Compute(raises) ==
  /\ refresh.pc = "compute"
  /\ refresh' = [refresh EXCEPT !.pc = "diff", !.new = IF raises THEN tokens ELSE desired]
  /\ UNCHANGED <<marketOpen, desired, tokens, socket, streamed, active, ready, thread, failures,
                 mishap, moves>>

\* Under _sub_lock: the difference is taken and the belief is replaced at once.
Diff ==
  /\ refresh.pc = "diff"
  /\ tokens' = refresh.new
  /\ refresh' = IF refresh.new = tokens THEN Resting
                ELSE [refresh EXCEPT !.pc = "add", !.added = refresh.new \ tokens,
                                     !.removed = tokens \ refresh.new]
  /\ UNCHANGED <<marketOpen, desired, socket, streamed, active, ready, thread, failures, mishap, moves>>

Add(fails) ==
  /\ refresh.pc = "add"
  /\ IF refresh.added = {} THEN UNCHANGED <<streamed, mishap>>
     ELSE Call(refresh.s, streamed[refresh.s] \union refresh.added, fails)
  /\ refresh' = [refresh EXCEPT !.pc = "drop"]
  /\ UNCHANGED <<marketOpen, desired, tokens, socket, active, ready, thread, failures, moves>>

DropNothing(fails) ==
  /\ refresh.pc = "drop" /\ refresh' = Resting
  /\ UNCHANGED <<marketOpen, desired, tokens, socket, streamed, active, ready, thread, failures,
                 mishap, moves>>

Drop(fails) ==
  /\ refresh.pc = "drop"
  /\ IF refresh.removed = {} THEN UNCHANGED <<streamed, mishap>>
     ELSE Call(refresh.s, streamed[refresh.s] \ refresh.removed, fails)
  /\ refresh' = Resting
  /\ UNCHANGED <<marketOpen, desired, tokens, socket, active, ready, thread, failures, moves>>

-----------------------------------------------------------------------------
(* The surroundings *)

\* The broker or the network ends the connection (on_close).
Lose ==
  /\ thread.pc = "serve" /\ socket[thread.s] = "open"
  /\ socket' = [socket EXCEPT ![thread.s] = "closed"]
  /\ ready' = FALSE /\ active' = active \ {thread.s}
  /\ UNCHANGED <<marketOpen, desired, tokens, streamed, thread, failures, refresh, mishap, moves>>

\* The price moves, an expiry rolls or an operator selects another.
Move ==
  /\ moves < MaxMoves /\ moves' = moves + 1
  /\ \E t \in SUBSET Tokens : Cardinality(t) = 1 /\ desired' = t
  /\ UNCHANGED <<marketOpen, tokens, socket, streamed, active, ready, thread, failures, refresh, mishap>>

OpenOrClose ==
  /\ marketOpen' = ~marketOpen
  /\ UNCHANGED <<desired, tokens, socket, streamed, active, ready, thread, failures, refresh, mishap, moves>>

Connection ==
  \/ Backoff \/ Returned \/ \E s \in Sockets : Dial(s)
  \/ \E fails \in BOOLEAN : Subscribe(fails)

Refresh ==
  \/ Look \/ Diff
  \/ \E b \in BOOLEAN : Compute(b) \/ Add(b) \/ Drop(b)

Next == Connection \/ Opened \/ Watchdog \/ Refresh \/ Lose \/ Move \/ OpenOrClose

Spec == Init /\ [][Next]_vars

\* Both threads run, the watchdog fires, and credentials are not refused for ever.
FairSpec ==
  /\ Spec
  /\ WF_vars(Connection) /\ SF_vars(\E s \in Sockets : Dial(s) /\ thread'.pc = "dial")
  /\ WF_vars(Watchdog) /\ WF_vars(Refresh)

-----------------------------------------------------------------------------
(* Properties *)

\* The types; one socket at most is active, and it is the connection thread's.
TypeOK ==
  /\ tokens \subseteq Tokens /\ desired \subseteq Tokens /\ ready \in BOOLEAN
  /\ active \subseteq {thread.s}
  /\ \A s \in Sockets : socket[s] \in {"none", "dialing", "open", "closed"} /\ streamed[s] \subseteq Tokens
  /\ failures \in 0 .. 3

Serving == ready /\ refresh.pc = "idle" /\ thread.pc = "serve" /\ socket[thread.s] = "open"

\* Between refresh rounds the belief about a served socket is the truth, unless a
\* call was refused or a round spanned a reconnect (_refresh_subscription).
BeliefIsStreamed == Serving /\ ~mishap => streamed[thread.s] = tokens

\* The feed never stalls in a handshake or a backoff: while the market stays open
\* it is ready again and again (the watchdog, run_forever).
FeedComesBack == <>[](marketOpen) => []<>(ready \/ Unborn = {})
=============================================================================
