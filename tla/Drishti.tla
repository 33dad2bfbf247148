------------------------------- MODULE Drishti -------------------------------
(***************************************************************************)
(* The assistant: the chat panel of a tab (jarvisStore.js, JarvisPanel.jsx)*)
(* and the command engine (apps.jarvis.engine).  A command typed, clicked  *)
(* or spoken goes out with confirm set when the panel is waiting for one;  *)
(* the engine asks back before a restricted action, otherwise it answers,  *)
(* and logs the exchange.  The log fills the chat of a fresh page.         *)
(*                                                                         *)
(* What the words of a command mean (apps.jarvis.intent) is a choice of    *)
(* its action.  Exchanges are numbered in the order they are sent.         *)
(***************************************************************************)
EXTENDS Integers, Sequences, FiniteSets, SequencesExt

CONSTANTS
  Actions,                             \* the kinds of command that are given
  MaxExchanges, MaxLoads, MaxClears,   \* bounds; loads: hydrateHistory, twice under StrictMode
  Admin                                \* TRUE: the user is one

DrishtiAssumption ==
  /\ {MaxExchanges, MaxLoads, MaxClears} \subseteq Nat /\ Admin \in BOOLEAN
  /\ Actions \subseteq {"read", "restricted", "admin", "unknown"}

VARIABLES
  exchange,   \* exchange[e]: [stage, action, confirm, outcome, logged]
  shown,      \* messages: <<exchange, "user" or "drishti">>
  waiting,    \* pendingConfirmText is not null
  mic,        \* "off", or what the recogniser's callback will submit with
  load,       \* load[h]: "none", "asked", "done", or the rows on their way
  clear,      \* clear[c]: "none", "asked", "deleted", "done"
  log         \* the exchanges with a row of JarvisCommandHistory, oldest first

vars == <<exchange, shown, waiting, mic, load, clear, log>>

Exchanges == 1..MaxExchanges
Unsent == [stage |-> "unsent", action |-> "read", confirm |-> FALSE, outcome |-> "none"]

TypeOK ==
  /\ exchange \in [Exchanges ->
       [stage : {"unsent", "sent", "left", "handled", "done"}, action : Actions \cup {"read"},
        confirm : BOOLEAN, outcome : {"none", "asked", "ran", "refused", "failed"}]]
  /\ shown \in Seq(Exchanges \X {"user", "drishti"}) /\ log \in Seq(Exchanges)
  /\ waiting \in BOOLEAN /\ mic \in {"off", "plain", "confirm"}

Init ==
  /\ exchange = [e \in Exchanges |-> Unsent] /\ shown = <<>> /\ waiting = FALSE /\ mic = "off"
  /\ load = [h \in 1..MaxLoads |-> [state |-> "none", rows |-> <<>>]]
  /\ clear = [c \in 1..MaxClears |-> "none"]
  /\ log = <<>>

-----------------------------------------------------------------------------
(* The panel *)

Sent(e, action, confirm) ==
  /\ exchange[e].stage = "unsent" /\ \A d \in 1..(e - 1) : exchange[d].stage # "unsent"
  /\ exchange' = [exchange EXCEPT ![e] = [@ EXCEPT !.stage = "sent", !.action = action, !.confirm = confirm]]
  /\ shown' = Append(shown, <<e, "user">>)

\* The form is disabled while a command is under way, a suggestion is not.
Submit(e, action) == Sent(e, action, waiting) /\ UNCHANGED <<waiting, mic, load, clear, log>>

\* The callback keeps the submit of the render that started the microphone.
Listen ==
  /\ mic' = IF mic # "off" THEN "off" ELSE IF waiting THEN "confirm" ELSE "plain"
  /\ UNCHANGED <<exchange, shown, waiting, load, clear, log>>
Heard(e, action) ==
  /\ mic # "off" /\ mic' = "off" /\ Sent(e, action, mic = "confirm")
  /\ UNCHANGED <<waiting, load, clear, log>>

Reply(e) ==
  /\ exchange[e].stage = "handled"
  /\ exchange' = [exchange EXCEPT ![e].stage = "done"]
  /\ shown' = Append(shown, <<e, "drishti">>)
  /\ waiting' = (exchange[e].outcome = "asked")
  /\ UNCHANGED <<mic, load, clear, log>>

\* An error is a bubble too; it leaves the panel waiting if it was.
Fail(e) ==
  /\ exchange[e].stage \in {"sent", "handled"}
  /\ exchange' = [exchange EXCEPT ![e].stage = "done",
                                  ![e].outcome = IF @ = "none" THEN "failed" ELSE @]
  /\ shown' = Append(shown, <<e, "drishti">>)
  /\ UNCHANGED <<waiting, mic, load, clear, log>>

\* hydrateHistory: only an empty chat asks, and only an empty chat takes the answer.
Ask(h) ==
  /\ load[h].state = "none" /\ shown = <<>> /\ load' = [load EXCEPT ![h].state = "asked"]
  /\ UNCHANGED <<exchange, shown, waiting, mic, clear, log>>
Bubbles(rows) == FlattenSeq([i \in DOMAIN rows |-> <<<<rows[i], "user">>, <<rows[i], "drishti">>>>])
Hydrate(h) ==
  /\ load[h].state = "read" /\ load' = [load EXCEPT ![h] = [state |-> "done", rows |-> <<>>]]
  /\ shown' = IF shown = <<>> THEN Bubbles(load[h].rows) ELSE shown
  /\ UNCHANGED <<exchange, waiting, mic, clear, log>>

\* clearHistory: the rows first, the chat when the answer is there.
Clear(c) ==
  /\ clear[c] = "none" /\ clear' = [clear EXCEPT ![c] = "asked"]
  /\ UNCHANGED <<exchange, shown, waiting, mic, load, log>>
Cleared(c) ==
  /\ clear[c] = "deleted" /\ clear' = [clear EXCEPT ![c] = "done"] /\ shown' = <<>>
  /\ UNCHANGED <<exchange, waiting, mic, load, log>>

\* A reload drops the page with its requests; the engine finishes what it received.
Reload ==
  /\ shown # <<>> /\ \E h \in DOMAIN load : load[h].state = "none"
  /\ shown' = <<>> /\ waiting' = FALSE /\ mic' = "off"
  /\ load' = [h \in DOMAIN load |-> IF load[h].state = "none" THEN load[h] ELSE [state |-> "done", rows |-> <<>>]]
  /\ clear' = [c \in DOMAIN clear |-> IF clear[c] = "none" THEN "none" ELSE "done"]
  /\ exchange' = [e \in Exchanges |->
       [exchange[e] EXCEPT !.stage = CASE @ = "sent" -> "left" [] @ = "handled" -> "done" [] OTHER -> @]]
  /\ UNCHANGED log

-----------------------------------------------------------------------------
(* The engine *)

Outcome(x) ==
  CASE x.action = "unknown" -> "refused"
    [] x.action = "admin" /\ ~Admin -> "refused"
    [] x.action = "restricted" /\ ~x.confirm -> "asked"
    [] OTHER -> "ran"

\* process: the log's failure never blocks the answer.
Handle(e) ==
  /\ exchange[e].stage \in {"sent", "left"}
  /\ exchange' = [exchange EXCEPT ![e].stage = IF @ = "sent" THEN "handled" ELSE "done", ![e].outcome = Outcome(exchange[e])]
  /\ log' \in {log, Append(log, e)}
  /\ UNCHANGED <<shown, waiting, mic, load, clear>>

ReadLog(h) ==
  /\ load[h].state = "asked" /\ load' = [load EXCEPT ![h] = [state |-> "read", rows |-> log]]
  /\ UNCHANGED <<exchange, shown, waiting, mic, clear, log>>
DeleteLog(c) ==
  /\ clear[c] = "asked" /\ clear' = [clear EXCEPT ![c] = "deleted"] /\ log' = <<>>
  /\ UNCHANGED <<exchange, shown, waiting, mic, load>>

Next ==
  \/ \E e \in Exchanges :
       \/ \E action \in Actions : Submit(e, action) \/ Heard(e, action)
       \/ Handle(e) \/ Reply(e) \/ Fail(e)
  \/ Listen \/ Reload
  \/ \E h \in DOMAIN load : Ask(h) \/ ReadLog(h) \/ Hydrate(h)
  \/ \E c \in DOMAIN clear : Clear(c) \/ DeleteLog(c) \/ Cleared(c)

Spec == Init /\ [][Next]_vars

-----------------------------------------------------------------------------
(* Properties *)

\* "Drishti must always ask confirmation for these" (jarvis/commands.py): what ran
\* confirmed was sent after a question had come back; by the microphone's callback
\* perhaps of a render that was waiting then, and more than once for one question.
AskedFirst ==
  \A e \in Exchanges : exchange[e].outcome = "ran" /\ exchange[e].action = "restricted" =>
    \E d \in 1..(e - 1) : exchange[d].outcome = "asked"

\* The history that is loaded never meets the conversation that is under way: no
\* bubble is in the chat twice, unless the chat was cleared meanwhile.
NoBubbleTwice == (\A c \in DOMAIN clear : clear[c] = "none") => \A i, j \in DOMAIN shown : shown[i] = shown[j] => i = j
=============================================================================
