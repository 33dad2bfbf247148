----------------------------- MODULE PriceAlerts -----------------------------
(***************************************************************************)
(* A trader's price alerts: rows of monitoring.PriceAlert, set and deleted *)
(* in the panel, by the API or by a spoken command, and the recurring task *)
(* that fires them (monitoring/tasks.py check_price_alerts). The task      *)
(* reads the armed rows once and then takes them one by one.               *)
(*                                                                         *)
(* A row is [state, target, above]. price is the latest close, None before *)
(* the first candle.                                                       *)
(***************************************************************************)
EXTENDS Integers, FiniteSets

CONSTANTS
  Alerts,     \* bound: rows that are ever created
  Workers,    \* runs of the task that may overlap
  Prices,
  MaxEdits,   \* bound: edits of a row
  MaxDeaths   \* bound: workers killed

AlertsAssumption ==
  /\ IsFiniteSet(Workers) /\ Prices \subseteq Nat \ {0} /\ {MaxEdits, MaxDeaths} \subseteq Nat

VARIABLES
  price,
  row,        \* row[a]: the alert
  check,      \* check[w]: [pc, todo, at], todo: the rows as read
  edit,       \* edit[a]: the row a running PATCH has read, or NoRow
  edits,      \* edits[a]: edits of a so far
  told,       \* told[a]: announcements of a
  deaths

vars == <<price, row, check, edit, edits, told, deaths>>

None == 0
NoRow == [state |-> "none", target |-> 0, above |-> FALSE]
Rows == [state : {"none", "armed", "fired", "deleted"}, target : Prices \union {0}, above : BOOLEAN]
Rest == [pc |-> "idle", todo |-> {}, at |-> NoRow]
Exists(a) == row[a].state \in {"armed", "fired"}
Crossed(r) == price # None /\ (IF r.above THEN price >= r.target ELSE price <= r.target)

TypeOK ==
  /\ price \in Prices \union {None} /\ row \in [Alerts -> Rows] /\ edit \in [Alerts -> Rows]
  /\ edits \in [Alerts -> 0..MaxEdits] /\ told \in [Alerts -> Nat] /\ deaths \in 0..MaxDeaths
  /\ \A w \in Workers :
       /\ check[w].pc \in {"idle", "next", "save", "announce"}
       /\ check[w].todo \subseteq [id : Alerts, row : Rows]

Init ==
  /\ price = None /\ row = [a \in Alerts |-> NoRow] /\ check = [w \in Workers |-> Rest]
  /\ edit = [a \in Alerts |-> NoRow] /\ edits = [a \in Alerts |-> 0]
  /\ told = [a \in Alerts |-> 0] /\ deaths = 0

Candle == price' \in Prices /\ UNCHANGED <<row, check, edit, edits, told, deaths>>

-----------------------------------------------------------------------------
(* The trader *)

Armed(a, target, above) ==
  /\ row[a].state = "none" /\ row' = [row EXCEPT ![a] = [state |-> "armed", target |-> target, above |-> above]]
  /\ UNCHANGED <<price, check, edit, edits, told, deaths>>

\* The panel, and the command with "above" or "below" in it.
Create(a) == \E target \in Prices, above \in BOOLEAN : Armed(a, target, above)
\* The command without: on the side the target lies of the latest close.
Speak(a) == price # None /\ \E target \in Prices : Armed(a, target, target >= price)

Delete(a) ==
  /\ Exists(a) /\ row' = [row EXCEPT ![a].state = "deleted"]
  /\ UNCHANGED <<price, check, edit, edits, told, deaths>>

\* PATCH and PUT of the ModelViewSet: the row is read, and saved whole later,
\* inserted again when it is gone.
ReadForEdit(a) ==
  /\ Exists(a) /\ edit[a] = NoRow /\ edits[a] < MaxEdits
  /\ edit' = [edit EXCEPT ![a] = row[a]] /\ edits' = [edits EXCEPT ![a] = @ + 1]
  /\ UNCHANGED <<price, row, check, told, deaths>>

SaveEdit(a) ==
  /\ edit[a] # NoRow /\ edit' = [edit EXCEPT ![a] = NoRow]
  /\ \E target \in Prices : row' = [row EXCEPT ![a] = [edit[a] EXCEPT !.target = target]]
  /\ UNCHANGED <<price, check, edits, told, deaths>>

-----------------------------------------------------------------------------
(* check_price_alerts *)

Start(w) ==
  /\ check[w].pc = "idle"
  /\ check' = [check EXCEPT ![w] = [Rest EXCEPT !.pc = "next",
       !.todo = {[id |-> a, row |-> row[a]] : a \in {a \in Alerts : row[a].state = "armed"}}]]
  /\ UNCHANGED <<price, row, edit, edits, told, deaths>>

\* The next row, against the latest close.
Look(w) ==
  /\ check[w].pc = "next"
  /\ \/ check[w].todo = {} /\ check' = [check EXCEPT ![w] = Rest]
     \/ \E t \in check[w].todo :
          check' = [check EXCEPT ![w].todo = @ \ {t},
                                 ![w].pc = IF Crossed(t.row) THEN "save" ELSE "next",
                                 ![w].at = IF Crossed(t.row) THEN t ELSE NoRow]
  /\ UNCHANGED <<price, row, edit, edits, told, deaths>>

\* save(update_fields) of a row that is gone raises, and ends the task.
Save(w) ==
  LET a == check[w].at.id
  IN /\ check[w].pc = "save"
     /\ IF Exists(a)
        THEN row' = [row EXCEPT ![a].state = "fired"] /\ check' = [check EXCEPT ![w].pc = "announce"]
        ELSE row' = row /\ check' = [check EXCEPT ![w] = Rest]
     /\ UNCHANGED <<price, edit, edits, told, deaths>>

\* An announcement that fails is logged.
Announce(w) ==
  LET a == check[w].at.id
  IN /\ check[w].pc = "announce"
     /\ told' \in {told, [told EXCEPT ![a] = @ + 1]}
     /\ check' = [check EXCEPT ![w].pc = "next", ![w].at = NoRow]
     /\ UNCHANGED <<price, row, edit, edits, deaths>>

Die(w) ==
  /\ check[w].pc # "idle" /\ deaths < MaxDeaths /\ deaths' = deaths + 1
  /\ check' = [check EXCEPT ![w] = Rest]
  /\ UNCHANGED <<price, row, edit, edits, told>>

Work(w) == Start(w) \/ Look(w) \/ Save(w) \/ Announce(w)
Next ==
  \/ Candle
  \/ \E a \in Alerts : Create(a) \/ Speak(a) \/ Delete(a) \/ ReadForEdit(a) \/ SaveEdit(a)
  \/ \E w \in Workers : Work(w) \/ Die(w)

\* The scheduler starts the task again and again.
Spec == Init /\ [][Next]_vars
FairSpec == Spec /\ \A w \in Workers : WF_vars(Work(w))

-----------------------------------------------------------------------------
(* Properties *)

\* "One-shot by design" (monitoring/models.py): every further announcement of an
\* alert is owed to a check that overlapped, or to an edit that put back the row it
\* had read before the alert fired; with one check at a time and no edit there is none.
OneShot == \A a \in Alerts : told[a] <= Cardinality(Workers) * (1 + edits[a])

\* An alert whose level the price has reached and keeps does not stay armed for
\* ever, though the deletion of another alert ends the check that was under way.
CrossedAlertFires == \A a \in Alerts : ~<>[](row[a].state = "armed" /\ Crossed(row[a]))
=============================================================================
