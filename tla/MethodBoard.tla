----------------------------- MODULE MethodBoard -----------------------------
(***************************************************************************)
(* The daily evaluation of a group of strategy methods (learning/tasks.py  *)
(* _evaluate_method_group): it reads each method's closed hypothetical     *)
(* trades, retires the group's marked rows of ModelRegistry and inserts    *)
(* one row per method, the best of them marked.  None of it is one         *)
(* transaction, and the comparison goes on closing trades meanwhile.       *)
(***************************************************************************)
EXTENDS Integers, Sequences, FiniteSetsExt, SequencesExt

CONSTANTS
  Methods,     \* the methods of the group, numbered in the order of METHOD_FUNCS
  MinTrades,   \* STRATEGY_COMPARISON_MIN_TRADES_FOR_EVAL
  MaxTrades,   \* bound: closed trades of a method
  MaxRows,     \* bound: rows kept
  MaxDeaths

BoardAssumption == Methods \in Nat \ {0} /\ MinTrades \in Nat \ {0} /\ {MaxTrades, MaxRows, MaxDeaths} \subseteq Nat

VARIABLES
  closed,   \* closed[i]: [count, wins] of method i
  rows,     \* the group's ModelRegistry rows, oldest first: [method, count, wins, active,
            \* latest], latest: of the version written last
  judge,    \* the running evaluation: [pc, at, stats]
  killed

vars == <<closed, rows, judge, killed>>

Members == 1..Methods
NoStats == [count |-> 0, wins |-> 0]
Rest == [pc |-> "idle", at |-> 1, stats |-> [i \in Members |-> NoStats]]

Init ==
  /\ closed = [i \in Members |-> NoStats] /\ rows = <<>> /\ judge = Rest /\ killed = 0

TypeOK ==
  /\ \A i \in Members : closed[i] \in [count : 0..MaxTrades, wins : 0..MaxTrades]
  /\ \A i \in DOMAIN rows : rows[i].method \in Members /\ rows[i].active \in BOOLEAN
  /\ judge.pc \in {"idle", "count", "wins", "rank", "create"} /\ judge.at \in Members
  /\ killed \in 0..MaxDeaths

TradeCloses ==
  /\ \E i \in Members, win \in {0, 1} :
       /\ closed[i].count < MaxTrades
       /\ closed' = [closed EXCEPT ![i] = [count |-> @.count + 1, wins |-> @.wins + win]]
  /\ UNCHANGED <<rows, judge, killed>>

-----------------------------------------------------------------------------

Start ==
  /\ judge.pc = "idle" /\ judge' = [Rest EXCEPT !.pc = "count"]
  /\ UNCHANGED <<closed, rows, killed>>

\* A method that is passed keeps empty stats.
Onward(j) ==
  IF j.at < Methods THEN [j EXCEPT !.at = @ + 1, !.pc = "count"] ELSE [j EXCEPT !.pc = "rank"]

\* The first of a method's queries: how many closed trades it has.
Count ==
  LET n == closed[judge.at].count
  IN /\ judge.pc = "count"
     /\ judge' = IF n < MinTrades THEN Onward(judge)
                 ELSE [judge EXCEPT !.pc = "wins", !.stats[judge.at].count = n]
     /\ UNCHANGED <<closed, rows, killed>>

\* The second: how many of those it has by now are won.
Wins ==
  /\ judge.pc = "wins"
  /\ judge' = Onward([judge EXCEPT !.stats[judge.at].wins = closed[judge.at].wins])
  /\ UNCHANGED <<closed, rows, killed>>

Judged(stats) == {i \in Members : stats[i].count > 0}
AtLeast(s, t) == s.wins * t.count >= t.wins * s.count

\* max over the win rates: the first of the best.
Best(stats) == Min({i \in Judged(stats) : \A j \in Judged(stats) : AtLeast(stats[i], stats[j])})

\* Nothing to evaluate, or the rows that were marked are retired.
Retire ==
  /\ judge.pc = "rank"
  /\ IF Judged(judge.stats) = {}
     THEN judge' = Rest /\ UNCHANGED rows
     ELSE /\ rows' = [i \in DOMAIN rows |-> [rows[i] EXCEPT !.active = FALSE, !.latest = FALSE]]
          /\ judge' = [judge EXCEPT !.pc = "create", !.at = Min(Judged(judge.stats))]
  /\ UNCHANGED <<closed, killed>>

\* Bound: the oldest rows without the mark are forgotten.
Recent(rs) ==
  IF Len(rs) <= MaxRows THEN rs ELSE RemoveAt(rs, Min({i \in DOMAIN rs : ~rs[i].active}))

Create ==
  LET row == [method |-> judge.at, count |-> judge.stats[judge.at].count,
              wins |-> judge.stats[judge.at].wins, active |-> judge.at = Best(judge.stats), latest |-> TRUE]
      left == {i \in Judged(judge.stats) : i > judge.at}
  IN /\ judge.pc = "create" /\ rows' = Recent(Append(rows, row))
     /\ judge' = IF left = {} THEN Rest ELSE [judge EXCEPT !.at = Min(left)]
     /\ UNCHANGED <<closed, killed>>

Die ==
  /\ judge.pc # "idle" /\ killed < MaxDeaths /\ killed' = killed + 1 /\ judge' = Rest
  /\ UNCHANGED <<closed, rows>>

\* The beat runs the task every day, one at a time.
Work == Start \/ Count \/ Wins \/ Retire \/ Create
Next == TradeCloses \/ Work \/ Die
Spec == Init /\ [][Next]_vars
FairSpec == Spec /\ WF_vars(Work)

-----------------------------------------------------------------------------
(* Properties *)

Marked == {i \in DOMAIN rows : rows[i].active}

\* "active_flag=True marks whichever method in THIS group currently has the best
\* win_rate": one at most, of the version written last, and no method of that
\* version has won more often or as often and comes first; also after an
\* evaluation that was killed between two of its rows.
BestIsMarked ==
  /\ Cardinality(Marked) <= 1
  /\ \A i \in Marked : \A j \in DOMAIN rows :
       rows[j].latest =>
         /\ rows[i].latest /\ AtLeast(rows[i], rows[j])
         /\ AtLeast(rows[j], rows[i]) => rows[i].method <= rows[j].method

\* A group that has been compared long enough is not left without its best, though
\* an evaluation was killed between retiring it and marking the next.
Leaderless == (\E i \in Members : closed[i].count >= MinTrades) /\ Marked = {}
=============================================================================
