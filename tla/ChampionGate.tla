---------------------------- MODULE ChampionGate ----------------------------
(***************************************************************************)
(* One model family of apps.learning.ModelRegistry: the scheduled training *)
(* task fits a challenger on the closed trades, gates it against the       *)
(* champion and registers it (ml_train, scalp_ml_train and, with its own   *)
(* performance gates, paper_trading's model_promotion_service); the        *)
(* operator may activate a scalping candidate.  Retiring the champion and  *)
(* inserting its successor are two commits.                                *)
(***************************************************************************)
EXTENDS Integers, Sequences, FiniteSetsExt, SequencesExt

CONSTANTS
  Trainers,       \* bound: runs of the training task that may overlap
  Accuracies,     \* bound: holdout accuracies, in units of the margin's grid
  MaxRegression,  \* MAX_ACCEPTABLE_ACCURACY_REGRESSION in the same units
  MinTraining, MinHoldout,
  Holdouts,       \* bound: net R sequences of a holdout; {<<>>}: family without them
  PolicyGates,    \* TRUE: the paper_trading_policy family
  MinSamples, MaxDrawdownR,
  Candidates,     \* TRUE: activate_scalp_candidate may be run
  MaxTrades, MaxRows, MaxCrashes

GateAssumption ==
  /\ Accuracies \subseteq Nat /\ MaxRegression \in Nat
  /\ MinTraining \in Nat /\ MinHoldout \in Nat /\ MinTraining <= MinHoldout
  /\ MaxTrades \in Nat /\ MaxRows \in Nat \ {0} /\ MaxCrashes \in Nat
  /\ PolicyGates \in BOOLEAN /\ Candidates \in BOOLEAN

VARIABLES
  trades,    \* closed trades with a known outcome
  registry,  \* ModelRegistry rows of the family, oldest first
  trainer,   \* the running training task
  crashes

vars == <<trades, registry, trainer, crashes>>

\* promoted: metrics_json["promotion_gate"]["promoted"], kept for good.
NoRow == [holdout |-> FALSE, accuracy |-> 0, results |-> <<>>, promoted |-> FALSE, active |-> FALSE]
Idle == [pc |-> "idle", row |-> NoRow]

Init ==
  /\ trades = 0 /\ registry = <<>> /\ crashes = 0
  /\ trainer = [t \in Trainers |-> Idle]

-----------------------------------------------------------------------------

Active == {i \in DOMAIN registry : registry[i].active}

\* The row .first() returns: the Meta ordering puts the newest first.
Champion == Max(Active)

ShouldPromoteOverLatest(new) ==
  \/ registry = <<>>
  \/ ~new.holdout \/ ~Last(registry).holdout
  \/ new.accuracy >= Last(registry).accuracy - MaxRegression

ShouldPromoteOverChampion(new) ==
  /\ Active # {}
  /\ \/ ~new.holdout \/ ~registry[Champion].holdout
     \/ new.accuracy >= registry[Champion].accuracy - MaxRegression

ShouldPromote(new) ==
  \/ Active = {}
  \/ ~new.holdout \/ ~registry[Champion].holdout
  \/ new.accuracy >= registry[Champion].accuracy - MaxRegression

Total(rs) == FoldSeq(+, 0, rs)

\* evaluate_holdout_performance's loop; peak = {} stands for minus infinity.
MaxDrawdown(rs) ==
  LET step(acc, r) ==
        LET run == acc.run + r
            peak == Max({run} \union acc.peak)
        IN  [run |-> run, peak |-> {peak}, drop |-> Max({acc.drop, peak - run})]
  IN  FoldLeft(step, [run |-> 0, peak |-> {}, drop |-> 0], rs).drop

Gains(rs) == Total(SelectSeq(rs, LAMBDA x : x > 0))
Losses(rs) == -Total(SelectSeq(rs, LAMBDA x : x <= 0))

PolicyPasses(rs, covered) ==
  /\ Len(rs) >= MinSamples
  /\ Total(rs) >= 0
  /\ Gains(rs) > 0 /\ Gains(rs) >= Losses(rs)
  /\ MaxDrawdown(rs) <= MaxDrawdownR
  /\ covered

Promotes(new, covered) == ShouldPromote(new) /\ (PolicyGates => PolicyPasses(new.results, covered))

-----------------------------------------------------------------------------

TradeCloses ==
  /\ trades < MaxTrades /\ trades' = trades + 1
  /\ UNCHANGED <<registry, trainer, crashes>>

\* Fewer trades than MinTraining, one outcome class only, or a training fold
\* of one class: the task returns without a challenger and changes nothing.
Train(t) ==
  /\ trainer[t].pc = "idle" /\ trades >= MinTraining
  /\ \E a \in Accuracies, rs \in Holdouts, covered \in BOOLEAN :
       LET new == [NoRow EXCEPT !.holdout = PolicyGates \/ trades >= MinHoldout,
                                !.accuracy = a, !.results = rs]
           wins == Promotes(new, covered)
       IN  trainer' = [trainer EXCEPT ![t] = [pc |-> IF wins THEN "promote" ELSE "register",
                                              row |-> [new EXCEPT !.promoted = wins, !.active = wins]]]
  /\ UNCHANGED <<trades, registry, crashes>>

Retired == [i \in DOMAIN registry |-> [registry[i] EXCEPT !.active = FALSE]]

Retire(t) ==
  /\ trainer[t].pc = "promote"
  /\ registry' = Retired
  /\ trainer' = [trainer EXCEPT ![t].pc = "register"]
  /\ UNCHANGED <<trades, crashes>>

\* Bound: the model forgets the oldest inactive row beyond MaxRows.
Recent(rows) ==
  IF Len(rows) <= MaxRows THEN rows
  ELSE RemoveAt(rows, Min({i \in DOMAIN rows : ~rows[i].active}))

Register(t) ==
  /\ trainer[t].pc = "register"
  /\ registry' = Recent(Append(registry, trainer[t].row))
  /\ trainer' = [trainer EXCEPT ![t] = Idle]
  /\ UNCHANGED <<trades, crashes>>

\* The swap of the command is one transaction under row locks.
Activate ==
  /\ Candidates
  /\ registry' = Recent(Append(Retired, [NoRow EXCEPT !.promoted = TRUE, !.active = TRUE]))
  /\ UNCHANGED <<trades, trainer, crashes>>

Die(t) ==
  /\ crashes < MaxCrashes /\ trainer[t].pc # "idle"
  /\ trainer' = [trainer EXCEPT ![t] = Idle] /\ crashes' = crashes + 1
  /\ UNCHANGED <<trades, registry>>

Next ==
  \/ TradeCloses \/ Activate
  \/ \E t \in Trainers : Train(t) \/ Retire(t) \/ Register(t) \/ Die(t)

\* The beat starts the task every day and every step of it returns.
Work(t) == Train(t) \/ Retire(t) \/ Register(t)
Spec == Init /\ [][Next]_vars /\ \A t \in Trainers : WF_vars(Work(t))

-----------------------------------------------------------------------------

\* The types of the registry and the trainers.
TypeOK ==
  /\ trades \in 0..MaxTrades /\ crashes \in 0..MaxCrashes
  /\ \A i \in DOMAIN registry : registry[i].accuracy \in Accuracies /\ registry[i].results \in Holdouts \union {<<>>}
  /\ \A t \in Trainers : trainer[t].pc \in {"idle", "promote", "register"}

\* Two versions are never active together, so every reader that asks for "the"
\* active model gets the same one (one training run at a time).
OneChampion == Cardinality(Active) <= 1

Promoted == {i \in DOMAIN registry : registry[i].promoted}
Predecessor(j) == Max({i \in Promoted : i < j})
Follows(j) == \E i \in Promoted : i < j

\* Each promoted version scores no worse on its holdout than the version it
\* replaced, minus the margin (_should_promote): whatever was registered in
\* between and however often the task ran.  One training run at a time that is
\* not killed between the two commits.
SuccessorPassesTheGate ==
  \A j \in Promoted :
    Follows(j) /\ registry[j].holdout /\ registry[Predecessor(j)].holdout
      => registry[j].accuracy >= registry[Predecessor(j)].accuracy - MaxRegression

\* The drawdown the gate compares is the deepest fall of the cumulative result
\* from one trade's close to a later one's.
DrawdownIsDeepestFall ==
  \A i \in DOMAIN registry :
    LET rs == registry[i].results
        at(n) == Total(SubSeq(rs, 1, n))
        pairs == {q \in (DOMAIN rs) \X (DOMAIN rs) : q[1] <= q[2]}
    IN  MaxDrawdown(rs) = Max({0} \union {at(q[1]) - at(q[2]) : q \in pairs})

\* A family that lost its champion to a task killed between retiring it and
\* registering its successor gets one again with a later training.
Leaderless == trades >= MinTraining /\ Active = {}

=============================================================================
