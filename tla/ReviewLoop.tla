----------------------------- MODULE ReviewLoop -----------------------------
(***************************************************************************)
(* The governance loop of apps.learning for one review date: the review    *)
(* task drafts suggested changes, an administrator approves the note over  *)
(* the REST view, and the apply command turns an approved note into an     *)
(* inactive StrategyVersion.  A request loads its row first and saves      *)
(* every field of it later.                                                *)
(***************************************************************************)
EXTENDS Naturals, FiniteSets

CONSTANTS
  Admins,      \* bound: administrators with a request in progress
  Appliers,    \* bound: runs of the apply command that may overlap
  Contents,    \* bound: suggestions the heuristics may come up with
  MaxReviews   \* bound: reruns of the review task for the date

LoopAssumption == MaxReviews \in Nat

None == "none"     \* no note yet, nothing on the screen
Empty == "empty"   \* the heuristics suggest nothing
Suggested == Contents \union {Empty}

VARIABLES
  note,      \* the DailyReviewNote row of the date
  reviews,
  request,   \* request[a]: what the administrator sees and the PATCH in progress
  command,   \* command[x]: the apply command's reads
  version,   \* the StrategyVersion auto-<date>, at most one by its unique name
  granted    \* history: the suggestions of every row committed as approved

vars == <<note, reviews, request, command, version, granted>>

Init ==
  /\ note = [content |-> None, approved |-> FALSE]
  /\ reviews = 0
  /\ request = [a \in Admins |-> [pc |-> "idle", screen |-> None, row |-> note]]
  /\ command = [x \in Appliers |-> None]
  /\ version = None
  /\ granted = {}

\* update_or_create under its row lock; approved_flag is always reset.
RunDailyReview ==
  /\ reviews < MaxReviews /\ reviews' = reviews + 1
  /\ \E c \in Suggested : note' = [content |-> c, approved |-> FALSE]
  /\ UNCHANGED <<request, command, version, granted>>

View(a) ==
  /\ request[a].pc = "idle" /\ note.content # None
  /\ request' = [request EXCEPT ![a].screen = note.content]
  /\ UNCHANGED <<note, reviews, command, version, granted>>

\* get_object of the PATCH.
Load(a) ==
  /\ request[a].pc = "idle" /\ request[a].screen # None
  /\ request' = [request EXCEPT ![a].pc = "loaded", ![a].row = note]
  /\ UNCHANGED <<note, reviews, command, version, granted>>

\* serializer.save(): the whole instance as it was loaded, with the new flag.
Save(a) ==
  /\ request[a].pc = "loaded"
  /\ \E flag \in BOOLEAN :
       /\ note' = [request[a].row EXCEPT !.approved = flag]
       /\ granted' = IF flag THEN granted \union {request[a].row.content} ELSE granted
  /\ request' = [request EXCEPT ![a].pc = "idle"]
  /\ UNCHANGED <<reviews, command, version>>

ReadSuggested(x) ==
  /\ command[x] = None /\ note.content \in Contents
  /\ command' = [command EXCEPT ![x] = note.content]
  /\ UNCHANGED <<note, reviews, request, version, granted>>

\* The command reads the row once: not approved is an error, nothing suggested
\* a warning.
ReadApproved(x) ==
  /\ command[x] = None
  /\ note.approved /\ note.content \in Contents
  /\ command' = [command EXCEPT ![x] = note.content]
  /\ UNCHANGED <<note, reviews, request, version, granted>>

\* The exists() check and, behind it, the unique version_name.
CreateVersion(x) ==
  /\ command[x] # None
  /\ version' = IF version = None THEN command[x] ELSE version
  /\ command' = [command EXCEPT ![x] = None]
  /\ UNCHANGED <<note, reviews, request, granted>>

Next ==
  \/ RunDailyReview
  \/ \E a \in Admins : View(a) \/ Load(a) \/ Save(a)
  \/ \E x \in Appliers : ReadApproved(x) \/ CreateVersion(x)

Spec == Init /\ [][Next]_vars

-----------------------------------------------------------------------------

\* The types of the note, the requests and the version.
TypeOK ==
  /\ note.content \in Suggested \union {None} /\ reviews \in 0..MaxReviews
  /\ version \in Contents \union {None} /\ granted \subseteq Suggested
  /\ \A a \in Admins : request[a].screen \in Suggested \union {None}

\* Nothing reaches a StrategyVersion that was not committed as approved before,
\* however reruns, approvals, withdrawals and applications overlap
\* (DailyReviewNote: "nothing in suggested_changes is applied ... until").
AppliedWasApproved == version # None => version \in granted
=============================================================================
