---------------------------- MODULE ClientSession ----------------------------
(***************************************************************************)
(* A browser tab's session: the token in localStorage, the sockets opened  *)
(* with it and their retries (frontend/src/store/liveStore.js, and with    *)
(* Panel the announcement store jarvisStore.js), the requests whose 401    *)
(* ends the session (services/api.js), and the server's token check on     *)
(* every handshake and push (backend/common/websockets.py). Another tab    *)
(* shares the token; its changes arrive as storage events.                 *)
(*                                                                         *)
(* A reload is part of the step that asks for it. Requests with the same   *)
(* token are one. The backoff is left to the scheduler; an attempt above   *)
(* Threshold stands for all later ones.                                    *)
(***************************************************************************)
EXTENDS Integers, FiniteSets, FiniteSetsExt

CONSTANTS
  Keys,         \* the sockets of the store
  Panel,        \* the announcement store: one key, guarded by its socket
  Threshold,    \* AUTH_CHECK_RETRY_THRESHOLD
  MaxTokens,    \* bound on logins, here and in other tabs
  MaxVisits,    \* bound on the generation
  MaxToggles    \* bound on changes of the kill switch

SessionAssumption ==
  /\ Keys # {} /\ IsFiniteSet(Keys) /\ Panel \in BOOLEAN
  /\ Threshold \in Nat /\ {MaxTokens, MaxVisits, MaxToggles} \subseteq Nat

VARIABLES
  issued,       \* tokens issued so far, numbered from 1
  valid,        \* the account's token at the server, 0: none
  token,        \* localStorage's authToken, 0: none
  storage,      \* another tab's change whose event is due here
  page,         \* "app": AppShell is mounted; "outside": /login, /server-settings
  store,        \* [generation, active, tracked, status, connected]
  account,      \* socketAccountToken
  sockets,      \* by id: a socket or Free
  timers,       \* pending retries
  requests,     \* the tokens of unanswered REST calls
  halted,       \* the kill switch
  banner,       \* killSwitchActive, what the tab shows of it
  toggles

vars == <<issued, valid, token, storage, page, store, account, sockets, timers, requests,
          halted, banner, toggles>>
server == <<issued, valid, halted, toggles>>

Tokens == 0..MaxTokens
Ids == 1..(2 * Cardinality(Keys) + 1)
Free == [state |-> "free"]
Sockets ==
  [state : {"connecting", "open", "closing"}, key : Keys, generation : 0..(2 * MaxVisits),
   token : Tokens, attempt : 0..(Threshold + 1)]
Timers == [key : Keys, generation : 0..(2 * MaxVisits), attempt : 0..(Threshold + 1)]

TypeOK ==
  /\ issued \in Tokens /\ valid \in Tokens /\ token \in Tokens /\ account \in Tokens
  /\ storage \in BOOLEAN /\ page \in {"app", "outside"}
  /\ store \in [generation : 0..(2 * MaxVisits), active : BOOLEAN, tracked : [Keys -> Ids \cup {0}],
                status : [Keys -> BOOLEAN], connected : BOOLEAN]
  /\ sockets \in [Ids -> Sockets \cup {Free}] /\ timers \subseteq Timers
  /\ requests \subseteq Tokens /\ halted \in BOOLEAN /\ banner \in BOOLEAN
  /\ toggles \in 0..MaxToggles

NewStore ==
  [generation |-> 0, active |-> FALSE, tracked |-> [k \in Keys |-> 0],
   status |-> [k \in Keys |-> FALSE], connected |-> FALSE]

Init ==
  /\ issued = 0 /\ valid = 0 /\ token = 0 /\ storage = FALSE /\ page = "outside"
  /\ store = NewStore /\ account = 0 /\ sockets = [i \in Ids |-> Free] /\ timers = {}
  /\ requests = {} /\ halted = FALSE /\ banner = FALSE /\ toggles = 0

-----------------------------------------------------------------------------
(* Sockets *)

Live == {i \in Ids : sockets[i].state \in {"connecting", "open"}}

\* setSocketOpen: connected is the conjunction over all sockets.
Marked(st, key, isOpen) ==
  LET status == [st.status EXCEPT ![key] = isOpen]
  IN [st EXCEPT !.status = status, !.connected = \A k \in Keys : status[k]]

\* closeAllAuthenticatedWebSockets leaves the handlers of the sockets on.
AllClosed(ss) ==
  [i \in Ids |-> IF ss[i].state \in {"connecting", "open"}
                 THEN [ss[i] EXCEPT !.state = "closing"] ELSE ss[i]]

\* openWithRetry past its guard: the state of store, sockets and account after it.
Opened(now, key, attempt) ==
  IF token = 0 THEN [now EXCEPT !.store = Marked(@, key, FALSE)]
  ELSE LET kept == IF now.account \notin {0, token} THEN AllClosed(now.sockets) ELSE now.sockets
           id == Min({i \in Ids : kept[i] = Free})
       IN [store |-> [now.store EXCEPT !.tracked[key] = id],
           sockets |-> [kept EXCEPT ![id] =
             [state |-> "connecting", key |-> key, generation |-> now.store.generation,
              token |-> token, attempt |-> attempt]],
           account |-> token]
Becomes(now) == store' = now.store /\ sockets' = now.sockets /\ account' = now.account
Now(st) == [store |-> st, sockets |-> sockets, account |-> account]

\* connect, and connectAnnouncements with its own guard.
Connected ==
  LET started == Now([store EXCEPT !.generation = @ + 1, !.active = TRUE])
      busy == IF Panel THEN \E k \in Keys : store.tracked[k] # 0 ELSE store.active
  IN IF busy THEN Now(store) ELSE FoldSet(LAMBDA k, now : Opened(now, k, 0), started, Keys)

\* A store that starts its generations again: an older one's timers fit.
DisconnectedToZero ==
  [store |-> NewStore,
   sockets |-> [i \in Ids |-> IF \E k \in Keys : store.tracked[k] = i THEN Free ELSE sockets[i]],
   account |-> account]
\* disconnect: the tracked sockets lose their handler and close, and nothing sees it.
Disconnected ==
  [store |-> [NewStore EXCEPT !.generation = store.generation + 1],
   sockets |-> [i \in Ids |-> IF \E k \in Keys : store.tracked[k] = i THEN Free ELSE sockets[i]],
   account |-> account]

\* TokenAuthMiddleware and join_group_and_accept: the handshake's token is known.
Accept(i) ==
  /\ sockets[i].state = "connecting" /\ sockets[i].token = valid
  /\ sockets' = [sockets EXCEPT ![i].state = "open"]
  /\ store' = Marked(store, sockets[i].key, TRUE)
  /\ UNCHANGED <<server, token, storage, page, account, timers, requests, banner>>

\* AuthenticatedWebsocketConsumer.send: a push to a revoked token closes instead.
RefusePush(i) ==
  /\ sockets[i].state = "open" /\ sockets[i].token # valid
  /\ sockets' = [sockets EXCEPT ![i].state = "closing"]
  /\ UNCHANGED <<server, token, storage, page, store, account, timers, requests, banner>>

\* A refused handshake, a network failure, a restart of the server.
Drop(i) ==
  /\ i \in Live
  /\ sockets' = [sockets EXCEPT ![i].state = "closing"]
  /\ UNCHANGED <<server, token, storage, page, store, account, timers, requests, banner>>

\* onclose: the retry, and at one attempt a REST call that finds out about the token.
Close(i) ==
  LET s == sockets[i]
      current == s.generation = store.generation /\ (Panel \/ store.active)
      untracked == IF store.tracked[s.key] = i THEN [store EXCEPT !.tracked[s.key] = 0] ELSE store
  IN /\ s.state = "closing"
     /\ sockets' = [sockets EXCEPT ![i] = Free]
     /\ store' = (IF ~Panel \/ current THEN Marked(untracked, s.key, FALSE) ELSE untracked)
     /\ timers' = (IF current
                   THEN timers \cup {[key |-> s.key, generation |-> s.generation,
                                      attempt |-> Min({s.attempt + 1, Threshold + 1})]}
                   ELSE timers)
     /\ requests' = (IF current /\ ~Panel /\ s.attempt = Threshold
                     THEN requests \cup {token} ELSE requests)
     /\ UNCHANGED <<server, token, storage, page, account, banner>>

\* The guard of openWithRetry stands before everything else.
Retry(t) ==
  /\ t \in timers /\ timers' = timers \ {t}
  /\ Becomes(IF t.generation = store.generation /\ (Panel \/ store.active)
             THEN Opened(Now(store), t.key, t.attempt) ELSE Now(store))
  /\ UNCHANGED <<server, token, storage, page, requests, banner>>

-----------------------------------------------------------------------------
(* The session *)

\* The document starts again, at the route that leads to no page yet.
Reloaded ==
  /\ page' = "outside" /\ store' = NewStore /\ account' = 0
  /\ sockets' = [i \in Ids |-> Free] /\ timers' = {} /\ requests' = {} /\ banner' = FALSE

\* closeAll and the announcement; AppShell's handler ends in a reload.
SessionChanged ==
  IF page = "app" THEN Reloaded
  ELSE /\ sockets' = AllClosed(sockets) /\ account' = 0
       /\ UNCHANGED <<page, store, timers, requests, banner>>

\* RotatingAuthTokenView: the account's former tokens are gone.
Issue(t) ==
  /\ issued < MaxTokens /\ issued' = issued + 1
  /\ valid' = issued' /\ t = issued'

\* handleSubmit on the login page.
Login ==
  /\ page = "outside"
  /\ Issue(token') /\ SessionChanged
  /\ UNCHANGED <<storage, halted, toggles>>

\* RequireAuth lets AppShell mount, whose effect connects.
Enter ==
  /\ page = "outside" /\ token # 0 /\ store.generation < 2 * MaxVisits - 1
  /\ page' = "app" /\ Becomes(Connected)
  /\ UNCHANGED <<server, token, storage, timers, requests, banner>>

\* AppShell unmounts on a route outside it; the announcement store clears its timer.
Leave ==
  /\ page = "app" /\ page' = "outside" /\ Becomes(Disconnected)
  /\ timers' = (IF Panel THEN {} ELSE timers)
  /\ UNCHANGED <<server, token, storage, requests, banner>>

\* logoutSession: the local end comes with or without an answer.
Logout ==
  /\ page = "app" /\ token # 0
  /\ valid' = 0 \/ valid' = valid
  /\ token' = 0 /\ SessionChanged
  /\ UNCHANGED <<issued, storage, halted, toggles>>

\* The token runs out, or an administrator deletes it.
Expire ==
  /\ valid # 0 /\ valid' = 0
  /\ UNCHANGED <<issued, token, storage, page, store, account, sockets, timers, requests,
                 halted, banner, toggles>>

\* useSystemHealth.
Poll ==
  /\ page = "app" /\ token # 0 /\ requests' = requests \cup {token}
  /\ UNCHANGED <<server, token, storage, page, store, account, sockets, timers, banner>>

\* The response interceptor: a 401 clears whatever token is stored by then.
Answer(r) ==
  /\ r \in requests
  /\ IF r = valid /\ r # 0
     THEN /\ requests' = requests \ {r}
          /\ UNCHANGED <<token, page, store, account, sockets, timers, banner>>
     ELSE /\ token' = 0
          /\ IF page = "app" THEN Reloaded
             ELSE /\ requests' = requests \ {r} /\ sockets' = AllClosed(sockets) /\ account' = 0
                  /\ UNCHANGED <<page, store, timers, banner>>
  /\ UNCHANGED <<server, storage>>
Fail(r) ==
  /\ r \in requests /\ requests' = requests \ {r}
  /\ UNCHANGED <<server, token, storage, page, store, account, sockets, timers, banner>>

\* Another tab logs in or ends the session; its storage event comes later.
OtherTab ==
  /\ Issue(token') \/ (token # 0 /\ token' = 0 /\ UNCHANGED <<issued, valid>>)
  /\ storage' = TRUE
  /\ UNCHANGED <<page, store, account, sockets, timers, requests, halted, banner, toggles>>
StorageEvent ==
  /\ storage /\ storage' = FALSE /\ SessionChanged
  /\ UNCHANGED <<server, token>>

\* broadcast_kill_switch_state, best effort: it may fail, and a tab may be offline.
Toggle ==
  /\ toggles < MaxToggles /\ toggles' = toggles + 1 /\ halted' = ~halted
  /\ \/ /\ \E i \in Live : sockets[i].state = "open" /\ sockets[i].token = valid
        /\ banner' = halted'
     \/ banner' = banner
  /\ UNCHANGED <<issued, valid, token, storage, page, store, account, sockets, timers, requests>>

Next ==
  \/ Login \/ Enter \/ Leave \/ Logout \/ Expire \/ Poll \/ OtherTab \/ StorageEvent \/ Toggle
  \/ \E i \in Ids : Accept(i) \/ RefusePush(i) \/ Drop(i) \/ Close(i)
  \/ \E t \in timers : Retry(t)
  \/ \E r \in Tokens : Answer(r) \/ Fail(r)

\* The tab polls, its events come, and the backend can be reached again and again.
Fairness == WF_vars(Poll) /\ WF_vars(StorageEvent) /\ \A r \in Tokens : SF_vars(Answer(r))
Spec == Init /\ [][Next]_vars
FairSpec == Spec /\ Fairness

-----------------------------------------------------------------------------
(* Properties *)

Continuations(key) ==
  Cardinality({i \in Ids : sockets[i] # Free /\ sockets[i].key = key})
  + Cardinality({t \in timers : t.key = key /\ t.generation = store.generation})

\* Every socket that carries data is the store's newest of its key, of its
\* generation and of the stored token, so that disconnect reaches it: no retry
\* of a former session opens one beside it (liveStore.js, "sockets from one
\* account cannot survive into another").
SocketsBelongToTheSession ==
  \A i \in Live :
    /\ page = "app" /\ store.tracked[sockets[i].key] = i
    /\ sockets[i].generation = store.generation
    /\ sockets[i].token = account /\ (storage \/ sockets[i].token = token)

\* While the session lasts each socket of the store has exactly one
\* continuation: a socket whose close event will come, or a retry.
OneContinuation ==
  page = "app" /\ token # 0 /\ ~storage => \A k \in Keys : Continuations(k) = 1

\* The tab says connected only when no socket is missing: each is open, or its
\* close event is due.
ConnectedIsTrue ==
  store.connected =>
    \A k \in Keys : \E i \in Ids : sockets[i].state \in {"open", "closing"} /\ sockets[i].key = k

\* What TopBar.jsx says of its banner: with every socket open it shows the switch.
BannerIsNotMissed == page = "app" /\ store.connected => banner = halted

\* A tab whose token is no longer the account's leaves the app, though no socket
\* tells it why it was closed (liveStore.js, checkSessionIfLikelyExpired).
DeadSession == page = "app" /\ token # valid
=============================================================================
