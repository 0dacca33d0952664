------------------------------- MODULE WebApp --------------------------------
(***************************************************************************)
(* The task page of the web app (frontend/src/hooks/useTaskMonitor.ts): the  *)
(* fetched snapshot of a task, the stream of its events                      *)
(* (useTaskWebSocket.ts) with its cursor, retries and gap detection, and the *)
(* nodes, outputs and payments the page derives from both.  A task's events  *)
(* are numbered from 1 and its run emits those of Script.                    *)
(***************************************************************************)
EXTENDS Integers, Sequences, FiniteSets, SequencesExt, FiniteSetsExt

CONSTANTS PageTasks, PageNodes, Script, \* task -> the events of its run
          Signs,                  \* whether the caller passes a signChallenge
          MaxReconnectAttempts,
          NoView, NoSocket,
          MaxSkips, MaxVisits, MaxFetches \* bounds on faults, navigations and fetches

ASSUME ConsoleAssumption ==
    /\ Signs \in BOOLEAN /\ MaxReconnectAttempts \in Nat
    /\ NoView \notin PageTasks

VARIABLES emitted,    \* task -> how many events the server has stored
          socket,     \* wsRef: its task, stage and the next event sent on it
          closing,    \* tasks of sockets closed by disconnect(), close event to come
          timer,      \* the task a pending retry will connect to
          attempts, manualClose, gapRetried,
          down,       \* the page says 'disconnected' or 'error'
          seen,       \* lastSeqRef and resumeCursorRef
          saved,      \* task -> the cursor in sessionStorage
          view,       \* the task of the page
          wallet,     \* is a wallet connected
          page,       \* what the page shows
          fetches,    \* requests for a task's row in flight
          applied,    \* history: the events of `view` given to onMessage
          clean,      \* history: the page has shown no other task
          skips, visits

serverVars == <<emitted, skips>>
hookVars   == <<socket, closing, timer, attempts, manualClose, gapRetried, down, seen, saved>>
pageVars   == <<page, fetches, view, wallet, applied, clean, visits>>
consoleVars == <<serverVars, hookVars, pageVars>>

-----------------------------------------------------------------------------
(* What a task's row says after its first k events.                        *)

TerminalStatuses == {"completed", "failed"}
StatusOf(kind) ==
    CASE kind = "node_started"   -> "running"
      [] kind \in {"node_completed", "task_completed"} -> "completed"
      [] kind \in {"node_failed", "task_failed"} -> "failed"
      [] OTHER -> "pending"

IsNodeStep(e) == e.kind \in {"node_started", "node_completed", "node_failed"}

StepsOf(t, k, n) == {i \in 1..k : IsNodeStep(Script[t][i]) /\ Script[t][i].node = n}
NodeAt(t, k, n) == IF StepsOf(t, k, n) = {} THEN "pending"
                   ELSE StatusOf(Script[t][Max(StepsOf(t, k, n))].kind)
TaskAt(t, k) ==
    LET ends == {i \in 1..k : Script[t][i].kind \in {"task_completed", "task_failed"}}
    IN  IF ends = {} THEN "running" ELSE StatusOf(Script[t][Max(ends)].kind)

-----------------------------------------------------------------------------
(* The page.                                                               *)

Blank == [status |-> "none", nodes |-> <<>>, outputs |-> {}, pays |-> <<>>]

\* initializeNodes, initializeOutputs and initializePayments; a node's result
\* is its agent's answer, so no payment is found in it.
Snapshot(t, k) ==
    LET nodes == [n \in PageNodes |-> NodeAt(t, k, n)]
    IN  [status |-> TaskAt(t, k), nodes |-> nodes,
         outputs |-> {n \in PageNodes : nodes[n] = "completed"}, pays |-> <<>>]

\* updateNodeFromEvent: nodes not known yet stay unknown, and a finished node
\* is no exception.
NodesAfter(e) ==
    IF IsNodeStep(e) /\ page.nodes # <<>>
      THEN [page.nodes EXCEPT ![e.node] = StatusOf(e.kind)] ELSE page.nodes

OutputsAfter(e) == page.outputs \cup (IF e.kind = "node_completed" THEN {e.node} ELSE {})

\* A release settles the locked payment of the node, or is one of its own.
PaysAfter(e) ==
    LET locked == {i \in DOMAIN page.pays : page.pays[i] = [node |-> e.node, released |-> FALSE]}
    IN  CASE e.kind = "payment_locked" -> Append(page.pays, [node |-> e.node, released |-> FALSE])
          [] e.kind = "payment_released" /\ locked # {} ->
               [page.pays EXCEPT ![Min(locked)].released = TRUE]
          [] e.kind = "payment_released" -> Append(page.pays, [node |-> e.node, released |-> TRUE])
          [] OTHER -> page.pays

Shown(e) ==
    [status  |-> IF e.kind \in {"task_completed", "task_failed"} /\ page.status # "none"
                   THEN StatusOf(e.kind) ELSE page.status,
     nodes   |-> NodesAfter(e), outputs |-> OutputsAfter(e), pays |-> PaysAfter(e)]

\* stopReconnecting.
Finished == page.status \in TerminalStatuses
DropRetry == timer' = IF page'.status \in TerminalStatuses THEN NoView ELSE timer

-----------------------------------------------------------------------------
(* The socket.                                                             *)

SocketTo(t, cursor) == [task |-> t, stage |-> "connecting", next |-> Max({cursor, 0}) + 1]

SocketLive == socket # NoSocket /\ socket.stage # "closed"

\* The effect of [taskId, walletPublicKey, ...]: disconnect() as its cleanup,
\* then the saved cursor, if there is one, and a connection, if there is a
\* wallet.  The close event of the old socket is still to come.
RunEffect(t, key) ==
    /\ closing' = closing \cup (IF SocketLive THEN {socket.task} ELSE {})
    /\ timer' = NoView
    /\ IF t # NoView /\ key
         THEN /\ seen' = IF saved[t] >= 0 THEN saved[t] ELSE seen
              /\ socket' = SocketTo(t, seen')
              /\ manualClose' = FALSE
         ELSE /\ socket' = NoSocket
              /\ manualClose' = (manualClose \/ socket # NoSocket)
              /\ UNCHANGED seen
    /\ down' = FALSE
    /\ UNCHANGED <<attempts, gapRetried, saved>>

FetchTask(t) == fetches' = fetches \cup {[task |-> t, from |-> emitted[t]]}

\* A fresh mount has fresh refs; whatever the last one left behind acts on
\* that one's.
OpenPage(t) ==
    /\ view = NoView /\ visits < MaxVisits
    /\ view' = t /\ visits' = visits + 1
    /\ page' = Blank /\ applied' = <<>> /\ clean' = TRUE
    /\ fetches' = {[task |-> t, from |-> emitted[t]]}
    /\ closing' = {} /\ timer' = NoView /\ attempts' = 0 /\ gapRetried' = FALSE
    /\ seen' = saved[t] /\ manualClose' = FALSE /\ down' = FALSE
    /\ socket' = IF wallet THEN SocketTo(t, saved[t]) ELSE NoSocket
    /\ UNCHANGED <<serverVars, saved, wallet>>

\* From one task to another the component stays mounted.
SwitchTask(t) ==
    /\ view \notin {NoView, t} /\ visits < MaxVisits
    /\ view' = t /\ visits' = visits + 1
    /\ RunEffect(t, wallet)
    /\ FetchTask(t)
    /\ applied' = <<>> /\ clean' = FALSE
    /\ UNCHANGED <<serverVars, page, wallet>>

LeavePage ==
    /\ view # NoView
    /\ RunEffect(NoView, wallet)
    /\ view' = NoView /\ fetches' = {} /\ applied' = <<>>
    /\ UNCHANGED <<serverVars, page, wallet, clean, visits>>

ChangeWallet ==
    /\ visits < MaxVisits /\ visits' = visits + 1
    /\ wallet' = ~wallet
    /\ IF view = NoView THEN UNCHANGED hookVars ELSE RunEffect(view, wallet')
    /\ UNCHANGED <<serverVars, page, fetches, view, applied, clean>>

SocketOpens ==
    /\ SocketLive /\ socket.stage = "connecting"
    /\ socket' = [socket EXCEPT !.stage = "open"]
    /\ attempts' = 0 /\ gapRetried' = FALSE /\ down' = FALSE
    /\ UNCHANGED <<serverVars, pageVars, closing, timer, manualClose, seen, saved>>

\* The server's challenge is signed and answered.
Authenticate ==
    /\ SocketLive /\ socket.stage = "open" /\ Signs
    /\ socket' = [socket EXCEPT !.stage = "streaming"]
    /\ UNCHANGED <<serverVars, pageVars, closing, timer, attempts, manualClose, gapRetried, down, seen, saved>>

\* onclose of a socket made for t; a stale socket starts the backoff anew.
OnClose(t, tried) ==
    IF ~manualClose /\ ~Finished /\ tried < MaxReconnectAttempts
      THEN timer' = t /\ attempts' = tried + 1
      ELSE timer' = timer /\ attempts' = tried

SocketCloses(stale) ==
    /\ SocketLive /\ (stale => socket.stage = "streaming")
    /\ socket' = [socket EXCEPT !.stage = "closed"]
    /\ OnClose(socket.task, IF stale THEN 0 ELSE attempts) /\ down' = TRUE
    /\ UNCHANGED <<serverVars, pageVars, closing, manualClose, gapRetried, seen, saved>>

\* The close event of a socket that disconnect() has closed: by now
\* manualClose may be about the next one.
LateClose(t) ==
    /\ t \in closing
    /\ closing' = closing \ {t}
    /\ OnClose(t, attempts) /\ down' = TRUE
    /\ UNCHANGED <<serverVars, pageVars, socket, manualClose, gapRetried, seen, saved>>

\* The retry is for the task its closure knows.
Retry ==
    /\ timer # NoView
    /\ timer' = NoView
    /\ socket' = SocketTo(timer, seen) /\ manualClose' = FALSE /\ down' = FALSE
    /\ UNCHANGED <<serverVars, pageVars, closing, attempts, gapRetried, seen, saved>>

\* The button is there while the page says that the stream is down.
ButtonShown == view # NoView /\ down

\* reconnect: a retry that waits goes on waiting.
Reconnect ==
    /\ ButtonShown
    /\ attempts' = 0 /\ down' = FALSE
    /\ IF wallet THEN socket' = SocketTo(view, seen) /\ manualClose' = FALSE /\ UNCHANGED timer
                 ELSE timer' = NoView /\ UNCHANGED <<socket, manualClose>>
    /\ UNCHANGED <<serverVars, pageVars, closing, gapRetried, seen, saved>>

\* onmessage.
GapAt(seq) == seq > seen + 1 /\ seen >= 0 /\ ~gapRetried

Deliver ==
    LET seq == socket.next
        t   == socket.task
    IN  /\ SocketLive /\ socket.stage = "streaming" /\ seq <= emitted[t]
        /\ seen' = seq /\ saved' = [saved EXCEPT ![t] = seq]
        /\ IF GapAt(seq)
             THEN /\ gapRetried' = TRUE
                  /\ socket' = SocketTo(t, seq) /\ manualClose' = FALSE /\ down' = FALSE
                  /\ UNCHANGED <<page, applied, timer>>
             ELSE /\ socket' = [socket EXCEPT !.next = seq + 1]
                  /\ page' = Shown(Script[t][seq])
                  /\ applied' = IF t = view THEN Append(applied, seq) ELSE applied
                  /\ DropRetry
                  /\ UNCHANGED <<gapRetried, manualClose, down>>
        /\ UNCHANGED <<serverVars, closing, attempts, fetches, view, wallet, clean, visits>>

-----------------------------------------------------------------------------
(* The fetch, and the server.                                              *)

Refetch ==
    /\ view # NoView /\ Cardinality(fetches) < MaxFetches
    /\ FetchTask(view)
    /\ UNCHANGED <<serverVars, hookVars, page, view, wallet, applied, clean, visits>>

\* The answer is the row of some moment since the request, of whatever task
\* the request was for; a failure leaves the page alone.
FetchLands(f) ==
    /\ f \in fetches /\ fetches' = fetches \ {f}
    /\ \/ page' \in {Snapshot(f.task, k) : k \in f.from..emitted[f.task]}
       \/ UNCHANGED page
    /\ DropRetry
    /\ UNCHANGED <<serverVars, socket, closing, attempts, manualClose, gapRetried, down, seen, saved>>
    /\ UNCHANGED <<view, wallet, applied, clean, visits>>

Emit(t) ==
    /\ emitted[t] < Len(Script[t])
    /\ emitted' = [emitted EXCEPT ![t] = @ + 1]
    /\ UNCHANGED <<skips, hookVars, pageVars>>

\* The server's own cursor passes an event it has not sent (TaskEvents).
Skip ==
    /\ SocketLive /\ socket.stage = "streaming" /\ socket.next <= emitted[socket.task]
    /\ skips < MaxSkips /\ skips' = skips + 1
    /\ socket' = [socket EXCEPT !.next = @ + 1]
    /\ UNCHANGED <<emitted, closing, timer, attempts, manualClose, gapRetried, down, seen, saved, pageVars>>

-----------------------------------------------------------------------------
ConsoleInit ==
    /\ emitted = [t \in PageTasks |-> 0] /\ skips = 0
    /\ socket = NoSocket /\ closing = {} /\ timer = NoView /\ attempts = 0
    /\ manualClose = FALSE /\ gapRetried = FALSE /\ down = FALSE /\ seen = -1
    /\ saved = [t \in PageTasks |-> -1]
    /\ view = NoView /\ wallet = TRUE /\ page = Blank /\ fetches = {}
    /\ applied = <<>> /\ clean = TRUE /\ visits = 0

ConsoleNext ==
    \/ \E t \in PageTasks : OpenPage(t) \/ SwitchTask(t) \/ LateClose(t) \/ Emit(t)
    \/ LeavePage \/ ChangeWallet \/ SocketOpens \/ Authenticate \/ Retry \/ Reconnect
    \/ \E stale \in BOOLEAN : SocketCloses(stale)
    \/ Deliver \/ Refetch \/ Skip
    \/ \E f \in fetches : FetchLands(f)

ConsoleSpec == ConsoleInit /\ [][ConsoleNext]_consoleVars

-----------------------------------------------------------------------------
(* Properties.                                                             *)

\* Every variable keeps to its type.
ConsoleTypeOK ==
    /\ emitted \in [PageTasks -> Nat]
    /\ view \in PageTasks \cup {NoView} /\ timer \in PageTasks \cup {NoView}
    /\ closing \subseteq PageTasks /\ attempts \in 0..MaxReconnectAttempts
    /\ socket # NoSocket => socket.stage \in {"connecting", "open", "streaming", "closed"}

\* However often the stream is retried, reconnected or resumed, the page is
\* given no event of its task twice, and none after a later one.
EventsOnceInOrder ==
    \A i, j \in DOMAIN applied : i < j => applied[i] < applied[j]

\* Nothing of a page that was left comes back: no retry, no socket, and the
\* close events still to come find manualClose set.
QuietAfterLeave == view = NoView => timer = NoView /\ socket = NoSocket /\ (closing # {} => manualClose)

\* A retry is never pending for a task the page shows as ended.
EndedTasksRest == timer # NoView => ~Finished

\* A page that has shown one task only shows of it what has happened, and no
\* payment of a node twice.
NothingInvented ==
    clean /\ view # NoView /\ page # Blank =>
      /\ page.status = "completed" => TaskAt(view, emitted[view]) = "completed"
      /\ \A n \in PageNodes :
           /\ page.nodes # <<>> => page.nodes[n] \in {NodeAt(view, k, n) : k \in 0..emitted[view]}
           /\ Cardinality({i \in DOMAIN page.pays : page.pays[i].node = n}) <= 1

ConsoleInv ==
    ConsoleTypeOK /\ EventsOnceInOrder /\ QuietAfterLeave /\ EndedTasksRest /\ NothingInvented

\* "A forward jump in seq means we missed events.  Trigger one reconnect with
\* the resume cursor so the server replays the gap" (useTaskWebSocket.ts:259).
MissedEventsAreReplayed ==
    [][ ~gapRetried /\ gapRetried' => socket'.next <= seen + 1 ]_consoleVars

\* "Guards against scheduling a reconnect after an intentional shutdown."
RetriesAreForTheView == timer # NoView => timer = view

-----------------------------------------------------------------------------
(***************************************************************************)
(* The rest of the web app that keeps state across awaits: the wallet's      *)
(* session and its expiry timer (WalletContext.tsx, walletSession.ts), the   *)
(* hooks that fetch what belongs to the connected key (useWalletBalance.ts,  *)
(* useTransactionHistory.ts), the paged list of its tasks                    *)
(* (useTaskHistory.ts), and the shell around the pages: toasts,              *)
(* notifications and the progress of requests.                               *)
(***************************************************************************)
CONSTANTS AccountKeys,          \* account keys
          NoKey,
          SessionTime, WarnTime, ThrottleTime, \* of the expiry timer
          ListedTasks,          \* the wallet's tasks in the order of the listing
          ListStatus,           \* task -> its status
          ListSize,             \* of a page
          NoCursor,
          Messages, MaxToasts, MaxNotes, MaxRetries,
          ConsoleEnd, MaxLoads, MaxHookCalls \* bounds on the clock, page loads and requests

ASSUME WalletAssumption ==
    /\ NoKey \notin AccountKeys
    /\ SessionTime \in Nat /\ WarnTime \in Nat /\ ThrottleTime \in Nat
    /\ {ListSize, MaxToasts, MaxNotes} \subseteq Nat \ {0} /\ MaxRetries \in Nat

VARIABLES session, stored, legacy, \* in memory, in sessionStorage, of an older build
          keypair,              \* the secret key in memory
          probe,                \* of the extension, once per page load
          popups,               \* connectFreighter calls that await the popup
          extension,            \* what Freighter would answer
          balance, transfers,   \* of the two hooks: whose data, requests, flags
          expiryTimer, clock,   \* SessionTimer
          list,                 \* useTaskHistory
          toasts, toastTimers,  \* ids shown, ids with a timer
          notes, inbox,         \* notifications, and the state of their socket
          requests, underway, bar, \* api.ts and the progress bar
          loads

sessionVars == <<session, stored, legacy, keypair, probe, popups, extension, loads>>
keyedVars   == <<balance, transfers>>
timerVars   == <<expiryTimer, clock>>
shellVars   == <<toasts, toastTimers, notes, inbox, requests, underway, bar>>
walletVars  == <<sessionVars, keyedVars, timerVars, list, shellVars>>

-----------------------------------------------------------------------------
(* The hooks that fetch for publicKey.                                     *)

Key(s) == s.key
NoSession == [key |-> NoKey, method |-> "none"]

Idle == [of |-> NoKey, inflight |-> <<>>, guard |-> FALSE, loading |-> FALSE]

\* fetchBalance has no guard; fetchHistory takes one call at a time.
Asked(h, k) == IF k = NoKey THEN [h EXCEPT !.of = NoKey, !.loading = FALSE]
               ELSE [h EXCEPT !.inflight = Append(@, k), !.guard = TRUE]

\* The effect of [publicKey] clears what is shown, then fetches: the balance
\* only if there is a key, so that its spinner stays on without one.
BalanceOf(k)   == LET h == [balance EXCEPT !.of = NoKey, !.loading = TRUE]
                  IN  IF k = NoKey THEN h ELSE Asked(h, k)
HistoryOf(k)   == Asked([transfers EXCEPT !.of = NoKey, !.loading = TRUE, !.guard = FALSE], k)

SetSession(s) ==
    /\ session' = s
    /\ IF Key(s) = Key(session) THEN UNCHANGED keyedVars
       ELSE balance' = BalanceOf(Key(s)) /\ transfers' = HistoryOf(Key(s))

\* The interval, the tab becoming visible, a task submitted, a refresh.
PollBalance ==
    /\ Key(session) # NoKey /\ Len(balance.inflight) < MaxHookCalls
    /\ balance' = Asked(balance, Key(session))
    /\ UNCHANGED <<sessionVars, transfers, timerVars, list, shellVars>>
PollHistory ==
    /\ ~transfers.guard /\ Len(transfers.inflight) < MaxHookCalls
    /\ transfers' = Asked(transfers, Key(session))
    /\ UNCHANGED <<sessionVars, balance, timerVars, list, shellVars>>

\* An answer is shown and ends the loading whoever it is for; a failure only
\* ends the loading.
Landed(h, i, ok) == [h EXCEPT !.of = IF ok THEN h.inflight[i] ELSE @,
                              !.inflight = RemoveAt(@, i), !.guard = FALSE, !.loading = FALSE]
BalanceLands(i, ok) ==
    /\ i \in DOMAIN balance.inflight /\ balance' = Landed(balance, i, ok)
    /\ UNCHANGED <<sessionVars, transfers, timerVars, list, shellVars>>
HistoryLands(i, ok) ==
    /\ i \in DOMAIN transfers.inflight /\ transfers' = Landed(transfers, i, ok)
    /\ UNCHANGED <<sessionVars, balance, timerVars, list, shellVars>>

-----------------------------------------------------------------------------
(* The session.                                                            *)

\* A session of an older build is taken over as Freighter's, once.
LoadPage ==
    /\ loads < MaxLoads /\ loads' = loads + 1
    /\ LET found == IF stored # NoSession THEN stored
                    ELSE IF legacy # NoKey THEN [key |-> legacy, method |-> "freighter"] ELSE NoSession
       IN  /\ session' = found /\ stored' = found
           /\ legacy' = IF stored = NoSession THEN NoKey ELSE legacy
           /\ probe' = [stage |-> "check", freighter |-> found.method = "freighter"]
           /\ balance' = Asked([Idle EXCEPT !.loading = TRUE], found.key)
           /\ transfers' = Asked(Idle, found.key)
    /\ keypair' = NoKey /\ popups' = 0
    /\ UNCHANGED <<extension, timerVars, list, shellVars>>

SessionDropped == SetSession(NoSession) /\ stored' = NoSession /\ legacy' = NoKey

ProbeDrops == SessionDropped

\* probe(): what it knows of the session is the session of the page's load.
ProbeChecks ==
    /\ probe.stage = "check"
    /\ IF probe.freighter /\ ~extension.available
         THEN ProbeDrops ELSE UNCHANGED <<session, stored, legacy, keyedVars>>
    /\ probe' = [probe EXCEPT !.stage =
                   IF probe.freighter /\ extension.available THEN "authorise" ELSE "settled"]
    /\ UNCHANGED <<keypair, popups, extension, loads, timerVars, list, shellVars>>

ProbeAuthorises ==
    /\ probe.stage = "authorise" /\ probe' = [probe EXCEPT !.stage = "settled"]
    /\ IF extension.available /\ extension.allowed
         THEN UNCHANGED <<session, stored, legacy, keyedVars>> ELSE ProbeDrops
    /\ UNCHANGED <<keypair, popups, extension, loads, timerVars, list, shellVars>>

\* setKeypair, setSession, and the effect that persists the session.
Connected(s, pair) == SetSession(s) /\ stored' = s /\ keypair' = pair

StartFreighter ==
    /\ popups < 2 /\ popups' = popups + 1
    /\ UNCHANGED <<session, stored, legacy, keypair, probe, extension, loads>>
    /\ UNCHANGED <<keyedVars, timerVars, list, shellVars>>

\* The popup is approved, for the account the extension shows, or declined.
FreighterAnswers ==
    /\ popups > 0 /\ popups' = popups - 1
    /\ \/ /\ extension.available
          /\ Connected([key |-> extension.account, method |-> "freighter"], NoKey)
          /\ extension' = [extension EXCEPT !.allowed = TRUE]
       \/ UNCHANGED <<session, stored, keypair, extension, keyedVars>>
    /\ UNCHANGED <<legacy, probe, loads, timerVars, list, shellVars>>

ConnectSecretKey(k) ==
    /\ Connected([key |-> k, method |-> "secret-key"], k)
    /\ UNCHANGED <<legacy, probe, popups, extension, loads, timerVars, list, shellVars>>

\* disconnect(), or the event of a request answered 401.
Disconnect ==
    /\ SessionDropped /\ keypair' = NoKey
    /\ UNCHANGED <<probe, popups, extension, loads, timerVars, list, shellVars>>

\* The user installs, removes, revokes or switches the account.
ExtensionChanges ==
    /\ extension' \in [available : BOOLEAN, allowed : BOOLEAN, account : AccountKeys]
    /\ Cardinality({f \in DOMAIN extension : extension'[f] # extension[f]}) = 1
    /\ UNCHANGED <<session, stored, legacy, keypair, probe, popups, loads>>
    /\ UNCHANGED <<keyedVars, timerVars, list, shellVars>>

Ready == Key(session) # NoKey /\ (session.method = "freighter" \/ keypair # NoKey)

-----------------------------------------------------------------------------
(* SessionTimer.                                                           *)

Stopped == [running |-> FALSE, start |-> 0, warned |-> FALSE, active |-> 0]

TimerStarts ==
    /\ ~expiryTimer.running
    /\ expiryTimer' = [Stopped EXCEPT !.running = TRUE, !.start = clock, !.active = clock]
    /\ UNCHANGED <<sessionVars, keyedVars, clock, list, shellVars>>

\* A click, key or scroll extends the session once per throttle interval.
Extends(now) == now - expiryTimer.start >= ThrottleTime

UserActs ==
    /\ expiryTimer.running
    /\ expiryTimer' = IF Extends(clock)
                  THEN [expiryTimer EXCEPT !.active = clock, !.start = clock, !.warned = FALSE]
                  ELSE [expiryTimer EXCEPT !.active = clock]
    /\ UNCHANGED <<sessionVars, keyedVars, clock, list, shellVars>>

\* "Stay signed in" in the modal.
Renew ==
    /\ expiryTimer.running /\ expiryTimer.warned
    /\ expiryTimer' = [expiryTimer EXCEPT !.start = clock, !.warned = FALSE, !.active = clock]
    /\ UNCHANGED <<sessionVars, keyedVars, clock, list, shellVars>>

\* stop(), or the expiry.
TimerStops ==
    /\ expiryTimer.running /\ expiryTimer' = [expiryTimer EXCEPT !.running = FALSE, !.warned = FALSE]
    /\ UNCHANGED <<sessionVars, keyedVars, clock, list, shellVars>>

WarnAt   == expiryTimer.start + Max({0, SessionTime - WarnTime})
ExpireAt == expiryTimer.start + SessionTime

ClockTicks ==
    /\ clock < ConsoleEnd /\ clock' = clock + 1
    /\ expiryTimer' = CASE expiryTimer.running /\ clock' >= ExpireAt -> [expiryTimer EXCEPT !.running = FALSE]
                  [] expiryTimer.running /\ clock' >= WarnAt -> [expiryTimer EXCEPT !.warned = TRUE]
                  [] OTHER -> expiryTimer
    /\ UNCHANGED <<sessionVars, keyedVars, list, shellVars>>

-----------------------------------------------------------------------------
(* The list of tasks.                                                      *)

Filters == {"all"} \cup {ListStatus[t] : t \in Range(ListedTasks)}
Matching(f) == SelectSeq(ListedTasks, LAMBDA t : f \in {"all", ListStatus[t]})

\* The server's page after the cursor, which is a task of the listing.
AfterCursor(f, c) ==
    IF c = NoCursor THEN Matching(f)
    ELSE SelectSeq(Matching(f), LAMBDA t :
           \E i, j \in DOMAIN ListedTasks : i < j /\ ListedTasks[i] = c /\ ListedTasks[j] = t)
PageOf(f, c) == SubSeq(AfterCursor(f, c), 1, Min({ListSize, Len(AfterCursor(f, c))}))

EmptyList == [filter |-> "all", tasks |-> <<>>, next |-> NoCursor, more |-> FALSE,
          loading |-> FALSE, error |-> FALSE, asked |-> <<>>, overlap |-> FALSE]

Request(l, c) == [l EXCEPT !.asked = Append(@, [filter |-> l.filter, cursor |-> c]),
                           !.loading = TRUE, !.error = FALSE,
                           !.overlap = @ \/ l.asked # <<>>]
FromTheTop(l) == Request([l EXCEPT !.tasks = <<>>, !.next = NoCursor, !.more = FALSE,
                                       !.overlap = FALSE], NoCursor)

\* The status filter recreates fetchTasks; refetch asks again.
ChooseFilter(f) ==
    /\ f # list.filter /\ Len(list.asked) < MaxHookCalls
    /\ list' = FromTheTop([list EXCEPT !.filter = f])
    /\ UNCHANGED <<sessionVars, keyedVars, timerVars, shellVars>>
Reload ==
    /\ Len(list.asked) < MaxHookCalls
    /\ list' = FromTheTop(list)
    /\ UNCHANGED <<sessionVars, keyedVars, timerVars, shellVars>>
LoadMore ==
    /\ ~list.loading /\ list.more /\ Len(list.asked) < MaxHookCalls
    /\ list' = Request(list, list.next)
    /\ UNCHANGED <<sessionVars, keyedVars, timerVars, shellVars>>

\* mergeTaskPages keeps a task once, where it was.

Extended(old, batch) == old \o SelectSeq(batch, LAMBDA t : t \notin Range(old))

\* The answer is taken whatever the filter is by now, and loads more for it.
ListLands(i) ==
    LET r    == list.asked[i]
        batch == PageOf(r.filter, r.cursor)
        more == Len(AfterCursor(r.filter, r.cursor)) > Len(batch)
    IN  /\ list' = [list EXCEPT !.tasks = IF r.cursor = NoCursor THEN batch ELSE Extended(@, batch),
                                !.next = IF more THEN Last(batch) ELSE NoCursor, !.more = more,
                                !.asked = RemoveAt(@, i), !.loading = FALSE]
        /\ UNCHANGED <<sessionVars, keyedVars, timerVars, shellVars>>
ListFails(i) ==
    /\ list' = [list EXCEPT !.error = TRUE, !.asked = RemoveAt(@, i), !.loading = FALSE]
    /\ UNCHANGED <<sessionVars, keyedVars, timerVars, shellVars>>

\* What the page shows is filtered once more.
Displayed == SelectSeq(list.tasks, LAMBDA t : list.filter \in {"all", ListStatus[t]})

-----------------------------------------------------------------------------
(* The shell.                                                              *)

Ids == 1..MaxHookCalls
NewId == CHOOSE i \in Ids : i \notin {toasts[j].id : j \in DOMAIN toasts} \cup toastTimers

Keep(s, n) == IF Len(s) > n THEN SubSeq(s, Len(s) - n + 1, Len(s)) ELSE s

\* showToast: the same message again moves to the end and starts its timer
\* anew; the oldest of too many goes, its timer does not.
ShowToast(msg) ==
    LET same == {i \in DOMAIN toasts : toasts[i].msg = msg}
    IN  /\ IF same # {}
             THEN LET t == toasts[Min(same)]
                  IN  toasts' = Append(RemoveAt(toasts, Min(same)), t) /\ UNCHANGED toastTimers
             ELSE /\ Cardinality(toastTimers) < MaxHookCalls
                  /\ toasts' = Keep(Append(toasts, [id |-> NewId, msg |-> msg]), MaxToasts)
                  /\ toastTimers' = toastTimers \cup {NewId}
        /\ UNCHANGED <<sessionVars, keyedVars, timerVars, list, notes, inbox, requests, underway, bar>>

\* dismissToast, by its timer or by the user.
DismissToast(id) ==
    /\ id \in toastTimers
    /\ toasts' = SelectSeq(toasts, LAMBDA t : t.id # id)
    /\ toastTimers' = toastTimers \ {id}
    /\ UNCHANGED <<sessionVars, keyedVars, timerVars, list, notes, inbox, requests, underway, bar>>

\* addNotification: newest first, an id once.
Noted(id) ==
    LET all == <<[id |-> id, read |-> FALSE]>> \o SelectSeq(notes, LAMBDA n : n.id # id)
    IN  SubSeq(all, 1, Min({MaxNotes, Len(all)}))

\* An event of the socket or of the page becomes a notification.
AddNote(id) ==
    /\ notes' = Noted(id)
    /\ UNCHANGED <<sessionVars, keyedVars, timerVars, list, toasts, toastTimers, inbox>>
    /\ UNCHANGED <<requests, underway, bar>>

\* removeNotification, markAsRead.
EditNotes(id) ==
    /\ notes' \in {SelectSeq(notes, LAMBDA n : n.id # id),
                   [i \in DOMAIN notes |-> [notes[i] EXCEPT !.read = @ \/ notes[i].id = id]]}
    /\ UNCHANGED <<sessionVars, keyedVars, timerVars, list, toasts, toastTimers, inbox>>
    /\ UNCHANGED <<requests, underway, bar>>

\* The socket of the notifications: up to five retries without success.
InboxOpens ==
    /\ inbox.stage = "connecting" /\ inbox' = [stage |-> "open", attempts |-> 0]
    /\ UNCHANGED <<sessionVars, keyedVars, timerVars, list, toasts, toastTimers, notes>>
    /\ UNCHANGED <<requests, underway, bar>>
InboxCloses ==
    /\ inbox.stage \in {"connecting", "open"}
    /\ inbox' = IF inbox.attempts < MaxRetries
                  THEN [stage |-> "waiting", attempts |-> inbox.attempts + 1]
                  ELSE [inbox EXCEPT !.stage = "down"]
    /\ UNCHANGED <<sessionVars, keyedVars, timerVars, list, toasts, toastTimers, notes>>
    /\ UNCHANGED <<requests, underway, bar>>
InboxRetries ==
    /\ inbox.stage = "waiting" /\ inbox' = [inbox EXCEPT !.stage = "connecting"]
    /\ UNCHANGED <<sessionVars, keyedVars, timerVars, list, toasts, toastTimers, notes>>
    /\ UNCHANGED <<requests, underway, bar>>

\* request(): the bar starts, a 503 is tried again up to three times, and the
\* request settles once.
StartRequest ==
    /\ Len(requests) < MaxHookCalls
    /\ requests' = Append(requests, 0) /\ underway' = underway + 1 /\ bar' = "running"
    /\ UNCHANGED <<sessionVars, keyedVars, timerVars, list, toasts, toastTimers, notes, inbox>>
RetryRequest(i) ==
    /\ requests[i] < 3 /\ requests' = [requests EXCEPT ![i] = @ + 1]
    /\ UNCHANGED <<sessionVars, keyedVars, timerVars, list, toasts, toastTimers, notes, inbox>>
    /\ UNCHANGED <<underway, bar>>

BarAfter(count, how) == IF count = 0 THEN how ELSE bar

\* progressDone or progressError.
SettleRequest(i, how) ==
    /\ requests' = RemoveAt(requests, i)
    /\ underway' = Max({0, underway - 1}) /\ bar' = BarAfter(underway', how)
    /\ UNCHANGED <<sessionVars, keyedVars, timerVars, list, toasts, toastTimers, notes, inbox>>

-----------------------------------------------------------------------------
WalletInit ==
    /\ stored = NoSession /\ session = NoSession /\ legacy \in AccountKeys \cup {NoKey}
    /\ keypair = NoKey /\ popups = 0 /\ loads = 0
    /\ probe = [stage |-> "settled", freighter |-> FALSE]
    /\ extension \in [available : {TRUE}, allowed : {FALSE}, account : AccountKeys]
    /\ balance = Idle /\ transfers = Idle
    /\ expiryTimer = Stopped /\ clock = 0
    /\ list = FromTheTop(EmptyList)
    /\ toasts = <<>> /\ toastTimers = {} /\ notes = <<>>
    /\ inbox = [stage |-> "connecting", attempts |-> 0]
    /\ requests = <<>> /\ underway = 0 /\ bar = "done"

SessionStep ==
    \/ LoadPage \/ ProbeChecks \/ ProbeAuthorises \/ StartFreighter \/ FreighterAnswers
    \/ Disconnect \/ ExtensionChanges \/ (\E k \in AccountKeys : ConnectSecretKey(k))
KeyedStep ==
    \/ PollBalance \/ PollHistory
    \/ \E i \in 1..MaxHookCalls, ok \in BOOLEAN : BalanceLands(i, ok) \/ HistoryLands(i, ok)
TimerStep == TimerStarts \/ UserActs \/ Renew \/ TimerStops \/ ClockTicks
ListStep ==
    \/ Reload \/ LoadMore \/ (\E f \in Filters : ChooseFilter(f))
    \/ \E i \in DOMAIN list.asked : ListLands(i) \/ ListFails(i)
ToastStep == (\E m \in Messages : ShowToast(m)) \/ (\E i \in Ids : DismissToast(i))
ShellStep ==
    \/ \E i \in Ids : AddNote(i) \/ EditNotes(i)
    \/ InboxOpens \/ InboxCloses \/ InboxRetries \/ StartRequest
    \/ \E i \in DOMAIN requests : RetryRequest(i) \/ SettleRequest(i, "done") \/ SettleRequest(i, "failed")

WalletNext == SessionStep \/ KeyedStep \/ TimerStep \/ ListStep \/ ToastStep \/ ShellStep
WalletSpec == WalletInit /\ [][WalletNext]_walletVars

-----------------------------------------------------------------------------
(* Properties.                                                             *)

\* Every variable keeps to its type.
WalletTypeOK ==
    /\ {Key(session), Key(stored), legacy, keypair, balance.of, transfers.of} \subseteq AccountKeys \cup {NoKey}
    /\ bar \in {"running", "done", "failed"} /\ underway \in Nat
    /\ inbox.attempts \in 0..MaxRetries

\* Whatever the order of probe, popup, key and logout, a session that can
\* sign signs as the account it shows, and what a reload would restore is
\* what the page shows now: a dropped session does not come back.
SignsAsItself ==
    /\ Ready /\ session.method = "secret-key" => keypair = Key(session)
    /\ stored = session

\* A hook shows a spinner only while an answer is due, whatever answers were
\* overtaken; without a key the balance's stays.
SpinnersEnd ==
    /\ transfers.loading => transfers.inflight # <<>>
    /\ balance.loading => balance.inflight # <<>> \/ Key(session) = NoKey

\* The session ends on its own only after a quiet time: not within
\* SessionTime - ThrottleTime of anything the user did.
ExpiryIsQuiet ==
    expiryTimer.running => expiryTimer.active < expiryTimer.start + Max({ThrottleTime, 1}) /\ clock < ExpireAt

\* Where no two requests overlapped, a list that says it has no more has all
\* of the tasks of its filter, in order, however it was paged and refiltered.
ListIsComplete ==
    /\ ~list.overlap /\ ~list.loading /\ ~list.error /\ ~list.more => Displayed = Matching(list.filter)
    /\ IsInjective(list.tasks)

\* The progress bar runs while, and only while, a request has not settled;
\* every toast shown has a timer that will take it away.
ShellSettles ==
    /\ (bar = "running") <=> (requests # <<>>)
    /\ underway = Len(requests)
    /\ {toasts[i].id : i \in DOMAIN toasts} \subseteq toastTimers
    /\ Len(toasts) <= MaxToasts /\ Len(notes) <= MaxNotes
    /\ \A i, j \in DOMAIN notes : i # j => notes[i].id # notes[j].id

WalletInv ==
    WalletTypeOK /\ SignsAsItself /\ SpinnersEnd /\ ExpiryIsQuiet /\ ListIsComplete /\ ShellSettles

\* "so the UI never shows the previous wallet's transactions while the new
\* fetch is in-flight" (useTransactionHistory.ts:200).
ShowsOwnWallet == transfers.of \in {NoKey, Key(session)}
=============================================================================
