------------------------------ MODULE Dashboard ------------------------------
(***************************************************************************)
(* legion-gui: the bus task, the event pump, the tray and the window,      *)
(* against a daemon that other clients and Fn+Q change, and that stops and *)
(* starts again.                                                           *)
(*                                                                         *)
(* The bus task runs on a tokio thread and awaits each D-Bus reply, so the *)
(* properties of one snapshot are read at different moments.  Its proxy is *)
(* zbus's default one, which caches properties: it asks for all of them    *)
(* when the first is read, and from then on only PropertiesChanged brings  *)
(* new values.  The bus task's events go through a channel to the pump,    *)
(* which updates the tray and posts them to the Slint thread.              *)
(*                                                                         *)
(* Simplifications.  Two properties stand for all that a snapshot reads:   *)
(* the profile and Fn Lock, in the order they are read; Capabilities       *)
(* stands for the two reads that can fail a snapshot.  The daemon is       *)
(* reduced to what its clients see: it changes a property, then announces  *)
(* it, and it can read every property.  zbus is not in this repository:    *)
(* the cache is modelled from its documented default.  It takes a new      *)
(* value in the step that announces it; the bus task reads that value only *)
(* after the reply to a call, GetPpt, which comes by the same socket.      *)
(***************************************************************************)
EXTENDS Naturals, Sequences

CONSTANTS
    Profiles,     \* the profiles of the machine
    NoProfile,    \* the profile of a snapshot that could not read it
    Mishaps,      \* what may happen: "second start", "no host" for the tray,
                  \* "no stream" when the subscription fails
    MaxRequests,  \* bound for TLC: requests waiting in the channel
    MaxEvents,    \* bound for TLC: events waiting for the pump, for Slint
    MaxSignals    \* bound for TLC: PropertiesChanged waiting in the stream

ASSUME DashboardAssumption ==
    /\ NoProfile \notin Profiles
    /\ Mishaps \subseteq {"second start", "no host", "no stream"}
    /\ MaxRequests \in Nat
    /\ MaxEvents \in Nat
    /\ MaxSignals \in Nat \ {0}

VARIABLES
    up,        \* the daemon owns its name
    hw,        \* what the daemon reads: the machine's settings
    owed,      \* the properties it has changed and not yet announced
    unheard,   \* history: the properties that differ from the cache since a
               \* change that no PropertiesChanged will tell of
    running,   \* the dashboard's process is alive
    task,      \* where the bus task is
    call,      \* where the call it waits for is
    req,       \* the request it is serving
    snap,      \* the snapshot it is reading
    fill,      \* the property cache of its proxy: "empty", "filled", "failed"
    cache,     \* the values in it
    failed,    \* history: the last snapshot could not be read
    stream,    \* its subscription to PropertiesChanged
    signals,   \* how many signals wait in that stream
    requests,  \* the channel of requests
    events,    \* the channel of events
    posted,    \* the closures posted to the Slint event loop
    tray,      \* the tray: being registered, there, or without a host
    item,      \* Tray.state, and TrayHandle.last beside it
    window,    \* the properties of the window
    opened     \* history: the window was opened since the daemon last started

daemonVars == <<up, hw, owed, unheard>>
callVars   == <<call, req>>
snapVars   == <<snap, fill, cache, failed>>
streamVars == <<stream, signals>>
trayVars   == <<tray, item>>
viewVars   == <<window, opened>>
vars == <<daemonVars, running, task, callVars, snapVars, streamVars, requests,
          events, posted, trayVars, viewVars>>

Properties == {"profile", "fn_lock"}
Values     == [profile : Profiles, fn_lock : BOOLEAN]
Cached     == [profile : Profiles \cup {NoProfile}, fn_lock : BOOLEAN]

\* `caps`: the capabilities are known, and with them what the machine has.
Snapshots == [caps : BOOLEAN, profile : Profiles \cup {NoProfile},
              fn_lock : BOOLEAN]

Request == [set : {"profile"}, to : Profiles]
             \cup [set : {"fn_lock"}, to : BOOLEAN]
             \cup {[set |-> "nothing"]}
Refresh == [set |-> "nothing"]

Snapshot(s)  == [kind |-> "snapshot", state |-> s]
Toast        == [kind |-> "toast"]
Disconnected == [kind |-> "disconnected"]
Show         == [kind |-> "show"]
Event == {Snapshot(s) : s \in Snapshots} \cup {Toast, Disconnected}

Unread == [caps |-> FALSE, profile |-> NoProfile, fn_lock |-> FALSE]
Uncached == [profile |-> NoProfile, fn_lock |-> FALSE]
Hidden == [connected |-> FALSE, state |-> Unread]

DaemonTypes ==
    /\ up \in BOOLEAN
    /\ hw \in Values
    /\ owed \subseteq Properties
    /\ unheard \subseteq Properties

TaskTypes ==
    /\ running \in BOOLEAN
    /\ task \in {"connect", "refresh", "readProfile", "readFnLock",
                 "subscribe", "select", "calling", "ended"}
    /\ call \in {"none", "sent", "announce", "ok", "error"}
    /\ req \in Request
    /\ snap \in Snapshots
    /\ fill \in {"empty", "filled", "failed"}
    /\ cache \in Cached
    /\ failed \in BOOLEAN
    /\ stream \in {"not yet", "open", "failed"}
    /\ signals \in Nat

ChannelTypes ==
    /\ requests \in Seq(Request)
    /\ events \in Seq(Event)
    /\ posted \in Seq(Event \cup {Show})

ShownTypes ==
    /\ tray \in {"registering", "there", "no host"}
    /\ item \in Snapshots
    /\ window \in [connected : BOOLEAN, state : Snapshots]
    /\ opened \in BOOLEAN

TypeOK == DaemonTypes /\ TaskTypes /\ ChannelTypes /\ ShownTypes

Init ==
    /\ up \in BOOLEAN
    /\ hw \in Values
    /\ owed = {}
    /\ unheard = {}
    /\ running = FALSE
    /\ task = "ended" /\ call = "none" /\ req = Refresh /\ snap = Unread
    /\ fill = "empty" /\ cache = Uncached /\ failed = FALSE
    /\ stream = "not yet" /\ signals = 0
    /\ requests = <<>> /\ events = <<>> /\ posted = <<>>
    /\ tray = "registering" /\ item = Unread
    /\ window = Hidden /\ opened = FALSE

-----------------------------------------------------------------------------
(* The process                                                              *)

\* Faulty: relies on the bus task's own first snapshot.
LaunchWithoutRefresh(trayOnly) ==
    /\ ~running
    /\ running' = TRUE
    /\ task' = "connect"
    /\ opened' = (~trayOnly /\ up)
    /\ UNCHANGED <<daemonVars, callVars, snapVars, streamVars, requests,
                   events, posted, trayVars, window>>

(***************************************************************************)
(* main: the tasks are spawned and the first Refresh is sent; the window   *)
(* opens, unless the tray alone was asked for.                             *)
(***************************************************************************)
Launch(trayOnly) ==
    /\ ~running
    /\ running' = TRUE
    /\ task' = "connect"
    /\ requests' = <<Refresh>>
    /\ opened' = (~trayOnly /\ up)
    /\ UNCHANGED <<daemonVars, callVars, snapVars, streamVars, events, posted,
                   trayVars, window>>

\* A second start finds the name taken and asks this one to show its window.
SecondStart ==
    /\ "second start" \in Mishaps
    /\ running
    /\ Len(posted) < MaxEvents
    /\ posted' = Append(posted, Show)
    /\ UNCHANGED <<daemonVars, running, task, callVars, snapVars, streamVars,
                   requests, events, trayVars, viewVars>>

\* Quit in the tray, the last window closed, or a kill.  What the daemon does
\* with a call already sent is then a change made elsewhere.
Quit ==
    /\ running
    /\ running' = FALSE
    /\ task' = "ended" /\ call' = "none" /\ req' = Refresh /\ snap' = Unread
    /\ fill' = "empty" /\ cache' = Uncached /\ failed' = FALSE
    /\ unheard' = {}
    /\ stream' = "not yet" /\ signals' = 0
    /\ requests' = <<>> /\ events' = <<>> /\ posted' = <<>>
    /\ tray' = "registering" /\ item' = Unread
    /\ window' = Hidden /\ opened' = FALSE
    /\ UNCHANGED <<up, hw, owed>>

-----------------------------------------------------------------------------
(* The bus task                                                             *)

\* Daemon::connect: the name has to have an owner, or the task returns.
Connect ==
    /\ task = "connect"
    /\ IF up THEN task' = "refresh" /\ UNCHANGED events
             ELSE task' = "ended" /\ events' = Append(events, Disconnected)
    /\ UNCHANGED <<daemonVars, running, callVars, snapVars, streamVars,
                   requests, posted, trayVars, viewVars>>

\* The first refresh comes before the subscription, the others in the loop.
AfterRefresh == IF stream = "not yet" THEN "subscribe" ELSE "select"

(***************************************************************************)
(* The first property read, Capabilities, makes the proxy subscribe to     *)
(* PropertiesChanged for itself and ask for all properties.  If nobody     *)
(* answers, the cache and every later property read fail for good.         *)
(***************************************************************************)
FillCache ==
    /\ task = "refresh"
    /\ fill = "empty"
    /\ IF up THEN fill' = "filled" /\ cache' = hw
             ELSE fill' = "failed" /\ UNCHANGED cache
    /\ UNCHANGED <<daemonVars, running, task, callVars, snap, failed,
                   streamVars, requests, events, posted, trayVars, viewVars>>

\* Faulty: a bus task that returns when a snapshot fails.
ReadCapabilitiesOnce ==
    /\ task = "refresh"
    /\ fill # "empty"
    /\ failed' = ~(fill = "filled" /\ up)
    /\ IF failed'
       THEN /\ Len(events) < MaxEvents
            /\ task' = "ended"
            /\ events' = Append(events, Disconnected)
            /\ UNCHANGED snap
       ELSE /\ task' = "readProfile"
            /\ snap' = [Unread EXCEPT !.caps = TRUE]
            /\ UNCHANGED events
    /\ UNCHANGED <<daemonVars, running, callVars, fill, cache, streamVars,
                   requests, posted, trayVars, viewVars>>

\* snapshot: Capabilities, from the cache, and GetPpt, a call; without them
\* there is no snapshot.
ReadCapabilities ==
    /\ task = "refresh"
    /\ fill # "empty"
    /\ failed' = ~(fill = "filled" /\ up)
    /\ IF failed'
       THEN /\ Len(events) < MaxEvents
            /\ task' = AfterRefresh
            /\ events' = Append(events, Disconnected)
            /\ UNCHANGED snap
       ELSE /\ task' = "readProfile"
            /\ snap' = [Unread EXCEPT !.caps = TRUE]
            /\ UNCHANGED events
    /\ UNCHANGED <<daemonVars, running, callVars, fill, cache, streamVars,
                   requests, posted, trayVars, viewVars>>

\* The other properties come from the cache, whoever owns the name by now.
ReadProfile ==
    /\ task = "readProfile"
    /\ task' = "readFnLock"
    /\ snap' = [snap EXCEPT !.profile = cache.profile]
    /\ UNCHANGED <<daemonVars, running, callVars, fill, cache, failed,
                   streamVars, requests, events, posted, trayVars, viewVars>>

ReadFnLock ==
    /\ task = "readFnLock"
    /\ Len(events) < MaxEvents
    /\ task' = AfterRefresh
    /\ snap' = Unread
    /\ events' = Append(events,
                        Snapshot([snap EXCEPT !.fn_lock = cache.fn_lock]))
    /\ UNCHANGED <<daemonVars, running, callVars, fill, cache, failed,
                   streamVars, requests, posted, trayVars, viewVars>>

\* A failure is logged; the window then shows no changes made elsewhere.
Subscribe ==
    /\ task = "subscribe"
    /\ task' = "select"
    /\ \/ stream' = "open"
       \/ "no stream" \in Mishaps /\ stream' = "failed"
    /\ UNCHANGED <<daemonVars, running, callVars, snapVars, signals, requests,
                   events, posted, trayVars, viewVars>>

\* Faulty: a biased select! that serves the signals first.
TakeRequestLast ==
    /\ task = "select"
    /\ requests # <<>>
    /\ signals = 0
    /\ requests' = Tail(requests)
    /\ req' = Head(requests)
    /\ IF req' = Refresh
       THEN task' = "refresh" /\ UNCHANGED call
       ELSE task' = "calling" /\ call' = (IF up THEN "sent" ELSE "error")
    /\ UNCHANGED <<daemonVars, running, snapVars, streamVars, events, posted,
                   trayVars, viewVars>>

\* One arm of select!: a request, which a Refresh needs no call for.
TakeRequest ==
    /\ task = "select"
    /\ requests # <<>>
    /\ requests' = Tail(requests)
    /\ req' = Head(requests)
    /\ IF req' = Refresh
       THEN task' = "refresh" /\ UNCHANGED call
       ELSE task' = "calling" /\ call' = (IF up THEN "sent" ELSE "error")
    /\ UNCHANGED <<daemonVars, running, snapVars, streamVars, events, posted,
                   trayVars, viewVars>>

\* Faulty: only a call that succeeds is followed by a refresh.
CallReturnsOnly ==
    /\ task = "calling"
    /\ call \in {"ok", "error"}
    /\ IF call = "ok"
       THEN UNCHANGED events /\ task' = "refresh"
       ELSE /\ Len(events) < MaxEvents
            /\ events' = Append(events, Toast)
            /\ task' = "select"
    /\ call' = "none"
    /\ req' = Refresh
    /\ UNCHANGED <<daemonVars, running, snapVars, streamVars, requests, posted,
                   trayVars, viewVars>>

\* The reply: apply turns every error into a toast; a refresh follows.
CallReturns ==
    /\ task = "calling"
    /\ call \in {"ok", "error"}
    /\ IF call = "ok"
       THEN UNCHANGED events
       ELSE Len(events) < MaxEvents /\ events' = Append(events, Toast)
    /\ task' = "refresh"
    /\ call' = "none"
    /\ req' = Refresh
    /\ UNCHANGED <<daemonVars, running, snapVars, streamVars, requests, posted,
                   trayVars, viewVars>>

\* Faulty: takes the end of the stream for a signal.
ReceiveUnchecked ==
    /\ task = "select"
    /\ stream = "open"
    /\ signals' = signals - 1
    /\ task' = "refresh"
    /\ UNCHANGED <<daemonVars, running, callVars, snapVars, stream, requests,
                   events, posted, trayVars, viewVars>>

\* The other arm: whatever a PropertiesChanged says, everything is re-read.
ReceiveSignal ==
    /\ task = "select"
    /\ stream = "open"
    /\ signals > 0
    /\ signals' = signals - 1
    /\ task' = "refresh"
    /\ UNCHANGED <<daemonVars, running, callVars, snapVars, stream, requests,
                   events, posted, trayVars, viewVars>>

-----------------------------------------------------------------------------
(* The pump, the tray and the window                                        *)

\* tray::spawn fails without a StatusNotifierItem host; the pump goes on.
RegisterTray ==
    /\ running
    /\ tray = "registering"
    /\ \/ tray' = "there"
       \/ "no host" \in Mishaps /\ tray' = "no host"
    /\ UNCHANGED <<daemonVars, running, task, callVars, snapVars, streamVars,
                   requests, events, posted, item, viewVars>>

\* Faulty: a comparison that forgets a field.
SameProfileOnly(s, t) == s.caps = t.caps /\ s.profile = t.profile

\* PartialEq of TrayState: an equal state is not sent to the tray.
SameItem(s, t) ==
    s.caps = t.caps /\ s.profile = t.profile /\ s.fn_lock = t.fn_lock

\* The tray first, then the window.
Pump ==
    /\ tray # "registering"
    /\ events # <<>>
    /\ Len(posted) < MaxEvents
    /\ events' = Tail(events)
    /\ LET event == Head(events) IN
        /\ posted' = Append(posted, event)
        /\ item' = IF /\ event.kind = "snapshot"
                      /\ tray = "there"
                      /\ ~SameItem(item, event.state)
                   THEN event.state
                   ELSE item
    /\ UNCHANGED <<daemonVars, running, task, callVars, snapVars, streamVars,
                   requests, tray, viewVars>>

\* What the closures do to the window, apply_snapshot for one.  The text of
\* a toast and its dismissal are left out.
Shown(event) ==
    CASE event.kind = "snapshot" -> [connected |-> TRUE, state |-> event.state]
      [] event.kind = "disconnected" -> [window EXCEPT !.connected = FALSE]
      [] OTHER -> window

RunPosted ==
    /\ posted # <<>>
    /\ posted' = Tail(posted)
    /\ window' = Shown(Head(posted))
    /\ opened' = (opened \/ (Head(posted) = Show /\ up))
    /\ UNCHANGED <<daemonVars, running, task, callVars, snapVars, streamVars,
                   requests, events, trayVars>>

Ask(r) ==
    /\ Len(requests) < MaxRequests
    /\ requests' = Append(requests, r)
    /\ UNCHANGED <<daemonVars, running, task, callVars, snapVars, streamVars,
                   events, posted, trayVars, viewVars>>

\* The window: a profile button, and a switch, which asks for the opposite
\* of what it shows.  Without a daemon there is the notice instead.
ClickWindow ==
    /\ window.connected
    /\ \/ /\ window.state.profile # NoProfile
          /\ \E p \in Profiles : Ask([set |-> "profile", to |-> p])
       \/ Ask([set |-> "fn_lock", to |-> ~window.state.fn_lock])

\* The menu of the tray: it has a switch once the capabilities are known.
ClickTray ==
    /\ tray = "there"
    /\ \/ /\ item.profile # NoProfile
          /\ \E p \in Profiles : Ask([set |-> "profile", to |-> p])
       \/ item.caps /\ Ask([set |-> "fn_lock", to |-> ~item.fn_lock])

-----------------------------------------------------------------------------
(* The daemon as its clients see it                                         *)

\* The dashboard's own call: refused, or applied, announced and answered.
RefuseCall ==
    /\ call = "sent"
    /\ call' = "error"
    /\ UNCHANGED <<daemonVars, running, task, req, snapVars, streamVars,
                   requests, events, posted, trayVars, viewVars>>

ApplyCall ==
    /\ call = "sent"
    /\ call' = "announce"
    /\ hw' = [hw EXCEPT ![req.set] = req.to]
    /\ UNCHANGED <<up, owed, unheard, running, task, req, snapVars, streamVars,
                   requests, events, posted, trayVars, viewVars>>

\* PropertiesChanged tells the cache and reaches the subscribed.  At the
\* bound a signal joins those that wait: it says only that there is something
\* to re-read.
Signalled(p) ==
    /\ cache' = IF fill = "filled" THEN [cache EXCEPT ![p] = hw[p]] ELSE cache
    /\ unheard' = unheard \ {p}
    /\ signals' = IF stream = "open" /\ signals < MaxSignals
                  THEN signals + 1
                  ELSE signals

\* With no daemon to announce anything more: what a filled cache has wrong.
Untold(now) == {p \in Properties : fill = "filled" /\ now[p] # cache[p]}

AnnounceCall ==
    /\ call = "announce"
    /\ call' = "ok"
    /\ Signalled(req.set)
    /\ UNCHANGED <<up, hw, owed, running, task, req, snap, fill, failed,
                   stream, requests, events, posted, trayVars, viewVars>>

\* Another client's call, or Fn+Q, and its announcement.  Fn+Q also happens
\* while the daemon is away, and is then not announced.
ChangeElsewhere ==
    /\ \/ \E p \in Profiles : hw' = [hw EXCEPT !.profile = p]
       \/ up /\ \E b \in BOOLEAN : hw' = [hw EXCEPT !.fn_lock = b]
    /\ hw' # hw
    /\ IF up
       THEN /\ owed' = owed \cup {p \in Properties : hw'[p] # hw[p]}
            /\ UNCHANGED unheard
       ELSE unheard' = Untold(hw') /\ UNCHANGED owed
    /\ UNCHANGED <<up, running, task, callVars, snapVars, streamVars,
                   requests, events, posted, trayVars, viewVars>>

Announce ==
    /\ \E p \in owed : owed' = owed \ {p} /\ Signalled(p)
    /\ UNCHANGED <<up, hw, running, task, callVars, snap, fill, failed, stream,
                   requests, events, posted, trayVars, viewVars>>

\* The bus answers an open call with an error; what was not announced by now
\* never is.
DaemonStops ==
    /\ up
    /\ up' = FALSE
    /\ owed' = {}
    /\ unheard' = Untold(hw)
    /\ call' = IF call \in {"sent", "announce"} THEN "error" ELSE call
    /\ opened' = FALSE
    /\ UNCHANGED <<hw, running, task, req, snapVars, streamVars, requests,
                   events, posted, trayVars, window>>

DaemonStarts ==
    /\ ~up
    /\ up' = TRUE
    /\ UNCHANGED <<hw, owed, unheard, running, task, callVars, snapVars,
                   streamVars, requests, events, posted, trayVars, viewVars>>

-----------------------------------------------------------------------------

BusTask == Connect \/ FillCache \/ ReadCapabilities \/ ReadProfile
             \/ ReadFnLock \/ Subscribe \/ CallReturns

Next ==
    \/ \E trayOnly \in BOOLEAN : Launch(trayOnly)
    \/ SecondStart \/ Quit
    \/ BusTask \/ TakeRequest \/ ReceiveSignal
    \/ RegisterTray \/ Pump \/ RunPosted
    \/ ClickWindow \/ ClickTray
    \/ RefuseCall \/ ApplyCall \/ AnnounceCall
    \/ ChangeElsewhere \/ Announce \/ DaemonStops \/ DaemonStarts

Spec == Init /\ [][Next]_vars

(***************************************************************************)
(* tokio polls a ready task, Slint runs what is posted, and select! picks  *)
(* at random among its ready arms.  The daemon answers a call, as the      *)
(* fairness of Legiond has it.  Nothing is assumed of the user, of other   *)
(* clients, or of the daemon's life.  The Slint queue has no bound in the  *)
(* program, so MaxEvents may delay Pump but not starve it.                 *)
(***************************************************************************)
Fairness ==
    /\ WF_vars(BusTask)
    /\ SF_vars(TakeRequest) /\ SF_vars(ReceiveSignal)
    /\ WF_vars(RegisterTray) /\ SF_vars(Pump) /\ WF_vars(RunPosted)
    /\ WF_vars(RefuseCall \/ ApplyCall) /\ WF_vars(AnnounceCall)

FairSpec == Spec /\ Fairness

-----------------------------------------------------------------------------

Settled ==
    /\ running /\ task = "select" /\ owed = {} /\ signals = 0
    /\ requests = <<>> /\ events = <<>> /\ posted = <<>>

(***************************************************************************)
(* A window with nothing more to come shows the notice if the last         *)
(* snapshot failed, and else the machine's settings, though snapshots are  *)
(* read property by property, out of a cache, and the first one before the *)
(* subscription (main.rs, bus_task; bus.rs, connect and snapshot).  The    *)
(* exception is a property that has changed since the cache was filled and *)
(* that the daemon never announced, since it was away at the time or       *)
(* stopped too early: that stays old until a change of it is announced or  *)
(* the dashboard is started again, through any number of refreshes.        *)
(***************************************************************************)
WindowIsCurrent ==
    Settled /\ stream = "open"
      => /\ window.connected = ~failed
         /\ window.connected =>
              \A p \in Properties \ unheard : window.state[p] = hw[p]

(***************************************************************************)
(* The tray shows the newest snapshot that the pump has handled: the last  *)
(* one posted to the window, or the window's own (main.rs, the pump;       *)
(* tray.rs, TrayHandle::update), whatever the order of snapshots, toasts   *)
(* and losses of the daemon.                                               *)
(***************************************************************************)
TrayLeadsWindow ==
    LET snapshots == {i \in DOMAIN posted : posted[i].kind = "snapshot"}
    IN  tray = "there" =>
            IF snapshots = {}
            THEN item = window.state
            ELSE \E i \in snapshots :
                    /\ \A j \in snapshots : j <= i
                    /\ item = posted[i].state

(***************************************************************************)
(* A dashboard that can be clicked is heard (main.rs, bus_task, which      *)
(* returns when it cannot connect and at no other failure): while the bus  *)
(* task is not connected or has returned, neither the window nor the tray  *)
(* has anything to click, nothing is on its way that would bring it, and   *)
(* no request of the user waits for a task that is not there.              *)
(***************************************************************************)
ClicksAreHeard ==
    task \in {"connect", "ended"} =>
        /\ ~window.connected /\ item = Unread
        /\ \A i \in DOMAIN events : events[i].kind # "snapshot"
        /\ \A i \in DOMAIN posted : posted[i].kind # "snapshot"
        /\ \A i \in DOMAIN requests : requests[i] = Refresh

(***************************************************************************)
(* Once the bus task has connected, what the user asks for is taken up     *)
(* (main.rs, bus_task): through refusals, outages, failed snapshots and    *)
(* any number of changes made elsewhere.                                   *)
(***************************************************************************)
RequestsAreServed ==
    requests # <<>> /\ task \notin {"connect", "ended"} ~> requests = <<>>

(***************************************************************************)
(* A call that fails because the daemon is away leaves no dashboard behind *)
(* that looks alive (bus.rs, apply and snapshot): the window changes to    *)
(* the notice, unless the daemon or the user is quicker.                   *)
(***************************************************************************)
VanishedDaemonIsNoticed ==
    task = "calling" /\ ~up ~> ~window.connected \/ up \/ ~running

(***************************************************************************)
(* What the notice advises (app.slint): "Start the daemon, then reopen     *)
(* this window".  A window that was opened while the daemon is there gets  *)
(* a dashboard.                                                            *)
(***************************************************************************)
ReopeningHelps ==
    opened ~> window.connected \/ ~opened
=============================================================================
