--------------------------- MODULE DashboardProofs ---------------------------
(***************************************************************************)
(* Theorems about Dashboard, for every set of profiles, every mishap and   *)
(* every bound of the channels.                                            *)
(***************************************************************************)
EXTENDS Dashboard, TLAPS

USE DEF snapVars

-----------------------------------------------------------------------------
(* Types.                                                                   *)

\* What the steps put together is of its type.
LEMMA Ranges ==
    /\ Unread \in Snapshots /\ Uncached \in Cached
    /\ Refresh \in Request
    /\ Hidden \in [connected : BOOLEAN, state : Snapshots]
    /\ Toast \in Event /\ Disconnected \in Event
    /\ \A s \in Snapshots : Snapshot(s) \in Event
  BY DEF Unread, Snapshots, Uncached, Cached, Refresh, Request, Hidden,
         Toast, Disconnected, Snapshot, Event

\* What the steps do to a channel.
LEMMA SeqFacts ==
  ASSUME NEW E
  PROVE  /\ <<>> \in Seq(E)
         /\ \A e \in E : <<e>> \in Seq(E)
         /\ \A q \in Seq(E), e \in E : Append(q, e) \in Seq(E)
  OBVIOUS

\* What was appended to is not empty.
LEMMA AppendIsMore ==
  ASSUME NEW E, NEW q \in Seq(E), NEW e \in E
  PROVE  Append(q, e) # <<>>
  <1>1. Len(Append(q, e)) = Len(q) + 1 /\ Len(q) \in Nat
    OBVIOUS
  <1>2. Len(<<>>) = 0
    OBVIOUS
  <1> QED
    BY <1>1, <1>2

\* A process that does not run has the types of one.
LEMMA TypeInit == Init => TypeOK
  <1> SUFFICES ASSUME Init PROVE TypeOK
    OBVIOUS
  <1>1. DaemonTypes
    BY DEF Init, DaemonTypes, Values
  <1>2. TaskTypes
    BY Ranges DEF Init, TaskTypes
  <1>3. ChannelTypes
    BY SeqFacts DEF Init, ChannelTypes
  <1>4. ShownTypes
    BY Ranges DEF Init, ShownTypes
  <1> QED
    BY <1>1, <1>2, <1>3, <1>4 DEF TypeOK

\* A part of the state that a step leaves alone keeps its types.
LEMMA KeptTypes ==
  ASSUME TypeOK
  PROVE  /\ UNCHANGED daemonVars => DaemonTypes'
         /\ UNCHANGED <<running, task, callVars, snapVars, streamVars>>
              => TaskTypes'
         /\ UNCHANGED <<requests, events, posted>> => ChannelTypes'
         /\ UNCHANGED <<trayVars, viewVars>> => ShownTypes'
  <1>1. UNCHANGED daemonVars => DaemonTypes'
    BY DEF TypeOK, DaemonTypes, daemonVars
  <1>2. UNCHANGED <<running, task, callVars, snapVars, streamVars>>
          => TaskTypes'
    BY DEF TypeOK, TaskTypes, callVars, streamVars
  <1>3. UNCHANGED <<requests, events, posted>> => ChannelTypes'
    BY DEF TypeOK, ChannelTypes
  <1>4. UNCHANGED <<trayVars, viewVars>> => ShownTypes'
    BY DEF TypeOK, ShownTypes, trayVars, viewVars
  <1> QED
    BY <1>1, <1>2, <1>3, <1>4

\* A request that a click adds to the channel.
LEMMA AskTypes ==
  ASSUME TypeOK, NEW r \in Request, Ask(r)
  PROVE  TypeOK'
  <1>1. ChannelTypes'
    BY DEF Ask, TypeOK, ChannelTypes
  <1>2. DaemonTypes' /\ TaskTypes' /\ ShownTypes'
    BY KeptTypes DEF Ask
  <1> QED
    BY <1>1, <1>2 DEF TypeOK

\* What the bus task does to the channels, but for taking a request.
LEMMA EventTypes ==
  ASSUME TypeOK, NEW e \in Event, UNCHANGED <<requests, posted>>,
         events' = events \/ events' = Append(events, e)
  PROVE  ChannelTypes'
  <1>1. events \in Seq(Event)
    BY DEF TypeOK, ChannelTypes
  <1>2. events' \in Seq(Event)
    BY <1>1, SeqFacts
  <1> QED
    BY <1>2 DEF TypeOK, ChannelTypes

\* Only a snapshot carries a state.
LEMMA SnapshotState ==
  ASSUME NEW e \in Event \cup {Show}, e.kind = "snapshot"
  PROVE  e.state \in Snapshots
  BY DEF Event, Snapshot, Toast, Disconnected, Show

\* What a closure leaves of the window.
LEMMA ShownType ==
  ASSUME ShownTypes, NEW e \in Event \cup {Show}
  PROVE  Shown(e) \in [connected : BOOLEAN, state : Snapshots]
  <1>1. CASE e.kind = "snapshot"
    BY <1>1, SnapshotState DEF Shown, ShownTypes
  <1>2. CASE e.kind = "disconnected"
    BY <1>2 DEF Shown, ShownTypes
  <1>3. CASE e.kind \notin {"snapshot", "disconnected"}
    BY <1>3 DEF Shown, ShownTypes
  <1> QED
    BY <1>1, <1>2, <1>3

\* One more signal, or none, and the value it tells of in the cache.
LEMMA SignalType ==
  ASSUME TypeOK, NEW p, Signalled(p)
  PROVE  /\ signals' \in Nat /\ cache' \in Cached
         /\ unheard' \subseteq Properties
  <1>1. hw \in Values /\ cache \in Cached /\ signals \in Nat
        /\ unheard \subseteq Properties
    BY DEF TypeOK, DaemonTypes, TaskTypes
  <1>2. CASE p = "profile"
    BY <1>1, <1>2 DEF Signalled, Values, Cached
  <1>3. CASE p = "fn_lock"
    BY <1>1, <1>3 DEF Signalled, Values, Cached
  <1>4. CASE p \notin {"profile", "fn_lock"}
    <2>1. [cache EXCEPT ![p] = hw[p]] = cache
      BY <1>1, <1>4 DEF Cached
    <2> QED
      BY <1>1, <2>1 DEF Signalled
  <1> QED
    BY <1>2, <1>3, <1>4

\* A call sets a property to a value of its own, or nothing.
LEMMA ApplyType ==
  ASSUME hw \in Values, req \in Request, ApplyCall
  PROVE  hw' \in Values
  <1>1. CASE req \in [set : {"profile"}, to : Profiles]
    BY <1>1 DEF ApplyCall, Values
  <1>2. CASE req \in [set : {"fn_lock"}, to : BOOLEAN]
    BY <1>2 DEF ApplyCall, Values
  <1>3. CASE req = [set |-> "nothing"]
    BY <1>3 DEF ApplyCall, Values
  <1> QED
    BY <1>1, <1>2, <1>3 DEF Request

\* Every step keeps the types.
LEMMA TypeNext == TypeOK /\ [Next]_vars => TypeOK'
  <1> SUFFICES ASSUME TypeOK, [Next]_vars PROVE TypeOK'
    OBVIOUS
  <1> USE DEF TypeOK
  <1>1. ASSUME NEW t \in BOOLEAN, Launch(t) PROVE TypeOK'
    <2>1. TaskTypes'
      BY <1>1 DEF Launch, TaskTypes, callVars, streamVars
    <2>2. ChannelTypes'
      BY <1>1, Ranges, SeqFacts DEF Launch, ChannelTypes
    <2>3. ShownTypes'
      BY <1>1 DEF Launch, ShownTypes, viewVars, trayVars
    <2>4. DaemonTypes'
      BY <1>1, KeptTypes DEF Launch, daemonVars
    <2> QED
      BY <2>1, <2>2, <2>3, <2>4
  <1>2. CASE SecondStart
    <2>1. ChannelTypes'
      BY <1>2, SeqFacts DEF SecondStart, ChannelTypes
    <2>2. DaemonTypes' /\ TaskTypes' /\ ShownTypes'
      BY <1>2, KeptTypes
        DEF SecondStart, daemonVars, callVars, streamVars, trayVars, viewVars
    <2> QED
      BY <2>1, <2>2
  <1>3. CASE Quit
    <2>1. TaskTypes'
      BY <1>3, Ranges DEF Quit, TaskTypes
    <2>2. ChannelTypes'
      BY <1>3, SeqFacts DEF Quit, ChannelTypes
    <2>3. ShownTypes'
      BY <1>3, Ranges DEF Quit, ShownTypes
    <2>4. DaemonTypes'
      BY <1>3 DEF Quit, DaemonTypes
    <2> QED
      BY <2>1, <2>2, <2>3, <2>4
  <1>4. CASE Connect
    <2>1. TaskTypes'
      BY <1>4 DEF Connect, TaskTypes, callVars, streamVars
    <2>2. ChannelTypes'
      BY <1>4, Ranges, EventTypes DEF Connect
    <2>3. DaemonTypes' /\ ShownTypes'
      BY <1>4, KeptTypes DEF Connect, daemonVars, trayVars, viewVars
    <2> QED
      BY <2>1, <2>2, <2>3
  <1>25. CASE FillCache
    <2>1. Values \subseteq Cached
      BY DEF Values, Cached
    <2>2. TaskTypes'
      BY <1>25, <2>1
        DEF FillCache, DaemonTypes, TaskTypes, callVars, streamVars
    <2>3. DaemonTypes' /\ ChannelTypes' /\ ShownTypes'
      BY <1>25, KeptTypes DEF FillCache, daemonVars, trayVars, viewVars
    <2> QED
      BY <2>2, <2>3
  <1>5. CASE ReadCapabilities
    <2>1. [Unread EXCEPT !.caps = TRUE] \in Snapshots
      BY DEF Snapshots, Unread
    <2>2. DaemonTypes'
      BY <1>5 DEF ReadCapabilities, DaemonTypes, daemonVars
    <2>3. TaskTypes'
      BY <1>5, <2>1
        DEF ReadCapabilities, TaskTypes, AfterRefresh, callVars, streamVars
    <2>4. ChannelTypes'
      BY <1>5, Ranges, EventTypes DEF ReadCapabilities
    <2>5. ShownTypes'
      BY <1>5, KeptTypes DEF ReadCapabilities, trayVars, viewVars
    <2> QED
      BY <2>2, <2>3, <2>4, <2>5
  <1>6. CASE ReadProfile
    <2>1. [snap EXCEPT !.profile = cache.profile] \in Snapshots
      BY DEF TaskTypes, Cached, Snapshots
    <2>2. TaskTypes'
      BY <1>6, <2>1 DEF ReadProfile, TaskTypes, callVars, streamVars
    <2>3. DaemonTypes' /\ ChannelTypes' /\ ShownTypes'
      BY <1>6, KeptTypes DEF ReadProfile, daemonVars, trayVars, viewVars
    <2> QED
      BY <2>2, <2>3
  <1>7. CASE ReadFnLock
    <2>1. [snap EXCEPT !.fn_lock = cache.fn_lock] \in Snapshots
      BY DEF TaskTypes, Cached, Snapshots
    <2>2. TaskTypes'
      BY <1>7, Ranges
        DEF ReadFnLock, TaskTypes, AfterRefresh, callVars, streamVars
    <2>3. ChannelTypes'
      BY <1>7, Ranges, EventTypes, <2>1 DEF ReadFnLock
    <2>4. DaemonTypes' /\ ShownTypes'
      BY <1>7, KeptTypes DEF ReadFnLock, daemonVars, trayVars, viewVars
    <2> QED
      BY <2>2, <2>3, <2>4
  <1>8. CASE Subscribe
    <2>1. TaskTypes'
      BY <1>8 DEF Subscribe, TaskTypes, callVars
    <2>2. DaemonTypes' /\ ChannelTypes' /\ ShownTypes'
      BY <1>8, KeptTypes DEF Subscribe, daemonVars, trayVars, viewVars
    <2> QED
      BY <2>1, <2>2
  <1>9. CASE CallReturns
    <2>1. TaskTypes'
      BY <1>9, Ranges DEF CallReturns, TaskTypes, streamVars
    <2>2. ChannelTypes'
      BY <1>9, Ranges, EventTypes DEF CallReturns
    <2>3. DaemonTypes' /\ ShownTypes'
      BY <1>9, KeptTypes DEF CallReturns, daemonVars, trayVars, viewVars
    <2> QED
      BY <2>1, <2>2, <2>3
  <1>10. CASE TakeRequest
    <2>1. Head(requests) \in Request /\ Tail(requests) \in Seq(Request)
      BY <1>10 DEF TakeRequest, ChannelTypes
    <2>2. TaskTypes'
      BY <1>10, <2>1 DEF TakeRequest, TaskTypes, streamVars
    <2>3. ChannelTypes'
      BY <1>10, <2>1 DEF TakeRequest, ChannelTypes
    <2>4. DaemonTypes' /\ ShownTypes'
      BY <1>10, KeptTypes DEF TakeRequest, daemonVars, trayVars, viewVars
    <2> QED
      BY <2>2, <2>3, <2>4
  <1>11. CASE ReceiveSignal
    <2>1. TaskTypes'
      BY <1>11 DEF ReceiveSignal, TaskTypes, callVars
    <2>2. DaemonTypes' /\ ChannelTypes' /\ ShownTypes'
      BY <1>11, KeptTypes DEF ReceiveSignal, daemonVars, trayVars, viewVars
    <2> QED
      BY <2>1, <2>2
  <1>12. CASE RegisterTray
    <2>1. ShownTypes'
      BY <1>12 DEF RegisterTray, ShownTypes, viewVars
    <2>2. DaemonTypes' /\ TaskTypes' /\ ChannelTypes'
      BY <1>12, KeptTypes DEF RegisterTray, daemonVars, callVars, streamVars
    <2> QED
      BY <2>1, <2>2
  <1>13. CASE Pump
    <2>1. Head(events) \in Event /\ Tail(events) \in Seq(Event)
      BY <1>13 DEF Pump, ChannelTypes
    <2>2. ChannelTypes'
      BY <1>13, <2>1, SeqFacts DEF Pump, ChannelTypes
    <2>3. ShownTypes'
      BY <1>13, <2>1, SnapshotState DEF Pump, ShownTypes, viewVars
    <2>4. DaemonTypes' /\ TaskTypes'
      BY <1>13, KeptTypes DEF Pump, daemonVars, callVars, streamVars
    <2> QED
      BY <2>2, <2>3, <2>4
  <1>14. CASE RunPosted
    <2>1. Head(posted) \in Event \cup {Show}
      BY <1>14 DEF RunPosted, ChannelTypes
    <2>2. ChannelTypes'
      BY <1>14 DEF RunPosted, ChannelTypes
    <2>3. ShownTypes'
      BY <1>14, <2>1, ShownType DEF RunPosted, ShownTypes, trayVars
    <2>4. DaemonTypes' /\ TaskTypes'
      BY <1>14, KeptTypes DEF RunPosted, daemonVars, callVars, streamVars
    <2> QED
      BY <2>2, <2>3, <2>4
  <1>15. CASE ClickWindow
    BY <1>15, AskTypes DEF ClickWindow, Request, ShownTypes, Snapshots
  <1>16. CASE ClickTray
    BY <1>16, AskTypes DEF ClickTray, Request, ShownTypes, Snapshots
  <1>17. CASE RefuseCall
    <2>1. TaskTypes'
      BY <1>17 DEF RefuseCall, TaskTypes, streamVars
    <2>2. DaemonTypes' /\ ChannelTypes' /\ ShownTypes'
      BY <1>17, KeptTypes DEF RefuseCall, daemonVars, trayVars, viewVars
    <2> QED
      BY <2>1, <2>2
  <1>18. CASE ApplyCall
    <2>1. hw' \in Values
      BY <1>18, ApplyType DEF DaemonTypes, TaskTypes
    <2>2. DaemonTypes'
      BY <1>18, <2>1 DEF ApplyCall, DaemonTypes
    <2>3. TaskTypes'
      BY <1>18 DEF ApplyCall, TaskTypes, streamVars
    <2>4. ChannelTypes' /\ ShownTypes'
      BY <1>18, KeptTypes DEF ApplyCall, trayVars, viewVars
    <2> QED
      BY <2>2, <2>3, <2>4
  <1>19. CASE AnnounceCall
    <2>1. /\ signals' \in Nat /\ cache' \in Cached
          /\ unheard' \subseteq Properties
      BY <1>19, SignalType DEF AnnounceCall
    <2>2. TaskTypes' /\ DaemonTypes'
      BY <1>19, <2>1 DEF AnnounceCall, TaskTypes, DaemonTypes
    <2>3. ChannelTypes' /\ ShownTypes'
      BY <1>19, KeptTypes DEF AnnounceCall, trayVars, viewVars
    <2> QED
      BY <2>2, <2>3
  <1>20. CASE ChangeElsewhere
    <2>1. DaemonTypes'
      BY <1>20 DEF ChangeElsewhere, Untold, DaemonTypes, Values, Properties
    <2>2. TaskTypes' /\ ChannelTypes' /\ ShownTypes'
      BY <1>20, KeptTypes
        DEF ChangeElsewhere, callVars, streamVars, trayVars, viewVars
    <2> QED
      BY <2>1, <2>2
  <1>21. CASE Announce
    <2>1. /\ signals' \in Nat /\ cache' \in Cached
          /\ unheard' \subseteq Properties
      BY <1>21, SignalType DEF Announce
    <2>2. DaemonTypes'
      BY <1>21, <2>1 DEF Announce, DaemonTypes
    <2>3. TaskTypes'
      BY <1>21, <2>1 DEF Announce, TaskTypes, callVars
    <2>4. ChannelTypes' /\ ShownTypes'
      BY <1>21, KeptTypes DEF Announce, trayVars, viewVars
    <2> QED
      BY <2>2, <2>3, <2>4
  <1>22. CASE DaemonStops
    <2>1. DaemonTypes'
      BY <1>22 DEF DaemonStops, Untold, DaemonTypes
    <2>2. TaskTypes'
      BY <1>22 DEF DaemonStops, TaskTypes, streamVars
    <2>3. ShownTypes'
      BY <1>22 DEF DaemonStops, ShownTypes, trayVars
    <2>4. ChannelTypes'
      BY <1>22, KeptTypes DEF DaemonStops
    <2> QED
      BY <2>1, <2>2, <2>3, <2>4
  <1>23. CASE DaemonStarts
    <2>1. DaemonTypes'
      BY <1>23 DEF DaemonStarts, DaemonTypes
    <2>2. TaskTypes' /\ ChannelTypes' /\ ShownTypes'
      BY <1>23, KeptTypes
        DEF DaemonStarts, callVars, streamVars, trayVars, viewVars
    <2> QED
      BY <2>1, <2>2
  <1>24. CASE UNCHANGED vars
    BY <1>24, KeptTypes DEF vars
  <1> QED
    BY <1>1, <1>2, <1>3, <1>4, <1>5, <1>6, <1>7, <1>8, <1>9, <1>10, <1>11,
       <1>12, <1>13, <1>14, <1>15, <1>16, <1>17, <1>18, <1>19, <1>20, <1>21,
       <1>22, <1>23, <1>24, <1>25
       DEF Next, BusTask

(***************************************************************************)
(* Every step keeps the daemon's values, the task, the channels, the tray  *)
(* and the window within their types, however long the channels grow       *)
(* (main.rs, bus_task and the pump).                                       *)
(***************************************************************************)
THEOREM TypeCorrect == Spec => []TypeOK
  BY TypeInit, TypeNext, PTL DEF Spec

-----------------------------------------------------------------------------
(* Channels: the newest of the elements of some kinds.                      *)

Silent(c, K) == \A i \in DOMAIN c : c[i].kind \notin K

IsNewest(c, K, e) ==
    \E i \in DOMAIN c :
        /\ c[i] = e /\ e.kind \in K
        /\ \A j \in DOMAIN c : c[j].kind \in K => j <= i

\* An empty channel has nothing of any kind.
LEMMA EmptyIsSilent ==
  \A K, e : Silent(<<>>, K) /\ ~IsNewest(<<>>, K, e)
  BY DEF Silent, IsNewest

\* Appended news are the newest; appended others leave the newest alone.
LEMMA AppendNewest ==
  ASSUME NEW E, NEW c \in Seq(E), NEW d \in E, NEW K
  PROVE  /\ d.kind \in K => IsNewest(Append(c, d), K, d)
         /\ d.kind \notin K
              => /\ Silent(c, K) => Silent(Append(c, d), K)
                 /\ \A e : IsNewest(c, K, e) => IsNewest(Append(c, d), K, e)
  <1> DEFINE a == Append(c, d)
  <1>1. /\ DOMAIN c = 1..Len(c) /\ DOMAIN a = 1..(Len(c) + 1)
        /\ Len(c) \in Nat
        /\ \A i \in 1..Len(c) : a[i] = c[i]
        /\ a[Len(c) + 1] = d
    OBVIOUS
  <1> HIDE DEF a
  <1>2. d.kind \in K => IsNewest(a, K, d)
    BY <1>1 DEF IsNewest
  <1>3. ASSUME d.kind \notin K, Silent(c, K) PROVE Silent(a, K)
    BY <1>1, <1>3 DEF Silent
  <1>4. ASSUME d.kind \notin K, NEW e, IsNewest(c, K, e)
        PROVE  IsNewest(a, K, e)
    BY <1>1, <1>4 DEF IsNewest
  <1> QED
    BY <1>2, <1>3, <1>4 DEF a

\* Without its head a channel keeps its newest, unless the head was that.
LEMMA TailNewest ==
  ASSUME NEW E, NEW c \in Seq(E), c # <<>>, NEW K
  PROVE  /\ Silent(c, K) => Silent(Tail(c), K) /\ Head(c).kind \notin K
         /\ \A e : IsNewest(c, K, e)
              => \/ IsNewest(Tail(c), K, e)
                 \/ /\ Silent(Tail(c), K)
                    /\ Head(c) = e /\ e.kind \in K
  <1> DEFINE t == Tail(c)
  <1>1. /\ DOMAIN c = 1..Len(c) /\ DOMAIN t = 1..(Len(c) - 1)
        /\ Len(c) \in Nat /\ Len(c) > 0
        /\ \A i \in 1..(Len(c) - 1) : t[i] = c[i + 1]
        /\ Head(c) = c[1]
    OBVIOUS
  <1> HIDE DEF t
  <1>2. ASSUME Silent(c, K) PROVE Silent(t, K) /\ Head(c).kind \notin K
    BY <1>1, <1>2 DEF Silent
  <1>3. ASSUME NEW e, IsNewest(c, K, e)
        PROVE  \/ IsNewest(t, K, e)
               \/ Silent(t, K) /\ Head(c) = e /\ e.kind \in K
    <2>1. PICK i \in DOMAIN c :
            /\ c[i] = e /\ e.kind \in K
            /\ \A j \in DOMAIN c : c[j].kind \in K => j <= i
      BY <1>3 DEF IsNewest
    <2>2. CASE i = 1
      <3>1. ASSUME NEW j \in DOMAIN t PROVE t[j].kind \notin K
        <4>1. j + 1 \in DOMAIN c /\ t[j] = c[j + 1] /\ ~(j + 1 <= i)
          BY <1>1, <2>2
        <4> QED
          BY <4>1, <2>1
      <3> QED
        BY <1>1, <2>1, <2>2, <3>1 DEF Silent
    <2>3. CASE i # 1
      <3>1. i - 1 \in DOMAIN t /\ t[i - 1] = e
        BY <1>1, <2>1, <2>3
      <3>2. ASSUME NEW j \in DOMAIN t, t[j].kind \in K PROVE j <= i - 1
        <4>1. j + 1 \in DOMAIN c /\ t[j] = c[j + 1]
          BY <1>1
        <4>2. j + 1 <= i
          BY <4>1, <3>2, <2>1
        <4> QED
          BY <4>2, <1>1
      <3> QED
        BY <2>1, <3>1, <3>2 DEF IsNewest
    <2> QED
      BY <2>2, <2>3
  <1> QED
    BY <1>2, <1>3 DEF t

-----------------------------------------------------------------------------
(* The tray                                                                 *)

\* What is invariant: before the tray is there nothing was posted for it.
TrayInv ==
    /\ tray = "registering" => /\ item = Unread /\ window.state = Unread
                               /\ Silent(posted, {"snapshot"})
    /\ tray = "there" => \/ /\ Silent(posted, {"snapshot"})
                            /\ item = window.state
                         \/ IsNewest(posted, {"snapshot"}, Snapshot(item))

\* Nothing was posted yet.
LEMMA TrayInit == Init => TrayInv
  <1>1. Silent(<<>>, {"snapshot"})
    BY EmptyIsSilent
  <1>2. Hidden.state = Unread
    BY DEF Hidden
  <1> QED
    BY <1>1, <1>2 DEF Init, TrayInv

\* An event is of one kind, and a snapshot is known by its state.
LEMMA EventKinds ==
  ASSUME NEW e \in Event \cup {Show}
  PROVE  /\ e.kind \in {"snapshot", "disconnected", "toast", "show"}
         /\ e.kind = "snapshot"
              => e.state \in Snapshots /\ e = Snapshot(e.state)
         /\ e.kind = "snapshot" => e \in Event
  BY DEF Event, Show, Snapshot, Toast, Disconnected

\* The comparison of the tray misses no difference.
LEMMA SameItemIsEqual ==
  ASSUME NEW s \in Snapshots, NEW t \in Snapshots, SameItem(s, t)
  PROVE  s = t
  BY DEF SameItem, Snapshots

\* What a closure does to the window.
LEMMA ShownIs ==
  ASSUME TypeOK, NEW e \in Event \cup {Show}
  PROVE  /\ e.kind = "snapshot"
              => Shown(e) = [connected |-> TRUE, state |-> e.state]
         /\ e.kind = "disconnected"
              => Shown(e) = [window EXCEPT !.connected = FALSE]
         /\ e.kind \notin {"snapshot", "disconnected"} => Shown(e) = window
         /\ e.kind # "snapshot" => Shown(e).state = window.state
  <1>1. CASE e.kind = "snapshot"
    BY <1>1, Zenon DEF Shown
  <1>2. CASE e.kind = "disconnected"
    <2>1. Shown(e) = [window EXCEPT !.connected = FALSE]
      BY <1>2, Zenon DEF Shown
    <2> QED
      BY <1>2, <2>1 DEF TypeOK, ShownTypes
  <1>3. CASE e.kind \notin {"snapshot", "disconnected"}
    <2>1. Shown(e) = window
      BY <1>3, Zenon DEF Shown
    <2> QED
      BY <1>3, <2>1
  <1> QED
    BY <1>1, <1>2, <1>3

\* Every step keeps the tray ahead of the window, or with it.
LEMMA TrayNext == TypeOK /\ TrayInv /\ [Next]_vars => TrayInv'
  <1> SUFFICES ASSUME TypeOK, TrayInv, [Next]_vars PROVE TrayInv'
    OBVIOUS
  <1> DEFINE E == Event \cup {Show}
             S == {"snapshot"}
  <1>0. posted \in Seq(E) /\ events \in Seq(Event) /\ item \in Snapshots
    BY DEF TypeOK, ChannelTypes, ShownTypes
  <1>1. CASE SecondStart
    <2>1. Show \in E /\ Show.kind \notin S
      BY DEF Show
    <2>2. /\ Silent(posted, S) => Silent(posted', S)
          /\ \A e : IsNewest(posted, S, e) => IsNewest(posted', S, e)
      <3> HIDE DEF E, S
      <3> QED
        BY <1>0, <1>1, <2>1, AppendNewest DEF SecondStart
    <2> QED
      BY <1>1, <2>2 DEF SecondStart, TrayInv, trayVars, viewVars
  <1>2. CASE Quit
    BY <1>2, EmptyIsSilent DEF Quit, TrayInv, Hidden
  <1>3. CASE RegisterTray
    BY <1>3 DEF RegisterTray, TrayInv, viewVars
  <1>4. CASE Pump
    <2> DEFINE d == Head(events)
    <2>1. d \in Event /\ d \in E
      BY <1>0, <1>4 DEF Pump
    <2>2. /\ posted' = Append(posted, d)
          /\ tray # "registering" /\ tray' = tray /\ window' = window
          /\ item' = IF d.kind = "snapshot" /\ tray = "there"
                                          /\ ~SameItem(item, d.state)
                     THEN d.state ELSE item
      BY <1>4 DEF Pump, viewVars
    <2> HIDE DEF d
    <2>3. CASE d.kind = "snapshot" /\ tray = "there"
      <3>1. item' = d.state
        BY <2>1, <2>2, <2>3, <1>0, EventKinds, SameItemIsEqual
      <3>2. IsNewest(posted', S, d)
        BY <1>0, <2>1, <2>2, <2>3, AppendNewest
      <3> QED
        BY <3>1, <3>2, <2>1, <2>2, <2>3, EventKinds DEF TrayInv
    <2>4. CASE d.kind # "snapshot" /\ tray = "there"
      <3>1. /\ Silent(posted, S) => Silent(posted', S)
            /\ \A e : IsNewest(posted, S, e) => IsNewest(posted', S, e)
        <4>1. d.kind \notin S
          BY <2>4
        <4> HIDE DEF E, S
        <4> QED
          BY <1>0, <2>1, <2>2, <4>1, AppendNewest
      <3> QED
        BY <3>1, <2>2, <2>4 DEF TrayInv
    <2> QED
      BY <2>2, <2>3, <2>4 DEF TrayInv
  <1>5. CASE RunPosted
    <2> DEFINE d == Head(posted)
    <2>1. d \in E
      BY <1>0, <1>5 DEF RunPosted
    <2>2. /\ posted # <<>> /\ posted' = Tail(posted)
          /\ window' = Shown(d) /\ tray' = tray /\ item' = item
      BY <1>5 DEF RunPosted, trayVars
    <2>3. /\ Silent(posted, S) => Silent(posted', S) /\ d.kind \notin S
          /\ \A e : IsNewest(posted, S, e)
                => \/ IsNewest(posted', S, e)
                   \/ Silent(posted', S) /\ d = e /\ e.kind \in S
      <3> HIDE DEF E, S
      <3> QED
        BY <1>0, <2>2, TailNewest
    <2> HIDE DEF d
    <2>4. CASE Silent(posted, S)
      BY <2>1, <2>2, <2>3, <2>4, ShownIs DEF TrayInv
    <2>5. CASE tray = "there" /\ IsNewest(posted, S, Snapshot(item))
      <3>1. CASE IsNewest(posted', S, Snapshot(item))
        BY <3>1, <2>2, <2>5 DEF TrayInv
      <3>2. CASE Silent(posted', S) /\ d = Snapshot(item)
        <4>1. d.kind = "snapshot" /\ d.state = item
          BY <3>2 DEF Snapshot
        <4>2. window'.state = item
          BY <4>1, <2>1, <2>2, ShownIs
        <4> QED
          BY <4>2, <3>2, <2>2, <2>5 DEF TrayInv
      <3> QED
        BY <2>3, <2>5, <3>1, <3>2
    <2>6. CASE tray = "no host"
      BY <2>2, <2>6 DEF TrayInv
    <2> QED
      BY <2>4, <2>5, <2>6 DEF TrayInv, TypeOK, ShownTypes
  <1>6. ASSUME UNCHANGED <<tray, item, posted>>, window'.state = window.state
        PROVE  TrayInv'
    BY <1>6 DEF TrayInv
  <1>7. CASE \/ UNCHANGED vars \/ \E t \in BOOLEAN : Launch(t) \/ BusTask
    BY <1>6, <1>7
       DEF vars, Launch, BusTask, Connect, FillCache, ReadCapabilities,
           ReadProfile, ReadFnLock, Subscribe, CallReturns, trayVars,
           viewVars
  <1>8. CASE TakeRequest \/ ReceiveSignal \/ ClickWindow \/ ClickTray
    BY <1>6, <1>8
       DEF TakeRequest, ReceiveSignal, ClickWindow, ClickTray, Ask, trayVars,
           viewVars
  <1>9. CASE \/ RefuseCall \/ ApplyCall \/ AnnounceCall \/ ChangeElsewhere
            \/ Announce \/ DaemonStops \/ DaemonStarts
    BY <1>6, <1>9
       DEF RefuseCall, ApplyCall, AnnounceCall, ChangeElsewhere, Announce,
           DaemonStops, DaemonStarts, trayVars, viewVars
  <1> QED
    BY <1>1, <1>2, <1>3, <1>4, <1>5, <1>7, <1>8, <1>9 DEF Next

(***************************************************************************)
(* The tray shows the newest snapshot that the pump has handled, however   *)
(* long the channels grow, in whatever order snapshots, toasts and losses  *)
(* of the daemon arrive (main.rs, the pump; tray.rs, TrayHandle::update).  *)
(***************************************************************************)
THEOREM TrayIsAhead == Spec => []TrayLeadsWindow
  <1>1. TypeOK /\ TrayInv => TrayLeadsWindow
    BY DEF TypeOK, ChannelTypes, TrayInv, TrayLeadsWindow, Silent, IsNewest,
           Snapshot
  <1> QED
    BY TypeInit, TypeNext, TrayInit, TrayNext, <1>1, PTL DEF Spec

-----------------------------------------------------------------------------
(* The window                                                               *)

News == {"snapshot", "disconnected"}

\* Something is yet to come that makes the bus task read everything again.
Triggered == requests # <<>> \/ task = "calling" \/ signals > 0

\* What the window shows, or is the last to be told, is the last attempt at a
\* snapshot: what the cache holds, or that it failed.
Faithful(s) == \A p \in Properties : s[p] = cache[p]

Right(e) == IF failed THEN e.kind = "disconnected"
                      ELSE e.kind = "snapshot" /\ Faithful(e.state)

ToldBy(c) == \E e \in Event \cup {Show} : IsNewest(c, News, e) /\ Right(e)

Current ==
    \/ ToldBy(events)
    \/ Silent(events, News) /\ ToldBy(posted)
    \/ /\ Silent(events, News) /\ Silent(posted, News)
       /\ window.connected = ~failed
       /\ ~failed => Faithful(window.state)

\* Where the bus task is, and what it therefore has: the first Refresh waits
\* until the subscription has been tried, and a snapshot needs the cache.
TaskInv ==
    /\ task # "ended" => running
    /\ call # "none" => task = "calling"
    /\ ~running => stream = "not yet"
    /\ running /\ stream = "not yet" => requests # <<>>
    /\ stream = "not yet" => task \notin {"select", "calling"}
    /\ task = "subscribe" => stream = "not yet"
    /\ task \in {"readProfile", "readFnLock"} => ~failed
    /\ task \notin {"connect", "refresh", "ended"} /\ ~failed
         => fill = "filled"

\* What the cache has wrong is about to be announced, or never will be.
CacheInv ==
    fill = "filled" =>
      \A p \in Properties \ (owed \cup unheard) :
        cache[p] = hw[p] \/ (call = "announce" /\ req.set = p)

\* What is old in a snapshot or in the window is going to be read again.
FreshInv ==
    stream = "open" /\ ~Triggered =>
        /\ task = "readFnLock" => snap.profile = cache.profile
        /\ task = "select" => Current

WindowInv == TaskInv /\ CacheInv /\ FreshInv

\* A bus task that has ended owes nothing.
LEMMA WindowInit == Init => WindowInv
  BY DEF Init, WindowInv, TaskInv, CacheInv, FreshInv

\* The bus task keeps its books.
LEMMA TaskNext == TypeOK /\ TaskInv /\ [Next]_vars => TaskInv'
  <1> SUFFICES ASSUME TypeOK, TaskInv, [Next]_vars PROVE TaskInv'
    OBVIOUS
  <1> USE DEF TaskInv
  <1>0. requests \in Seq(Request)
    BY DEF TypeOK, ChannelTypes
  <1>1. ASSUME NEW t \in BOOLEAN, Launch(t) PROVE TaskInv'
    BY <1>1 DEF Launch, callVars, streamVars
  <1>2. CASE Quit
    BY <1>2 DEF Quit
  <1>3. CASE Connect
    BY <1>3 DEF Connect, callVars, streamVars
  <1>4. CASE FillCache
    BY <1>4 DEF FillCache, callVars, streamVars
  <1>5. CASE ReadCapabilities
    BY <1>5 DEF ReadCapabilities, AfterRefresh, callVars, streamVars
  <1>6. CASE ReadProfile
    BY <1>6 DEF ReadProfile, callVars, streamVars
  <1>7. CASE ReadFnLock
    BY <1>7 DEF ReadFnLock, AfterRefresh, callVars, streamVars
  <1>8. CASE Subscribe
    BY <1>8 DEF Subscribe, callVars
  <1>9. CASE TakeRequest
    BY <1>9 DEF TakeRequest, streamVars
  <1>10. CASE CallReturns
    BY <1>10 DEF CallReturns, streamVars
  <1>11. CASE ReceiveSignal
    BY <1>11 DEF ReceiveSignal, callVars
  <1>12. CASE ClickWindow \/ ClickTray
    <2>1. PICK r \in Request : Ask(r)
      BY <1>12 DEF ClickWindow, ClickTray, Request
    <2>2. Append(requests, r) # <<>>
      BY <1>0, <2>1, AppendIsMore
    <2> QED
      BY <2>1, <2>2 DEF Ask, callVars, streamVars
  <1>13. CASE RefuseCall \/ ApplyCall
    BY <1>13 DEF RefuseCall, ApplyCall, streamVars
  <1>14. CASE AnnounceCall
    BY <1>14 DEF AnnounceCall
  <1>15. CASE Announce
    BY <1>15 DEF Announce, callVars
  <1>16. CASE DaemonStops
    BY <1>16 DEF DaemonStops, streamVars
  <1>17. ASSUME UNCHANGED <<running, task, callVars, snapVars, streamVars,
                            requests>>
         PROVE  TaskInv'
    BY <1>17 DEF callVars, streamVars
  <1>18. CASE \/ UNCHANGED vars \/ ChangeElsewhere \/ DaemonStarts
             \/ SecondStart \/ RegisterTray \/ Pump \/ RunPosted
    BY <1>17, <1>18
       DEF vars, ChangeElsewhere, DaemonStarts, SecondStart, RegisterTray,
           Pump, RunPosted
  <1> QED
    BY <1>1, <1>2, <1>3, <1>4, <1>5, <1>6, <1>7, <1>8, <1>9, <1>10, <1>11,
       <1>12, <1>13, <1>14, <1>15, <1>16, <1>18 DEF Next, BusTask

\* A signal corrects the cache in one property, and touches no other.
LEMMA SignalCorrects ==
  ASSUME TypeOK, NEW p, Signalled(p), fill = "filled"
  PROVE  \A q \in Properties :
           /\ cache'[q] = IF q = p THEN hw[q] ELSE cache[q]
           /\ q # p => (q \in unheard' <=> q \in unheard)
  BY DEF TypeOK, TaskTypes, Cached, Signalled, Properties

\* Only what is, or was to be, announced differs from the cache.
LEMMA CacheNext == TypeOK /\ TaskInv /\ CacheInv /\ [Next]_vars => CacheInv'
  <1> SUFFICES ASSUME TypeOK, TaskInv, CacheInv, [Next]_vars PROVE CacheInv'
    OBVIOUS
  <1> USE DEF CacheInv
  <1>1. CASE Quit
    BY <1>1 DEF Quit
  <1>2. CASE FillCache
    BY <1>2 DEF FillCache, daemonVars
  <1>3. CASE TakeRequest
    <2>1. call # "announce"
      BY <1>3 DEF TakeRequest, TaskInv
    <2> QED
      BY <1>3, <2>1 DEF TakeRequest, daemonVars
  <1>4. CASE CallReturns \/ RefuseCall
    <2>1. call # "announce" /\ UNCHANGED <<daemonVars, snapVars>>
      BY <1>4 DEF CallReturns, RefuseCall
    <2> QED
      BY <2>1 DEF daemonVars
  <1>5. CASE ApplyCall
    <2>1. \A p \in Properties : p = req.set \/ hw'[p] = hw[p]
      BY <1>5 DEF ApplyCall, TypeOK, DaemonTypes, Values, Properties
    <2> QED
      BY <1>5, <2>1 DEF ApplyCall
  <1>6. CASE AnnounceCall
    <2>1. UNCHANGED <<hw, owed, fill>> /\ Signalled(req.set)
      BY <1>6 DEF AnnounceCall
    <2> QED
      BY <2>1, SignalCorrects
  <1>7. CASE Announce
    <2>1. PICK p \in owed : owed' = owed \ {p} /\ Signalled(p)
      BY <1>7 DEF Announce
    <2>2. UNCHANGED <<hw, fill, call, req>>
      BY <1>7 DEF Announce, callVars
    <2> QED
      BY <2>1, <2>2, SignalCorrects
  <1>8. CASE ChangeElsewhere
    BY <1>8 DEF ChangeElsewhere, Untold, callVars
  <1>9. CASE DaemonStops
    BY <1>9 DEF DaemonStops, Untold
  <1>10. ASSUME UNCHANGED <<hw, owed, unheard, fill, cache, callVars>>
         PROVE  CacheInv'
    BY <1>10 DEF callVars
  <1>11. CASE \/ \E t \in BOOLEAN : Launch(t)
             \/ Connect \/ ReadCapabilities \/ ReadProfile \/ ReadFnLock
             \/ Subscribe \/ ReceiveSignal
    BY <1>10, <1>11
       DEF Launch, Connect, ReadCapabilities, ReadProfile, ReadFnLock,
           Subscribe, ReceiveSignal, daemonVars
  <1>12. CASE \/ UNCHANGED vars \/ SecondStart \/ RegisterTray \/ Pump
             \/ RunPosted \/ ClickWindow \/ ClickTray \/ DaemonStarts
    BY <1>10, <1>12
       DEF vars, SecondStart, RegisterTray, Pump, RunPosted, ClickWindow,
           ClickTray, Ask, DaemonStarts, daemonVars
  <1> QED
    BY <1>1, <1>2, <1>3, <1>4, <1>5, <1>6, <1>7, <1>8, <1>9, <1>11, <1>12
       DEF Next, BusTask

\* A step of the pump or of the window passes the news on.
LEMMA CurrentPassesOn ==
  ASSUME TypeOK, Current, UNCHANGED <<cache, failed>>,
         Pump \/ RunPosted \/ SecondStart
  PROVE  Current'
  <1> DEFINE E == Event \cup {Show}
  <1>0. posted \in Seq(E) /\ events \in Seq(Event) /\ Event \subseteq E
    BY DEF TypeOK, ChannelTypes
  <1>1. /\ \A s : Faithful(s) => Faithful(s)'
        /\ \A e : Right(e) => Right(e)'
        /\ \A e : Right(e) => e.kind \in News
    BY DEF Faithful, Right, News
  <1>2. CASE SecondStart
    <2>1. /\ posted' = Append(posted, Show)
          /\ Show \in E /\ Show.kind \notin News
          /\ events' = events /\ window' = window
      BY <1>2 DEF SecondStart, viewVars, Show, News
    <2>2. /\ Silent(posted, News) => Silent(posted', News)
          /\ \A e : IsNewest(posted, News, e) => IsNewest(posted', News, e)
      <3> HIDE DEF E
      <3> QED
        BY <1>0, <2>1, AppendNewest
    <2>3. /\ ToldBy(posted) => ToldBy(posted)'
          /\ ToldBy(events) => ToldBy(events)'
      BY <1>1, <2>1, <2>2 DEF ToldBy
    <2> QED
      BY <1>1, <2>1, <2>2, <2>3 DEF Current
  <1>3. CASE Pump
    <2> DEFINE d == Head(events)
    <2>1. /\ events # <<>> /\ d \in Event /\ d \in E
          /\ events' = Tail(events) /\ posted' = Append(posted, d)
          /\ window' = window
      BY <1>0, <1>3 DEF Pump, viewVars
    <2>2. /\ Silent(events, News)
               => Silent(events', News) /\ d.kind \notin News
          /\ \A e : IsNewest(events, News, e)
                => \/ IsNewest(events', News, e)
                   \/ Silent(events', News) /\ d = e /\ e.kind \in News
      <3> HIDE DEF E
      <3> QED
        BY <1>0, <2>1, TailNewest
    <2>3. /\ d.kind \in News => IsNewest(posted', News, d)
          /\ d.kind \notin News
              => /\ Silent(posted, News) => Silent(posted', News)
                 /\ \A e : IsNewest(posted, News, e)
                             => IsNewest(posted', News, e)
      <3> HIDE DEF E, d
      <3> QED
        BY <1>0, <2>1, AppendNewest
    <2> HIDE DEF d
    <2>4. CASE ToldBy(events)
      <3>1. PICK e \in E : IsNewest(events, News, e) /\ Right(e)
        BY <2>4 DEF ToldBy
      <3>2. CASE IsNewest(events', News, e)
        BY <1>1, <3>1, <3>2 DEF Current, ToldBy
      <3>3. CASE Silent(events', News) /\ d = e /\ e.kind \in News
        BY <1>1, <2>3, <3>1, <3>3 DEF Current, ToldBy
      <3> QED
        BY <2>2, <3>1, <3>2, <3>3
    <2>5. CASE Silent(events, News) /\ ToldBy(posted)
      BY <1>1, <2>2, <2>3, <2>5 DEF Current, ToldBy
    <2>6. CASE /\ Silent(events, News) /\ Silent(posted, News)
               /\ window.connected = ~failed
               /\ ~failed => Faithful(window.state)
      BY <1>1, <2>1, <2>2, <2>3, <2>6 DEF Current
    <2> QED
      BY <2>4, <2>5, <2>6 DEF Current
  <1>4. CASE RunPosted
    <2> DEFINE d == Head(posted)
    <2>1. /\ posted # <<>> /\ d \in E
          /\ posted' = Tail(posted) /\ events' = events
          /\ window' = Shown(d)
      BY <1>0, <1>4 DEF RunPosted
    <2>2. /\ Silent(posted, News)
               => Silent(posted', News) /\ d.kind \notin News
          /\ \A e : IsNewest(posted, News, e)
                => \/ IsNewest(posted', News, e)
                   \/ Silent(posted', News) /\ d = e /\ e.kind \in News
      <3> HIDE DEF E
      <3> QED
        BY <1>0, <2>1, TailNewest
    <2> HIDE DEF d
    <2>3. ToldBy(events) => ToldBy(events)'
      BY <1>1, <2>1 DEF ToldBy
    <2>4. CASE ToldBy(events)
      BY <2>3, <2>4 DEF Current
    <2>5. CASE Silent(events, News) /\ ToldBy(posted)
      <3>1. PICK e \in E : IsNewest(posted, News, e) /\ Right(e)
        BY <2>5 DEF ToldBy
      <3>2. CASE IsNewest(posted', News, e)
        BY <1>1, <2>1, <2>5, <3>1, <3>2 DEF Current, ToldBy
      <3>3. CASE Silent(posted', News) /\ d = e
        <4>1. CASE failed
          <5>1. window' = [window EXCEPT !.connected = FALSE]
            BY <2>1, <3>1, <3>3, <4>1, ShownIs DEF Right
          <5>2. window'.connected = ~failed' /\ failed'
            BY <4>1, <5>1 DEF TypeOK, TaskTypes, ShownTypes
          <5> QED
            BY <2>1, <2>5, <3>3, <5>2 DEF Current
        <4>2. CASE ~failed
          <5>1. /\ window' = [connected |-> TRUE, state |-> e.state]
                /\ Faithful(e.state)
            BY <2>1, <3>1, <3>3, <4>2, ShownIs DEF Right
          <5>2. window'.connected = ~failed' /\ Faithful(window.state)'
            BY <1>1, <4>2, <5>1 DEF TypeOK, TaskTypes
          <5> QED
            BY <2>1, <2>5, <3>3, <5>2 DEF Current
        <4> QED
          BY <4>1, <4>2
      <3> QED
        BY <2>2, <3>1, <3>2, <3>3
    <2>6. CASE /\ Silent(events, News) /\ Silent(posted, News)
               /\ window.connected = ~failed
               /\ ~failed => Faithful(window.state)
      <3>1. window' = window
        BY <2>1, <2>2, <2>6, ShownIs DEF News
      <3> QED
        BY <1>1, <2>1, <2>2, <2>6, <3>1 DEF Current
    <2> QED
      BY <2>4, <2>5, <2>6 DEF Current
  <1> QED
    BY <1>2, <1>3, <1>4

\* A step that leaves alone what the window is going to show, and no cause
\* of a new snapshot less, leaves it as fresh.
LEMMA FreshKept ==
  ASSUME FreshInv, Triggered => Triggered',
         UNCHANGED <<cache, failed, task, snap, stream, events, posted,
                     window>>
  PROVE  FreshInv'
  <1>1. Current => Current'
    BY DEF Current, ToldBy, Right, Faithful
  <1> QED
    BY <1>1 DEF FreshInv

\* A snapshot that ends is current, or it is going to be read again.
LEMMA ReadingIsFresh ==
  ASSUME TypeOK, WindowInv, ReadFnLock
  PROVE  FreshInv'
  <1> SUFFICES ASSUME stream = "open", ~Triggered PROVE Current'
    BY DEF ReadFnLock, AfterRefresh, FreshInv, Triggered, callVars, streamVars
  <1> DEFINE s == [snap EXCEPT !.fn_lock = cache.fn_lock]
  <1>1. ~failed /\ snap.profile = cache.profile
    BY DEF WindowInv, TaskInv, FreshInv, ReadFnLock
  <1>2. events \in Seq(Event) /\ s \in Snapshots
    BY DEF TypeOK, ChannelTypes, TaskTypes, Cached, Snapshots
  <1>3. s.profile = cache.profile /\ s.fn_lock = cache.fn_lock
    BY <1>1 DEF TypeOK, TaskTypes, Snapshots
  <1>4. /\ events' = Append(events, Snapshot(s))
        /\ UNCHANGED <<cache, failed>>
    BY DEF ReadFnLock
  <1> HIDE DEF s
  <1>5. /\ Snapshot(s) \in Event
        /\ Snapshot(s).kind = "snapshot" /\ Snapshot(s).state = s
    BY <1>2 DEF Event, Snapshot
  <1>6. IsNewest(events', News, Snapshot(s))
    BY <1>2, <1>4, <1>5, AppendNewest DEF News
  <1>7. \A p \in Properties : s[p] = cache'[p]
    BY <1>3, <1>4 DEF Properties
  <1> QED
    BY <1>1, <1>4, <1>5, <1>6, <1>7 DEF Current, ToldBy, Right, Faithful

\* So is the news that there is no snapshot.
LEMMA FailureIsNews ==
  ASSUME TypeOK, ReadCapabilities
  PROVE  FreshInv'
  <1>1. CASE ~failed'
    BY <1>1 DEF ReadCapabilities, FreshInv
  <1>2. CASE failed'
    <2>1. events' = Append(events, Disconnected) /\ events \in Seq(Event)
      BY <1>2 DEF ReadCapabilities, TypeOK, ChannelTypes
    <2>2. Disconnected \in Event /\ Disconnected.kind = "disconnected"
      BY Ranges DEF Disconnected
    <2>3. IsNewest(events', News, Disconnected)
      BY <2>1, <2>2, AppendNewest DEF News
    <2>4. Current'
      BY <1>2, <2>2, <2>3 DEF Current, ToldBy, Right
    <2>5. task' # "readFnLock"
      BY <1>2 DEF ReadCapabilities, AfterRefresh
    <2> QED
      BY <2>4, <2>5 DEF FreshInv
  <1> QED
    BY <1>1, <1>2

\* No step makes the window stale without a cause to read everything again.
LEMMA FreshNext == TypeOK /\ WindowInv /\ [Next]_vars => FreshInv'
  <1> SUFFICES ASSUME TypeOK, WindowInv, [Next]_vars PROVE FreshInv'
    OBVIOUS
  <1>0. FreshInv /\ TaskInv
    BY DEF WindowInv
  <1>1. ASSUME task' \notin {"readFnLock", "select"} PROVE FreshInv'
    BY <1>1 DEF FreshInv
  <1>2. CASE \/ \E t \in BOOLEAN : Launch(t)
            \/ Quit \/ Connect \/ FillCache \/ TakeRequest \/ ReceiveSignal
            \/ CallReturns
    BY <1>1, <1>2
       DEF Launch, Quit, Connect, FillCache, TakeRequest, ReceiveSignal,
           CallReturns
  <1>3. CASE ReadCapabilities
    BY <1>3, FailureIsNews
  <1>4. CASE ReadProfile
    <2>1. snap'.profile = cache'.profile /\ task' = "readFnLock"
      BY <1>4 DEF ReadProfile, TypeOK, TaskTypes, Snapshots
    <2> QED
      BY <2>1 DEF FreshInv
  <1>5. CASE ReadFnLock
    BY <1>5, ReadingIsFresh
  <1>6. CASE Subscribe
    BY <1>6, <1>0 DEF Subscribe, TaskInv, FreshInv, Triggered
  <1>7. CASE SecondStart \/ Pump \/ RunPosted
    <2>1. UNCHANGED <<task, snapVars, streamVars, requests>>
      BY <1>7 DEF SecondStart, Pump, RunPosted
    <2>2. Current => Current'
      BY <1>7, <2>1, CurrentPassesOn
    <2> QED
      BY <1>0, <2>1, <2>2 DEF FreshInv, Triggered, streamVars
  <1>8. CASE UNCHANGED vars \/ RegisterTray \/ DaemonStarts
    BY <1>0, <1>8, FreshKept
       DEF vars, RegisterTray, DaemonStarts, Triggered, streamVars, viewVars
  <1>9. CASE ChangeElsewhere
    BY <1>0, <1>9, FreshKept
       DEF ChangeElsewhere, Triggered, streamVars, viewVars
  <1>10. CASE DaemonStops
    BY <1>0, <1>10, FreshKept DEF DaemonStops, Triggered, streamVars
  <1>11. CASE ClickWindow \/ ClickTray
    <2>1. PICK r \in Request : Ask(r)
      BY <1>11 DEF ClickWindow, ClickTray, Request
    <2>2. Append(requests, r) # <<>>
      BY AppendIsMore DEF TypeOK, ChannelTypes
    <2> QED
      BY <2>1, <2>2 DEF Ask, FreshInv, Triggered
  <1>12. CASE RefuseCall \/ ApplyCall \/ AnnounceCall
    <2>1. task' = "calling"
      BY <1>12, <1>0 DEF RefuseCall, ApplyCall, AnnounceCall, TaskInv
    <2> QED
      BY <1>1, <2>1
  <1>13. CASE Announce
    <2>1. stream = "open" => signals' > 0
      <3>1. signals \in Nat /\ MaxSignals \in Nat \ {0}
        BY DashboardAssumption DEF TypeOK, TaskTypes
      <3>2. PICK p \in owed : Signalled(p)
        BY <1>13 DEF Announce
      <3> QED
        BY <3>1, <3>2 DEF Signalled
    <2> QED
      BY <1>13, <2>1 DEF Announce, FreshInv, Triggered
  <1> QED
    BY <1>2, <1>3, <1>4, <1>5, <1>6, <1>7, <1>8, <1>9, <1>10, <1>11, <1>12,
       <1>13 DEF Next, BusTask

(***************************************************************************)
(* A window with nothing more to come shows the last attempt at a          *)
(* snapshot, and in it what the machine has, but for the properties that   *)
(* have changed unannounced since the cache was filled: for every set of   *)
(* profiles and every length of the channels, in every order of property   *)
(* reads, changes, announcements, calls and closures (main.rs, bus_task;   *)
(* bus.rs, connect and snapshot).                                          *)
(***************************************************************************)
THEOREM WindowIsFresh == Spec => []WindowIsCurrent
  <1>1. TypeOK /\ WindowInv /\ [Next]_vars => WindowInv'
    BY TaskNext, CacheNext, FreshNext DEF WindowInv
  <1>2. WindowInv => WindowIsCurrent
    <2> SUFFICES ASSUME WindowInv, Settled, stream = "open"
                 PROVE  /\ window.connected = ~failed
                        /\ window.connected =>
                             \A p \in Properties \ unheard :
                               window.state[p] = hw[p]
      BY DEF WindowIsCurrent
    <2>1. Current /\ events = <<>> /\ posted = <<>> /\ owed = {}
      <3>1. ~Triggered
        BY DEF Settled, Triggered
      <3> QED
        BY <3>1 DEF Settled, WindowInv, FreshInv
    <2>2. ~ToldBy(events) /\ ~ToldBy(posted)
      BY <2>1, EmptyIsSilent DEF ToldBy
    <2>3. /\ window.connected = ~failed
          /\ ~failed => Faithful(window.state)
      BY <2>1, <2>2 DEF Current
    <2>4. call = "none" /\ (~failed => fill = "filled")
      BY DEF WindowInv, TaskInv, Settled
    <2> QED
      BY <2>1, <2>3, <2>4 DEF WindowInv, CacheInv, Faithful
  <1> QED
    BY TypeInit, TypeNext, WindowInit, <1>1, <1>2, PTL DEF Spec

-----------------------------------------------------------------------------
(* What can be clicked                                                      *)

\* What is invariant: no snapshot was read for it to show.
HeardInv == TaskInv /\ ClicksAreHeard

\* The property speaks of the kinds of the events.
LEMMA HeardKinds ==
  ClicksAreHeard <=>
    (task \in {"connect", "ended"} =>
        /\ ~window.connected /\ item = Unread
        /\ Silent(events, {"snapshot"}) /\ Silent(posted, {"snapshot"})
        /\ \A i \in DOMAIN requests : requests[i] = Refresh)
  BY DEF ClicksAreHeard, Silent

\* A process that does not run has nothing to click.
LEMMA HeardInit == Init => HeardInv
  <1> SUFFICES ASSUME Init PROVE HeardInv
    OBVIOUS
  <1>1. TaskInv
    BY DEF Init, TaskInv
  <1>2. /\ events = <<>> /\ posted = <<>> /\ requests = <<>>
        /\ window = Hidden /\ item = Unread
    BY DEF Init
  <1>3. \A i \in DOMAIN requests : requests[i] = Refresh
    BY <1>2
  <1> QED
    BY <1>1, <1>2, <1>3, EmptyIsSilent, HeardKinds DEF HeardInv, Hidden

\* No step but the first snapshot brings anything to click.
LEMMA HeardNext == TypeOK /\ HeardInv /\ [Next]_vars => ClicksAreHeard'
  <1> SUFFICES ASSUME TypeOK, HeardInv, [Next]_vars,
                      task' \in {"connect", "ended"}
               PROVE  /\ ~window'.connected /\ item' = Unread
                      /\ Silent(events', {"snapshot"})
                      /\ Silent(posted', {"snapshot"})
                      /\ \A i \in DOMAIN requests' : requests'[i] = Refresh
    BY DEF ClicksAreHeard, Silent
  <1> DEFINE E == Event \cup {Show}
             S == {"snapshot"}
             Goal == /\ ~window'.connected /\ item' = Unread
                     /\ Silent(events', S) /\ Silent(posted', S)
                     /\ \A i \in DOMAIN requests' : requests'[i] = Refresh
  <1>0. /\ posted \in Seq(E) /\ events \in Seq(Event) /\ Event \subseteq E
        /\ window \in [connected : BOOLEAN, state : Snapshots]
    BY DEF TypeOK, ChannelTypes, ShownTypes
  <1>1. ASSUME task \in {"connect", "ended"}
        PROVE  /\ ~window.connected /\ item = Unread
               /\ Silent(events, S) /\ Silent(posted, S)
               /\ \A i \in DOMAIN requests : requests[i] = Refresh
    BY <1>1, HeardKinds DEF HeardInv
  <1>2. ASSUME NEW t \in BOOLEAN, Launch(t) PROVE Goal
    <2>1. task = "ended"
      BY <1>2 DEF Launch, HeardInv, TaskInv
    <2> QED
      BY <1>1, <1>2, <2>1 DEF Launch, trayVars
  <1>3. CASE SecondStart
    <2>1. Show \in E /\ Show.kind \notin S
      BY DEF Show
    <2>2. UNCHANGED <<task, events, requests, item, window>>
      BY <1>3 DEF SecondStart, trayVars, viewVars
    <2>3. Silent(posted, S) => Silent(posted', S)
      <3> HIDE DEF E, S
      <3> QED
        BY <1>0, <1>3, <2>1, AppendNewest DEF SecondStart
    <2> QED
      BY <1>1, <2>2, <2>3
  <1>4. CASE Quit
    <2>1. /\ events' = <<>> /\ posted' = <<>> /\ requests' = <<>>
          /\ window' = Hidden /\ item' = Unread
      BY <1>4 DEF Quit
    <2>2. \A i \in DOMAIN requests' : requests'[i] = Refresh
      BY <2>1
    <2> QED
      BY <2>1, <2>2, EmptyIsSilent DEF Hidden
  <1>5. CASE Connect
    <2>1. task = "connect" /\ events' = Append(events, Disconnected)
      BY <1>5 DEF Connect
    <2>2. Disconnected \in Event /\ Disconnected.kind \notin S
      BY Ranges DEF Disconnected
    <2>3. Silent(events, S) => Silent(events', S)
      <3> HIDE DEF S
      <3> QED
        BY <1>0, <2>1, <2>2, AppendNewest
    <2> QED
      BY <1>1, <1>5, <2>1, <2>3 DEF Connect, trayVars, viewVars
  <1>6. CASE Pump
    <2> DEFINE d == Head(events)
    <2>1. /\ task \in {"connect", "ended"} /\ events # <<>>
          /\ d \in Event /\ d \in E
          /\ events' = Tail(events) /\ posted' = Append(posted, d)
          /\ UNCHANGED <<window, requests>>
          /\ d.kind \notin S => item' = item
      BY <1>0, <1>6 DEF Pump, viewVars
    <2> HIDE DEF d
    <2>2. Silent(events', S) /\ d.kind \notin S
      <3>1. Head(events) = d
        BY DEF d
      <3> HIDE DEF S
      <3> QED
        BY <1>0, <1>1, <2>1, <3>1, TailNewest
    <2>3. Silent(posted', S)
      <3> HIDE DEF E, S
      <3> QED
        BY <1>0, <1>1, <2>1, <2>2, AppendNewest
    <2> QED
      BY <1>1, <2>1, <2>2, <2>3
  <1>7. CASE RunPosted
    <2> DEFINE d == Head(posted)
    <2>1. /\ task \in {"connect", "ended"} /\ posted # <<>> /\ d \in E
          /\ posted' = Tail(posted) /\ window' = Shown(d)
          /\ UNCHANGED <<item, events, requests>>
      BY <1>0, <1>7 DEF RunPosted, trayVars
    <2>2. Silent(posted', S) /\ d.kind \notin S
      <3> HIDE DEF E, S
      <3> QED
        BY <1>0, <1>1, <2>1, TailNewest
    <2> HIDE DEF d
    <2>3. ~window'.connected
      <3>1. window' = window \/ window' = [window EXCEPT !.connected = FALSE]
        BY <2>1, <2>2, ShownIs
      <3> QED
        BY <1>0, <1>1, <2>1, <3>1
    <2> QED
      BY <1>1, <2>1, <2>2, <2>3
  <1>8. ASSUME task \in {"connect", "ended"},
               UNCHANGED <<window, item, events, posted, requests>>
        PROVE  Goal
    BY <1>1, <1>8
  <1>9. CASE ClickWindow \/ ClickTray
    <2>1. task \in {"connect", "ended"}
      BY <1>9 DEF ClickWindow, ClickTray, Ask
    <2>2. ~ClickWindow
      BY <1>1, <2>1 DEF ClickWindow
    <2>3. ~ClickTray
      BY <1>1, <2>1 DEF ClickTray, Unread
    <2> QED
      BY <1>9, <2>2, <2>3
  <1>10. CASE \/ FillCache \/ ReadCapabilities \/ ReadProfile \/ ReadFnLock
             \/ Subscribe \/ CallReturns \/ TakeRequest \/ ReceiveSignal
    BY <1>10
       DEF FillCache, ReadCapabilities, ReadProfile, ReadFnLock, Subscribe,
                 CallReturns, TakeRequest, ReceiveSignal, AfterRefresh
  <1>11. CASE \/ RegisterTray \/ RefuseCall \/ ApplyCall \/ AnnounceCall
             \/ ChangeElsewhere \/ Announce \/ DaemonStops \/ DaemonStarts
             \/ UNCHANGED vars
    BY <1>8, <1>11
       DEF RegisterTray, RefuseCall, ApplyCall, AnnounceCall, DaemonStops,
           ChangeElsewhere, Announce, DaemonStarts, vars, trayVars, viewVars
  <1> QED
    BY <1>2, <1>3, <1>4, <1>5, <1>6, <1>7, <1>9, <1>10, <1>11
       DEF Next, BusTask

(***************************************************************************)
(* A dashboard that can be clicked is heard: no order of launches, losses  *)
(* of the daemon, failed snapshots and second starts leaves a window or a  *)
(* tray with a switch whose bus task has returned (main.rs, bus_task).     *)
(***************************************************************************)
THEOREM ClicksReachTheTask == Spec => []ClicksAreHeard
  <1>1. TypeOK /\ HeardInv /\ [Next]_vars => HeardInv'
    BY TaskNext, HeardNext DEF HeardInv
  <1>2. HeardInv => ClicksAreHeard
    BY DEF HeardInv
  <1> QED
    BY TypeInit, TypeNext, HeardInit, <1>1, <1>2, PTL DEF Spec
=============================================================================
