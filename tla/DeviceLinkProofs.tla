--------------------------- MODULE DeviceLinkProofs ---------------------------
(***************************************************************************)
(* Proofs about the device connection, for any handles, pictures and       *)
(* number of requests: types; one handle open at a time, and none after    *)
(* Disconnect; no handle closed under a write; and what a skipped frame    *)
(* relies on.                                                              *)
(***************************************************************************)
EXTENDS DeviceLink, TLAPS

Steps == {"none", "poll", "close", "settle", "open"}

LEMMA WritersType == "loop" \in Writers /\ "off" \in Writers /\ Requests \subseteq Writers
BY DEF Writers

LEMMA WatchedType ==
  ASSUME NEW ms \in [Monitors -> Steps]
  PROVE  Watched(ms) \in [Monitors -> Steps]
BY DEF Watched, Monitors, Steps

LEMMA ConnectedType ==
  ASSUME TypeOK, NEW h \in Handles, Connected(h)
  PROVE  /\ open' \subseteq Handles /\ live' \subseteq open'
         /\ handle' \in Handles /\ connected' = TRUE /\ reconnecting' = TRUE
         /\ stopped' \in BOOLEAN /\ display' \in Frames \cup {Blank, Other} /\ blanked' = TRUE
BY DEF TypeOK, Connected

LEMMA NotConnectedType ==
  ASSUME TypeOK, NotConnected
  PROVE  /\ open' \subseteq Handles /\ live' \subseteq open' /\ handle' = None
         /\ UNCHANGED <<connected, reconnecting, stopped, display, blanked>>
BY DEF TypeOK, NotConnected

LEMMA ConnType ==
  ASSUME TypeOK, Connect
  PROVE  TypeOK'
<1>1. CASE Already /\ conn' = "gone" /\ UNCHANGED monitor
  BY <1>1 DEF Connect, Already, link, TypeOK
<1>2. CASE \E h \in Handles : Connected(h) /\ conn' = "gone" /\ monitor' = Watched(monitor)
  <2>1. PICK h \in Handles : Connected(h) /\ conn' = "gone" /\ monitor' = Watched(monitor)
    BY <1>2
  <2>2. monitor' \in [Monitors -> Steps]
    BY <2>1, WatchedType DEF TypeOK, Steps
  <2> QED BY <2>1, <2>2, ConnectedType DEF Connect, TypeOK, Steps
<1>3. CASE NotConnected /\ conn' \in {"connect", "watch"} /\ UNCHANGED monitor
  BY <1>3, NotConnectedType DEF Connect, TypeOK
<1> QED BY <1>1, <1>2, <1>3 DEF Connect

LEMMA MonitorType ==
  ASSUME TypeOK, NEW m \in Monitors, Monitor(m)
  PROVE  TypeOK'
<1>t. monitor \in [Monitors -> Steps]
  BY DEF TypeOK, Steps
<1>1. CASE MonitorStops(m) \/ MonitorPolls(m)
  <2>1. monitor' \in [Monitors -> Steps] /\ late' \in BOOLEAN
    BY <1>1, <1>t DEF MonitorStops, MonitorPolls, MonitorTo, TypeOK, Steps
  <2> QED BY <1>1, <2>1 DEF MonitorStops, MonitorPolls, link, picture, TypeOK, Steps
<1>2. CASE MonitorCloses(m)
  <2>1. monitor' \in [Monitors -> Steps]
    BY <1>2, <1>t DEF MonitorCloses, MonitorTo, Steps
  <2> QED BY <1>2, <2>1 DEF MonitorCloses, picture, TypeOK, Steps
<1>3. CASE MonitorConnects(m)
  <2>1. PICK h \in Handles : Connected(h) /\ monitor' = Watched([monitor EXCEPT ![m] = "poll"])
    BY <1>3 DEF MonitorConnects
  <2>2. [monitor EXCEPT ![m] = "poll"] \in [Monitors -> Steps]
    BY <1>t DEF Steps
  <2>3. monitor' \in [Monitors -> Steps]
    BY <2>1, <2>2, WatchedType
  <2> QED BY <1>3, <2>1, <2>3, ConnectedType DEF MonitorConnects, TypeOK, Steps
<1>4. CASE MonitorFails(m)
  <2>1. monitor' \in [Monitors -> Steps]
    BY <1>4, <1>t DEF MonitorFails, MonitorTo, Steps
  <2>2. CASE Already
    BY <1>4, <2>1, <2>2 DEF MonitorFails, Already, link, TypeOK, Steps
  <2>3. CASE NotConnected
    BY <1>4, <2>1, <2>3, NotConnectedType DEF MonitorFails, TypeOK, Steps
  <2> QED BY <1>4, <2>2, <2>3 DEF MonitorFails
<1> QED BY <1>1, <1>2, <1>3, <1>4 DEF Monitor

WriterSteps == {"idle", "lock", "write", "gone"}

LEMMA WriterType ==
  ASSUME TypeOK, NEW p \in Writers, NEW step \in WriterSteps, NEW h \in Handles \cup {None},
         AtTo(p, step, h)
  PROVE  /\ at' \in [Writers -> {"idle", "lock", "write", "gone"}]
         /\ arg' \in [Writers -> Handles \cup {None}]
BY DEF AtTo, TypeOK, WriterSteps

LEMMA LockType ==
  ASSUME TypeOK, NEW p \in Writers, Lock(p)
  PROVE  TypeOK'
<1>1. at' \in [Writers -> {"idle", "lock", "write", "gone"}]
  BY DEF Lock, TypeOK
<1> QED BY <1>1 DEF Lock, link, picture, TypeOK

LEMMA ReadType ==
  ASSUME TypeOK, NEW p \in Writers, Read(p)
  PROVE  TypeOK'
<1>1. /\ at' \in [Writers -> {"idle", "lock", "write", "gone"}]
      /\ arg' \in [Writers -> Handles \cup {None}]
  BY WriterType DEF Read, TypeOK, WriterSteps
<1> QED BY <1>1 DEF Read, link, picture, TypeOK

LEMMA ReturnType ==
  ASSUME TypeOK, NEW p \in Writers, Return(p)
  PROVE  /\ at' \in [Writers -> {"idle", "lock", "write", "gone"}]
         /\ arg' \in [Writers -> Handles \cup {None}]
         /\ writeMu' = None
BY WriterType DEF Return, WriterSteps

LEMMA FailsType ==
  ASSUME TypeOK, NEW p \in Writers, SendFails(p)
  PROVE  TypeOK'
<1>1. display' \in Frames \cup {Blank, Other}
  BY DEF SendFails, TypeOK
<1> QED BY <1>1, ReturnType DEF SendFails, TypeOK

LEMMA LoopType ==
  ASSUME TypeOK, Loop
  PROVE  TypeOK'
<1>1. CASE LoopSends
  BY <1>1, WritersType, ReadType DEF LoopSends
<1>2. CASE LoopEnds
  <2>1. /\ at' \in [Writers -> {"idle", "lock", "write", "gone"}]
        /\ arg' \in [Writers -> Handles \cup {None}]
    BY <1>2, WritersType, WriterType DEF LoopEnds, WriterSteps
  <2> QED BY <1>2, <2>1 DEF LoopEnds, link, picture, TypeOK
<1>3. CASE FrameSent
  <2>1. /\ at' \in [Writers -> {"idle", "lock", "write", "gone"}]
        /\ arg' \in [Writers -> Handles \cup {None}] /\ writeMu' = None
    BY <1>3, WritersType, ReturnType DEF FrameSent
  <2> QED BY <1>3, <2>1 DEF FrameSent, link, TypeOK
<1> QED BY <1>1, <1>2, <1>3, WritersType, LockType, FailsType DEF Loop

LEMMA OffType ==
  ASSUME TypeOK, Off \/ Cancel
  PROVE  TypeOK'
<1>1. CASE SendBlank
  BY <1>1, WritersType, ReadType DEF SendBlank
<1>2. CASE BlankSent
  <2>1. /\ at' \in [Writers -> {"idle", "lock", "write", "gone"}]
        /\ arg' \in [Writers -> Handles \cup {None}] /\ writeMu' = None
    BY <1>2, WritersType, ReturnType DEF BlankSent
  <2> QED BY <1>2, <2>1 DEF BlankSent, link, TypeOK
<1>3. CASE Cancel \/ Wait \/ NoBlank
  BY <1>3 DEF Cancel, Wait, NoBlank, OffTo, link, picture, TypeOK
<1>4. CASE Disconnect
  <2>1. late' \in BOOLEAN /\ stopped' \in BOOLEAN
    BY <1>4 DEF Disconnect, TypeOK
  <2> QED BY <1>4, <2>1 DEF Disconnect, OffTo, picture, TypeOK
<1>5. CASE CloseHandle
  BY <1>5 DEF CloseHandle, OffTo, picture, TypeOK
<1> QED BY <1>1, <1>2, <1>3, <1>4, <1>5, WritersType, LockType, FailsType DEF Off

LEMMA InitType == Init => TypeOK
BY DEF Init, TypeOK

LEMMA NextType == TypeOK /\ [Next]_vars => TypeOK'
<1> SUFFICES ASSUME TypeOK, [Next]_vars PROVE TypeOK'
  OBVIOUS
<1>1. CASE Unplug
  <2>1. plugged' \in BOOLEAN /\ live' = {} /\ display' \in Frames \cup {Blank, Other}
    BY <1>1 DEF Unplug
  <2>2. live' \subseteq open'
    BY <2>1
  <2> QED BY <1>1, <2>1, <2>2 DEF Unplug, TypeOK
<1>5. CASE Plug
  BY <1>5 DEF Plug, link, picture, TypeOK
<1>6. CASE RenderFrame
  BY <1>6 DEF RenderFrame, link, TypeOK
<1>4. CASE WatchDevice
  BY <1>4 DEF WatchDevice, link, picture, TypeOK
<1>2. CASE \E r \in Requests : Brightness(r) \/ Request(r)
  <2>1. PICK r \in Requests : Brightness(r) \/ Request(r)
    BY <1>2
  <2>2. CASE Brightness(r)
    BY <2>2, WritersType, ReadType DEF Brightness
  <2>3. CASE BrightnessSet(r)
    BY <2>3, WritersType, ReturnType DEF BrightnessSet, link, picture, TypeOK
  <2> QED BY <2>1, <2>2, <2>3, WritersType, LockType DEF Request
<1>3. CASE UNCHANGED vars
  BY <1>3 DEF vars, link, picture, TypeOK
<1> QED BY <1>1, <1>2, <1>3, <1>4, <1>5, <1>6, ConnType, MonitorType, LoopType, OffType DEF Next

\* Handles, positions and pictures keep their types, for any number of requests.
THEOREM TypeCorrect == Spec => []TypeOK
<1> QED BY InitType, NextType, PTL DEF Spec

-----------------------------------------------------------------------------
(* What a skipped frame relies on *)

\* Whoever holds writeMu: sending another picture and being connected exclude each other
\* once a transfer has failed.
Shows == (connected /\ handle \in live /\ ~blanked) => display = lastSent

\* The steps after which Shows follows from Shows: nothing it speaks of changes, or it has
\* no case.
LEMMA ShowsAlike ==
  ASSUME Shows,
         \/ blanked' \/ ~connected' \/ live' = {}
         \/ UNCHANGED <<connected, blanked, display, lastSent>> /\ handle' = None /\ None \notin live'
         \/ UNCHANGED <<connected, handle, live, blanked, display, lastSent>>
  PROVE  Shows'
<1>1. CASE blanked' \/ ~connected' \/ live' = {}
  BY <1>1 DEF Shows
<1>2. CASE /\ UNCHANGED <<connected, blanked, display, lastSent>>
           /\ handle' = None /\ None \notin live'
  BY <1>2 DEF Shows
<1>3. CASE UNCHANGED <<connected, handle, live, blanked, display, lastSent>>
  BY <1>3 DEF Shows
<1> QED BY <1>1, <1>2, <1>3

LEMMA ShowsStep == TypeOK /\ Shows /\ [Next]_vars => Shows'
<1> SUFFICES ASSUME TypeOK, Shows, [Next]_vars PROVE Shows'
  OBVIOUS
<1>t. live \subseteq Handles /\ None \notin Handles /\ blanked \in BOOLEAN
  BY ConstantsAssumption DEF TypeOK
<1>1. CASE FrameSent
  BY <1>1 DEF FrameSent, Shows
<1>2. CASE Unplug \/ BlankSent \/ \E p \in Writers : SendFails(p)
  BY <1>2, ShowsAlike DEF Unplug, BlankSent, SendFails
<1>3. CASE Connect \/ \E m \in Monitors : MonitorConnects(m) \/ MonitorFails(m)
  <2>1. \/ \E h \in Handles : Connected(h)
        \/ NotConnected
        \/ Already
    BY <1>3 DEF Connect, MonitorConnects, MonitorFails
  <2>2. UNCHANGED lastSent
    BY <1>3 DEF Connect, MonitorConnects, MonitorFails
  <2>3. CASE \E h \in Handles : Connected(h)
    BY <2>3, ShowsAlike DEF Connected
  <2>4. CASE NotConnected
    BY <1>t, <2>2, <2>4, ShowsAlike DEF NotConnected
  <2>5. CASE Already
    BY <2>2, <2>5, ShowsAlike DEF Already, link
  <2> QED BY <2>1, <2>3, <2>4, <2>5
<1>4. CASE \E m \in Monitors : MonitorStops(m) \/ MonitorPolls(m) \/ MonitorCloses(m)
  BY <1>4, <1>t, ShowsAlike DEF MonitorStops, MonitorPolls, MonitorCloses, link, picture
<1>5. CASE Plug \/ RenderFrame \/ WatchDevice \/ UNCHANGED vars
  BY <1>5, ShowsAlike DEF Plug, RenderFrame, WatchDevice, link, picture, vars
<1>6. CASE (\E p \in Writers : Lock(p) \/ Read(p)) \/ LoopEnds \/ (\E r \in Requests : BrightnessSet(r))
  BY <1>6, ShowsAlike DEF Lock, Read, LoopEnds, BrightnessSet, link, picture
<1>7. CASE Cancel \/ Wait \/ NoBlank \/ Disconnect \/ CloseHandle
  BY <1>7, <1>t, ShowsAlike DEF Cancel, Wait, NoBlank, Disconnect, CloseHandle, OffTo, link, picture
<1> QED BY <1>1, <1>2, <1>3, <1>4, <1>5, <1>6, <1>7, WritersType
        DEF Next, Loop, Off, Request, Monitor, LoopSends, Brightness, SendBlank

\* A frame is skipped only while the last one sent is on the display.
THEOREM SkipsAreShown == Spec => []SkippedIsShown
<1>1. Init => Shows
  BY DEF Init, Shows
<1>2. Shows => SkippedIsShown
  BY DEF Shows, SkippedIsShown
<1> QED BY <1>1, <1>2, InitType, NextType, ShowsStep, PTL DEF Spec

-----------------------------------------------------------------------------
(* One open handle, none after Disconnect, and none closed under a write *)

\* Disconnect has closed the channel; a monitor has been started again after that.
Past == off \in {"close", "down"}
Again == Past /\ reconnecting

Held == open = {handle} \ {None}
Mutex == \A p \in Writers : at[p] = "write" <=> writeMu = p
Blanking == at["off"] # "idle" => off = "blank"

\* Until the first connection nothing is open and no monitor runs.
NotYet ==
  conn # "gone" =>
    /\ handle = None /\ ~connected /\ ~reconnecting /\ ~stopped
    /\ \A m \in Monitors : monitor[m] = "none"

\* Before Disconnect the channel is open, and a monitor runs only if one was started.
Early ==
  ~Past =>
    /\ ~stopped /\ ~late
    /\ ~reconnecting => \A m \in Monitors : monitor[m] = "none"

\* Only one monitor runs, which has closed the handle when it opens the device ...
Alone ==
  ~Again =>
    /\ \A m, k \in Monitors : monitor[m] # "none" /\ monitor[k] # "none" => m = k
    /\ \A m \in Monitors : monitor[m] \in {"settle", "open"} => handle = None
    /\ \A m \in Monitors : monitor[m] = "close" => ~connected

\* ... and when there are two, nobody writes to what they open and close.
Unread == Again => \A p \in Writers : arg[p] = handle => handle = None

\* Without a late monitor all of them see the closed channel.
Quiet ==
  (~late /\ Past) =>
    /\ conn = "gone" /\ ~reconnecting
    /\ \A m \in Monitors : monitor[m] \in {"none", "poll", "settle"}
    /\ \A m \in Monitors : monitor[m] # "none" => stopped

LinkInv ==
  /\ Held /\ Mutex /\ Blanking /\ NotYet /\ Early /\ Alone /\ Unread /\ Quiet
  /\ OneHandle /\ StaysClosed

LEMMA InitLink == Init => LinkInv
<1> SUFFICES ASSUME Init PROVE LinkInv
  OBVIOUS
<1>1. Held /\ Mutex /\ Blanking
  BY ConstantsAssumption DEF Init, Held, Mutex, Blanking, Writers
<1>2. NotYet /\ Early /\ Alone /\ Unread /\ Quiet
  BY DEF Init, NotYet, Early, Alone, Unread, Quiet, Past, Again
<1> QED BY <1>1, <1>2 DEF LinkInv, OneHandle, StaysClosed, Held, Init

\* A step that leaves the link, the monitors and Disconnect alone, and reads no handle
\* once it was stopped.
LEMMA LinkAlike ==
  ASSUME LinkInv, UNCHANGED <<open, handle, reconnecting, stopped, monitor, late>>,
         connected' = connected \/ ~connected', off' = off \/ (~Past /\ ~Past'),
         conn = "gone" => conn' = "gone", Mutex', Blanking',
         ~Past \/ \A p \in Writers : arg'[p] = arg[p] \/ arg'[p] = None
  PROVE  LinkInv'
<1>1. Held' /\ Alone' /\ Past' = Past
  BY DEF LinkInv, Held, Alone, Past, Again
<1>2. Early' /\ NotYet' /\ Quiet'
  BY <1>1 DEF LinkInv, Early, NotYet, Quiet
<1>3. OneHandle'
  BY <1>1 DEF LinkInv, OneHandle, Held
<1>4. StaysClosed'
  BY DEF LinkInv, StaysClosed, Past
<1>5. Unread'
  BY <1>1 DEF LinkInv, Unread, Again
<1> QED BY <1>1, <1>2, <1>3, <1>4, <1>5 DEF LinkInv

LEMMA LinkQuiet ==
  ASSUME LinkInv, Unplug \/ Plug \/ RenderFrame \/ WatchDevice \/ UNCHANGED vars
  PROVE  LinkInv'
<1>1. /\ UNCHANGED <<open, handle, connected, reconnecting, stopped, monitor, off, late>>
      /\ UNCHANGED <<writeMu, at, arg>> /\ (conn = "gone" => conn' = "gone")
  BY DEF Unplug, Plug, RenderFrame, WatchDevice, vars, link, picture
<1>2. Mutex' /\ Blanking'
  BY <1>1 DEF LinkInv, Mutex, Blanking
<1> QED BY <1>1, <1>2, LinkAlike

LEMMA LinkRead ==
  ASSUME TypeOK, LinkInv, LoopSends \/ SendBlank \/ \E r \in Requests : Brightness(r)
  PROVE  LinkInv'
<1>1. PICK p \in Writers : Read(p) /\ ~Past /\ (p = "off" => off = "blank")
  BY WritersType, ConstantsAssumption DEF LoopSends, SendBlank, Brightness, Cancelled, Past
<1>2. /\ UNCHANGED <<open, handle, connected, reconnecting, stopped, monitor, off, late, conn>>
      /\ writeMu' = writeMu /\ at' = [at EXCEPT ![p] = "lock"] /\ at[p] = "idle"
  BY <1>1 DEF Read, AtTo, link
<1>3. Mutex' /\ Blanking'
  BY <1>1, <1>2 DEF LinkInv, Mutex, Blanking, TypeOK
<1> QED BY <1>1, <1>2, <1>3, LinkAlike DEF Past

LEMMA LinkLock ==
  ASSUME TypeOK, LinkInv, NEW p \in Writers, Lock(p)
  PROVE  LinkInv'
<1>1. /\ UNCHANGED <<open, handle, connected, reconnecting, stopped, monitor, off, late, conn, arg>>
      /\ writeMu = None /\ writeMu' = p /\ at' = [at EXCEPT ![p] = "write"] /\ at[p] = "lock"
  BY DEF Lock, link
<1>2. Mutex' /\ Blanking'
  BY <1>1, ConstantsAssumption DEF LinkInv, Mutex, Blanking, TypeOK, Writers
<1> QED BY <1>1, <1>2, LinkAlike

LEMMA LinkReturn ==
  ASSUME TypeOK, LinkInv, NEW p \in Writers, at[p] = "write", Return(p)
  PROVE  /\ Mutex' /\ \A q \in Writers : arg'[q] = arg[q] \/ arg'[q] = None
         /\ at'["off"] = IF p = "off" THEN "idle" ELSE at["off"]
BY WritersType, ConstantsAssumption
   DEF LinkInv, Mutex, Return, AtTo, TypeOK, Writers

LEMMA LinkSends ==
  ASSUME TypeOK, LinkInv,
         \/ FrameSent \/ BlankSent
         \/ \E r \in Requests : BrightnessSet(r)
         \/ SendFails("loop") \/ SendFails("off")
  PROVE  LinkInv'
<1>1. PICK p \in Writers :
        /\ at[p] = "write" /\ Return(p)
        /\ off' = IF p = "off" THEN "stop" ELSE off
        /\ connected' = connected \/ ~connected'
        /\ UNCHANGED <<open, handle, reconnecting, stopped, monitor, late, conn>>
  BY WritersType, ConstantsAssumption
     DEF FrameSent, BlankSent, BrightnessSet, SendFails, link
<1>2. Mutex' /\ \A q \in Writers : arg'[q] = arg[q] \/ arg'[q] = None
  BY <1>1, LinkReturn
<1>3. at'["off"] = IF p = "off" THEN "idle" ELSE at["off"]
  BY <1>1, LinkReturn
<1>4. p = "off" => ~Past /\ ~Past'
  BY <1>1 DEF LinkInv, Blanking, Past
<1>5. Blanking'
  BY <1>1, <1>3 DEF LinkInv, Blanking
<1> QED BY <1>1, <1>2, <1>4, <1>5, LinkAlike

LEMMA LinkLoopEnds ==
  ASSUME TypeOK, LinkInv, LoopEnds
  PROVE  LinkInv'
<1>1. /\ UNCHANGED <<open, handle, connected, reconnecting, stopped, monitor, off, late, conn>>
      /\ writeMu' = writeMu /\ at["loop"] = "idle"
      /\ at' = [at EXCEPT !["loop"] = "gone"] /\ arg' = [arg EXCEPT !["loop"] = None]
  BY DEF LoopEnds, AtTo, link
<1>2. Mutex'
  BY <1>1, WritersType DEF LinkInv, Mutex, TypeOK
<1>3. Blanking'
  BY <1>1, WritersType DEF LinkInv, Blanking, TypeOK
<1>4. \A p \in Writers : arg'[p] = arg[p] \/ arg'[p] = None
  BY <1>1 DEF TypeOK
<1> QED BY <1>1, <1>2, <1>3, <1>4, LinkAlike

LEMMA LinkWait ==
  ASSUME TypeOK, LinkInv, Cancel \/ Wait \/ NoBlank
  PROVE  LinkInv'
<1>1. /\ UNCHANGED <<open, handle, connected, reconnecting, stopped, monitor, late, conn>>
      /\ UNCHANGED <<writeMu, at, arg>> /\ ~Past /\ ~Past'
      /\ at["off"] # "idle" => off' = "blank"
  BY DEF Cancel, Wait, NoBlank, OffTo, link, Past, LinkInv, Blanking
<1>2. Mutex' /\ Blanking'
  BY <1>1 DEF LinkInv, Mutex, Blanking
<1> QED BY <1>1, <1>2, LinkAlike

\* What opens or closes takes no part in writing.
LEMMA LinkIdle ==
  ASSUME LinkInv, UNCHANGED <<writeMu, at>>, off' = off \/ off \notin {"blank"}
  PROVE  Mutex' /\ Blanking'
BY DEF LinkInv, Mutex, Blanking

LEMMA WatchedOne ==
  ASSUME NEW ms \in [Monitors -> Steps]
  PROVE  /\ reconnecting => Watched(ms) = ms
         /\ (~reconnecting /\ \A m \in Monitors : ms[m] = "none") =>
               Watched(ms)[1] = "poll" /\ Watched(ms)[2] = "none"
<1>1. reconnecting => Watched(ms) = ms
  BY DEF Watched
<1>2. ASSUME ~reconnecting, \A m \in Monitors : ms[m] = "none"
      PROVE  Watched(ms)[1] = "poll" /\ Watched(ms)[2] = "none"
  <2>1. Watched(ms) = [m \in Monitors |->
          IF ms[m] = "none" /\ \A k \in 1..(m - 1) : ms[k] # "none" THEN "poll" ELSE ms[m]]
    BY <1>2 DEF Watched
  <2>2. 1 \in Monitors /\ 2 \in Monitors /\ 1..(1 - 1) = {} /\ 1 \in 1..(2 - 1)
    BY DEF Monitors
  <2> QED BY <1>2, <2>1, <2>2
<1> QED BY <1>1, <1>2

LEMMA LinkConnect ==
  ASSUME TypeOK, LinkInv, Connect
  PROVE  LinkInv'
<1>1. /\ conn # "gone" /\ UNCHANGED <<writeMu, at, arg, off, late>>
      /\ handle = None /\ ~connected /\ ~reconnecting /\ ~stopped /\ open = {}
      /\ \A m \in Monitors : monitor[m] = "none"
  BY DEF Connect, LinkInv, NotYet, Held
<1>2. Mutex' /\ Blanking'
  BY <1>1, LinkIdle
<1>3. CASE \E h \in Handles : Connected(h) /\ conn' = "gone" /\ monitor' = Watched(monitor)
  <2>1. PICK h \in Handles : Connected(h) /\ conn' = "gone" /\ monitor' = Watched(monitor)
    BY <1>3
  <2>2. /\ open' = {h} /\ handle' = h /\ h # None /\ connected' /\ reconnecting' /\ ~stopped'
        /\ \A p \in Writers : arg[p] # h
    BY <1>1, <2>1, ConstantsAssumption DEF Connected, New
  <2>3. monitor'[1] = "poll" /\ monitor'[2] = "none"
    BY <1>1, <2>1, WatchedOne DEF TypeOK, Steps
  <2>4. Held' /\ NotYet' /\ Unread' /\ OneHandle'
    BY <1>1, <2>1, <2>2 DEF Held, NotYet, Unread, OneHandle
  <2>5. Early' /\ Alone'
    BY <1>1, <2>2, <2>3 DEF LinkInv, Early, Alone, Past, Again, Monitors
  <2>6. Quiet' /\ StaysClosed'
    BY <1>1 DEF LinkInv, Quiet, StaysClosed, Past
  <2> QED BY <1>2, <2>4, <2>5, <2>6 DEF LinkInv
<1>4. CASE NotConnected /\ conn' \in {"connect", "watch"} /\ UNCHANGED monitor
  <2>1. /\ UNCHANGED <<connected, reconnecting, stopped, monitor>>
        /\ open' = {} /\ handle' = None
    BY <1>1, <1>4 DEF NotConnected
  <2>2. Held' /\ NotYet' /\ Unread' /\ OneHandle' /\ StaysClosed'
    BY <1>1, <2>1 DEF Held, NotYet, Unread, OneHandle, StaysClosed
  <2>3. Early' /\ Alone' /\ Quiet'
    BY <1>1, <2>1 DEF LinkInv, Early, Alone, Quiet, Past, Again
  <2> QED BY <1>2, <2>2, <2>3 DEF LinkInv
<1> QED BY <1>1, <1>3, <1>4 DEF Connect, Already

LEMMA LinkMonitorMoves ==
  ASSUME TypeOK, LinkInv, NEW m \in Monitors, MonitorStops(m) \/ MonitorPolls(m)
  PROVE  LinkInv'
<1>1. /\ UNCHANGED <<open, handle, connected, reconnecting, stopped, writeMu, at, arg, conn, off>>
      /\ monitor[m] \in {"poll", "settle"}
      /\ late' = late \/ late' = (late \/ stopped)
  BY DEF MonitorStops, MonitorPolls, link
<1>2. Mutex' /\ Blanking' /\ Held' /\ Unread'
  BY <1>1, LinkIdle DEF LinkInv, Held, Unread, Again, Past
<1>3. NotYet' /\ conn = "gone" /\ conn' = "gone"
  BY <1>1 DEF LinkInv, NotYet
<1>4. ~late' => ~late
  BY <1>1
<1>5. OneHandle' /\ StaysClosed'
  BY <1>1, <1>4 DEF LinkInv, OneHandle, StaysClosed
<1>6. CASE MonitorStops(m)
  <2>1. monitor' = [monitor EXCEPT ![m] = "none"] /\ late' = late /\ stopped
    BY <1>6 DEF MonitorStops, MonitorTo
  <2>2. \A k \in Monitors : monitor'[k] = IF k = m THEN "none" ELSE monitor[k]
    BY <2>1 DEF TypeOK
  <2>3. Early'
    BY <1>1, <2>1 DEF LinkInv, Early, Past
  <2>4. Alone'
    BY <1>1, <2>2 DEF LinkInv, Alone, Again, Past
  <2>5. Quiet'
    BY <1>1, <1>3, <2>1, <2>2 DEF LinkInv, Quiet, Past
  <2> QED BY <1>2, <1>3, <1>5, <2>3, <2>4, <2>5 DEF LinkInv
<1>7. CASE MonitorPolls(m)
  <2>1. PICK step \in {"close", "open"} :
          /\ monitor' = [monitor EXCEPT ![m] = step]
          /\ step = "close" => ~connected
          /\ step = "open" => monitor[m] = "settle"
    BY <1>7 DEF MonitorPolls, MonitorTo
  <2>2. \A k \in Monitors : monitor'[k] = IF k = m THEN step ELSE monitor[k]
    BY <2>1 DEF TypeOK
  <2>3. late' = (late \/ stopped)
    BY <1>7 DEF MonitorPolls
  <2>4. Early'
    BY <1>1, <2>2, <2>3 DEF LinkInv, Early, Past
  <2>5. Alone'
    BY <1>1, <2>1, <2>2 DEF LinkInv, Alone, Again, Past
  <2>6. Quiet'
    BY <1>1, <2>3 DEF LinkInv, Quiet, Past
  <2> QED BY <1>2, <1>3, <1>5, <2>4, <2>5, <2>6 DEF LinkInv
<1> QED BY <1>6, <1>7

LEMMA LinkMonitorCloses ==
  ASSUME TypeOK, LinkInv, NEW m \in Monitors, MonitorCloses(m)
  PROVE  LinkInv'
<1>1. /\ UNCHANGED <<connected, reconnecting, stopped, writeMu, at, arg, conn, off, late>>
      /\ monitor[m] = "close" /\ monitor' = [monitor EXCEPT ![m] = "settle"]
      /\ open' = {} /\ handle' = None
  BY DEF MonitorCloses, MonitorTo, LinkInv, Held
<1>2. \A k \in Monitors : monitor'[k] = IF k = m THEN "settle" ELSE monitor[k]
  BY <1>1 DEF TypeOK
<1>3. Mutex' /\ Blanking' /\ Held' /\ Unread' /\ StaysClosed'
  BY <1>1, LinkIdle DEF Held, Unread, StaysClosed
<1>4. NotYet'
  BY <1>1 DEF LinkInv, NotYet
<1>5. Early'
  BY <1>1 DEF LinkInv, Early, Past
<1>6. Alone'
  BY <1>1, <1>2 DEF LinkInv, Alone, Again, Past
<1>7. late \/ ~Past
  BY <1>1 DEF LinkInv, Quiet
<1>8. Quiet'
  BY <1>1, <1>7 DEF Quiet, Past
<1>9. late \/ ~connected
  BY <1>1, <1>7 DEF LinkInv, Alone, Again
<1>10. OneHandle'
  BY <1>1, <1>3, <1>9 DEF OneHandle, Held
<1> QED BY <1>3, <1>4, <1>5, <1>6, <1>8, <1>10 DEF LinkInv

LEMMA LinkMonitorConnects ==
  ASSUME TypeOK, LinkInv, NEW m \in Monitors, MonitorConnects(m)
  PROVE  LinkInv'
<1>1. PICK h \in Handles : Connected(h) /\ monitor' = Watched([monitor EXCEPT ![m] = "poll"])
  BY DEF MonitorConnects
<1>2. /\ UNCHANGED <<writeMu, at, arg, conn, off, late>> /\ monitor[m] = "open"
      /\ handle' = h /\ h # None /\ connected' /\ reconnecting'
      /\ stopped' = (stopped /\ reconnecting)
      /\ \A p \in Writers : arg[p] # h
  BY <1>1, ConstantsAssumption DEF MonitorConnects, Connected, New
<1>3. Mutex' /\ Blanking'
  BY <1>2, LinkIdle
<1>4. Held'
  BY <1>1, <1>2 DEF Connected, New, Held, LinkInv
<1>5. conn = "gone" /\ conn' = "gone" /\ NotYet'
  BY <1>2 DEF LinkInv, NotYet
<1>6. Unread' /\ OneHandle'
  BY <1>2, <1>4 DEF Unread, OneHandle, Held
<1>7. late \/ ~Past
  BY <1>2 DEF LinkInv, Quiet
<1>8. Quiet' /\ StaysClosed'
  BY <1>2, <1>7 DEF Quiet, StaysClosed, Past
<1>9. Early'
  BY <1>2 DEF LinkInv, Early, Past
<1>10. CASE ~Past
  <2>1. reconnecting /\ ~Again
    BY <1>2, <1>10 DEF LinkInv, Early, Again
  <2>2. [monitor EXCEPT ![m] = "poll"] \in [Monitors -> Steps]
    BY DEF TypeOK, Steps
  <2>3. monitor' = [monitor EXCEPT ![m] = "poll"]
    BY <1>1, <2>1, <2>2, WatchedOne
  <2>4. \A k \in Monitors : monitor'[k] = IF k = m THEN "poll" ELSE monitor[k]
    BY <2>3 DEF TypeOK
  <2>5. \A k \in Monitors : k # m => monitor'[k] = "none"
    BY <1>2, <2>1, <2>4 DEF LinkInv, Alone
  <2>6. Alone'
    BY <2>4, <2>5 DEF Alone
  <2> QED BY <1>3, <1>4, <1>5, <1>6, <1>8, <1>9, <2>6 DEF LinkInv
<1>11. CASE Past
  <2>1. Alone'
    BY <1>2, <1>11 DEF Alone, Again, Past
  <2> QED BY <1>3, <1>4, <1>5, <1>6, <1>8, <1>9, <2>1 DEF LinkInv
<1> QED BY <1>10, <1>11

LEMMA LinkMonitorFails ==
  ASSUME TypeOK, LinkInv, NEW m \in Monitors, MonitorFails(m)
  PROVE  LinkInv'
<1>1. /\ UNCHANGED <<connected, reconnecting, stopped, writeMu, at, arg, conn, off, late>>
      /\ monitor[m] = "open" /\ monitor' = [monitor EXCEPT ![m] = "poll"]
      /\ \/ UNCHANGED <<open, handle>>
         \/ open' = {} /\ handle' = None /\ ~(connected /\ handle # None)
  BY DEF MonitorFails, MonitorTo, Already, NotConnected, link, LinkInv, Held
<1>2. \A k \in Monitors : monitor'[k] = IF k = m THEN "poll" ELSE monitor[k]
  BY <1>1 DEF TypeOK
<1>3. Mutex' /\ Blanking'
  BY <1>1, LinkIdle
<1>4. Held' /\ Unread'
  BY <1>1 DEF LinkInv, Held, Unread, Again, Past
<1>5. NotYet'
  BY <1>1 DEF LinkInv, NotYet
<1>6. late \/ ~Past
  BY <1>1 DEF LinkInv, Quiet
<1>7. Quiet' /\ StaysClosed'
  BY <1>1, <1>6 DEF Quiet, StaysClosed, Past
<1>8. Early'
  BY <1>1 DEF LinkInv, Early, Past
<1>9. Alone'
  BY <1>1, <1>2 DEF LinkInv, Alone, Again, Past
<1>10. OneHandle'
  BY <1>1, <1>4 DEF LinkInv, OneHandle, Held
<1> QED BY <1>3, <1>4, <1>5, <1>7, <1>8, <1>9, <1>10 DEF LinkInv

LEMMA LinkDisconnect ==
  ASSUME TypeOK, LinkInv, Disconnect
  PROVE  LinkInv'
<1>1. /\ UNCHANGED <<open, handle, connected, monitor, writeMu, at, arg, conn>>
      /\ off = "stop" /\ off' = "close" /\ ~Past /\ Past' /\ ~Again /\ ~Again'
      /\ ~reconnecting' /\ (reconnecting => stopped')
      /\ late' = (conn # "gone" \/ \E m \in Monitors : monitor[m] \in {"close", "open"})
  BY DEF Disconnect, OffTo, picture, Past, Again
<1>2. Mutex' /\ Blanking'
  BY <1>1, LinkIdle
<1>3. Held' /\ Early' /\ Alone' /\ Unread'
  BY <1>1 DEF LinkInv, Held, Early, Alone, Unread
<1>4. NotYet'
  <2>1. ~reconnecting /\ ~stopped => ~stopped'
    BY DEF Disconnect
  <2> QED BY <1>1, <2>1 DEF LinkInv, NotYet
<1>5. ~late
  BY <1>1 DEF LinkInv, Early
<1>6. OneHandle' /\ StaysClosed'
  BY <1>1, <1>3, <1>5 DEF LinkInv, OneHandle, StaysClosed, Held
<1>7. Quiet'
  <2>1. SUFFICES ASSUME ~late'
                 PROVE  /\ conn' = "gone" /\ ~reconnecting'
                        /\ \A m \in Monitors : monitor'[m] \in {"none", "poll", "settle"}
                        /\ \A m \in Monitors : monitor'[m] # "none" => stopped'
    BY DEF Quiet
  <2>2. conn = "gone" /\ \A m \in Monitors : monitor[m] \notin {"close", "open"}
    BY <1>1, <2>1
  <2>3. \A m \in Monitors : monitor[m] \in {"none", "poll", "settle"}
    BY <2>2 DEF TypeOK
  <2>4. \A m \in Monitors : monitor[m] # "none" => reconnecting
    BY <1>1 DEF LinkInv, Early
  <2> QED BY <1>1, <2>2, <2>3, <2>4
<1> QED BY <1>2, <1>3, <1>4, <1>6, <1>7 DEF LinkInv

LEMMA LinkCloseHandle ==
  ASSUME TypeOK, LinkInv, CloseHandle
  PROVE  LinkInv'
<1>1. /\ UNCHANGED <<reconnecting, stopped, monitor, late, writeMu, at, arg, conn>>
      /\ off = "close" /\ off' = "down" /\ Past /\ Past' /\ (Again' <=> Again)
      /\ open' = {} /\ handle' = None /\ ~connected'
  BY DEF CloseHandle, OffTo, picture, Past, Again, LinkInv, Held
<1>2. Mutex' /\ Blanking'
  BY <1>1, LinkIdle
<1>3. Held' /\ Early' /\ Alone' /\ Unread'
  BY <1>1 DEF LinkInv, Held, Early, Alone, Unread
<1>4. NotYet' /\ Quiet'
  BY <1>1 DEF LinkInv, NotYet, Quiet
<1>5. OneHandle' /\ StaysClosed'
  BY <1>1, <1>3 DEF OneHandle, StaysClosed, Held
<1> QED BY <1>2, <1>3, <1>4, <1>5 DEF LinkInv

LEMMA LinkStep == TypeOK /\ LinkInv /\ [Next]_vars => LinkInv'
<1> SUFFICES ASSUME TypeOK, LinkInv, [Next]_vars PROVE LinkInv'
  OBVIOUS
<1>1. CASE \E m \in Monitors : Monitor(m)
  BY <1>1, LinkMonitorMoves, LinkMonitorCloses, LinkMonitorConnects, LinkMonitorFails DEF Monitor
<1>2. CASE \E r \in Requests : Brightness(r) \/ Request(r)
  BY <1>2, WritersType, LinkRead, LinkLock, LinkSends DEF Request
<1>3. CASE Loop
  BY <1>3, WritersType, LinkRead, LinkLock, LinkSends, LinkLoopEnds DEF Loop
<1>4. CASE Off
  BY <1>4, WritersType, LinkRead, LinkLock, LinkSends, LinkWait, LinkDisconnect, LinkCloseHandle
     DEF Off
<1> QED BY <1>1, <1>2, <1>3, <1>4, LinkQuiet, LinkConnect, LinkWait DEF Next

LEMMA LinkAlways == Spec => [](TypeOK /\ LinkInv)
<1> QED BY InitType, NextType, InitLink, LinkStep, PTL DEF Spec

\* However often the cable is pulled, no handle is leaked, and a device that counts as
\* connected has one, for any number of handles, pictures and requests.
THEOREM OneHandleAlways == Spec => []OneHandle
<1>1. LinkInv => OneHandle
  BY DEF LinkInv
<1> QED BY <1>1, LinkAlways, PTL

\* Once Disconnect is done nothing opens the device again.
THEOREM StaysClosedAlways == Spec => []StaysClosed
<1>1. LinkInv => StaysClosed
  BY DEF LinkInv
<1> QED BY <1>1, LinkAlways, PTL

\* No handle is closed while a frame or a brightness is being written to it.
THEOREM CloseDrainsAlways == Spec => CloseDrains
<1>1. TypeOK /\ LinkInv /\ [Next]_vars =>
        [\A p \in Writers : (at[p] = "write" /\ arg[p] \in open) => arg[p] \in open']_vars
  <2> SUFFICES ASSUME TypeOK, LinkInv, [Next]_vars, NEW p \in Writers,
                      at[p] = "write", arg[p] \in open
               PROVE  arg[p] \in open'
    OBVIOUS
  <2>1. arg[p] = handle /\ handle # None /\ open = {handle} /\ writeMu = p /\ writeMu # None
    BY ConstantsAssumption DEF LinkInv, Held, Mutex, Writers
  <2>2. ~Connect \/ open' = open
    BY <2>1 DEF LinkInv, NotYet, Connect, Already, link
  <2>3. ASSUME NEW m \in Monitors, Monitor(m) PROVE open' = open
    <3>1. monitor[m] # "open"
      BY <2>1 DEF LinkInv, Alone, Unread
    <3> QED BY <2>1, <2>3, <3>1 DEF Monitor, MonitorStops, MonitorPolls, MonitorCloses,
            MonitorConnects, MonitorFails, link
  <2>4. Loop \/ Off \/ Cancel => open' = open
    BY <2>1 DEF Loop, Off, Cancel, LoopSends, LoopEnds, Lock, FrameSent, SendFails, Wait, SendBlank,
        BlankSent, NoBlank, Disconnect, CloseHandle, Read, link
  <2>5. ASSUME NEW r \in Requests, Brightness(r) \/ Request(r) PROVE open' = open
    BY <2>5 DEF Brightness, Request, Lock, BrightnessSet, Read, link
  <2>6. Unplug \/ Plug \/ RenderFrame \/ WatchDevice \/ UNCHANGED vars => open' = open
    BY DEF Unplug, Plug, RenderFrame, WatchDevice, vars, link
  <2> QED BY <2>2, <2>3, <2>4, <2>5, <2>6 DEF Next
<1> QED BY <1>1, LinkAlways, PTL DEF Spec, CloseDrains
=============================================================================
