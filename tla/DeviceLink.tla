------------------------------ MODULE DeviceLink ------------------------------
(***************************************************************************)
(* The display behind device.NexusDevice (internal/device/nexus.go) and    *)
(* the goroutines of App that use it: the render loop, the first Connect   *)
(* and the watcher after it, the monitor that reconnects, a request that   *)
(* sets the brightness, and Shutdown.  The cable may be pulled and put     *)
(* back at any moment.                                                     *)
(*                                                                         *)
(* What holds n.mu is one step.  writeMu is held over several: a frame is  *)
(* many packets, between which the device may go or ctx be cancelled.      *)
(***************************************************************************)
EXTENDS Naturals

CONSTANTS
  Handles,   (* usbHandle objects.  One nobody refers to any more is used again.     *)
  None,      (* The nil handle.                                                      *)
  Frames,    (* Pictures the manager may render.                                     *)
  Blank,     (* The black picture.                                                   *)
  Other,     (* What else may be on the display: half a frame, the firmware's logo.  *)
  Requests   (* HTTP requests to /api/device/brightness.                             *)

ASSUME ConstantsAssumption ==
  /\ None \notin Handles \cup Requests \cup {"loop", "off"}
  /\ Blank \notin Frames /\ Other \notin Frames /\ Blank # Other
  /\ "loop" \notin Requests /\ "off" \notin Requests

Writers  == {"loop", "off"} \cup Requests   \* the render loop, Shutdown, requests
Monitors == {1, 2}     \* monitorConnection, as they are started; a third is not followed

VARIABLES
  plugged, live,        \* the cable is in; handles opened since it was put in
  open,                 \* handles that are not closed
  handle, connected,    \* guarded by n.mu
  reconnecting, stopped,   \* a monitor has been started; its channel is closed
  writeMu,              \* who holds it, or None
  at, arg,              \* position of each writer, and the handle it has read
  monitor,              \* position of each monitor
  conn,                 \* of the goroutine that connects first: start, then watcher
  off,                  \* of Shutdown
  frame, lastSent, display,   \* rendered now, lastSentPix, on the display
  blanked,              \* the display was cleared after the last frame was sent
  late                  \* when Disconnect stopped the monitor, one took the clock instead of
                        \* the closed channel or was past it, or the watcher was still there

link == <<open, live, handle, connected, reconnecting, stopped>>
picture == <<frame, lastSent, display, blanked>>
vars == <<plugged, link, writeMu, at, arg, monitor, conn, off, picture, late>>

Cancelled == off # "no"
Ended(p) == at[p] = "gone"

TypeOK ==
  /\ plugged \in BOOLEAN /\ open \subseteq Handles /\ live \subseteq open
  /\ handle \in Handles \cup {None} /\ connected \in BOOLEAN
  /\ reconnecting \in BOOLEAN /\ stopped \in BOOLEAN
  /\ writeMu \in Writers \cup {None}
  /\ at \in [Writers -> {"idle", "lock", "write", "gone"}]
  /\ arg \in [Writers -> Handles \cup {None}]
  /\ monitor \in [Monitors -> {"none", "poll", "close", "settle", "open"}]
  /\ conn \in {"connect", "watch", "gone"}
  /\ off \in {"no", "cancelled", "blank", "stop", "close", "down"}
  /\ frame \in Frames /\ lastSent \in Frames \cup {Blank}
  /\ display \in Frames \cup {Blank, Other}
  /\ blanked \in BOOLEAN /\ late \in BOOLEAN

Init ==
  /\ plugged \in BOOLEAN /\ live = {} /\ open = {}
  /\ handle = None /\ connected = FALSE /\ reconnecting = FALSE /\ stopped = FALSE
  /\ writeMu = None
  /\ at = [p \in Writers |-> "idle"] /\ arg = [p \in Writers |-> None]
  /\ monitor = [m \in Monitors |-> "none"] /\ conn = "connect" /\ off = "no"
  /\ frame \in Frames /\ lastSent = Blank /\ display = Other
  /\ blanked = TRUE /\ late = FALSE

-----------------------------------------------------------------------------
(* The cable, and the picture to show *)

Unplug ==
  /\ plugged /\ plugged' = FALSE /\ live' = {} /\ display' = Other
  /\ UNCHANGED <<open, handle, connected, reconnecting, stopped, writeMu, at, arg, monitor,
                 conn, off, frame, lastSent, blanked, late>>

Plug ==
  /\ ~plugged /\ plugged' = TRUE
  /\ UNCHANGED <<link, writeMu, at, arg, monitor, conn, off, picture, late>>

RenderFrame ==
  /\ at["loop"] = "idle"
  /\ frame' \in Frames \ {frame}
  /\ UNCHANGED <<plugged, link, writeMu, at, arg, monitor, conn, off, lastSent, display,
                 blanked, late>>

-----------------------------------------------------------------------------
(* connectOnce, under n.mu *)

\* h is a new object: nobody has it.
New(h) == h \notin open /\ h # handle /\ \A p \in Writers : arg[p] # h

\* The device is found, opened and, if that works, cleared.  (A monitor that runs goes on.)
Connected(h) ==
  /\ plugged /\ New(h)
  /\ open' = (open \ {handle}) \cup {h} /\ live' = (live \ {handle}) \cup {h}
  /\ handle' = h /\ connected' = TRUE /\ reconnecting' = TRUE
  /\ stopped' = (stopped /\ reconnecting)
  /\ display' \in {Blank, Other} /\ blanked' = TRUE

\* Not there, no permission, or busy.
NotConnected ==
  /\ open' = open \ {handle} /\ live' = live \ {handle} /\ handle' = None
  /\ UNCHANGED <<connected, reconnecting, stopped, display, blanked>>

Already ==
  /\ connected /\ handle # None
  /\ UNCHANGED <<link, display, blanked>>

\* The monitors when one may have been started.
Watched(ms) ==
  IF reconnecting THEN ms
  ELSE [m \in Monitors |->
         IF ms[m] = "none" /\ \A k \in 1..(m - 1) : ms[k] # "none" THEN "poll" ELSE ms[m]]

-----------------------------------------------------------------------------
(* The first Connect, which tries again, and the watcher *)

Connect ==
  /\ conn = "connect"
  /\ \/ Already /\ conn' = "gone" /\ UNCHANGED monitor
     \/ /\ ~(connected /\ handle # None)
        /\ \/ \E h \in Handles : Connected(h) /\ conn' = "gone" /\ monitor' = Watched(monitor)
           \/ NotConnected /\ conn' \in {"connect", "watch"} /\ UNCHANGED monitor
  /\ UNCHANGED <<plugged, writeMu, at, arg, off, frame, lastSent, late>>

\* Between two attempts, and on its ticker, it looks at ctx.
WatchDevice ==
  /\ \/ conn \in {"connect", "watch"} /\ Cancelled /\ conn' = "gone"
     \/ conn = "watch" /\ conn' = IF connected THEN "gone" ELSE "connect"
  /\ UNCHANGED <<plugged, link, writeMu, at, arg, monitor, off, picture, late>>

-----------------------------------------------------------------------------
(* monitorConnection *)

MonitorTo(m, step) == monitor' = [monitor EXCEPT ![m] = step]

\* A closed channel may be taken instead of the clock ...
MonitorStops(m) ==
  /\ monitor[m] \in {"poll", "settle"} /\ stopped
  /\ MonitorTo(m, "none")
  /\ UNCHANGED <<plugged, link, writeMu, at, arg, conn, off, picture, late>>

\* ... or not.  A healthy device is left alone.
MonitorPolls(m) ==
  /\ \/ monitor[m] = "poll" /\ ~connected /\ MonitorTo(m, "close")
     \/ monitor[m] = "settle" /\ MonitorTo(m, "open")
  /\ late' = (late \/ stopped)
  /\ UNCHANGED <<plugged, link, writeMu, at, arg, conn, off, picture>>

\* Mutant: the handle is closed under n.mu alone.
MutMonitorCloses(m) ==
  /\ monitor[m] = "close"
  /\ open' = open \ {handle} /\ live' = live \ {handle} /\ handle' = None
  /\ MonitorTo(m, "settle")
  /\ UNCHANGED <<plugged, connected, reconnecting, stopped, writeMu, at, arg, conn, off,
                 picture, late>>

\* Mutant: the handle is forgotten and not closed.
MutMonitorForgets(m) ==
  /\ monitor[m] = "close" /\ writeMu = None
  /\ handle' = None
  /\ MonitorTo(m, "settle")
  /\ UNCHANGED <<plugged, open, live, connected, reconnecting, stopped, writeMu, at, arg,
                 conn, off, picture, late>>

\* Under writeMu and n.mu.
MonitorCloses(m) ==
  /\ monitor[m] = "close" /\ writeMu = None
  /\ open' = open \ {handle} /\ live' = live \ {handle} /\ handle' = None
  /\ MonitorTo(m, "settle")
  /\ UNCHANGED <<plugged, connected, reconnecting, stopped, writeMu, at, arg, conn, off,
                 picture, late>>

MonitorConnects(m) ==
  /\ monitor[m] = "open" /\ ~(connected /\ handle # None)
  /\ \E h \in Handles : Connected(h) /\ monitor' = Watched([monitor EXCEPT ![m] = "poll"])
  /\ UNCHANGED <<plugged, writeMu, at, arg, conn, off, frame, lastSent, late>>

\* Mutant: the monitor ends when it could not connect.
MutMonitorFails(m) ==
  /\ monitor[m] = "open" /\ MonitorTo(m, "none")
  /\ IF connected /\ handle # None THEN Already ELSE NotConnected
  /\ UNCHANGED <<plugged, writeMu, at, arg, conn, off, frame, lastSent, late>>

\* One attempt; or somebody else has connected.
MonitorFails(m) ==
  /\ monitor[m] = "open" /\ MonitorTo(m, "poll")
  /\ IF connected /\ handle # None THEN Already ELSE NotConnected
  /\ UNCHANGED <<plugged, writeMu, at, arg, conn, off, frame, lastSent, late>>

-----------------------------------------------------------------------------
(* SendFrame and SetBrightness *)

AtTo(p, step, h) == at' = [at EXCEPT ![p] = step] /\ arg' = [arg EXCEPT ![p] = h]

\* Mutant: writeMu is not unlocked.
MutReturn(p) == AtTo(p, "idle", None) /\ UNCHANGED writeMu

Return(p) == AtTo(p, "idle", None) /\ writeMu' = None

\* The handle is read under n.mu; writeMu is taken after that.
Read(p) ==
  /\ at[p] = "idle" /\ connected /\ handle # None
  /\ AtTo(p, "lock", handle)
  /\ UNCHANGED <<plugged, link, writeMu, monitor, conn, off, picture, late>>

\* The render loop sends what it has not sent before; the others are free to.
LoopSends == ~Cancelled /\ frame # lastSent /\ Read("loop")
Brightness(r) == ~(off \in {"stop", "close", "down"}) /\ Read(r)
SendBlank == off = "blank" /\ Read("off")

Lock(p) ==
  /\ at[p] = "lock" /\ writeMu = None
  /\ writeMu' = p /\ at' = [at EXCEPT ![p] = "write"]
  /\ UNCHANGED <<plugged, link, arg, monitor, conn, off, picture, late>>

FrameSent ==
  /\ at["loop"] = "write" /\ arg["loop"] \in live
  /\ display' = frame /\ lastSent' = frame /\ blanked' = FALSE
  /\ Return("loop")
  /\ UNCHANGED <<plugged, link, monitor, conn, off, frame, late>>

BlankSent ==
  /\ at["off"] = "write" /\ arg["off"] \in live
  /\ display' = Blank /\ blanked' = TRUE
  /\ Return("off") /\ off' = "stop"
  /\ UNCHANGED <<plugged, link, monitor, conn, frame, lastSent, late>>

\* Mutant: a frame that failed leaves the device connected.
MutSendFails(p) ==
  /\ at[p] = "write"
  /\ Return(p) /\ off' = IF p = "off" THEN "stop" ELSE off
  /\ display' \in IF arg[p] \in live THEN {display, Other} ELSE {display}
  /\ UNCHANGED <<plugged, link, monitor, conn, frame, lastSent, blanked, late>>

\* The handle is closed, the device gone, a transfer is slow, or ctx was cancelled between two
\* packets: whatever it is, the device counts as disconnected.
SendFails(p) ==
  /\ at[p] = "write"
  /\ connected' = FALSE
  /\ Return(p) /\ off' = IF p = "off" THEN "stop" ELSE off
  /\ display' \in IF arg[p] \in live THEN {display, Other} ELSE {display}
  /\ UNCHANGED <<plugged, open, live, handle, reconnecting, stopped, monitor, conn,
                 frame, lastSent, blanked, late>>

\* It succeeds or not; nobody is told.
BrightnessSet(r) ==
  /\ at[r] = "write"
  /\ Return(r)
  /\ UNCHANGED <<plugged, link, monitor, conn, off, picture, late>>

LoopEnds ==
  /\ Cancelled /\ at["loop"] = "idle"
  /\ AtTo("loop", "gone", None)
  /\ UNCHANGED <<plugged, link, writeMu, monitor, conn, off, picture, late>>

-----------------------------------------------------------------------------
(* Shutdown *)

OffTo(step) ==
  /\ off' = step
  /\ UNCHANGED <<plugged, writeMu, at, arg, conn, picture>>

Cancel == off = "no" /\ OffTo("cancelled") /\ UNCHANGED <<link, monitor, late>>

\* wg.Wait, for 5 s at most: what is not at its end by then is not waited for.
Wait ==
  /\ off = "cancelled"
  /\ OffTo(IF connected THEN "blank" ELSE "stop")
  /\ UNCHANGED <<link, monitor, late>>

\* SendFrame finds the device gone.
NoBlank ==
  /\ off = "blank" /\ at["off"] = "idle" /\ ~(connected /\ handle # None)
  /\ OffTo("stop") /\ UNCHANGED <<link, monitor, late>>

\* Mutant: the monitor is not told to stop.
MutDisconnect ==
  /\ off = "stop" /\ OffTo("close")
  /\ reconnecting' = FALSE
  /\ late' = (conn # "gone" \/ \E m \in Monitors : monitor[m] \in {"close", "open"})
  /\ UNCHANGED <<open, live, handle, connected, stopped, monitor>>

\* Disconnect: the channel is closed without a mutex ...
Disconnect ==
  /\ off = "stop" /\ OffTo("close")
  /\ stopped' = (stopped \/ reconnecting) /\ reconnecting' = FALSE
  /\ late' = (conn # "gone" \/ \E m \in Monitors : monitor[m] \in {"close", "open"})
  /\ UNCHANGED <<open, live, handle, connected, monitor>>

\* ... and the handle under writeMu and n.mu.
CloseHandle ==
  /\ off = "close" /\ writeMu = None /\ OffTo("down")
  /\ open' = open \ {handle} /\ live' = live \ {handle}
  /\ handle' = None /\ connected' = FALSE
  /\ UNCHANGED <<reconnecting, stopped, monitor, late>>

-----------------------------------------------------------------------------
Loop == LoopSends \/ LoopEnds \/ Lock("loop") \/ FrameSent \/ SendFails("loop")
Off == Wait \/ SendBlank \/ Lock("off") \/ BlankSent \/ SendFails("off") \/ NoBlank
         \/ Disconnect \/ CloseHandle
Request(r) == Lock(r) \/ BrightnessSet(r)
Monitor(m) == MonitorStops(m) \/ MonitorPolls(m) \/ MonitorCloses(m)
                \/ MonitorConnects(m) \/ MonitorFails(m)

Next ==
  \/ Unplug \/ Plug \/ RenderFrame \/ Connect \/ WatchDevice
  \/ \E m \in Monitors : Monitor(m)
  \/ \E r \in Requests : Brightness(r) \/ Request(r)
  \/ Loop \/ Cancel \/ Off

Spec == Init /\ [][Next]_vars

Opens == (Connect /\ connected') \/ \E m \in Monitors : MonitorConnects(m)

\* Goroutines go on and get the mutexes they wait for, a device that is there is opened by
\* one attempt of many, and the picture changes again and again (a clock is on it) while the
\* loop, at 30 Hz, looks.  Nothing is assumed of cables, new requests and Shutdown.
Fairness ==
  /\ WF_vars(RenderFrame) /\ SF_vars(Loop) /\ SF_vars(Off)
  /\ WF_vars(WatchDevice) /\ WF_vars(Connect) /\ SF_vars(Opens)
  /\ \A r \in Requests : SF_vars(Request(r))
  /\ \A m \in Monitors : SF_vars(Monitor(m))

FairSpec == Spec /\ Fairness

-----------------------------------------------------------------------------
(* Properties *)

\* "This ordering prevents closing the fd under a concurrent write": no step closes a
\* handle to which a frame or a brightness is being written.
CloseDrains ==
  [][\A p \in Writers : (at[p] = "write" /\ arg[p] \in open) => arg[p] \in open']_vars

\* A device that counts as connected has an open handle, and no other handle is open: none
\* is leaked by reconnecting, however often the cable is pulled.  (A monitor that outlives
\* Disconnect may start a second one, and one then closes what the other has opened.)
OneHandle ==
  /\ open = {handle} \ {None}
  /\ (connected /\ ~late) => handle # None

\* "if connected and the frame has changed": a frame that is skipped because it was the
\* last one sent is on the display, unless the device was cleared since, or is gone.
SkippedIsShown ==
  (connected /\ handle \in live /\ writeMu = None /\ ~blanked) => display = lastSent

\* After Disconnect nothing opens the device again, unless a monitor was past its last look
\* at the channel by then.
StaysClosed == (off = "down" /\ ~late) => open = {}

\* Plugged in, the device is connected in the end, although nobody notices it missing but
\* by a frame that cannot be sent.
Reconnects == plugged ~> ((connected /\ handle \in live) \/ ~plugged \/ Cancelled)

\* Shutdown ends, wherever it found the others.
ShutdownEnds == Cancelled ~> off = "down"

\* "Send a blank frame so the device shows black rather than frozen content."
ShutdownBlanks == off = "down" => (display = Blank \/ ~plugged)
=============================================================================
