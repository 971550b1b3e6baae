---------------------------- MODULE PluginSampler ----------------------------
(***************************************************************************)
(* The sampling of one zone: zone.Sampler (internal/zone/sampler.go and    *)
(* sampler_crash.go) on top of the plugin host (internal/plugins/host).    *)
(* Zones share nothing but the mutexes s.mu and h.mu, so one zone stands   *)
(* for all; what the code does under one of the two mutexes is one step.   *)
(*                                                                         *)
(* A zone is sampled by a goroutine, its sample loop.  RestartZone cancels *)
(* the loop and starts another without waiting for the first to end, so    *)
(* several loops of one zone exist at a time.  Plugin instances and loops  *)
(* are numbered in the order they are made.                                *)
(***************************************************************************)
EXTENDS Naturals, Sequences

CONSTANTS
  Execs,      (* The exec: plugins a zone may be given: subprocesses.          *)
  Builtins,   (* The builtin: plugins: Go values made by a factory.            *)
  NoSpec,     (* s.pluginSpec has no entry for the zone.                       *)
  Cyclers,    (* Goroutines that cycle the zone's plugin: taps, debug taps.    *)
  MaxLoops,   (* Sample loops started.  Bounds the model.                      *)
  MaxMade     (* Plugin instances made.  Bounds the model.                     *)

Specs == Execs \cup Builtins

ASSUME ConstantsAssumption ==
  /\ Execs \cap Builtins = {}
  /\ NoSpec \notin Specs
  /\ MaxLoops \in Nat /\ MaxMade \in Nat

VARIABLES
  phase,     \* of the process: "new", "started", "stopping" (ctx is done), "stopped"
  spec,      \* s.pluginSpec of the zone
  module,    \* s.modules of the zone, 0 when it has none
  current,   \* the loop whose cancel function s.cancelFuncs has, 0 when it has none
  client,    \* h.clients of the zone: the instance the host knows, 0 when none
  origin,    \* origin[i]: the plugin that instance i is
  alive,     \* the instances whose subprocess runs
  hung,      \* ... those of them that do not answer
  late,      \* history: the instances started after their launch was given up
  loops,     \* loops[l]: position, context and locals of sample loop l
  cyclers,   \* cyclers[c]: position in RestartZone, and the plugin to start
  shown      \* the loop that last set the zone's payload and status, 0 for none

vars == <<phase, spec, module, current, client, origin, alive, hung, late, loops,
          cyclers, shown>>

host == <<client, origin, alive, hung, late>>
tables == <<spec, module, current>>

\* after: what comes after the sample; dead: the last sample timed out; want: the
\* plugin to relaunch.
Loop == [at : {"sample", "write", "enter", "select", "check", "evict", "mark",
               "backoff", "relaunch", "store", "done"},
         after : {"enter", "check", "select"},
         dead : BOOLEAN, mod : 1..MaxMade, exec : BOOLEAN, want : Specs \cup {NoSpec},
         cancelled : BOOLEAN]

\* The locals of a loop that has ended are of no more use.
EndedLoop == [at |-> "done", after |-> "enter", dead |-> FALSE, mod |-> 1,
              exec |-> FALSE, want |-> NoSpec, cancelled |-> TRUE]

NewLoop(i) == [at |-> "sample", after |-> "enter", dead |-> FALSE, mod |-> i,
               exec |-> FALSE, want |-> NoSpec, cancelled |-> FALSE]

Cycler == [at : {"idle", "evict", "start"}, spec : Specs \cup {NoSpec}]
IdleCycler == [at |-> "idle", spec |-> NoSpec]

TypeOK ==
  /\ phase \in {"new", "started", "stopping", "stopped"}
  /\ spec \in Specs \cup {NoSpec}
  /\ origin \in Seq(Specs) /\ Len(origin) <= MaxMade
  /\ module \in 0..Len(origin)
  /\ client \in 0..Len(origin)
  /\ hung \subseteq alive /\ alive \subseteq 1..Len(origin)
  /\ late \subseteq 1..Len(origin)
  /\ loops \in Seq(Loop) /\ Len(loops) <= MaxLoops
  /\ \A l \in DOMAIN loops : loops[l].mod <= Len(origin)
  /\ current \in 0..Len(loops)
  /\ cyclers \in [Cyclers -> Cycler]
  /\ shown \in 0..Len(loops)

Init ==
  /\ phase = "new"
  /\ spec = NoSpec /\ module = 0 /\ current = 0
  /\ client = 0 /\ origin = <<>> /\ alive = {} /\ hung = {} /\ late = {}
  /\ loops = <<>>
  /\ cyclers = [c \in Cyclers |-> IdleCycler]
  /\ shown = 0

Done == phase \in {"stopping", "stopped"}
Cancelled(l) == loops[l].cancelled \/ Done

-----------------------------------------------------------------------------
(* plugins/host *)

Fresh == Len(origin) + 1

\* A factory makes a builtin plugin.
Build(p) ==
  /\ p \in Builtins /\ Len(origin) < MaxMade
  /\ origin' = Append(origin, p)
  /\ UNCHANGED <<client, alive, hung, late>>

\* A goroutine of LaunchPlugin starts the subprocess.
Exec(p) ==
  /\ p \in Execs /\ client = 0 /\ Len(origin) < MaxMade
  /\ origin' = Append(origin, p)
  /\ alive' = alive \cup {Fresh}
  /\ UNCHANGED hung

\* LaunchPlugin starts a subprocess: with a context that is done already the launch
\* is given up long before the handshake is over.
Launch(p) == Exec(p) /\ client' = Fresh /\ UNCHANGED late

\* LaunchPlugin hands out the instance the host knows, whatever plugin that is.
Reuse(p) == p \in Execs /\ client # 0 /\ UNCHANGED host

\* Given up before the goroutine has started the subprocess: Kill finds nothing to
\* kill yet, the process is started afterwards, and nobody knows of it.
LateLaunch(p) == Exec(p) /\ late' = late \cup {Fresh} /\ UNCHANGED client

\* LaunchPlugin fails: no such binary, no handshake, or its context is done, which it
\* heeds at once.
LaunchFails(p, done) ==
  /\ client = 0
  /\ \/ UNCHANGED host
     \/ done /\ LateLaunch(p)

\* Mutant: the record is deleted and the subprocess left running.
MutEvict ==
  /\ client' = 0
  /\ UNCHANGED <<alive, hung, late, origin>>

Evict ==
  /\ client' = 0
  /\ alive' = alive \ {client} /\ hung' = hung \ {client}
  /\ UNCHANGED <<late, origin>>

IsAlive == client \in alive

\* The subprocess of an instance exits, or stops answering.
Crash(i) ==
  /\ i \in alive
  /\ alive' = alive \ {i} /\ hung' = hung \ {i}
  /\ UNCHANGED <<phase, tables, client, origin, late, loops, cyclers, shown>>

Hang(i) ==
  /\ i \in alive \ hung
  /\ hung' = hung \cup {i}
  /\ UNCHANGED <<phase, tables, client, origin, alive, late, loops, cyclers, shown>>

-----------------------------------------------------------------------------
(* startZoneSampling, alone on s.mu from beginning to end *)

StartLoop(p, i) ==
  /\ Len(loops) < MaxLoops
  /\ module' = i /\ spec' = p
  /\ loops' = Append(loops, NewLoop(i))
  /\ current' = Len(loops) + 1

startZoneSampling(p) ==
  \/ Build(p) /\ StartLoop(p, Fresh)
  \/ ~Done /\ Launch(p) /\ StartLoop(p, Fresh)
  \/ Reuse(p) /\ StartLoop(p, client)

Start(p) ==
  /\ phase = "new"
  /\ phase' = "started"
  /\ \/ startZoneSampling(p) /\ UNCHANGED shown
     \/ p \in Execs /\ LaunchFails(p, Done) /\ UNCHANGED <<tables, loops, shown>>
  /\ UNCHANGED cyclers

-----------------------------------------------------------------------------
(* RestartZone *)

\* Mutant: the old loop is forgotten and goes on.
MutRestartCancel(c, p) ==
  /\ phase # "new" /\ cyclers[c].at = "idle"
  /\ cyclers' = [cyclers EXCEPT ![c] = [at |-> "evict", spec |-> p]]
  /\ current' = 0
  /\ IF current = 0 THEN UNCHANGED <<spec, module>> ELSE spec' = NoSpec /\ module' = 0
  /\ UNCHANGED <<phase, host, loops, shown>>

\* The loop is cancelled and its entries go, ...
RestartCancel(c, p) ==
  /\ phase # "new" /\ cyclers[c].at = "idle"
  /\ cyclers' = [cyclers EXCEPT ![c] = [at |-> "evict", spec |-> p]]
  /\ IF current = 0 THEN UNCHANGED <<tables, loops>>
     ELSE /\ loops' = [loops EXCEPT ![current].cancelled = TRUE]
          /\ current' = 0 /\ spec' = NoSpec /\ module' = 0
  /\ UNCHANGED <<phase, host, shown>>

\* Mutant: the subprocess of the plugin before is left to the host.
MutRestartEvict(c) ==
  /\ cyclers[c].at = "evict"
  /\ cyclers' = [cyclers EXCEPT ![c].at = "start"]
  /\ UNCHANGED <<phase, tables, host, loops, shown>>

\* ... its subprocess is killed, ...
RestartEvict(c) ==
  /\ cyclers[c].at = "evict"
  /\ Evict
  /\ cyclers' = [cyclers EXCEPT ![c].at = "start"]
  /\ UNCHANGED <<phase, tables, loops, shown>>

\* ... and the new plugin is started.  A failure goes to the log only.
RestartStart(c) ==
  /\ cyclers[c].at = "start"
  /\ \/ startZoneSampling(cyclers[c].spec)
     \/ /\ cyclers[c].spec \in Execs /\ LaunchFails(cyclers[c].spec, Done)
        /\ UNCHANGED <<tables, loops>>
  /\ cyclers' = [cyclers EXCEPT ![c] = IdleCycler]
  /\ UNCHANGED <<phase, shown>>

-----------------------------------------------------------------------------
(* sampleLoop *)

At(l, at) == l \in DOMAIN loops /\ loops[l].at = at
Goto(l, at) == loops' = [loops EXCEPT ![l].at = at]
End(l) == loops' = [loops EXCEPT ![l] = EndedLoop]
Show(l) == shown' = l

\* Mutant: nothing bounds the wait for an answer.
MutAnswers(i) ==
  IF origin[i] \in Builtins THEN {"ok"}
  ELSE IF i \in hung THEN {}
  ELSE IF i \in alive THEN {"ok", "error"} ELSE {"error"}

\* What a call of Sample on instance i can end with: a subprocess that runs may be
\* too slow, one that is gone breaks the connection.
Answers(i) ==
  IF origin[i] \in Builtins THEN {"ok"}
  ELSE IF i \in hung THEN {"timeout"}
  ELSE IF i \in alive THEN {"ok", "error", "timeout"} ELSE {"error"}

\* sampleOnce waits for the answer or the context.  A cancelled loop drops an answer
\* and a timeout; an error it reports all the same.
SampleOnce(l) ==
  /\ At(l, "sample")
  /\ \/ \E r \in Answers(loops[l].mod) :
          /\ r = "error" \/ ~Cancelled(l)
          /\ loops' = [loops EXCEPT ![l].dead = (r = "timeout"), ![l].at = "write"]
     \/ /\ Cancelled(l)
        /\ loops' = [loops EXCEPT ![l].dead = FALSE, ![l].at = loops[l].after]
  /\ UNCHANGED <<phase, tables, host, cyclers, shown>>

\* The result becomes the zone's payload and status; the context is not looked at
\* again.  Only a tick asks afterwards whether it was a timeout.
WriteSample(l) ==
  /\ At(l, "write")
  /\ Show(l)
  /\ loops' = [loops EXCEPT ![l].at = loops[l].after,
                ![l].dead = @ /\ loops[l].after = "check"]
  /\ UNCHANGED <<phase, tables, host, cyclers>>

\* After its first sample the loop finds out whether the zone has a subprocess.
Enter(l) ==
  /\ At(l, "enter")
  /\ loops' = [loops EXCEPT ![l].exec = (spec \in Execs), ![l].at = "select"]
  /\ UNCHANGED <<phase, tables, host, cyclers, shown>>

\* The select of the loop takes any case that is ready: the context, the ticker or
\* the trigger of a configuration change.
EndLoop(l) ==
  /\ At(l, "select") /\ Cancelled(l)
  /\ End(l)
  /\ UNCHANGED <<phase, tables, host, cyclers, shown>>

Sample(l, after) ==
  /\ At(l, "select")
  /\ loops' = [loops EXCEPT ![l].at = "sample", ![l].after = after]
  /\ UNCHANGED <<phase, tables, host, cyclers, shown>>

Tick(l)    == Sample(l, "check")
Trigger(l) == Sample(l, "select")

\* Mutant: only a timeout counts as a crash.
MutCrashed(l) == loops[l].exec /\ loops[l].dead

\* What the loop takes for a crash: a sample that timed out, or a zone whose
\* subprocess has exited or is unknown to the host.
Crashed(l) == loops[l].exec /\ (loops[l].dead \/ ~IsAlive)

Check(l) ==
  /\ At(l, "check")
  /\ loops' = [loops EXCEPT ![l].dead = FALSE,
                ![l].at = IF Crashed(l) THEN "evict" ELSE "select"]
  /\ UNCHANGED <<phase, tables, host, cyclers, shown>>

-----------------------------------------------------------------------------
(* handlePluginCrash *)

\* It evicts whatever the host knows for the zone, ...
CrashEvict(l) ==
  /\ At(l, "evict")
  /\ Evict
  /\ Goto(l, "mark")
  /\ UNCHANGED <<phase, tables, cyclers, shown>>

CrashMark(l) ==
  /\ At(l, "mark")
  /\ Show(l)
  /\ Goto(l, "backoff")
  /\ UNCHANGED <<phase, tables, host, cyclers>>

\* Mutant: the wait for the backoff does not heed the context, and starts over.
MutCrashBackoff(l) ==
  /\ At(l, "backoff")
  /\ loops' = IF Cancelled(l) THEN loops
              ELSE [loops EXCEPT ![l].want = spec, ![l].at = "relaunch"]
  /\ UNCHANGED <<phase, tables, host, cyclers, shown>>

\* ... waits for the context or the backoff, and reads the zone's plugin of then.
CrashBackoff(l) ==
  /\ At(l, "backoff")
  /\ \/ Cancelled(l) /\ End(l)
     \/ loops' = [loops EXCEPT ![l].want = spec, ![l].at = "relaunch"]
  /\ UNCHANGED <<phase, tables, host, cyclers, shown>>

\* A launch that fails ends the loop.  The name of a builtin plugin, or none, is no
\* binary and always fails.
RelaunchFails(l) ==
  /\ At(l, "relaunch") /\ LaunchFails(loops[l].want, Cancelled(l))
  /\ Show(l)
  /\ End(l)
  /\ UNCHANGED <<phase, tables, cyclers>>

Relaunch(l) ==
  /\ At(l, "relaunch")
  /\ \/ /\ ~Cancelled(l) /\ Launch(loops[l].want)
        /\ loops' = [loops EXCEPT ![l].mod = Fresh, ![l].want = NoSpec, ![l].at = "store"]
     \/ /\ client # 0 /\ UNCHANGED host
        /\ loops' = [loops EXCEPT ![l].mod = client, ![l].want = NoSpec, ![l].at = "store"]
  /\ UNCHANGED <<phase, tables, cyclers, shown>>

\* The new instance goes into s.modules, and is sampled at once.
CrashStore(l) ==
  /\ At(l, "store")
  /\ module' = loops[l].mod
  /\ Show(l)
  /\ loops' = [loops EXCEPT ![l].at = "sample", ![l].after = "select"]
  /\ UNCHANGED <<phase, spec, current, host, cyclers>>

-----------------------------------------------------------------------------
(* Shutdown *)

\* App.Shutdown cancels the context every loop hangs on, then calls Stop.
Cancel ==
  /\ phase = "started"
  /\ phase' = "stopping"
  /\ UNCHANGED <<tables, host, loops, cyclers, shown>>

\* Mutant: StopAll forgets the processes without killing them.
MutStop ==
  /\ phase = "stopping" /\ \A l \in DOMAIN loops : At(l, "done")
  /\ phase' = "stopped"
  /\ client' = 0
  /\ UNCHANGED <<tables, alive, hung, late, origin, loops, cyclers, shown>>

\* Stop waits for the loops, then StopAll kills what the host knows.
Stop ==
  /\ phase = "stopping" /\ \A l \in DOMAIN loops : At(l, "done")
  /\ phase' = "stopped"
  /\ Evict
  /\ UNCHANGED <<tables, loops, cyclers, shown>>

-----------------------------------------------------------------------------
LoopStep(l) ==
  \/ SampleOnce(l) \/ WriteSample(l) \/ Enter(l) \/ Check(l) \/ CrashEvict(l)
  \/ CrashMark(l) \/ CrashBackoff(l) \/ RelaunchFails(l) \/ Relaunch(l) \/ CrashStore(l)

Next ==
  \/ \E p \in Specs : Start(p) \/ \E c \in Cyclers : RestartCancel(c, p)
  \/ \E c \in Cyclers : RestartEvict(c) \/ RestartStart(c)
  \/ \E l \in 1..MaxLoops : LoopStep(l) \/ EndLoop(l) \/ Tick(l) \/ Trigger(l)
  \/ \E i \in 1..MaxMade : Crash(i) \/ Hang(i)
  \/ Cancel \/ Stop

Spec == Init /\ [][Next]_vars

\* Each loop goes on; a select that is offered the context or the ticker again and
\* again takes it (Go picks at random among the ready cases).  Triggers are not owed.
Fairness ==
  \A l \in 1..MaxLoops :
    WF_vars(LoopStep(l)) /\ SF_vars(EndLoop(l)) /\ SF_vars(Tick(l))

FairSpec == Spec /\ Fairness

-----------------------------------------------------------------------------
(* Properties *)

Live(l) == l \in DOMAIN loops /\ ~Cancelled(l) /\ loops[l].at # "done"

\* However restarts, crashes and relaunches interleave, the zone has one loop that
\* is not cancelled: two would take turns on the display and on the subprocess.
\* (RestartZone of one goroutine at a time.)
OneLiveLoop == \A l, k \in DOMAIN loops : Live(l) /\ Live(k) => l = k

\* The host knows every subprocess that runs, and can kill it: but for those whose
\* launch was given up before it had started them.
NoStrayProcess == alive \subseteq {client} \cup late

\* Once Stop has returned no subprocess runs, and none is started any more ("Must
\* happen after wg.Wait so we don't race a goroutine mid-LaunchPlugin"): but for those
\* which Stop, cancelling the launch, has itself made the host lose.
StopKillsAll == phase = "stopped" => alive \subseteq late

\* The loop that is not cancelled samples the plugin the zone was given: LaunchPlugin
\* asks for no more than the zone before it hands out a process that runs already,
\* so it takes RestartZone's Evict to get another plugin.
LiveLoopSpec == \A l \in DOMAIN loops : Live(l) => origin[loops[l].mod] = spec

\* The instance that taps and configuration changes reach is the one on display
\* ("Update the modules map so BroadcastConfigChange finds the new instance").
ModuleIsSampled ==
  \A l \in DOMAIN loops : Live(l) /\ At(l, "select") => module = loops[l].mod

\* A loop that is not cancelled and has lost its subprocess gets another one, or
\* ends in the error state.
CrashNoticed ==
  \A l \in 1..MaxLoops :
    []<>(Live(l) /\ origin[loops[l].mod] \in Execs => loops[l].mod \in alive)

\* Whatever a cancelled loop or a plugin that hangs did to the zone, what the loop
\* that is not cancelled found out gets on display again; and a cancelled loop, which
\* stays cancelled, ends: no goroutine piles up behind a restart.
LoopShowsOrEnds ==
  \A l \in 1..MaxLoops :
    []<>(/\ Live(l) => shown = l
         /\ l \in DOMAIN loops /\ Cancelled(l) => At(l, "done"))
=============================================================================
