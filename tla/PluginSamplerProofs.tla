------------------------- MODULE PluginSamplerProofs -------------------------
(***************************************************************************)
(* Proofs about PluginSampler, for any number of plugins, loops and        *)
(* instances.  NoStrayProcess and StopKillsAll hold however many           *)
(* goroutines cycle the zone; OneLiveLoop and LiveLoopSpec need that it is *)
(* one (OneCycler).                                                        *)
(***************************************************************************)
EXTENDS PluginSampler, TLAPS

-----------------------------------------------------------------------------
(* Types *)

\* What the host holds, and what the sampler and its loops hold.
HostType ==
  /\ origin \in Seq(Specs) /\ Len(origin) <= MaxMade
  /\ client \in 0..Len(origin)
  /\ hung \subseteq alive /\ alive \subseteq 1..Len(origin)
  /\ late \subseteq 1..Len(origin)

LoopsType ==
  /\ loops \in Seq(Loop) /\ Len(loops) <= MaxLoops
  /\ \A l \in DOMAIN loops : loops[l].mod <= Len(origin)

TablesType ==
  /\ phase \in {"new", "started", "stopping", "stopped"}
  /\ spec \in Specs \cup {NoSpec}
  /\ module \in 0..Len(origin)
  /\ current \in 0..Len(loops)
  /\ cyclers \in [Cyclers -> Cycler]
  /\ shown \in 0..Len(loops)

LEMMA TypeParts == TypeOK <=> HostType /\ LoopsType /\ TablesType
BY DEF TypeOK, HostType, LoopsType, TablesType

LEMMA TypePartsNext == HostType' /\ LoopsType' /\ TablesType' => TypeOK'
BY DEF TypeOK, HostType, LoopsType, TablesType

\* A loop is replaced by another record of its type.
LEMMA PutLoop ==
  ASSUME LoopsType, NEW l \in DOMAIN loops, NEW r \in Loop, r.mod <= Len(origin'),
         loops' = [loops EXCEPT ![l] = r], Len(origin') >= Len(origin), Len(origin') \in Nat,
         Len(origin) \in Nat
  PROVE  LoopsType' /\ Len(loops') = Len(loops)
<1>1. loops' \in Seq(Loop) /\ Len(loops') = Len(loops) /\ DOMAIN loops' = DOMAIN loops
  BY DEF LoopsType
<1>2. ASSUME NEW k \in DOMAIN loops' PROVE loops'[k].mod <= Len(origin')
  <2>1. CASE k = l
    BY <1>1, <2>1 DEF LoopsType, Loop
  <2>2. CASE k # l
    <3>1. loops'[k] = loops[k] /\ loops[k] \in Loop /\ loops[k].mod <= Len(origin)
      BY <1>1, <2>2 DEF LoopsType
    <3>2. loops[k].mod \in Nat
      BY <3>1 DEF Loop
    <3> QED BY <3>1, <3>2
  <2> QED BY <2>1, <2>2
<1> QED BY <1>1, <1>2 DEF LoopsType

LEMMA SameLoops ==
  ASSUME LoopsType, loops' = loops, Len(origin') >= Len(origin), Len(origin') \in Nat,
         Len(origin) \in Nat
  PROVE  LoopsType'
<1>1. ASSUME NEW l \in DOMAIN loops PROVE loops[l].mod <= Len(origin')
  <2>1. loops[l] \in Loop /\ loops[l].mod <= Len(origin)
    BY DEF LoopsType
  <2>2. loops[l].mod \in Nat
    BY <2>1 DEF Loop
  <2> QED BY <2>1, <2>2
<1> QED BY <1>1 DEF LoopsType

LEMMA InitType == Init => TypeOK
<1> SUFFICES ASSUME Init PROVE TypeOK
  OBVIOUS
<1>1. origin = <<>> /\ loops = <<>> /\ Len(origin) = 0 /\ Len(loops) = 0 /\ DOMAIN loops = {}
  BY DEF Init
<1>2. IdleCycler \in Cycler
  BY DEF IdleCycler, Cycler
<1>3. HostType
  BY <1>1, ConstantsAssumption DEF Init, HostType
<1>4. LoopsType
  BY <1>1, ConstantsAssumption DEF LoopsType
<1>5. TablesType
  BY <1>1, <1>2 DEF Init, TablesType
<1> QED BY <1>3, <1>4, <1>5, TypeParts

\* What Evict, Build, Launch and a launch that fails leave of the host.
LEMMA EvictType == HostType /\ Evict => HostType' /\ origin' = origin
BY DEF HostType, Evict

LEMMA MakeType ==
  ASSUME HostType, NEW p, Build(p) \/ Launch(p) \/ LateLaunch(p)
  PROVE  /\ HostType' /\ p \in Specs
         /\ Len(origin') = Len(origin) + 1
         /\ Fresh \in 1..MaxMade /\ Fresh = Len(origin')
         /\ origin' = Append(origin, p)
<1>1. p \in Specs /\ Len(origin) < MaxMade /\ origin' = Append(origin, p)
  BY DEF Build, Launch, LateLaunch, Exec, Specs
<1>2. /\ origin' \in Seq(Specs) /\ Len(origin') = Len(origin) + 1 /\ Len(origin) \in Nat
      /\ MaxMade \in Nat
  BY <1>1, ConstantsAssumption DEF HostType
<1>3. /\ client \in 0..Len(origin) /\ hung \subseteq alive /\ alive \subseteq 1..Len(origin)
      /\ late \subseteq 1..Len(origin)
  BY DEF HostType
<1>4. 0..Len(origin) \subseteq 0..Len(origin') /\ 1..Len(origin) \subseteq 1..Len(origin')
  BY <1>2
<1>5. Fresh = Len(origin') /\ Fresh \in 1..Len(origin') /\ Fresh \in 1..MaxMade
  BY <1>1, <1>2 DEF Fresh
<1>6. /\ client' \in 0..Len(origin') /\ hung' \subseteq alive' /\ alive' \subseteq 1..Len(origin')
      /\ late' \subseteq 1..Len(origin')
  <2>1. CASE Build(p)
    <3>1. client' = client /\ alive' = alive /\ hung' = hung /\ late' = late
      BY <2>1 DEF Build
    <3> QED BY <3>1, <1>3, <1>4
  <2>2. CASE Launch(p) \/ LateLaunch(p)
    <3>1. /\ client' \in {client, Fresh} /\ alive' = alive \cup {Fresh} /\ hung' = hung
          /\ late' \subseteq late \cup {Fresh}
      BY <2>2 DEF Launch, LateLaunch, Exec
    <3> HIDE DEF Fresh
    <3>2. Fresh \in 0..Len(origin')
      BY <1>5, <1>2
    <3> QED BY <3>1, <3>2, <1>3, <1>4, <1>5
  <2> QED BY <2>1, <2>2
<1> QED BY <1>1, <1>2, <1>5, <1>6 DEF HostType

\* A launch that fails leaves what the host knows, and the instances there were.
LEMMA FailsType ==
  ASSUME HostType, NEW p, NEW done \in BOOLEAN, LaunchFails(p, done)
  PROVE  /\ HostType' /\ client = 0 /\ client' = client
         /\ Len(origin) \in Nat /\ Len(origin') \in Nat /\ Len(origin) <= Len(origin')
         /\ \A i \in 1..Len(origin) : origin'[i] = origin[i]
<1>1. Len(origin) \in Nat /\ origin \in Seq(Specs)
  BY DEF HostType
<1>2. CASE UNCHANGED host
  BY <1>1, <1>2 DEF LaunchFails, host, HostType
<1>3. CASE LateLaunch(p)
  <2>1. HostType' /\ p \in Specs /\ Len(origin') = Len(origin) + 1 /\ origin' = Append(origin, p)
    BY <1>3, MakeType
  <2>2. \A i \in 1..Len(origin) : origin'[i] = origin[i]
    BY <1>1, <2>1
  <2> QED BY <1>1, <1>3, <2>1, <2>2 DEF LaunchFails, LateLaunch
<1> QED BY <1>2, <1>3 DEF LaunchFails

-----------------------------------------------------------------------------
(* The type invariant, one step per action *)

\* A new loop on an instance there is.
LEMMA StartLoopType ==
  ASSUME HostType', LoopsType, TablesType, NEW p \in Specs, NEW i \in 1..MaxMade,
         i <= Len(origin'), Len(origin) <= Len(origin'), StartLoop(p, i),
         Len(origin) \in Nat
  PROVE  /\ LoopsType' /\ current' = Len(loops') /\ Len(loops') = Len(loops) + 1
         /\ spec' \in Specs /\ module' \in 0..Len(origin')
         /\ loops' = Append(loops, NewLoop(i)) /\ Len(loops) \in Nat
<1>1. /\ loops \in Seq(Loop) /\ Len(loops) \in Nat /\ Len(origin') \in Nat
      /\ MaxLoops \in Nat /\ MaxMade \in Nat
  BY ConstantsAssumption DEF LoopsType, HostType
<1>2. NewLoop(i) \in Loop /\ NewLoop(i).mod = i
  BY DEF NewLoop, Loop
<1>3. loops' = Append(loops, NewLoop(i)) /\ Len(loops) < MaxLoops
  BY DEF StartLoop
<1>4. loops' \in Seq(Loop) /\ Len(loops') = Len(loops) + 1
  BY <1>1, <1>2, <1>3
<1>5. ASSUME NEW l \in DOMAIN loops' PROVE loops'[l].mod <= Len(origin')
  <2>1. CASE l = Len(loops) + 1
    BY <1>1, <1>2, <1>3, <2>1
  <2>2. CASE l \in DOMAIN loops
    <3>1. loops'[l] = loops[l] /\ loops[l] \in Loop /\ loops[l].mod <= Len(origin)
      BY <1>1, <1>2, <1>3, <2>2 DEF LoopsType
    <3>2. loops[l].mod \in Nat
      BY <3>1 DEF Loop
    <3> QED BY <1>1, <3>1, <3>2
  <2> QED BY <1>1, <1>3, <1>4, <2>1, <2>2
<1> QED BY <1>1, <1>3, <1>4, <1>5 DEF LoopsType, StartLoop

\* startZoneSampling leaves a loop on an instance of a plugin; a subprocess is
\* launched for it only while the program goes on.
LEMMA StartZoneType ==
  ASSUME TypeOK, NEW p \in Specs, startZoneSampling(p)
  PROVE  /\ HostType' /\ LoopsType'
         /\ current' = Len(loops') /\ Len(loops') = Len(loops) + 1 /\ Len(loops) \in Nat
         /\ spec' = p /\ module' \in 0..Len(origin')
         /\ \E i \in 1..MaxMade :
              /\ i <= Len(origin') /\ loops' = Append(loops, NewLoop(i))
              /\ origin'[i] = p \/ (client # 0 /\ i = client /\ UNCHANGED host)
<1>1. /\ HostType /\ LoopsType /\ TablesType /\ Len(origin) \in Nat /\ Len(loops) \in Nat
      /\ MaxMade \in Nat
  BY TypeParts, ConstantsAssumption DEF HostType, LoopsType
<1>2. CASE (Build(p) \/ Launch(p)) /\ StartLoop(p, Fresh)
  <2>1. /\ HostType' /\ Len(origin') = Len(origin) + 1 /\ Fresh \in 1..MaxMade
        /\ Fresh = Len(origin') /\ origin' = Append(origin, p)
    BY <1>1, <1>2, MakeType
  <2>2. origin'[Fresh] = p
    BY <1>1, <2>1 DEF HostType
  <2> HIDE DEF Fresh
  <2>3. Fresh <= Len(origin') /\ Len(origin) <= Len(origin')
    BY <1>1, <2>1
  <2>4. /\ LoopsType' /\ current' = Len(loops') /\ Len(loops') = Len(loops) + 1
        /\ module' \in 0..Len(origin') /\ loops' = Append(loops, NewLoop(Fresh))
    BY <1>1, <1>2, <2>1, <2>3, StartLoopType
  <2>5. spec' = p
    BY <1>2 DEF StartLoop
  <2> QED BY <1>1, <2>1, <2>2, <2>3, <2>4, <2>5
<1>3. CASE Reuse(p) /\ StartLoop(p, client)
  <2>1. HostType' /\ origin' = origin /\ client # 0
    BY <1>1, <1>3 DEF Reuse, host, HostType
  <2>2. client \in 1..MaxMade /\ client <= Len(origin')
    BY <1>1, <2>1 DEF HostType
  <2>3. /\ LoopsType' /\ current' = Len(loops') /\ Len(loops') = Len(loops) + 1
        /\ module' \in 0..Len(origin') /\ loops' = Append(loops, NewLoop(client))
    BY <1>1, <1>3, <2>1, <2>2, StartLoopType
  <2>4. spec' = p
    BY <1>3 DEF StartLoop
  <2> QED BY <1>1, <1>3, <2>1, <2>2, <2>3, <2>4 DEF Reuse
<1> QED BY <1>2, <1>3 DEF startZoneSampling

\* What a step of loop l makes of the loop's own record.
LocalStep(l) ==
  SampleOnce(l) \/ WriteSample(l) \/ Enter(l) \/ EndLoop(l) \/ Tick(l) \/ Trigger(l)
  \/ Check(l) \/ CrashEvict(l) \/ CrashMark(l) \/ CrashBackoff(l) \/ RelaunchFails(l)
  \/ CrashStore(l)

LEMMA LocalRecord ==
  ASSUME TypeOK, NEW l \in 1..MaxLoops, LocalStep(l)
  PROVE  /\ l \in DOMAIN loops /\ loops[l].at # "done"
         /\ \E r \in Loop : /\ loops' = [loops EXCEPT ![l] = r]
                            /\ r.mod <= Len(origin)
                            /\ \/ r.at = "done"
                               \/ /\ r.mod = loops[l].mod /\ r.cancelled = loops[l].cancelled
                                  /\ r.at = "relaunch" => r.want = spec
<1>1. /\ l \in DOMAIN loops /\ loops[l] \in Loop /\ loops[l].mod <= Len(origin)
      /\ loops[l].at # "done" /\ Len(origin) \in Nat /\ spec \in Specs \cup {NoSpec} /\ loops \in Seq(Loop)
  BY DEF TypeOK, LocalStep, SampleOnce, WriteSample, Enter, EndLoop, Tick, Trigger, Sample,
         Check, CrashEvict, CrashMark, CrashBackoff, RelaunchFails, CrashStore, At
<1>2. loops[l].mod \in 1..MaxMade /\ loops[l].after \in {"enter", "check", "select"}
  BY <1>1 DEF Loop
<1>3. EndedLoop \in Loop /\ EndedLoop.mod = 1 /\ EndedLoop.at = "done" /\ EndedLoop.mod <= Len(origin)
  BY <1>1, <1>2, ConstantsAssumption DEF EndedLoop, Loop
<1> DEFINE same(r) == /\ r.mod = loops[l].mod /\ r.cancelled = loops[l].cancelled
                      /\ r.at = "relaunch" => r.want = spec
<1>4. SUFFICES \E r \in Loop : /\ loops' = [loops EXCEPT ![l] = r]
                               /\ r = EndedLoop \/ same(r)
  BY <1>1, <1>3
<1>5. CASE SampleOnce(l)
  <2>1. CASE ~(Cancelled(l) /\ loops' = [loops EXCEPT ![l].dead = FALSE, ![l].at = loops[l].after])
    <3>1. PICK d \in BOOLEAN : loops' = [loops EXCEPT ![l].dead = d, ![l].at = "write"]
      BY <1>5, <2>1 DEF SampleOnce
    <3>2. [loops[l] EXCEPT !.dead = d, !.at = "write"] \in Loop
      BY <1>1 DEF Loop
    <3> QED BY <1>1, <3>1, <3>2 DEF Loop
  <2>2. CASE loops' = [loops EXCEPT ![l].dead = FALSE, ![l].at = loops[l].after]
    <3>1. [loops[l] EXCEPT !.dead = FALSE, !.at = loops[l].after] \in Loop
      BY <1>1, <1>2 DEF Loop
    <3> QED BY <1>1, <2>2, <3>1 DEF Loop
  <2> QED BY <2>1, <2>2
<1>6. CASE WriteSample(l)
  <2> DEFINE r == [loops[l] EXCEPT !.at = loops[l].after,
                                   !.dead = @ /\ loops[l].after = "check"]
  <2>1. r \in Loop /\ same(r)
    BY <1>1, <1>2 DEF Loop
  <2>2. loops' = [loops EXCEPT ![l] = r]
    BY <1>1, <1>6 DEF WriteSample, Loop
  <2> QED BY <2>1, <2>2
<1>7. CASE Enter(l)
  <2>0. PICK e \in BOOLEAN : loops' = [loops EXCEPT ![l].exec = e, ![l].at = "select"]
    <3>1. (spec \in Execs) \in BOOLEAN
      OBVIOUS
    <3> QED BY <3>1, <1>7, Zenon DEF Enter
  <2> DEFINE r == [loops[l] EXCEPT !.exec = e, !.at = "select"]
  <2>1. r \in Loop /\ same(r)
    BY <1>1 DEF Loop
  <2>2. loops' = [loops EXCEPT ![l] = r]
    BY <1>1, <2>0 DEF Loop
  <2> QED BY <2>1, <2>2
<1>8. CASE EndLoop(l) \/ RelaunchFails(l)
  BY <1>3, <1>8 DEF EndLoop, RelaunchFails, End
<1>9. CASE Tick(l) \/ Trigger(l)
  <2>1. PICK a \in {"check", "select"} : Sample(l, a)
    BY <1>9 DEF Tick, Trigger
  <2> DEFINE r == [loops[l] EXCEPT !.at = "sample", !.after = a]
  <2>2. r \in Loop /\ same(r)
    BY <1>1 DEF Loop
  <2>3. loops' = [loops EXCEPT ![l] = r]
    BY <1>1, <2>1 DEF Sample, Loop
  <2> QED BY <2>2, <2>3
<1>10. CASE Check(l)
  <2> DEFINE r == [loops[l] EXCEPT !.dead = FALSE,
                                   !.at = IF Crashed(l) THEN "evict" ELSE "select"]
  <2>1. r \in Loop /\ same(r)
    BY <1>1 DEF Loop
  <2>2. loops' = [loops EXCEPT ![l] = r]
    BY <1>1, <1>10 DEF Check, Loop
  <2> QED BY <2>1, <2>2
<1>11. CASE CrashEvict(l) \/ CrashMark(l)
  <2>1. PICK a \in {"mark", "backoff"} : Goto(l, a)
    BY <1>11 DEF CrashEvict, CrashMark
  <2> DEFINE r == [loops[l] EXCEPT !.at = a]
  <2>2. r \in Loop /\ same(r)
    BY <1>1 DEF Loop
  <2>3. loops' = [loops EXCEPT ![l] = r]
    BY <1>1, <2>1 DEF Goto, Loop
  <2> QED BY <2>2, <2>3
<1>12. CASE CrashBackoff(l)
  <2>1. CASE End(l)
    BY <1>3, <2>1 DEF End
  <2>2. CASE ~End(l)
    <3> DEFINE r == [loops[l] EXCEPT !.want = spec, !.at = "relaunch"]
    <3>1. r \in Loop /\ same(r)
      BY <1>1 DEF Loop
    <3>2. loops' = [loops EXCEPT ![l] = r]
      BY <1>1, <1>12, <2>2 DEF CrashBackoff, Loop
    <3> QED BY <3>1, <3>2
  <2> QED BY <2>1, <2>2
<1>13. CASE CrashStore(l)
  <2> DEFINE r == [loops[l] EXCEPT !.at = "sample", !.after = "select"]
  <2>1. r \in Loop /\ same(r)
    BY <1>1 DEF Loop
  <2>2. loops' = [loops EXCEPT ![l] = r]
    BY <1>1, <1>13 DEF CrashStore, Loop
  <2> QED BY <2>1, <2>2
<1> QED BY <1>5, <1>6, <1>7, <1>8, <1>9, <1>10, <1>11, <1>12, <1>13 DEF LocalStep

LEMMA LocalType ==
  ASSUME TypeOK, NEW l \in 1..MaxLoops, LocalStep(l)
  PROVE  TypeOK'
<1>1. HostType /\ LoopsType /\ TablesType /\ Len(origin) \in Nat /\ Len(loops) \in Nat
  BY TypeParts DEF HostType, LoopsType
<1>2. HostType' /\ Len(origin') \in Nat /\ Len(origin) <= Len(origin')
  <2>1. CASE RelaunchFails(l)
    <3>1. Cancelled(l) \in BOOLEAN
      BY LocalRecord DEF Cancelled, Done, TypeOK, Loop
    <3> QED BY <1>1, <2>1, <3>1, FailsType DEF RelaunchFails
  <2>2. CASE ~RelaunchFails(l)
    <3>1. HostType' /\ origin' = origin
      BY <1>1, <2>2, EvictType
         DEF LocalStep, SampleOnce, WriteSample, Enter, EndLoop, Tick, Trigger, Sample, Check,
             CrashEvict, CrashMark, CrashBackoff, CrashStore, host, HostType
    <3> QED BY <1>1, <3>1
  <2> QED BY <2>1, <2>2
<1>3. PICK r \in Loop : l \in DOMAIN loops /\ loops' = [loops EXCEPT ![l] = r] /\ r.mod <= Len(origin)
  BY LocalRecord
<1>3a. r.mod <= Len(origin') /\ Len(origin') >= Len(origin) /\ Len(origin') \in Nat
  <2>1. r.mod \in Nat
    BY <1>3 DEF Loop
  <2> QED BY <1>1, <1>2, <1>3, <2>1
<1>4. LoopsType' /\ Len(loops') = Len(loops)
  BY <1>1, <1>3, <1>3a, PutLoop
<1>5. /\ phase' = phase /\ spec' = spec /\ current' = current /\ cyclers' = cyclers
      /\ module' \in {module, loops[l].mod} /\ shown' \in {shown, l}
  BY DEF LocalStep, SampleOnce, WriteSample, Enter, EndLoop, Tick, Trigger, Sample, Check,
         CrashEvict, CrashMark, CrashBackoff, RelaunchFails, CrashStore, tables, Show
<1>6. loops[l].mod \in 0..Len(origin) /\ l \in 0..Len(loops)
  <2>1. loops[l] \in Loop /\ loops[l].mod <= Len(origin) /\ l \in 0..Len(loops)
    BY <1>1, <1>3 DEF LoopsType
  <2>2. loops[l].mod \in Nat
    BY <2>1 DEF Loop
  <2> QED BY <1>1, <2>1, <2>2
<1>7. TablesType'
  BY <1>1, <1>2, <1>4, <1>5, <1>6 DEF TablesType
<1> QED BY <1>2, <1>4, <1>7, TypePartsNext

\* A relaunch leaves the loop on the instance that the host knows, which it has just
\* launched or knew before.
LEMMA RelaunchRecord ==
  ASSUME TypeOK, NEW l \in 1..MaxLoops, Relaunch(l)
  PROVE  /\ l \in DOMAIN loops /\ loops[l].at = "relaunch" /\ HostType'
         /\ Len(origin) <= Len(origin') /\ Len(origin) \in Nat /\ Len(origin') \in Nat
         /\ \E r \in Loop :
              /\ loops' = [loops EXCEPT ![l] = r] /\ r.mod <= Len(origin')
              /\ r.mod = client' /\ r.at = "store" /\ r.cancelled = loops[l].cancelled
              /\ \/ client # 0 /\ UNCHANGED host
                 \/ /\ client = 0 /\ ~Cancelled(l) /\ Launch(loops[l].want)
                    /\ origin'[client'] = loops[l].want
<1>1. /\ HostType /\ Len(origin) \in Nat /\ l \in DOMAIN loops /\ loops[l].at = "relaunch"
      /\ loops[l] \in Loop /\ loops \in Seq(Loop) /\ MaxMade \in Nat
  BY TypeParts, ConstantsAssumption DEF HostType, LoopsType, Relaunch, At
<1>2. CASE /\ ~Cancelled(l) /\ Launch(loops[l].want)
           /\ loops' = [loops EXCEPT ![l].mod = Fresh, ![l].want = NoSpec, ![l].at = "store"]
  <2>1. /\ HostType' /\ Len(origin') = Len(origin) + 1 /\ Fresh \in 1..MaxMade
        /\ Fresh = Len(origin') /\ origin' = Append(origin, loops[l].want)
    BY <1>1, <1>2, MakeType
  <2>2. client' = Fresh /\ client = 0
    BY <1>2 DEF Launch, Exec
  <2>3. origin'[Fresh] = loops[l].want
    BY <1>1, <2>1 DEF HostType
  <2> HIDE DEF Fresh
  <2> DEFINE r == [loops[l] EXCEPT !.mod = Fresh, !.want = NoSpec, !.at = "store"]
  <2>4. r \in Loop /\ r.mod = Fresh /\ r.at = "store" /\ r.cancelled = loops[l].cancelled
    BY <1>1, <2>1 DEF Loop
  <2>5. loops' = [loops EXCEPT ![l] = r]
    BY <1>1, <1>2 DEF Loop
  <2> HIDE DEF r
  <2>6. r.mod <= Len(origin')
    BY <1>1, <2>1, <2>4
  <2>7. Len(origin) <= Len(origin') /\ Len(origin') \in Nat
    BY <1>1, <2>1
  <2> QED BY <1>1, <1>2, <2>1, <2>2, <2>3, <2>4, <2>5, <2>6, <2>7
<1>3. CASE /\ client # 0 /\ UNCHANGED host
           /\ loops' = [loops EXCEPT ![l].mod = client, ![l].want = NoSpec, ![l].at = "store"]
  <2>1. HostType' /\ origin' = origin /\ client' = client
    BY <1>1, <1>3 DEF host, HostType
  <2>2. client \in 1..MaxMade /\ client <= Len(origin)
    BY <1>1, <1>3 DEF HostType
  <2> DEFINE r == [loops[l] EXCEPT !.mod = client, !.want = NoSpec, !.at = "store"]
  <2>4. r \in Loop /\ r.mod = client /\ r.at = "store" /\ r.cancelled = loops[l].cancelled
    BY <1>1, <2>2 DEF Loop
  <2>5. loops' = [loops EXCEPT ![l] = r]
    BY <1>1, <1>3 DEF Loop
  <2> HIDE DEF r
  <2>6. Len(origin) <= Len(origin') /\ Len(origin') \in Nat /\ r.mod <= Len(origin')
        /\ r.mod = client'
    BY <1>1, <2>1, <2>2, <2>4
  <2>7. client # 0 /\ UNCHANGED host
    BY <1>3
  <2> QED BY <1>1, <2>1, <2>4, <2>5, <2>6, <2>7
<1> QED BY <1>2, <1>3 DEF Relaunch

LEMMA NextType == TypeOK /\ [Next]_vars => TypeOK'
<1> SUFFICES ASSUME TypeOK, [Next]_vars PROVE TypeOK'
  OBVIOUS
<1>t. /\ HostType /\ LoopsType /\ TablesType /\ Len(origin) \in Nat /\ Len(loops) \in Nat
      /\ IdleCycler \in Cycler
  BY TypeParts DEF HostType, LoopsType, IdleCycler, Cycler
<1>1. ASSUME NEW p \in Specs, Start(p) PROVE TypeOK'
  <2>1. CASE startZoneSampling(p) /\ UNCHANGED shown
    <3>1. HostType' /\ LoopsType' /\ current' \in 0..Len(loops') /\ spec' \in Specs
          /\ module' \in 0..Len(origin') /\ shown' \in 0..Len(loops')
      BY <1>t, <2>1, StartZoneType DEF TablesType
    <3>2. TablesType'
      BY <1>t, <1>1, <3>1 DEF Start, TablesType
    <3> QED BY <3>1, <3>2, TypePartsNext
  <2>2. CASE LaunchFails(p, Done) /\ UNCHANGED <<tables, loops, shown>>
    <3>1. Done \in BOOLEAN
      BY DEF Done
    <3>2. HostType' /\ Len(origin) <= Len(origin') /\ Len(origin') \in Nat
      BY <1>t, <2>2, <3>1, FailsType
    <3>3. LoopsType'
      BY <1>t, <2>2, <3>2, SameLoops
    <3>4. TablesType'
      BY <1>1, <1>t, <2>2, <3>2 DEF Start, tables, TablesType
    <3> QED BY <3>2, <3>3, <3>4, TypePartsNext
  <2> QED BY <1>1, <2>1, <2>2 DEF Start
<1>2. ASSUME NEW p \in Specs, NEW c \in Cyclers, RestartCancel(c, p) PROVE TypeOK'
  <2>1. [at |-> "evict", spec |-> p] \in Cycler
    BY DEF Cycler
  <2>2. cyclers' \in [Cyclers -> Cycler]
    BY <1>2, <1>t, <2>1 DEF RestartCancel, TablesType
  <2>3. CASE current = 0
    BY <1>2, <1>t, <2>2, <2>3 DEF RestartCancel, host, tables, TypeOK
  <2>4. CASE current # 0
    <3>1. current \in DOMAIN loops /\ loops[current] \in Loop /\ loops \in Seq(Loop)
          /\ loops[current].mod <= Len(origin)
      BY <1>t, <2>4 DEF TablesType, LoopsType
    <3> DEFINE r == [loops[current] EXCEPT !.cancelled = TRUE]
    <3>2. r \in Loop /\ r.mod <= Len(origin)
      BY <3>1 DEF Loop
    <3>3. loops' = [loops EXCEPT ![current] = r] /\ HostType' /\ origin' = origin
      BY <1>2, <1>t, <2>4, <3>1 DEF RestartCancel, host, HostType
    <3> HIDE DEF r
    <3>3a. r.mod <= Len(origin') /\ Len(origin') >= Len(origin) /\ Len(origin') \in Nat
      BY <1>t, <3>2, <3>3
    <3>4. LoopsType' /\ Len(loops') = Len(loops)
      BY <1>t, <3>1, <3>2, <3>3, <3>3a, PutLoop
    <3>5. TablesType'
      BY <1>2, <1>t, <2>2, <2>4, <3>3, <3>4 DEF RestartCancel, TablesType
    <3> QED BY <3>3, <3>4, <3>5, TypePartsNext
  <2> QED BY <2>3, <2>4
<1>3. ASSUME NEW c \in Cyclers, RestartEvict(c) PROVE TypeOK'
  <2>1. HostType' /\ origin' = origin
    BY <1>3, <1>t, EvictType DEF RestartEvict
  <2>2. [cyclers[c] EXCEPT !.at = "start"] \in Cycler
    BY <1>t DEF Cycler, TablesType
  <2>3. cyclers' \in [Cyclers -> Cycler]
    BY <1>3, <1>t, <2>2 DEF RestartEvict, TablesType
  <2> QED BY <1>3, <1>t, <2>1, <2>3, TypePartsNext DEF RestartEvict, tables, LoopsType, TablesType
<1>4. ASSUME NEW c \in Cyclers, RestartStart(c) PROVE TypeOK'
  <2>1. cyclers' \in [Cyclers -> Cycler]
    BY <1>4, <1>t DEF RestartStart, TablesType
  <2>2. CASE startZoneSampling(cyclers[c].spec)
    <3>0. cyclers[c].spec \in Specs
      BY <2>2 DEF startZoneSampling, Build, Launch, Exec, Reuse, Specs
    <3>1. HostType' /\ LoopsType' /\ current' \in 0..Len(loops') /\ spec' \in Specs
          /\ module' \in 0..Len(origin') /\ shown \in 0..Len(loops')
      BY <1>t, <2>2, <3>0, StartZoneType DEF TablesType
    <3>2. TablesType'
      BY <1>t, <1>4, <2>1, <3>1 DEF RestartStart, TablesType
    <3> QED BY <3>1, <3>2, TypePartsNext
  <2>3. CASE LaunchFails(cyclers[c].spec, Done) /\ UNCHANGED <<tables, loops>>
    <3>1. Done \in BOOLEAN
      BY DEF Done
    <3>2. HostType' /\ Len(origin) <= Len(origin') /\ Len(origin') \in Nat
      BY <1>t, <2>3, <3>1, FailsType
    <3>3. LoopsType'
      BY <1>t, <2>3, <3>2, SameLoops
    <3>4. TablesType'
      BY <1>4, <1>t, <2>1, <2>3, <3>2 DEF RestartStart, tables, TablesType
    <3> QED BY <3>2, <3>3, <3>4, TypePartsNext
  <2> QED BY <1>4, <2>2, <2>3 DEF RestartStart
<1>5. ASSUME NEW l \in 1..MaxLoops, Relaunch(l) PROVE TypeOK'
  <2>1. LoopsType' /\ Len(loops') = Len(loops) /\ HostType' /\ Len(origin) <= Len(origin')
        /\ Len(origin') \in Nat
    <3>1. PICK r \in Loop : loops' = [loops EXCEPT ![l] = r] /\ r.mod <= Len(origin')
      BY <1>5, RelaunchRecord
    <3>2. l \in DOMAIN loops /\ HostType' /\ Len(origin) <= Len(origin') /\ Len(origin') \in Nat
      BY <1>5, RelaunchRecord
    <3> QED BY <1>t, <3>1, <3>2, PutLoop
  <2>2. TablesType'
    BY <1>5, <1>t, <2>1 DEF Relaunch, tables, TablesType
  <2> QED BY <2>1, <2>2, TypePartsNext
<1>6. ASSUME NEW i \in 1..MaxMade, Crash(i) \/ Hang(i) PROVE TypeOK'
  <2>1. HostType' /\ origin' = origin
    BY <1>6, <1>t DEF Crash, Hang, HostType
  <2> QED BY <1>6, <1>t, <2>1, TypePartsNext DEF Crash, Hang, tables, LoopsType, TablesType
<1>7. CASE Cancel
  BY <1>7 DEF Cancel, tables, host, TypeOK
<1>8. CASE Stop
  <2>1. HostType' /\ origin' = origin
    BY <1>8, <1>t, EvictType DEF Stop
  <2> QED BY <1>8, <1>t, <2>1, TypePartsNext DEF Stop, tables, LoopsType, TablesType
<1>9. CASE UNCHANGED vars
  BY <1>9 DEF vars, TypeOK
<1> QED BY <1>1, <1>2, <1>3, <1>4, <1>5, <1>6, <1>7, <1>8, <1>9, LocalType
        DEF Next, LoopStep, LocalStep

\* Host, tables and loops keep their types, for any number of plugins and loops.
THEOREM TypeCorrect == Spec => []TypeOK
<1>1. Init => TypeOK
  BY InitType
<1>2. TypeOK /\ [Next]_vars => TypeOK'
  BY NextType
<1> QED BY <1>1, <1>2, PTL DEF Spec

-----------------------------------------------------------------------------
(* Processes: the host is the only one to start and to kill them *)

\* Every step leaves the host alone (a process may exit or hang), evicts what it
\* knows, launches while the context is not done, or starts a process for a launch
\* that was given up; only Stop ends the program.
LEMMA HostStep ==
  ASSUME TypeOK, [Next]_vars
  PROVE  /\ \/ client' = client /\ alive' \subseteq alive /\ late' = late
            \/ Evict
            \/ ~Done /\ \E p \in Execs : Launch(p)
            \/ \E p \in Execs : LateLaunch(p)
         /\ phase' = "stopped" => phase = "stopped" \/ Evict
<1> DEFINE quiet == client' = client /\ alive' \subseteq alive /\ late' = late
           launched == ~Done /\ \E p \in Execs : Launch(p)
           gaveUp == \E p \in Execs : LateLaunch(p)
<1>1. ASSUME NEW p, startZoneSampling(p) PROVE quiet \/ launched
  BY <1>1 DEF startZoneSampling, Build, Launch, Exec, Reuse, host, Done
<1>2. ASSUME NEW p, NEW done, LaunchFails(p, done) PROVE quiet \/ gaveUp
  BY <1>2 DEF LaunchFails, LateLaunch, Exec, host
<1> HIDE DEF gaveUp
<1>3. ASSUME NEW p \in Specs, Start(p) PROVE (quiet \/ launched \/ gaveUp) /\ phase' # "stopped"
  BY <1>1, <1>2, <1>3 DEF Start
<1>4. ASSUME NEW p \in Specs, NEW c \in Cyclers, RestartCancel(c, p)
      PROVE  quiet /\ phase' = phase
  BY <1>4 DEF RestartCancel, host
<1>5. ASSUME NEW c \in Cyclers, RestartEvict(c) PROVE Evict /\ phase' = phase
  BY <1>5 DEF RestartEvict
<1>6. ASSUME NEW c \in Cyclers, RestartStart(c)
      PROVE  (quiet \/ launched \/ gaveUp) /\ phase' = phase
  BY <1>1, <1>2, <1>6 DEF RestartStart
<1>7. ASSUME NEW l \in 1..MaxLoops, LocalStep(l)
      PROVE  (quiet \/ Evict \/ gaveUp) /\ phase' = phase
  BY <1>2, <1>7
     DEF LocalStep, SampleOnce, WriteSample, Enter, EndLoop, Tick, Trigger, Sample, Check,
         CrashEvict, CrashMark, CrashBackoff, RelaunchFails, CrashStore, host
<1>8. ASSUME NEW l \in 1..MaxLoops, Relaunch(l) PROVE (quiet \/ launched) /\ phase' = phase
  <2>1. CASE ~Cancelled(l) /\ Launch(loops[l].want)
    BY <1>8, <2>1 DEF Relaunch, Cancelled, Launch, Exec
  <2>2. CASE UNCHANGED host
    BY <1>8, <2>2 DEF Relaunch, host
  <2> QED BY <1>8, <2>1, <2>2 DEF Relaunch
<1>9. ASSUME NEW i \in 1..MaxMade, Crash(i) \/ Hang(i) PROVE quiet /\ phase' = phase
  BY <1>9 DEF Crash, Hang
<1>10. ASSUME Cancel PROVE quiet /\ phase' # "stopped"
  BY <1>10 DEF Cancel, host
<1>11. ASSUME Stop PROVE Evict
  BY <1>11 DEF Stop
<1>12. ASSUME UNCHANGED vars PROVE quiet /\ phase' = phase
  BY <1>12 DEF vars
<1> HIDE DEF quiet, launched
<1>13. (quiet \/ Evict \/ launched \/ gaveUp) /\ (phase' = "stopped" => phase = "stopped" \/ Evict)
  <2>1. CASE \E p \in Specs : Start(p) \/ \E c \in Cyclers : RestartCancel(c, p)
    BY <1>3, <1>4, <2>1
  <2>2. CASE \E c \in Cyclers : RestartEvict(c) \/ RestartStart(c)
    BY <1>5, <1>6, <2>2
  <2>3. CASE \E l \in 1..MaxLoops : LocalStep(l) \/ Relaunch(l)
    BY <1>7, <1>8, <2>3
  <2>4. CASE \E i \in 1..MaxMade : Crash(i) \/ Hang(i)
    BY <1>9, <2>4
  <2>5. CASE Cancel
    BY <1>10, <2>5
  <2>6. CASE Stop
    BY <1>11, <2>6
  <2>7. CASE UNCHANGED vars
    BY <1>12, <2>7
  <2> QED BY <2>1, <2>2, <2>3, <2>4, <2>5, <2>6, <2>7 DEF Next, LoopStep, LocalStep
<1> QED BY <1>13 DEF quiet, launched, gaveUp

\* With the program stopped no launch succeeds, so what Stop killed stays dead.
Processes == TypeOK /\ NoStrayProcess /\ StopKillsAll

LEMMA ProcessesStep == Processes /\ [Next]_vars => Processes'
<1> SUFFICES ASSUME Processes, [Next]_vars PROVE Processes'
  OBVIOUS
<1>1. TypeOK'
  BY NextType DEF Processes
<1>2. CASE client' = client /\ alive' \subseteq alive /\ late' = late
  <2>1. NoStrayProcess'
    BY <1>2 DEF Processes, NoStrayProcess
  <2>2. StopKillsAll'
    <3>1. CASE Evict
      BY <3>1 DEF Processes, NoStrayProcess, Evict, StopKillsAll
    <3>2. CASE ~Evict
      BY <1>2, <3>2, HostStep DEF Processes, StopKillsAll
    <3> QED BY <3>1, <3>2
  <2> QED BY <1>1, <2>1, <2>2 DEF Processes
<1>3. CASE Evict
  BY <1>1, <1>3 DEF Processes, NoStrayProcess, StopKillsAll, Evict
<1>4. ASSUME NEW p \in Execs, Launch(p), ~Done PROVE Processes'
  <2>1. alive \subseteq late
    BY <1>4 DEF Processes, NoStrayProcess, Launch, Exec, TypeOK
  <2>2. alive' = alive \cup {Fresh} /\ client' = Fresh /\ late' = late /\ Fresh # 0
    BY <1>4 DEF Launch, Exec, Fresh, Processes, TypeOK
  <2>3. phase' # "stopped"
    <3>1. ~Evict
      BY <2>2 DEF Evict
    <3> QED BY <1>4, <3>1, HostStep DEF Done, Processes
  <2> QED BY <1>1, <2>1, <2>2, <2>3 DEF Processes, NoStrayProcess, StopKillsAll
<1>5. ASSUME NEW p \in Execs, LateLaunch(p) PROVE Processes'
  <2>1. alive' = alive \cup {Fresh} /\ late' = late \cup {Fresh} /\ client' = client /\ client = 0
    BY <1>5 DEF LateLaunch, Exec
  <2>2. NoStrayProcess'
    BY <2>1 DEF Processes, NoStrayProcess
  <2>3. Evict => alive \subseteq late
    BY <2>1 DEF Processes, NoStrayProcess, TypeOK
  <2>4. StopKillsAll'
    BY <2>1, <2>3, HostStep DEF Processes, StopKillsAll
  <2> QED BY <1>1, <2>2, <2>4 DEF Processes
<1> QED BY <1>2, <1>3, <1>4, <1>5, HostStep DEF Processes

LEMMA InitProcesses == Init => Processes
BY InitType DEF Init, Processes, NoStrayProcess, StopKillsAll

\* However many goroutines cycle the zone, the host knows every process that runs, but
\* for those started after their launch had been given up.
THEOREM NoStrayProcessAlways == Spec => []NoStrayProcess
<1>1. Processes => NoStrayProcess
  BY DEF Processes
<1> QED BY <1>1, InitProcesses, ProcessesStep, PTL DEF Spec

\* However many goroutines cycle the zone, no process outlives Stop, but for those
\* started after their launch had been given up.
THEOREM StopKillsAllAlways == Spec => []StopKillsAll
<1>1. Processes => StopKillsAll
  BY DEF Processes
<1> QED BY <1>1, InitProcesses, ProcessesStep, PTL DEF Spec

-----------------------------------------------------------------------------
(* One loop at a time, on the plugin asked for *)

\* What the next two theorems assume: one goroutine cycles the zone.
OneCycler == \A c, d \in Cyclers : c = d

\* The loop that is not cancelled is the one whose cancel function the sampler has,
\* and a zone that is being cycled has none.
Charge ==
  /\ \A l \in DOMAIN loops : Live(l) => l = current
  /\ \A c \in Cyclers : cyclers[c].at # "idle" => current = 0
  /\ phase = "new" => /\ current = 0 /\ client = 0
                      /\ \A c \in Cyclers : cyclers[c].at = "idle"

\* No step but the start of a loop makes a loop live.
LEMMA LiveBefore ==
  ASSUME TypeOK, NEW l \in DOMAIN loops, NEW r \in Loop,
         loops' = [loops EXCEPT ![l] = r], r.at = "done" \/ r.cancelled = loops[l].cancelled,
         Done => Done', loops[l].at = "done" => r.at = "done",
         NEW k \in DOMAIN loops', Live(k)'
  PROVE  /\ k \in DOMAIN loops /\ Live(k) /\ (k = l => r.at # "done")
         /\ loops'[k] = IF k = l THEN r ELSE loops[k]
<1>1. DOMAIN loops' = DOMAIN loops
  BY DEF TypeOK
<1>2. CASE k = l
  BY <1>1, <1>2 DEF TypeOK, Live, Cancelled, Done
<1>3. CASE k # l
  BY <1>1, <1>3 DEF TypeOK, Live, Cancelled, Done
<1> QED BY <1>1, <1>2, <1>3

\* startZoneSampling in a zone without a live loop.
LEMMA StartCharge ==
  ASSUME TypeOK, NEW p \in Specs, startZoneSampling(p), current = 0, Done => Done',
         \A l \in DOMAIN loops : Live(l) => l = current
  PROVE  /\ \A l \in DOMAIN loops' : Live(l)' => l = current'
         /\ \A l \in DOMAIN loops' : Live(l)' => l = Len(loops')
<1>1. /\ current' = Len(loops') /\ Len(loops') = Len(loops) + 1 /\ Len(loops) \in Nat
      /\ loops \in Seq(Loop)
  BY StartZoneType DEF TypeOK
<1>2. PICK i \in 1..MaxMade : loops' = Append(loops, NewLoop(i))
  BY StartZoneType
<1>3. ASSUME NEW l \in DOMAIN loops', Live(l)' PROVE l = Len(loops')
  <2>1. CASE l \in DOMAIN loops
    <3>1. loops'[l] = loops[l] /\ l # 0
      BY <1>1, <1>2, <2>1
    <3>2. Live(l)
      BY <1>3, <2>1, <3>1 DEF Live, Cancelled, Done
    <3> QED BY <2>1, <3>1, <3>2
  <2>2. CASE l \notin DOMAIN loops
    BY <1>1, <1>2, <2>2
  <2> QED BY <2>1, <2>2
<1> QED BY <1>1, <1>3

\* What the live loop samples, and what it would relaunch, is the plugin asked for;
\* so is the process that the host would hand out, but for a zone being cycled.
Asked ==
  /\ current # 0 /\ client # 0 => origin[client] = spec
  /\ \A c \in Cyclers : cyclers[c].at = "start" => client = 0
  /\ \A l \in DOMAIN loops : Live(l) => /\ origin[loops[l].mod] = spec
                                        /\ loops[l].at = "relaunch" => loops[l].want = spec

OneLoop == TypeOK /\ Charge /\ Asked

LEMMA InitOneLoop == Init => OneLoop
<1> SUFFICES ASSUME Init PROVE OneLoop
  OBVIOUS
<1>1. DOMAIN loops = {} /\ \A c \in Cyclers : cyclers[c].at = "idle"
  BY DEF Init, IdleCycler
<1> QED BY <1>1, InitType DEF Init, OneLoop, Charge, Asked

\* Every instance that the host knows, or a loop samples, has been made.
LEMMA ModsKnown ==
  ASSUME TypeOK
  PROVE  /\ client # 0 => client \in 1..Len(origin)
         /\ \A k \in DOMAIN loops : loops[k].mod \in 1..Len(origin)
<1>1. Len(origin) \in Nat /\ client \in 0..Len(origin)
  BY DEF TypeOK
<1>2. ASSUME NEW k \in DOMAIN loops PROVE loops[k].mod \in 1..Len(origin)
  <2>1. loops[k] \in Loop /\ loops[k].mod <= Len(origin)
    BY DEF TypeOK
  <2>2. loops[k].mod \in 1..MaxMade
    BY <2>1 DEF Loop
  <2> QED BY <1>1, <2>1, <2>2, ConstantsAssumption
<1> QED BY <1>1, <1>2

LEMMA LocalOneLoop ==
  ASSUME OneLoop, NEW l \in 1..MaxLoops, LocalStep(l)
  PROVE  Charge' /\ Asked'
<1>1. TypeOK /\ origin \in Seq(Specs)
  BY DEF OneLoop, TypeOK
<1>2. /\ phase' = phase /\ spec' = spec /\ current' = current /\ cyclers' = cyclers
      /\ client' \in {client, 0}
  BY DEF LocalStep, SampleOnce, WriteSample, Enter, EndLoop, Tick, Trigger, Sample, Check,
         CrashEvict, CrashMark, CrashBackoff, RelaunchFails, LaunchFails, LateLaunch,
         CrashStore, tables, host, Evict
<1>2a. \A i \in 1..Len(origin) : origin'[i] = origin[i]
  <2>1. CASE RelaunchFails(l)
    <3>1. Cancelled(l) \in BOOLEAN /\ HostType
      BY <1>1, LocalRecord, TypeParts DEF Cancelled, Done, TypeOK, Loop
    <3> QED BY <2>1, <3>1, FailsType DEF RelaunchFails
  <2>2. CASE ~RelaunchFails(l)
    BY <2>2 DEF LocalStep, SampleOnce, WriteSample, Enter, EndLoop, Tick, Trigger, Sample,
         Check, CrashEvict, CrashMark, CrashBackoff, CrashStore, host, Evict
  <2> QED BY <2>1, <2>2
<1>2b. (client # 0 => client \in 1..Len(origin))
       /\ \A k \in DOMAIN loops : loops[k].mod \in 1..Len(origin)
  BY <1>1, ModsKnown
<1>3. l \in DOMAIN loops /\ loops[l].at # "done"
  BY <1>1, LocalRecord
<1>4. PICK r \in Loop : /\ loops' = [loops EXCEPT ![l] = r]
                        /\ \/ r.at = "done"
                           \/ /\ r.mod = loops[l].mod /\ r.cancelled = loops[l].cancelled
                              /\ r.at = "relaunch" => r.want = spec
  BY <1>1, LocalRecord
<1>5. ASSUME NEW k \in DOMAIN loops', Live(k)'
      PROVE  /\ k \in DOMAIN loops /\ Live(k) /\ (k = l => r.at # "done")
             /\ loops'[k] = IF k = l THEN r ELSE loops[k]
  <2>1. Done => Done'
    BY <1>2 DEF Done
  <2> QED BY <1>1, <1>3, <1>4, <1>5, <2>1, LiveBefore
<1>6. Charge'
  <2>1. \A k \in DOMAIN loops' : Live(k)' => k = current'
    BY <1>2, <1>5 DEF OneLoop, Charge
  <2> QED BY <1>2, <2>1 DEF OneLoop, Charge
<1>7. ASSUME NEW k \in DOMAIN loops', Live(k)'
      PROVE  /\ origin'[loops'[k].mod] = spec'
             /\ loops'[k].at = "relaunch" => loops'[k].want = spec'
  BY <1>2, <1>2a, <1>2b, <1>4, <1>5, <1>7 DEF OneLoop, Asked
<1> QED BY <1>2, <1>2a, <1>2b, <1>6, <1>7 DEF OneLoop, Asked

LEMMA RelaunchOneLoop ==
  ASSUME OneLoop, NEW l \in 1..MaxLoops, Relaunch(l)
  PROVE  Charge' /\ Asked'
<1>1. TypeOK /\ origin \in Seq(Specs) /\ Len(origin) \in Nat
  BY DEF OneLoop, TypeOK
<1>2. /\ phase' = phase /\ spec' = spec /\ current' = current /\ cyclers' = cyclers
  BY DEF Relaunch, tables
<1>3. l \in DOMAIN loops /\ loops[l].at = "relaunch"
  BY <1>1, RelaunchRecord
<1>4. PICK r \in Loop : /\ loops' = [loops EXCEPT ![l] = r] /\ r.mod = client'
                        /\ r.at = "store" /\ r.cancelled = loops[l].cancelled
                        /\ \/ client # 0 /\ UNCHANGED host
                           \/ /\ client = 0 /\ ~Cancelled(l) /\ Launch(loops[l].want)
                              /\ origin'[client'] = loops[l].want
  BY <1>1, RelaunchRecord
<1>5. ASSUME NEW k \in DOMAIN loops', Live(k)'
      PROVE  k \in DOMAIN loops /\ Live(k) /\ loops'[k] = IF k = l THEN r ELSE loops[k]
  <2>1. Done => Done'
    BY <1>2 DEF Done
  <2> QED BY <1>1, <1>3, <1>4, <1>5, <2>1, LiveBefore
<1>6. \A k \in DOMAIN loops' : Live(k)' => k = current'
  BY <1>2, <1>5 DEF OneLoop, Charge
<1>7. ASSUME NEW i \in 1..Len(origin) PROVE origin'[i] = origin[i]
  BY <1>1, <1>4 DEF Launch, Exec, host
<1>8. \A k \in DOMAIN loops : loops[k].mod \in 1..Len(origin)
  BY <1>1, ModsKnown
<1>9. CASE client # 0 /\ UNCHANGED host
  <2>1. origin' = origin /\ client' = client
    BY <1>9 DEF host
  <2>2. ASSUME NEW k \in DOMAIN loops', Live(k)'
        PROVE  /\ origin'[loops'[k].mod] = spec'
               /\ loops'[k].at = "relaunch" => loops'[k].want = spec'
    <3>1. current # 0
      BY <1>5, <2>2 DEF OneLoop, Charge, TypeOK
    <3> QED BY <1>2, <1>4, <1>5, <1>9, <2>1, <2>2, <3>1 DEF OneLoop, Asked
  <2> QED BY <1>2, <1>6, <2>1, <2>2 DEF OneLoop, Charge, Asked
<1>10. CASE /\ client = 0 /\ ~Cancelled(l) /\ Launch(loops[l].want)
            /\ origin'[client'] = loops[l].want
  <2>1. Live(l)
    BY <1>3, <1>10 DEF Live
  <2>2. origin'[client'] = spec' /\ current # 0 /\ ~Done
    BY <1>2, <1>3, <1>10, <2>1 DEF OneLoop, Asked, Charge, TypeOK, Live, Cancelled
  <2>3. \A c \in Cyclers : cyclers'[c].at # "start"
    BY <1>2, <2>2 DEF OneLoop, Charge
  <2>4. ASSUME NEW k \in DOMAIN loops', Live(k)'
        PROVE  /\ origin'[loops'[k].mod] = spec'
               /\ loops'[k].at = "relaunch" => loops'[k].want = spec'
    BY <1>2, <1>4, <1>5, <1>7, <1>8, <2>2, <2>4 DEF OneLoop, Asked
  <2>5. phase' = "new" => current' = 0 /\ client' = 0
    BY <1>2, <2>2 DEF OneLoop, Charge
  <2> QED BY <1>2, <1>6, <2>2, <2>3, <2>4, <2>5 DEF OneLoop, Charge, Asked
<1> QED BY <1>4, <1>9, <1>10

\* startZoneSampling when the host knows no process of the zone.
LEMMA StartAsked ==
  ASSUME TypeOK, NEW p \in Specs, startZoneSampling(p), current = 0, client = 0,
         Done => Done', \A l \in DOMAIN loops : Live(l) => l = current
  PROVE  /\ \A l \in DOMAIN loops' :
              Live(l)' => /\ l = current' /\ origin'[loops'[l].mod] = spec'
                          /\ loops'[l].at # "relaunch"
         /\ client' # 0 => origin'[client'] = spec'
         /\ current' # 0
<1>1. /\ current' = Len(loops') /\ Len(loops') = Len(loops) + 1 /\ Len(loops) \in Nat
      /\ loops \in Seq(Loop) /\ spec' = p
  BY StartZoneType DEF TypeOK
<1>2. PICK i \in 1..MaxMade : loops' = Append(loops, NewLoop(i)) /\ origin'[i] = p
  BY StartZoneType
<1>3. loops'[Len(loops')] = NewLoop(i)
  BY <1>1, <1>2
<1>4. ASSUME NEW l \in DOMAIN loops', Live(l)'
      PROVE  /\ l = current' /\ origin'[loops'[l].mod] = spec'
             /\ loops'[l].at # "relaunch"
  <2>1. l = current' /\ l = Len(loops')
    BY <1>4, StartCharge
  <2> QED BY <1>1, <1>2, <1>3, <2>1 DEF NewLoop
<1>5. client' # 0 => origin'[client'] = spec'
  <2>1. CASE Build(p)
    BY <2>1 DEF Build
  <2>2. CASE Launch(p)
    <3>1. client' = Fresh /\ origin' = Append(origin, p) /\ origin \in Seq(Specs)
      BY <2>2 DEF Launch, Exec, TypeOK
    <3> QED BY <1>1, <3>1 DEF Fresh
  <2> QED BY <2>1, <2>2 DEF startZoneSampling, Reuse
<1> QED BY <1>1, <1>4, <1>5

LEMMA OneLoopStep == OneCycler /\ OneLoop /\ [Next]_vars => OneLoop'
<1> SUFFICES ASSUME OneCycler, OneLoop, [Next]_vars PROVE OneLoop'
  OBVIOUS
<1>t. TypeOK /\ TypeOK' /\ cyclers \in [Cyclers -> Cycler] /\ loops \in Seq(Loop)
  BY NextType DEF OneLoop, TypeOK
<1>1. ASSUME NEW p \in Specs, Start(p) PROVE Charge' /\ Asked'
  <2>1. /\ phase = "new" /\ phase' = "started" /\ current = 0 /\ client = 0
        /\ cyclers' = cyclers /\ \A c \in Cyclers : cyclers[c].at = "idle"
        /\ ~Done /\ ~Done'
    BY <1>1 DEF Start, OneLoop, Charge, Done
  <2>2. CASE startZoneSampling(p)
    BY <1>t, <2>1, <2>2, StartAsked DEF OneLoop, Charge, Asked
  <2>3. CASE LaunchFails(p, Done) /\ UNCHANGED <<tables, loops, shown>>
    <3>1. UNCHANGED <<spec, module, current, client, origin, loops>>
      BY <2>1, <2>3 DEF LaunchFails, tables, host
    <3>2. \A l \in DOMAIN loops' : Live(l)' => l \in DOMAIN loops /\ Live(l)
      BY <2>1, <3>1 DEF Live, Cancelled, Done
    <3> QED BY <2>1, <3>1, <3>2 DEF OneLoop, Charge, Asked
  <2> QED BY <1>1, <2>2, <2>3 DEF Start
<1>2. ASSUME NEW p \in Specs, NEW c \in Cyclers, RestartCancel(c, p) PROVE Charge' /\ Asked'
  <2>1. /\ phase # "new" /\ phase' = phase /\ current' = 0 /\ client' = client
        /\ cyclers[c].at = "idle" /\ cyclers'[c].at = "evict"
    BY <1>2, <1>t DEF RestartCancel, tables, host
  <2>2. ASSUME NEW l \in DOMAIN loops' PROVE ~Live(l)'
    <3>1. CASE current = 0
      <4>1. loops' = loops
        BY <1>2, <3>1 DEF RestartCancel
      <4>2. l # 0 /\ ~Live(l)
        BY <1>t, <2>2, <3>1, <4>1 DEF OneLoop, Charge
      <4> QED BY <2>1, <4>1, <4>2 DEF Live, Cancelled, Done
    <3>2. CASE current # 0
      <4>1. loops' = [loops EXCEPT ![current].cancelled = TRUE]
        BY <1>2, <3>2 DEF RestartCancel
      <4>2. current \in DOMAIN loops /\ l \in DOMAIN loops /\ loops[current] \in Loop
        BY <1>t, <2>2, <3>2, <4>1 DEF TypeOK
      <4>3. CASE l = current
        <5>1. loops'[l].cancelled
          BY <1>t, <4>1, <4>2, <4>3 DEF Loop
        <5> QED BY <5>1 DEF Live, Cancelled
      <4>4. CASE l # current
        <5>1. loops'[l] = loops[l] /\ ~Live(l)
          BY <1>t, <4>1, <4>2, <4>4 DEF OneLoop, Charge
        <5> QED BY <2>1, <4>2, <5>1 DEF Live, Cancelled, Done
      <4> QED BY <4>3, <4>4
    <3> QED BY <3>1, <3>2
  <2>3. \A d \in Cyclers : d = c
    BY DEF OneCycler
  <2>4. \A d \in Cyclers : cyclers'[d].at = "evict"
    BY <2>1, <2>3
  <2> QED BY <2>1, <2>2, <2>4 DEF Charge, Asked
<1>3. ASSUME NEW c \in Cyclers, RestartEvict(c) PROVE Charge' /\ Asked'
  <2>1. /\ UNCHANGED <<phase, spec, module, current, loops, origin>> /\ client' = 0
        /\ cyclers[c].at = "evict"
    BY <1>3 DEF RestartEvict, Evict, tables
  <2>2. current = 0 /\ phase # "new"
    BY <2>1 DEF OneLoop, Charge
  <2>3. \A l \in DOMAIN loops' : Live(l)' => l \in DOMAIN loops /\ Live(l)
    BY <2>1 DEF Live, Cancelled, Done
  <2> QED BY <2>1, <2>2, <2>3 DEF OneLoop, Charge, Asked
<1>4. ASSUME NEW c \in Cyclers, RestartStart(c) PROVE Charge' /\ Asked'
  <2>1. /\ phase' = phase /\ cyclers[c].at = "start" /\ current = 0 /\ client = 0
        /\ phase # "new"
    BY <1>4 DEF RestartStart, OneLoop, Charge, Asked
  <2>2. \A d \in Cyclers : cyclers'[d].at = "idle"
    BY <1>4, <1>t DEF RestartStart, IdleCycler, OneCycler
  <2>3. CASE startZoneSampling(cyclers[c].spec)
    <3>1. cyclers[c].spec \in Specs /\ (Done => Done')
      BY <2>1, <2>3 DEF startZoneSampling, Build, Launch, Exec, Reuse, Specs, Done
    <3> QED BY <1>t, <2>1, <2>2, <2>3, <3>1, StartAsked DEF OneLoop, Charge, Asked
  <2>4. CASE LaunchFails(cyclers[c].spec, Done) /\ UNCHANGED <<tables, loops>>
    <3>0. Done \in BOOLEAN /\ HostType
      BY <1>t, TypeParts DEF Done
    <3>1. UNCHANGED <<spec, module, current, loops>> /\ client' = client
          /\ \A i \in 1..Len(origin) : origin'[i] = origin[i]
      BY <2>4, <3>0, FailsType DEF tables
    <3>2. \A l \in DOMAIN loops' : Live(l)' => l \in DOMAIN loops /\ Live(l)
      BY <2>1, <3>1 DEF Live, Cancelled, Done
    <3>3. \A l \in DOMAIN loops : loops[l].mod \in 1..Len(origin)
      BY <1>t, ModsKnown
    <3> QED BY <2>1, <2>2, <3>1, <3>2, <3>3 DEF OneLoop, Charge, Asked
  <2> QED BY <1>4, <2>3, <2>4 DEF RestartStart
<1>5. ASSUME NEW i \in 1..MaxMade, Crash(i) \/ Hang(i) PROVE Charge' /\ Asked'
  <2>1. UNCHANGED <<phase, spec, module, current, client, origin, loops, cyclers>>
    BY <1>5 DEF Crash, Hang, tables
  <2> QED BY <2>1 DEF OneLoop, Charge, Asked, Live, Cancelled, Done
<1>6. ASSUME Cancel \/ Stop PROVE Charge' /\ Asked'
  <2>1. /\ UNCHANGED <<spec, module, current, origin, loops, cyclers>> /\ Done' /\ phase' # "new"
        /\ client' \in {client, 0}
    BY <1>6 DEF Cancel, Stop, tables, host, Evict, Done
  <2>2. \A l \in DOMAIN loops' : ~Live(l)'
    BY <2>1 DEF Live, Cancelled
  <2> QED BY <2>1, <2>2 DEF OneLoop, Charge, Asked
<1>7. ASSUME UNCHANGED vars PROVE Charge' /\ Asked'
  BY <1>7 DEF vars, OneLoop, Charge, Asked, Live, Cancelled, Done
<1>8. Charge' /\ Asked'
  BY <1>1, <1>2, <1>3, <1>4, <1>5, <1>6, <1>7, LocalOneLoop, RelaunchOneLoop
     DEF Next, LoopStep, LocalStep
<1> QED BY <1>t, <1>8 DEF OneLoop

\* With one goroutine to cycle the zone at most one loop is not cancelled, however many
\* loops have been started.
THEOREM OneLiveLoopAlways ==
  ASSUME OneCycler PROVE Spec => []OneLiveLoop
<1>1. OneLoop => OneLiveLoop
  BY DEF OneLoop, Charge, OneLiveLoop
<1>2. OneLoop /\ [Next]_vars => OneLoop'
  BY OneLoopStep
<1> QED BY <1>1, <1>2, InitOneLoop, PTL DEF Spec

\* ... and that loop samples the plugin which the zone was given last.
THEOREM LiveLoopSpecAlways ==
  ASSUME OneCycler PROVE Spec => []LiveLoopSpec
<1>1. OneLoop => LiveLoopSpec
  BY DEF OneLoop, Asked, LiveLoopSpec
<1>2. OneLoop /\ [Next]_vars => OneLoop'
  BY OneLoopStep
<1> QED BY <1>1, <1>2, InitOneLoop, PTL DEF Spec
=============================================================================
