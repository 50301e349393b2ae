---------------------------- MODULE ServerProofs ----------------------------
(***************************************************************************)
(* Theorems about the process of the server: its life cycle                *)
(* (ServerLifecycle), for any model servers, plugins, signals and number   *)
(* of starts, and the queue of its log (LogQueue), for any sizes of the    *)
(* batches and of the queue.  The two specifications share no variable.    *)
(***************************************************************************)
EXTENDS ServerLifecycle, LogQueue, SumProofs


-----------------------------------------------------------------------------
(* The inductive invariant.                                                *)

\* What names a process names one that was spawned.
Spawned ==
    /\ Registered \subseteq DOMAIN procs /\ watched \subseteq DOMAIN procs
    /\ \A k \in Kinds : starts[k].step = "waiting" => starts[k].pid \in DOMAIN procs

\* While a start with a look at the port waits, whoever has it took it since.
PortOurs ==
    \A k \in Kinds \ Unchecked :
        starts[k].step = "waiting" => Holders(PortOf[k]) \subseteq starts[k].since

\* What a shutdown found registered stays registered until it is dead.
Watched ==
    /\ phase # "off" => ~ orderly /\ \A p \in watched : Alive(p) => p \in Registered
    /\ NoStrays

\* loadOrder holds plugins loadAllPlugins has been at.
Loading ==
    /\ next = 0 => loadOrder = <<>>
    /\ next # 0 => Len(loadOrder) < next

\* Under a name the last plugin loadAllPlugins has been at is registered.
Latest ==
    \A n \in Names : registered[n] # 0 =>
        Plugins[registered[n]] = n /\ \A j \in registered[n] + 1 .. next - 1 : Plugins[j] # n

LoadedNames == [i \in DOMAIN loaded |-> Plugins[loaded[i]]]
AllKept == \A i \in DOMAIN loaded : registered[Plugins[loaded[i]]] # 0

Untouched == loadOrder = LoadedNames /\ unloads = <<>> /\ AllKept

\* All loaded plugins were called for, in reverse.
AllCalled ==
    /\ Len(unloads) = Len(loaded)
    /\ \A i \in DOMAIN loaded : Standing(unloads[i], Plugins[Reverse(loaded)[i]])

\* How far a shutdown is that no other one overlaps.
Unloading(c) ==
    CASE shutdowns[c].step = "stopping"  -> Untouched
      [] shutdowns[c].step = "unloading" ->
            /\ loadOrder = Reverse(LoadedNames) /\ AllKept
            /\ shutdowns[c].at \in 1 .. Len(loaded)
            /\ Len(unloads) = shutdowns[c].at
            /\ \A i \in 1 .. shutdowns[c].at : unloads[i] = registered[loadOrder[i]]
      [] shutdowns[c].step = "flushing"  -> AllCalled
      [] OTHER -> TRUE

Plugged ==
    /\ phase # "up" => Running = {}
    /\ phase = "up" => Loaded
    /\ Running = {} => Untouched
    /\ \A c \in Signals : Running = {c} => Unloading(c)

IInv == TypeOK /\ Spawned /\ PortOurs /\ Watched /\ Loading /\ Latest /\ Plugged

-----------------------------------------------------------------------------
(* Operators on sequences.                                                 *)

(* A sequence without its entry at place i.                                *)
LEMMA RemovedAt ==
    ASSUME NEW S, NEW s \in Seq(S), NEW i \in 1 .. Len(s)
    PROVE  /\ RemoveAt(s, i) \in Seq(S) /\ Len(RemoveAt(s, i)) = Len(s) - 1
           /\ \A j \in 1 .. Len(s) - 1 :
                 RemoveAt(s, i)[j] = IF j < i THEN s[j] ELSE s[j + 1]
<1> DEFINE a == SubSeq(s, 1, i - 1)
           b == SubSeq(s, i + 1, Len(s))
<1>1. RemoveAt(s, i) = a \o b
  BY DEF RemoveAt
<1>2. a \in Seq(S) /\ Len(a) = i - 1 /\ \A j \in 1 .. i - 1 : a[j] = s[j]
  OBVIOUS
<1>3. b \in Seq(S) /\ Len(b) = Len(s) - i /\ \A j \in 1 .. Len(s) - i : b[j] = s[i + j]
  OBVIOUS
<1> HIDE DEF a, b
<1>4. a \o b \in Seq(S) /\ Len(a \o b) = Len(s) - 1
  <2>1. a \o b \in Seq(S) /\ Len(a \o b) = Len(a) + Len(b)
    BY <1>2, <1>3, ConcatProperties
  <2> QED
    BY <1>2, <1>3, <2>1
<1>5. ASSUME NEW j \in 1 .. Len(s) - 1
      PROVE  (a \o b)[j] = IF j < i THEN s[j] ELSE s[j + 1]
  <2>1. CASE j < i
    BY <1>2, <1>3, <2>1
  <2>2. CASE ~ (j < i)
    <3>1. j - (i - 1) \in 1 .. Len(s) - i /\ i + (j - (i - 1)) = j + 1
      BY <2>2
    <3>2. (a \o b)[j] = b[j - (i - 1)]
      BY <1>2, <1>3, <2>2
    <3> QED
      BY <1>3, <2>2, <3>1, <3>2
  <2> QED
    BY <2>1, <2>2
<1> QED
  BY <1>1, <1>4, <1>5

(* Without drops at most the given process from the instances.             *)
LEMMA WithoutKeeps ==
    ASSUME NEW S, instances \in Seq(S), NEW p
    PROVE  /\ Without(p) \in Seq(S)
           /\ \A i \in DOMAIN Without(p) : Without(p)[i] \in Registered
           /\ \A q \in Registered \ {p} : \E i \in DOMAIN Without(p) : Without(p)[i] = q
<1>1. CASE p \notin Registered
  BY <1>1 DEF Without, Registered
<1>2. CASE p \in Registered
  <2> DEFINE i == CHOOSE j \in DOMAIN instances : instances[j] = p
             w == Without(p)
  <2>1. i \in DOMAIN instances /\ instances[i] = p
    BY <1>2 DEF Registered
  <2>2. w = RemoveAt(instances, i)
    BY <1>2 DEF Without
  <2> HIDE DEF i, w
  <2>3. i \in 1 .. Len(instances) /\ Len(instances) \in Nat
    BY <2>1
  <2>4. /\ w \in Seq(S) /\ Len(w) = Len(instances) - 1
        /\ \A j \in 1 .. Len(instances) - 1 :
              w[j] = IF j < i THEN instances[j] ELSE instances[j + 1]
    BY <2>2, <2>3, RemovedAt
  <2>5. \A j \in DOMAIN w : w[j] \in Registered
    BY <2>3, <2>4 DEF Registered
  <2>6. ASSUME NEW q \in Registered \ {p}
        PROVE  \E j \in DOMAIN w : w[j] = q
    <3>1. PICK j \in 1 .. Len(instances) : instances[j] = q
      BY DEF Registered
    <3>2. j # i
      BY <2>1, <3>1
    <3>3. CASE j < i
      BY <2>3, <2>4, <3>1, <3>3
    <3>4. CASE j > i
      <4>1. j - 1 \in 1 .. Len(instances) - 1 /\ ~ (j - 1 < i) /\ (j - 1) + 1 = j
        BY <2>3, <3>1, <3>4
      <4>2. w[j - 1] = q
        BY <2>4, <3>1, <4>1
      <4> QED
        BY <2>4, <4>1, <4>2
    <3> QED
      BY <2>3, <3>1, <3>2, <3>3, <3>4
  <2> QED
    BY <2>4, <2>5, <2>6 DEF w
<1> QED
  BY <1>1, <1>2

(* A reversed sequence has the same entries, the last one first.           *)
LEMMA Reversed ==
    ASSUME NEW S, NEW s \in Seq(S)
    PROVE  /\ Reverse(s) \in Seq(S) /\ Len(Reverse(s)) = Len(s)
           /\ \A i \in 1 .. Len(s) :
                 /\ Len(s) - i + 1 \in 1 .. Len(s)
                 /\ Reverse(s)[i] = s[Len(s) - i + 1]
<1>1. \A i \in 1 .. Len(s) : Len(s) - i + 1 \in 1 .. Len(s)
  OBVIOUS
<1>2. \A i \in 1 .. Len(s) : s[Len(s) - i + 1] \in S
  BY <1>1
<1> QED
  BY <1>1, <1>2 DEF Reverse

(* The names of the loaded plugins, in order and in reverse.               *)
LEMMA NamesLoaded ==
    ASSUME loaded \in Seq(Places)
    PROVE  /\ LoadedNames \in Seq(Names) /\ Len(LoadedNames) = Len(loaded)
           /\ Reverse(LoadedNames) \in Seq(Names) /\ Len(Reverse(LoadedNames)) = Len(loaded)
           /\ \A i \in 1 .. Len(loaded) :
                 /\ Reverse(LoadedNames)[i] = Plugins[Reverse(loaded)[i]]
                 /\ Reverse(LoadedNames)[i] \in Names
                 /\ AllKept => registered[Reverse(LoadedNames)[i]] # 0
<1> DEFINE names == LoadedNames
           n == Len(loaded)
<1>1. n \in Nat /\ DOMAIN loaded = 1 .. n /\ \A i \in 1 .. n : loaded[i] \in Places
  OBVIOUS
<1>2. \A p \in Places : Plugins[p] \in Names
  BY PluginsAssumption DEF Places, Names
<1>3. names \in Seq(Names) /\ Len(names) = n /\ \A i \in 1 .. n : names[i] = Plugins[loaded[i]]
  <2>1. names = [i \in 1 .. n |-> Plugins[loaded[i]]]
    BY <1>1 DEF LoadedNames
  <2>2. \A i \in 1 .. n : Plugins[loaded[i]] \in Names
    BY <1>1, <1>2
  <2> HIDE DEF names
  <2>3. names \in [1 .. n -> Names]
    BY <2>1, <2>2
  <2> QED
    BY <1>1, <2>1, <2>3
<1> HIDE DEF names
<1>4. /\ Reverse(names) \in Seq(Names) /\ Len(Reverse(names)) = n
      /\ \A i \in 1 .. n : n - i + 1 \in 1 .. n /\ Reverse(names)[i] = names[n - i + 1]
  BY <1>3, Reversed
<1>5. \A i \in 1 .. n : Reverse(loaded)[i] = loaded[n - i + 1]
  BY Reversed
<1>6. ASSUME NEW i \in 1 .. n
      PROVE  /\ Reverse(names)[i] = Plugins[Reverse(loaded)[i]]
             /\ Reverse(names)[i] \in Names
             /\ AllKept => registered[Reverse(names)[i]] # 0
  <2>1. n - i + 1 \in 1 .. n /\ Reverse(names)[i] = Plugins[loaded[n - i + 1]]
    BY <1>3, <1>4
  <2>2. Reverse(names)[i] = Plugins[Reverse(loaded)[i]]
    BY <1>5, <2>1
  <2>3. Reverse(names)[i] \in Names
    BY <1>1, <1>2, <2>1
  <2>4. AllKept => registered[Reverse(names)[i]] # 0
    BY <1>1, <2>1 DEF AllKept
  <2> QED
    BY <2>2, <2>3, <2>4
<1> QED
  BY <1>3, <1>4, <1>6 DEF names

-----------------------------------------------------------------------------
(* The model servers.                                                      *)

Servers == ServersTypeOK /\ watched \subseteq Pids /\ Spawned /\ PortOurs /\ Watched

(* Steps that leave the servers and what is watched alone.                 *)
LEMMA ServersFramed ==
    ASSUME Servers, UNCHANGED <<serverVars, orderly, watched>>, (phase = "off") <=> (phase' = "off")
    PROVE  Servers'
BY DEF Servers, serverVars, ServersTypeOK, Spawned, PortOurs, Watched, NoStrays, Registered, Alive, Holders

(* Nobody took a port, and the starts wait as before.                     *)
LEMMA PortKept ==
    ASSUME PortOurs, \A port \in Ports : Holders(port)' \subseteq Holders(port),
           \A k \in Kinds : starts'[k].step = "waiting" => starts'[k] = starts[k]
    PROVE  PortOurs'
BY DEF PortOurs, Ports

(* Processes that listen did so before.                                    *)
LEMMA NobodyTakes ==
    ASSUME others' = others,
           \A p \in DOMAIN procs' : procs'[p].state = "listening" =>
              p \in DOMAIN procs /\ procs[p].state = "listening" /\ procs'[p].kind = procs[p].kind
    PROVE  \A port \in Ports : Holders(port)' \subseteq Holders(port)
BY DEF Holders

(* The steps of a start.                                                   *)
LEMMA SpawnServers ==
    ASSUME Servers, NEW k \in Kinds, Spawn(k), UNCHANGED <<phase, orderly, watched>>, phase # "off"
    PROVE  Servers'
<1> USE DEF Servers, ServersTypeOK
<1> DEFINE n == Len(procs) + 1
<1>1. /\ procs \in Seq(Proc) /\ n \in Nat /\ n \in Pids /\ n \notin DOMAIN procs
      /\ procs' = Append(procs, [kind |-> k, state |-> "loading"])
      /\ starts' = [starts EXCEPT ![k] =
             [step |-> "waiting", pid |-> n, since |-> {}]]
      /\ instances' = instances /\ others' = others
  BY ServersAssumption DEF Spawn, Pids
<1>2. /\ procs' \in Seq(Proc) /\ DOMAIN procs' = DOMAIN procs \cup {n} /\ Len(procs') = n
      /\ procs'[n] = [kind |-> k, state |-> "loading"]
      /\ \A p \in DOMAIN procs : procs'[p] = procs[p]
  BY <1>1 DEF Proc
<1>3. ServersTypeOK'
  <2>2. starts' \in [Kinds -> Start]
    BY <1>1 DEF Start, Pids
  <2> QED
    BY <1>1, <1>2, <2>2 DEF Pids
<1>4. Spawned'
  BY <1>1, <1>2 DEF Spawned, Registered
<1>5. PortOurs'
  <2> SUFFICES ASSUME NEW j \in Kinds \ Unchecked, starts'[j].step = "waiting"
               PROVE  Holders(PortOf[j])' \subseteq starts'[j].since
    BY DEF PortOurs
  <2>1. PortOf[j] \in Ports
    BY DEF Ports
  <2>2. Holders(PortOf[j])' \subseteq Holders(PortOf[j])
    BY <1>1, <1>2, <2>1, NobodyTakes
  <2>3. CASE j # k
    BY <1>1, <2>2, <2>3 DEF PortOurs
  <2>4. CASE j = k
    BY <2>2, <2>4 DEF Spawn, PortFree, Answers
  <2> QED
    BY <2>3, <2>4
<1>6. Watched'
  BY <1>1, <1>2 DEF Watched, NoStrays, Spawned, Registered, Alive
<1> QED
  BY <1>3, <1>4, <1>5, <1>6

LEMMA StartServers ==
    ASSUME Servers, NEW k \in Kinds, StartStep(k), UNCHANGED <<phase, orderly, watched>>, phase # "off"
    PROVE  Servers'
<1> USE DEF Servers, ServersTypeOK
<1>1. CASE Spawn(k)
  BY <1>1, SpawnServers
<1>2. CASE Skip(k) \/ NotReady(k)
  <2>1. /\ starts' = [starts EXCEPT ![k].step = "done", ![k].since = {}]
        /\ UNCHANGED <<procs, others, instances>>
    BY <1>2 DEF Skip, NotReady, Done
  <2>2. starts' \in [Kinds -> Start]
    BY <2>1 DEF Start
  <2>3. \A j \in Kinds : starts'[j].step = "waiting" => starts'[j] = starts[j]
    BY <2>1 DEF Start
  <2>4. PortOurs'
    BY <2>1, <2>3, NobodyTakes, PortKept
  <2> QED
    BY <2>1, <2>2, <2>3, <2>4 DEF Spawned, Watched, NoStrays, Registered, Alive
<1>3. CASE Ready(k)
  <2>1. /\ starts' = [starts EXCEPT ![k].step = "done", ![k].since = {}] /\ UNCHANGED <<procs, others>>
        /\ instances' = Append(instances, starts[k].pid)
        /\ starts[k].step = "waiting"
    BY <1>3 DEF Ready, Done
  <2>2. starts' \in [Kinds -> Start]
    BY <2>1 DEF Start
  <2>3. \A j \in Kinds : starts'[j].step = "waiting" => starts'[j] = starts[j]
    BY <2>1 DEF Start
  <2>4. starts[k].pid \in DOMAIN procs /\ starts[k].pid \in Pids
    <3>1. starts[k].pid \in DOMAIN procs
      BY <2>1 DEF Spawned
    <3> QED
      BY <3>1, ServersAssumption DEF Pids
  <2>5. instances' \in Seq(Pids) /\ Registered' = Registered \cup {starts[k].pid}
    <3> DEFINE n == Len(instances)
    <3>1. /\ instances' \in Seq(Pids) /\ DOMAIN instances = 1 .. n
          /\ DOMAIN instances' = 1 .. n + 1 /\ n \in Nat
          /\ \A i \in 1 .. n : instances'[i] = instances[i]
          /\ instances'[n + 1] = starts[k].pid
      BY <2>1, <2>4, AppendProperties
    <3>2. 1 .. n + 1 = 1 .. n \cup {n + 1}
      BY <3>1
    <3> HIDE DEF n
    <3> QED
      BY <3>1, <3>2 DEF Registered
  <2>6. PortOurs'
    BY <2>1, <2>3, NobodyTakes, PortKept
  <2> QED
    BY <2>1, <2>2, <2>3, <2>4, <2>5, <2>6 DEF Spawned, Watched, NoStrays, Alive
<1> QED
  BY <1>1, <1>2, <1>3 DEF StartStep

(* Processes only change their state, and the dead stay so.                *)
LEMMA ProcsChange ==
    ASSUME Servers, Len(procs') = Len(procs), procs' \in Seq(Proc),
           \A p \in DOMAIN procs : procs'[p].kind = procs[p].kind /\ (Alive(p)' => Alive(p)),
           starts' \in [Kinds -> Start], PortOurs', others' \subseteq Ports,
           \A k \in Kinds : starts'[k].step = starts[k].step /\ starts'[k].pid = starts[k].pid,
           UNCHANGED <<orderly, watched>>, phase' = phase,
           instances' \in Seq(Pids), Registered' \subseteq Registered,
           \A p \in Registered \ Registered' : ~ Alive(p)'
    PROVE  Servers'
<1> USE DEF Servers, ServersTypeOK
<1>1. DOMAIN procs' = DOMAIN procs
  OBVIOUS
<1>2. ServersTypeOK'
  OBVIOUS
<1>3. Spawned'
  BY <1>1 DEF Spawned
<1>4. Watched'
  BY <1>1 DEF Watched, NoStrays, Spawned
<1> QED
  BY <1>2, <1>3, <1>4

(* Somebody takes a port, which the starts that wait for it hear.          *)
LEMMA PortTaken ==
    ASSUME Servers, NEW port \in Ports, NEW who \in 0 .. MaxProcs, starts' = Heard(port, who),
           \A other \in Ports : Holders(other)' \subseteq
               Holders(other) \cup (IF other = port THEN {who} ELSE {})
    PROVE  /\ starts' \in [Kinds -> Start] /\ PortOurs'
           /\ \A k \in Kinds : starts'[k].step = starts[k].step /\ starts'[k].pid = starts[k].pid
<1>1. starts \in [Kinds -> Start]
  BY DEF Servers, ServersTypeOK
<1>2. ASSUME NEW k \in Kinds
      PROVE  /\ starts'[k] \in Start
             /\ starts'[k].step = starts[k].step /\ starts'[k].pid = starts[k].pid
             /\ starts[k].since \subseteq starts'[k].since
             /\ PortOf[k] = port /\ starts[k].step = "waiting" => who \in starts'[k].since
  <2>1. starts[k] \in Start
    BY <1>1
  <2>2. starts'[k] = IF PortOf[k] = port /\ starts[k].step = "waiting"
                     THEN [starts[k] EXCEPT !.since = @ \cup {who}] ELSE starts[k]
    BY DEF Heard
  <2> QED
    BY <2>1, <2>2 DEF Start
<1>3. starts' \in [Kinds -> Start]
  <2>1. starts' = [k \in Kinds |-> starts'[k]]
    BY DEF Heard
  <2> QED
    BY <1>2, <2>1
<1>4. PortOurs'
  <2> SUFFICES ASSUME NEW k \in Kinds \ Unchecked, starts'[k].step = "waiting"
               PROVE  Holders(PortOf[k])' \subseteq starts'[k].since
    BY DEF PortOurs
  <2>1. PortOf[k] \in Ports
    BY DEF Ports
  <2>2. Holders(PortOf[k]) \subseteq starts[k].since
    BY <1>2 DEF Servers, PortOurs
  <2> QED
    BY <1>2, <2>1, <2>2
<1> QED
  BY <1>2, <1>3, <1>4

LEMMA ListenServers ==
    ASSUME Servers, NEW p \in DOMAIN procs, Listen(p), UNCHANGED <<phase, orderly, watched>>
    PROVE  Servers'
<1> DEFINE kind == procs[p].kind
<1>1. PICK state \in {"listening", "dead"} :
         /\ procs' = [procs EXCEPT ![p].state = state]
         /\ state = "dead" => starts' = starts
         /\ state = "listening" => starts' = Heard(PortOf[kind], p)
  BY DEF Listen
<1>2. Alive(p) /\ UNCHANGED <<others, instances>>
  BY DEF Listen, Alive
<1>3. /\ procs \in Seq(Proc) /\ procs[p] \in Proc /\ instances \in Seq(Pids)
      /\ others \subseteq Ports /\ starts \in [Kinds -> Start]
  BY DEF Servers, ServersTypeOK
<1>4. procs' \in Seq(Proc) /\ Len(procs') = Len(procs) /\ DOMAIN procs' = DOMAIN procs
  BY <1>1, <1>3 DEF Proc
<1>5. \A q \in DOMAIN procs : /\ procs'[q].kind = procs[q].kind /\ (Alive(q)' => Alive(q))
                              /\ q # p => procs'[q] = procs[q]
  BY <1>1, <1>2, <1>3 DEF Alive
<1>6. Registered' = Registered
  BY <1>2 DEF Registered
<1>7. PortOf[kind] \in Ports /\ p \in 0 .. MaxProcs
  <2>1. kind \in Kinds
    BY <1>3 DEF Proc
  <2>2. Len(procs) <= MaxProcs /\ p \in 1 .. Len(procs)
    BY DEF Servers, ServersTypeOK
  <2> QED
    BY <2>1, <2>2, ServersAssumption DEF Ports
<1>8. /\ starts' \in [Kinds -> Start] /\ PortOurs'
      /\ \A k \in Kinds : starts'[k].step = starts[k].step /\ starts'[k].pid = starts[k].pid
  <2>1. CASE state = "dead"
    <3>1. procs'[p].state = "dead"
      BY <1>1, <1>3, <2>1 DEF Proc
    <3>2. \A port \in Ports : Holders(port)' \subseteq Holders(port)
      BY <1>2, <1>4, <1>5, <3>1, NobodyTakes
    <3>3. PortOurs'
      BY <1>1, <2>1, <3>2, PortKept DEF Servers
    <3> QED
      BY <1>1, <1>3, <2>1, <3>3
  <2>2. CASE state = "listening"
    <3>1. ASSUME NEW other \in Ports
          PROVE  Holders(other)' \subseteq Holders(other) \cup (IF other = PortOf[kind] THEN {p} ELSE {})
      BY <1>2, <1>4, <1>5 DEF Holders
    <3> QED
      BY <1>1, <1>7, <2>2, <3>1, PortTaken
  <2> QED
    BY <1>1, <2>1, <2>2
<1> QED
  BY <1>2, <1>3, <1>4, <1>5, <1>6, <1>8, ProcsChange

LEMMA DieServers ==
    ASSUME Servers, NEW p \in DOMAIN procs, Die(p), UNCHANGED <<phase, orderly, watched>>
    PROVE  Servers'
<1>1. procs' = [procs EXCEPT ![p].state = "dead"] /\ UNCHANGED <<others, starts, instances>>
  BY DEF Die
<1>2. /\ procs \in Seq(Proc) /\ procs[p] \in Proc /\ instances \in Seq(Pids)
      /\ others \subseteq Ports /\ starts \in [Kinds -> Start]
  BY DEF Servers, ServersTypeOK
<1>3. procs' \in Seq(Proc) /\ Len(procs') = Len(procs) /\ DOMAIN procs' = DOMAIN procs
  <2> DEFINE ended == [procs[p] EXCEPT !.state = "dead"]
  <2>1. ended \in Proc
    BY <1>2 DEF Proc
  <2>2. procs' = [procs EXCEPT ![p] = ended]
    BY <1>1
  <2> HIDE DEF ended
  <2> QED
    BY <1>2, <2>1, <2>2
<1>4. procs'[p].state = "dead"
  BY <1>1, <1>2 DEF Proc
<1>5. \A q \in DOMAIN procs : /\ procs'[q].kind = procs[q].kind /\ (Alive(q)' => Alive(q))
                              /\ q # p => procs'[q] = procs[q]
  BY <1>1, <1>2, <1>4 DEF Alive
<1>6. Registered' = Registered
  BY <1>1 DEF Registered
<1>7. PortOurs'
  BY <1>1, <1>3, <1>4, <1>5, NobodyTakes, PortKept DEF Servers
<1> QED
  BY <1>1, <1>2, <1>3, <1>5, <1>6, <1>7, ProcsChange

LEMMA OtherServers ==
    ASSUME Servers, NEW port \in Ports, OtherTakes(port) \/ OtherLeaves(port),
           UNCHANGED <<phase, orderly, watched>>
    PROVE  Servers'
<1>1. UNCHANGED <<procs, instances>> /\ others' \subseteq Ports /\ starts \in [Kinds -> Start]
  BY DEF Servers, ServersTypeOK, OtherTakes, OtherLeaves
<1>2. /\ starts' \in [Kinds -> Start] /\ PortOurs'
      /\ \A k \in Kinds : starts'[k].step = starts[k].step /\ starts'[k].pid = starts[k].pid
  <2>1. CASE OtherTakes(port)
    <3>1. Other \in 0 .. MaxProcs
      BY ServersAssumption DEF Other
    <3>2. starts' = Heard(port, Other) /\ others' = others \cup {port}
      BY <2>1 DEF OtherTakes
    <3>3. ASSUME NEW other \in Ports
          PROVE  Holders(other)' \subseteq Holders(other) \cup (IF other = port THEN {Other} ELSE {})
      BY <1>1, <3>2 DEF Holders
    <3> QED
      BY <3>1, <3>2, <3>3, PortTaken
  <2>2. CASE OtherLeaves(port)
    <3>1. starts' = starts /\ others' = others \ {port}
      BY <2>2 DEF OtherLeaves
    <3>2. \A other \in Ports : Holders(other)' \subseteq Holders(other)
      BY <1>1, <3>1 DEF Holders
    <3>3. PortOurs'
      BY <3>1, <3>2, PortKept DEF Servers
    <3> QED
      BY <1>1, <3>1, <3>3
  <2> QED
    BY <2>1, <2>2
<1>3. procs' \in Seq(Proc) /\ instances' \in Seq(Pids) /\ Registered' = Registered
  BY <1>1 DEF Servers, ServersTypeOK, Registered
<1>4. \A p \in DOMAIN procs : procs'[p].kind = procs[p].kind /\ (Alive(p)' => Alive(p))
  BY <1>1 DEF Alive
<1> QED
  BY <1>1, <1>2, <1>3, <1>4, ProcsChange

LEMMA OutsideServers ==
    ASSUME Servers, Outside, UNCHANGED <<phase, orderly, watched>>
    PROVE  Servers'
BY ListenServers, DieServers, OtherServers DEF Outside

(* Killing.                                                                *)
LEMMA KilledAre ==
    ASSUME procs \in Seq(Proc), NEW S
    PROVE  /\ Killed(S) \in Seq(Proc) /\ Len(Killed(S)) = Len(procs)
           /\ \A p \in DOMAIN procs :
                 /\ Killed(S)[p].kind = procs[p].kind
                 /\ p \in S => Killed(S)[p].state = "dead"
                 /\ p \notin S => Killed(S)[p] = procs[p]
<1>1. \A p \in DOMAIN procs : procs[p] \in Proc
  OBVIOUS
<1>2. DOMAIN procs = 1 .. Len(procs) /\ Len(procs) \in Nat
  OBVIOUS
<1>3. \A p \in DOMAIN procs :
         Killed(S)[p] = IF p \in S THEN [procs[p] EXCEPT !.state = "dead"] ELSE procs[p]
  BY DEF Killed
<1>4. \A p \in DOMAIN procs : Killed(S)[p] \in Proc
  BY <1>1, <1>3 DEF Proc
<1>5. Killed(S) \in [1 .. Len(procs) -> Proc]
  <2>1. DOMAIN Killed(S) = 1 .. Len(procs)
    BY <1>2 DEF Killed
  <2>2. Killed(S) = [p \in 1 .. Len(procs) |-> Killed(S)[p]]
    BY <1>2, <2>1 DEF Killed
  <2> QED
    BY <1>2, <1>4, <2>2
<1>6. Killed(S) \in Seq(Proc) /\ Len(Killed(S)) = Len(procs)
  BY <1>2, <1>5
<1> QED
  BY <1>1, <1>3, <1>6 DEF Proc

LEMMA StopServers ==
    ASSUME Servers, NEW p, StopInstance(p), UNCHANGED <<phase, orderly, watched>>
    PROVE  Servers'
<1>1. procs \in Seq(Proc) /\ instances \in Seq(Pids)
  BY DEF Servers, ServersTypeOK
<1>2. procs' = Killed({p}) /\ instances' = Without(p) /\ starts' = starts /\ others' = others
  BY DEF StopInstance, KilledByStop
<1>3. procs' \in Seq(Proc) /\ Len(procs') = Len(procs)
  BY <1>1, <1>2, KilledAre
<1>4. \A q \in DOMAIN procs : /\ procs'[q].kind = procs[q].kind /\ (Alive(q)' => Alive(q))
                              /\ procs'[q].state = "listening" => procs[q].state = "listening"
  BY <1>1, <1>2, KilledAre DEF Alive
<1>5. instances' \in Seq(Pids) /\ Registered' \subseteq Registered
  BY <1>1, <1>2, WithoutKeeps DEF Registered
<1>6. Registered \ {p} \subseteq Registered'
  BY <1>1, <1>2, WithoutKeeps DEF Registered
<1>7. \A q \in Registered \ Registered' : ~ Alive(q)'
  <2>1. Registered \subseteq DOMAIN procs
    BY DEF Servers, Spawned
  <2>2. p \in DOMAIN procs => ~ Alive(p)'
    BY <1>1, <1>2, KilledAre DEF Alive
  <2> QED
    BY <1>6, <2>1, <2>2
<1>8. PortOurs'
  <2>1. DOMAIN procs' = DOMAIN procs
    BY <1>1, <1>3
  <2> QED
    BY <1>2, <1>4, <2>1, NobodyTakes, PortKept DEF Servers
<1>9. others' \subseteq Ports /\ starts' \in [Kinds -> Start]
  BY <1>2 DEF Servers, ServersTypeOK
<1> QED
  BY <1>2, <1>3, <1>4, <1>5, <1>7, <1>8, <1>9, ProcsChange

LEMMA ExitServers ==
    ASSUME Servers, phase # "off", Exit
    PROVE  Servers'
<1>1. /\ procs \in Seq(Proc) /\ procs' = Killed(Registered) /\ instances' = <<>>
      /\ starts' = [k \in Kinds |-> NoStart] /\ phase' = "off" /\ orderly' /\ watched' = watched
      /\ others' = others
  BY DEF Servers, ServersTypeOK, Exit, KillAll
<1>2. procs' \in Seq(Proc) /\ Len(procs') = Len(procs) /\ DOMAIN procs' = DOMAIN procs
  BY <1>1, KilledAre
<1>3. starts' \in [Kinds -> Start]
  <2>1. NoStart \in Start
    BY ServersAssumption DEF NoStart, Start
  <2> QED
    BY <1>1, <2>1
<1>4. Registered' = {} /\ instances' \in Seq(Pids)
  BY <1>1 DEF Registered
<1>5. \A p \in watched : ~ Alive(p)'
  <2> TAKE p \in watched
  <2>1. p \in DOMAIN procs
    BY DEF Servers, Spawned
  <2>2. CASE p \in Registered
    BY <1>1, <2>1, <2>2, KilledAre DEF Alive
  <2>3. CASE p \notin Registered
    <3>1. ~ Alive(p)
      BY <2>3 DEF Servers, Watched
    <3> QED
      BY <1>1, <2>1, <2>3, <3>1, KilledAre DEF Alive
  <2> QED
    BY <2>2, <2>3
<1>6. ServersTypeOK' /\ (watched \subseteq Pids)'
  BY <1>1, <1>2, <1>3, <1>4 DEF Servers, ServersTypeOK
<1>7. Spawned' /\ PortOurs'
  BY <1>1, <1>2, <1>4 DEF Servers, Spawned, PortOurs, NoStart
<1>8. Watched'
  BY <1>1, <1>5 DEF Watched, NoStrays
<1> QED
  BY <1>6, <1>7, <1>8 DEF Servers

LEMMA CrashServers ==
    ASSUME Servers, Crash
    PROVE  Servers'
<1>1. /\ instances' = <<>> /\ starts' = [k \in Kinds |-> NoStart] /\ UNCHANGED <<procs, others>>
      /\ phase # "off" /\ phase' = "off" /\ orderly' = orderly /\ watched' = watched
  BY DEF Crash, Abandon
<1>2. starts' \in [Kinds -> Start]
  <2>1. NoStart \in Start
    BY ServersAssumption DEF NoStart, Start
  <2> QED
    BY <1>1, <2>1
<1>3. Registered' = {} /\ instances' \in Seq(Pids)
  BY <1>1 DEF Registered
<1>4. ~ orderly
  BY <1>1 DEF Servers, Watched
<1> QED
  BY <1>1, <1>2, <1>3, <1>4
     DEF Servers, ServersTypeOK, Spawned, PortOurs, Watched, NoStrays, NoStart

(* The servers, over every step.                                           *)
LEMMA ServersStep ==
    ASSUME Servers, phase \in Phases, Running # {} => phase = "up", [Next]_vars
    PROVE  Servers'
<1>1. CASE StartServer
  BY <1>1 DEF StartServer, Servers, serverVars, ServersTypeOK, Spawned, PortOurs, Watched,
              NoStrays, Registered, Alive, Holders
<1>2. CASE Migrate \/ ServersStarted \/ PluginStep \/ Up
  BY <1>2, ServersFramed DEF Migrate, ServersStarted, PluginStep, Up, history, serverVars
<1>3. ASSUME NEW k \in Kinds, ServerStep(k) PROVE Servers'
  BY <1>3, StartServers DEF ServerStep, history
<1>4. ASSUME NEW n \in Names, NEW on \in BOOLEAN, TogglePlugin(n, on) PROVE Servers'
  BY <1>4, ServersFramed DEF TogglePlugin, history, serverVars
<1>5. CASE OutsideStep
  BY <1>5, OutsideServers DEF OutsideStep, history
<1>6. ASSUME NEW c \in Signals, Signal(c) PROVE Servers'
  <2>1. /\ phase = "up" /\ phase' = "up" /\ UNCHANGED <<procs, others, starts, instances, orderly>>
        /\ watched' \in {watched, Registered}
    BY <1>6 DEF Signal, serverVars
  <2>2. Registered \subseteq Pids
    BY DEF Servers, ServersTypeOK, Registered
  <2> QED
    BY <2>1, <2>2 DEF Servers, ServersTypeOK, Spawned, PortOurs, Watched, NoStrays, Registered, Alive, Holders
<1>7. ASSUME NEW c \in Signals, StopNext(c) PROVE Servers'
  BY <1>7, StopServers DEF StopNext, history
<1>8. ASSUME NEW c \in Signals, UnloadFirst(c) \/ UnloadNext(c) \/ Unloaded(c) PROVE Servers'
  BY <1>8, ServersFramed DEF UnloadFirst, UnloadNext, Unloaded, history, serverVars
<1>9. ASSUME NEW c \in Signals, FlushTimedOut(c) \/ Flushed(c) PROVE Servers'
  <2>1. Exit /\ c \in Running
    BY <1>9 DEF FlushTimedOut, Flushed, TimerSet, Running
  <2> QED
    BY <2>1, ExitServers
<1>10. CASE Crash
  BY <1>10, CrashServers
<1>11. CASE UNCHANGED vars
  BY <1>11, ServersFramed DEF vars, serverVars
<1> QED
  BY <1>1, <1>2, <1>3, <1>4, <1>5, <1>6, <1>7, <1>8, <1>9, <1>10, <1>11
     DEF Next, StartUp, ShutdownStep

-----------------------------------------------------------------------------
(* The plugins.                                                            *)

Registry ==
    /\ PluginsTypeOK /\ phase \in Phases /\ shutdowns \in [Signals -> Shutdown]
    /\ Loading /\ Latest /\ Plugged

(* A step that changes how far a start is, and no shutdown.                *)
LEMMA RegistryFramed ==
    ASSUME Registry, UNCHANGED <<pluginVars, shutdowns>>, phase' \in Phases,
           phase' = phase \/ Running = {}, phase' = "up" => Loaded
    PROVE  Registry'
<1>1. /\ next' = next /\ registered' = registered /\ enabled' = enabled /\ rows' = rows
      /\ loadOrder' = loadOrder /\ loaded' = loaded /\ unloads' = unloads
      /\ shutdowns' = shutdowns
  BY DEF pluginVars
<1>2. PluginsTypeOK' /\ Loading' /\ Latest'
  BY <1>1 DEF Registry, PluginsTypeOK, Loading, Latest
<1>3. Running' = Running /\ Loaded' = Loaded
  BY <1>1 DEF Running, Loaded
<1>4. Untouched' = Untouched /\ AllCalled' = AllCalled /\ AllKept' = AllKept
  BY <1>1 DEF Untouched, AllCalled, AllKept, LoadedNames
<1>5. \A c \in Signals : Unloading(c) => Unloading(c)'
  BY <1>1, <1>4 DEF Unloading, LoadedNames
<1>6. Plugged'
  BY <1>3, <1>4, <1>5 DEF Registry, Plugged, Running
<1> QED
  BY <1>1, <1>2, <1>6 DEF Registry

(* An administrator's changes: nothing that is loaded is forgotten.        *)
LEMMA ToggleRegistry ==
    ASSUME Registry, NEW n \in Names, NEW on \in BOOLEAN, Toggle(n, on), UNCHANGED <<phase, shutdowns>>
    PROVE  Registry'
<1>1. /\ enabled' = [enabled EXCEPT ![n] = on]
      /\ rows' \in {rows, [rows EXCEPT ![n] = RowOf(on)]}
      /\ UNCHANGED <<next, registered, loadOrder, loaded, unloads>>
  BY DEF Toggle
<1>2. PluginsTypeOK'
  BY <1>1 DEF Registry, PluginsTypeOK, RowOf
<1> QED
  BY <1>1, <1>2 DEF Registry, Loading, Latest, Plugged, Loaded, Running, Unloading, Untouched,
                    AllCalled, AllKept, LoadedNames

(* The process ends: all shutdowns are over and the memory is gone.        *)
LEMMA EndRegistry ==
    ASSUME Registry, PluginsFresh, rows' = rows, phase' = "off",
           shutdowns' = [c \in Signals |-> NoShutdown]
    PROVE  Registry'
<1>1. /\ next' = 0 /\ registered' = [n \in Names |-> 0] /\ enabled' = [n \in Names |-> FALSE]
      /\ loadOrder' = <<>> /\ loaded' = <<>> /\ unloads' = <<>>
  BY DEF PluginsFresh
<1>2. PluginsTypeOK'
  <2>1. Len(Plugins) \in Nat
    BY PluginsAssumption
  <2> QED
    BY <1>1, <2>1 DEF Registry, PluginsTypeOK
<1>3. Running' = {}
  BY DEF Running, NoShutdown
<1>4. shutdowns' \in [Signals -> Shutdown]
  <2>1. NoShutdown \in Shutdown
    <3>1. Len(Plugins) \in Nat /\ <<>> \in Seq(Pids)
      BY PluginsAssumption
    <3> QED
      BY <3>1 DEF NoShutdown, Shutdown
  <2> QED
    BY <2>1
<1>5. Plugged'
  <2>1. Untouched'
    BY <1>1 DEF Untouched, AllKept, LoadedNames
  <2>2. \A c \in Signals : (Running = {c})' => FALSE
    BY <1>3
  <2> QED
    BY <1>3, <2>1, <2>2 DEF Plugged
<1>6. Latest'
  BY <1>1 DEF Latest
<1> QED
  BY <1>1, <1>2, <1>4, <1>5, <1>6 DEF Registry, Loading, Phases

(* One plugin after the other.                                             *)
LEMMA LoadRegistry ==
    ASSUME Registry, phase = "plugins", LoadStates \/ LoadPlugin, UNCHANGED <<phase, shutdowns>>
    PROVE  Registry'
<1>1. Running = {} /\ Running' = {} /\ Untouched
  BY DEF Registry, Plugged, Running
<1>2. PluginsTypeOK /\ Loading /\ Latest /\ Len(Plugins) \in Nat
  BY PluginsAssumption DEF Registry
<1>3. CASE LoadStates
  <2>1. /\ next = 0 /\ next' = 1 /\ loadOrder' = <<>> /\ UNCHANGED <<registered, rows, loaded, unloads>>
        /\ \E read \in {rows, [n \in Names |-> "none"]} :
              enabled' = [n \in Names |-> read[n] = "on"]
    BY <1>3 DEF LoadStates
  <2>2. enabled' \in [Names -> BOOLEAN]
    BY <2>1
  <2>3. PluginsTypeOK'
    <3>1. next' \in 0 .. Len(Plugins) + 1 /\ loadOrder' \in Seq(Names)
      BY <1>2, <2>1
    <3>2. UNCHANGED <<registered, rows, loaded, unloads>>
      BY <2>1
    <3> QED
      BY <1>2, <2>2, <3>1, <3>2 DEF PluginsTypeOK
  <2>4. Loading'
    BY <2>1 DEF Loading
  <2>5. Untouched'
    BY <1>1, <1>2, <2>1 DEF Untouched, Loading, AllKept, LoadedNames
  <2>6. Latest'
    <3>1. \A n \in Names : registered[n] # 0 => registered[n] \in Nat /\ Plugins[registered[n]] = n
      BY <1>2 DEF PluginsTypeOK, Latest
    <3>2. \A n \in Names : registered[n] # 0 => registered[n] + 1 .. next' - 1 = {}
      BY <1>2, <2>1, <3>1 DEF PluginsTypeOK
    <3> QED
      BY <2>1, <3>1, <3>2 DEF Latest
  <2> QED
    BY <1>1, <2>3, <2>4, <2>5, <2>6 DEF Registry, Plugged
<1>4. CASE LoadPlugin
  <2> DEFINE n == Plugins[next]
  <2>1. n \in Names /\ next \in Places
    BY <1>4, PluginsAssumption DEF LoadPlugin, Names, Places
  <2>2. /\ next \in 1 .. Len(Plugins) /\ next' = next + 1
        /\ registered' = [registered EXCEPT ![n] = next]
        /\ enabled' = [enabled EXCEPT ![n] = TRUE] /\ unloads' = unloads
        /\ \/ /\ loadOrder' = Append(loadOrder, n) /\ loaded' = Append(loaded, next)
              /\ rows' \in {rows, [rows EXCEPT ![n] = IF @ = "none" THEN "on" ELSE @]}
           \/ UNCHANGED <<loadOrder, loaded, rows>>
    BY <1>4, <2>1 DEF LoadPlugin, Places
  <2>3. /\ loadOrder \in Seq(Names) /\ loaded \in Seq(Places) /\ loadOrder = LoadedNames
        /\ Len(loadOrder) < next /\ registered \in [Names -> 0 .. Len(Plugins)]
    BY <1>1, <1>2, <2>2 DEF PluginsTypeOK, Loading, Untouched
  <2>4. \A m \in Names : registered'[m] = IF m = n THEN next ELSE registered[m]
    BY <2>1, <2>2, <2>3
  <2>5. registered' \in [Names -> 0 .. Len(Plugins)]
    BY <2>1, <2>2, <2>3
  <2>6. AllKept /\ \A i \in DOMAIN loaded : loaded[i] \in Places /\ Plugins[loaded[i]] \in Names
    BY <1>1, <2>3, PluginsAssumption DEF Untouched, Places, Names
  <2>7. n = Plugins[next]
    OBVIOUS
  <2> HIDE DEF n
  <2>8. rows' \in [Names -> {"none", "on", "off"}]
    BY <1>2, <2>1, <2>2 DEF PluginsTypeOK
  <2>9. /\ loadOrder' \in Seq(Names) /\ loaded' \in Seq(Places) /\ loadOrder' = LoadedNames'
        /\ Len(loadOrder') <= Len(loadOrder) + 1 /\ AllKept'
    <3>1. CASE UNCHANGED <<loadOrder, loaded, rows>>
      <4>1. AllKept'
        BY <2>2, <2>4, <2>6, <3>1 DEF AllKept
      <4> QED
        BY <2>3, <3>1, <4>1 DEF LoadedNames
    <3>2. CASE loadOrder' = Append(loadOrder, n) /\ loaded' = Append(loaded, next)
      <4> DEFINE k == Len(loaded)
      <4>1. /\ loaded' \in Seq(Places) /\ Len(loaded') = k + 1 /\ k \in Nat
            /\ \A i \in 1 .. k : loaded'[i] = loaded[i]
            /\ loaded'[k + 1] = next
            /\ DOMAIN loaded = 1 .. k /\ DOMAIN loaded' = 1 .. k + 1
        BY <2>1, <2>3, <3>2, AppendProperties, LenProperties
      <4>2. DOMAIN loadOrder = 1 .. k /\ Len(loadOrder) = k
        BY <2>3, <4>1, NamesLoaded
      <4>3. /\ loadOrder' \in Seq(Names) /\ Len(loadOrder') = k + 1 /\ DOMAIN loadOrder' = 1 .. k + 1
            /\ \A i \in 1 .. k : loadOrder'[i] = loadOrder[i]
            /\ loadOrder'[k + 1] = n
        BY <2>1, <2>3, <3>2, <4>2, AppendProperties, LenProperties
      <4>4. \A i \in 1 .. k + 1 : i \in 1 .. k \/ i = k + 1
        BY <4>1
      <4> HIDE DEF k
      <4>5. \A i \in 1 .. k : loadOrder[i] = Plugins[loaded[i]]
        BY <2>3, <4>1 DEF LoadedNames
      <4>6. \A i \in 1 .. k + 1 : loadOrder'[i] = Plugins[loaded'[i]]
        BY <2>7, <4>1, <4>3, <4>4, <4>5
      <4>7. loadOrder' = LoadedNames'
        <5>1. loadOrder' = [i \in 1 .. k + 1 |-> loadOrder'[i]]
          BY <4>3
        <5> QED
          BY <4>1, <4>6, <5>1 DEF LoadedNames
      <4>8. AllKept'
        <5> SUFFICES ASSUME NEW i \in 1 .. k + 1 PROVE registered'[Plugins[loaded'[i]]] # 0
          BY <4>1 DEF AllKept
        <5>1. CASE i = k + 1
          BY <2>1, <2>2, <2>4, <2>7, <4>1, <5>1
        <5>2. CASE i \in 1 .. k
          BY <2>2, <2>4, <2>6, <4>1, <5>2 DEF AllKept
        <5> QED
          BY <4>4, <5>1, <5>2
      <4> QED
        BY <2>3, <4>1, <4>2, <4>3, <4>7, <4>8
    <3> QED
      BY <2>2, <3>1, <3>2
  <2>10. PluginsTypeOK'
    <3>1. next' \in 0 .. Len(Plugins) + 1
      BY <1>2, <2>2
    <3>2. enabled' \in [Names -> BOOLEAN]
      BY <1>2, <2>1, <2>2 DEF PluginsTypeOK
    <3>3. unloads' \in Seq(Places)
      BY <1>2, <2>2 DEF PluginsTypeOK
    <3> QED
      BY <2>5, <2>8, <2>9, <3>1, <3>2, <3>3 DEF PluginsTypeOK
  <2>11. Loading'
    <3>1. Len(loadOrder') \in Nat /\ Len(loadOrder) \in Nat
      BY <2>3, <2>9
    <3> QED
      BY <2>2, <2>3, <2>9, <3>1 DEF Loading
  <2>12. Latest'
    <3> SUFFICES ASSUME NEW m \in Names, registered'[m] # 0
                 PROVE  /\ Plugins[registered'[m]] = m
                        /\ \A j \in registered'[m] + 1 .. next' - 1 : Plugins[j] # m
      BY DEF Latest
    <3>1. CASE m = n
      <4>1. registered'[m] = next /\ next + 1 .. next' - 1 = {}
        BY <2>2, <2>4, <3>1
      <4> QED
        BY <2>7, <3>1, <4>1
    <3>2. CASE m # n
      <4>1. registered'[m] = registered[m] /\ registered[m] \in Nat
        BY <2>3, <2>4, <3>2
      <4>2. Plugins[registered[m]] = m /\ \A j \in registered[m] + 1 .. next - 1 : Plugins[j] # m
        BY <1>2, <4>1 DEF Latest
      <4>3. \A j \in registered[m] + 1 .. next' - 1 : j = next \/ j \in registered[m] + 1 .. next - 1
        BY <2>2, <4>1
      <4> QED
        BY <2>7, <3>2, <4>1, <4>2, <4>3
    <3> QED
      BY <3>1, <3>2
  <2>13. Untouched'
    BY <1>1, <2>2, <2>9 DEF Untouched
  <2> QED
    BY <1>1, <2>10, <2>11, <2>12, <2>13 DEF Registry, Plugged
<1> QED
  BY <1>3, <1>4

(* The plugins a shutdown goes through, when it is the only one.           *)
LEMMA AloneAtFirst ==
    ASSUME Registry, NEW c \in Signals, AllStopped(c), Running = {c}
    PROVE  Untouched
BY DEF Registry, Plugged, Unloading, AllStopped

(* A step of a shutdown that is under way leaves the set of them alone.    *)
LEMMA RunningStays ==
    ASSUME Registry, NEW c \in Signals, shutdowns[c].step # "idle",
           NEW d \in Shutdown, d.step # "idle", shutdowns' = [shutdowns EXCEPT ![c] = d]
    PROVE  /\ Running' = Running /\ c \in Running
           /\ shutdowns' \in [Signals -> Shutdown]
           /\ \A e \in Signals : Running' = {e} => e = c /\ shutdowns'[e] = d
<1>1. shutdowns \in [Signals -> Shutdown]
  BY DEF Registry
<1>2. \A e \in Signals : shutdowns'[e] = IF e = c THEN d ELSE shutdowns[e]
  BY <1>1
<1>3. Running' = Running /\ c \in Running
  BY <1>2 DEF Running
<1> QED
  BY <1>1, <1>2, <1>3

LEMMA SignalRegistry ==
    ASSUME Registry, NEW c \in Signals, Signal(c), instances \in Seq(Pids)
    PROVE  Registry'
<1> DEFINE d == [step |-> "stopping", list |-> instances, at |-> 0]
<1>1. /\ phase = "up" /\ phase' = "up" /\ shutdowns[c].step = "idle" /\ UNCHANGED pluginVars
      /\ shutdowns' = [shutdowns EXCEPT ![c] = d]
  BY DEF Signal
<1>2. shutdowns \in [Signals -> Shutdown] /\ d \in Shutdown
  <2>1. 0 \in 0 .. Len(Plugins) + 1
    BY PluginsAssumption
  <2> QED
    BY <2>1 DEF Registry, Shutdown
<1>3. /\ shutdowns' \in [Signals -> Shutdown] /\ d.step = "stopping"
      /\ \A e \in Signals : shutdowns'[e] = IF e = c THEN d ELSE shutdowns[e]
  BY <1>1, <1>2
<1> HIDE DEF d
<1>4. Running' = Running \cup {c}
  BY <1>3 DEF Running
<1>5. Plugged'
  <2>1. \A e \in Signals : Running' = {e} => e = c /\ Running = {}
    BY <1>1, <1>4 DEF Running
  <2>2. Running = {} => Untouched'
    BY <1>1 DEF Registry, Plugged, Untouched, AllKept, LoadedNames, pluginVars
  <2>3. \A e \in Signals : Running' = {e} => Unloading(e)'
    BY <1>3, <2>1, <2>2 DEF Unloading
  <2>4. Loaded'
    BY <1>1 DEF Registry, Plugged, Loaded, pluginVars
  <2> QED
    BY <1>1, <1>4, <2>3, <2>4 DEF Plugged
<1> QED
  BY <1>1, <1>3, <1>5 DEF Registry, pluginVars, PluginsTypeOK, Loading, Latest

LEMMA StopRegistry ==
    ASSUME Registry, NEW c \in Signals, StopNext(c)
    PROVE  Registry'
<1> DEFINE d == [shutdowns[c] EXCEPT !.list = Tail(shutdowns[c].list)]
<1>1. /\ shutdowns[c].step = "stopping" /\ shutdowns[c].list # <<>>
      /\ shutdowns' = [shutdowns EXCEPT ![c] = d] /\ UNCHANGED <<pluginVars, phase>>
  BY DEF StopNext, Registry
<1>2. shutdowns[c] \in Shutdown
  BY DEF Registry
<1>3. d \in Shutdown /\ d.step = "stopping"
  <2>1. Tail(shutdowns[c].list) \in Seq(Pids)
    BY <1>1, <1>2, HeadTailProperties DEF Shutdown
  <2> QED
    BY <1>1, <1>2, <2>1 DEF Shutdown
<1> HIDE DEF d
<1>4. /\ Running' = Running /\ shutdowns' \in [Signals -> Shutdown] /\ c \in Running
      /\ \A e \in Signals : Running' = {e} => e = c /\ shutdowns'[e] = d
  BY <1>1, <1>3, RunningStays
<1>5. \A e \in Signals : Running' = {e} => Unloading(e)'
  <2> SUFFICES ASSUME NEW e \in Signals, Running' = {e} PROVE Unloading(e)'
    OBVIOUS
  <2>1. Untouched
    BY <1>1, <1>4 DEF Registry, Plugged, Unloading
  <2> QED
    BY <1>1, <1>3, <1>4, <2>1 DEF Unloading, Untouched, AllKept, LoadedNames, pluginVars
<1> QED
  BY <1>1, <1>4, <1>5 DEF Registry, pluginVars, PluginsTypeOK, Loading, Latest, Plugged, Loaded

(* The first plugin, after the array was turned.                           *)
LEMMA UnloadFirstRegistry ==
    ASSUME Registry, NEW c \in Signals, UnloadFirst(c)
    PROVE  Registry'
<1> DEFINE d == [shutdowns[c] EXCEPT !.step = "unloading", !.at = 1]
<1> DEFINE name == Reverse(loadOrder)[1]
<1>1. /\ AllStopped(c) /\ loadOrder # <<>> /\ loadOrder' = Reverse(loadOrder)
      /\ 1 \in DOMAIN Reverse(loadOrder)
      /\ unloads' = IF registered[name] # 0 THEN Append(unloads, registered[name]) ELSE unloads
      /\ UNCHANGED <<next, registered, enabled, rows, loaded, phase>>
  BY DEF UnloadFirst, Unload, Turned
<1>2. /\ shutdowns' = [shutdowns EXCEPT ![c] = d] /\ shutdowns[c].step = "stopping"
      /\ shutdowns[c] \in Shutdown
  BY DEF UnloadFirst, AllStopped, Registry
<1>3. /\ loadOrder \in Seq(Names) /\ unloads \in Seq(Places) /\ Len(Plugins) \in Nat
      /\ Reverse(loadOrder) \in Seq(Names) /\ Len(Reverse(loadOrder)) = Len(loadOrder)
      /\ registered \in [Names -> 0 .. Len(Plugins)] /\ loaded \in Seq(Places)
  BY PluginsAssumption, Reversed DEF Registry, PluginsTypeOK
<1>4. 1 \in 1 .. Len(loadOrder) /\ name \in Names
  BY <1>1, <1>3
<1>5. d \in Shutdown /\ d.step = "unloading" /\ d.at = 1
  <2>1. 1 \in 0 .. Len(Plugins) + 1
    BY <1>3
  <2> QED
    BY <1>2, <2>1 DEF Shutdown
<1> HIDE DEF d
<1>6. /\ Running' = Running /\ shutdowns' \in [Signals -> Shutdown] /\ c \in Running
      /\ \A e \in Signals : Running' = {e} => e = c /\ shutdowns'[e] = d
  BY <1>2, <1>5, RunningStays
<1>7. unloads' \in Seq(Places)
  <2>1. registered[name] # 0 => registered[name] \in Places
    BY <1>3, <1>4 DEF Places
  <2> HIDE DEF name
  <2> QED
    BY <1>1, <1>3, <2>1
<1>8. ASSUME Running = {c} PROVE Unloading(c)'
  <2>1. Untouched
    BY <1>1, <1>8, AloneAtFirst
  <2>2. /\ loadOrder = LoadedNames /\ AllKept /\ Len(loadOrder) = Len(loaded)
        /\ registered[name] # 0
    BY <1>3, <1>4, <2>1, NamesLoaded DEF Untouched
  <2>3. unloads' = <<registered[name]>>
    BY <1>1, <2>1, <2>2 DEF Untouched
  <2>4. Len(unloads') = 1 /\ \A i \in 1 .. 1 : unloads'[i] = registered'[loadOrder'[i]]
    BY <1>1, <2>3
  <2>5. shutdowns'[c].step = "unloading" /\ shutdowns'[c].at = 1
    BY <1>5, <1>6, <1>8
  <2>6. 1 \in 1 .. Len(loaded')
    BY <1>1, <1>4, <2>2
  <2>7. loadOrder' = Reverse(LoadedNames') /\ AllKept'
    BY <1>1, <2>2 DEF AllKept, LoadedNames
  <2> QED
    BY <2>4, <2>5, <2>6, <2>7 DEF Unloading
<1>9. Plugged'
  BY <1>1, <1>6, <1>8 DEF Registry, Plugged, Loaded
<1>10. PluginsTypeOK' /\ Loading' /\ Latest'
  <2>1. Loading /\ PluginsTypeOK /\ Latest
    BY DEF Registry
  <2>2. loadOrder' \in Seq(Names) /\ Len(loadOrder') = Len(loadOrder)
    BY <1>1, <1>3
  <2>3. PluginsTypeOK'
    BY <1>1, <1>7, <2>1, <2>2 DEF PluginsTypeOK
  <2>4. Loading' /\ Latest'
    BY <1>1, <2>1, <2>2 DEF Loading, Latest
  <2> QED
    BY <2>3, <2>4
<1> QED
  BY <1>1, <1>6, <1>9, <1>10 DEF Registry

LEMMA UnloadNextRegistry ==
    ASSUME Registry, NEW c \in Signals, UnloadNext(c)
    PROVE  Registry'
<1> DEFINE i == shutdowns[c].at + 1
           d == [shutdowns[c] EXCEPT !.at = i]
<1>1. /\ shutdowns[c].step = "unloading" /\ i \in DOMAIN loadOrder /\ loadOrder' = loadOrder
      /\ unloads' = IF registered[loadOrder[i]] # 0
                    THEN Append(unloads, registered[loadOrder[i]]) ELSE unloads
      /\ UNCHANGED <<next, registered, enabled, rows, loaded, phase>>
  BY DEF UnloadNext, Unload
<1>2. shutdowns' = [shutdowns EXCEPT ![c] = d] /\ shutdowns[c] \in Shutdown
  BY DEF UnloadNext, Registry
<1>3. /\ loadOrder \in Seq(Names) /\ unloads \in Seq(Places) /\ Len(Plugins) \in Nat
      /\ registered \in [Names -> 0 .. Len(Plugins)]
      /\ next \in 0 .. Len(Plugins) + 1 /\ Loading
  BY PluginsAssumption DEF Registry, PluginsTypeOK
<1>4. i \in 1 .. Len(loadOrder) /\ loadOrder[i] \in Names /\ Len(loadOrder) \in Nat
  BY <1>1, <1>3
<1>5. i \in 0 .. Len(Plugins) + 1
  <2>1. next # 0
    BY <1>3, <1>4 DEF Loading
  <2> QED
    BY <1>3, <1>4, <2>1 DEF Loading
<1>6. d \in Shutdown /\ d.step = "unloading" /\ d.at = i
  BY <1>1, <1>2, <1>5 DEF Shutdown
<1>7. /\ Running' = Running /\ shutdowns' \in [Signals -> Shutdown] /\ c \in Running
      /\ \A e \in Signals : Running' = {e} => e = c /\ shutdowns'[e] = d
  <2> HIDE DEF d
  <2> QED
    BY <1>1, <1>2, <1>6, RunningStays
<1>8. unloads' \in Seq(Places)
  <2> DEFINE plugin == registered[loadOrder[i]]
  <2>1. plugin # 0 => plugin \in Places
    BY <1>3, <1>4 DEF Places
  <2> HIDE DEF plugin
  <2> QED
    BY <1>1, <1>3, <2>1 DEF plugin
<1>9. ASSUME Running = {c} PROVE Unloading(c)'
  <2>1. /\ loadOrder = Reverse(LoadedNames) /\ AllKept
        /\ shutdowns[c].at \in 1 .. Len(loaded) /\ Len(unloads) = shutdowns[c].at
        /\ \A j \in 1 .. shutdowns[c].at : unloads[j] = registered[loadOrder[j]]
    BY <1>1, <1>9 DEF Registry, Plugged, Unloading
  <2>2. loaded \in Seq(Places)
    BY DEF Registry, PluginsTypeOK
  <2>3. Len(loadOrder) = Len(loaded) /\ registered[loadOrder[i]] # 0
    BY <1>4, <2>1, <2>2, NamesLoaded
  <2>4. registered[loadOrder[i]] \in Places
    BY <1>3, <1>4, <2>3 DEF Places
  <2>5. /\ Len(unloads') = i /\ unloads'[i] = registered[loadOrder[i]]
        /\ \A j \in 1 .. shutdowns[c].at : unloads'[j] = unloads[j]
    <3> DEFINE plugin == registered[loadOrder[i]]
    <3>1. unloads' = Append(unloads, plugin)
      BY <1>1, <2>3
    <3>2. unloads \in Seq(Places) /\ plugin \in Places
      BY <1>3, <2>4
    <3>3. i = Len(unloads) + 1
      BY <1>1, <2>1
    <3> HIDE DEF plugin
    <3>4. /\ Len(Append(unloads, plugin)) = Len(unloads) + 1
          /\ Append(unloads, plugin)[Len(unloads) + 1] = plugin
          /\ \A j \in 1 .. Len(unloads) : Append(unloads, plugin)[j] = unloads[j]
      BY <3>2, AppendProperties
    <3> QED
      BY <2>1, <3>1, <3>3, <3>4 DEF plugin
  <2>6. \A j \in 1 .. i : unloads'[j] = registered[loadOrder[j]]
    <3>1. \A j \in 1 .. i : j \in 1 .. shutdowns[c].at \/ j = i
      BY <2>1, <2>2
    <3> QED
      BY <2>1, <2>5, <3>1
  <2>7. shutdowns'[c].step = "unloading" /\ shutdowns'[c].at = i
    BY <1>6, <1>7, <1>9
  <2>8. loadOrder' = Reverse(LoadedNames') /\ AllKept'
    BY <1>1, <2>1 DEF AllKept, LoadedNames
  <2> HIDE DEF i
  <2> QED
    BY <1>1, <1>4, <2>3, <2>5, <2>6, <2>7, <2>8 DEF Unloading
<1> HIDE DEF i, d
<1>10. Plugged'
  BY <1>1, <1>7, <1>9 DEF Registry, Plugged, Loaded
<1>11. PluginsTypeOK' /\ Loading' /\ Latest'
  BY <1>1, <1>3, <1>8 DEF Registry, PluginsTypeOK, Loading, Latest
<1> QED
  BY <1>1, <1>7, <1>10, <1>11 DEF Registry

(* All are unloaded: when the array was empty, or turned and gone through. *)
LEMMA UnloadedRegistry ==
    ASSUME Registry, NEW c \in Signals, Unloaded(c)
    PROVE  Registry'
<1> DEFINE d == [shutdowns[c] EXCEPT !.step = "flushing"]
<1>1. /\ registered' = [n \in Names |-> 0] /\ enabled' = [n \in Names |-> FALSE]
      /\ loadOrder' = <<>> /\ UNCHANGED <<next, rows, loaded, unloads, phase>>
      /\ shutdowns' = [shutdowns EXCEPT ![c] = d]
  BY DEF Unloaded, UnregisterAll
<1>2. /\ shutdowns[c] \in Shutdown /\ loaded \in Seq(Places) /\ unloads \in Seq(Places)
      /\ registered \in [Names -> 0 .. Len(Plugins)] /\ Len(Plugins) \in Nat
  BY PluginsAssumption DEF Registry, PluginsTypeOK
<1>3. \/ AllStopped(c) /\ loadOrder = <<>>
      \/ shutdowns[c].step = "unloading" /\ shutdowns[c].at >= Len(loadOrder)
  BY DEF Unloaded
<1>4. d \in Shutdown /\ d.step = "flushing" /\ shutdowns[c].step # "idle"
  BY <1>2, <1>3 DEF Shutdown, AllStopped
<1> HIDE DEF d
<1>5. /\ Running' = Running /\ shutdowns' \in [Signals -> Shutdown] /\ c \in Running
      /\ \A e \in Signals : Running' = {e} => e = c /\ shutdowns'[e] = d
  BY <1>1, <1>4, RunningStays
<1>6. ASSUME NEW n \in Names, registered[n] # 0 PROVE Standing(registered[n], n)
  <2>1. phase = "up" /\ next = Len(Plugins) + 1
    BY <1>5 DEF Registry, Plugged, Loaded
  <2>2. next - 1 = Len(Plugins)
    BY <1>2, <2>1
  <2> QED
    BY <1>6, <2>2 DEF Registry, Latest, Standing
<1>7. ASSUME Running = {c} PROVE Unloading(c)'
  <2>1. AllCalled
    <3>1. CASE AllStopped(c) /\ loadOrder = <<>>
      <4>1. LoadedNames = <<>> /\ unloads = <<>>
        BY <1>7, <3>1, AloneAtFirst DEF Untouched
      <4>2. Len(loaded) = 0 /\ DOMAIN loaded = {}
        BY <1>2, <4>1, NamesLoaded
      <4> QED
        BY <4>1, <4>2 DEF AllCalled
    <3>2. CASE shutdowns[c].step = "unloading" /\ shutdowns[c].at >= Len(loadOrder)
      <4>1. /\ loadOrder = Reverse(LoadedNames) /\ AllKept /\ shutdowns[c].at \in 1 .. Len(loaded)
            /\ Len(unloads) = shutdowns[c].at
            /\ \A j \in 1 .. shutdowns[c].at : unloads[j] = registered[loadOrder[j]]
        BY <1>7, <3>2 DEF Registry, Plugged, Unloading
      <4>2. /\ Len(loadOrder) = Len(loaded) /\ Len(loaded) \in Nat /\ DOMAIN loaded = 1 .. Len(loaded)
            /\ \A i \in 1 .. Len(loaded) :
                  /\ loadOrder[i] = Plugins[Reverse(loaded)[i]] /\ loadOrder[i] \in Names
                  /\ registered[loadOrder[i]] # 0
        BY <1>2, <4>1, NamesLoaded, LenProperties
      <4>3. shutdowns[c].at = Len(loaded)
        BY <3>2, <4>1, <4>2
      <4>4. \A i \in 1 .. Len(loaded) : Standing(unloads[i], Plugins[Reverse(loaded)[i]])
        BY <1>6, <4>1, <4>2, <4>3
      <4> QED
        BY <4>1, <4>2, <4>3, <4>4 DEF AllCalled
    <3> QED
      BY <1>3, <3>1, <3>2
  <2>2. shutdowns'[c].step = "flushing"
    BY <1>4, <1>5, <1>7
  <2>3. AllCalled'
    BY <1>1, <2>1 DEF AllCalled, Standing
  <2> QED
    BY <2>2, <2>3 DEF Unloading
<1>8. Plugged'
  BY <1>1, <1>5, <1>7 DEF Registry, Plugged, Loaded
<1>9. PluginsTypeOK' /\ Loading' /\ Latest'
  <2>1. /\ enabled' \in [Names -> BOOLEAN] /\ loadOrder' \in Seq(Names)
        /\ registered' \in [Names -> 0 .. Len(Plugins)]
    BY <1>1, <1>2
  <2>2. PluginsTypeOK'
    BY <1>1, <2>1 DEF Registry, PluginsTypeOK
  <2>3. Loading'
    <3>1. next \in Nat /\ Len(loadOrder') = 0
      BY <1>1, PluginsAssumption DEF Registry, PluginsTypeOK
    <3> QED
      BY <1>1, <3>1 DEF Loading
  <2>4. Latest'
    BY <1>1 DEF Latest
  <2> QED
    BY <2>2, <2>3, <2>4
<1> QED
  BY <1>1, <1>5, <1>8, <1>9 DEF Registry

(* The plugins and the shutdowns, over every step.                         *)
LEMMA RegistryStep ==
    ASSUME Registry, instances \in Seq(Pids), [Next]_vars
    PROVE  Registry'
<1>1. CASE StartServer
  <2>1. /\ phase = "off" /\ phase' = "migrating" /\ PluginsFresh /\ rows' = rows
        /\ shutdowns' = shutdowns
    BY <1>1 DEF StartServer
  <2>2. Running = {} /\ Running' = {}
    BY <2>1 DEF Registry, Plugged, Running
  <2>3. PluginsTypeOK'
    <3>1. Len(Plugins) \in Nat
      BY PluginsAssumption
    <3> QED
      BY <2>1, <3>1 DEF Registry, PluginsTypeOK, PluginsFresh
  <2>4. Untouched' /\ Latest'
    BY <2>1 DEF PluginsFresh, Untouched, AllKept, LoadedNames, Latest
  <2> QED
    BY <2>1, <2>2, <2>3, <2>4 DEF Registry, Plugged, Loading, PluginsFresh, Phases
<1>2. CASE Migrate \/ ServersStarted \/ Up \/ \E k \in Kinds : ServerStep(k)
  <2>1. /\ Running = {} /\ UNCHANGED <<pluginVars, shutdowns>> /\ phase' \in Phases
        /\ phase' = "up" => Loaded
    BY <1>2 DEF Migrate, ServersStarted, Up, ServerStep, Registry, Plugged, Phases
  <2> QED
    BY <2>1, RegistryFramed
<1>3. CASE PluginStep
  BY <1>3, LoadRegistry DEF PluginStep
<1>4. ASSUME NEW n \in Names, NEW on \in BOOLEAN, TogglePlugin(n, on) PROVE Registry'
  BY <1>4, ToggleRegistry DEF TogglePlugin
<1>5. CASE UNCHANGED vars \/ OutsideStep
  <2>1. /\ UNCHANGED <<pluginVars, shutdowns, phase>> /\ phase \in Phases
        /\ phase = "up" => Loaded
    BY <1>5 DEF OutsideStep, vars, pluginVars, Registry, Plugged
  <2> QED
    BY <2>1, RegistryFramed
<1>6. ASSUME NEW c \in Signals, Signal(c) \/ ShutdownStep(c) \/ Flushed(c) PROVE Registry'
  <2>1. CASE FlushTimedOut(c) \/ Flushed(c)
    <3>1. Exit
      BY <2>1 DEF FlushTimedOut, Flushed
    <3> QED
      BY <3>1, EndRegistry DEF Exit
  <2> QED
    BY <1>6, <2>1, SignalRegistry, StopRegistry, UnloadFirstRegistry, UnloadNextRegistry,
       UnloadedRegistry DEF ShutdownStep
<1>7. CASE Crash
  BY <1>7, EndRegistry DEF Crash
<1> QED
  BY <1>1, <1>2, <1>3, <1>4, <1>5, <1>6, <1>7 DEF Next, StartUp

-----------------------------------------------------------------------------
(* The invariant and the theorems.                                         *)

LEMMA Initially == Init => IInv
<1> SUFFICES ASSUME Init PROVE IInv
  OBVIOUS
<1>1. /\ procs = <<>> /\ others = {} /\ starts = [k \in Kinds |-> NoStart] /\ instances = <<>>
      /\ next = 0 /\ registered = [n \in Names |-> 0] /\ enabled = [n \in Names |-> FALSE]
      /\ loadOrder = <<>> /\ loaded = <<>> /\ unloads = <<>> /\ rows = [n \in Names |-> "none"]
      /\ phase = "off" /\ shutdowns = [c \in Signals |-> NoShutdown] /\ started = 0
      /\ orderly = FALSE /\ watched = {}
  BY DEF Init, ServersInit, PluginsInit
<1>2. Len(Plugins) \in Nat
  BY PluginsAssumption
<1>3. NoStart \in Start /\ NoShutdown \in Shutdown
  BY <1>2, ServersAssumption DEF NoStart, Start, NoShutdown, Shutdown
<1>4. ServersTypeOK
  BY <1>1, <1>3, ServersAssumption DEF ServersTypeOK
<1>5. PluginsTypeOK
  BY <1>1, <1>2 DEF PluginsTypeOK
<1>6. TypeOK
  <2>1. shutdowns \in [Signals -> Shutdown]
    BY <1>1, <1>3
  <2>2. phase \in Phases /\ orderly \in BOOLEAN /\ watched \subseteq Pids
    BY <1>1 DEF Phases
  <2>3. started \in 0 .. MaxStarts
    BY <1>1, LifecycleAssumption
  <2> QED
    BY <1>4, <1>5, <2>1, <2>2, <2>3 DEF TypeOK
<1>7. Running = {} /\ Registered = {}
  BY <1>1 DEF Running, NoShutdown, Registered
<1>8. Plugged
  BY <1>1, <1>7 DEF Plugged, Untouched, AllKept, LoadedNames
<1>9. Latest
  BY <1>1 DEF Latest
<1> QED
  BY <1>1, <1>6, <1>7, <1>8, <1>9 DEF IInv, Spawned, PortOurs, Watched, NoStrays, Loading, NoStart

LEMMA Inductive == IInv /\ [Next]_vars => IInv'
<1> SUFFICES ASSUME IInv, [Next]_vars PROVE IInv'
  OBVIOUS
<1>1. Servers'
  BY ServersStep DEF IInv, TypeOK, Servers, Plugged
<1>2. Registry'
  BY RegistryStep DEF IInv, TypeOK, Registry, ServersTypeOK
<1>3. started' \in 0 .. MaxStarts /\ orderly' \in BOOLEAN
  <2>1. started' = started \/ (started < MaxStarts /\ started' = started + 1)
    BY DEF Next, StartServer, StartUp, Migrate, ServerStep, ServersStarted, PluginStep, Up,
           TogglePlugin, OutsideStep, Signal, ShutdownStep, StopNext, UnloadFirst, UnloadNext,
           Unloaded, FlushTimedOut, Flushed, Exit, Crash, history, vars
  <2>2. orderly' = orderly \/ orderly' \in BOOLEAN
    BY DEF Next, StartServer, StartUp, Migrate, ServerStep, ServersStarted, PluginStep, Up,
           TogglePlugin, OutsideStep, Signal, ShutdownStep, StopNext, UnloadFirst, UnloadNext,
           Unloaded, FlushTimedOut, Flushed, Exit, Crash, history, vars
  <2> QED
    BY <2>1, <2>2, LifecycleAssumption DEF IInv, TypeOK
<1> QED
  BY <1>1, <1>2, <1>3 DEF IInv, TypeOK, Servers, Registry

LEMMA Invariance == Spec => []IInv
BY Initially, Inductive, PTL DEF Spec

\* The types of the servers, the plugins and the shutdowns: among them, a start
\* waits for a process, and a shutdown's place is one of the plugin array.
THEOREM TypesHold == Spec => []TypeOK
<1>1. IInv => TypeOK
  BY DEF IInv
<1> QED
  BY Invariance, <1>1, PTL

\* After an orderly exit nothing that was registered when its first signal came
\* is alive, for any number of model servers, starts and overlapping shutdowns
\* (src/server.ts:498-515, src/services/server-external-manager.ts:329-374).
THEOREM NoStraysLeft == Spec => []NoStrays
<1>1. IInv => NoStrays
  BY DEF IInv, Watched
<1> QED
  BY Invariance, <1>1, PTL

\* A shutdown nobody overlaps goes through the plugins that were loaded, in
\* reverse, and calls for each the last one of its name, for any plugins and
\* names, whichever failed to load and whatever an administrator enables or
\* disables meanwhile (src/plugins/loader.ts:176-190, src/plugins/registry.ts:
\* 34-37).
THEOREM UnloadedInReverse == Spec => []UnloadsInReverse
<1>1. IInv => UnloadsInReverse
  BY DEF IInv, Plugged, Unloading, AllCalled, UnloadsInReverse
<1> QED
  BY Invariance, <1>1, PTL

\* What answers for a server started with a look at its port took that port
\* since the look, for any kinds and ports, whichever other programs come and go
\* there and however often the server was killed and started again
\* (src/services/server-external-manager.ts:79-160, 242-326).
THEOREM ReadyIsRecent == Spec => ReadySinceLook
<1> DEFINE Recent ==
      \A k \in Kinds \ Unchecked :
         starts[k].step = "waiting" /\ Len(instances') > Len(instances) /\ starts'[k].step = "done" =>
             Holders(PortOf[k]) \subseteq starts[k].since
<1>1. IInv => Recent
  BY DEF IInv, PortOurs
<1>2. IInv /\ [Next]_vars => [Recent]_vars
  BY <1>1
<1>3. ReadySinceLook <=> [][Recent]_vars
  BY DEF ReadySinceLook
<1> HIDE DEF Recent
<1> QED
  BY Invariance, <1>2, <1>3, PTL DEF Spec

-----------------------------------------------------------------------------
(* The queue of the log.                                                   *)


\* What a flush takes and what it leaves make up the buffer.
LEMMA TakenAndLeft ==
    ASSUME buffer \in Seq(Entry)
    PROVE  /\ Taken \in Seq(Entry) /\ Len(Taken) <= BatchSize
           /\ Left \in Seq(Entry) /\ Len(Left) <= Len(buffer)
           /\ Taken \o Left = buffer
<1>1. CASE Len(buffer) <= BatchSize
  <2>1. Taken = buffer /\ Left = <<>>
    BY <1>1 DEF Taken, Left
  <2>2. buffer \o <<>> = buffer
    BY ConcatEmptySeq
  <2> QED
    BY <1>1, <2>1, <2>2, EmptySeq, LenProperties
<1>2. CASE ~(Len(buffer) <= BatchSize)
  <2>1. Len(buffer) \in Nat /\ BatchSize \in Nat \ {0} /\ BatchSize < Len(buffer)
    BY <1>2, LenProperties, SizesAssumption
  <2>2. Taken = SubSeq(buffer, 1, BatchSize)
        /\ Left = SubSeq(buffer, BatchSize + 1, Len(buffer))
    BY <1>2 DEF Taken, Left
  <2>3. Taken \in Seq(Entry) /\ Len(Taken) = BatchSize
    <3>1. \A i \in 1 .. BatchSize : buffer[i] \in Entry
      BY <2>1, ElementOfSeq
    <3> QED
      BY <2>1, <2>2, <3>1, SubSeqProperties
  <2>4. Left \in Seq(Entry) /\ Len(Left) <= Len(buffer)
    <3>1. \A i \in BatchSize + 1 .. Len(buffer) : buffer[i] \in Entry
      BY <2>1, ElementOfSeq
    <3>2. Len(Left) = IF BatchSize + 1 <= Len(buffer)
                      THEN Len(buffer) - (BatchSize + 1) + 1 ELSE 0
      BY <2>1, <2>2, <3>1, SubSeqProperties
    <3>3. Left \in Seq(Entry)
      BY <2>1, <2>2, <3>1, SubSeqProperties
    <3> QED
      BY <2>1, <3>2, <3>3
  <2>5. Taken \o Left = SubSeq(buffer, 1, Len(buffer))
    <3>1. /\ 1 \in 1 .. Len(buffer) + 1
          /\ BatchSize \in 1 - 1 .. Len(buffer)
          /\ Len(buffer) \in BatchSize .. Len(buffer)
      BY <2>1
    <3>2. SubSeq(buffer, 1, BatchSize) \o SubSeq(buffer, BatchSize + 1, Len(buffer))
            = SubSeq(buffer, 1, Len(buffer))
      BY <3>1, ConcatAdjacentSubSeq
    <3> QED
      BY <2>2, <3>2
  <2>6. SubSeq(buffer, 1, Len(buffer)) = buffer
    BY SubSeqFull
  <2>7. Taken \o Left = buffer
    BY <2>5, <2>6
  <2>8. Len(Taken) <= BatchSize
    BY <2>1, <2>3
  <2> QED
    BY <2>3, <2>4, <2>7, <2>8
<1> QED
  BY <1>1, <1>2

\* The log entries of a concatenation are those of its parts.
LEMMA LogsOfConcat ==
    ASSUME NEW s \in Seq(Entry), NEW t \in Seq(Entry)
    PROVE  LogsIn(s \o t) = LogsIn(s) \cup LogsIn(t)
<1> DEFINE c == s \o t
<1>1. /\ Len(s) \in Nat /\ Len(t) \in Nat /\ Len(c) = Len(s) + Len(t)
      /\ DOMAIN s = 1 .. Len(s) /\ DOMAIN t = 1 .. Len(t) /\ DOMAIN c = 1 .. Len(c)
  BY ConcatProperties, LenProperties
<1>2. \A i \in 1 .. Len(s) : c[i] = s[i]
  BY <1>1, ConcatProperties
<1>3. \A i \in 1 .. Len(t) : c[Len(s) + i] = t[i]
  <2> TAKE i \in 1 .. Len(t)
  <2>1. Len(s) + i \in 1 .. Len(s) + Len(t) /\ ~(Len(s) + i <= Len(s))
        /\ (Len(s) + i) - Len(s) = i
    BY <1>1
  <2> QED
    BY <2>1, ConcatProperties
<1>4. \A i \in DOMAIN c : \/ i \in DOMAIN s /\ c[i] = s[i]
                          \/ \E j \in DOMAIN t : c[i] = t[j]
  <2> TAKE i \in DOMAIN c
  <2>1. CASE i <= Len(s)
    BY <1>1, <1>2, <2>1
  <2>2. CASE ~(i <= Len(s))
    <3>1. i - Len(s) \in DOMAIN t /\ Len(s) + (i - Len(s)) = i
      BY <1>1, <2>2
    <3> QED
      BY <1>1, <1>3, <3>1
  <2> QED
    BY <2>1, <2>2
<1>5. \A i \in DOMAIN s : i \in DOMAIN c /\ c[i] = s[i]
  BY <1>1, <1>2
<1>6. \A j \in DOMAIN t : Len(s) + j \in DOMAIN c /\ c[Len(s) + j] = t[j]
  BY <1>1, <1>3
<1> HIDE DEF c
<1>7. ASSUME NEW n \in LogsIn(c)
      PROVE  n \in LogsIn(s) \cup LogsIn(t)
  <2>1. PICK i \in DOMAIN c : c[i].kind = "log" /\ c[i].n = n
    BY <1>7 DEF LogsIn
  <2> QED
    BY <1>4, <2>1 DEF LogsIn
<1>8. LogsIn(s) \subseteq LogsIn(c)
  BY <1>5 DEF LogsIn
<1>9. LogsIn(t) \subseteq LogsIn(c)
  BY <1>6 DEF LogsIn
<1>10. LogsIn(c) = LogsIn(s) \cup LogsIn(t)
  BY <1>7, <1>8, <1>9
<1> QED
  BY <1>10 DEF c

LEMMA LogsOfOne ==
    ASSUME NEW n \in 1 .. MaxEntries
    PROVE  LogsIn(<<[kind |-> "log", n |-> n]>>) = {n}
BY DEF LogsIn

LEMMA LogsOfWarning ==
    ASSUME NEW n \in Nat
    PROVE  LogsIn(<<[kind |-> "warning", n |-> n]>>) = {}
BY DEF LogsIn

\* What enqueue appends: the entry, after a warning perhaps.
LEMMA Appended ==
    ASSUME QueueTypeOK, logged < MaxEntries, NEW e, e = [kind |-> "log", n |-> logged + 1]
    PROVE  /\ WarnFirst \in Seq(Entry) /\ <<e>> \in Seq(Entry)
           /\ LogsIn(WarnFirst) = {} /\ LogsIn(<<e>>) = {logged + 1}
           /\ Len(WarnFirst) = 0 \/ (buffer = <<>> /\ Len(WarnFirst) = 1)
<1>0. MaxEntries \in Nat
  BY SizesAssumption
<1>1. logged + 1 \in 1 .. MaxEntries
  BY <1>0 DEF QueueTypeOK
<1>2. <<e>> \in Seq(Entry)
  BY <1>1 DEF Entry, LogEntry
<1>3. LogsIn(<<e>>) = {logged + 1}
  BY <1>1, LogsOfOne
<1>4. CASE droppedCount > 0 /\ buffer = <<>>
  <2>1. WarnFirst = <<[kind |-> "warning", n |-> droppedCount]>>
    BY <1>4 DEF WarnFirst
  <2>2. [kind |-> "warning", n |-> droppedCount] \in Entry
    BY <1>4 DEF QueueTypeOK, Entry, Warning
  <2> QED
    BY <1>2, <1>3, <1>4, <2>1, <2>2, LogsOfWarning DEF QueueTypeOK
<1>5. CASE ~(droppedCount > 0 /\ buffer = <<>>)
  <2>1. WarnFirst = <<>>
    BY <1>5 DEF WarnFirst
  <2>2. LogsIn(<<>>) = {}
    BY DEF LogsIn
  <2> QED
    BY <1>2, <1>3, <2>1, <2>2, EmptySeq
<1> QED
  BY <1>4, <1>5

-----------------------------------------------------------------------------
(* The inductive invariant.  BufferBounded, InOrder and NothingLost are not *)
(* inductive alone: the order of an entry enqueued later needs the range    *)
(* Accounted gives the earlier ones, and that a new batch is all there is   *)
(* in flight needs flushing to cover the inserts.                           *)

Handed ==
    \A i \in DOMAIN console :
        \/ console[i] \in refused
        \/ \E j \in DOMAIN table : table[j] = console[i]
        \/ \E j \in DOMAIN batch : batch[j] = console[i]

Single == ~flushing => batch = <<>>

QueueInv ==
    /\ QueueTypeOK /\ BufferBounded /\ Accounted /\ InOrder /\ Handed /\ Single
    /\ DropsCounted

\* Steps that move no entry.
Quiet ==
    /\ UNCHANGED <<logged, buffer, droppedCount, sinks, dropped>>
    /\ flushing' = flushing \/ batch = <<>>

\* Every step of Next is one of five kinds.
LEMMA StepKinds ==
    ASSUME [QueueNext]_queueVars
    PROVE  \/ Drop \/ Enqueue \/ StartFlush \/ Insert \/ Quiet
<1>1. CASE Tick
  BY <1>1 DEF Tick
<1>2. CASE Wake
  BY <1>2 DEF Wake, Quiet
<1>3. CASE FlushAtShutdown
  BY <1>3 DEF FlushAtShutdown, Quiet
<1>4. CASE FinishFlush
  BY <1>4 DEF FinishFlush, AllSettled, Quiet
<1>5. CASE ExitProcess \/ TimeOut
  BY <1>5 DEF ExitProcess, TimeOut, queue, Quiet
<1>6. CASE UNCHANGED queueVars
  BY <1>6 DEF queueVars, sinks, Quiet
<1> QED
  BY <1>1, <1>2, <1>3, <1>4, <1>5, <1>6 DEF QueueNext

LEMMA QueueTypeInit == QueueInit => QueueTypeOK
<1> SUFFICES ASSUME QueueInit
             PROVE  QueueTypeOK
  OBVIOUS
<1>1. <<>> \in Seq(Entry)
  BY EmptySeq
<1>2. buffer \in Seq(Entry) /\ batch \in Seq(Entry) /\ console \in Seq(Entry) /\ table \in Seq(Entry)
  BY <1>1 DEF QueueInit
<1>3. logged \in 0 .. MaxEntries
  BY SizesAssumption DEF QueueInit
<1> QED
  BY <1>2, <1>3 DEF QueueInit, QueueTypeOK

LEMMA FlushTypes ==
    ASSUME QueueTypeOK, StartFlush
    PROVE  buffer' \in Seq(Entry) /\ console' \in Seq(Entry) /\ batch' \in Seq(Entry)
<1>1. Taken \in Seq(Entry) /\ Left \in Seq(Entry)
  BY TakenAndLeft DEF QueueTypeOK
<1> QED
  BY <1>1, ConcatProperties DEF QueueTypeOK, StartFlush

LEMMA EnqueueAppends ==
    ASSUME QueueTypeOK, Enqueue,
           NEW e, e = [kind |-> "log", n |-> logged + 1],
           NEW new, new = WarnFirst \o <<e>>
    PROVE  /\ new \in Seq(Entry) /\ buffer' = buffer \o new
           /\ LogsIn(new) = {logged + 1}
           /\ Len(new) = 1 \/ (buffer = <<>> /\ Len(new) = 2)
           /\ \A i \in DOMAIN new : new[i].kind = "log" => new[i].n = logged + 1
           /\ \A i, j \in DOMAIN new : new[i].kind = "log" /\ new[j].kind = "log" => i = j
<1>0. buffer \in Seq(Entry)
  BY DEF QueueTypeOK
<1>1. /\ WarnFirst \in Seq(Entry) /\ <<e>> \in Seq(Entry)
      /\ LogsIn(WarnFirst) = {} /\ LogsIn(<<e>>) = {logged + 1}
      /\ Len(WarnFirst) = 0 \/ (buffer = <<>> /\ Len(WarnFirst) = 1)
  BY Appended DEF Enqueue
<1>2. new \in Seq(Entry) /\ LogsIn(new) = {logged + 1}
  <2>1. LogsIn(new) = LogsIn(WarnFirst) \cup LogsIn(<<e>>)
    BY <1>1, LogsOfConcat
  <2> QED
    BY <1>1, <2>1, ConcatProperties
<1>3. buffer' = buffer \o new
  <2>1. buffer' = (buffer \o WarnFirst) \o <<e>>
    BY DEF Enqueue
  <2>2. (buffer \o WarnFirst) \o <<e>> = buffer \o (WarnFirst \o <<e>>)
    BY <1>0, <1>1, ConcatAssociative
  <2> QED
    BY <2>1, <2>2
<1>4. Len(<<e>>) = 1 /\ Len(new) = Len(WarnFirst) + 1
  BY <1>1, ConcatProperties
<1>5. Len(new) = 1 \/ (buffer = <<>> /\ Len(new) = 2)
  <2>1. CASE Len(WarnFirst) = 0
    BY <1>4, <2>1
  <2>2. CASE buffer = <<>> /\ Len(WarnFirst) = 1
    BY <1>4, <2>2
  <2> QED
    BY <1>1, <2>1, <2>2
<1>6. \A i \in DOMAIN new : new[i].kind = "log" => new[i].n = logged + 1
  BY <1>2 DEF LogsIn
<1>7. \A i \in DOMAIN new : new[i].kind = "log" => i = Len(WarnFirst) + 1
  <2> SUFFICES ASSUME NEW i \in DOMAIN new, new[i].kind = "log", i # Len(WarnFirst) + 1
               PROVE  FALSE
    OBVIOUS
  <2>1. Len(WarnFirst) \in Nat /\ DOMAIN new = 1 .. Len(WarnFirst) + 1
        /\ DOMAIN WarnFirst = 1 .. Len(WarnFirst)
    BY <1>1, <1>2, <1>4, LenProperties
  <2>2. i \in 1 .. Len(WarnFirst) /\ i <= Len(WarnFirst) /\ i \in 1 .. Len(WarnFirst) + Len(<<e>>)
    BY <1>4, <2>1
  <2>3. new[i] = WarnFirst[i]
    BY <1>1, <2>2, ConcatProperties
  <2>4. WarnFirst[i].n \in LogsIn(WarnFirst)
    BY <2>1, <2>2, <2>3 DEF LogsIn
  <2> QED
    BY <1>1, <2>4
<1>8. \A i, j \in DOMAIN new : new[i].kind = "log" /\ new[j].kind = "log" => i = j
  BY <1>7
<1> QED
  BY <1>2, <1>3, <1>5, <1>6, <1>8

\* Type correctness is kept by every step.
LEMMA QueueTypeStep == QueueTypeOK /\ [QueueNext]_queueVars => QueueTypeOK'
<1> SUFFICES ASSUME QueueTypeOK, [QueueNext]_queueVars
             PROVE  QueueTypeOK'
  OBVIOUS
<1>0. MaxEntries \in Nat
  BY SizesAssumption
<1>1. CASE Drop
  BY <1>0, <1>1 DEF Drop, QueueTypeOK, sinks
<1>2. CASE Enqueue
  <2> DEFINE new == WarnFirst \o <<[kind |-> "log", n |-> logged + 1]>>
  <2>0. new \in Seq(Entry) /\ buffer' = buffer \o new
    BY <1>2, EnqueueAppends
  <2> HIDE DEF new
  <2>1. buffer' \in Seq(Entry)
    BY <2>0, ConcatProperties DEF QueueTypeOK
  <2>2. droppedCount' \in Nat
    BY <1>2 DEF Enqueue, CountAfterWarning, QueueTypeOK
  <2> QED
    BY <1>0, <1>2, <2>1, <2>2 DEF Enqueue, QueueTypeOK, sinks
<1>3. CASE Tick
  BY <1>3, FlushTypes DEF Tick, StartFlush, QueueTypeOK
<1>4. CASE Wake
  <2>1. wakes' \in Nat
    BY <1>4 DEF Wake, QueueTypeOK
  <2>2. CASE StartFlush
    BY <1>4, <2>1, <2>2, FlushTypes DEF Wake, StartFlush, QueueTypeOK
  <2>3. CASE ~StartFlush
    BY <1>4, <2>1, <2>3 DEF Wake, QueueTypeOK, sinks
  <2> QED
    BY <2>2, <2>3
<1>5. CASE Insert
  <2>1. Head(batch) \in Entry /\ Tail(batch) \in Seq(Entry)
    BY <1>5, HeadTailProperties DEF Insert, QueueTypeOK
  <2>2. Append(table, Head(batch)) \in Seq(Entry)
    BY <2>1, AppendProperties DEF QueueTypeOK
  <2> QED
    BY <1>5, <2>1, <2>2 DEF Insert, QueueTypeOK, queue
<1>6. CASE FinishFlush
  <2>1. wakes' \in Nat
    BY <1>6 DEF FinishFlush, QueueTypeOK
  <2>2. exit' \in {"up", "waiting", "ready", "exited", "timedOut"}
    BY <1>6 DEF FinishFlush, QueueTypeOK
  <2> QED
    BY <1>6, <2>1, <2>2 DEF FinishFlush, QueueTypeOK, sinks
<1>7. CASE FlushAtShutdown
  <2>1. CASE StartFlush
    BY <1>7, <2>1, FlushTypes DEF FlushAtShutdown, StartFlush, QueueTypeOK
  <2>2. CASE ~StartFlush
    BY <1>7, <2>2 DEF FlushAtShutdown, QueueTypeOK, sinks
  <2> QED
    BY <2>1, <2>2
<1>8. CASE ExitProcess \/ TimeOut
  BY <1>8 DEF ExitProcess, TimeOut, QueueTypeOK, queue, sinks
<1>9. CASE UNCHANGED queueVars
  BY <1>9 DEF queueVars, QueueTypeOK
<1> QED
  BY <1>1, <1>2, <1>3, <1>4, <1>5, <1>6, <1>7, <1>8, <1>9 DEF QueueNext

\* What a step does to the entries on their way: an enqueued entry goes to the
\* end, and a flush only moves the border between console and buffer.
LEMMA DeliveredStep ==
    ASSUME QueueTypeOK, [QueueNext]_queueVars
    PROVE  \/ /\ Enqueue
              /\ Delivered' = Delivered \o (WarnFirst \o <<[kind |-> "log", n |-> logged + 1]>>)
           \/ Drop /\ Delivered' = Delivered
           \/ Delivered' = Delivered /\ UNCHANGED <<logged, dropped, droppedCount>>
<1>0. buffer \in Seq(Entry) /\ console \in Seq(Entry)
  BY DEF QueueTypeOK
<1>1. CASE Drop
  BY <1>1 DEF Drop, Delivered, sinks
<1>2. CASE Enqueue
  <2> DEFINE new == WarnFirst \o <<[kind |-> "log", n |-> logged + 1]>>
  <2>1. new \in Seq(Entry) /\ buffer' = buffer \o new
    BY <1>2, EnqueueAppends
  <2> HIDE DEF new
  <2>2. (console \o buffer) \o new = console \o (buffer \o new)
    BY <1>0, <2>1, ConcatAssociative
  <2>3. console' = console
    BY <1>2 DEF Enqueue, sinks
  <2>4. Delivered' = Delivered \o new
    BY <2>1, <2>2, <2>3 DEF Delivered
  <2> QED
    BY <1>2, <2>4 DEF new
<1>3. CASE StartFlush
  <2>1. Taken \o Left = buffer
    BY <1>0, TakenAndLeft
  <2>2. (console \o Taken) \o Left = console \o (Taken \o Left)
    <3>1. Taken \in Seq(Entry) /\ Left \in Seq(Entry)
      BY <1>0, TakenAndLeft
    <3>2. \A s, t, u \in Seq(Entry) : (s \o t) \o u = s \o (t \o u)
      BY ConcatAssociative
    <3> QED
      BY <1>0, <3>1, <3>2
  <2>3. console' = console \o Taken /\ buffer' = Left /\ UNCHANGED <<logged, dropped, droppedCount>>
    BY <1>3 DEF StartFlush
  <2> QED
    BY <2>1, <2>2, <2>3 DEF Delivered
<1>4. CASE Insert
  BY <1>4 DEF Insert, Delivered, queue
<1>5. CASE Quiet
  BY <1>5 DEF Quiet, Delivered, sinks
<1> QED
  BY <1>1, <1>2, <1>3, <1>4, <1>5, StepKinds

LEMMA DeliveredIsSeq ==
    ASSUME QueueTypeOK
    PROVE  Delivered \in Seq(Entry)
BY ConcatProperties DEF QueueTypeOK, Delivered

LEMMA AccountedStep == QueueTypeOK /\ Accounted /\ [QueueNext]_queueVars => Accounted'
<1> SUFFICES ASSUME QueueTypeOK, Accounted, [QueueNext]_queueVars
             PROVE  Accounted'
  OBVIOUS
<1>0. logged \in Nat
  BY SizesAssumption DEF QueueTypeOK
<1>1. CASE Enqueue /\ Delivered' = Delivered \o (WarnFirst \o <<[kind |-> "log", n |-> logged + 1]>>)
  <2> DEFINE new == WarnFirst \o <<[kind |-> "log", n |-> logged + 1]>>
  <2>1. new \in Seq(Entry) /\ LogsIn(new) = {logged + 1}
    BY <1>1, EnqueueAppends
  <2>2. Delivered' = Delivered \o new
    BY <1>1
  <2> HIDE DEF new
  <2>3. LogsIn(Delivered') = LogsIn(Delivered) \cup {logged + 1}
    BY <2>1, <2>2, DeliveredIsSeq, LogsOfConcat
  <2>4. logged' = logged + 1 /\ dropped' = dropped
    BY <1>1 DEF Enqueue
  <2>5. 1 .. logged + 1 = (1 .. logged) \cup {logged + 1} /\ logged + 1 \notin 1 .. logged
    BY <1>0
  <2>6. LogsIn(Delivered)' = LogsIn(Delivered')
    BY DEF LogsIn, Delivered
  <2> QED
    BY <2>3, <2>4, <2>5, <2>6 DEF Accounted
<1>2. CASE Drop /\ Delivered' = Delivered
  <2>1. logged' = logged + 1 /\ dropped' = dropped \cup {logged + 1}
    BY <1>2 DEF Drop
  <2>2. 1 .. logged + 1 = (1 .. logged) \cup {logged + 1} /\ logged + 1 \notin 1 .. logged
    BY <1>0
  <2>3. LogsIn(Delivered)' = LogsIn(Delivered)
    BY <1>2 DEF LogsIn
  <2> QED
    BY <2>1, <2>2, <2>3 DEF Accounted
<1>3. CASE Delivered' = Delivered /\ UNCHANGED <<logged, dropped, droppedCount>>
  <2>1. LogsIn(Delivered)' = LogsIn(Delivered)
    BY <1>3 DEF LogsIn
  <2> QED
    BY <1>3, <2>1 DEF Accounted
<1> QED
  BY <1>1, <1>2, <1>3, DeliveredStep

LEMMA InOrderStep == QueueTypeOK /\ Accounted /\ InOrder /\ [QueueNext]_queueVars => InOrder'
<1> SUFFICES ASSUME QueueTypeOK, Accounted, InOrder, [QueueNext]_queueVars
             PROVE  InOrder'
  OBVIOUS
<1>1. CASE Enqueue /\ Delivered' = Delivered \o (WarnFirst \o <<[kind |-> "log", n |-> logged + 1]>>)
  <2> DEFINE new == WarnFirst \o <<[kind |-> "log", n |-> logged + 1]>>
  <2>1. /\ new \in Seq(Entry)
        /\ \A i \in DOMAIN new : new[i].kind = "log" => new[i].n = logged + 1
        /\ \A i, j \in DOMAIN new : new[i].kind = "log" /\ new[j].kind = "log" => i = j
    BY <1>1, EnqueueAppends
  <2>2. Delivered' = Delivered \o new
    BY <1>1
  <2> HIDE DEF new
  <2> DEFINE d == Delivered
             k == Len(d)
  <2>3. /\ d \in Seq(Entry) /\ k \in Nat /\ Len(new) \in Nat /\ DOMAIN d = 1 .. k
        /\ DOMAIN new = 1 .. Len(new) /\ DOMAIN (d \o new) = 1 .. k + Len(new)
    BY <2>1, DeliveredIsSeq, LenProperties, ConcatProperties
  <2>4. \A i \in 1 .. k : (d \o new)[i] = d[i]
    BY <2>1, <2>3, ConcatProperties
  <2>5. \A i \in 1 .. k + Len(new) : ~(i <= k) => i - k \in DOMAIN new /\ (d \o new)[i] = new[i - k]
    BY <2>1, <2>3, ConcatProperties
  <2>6. \A i \in 1 .. k : d[i].kind = "log" => d[i].n \in 1 .. logged
    BY <2>3 DEF Accounted, LogsIn
  <2>7. logged \in Nat
    BY SizesAssumption DEF QueueTypeOK
  <2> HIDE DEF d, k
  <2>8. ASSUME NEW i \in 1 .. k + Len(new), NEW j \in 1 .. k + Len(new), i < j,
               (d \o new)[i].kind = "log", (d \o new)[j].kind = "log"
        PROVE  (d \o new)[i].n < (d \o new)[j].n
    <3>1. CASE j <= k
      <4>1. i \in 1 .. k /\ j \in 1 .. k
        BY <2>3, <2>8, <3>1
      <4>2. d[i].kind = "log" /\ d[j].kind = "log"
        BY <2>4, <2>8, <4>1
      <4>3. i \in DOMAIN d /\ j \in DOMAIN d
        BY <2>3, <4>1
      <4>4. d[i].n < d[j].n
        BY <2>8, <4>2, <4>3 DEF InOrder, d
      <4>5. (d \o new)[i] = d[i] /\ (d \o new)[j] = d[j]
        BY <2>4, <4>1
      <4> QED
        BY <4>4, <4>5
    <3>2. CASE i <= k /\ ~(j <= k)
      <4>1. i \in 1 .. k
        BY <2>3, <2>8, <3>2
      <4>2. (d \o new)[j].n = logged + 1
        BY <2>1, <2>5, <2>8, <3>2
      <4>3. (d \o new)[i].n \in 1 .. logged
        BY <2>4, <2>6, <2>8, <4>1
      <4>4. \A a, b : a \in 1 .. logged /\ b = logged + 1 => a < b
        BY <2>7
      <4> QED
        BY <4>2, <4>3, <4>4
    <3>3. CASE ~(i <= k)
      <4>1. ~(j <= k)
        BY <2>3, <2>8, <3>3
      <4>2. i - k = j - k
        BY <2>1, <2>5, <2>8, <3>3, <4>1
      <4> QED
        BY <2>3, <2>8, <4>2
    <3> QED
      BY <3>1, <3>2, <3>3
  <2>9. Delivered' = d \o new
    BY <2>2 DEF d
  <2> QED
    BY <2>3, <2>8, <2>9 DEF InOrder
<1>2. CASE Delivered' = Delivered
  BY <1>2 DEF InOrder
<1> QED
  BY <1>1, <1>2, DeliveredStep

LEMMA BoundedStep == QueueTypeOK /\ BufferBounded /\ [QueueNext]_queueVars => BufferBounded'
<1> SUFFICES ASSUME QueueTypeOK, BufferBounded, [QueueNext]_queueVars
             PROVE  BufferBounded'
  OBVIOUS
<1>0. buffer \in Seq(Entry) /\ Len(buffer) \in Nat /\ QueueMaxSize \in Nat
  BY SizesAssumption, LenProperties DEF QueueTypeOK
<1>1. CASE Enqueue
  <2> DEFINE new == WarnFirst \o <<[kind |-> "log", n |-> logged + 1]>>
  <2>1. /\ new \in Seq(Entry) /\ buffer' = buffer \o new
        /\ Len(new) = 1 \/ (buffer = <<>> /\ Len(new) = 2)
    BY <1>1, EnqueueAppends
  <2>2. Len(buffer') = Len(buffer) + Len(new)
    BY <1>0, <2>1, ConcatProperties
  <2>3. Len(buffer) < QueueMaxSize
    BY <1>0, <1>1 DEF Enqueue, Full
  <2>4. buffer = <<>> => Len(buffer) = 0
    BY EmptySeq
  <2> HIDE DEF new
  <2>5. CASE Len(new) = 1
    BY <1>0, <2>2, <2>3, <2>5 DEF BufferBounded
  <2>6. CASE buffer = <<>> /\ Len(new) = 2
    BY <1>0, <2>2, <2>3, <2>4, <2>6 DEF BufferBounded
  <2> QED
    BY <2>1, <2>5, <2>6
<1>2. CASE StartFlush
  <2>1. buffer' = Left /\ Left \in Seq(Entry) /\ Len(Left) <= Len(buffer)
    BY <1>0, <1>2, TakenAndLeft DEF StartFlush
  <2>2. Len(Left) \in Nat
    BY <2>1, LenProperties
  <2> QED
    BY <1>0, <2>1, <2>2 DEF BufferBounded
<1>3. CASE Drop \/ Insert \/ Quiet
  BY <1>3 DEF Drop, Insert, Quiet, queue, BufferBounded
<1> QED
  BY <1>1, <1>2, <1>3, StepKinds

LEMMA HandedStep == QueueTypeOK /\ Handed /\ [QueueNext]_queueVars => Handed'
<1> SUFFICES ASSUME QueueTypeOK, Handed, [QueueNext]_queueVars
             PROVE  Handed'
  OBVIOUS
<1>0. /\ console \in Seq(Entry) /\ batch \in Seq(Entry) /\ table \in Seq(Entry)
      /\ buffer \in Seq(Entry)
  BY DEF QueueTypeOK
<1>1. CASE Drop \/ Enqueue \/ Quiet
  BY <1>1 DEF Drop, Enqueue, Quiet, sinks, Handed
<1>2. CASE StartFlush
  <2> DEFINE new == Taken
  <2>1. /\ new \in Seq(Entry) /\ console' = console \o new /\ batch' = batch \o new
        /\ UNCHANGED <<table, refused>>
    BY <1>0, <1>2, TakenAndLeft DEF StartFlush
  <2> HIDE DEF new
  <2>2. \A i \in DOMAIN batch : i \in DOMAIN batch' /\ batch'[i] = batch[i]
    BY <1>0, <2>1, LenProperties, ConcatProperties
  <2>3. \A i \in DOMAIN new : Len(batch) + i \in DOMAIN batch' /\ batch'[Len(batch) + i] = new[i]
    <3> TAKE i \in DOMAIN new
    <3>1. /\ Len(batch) \in Nat /\ Len(new) \in Nat /\ i \in 1 .. Len(new)
          /\ DOMAIN batch' = 1 .. Len(batch) + Len(new)
      BY <1>0, <2>1, LenProperties, ConcatProperties
    <3>2. /\ Len(batch) + i \in 1 .. Len(batch) + Len(new) /\ ~(Len(batch) + i <= Len(batch))
          /\ (Len(batch) + i) - Len(batch) = i
      BY <3>1
    <3> QED
      BY <1>0, <2>1, <3>1, <3>2, ConcatProperties
  <2>4. ASSUME NEW i \in DOMAIN console'
        PROVE  \/ i \in DOMAIN console /\ console'[i] = console[i]
               \/ \E j \in DOMAIN new : console'[i] = new[j]
    <3>1. /\ Len(console) \in Nat /\ Len(new) \in Nat
          /\ DOMAIN console' = 1 .. Len(console) + Len(new)
          /\ DOMAIN console = 1 .. Len(console) /\ DOMAIN new = 1 .. Len(new)
      BY <1>0, <2>1, LenProperties, ConcatProperties
    <3>2. CASE i <= Len(console)
      BY <1>0, <2>1, <2>4, <3>1, <3>2, ConcatProperties
    <3>3. CASE ~(i <= Len(console))
      <4>1. i - Len(console) \in DOMAIN new
        BY <2>4, <3>1, <3>3
      <4>2. console'[i] = new[i - Len(console)]
        BY <1>0, <2>1, <2>4, <3>1, <3>3, ConcatProperties
      <4> QED
        BY <4>1, <4>2
    <3> QED
      BY <3>2, <3>3
  <2>5. ASSUME NEW i \in DOMAIN console'
        PROVE  \/ console'[i] \in refused
               \/ \E j \in DOMAIN table : table[j] = console'[i]
               \/ \E j \in DOMAIN batch' : batch'[j] = console'[i]
    <3>1. CASE i \in DOMAIN console /\ console'[i] = console[i]
      <4>1. CASE \E j \in DOMAIN batch : batch[j] = console[i]
        BY <2>2, <3>1, <4>1
      <4> QED
        BY <3>1, <4>1 DEF Handed
    <3>2. CASE \E j \in DOMAIN new : console'[i] = new[j]
      BY <2>3, <3>2
    <3> QED
      BY <2>4, <3>1, <3>2
  <2> QED
    BY <2>1, <2>5 DEF Handed
<1>3. CASE Insert
  <2>1. /\ batch # <<>> /\ batch' = Tail(batch) /\ console' = console
        /\ \/ table' = Append(table, Head(batch)) /\ refused' = refused
           \/ refused' = refused \cup {Head(batch)} /\ table' = table
    BY <1>3 DEF Insert
  <2>2. \A j \in DOMAIN batch : batch[j] = Head(batch) \/ \E i \in DOMAIN batch' : batch'[i] = batch[j]
    <3> TAKE j \in DOMAIN batch
    <3>1. /\ Len(batch) \in Nat /\ j \in 1 .. Len(batch) /\ DOMAIN batch' = 1 .. Len(batch) - 1
          /\ \A i \in 1 .. Len(batch) - 1 : batch'[i] = batch[i + 1]
      BY <1>0, <2>1, HeadTailProperties, LenProperties
    <3>2. CASE j = 1
      BY <3>2
    <3>3. CASE j # 1
      <4>1. j - 1 \in 1 .. Len(batch) - 1 /\ (j - 1) + 1 = j
        BY <3>1, <3>3
      <4> QED
        BY <3>1, <4>1
    <3> QED
      BY <3>2, <3>3
  <2>3. \/ Head(batch) \in refused'
        \/ \E j \in DOMAIN table' : table'[j] = Head(batch)
    <3>1. CASE table' = Append(table, Head(batch))
      <4>1. Head(batch) \in Entry
        BY <1>0, <2>1, HeadTailProperties
      <4>2. Len(table) \in Nat /\ Len(table') = Len(table) + 1 /\ table' \in Seq(Entry)
            /\ table'[Len(table) + 1] = Head(batch)
        BY <1>0, <3>1, <4>1, AppendProperties, LenProperties
      <4>3. Len(table) + 1 \in DOMAIN table'
        BY <4>2, LenProperties
      <4> QED
        BY <4>2, <4>3
    <3> QED
      BY <2>1, <3>1
  <2>4. refused \subseteq refused'
    BY <2>1
  <2>5. \A j \in DOMAIN table : j \in DOMAIN table' /\ table'[j] = table[j]
    <3>1. CASE table' = Append(table, Head(batch))
      <4>1. Head(batch) \in Entry
        BY <1>0, <2>1, HeadTailProperties
      <4> QED
        BY <1>0, <3>1, <4>1, AppendProperties, LenProperties
    <3> QED
      BY <2>1, <3>1
  <2>6. ASSUME NEW i \in DOMAIN console
        PROVE  \/ console[i] \in refused'
               \/ \E j \in DOMAIN table' : table'[j] = console[i]
               \/ \E j \in DOMAIN batch' : batch'[j] = console[i]
    <3>1. CASE console[i] \in refused
      BY <2>4, <3>1
    <3>2. CASE \E j \in DOMAIN table : table[j] = console[i]
      BY <2>5, <3>2
    <3>3. CASE \E j \in DOMAIN batch : batch[j] = console[i]
      BY <2>2, <2>3, <3>3
    <3> QED
      BY <3>1, <3>2, <3>3 DEF Handed
  <2> QED
    BY <2>1, <2>6 DEF Handed
<1> QED
  BY <1>1, <1>2, <1>3, StepKinds

LEMMA SingleStep == QueueTypeOK /\ Single /\ [QueueNext]_queueVars => Single'
<1> SUFFICES ASSUME QueueTypeOK, Single, [QueueNext]_queueVars
             PROVE  Single'
  OBVIOUS
<1>1. CASE Drop \/ Enqueue
  BY <1>1 DEF Drop, Enqueue, sinks, Single
<1>2. CASE StartFlush
  BY <1>2 DEF StartFlush, Single
<1>3. CASE Insert
  BY <1>3 DEF Insert, queue, Single
<1>4. CASE Quiet
  BY <1>4 DEF Quiet, sinks, Single
<1> QED
  BY <1>1, <1>2, <1>3, <1>4, StepKinds

-----------------------------------------------------------------------------
(* The drops that warnings report.                                         *)

Reported(s) == SumFunction([i \in WarningsIn(s) |-> s[i].n])

LEMMA ReportedNat ==
    ASSUME NEW s \in Seq(Entry)
    PROVE  /\ IsFiniteSet(WarningsIn(s))
           /\ \A i \in WarningsIn(s) : s[i].n \in Nat
           /\ Reported(s) \in Nat
<1> DEFINE f == [i \in WarningsIn(s) |-> s[i].n]
<1>1. Len(s) \in Nat /\ DOMAIN s = 1 .. Len(s) /\ \A i \in 1 .. Len(s) : s[i] \in Entry
  BY LenProperties, ElementOfSeq
<1>2. IsFiniteSet(WarningsIn(s))
  <2>1. IsFiniteSet(1 .. Len(s)) /\ WarningsIn(s) \in SUBSET (1 .. Len(s))
    BY <1>1, FS_Interval DEF WarningsIn
  <2> QED
    BY <2>1, FS_Subset
<1>3. \A i \in WarningsIn(s) : s[i].n \in Nat
  BY <1>1 DEF WarningsIn, Entry, LogEntry, Warning
<1>4. \A i \in WarningsIn(s) : f[i] \in Nat
  BY <1>3
<1>5. DOMAIN f = WarningsIn(s)
  OBVIOUS
<1>6. Reported(s) = SumFunctionOnSet(f, WarningsIn(s))
  BY <1>5 DEF Reported, SumFunction
<1> HIDE DEF f
<1> QED
  BY <1>2, <1>3, <1>4, <1>6, SumNat

(* One entry more: a warning adds what it reports, a log entry nothing.    *)
LEMMA ReportedByOne ==
    ASSUME NEW s \in Seq(Entry), NEW e \in Entry
    PROVE  Reported(s \o <<e>>) = Reported(s) + IF e.kind = "warning" THEN e.n ELSE 0
<1> DEFINE t == s \o <<e>>
           k == Len(s) + 1
           f == [i \in WarningsIn(s) |-> s[i].n]
           g == [i \in WarningsIn(t) |-> t[i].n]
<1>1. /\ Len(s) \in Nat /\ DOMAIN s = 1 .. Len(s) /\ DOMAIN t = 1 .. k
      /\ t[k] = e /\ \A i \in 1 .. Len(s) : t[i] = s[i]
  <2>1. <<e>> \in Seq(Entry) /\ Len(<<e>>) = 1 /\ <<e>>[1] = e
    OBVIOUS
  <2>2. Len(s) \in Nat /\ DOMAIN s = 1 .. Len(s)
    BY LenProperties
  <2>3. t \in Seq(Entry) /\ Len(t) = k
    BY <2>1, ConcatProperties
  <2>4. k \in 1 .. Len(s) + Len(<<e>>) /\ ~(k <= Len(s)) /\ k - Len(s) = 1
    BY <2>1, <2>2
  <2>5. t[k] = e
    BY <2>1, <2>4, ConcatProperties
  <2>6. \A i \in 1 .. Len(s) : t[i] = s[i]
    BY <2>1, <2>2, ConcatProperties
  <2> QED
    BY <2>2, <2>3, <2>5, <2>6, LenProperties
<1> HIDE DEF t
<1>3. e.kind = "warning" => e.n \in Nat
  BY DEF Entry, LogEntry, Warning
<1>4. IsFiniteSet(WarningsIn(s)) /\ \A i \in WarningsIn(s) : s[i].n \in Nat
  BY ReportedNat
<1>5. \A i \in WarningsIn(s) : f[i] \in Nat /\ i \in WarningsIn(t) /\ g[i] = f[i]
  BY <1>1, <1>4 DEF WarningsIn
<1>6. DOMAIN f = WarningsIn(s) /\ DOMAIN g = WarningsIn(t)
  OBVIOUS
<1>7. Reported(s) = SumFunctionOnSet(f, WarningsIn(s)) /\ Reported(t) = SumFunctionOnSet(g, WarningsIn(t))
  BY DEF Reported, SumFunction
<1> HIDE DEF f
<1>8. SumFunctionOnSet(f, WarningsIn(s)) \in Nat
  BY <1>4, <1>5, SumNat
<1>9. CASE e.kind = "warning"
  <2>1. WarningsIn(t) = WarningsIn(s) \cup {k} /\ k \notin WarningsIn(s)
    BY <1>1, <1>9 DEF WarningsIn
  <2>2. g[k] = e.n /\ e.n \in Nat
    BY <1>1, <1>3, <1>9, <2>1
  <2> HIDE DEF g
  <2>3. \A x \in WarningsIn(s) \cup {k} : g[x] \in Nat
    BY <1>5, <2>2
  <2>4. SumFunctionOnSet(g, WarningsIn(s) \cup {k}) = SumFunctionOnSet(f, WarningsIn(s)) + g[k]
    BY <1>4, <1>5, <2>1, <2>3, SumInsert
  <2> QED
    BY <1>7, <1>8, <1>9, <2>1, <2>2, <2>4 DEF t
<1>10. CASE e.kind # "warning"
  <2>1. WarningsIn(t) = WarningsIn(s)
    BY <1>1, <1>10 DEF WarningsIn
  <2> HIDE DEF g
  <2>2. SumFunctionOnSet(g, WarningsIn(s)) = SumFunctionOnSet(f, WarningsIn(s))
    BY <1>4, <1>5, SumSame
  <2> QED
    BY <1>7, <1>8, <1>10, <2>1, <2>2 DEF t
<1> QED
  BY <1>9, <1>10

LEMMA DropsCountedStep == QueueTypeOK /\ Accounted /\ DropsCounted /\ [QueueNext]_queueVars => DropsCounted'
<1> SUFFICES ASSUME QueueTypeOK, Accounted, DropsCounted, [QueueNext]_queueVars
             PROVE  DropsCounted'
  OBVIOUS
<1>0. /\ Delivered \in Seq(Entry) /\ droppedCount \in Nat
      /\ logged \in Nat /\ MaxEntries \in Nat
  BY DeliveredIsSeq, SizesAssumption DEF QueueTypeOK
<1>1. DropsReported = Reported(Delivered) /\ DropsReported' = Reported(Delivered')
  BY DEF DropsReported, Reported, WarningsIn
<1>2. CASE Enqueue /\ Delivered' = Delivered \o (WarnFirst \o <<[kind |-> "log", n |-> logged + 1]>>)
  <2> DEFINE e == [kind |-> "log", n |-> logged + 1]
             w == [kind |-> "warning", n |-> droppedCount]
  <2>1. /\ logged < MaxEntries /\ dropped' = dropped
        /\ droppedCount' = IF buffer = <<>> THEN 0 ELSE droppedCount
    BY <1>2 DEF Enqueue, CountAfterWarning
  <2>2. e \in Entry /\ e.kind = "log"
    BY <1>0, <2>1 DEF Entry, LogEntry
  <2>3. CASE droppedCount > 0 /\ buffer = <<>>
    <3>1. WarnFirst = <<w>>
      BY <2>3 DEF WarnFirst
    <3>2. w \in Entry /\ w.kind = "warning" /\ w.n = droppedCount
      BY <1>0, <2>3 DEF Entry, Warning
    <3>3. Delivered' = (Delivered \o <<w>>) \o <<e>>
      <4> HIDE DEF w, e
      <4>1. <<w>> \in Seq(Entry) /\ <<e>> \in Seq(Entry)
        BY <2>2, <3>2
      <4>2. Delivered' = Delivered \o (<<w>> \o <<e>>)
        BY <1>2, <3>1 DEF e
      <4> QED
        BY <1>0, <4>1, <4>2, ConcatAssociative
    <3> HIDE DEF w, e
    <3>4. Delivered \o <<w>> \in Seq(Entry)
      BY <1>0, <3>2, ConcatProperties
    <3>5. Reported(Delivered \o <<w>>) = Reported(Delivered) + droppedCount
      BY <1>0, <3>2, ReportedByOne
    <3>6. Reported((Delivered \o <<w>>) \o <<e>>) = Reported(Delivered \o <<w>>) + 0
      BY <2>2, <3>4, ReportedByOne
    <3>7. Reported(Delivered) \in Nat
      BY <1>0, ReportedNat
    <3>8. DropsReported' = DropsReported + droppedCount
      <4>1. \A m, n \in Nat : (m + n) + 0 = m + n
        OBVIOUS
      <4>2. Reported((Delivered \o <<w>>) \o <<e>>) = Reported(Delivered) + droppedCount
        BY <1>0, <3>5, <3>6, <3>7, <4>1
      <4> QED
        BY <1>1, <3>3, <4>2
    <3>9. droppedCount' = 0 /\ DropsReported \in Nat
      BY <1>1, <2>1, <2>3, <3>7
    <3> QED
      BY <1>0, <2>1, <3>8, <3>9 DEF DropsCounted
  <2>4. CASE ~(droppedCount > 0 /\ buffer = <<>>)
    <3>1. WarnFirst = <<>> /\ droppedCount' = droppedCount
      BY <1>0, <2>1, <2>4 DEF WarnFirst
    <3>2. Delivered' = Delivered \o <<e>>
      <4> HIDE DEF e
      <4>1. <<e>> \in Seq(Entry)
        BY <2>2
      <4>2. Delivered' = Delivered \o (<<>> \o <<e>>)
        BY <1>2, <3>1 DEF e
      <4> QED
        BY <4>1, <4>2, ConcatEmptySeq
    <3> HIDE DEF e
    <3>3. Reported(Delivered \o <<e>>) = Reported(Delivered) + 0 /\ Reported(Delivered) \in Nat
      BY <1>0, <2>2, ReportedByOne, ReportedNat
    <3> QED
      BY <1>0, <1>1, <2>1, <3>1, <3>2, <3>3 DEF DropsCounted
  <2> QED
    BY <2>3, <2>4
<1>3. CASE Drop /\ Delivered' = Delivered
  <2>1. /\ droppedCount' = droppedCount + 1 /\ dropped' = dropped \cup {logged + 1}
        /\ dropped \in SUBSET (1 .. logged) /\ logged + 1 \notin dropped
    BY <1>0, <1>3 DEF Drop, Accounted
  <2>2. IsFiniteSet(dropped)
    <3>1. IsFiniteSet(1 .. logged)
      BY <1>0, FS_Interval
    <3> QED
      BY <2>1, <3>1, FS_Subset
  <2>3. Cardinality(dropped') = Cardinality(dropped) + 1
    BY <2>1, <2>2, FS_AddElement
  <2>4. Reported(Delivered) \in Nat
    BY <1>0, ReportedNat
  <2> QED
    BY <1>0, <1>1, <1>3, <2>1, <2>3, <2>4 DEF DropsCounted
<1>4. CASE Delivered' = Delivered /\ UNCHANGED <<logged, dropped, droppedCount>>
  <2>1. droppedCount' = droppedCount
    BY <1>4
  <2> QED
    BY <1>1, <1>4, <2>1 DEF DropsCounted
<1> QED
  BY <1>2, <1>3, <1>4, DeliveredStep

LEMMA QueueInvInit == QueueInit => QueueInv
<1> SUFFICES ASSUME QueueInit
             PROVE  QueueInv
  OBVIOUS
<1>1. /\ buffer = <<>> /\ console = <<>> /\ batch = <<>> /\ logged = 0 /\ dropped = {}
      /\ droppedCount = 0
  BY DEF QueueInit
<1>2. Delivered = <<>>
  BY <1>1 DEF Delivered
<1>3. LogsIn(<<>>) = {}
  BY DEF LogsIn
<1>4. Accounted
  BY <1>1, <1>2, <1>3 DEF Accounted
<1>5. InOrder
  BY <1>2 DEF InOrder
<1>6. BufferBounded
  BY <1>1, SizesAssumption DEF BufferBounded
<1>7. Handed /\ Single
  BY <1>1 DEF Handed, Single
<1>8. DropsCounted
  <2>1. WarningsIn(<<>>) = {}
    BY DEF WarningsIn
  <2>2. Reported(<<>>) = 0
    BY <2>1, SumEmpty DEF Reported, SumFunction
  <2> QED
    BY <1>1, <1>2, <2>2, FS_EmptySet DEF DropsCounted, DropsReported, Reported
<1> QED
  BY <1>4, <1>5, <1>6, <1>7, <1>8, QueueTypeInit DEF QueueInv

LEMMA QueueInvStep == QueueInv /\ [QueueNext]_queueVars => QueueInv'
BY QueueTypeStep, AccountedStep, InOrderStep, BoundedStep, HandedStep, SingleStep,
   DropsCountedStep DEF QueueInv

LEMMA QueueInvariant == QueueSpec => []QueueInv
<1> QED
  BY QueueInvInit, QueueInvStep, PTL DEF QueueSpec

-----------------------------------------------------------------------------

\* The queue, the transports and the shutdown keep their types.
THEOREM QueueTypesHold == QueueSpec => []QueueTypeOK
<1>1. QueueInv => QueueTypeOK
  BY DEF QueueInv
<1> QED
  BY <1>1, QueueInvariant, PTL

\* The log reads in the order of the log() calls, without repetition, for every
\* batch size and limit.
THEOREM LogKeepsOrder == QueueSpec => []InOrder
<1>1. QueueInv => InOrder
  BY DEF QueueInv
<1> QED
  BY <1>1, QueueInvariant, PTL

\* Every entry is dropped at the limit or delivered, never both, and what the
\* console has the database has been offered.
THEOREM NoEntryLost == QueueSpec => []NothingLost
<1>1. QueueInv => NothingLost
  BY DEF QueueInv, NothingLost, Handed
<1> QED
  BY <1>1, QueueInvariant, PTL

\* The drops that warnings report and those still counted are the drops there
\* were, for any sizes and however often the queue fills
\* (src/logger/queue-base.ts:58-91).
THEOREM DropsAddUp == QueueSpec => []DropsCounted
<1>1. QueueInv => DropsCounted
  BY DEF QueueInv
<1> QED
  BY <1>1, QueueInvariant, PTL

\* The buffer respects its limit, but for the warning at a limit of one.
THEOREM LimitRespected == QueueSpec => []BufferBounded
<1>1. QueueInv => BufferBounded
  BY DEF QueueInv
<1> QED
  BY <1>1, QueueInvariant, PTL

\* A batch is written only when no other is in flight, and is no larger than
\* the batch size.
THEOREM OneConsumer == QueueSpec => OneBatchAtATime
<1>1. ASSUME QueueInv, [QueueNext]_queueVars, console' # console
      PROVE  batch = <<>> /\ Len(batch') <= BatchSize
  <2>1. StartFlush
    <3>1. Drop \/ Enqueue \/ Insert \/ Quiet => console' = console
      BY DEF Drop, Enqueue, Insert, Quiet, sinks
    <3> QED
      BY <1>1, <3>1, StepKinds
  <2>2. batch = <<>>
    BY <1>1, <2>1 DEF QueueInv, Single, StartFlush, MayFlush
  <2>3. Taken \in Seq(Entry) /\ Len(Taken) <= BatchSize
    BY <1>1, TakenAndLeft DEF QueueInv, QueueTypeOK
  <2>4. batch' = Taken
    BY <2>1, <2>2, <2>3, ConcatEmptySeq DEF StartFlush
  <2> QED
    BY <2>2, <2>3, <2>4
<1>2. QueueInv /\ [QueueNext]_queueVars => (console' # console => batch = <<>> /\ Len(batch') <= BatchSize)
  BY <1>1
<1> QED
  BY <1>2, QueueInvariant, PTL DEF QueueSpec, OneBatchAtATime
=============================================================================
