--------------------------- MODULE ExternalServers ---------------------------
(***************************************************************************)
(* The model servers that run as child processes (src/services/server-     *)
(* external-manager.ts): a start checks the port, spawns, waits until the  *)
(* port answers and only then registers the process; a stop terminates,    *)
(* waits and kills; an exit kills what is registered.  sd-server and       *)
(* llama-server are started alike; llama-swap without a look at its port.  *)
(*                                                                         *)
(* The configuration gives each kind a port, and may give two the same.    *)
(* Nothing tells whose answer comes from a port: another kind's, that of a *)
(* process left from an earlier run, or that of any other program.  The    *)
(* processes outlive a server that is killed, so they are kept for all its *)
(* starts.  The probes only log and are left out.                          *)
(***************************************************************************)
EXTENDS Naturals, Sequences, SequencesExt

CONSTANTS
    Kinds,      \* the servers the configuration enables
    Unchecked,  \* those started without a look at the port: llama-swap
    PortOf,     \* the port of each kind
    MaxProcs    \* bound: processes spawned

Ports == {PortOf[k] : k \in Kinds}

ASSUME ServersAssumption ==
    Unchecked \subseteq Kinds /\ PortOf \in [Kinds -> Ports] /\ MaxProcs \in Nat

VARIABLES
    procs,      \* processes ever spawned, by pid: their kind and state
    others,     \* ports other programs have
    starts,     \* the start of each kind in this run of the server
    instances   \* ServerExternalManager.instances, as pids

serverVars == <<procs, others, starts, instances>>

Pids == 1 .. MaxProcs
Proc == [kind : Kinds, state : {"loading", "listening", "dead"}]

\* Another program, where a process is named by its pid.
Other == 0

\* since: history, who took the port while the start waits.
Start == [step : {"idle", "waiting", "done"}, pid : 0 .. MaxProcs, since : SUBSET (0 .. MaxProcs)]
NoStart == [step |-> "idle", pid |-> 0, since |-> {}]

ServersTypeOK ==
    /\ procs \in Seq(Proc) /\ Len(procs) <= MaxProcs
    /\ others \subseteq Ports
    /\ starts \in [Kinds -> Start]
    /\ instances \in Seq(Pids)

ServersInit ==
    /\ procs = <<>> /\ others = {}
    /\ starts = [k \in Kinds |-> NoStart]
    /\ instances = <<>>

Alive(p) == procs[p].state # "dead"

Holders(port) ==
    {p \in DOMAIN procs : PortOf[procs[p].kind] = port /\ procs[p].state = "listening"}
        \cup {o \in {Other} : port \in others}
Answers(k) == Holders(PortOf[k]) # {}

\* Every waiting start with that port will hear whoever takes it now.
Heard(port, who) ==
    [k \in Kinds |->
        IF PortOf[k] = port /\ starts[k].step = "waiting"
        THEN [starts[k] EXCEPT !.since = @ \cup {who}] ELSE starts[k]]

Done(k) == [starts EXCEPT ![k].step = "done", ![k].since = {}]

----------------------------------------------------------------------------
(* The processes, and other programs: external to the code *)

\* A process binds its port, or ends when somebody has it.
Listen(p) ==
    LET kind == procs[p].kind
    IN /\ procs[p].state = "loading"
       /\ \/ /\ Answers(kind)
             /\ procs' = [procs EXCEPT ![p].state = "dead"]
             /\ UNCHANGED starts
          \/ /\ ~ Answers(kind)
             /\ procs' = [procs EXCEPT ![p].state = "listening"]
             /\ starts' = Heard(PortOf[kind], p)
       /\ UNCHANGED <<others, instances>>

\* It crashes, or ends on SIGTERM.
Die(p) ==
    /\ Alive(p)
    /\ procs' = [procs EXCEPT ![p].state = "dead"]
    /\ UNCHANGED <<others, starts, instances>>

OtherTakes(port) ==
    /\ Holders(port) = {}
    /\ others' = others \cup {port}
    /\ starts' = Heard(port, Other)
    /\ UNCHANGED <<procs, instances>>

OtherLeaves(port) ==
    /\ port \in others
    /\ others' = others \ {port}
    /\ UNCHANGED <<procs, starts, instances>>

----------------------------------------------------------------------------
(* Starting *)

\* Every server is taken for one whose port is free.
PortFree_Always(k) == TRUE

\* isPortFree: a process still loading holds no port yet.
PortFree(k) == k \in Unchecked \/ ~ Answers(k)

Spawn(k) ==
    /\ starts[k].step = "idle" /\ PortFree(k)
    /\ Len(procs) < MaxProcs
    /\ procs' = Append(procs, [kind |-> k, state |-> "loading"])
    /\ starts' = [starts EXCEPT ![k] =
           [step |-> "waiting", pid |-> Len(procs) + 1, since |-> {}]]
    /\ UNCHANGED <<others, instances>>

\* No program on the path, or the port is in use.
Skip(k) ==
    /\ starts[k].step = "idle"
    /\ starts' = Done(k)
    /\ UNCHANGED <<procs, others, instances>>

\* waitForHealth, waitForPort: whoever answers on the port.
Ready(k) ==
    /\ starts[k].step = "waiting" /\ Answers(k)
    /\ instances' = Append(instances, starts[k].pid)
    /\ starts' = Done(k)
    /\ UNCHANGED <<procs, others>>

\* No answer in time, or none that will do (llama-server asks for /health, which
\* another program need not have): SIGTERM, which the process need not heed.
NotReady(k) ==
    /\ starts[k].step = "waiting"
    /\ starts' = Done(k)
    /\ UNCHANGED <<procs, others, instances>>

----------------------------------------------------------------------------
(* Stopping *)

Killed(S) == [p \in DOMAIN procs |->
                 IF p \in S THEN [procs[p] EXCEPT !.state = "dead"] ELSE procs[p]]
Registered == {instances[i] : i \in DOMAIN instances}

\* A stop that relies on SIGTERM alone.
KilledByStop_Term(p) == procs

\* SIGTERM, half a second, SIGKILL.
KilledByStop(p) == Killed({p})

\* The filter of stop: an instance was pushed once.
Without(p) ==
    IF p \in Registered
    THEN RemoveAt(instances, CHOOSE i \in DOMAIN instances : instances[i] = p)
    ELSE instances

\* stop, from its SIGKILL on: the instance leaves the list.
StopInstance(p) ==
    /\ procs' = KilledByStop(p)
    /\ instances' = Without(p)
    /\ UNCHANGED <<others, starts>>

\* killAllSync, from the exit handler: SIGKILL, and the process is gone.
KillAll ==
    /\ procs' = Killed(Registered)
    /\ instances' = <<>>
    /\ starts' = [k \in Kinds |-> NoStart]
    /\ UNCHANGED others

\* The server is gone without its exit handler.
Abandon ==
    /\ instances' = <<>>
    /\ starts' = [k \in Kinds |-> NoStart]
    /\ UNCHANGED <<procs, others>>

StartStep(k) == Spawn(k) \/ Skip(k) \/ Ready(k) \/ NotReady(k)
Outside ==
    \/ \E p \in DOMAIN procs : Listen(p) \/ Die(p)
    \/ \E port \in Ports : OtherTakes(port) \/ OtherLeaves(port)
=============================================================================
