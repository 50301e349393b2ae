--------------------------- MODULE ServerLifecycle ---------------------------
(***************************************************************************)
(* One server process from start to exit, and its restarts (start() of     *)
(* src/server.ts): migrations and seeds, the model servers started side by *)
(* side, the plugins, the handlers of signals and exit, and the shutdowns  *)
(* those begin, one for each signal, overlapping.                          *)
(*                                                                         *)
(* HTTP is served from before the migrations on; the requests are those of *)
(* the other modules.  Copying and compressing files, and the providers,   *)
(* are left out.  A start that throws, a signal before the handlers are    *)
(* there and a kill of the process all end it without its exit handler.    *)
(***************************************************************************)
EXTENDS ExternalServers, PluginRegistry

CONSTANTS
    Signals,    \* bound: one element for each shutdown of a run
    MaxStarts   \* bound: starts of the server

ASSUME LifecycleAssumption == MaxStarts \in Nat

VARIABLES
    phase,      \* how far start() is, or "off"
    shutdowns,  \* the shutdown of each signal
    started,    \* starts so far
    orderly,    \* history: the last run ended by process.exit
    watched     \* history: processes registered when that shutdown began

vars == <<serverVars, pluginVars, phase, shutdowns, started, orderly, watched>>
history == <<started, orderly, watched>>

Phases == {"off", "migrating", "servers", "plugins", "up"}

\* list: the instances a shutdown has yet to stop, of the array it began with;
\* at: its place in the array of plugins.
NoShutdown == [step |-> "idle", list |-> <<>>, at |-> 0]
Shutdown == [step : {"idle", "stopping", "unloading", "flushing"},
             list : Seq(Pids), at : 0 .. Len(Plugins) + 1]

TypeOK ==
    /\ ServersTypeOK /\ PluginsTypeOK
    /\ phase \in Phases
    /\ shutdowns \in [Signals -> Shutdown]
    /\ started \in 0 .. MaxStarts
    /\ orderly \in BOOLEAN
    /\ watched \subseteq Pids

Init ==
    /\ ServersInit /\ PluginsInit
    /\ phase = "off"
    /\ shutdowns = [c \in Signals |-> NoShutdown]
    /\ started = 0
    /\ orderly = FALSE /\ watched = {}

----------------------------------------------------------------------------
(* Start-up *)

StartServer ==
    /\ phase = "off" /\ started < MaxStarts
    /\ phase' = "migrating" /\ started' = started + 1
    /\ PluginsFresh
    /\ orderly' = FALSE /\ watched' = {}
    /\ UNCHANGED <<serverVars, rows, shutdowns>>

Migrate ==
    /\ phase = "migrating" /\ phase' = "servers"
    /\ UNCHANGED <<serverVars, pluginVars, shutdowns, history>>

ServerStep(k) ==
    /\ phase = "servers"
    /\ StartStep(k)
    /\ UNCHANGED <<pluginVars, phase, shutdowns, history>>

\* Promise.all of the starts.
ServersStarted ==
    /\ phase = "servers" /\ \A k \in Kinds : starts[k].step = "done"
    /\ phase' = "plugins"
    /\ UNCHANGED <<serverVars, pluginVars, shutdowns, history>>

PluginStep ==
    /\ phase = "plugins"
    /\ LoadStates \/ LoadPlugin
    /\ UNCHANGED <<serverVars, phase, shutdowns, history>>

\* The exit handler and the handlers of signals are installed last.
Up ==
    /\ phase = "plugins" /\ Loaded
    /\ phase' = "up"
    /\ UNCHANGED <<serverVars, pluginVars, shutdowns, history>>

TogglePlugin(n, on) ==
    /\ phase \in {"plugins", "up"}
    /\ Toggle(n, on)
    /\ UNCHANGED <<serverVars, phase, shutdowns, history>>

OutsideStep ==
    /\ Outside
    /\ UNCHANGED <<pluginVars, phase, shutdowns, history>>

----------------------------------------------------------------------------
(* Shutdown *)

Running == {c \in Signals : shutdowns[c].step # "idle"}

\* A signal, an uncaught exception or an unhandled rejection.
Signal(c) ==
    /\ phase = "up" /\ shutdowns[c].step = "idle"
    /\ shutdowns' = [shutdowns EXCEPT ![c] =
           [step |-> "stopping", list |-> instances, at |-> 0]]
    /\ watched' = IF Running = {} THEN Registered ELSE watched
    /\ UNCHANGED <<serverVars, pluginVars, phase, started, orderly>>

\* stopAll: each instance of the array that was there when it began.
StopNext(c) ==
    LET list == shutdowns[c].list
    IN /\ shutdowns[c].step = "stopping" /\ list # <<>>
       /\ StopInstance(Head(list))
       /\ shutdowns' = [shutdowns EXCEPT ![c].list = Tail(list)]
       /\ UNCHANGED <<pluginVars, phase, history>>

AllStopped(c) == shutdowns[c].step = "stopping" /\ shutdowns[c].list = <<>>

\* unloadAllPlugins, up to the first onUnload it waits for.
UnloadFirst(c) ==
    /\ AllStopped(c) /\ loadOrder # <<>>
    /\ Unload(Turned, 1)
    /\ shutdowns' = [shutdowns EXCEPT ![c].step = "unloading", ![c].at = 1]
    /\ UNCHANGED <<serverVars, phase, history>>

UnloadNext(c) ==
    /\ shutdowns[c].step = "unloading"
    /\ Unload(loadOrder, shutdowns[c].at + 1)
    /\ shutdowns' = [shutdowns EXCEPT ![c].at = @ + 1]
    /\ UNCHANGED <<serverVars, phase, history>>

Unloaded(c) ==
    /\ \/ AllStopped(c) /\ loadOrder = <<>>
       \/ shutdowns[c].step = "unloading" /\ shutdowns[c].at >= Len(loadOrder)
    /\ UnregisterAll
    /\ shutdowns' = [shutdowns EXCEPT ![c].step = "flushing"]
    /\ UNCHANGED <<serverVars, phase, history>>

\* process.exit, whose handler kills what is registered.
Exit ==
    /\ KillAll
    /\ PluginsFresh /\ UNCHANGED rows
    /\ phase' = "off"
    /\ shutdowns' = [c \in Signals |-> NoShutdown]
    /\ orderly' = TRUE
    /\ UNCHANGED <<started, watched>>

Flushed(c) == shutdowns[c].step = "flushing" /\ Exit

\* A shutdown that waits for the flush however long it takes.
TimerSet_Never(c) == FALSE

\* The timer of five seconds is set before the wait.
TimerSet(c) == shutdowns[c].step = "flushing"

FlushTimedOut(c) == TimerSet(c) /\ Exit

----------------------------------------------------------------------------

\* The process is killed, its start throws, or a signal finds no handler.
Crash ==
    /\ phase # "off" /\ phase' = "off"
    /\ Abandon
    /\ PluginsFresh /\ UNCHANGED rows
    /\ shutdowns' = [c \in Signals |-> NoShutdown]
    /\ UNCHANGED <<started, orderly, watched>>

StartUp ==
    \/ Migrate
    \/ \E k \in Kinds : ServerStep(k)
    \/ ServersStarted
    \/ PluginStep
    \/ Up

ShutdownStep(c) ==
    \/ StopNext(c) \/ UnloadFirst(c) \/ UnloadNext(c) \/ Unloaded(c)
    \/ FlushTimedOut(c)

Next ==
    \/ StartServer
    \/ StartUp
    \/ \E n \in Names, on \in BOOLEAN : TogglePlugin(n, on)
    \/ OutsideStep
    \/ \E c \in Signals : Signal(c) \/ ShutdownStep(c) \/ Flushed(c)
    \/ Crash

Spec == Init /\ [][Next]_vars

\* The code of a shutdown runs on, a plugin's onUnload returns, and the timer
\* fires; no fairness of the flush, which waits for a transport.
FairSpec == Spec /\ \A c \in Signals : WF_vars(ShutdownStep(c))

----------------------------------------------------------------------------
(* Properties *)

\* What a server started with a look at its port is registered for answers there
\* only since that look: nobody who had the port before is taken for it, be it
\* another kind with the same port, a process of an earlier run or another
\* program.  Whoever takes the port while the start waits is taken for it
\* (src/services/server-external-manager.ts:79-160, 242-326,
\* src/services/external-server-utils.ts:41-123).
ReadySinceLook ==
    [][\A k \in Kinds \ Unchecked :
         starts[k].step = "waiting" /\ Len(instances') > Len(instances) /\ starts'[k].step = "done" =>
             Holders(PortOf[k]) \subseteq starts[k].since]_vars

\* After an orderly exit none of the model servers is alive that was registered
\* when its first signal came, however its shutdowns overlapped (src/server.ts:
\* 498-515, src/services/server-external-manager.ts:329-374).
NoStrays == phase = "off" /\ orderly => \A p \in watched : ~ Alive(p)

\* A shutdown ends the process, whether or not the log can be flushed and
\* whatever other shutdowns run (src/server.ts:503-515).
ShutdownEnds == Running # {} ~> phase = "off"

\* The last plugin that bears a name is the one registered under it.
Standing(i, n) == Plugins[i] = n /\ \A j \in i + 1 .. Len(Plugins) : Plugins[j] # n

\* "Shutdown all plugins in reverse load order" (src/plugins/loader.ts:176): so
\* does a shutdown that no other one overlaps, whatever an administrator does
\* to the plugins while it runs and whichever of them failed to load.  For each
\* plugin loaded it calls the last one that bears its name: itself, where no two
\* share one.
UnloadsInReverse ==
    \A c \in Signals :
        shutdowns[c].step = "flushing" /\ Running = {c} =>
            /\ Len(unloads) = Len(loaded)
            /\ \A i \in DOMAIN loaded : Standing(unloads[i], Plugins[Reverse(loaded)[i]])
=============================================================================
