--------------------------- MODULE PluginRegistry ---------------------------
(***************************************************************************)
(* Plugins (src/plugins/loader.ts, registry.ts, src/routes/plugins.ts):    *)
(* loaded one after the other at start-up, enabled and disabled by an      *)
(* administrator, unloaded at shutdown.  A shutdown goes through the array *)
(* of loaded plugins that every shutdown shares, and waits for a plugin's  *)
(* onUnload between two of its entries.  What a plugin registers (routes,  *)
(* tools, components) is data.                                             *)
(*                                                                         *)
(* A plugin is its place in the loading order.  All the program keeps of   *)
(* it goes by the name in its manifest, which nothing compares with those  *)
(* of the plugins before it.                                               *)
(***************************************************************************)
EXTENDS Naturals, Sequences, SequencesExt

CONSTANTS
    Plugins,    \* names of the plugins of the three directories, in loading order
    Toggled     \* bound: names an administrator enables and disables

ASSUME PluginsAssumption == Plugins \in Seq(ToSet(Plugins))

VARIABLES
    next,       \* place of the plugin loadAllPlugins is at, 0 before it
    registered, \* PluginRegistry.plugins: the plugin of each name, 0 without an entry
    enabled,    \* PluginRegistry.enabledMap, FALSE without an entry
    rows,       \* plugin_state.enabled of each name, or "none"
    loadOrder,  \* the array of loaded names
    loaded,     \* history: the plugins this run of the server loaded, in order
    unloads     \* history: the plugins whose onUnload this run called, in order

pluginVars == <<next, registered, enabled, rows, loadOrder, loaded, unloads>>

Names == ToSet(Plugins)
Places == 1 .. Len(Plugins)
RowOf(on) == IF on THEN "on" ELSE "off"

PluginsTypeOK ==
    /\ next \in 0 .. Len(Plugins) + 1
    /\ registered \in [Names -> 0 .. Len(Plugins)]
    /\ enabled \in [Names -> BOOLEAN]
    /\ rows \in [Names -> {"none", "on", "off"}]
    /\ loadOrder \in Seq(Names)
    /\ loaded \in Seq(Places) /\ unloads \in Seq(Places)

PluginsFresh ==
    /\ next' = 0 /\ registered' = [n \in Names |-> 0] /\ enabled' = [n \in Names |-> FALSE]
    /\ loadOrder' = <<>> /\ loaded' = <<>> /\ unloads' = <<>>

PluginsInit ==
    /\ next = 0 /\ registered = [n \in Names |-> 0] /\ enabled = [n \in Names |-> FALSE]
    /\ loadOrder = <<>> /\ loaded = <<>> /\ unloads = <<>>
    /\ rows = [n \in Names |-> "none"]

----------------------------------------------------------------------------

\* loadAllPlugins reads the rows, which is "none" too when the read fails ...
LoadStates ==
    /\ next = 0 /\ next' = 1
    /\ \E read \in {rows, [n \in Names |-> "none"]} : enabled' = [n \in Names |-> read[n] = "on"]
    /\ loadOrder' = <<>>
    /\ UNCHANGED <<registered, rows, loaded, unloads>>

\* ... and registers each plugin, in place of one of the same name, which
\* enables it whatever its row says.  A plugin whose onLoad throws stays
\* registered but is not in loadOrder.
LoadPlugin ==
    /\ next \in Places /\ next' = next + 1
    /\ LET n == Plugins[next]
       IN /\ registered' = [registered EXCEPT ![n] = next]
          /\ enabled' = [enabled EXCEPT ![n] = TRUE]
          /\ \/ /\ loadOrder' = Append(loadOrder, n) /\ loaded' = Append(loaded, next)
                /\ rows' \in {rows, [rows EXCEPT ![n] = IF @ = "none" THEN "on" ELSE @]}
             \/ UNCHANGED <<loadOrder, loaded, rows>>
    /\ UNCHANGED unloads

Loaded == next = Len(Plugins) + 1

\* POST enable, disable: the registry first; a row that cannot be written is
\* ignored.
Toggle(n, on) ==
    /\ n \in Toggled /\ registered[n] # 0 /\ enabled[n] # on
    /\ enabled' = [enabled EXCEPT ![n] = on]
    /\ rows' \in {rows, [rows EXCEPT ![n] = RowOf(on)]}
    /\ UNCHANGED <<next, registered, loadOrder, loaded, unloads>>

\* A shutdown in loading order.
Turned_Not == loadOrder

\* unloadAllPlugins reverses the array in place ...
Turned == Reverse(loadOrder)

\* ... and calls the plugin registered under the name at place i, unless another
\* shutdown unregistered them all.
Unload(order, i) ==
    /\ i \in DOMAIN order
    /\ loadOrder' = order
    /\ LET plugin == registered[order[i]]
       IN unloads' = IF plugin # 0 THEN Append(unloads, plugin) ELSE unloads
    /\ UNCHANGED <<next, registered, enabled, rows, loaded>>

UnregisterAll ==
    /\ registered' = [n \in Names |-> 0] /\ enabled' = [n \in Names |-> FALSE]
    /\ loadOrder' = <<>>
    /\ UNCHANGED <<next, rows, loaded, unloads>>
=============================================================================
