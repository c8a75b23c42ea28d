---------------------------- MODULE PluginManager ----------------------------
(***************************************************************************)
(* PluginManager of src/plugin.rs.  Plugins are external: init may write *)
(* to the configuration of the context and may fail, each time anew.     *)
(***************************************************************************)
EXTENDS Naturals, Sequences, SequencesExt

CONSTANTS
    PluginNames,     \* the names plugins go by
    MaxRuns          \* bound: calls of execute_all

VARIABLES
    plugins,         \* the names of the plugins, in the order of registration
    infos,           \* the name each PluginInfo was given
    current,         \* execute_all: the plugin to initialise next, 0 outside
    results,         \* execute_all: the pairs returned so far
    shared,          \* PluginContext.config: the keys plugins have written
    runs,            \* history: calls of execute_all
    since,           \* history: runs when the plugin was registered
    inits            \* history: calls of its init

manager == <<plugins, infos, current, results, shared, runs, since, inits>>

ManagerInit ==
    /\ plugins = << >> /\ infos = << >>
    /\ current = 0 /\ results = << >> /\ shared = {}
    /\ runs = 0 /\ since = << >> /\ inits = << >>

AlreadyRegistered(name) == name \in ToSet(plugins)

(* The information is the caller's and need not name the plugin.         *)
register(name, info) ==
    /\ current = 0
    /\ ~AlreadyRegistered(name)
    /\ plugins' = Append(plugins, name)
    /\ infos' = Append(infos, info)
    /\ since' = Append(since, runs)
    /\ inits' = Append(inits, 0)
    /\ UNCHANGED <<current, results, shared, runs>>

execute_all ==
    /\ current = 0 /\ runs < MaxRuns
    /\ runs' = runs + 1
    /\ current' = 1 /\ results' = << >>
    /\ UNCHANGED <<plugins, infos, shared, since, inits>>

(* Mutant: the first failure ends the run.                               *)
init_or_stop(ok, writes) ==
    /\ current \in 1..Len(plugins)
    /\ results' = Append(results, <<plugins[current], ok>>)
    /\ current' = IF ok THEN current + 1 ELSE Len(plugins) + 1
    /\ shared' = IF writes THEN shared \cup {plugins[current]} ELSE shared
    /\ inits' = [inits EXCEPT ![current] = @ + 1]
    /\ UNCHANGED <<plugins, infos, runs, since>>

(* Whether a plugin was initialised before is not looked at, and a plugin *)
(* that fails may have written to the configuration.                     *)
init(ok, writes) ==
    /\ current \in 1..Len(plugins)
    /\ results' = Append(results, <<plugins[current], ok>>)
    /\ current' = current + 1
    /\ shared' = IF writes THEN shared \cup {plugins[current]} ELSE shared
    /\ inits' = [inits EXCEPT ![current] = @ + 1]
    /\ UNCHANGED <<plugins, infos, runs, since>>

executed ==
    /\ current > Len(plugins)
    /\ current' = 0
    /\ UNCHANGED <<plugins, infos, results, shared, runs, since, inits>>

ManagerNext ==
    \/ \E name, info \in PluginNames : register(name, info)
    \/ execute_all
    \/ \E ok, writes \in BOOLEAN : init(ok, writes)
    \/ executed

ManagerSpec == ManagerInit /\ [][ManagerNext]_manager

---------------------------------------------------------------------------
(* Whichever plugins fail, a run initialises every plugin that was       *)
(* registered before it, once and in the order of registration, and      *)
(* reports on each under its own name; two plugins never share a name, and *)
(* each has its own information (register, execute_all).                 *)
PluginsAnswer ==
    /\ IsInjective(plugins) /\ Len(infos) = Len(plugins)
    /\ IsPrefix([k \in 1..Len(results) |-> results[k][1]], plugins)
    /\ current = 0 => \A k \in 1..Len(plugins) : inits[k] = runs - since[k]

=============================================================================
