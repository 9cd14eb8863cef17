------------------------------- MODULE Engine -------------------------------
(***************************************************************************)
(* Start-up of etosctl (main.go) with the customization engine             *)
(* (pkg/engine/engine.go): the configuration is loaded, the plugins        *)
(* directory is walked and every plugin that loads registers its commands, *)
(* the first registration of a name winning; then main adds the registered *)
(* commands to the root command, which already holds the built-in ones.    *)
(*                                                                         *)
(* The directory's contents are chosen in Init: a sequence of MaxEntries   *)
(* entries in the order filepath.Walk visits them (lexical, depth first).  *)
(* An entry is a directory or a file without the .so extension, or a       *)
(* plugin with the outcome of loading it and, if it loads, the names of    *)
(* the commands its Registry returns.  Any entry can make the walk report  *)
(* an error (its Lstat or ReadDir fails).                                  *)
(***************************************************************************)
EXTENDS Naturals

CONSTANTS
    Names,       \* command names plugins can register
    Builtins,    \* names of the commands cmd/ adds to RootCmd in its init
    MaxEntries   \* entries in the plugins directory

ASSUME EngineAssumption ==
    /\ Builtins \subseteq Names
    /\ MaxEntries \in Nat

VARIABLES
    configOK,   \* etosctl.yaml loads
    dirExists,  \* the plugins directory exists at start-up
    entries,    \* the directory's entries in walk order
    phase,      \* where start-up is
    pos,        \* the entry the walk visits next
    registry,   \* e.commands: name -> entry that registered it (0: none)
    root        \* RootCmd's subcommands: name -> how many carry that name

vars == <<configOK, dirExists, entries, phase, pos, registry, root>>

\* Why plugin.Open, p.Lookup("Registry") or the CommandRegistry assertion
\* rejects a plugin, or "ok".
LoadOutcomes == {"openFails", "noSymbol", "wrongType", "ok"}

Entry ==
    [kind : {"dir", "other"}, err : BOOLEAN, load : {"ok"}, cmds : {{}}]
    \cup [kind : {"so"}, err : BOOLEAN, load : LoadOutcomes \ {"ok"}, cmds : {{}}]
    \cup [kind : {"so"}, err : BOOLEAN, load : {"ok"}, cmds : SUBSET Names]

Phases == {"config", "stat", "walk", "main", "execute", "exit"}

Positions == 1..(MaxEntries + 1)

TypeOK ==
    /\ configOK \in BOOLEAN
    /\ dirExists \in BOOLEAN
    /\ entries \in [1..MaxEntries -> Entry]
    /\ phase \in Phases
    /\ pos \in Positions
    /\ registry \in [Names -> 0..MaxEntries]
    /\ root \in [Names -> Nat]

Init ==
    /\ configOK \in BOOLEAN
    /\ dirExists \in BOOLEAN
    /\ entries \in [1..MaxEntries -> Entry]
    /\ phase = "config"
    /\ pos = 1
    /\ registry = [n \in Names |-> 0]
    /\ root = [n \in Names |-> IF n \in Builtins THEN 1 ELSE 0]

-----------------------------------------------------------------------------
\* main: a configuration that cannot be loaded ends the process.
LoadConfig ==
    /\ phase = "config"
    /\ phase' = IF configOK THEN "stat" ELSE "exit"
    /\ UNCHANGED <<configOK, dirExists, entries, pos, registry, root>>

\* discover: a missing plugins directory is created and then holds nothing
\* to walk; if it cannot be created discovery logs it and returns.  Either
\* way nothing is registered.
StatPluginDir ==
    /\ phase = "stat"
    /\ phase' = IF dirExists THEN "walk" ELSE "main"
    /\ UNCHANGED <<configOK, dirExists, entries, pos, registry, root>>

\* The walk callback returns the error it was given: Walk stops, and
\* discover logs it and returns with what was registered so far.
WalkFails ==
    /\ phase = "walk"
    /\ pos <= MaxEntries
    /\ entries[pos].err
    /\ phase' = "main"
    /\ UNCHANGED <<configOK, dirExists, entries, pos, registry, root>>

\* A directory or a file that is not a .so, or a plugin that fails to open,
\* lacks the Registry symbol or has one of the wrong type: logged, skipped.
SkipEntry ==
    /\ phase = "walk"
    /\ pos <= MaxEntries
    /\ ~entries[pos].err
    /\ entries[pos].kind # "so" \/ entries[pos].load # "ok"
    /\ pos' = pos + 1
    /\ UNCHANGED <<configOK, dirExists, entries, phase, registry, root>>

\* Mutation variant: the "already exists" test dropped, the last plugin to
\* register a name wins.
RegisterPlugin_LastWins ==
    /\ phase = "walk"
    /\ pos <= MaxEntries
    /\ ~entries[pos].err
    /\ entries[pos].kind = "so" /\ entries[pos].load = "ok"
    /\ registry' = [n \in Names |->
                      IF n \in entries[pos].cmds THEN pos ELSE registry[n]]
    /\ pos' = pos + 1
    /\ UNCHANGED <<configOK, dirExists, entries, phase, root>>

\* A plugin that loads: each name of its command map is registered unless
\* a plugin walked earlier registered it (then a warning is logged).
RegisterPlugin ==
    /\ phase = "walk"
    /\ pos <= MaxEntries
    /\ ~entries[pos].err
    /\ entries[pos].kind = "so" /\ entries[pos].load = "ok"
    /\ registry' = [n \in Names |->
                      IF n \in entries[pos].cmds /\ registry[n] = 0
                      THEN pos ELSE registry[n]]
    /\ pos' = pos + 1
    /\ UNCHANGED <<configOK, dirExists, entries, phase, root>>

WalkDone ==
    /\ phase = "walk"
    /\ pos > MaxEntries
    /\ phase' = "main"
    /\ UNCHANGED <<configOK, dirExists, entries, pos, registry, root>>

\* main: every registered command is added to RootCmd, whose built-in
\* commands are already there; then RootCmd.Execute runs.
AddCommands ==
    /\ phase = "main"
    /\ root' = [n \in Names |-> root[n] + (IF registry[n] # 0 THEN 1 ELSE 0)]
    /\ phase' = "execute"
    /\ UNCHANGED <<configOK, dirExists, entries, pos, registry>>

Next ==
    \/ LoadConfig
    \/ StatPluginDir
    \/ WalkFails
    \/ SkipEntry
    \/ RegisterPlugin
    \/ WalkDone
    \/ AddCommands

\* Start-up is one goroutine that runs to the end.
Spec == Init /\ [][Next]_vars /\ WF_vars(Next)

-----------------------------------------------------------------------------
(***************************************************************************)
(* Properties.                                                             *)
(***************************************************************************)

\* The walked entries before k that are plugins which load and offer name n.
Providers(n, k) ==
    {i \in 1..(k - 1) : /\ entries[i].kind = "so"
                        /\ entries[i].load = "ok"
                        /\ n \in entries[i].cmds}

\* First registration wins: whatever the order of the entries, the errors
\* of the walk and the plugins that fail to load, a name is registered by
\* the first plugin walked so far that offers it, and by no other; a plugin
\* that does not load registers nothing (engine.go:86-94).
FirstRegistrationWins ==
    \A n \in Names :
        IF Providers(n, pos) = {}
        THEN registry[n] = 0
        ELSE /\ registry[n] \in Providers(n, pos)
             /\ \A j \in Providers(n, pos) : registry[n] <= j

\* Command names are unique under RootCmd: the engine skips a name already
\* registered, so no two commands of the root share a name.
UniqueRootCommands ==
    \A n \in Names : root[n] <= 1
====
