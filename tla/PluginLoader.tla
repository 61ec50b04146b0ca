----------------------------- MODULE PluginLoader -----------------------------
(***************************************************************************)
(* How ratsd comes by its sub-attesters: main sets the checksums, then the *)
(* plugin manager launches the executables of the plugin directory one     *)
(* after the other, asks each for its name and keeps a handle under it.    *)
(*                                                                         *)
(* A plugin is a child process.  It may die at any time, it may never      *)
(* answer, and it goes on running when ratsd exits: nothing but a Kill     *)
(* from the loader stops it.                                               *)
(*                                                                         *)
(* What go-plugin does with an executable (it starts, it speaks the        *)
(* protocol, it knows the plugin type) is a choice of the environment.     *)
(***************************************************************************)
EXTENDS Naturals, Sequences, Functions

CONSTANTS
    Paths,      \* the *.plugin files of the directory, as Discover lists them
    MixedCase,  \* those with an upper-case letter in their name
    Elsewhere,  \* executables that are not there
    Names       \* names that plugins may give themselves

Files == Range(Paths)
Listed == Files \cup Elsewhere

ASSUME PathsAssumption == Paths \in Seq(Files) /\ IsInjective(Paths)
ASSUME MixedCaseAssumption == MixedCase \subseteq Files

\* What the configuration says of an executable's checksum, and whether it is the
\* one of the executable that is there.
Entries == {"absent", "undecodable", "right", "wrong"}

Config == [pluginDir : BOOLEAN, secureLoader : BOOLEAN, section : BOOLEAN,
           entry : [Listed -> Entries]]

VARIABLES
    cfg,           \* the configuration
    stage,         \* where main is
    pluginChecksum,\* GoPluginLoader.pluginChecksum, by executable
    next,          \* the path that discovery has come to
    running,       \* executables whose process runs
    hung,          \* the process being identified will never answer
    loadedByName,  \* GoPluginLoader.loadedByName: executables by plugin name
    skipped        \* paths that discovery has passed over

vars == <<cfg, stage, pluginChecksum, next, running, hung, loadedByName, skipped>>

Stages == {"created", "ready", "discovering", "started", "dispensed", "serving",
           "closed", "exited"}

-----------------------------------------------------------------------------
(* main *)

\* log.Fatalf, or a panic: no deferred call and no Close.
Exit == stage' = "exited"

\* secure-loader is set, and there is no "plugins" section or an entry of it is not
\* a hexadecimal string.
SetChecksumFails ==
    /\ stage = "created"
    /\ cfg.secureLoader
    /\ ~cfg.section \/ \E f \in Listed : cfg.entry[f] = "undecodable"
    /\ Exit
    /\ UNCHANGED <<cfg, pluginChecksum, next, running, hung, loadedByName, skipped>>

Configured == IF cfg.secureLoader THEN {f \in Listed : cfg.entry[f] # "absent"} ELSE {}

\* Mutated form: an entry is taken as it is.
SetChecksumUndecoded ==
    /\ stage = "created"
    /\ cfg.secureLoader => cfg.section
    /\ pluginChecksum' = [f \in Listed |-> IF f \in Configured THEN {cfg.entry[f]} ELSE {}]
    /\ stage' = "ready"
    /\ UNCHANGED <<cfg, next, running, hung, loadedByName, skipped>>

SetChecksum ==
    /\ stage = "created"
    /\ cfg.secureLoader =>
         cfg.section /\ \A f \in Listed : cfg.entry[f] # "undecodable"
    /\ pluginChecksum' = [f \in Listed |-> IF f \in Configured THEN {cfg.entry[f]} ELSE {}]
    /\ stage' = "ready"
    /\ UNCHANGED <<cfg, next, running, hung, loadedByName, skipped>>

\* RegisterGoPluginUsing, and the start of DiscoverGoPluginUsing.
BeginDiscovery ==
    /\ stage = "ready"
    /\ stage' = IF cfg.pluginDir THEN "discovering" ELSE "exited"
    /\ UNCHANGED <<cfg, pluginChecksum, next, running, hung, loadedByName, skipped>>

DiscoveryEnds ==
    /\ stage = "discovering"
    /\ next > Len(Paths)
    /\ stage' = "serving"
    /\ UNCHANGED <<cfg, pluginChecksum, next, running, hung, loadedByName, skipped>>

\* ListenAndServe returns: log.Fatal.
StopServing ==
    /\ stage = "serving"
    /\ Exit
    /\ UNCHANGED <<cfg, pluginChecksum, next, running, hung, loadedByName, skipped>>

-----------------------------------------------------------------------------
(* createPluginContext, for the path that discovery has come to *)

Path == Paths[next]
Launches == stage = "discovering" /\ next <= Len(Paths)

\* Checksums are asked for when there is one at all.
Secure == \E f \in Listed : pluginChecksum[f] # {}

\* viper gives its keys in lower case: the entry of a file whose name has an
\* upper-case letter is there and is never found.
ChecksumOf(f) == IF f \in MixedCase THEN {} ELSE pluginChecksum[f]

NoChecksum ==
    /\ Launches
    /\ Secure
    /\ ChecksumOf(Path) = {}
    /\ Exit
    /\ UNCHANGED <<cfg, pluginChecksum, next, running, hung, loadedByName, skipped>>

\* Client fails: the checksum is wrong, or the executable does not run or is no
\* plugin.  What was started is killed.
ClientFails ==
    /\ Launches
    /\ Secure => ChecksumOf(Path) # {}
    /\ Exit
    /\ UNCHANGED <<cfg, pluginChecksum, next, running, hung, loadedByName, skipped>>

\* Mutated form: an executable that has no checksum is started without one.
ClientUnlessWrong ==
    /\ Launches
    /\ Secure => ChecksumOf(Path) # {"wrong"}
    /\ running' = running \cup {Path}
    /\ stage' = "started"
    /\ UNCHANGED <<cfg, pluginChecksum, next, hung, loadedByName, skipped>>

Client ==
    /\ Launches
    /\ Secure => ChecksumOf(Path) = {"right"}
    /\ running' = running \cup {Path}
    /\ stage' = "started"
    /\ UNCHANGED <<cfg, pluginChecksum, next, hung, loadedByName, skipped>>

Kill(f) == running' = running \ {f}

\* Mutated form: the plugin that does not know the plugin type is not killed.
SkipUnknownAlive ==
    /\ stage = "started"
    /\ stage' = "discovering"
    /\ next' = next + 1
    /\ skipped' = skipped \cup {Path}
    /\ UNCHANGED <<cfg, pluginChecksum, running, hung, loadedByName>>

\* Mutated form: discovery turns to the same path again.
RetryUnknown ==
    /\ stage = "started"
    /\ Kill(Path)
    /\ stage' = "discovering"
    /\ UNCHANGED <<cfg, pluginChecksum, next, hung, loadedByName, skipped>>

\* Dispense fails with "unknown plugin": discovery goes on without the plugin.
SkipUnknown ==
    /\ stage = "started"
    /\ Kill(Path)
    /\ stage' = "discovering"
    /\ next' = next + 1
    /\ skipped' = skipped \cup {Path}
    /\ UNCHANGED <<cfg, pluginChecksum, hung, loadedByName>>

\* Dispense fails otherwise, or gives no handle.
DispenseFails ==
    /\ stage = "started"
    /\ Kill(Path)
    /\ Exit
    /\ UNCHANGED <<cfg, pluginChecksum, next, hung, loadedByName, skipped>>

Dispense ==
    /\ stage = "started"
    /\ stage' = "dispensed"
    /\ UNCHANGED <<cfg, pluginChecksum, next, running, hung, loadedByName, skipped>>

\* Mutated form: a plugin that cannot be identified is left out.
SkipUnidentified ==
    /\ stage = "dispensed"
    /\ ~hung
    /\ stage' = "discovering"
    /\ next' = next + 1
    /\ UNCHANGED <<cfg, pluginChecksum, running, hung, loadedByName, skipped>>

\* GetSubAttesterID fails, or its reply lacks a Status and main panics.  The
\* process is not killed.
IdentifyFails ==
    /\ stage = "dispensed"
    /\ ~hung
    /\ Exit
    /\ UNCHANGED <<cfg, pluginChecksum, next, running, hung, loadedByName, skipped>>

Identified == stage = "dispensed" /\ ~hung /\ Path \in running

\* The name is taken.  Neither process is killed.
Duplicate ==
    /\ Identified
    /\ \E name \in Names : loadedByName[name] # {}
    /\ Exit
    /\ UNCHANGED <<cfg, pluginChecksum, next, running, hung, loadedByName, skipped>>

\* Mutated form: the last plugin of a name wins.
LoadOver ==
    /\ Identified
    /\ \E name \in Names : loadedByName' = [loadedByName EXCEPT ![name] = {Path}]
    /\ next' = next + 1
    /\ stage' = "discovering"
    /\ UNCHANGED <<cfg, pluginChecksum, running, hung, skipped>>

Load ==
    /\ Identified
    /\ \E name \in Names :
         /\ loadedByName[name] = {}
         /\ loadedByName' = [loadedByName EXCEPT ![name] = {Path}]
    /\ next' = next + 1
    /\ stage' = "discovering"
    /\ UNCHANGED <<cfg, pluginChecksum, running, hung, skipped>>

Loaded == {f \in Files : \E name \in Names : f \in loadedByName[name]}

\* GoPluginManager.Close.  The handles stay in the map; ratsd itself never calls it.
Close ==
    /\ stage = "serving"
    /\ running' = running \ Loaded
    /\ stage' = "closed"
    /\ UNCHANGED <<cfg, pluginChecksum, next, hung, loadedByName, skipped>>

-----------------------------------------------------------------------------
(* The plugin processes *)

\* A process dies; the call that waits for it fails.
Crash(f) ==
    /\ f \in running
    /\ running' = running \ {f}
    /\ hung' = (hung /\ f # Path)
    /\ UNCHANGED <<cfg, stage, pluginChecksum, next, loadedByName, skipped>>

\* GetSubAttesterID has no deadline and is never answered.
Hang ==
    /\ Identified
    /\ hung' = TRUE
    /\ UNCHANGED <<cfg, stage, pluginChecksum, next, running, loadedByName, skipped>>

-----------------------------------------------------------------------------

Init ==
    /\ cfg \in Config
    /\ stage = "created"
    /\ pluginChecksum = [f \in Listed |-> {}]
    /\ next = 1
    /\ running = {}
    /\ hung = FALSE
    /\ loadedByName = [name \in Names |-> {}]
    /\ skipped = {}

Start ==
    \/ SetChecksumFails
    \/ SetChecksum
    \/ BeginDiscovery
    \/ NoChecksum
    \/ ClientFails
    \/ Client
    \/ SkipUnknown
    \/ DispenseFails
    \/ Dispense
    \/ IdentifyFails
    \/ Duplicate
    \/ Load
    \/ DiscoveryEnds

Next ==
    \/ Start
    \/ StopServing
    \/ Close
    \/ Hang
    \/ \E f \in Files : Crash(f)

Spec == Init /\ [][Next]_vars

\* main goes on as long as no call it makes hangs.
FairSpec == Spec /\ WF_vars(Start)

-----------------------------------------------------------------------------
(* Properties *)

\* Types of the loader's state.
TypeOK ==
    /\ cfg \in Config
    /\ stage \in Stages
    /\ pluginChecksum \in [Listed -> SUBSET {"right", "wrong"}]
    /\ next \in 1..(Len(Paths) + 1)
    /\ stage \in {"started", "dispensed"} => next <= Len(Paths)
    /\ running \subseteq Files
    /\ hung \in BOOLEAN
    /\ loadedByName \in [Names -> SUBSET Files]
    /\ skipped \subseteq Files

\* When a checksum is configured, no process runs but of an executable that is
\* listed with the right one, from the first launch until long after ratsd exited.
OnlyVerifiedRun ==
    Secure => \A f \in running : pluginChecksum[f] = {"right"}

\* A process that runs while main goes through the directory is in the map, where
\* Close finds it, or is the one that is being identified.
RunningIsKnown ==
    stage \notin {"exited", "closed"} =>
        running \subseteq
            Loaded \cup (IF stage \in {"started", "dispensed"} THEN {Path} ELSE {})

\* Close leaves no plugin behind: neither one that was skipped, nor one whose name
\* another plugin also gave.
NothingRunsAfterClose == stage = "closed" => running = {}

\* ratsd serves the whole directory or does not serve: each executable is in the map
\* under exactly one name, or was skipped as unknown, and no name stands for two.
ServesWholeDirectory ==
    stage \in {"serving", "closed"} =>
        /\ Loaded = Files \ skipped
        /\ \A name \in Names : \A f, g \in loadedByName[name] : f = g
        /\ \A n1, n2 \in Names : loadedByName[n1] \cap loadedByName[n2] # {} => n1 = n2

\* A name, once it is in the map, stands for the same executable for good.
NamesAreNotReused ==
    [][\A name \in Names :
          loadedByName[name] # {} => loadedByName'[name] = loadedByName[name]]_vars

\* Start-up ends: ratsd serves, exits, or waits for ever for a plugin that does not
\* give its name.
StartupEnds == (stage = "created") ~> (stage \in {"serving", "closed", "exited"} \/ hung)

=============================================================================
