-------------------------- MODULE PluginLoaderProofs --------------------------
(***************************************************************************)
(* Theorems about plugin discovery, for every directory, configuration and *)
(* behaviour of the plugins.                                               *)
(***************************************************************************)
EXTENDS PluginLoader, TLAPS

\* The paths that discovery has been through.
Behind == {Paths[i] : i \in 1..(next - 1)}

\* Until the checksums are set nothing runs.
NothingRunsYet == stage = "created" => running = {}

\* What the map holds is what has been gone through and was not skipped.
LoadedIsBehind ==
    /\ skipped \subseteq Behind
    /\ Loaded = Behind \ skipped
    /\ stage \in {"serving", "closed"} => next = Len(Paths) + 1

OneFilePerName ==
    /\ \A name \in Names : \A f, g \in loadedByName[name] : f = g
    /\ \A n1, n2 \in Names : loadedByName[n1] \cap loadedByName[n2] # {} => n1 = n2

-----------------------------------------------------------------------------

LEMMA PathIsFile ==
    ASSUME TypeOK, next <= Len(Paths)
    PROVE  Path \in Files /\ Path \notin Behind
<1>1. Paths \in Seq(Files) /\ IsInjective(Paths) /\ next \in 1..Len(Paths)
    BY PathsAssumption DEF TypeOK
<1>2. Path \in Files
    BY <1>1 DEF Path
<1>3. Path \notin Behind
    BY <1>1 DEF Path, Behind, IsInjective
<1>4. QED
    BY <1>2, <1>3

LEMMA LenIsNat == Len(Paths) \in Nat
    BY PathsAssumption

LEMMA InitTypeOK == Init => TypeOK
<1> SUFFICES ASSUME Init PROVE TypeOK
    OBVIOUS
<1>1. /\ loadedByName \in [Names -> SUBSET Files]
      /\ pluginChecksum \in [Listed -> SUBSET {"right", "wrong"}]
    BY DEF Init
<1>2. next \in 1..(Len(Paths) + 1)
    BY LenIsNat DEF Init
<1>3. hung \in BOOLEAN
    BY Zenon DEF Init
<1>4. QED
    BY <1>1, <1>2, <1>3 DEF Init, TypeOK, Stages

LEMMA NextTypeOK == TypeOK /\ [Next]_vars => TypeOK'
<1> SUFFICES ASSUME TypeOK, [Next]_vars PROVE TypeOK'
    OBVIOUS
<1> USE LenIsNat DEF TypeOK, Stages
<1>1. CASE SetChecksumFails \/ NoChecksum \/ ClientFails \/ IdentifyFails \/ Duplicate
           \/ StopServing
    BY <1>1 DEF SetChecksumFails, NoChecksum, ClientFails, IdentifyFails, Duplicate,
                StopServing, Exit
<1>2. CASE SetChecksum
    BY <1>2 DEF SetChecksum, Configured, Config, Entries
<1>3. CASE BeginDiscovery \/ DiscoveryEnds \/ Dispense
    BY <1>3 DEF BeginDiscovery, DiscoveryEnds, Dispense
<1>4. CASE Client
    BY <1>4, PathIsFile DEF Client, Launches
<1>5. CASE SkipUnknown
    BY <1>5, PathIsFile DEF SkipUnknown, Kill
<1>6. CASE DispenseFails
    BY <1>6 DEF DispenseFails, Kill, Exit
<1>7. CASE Load
    BY <1>7, PathIsFile DEF Load, Identified
<1>8. CASE Close
    BY <1>8 DEF Close
<1>9. CASE Hang
    BY <1>9 DEF Hang
<1>10. ASSUME NEW f \in Files, Crash(f) PROVE TypeOK'
    BY <1>10 DEF Crash
<1>11. CASE UNCHANGED vars
    BY <1>11 DEF vars
<1>12. QED
    BY <1>1, <1>2, <1>3, <1>4, <1>5, <1>6, <1>7, <1>8, <1>9, <1>10, <1>11
       DEF Next, Start

\* The loader's state keeps its types.
THEOREM LoaderTypeCorrect == Spec => []TypeOK
    BY InitTypeOK, NextTypeOK, PTL DEF Spec

-----------------------------------------------------------------------------
(* What runs *)

LEMMA NextOnlyVerified ==
    TypeOK /\ NothingRunsYet /\ OnlyVerifiedRun /\ [Next]_vars
        => (NothingRunsYet /\ OnlyVerifiedRun)'
<1> SUFFICES ASSUME TypeOK, NothingRunsYet, OnlyVerifiedRun, [Next]_vars
             PROVE  (NothingRunsYet /\ OnlyVerifiedRun)'
    OBVIOUS
<1> USE DEF NothingRunsYet, OnlyVerifiedRun, Secure
<1>1. CASE SetChecksum
    BY <1>1 DEF SetChecksum
<1>2. CASE Client
    BY <1>2 DEF Client, ChecksumOf, Launches
<1>3. CASE UNCHANGED pluginChecksum /\ running' \subseteq running /\ stage' # "created"
    BY <1>3
<1>4. CASE UNCHANGED <<pluginChecksum, stage>> /\ running' \subseteq running
    BY <1>4
<1>5. \/ Client \/ SetChecksum
      \/ UNCHANGED pluginChecksum /\ running' \subseteq running /\ stage' # "created"
      \/ UNCHANGED <<pluginChecksum, stage>> /\ running' \subseteq running
    BY DEF Next, Start, vars, SetChecksumFails, NoChecksum, ClientFails, IdentifyFails,
           Duplicate, StopServing, Exit, BeginDiscovery, DiscoveryEnds, Dispense,
           SkipUnknown, DispenseFails, Kill, Load, Close, Hang, Crash
<1>6. QED
    BY <1>1, <1>2, <1>3, <1>4, <1>5

\* Where checksums are configured only executables that match theirs ever run.
THEOREM OnlyVerifiedPluginsRun == Spec => []OnlyVerifiedRun
<1>1. Init => NothingRunsYet /\ OnlyVerifiedRun
    BY DEF Init, NothingRunsYet, OnlyVerifiedRun
<1>2. QED
    BY <1>1, NextOnlyVerified, LoaderTypeCorrect, PTL DEF Spec

\* What is in the map was verified when it was launched, and no checksum changes then.
LoadedIsVerified ==
    /\ stage = "created" => \A name \in Names : loadedByName[name] = {}
    /\ Secure => \A name \in Names : \A f \in loadedByName[name] : pluginChecksum[f] = {"right"}

LEMMA NextLoadedIsVerified ==
    TypeOK /\ OnlyVerifiedRun /\ LoadedIsVerified /\ [Next]_vars => LoadedIsVerified'
<1> SUFFICES ASSUME TypeOK, OnlyVerifiedRun, LoadedIsVerified, [Next]_vars
             PROVE  LoadedIsVerified'
    OBVIOUS
<1> USE DEF LoadedIsVerified, Secure
<1>1. CASE SetChecksum
    BY <1>1 DEF SetChecksum
<1>2. CASE Load
    <2>1. PICK name \in Names : loadedByName' = [loadedByName EXCEPT ![name] = {Path}]
        BY <1>2 DEF Load
    <2>2. Secure => pluginChecksum[Path] = {"right"}
        BY <1>2 DEF Load, Identified, OnlyVerifiedRun
    <2>3. stage' # "created" /\ pluginChecksum' = pluginChecksum
        BY <1>2 DEF Load
    <2>4. QED
        BY <2>1, <2>2, <2>3 DEF TypeOK
<1>3. CASE UNCHANGED <<pluginChecksum, loadedByName>> /\ (stage' # "created" \/ stage' = stage)
    BY <1>3
<1>4. \/ SetChecksum \/ Load
      \/ UNCHANGED <<pluginChecksum, loadedByName>> /\ (stage' # "created" \/ stage' = stage)
    BY DEF Next, Start, vars, SetChecksumFails, NoChecksum, ClientFails, IdentifyFails,
           Duplicate, StopServing, Exit, BeginDiscovery, DiscoveryEnds, Dispense, Client,
           SkipUnknown, DispenseFails, Close, Hang, Crash
<1>5. QED
    BY <1>1, <1>2, <1>3, <1>4

-----------------------------------------------------------------------------
(* What is left running *)

LEMMA NextRunningIsKnown ==
    TypeOK /\ NothingRunsYet /\ RunningIsKnown /\ [Next]_vars => RunningIsKnown'
<1> SUFFICES ASSUME TypeOK, NothingRunsYet, RunningIsKnown, [Next]_vars PROVE RunningIsKnown'
    OBVIOUS
<1> USE DEF RunningIsKnown, Loaded, TypeOK
<1>1. CASE stage' = "exited"
    BY <1>1
<1>2. CASE SetChecksum \/ BeginDiscovery \/ DiscoveryEnds \/ Dispense
    BY <1>2 DEF SetChecksum, BeginDiscovery, DiscoveryEnds, Dispense, Path
<1>3. CASE Client
    BY <1>3 DEF Client, Launches, Path
<1>4. CASE SkipUnknown
    BY <1>4 DEF SkipUnknown, Kill
<1>5. CASE Load
    <2>1. PICK name \in Names :
             /\ loadedByName[name] = {}
             /\ loadedByName' = [loadedByName EXCEPT ![name] = {Path}]
        BY <1>5 DEF Load
    <2>2. QED
        BY <1>5, <2>1 DEF Load, Identified
<1>6. CASE Close
    BY <1>6 DEF Close
<1>7. CASE Hang
    BY <1>7 DEF Hang, Path
<1>8. ASSUME NEW f \in Files, Crash(f) PROVE RunningIsKnown'
    BY <1>8 DEF Crash, Path
<1>9. CASE UNCHANGED vars
    BY <1>9 DEF vars, Path
<1>10. QED
    BY <1>1, <1>2, <1>3, <1>4, <1>5, <1>6, <1>7, <1>8, <1>9
       DEF Next, Start, SetChecksumFails, NoChecksum, ClientFails, DispenseFails,
           IdentifyFails, Duplicate, StopServing, Exit

LEMMA NextNothingAfterClose ==
    TypeOK /\ RunningIsKnown /\ NothingRunsAfterClose /\ [Next]_vars => NothingRunsAfterClose'
<1> SUFFICES ASSUME TypeOK, RunningIsKnown, NothingRunsAfterClose, [Next]_vars,
                    stage' = "closed"
             PROVE  running' = {}
    BY DEF NothingRunsAfterClose
<1>1. CASE Close
    BY <1>1 DEF Close, RunningIsKnown
<1>2. CASE stage = "closed" /\ running' \subseteq running
    BY <1>2 DEF NothingRunsAfterClose
<1>3. Close \/ (stage = "closed" /\ running' \subseteq running)
    BY DEF Next, Start, vars, SetChecksumFails, SetChecksum, BeginDiscovery, DiscoveryEnds,
           StopServing, NoChecksum, ClientFails, Client, SkipUnknown, DispenseFails,
           Dispense, IdentifyFails, Duplicate, Load, Exit, Kill, Hang, Crash, Identified
<1>4. QED
    BY <1>1, <1>2, <1>3

\* A process that runs while main goes through the directory, or serves, is in the map
\* or is the one that is being identified.
THEOREM EveryProcessIsKnown == Spec => []RunningIsKnown
<1>1. Init => NothingRunsYet /\ OnlyVerifiedRun /\ RunningIsKnown
    BY DEF Init, NothingRunsYet, OnlyVerifiedRun, RunningIsKnown
<1>2. QED
    BY <1>1, NextOnlyVerified, NextRunningIsKnown, LoaderTypeCorrect, PTL DEF Spec

\* The plugins that run while ratsd serves are those in the map, so that Close stops
\* every process the loader ever started.
THEOREM CloseStopsEverything == Spec => []NothingRunsAfterClose
<1>1. Init => NothingRunsYet /\ OnlyVerifiedRun /\ RunningIsKnown /\ NothingRunsAfterClose
    BY DEF Init, NothingRunsYet, OnlyVerifiedRun, RunningIsKnown, NothingRunsAfterClose
<1>2. QED
    BY <1>1, NextOnlyVerified, NextRunningIsKnown, NextNothingAfterClose,
       LoaderTypeCorrect, PTL DEF Spec

-----------------------------------------------------------------------------
(* What is served *)

LEMMA InitLoadedIsBehind == Init => LoadedIsBehind /\ OneFilePerName
    BY DEF Init, LoadedIsBehind, OneFilePerName, Loaded, Behind

LEMMA LoadExtendsMap ==
    ASSUME TypeOK, LoadedIsBehind, OneFilePerName, Load
    PROVE  LoadedIsBehind' /\ OneFilePerName'
<1> USE DEF TypeOK, LoadedIsBehind
<1>1. Path \in Files /\ Path \notin Behind
    BY PathIsFile DEF Load, Identified
<1>2. Path \notin Loaded
    BY <1>1
<1>3. PICK name \in Names :
        /\ loadedByName[name] = {}
        /\ loadedByName' = [loadedByName EXCEPT ![name] = {Path}]
    BY DEF Load
<1>4. Loaded' = Loaded \cup {Path}
    BY <1>1, <1>3 DEF Loaded
<1>5. Behind' = Behind \cup {Path}
    BY DEF Behind, Path, Load
<1>6. LoadedIsBehind'
    BY <1>1, <1>4, <1>5 DEF Load
<1>7. \A other \in Names \ {name} : /\ loadedByName'[other] = loadedByName[other]
                                    /\ Path \notin loadedByName[other]
    BY <1>1, <1>2, <1>3 DEF Loaded
<1>8. loadedByName'[name] = {Path}
    BY <1>3
<1>9. OneFilePerName'
    BY <1>7, <1>8 DEF OneFilePerName
<1>10. QED
    BY <1>6, <1>9

LEMMA NextLoadedIsBehind ==
    TypeOK /\ LoadedIsBehind /\ OneFilePerName /\ [Next]_vars => (LoadedIsBehind /\ OneFilePerName)'
<1> SUFFICES ASSUME TypeOK, LoadedIsBehind, OneFilePerName, [Next]_vars
             PROVE  LoadedIsBehind' /\ OneFilePerName'
    OBVIOUS
<1>1. CASE Load
    BY <1>1, LoadExtendsMap
<1>2. CASE SkipUnknown
    <2>1. Path \in Files /\ Path \notin Behind
        BY <1>2, PathIsFile DEF SkipUnknown, TypeOK
    <2>2. Behind' = Behind \cup {Path}
        BY <1>2 DEF Behind, Path, SkipUnknown, TypeOK
    <2>3. Loaded' = Loaded
        BY <1>2 DEF SkipUnknown, Loaded
    <2>4. QED
        BY <1>2, <2>1, <2>2, <2>3 DEF SkipUnknown, LoadedIsBehind, OneFilePerName
<1>3. CASE /\ UNCHANGED <<next, loadedByName, skipped>>
           /\ stage' \in {"serving", "closed"} => next = Len(Paths) + 1
    BY <1>3 DEF LoadedIsBehind, OneFilePerName, Loaded, Behind
<1>4. CASE DiscoveryEnds
    BY <1>3, <1>4, LenIsNat DEF DiscoveryEnds, TypeOK
<1>5. CASE BeginDiscovery \/ Close
    BY <1>3, <1>5 DEF BeginDiscovery, Close, LoadedIsBehind
<1>6. CASE SetChecksum \/ Client \/ Dispense
    BY <1>3, <1>6 DEF SetChecksum, Client, Dispense
<1>7. CASE SetChecksumFails \/ NoChecksum \/ ClientFails \/ DispenseFails \/ IdentifyFails
           \/ Duplicate \/ StopServing
    BY <1>3, <1>7 DEF SetChecksumFails, NoChecksum, ClientFails, DispenseFails,
                      IdentifyFails, Duplicate, StopServing, Exit
<1>8. CASE Hang \/ (\E f \in Files : Crash(f)) \/ UNCHANGED vars
    BY <1>3, <1>8 DEF Hang, Crash, vars, LoadedIsBehind
<1>9. QED
    BY <1>1, <1>2, <1>4, <1>5, <1>6, <1>7, <1>8 DEF Next, Start

LEMMA WholeDirectory == LoadedIsBehind /\ OneFilePerName => ServesWholeDirectory
<1> SUFFICES ASSUME LoadedIsBehind, OneFilePerName, stage \in {"serving", "closed"}
             PROVE  Loaded = Files \ skipped
    BY DEF ServesWholeDirectory, OneFilePerName
<1>1. Behind = Files
    BY PathsAssumption DEF LoadedIsBehind, Behind, Files, Range
<1>2. QED
    BY <1>1 DEF LoadedIsBehind

\* ratsd serves all of the directory, each executable under one name, or not at all.
THEOREM WholeDirectoryIsServed == Spec => []ServesWholeDirectory
    BY InitLoadedIsBehind, NextLoadedIsBehind, WholeDirectory, LoaderTypeCorrect, PTL DEF Spec

\* What a name stands for never changes once it is loaded.
THEOREM NamesKeepTheirPlugin == Spec => NamesAreNotReused
<1>1. TypeOK /\ [Next]_vars => [\A name \in Names :
          loadedByName[name] # {} => loadedByName'[name] = loadedByName[name]]_vars
    <2>1. Load \/ UNCHANGED loadedByName \/ ~[Next]_vars
        BY DEF Next, Start, vars, SetChecksumFails, SetChecksum, BeginDiscovery, DiscoveryEnds,
               StopServing, NoChecksum, ClientFails, Client, SkipUnknown, DispenseFails,
               Dispense, IdentifyFails, Duplicate, Close, Exit, Kill, Hang, Crash
    <2>2. Load /\ TypeOK => \A name \in Names :
             loadedByName[name] # {} => loadedByName'[name] = loadedByName[name]
        BY DEF Load, TypeOK
    <2>3. QED
        BY <2>1, <2>2
<1>2. QED
    BY <1>1, LoaderTypeCorrect, PTL DEF Spec, NamesAreNotReused

=============================================================================
