------------------------------ MODULE PluginHost ------------------------------
(***************************************************************************)
(* Which plugins the engine knows: PluginManager::loadPlugins reads the    *)
(* files of a directory, one after the other, into a table for each kind   *)
(* of plugin, and the CapabilityRegistry keeps, beside the list of         *)
(* plugins, indexes from capabilities to plugins.                          *)
(*                                                                         *)
(* A file is what it holds (the kind of interface found first in it and    *)
(* the id the plugin gives itself) and what its manifest declares.         *)
(* `compatible` stands for the range of versions of EonTest and the        *)
(* dependencies in the manifest.                                           *)
(***************************************************************************)
EXTENDS Integers, Sequences, SequencesExt, FiniteSets

CONSTANTS PluginIds,
          PluginDirectories, \* sequences of files
          Capabilities,
          Undeclared,        \* an empty field of a manifest
          MaxPluginLoads, MaxRegistered  \* bounds: how often is loaded and registered

ASSUME HostAssumption ==
  /\ {MaxPluginLoads, MaxRegistered} \subseteq Nat /\ Undeclared \notin PluginIds
  /\ \A files \in PluginDirectories : files \in Seq(ToSet(files))

PluginKinds == {"step", "analyzer", "reporter", "dut"}

VARIABLES loaded,     \* plugins_: the files kept, in order
          byId,       \* the table of each kind: the id of a plugin and the place of its file
          loadCount,  \* history: how often was loaded
          directory,  \* history: the directory loaded last
          registered, \* CapabilityRegistry::plugins_
          index,      \* capabilityIndex_
          repeated,   \* history: ids registered again
          times       \* history: how often was registered

loadVars == <<loaded, byId, loadCount, directory>>
registryVars == <<registered, index, repeated, times>>
hostVars == <<loadVars, registryVars>>

HostInit ==
  /\ loaded = <<>> /\ byId = [kind \in PluginKinds |-> {}] /\ loadCount = 0 /\ directory = <<>>
  /\ registered = {} /\ index = [c \in Capabilities |-> <<>>] /\ repeated = {} /\ times = 0

-------------------------------------------------------------------------------
(***************************************************************************)
(* PluginManager.                                                          *)
(***************************************************************************)

\* checkManifestCompatibility: a version need not be declared here.
ManifestFits(file) == file.version \in {Undeclared, "1.0"} /\ file.compatible

\* A mutant: what is not declared as it is found stays in its table.
MutantDeclaredAs(file) == TRUE

\* The manifest declares what was found in the file, or no id.
DeclaredAs(file) ==
  /\ file.declaredKind = file.kind /\ file.version = "1.0"
  /\ file.declaredId \in {Undeclared, file.id}

\* One file: a plugin whose id is taken is passed over, and one that is not declared as
\* it is found is taken out of its table again.
ReadFile(host, place, file) ==
  IF \/ ~ManifestFits(file) \/ file.kind \notin PluginKinds
     \/ \E p \in host.byId[file.kind] : p.id = file.id
  THEN host
  ELSE LET inserted == host.byId[file.kind] \cup {[id |-> file.id, place |-> place]} IN
    IF DeclaredAs(file)
    THEN [byId |-> [host.byId EXCEPT ![file.kind] = inserted], loaded |-> Append(host.loaded, place)]
    ELSE [host EXCEPT !.byId[file.kind] = {p \in inserted : p.id # file.id}]

\* The files are read one after the other, into empty tables.
ReadFiles(files) ==
  LET host[n \in 0..Len(files)] ==
        IF n = 0 THEN [byId |-> [kind \in PluginKinds |-> {}], loaded |-> <<>>]
        ELSE ReadFile(host[n - 1], n, files[n])
  IN host[Len(files)]

\* loadPlugins: without the directory the tables are empty.
LoadPlugins(files) ==
  /\ loadCount < MaxPluginLoads
  /\ byId' = ReadFiles(files).byId /\ loaded' = ReadFiles(files).loaded
  /\ directory' = files /\ loadCount' = loadCount + 1
  /\ UNCHANGED registryVars

-------------------------------------------------------------------------------
(***************************************************************************)
(* CapabilityRegistry.                                                     *)
(***************************************************************************)

\* registerPlugin, with capabilities that differ: the record of the id is replaced, and
\* the id is appended to the index.
RegisterPlugin(id, capabilities) ==
  /\ times < MaxRegistered
  /\ registered' = {p \in registered : p.id # id} \cup {[id |-> id, capabilities |-> capabilities]}
  /\ index' = [c \in Capabilities |-> IF c \in capabilities THEN Append(index[c], id) ELSE index[c]]
  /\ repeated' = IF \E p \in registered : p.id = id THEN repeated \cup {id} ELSE repeated
  /\ times' = times + 1
  /\ UNCHANGED loadVars

\* clear
ClearRegistry ==
  /\ registered' = {} /\ index' = [c \in Capabilities |-> <<>>] /\ repeated' = {}
  /\ UNCHANGED <<times, loadVars>>

RegistryNext ==
  \/ \E id \in PluginIds, capabilities \in SUBSET Capabilities : RegisterPlugin(id, capabilities)
  \/ ClearRegistry

LoadNext == \E files \in PluginDirectories : LoadPlugins(files)

HostSpec == HostInit /\ [][LoadNext \/ RegistryNext]_hostVars

-------------------------------------------------------------------------------

\* After every load, of this directory or of another before, a table knows exactly the
\* ids of the files whose manifest fits and declares what is in them, each at the first
\* such file (PluginManager.cpp:50-103): a file that is refused neither hides a later one
\* of its id nor takes an earlier one out.
TablesExact ==
  \A kind \in PluginKinds :
    LET good == {i \in DOMAIN directory :
                   /\ directory[i].kind = kind /\ directory[i].declaredKind = kind
                   /\ directory[i].version = "1.0" /\ directory[i].compatible
                   /\ directory[i].declaredId \in {Undeclared, directory[i].id}}
    IN byId[kind] = {[id |-> directory[i].id, place |-> i] :
                       i \in {j \in good : \A k \in good : directory[k].id = directory[j].id => j <= k}}

\* Every plugin of a table has its loader in the list, and nothing else has one.
LoadersKept ==
  /\ \A i, j \in DOMAIN loaded : loaded[i] = loaded[j] => i = j
  /\ ToSet(loaded) = {p.place : p \in UNION {byId[kind] : kind \in PluginKinds}}

\* The index finds every plugin that has a capability, and none that was never
\* registered; of plugins registered once it finds exactly those, once each
\* (CapabilityRegistry.cpp:19-29).  A plugin registered again may be found for what it
\* could do before, and more than once.
IndexFollows ==
  \A c \in Capabilities :
    LET able == {p.id : p \in {q \in registered : c \in q.capabilities}} IN
      /\ able \subseteq ToSet(index[c])
      /\ ToSet(index[c]) \subseteq {p.id : p \in registered}
      /\ ToSet(index[c]) \subseteq able \cup repeated
      /\ \A i, j \in DOMAIN index[c] :
           index[c][i] = index[c][j] /\ index[c][i] \notin repeated => i = j

HostSound == TablesExact /\ LoadersKept /\ IndexFollows
===============================================================================
