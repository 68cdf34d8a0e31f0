--------------------------- MODULE ServerLifecycle ---------------------------
(***************************************************************************)
(* The life of an objstrd server over a cluster (objstrd/src/bin/server.rs *)
(* with Catalog and CatalogPersistence of shardedobjstr): start-up loads   *)
(* the catalog file, strips it and rebuilds it, requests change shards and *)
(* catalog, periodic tasks flush the raw indexes and save the catalog, and *)
(* a signal drains the requests, stops the tasks and flushes once more.    *)
(* The process can die, and the machine lose power, at every step.         *)
(*                                                                         *)
(* Shards are raw or in memory.  The index of a raw shard is flushed at    *)
(* once (IndexFlush has the steps), and an object is written to all shards *)
(* that are open.                                                          *)
(***************************************************************************)
EXTENDS Integers, FiniteSets

CONSTANTS
    Objects,        \* object keys
    Clusters,       \* the clusters considered, sets of shard ids
    Volatile,       \* the mem shards among them
    NoCatalog,      \* there is no catalog file
    TornFile,       \* a file whose checksum does not match
    MaxStops,       \* bound on the restarts
    MaxFailures     \* bound on the failing writes

ASSUME LifeAssumption ==
    /\ \A D \in Clusters : IsFiniteSet(D)
    /\ \A D \in Clusters : \A file \in SUBSET (Objects \X D) : file # NoCatalog /\ file # TornFile

VARIABLES
    devices,    \* the shards of this cluster
    catPath,    \* whether a catalog file is configured; there is none by default
    stored,     \* the objects on each shard, as its memory has them
    flushed,    \* those on its device
    listed,     \* Catalog.inner: pairs of an object and a shard that has it
    unsaved,    \* Catalog.dirty
    catFile,    \* the catalog file
    saver,      \* the save in progress: its step and what it has serialised
    opened,     \* the shards that could be opened
    phase,      \* where the server is in its life
    requests,   \* the requests being served
    outcome,    \* whether some stop was not clean, and what went wrong since the start
    stops, failures

lifeVars == <<devices, catPath, stored, flushed, listed, unsaved, catFile, saver, opened,
              phase, requests, outcome, stops, failures>>

NoSave == [step |-> "idle", map |-> {}]
Truth == {x \in Objects \X opened : x[1] \in stored[x[2]]}

\* How a run of the server can be spoiled: a timeout of the shutdown, a final
\* flush or save that failed, a change between a save's snapshot and its end.
Smooth == [late |-> FALSE, failed |-> FALSE, overlap |-> FALSE]

LifeInit ==
    /\ devices \in Clusters /\ catPath \in BOOLEAN
    /\ stored = [s \in devices |-> {}]
    /\ flushed = [s \in devices |-> {}]
    /\ listed = {} /\ unsaved = FALSE
    /\ catFile = NoCatalog
    /\ saver = NoSave
    /\ opened = {}
    /\ phase = "down"
    /\ requests = {}
    /\ outcome = [spoiled |-> FALSE, now |-> Smooth]
    /\ stops = 0 /\ failures = 0

----------------------------------------------------------------------------
(* Start-up.                                                               *)

\* new_with_offline: some shards cannot be opened.  A mem shard starts empty.
StartUp ==
    /\ phase = "down"
    /\ opened' \in (SUBSET devices) \ {{}}
    /\ stored' = [s \in devices |-> IF s \in Volatile THEN {} ELSE flushed[s]]
    /\ listed' = {} /\ unsaved' = FALSE
    /\ phase' = "load"
    /\ outcome' = [outcome EXCEPT !.now = Smooth]
    /\ UNCHANGED <<devices, catPath, flushed, catFile, saver, requests, stops, failures>>

\* A missing file and one that fails its checksum leave the catalog empty.
Loaded(file) == IF file \in {NoCatalog, TornFile} THEN {} ELSE file

\* load_catalog, where a file is configured: an error is logged and start-up
\* goes on.
LoadCatalog ==
    /\ phase = "load"
    /\ listed' = IF catPath THEN Loaded(catFile) ELSE listed
    /\ unsaved' = FALSE
    /\ phase' = "strip"
    /\ UNCHANGED <<devices, catPath, stored, flushed, catFile, saver, opened, requests,
                   outcome, stops, failures>>

\* remove_all_for_shard of shards that are away and of mem shards, on what the
\* file has brought.
StripCatalog ==
    /\ phase = "strip"
    /\ listed' = {x \in listed : x[2] \in opened \ Volatile}
    /\ unsaved' = (unsaved \/ listed' # listed)
    /\ phase' = "rebuild"
    /\ UNCHANGED <<devices, catPath, stored, flushed, catFile, saver, opened, requests,
                   outcome, stops, failures>>

\* Mutant of RebuildAtStart: a catalog that came from its file is trusted.
RebuildIfEmpty == Cardinality(devices) > 1 /\ listed = {}

\* rebuild_catalog, in a cluster of several shards.  It clears the dirty flag:
\* the file is left as it was.
RebuildAtStart == Cardinality(devices) > 1

StartServing ==
    /\ phase = "rebuild"
    /\ IF RebuildAtStart THEN listed' = Truth /\ unsaved' = FALSE ELSE UNCHANGED <<listed, unsaved>>
    /\ phase' = "up"
    /\ UNCHANGED <<devices, catPath, stored, flushed, catFile, saver, opened, requests,
                   outcome, stops, failures>>

----------------------------------------------------------------------------
(* Requests.  A put or delete changes the shards, then the catalog.        *)

BeginRequest(k, op) ==
    /\ phase = "up"
    /\ \A q \in requests : q.key # k
    /\ requests' = requests \cup {[key |-> k, op |-> op, step |-> "shards"]}
    /\ UNCHANGED <<devices, catPath, stored, flushed, listed, unsaved, catFile, saver,
                   opened, phase, outcome, stops, failures>>

ChangeShards(q) ==
    /\ q \in requests /\ q.step = "shards" /\ phase # "down"
    /\ stored' = [s \in devices |-> IF s \notin opened THEN stored[s]
                                    ELSE IF q.op = "put" THEN stored[s] \cup {q.key}
                                    ELSE stored[s] \ {q.key}]
    /\ requests' = (requests \ {q}) \cup {[q EXCEPT !.step = "catalog"]}
    /\ UNCHANGED <<devices, catPath, flushed, listed, unsaved, catFile, saver, opened,
                   phase, outcome, stops, failures>>

\* Catalog::put sets the dirty flag, remove when there was something to remove.
ChangeCatalog(q) ==
    /\ q \in requests /\ q.step = "catalog" /\ phase # "down"
    /\ listed' = {x \in listed : x[1] # q.key} \cup (IF q.op = "put" THEN {q.key} \X opened ELSE {})
    /\ unsaved' = (unsaved \/ q.op = "put" \/ listed' # listed)
    /\ requests' = requests \ {q}
    /\ outcome' = [outcome EXCEPT !.now.overlap = @ \/ saver.step # "idle"]
    /\ UNCHANGED <<devices, catPath, stored, flushed, catFile, saver, opened, phase,
                   stops, failures>>

----------------------------------------------------------------------------
(* The periodic tasks.                                                     *)

\* The tasks are spawned before the rebuild and cancelled after the drain.
Serving == phase \in {"rebuild", "up", "draining", "waiting"}

\* spawn_flush_task: needs_flush, then flush_index; a failure is logged.
FlushTask(s) ==
    /\ Serving /\ s \in opened \ Volatile /\ stored[s] # flushed[s]
    /\ flushed' = [flushed EXCEPT ![s] = stored[s]]
    /\ UNCHANGED <<devices, catPath, stored, listed, unsaved, catFile, saver, opened,
                   phase, requests, outcome, stops, failures>>

\* save_catalog: serialise and write the temporary file, rename it, clear the
\* flag whatever has been changed since.  A failure leaves the flag.
CatalogTask ==
    /\ Serving /\ saver.step = "idle" /\ unsaved /\ catPath
    /\ saver' = [step |-> "rename", map |-> listed]
    /\ UNCHANGED <<devices, catPath, stored, flushed, listed, unsaved, catFile, opened,
                   phase, requests, outcome, stops, failures>>

SaveRename ==
    /\ saver.step = "rename"
    /\ \/ catFile' = saver.map /\ saver' = [saver EXCEPT !.step = "clear"] /\ UNCHANGED <<outcome, failures>>
       \/ /\ failures < MaxFailures /\ failures' = failures + 1
          /\ saver' = NoSave
          /\ outcome' = [outcome EXCEPT !.now.failed = @ \/ phase = "saved"]
          /\ UNCHANGED catFile
    /\ UNCHANGED <<devices, catPath, stored, flushed, listed, unsaved, opened, phase,
                   requests, stops>>

SaveClear ==
    /\ saver.step = "clear"
    /\ unsaved' = FALSE
    /\ saver' = NoSave
    /\ UNCHANGED <<devices, catPath, stored, flushed, listed, catFile, opened, phase,
                   requests, outcome, stops, failures>>

----------------------------------------------------------------------------
(* Shutdown and reload.                                                    *)

\* Ctrl-C, SIGHUP or the reload request: no connection is accepted any more.
Signal ==
    /\ phase = "up" /\ stops < MaxStops
    /\ phase' = "draining"
    /\ UNCHANGED <<devices, catPath, stored, flushed, listed, unsaved, catFile, saver,
                   opened, requests, outcome, stops, failures>>

\* Mutant of Drained: the server does not wait for its requests.
DrainedAtOnce ==
    /\ phase = "draining"
    /\ phase' = "waiting"
    /\ UNCHANGED <<devices, catPath, stored, flushed, listed, unsaved, catFile, saver,
                   opened, requests, outcome, stops, failures>>

\* graceful.shutdown() has seen all connections end.
Drained ==
    /\ phase = "draining" /\ requests = {}
    /\ phase' = "waiting"
    /\ UNCHANGED <<devices, catPath, stored, flushed, listed, unsaved, catFile, saver,
                   opened, requests, outcome, stops, failures>>

\* Ten seconds are over: the requests go on beside the shutdown.
DrainTimeout ==
    /\ phase = "draining" /\ requests # {}
    /\ phase' = "waiting"
    /\ outcome' = [outcome EXCEPT !.now.late = TRUE]
    /\ UNCHANGED <<devices, catPath, stored, flushed, listed, unsaved, catFile, saver,
                   opened, requests, stops, failures>>

\* The timer tasks are cancelled; a save that runs is waited for.
TasksStopped ==
    /\ phase = "waiting" /\ saver.step = "idle"
    /\ phase' = "flushing"
    /\ UNCHANGED <<devices, catPath, stored, flushed, listed, unsaved, catFile, saver,
                   opened, requests, outcome, stops, failures>>

\* flush_index of every raw store that needs it.
FinalFlush ==
    /\ phase = "flushing"
    /\ \/ /\ flushed' = [s \in devices |-> IF s \in opened \ Volatile THEN stored[s] ELSE flushed[s]]
          /\ UNCHANGED <<outcome, failures>>
       \/ /\ failures < MaxFailures /\ failures' = failures + 1
          /\ outcome' = [outcome EXCEPT !.now.failed = TRUE]
          /\ UNCHANGED flushed
    /\ phase' = "saving"
    /\ UNCHANGED <<devices, catPath, stored, listed, unsaved, catFile, saver, opened,
                   requests, stops>>

\* save_catalog_if_dirty once more; with no file it only clears the flag.
FinalSave ==
    /\ phase = "saving"
    /\ phase' = "saved"
    /\ saver' = IF unsaved /\ catPath THEN [step |-> "rename", map |-> listed] ELSE saver
    /\ unsaved' = (unsaved /\ catPath)
    /\ UNCHANGED <<devices, catPath, stored, flushed, listed, catFile, opened,
                   requests, outcome, stops, failures>>

\* The process ends, or drops its stores and starts over.  Requests that have
\* outlived the drain end with it, or on a reload go on beside the next life
\* on stores that nobody flushes any more: what they still do is lost.
Exit ==
    /\ phase = "saved" /\ saver.step = "idle"
    /\ phase' = "down"
    /\ outcome' = [outcome EXCEPT !.spoiled = @ \/ outcome.now # Smooth]
    /\ requests' = {}
    /\ stops' = stops + 1
    /\ UNCHANGED <<devices, catPath, stored, flushed, listed, unsaved, catFile, saver,
                   opened, failures>>

\* The process is killed or power is lost: what was renamed has never been
\* synced and may be torn.
Perish ==
    /\ phase # "down" /\ stops < MaxStops
    /\ phase' = "down"
    /\ catFile' \in {catFile} \cup (IF catFile = NoCatalog THEN {} ELSE {TornFile})
    /\ saver' = NoSave
    /\ requests' = {}
    /\ outcome' = [outcome EXCEPT !.spoiled = TRUE]
    /\ stops' = stops + 1
    /\ UNCHANGED <<devices, catPath, stored, flushed, listed, unsaved, opened, failures>>

LifeNext ==
    \/ StartUp \/ LoadCatalog \/ StripCatalog \/ StartServing
    \/ \E k \in Objects, op \in {"put", "delete"} : BeginRequest(k, op)
    \/ \E q \in requests : ChangeShards(q) \/ ChangeCatalog(q)
    \/ \E s \in devices : FlushTask(s)
    \/ CatalogTask \/ SaveRename \/ SaveClear
    \/ Signal \/ Drained \/ DrainTimeout \/ TasksStopped \/ FinalFlush \/ FinalSave \/ Exit
    \/ Perish

LifeSpec == LifeInit /\ [][LifeNext]_lifeVars

----------------------------------------------------------------------------
\* A shutdown that ran its course (server.rs:2030) loses nothing: no request
\* was cut off, no write failed, no change fell between the snapshot of a
\* save and its end.  What every shard holds is on its device, and the file, if
\* one is configured, loads as the catalog where start-up will not rebuild it.
ShutdownKeepsAll ==
    [][Exit /\ outcome.now = Smooth =>
          /\ \A s \in opened \ Volatile : flushed[s] = stored[s]
          /\ Cardinality(devices) = 1 /\ catPath => Loaded(catFile) = listed]_lifeVars

\* While no request is running the catalog names exactly the copies on the
\* open shards: in a cluster of several shards after every kind of stop and
\* whatever the file says, because start-up rebuilds it (server.rs:1007); in
\* a cluster of one shard, which does not rebuild, in its first life and, with
\* a catalog file, as long as all stops were clean.  One shard without a file,
\* the default, starts every other life with an empty catalog: what it then
\* names is there, and what was there before is missing.
CatalogTruthful ==
    phase = "up" /\ requests = {} =>
        /\ (Cardinality(devices) > 1 \/ stops = 0 \/ (catPath /\ ~outcome.spoiled)) => listed = Truth
        /\ ~catPath => listed \subseteq Truth

\* CLI.md:178: "Regardless of whether a catalog file is configured, the daemon
\* rebuilds the catalog from all healthy shards at startup (before serving
\* traffic).  This ensures the catalog reflects the actual shard contents".
\* start-up skips the rebuild for a cluster of one shard (server.rs:1007).
CatalogRebuilt == phase = "up" /\ requests = {} => listed = Truth
=============================================================================
