--------------------------- MODULE GatewayProofs ---------------------------
(***************************************************************************)
(* Proofs about objstrd and the event stream, for any number of clients,   *)
(* objects, uploads, shards and replicas.  One section per module, each    *)
(* with its inductive invariant, a lemma per step and its results:         *)
(*   ServerLifecycle  CatalogIsTruthful, CleanShutdown                     *)
(*   S3Uploads        PartFilesAccounted, CompleteIsExact                  *)
(*   S3Objects        EtagsMatch, StatsExact, AnswersAreExact              *)
(*   S3Listing        WalksAreExact                                        *)
(*   EventStream      ReplicasFollow                                       *)
(*   MetadataTlv      DecodingInverts                                      *)
(***************************************************************************)
EXTENDS ServerLifecycle, S3Uploads, S3Objects, S3Listing, EventStream, MetadataTlv,
        InductionLemmas, FiniteSetTheorems, SequenceTheorems, TLAPS

-----------------------------------------------------------------------------
(* The life cycle of a server and its catalog file.                        *)

\* The put and delete requests that a server can have in hand.
Requests == [key : Objects, op : {"put", "delete"}, step : {"shards", "catalog"}]
\* What a catalog, in memory or in its file, can hold.
Catalogs == SUBSET (Objects \X devices)
\* What can have gone wrong in one run of the server.
Faults == [late : BOOLEAN, failed : BOOLEAN, overlap : BOOLEAN]

\* The types.
LifeTypes ==
    /\ devices \in Clusters /\ catPath \in BOOLEAN /\ stops \in Nat
    /\ stored \in [devices -> SUBSET Objects]
    /\ flushed \in [devices -> SUBSET Objects]
    /\ listed \in Catalogs
    /\ unsaved \in BOOLEAN
    /\ catFile \in {NoCatalog, TornFile} \cup Catalogs
    /\ saver \in [step : {"idle", "rename", "clear"}, map : Catalogs]
    /\ opened \subseteq devices
    /\ phase \in {"down", "load", "strip", "rebuild", "up", "draining", "waiting",
                  "flushing", "saving", "saved"}
    /\ requests \subseteq Requests
    /\ outcome \in [spoiled : BOOLEAN, now : Faults]

\* The phases before requests are served, and those after.
Starting == {"down", "load", "strip"}
Stopping == {"waiting", "flushing", "saving", "saved"}

\* What each phase of main() excludes: no request before the catalog is
\* ready, no background save during start-up and final flush, none left in
\* hand once the drain was in time; and no two requests for one object.
Phases ==
    /\ phase # "down" => opened # {}
    /\ phase \in Starting \cup {"rebuild"} => requests = {}
    /\ phase \in Starting \cup {"flushing", "saving"} => saver.step = "idle"
    /\ phase \in Stopping /\ ~ outcome.now.late => requests = {}
    /\ phase \in {"load", "strip", "rebuild", "up"} => ~ outcome.now.late
    /\ \A q, r \in requests : q.key = r.key => q = r

\* Only a cluster of one shard trusts its catalog file: with more, start-up
\* rebuilds the catalog from the shards.
Single == Cardinality(devices) <= 1

\* Where the catalog must be what the shards hold.
Trusted == ~ Single \/ stops = 0 \/ (catPath /\ ~ outcome.spoiled)

\* Unless saves overlapped, the file of a catalog without unsaved changes,
\* and one whose save is at its last step, holds the catalog.
FileCurrent ==
    Single /\ catPath =>
        /\ phase \notin {"down", "load"} /\ ~ outcome.now.overlap =>
              /\ saver.step # "idle" => saver.map = listed /\ unsaved
              /\ (saver.step = "idle" /\ ~ unsaved) \/ saver.step = "clear" => Loaded(catFile) = listed
        /\ phase = "saved" /\ outcome.now = Smooth /\ saver.step = "idle" => ~ unsaved

\* Without a path there is no file and no save.
FileAbsent == ~ catPath => catFile = NoCatalog /\ saver.step = "idle"

\* After the final flush without a fault every index is on its device.
IndexCurrent ==
    phase \in {"saving", "saved"} /\ ~ outcome.now.late /\ ~ outcome.now.failed =>
        \A s \in opened \ Volatile : flushed[s] = stored[s]

\* No request is between the shards and the catalog for object k.
Settled(k) == \A q \in requests : q.key = k => q.step # "catalog"

\* A request between the two has done to the shards what it asks for.
InHand ==
    \A q \in requests : q.step = "catalog" =>
        \A s \in opened : (q.key \in stored[s] <=> q.op = "put")

\* Where requests are served, an object is listed on a shard exactly when it
\* is stored there, unless its own request is between the two.
Tracked ==
    phase \notin Starting \cup {"rebuild"} /\ Trusted =>
        /\ listed \subseteq Objects \X opened
        /\ \A k \in Objects, s \in opened : Settled(k) => (<<k, s>> \in listed <=> k \in stored[s])

\* Without a file nothing is listed that is not there.
Sound ==
    phase # "down" /\ ~ catPath =>
        /\ phase \in {"load", "strip"} => listed = {}
        /\ listed \subseteq Objects \X opened
        /\ \A k \in Objects, s \in opened : Settled(k) /\ <<k, s>> \in listed => k \in stored[s]

\* What a restart will find on the devices.
OnDevice == {x \in Objects \X (devices \ Volatile) : x[1] \in flushed[x[2]]}

\* Across an unspoiled restart of one shard the file names what the device
\* has, and start-up carries that into the catalog.
Restarts ==
    Single /\ Trusted =>
        /\ phase \in {"down", "load"} => {x \in Loaded(catFile) : x[2] \notin Volatile} = OnDevice
        /\ phase = "strip" => {x \in listed : x[2] \notin Volatile} = OnDevice
        /\ phase \in {"load", "strip"} =>
              \A s \in devices : stored[s] = IF s \in Volatile THEN {} ELSE flushed[s]
        /\ phase = "rebuild" => listed = Truth

\* The inductive invariant of the life cycle.
LifeInv ==
    /\ LifeTypes /\ Phases /\ FileCurrent /\ FileAbsent /\ IndexCurrent
    /\ InHand /\ Tracked /\ Sound /\ Restarts

\* The two constants of the model have their types.
LEMMA SmoothTyped == Smooth \in Faults /\ NoSave.step = "idle" /\ NoSave.map = {}
  BY DEF Smooth, Faults, NoSave

\* A single shard is either open or not there at all.
LEMMA OneShardOpen ==
    ASSUME LifeTypes, Single, opened # {} PROVE opened = devices
  <1>1. IsFiniteSet(devices)
    BY LifeAssumption DEF LifeTypes
  <1>2. PICK d \in devices : d \in opened
    BY DEF LifeTypes
  <1>3. IsFiniteSet(devices \ {d}) /\ Cardinality(devices \ {d}) = Cardinality(devices) - 1
    BY <1>1, <1>2, FS_RemoveElement
  <1>4. Cardinality(devices) \in Nat /\ Cardinality(devices \ {d}) \in Nat
    BY <1>1, <1>3, FS_CardinalityType
  <1>5. Cardinality(devices \ {d}) = 0
    BY <1>3, <1>4 DEF Single
  <1>6. devices \ {d} = {}
    BY <1>3, <1>5, FS_EmptySet
  <1> QED
    BY <1>2, <1>6 DEF LifeTypes

\* Catalog::load gives a catalog, and the one that was saved.
LEMMA LoadedTyped ==
    ASSUME LifeTypes
    PROVE  Loaded(catFile) \in Catalogs /\ \A m \in Catalogs : Loaded(m) = m
  BY LifeAssumption DEF LifeTypes, Loaded, Catalogs

\* A fresh server satisfies the invariant.
LEMMA LifeStart == LifeInit => LifeInv
  <1> SUFFICES ASSUME LifeInit PROVE LifeInv
    OBVIOUS
  <1>1. LifeTypes
    BY SmoothTyped DEF LifeInit, LifeTypes, Catalogs, NoSave
  <1>2. Phases /\ FileCurrent /\ FileAbsent /\ IndexCurrent /\ InHand /\ Tracked /\ Sound
    BY DEF LifeInit, Phases, FileCurrent, FileAbsent, IndexCurrent, InHand, Tracked, Sound, Starting,
           Stopping, NoSave
  <1>3. OnDevice = {} /\ Loaded(catFile) = {}
    BY DEF LifeInit, OnDevice, Loaded
  <1>4. Restarts
    BY <1>3 DEF LifeInit, Restarts
  <1> QED
    BY <1>1, <1>2, <1>4 DEF LifeInv

\* Recording a fault keeps the type of outcome.
LEMMA OutcomeTyped ==
    ASSUME LifeTypes, NEW b \in BOOLEAN
    PROVE  /\ [outcome EXCEPT !.now.overlap = b] \in [spoiled : BOOLEAN, now : Faults]
           /\ [outcome EXCEPT !.now.failed = b] \in [spoiled : BOOLEAN, now : Faults]
           /\ [outcome EXCEPT !.spoiled = b] \in [spoiled : BOOLEAN, now : Faults]
  BY DEF LifeTypes, Faults

\* Each step keeps the types.
LEMMA LifeTypesStep == LifeTypes /\ [LifeNext]_lifeVars => LifeTypes'
  <1> SUFFICES ASSUME LifeTypes, [LifeNext]_lifeVars PROVE LifeTypes'
    OBVIOUS
  <1>1. CASE StartUp
    <2>1. outcome' \in [spoiled : BOOLEAN, now : Faults]
      BY <1>1, SmoothTyped DEF StartUp, LifeTypes
    <2> QED
      BY <1>1, <2>1 DEF StartUp, LifeTypes, Catalogs
  <1>2. CASE LoadCatalog
    BY <1>2, LoadedTyped DEF LoadCatalog, LifeTypes, Catalogs
  <1>3. CASE StripCatalog
    <2>1. listed' \in Catalogs
      BY <1>3 DEF StripCatalog, LifeTypes, Catalogs
    <2>2. unsaved' \in BOOLEAN
      BY <1>3 DEF StripCatalog
    <2> QED
      BY <1>3, <2>1, <2>2 DEF StripCatalog, LifeTypes, Catalogs
  <1>4. CASE StartServing
    <2>1. Truth \in Catalogs
      BY DEF Truth, Catalogs, LifeTypes
    <2>2. listed' \in Catalogs /\ unsaved' \in BOOLEAN
      BY <1>4, <2>1 DEF StartServing, LifeTypes
    <2> QED
      BY <1>4, <2>2 DEF StartServing, LifeTypes, Catalogs
  <1>5. ASSUME NEW k \in Objects, NEW op \in {"put", "delete"}, BeginRequest(k, op) PROVE LifeTypes'
    <2>1. [key |-> k, op |-> op, step |-> "shards"] \in Requests
      BY DEF Requests
    <2> QED
      BY <1>5, <2>1 DEF BeginRequest, LifeTypes, Catalogs
  <1>6. ASSUME NEW q \in requests, ChangeShards(q) PROVE LifeTypes'
    <2>1. [q EXCEPT !.step = "catalog"] \in Requests /\ q.key \in Objects
      BY DEF Requests, LifeTypes
    <2>2. stored' \in [devices -> SUBSET Objects]
      BY <1>6, <2>1 DEF ChangeShards, LifeTypes
    <2> QED
      BY <1>6, <2>1, <2>2 DEF ChangeShards, LifeTypes, Catalogs
  <1>7. ASSUME NEW q \in requests, ChangeCatalog(q) PROVE LifeTypes'
    <2>1. outcome' \in [spoiled : BOOLEAN, now : Faults]
      <3> DEFINE b == outcome.now.overlap \/ saver.step # "idle"
      <3>1. b \in BOOLEAN
        OBVIOUS
      <3>2. outcome' = [outcome EXCEPT !.now.overlap = b]
        BY <1>7 DEF ChangeCatalog
      <3> HIDE DEF b
      <3> QED
        BY <3>1, <3>2, OutcomeTyped
    <2>2. q.key \in Objects
      BY DEF Requests, LifeTypes
    <2>3. listed' \in Catalogs
      BY <1>7, <2>2 DEF ChangeCatalog, LifeTypes, Catalogs
    <2> QED
      BY <1>7, <2>1, <2>3 DEF ChangeCatalog, LifeTypes, Catalogs
  <1>8. ASSUME NEW s \in devices, FlushTask(s) PROVE LifeTypes'
    BY <1>8 DEF FlushTask, LifeTypes, Catalogs
  <1>9. CASE CatalogTask
    BY <1>9 DEF CatalogTask, LifeTypes, Catalogs
  <1>10. CASE SaveRename
    <2>1. outcome' \in [spoiled : BOOLEAN, now : Faults]
      <3> DEFINE b == outcome.now.failed \/ phase = "saved"
      <3>1. b \in BOOLEAN
        OBVIOUS
      <3>2. outcome' = outcome \/ outcome' = [outcome EXCEPT !.now.failed = b]
        BY <1>10 DEF SaveRename
      <3> HIDE DEF b
      <3> QED
        BY <3>1, <3>2, OutcomeTyped DEF LifeTypes
    <2>2. saver' \in [step : {"idle", "rename", "clear"}, map : Catalogs]
      BY <1>10 DEF SaveRename, LifeTypes, NoSave, Catalogs
    <2> QED
      BY <1>10, <2>1, <2>2 DEF SaveRename, LifeTypes, Catalogs
  <1>11. CASE SaveClear
    BY <1>11 DEF SaveClear, LifeTypes, Catalogs, NoSave
  <1>12. CASE Signal
    BY <1>12 DEF Signal, LifeTypes, Catalogs
  <1>13. CASE Drained
    BY <1>13 DEF Drained, LifeTypes, Catalogs
  <1>14. CASE DrainTimeout
    <2>1. outcome' \in [spoiled : BOOLEAN, now : Faults]
      BY <1>14 DEF DrainTimeout, LifeTypes, Faults
    <2> QED
      BY <1>14, <2>1 DEF DrainTimeout, LifeTypes, Catalogs
  <1>15. CASE TasksStopped
    BY <1>15 DEF TasksStopped, LifeTypes, Catalogs
  <1>16. CASE FinalFlush
    <2>1. outcome' \in [spoiled : BOOLEAN, now : Faults]
      BY <1>16, OutcomeTyped DEF FinalFlush, LifeTypes
    <2>2. flushed' \in [devices -> SUBSET Objects]
      BY <1>16 DEF FinalFlush, LifeTypes
    <2> QED
      BY <1>16, <2>1, <2>2 DEF FinalFlush, LifeTypes, Catalogs
  <1>17. CASE FinalSave
    BY <1>17 DEF FinalSave, LifeTypes, Catalogs
  <1>18. CASE Exit
    <2>1. outcome' \in [spoiled : BOOLEAN, now : Faults]
      BY <1>18 DEF Exit, LifeTypes, Faults
    <2> QED
      BY <1>18, <2>1 DEF Exit, LifeTypes, Catalogs
  <1>19. CASE Perish
    <2>1. outcome' \in [spoiled : BOOLEAN, now : Faults]
      BY <1>19 DEF Perish, LifeTypes, Faults
    <2> QED
      BY <1>19, <2>1 DEF Perish, LifeTypes, Catalogs, NoSave
  <1>20. CASE UNCHANGED lifeVars
    BY <1>20 DEF lifeVars, LifeTypes, Catalogs
  <1> QED
    BY <1>1, <1>2, <1>3, <1>4, <1>5, <1>6, <1>7, <1>8, <1>9, <1>10, <1>11, <1>12, <1>13,
       <1>14, <1>15, <1>16, <1>17, <1>18, <1>19, <1>20 DEF LifeNext

\* Each step keeps what the phases exclude.
LEMMA PhasesStep == LifeTypes /\ Phases /\ [LifeNext]_lifeVars => Phases'
  <1> SUFFICES ASSUME LifeTypes, Phases, [LifeNext]_lifeVars PROVE Phases'
    OBVIOUS
  <1> USE DEF Phases, Starting, Stopping
  <1>1. CASE StartUp
    <2>1. ~ outcome'.now.late
      <3>1. outcome'.now = Smooth
        BY <1>1 DEF StartUp, LifeTypes
      <3> QED
        BY <3>1 DEF Smooth
    <2>2. phase' = "load" /\ UNCHANGED <<requests, saver>> /\ phase = "down"
      BY <1>1 DEF StartUp
    <2>3. opened' # {}
      BY <1>1, Zenon DEF StartUp
    <2> QED
      BY <2>1, <2>2, <2>3
  <1>2. CASE LoadCatalog
    BY <1>2 DEF LoadCatalog
  <1>3. CASE StripCatalog
    BY <1>3 DEF StripCatalog
  <1>4. CASE StartServing
    BY <1>4 DEF StartServing
  <1>5. ASSUME NEW k \in Objects, NEW op \in {"put", "delete"}, BeginRequest(k, op) PROVE Phases'
    BY <1>5 DEF BeginRequest
  <1>6. ASSUME NEW q \in requests, ChangeShards(q) PROVE Phases'
    <2> DEFINE n == [q EXCEPT !.step = "catalog"]
    <2>1. n.key = q.key
      BY DEF LifeTypes, Requests
    <2>2. requests' = (requests \ {q}) \cup {n}
      BY <1>6 DEF ChangeShards
    <2>3. requests # {} /\ UNCHANGED <<phase, opened, saver, outcome>>
      BY <1>6 DEF ChangeShards
    <2> HIDE DEF n
    <2>4. \A r, t \in requests' : r.key = t.key => r = t
      BY <2>1, <2>2
    <2> QED
      BY <2>3, <2>4
  <1>7. ASSUME NEW q \in requests, ChangeCatalog(q) PROVE Phases'
    <2>1. outcome'.now.late = outcome.now.late
      BY <1>7 DEF ChangeCatalog, LifeTypes, Faults
    <2> QED
      BY <1>7, <2>1 DEF ChangeCatalog
  <1>8. ASSUME NEW s \in devices, FlushTask(s) PROVE Phases'
    BY <1>8 DEF FlushTask
  <1>9. CASE CatalogTask
    BY <1>9 DEF CatalogTask, Serving
  <1>10. CASE SaveRename
    <2>1. outcome'.now.late = outcome.now.late
      BY <1>10 DEF SaveRename, LifeTypes, Faults
    <2> QED
      BY <1>10, <2>1, SmoothTyped DEF SaveRename
  <1>11. CASE SaveClear
    BY <1>11 DEF SaveClear, NoSave
  <1>12. CASE Signal
    BY <1>12 DEF Signal
  <1>13. CASE Drained
    BY <1>13 DEF Drained
  <1>14. CASE DrainTimeout
    <2>1. outcome'.now.late = TRUE
      BY <1>14 DEF DrainTimeout, LifeTypes, Faults
    <2> QED
      BY <1>14, <2>1 DEF DrainTimeout
  <1>15. CASE TasksStopped
    BY <1>15 DEF TasksStopped
  <1>16. CASE FinalFlush
    <2>1. outcome'.now.late = outcome.now.late
      BY <1>16 DEF FinalFlush, LifeTypes, Faults
    <2> QED
      BY <1>16, <2>1 DEF FinalFlush
  <1>17. CASE FinalSave
    BY <1>17 DEF FinalSave
  <1>18. CASE Exit
    BY <1>18 DEF Exit
  <1>19. CASE Perish
    BY <1>19, SmoothTyped DEF Perish
  <1>20. CASE UNCHANGED lifeVars
    BY <1>20 DEF lifeVars
  <1> QED
    BY <1>1, <1>2, <1>3, <1>4, <1>5, <1>6, <1>7, <1>8, <1>9, <1>10, <1>11, <1>12, <1>13,
       <1>14, <1>15, <1>16, <1>17, <1>18, <1>19, <1>20 DEF LifeNext

\* Each step keeps the file current: the three steps of Catalog::save
\* against changes of the catalog and against each other.
LEMMA FileStep == LifeInv /\ [LifeNext]_lifeVars => FileCurrent'
  <1> SUFFICES ASSUME LifeInv, [LifeNext]_lifeVars, Single, catPath PROVE FileCurrent'
    BY DEF LifeNext, lifeVars, StartUp, LoadCatalog, StripCatalog, StartServing, BeginRequest,
           ChangeShards, ChangeCatalog, FlushTask, CatalogTask, SaveRename, SaveClear, Signal,
           Drained, DrainTimeout, TasksStopped, FinalFlush, FinalSave, Exit, Perish, FileCurrent, Single
  <1>t. LifeTypes /\ Phases /\ FileCurrent
    BY DEF LifeInv
  <1> USE <1>t DEF FileCurrent, Phases, Starting, Stopping
  <1>1. CASE StartUp
    BY <1>1 DEF StartUp
  <1>2. CASE LoadCatalog
    BY <1>2 DEF LoadCatalog
  <1>3. CASE StripCatalog
    BY <1>3 DEF StripCatalog
  <1>4. CASE StartServing
    <2>1. ~ RebuildAtStart
      <3>1. Cardinality(devices) \in Nat
        BY LifeAssumption, FS_CardinalityType DEF LifeTypes
      <3> QED
        BY <3>1 DEF RebuildAtStart, Single
    <2> QED
      BY <1>4, <2>1 DEF StartServing
  <1>5. ASSUME NEW k \in Objects, NEW op \in {"put", "delete"}, BeginRequest(k, op) PROVE FileCurrent'
    BY <1>5 DEF BeginRequest
  <1>6. ASSUME NEW q \in requests, ChangeShards(q) PROVE FileCurrent'
    BY <1>6 DEF ChangeShards
  <1>7. ASSUME NEW q \in requests, ChangeCatalog(q) PROVE FileCurrent'
    <2>1. outcome'.now.overlap = (outcome.now.overlap \/ saver.step # "idle")
      BY <1>7 DEF ChangeCatalog, LifeTypes, Faults
    <2>2. outcome'.now.late = outcome.now.late
      BY <1>7 DEF ChangeCatalog, LifeTypes, Faults
    <2>3. phase = "saved" => outcome.now.late
      BY <1>7 DEF ChangeCatalog
    <2>4. phase' = "saved" => outcome'.now # Smooth
      BY <1>7, <2>2, <2>3 DEF ChangeCatalog, Smooth
    <2>5. ~ unsaved' => listed' = listed /\ ~ unsaved
      BY <1>7 DEF ChangeCatalog
    <2> QED
      BY <1>7, <2>1, <2>4, <2>5 DEF ChangeCatalog
  <1>8. ASSUME NEW s \in devices, FlushTask(s) PROVE FileCurrent'
    BY <1>8 DEF FlushTask
  <1>9. CASE CatalogTask
    BY <1>9 DEF CatalogTask, Serving
  <1>10. CASE SaveRename
    <2>1. CASE /\ catFile' = saver.map /\ saver' = [saver EXCEPT !.step = "clear"]
               /\ UNCHANGED <<outcome, failures>>
      <3>1. saver'.step = "clear" /\ saver'.map = saver.map
        BY <2>1 DEF LifeTypes
      <3>2. Loaded(catFile') = saver.map
        BY <2>1, LoadedTyped DEF LifeTypes
      <3> QED
        BY <1>10, <2>1, <3>1, <3>2 DEF SaveRename
    <2>2. CASE /\ saver' = NoSave
               /\ outcome' = [outcome EXCEPT !.now.failed = @ \/ phase = "saved"]
               /\ UNCHANGED catFile
      <3>1. outcome'.now.overlap = outcome.now.overlap /\ (phase = "saved" => outcome'.now.failed = TRUE)
        BY <2>2 DEF LifeTypes, Faults
      <3>2. phase' = "saved" => outcome'.now # Smooth
        BY <1>10, <3>1 DEF SaveRename, Smooth
      <3> QED
        BY <1>10, <2>2, <3>1, <3>2, SmoothTyped DEF SaveRename
    <2> QED
      BY <1>10, <2>1, <2>2 DEF SaveRename
  <1>11. CASE SaveClear
    BY <1>11, SmoothTyped DEF SaveClear
  <1>12. CASE Signal
    BY <1>12 DEF Signal
  <1>13. CASE Drained
    BY <1>13 DEF Drained
  <1>14. CASE DrainTimeout
    <2>1. outcome'.now.overlap = outcome.now.overlap
      BY <1>14 DEF DrainTimeout, LifeTypes, Faults
    <2> QED
      BY <1>14, <2>1 DEF DrainTimeout
  <1>15. CASE TasksStopped
    BY <1>15 DEF TasksStopped
  <1>16. CASE FinalFlush
    <2>1. outcome'.now.overlap = outcome.now.overlap
      BY <1>16 DEF FinalFlush, LifeTypes, Faults
    <2> QED
      BY <1>16, <2>1 DEF FinalFlush
  <1>17. CASE FinalSave
    BY <1>17 DEF FinalSave
  <1>18. CASE Exit
    BY <1>18 DEF Exit
  <1>19. CASE Perish
    BY <1>19 DEF Perish
  <1>20. CASE UNCHANGED lifeVars
    BY <1>20 DEF lifeVars
  <1> QED
    BY <1>1, <1>2, <1>3, <1>4, <1>5, <1>6, <1>7, <1>8, <1>9, <1>10, <1>11, <1>12, <1>13,
       <1>14, <1>15, <1>16, <1>17, <1>18, <1>19, <1>20 DEF LifeNext

\* No step makes a file where none is configured.
LEMMA AbsentStep == LifeInv /\ [LifeNext]_lifeVars => FileAbsent'
  <1> SUFFICES ASSUME LifeInv, [LifeNext]_lifeVars, ~ catPath' PROVE FileAbsent'
    BY DEF FileAbsent
  <1>1. catPath' = catPath
    BY DEF LifeNext, lifeVars, StartUp, LoadCatalog, StripCatalog, StartServing, BeginRequest,
           ChangeShards, ChangeCatalog, FlushTask, CatalogTask, SaveRename, SaveClear, Signal,
           Drained, DrainTimeout, TasksStopped, FinalFlush, FinalSave, Exit, Perish
  <1>2. catFile = NoCatalog /\ saver.step = "idle"
    BY <1>1 DEF LifeInv, FileAbsent
  <1>3. catFile' = NoCatalog /\ saver'.step = "idle"
    BY <1>1, <1>2, SmoothTyped DEF LifeNext, lifeVars, StartUp, LoadCatalog, StripCatalog, StartServing,
           BeginRequest, ChangeShards, ChangeCatalog, FlushTask, CatalogTask, SaveRename, SaveClear, Signal,
           Drained, DrainTimeout, TasksStopped, FinalFlush, FinalSave, Exit, Perish
  <1> QED
    BY <1>3 DEF FileAbsent

\* Each step keeps the flushed indexes current.
LEMMA IndexStep == LifeInv /\ [LifeNext]_lifeVars => IndexCurrent'
  <1> SUFFICES ASSUME LifeInv, [LifeNext]_lifeVars PROVE IndexCurrent'
    OBVIOUS
  <1>t. LifeTypes /\ Phases /\ IndexCurrent
    BY DEF LifeInv
  <1> USE <1>t DEF IndexCurrent, Stopping
  <1>1. CASE StartUp
    BY <1>1 DEF StartUp
  <1>2. CASE LoadCatalog
    BY <1>2 DEF LoadCatalog
  <1>3. CASE StripCatalog
    BY <1>3 DEF StripCatalog
  <1>4. CASE StartServing
    BY <1>4 DEF StartServing
  <1>5. ASSUME NEW k \in Objects, NEW op \in {"put", "delete"}, BeginRequest(k, op) PROVE IndexCurrent'
    BY <1>5 DEF BeginRequest
  <1>6. ASSUME NEW q \in requests, ChangeShards(q) PROVE IndexCurrent'
    BY <1>6 DEF ChangeShards, Phases
  <1>7. ASSUME NEW q \in requests, ChangeCatalog(q) PROVE IndexCurrent'
    <2>1. outcome'.now.late = outcome.now.late
      BY <1>7 DEF ChangeCatalog, LifeTypes, Faults
    <2> QED
      BY <1>7, <2>1 DEF ChangeCatalog, Phases
  <1>8. ASSUME NEW s \in devices, FlushTask(s) PROVE IndexCurrent'
    BY <1>8 DEF FlushTask, Serving
  <1>9. CASE CatalogTask
    BY <1>9 DEF CatalogTask
  <1>10. CASE SaveRename
    <2>1. outcome'.now.late = outcome.now.late /\ (~ outcome'.now.failed => ~ outcome.now.failed)
      BY <1>10 DEF SaveRename, LifeTypes, Faults
    <2> QED
      BY <1>10, <2>1 DEF SaveRename
  <1>11. CASE SaveClear
    BY <1>11 DEF SaveClear
  <1>12. CASE Signal
    BY <1>12 DEF Signal
  <1>13. CASE Drained
    BY <1>13 DEF Drained
  <1>14. CASE DrainTimeout
    BY <1>14 DEF DrainTimeout
  <1>15. CASE TasksStopped
    BY <1>15 DEF TasksStopped
  <1>16. CASE FinalFlush
    <2>1. CASE flushed' = [s \in devices |-> IF s \in opened \ Volatile THEN stored[s] ELSE flushed[s]]
      <3>1. \A s \in opened \ Volatile : s \in devices /\ flushed'[s] = stored[s]
        BY <2>1 DEF LifeTypes
      <3> QED
        BY <1>16, <3>1 DEF FinalFlush
    <2>2. CASE outcome' = [outcome EXCEPT !.now.failed = TRUE]
      <3>1. outcome'.now.failed
        BY <2>2 DEF LifeTypes, Faults
      <3> QED
        BY <3>1
    <2> QED
      BY <1>16, <2>1, <2>2 DEF FinalFlush
  <1>17. CASE FinalSave
    BY <1>17 DEF FinalSave
  <1>18. CASE Exit
    BY <1>18 DEF Exit
  <1>19. CASE Perish
    BY <1>19 DEF Perish
  <1>20. CASE UNCHANGED lifeVars
    BY <1>20 DEF lifeVars
  <1> QED
    BY <1>1, <1>2, <1>3, <1>4, <1>5, <1>6, <1>7, <1>8, <1>9, <1>10, <1>11, <1>12, <1>13,
       <1>14, <1>15, <1>16, <1>17, <1>18, <1>19, <1>20 DEF LifeNext

\* Outside start-up the shards stay, and a spoiled run stays spoiled.
LEMMA FaultsKept ==
    ASSUME LifeTypes, LifeNext, ~ StartUp
    PROVE  /\ devices' = devices /\ opened' = opened /\ (~ outcome'.spoiled => ~ outcome.spoiled)
           /\ catPath' = catPath /\ (stops' = 0 => stops = 0)
  BY DEF LifeTypes, LifeNext, LoadCatalog, StripCatalog, StartServing, BeginRequest,
         ChangeShards, ChangeCatalog, FlushTask, CatalogTask, SaveRename, SaveClear, Signal,
         Drained, DrainTimeout, TasksStopped, FinalFlush, FinalSave, Exit, Perish

\* Each step but those of requests leaves them and the shards as they are, or
\* there are none.
LEMMA InHandStep == LifeInv /\ [LifeNext]_lifeVars => InHand'
  <1> SUFFICES ASSUME LifeInv, [LifeNext]_lifeVars PROVE InHand'
    OBVIOUS
  <1>t. LifeTypes /\ Phases /\ InHand
    BY DEF LifeInv
  <1>1. CASE StartUp \/ Exit \/ Perish
    BY <1>t, <1>1 DEF StartUp, Exit, Perish, InHand, Phases, Starting
  <1>2. ASSUME UNCHANGED <<requests, stored, opened>> PROVE InHand'
    BY <1>t, <1>2 DEF InHand
  <1>3. ASSUME NEW k \in Objects, NEW op \in {"put", "delete"}, BeginRequest(k, op) PROVE InHand'
    BY <1>t, <1>3 DEF BeginRequest, InHand
  <1>4. ASSUME NEW q \in requests, ChangeShards(q) PROVE InHand'
    <2> DEFINE n == [q EXCEPT !.step = "catalog"]
    <2>1. n.key = q.key /\ n.op = q.op
      BY <1>t DEF LifeTypes, Requests
    <2>2. requests' = (requests \ {q}) \cup {n} /\ opened' = opened
      BY <1>4 DEF ChangeShards
    <2>3. \A s \in opened : /\ \A j : j # q.key => (j \in stored'[s] <=> j \in stored[s])
                            /\ q.key \in stored'[s] <=> q.op = "put"
      BY <1>4, <1>t DEF ChangeShards, LifeTypes
    <2> HIDE DEF n
    <2>4. \A r \in requests' : r = n \/ (r \in requests /\ r.key # q.key)
      BY <1>t, <2>2 DEF Phases
    <2> QED
      BY <1>t, <2>1, <2>2, <2>3, <2>4 DEF InHand
  <1>5. ASSUME NEW q \in requests, ChangeCatalog(q) PROVE InHand'
    BY <1>t, <1>5 DEF ChangeCatalog, InHand
  <1>6. CASE LoadCatalog \/ StripCatalog \/ StartServing
    BY <1>2, <1>6 DEF LoadCatalog, StripCatalog, StartServing
  <1>7. CASE (\E s \in devices : FlushTask(s)) \/ CatalogTask \/ SaveRename \/ SaveClear
    BY <1>2, <1>7 DEF FlushTask, CatalogTask, SaveRename, SaveClear
  <1>8. CASE Signal \/ Drained \/ DrainTimeout \/ TasksStopped \/ FinalFlush \/ FinalSave
    BY <1>2, <1>8 DEF Signal, Drained, DrainTimeout, TasksStopped, FinalFlush, FinalSave
  <1>9. CASE UNCHANGED lifeVars
    BY <1>2, <1>9 DEF lifeVars
  <1> QED
    BY <1>1, <1>3, <1>4, <1>5, <1>6, <1>7, <1>8, <1>9 DEF LifeNext

\* No step lists what is not there when the catalog starts empty.
LEMMA SoundStep == LifeInv /\ [LifeNext]_lifeVars => Sound'
  <1> SUFFICES ASSUME LifeInv, [LifeNext]_lifeVars, phase' # "down", ~ catPath' PROVE Sound'
    BY DEF Sound
  <1>t. LifeTypes /\ Phases /\ InHand /\ Sound
    BY DEF LifeInv
  <1>o. \A s \in opened : s \in devices
    BY <1>t DEF LifeTypes
  <1>c. catPath' = catPath
    BY DEF LifeNext, lifeVars, StartUp, LoadCatalog, StripCatalog, StartServing, BeginRequest,
           ChangeShards, ChangeCatalog, FlushTask, CatalogTask, SaveRename, SaveClear, Signal,
           Drained, DrainTimeout, TasksStopped, FinalFlush, FinalSave, Exit, Perish
  <1>1. CASE StartUp
    BY <1>1 DEF StartUp, Sound
  <1>s. ASSUME phase # "down"
        PROVE  /\ phase \in {"load", "strip"} => listed = {}
               /\ listed \subseteq Objects \X opened
               /\ \A k \in Objects, s \in opened : Settled(k) /\ <<k, s>> \in listed => k \in stored[s]
    BY <1>t, <1>c, <1>s DEF Sound
  <1>2. ASSUME UNCHANGED <<listed, requests, stored, opened>>, phase # "down",
               phase' \in {"load", "strip"} => phase \in {"load", "strip"}
        PROVE  Sound'
    BY <1>2, <1>s DEF Sound, Settled
  <1>3. CASE LoadCatalog
    BY <1>2, <1>3, <1>c DEF LoadCatalog
  <1>4. CASE StripCatalog
    <2>1. listed' = {} /\ phase' = "rebuild"
      BY <1>4, <1>s DEF StripCatalog
    <2> QED
      BY <2>1 DEF Sound
  <1>5. CASE StartServing
    <2>1. CASE listed' = Truth
      <3>1. \A x \in listed' : x \in Objects \X opened
        BY <2>1 DEF Truth
      <3>2. \A k \in Objects, s \in opened : <<k, s>> \in listed' => k \in stored[s]
        BY <2>1 DEF Truth
      <3> QED
        BY <1>5, <3>1, <3>2 DEF StartServing, Sound
    <2>2. CASE listed' = listed
      BY <1>2, <1>5, <2>2 DEF StartServing
    <2> QED
      BY <1>5, <2>1, <2>2 DEF StartServing
  <1>6. ASSUME NEW k \in Objects, NEW op \in {"put", "delete"}, BeginRequest(k, op) PROVE Sound'
    <2>1. UNCHANGED <<listed, stored, opened>> /\ phase = "up" /\ phase' = "up" /\ requests \subseteq requests'
      BY <1>6 DEF BeginRequest
    <2>2. \A j \in Objects : Settled(j)' => Settled(j)
      BY <2>1 DEF Settled
    <2> QED
      BY <2>1, <2>2, <1>s DEF Sound
  <1>7. ASSUME NEW q \in requests, ChangeShards(q) PROVE Sound'
    <2> DEFINE n == [q EXCEPT !.step = "catalog"]
    <2>1. n.key = q.key /\ n.step = "catalog"
      BY <1>t DEF LifeTypes, Requests
    <2>2. requests' = (requests \ {q}) \cup {n} /\ UNCHANGED <<opened, listed>> /\ phase # "down"
      BY <1>7 DEF ChangeShards
    <2>3. \A s \in opened : \A j : j # q.key => (j \in stored'[s] <=> j \in stored[s])
      BY <1>7, <1>o DEF ChangeShards
    <2> HIDE DEF n
    <2>4. \A j \in Objects : Settled(j)' => j # q.key /\ Settled(j)
      BY <2>1, <2>2 DEF Settled
    <2>5. phase' \notin {"load", "strip"}
      BY <1>t, <1>7 DEF ChangeShards, Phases, Starting
    <2> QED
      BY <2>2, <2>3, <2>4, <2>5, <1>s DEF Sound
  <1>8. ASSUME NEW q \in requests, ChangeCatalog(q) PROVE Sound'
    <2>1. UNCHANGED <<stored, opened>> /\ phase # "down" /\ q.key \in Objects /\ q.step = "catalog"
      BY <1>t, <1>8 DEF ChangeCatalog, LifeTypes, Requests
    <2>2. listed' \subseteq Objects \X opened
      BY <1>8, <1>s, <2>1 DEF ChangeCatalog
    <2>3. \A j \in Objects, s \in opened : <<j, s>> \in listed' =>
             (j # q.key /\ <<j, s>> \in listed) \/ (j = q.key /\ q.op = "put")
      BY <1>8, <2>1 DEF ChangeCatalog
    <2>4. \A j \in Objects : Settled(j)' /\ j # q.key => Settled(j)
      BY <1>8 DEF ChangeCatalog, Settled
    <2>5. \A s \in opened : q.op = "put" => q.key \in stored[s]
      BY <1>t, <2>1 DEF InHand
    <2>6. phase' \notin {"load", "strip"}
      BY <1>t, <1>8 DEF ChangeCatalog, Phases, Starting
    <2> QED
      BY <1>s, <2>1, <2>2, <2>3, <2>4, <2>5, <2>6 DEF Sound
  <1>9. CASE (\E s \in devices : FlushTask(s)) \/ CatalogTask \/ SaveRename \/ SaveClear
    <2>1. UNCHANGED <<listed, requests, stored, opened>> /\ phase' = phase
      BY <1>9 DEF FlushTask, CatalogTask, SaveRename, SaveClear
    <2> QED
      BY <1>2, <2>1
  <1>10. CASE Signal \/ Drained \/ DrainTimeout \/ TasksStopped \/ FinalFlush \/ FinalSave
    <2>1. UNCHANGED <<listed, requests, stored, opened>> /\ phase' \notin {"load", "strip"} /\ phase # "down"
      BY <1>10 DEF Signal, Drained, DrainTimeout, TasksStopped, FinalFlush, FinalSave
    <2> QED
      BY <1>2, <2>1
  <1>11. CASE Exit \/ Perish
    BY <1>11 DEF Exit, Perish
  <1>12. CASE UNCHANGED lifeVars
    BY <1>2, <1>12 DEF lifeVars
  <1> QED
    BY <1>1, <1>3, <1>4, <1>5, <1>6, <1>7, <1>8, <1>9, <1>10, <1>11, <1>12 DEF LifeNext

\* Each step keeps the entries true to the shards.
LEMMA TrackedStep == LifeInv /\ [LifeNext]_lifeVars => Tracked'
  <1> SUFFICES ASSUME LifeInv, [LifeNext]_lifeVars, phase' \notin Starting \cup {"rebuild"}, Trusted'
               PROVE  /\ listed' \subseteq Objects \X opened'
                      /\ \A k \in Objects, s \in opened' : Settled(k)' => (<<k, s>> \in listed' <=> k \in stored'[s])
    BY DEF Tracked
  <1>t. LifeTypes /\ Phases /\ InHand /\ Tracked /\ Restarts
    BY DEF LifeInv
  <1>u. CASE UNCHANGED lifeVars
    BY <1>t, <1>u DEF lifeVars, Tracked, Settled, Single, Starting, Trusted
  <1>s. ASSUME LifeNext, ~ StartUp
        PROVE devices' = devices /\ opened' = opened /\ Trusted
    BY <1>s, <1>t, FaultsKept DEF Single, Trusted
  <1>o. \A s \in opened : s \in devices
    BY <1>t DEF LifeTypes
  <1> USE <1>t DEF Starting
  <1>4. CASE StartServing
    <2>1. CASE Single
      <3>1. Cardinality(devices) \in Nat
        BY LifeAssumption, FS_CardinalityType DEF LifeTypes
      <3>2. ~ RebuildAtStart
        BY <2>1, <3>1 DEF RebuildAtStart, Single
      <3>3. listed' = Truth /\ UNCHANGED <<opened, stored, requests>> /\ requests = {}
        BY <1>4, <3>2, <2>1, <1>s DEF StartServing, Restarts, Phases, LifeNext, StartUp
      <3> QED
        BY <3>3 DEF Truth
    <2>2. CASE ~ Single
      <3>1. Cardinality(devices) \in Nat
        BY LifeAssumption, FS_CardinalityType DEF LifeTypes
      <3>2. RebuildAtStart
        BY <2>2, <3>1 DEF RebuildAtStart, Single
      <3>3. listed' = Truth /\ UNCHANGED <<opened, stored, requests>> /\ requests = {}
        BY <1>4, <3>2 DEF StartServing, Phases
      <3> QED
        BY <3>3 DEF Truth
    <2> QED
      BY <2>1, <2>2
  <1>e. ASSUME LifeNext, ~ StartUp, phase \notin Starting \cup {"rebuild"}
        PROVE  /\ listed \subseteq Objects \X opened
               /\ \A k \in Objects, s \in opened : Settled(k) => (<<k, s>> \in listed <=> k \in stored[s])
    BY <1>e, <1>s DEF Tracked
  <1>5. ASSUME NEW k \in Objects, NEW op \in {"put", "delete"}, BeginRequest(k, op)
        PROVE  /\ listed' \subseteq Objects \X opened'
               /\ \A j \in Objects, s \in opened' : Settled(j)' => (<<j, s>> \in listed' <=> j \in stored'[s])
    <2>1. UNCHANGED <<listed, stored, opened>> /\ phase = "up" /\ LifeNext /\ ~ StartUp
      BY <1>5 DEF BeginRequest, LifeNext, StartUp
    <2>3. requests \subseteq requests'
      BY <1>5 DEF BeginRequest
    <2>4. \A j \in Objects : Settled(j)' => Settled(j)
      BY <2>3 DEF Settled
    <2> QED
      BY <2>1, <2>4, <1>e
  <1>6. ASSUME NEW q \in requests, ChangeShards(q)
        PROVE  /\ listed' \subseteq Objects \X opened'
               /\ \A j \in Objects, s \in opened' : Settled(j)' => (<<j, s>> \in listed' <=> j \in stored'[s])
    <2> DEFINE n == [q EXCEPT !.step = "catalog"]
    <2>1. n.key = q.key /\ n.op = q.op /\ n.step = "catalog" /\ q.key \in Objects
      BY DEF LifeTypes, Requests
    <2>2. requests' = (requests \ {q}) \cup {n}
      BY <1>6 DEF ChangeShards
    <2>3. LifeNext /\ ~ StartUp /\ UNCHANGED <<listed, opened, devices>>
      BY <1>6 DEF ChangeShards, LifeNext, StartUp
    <2>4. phase \notin Starting \cup {"rebuild"}
      BY DEF Phases
    <2>5. \A s \in opened : /\ \A j \in Objects : j # q.key => (j \in stored'[s] <=> j \in stored[s])
                            /\ q.key \in stored'[s] <=> q.op = "put"
      BY <1>6, <1>o DEF ChangeShards, LifeTypes
    <2> HIDE DEF n
    <2>6. \A j \in Objects : Settled(j)' => j # q.key /\ Settled(j)
      BY <2>1, <2>2 DEF Settled
    <2>8. \A j \in Objects, s \in opened' : Settled(j)' => (<<j, s>> \in listed' <=> j \in stored'[s])
      BY <2>3, <2>4, <2>5, <2>6, <1>e
    <2> QED
      BY <2>3, <2>4, <2>8, <1>e
  <1>7. ASSUME NEW q \in requests, ChangeCatalog(q)
        PROVE  /\ listed' \subseteq Objects \X opened'
               /\ \A j \in Objects, s \in opened' : Settled(j)' => (<<j, s>> \in listed' <=> j \in stored'[s])
    <2>1. LifeNext /\ ~ StartUp /\ UNCHANGED <<stored, opened, devices>> /\ q.key \in Objects
      BY <1>7 DEF ChangeCatalog, LifeNext, StartUp, LifeTypes, Requests
    <2>2. phase \notin Starting \cup {"rebuild"}
      BY DEF Phases
    <2>3. listed' \subseteq Objects \X opened
      BY <1>7, <2>1, <2>2, <1>e DEF ChangeCatalog
    <2>4. \A j \in Objects, s \in opened : /\ j # q.key => (<<j, s>> \in listed' <=> <<j, s>> \in listed)
                                           /\ <<q.key, s>> \in listed' <=> q.op = "put"
      BY <1>7, <2>1 DEF ChangeCatalog
    <2>5. \A j \in Objects : Settled(j)' /\ j # q.key => Settled(j)
      BY <1>7 DEF ChangeCatalog, Settled
    <2>6. \A s \in opened : q.key \in stored[s] <=> q.op = "put"
      BY <1>7, <2>1 DEF ChangeCatalog, InHand
    <2>7. \A j \in Objects, s \in opened' : Settled(j)' => (<<j, s>> \in listed' <=> j \in stored'[s])
      BY <2>1, <2>2, <2>4, <2>5, <2>6, <1>e
    <2>8. requests' \subseteq requests
      BY <1>7 DEF ChangeCatalog
    <2> QED
      BY <2>1, <2>2, <2>3, <2>7, <2>8, <1>e
  <1>8. ASSUME NEW s \in devices, FlushTask(s)
        PROVE UNCHANGED <<listed, stored, opened, requests>> /\ LifeNext /\ ~ StartUp /\ phase' = phase
    BY <1>8 DEF FlushTask, LifeNext, StartUp, Serving
  <1>9. ASSUME CatalogTask \/ SaveRename \/ SaveClear
        PROVE UNCHANGED <<listed, stored, opened, requests>> /\ LifeNext /\ phase' = phase
    BY <1>9 DEF CatalogTask, SaveRename, SaveClear, LifeNext
  <1>10. ASSUME Signal \/ Drained \/ DrainTimeout \/ TasksStopped \/ FinalFlush \/ FinalSave
        PROVE /\ UNCHANGED <<listed, stored, opened, requests>> /\ LifeNext
              /\ phase \notin Starting \cup {"rebuild"}
    BY <1>10 DEF Signal, Drained, DrainTimeout, TasksStopped, FinalFlush, FinalSave, LifeNext
  <1>11. StartUp => phase' = "load"
    BY DEF StartUp
  <1>12. LoadCatalog => phase' = "strip"
    BY DEF LoadCatalog
  <1>13. StripCatalog => phase' = "rebuild"
    BY DEF StripCatalog
  <1>14. Exit \/ Perish => phase' = "down"
    BY DEF Exit, Perish
  <1>15. ASSUME UNCHANGED <<listed, stored, opened, requests>>, LifeNext,
                phase \notin Starting \cup {"rebuild"}
         PROVE  /\ listed' \subseteq Objects \X opened'
                /\ \A j \in Objects, s \in opened' : Settled(j)' => (<<j, s>> \in listed' <=> j \in stored'[s])
    BY <1>15, <1>e, <1>11 DEF Settled
  <1> QED
    <2>1. CASE \E s \in devices : FlushTask(s)
      BY <2>1, <1>8, <1>15
    <2>2. CASE CatalogTask \/ SaveRename \/ SaveClear
      BY <2>2, <1>9, <1>15
    <2>3. CASE Signal \/ Drained \/ DrainTimeout \/ TasksStopped \/ FinalFlush \/ FinalSave
      BY <2>3, <1>10, <1>15
    <2>4. CASE StartUp \/ LoadCatalog \/ StripCatalog \/ Exit \/ Perish
      BY <2>4, <1>11, <1>12, <1>13, <1>14
    <2>5. CASE \E k \in Objects, op \in {"put", "delete"} : BeginRequest(k, op)
      BY <2>5, <1>5
    <2>6. CASE \E q \in requests : ChangeShards(q) \/ ChangeCatalog(q)
      BY <2>6, <1>6, <1>7
    <2> QED
      BY <1>u, <1>4, <2>1, <2>2, <2>3, <2>4, <2>5, <2>6 DEF LifeNext

\* Each step keeps the file fit for the next start-up.
LEMMA RestartsStep == LifeInv /\ [LifeNext]_lifeVars => Restarts'
  <1> SUFFICES ASSUME LifeInv, [LifeNext]_lifeVars, Single', Trusted' PROVE Restarts'
    BY DEF Restarts
  <1>t. LifeTypes /\ Phases /\ FileCurrent /\ IndexCurrent /\ Tracked /\ Restarts
    BY DEF LifeInv
  <1> USE <1>t DEF Restarts
  <1>u. CASE UNCHANGED lifeVars
    BY <1>u DEF lifeVars, Truth, OnDevice, Single, Trusted
  <1>1. CASE StartUp
    <2>1. phase = "down" /\ UNCHANGED <<devices, flushed, catFile>> /\ phase' = "load"
      BY <1>1 DEF StartUp
    <2>2. Single /\ Trusted
      BY <1>1, <2>1 DEF StartUp, Single, LifeTypes, Trusted
    <2>3. OnDevice' = OnDevice
      BY <2>1 DEF OnDevice
    <2>4. \A s \in devices' : stored'[s] = IF s \in Volatile THEN {} ELSE flushed'[s]
      BY <1>1, <2>1 DEF StartUp
    <2> QED
      BY <2>1, <2>2, <2>3, <2>4
  <1>s. ASSUME LifeNext, ~ StartUp
        PROVE devices' = devices /\ opened' = opened /\ Single /\ Trusted
    BY <1>s, FaultsKept DEF Single, Trusted
  <1>2. CASE LoadCatalog
    <2>1. /\ phase = "load" /\ phase' = "strip" /\ UNCHANGED <<devices, flushed, stored>>
          /\ listed' = Loaded(catFile)
      <3>1. ~ catPath => listed = {} /\ Loaded(catFile) = {}
        BY <1>2 DEF LoadCatalog, LifeInv, Sound, FileAbsent, Loaded
      <3> QED
        BY <1>2, <3>1 DEF LoadCatalog
    <2>2. Single /\ Trusted
      BY <1>2, <2>1, <1>s DEF LifeNext, StartUp
    <2>3. OnDevice' = OnDevice
      BY <2>1 DEF OnDevice
    <2> QED
      BY <2>1, <2>2, <2>3
  <1>3. CASE StripCatalog
    <2>1. /\ phase = "strip" /\ phase' = "rebuild" /\ UNCHANGED <<devices, flushed, stored, opened>>
          /\ listed' = {x \in listed : x[2] \in opened \ Volatile}
      BY <1>3 DEF StripCatalog
    <2>2. Single /\ Trusted
      BY <1>3, <2>1, <1>s DEF LifeNext, StartUp
    <2>3. opened = devices
      BY <2>1, <2>2, OneShardOpen DEF Phases
    <2>4. {x \in listed : x[2] \notin Volatile} = OnDevice
      BY <2>1, <2>2
    <2>5. listed' = OnDevice
      BY <2>1, <2>3, <2>4 DEF LifeTypes, Catalogs
    <2>6. \A s \in devices : stored[s] = IF s \in Volatile THEN {} ELSE flushed[s]
      BY <2>1, <2>2
    <2>7. Truth = OnDevice
      BY <2>3, <2>6 DEF Truth, OnDevice, LifeTypes
    <2>8. Truth' = Truth
      BY <2>1 DEF Truth
    <2> QED
      BY <2>1, <2>5, <2>7, <2>8
  <1>4. CASE Exit
    <2>1. /\ phase = "saved" /\ phase' = "down" /\ saver.step = "idle"
          /\ UNCHANGED <<devices, flushed, stored, opened, catFile, listed>>
      BY <1>4 DEF Exit
    <2>2. Single /\ Trusted
      BY <1>4, <2>1, <1>s DEF LifeNext, StartUp
    <2>0. stops' # 0
      BY <1>4 DEF Exit, LifeTypes
    <2>3. outcome.now = Smooth /\ catPath
      BY <1>4, <2>0 DEF Exit, LifeTypes, Trusted, Single
    <2>4. ~ outcome.now.late /\ ~ outcome.now.failed /\ ~ outcome.now.overlap
      BY <2>3 DEF Smooth
    <2>5. opened = devices
      BY <2>1, <2>2, OneShardOpen DEF Phases
    <2>6. ~ unsaved /\ Loaded(catFile) = listed
      BY <2>1, <2>2, <2>3, <2>4 DEF FileCurrent
    <2>7. requests = {}
      BY <2>1, <2>4 DEF Phases, Stopping
    <2>8. /\ listed \subseteq Objects \X devices
          /\ \A k \in Objects, s \in devices : <<k, s>> \in listed <=> k \in stored[s]
      BY <2>1, <2>2, <2>5, <2>7 DEF Tracked, Settled, Starting
    <2>9. \A s \in devices \ Volatile : flushed[s] = stored[s]
      BY <2>1, <2>4, <2>5 DEF IndexCurrent
    <2>10. {x \in listed : x[2] \notin Volatile} = OnDevice
      BY <2>8, <2>9 DEF OnDevice
    <2>11. OnDevice' = OnDevice
      BY <2>1 DEF OnDevice
    <2> QED
      BY <2>1, <2>6, <2>10, <2>11
  <1>5. CASE Perish
    <2>1. outcome'.spoiled /\ stops' # 0
      BY <1>5 DEF Perish, LifeTypes
    <2> QED
      BY <2>1 DEF Trusted
  <1>6. ASSUME NEW k \in Objects, NEW op \in {"put", "delete"}, BeginRequest(k, op)
        PROVE  phase' \notin {"down", "load", "strip", "rebuild"}
    BY <1>6 DEF BeginRequest
  <1>7. ASSUME NEW q \in requests, ChangeShards(q) \/ ChangeCatalog(q)
        PROVE  phase' \notin {"down", "load", "strip", "rebuild"}
    BY <1>7 DEF ChangeShards, ChangeCatalog, Phases, Starting
  <1>8. ASSUME Signal \/ Drained \/ DrainTimeout \/ TasksStopped \/ FinalFlush \/ FinalSave \/ StartServing
        PROVE  phase' \notin {"down", "load", "strip", "rebuild"}
    BY <1>8 DEF Signal, Drained, DrainTimeout, TasksStopped, FinalFlush, FinalSave, StartServing
  <1>9. ASSUME (\E s \in devices : FlushTask(s)) \/ CatalogTask \/ SaveRename \/ SaveClear
        PROVE  /\ phase' \notin {"down", "load", "strip"} /\ phase' = phase
               /\ UNCHANGED <<listed, stored, opened>>
    BY <1>9 DEF FlushTask, CatalogTask, SaveRename, SaveClear, Serving, Phases, Starting
  <1>10. ASSUME (\E s \in devices : FlushTask(s)) \/ CatalogTask \/ SaveRename \/ SaveClear
         PROVE  Restarts'
    <2>1. Single /\ Trusted
      <3>1. ~ StartUp
        BY <1>9, <1>10 DEF StartUp
      <3> QED
        BY <3>1, <1>10, <1>s DEF LifeNext
    <2>2. Truth' = Truth
      BY <1>9, <1>10 DEF Truth
    <2> QED
      BY <2>1, <2>2, <1>9, <1>10
  <1> QED
    BY <1>u, <1>1, <1>2, <1>3, <1>4, <1>5, <1>6, <1>7, <1>8, <1>10 DEF LifeNext

\* main() and the catalog savers keep the invariant, for any number of
\* shards, objects, restarts and faults.
THEOREM LifeInvariance == LifeSpec => []LifeInv
  <1>1. LifeInit => LifeInv
    BY LifeStart
  <1>2. LifeInv /\ [LifeNext]_lifeVars => LifeInv'
    <2> SUFFICES ASSUME LifeInv, [LifeNext]_lifeVars PROVE LifeInv'
      OBVIOUS
    <2>1. LifeTypes' /\ Phases'
      BY LifeTypesStep, PhasesStep DEF LifeInv
    <2> QED
      BY <2>1, FileStep, AbsentStep, IndexStep, InHandStep, TrackedStep, SoundStep, RestartsStep DEF LifeInv
  <1> QED
    BY <1>1, <1>2, PTL DEF LifeSpec

\* While no request runs the catalog names exactly the copies on the open
\* shards (Catalog::load, rebuild_catalog at start-up, the puts and deletes
\* after): with several shards after any stop; with one shard in its first
\* life and, where a catalog file is configured, as long as all stops were
\* clean.  Without a file it never names a copy that is not there.
THEOREM CatalogIsTruthful == LifeSpec => []CatalogTruthful
  <1>1. LifeInv => CatalogTruthful
    <2> SUFFICES ASSUME LifeInv, phase = "up", requests = {}
                 PROVE  /\ Cardinality(devices) > 1 \/ stops = 0 \/ (catPath /\ ~ outcome.spoiled) => listed = Truth
                        /\ ~ catPath => listed \subseteq Truth
      BY DEF CatalogTruthful
    <2>1. Cardinality(devices) \in Nat
      BY LifeAssumption, FS_CardinalityType DEF LifeInv, LifeTypes
    <2>2. ASSUME Cardinality(devices) > 1 \/ stops = 0 \/ (catPath /\ ~ outcome.spoiled) PROVE listed = Truth
      <3>1. Trusted
        BY <2>1, <2>2 DEF Single, Trusted
      <3>2. /\ listed \subseteq Objects \X opened
            /\ \A k \in Objects, s \in opened : <<k, s>> \in listed <=> k \in stored[s]
        BY <3>1 DEF LifeInv, Tracked, Settled, Starting
      <3> QED
        BY <3>2 DEF Truth
    <2>3. ASSUME ~ catPath PROVE listed \subseteq Truth
      <3>1. /\ listed \subseteq Objects \X opened
            /\ \A k \in Objects, s \in opened : <<k, s>> \in listed => k \in stored[s]
        BY <2>3 DEF LifeInv, Sound, Settled
      <3> QED
        BY <3>1 DEF Truth
    <2> QED
      BY <2>2, <2>3
  <1> QED
    BY <1>1, LifeInvariance, PTL

\* A shutdown (server.rs) that cut off no request, in which no write failed
\* and no change fell between the snapshot of a save and its end, loses
\* nothing: what every lasting shard holds is on its device, and the file of
\* a cluster of one shard, if it has one, loads as the catalog.
THEOREM CleanShutdown == LifeSpec => ShutdownKeepsAll
  <1>1. LifeInv /\ [LifeNext]_lifeVars =>
           [Exit /\ outcome.now = Smooth =>
               /\ \A s \in opened \ Volatile : flushed[s] = stored[s]
               /\ Cardinality(devices) = 1 /\ catPath => Loaded(catFile) = listed]_lifeVars
    <2> SUFFICES ASSUME LifeInv, Exit, outcome.now = Smooth
                 PROVE  /\ \A s \in opened \ Volatile : flushed[s] = stored[s]
                        /\ Cardinality(devices) = 1 /\ catPath => Loaded(catFile) = listed
      OBVIOUS
    <2>1. phase = "saved" /\ saver.step = "idle"
      BY DEF Exit
    <2>2. ~ outcome.now.late /\ ~ outcome.now.failed /\ ~ outcome.now.overlap
      BY DEF Smooth
    <2>3. \A s \in opened \ Volatile : flushed[s] = stored[s]
      BY <2>1, <2>2 DEF LifeInv, IndexCurrent
    <2>4. Cardinality(devices) = 1 /\ catPath => Loaded(catFile) = listed
      BY <2>1, <2>2 DEF LifeInv, FileCurrent, Single
    <2> QED
      BY <2>3, <2>4
  <1> QED
    BY <1>1, LifeInvariance, PTL DEF LifeSpec, ShutdownKeepsAll

-----------------------------------------------------------------------------
(* Multipart uploads of the S3 adapter and their temporary files.          *)

\* A request that spools a part to a file, and one that completes an upload.
PartTasks == [op : {"upload_part", "upload_part_copy"}, id : UploadIds, part : PartNumbers, file : TempFiles]
CompleteTasks == [op : {"complete"}, id : UploadIds, upload : Upload, list : PartLists, at : Nat, body : Seq(PartData)]

\* The types.
UploadTypes ==
    /\ uploads \in [UploadIds -> {NoUpload} \cup Upload]
    /\ given \subseteq UploadIds
    /\ files \in [TempFiles -> {NoFile} \cup PartData]
    /\ task \in [UpClients -> {IdleTask} \cup PartTasks \cup CompleteTasks]
    /\ leaked \subseteq TempFiles

\* Client c has taken an upload out of the table to assemble it.
Completing(c) == task[c].op = "complete"

\* An upload is in the table or with one completing request, never both.
HeldOnce ==
    /\ \A i \in UploadIds : uploads[i] # NoUpload => i \in given
    /\ \A c \in UpClients : Completing(c) => task[c].id \in given /\ uploads[task[c].id] = NoUpload
    /\ \A c, d \in UpClients : Completing(c) /\ Completing(d) /\ task[c].id = task[d].id => c = d

\* Part n of upload i is p, in the table or with the request that completes i.
PartIn(i, n, p) ==
    /\ p # NoPart
    /\ \/ uploads[i] # NoUpload /\ p = uploads[i].parts[n]
       \/ \E c \in UpClients : Completing(c) /\ task[c].id = i /\ p = task[c].upload.parts[n]

\* Client c is writing file f, which no upload knows yet.
Spool(c, f) == task[c].op \in {"upload_part", "upload_part_copy"} /\ task[c].file = f

\* A file belongs to one part of one upload, or to one request.
OneOwner ==
    /\ \A i, j \in UploadIds, n, m \in PartNumbers, p, q \in PartMeta :
          PartIn(i, n, p) /\ PartIn(j, m, q) /\ p.file = q.file => i = j /\ n = m
    /\ \A c, d \in UpClients, f \in TempFiles : Spool(c, f) /\ Spool(d, f) => c = d
    /\ \A c \in UpClients, i \in UploadIds, n \in PartNumbers, p \in PartMeta :
          PartIn(i, n, p) => ~ Spool(c, p.file)

\* A file that is owned exists and has the bytes of its ETag; a file that
\* exists is owned or counted as leaked.
FilesKept ==
    /\ \A i \in UploadIds, n \in PartNumbers, p \in PartMeta : PartIn(i, n, p) =>
          p.file \notin leaked /\ files[p.file] # NoFile /\ p.etag = Digest(files[p.file])
    /\ \A c \in UpClients, f \in TempFiles : Spool(c, f) => f \notin leaked /\ files[f] # NoFile
    /\ \A f \in leaked : files[f] # NoFile
    /\ \A f \in TempFiles : files[f] # NoFile =>
          \/ f \in leaked
          \/ \E i \in UploadIds, n \in PartNumbers, p \in PartMeta : PartIn(i, n, p) /\ p.file = f
          \/ \E c \in UpClients : Spool(c, f)

\* A completing request has in its body the parts it has read, in order.
Assembled ==
    \A c \in UpClients : Completing(c) =>
        /\ task[c].at \in 1..(Len(task[c].list) + 1) /\ Len(task[c].body) = task[c].at - 1
        /\ \A i \in 1..(task[c].at - 1) :
              Digest(task[c].body[i]) = task[c].upload.parts[task[c].list[i]].etag

\* The inductive invariant of the uploads.
UploadInv == UploadTypes /\ HeldOnce /\ OneOwner /\ FilesKept /\ Assembled

\* A part names a file and is not the absent part.
LEMMA MetaTyped == \A p \in PartMeta : p.file \in TempFiles /\ p # NoPart
  BY UploadsAssumption DEF PartMeta

\* What owns no file anew and gives none up keeps the ownership.
LEMMA OwnersSame ==
    ASSUME OneOwner, FilesKept,
           \A i \in UploadIds, n \in PartNumbers, p \in PartMeta : PartIn(i, n, p)' <=> PartIn(i, n, p),
           \A c \in UpClients, f \in TempFiles : Spool(c, f)' <=> Spool(c, f),
           UNCHANGED <<files, leaked>>
    PROVE  OneOwner' /\ FilesKept'
  <1>1. OneOwner'
    BY MetaTyped DEF OneOwner
  <1>2. FilesKept'
    BY DEF FilesKept
  <1> QED
    BY <1>1, <1>2

\* Dropping uploads with their files keeps the ownership of the others.
LEMMA OwnersDropped ==
    ASSUME UploadTypes, OneOwner, FilesKept, NEW D \in SUBSET UploadIds,
           \A i \in UploadIds, n \in PartNumbers, p \in PartMeta :
              PartIn(i, n, p)' <=> PartIn(i, n, p) /\ i \notin D,
           \A c \in UpClients, f \in TempFiles : Spool(c, f)' <=> Spool(c, f),
           leaked' = leaked,
           \A f \in TempFiles :
              files'[f] = IF \E i \in D, n \in PartNumbers, p \in PartMeta : PartIn(i, n, p) /\ p.file = f
                          THEN NoFile ELSE files[f]
    PROVE  OneOwner' /\ FilesKept'
  <1>1. OneOwner'
    BY MetaTyped DEF OneOwner
  <1>2. \A i \in UploadIds, n \in PartNumbers, p \in PartMeta :
           PartIn(i, n, p)' => files'[p.file] = files[p.file]
    BY MetaTyped DEF OneOwner
  <1>3. \A c \in UpClients, f \in TempFiles : Spool(c, f)' => files'[f] = files[f]
    BY DEF OneOwner
  <1>4. \A f \in leaked : files'[f] = files[f]
    BY DEF FilesKept, UploadTypes
  <1>5. \A f \in TempFiles : files'[f] # NoFile =>
           /\ files[f] # NoFile
           /\ \A i \in UploadIds, n \in PartNumbers, p \in PartMeta : PartIn(i, n, p) /\ p.file = f => PartIn(i, n, p)'
    OBVIOUS
  <1>6. FilesKept'
    <2>1. \A i \in UploadIds, n \in PartNumbers, p \in PartMeta : PartIn(i, n, p)' =>
             p.file \notin leaked' /\ files'[p.file] # NoFile /\ p.etag = Digest(files'[p.file])
      BY <1>2 DEF FilesKept
    <2>2. \A c \in UpClients, f \in TempFiles : Spool(c, f)' => f \notin leaked' /\ files'[f] # NoFile
      BY <1>3 DEF FilesKept
    <2>3. \A f \in leaked' : files'[f] # NoFile
      BY <1>4 DEF FilesKept
    <2>4. \A f \in TempFiles : files'[f] # NoFile =>
             \/ f \in leaked'
             \/ \E i \in UploadIds, n \in PartNumbers, p \in PartMeta : PartIn(i, n, p)' /\ p.file = f
             \/ \E c \in UpClients : Spool(c, f)'
      BY <1>5 DEF FilesKept
    <2> QED
      BY <2>1, <2>2, <2>3, <2>4 DEF FilesKept, Digest
  <1> QED
    BY <1>1, <1>6

\* So does a request that starts a file of its own,
LEMMA SpoolStarted ==
    ASSUME UploadTypes, OneOwner, FilesKept, NEW c \in UpClients, NEW f \in TempFiles, NEW data \in PartData,
           files[f] = NoFile,
           files' = [files EXCEPT ![f] = data],
           leaked' = leaked,
           \A i \in UploadIds, n \in PartNumbers, p \in PartMeta : PartIn(i, n, p)' <=> PartIn(i, n, p),
           \A d \in UpClients, g \in TempFiles : Spool(d, g)' <=> IF d = c THEN g = f ELSE Spool(d, g),
           \A g \in TempFiles : ~ Spool(c, g)
    PROVE  OneOwner' /\ FilesKept'
  <1>1. \A g \in TempFiles : files'[g] = IF g = f THEN data ELSE files[g]
    BY DEF UploadTypes
  <1>2. data # NoFile
    BY UploadsAssumption
  <1>3. f \notin leaked /\ \A d \in UpClients : ~ Spool(d, f)
    BY DEF FilesKept
  <1>4. \A i \in UploadIds, n \in PartNumbers, p \in PartMeta : PartIn(i, n, p) => p.file # f
    BY DEF FilesKept
  <1>5. OneOwner'
    BY <1>3, <1>4, MetaTyped DEF OneOwner
  <1>6. \A i \in UploadIds, n \in PartNumbers, p \in PartMeta : PartIn(i, n, p)' =>
             p.file \notin leaked' /\ files'[p.file] # NoFile /\ p.etag = Digest(files'[p.file])
    BY <1>1, <1>4, MetaTyped DEF FilesKept
  <1>7. \A d \in UpClients, g \in TempFiles : Spool(d, g)' => g \notin leaked' /\ files'[g] # NoFile
    BY <1>1, <1>2, <1>3 DEF FilesKept
  <1>8. \A g \in leaked' : files'[g] # NoFile
    BY <1>1, <1>2 DEF FilesKept, UploadTypes
  <1>9. \A g \in TempFiles : files'[g] # NoFile =>
             \/ g \in leaked'
             \/ \E i \in UploadIds, n \in PartNumbers, p \in PartMeta : PartIn(i, n, p)' /\ p.file = g
             \/ \E d \in UpClients : Spool(d, g)'
    BY <1>1 DEF FilesKept
  <1> QED
    BY <1>5, <1>6, <1>7, <1>8, <1>9 DEF FilesKept, Digest

\* one that hands its file to an upload (the file of the part that it
\* replaces is leaked),
LEMMA SpoolEntered ==
    ASSUME UploadTypes, OneOwner, FilesKept, NEW c \in UpClients, NEW f \in TempFiles,
           NEW id \in UploadIds, NEW m \in PartNumbers, NEW r \in PartMeta,
           Spool(c, f), r.file = f, r.etag = Digest(files[f]),
           \A i \in UploadIds, n \in PartNumbers, p \in PartMeta :
              PartIn(i, n, p)' <=> IF i = id /\ n = m THEN p = r ELSE PartIn(i, n, p),
           \A d \in UpClients, g \in TempFiles : Spool(d, g)' <=> d # c /\ Spool(d, g),
           files' = files,
           \A g \in TempFiles : g \in leaked' <=> \/ g \in leaked
                                                 \/ \E q \in PartMeta : PartIn(id, m, q) /\ q.file = g,
           leaked' \subseteq TempFiles
    PROVE  OneOwner' /\ FilesKept'
  <1>1. \A i \in UploadIds, n \in PartNumbers, p \in PartMeta : PartIn(i, n, p) => p.file # f
    BY DEF OneOwner
  <1>2. OneOwner'
    <2>1. \A i, j \in UploadIds, n, k \in PartNumbers, p, q \in PartMeta :
             PartIn(i, n, p)' /\ PartIn(j, k, q)' /\ p.file = q.file => i = j /\ n = k
      BY <1>1 DEF OneOwner
    <2>2. \A d, e \in UpClients, g \in TempFiles : Spool(d, g)' /\ Spool(e, g)' => d = e
      BY DEF OneOwner
    <2>3. \A d \in UpClients, i \in UploadIds, n \in PartNumbers, p \in PartMeta :
             PartIn(i, n, p)' => ~ Spool(d, p.file)'
      BY MetaTyped DEF OneOwner
    <2> QED
      BY <2>1, <2>2, <2>3 DEF OneOwner
  <1>3. f \notin leaked /\ files[f] # NoFile
    BY DEF FilesKept
  <1>4. \A i \in UploadIds, n \in PartNumbers, p \in PartMeta : PartIn(i, n, p)' =>
             p.file \notin leaked' /\ files'[p.file] # NoFile /\ p.etag = Digest(files'[p.file])
    <2> SUFFICES ASSUME NEW i \in UploadIds, NEW n \in PartNumbers, NEW p \in PartMeta, PartIn(i, n, p)'
                 PROVE  p.file \notin leaked' /\ files'[p.file] # NoFile /\ p.etag = Digest(files'[p.file])
      OBVIOUS
    <2>1. CASE i = id /\ n = m
      BY <2>1, <1>1, <1>3, MetaTyped
    <2>2. CASE ~ (i = id /\ n = m)
      <3>1. PartIn(i, n, p)
        BY <2>2
      <3>2. ~ \E q \in PartMeta : PartIn(id, m, q) /\ q.file = p.file
        BY <2>2, <3>1 DEF OneOwner
      <3> QED
        BY <3>1, <3>2, MetaTyped DEF FilesKept
    <2> QED
      BY <2>1, <2>2
  <1>5. \A d \in UpClients, g \in TempFiles : Spool(d, g)' => g \notin leaked' /\ files'[g] # NoFile
    BY DEF FilesKept, OneOwner
  <1>6. \A g \in leaked' : files'[g] # NoFile
    BY DEF FilesKept
  <1>7. \A g \in TempFiles : files'[g] # NoFile =>
             \/ g \in leaked'
             \/ \E i \in UploadIds, n \in PartNumbers, p \in PartMeta : PartIn(i, n, p)' /\ p.file = g
             \/ \E d \in UpClients : Spool(d, g)'
    <2> SUFFICES ASSUME NEW g \in TempFiles, files'[g] # NoFile, g \notin leaked',
                        ~ \E d \in UpClients : Spool(d, g)'
                 PROVE  \E i \in UploadIds, n \in PartNumbers, p \in PartMeta : PartIn(i, n, p)' /\ p.file = g
      OBVIOUS
    <2>1. CASE g = f
      <3>1. PartIn(id, m, r)'
        OBVIOUS
      <3> QED
        BY <2>1, <3>1
    <2>2. CASE g # f
      <3>1. ~ \E d \in UpClients : Spool(d, g)
        BY <2>2 DEF Spool
      <3>2. PICK i \in UploadIds, n \in PartNumbers, p \in PartMeta : PartIn(i, n, p) /\ p.file = g
        BY <3>1 DEF FilesKept
      <3> QED
        BY <3>2
    <2> QED
      BY <2>1, <2>2
  <1> QED
    BY <1>2, <1>4, <1>5, <1>6, <1>7 DEF FilesKept, Digest

\* and one that removes or leaks its file.
LEMMA SpoolEnded ==
    ASSUME UploadTypes, OneOwner, FilesKept, NEW c \in UpClients, NEW f \in TempFiles, Spool(c, f),
           \A i \in UploadIds, n \in PartNumbers, p \in PartMeta : PartIn(i, n, p)' <=> PartIn(i, n, p),
           \A d \in UpClients, g \in TempFiles : Spool(d, g)' <=> d # c /\ Spool(d, g),
           \/ files' = [files EXCEPT ![f] = NoFile] /\ leaked' = leaked
           \/ files' = files /\ leaked' = leaked \cup {f}
    PROVE  OneOwner' /\ FilesKept'
  <1>1. \A i \in UploadIds, n \in PartNumbers, p \in PartMeta : PartIn(i, n, p) => p.file # f
    BY DEF OneOwner
  <1>2. \A d \in UpClients : Spool(d, f) => d = c
    BY DEF OneOwner
  <1>3. OneOwner'
    BY MetaTyped DEF OneOwner
  <1>4. \A g \in TempFiles : g # f => files'[g] = files[g] /\ (g \in leaked' <=> g \in leaked)
    BY DEF UploadTypes
  <1>5. /\ files'[f] # NoFile <=> f \in leaked'
        /\ leaked' \subseteq TempFiles
    BY DEF UploadTypes, FilesKept
  <1>6. \A i \in UploadIds, n \in PartNumbers, p \in PartMeta : PartIn(i, n, p)' =>
             p.file \notin leaked' /\ files'[p.file] # NoFile /\ p.etag = Digest(files'[p.file])
    BY <1>1, <1>4, MetaTyped DEF FilesKept
  <1>7. \A d \in UpClients, g \in TempFiles : Spool(d, g)' => g \notin leaked' /\ files'[g] # NoFile
    BY <1>2, <1>4 DEF FilesKept
  <1>8. \A g \in leaked' : files'[g] # NoFile
    BY <1>4, <1>5 DEF FilesKept
  <1>9. \A g \in TempFiles : files'[g] # NoFile =>
             \/ g \in leaked'
             \/ \E i \in UploadIds, n \in PartNumbers, p \in PartMeta : PartIn(i, n, p)' /\ p.file = g
             \/ \E d \in UpClients : Spool(d, g)'
    <2> SUFFICES ASSUME NEW g \in TempFiles, files'[g] # NoFile, g \notin leaked'
                 PROVE  \/ \E i \in UploadIds, n \in PartNumbers, p \in PartMeta : PartIn(i, n, p)' /\ p.file = g
                        \/ \E d \in UpClients : Spool(d, g)'
      OBVIOUS
    <2>1. g # f
      BY <1>5
    <2>2. ~ Spool(c, g)
      BY <2>1 DEF Spool
    <2> QED
      BY <2>1, <2>2, <1>4 DEF FilesKept
  <1> QED
    BY <1>3, <1>6, <1>7, <1>8, <1>9 DEF FilesKept, Digest

\* A client is idle, spools a part or completes an upload.
LEMMA TaskKinds ==
    ASSUME UploadTypes, NEW c \in UpClients
    PROVE  /\ Completing(c) => task[c] \in CompleteTasks
           /\ task[c].op \in {"upload_part", "upload_part_copy"} => task[c] \in PartTasks
           /\ IdleTask.op = "idle"
           /\ task[c].op \in {"idle", "upload_part", "upload_part_copy", "complete"}
  BY DEF UploadTypes, Completing, IdleTask, PartTasks, CompleteTasks

\* SetTask changes one client.
LEMMA TaskSet ==
    ASSUME UploadTypes, NEW c \in UpClients, NEW t, SetTask(c, t)
    PROVE  task'[c] = t /\ \A d \in UpClients \ {c} : task'[d] = task[d]
  BY DEF UploadTypes, SetTask

\* Uploads in the table and with requests have their types.
LEMMA EntryTyped ==
    ASSUME UploadTypes
    PROVE  /\ \A i \in UploadIds : uploads[i] # NoUpload =>
                uploads[i] \in Upload /\ \A n \in PartNumbers : uploads[i].parts[n] \in {NoPart} \cup PartMeta
           /\ \A c \in UpClients : Completing(c) =>
                /\ task[c].id \in UploadIds /\ task[c].upload \in Upload /\ task[c].list \in Seq(PartNumbers)
                /\ task[c].at \in Nat /\ task[c].body \in Seq(PartData)
                /\ \A n \in PartNumbers : task[c].upload.parts[n] \in {NoPart} \cup PartMeta
  <1>1. \A i \in UploadIds : uploads[i] # NoUpload => uploads[i] \in Upload
    BY DEF UploadTypes
  <1>2. \A u \in Upload, n \in PartNumbers : u.parts[n] \in {NoPart} \cup PartMeta
    BY DEF Upload
  <1>3. \A c \in UpClients : Completing(c) =>
           /\ task[c].id \in UploadIds /\ task[c].upload \in Upload /\ task[c].list \in PartLists
           /\ task[c].at \in Nat /\ task[c].body \in Seq(PartData)
    BY TaskKinds DEF CompleteTasks
  <1> QED
    BY <1>1, <1>2, <1>3, UploadsAssumption

\* The files of an upload in the table are those of its entries;
LEMMA TableFiles ==
    ASSUME UploadTypes, HeldOnce, NEW i \in UploadIds, uploads[i] # NoUpload, NEW f
    PROVE  f \in PartFiles(uploads[i]) <=>
              \E n \in PartNumbers, p \in PartMeta : PartIn(i, n, p) /\ p.file = f
  <1>1. \A n \in PartNumbers, p \in PartMeta : PartIn(i, n, p) <=> p = uploads[i].parts[n] /\ p # NoPart
    BY DEF PartIn, HeldOnce
  <1>2. \A n \in PartNumbers : uploads[i].parts[n] # NoPart => uploads[i].parts[n] \in PartMeta
    BY EntryTyped
  <1> QED
    BY <1>1, <1>2 DEF PartFiles

\* so are those of an upload that a request completes.
LEMMA TaskFiles ==
    ASSUME UploadTypes, HeldOnce, NEW c \in UpClients, Completing(c), NEW f
    PROVE  f \in PartFiles(task[c].upload) <=>
              \E n \in PartNumbers, p \in PartMeta : PartIn(task[c].id, n, p) /\ p.file = f
  <1>1. \A n \in PartNumbers, p \in PartMeta :
           PartIn(task[c].id, n, p) <=> p = task[c].upload.parts[n] /\ p # NoPart
    BY DEF PartIn, HeldOnce
  <1>2. \A n \in PartNumbers : task[c].upload.parts[n] # NoPart => task[c].upload.parts[n] \in PartMeta
    BY EntryTyped
  <1> QED
    BY <1>1, <1>2 DEF PartFiles

\* One lemma per operation: create_multipart_upload,
LEMMA CreateStep ==
    ASSUME UploadTypes, HeldOnce, OneOwner, FilesKept, NEW id \in UploadIds, CreateUpload(id)
    PROVE  HeldOnce' /\ OneOwner' /\ FilesKept'
  <1> DEFINE D == {i \in Open : uploads[i].stale}
  <1>1. /\ id \notin given /\ given' = given \cup {id} /\ task' = task /\ leaked' = leaked
        /\ files' = DropUploads({uploads[i] : i \in D})
        /\ uploads' = [i \in UploadIds |->
                         IF i \in D THEN NoUpload
                         ELSE IF i = id /\ Cardinality(Open \ D) < MaxUploads THEN NewUpload
                         ELSE uploads[i]]
    BY DEF CreateUpload
  <1>2. \A i \in D : i \in UploadIds /\ uploads[i] # NoUpload
    BY DEF Open
  <1> HIDE DEF D
  <1>3. D \in SUBSET UploadIds
    BY <1>2
  <1>4. uploads[id] = NoUpload /\ \A c \in UpClients : Completing(c) => task[c].id # id
    BY <1>1 DEF HeldOnce
  <1>5. \A i \in UploadIds : \/ uploads'[i] = uploads[i] /\ i \notin D
                             \/ i = id /\ uploads'[i] = NewUpload /\ i \notin D
                             \/ i \in D /\ uploads'[i] = NoUpload
    BY <1>1, <1>2, <1>4
  <1>6. \A c \in UpClients : (Completing(c)' <=> Completing(c)) /\ task'[c] = task[c]
    BY <1>1 DEF Completing
  <1>7. HeldOnce'
    <2>1. \A i \in UploadIds : uploads'[i] # NoUpload => i \in given'
      BY <1>1, <1>5 DEF HeldOnce
    <2>2. \A c \in UpClients : Completing(c)' => task'[c].id \in given' /\ uploads'[task'[c].id] = NoUpload
      BY <1>1, <1>4, <1>5, <1>6, EntryTyped DEF HeldOnce
    <2>3. \A c, d \in UpClients : Completing(c)' /\ Completing(d)' /\ task'[c].id = task'[d].id => c = d
      BY <1>6 DEF HeldOnce
    <2> QED
      BY <2>1, <2>2, <2>3 DEF HeldOnce
  <1>8. \A i \in UploadIds, n \in PartNumbers, p \in PartMeta :
           PartIn(i, n, p)' <=> PartIn(i, n, p) /\ i \notin D
    <2> SUFFICES ASSUME NEW i \in UploadIds, NEW n \in PartNumbers, NEW p \in PartMeta
                 PROVE  PartIn(i, n, p)' <=> PartIn(i, n, p) /\ i \notin D
      OBVIOUS
    <2>1. NewUpload.parts[n] = NoPart
      BY DEF NewUpload
    <2>2. CASE i \in D
      BY <2>2, <1>2, <1>5, <1>6 DEF PartIn, HeldOnce
    <2>3. CASE i \notin D
      BY <2>1, <2>3, <1>4, <1>5, <1>6 DEF PartIn
    <2> QED
      BY <2>2, <2>3
  <1>9. \A c \in UpClients, f \in TempFiles : Spool(c, f)' <=> Spool(c, f)
    BY <1>6 DEF Spool
  <1>10. \A f \in TempFiles :
              files'[f] = IF \E i \in D, n \in PartNumbers, p \in PartMeta : PartIn(i, n, p) /\ p.file = f
                          THEN NoFile ELSE files[f]
    <2>1. \A f \in TempFiles : files'[f] = IF \E i \in D : f \in PartFiles(uploads[i]) THEN NoFile ELSE files[f]
      BY <1>1 DEF DropUploads
    <2>2. \A f \in TempFiles, i \in D : f \in PartFiles(uploads[i]) <=>
              \E n \in PartNumbers, p \in PartMeta : PartIn(i, n, p) /\ p.file = f
      BY <1>2, TableFiles
    <2> QED
      BY <2>1, <2>2
  <1> QED
    BY <1>1, <1>3, <1>7, <1>8, <1>9, <1>10, OwnersDropped

\* the clock,
LEMMA AgesStep ==
    ASSUME UploadTypes, HeldOnce, OneOwner, FilesKept, NEW id \in UploadIds, UploadAges(id)
    PROVE  HeldOnce' /\ OneOwner' /\ FilesKept'
  <1>1. uploads[id] # NoUpload /\ UNCHANGED <<given, files, task, leaked>>
    BY DEF UploadAges, Open
  <1>2. uploads'[id] \in Upload /\ uploads'[id].parts = uploads[id].parts
    <2>1. uploads[id] \in Upload
      BY <1>1, EntryTyped
    <2> QED
      BY <2>1 DEF UploadAges, Upload, UploadTypes
  <1>3. uploads'[id] # NoUpload /\ \A i \in UploadIds \ {id} : uploads'[i] = uploads[i]
    BY <1>2, UploadsAssumption DEF UploadAges, UploadTypes
  <1>4. \A i \in UploadIds, n \in PartNumbers, p \in PartMeta : PartIn(i, n, p)' <=> PartIn(i, n, p)
    BY <1>1, <1>2, <1>3 DEF PartIn, Completing
  <1>5. \A c \in UpClients, f \in TempFiles : Spool(c, f)' <=> Spool(c, f)
    BY <1>1 DEF Spool
  <1>6. HeldOnce'
    BY <1>1, <1>3, EntryTyped DEF HeldOnce, Completing
  <1> QED
    BY <1>1, <1>4, <1>5, <1>6, OwnersSame

\* abort_multipart_upload and the purge of a stale upload,
LEMMA AbortStep ==
    ASSUME UploadTypes, HeldOnce, OneOwner, FilesKept, NEW id \in UploadIds, uploads[id] # NoUpload,
           uploads' = [uploads EXCEPT ![id] = NoUpload],
           files' = DropUploads({uploads[id]}),
           UNCHANGED <<given, task, leaked>>
    PROVE  HeldOnce' /\ OneOwner' /\ FilesKept'
  <1>1. uploads'[id] = NoUpload /\ \A i \in UploadIds \ {id} : uploads'[i] = uploads[i]
    BY DEF UploadTypes
  <1>2. HeldOnce'
    BY <1>1, EntryTyped DEF HeldOnce, Completing
  <1>3. \A i \in UploadIds, n \in PartNumbers, p \in PartMeta :
           PartIn(i, n, p)' <=> PartIn(i, n, p) /\ i \notin {id}
    BY <1>1 DEF PartIn, HeldOnce, Completing
  <1>4. \A c \in UpClients, f \in TempFiles : Spool(c, f)' <=> Spool(c, f)
    BY DEF Spool
  <1>5. \A f \in TempFiles :
              files'[f] = IF \E i \in {id}, n \in PartNumbers, p \in PartMeta : PartIn(i, n, p) /\ p.file = f
                          THEN NoFile ELSE files[f]
    BY TableFiles DEF DropUploads
  <1> QED
    BY <1>2, <1>3, <1>4, <1>5, OwnersDropped

\* the end of complete_multipart_upload, which drops its upload,
LEMMA CompleteDropped ==
    ASSUME UploadTypes, HeldOnce, OneOwner, FilesKept, NEW c \in UpClients, Completing(c),
           End(c), files' = DropUploads({task[c].upload}),
           UNCHANGED <<uploads, given, leaked>>
    PROVE  HeldOnce' /\ OneOwner' /\ FilesKept'
  <1>1. task'[c] = IdleTask /\ \A d \in UpClients \ {c} : task'[d] = task[d]
    BY TaskSet DEF End
  <1>2. ~ Completing(c)' /\ \A d \in UpClients \ {c} : Completing(d)' <=> Completing(d)
    BY <1>1, TaskKinds DEF Completing
  <1>3. HeldOnce'
    BY <1>1, <1>2 DEF HeldOnce
  <1>4. \A i \in UploadIds, n \in PartNumbers, p \in PartMeta :
           PartIn(i, n, p)' <=> PartIn(i, n, p) /\ i \notin {task[c].id}
    BY <1>1, <1>2 DEF PartIn, HeldOnce
  <1>5. \A d \in UpClients, f \in TempFiles : Spool(d, f)' <=> Spool(d, f)
    BY <1>1, TaskKinds DEF Spool, Completing
  <1>6. \A f \in TempFiles :
              files'[f] = IF \E i \in {task[c].id}, n \in PartNumbers, p \in PartMeta : PartIn(i, n, p) /\ p.file = f
                          THEN NoFile ELSE files[f]
    BY TaskFiles DEF DropUploads
  <1>7. {task[c].id} \in SUBSET UploadIds
    BY EntryTyped
  <1> QED
    BY <1>3, <1>4, <1>5, <1>6, <1>7, OwnersDropped

\* its beginning, which takes the upload out of the table,
LEMMA StartCompleteStep ==
    ASSUME UploadTypes, HeldOnce, OneOwner, FilesKept, NEW c \in UpClients, NEW id \in UploadIds,
           NEW list \in PartLists, StartComplete(c, id, list)
    PROVE  HeldOnce' /\ OneOwner' /\ FilesKept'
  <1>1. /\ task[c] = IdleTask /\ uploads[id] # NoUpload /\ UNCHANGED <<given, leaked>>
        /\ uploads' = [uploads EXCEPT ![id] = NoUpload]
    BY DEF StartComplete, Open
  <1>2. CASE list = <<>>
    BY <1>1, <1>2, AbortStep DEF StartComplete
  <1>3. CASE list # <<>>
    <2> DEFINE t == [op |-> "complete", id |-> id, upload |-> uploads[id],
                     list |-> list, at |-> 1, body |-> <<>>]
    <2>1. SetTask(c, t) /\ files' = files
      BY <1>3 DEF StartComplete
    <2>2. t.op = "complete" /\ t.id = id /\ t.upload = uploads[id]
      OBVIOUS
    <2> HIDE DEF t
    <2>3. task'[c] = t /\ \A d \in UpClients \ {c} : task'[d] = task[d]
      BY <2>1, TaskSet
    <2>4. uploads'[id] = NoUpload /\ \A i \in UploadIds \ {id} : uploads'[i] = uploads[i]
      BY <1>1 DEF UploadTypes
    <2>5. ~ Completing(c) /\ Completing(c)' /\ \A d \in UpClients \ {c} : Completing(d)' <=> Completing(d)
      BY <1>1, <2>2, <2>3, TaskKinds DEF Completing
    <2>6. HeldOnce'
      BY <1>1, <2>2, <2>3, <2>4, <2>5, EntryTyped DEF HeldOnce
    <2>7. \A i \in UploadIds, n \in PartNumbers, p \in PartMeta : PartIn(i, n, p)' <=> PartIn(i, n, p)
      <3> SUFFICES ASSUME NEW i \in UploadIds, NEW n \in PartNumbers, NEW p \in PartMeta
                   PROVE  PartIn(i, n, p)' <=> PartIn(i, n, p)
        OBVIOUS
      <3>1. CASE i = id
        BY <3>1, <1>1, <2>2, <2>3, <2>4, <2>5 DEF PartIn, HeldOnce
      <3>2. CASE i # id
        BY <3>2, <2>2, <2>3, <2>4, <2>5 DEF PartIn
      <3> QED
        BY <3>1, <3>2
    <2>8. \A d \in UpClients, f \in TempFiles : Spool(d, f)' <=> Spool(d, f)
      BY <1>1, <2>2, <2>3, TaskKinds DEF Spool
    <2> QED
      BY <1>1, <2>1, <2>6, <2>7, <2>8, OwnersSame
  <1> QED
    BY <1>2, <1>3

\* its reading of a part,
LEMMA CompletePartStep ==
    ASSUME UploadTypes, HeldOnce, OneOwner, FilesKept, NEW c \in UpClients, CompletePart(c)
    PROVE  HeldOnce' /\ OneOwner' /\ FilesKept'
  <1> DEFINE t == task[c]
             p == t.upload.parts[NextPart(t)]
             n == [t EXCEPT !.at = @ + 1, !.body = Append(@, files[p.file])]
  <1>1. Completing(c) /\ UNCHANGED <<uploads, given, leaked>>
    BY DEF CompletePart, Completing
  <1>2. CASE files' = DropUploads({t.upload}) /\ End(c)
    BY <1>1, <1>2, CompleteDropped
  <1>3. CASE SetTask(c, n) /\ files' = files
    <2>1. n.op = t.op /\ n.id = t.id /\ n.upload = t.upload
      BY <1>1, TaskKinds DEF CompleteTasks
    <2> HIDE DEF n, t
    <2>2. task'[c] = n /\ \A d \in UpClients \ {c} : task'[d] = task[d]
      BY <1>3, TaskSet
    <2>3. \A d \in UpClients : /\ task'[d].op = task[d].op
                               /\ task'[d].op = "complete" => /\ task'[d].id = task[d].id
                                                              /\ task'[d].upload = task[d].upload
                               /\ task'[d].op # "complete" => task'[d] = task[d]
      BY <1>1, <2>1, <2>2 DEF t, Completing
    <2>4. HeldOnce'
      BY <1>1, <2>3 DEF HeldOnce, Completing
    <2>5. \A i \in UploadIds, m \in PartNumbers, q \in PartMeta : PartIn(i, m, q)' <=> PartIn(i, m, q)
      BY <1>1, <2>3 DEF PartIn, Completing
    <2>6. \A d \in UpClients, f \in TempFiles : Spool(d, f)' <=> Spool(d, f)
      BY <2>3 DEF Spool
    <2> QED
      BY <1>1, <1>3, <2>4, <2>5, <2>6, OwnersSame
  <1> QED
    BY <1>2, <1>3 DEF CompletePart

\* its failure at the store,
LEMMA StoreFailsStep ==
    ASSUME UploadTypes, HeldOnce, OneOwner, FilesKept, NEW c \in UpClients, CompleteStoreFails(c)
    PROVE  HeldOnce' /\ OneOwner' /\ FilesKept'
  <1>1. Completing(c) /\ UNCHANGED <<given, leaked, files>> /\ End(c)
    BY DEF CompleteStoreFails, Completing
  <1> DEFINE id == task[c].id
  <1>2. id \in UploadIds /\ task[c].upload \in Upload /\ task[c].upload # NoUpload
    BY <1>1, EntryTyped, UploadsAssumption
  <1>3. uploads'[id] = task[c].upload /\ \A i \in UploadIds \ {id} : uploads'[i] = uploads[i]
    BY <1>2 DEF CompleteStoreFails, UploadTypes
  <1>4. task'[c] = IdleTask /\ \A d \in UpClients \ {c} : task'[d] = task[d]
    BY <1>1, TaskSet DEF End
  <1>5. ~ Completing(c)' /\ \A d \in UpClients \ {c} : Completing(d)' <=> Completing(d)
    BY <1>4, TaskKinds DEF Completing
  <1>6. HeldOnce'
    BY <1>1, <1>2, <1>3, <1>4, <1>5, EntryTyped DEF HeldOnce
  <1>7. \A i \in UploadIds, n \in PartNumbers, p \in PartMeta : PartIn(i, n, p)' <=> PartIn(i, n, p)
    <2> SUFFICES ASSUME NEW i \in UploadIds, NEW n \in PartNumbers, NEW p \in PartMeta
                 PROVE  PartIn(i, n, p)' <=> PartIn(i, n, p)
      OBVIOUS
    <2>1. CASE i = id
      BY <2>1, <1>1, <1>2, <1>3, <1>4, <1>5 DEF PartIn, HeldOnce
    <2>2. CASE i # id
      BY <2>2, <1>3, <1>4, <1>5 DEF PartIn
    <2> QED
      BY <2>1, <2>2
  <1>8. \A d \in UpClients, f \in TempFiles : Spool(d, f)' <=> Spool(d, f)
    BY <1>1, <1>4, TaskKinds DEF Spool, Completing
  <1> QED
    BY <1>1, <1>6, <1>7, <1>8, OwnersSame

\* the spooling of a part,
LEMMA StartPartStep ==
    ASSUME UploadTypes, HeldOnce, OneOwner, FilesKept, NEW c \in UpClients, NEW id \in UploadIds,
           NEW op \in {"upload_part", "upload_part_copy"}, NEW n \in PartNumbers, NEW data \in PartData,
           StartPart(c, op, id, n, data)
    PROVE  HeldOnce' /\ OneOwner' /\ FilesKept'
  <1> DEFINE f == CHOOSE g \in Fresh : TRUE
             t == [op |-> op, id |-> id, part |-> n, file |-> f]
  <1>1. /\ task[c] = IdleTask /\ UNCHANGED <<uploads, given, leaked>>
        /\ files' = [files EXCEPT ![f] = data] /\ SetTask(c, t)
    BY DEF StartPart
  <1>2. f \in Fresh
    BY DEF StartPart
  <1>3. t.op = op /\ t.file = f
    OBVIOUS
  <1> HIDE DEF f, t
  <1>4. f \in TempFiles /\ files[f] = NoFile
    BY <1>2 DEF Fresh, Named
  <1>5. task'[c] = t /\ \A d \in UpClients \ {c} : task'[d] = task[d]
    BY <1>1, TaskSet
  <1>6. ~ Completing(c) /\ ~ Completing(c)' /\ \A d \in UpClients \ {c} : Completing(d)' <=> Completing(d)
    BY <1>1, <1>3, <1>5, TaskKinds DEF Completing
  <1>7. HeldOnce'
    BY <1>1, <1>5, <1>6 DEF HeldOnce
  <1>8. \A i \in UploadIds, m \in PartNumbers, p \in PartMeta : PartIn(i, m, p)' <=> PartIn(i, m, p)
    BY <1>1, <1>5, <1>6 DEF PartIn
  <1>9. \A d \in UpClients, g \in TempFiles : Spool(d, g)' <=> IF d = c THEN g = f ELSE Spool(d, g)
    BY <1>3, <1>5 DEF Spool
  <1>10. \A g \in TempFiles : ~ Spool(c, g)
    BY <1>1, TaskKinds DEF Spool
  <1> QED
    BY <1>1, <1>4, <1>7, <1>8, <1>9, <1>10, SpoolStarted

\* what the end of such a request leaves alone,
LEMMA TaskEnds ==
    ASSUME UploadTypes, HeldOnce, NEW c \in UpClients, ~ Completing(c), End(c), given' = given
    PROVE  /\ \A d \in UpClients : Completing(d)' <=> Completing(d)
           /\ \A d \in UpClients : Completing(d) => task'[d] = task[d]
           /\ \A d \in UpClients, g \in TempFiles : Spool(d, g)' <=> d # c /\ Spool(d, g)
           /\ uploads' = uploads => HeldOnce'
           /\ uploads' = uploads => \A i \in UploadIds, n \in PartNumbers, p \in PartMeta :
                                      PartIn(i, n, p)' <=> PartIn(i, n, p)
  <1>1. task'[c] = IdleTask /\ \A d \in UpClients \ {c} : task'[d] = task[d]
    BY TaskSet DEF End
  <1>2. \A d \in UpClients : Completing(d)' <=> Completing(d)
    BY <1>1, TaskKinds DEF Completing
  <1>3. \A d \in UpClients : Completing(d) => task'[d] = task[d]
    BY <1>1
  <1>4. \A d \in UpClients, g \in TempFiles : Spool(d, g)' <=> d # c /\ Spool(d, g)
    BY <1>1, TaskKinds DEF Spool
  <1>5. ASSUME uploads' = uploads PROVE HeldOnce'
    BY <1>2, <1>3, <1>5 DEF HeldOnce
  <1>6. ASSUME uploads' = uploads, NEW i \in UploadIds, NEW n \in PartNumbers, NEW p \in PartMeta
        PROVE  PartIn(i, n, p)' <=> PartIn(i, n, p)
    BY <1>2, <1>3, <1>6 DEF PartIn
  <1> QED
    BY <1>2, <1>3, <1>4, <1>5, <1>6

\* its entry in the table under the lock,
LEMMA RegisterStep ==
    ASSUME UploadTypes, HeldOnce, OneOwner, FilesKept, NEW c \in UpClients, task[c] \in PartTasks,
           uploads[task[c].id] # NoUpload,
           Register(task[c].id, task[c].part, task[c].file),
           leaked' = leaked \cup Replaced(task[c].id, task[c].part),
           End(c), UNCHANGED <<given, files>>
    PROVE  HeldOnce' /\ OneOwner' /\ FilesKept'
  <1> DEFINE id == task[c].id
             m == task[c].part
             f == task[c].file
             r == [file |-> f, etag |-> Digest(files[f])]
  <1>1. id \in UploadIds /\ m \in PartNumbers /\ f \in TempFiles /\ Spool(c, f) /\ ~ Completing(c)
    BY DEF PartTasks, Spool, Completing
  <1>2. files[f] # NoFile /\ files[f] \in PartData
    BY <1>1 DEF FilesKept, UploadTypes
  <1>3. r \in PartMeta /\ r.file = f /\ r.etag = Digest(files[f])
    BY <1>1, <1>2 DEF PartMeta
  <1>4. uploads' = [uploads EXCEPT ![id].parts[m] = r]
    BY DEF Register
  <1>5. leaked' = leaked \cup (IF uploads[id].parts[m] = NoPart THEN {} ELSE {uploads[id].parts[m].file})
    BY DEF Replaced
  <1>6. uploads[id] \in Upload
    BY <1>1, EntryTyped
  <1> HIDE DEF id, m, f, r
  <1>7. \A i \in UploadIds \ {id} : uploads'[i] = uploads[i]
    BY <1>1, <1>4 DEF UploadTypes
  <1>8. uploads'[id] = [uploads[id] EXCEPT !.parts[m] = r]
    BY <1>1, <1>4 DEF UploadTypes
  <1>9. /\ uploads'[id].parts = [uploads[id].parts EXCEPT ![m] = r]
        /\ uploads'[id] \in Upload
    BY <1>1, <1>3, <1>6, <1>8 DEF Upload
  <1>10. \A n \in PartNumbers : uploads'[id].parts[n] = IF n = m THEN r ELSE uploads[id].parts[n]
    BY <1>1, <1>6, <1>9 DEF Upload
  <1>11. uploads'[id] # NoUpload /\ uploads[id] # NoUpload
    BY <1>9, UploadsAssumption DEF id
  <1>12. /\ \A d \in UpClients : Completing(d)' <=> Completing(d)
         /\ \A d \in UpClients : Completing(d) => task'[d] = task[d]
         /\ \A d \in UpClients, g \in TempFiles : Spool(d, g)' <=> d # c /\ Spool(d, g)
    BY <1>1, TaskEnds
  <1>13. \A d \in UpClients : Completing(d) => task[d].id # id
    BY <1>11 DEF HeldOnce
  <1>14. HeldOnce'
    BY <1>7, <1>11, <1>12, <1>13, EntryTyped DEF HeldOnce
  <1>15. \A i \in UploadIds, n \in PartNumbers, p \in PartMeta :
              PartIn(i, n, p)' <=> IF i = id /\ n = m THEN p = r ELSE PartIn(i, n, p)
    <2> SUFFICES ASSUME NEW i \in UploadIds, NEW n \in PartNumbers, NEW p \in PartMeta
                 PROVE  PartIn(i, n, p)' <=> IF i = id /\ n = m THEN p = r ELSE PartIn(i, n, p)
      OBVIOUS
    <2>1. CASE i = id
      BY <2>1, <1>10, <1>11, <1>12, <1>13, MetaTyped DEF PartIn
    <2>2. CASE i # id
      BY <2>2, <1>7, <1>12 DEF PartIn
    <2> QED
      BY <2>1, <2>2
  <1>16. \A q \in PartMeta : PartIn(id, m, q) <=> q = uploads[id].parts[m]
    BY <1>11, <1>13, MetaTyped DEF PartIn
  <1>17. uploads[id].parts[m] \in {NoPart} \cup PartMeta
    BY <1>1, <1>11, EntryTyped
  <1>18. \A g \in TempFiles : g \in leaked' <=> \/ g \in leaked
                                               \/ \E q \in PartMeta : PartIn(id, m, q) /\ q.file = g
    BY <1>5, <1>16, <1>17, MetaTyped
  <1>19. leaked' \subseteq TempFiles
    BY <1>5, <1>17, MetaTyped DEF UploadTypes
  <1> QED
    BY <1>1, <1>3, <1>12, <1>14, <1>15, <1>18, <1>19, SpoolEntered

\* its end without one,
LEMMA PartEnds ==
    ASSUME UploadTypes, HeldOnce, OneOwner, FilesKept, NEW c \in UpClients, task[c] \in PartTasks,
           \/ files' = [files EXCEPT ![task[c].file] = NoFile] /\ leaked' = leaked
           \/ files' = files /\ leaked' = leaked \cup {task[c].file},
           End(c), UNCHANGED <<given, uploads>>
    PROVE  HeldOnce' /\ OneOwner' /\ FilesKept'
  <1>1. task[c].file \in TempFiles /\ Spool(c, task[c].file) /\ ~ Completing(c)
    BY DEF PartTasks, Spool, Completing
  <1> QED
    BY <1>1, TaskEnds, SpoolEnded

\* and the death of the server, which leaks every file.
LEMMA DiesStep ==
    ASSUME UploadTypes, HeldOnce, OneOwner, FilesKept, ServerDies
    PROVE  HeldOnce' /\ OneOwner' /\ FilesKept'
  <1>1. /\ \A i \in UploadIds : uploads'[i] = NoUpload
        /\ \A c \in UpClients : task'[c] = IdleTask
        /\ leaked' = {f \in TempFiles : files[f] # NoFile} /\ files' = files
    BY DEF ServerDies
  <1>2. IdleTask.op = "idle"
    BY DEF IdleTask
  <1>3. \A i \in UploadIds, n \in PartNumbers, p \in PartMeta : ~ PartIn(i, n, p)'
    BY <1>1, <1>2 DEF PartIn, Completing
  <1>4. \A c \in UpClients, f \in TempFiles : ~ Spool(c, f)' /\ ~ Completing(c)'
    BY <1>1, <1>2 DEF Spool, Completing
  <1>5. HeldOnce'
    BY <1>1, <1>2 DEF HeldOnce, Completing
  <1>6. OneOwner' /\ FilesKept'
    BY <1>1, <1>3, <1>4 DEF OneOwner, FilesKept
  <1> QED
    BY <1>5, <1>6

\* Removing files keeps the type.
LEMMA DropTyped ==
    ASSUME UploadTypes, NEW U
    PROVE  DropUploads(U) \in [TempFiles -> {NoFile} \cup PartData]
  BY DEF DropUploads, UploadTypes

\* Each step keeps the types.
LEMMA UploadTypesStep == UploadInv /\ [UploadsNext]_uploadVars => UploadTypes'
  <1> SUFFICES ASSUME UploadInv, [UploadsNext]_uploadVars PROVE UploadTypes'
    OBVIOUS
  <1>t. UploadTypes /\ FilesKept
    BY DEF UploadInv
  <1>i. \A c \in UpClients : End(c) => task' \in [UpClients -> {IdleTask} \cup PartTasks \cup CompleteTasks]
    BY <1>t DEF End, SetTask, UploadTypes
  <1>n. NewUpload \in Upload
    BY DEF NewUpload, Upload
  <1>1. ASSUME NEW id \in UploadIds, CreateUpload(id) PROVE UploadTypes'
    <2>1. uploads' \in [UploadIds -> {NoUpload} \cup Upload]
      BY <1>1, <1>t, <1>n DEF CreateUpload, UploadTypes
    <2>2. files' \in [TempFiles -> {NoFile} \cup PartData]
      BY <1>1, <1>t, DropTyped DEF CreateUpload
    <2> QED
      BY <1>1, <1>t, <2>1, <2>2 DEF CreateUpload, UploadTypes
  <1>2. ASSUME NEW id \in UploadIds, UploadAges(id) PROVE UploadTypes'
    <2>1. uploads[id] \in Upload
      BY <1>2, <1>t, EntryTyped DEF UploadAges, Open
    <2>2. [uploads[id] EXCEPT !.stale = TRUE] \in Upload
      BY <2>1 DEF Upload
    <2>3. uploads' = [uploads EXCEPT ![id] = [uploads[id] EXCEPT !.stale = TRUE]]
      BY <1>2, <1>t DEF UploadAges, UploadTypes
    <2>4. uploads' \in [UploadIds -> {NoUpload} \cup Upload]
      BY <1>t, <2>2, <2>3 DEF UploadTypes
    <2> QED
      BY <1>2, <1>t, <2>4 DEF UploadAges, UploadTypes
  <1>3. ASSUME NEW id \in UploadIds, AbortUpload(id) PROVE UploadTypes'
    <2>1. files' \in [TempFiles -> {NoFile} \cup PartData]
      BY <1>3, <1>t, DropTyped DEF AbortUpload
    <2> QED
      BY <1>3, <1>t, <2>1 DEF AbortUpload, UploadTypes
  <1>4. ASSUME NEW id \in UploadIds, NEW c \in UpClients, NEW op \in {"upload_part", "upload_part_copy"},
               NEW n \in PartNumbers, NEW data \in PartData, StartPart(c, op, id, n, data)
        PROVE  UploadTypes'
    <2> DEFINE f == CHOOSE g \in Fresh : TRUE
               t == [op |-> op, id |-> id, part |-> n, file |-> f]
    <2>1. f \in TempFiles
      BY <1>4 DEF StartPart, Fresh
    <2>2. /\ files' = [files EXCEPT ![f] = data] /\ task' = [task EXCEPT ![c] = t]
          /\ UNCHANGED <<uploads, given, leaked>>
      BY <1>4 DEF StartPart, SetTask
    <2>3. t \in PartTasks
      BY <2>1 DEF PartTasks
    <2> HIDE DEF f, t
    <2> QED
      BY <1>t, <2>1, <2>2, <2>3 DEF UploadTypes
  <1>5. ASSUME NEW id \in UploadIds, NEW c \in UpClients, NEW list \in PartLists, StartComplete(c, id, list)
        PROVE  UploadTypes'
    <2> DEFINE t == [op |-> "complete", id |-> id, upload |-> uploads[id],
                     list |-> list, at |-> 1, body |-> <<>>]
    <2>1. uploads[id] \in Upload
      BY <1>5, <1>t, EntryTyped DEF StartComplete, Open
    <2>2. t \in CompleteTasks
      BY <2>1 DEF CompleteTasks
    <2>3. \/ task' = task \/ task' = [task EXCEPT ![c] = t]
      BY <1>5 DEF StartComplete, SetTask
    <2> HIDE DEF t
    <2>4. files' \in [TempFiles -> {NoFile} \cup PartData]
      BY <1>5, <1>t, DropTyped DEF StartComplete, UploadTypes
    <2>5. task' \in [UpClients -> {IdleTask} \cup PartTasks \cup CompleteTasks]
      BY <1>t, <2>2, <2>3 DEF UploadTypes
    <2> QED
      BY <1>5, <1>t, <2>4, <2>5 DEF StartComplete, UploadTypes
  <1>r. ASSUME NEW c \in UpClients, task[c] \in PartTasks, uploads[task[c].id] # NoUpload,
               Register(task[c].id, task[c].part, task[c].file)
        PROVE  /\ uploads' \in [UploadIds -> {NoUpload} \cup Upload]
               /\ Replaced(task[c].id, task[c].part) \subseteq TempFiles
    <2> DEFINE id == task[c].id
               m == task[c].part
               f == task[c].file
               r == [file |-> f, etag |-> Digest(files[f])]
    <2>1. id \in UploadIds /\ m \in PartNumbers /\ f \in TempFiles /\ Spool(c, f)
      BY <1>r DEF PartTasks, Spool
    <2>2. files[f] \in PartData
      BY <2>1, <1>t DEF FilesKept, UploadTypes
    <2>3. r \in PartMeta
      BY <2>1, <2>2 DEF PartMeta
    <2>4. uploads[id] \in Upload
      BY <1>r, <1>t, <2>1, EntryTyped
    <2>5. uploads' = [uploads EXCEPT ![id].parts[m] = r]
      BY <1>r DEF Register
    <2>6. Replaced(id, m) \subseteq TempFiles
      BY <1>r, <1>t, <2>1, EntryTyped, MetaTyped DEF Replaced
    <2> HIDE DEF id, m, f, r
    <2>7. [uploads[id] EXCEPT !.parts[m] = r] \in Upload
      BY <2>1, <2>3, <2>4 DEF Upload
    <2>8. uploads' \in [UploadIds -> {NoUpload} \cup Upload]
      BY <1>t, <2>1, <2>5, <2>7 DEF UploadTypes
    <2> QED
      BY <2>6, <2>8 DEF id, m
  <1>6. ASSUME NEW c \in UpClients, FinishPart(c) \/ PartFails(c) \/ FinishPartCopy(c) PROVE UploadTypes'
    <2>1. task[c] \in PartTasks /\ task[c].file \in TempFiles
      BY <1>6, <1>t, TaskKinds DEF FinishPart, PartFails, FinishPartCopy, PartTasks
    <2>2. End(c) /\ given' = given
      BY <1>6 DEF FinishPart, PartFails, FinishPartCopy
    <2>3. files' \in [TempFiles -> {NoFile} \cup PartData]
      BY <1>6, <1>t, <2>1 DEF FinishPart, PartFails, FinishPartCopy, UploadTypes
    <2>4. uploads' \in [UploadIds -> {NoUpload} \cup Upload] /\ leaked' \subseteq TempFiles
      BY <1>6, <1>t, <1>r, <2>1 DEF FinishPart, PartFails, FinishPartCopy, UploadTypes
    <2> QED
      BY <1>t, <1>i, <2>2, <2>3, <2>4 DEF UploadTypes
  <1>7. ASSUME NEW c \in UpClients, CompletePart(c) PROVE UploadTypes'
    <2> DEFINE t == task[c]
               p == t.upload.parts[NextPart(t)]
               n == [t EXCEPT !.at = @ + 1, !.body = Append(@, files[p.file])]
    <2>1. t \in CompleteTasks /\ t.list \in Seq(PartNumbers) /\ t.at \in Nat
      BY <1>7, <1>t, TaskKinds, EntryTyped DEF CompletePart, Completing
    <2>2. CASE files' = DropUploads({t.upload}) /\ End(c)
      BY <1>7, <1>t, <1>i, <2>2, DropTyped DEF CompletePart, UploadTypes
    <2>3. CASE SetTask(c, n) /\ files' = files /\ p # NoPart /\ files[p.file] # NoFile
      <3>1. t.at >= 1 /\ t.at <= Len(t.list)
        BY <1>7 DEF CompletePart, UploadInv, Assembled, Completing
      <3>2. NextPart(t) \in PartNumbers
        BY <2>1, <3>1 DEF NextPart
      <3>3. p \in PartMeta
        BY <1>7, <1>t, <2>3, <3>2, EntryTyped DEF CompletePart, Completing
      <3>4. files[p.file] \in PartData
        BY <1>t, <2>3, <3>3, MetaTyped DEF UploadTypes
      <3> HIDE DEF p, t
      <3>5. Append(t.body, files[p.file]) \in Seq(PartData) /\ t.at + 1 \in Nat
        BY <2>1, <3>4 DEF CompleteTasks
      <3>6. n \in CompleteTasks
        BY <2>1, <3>5 DEF CompleteTasks
      <3> HIDE DEF n
      <3> QED
        BY <1>7, <1>t, <2>3, <3>6 DEF CompletePart, UploadTypes, SetTask
    <2> QED
      BY <1>7, <2>2, <2>3 DEF CompletePart
  <1>8. ASSUME NEW c \in UpClients, CompleteStore(c) PROVE UploadTypes'
    BY <1>8, <1>t, <1>i, DropTyped DEF CompleteStore, UploadTypes
  <1>9. ASSUME NEW c \in UpClients, CompleteStoreFails(c) PROVE UploadTypes'
    <2>1. task[c].id \in UploadIds /\ task[c].upload \in Upload
      BY <1>9, <1>t, EntryTyped DEF CompleteStoreFails, Completing
    <2> QED
      BY <1>9, <1>t, <1>i, <2>1 DEF CompleteStoreFails, UploadTypes
  <1>10. ASSUME NEW c \in UpClients, Disconnect(c) PROVE UploadTypes'
    <2>1. files' \in [TempFiles -> {NoFile} \cup PartData]
      BY <1>10, <1>t, DropTyped DEF Disconnect, UploadTypes
    <2>2. task[c].op # "complete" => task[c].file \in TempFiles
      BY <1>10, <1>t DEF Disconnect, UploadTypes, CompleteTasks, PartTasks
    <2>3. leaked' \subseteq TempFiles
      BY <1>10, <1>t, <2>2 DEF Disconnect, UploadTypes
    <2> QED
      BY <1>10, <1>t, <1>i, <2>1, <2>3 DEF Disconnect, UploadTypes
  <1>11. CASE ServerDies
    BY <1>11, <1>t DEF ServerDies, UploadTypes
  <1>12. CASE UNCHANGED uploadVars
    BY <1>12, <1>t DEF uploadVars, UploadTypes
  <1> QED
    BY <1>1, <1>2, <1>3, <1>4, <1>5, <1>6, <1>7, <1>8, <1>9, <1>10, <1>11, <1>12 DEF UploadsNext

\* Each step keeps the ownership.
LEMMA OwnersStep == UploadInv /\ [UploadsNext]_uploadVars => HeldOnce' /\ OneOwner' /\ FilesKept'
  <1> SUFFICES ASSUME UploadInv, [UploadsNext]_uploadVars PROVE HeldOnce' /\ OneOwner' /\ FilesKept'
    OBVIOUS
  <1>t. UploadTypes /\ HeldOnce /\ OneOwner /\ FilesKept
    BY DEF UploadInv
  <1> USE <1>t
  <1>1. ASSUME NEW id \in UploadIds, CreateUpload(id) \/ UploadAges(id) \/ AbortUpload(id)
        PROVE  HeldOnce' /\ OneOwner' /\ FilesKept'
    BY <1>1, CreateStep, AgesStep, AbortStep DEF AbortUpload, Open
  <1>2. ASSUME NEW id \in UploadIds, NEW c \in UpClients, NEW op \in {"upload_part", "upload_part_copy"},
               NEW n \in PartNumbers, NEW data \in PartData, StartPart(c, op, id, n, data)
        PROVE  HeldOnce' /\ OneOwner' /\ FilesKept'
    BY <1>2, StartPartStep
  <1>3. ASSUME NEW id \in UploadIds, NEW c \in UpClients, NEW list \in PartLists, StartComplete(c, id, list)
        PROVE  HeldOnce' /\ OneOwner' /\ FilesKept'
    BY <1>3, StartCompleteStep
  <1>4. ASSUME NEW c \in UpClients, FinishPart(c) \/ PartFails(c) \/ FinishPartCopy(c)
        PROVE  HeldOnce' /\ OneOwner' /\ FilesKept'
    <2>1. task[c] \in PartTasks /\ End(c) /\ given' = given
      BY <1>4, TaskKinds DEF FinishPart, PartFails, FinishPartCopy
    <2>2. \/ /\ uploads[task[c].id] # NoUpload
             /\ Register(task[c].id, task[c].part, task[c].file)
             /\ leaked' = leaked \cup Replaced(task[c].id, task[c].part)
             /\ files' = files
          \/ /\ uploads' = uploads
             /\ files' = [files EXCEPT ![task[c].file] = NoFile] /\ leaked' = leaked
          \/ /\ uploads' = uploads
             /\ files' = files /\ leaked' = leaked \cup {task[c].file}
      BY <1>4 DEF FinishPart, PartFails, FinishPartCopy
    <2> QED
      BY <2>1, <2>2, RegisterStep, PartEnds
  <1>5. ASSUME NEW c \in UpClients, CompletePart(c) \/ CompleteStoreFails(c)
        PROVE  HeldOnce' /\ OneOwner' /\ FilesKept'
    BY <1>5, CompletePartStep, StoreFailsStep
  <1>6. ASSUME NEW c \in UpClients, CompleteStore(c)
        PROVE  HeldOnce' /\ OneOwner' /\ FilesKept'
    BY <1>6, CompleteDropped DEF CompleteStore, Completing
  <1>7. ASSUME NEW c \in UpClients, Disconnect(c)
        PROVE  HeldOnce' /\ OneOwner' /\ FilesKept'
    <2>1. CASE Completing(c)
      BY <1>7, <2>1, CompleteDropped DEF Disconnect, Completing
    <2>2. CASE ~ Completing(c)
      <3>1. task[c] \in PartTasks
        BY <1>7, <2>2 DEF Disconnect, Completing, UploadTypes, CompleteTasks
      <3> QED
        BY <1>7, <2>2, <3>1, PartEnds DEF Disconnect, Completing
    <2> QED
      BY <2>1, <2>2
  <1>8. CASE ServerDies
    BY <1>8, DiesStep
  <1>9. CASE UNCHANGED uploadVars
    BY <1>9 DEF uploadVars, HeldOnce, OneOwner, FilesKept, PartIn, Spool, Completing
  <1> QED
    BY <1>1, <1>2, <1>3, <1>4, <1>5, <1>6, <1>7, <1>8, <1>9 DEF UploadsNext

\* Assembled, of one task.
AssembledBy(t) ==
    /\ t.at \in 1..(Len(t.list) + 1) /\ Len(t.body) = t.at - 1
    /\ \A i \in 1..(t.at - 1) : Digest(t.body[i]) = t.upload.parts[t.list[i]].etag

\* Each step keeps what completing requests have read: the files of their
\* parts are theirs alone.
LEMMA AssembledStep == UploadInv /\ [UploadsNext]_uploadVars => Assembled'
  <1> SUFFICES ASSUME UploadInv, [UploadsNext]_uploadVars, NEW d \in UpClients, Completing(d)'
               PROVE  AssembledBy(task'[d])
    BY DEF Assembled, AssembledBy
  <1>t. UploadTypes /\ FilesKept
    BY DEF UploadInv
  <1>a. Completing(d) => AssembledBy(task[d])
    BY DEF UploadInv, Assembled, AssembledBy
  <1>i. IdleTask.op # "complete"
    BY DEF IdleTask
  <1>k. task'[d] = task[d] => AssembledBy(task'[d])
    BY <1>a DEF Completing
  <1>e. \A c \in UpClients : End(c) => task'[d] = task[d]
    BY <1>t, <1>i, TaskSet DEF End, Completing
  <1>1. ASSUME NEW id \in UploadIds, NEW c \in UpClients, NEW op \in {"upload_part", "upload_part_copy"},
               NEW n \in PartNumbers, NEW data \in PartData, StartPart(c, op, id, n, data)
        PROVE  task'[d] = task[d]
    <2> DEFINE f == CHOOSE g \in Fresh : TRUE
               t == [op |-> op, id |-> id, part |-> n, file |-> f]
    <2>1. SetTask(c, t)
      BY <1>1 DEF StartPart
    <2>2. t.op # "complete"
      OBVIOUS
    <2> HIDE DEF t
    <2> QED
      BY <1>t, <2>1, <2>2, TaskSet DEF Completing
  <1>2. ASSUME NEW id \in UploadIds, NEW c \in UpClients, NEW list \in PartLists, StartComplete(c, id, list)
        PROVE  AssembledBy(task'[d])
    <2> DEFINE t == [op |-> "complete", id |-> id, upload |-> uploads[id],
                     list |-> list, at |-> 1, body |-> <<>>]
    <2>1. task' = task \/ SetTask(c, t)
      BY <1>2 DEF StartComplete
    <2>2. list \in Seq(PartNumbers)
      BY UploadsAssumption
    <2>3. AssembledBy(t)
      <3>1. t.at = 1 /\ t.list = list /\ t.body = <<>>
        OBVIOUS
      <3>2. Len(t.list) \in Nat
        BY <2>2, <3>1
      <3> HIDE DEF t
      <3> QED
        BY <3>1, <3>2 DEF AssembledBy
    <2> HIDE DEF t
    <2> QED
      BY <1>t, <1>k, <2>1, <2>3, TaskSet
  <1>3. ASSUME NEW c \in UpClients, CompletePart(c) PROVE AssembledBy(task'[d])
    <2> DEFINE t == task[c]
               p == t.upload.parts[NextPart(t)]
               n == [t EXCEPT !.at = @ + 1, !.body = Append(@, files[p.file])]
    <2>1. End(c) \/ (SetTask(c, n) /\ p # NoPart)
      BY <1>3 DEF CompletePart
    <2>2. CASE d = c /\ SetTask(c, n) /\ p # NoPart
      <3>1. /\ t \in CompleteTasks /\ t.list \in Seq(PartNumbers) /\ t.at \in Nat
            /\ t.body \in Seq(PartData) /\ Completing(c)
        BY <1>3, <1>t, TaskKinds, EntryTyped DEF CompletePart, Completing
      <3>2. AssembledBy(t) /\ t.at <= Len(t.list)
        BY <1>3, <1>a, <2>2, <3>1 DEF CompletePart
      <3>3. NextPart(t) = t.list[t.at] /\ t.at \in 1..Len(t.list)
        BY <3>1, <3>2 DEF NextPart, AssembledBy
      <3>4. p = t.upload.parts[t.list[t.at]]
        BY <3>3
      <3>5. n.at = t.at + 1 /\ n.list = t.list /\ n.upload = t.upload /\ n.body = Append(t.body, files[p.file])
        BY <3>1 DEF CompleteTasks
      <3> HIDE DEF n, p
      <3>6. task'[d] = n
        BY <1>t, <2>2, TaskSet
      <3>7. t.list[t.at] \in PartNumbers
        BY <3>1, <3>3
      <3>8. p \in PartMeta /\ t.id \in UploadIds
        BY <1>t, <2>2, <3>1, <3>4, <3>7, EntryTyped
      <3>9. p.etag = Digest(files[p.file]) /\ files[p.file] \in PartData
        <4>1. PartIn(t.id, t.list[t.at], p)
          BY <2>2, <3>1, <3>4 DEF PartIn
        <4> QED
          BY <1>t, <3>7, <3>8, <4>1, MetaTyped DEF FilesKept, UploadTypes
      <3> HIDE DEF t
      <3>10. Len(t.body) = t.at - 1 /\ Len(t.list) \in Nat
        BY <3>1, <3>2 DEF AssembledBy
      <3>11. /\ Len(n.body) = t.at
             /\ n.body[t.at] = files[p.file]
             /\ \A i \in 1..(t.at - 1) : n.body[i] = t.body[i]
        BY <3>1, <3>5, <3>9, <3>10
      <3>12. \A i \in 1..(n.at - 1) : Digest(n.body[i]) = n.upload.parts[n.list[i]].etag
        <4> SUFFICES ASSUME NEW i \in 1..(n.at - 1)
                     PROVE  Digest(n.body[i]) = n.upload.parts[n.list[i]].etag
          OBVIOUS
        <4>1. i = t.at \/ i \in 1..(t.at - 1)
          BY <3>1, <3>5
        <4>2. CASE i = t.at
          BY <4>2, <3>4, <3>5, <3>9, <3>11, Zenon
        <4>3. CASE i \in 1..(t.at - 1)
          BY <4>3, <3>2, <3>5, <3>11 DEF AssembledBy
        <4> QED
          BY <4>1, <4>2, <4>3
      <3>13. n.at \in 1..(Len(n.list) + 1) /\ Len(n.body) = n.at - 1
        BY <3>1, <3>3, <3>5, <3>10, <3>11
      <3> QED
        BY <3>6, <3>12, <3>13 DEF AssembledBy
    <2>3. CASE d # c /\ SetTask(c, n)
      <3> HIDE DEF n
      <3> QED
        BY <1>t, <1>k, <2>3, TaskSet
    <2> QED
      BY <1>e, <1>k, <2>1, <2>2, <2>3
  <1>4. ASSUME NEW c \in UpClients,
               \/ FinishPart(c) \/ PartFails(c) \/ FinishPartCopy(c)
               \/ CompleteStore(c) \/ CompleteStoreFails(c) \/ Disconnect(c)
        PROVE  task'[d] = task[d]
    BY <1>4, <1>e DEF FinishPart, PartFails, FinishPartCopy, CompleteStore, CompleteStoreFails, Disconnect
  <1>5. CASE ServerDies
    BY <1>5, <1>i DEF ServerDies, Completing
  <1>6. ASSUME NEW id \in UploadIds, CreateUpload(id) \/ UploadAges(id) \/ AbortUpload(id)
        PROVE  task'[d] = task[d]
    BY <1>6 DEF CreateUpload, UploadAges, AbortUpload
  <1>7. CASE UNCHANGED uploadVars
    BY <1>7, <1>k DEF uploadVars
  <1> QED
    BY <1>k, <1>1, <1>2, <1>3, <1>4, <1>5, <1>6, <1>7 DEF UploadsNext

\* create, upload, copy, abort, complete, purge and crash of uploads keep the
\* invariant, for any number of clients, uploads and parts.
THEOREM S3UploadInvariance == UploadsSpec => []UploadInv
  <1>1. UploadsInit => UploadInv
    <2> SUFFICES ASSUME UploadsInit PROVE UploadInv
      OBVIOUS
    <2>1. /\ \A i \in UploadIds : uploads[i] = NoUpload
          /\ \A c \in UpClients : task[c] = IdleTask
          /\ \A f \in TempFiles : files[f] = NoFile
          /\ leaked = {}
      BY DEF UploadsInit
    <2>2. IdleTask.op = "idle"
      BY DEF IdleTask
    <2>3. UploadTypes
      BY DEF UploadsInit, UploadTypes
    <2>4. \A c \in UpClients : ~ Completing(c) /\ \A f \in TempFiles : ~ Spool(c, f)
      BY <2>1, <2>2 DEF Completing, Spool
    <2>5. \A i \in UploadIds, n \in PartNumbers, p \in PartMeta : ~ PartIn(i, n, p)
      BY <2>1, <2>4 DEF PartIn
    <2>6. HeldOnce /\ Assembled
      BY <2>1, <2>4 DEF HeldOnce, Assembled
    <2>7. OneOwner /\ FilesKept
      BY <2>1, <2>4, <2>5 DEF OneOwner, FilesKept
    <2> QED
      BY <2>3, <2>6, <2>7 DEF UploadInv
  <1>2. UploadInv /\ [UploadsNext]_uploadVars => UploadInv'
    BY UploadTypesStep, OwnersStep, AssembledStep DEF UploadInv
  <1> QED
    BY <1>1, <1>2, PTL DEF UploadsSpec

\* Every part of an upload that the server holds has its file, with the
\* content of its etag, and every file belongs to such a part or to a running
\* upload_part, or is one that adapter.rs leaves behind (a replaced part, a
\* failed part copy, a lost client).
THEOREM PartFilesAccounted == UploadsSpec => []TempFilesAccounted
  <1>1. UploadInv => TempFilesAccounted
    <2> SUFFICES ASSUME UploadTypes, HeldOnce, FilesKept PROVE TempFilesAccounted
      BY DEF UploadInv
    <2>1. \A u \in Held, n \in PartNumbers : u.parts[n] # NoPart =>
             u.parts[n] \in PartMeta /\ \E i \in UploadIds : PartIn(i, n, u.parts[n])
      <3> SUFFICES ASSUME NEW u \in Held, NEW n \in PartNumbers, u.parts[n] # NoPart
                   PROVE  u.parts[n] \in PartMeta /\ \E i \in UploadIds : PartIn(i, n, u.parts[n])
        OBVIOUS
      <3>1. CASE \E i \in Open : u = uploads[i]
        BY <3>1, EntryTyped DEF PartIn, Open
      <3>2. CASE \E c \in UpClients : task[c].op = "complete" /\ u = task[c].upload
        BY <3>2, EntryTyped DEF PartIn, Completing
      <3> QED
        BY <3>1, <3>2 DEF Held
    <2>2. \A i \in UploadIds, n \in PartNumbers, p \in PartMeta :
             PartIn(i, n, p) => \E u \in Held : p.file \in PartFiles(u)
      <3> SUFFICES ASSUME NEW i \in UploadIds, NEW n \in PartNumbers, NEW p \in PartMeta, PartIn(i, n, p)
                   PROVE  \E u \in Held : p.file \in PartFiles(u)
        OBVIOUS
      <3>1. CASE uploads[i] # NoUpload /\ p = uploads[i].parts[n]
        BY <3>1, MetaTyped DEF Held, Open, PartFiles
      <3>2. ASSUME NEW c \in UpClients, Completing(c), p = task[c].upload.parts[n]
            PROVE  \E u \in Held : p.file \in PartFiles(u)
        BY <3>2, MetaTyped DEF Held, PartFiles, Completing
      <3> QED
        BY <3>1, <3>2 DEF PartIn
    <2>3. \A u \in Held : \A n \in PartNumbers : u.parts[n] # NoPart =>
             /\ files[u.parts[n].file] # NoFile
             /\ u.parts[n].etag = Digest(files[u.parts[n].file])
             /\ u.parts[n].file \notin leaked
      BY <2>1 DEF FilesKept
    <2>4. \A f \in TempFiles : files[f] # NoFile =>
            \/ f \in leaked
            \/ \E u \in Held : f \in PartFiles(u)
            \/ \E c \in UpClients : task[c].op \in {"upload_part", "upload_part_copy"}
                                    /\ task[c].file = f
      BY <2>2 DEF FilesKept, Spool
    <2> QED
      BY <2>3, <2>4 DEF TempFilesAccounted
  <1> QED
    BY <1>1, S3UploadInvariance, PTL

\* complete_multipart_upload stores data whose digests are the etags of the
\* listed parts, in list order, as they were entered when it took the upload,
\* whatever uploads, aborts and completions run at the same time.
THEOREM CompleteIsExact == UploadsSpec => CompleteAssembles
  <1>1. UploadInv /\ [UploadsNext]_uploadVars =>
          [target' # target =>
              \E c \in UpClients :
                  /\ task[c].op = "complete" /\ task'[c] = IdleTask
                  /\ Len(target') = Len(task[c].list)
                  /\ \A i \in DOMAIN target' :
                      Digest(target'[i]) = task[c].upload.parts[task[c].list[i]].etag]_uploadVars
    <2> SUFFICES ASSUME UploadInv, UploadsNext, target' # target
                 PROVE  \E c \in UpClients :
                           /\ task[c].op = "complete" /\ task'[c] = IdleTask
                           /\ Len(target') = Len(task[c].list)
                           /\ \A i \in DOMAIN target' :
                               Digest(target'[i]) = task[c].upload.parts[task[c].list[i]].etag
      OBVIOUS
    <2>1. PICK c \in UpClients : CompleteStore(c)
      BY DEF UploadsNext, CreateUpload, UploadAges, AbortUpload, StartPart, StartComplete, FinishPart,
             PartFails, FinishPartCopy, CompletePart, CompleteStoreFails, Disconnect, ServerDies
    <2>2. UploadTypes /\ Completing(c) /\ Assembled
      BY <2>1 DEF UploadInv, CompleteStore, Completing
    <2>3. task'[c] = IdleTask
      BY <2>1, <2>2, TaskSet DEF CompleteStore, End
    <2>4. /\ task[c].list \in Seq(PartNumbers) /\ task[c].body \in Seq(PartData) /\ task[c].at \in Nat
      BY <2>2, EntryTyped
    <2>5. /\ task[c].at \in 1..(Len(task[c].list) + 1) /\ Len(task[c].body) = task[c].at - 1
          /\ \A i \in 1..(task[c].at - 1) :
                Digest(task[c].body[i]) = task[c].upload.parts[task[c].list[i]].etag
      BY <2>2 DEF Assembled
    <2>6. task[c].at > Len(task[c].list) /\ target' = task[c].body
      BY <2>1 DEF CompleteStore
    <2>7. Len(target') = Len(task[c].list)
      BY <2>4, <2>5, <2>6
    <2>8. DOMAIN target' = 1..(task[c].at - 1)
      BY <2>4, <2>5, <2>6
    <2>9. \A i \in DOMAIN target' : Digest(target'[i]) = task[c].upload.parts[task[c].list[i]].etag
      BY <2>5, <2>6, <2>8
    <2> QED
      BY <2>2, <2>3, <2>7, <2>9, Zenon DEF Completing
  <1> QED
    BY <1>1, S3UploadInvariance, PTL DEF UploadsSpec, CompleteAssembles

-----------------------------------------------------------------------------
(* Objects and buckets.                                                    *)

\* The fields of a request.
Fields == {"op", "step", "bucket", "key", "src", "body", "headers", "range", "cond", "dates",
           "keys", "size", "meta", "figures", "replace", "clean"}

\* A request that runs names a bucket and keys.
Shaped(r) ==
    /\ DOMAIN r = Fields
    /\ r.bucket \in Buckets /\ r.key \in ObjKeys /\ r.src \in Paths /\ r.keys \subseteq ObjKeys

\* No request, or one that has been answered.
Over(r) == r = NoRequest \/ r.step = "answered"

\* A copy_object that nobody has overtaken holds the body of its source, and
\* then metadata with the ETag of that body.
CopiesSource(r) ==
    r.op = "copy_object" /\ r.clean =>
        /\ r.step = "meta" /\ Stored(r.src) => r.body = objects[r.src].body
        /\ r.step = "write" => r.src \in torn \/ r.meta.etag = Md5(r.body)

\* A head_bucket that nobody has overtaken holds the figures of its bucket.
CountsBucket(r) ==
    r.op = "head_bucket" /\ r.step = "insert" /\ r.clean => r.figures = ComputeBucketStats(r.bucket)

\* What is known of a request.
Running(r) == Over(r) \/ (Shaped(r) /\ CopiesSource(r) /\ CountsBucket(r))

\* The tables are functions.
Tables ==
    /\ objects = [p \in Paths |-> objects[p]]
    /\ stats = [b \in Buckets |-> stats[b]]
    /\ req = [c \in Clients |-> req[c]]

\* The inductive invariant of the object operations.
S3Inv ==
    /\ Tables
    /\ \A c \in Clients : Running(req[c])
    /\ EtagMatchesBody
    /\ CachedStatsExact

\* The request is between its write and the eviction of the cached figures.
Finishing(c) == req[c] # NoRequest /\ req[c].step = "finish"

\* Step changes one request.
LEMMA StepSets ==
    ASSUME Tables, NEW c \in Clients, NEW r, Step(c, r)
    PROVE  /\ req'[c] = r /\ \A d \in Clients \ {c} : req'[d] = req[d]
           /\ req' = [d \in Clients |-> req'[d]]
  BY DEF Tables, Step

\* Overtake changes one request and marks the others as overtaken.
LEMMA OvertakeSets ==
    ASSUME Tables, NEW c \in Clients, NEW r, Overtake(c, r), \A d \in Clients : Running(req[d])
    PROVE  /\ req'[c] = r
           /\ \A d \in Clients \ {c} :
                \/ Over(req[d]) /\ req'[d] = req[d]
                \/ /\ ~ Over(req[d]) /\ Shaped(req'[d]) /\ ~ req'[d].clean
                   /\ req'[d].step = req[d].step /\ req'[d].bucket = req[d].bucket
           /\ req' = [d \in Clients |-> req'[d]]
  <1>1. req' = [d \in Clients |->
                  IF d = c THEN r
                  ELSE IF Over(req[d]) THEN req[d]
                  ELSE [req[d] EXCEPT !.clean = FALSE]]
    BY DEF Overtake, Over
  <1>2. \A d \in Clients : ~ Over(req[d]) => Shaped(req[d])
    BY DEF Running
  <1>3. ASSUME NEW x, Shaped(x)
        PROVE  /\ Shaped([x EXCEPT !.clean = FALSE]) /\ ~ [x EXCEPT !.clean = FALSE].clean
               /\ [x EXCEPT !.clean = FALSE].step = x.step /\ [x EXCEPT !.clean = FALSE].bucket = x.bucket
    BY <1>3 DEF Shaped, Fields
  <1>4. req'[c] = r
    BY <1>1
  <1>5. ASSUME NEW d \in Clients \ {c}
        PROVE  \/ Over(req[d]) /\ req'[d] = req[d]
               \/ /\ ~ Over(req[d]) /\ Shaped(req'[d]) /\ ~ req'[d].clean
                  /\ req'[d].step = req[d].step /\ req'[d].bucket = req[d].bucket
    <2>1. CASE Over(req[d])
      BY <1>1, <2>1
    <2>2. CASE ~ Over(req[d])
      <3>1. req'[d] = [req[d] EXCEPT !.clean = FALSE]
        BY <1>1, <2>2
      <3> QED
        BY <2>2, <3>1, <1>2, <1>3
    <2> QED
      BY <2>1, <2>2
  <1>6. req' = [d \in Clients |-> req'[d]]
    BY <1>1
  <1> QED
    BY <1>4, <1>5, <1>6

\* A step that writes nothing keeps the invariant.
LEMMA QuietStep ==
    ASSUME S3Inv, NEW c \in Clients, NEW r, Step(c, r), Running(r), ~ Finishing(c),
           UNCHANGED <<objects, stats, torn, outdated>>
    PROVE  S3Inv'
  <1>1. /\ req'[c] = r /\ \A d \in Clients \ {c} : req'[d] = req[d]
        /\ req' = [d \in Clients |-> req'[d]]
    BY StepSets DEF S3Inv
  <1>2. \A d \in Clients : Running(req'[d])
    BY <1>1 DEF S3Inv
  <1>3. \A b \in Buckets : ComputeBucketStats(b)' = ComputeBucketStats(b)
    BY DEF ComputeBucketStats, InBucket, HeadSize, Stored
  <1>4. \A x : Running(x) => Over(x) \/ (Shaped(x) /\ CopiesSource(x)' /\ CountsBucket(x)')
    BY <1>3 DEF Running, CopiesSource, CountsBucket, Stored, Shaped
  <1>5. \A d \in Clients : Running(req[d])'
    BY <1>2, <1>4 DEF Running
  <1>6. Tables' /\ EtagMatchesBody'
    BY <1>1 DEF S3Inv, Tables, EtagMatchesBody, Stored
  <1>7. CachedStatsExact'
    <2> SUFFICES ASSUME NEW b \in Buckets \ outdated
                 PROVE  \/ stats'[b] = NoStats
                        \/ \E d \in Clients : req'[d] # NoRequest /\ req'[d].step = "finish" /\ req'[d].bucket = b
                        \/ stats'[b] = ComputeBucketStats(b)'
      BY DEF CachedStatsExact
    <2>1. CASE \E d \in Clients : req[d] # NoRequest /\ req[d].step = "finish" /\ req[d].bucket = b
      BY <2>1, <1>1 DEF Finishing
    <2>2. CASE stats[b] = NoStats \/ stats[b] = ComputeBucketStats(b)
      BY <2>2, <1>3
    <2> QED
      BY <2>1, <2>2 DEF S3Inv, CachedStatsExact
  <1> QED
    BY <1>5, <1>6, <1>7 DEF S3Inv

\* An answered request is over,
LEMMA AnswersRun == \A reply : Running(Answered(reply)) /\ Over(Answered(reply))
  BY DEF Running, Over, Answered

\* and so is none.
LEMMA IdleRuns == Running(NoRequest)
  BY DEF Running, Over

\* Writing an object leaves the figures of other buckets alone.
LEMMA FiguresLocal ==
    ASSUME Tables, NEW p \in Paths, NEW o, objects' = [objects EXCEPT ![p] = o], NEW b \in Buckets, b # p[1]
    PROVE  ComputeBucketStats(b)' = ComputeBucketStats(b)
  <1>1. \A q \in Paths : q # p => objects'[q] = objects[q]
    BY DEF Tables
  <1>2. InBucket(b)' = InBucket(b)
    BY <1>1 DEF InBucket, Stored
  <1>3. \A q \in InBucket(b) : HeadSize(q)' = HeadSize(q)
    BY <1>1 DEF InBucket, HeadSize
  <1>4. [q \in InBucket(b) |-> HeadSize(q)]' = [q \in InBucket(b) |-> HeadSize(q)]
    BY <1>2, <1>3
  <1> QED
    BY <1>2, <1>4 DEF ComputeBucketStats

\* A write keeps the invariant when it stores the ETag of the body it stores
\* and either counts the bucket as outdated, goes on to evict its figures, or
\* does not change them.
LEMMA ObjectWritten ==
    ASSUME S3Inv, NEW c \in Clients, ~ Over(req[c]), NEW p \in Paths, NEW o, NEW r, Overtake(c, r),
           objects' = [objects EXCEPT ![p] = o],
           p \notin torn' => o = NoObject \/ o.meta.etag \in {NoEtag, Md5(o.body)},
           \A q \in Paths : q # p => (q \in torn <=> q \in torn'),
           stats' = stats, outdated \subseteq outdated',
           \/ p[1] \in outdated' \/ (r # NoRequest /\ r.step = "finish" /\ r.bucket = p[1])
           \/ \A b : ComputeBucketStats(b)' = ComputeBucketStats(b),
           Over(r) \/ (Shaped(r) /\ r.step \in {"finish", "begin", "delete"}),
           ~ Finishing(c)
    PROVE  S3Inv'
  <1>1. /\ req'[c] = r
        /\ \A d \in Clients \ {c} :
              \/ Over(req[d]) /\ req'[d] = req[d]
              \/ /\ ~ Over(req[d]) /\ Shaped(req'[d]) /\ ~ req'[d].clean
                 /\ req'[d].step = req[d].step /\ req'[d].bucket = req[d].bucket
        /\ req' = [d \in Clients |-> req'[d]]
    BY OvertakeSets DEF S3Inv
  <1>2. Tables'
    BY <1>1 DEF S3Inv, Tables
  <1>3. \A d \in Clients : Over(req'[d]) \/ (Shaped(req'[d]) /\ (~ req'[d].clean \/ req'[d].step \in {"finish", "begin", "delete"}))
    BY <1>1
  <1>4. \A x : Over(x) \/ (Shaped(x) /\ (~ x.clean \/ x.step \in {"finish", "begin", "delete"})) =>
                  Over(x) \/ (Shaped(x) /\ CopiesSource(x)' /\ CountsBucket(x)')
    BY DEF CopiesSource, CountsBucket
  <1>5. \A d \in Clients : Running(req[d])'
    BY <1>3, <1>4 DEF Running
  <1>6. EtagMatchesBody'
    BY DEF S3Inv, Tables, EtagMatchesBody, Stored
  <1>7. CachedStatsExact'
    <2> SUFFICES ASSUME NEW b \in Buckets \ outdated'
                 PROVE  \/ stats'[b] = NoStats
                        \/ \E d \in Clients : req'[d] # NoRequest /\ req'[d].step = "finish" /\ req'[d].bucket = b
                        \/ stats'[b] = ComputeBucketStats(b)'
      BY DEF CachedStatsExact
    <2>1. CASE b = p[1] /\ r # NoRequest /\ r.step = "finish" /\ r.bucket = p[1]
      BY <2>1, <1>1
    <2>2. CASE stats[b] = NoStats
      BY <2>2
    <2>3. ASSUME NEW d \in Clients, req[d] # NoRequest, req[d].step = "finish", req[d].bucket = b
          PROVE  req'[d] # NoRequest /\ req'[d].step = "finish" /\ req'[d].bucket = b
      <3>1. ~ Over(req[d]) /\ d # c
        BY <2>3 DEF Over, Finishing
      <3>2. Shaped(req'[d]) /\ req'[d].step = "finish" /\ req'[d].bucket = b
        BY <2>3, <3>1, <1>1
      <3>3. req'[d] # NoRequest
        BY <3>2 DEF Shaped, Fields, NoRequest
      <3> QED
        BY <3>2, <3>3
    <2>4. (b = p[1] /\ r # NoRequest /\ r.step = "finish" /\ r.bucket = p[1])
          \/ ComputeBucketStats(b)' = ComputeBucketStats(b)
      BY FiguresLocal DEF S3Inv
    <2>5. CASE stats[b] = ComputeBucketStats(b) /\ ComputeBucketStats(b)' = ComputeBucketStats(b)
      BY <2>5
    <2> QED
      BY <2>1, <2>2, <2>3, <2>4, <2>5 DEF S3Inv, CachedStatsExact
  <1> QED
    BY <1>2, <1>5, <1>6, <1>7 DEF S3Inv

\* A request that runs has its shape and knowledge.
LEMMA AtRuns ==
    ASSUME S3Inv, NEW c \in Clients, ~ Over(req[c])
    PROVE  Shaped(req[c]) /\ CopiesSource(req[c]) /\ CountsBucket(req[c]) /\ PathOf(req[c]) \in Paths
  BY DEF S3Inv, Running, Shaped, PathOf, Paths

\* A request at a step is not over.
LEMMA AtNotOver ==
    ASSUME NEW c \in Clients, NEW op, NEW step, At(c, op, step), op # "idle", step # "answered"
    PROVE  ~ Over(req[c]) /\ (step # "finish" => ~ Finishing(c))
  BY DEF At, Over, Finishing, NoRequest

\* Nor is one that reads.
LEMMA ReadingNotOver ==
    ASSUME NEW c \in Clients, req[c] # NoRequest, NEW step, req[c].step = step, step \notin {"answered", "finish"}
    PROVE  ~ Over(req[c]) /\ ~ Finishing(c)
  BY DEF Over, Finishing

\* Most steps need no knowledge.
LEMMA PlainRuns ==
    ASSUME NEW r, Shaped(r), r.step \notin {"meta", "write", "insert"}
    PROVE  Running(r)
  BY DEF Running, CopiesSource, CountsBucket

\* A client sends a request.
LEMMA SendStep ==
    ASSUME S3Inv, NEW c \in Clients, SendAny(c)
    PROVE  S3Inv'
  <1>1. UNCHANGED <<objects, stats, torn, outdated>>
    BY DEF SendAny
  <1>2. \A op : \A b \in Buckets, k \in ObjKeys :
           Shaped(Request(op, b, k)) /\ Request(op, b, k).step = "begin"
    BY DEF Request, Shaped, Fields, Paths
  <1>3. ASSUME NEW r, Shaped(r), r.step = "begin", Send(c, r) PROVE S3Inv'
    <2>1. Running(r)
      BY <1>3, PlainRuns
    <2>2. ~ Finishing(c)
      BY <1>3 DEF Send, Finishing
    <2>3. \/ Step(c, r) \/ Step(c, Answered([error |-> "NoSuchBucket"]))
      BY <1>3 DEF Send, Fail, Answer
    <2> QED
      BY <1>1, <2>1, <2>2, <2>3, QuietStep, AnswersRun
  <1>4. ASSUME NEW b \in Buckets, NEW k \in ObjKeys, NEW body \in S3Bodies, NEW h \in Headers,
               Send(c, [Request("put_object", b, k) EXCEPT !.body = body, !.headers = h])
        PROVE  S3Inv'
    <2> DEFINE r == [Request("put_object", b, k) EXCEPT !.body = body, !.headers = h]
    <2>1. Shaped(r) /\ r.step = "begin"
      BY <1>2 DEF Shaped, Fields
    <2> HIDE DEF r
    <2>2. Send(c, r)
      BY <1>4 DEF r
    <2> QED
      BY <2>1, <2>2, <1>3
  <1>5. ASSUME NEW b \in Buckets, NEW k \in ObjKeys, NEW range \in Ranges, NEW cond \in Conds,
               NEW dates \in {"pass", "NotModified", "PreconditionFailed"},
               Send(c, [Request("get_object", b, k) EXCEPT !.range = range, !.cond = cond, !.dates = dates])
        PROVE  S3Inv'
    <2> DEFINE r == [Request("get_object", b, k) EXCEPT !.range = range, !.cond = cond, !.dates = dates]
    <2>1. Shaped(r) /\ r.step = "begin"
      BY <1>2 DEF Shaped, Fields
    <2> HIDE DEF r
    <2>2. Send(c, r)
      BY <1>5 DEF r
    <2> QED
      BY <2>1, <2>2, <1>3
  <1>6. ASSUME NEW b \in Buckets, NEW k \in ObjKeys, NEW op, Send(c, Request(op, b, k)) PROVE S3Inv'
    BY <1>6, <1>2, <1>3
  <1>7. ASSUME NEW b \in Buckets, NEW k \in ObjKeys, NEW src \in Paths, NEW h \in Headers, NEW rep \in BOOLEAN,
               Send(c, [Request("copy_object", b, k) EXCEPT !.src = src, !.headers = h, !.replace = rep])
        PROVE  S3Inv'
    <2> DEFINE r == [Request("copy_object", b, k) EXCEPT !.src = src, !.headers = h, !.replace = rep]
    <2>1. Shaped(r) /\ r.step = "begin"
      BY <1>2 DEF Shaped, Fields
    <2> HIDE DEF r
    <2>2. Send(c, r)
      BY <1>7 DEF r
    <2> QED
      BY <2>1, <2>2, <1>3
  <1>k. ObjKeys # {} => NoKey \in ObjKeys
    BY DEF NoKey
  <1>8. ASSUME NEW b \in Buckets, NEW k \in ObjKeys,
               Send(c, [Request("delete_objects", b, NoKey) EXCEPT !.keys = ObjKeys])
        PROVE  S3Inv'
    <2> DEFINE r == [Request("delete_objects", b, NoKey) EXCEPT !.keys = ObjKeys]
    <2>1. Shaped(r) /\ r.step = "begin"
      BY <1>2, <1>k DEF Shaped, Fields
    <2> HIDE DEF r
    <2>2. Send(c, r)
      BY <1>8 DEF r
    <2> QED
      BY <2>1, <2>2, <1>3
  <1>9. PICK b \in Buckets, k \in ObjKeys :
          \/ \E body \in S3Bodies, h \in Headers :
                Send(c, [Request("put_object", b, k) EXCEPT !.body = body, !.headers = h])
          \/ \E range \in Ranges, cond \in Conds, dates \in {"pass", "NotModified", "PreconditionFailed"} :
                Send(c, [Request("get_object", b, k) EXCEPT !.range = range, !.cond = cond, !.dates = dates])
          \/ \E op \in {"head_object", "get_object_attributes", "delete_object"} : Send(c, Request(op, b, k))
          \/ \E src \in Paths, h \in Headers, rep \in BOOLEAN :
                Send(c, [Request("copy_object", b, k) EXCEPT !.src = src, !.headers = h, !.replace = rep])
          \/ \E op \in {"head_bucket", "delete_bucket"} : Send(c, Request(op, b, NoKey))
          \/ Send(c, [Request("delete_objects", b, NoKey) EXCEPT !.keys = ObjKeys])
    BY ZenonT(60) DEF SendAny
  <1> QED
    BY <1>4, <1>5, <1>6, <1>7, <1>8, <1>9, <1>k, Zenon

\* A request is answered,
LEMMA AnswerStep ==
    ASSUME S3Inv, NEW c \in Clients, NEW reply, Answer(c, reply), ~ Finishing(c),
           UNCHANGED <<objects, stats, torn, outdated>>
    PROVE  S3Inv'
  BY QuietStep, AnswersRun DEF Answer

\* or fails.
LEMMA FailStep ==
    ASSUME S3Inv, NEW c \in Clients, NEW code, Fail(c, code), ~ Finishing(c),
           UNCHANGED <<objects, stats, torn, outdated>>
    PROVE  S3Inv'
  BY AnswerStep DEF Fail

\* The operations that read.
LEMMA QuietSteps ==
    ASSUME S3Inv, NEW c \in Clients,
           \/ Return(c) \/ DeleteBucketList(c) \/ HeadBucketCached(c) \/ HeadBucketCompute(c)
           \/ PutObjectFails(c) \/ ReadHead(c) \/ HeadMeta(c) \/ GetMeta(c) \/ GetBody(c)
    PROVE  S3Inv'
  <1>u. UNCHANGED <<objects, stats, torn, outdated>>
    BY DEF Return, DeleteBucketList, HeadBucketCached, HeadBucketCompute, PutObjectFails, ReadHead,
           HeadMeta, GetMeta, GetBody
  <1>1. CASE Return(c)
    BY <1>1, <1>u, QuietStep, IdleRuns DEF Return, Finishing
  <1>2. CASE DeleteBucketList(c)
    <2>1. ~ Over(req[c]) /\ ~ Finishing(c)
      BY <1>2, AtNotOver DEF DeleteBucketList
    <2> DEFINE r == [req[c] EXCEPT !.step = "remove"]
    <2>2. Shaped(r) /\ r.step = "remove"
      BY <2>1, AtRuns DEF Shaped, Fields
    <2>3. Fail(c, "BucketNotEmpty") \/ Step(c, r)
      BY <1>2 DEF DeleteBucketList
    <2> HIDE DEF r
    <2>4. Running(r)
      BY <2>2, PlainRuns
    <2> QED
      BY <1>u, <2>1, <2>3, <2>4, QuietStep, FailStep
  <1>3. CASE HeadBucketCached(c)
    <2>1. ~ Over(req[c]) /\ ~ Finishing(c)
      BY <1>3, AtNotOver DEF HeadBucketCached
    <2> QED
      BY <1>3, <1>u, <2>1, AnswerStep DEF HeadBucketCached
  <1>4. CASE HeadBucketCompute(c)
    <2>1. ~ Over(req[c]) /\ ~ Finishing(c) /\ req[c].op = "head_bucket"
      BY <1>4, AtNotOver DEF HeadBucketCompute, At
    <2> DEFINE r == [req[c] EXCEPT !.step = "insert", !.figures = ComputeBucketStats(req[c].bucket)]
    <2>2. /\ Shaped(r) /\ r.op = "head_bucket" /\ r.bucket = req[c].bucket
          /\ r.figures = ComputeBucketStats(req[c].bucket)
      BY <2>1, AtRuns DEF Shaped, Fields
    <2>3. Step(c, r)
      BY <1>4 DEF HeadBucketCompute
    <2> HIDE DEF r
    <2>4. Running(r)
      BY <2>2 DEF Running, CopiesSource, CountsBucket
    <2> QED
      BY <1>u, <2>1, <2>3, <2>4, QuietStep
  <1>5. CASE PutObjectFails(c)
    <2>1. ~ Over(req[c]) /\ ~ Finishing(c)
      BY <1>5, AtNotOver DEF PutObjectFails
    <2> QED
      BY <1>5, <1>u, <2>1, FailStep DEF PutObjectFails
  <1>6. CASE ReadHead(c)
    <2>1. ~ Over(req[c]) /\ ~ Finishing(c) /\ req[c].op \in Reading
      BY <1>6, ReadingNotOver DEF ReadHead
    <2> DEFINE r == [req[c] EXCEPT !.step = "meta", !.size = HeadSize(PathOf(req[c]))]
    <2>2. Shaped(r) /\ r.op \in Reading
      BY <2>1, AtRuns DEF Shaped, Fields
    <2>3. Fail(c, "NoSuchKey") \/ Step(c, r)
      BY <1>6 DEF ReadHead
    <2> HIDE DEF r
    <2>4. Running(r)
      BY <2>2 DEF Running, CopiesSource, CountsBucket, Reading
    <2> QED
      BY <1>u, <2>1, <2>3, <2>4, QuietStep, FailStep
  <1>7. CASE HeadMeta(c)
    <2>1. ~ Over(req[c]) /\ ~ Finishing(c)
      BY <1>7, ReadingNotOver DEF HeadMeta
    <2> QED
      BY <1>7, <1>u, <2>1, AnswerStep DEF HeadMeta
  <1>8. CASE GetMeta(c)
    <2>1. ~ Over(req[c]) /\ ~ Finishing(c)
      BY <1>8, AtNotOver DEF GetMeta
    <2> DEFINE r == [req[c] EXCEPT !.step = "body", !.meta = GetMetadata(PathOf(req[c]))]
    <2>2. Shaped(r) /\ r.step = "body"
      BY <2>1, AtRuns DEF Shaped, Fields
    <2>3. (\E code : Fail(c, code)) \/ Step(c, r)
      BY <1>8, Zenon DEF GetMeta
    <2> HIDE DEF r
    <2>4. Running(r)
      BY <2>2, PlainRuns
    <2> QED
      BY <1>u, <2>1, <2>3, <2>4, QuietStep, FailStep
  <1>9. CASE GetBody(c)
    <2>1. ~ Over(req[c]) /\ ~ Finishing(c)
      BY <1>9, AtNotOver DEF GetBody
    <2>2. \E reply : Answer(c, reply)
      BY <1>9, Zenon DEF GetBody, Fail
    <2> QED
      BY <1>u, <2>1, <2>2, AnswerStep
  <1> QED
    BY <1>1, <1>2, <1>3, <1>4, <1>5, <1>6, <1>7, <1>8, <1>9

\* copy_object up to its write.
LEMMA CopyReads ==
    ASSUME S3Inv, NEW c \in Clients, CopyHead(c) \/ CopyBody(c) \/ CopyMeta(c)
    PROVE  S3Inv'
  <1>u. UNCHANGED <<objects, stats, torn, outdated>>
    BY DEF CopyHead, CopyBody, CopyMeta
  <1>o. ~ Over(req[c]) /\ ~ Finishing(c) /\ req[c].op = "copy_object"
    BY AtNotOver DEF CopyHead, CopyBody, CopyMeta, At
  <1>s. Shaped(req[c]) /\ CopiesSource(req[c])
    BY <1>o, AtRuns
  <1>1. CASE CopyHead(c)
    <2> DEFINE r == [req[c] EXCEPT !.step = "body",
                         !.size = IF objects[req[c].src].meta = NoMeta THEN 0 ELSE 1]
    <2>1. Shaped(r) /\ r.step = "body"
      BY <1>s DEF Shaped, Fields
    <2>2. (\E code : Fail(c, code)) \/ Step(c, r)
      BY <1>1, Zenon DEF CopyHead
    <2> HIDE DEF r
    <2>3. Running(r)
      BY <2>1, PlainRuns
    <2> QED
      BY <1>u, <1>o, <2>2, <2>3, QuietStep, FailStep
  <1>2. CASE CopyBody(c)
    <2> DEFINE r == [req[c] EXCEPT !.step = "meta", !.body = objects[req[c].src].body]
    <2>1. Shaped(r) /\ r.step = "meta" /\ r.src = req[c].src /\ r.body = objects[req[c].src].body /\ r.op = req[c].op
      BY <1>s DEF Shaped, Fields
    <2>2. (\E code : Fail(c, code)) \/ Step(c, r)
      BY <1>2, Zenon DEF CopyBody
    <2> HIDE DEF r
    <2>3. Running(r)
      BY <1>o, <2>1 DEF Running, CopiesSource, CountsBucket
    <2> QED
      BY <1>u, <1>o, <2>2, <2>3, QuietStep, FailStep
  <1>3. CASE CopyMeta(c)
    <2> DEFINE m    == IF req[c].size = 0 THEN NoMeta ELSE GetMetadata(req[c].src)
               etag == IF m.etag = NoEtag THEN Md5(req[c].body) ELSE m.etag
               r    == [req[c] EXCEPT !.step = "write", !.meta = Meta(m.headers, etag)]
    <2>1. (req[c].size = 1 /\ ~ Stored(req[c].src) /\ Fail(c, "InternalError")) \/ Step(c, r)
      BY <1>3 DEF CopyMeta
    <2>2. NoMeta.etag = NoEtag
      BY DEF NoMeta
    <2>3. req[c].clean /\ Stored(req[c].src) => req[c].body = objects[req[c].src].body
      BY <1>3, <1>s DEF CopyMeta, At, CopiesSource
    <2>4. req[c].src \in Paths
      BY <1>s DEF Shaped
    <2>5. req[c].clean => req[c].src \in torn \/ etag = Md5(req[c].body)
      <3>1. CASE m = NoMeta
        BY <3>1, <2>2
      <3>2. CASE m # NoMeta
        <4>1. Stored(req[c].src) /\ m = objects[req[c].src].meta
          BY <3>2 DEF GetMetadata
        <4>2. req[c].src \notin torn /\ m.etag # NoEtag => m.etag = Md5(objects[req[c].src].body)
          BY <2>4, <4>1 DEF S3Inv, EtagMatchesBody
        <4> QED
          BY <2>3, <4>1, <4>2
      <3> QED
        BY <3>1, <3>2
    <2> HIDE DEF m, etag
    <2>6. /\ Shaped(r) /\ r.step = "write" /\ r.src = req[c].src /\ r.body = req[c].body /\ r.op = req[c].op
          /\ r.meta = Meta(m.headers, etag) /\ r.clean = req[c].clean
      BY <1>s DEF Shaped, Fields
    <2>7. Meta(m.headers, etag).etag = etag
      BY DEF Meta
    <2> HIDE DEF r
    <2>8. Running(r)
      BY <1>o, <2>5, <2>6, <2>7 DEF Running, CopiesSource, CountsBucket
    <2> QED
      BY <1>u, <1>o, <2>1, <2>8, QuietStep, FailStep
  <1> QED
    BY <1>1, <1>2, <1>3

\* The figures of a bucket do not count metadata.
LEMMA SidecarFigures ==
    ASSUME Tables, NEW p \in Paths, NEW o, o \in {objects[p], WithoutSidecar(objects[p])},
           objects' = [objects EXCEPT ![p] = o], NEW b
    PROVE  ComputeBucketStats(b)' = ComputeBucketStats(b)
  <1>1. \A q \in Paths : q # p => objects'[q] = objects[q]
    BY DEF Tables
  <1>2. objects'[p] = o
    BY DEF Tables
  <1>3. (objects'[p] # NoObject) <=> (objects[p] # NoObject)
    <2>1. CASE objects[p] # NoObject /\ o = [body |-> objects[p].body, meta |-> NoMeta]
      <3>1. NoObject.meta.etag = <<"no object">>
        BY DEF NoObject
      <3>2. o.meta.etag = <<>>
        BY <2>1 DEF NoMeta, NoEtag
      <3>3. <<"no object">> # <<>>
        OBVIOUS
      <3> QED
        BY <1>2, <2>1, <3>1, <3>2, <3>3
    <2> QED
      BY <1>2, <2>1 DEF WithoutSidecar
  <1>4. objects[p] # NoObject => objects'[p].body = objects[p].body
    BY <1>2 DEF WithoutSidecar
  <1>5. InBucket(b)' = InBucket(b)
    BY <1>1, <1>3 DEF InBucket, Stored
  <1>6. \A q \in InBucket(b) : HeadSize(q)' = HeadSize(q)
    BY <1>1, <1>4 DEF InBucket, HeadSize, Stored
  <1>7. [q \in InBucket(b) |-> HeadSize(q)]' = [q \in InBucket(b) |-> HeadSize(q)]
    BY <1>5, <1>6
  <1> QED
    BY <1>5, <1>7 DEF ComputeBucketStats

\* The operations that write.
LEMMA Writes ==
    ASSUME S3Inv, NEW c \in Clients,
           \/ PutObject(c) \/ DeleteObject(c) \/ CopyWrite(c)
           \/ DeleteSidecar(c) \/ DeleteObjectFails(c) \/ DeleteObjects(c)
    PROVE  S3Inv'
  <1>o. ~ Over(req[c]) /\ ~ Finishing(c)
    <2>1. \/ At(c, "put_object", "begin") \/ At(c, "delete_object", "delete")
          \/ At(c, "copy_object", "write") \/ At(c, "delete_objects", "delete")
          \/ (req[c] # NoRequest /\ req[c].step = "begin")
      BY Zenon DEF PutObject, DeleteObject, CopyWrite, DeleteObjects, DeleteObjectFails, DeleteSidecar
    <2> QED
      BY <2>1, AtNotOver, ReadingNotOver
  <1>s. Shaped(req[c]) /\ CopiesSource(req[c]) /\ PathOf(req[c]) \in Paths
    BY <1>o, AtRuns
  <1>p. PathOf(req[c])[1] = req[c].bucket
    BY DEF PathOf
  <1> DEFINE p == PathOf(req[c])
             r == [req[c] EXCEPT !.step = "finish"]
  <1>r. Shaped(r) /\ r.step = "finish" /\ r.bucket = req[c].bucket /\ r # NoRequest
    BY <1>s DEF Shaped, Fields, NoRequest
  <1> HIDE DEF p, r
  <1>1. CASE PutObject(c)
    <2> DEFINE o == [body |-> req[c].body, meta |-> Meta(req[c].headers, Md5(req[c].body))]
    <2>1. /\ objects' = [objects EXCEPT ![p] = o] /\ Overtake(c, r)
          /\ torn' = torn \ {p} /\ UNCHANGED <<stats, outdated>>
      BY <1>1 DEF PutObject, PutWithMeta, p, r
    <2>2. o.meta.etag = Md5(o.body)
      BY DEF Meta
    <2> HIDE DEF o
    <2> QED
      BY <1>o, <1>s, <1>p, <1>r, <2>1, <2>2, ObjectWritten DEF p
  <1>2. CASE DeleteObject(c)
    <2>1. /\ objects' = [objects EXCEPT ![p] = NoObject] /\ Overtake(c, r)
          /\ torn' = torn \ {p} /\ UNCHANGED <<stats, outdated>>
      BY <1>2 DEF DeleteObject, p, r
    <2> QED
      BY <1>o, <1>s, <1>p, <1>r, <2>1, ObjectWritten DEF p
  <1>3. CASE CopyWrite(c)
    <2> DEFINE kept == IF req[c].replace THEN req[c].headers ELSE req[c].meta.headers
               o == [body |-> req[c].body, meta |-> Meta(kept, req[c].meta.etag)]
    <2>1. /\ objects' = [objects EXCEPT ![p] = o] /\ Overtake(c, r) /\ UNCHANGED <<stats, outdated>>
          /\ torn' = IF req[c].clean THEN (torn \ {p}) \cup (IF req[c].src \in torn THEN {p} ELSE {})
                     ELSE torn \cup {p}
      BY <1>3 DEF CopyWrite, PutWithMeta, p, r
    <2>2. o.meta.etag = req[c].meta.etag /\ o.body = req[c].body
      BY DEF Meta
    <2> HIDE DEF o
    <2>3. p \notin torn' => req[c].clean /\ req[c].src \notin torn
      BY <2>1
    <2>4. p \notin torn' => o.meta.etag = Md5(o.body)
      BY <1>3, <1>s, <2>2, <2>3 DEF CopyWrite, At, CopiesSource
    <2>5. \A q \in Paths : q # p => (q \in torn <=> q \in torn')
      BY <2>1
    <2> QED
      BY <1>o, <1>s, <1>p, <1>r, <2>1, <2>4, <2>5, ObjectWritten DEF p
  <1>4. CASE DeleteObjectFails(c)
    <2>1. PICK left \in LeftByError(p) :
            /\ objects' = [objects EXCEPT ![p] = left] /\ Overtake(c, Answered([error |-> "InternalError"]))
            /\ torn' = torn /\ outdated' = outdated \cup {req[c].bucket} /\ stats' = stats
      BY <1>4 DEF DeleteObjectFails, p
    <2>2. p \notin torn' => left = NoObject \/ left.meta.etag \in {NoEtag, Md5(left.body)}
      BY <1>s, <2>1 DEF LeftByError, S3Inv, EtagMatchesBody, Stored, p
    <2> QED
      BY <1>o, <1>s, <1>p, <2>1, <2>2, AnswersRun, ObjectWritten DEF p
  <1>5. CASE DeleteObjects(c)
    <2> DEFINE b == [req[c] EXCEPT !.step = "begin"]
               n == IF req[c].keys = {} THEN Answered([ok |-> "deleted"]) ELSE b
    <2>1. PICK left \in LeftByError(p) :
            /\ objects' = [objects EXCEPT ![p] = left] /\ Overtake(c, n)
            /\ torn' = torn /\ outdated' = outdated \cup {req[c].bucket} /\ stats' = stats
      BY <1>5 DEF DeleteObjects, p
    <2>2. p \notin torn' => left = NoObject \/ left.meta.etag \in {NoEtag, Md5(left.body)}
      BY <1>s, <2>1 DEF LeftByError, S3Inv, EtagMatchesBody, Stored, p
    <2>3. Shaped(b) /\ b.step = "begin"
      BY <1>s DEF Shaped, Fields
    <2> HIDE DEF b
    <2>4. Over(n) \/ (Shaped(n) /\ n.step = "begin")
      BY <2>3, AnswersRun
    <2> HIDE DEF n
    <2> QED
      BY <1>o, <1>s, <1>p, <2>1, <2>2, <2>4, ObjectWritten DEF p
  <1>6. CASE DeleteSidecar(c)
    <2>1. PICK k \in (IF req[c].op = "delete_object" THEN {req[c].key} ELSE req[c].keys) :
            /\ \E raw \in BOOLEAN :
                objects' = [objects EXCEPT ![<<req[c].bucket, k>>] = IF raw THEN @ ELSE WithoutSidecar(@)]
            /\ Overtake(c, [req[c] EXCEPT !.step = "delete", !.key = k, !.keys = @ \ {k}])
      BY <1>6, Zenon DEF DeleteSidecar
    <2> DEFINE f == <<req[c].bucket, k>>
               d == [req[c] EXCEPT !.step = "delete", !.key = k, !.keys = @ \ {k}]
    <2>2. k \in ObjKeys
      BY <1>s DEF Shaped
    <2>3. f \in Paths
      BY <1>s, <2>2 DEF Shaped, Paths
    <2>4. Shaped(d) /\ d.step = "delete"
      BY <1>s, <2>2 DEF Shaped, Fields
    <2> HIDE DEF f, d
    <2>5. PICK o \in {objects[f], WithoutSidecar(objects[f])} : objects' = [objects EXCEPT ![f] = o]
      BY <2>1 DEF f
    <2>6. Overtake(c, d) /\ UNCHANGED <<stats, torn, outdated>>
      BY <1>6, <2>1, Zenon DEF DeleteSidecar, d
    <2>7. o = objects[f] \/ o = NoObject \/ o.meta.etag = NoEtag
      BY DEF WithoutSidecar, NoMeta
    <2>8. f \notin torn' => o = NoObject \/ o.meta.etag \in {NoEtag, Md5(o.body)}
      BY <2>3, <2>6, <2>7 DEF S3Inv, EtagMatchesBody, Stored
    <2>9. \A b : ComputeBucketStats(b)' = ComputeBucketStats(b)
      BY <2>3, <2>5, SidecarFigures DEF S3Inv
    <2> QED
      BY <1>o, <2>3, <2>4, <2>5, <2>6, <2>8, <2>9, ObjectWritten
  <1> QED
    BY <1>1, <1>2, <1>3, <1>4, <1>5, <1>6

\* Figures depend on the objects alone.
LEMMA FiguresSame ==
    ASSUME UNCHANGED objects
    PROVE  \A b : ComputeBucketStats(b)' = ComputeBucketStats(b)
  BY DEF ComputeBucketStats, InBucket, HeadSize, Stored

\* So does what is known of a request, but for torn objects.
LEMMA RunningSame ==
    ASSUME UNCHANGED <<objects, torn>>, NEW r
    PROVE  Running(r) => Over(r) \/ (Shaped(r) /\ CopiesSource(r)' /\ CountsBucket(r)')
  BY FiguresSame DEF Running, CopiesSource, CountsBucket, Stored

\* delete_bucket evicts the figures of the bucket.
LEMMA BucketRemoved ==
    ASSUME S3Inv, NEW c \in Clients, DeleteBucketRemove(c)
    PROVE  S3Inv'
  <1>1. UNCHANGED <<objects, stats, torn, outdated>> /\ ~ Over(req[c]) /\ ~ Finishing(c)
    BY AtNotOver DEF DeleteBucketRemove
  <1>2. PICK reply : Overtake(c, Answered(reply))
    BY Zenon DEF DeleteBucketRemove
  <1>3. /\ req'[c] = Answered(reply)
        /\ \A d \in Clients \ {c} :
              \/ Over(req[d]) /\ req'[d] = req[d]
              \/ /\ ~ Over(req[d]) /\ Shaped(req'[d]) /\ ~ req'[d].clean
                 /\ req'[d].step = req[d].step /\ req'[d].bucket = req[d].bucket
        /\ req' = [d \in Clients |-> req'[d]]
    BY <1>2, OvertakeSets DEF S3Inv
  <1>4. Tables' /\ EtagMatchesBody'
    BY <1>1, <1>3 DEF S3Inv, Tables, EtagMatchesBody, Stored
  <1>5. \A d \in Clients : Over(req'[d]) \/ (Shaped(req'[d]) /\ ~ req'[d].clean)
    BY <1>3, AnswersRun
  <1>6. \A x : Shaped(x) /\ ~ x.clean => CopiesSource(x)' /\ CountsBucket(x)'
    BY DEF CopiesSource, CountsBucket
  <1>7. \A d \in Clients : Running(req[d])'
    BY <1>5, <1>6 DEF Running
  <1>8. ASSUME NEW d \in Clients, req[d] # NoRequest, req[d].step = "finish"
        PROVE  req'[d] # NoRequest /\ req'[d].step = "finish" /\ req'[d].bucket = req[d].bucket
    <2>1. ~ Over(req[d]) /\ d # c
      BY <1>1, <1>8 DEF Over, Finishing
    <2>2. Shaped(req'[d]) /\ req'[d].step = "finish" /\ req'[d].bucket = req[d].bucket
      BY <1>3, <1>8, <2>1
    <2>3. req'[d] # NoRequest
      BY <2>2 DEF Shaped, Fields, NoRequest
    <2> QED
      BY <2>2, <2>3
  <1>9. CachedStatsExact'
    BY <1>1, <1>8, FiguresSame DEF S3Inv, CachedStatsExact
  <1> QED
    BY <1>4, <1>7, <1>9 DEF S3Inv

\* head_bucket caches the figures it has computed: if a write has overtaken
\* it, the bucket is outdated.
LEMMA FiguresInserted ==
    ASSUME S3Inv, NEW c \in Clients, HeadBucketInsert(c)
    PROVE  S3Inv'
  <1> DEFINE b == req[c].bucket
  <1>1. ~ Over(req[c]) /\ ~ Finishing(c)
    BY AtNotOver DEF HeadBucketInsert
  <1>2. b \in Buckets /\ (req[c].clean => req[c].figures = ComputeBucketStats(b))
    BY <1>1, AtRuns DEF Shaped, CountsBucket, HeadBucketInsert, At
  <1>3. /\ UNCHANGED <<objects, torn>> /\ stats' = [stats EXCEPT ![b] = req[c].figures]
        /\ outdated' = IF req[c].clean THEN outdated \ {b} ELSE outdated \cup {b}
    BY DEF HeadBucketInsert
  <1>4. PICK reply : Step(c, Answered(reply))
    BY Zenon DEF HeadBucketInsert, Answer
  <1>5. /\ req'[c] = Answered(reply) /\ \A d \in Clients \ {c} : req'[d] = req[d]
        /\ req' = [d \in Clients |-> req'[d]]
    BY <1>4, StepSets DEF S3Inv
  <1>6. \A d \in Clients : Running(req[d])'
    BY <1>3, <1>5, RunningSame, AnswersRun DEF S3Inv, Running
  <1>7. \A x \in Buckets : stats'[x] = IF x = b THEN req[c].figures ELSE stats[x]
    BY <1>2, <1>3 DEF S3Inv, Tables
  <1>8. Tables' /\ EtagMatchesBody'
    BY <1>3, <1>5 DEF S3Inv, Tables, EtagMatchesBody, Stored
  <1> HIDE DEF b
  <1>9. CachedStatsExact'
    <2> SUFFICES ASSUME NEW x \in Buckets \ outdated'
                 PROVE  \/ stats'[x] = NoStats
                        \/ \E d \in Clients : req'[d] # NoRequest /\ req'[d].step = "finish" /\ req'[d].bucket = x
                        \/ stats'[x] = ComputeBucketStats(x)'
      BY DEF CachedStatsExact
    <2>1. CASE x = b
      BY <2>1, <1>2, <1>3, <1>7, FiguresSame
    <2>2. CASE x # b
      <3>1. x \in Buckets \ outdated /\ stats'[x] = stats[x]
        BY <2>2, <1>3, <1>7
      <3>2. CASE \E d \in Clients : req[d] # NoRequest /\ req[d].step = "finish" /\ req[d].bucket = x
        BY <3>2, <1>1, <1>5 DEF Finishing
      <3> QED
        BY <1>3, <3>1, <3>2, FiguresSame DEF S3Inv, CachedStatsExact
    <2> QED
      BY <2>1, <2>2
  <1> QED
    BY <1>6, <1>8, <1>9 DEF S3Inv

\* A write ends with the eviction of the figures.
LEMMA WriteFinished ==
    ASSUME S3Inv, NEW c \in Clients, FinishWrite(c)
    PROVE  S3Inv'
  <1> DEFINE b == req[c].bucket
  <1>1. ~ Over(req[c])
    BY DEF FinishWrite, Over
  <1>2. b \in Buckets
    BY <1>1, AtRuns DEF Shaped
  <1>3. /\ UNCHANGED <<objects, torn>> /\ stats' = [stats EXCEPT ![b] = NoStats]
        /\ outdated' = outdated \ {b}
    BY DEF FinishWrite
  <1>4. PICK reply : Step(c, Answered(reply))
    BY Zenon DEF FinishWrite, Answer
  <1>5. /\ req'[c] = Answered(reply) /\ \A d \in Clients \ {c} : req'[d] = req[d]
        /\ req' = [d \in Clients |-> req'[d]]
    BY <1>4, StepSets DEF S3Inv
  <1>6. \A d \in Clients : Running(req[d])'
    BY <1>3, <1>5, RunningSame, AnswersRun DEF S3Inv, Running
  <1>7. \A x \in Buckets : stats'[x] = IF x = b THEN NoStats ELSE stats[x]
    BY <1>2, <1>3 DEF S3Inv, Tables
  <1>8. Tables' /\ EtagMatchesBody'
    BY <1>3, <1>5 DEF S3Inv, Tables, EtagMatchesBody, Stored
  <1>9. CachedStatsExact'
    <2> SUFFICES ASSUME NEW x \in Buckets \ outdated', x # b
                 PROVE  \/ stats'[x] = NoStats
                        \/ \E d \in Clients : req'[d] # NoRequest /\ req'[d].step = "finish" /\ req'[d].bucket = x
                        \/ stats'[x] = ComputeBucketStats(x)'
      BY <1>7 DEF CachedStatsExact
    <2>1. x \in Buckets \ outdated /\ stats'[x] = stats[x]
      BY <1>3, <1>7
    <2>2. CASE \E d \in Clients : req[d] # NoRequest /\ req[d].step = "finish" /\ req[d].bucket = x
      BY <2>2, <1>5
    <2> QED
      BY <1>3, <2>1, <2>2, FiguresSame DEF S3Inv, CachedStatsExact
  <1> QED
    BY <1>6, <1>8, <1>9 DEF S3Inv

\* A client that goes away takes its request with it; a write that it had made
\* leaves the figures of its bucket outdated.
LEMMA ClientLost ==
    ASSUME S3Inv, NEW c \in Clients, LoseClient(c)
    PROVE  S3Inv'
  <1>1. /\ UNCHANGED <<objects, torn, stats>> /\ Step(c, NoRequest) /\ outdated \subseteq outdated'
        /\ Finishing(c) => req[c].bucket \in outdated'
    BY DEF LoseClient, Finishing
  <1>2. /\ req'[c] = NoRequest /\ \A d \in Clients \ {c} : req'[d] = req[d]
        /\ req' = [d \in Clients |-> req'[d]]
    BY <1>1, StepSets DEF S3Inv
  <1>3. \A d \in Clients : Running(req[d])'
    BY <1>1, <1>2, RunningSame DEF S3Inv, Running, Over
  <1>4. Tables' /\ EtagMatchesBody'
    BY <1>1, <1>2 DEF S3Inv, Tables, EtagMatchesBody, Stored
  <1>5. CachedStatsExact'
    <2> SUFFICES ASSUME NEW x \in Buckets \ outdated'
                 PROVE  \/ stats'[x] = NoStats
                        \/ \E d \in Clients : req'[d] # NoRequest /\ req'[d].step = "finish" /\ req'[d].bucket = x
                        \/ stats'[x] = ComputeBucketStats(x)'
      BY DEF CachedStatsExact
    <2>1. CASE \E d \in Clients : req[d] # NoRequest /\ req[d].step = "finish" /\ req[d].bucket = x
      BY <1>1, <1>2, <2>1 DEF Finishing
    <2> QED
      BY <1>1, <2>1, FiguresSame DEF S3Inv, CachedStatsExact
  <1> QED
    BY <1>3, <1>4, <1>5 DEF S3Inv

\* The object and bucket operations keep the invariant, for any number of
\* clients, buckets and keys.
THEOREM S3Invariance == S3Spec => []S3Inv
  <1>1. S3Init => S3Inv
    <2> SUFFICES ASSUME S3Init PROVE S3Inv
      OBVIOUS
    <2>1. Tables
      BY DEF S3Init, Tables
    <2>2. \A c \in Clients : Running(req[c])
      BY IdleRuns DEF S3Init
    <2>3. EtagMatchesBody
      <3>1. \A p \in Paths : Stored(p) => objects[p].meta = NoMeta
        BY DEF S3Init, Stored
      <3>2. NoMeta.etag = NoEtag
        BY DEF NoMeta
      <3> QED
        BY <3>1, <3>2 DEF EtagMatchesBody
    <2>4. CachedStatsExact
      BY DEF S3Init, CachedStatsExact
    <2> QED
      BY <2>1, <2>2, <2>3, <2>4 DEF S3Inv
  <1>2. S3Inv /\ [S3Next]_s3Vars => S3Inv'
    <2> SUFFICES ASSUME S3Inv, [S3Next]_s3Vars PROVE S3Inv'
      OBVIOUS
    <2>1. ASSUME UNCHANGED <<objects, stats, req, torn>>, outdated' = outdated PROVE S3Inv'
      <3>1. \A c \in Clients : Running(req[c])'
        BY <2>1, RunningSame DEF S3Inv, Running
      <3> QED
        BY <2>1, <3>1, FiguresSame DEF S3Inv, Tables, EtagMatchesBody, Stored, CachedStatsExact
    <2>2. ASSUME NEW b \in Buckets, StatsExpire(b) PROVE S3Inv'
      <3>1. UNCHANGED <<objects, req, torn>> /\ stats' = [stats EXCEPT ![b] = NoStats] /\ outdated' = outdated \ {b}
        BY <2>2 DEF StatsExpire
      <3>2. \A c \in Clients : Running(req[c])'
        BY <3>1, RunningSame DEF S3Inv, Running
      <3>3. \A x \in Buckets : stats'[x] = IF x = b THEN NoStats ELSE stats[x]
        BY <3>1 DEF S3Inv, Tables
      <3>4. Tables' /\ EtagMatchesBody'
        BY <3>1 DEF S3Inv, Tables, EtagMatchesBody, Stored
      <3>5. CachedStatsExact'
        BY <3>1, <3>3, FiguresSame DEF S3Inv, CachedStatsExact
      <3> QED
        BY <3>2, <3>4, <3>5 DEF S3Inv
    <2>3. CASE Restart
      <3>1. /\ UNCHANGED <<objects, torn>> /\ \A b \in Buckets : stats'[b] = NoStats
            /\ \A c \in Clients : req'[c] = NoRequest
        BY <2>3 DEF Restart
      <3>2. Tables' /\ EtagMatchesBody' /\ CachedStatsExact'
        BY <2>3, <3>1 DEF Restart, S3Inv, Tables, EtagMatchesBody, Stored, CachedStatsExact
      <3>3. \A c \in Clients : Running(req[c])'
        BY <3>1 DEF Running, Over
      <3> QED
        BY <3>2, <3>3 DEF S3Inv
    <2>4. ASSUME NEW b \in Buckets, CreateBucket(b) PROVE S3Inv'
      BY <2>1, <2>4 DEF CreateBucket
    <2>5. CASE UNCHANGED s3Vars
      BY <2>1, <2>5 DEF s3Vars
    <2> QED
      BY <2>2, <2>3, <2>4, <2>5, SendStep, QuietSteps, CopyReads, Writes, BucketRemoved,
         FiguresInserted, WriteFinished, ClientLost DEF S3Next
  <1> QED
    BY <1>1, <1>2, PTL DEF S3Spec

\* The ETag of every object that has one is the MD5 of its body, unless the
\* object is a copy whose source changed while copy_object read it: the
\* operations of adapter.rs under every interleaving of requests.
THEOREM EtagsMatch == S3Spec => []EtagMatchesBody
  <1>1. S3Inv => EtagMatchesBody
    BY DEF S3Inv
  <1> QED
    BY <1>1, S3Invariance, PTL

\* The cached figures that head_bucket answers from are those of the bucket,
\* but for writes that have not reached their invalidation, figures that a
\* write overtook on their way into the cache, and the deletions and lost
\* clients that never invalidate (adapter.rs).
THEOREM StatsExact == S3Spec => []CachedStatsExact
  <1>1. S3Inv => CachedStatsExact
    BY DEF S3Inv
  <1> QED
    BY <1>1, S3Invariance, PTL

-----------------------------------------------------------------------------
(* What the handlers of the adapter answer.                                *)

\* A request to write has a body of the clients' in hand.
Bodied(r) ==
    r.op = "put_object" \/ (r.op = "copy_object" /\ r.step \in {"meta", "write"}) => r.body \in S3Bodies

\* A get_object that nobody has overtaken knows the size and then the metadata
\* of its object, and it goes on only when the conditions hold.
Knows(r) ==
    r.op = "get_object" =>
        /\ r.range \in Ranges
        /\ r.clean /\ r.step \in {"meta", "body"} =>
              Stored(PathOf(r)) /\ r.size = Len(objects[PathOf(r)].body)
        /\ r.clean /\ r.step = "body" => r.meta = objects[PathOf(r)].meta
        /\ r.step = "body" => Verdict(r, EtagOr(r.meta, EmptyMd5)) = "pass"

\* A delete_bucket that nobody has overtaken has an empty bucket.
Empties(r) ==
    r.op = "delete_bucket" =>
        r.step # "finish" /\ (r.step = "remove" /\ r.clean => InBucket(r.bucket) = {})

Aware(r) == Over(r) \/ (Bodied(r) /\ Knows(r) /\ Empties(r))

\* The bodies in the store are the clients'.
StoredBodies == \A p \in Paths : Stored(p) => objects[p].body \in S3Bodies

\* The inductive invariant of the answers.
AnswerInv == S3Inv /\ StoredBodies /\ \A c \in Clients : Aware(req[c])

\* What is known is about the objects alone.
LEMMA KnownSame ==
    ASSUME UNCHANGED objects, NEW r, Aware(r)
    PROVE  Over(r) \/ (Bodied(r) /\ Knows(r)' /\ Empties(r)')
  <1>1. \A p : Stored(p)' <=> Stored(p)
    BY DEF Stored
  <1>2. \A b : InBucket(b)' = InBucket(b)
    BY <1>1 DEF InBucket
  <1> QED
    BY <1>1, <1>2 DEF Aware, Knows, Empties

\* A step that writes nothing keeps it.
LEMMA KnownStep ==
    ASSUME AnswerInv, NEW c \in Clients, NEW r, Step(c, r), Aware(r), UNCHANGED objects
    PROVE  StoredBodies' /\ \A d \in Clients : Aware(req[d])'
  <1>1. /\ req'[c] = r /\ \A d \in Clients \ {c} : req'[d] = req[d]
    BY StepSets DEF AnswerInv, S3Inv
  <1>2. \A d \in Clients : Aware(req'[d])
    BY <1>1 DEF AnswerInv
  <1>3. \A d \in Clients : Aware(req[d])'
    BY <1>2, KnownSame DEF Aware, Bodied
  <1> QED
    BY <1>3 DEF AnswerInv, StoredBodies, Stored

\* A request that has been overtaken claims little.
LEMMA KnownOvertaken ==
    ASSUME NEW x, Shaped(x), Aware(x), ~ Over(x)
    PROVE  LET y == [x EXCEPT !.clean = FALSE]
           IN  Bodied(y) /\ Knows(y)' /\ Empties(y)'
  <1> DEFINE y == [x EXCEPT !.clean = FALSE]
  <1>1. /\ ~ y.clean /\ y.op = x.op /\ y.step = x.step /\ y.body = x.body /\ y.range = x.range
        /\ y.meta = x.meta /\ y.size = x.size /\ y.dates = x.dates /\ y.cond = x.cond
    BY DEF Shaped, Fields
  <1> HIDE DEF y
  <1>2. \A e : Verdict(y, e) = Verdict(x, e)
    BY <1>1 DEF Verdict, Unsatisfiable
  <1>3. Bodied(y) /\ Empties(y)'
    BY <1>1 DEF Aware, Bodied, Empties
  <1>4. Knows(y)'
    BY <1>1, <1>2 DEF Aware, Knows
  <1> QED
    BY <1>3, <1>4 DEF y

\* A step that writes keeps it.
LEMMA KnownWrite ==
    ASSUME AnswerInv, NEW c \in Clients, NEW r, Overtake(c, r),
           Over(r) \/ (Bodied(r) /\ r.op \notin {"get_object", "delete_bucket"})
    PROVE  \A d \in Clients : Aware(req[d])'
  <1>1. req' = [d \in Clients |->
                  IF d = c THEN r
                  ELSE IF Over(req[d]) THEN req[d]
                  ELSE [req[d] EXCEPT !.clean = FALSE]]
    BY DEF Overtake, Over
  <1>2. ASSUME NEW d \in Clients, d # c, ~ Over(req[d])
        PROVE  Bodied(req[d])' /\ Knows(req[d])' /\ Empties(req[d])'
    <2>1. Shaped(req[d]) /\ Aware(req[d])
      BY <1>2, AtRuns DEF AnswerInv
    <2>2. req'[d] = [req[d] EXCEPT !.clean = FALSE]
      BY <1>1, <1>2
    <2>3. PICK x : x = req[d]
      OBVIOUS
    <2>4. LET y == [x EXCEPT !.clean = FALSE]
          IN  Bodied(y) /\ Knows(y)' /\ Empties(y)'
      BY <1>2, <2>1, <2>3, KnownOvertaken
    <2> QED
      BY <2>2, <2>3, <2>4 DEF Bodied
  <1>3. req'[c] = r
    BY <1>1
  <1>4. Aware(req[c])'
    BY <1>3 DEF Aware, Bodied, Knows, Empties, Over
  <1>5. \A d \in Clients : d # c /\ Over(req[d]) => Aware(req[d])'
    BY <1>1 DEF Aware, Over
  <1> QED
    BY <1>2, <1>4, <1>5 DEF Aware

\* What AnswerInv adds to S3Inv.
Answers == StoredBodies /\ \A c \in Clients : Aware(req[c])

\* A request that begins knows nothing yet.
LEMMA BeginsKnown ==
    ASSUME NEW r, r.step = "begin", r.op = "put_object" => r.body \in S3Bodies,
           r.op = "get_object" => r.range \in Ranges
    PROVE  Aware(r)
  BY DEF Aware, Bodied, Knows, Empties

\* An answered request is over.
LEMMA AnsweredKnown == \A reply : Aware(Answered(reply)) /\ Aware(NoRequest)
  BY DEF Aware, Over, Answered

\* Requests other than those known of.
LEMMA OthersKnown ==
    ASSUME NEW r, r.op \notin {"put_object", "copy_object", "get_object", "delete_bucket"}
    PROVE  Aware(r)
  BY DEF Aware, Bodied, Knows, Empties

\* A client sends a request.
LEMMA SendKnown ==
    ASSUME AnswerInv, NEW c \in Clients, SendAny(c)
    PROVE  Answers'
  <1>1. UNCHANGED objects
    BY DEF SendAny
  <1>2. \A op : \A b \in Buckets, k \in ObjKeys :
           /\ Shaped(Request(op, b, k)) /\ Request(op, b, k).step = "begin"
           /\ Request(op, b, k).op = op /\ Request(op, b, k).range = NoRange
    BY DEF Request, Shaped, Fields, Paths
  <1>3. ASSUME NEW r, r.step = "begin", r.op = "put_object" => r.body \in S3Bodies,
               r.op = "get_object" => r.range \in Ranges, Send(c, r)
        PROVE  Answers'
    <2>1. Aware(r)
      BY <1>3, BeginsKnown
    <2>2. \/ Step(c, r) \/ Step(c, Answered([error |-> "NoSuchBucket"]))
      BY <1>3 DEF Send, Fail, Answer
    <2> QED
      BY <1>1, <2>1, <2>2, KnownStep, AnsweredKnown DEF Answers
  <1>4. ASSUME NEW b \in Buckets, NEW k \in ObjKeys, NEW body \in S3Bodies, NEW h \in Headers,
               Send(c, [Request("put_object", b, k) EXCEPT !.body = body, !.headers = h])
        PROVE  Answers'
    <2> DEFINE r == [Request("put_object", b, k) EXCEPT !.body = body, !.headers = h]
    <2>1. r.step = "begin" /\ r.body = body /\ r.op = "put_object"
      BY <1>2 DEF Shaped, Fields
    <2> HIDE DEF r
    <2>2. Send(c, r)
      BY <1>4 DEF r
    <2> QED
      BY <2>1, <2>2, <1>3
  <1>5. ASSUME NEW b \in Buckets, NEW k \in ObjKeys, NEW range \in Ranges, NEW cond \in Conds,
               NEW dates \in {"pass", "NotModified", "PreconditionFailed"},
               Send(c, [Request("get_object", b, k) EXCEPT !.range = range, !.cond = cond, !.dates = dates])
        PROVE  Answers'
    <2> DEFINE r == [Request("get_object", b, k) EXCEPT !.range = range, !.cond = cond, !.dates = dates]
    <2>1. r.step = "begin" /\ r.range = range /\ r.op = "get_object"
      BY <1>2 DEF Shaped, Fields
    <2> HIDE DEF r
    <2>2. Send(c, r)
      BY <1>5 DEF r
    <2> QED
      BY <2>1, <2>2, <1>3
  <1>6. ASSUME NEW b \in Buckets, NEW k \in ObjKeys, NEW op, op \notin {"put_object"}, Send(c, Request(op, b, k))
        PROVE  Answers'
    BY <1>6, <1>2, <1>3, S3Assumption
  <1>7. ASSUME NEW b \in Buckets, NEW k \in ObjKeys, NEW src \in Paths, NEW h \in Headers, NEW rep \in BOOLEAN,
               Send(c, [Request("copy_object", b, k) EXCEPT !.src = src, !.headers = h, !.replace = rep])
        PROVE  Answers'
    <2> DEFINE r == [Request("copy_object", b, k) EXCEPT !.src = src, !.headers = h, !.replace = rep]
    <2>1. r.step = "begin" /\ r.op = "copy_object"
      BY DEF Request
    <2> HIDE DEF r
    <2>2. Send(c, r)
      BY <1>7 DEF r
    <2> QED
      BY <2>1, <2>2, <1>3
  <1>k. ObjKeys # {} => NoKey \in ObjKeys
    BY DEF NoKey
  <1>8. ASSUME NEW b \in Buckets, NEW k \in ObjKeys,
               Send(c, [Request("delete_objects", b, NoKey) EXCEPT !.keys = ObjKeys])
        PROVE  Answers'
    <2> DEFINE r == [Request("delete_objects", b, NoKey) EXCEPT !.keys = ObjKeys]
    <2>1. r.step = "begin" /\ r.op = "delete_objects"
      BY <1>2, <1>k DEF Shaped, Fields
    <2> HIDE DEF r
    <2>2. Send(c, r)
      BY <1>8 DEF r
    <2> QED
      BY <2>1, <2>2, <1>3
  <1>9. PICK b \in Buckets, k \in ObjKeys :
          \/ \E body \in S3Bodies, h \in Headers :
                Send(c, [Request("put_object", b, k) EXCEPT !.body = body, !.headers = h])
          \/ \E range \in Ranges, cond \in Conds, dates \in {"pass", "NotModified", "PreconditionFailed"} :
                Send(c, [Request("get_object", b, k) EXCEPT !.range = range, !.cond = cond, !.dates = dates])
          \/ \E op \in {"head_object", "get_object_attributes", "delete_object"} : Send(c, Request(op, b, k))
          \/ \E src \in Paths, h \in Headers, rep \in BOOLEAN :
                Send(c, [Request("copy_object", b, k) EXCEPT !.src = src, !.headers = h, !.replace = rep])
          \/ \E op \in {"head_bucket", "delete_bucket"} : Send(c, Request(op, b, NoKey))
          \/ Send(c, [Request("delete_objects", b, NoKey) EXCEPT !.keys = ObjKeys])
    BY ZenonT(60) DEF SendAny
  <1>10. "put_object" \notin {"head_object", "get_object_attributes", "delete_object"}
         /\ "put_object" \notin {"head_bucket", "delete_bucket"}
    OBVIOUS
  <1> QED
    BY <1>4, <1>5, <1>6, <1>7, <1>8, <1>9, <1>10, <1>k

\* The requests that answer at once, and those that other requests do not
\* depend on.
LEMMA PlainKnown ==
    ASSUME AnswerInv, NEW c \in Clients,
           \/ Return(c) \/ HeadBucketCached(c) \/ HeadBucketCompute(c) \/ HeadBucketInsert(c)
           \/ PutObjectFails(c) \/ FinishWrite(c) \/ HeadMeta(c) \/ GetBody(c)
    PROVE  Answers'
  <1>u. UNCHANGED objects
    BY DEF Return, HeadBucketCached, HeadBucketCompute, HeadBucketInsert, PutObjectFails, FinishWrite, HeadMeta,
           GetBody
  <1>1. CASE HeadBucketCompute(c)
    <2> DEFINE r == [req[c] EXCEPT !.step = "insert", !.figures = ComputeBucketStats(req[c].bucket)]
    <2>1. ~ Over(req[c]) /\ req[c].op = "head_bucket"
      BY <1>1, AtNotOver DEF HeadBucketCompute, At
    <2>2. r.op = "head_bucket" /\ Step(c, r)
      BY <1>1, <2>1, AtRuns DEF Shaped, Fields, HeadBucketCompute, AnswerInv
    <2> HIDE DEF r
    <2> QED
      BY <1>u, <2>2, OthersKnown, KnownStep DEF Answers
  <1>2. CASE ~ HeadBucketCompute(c)
    <2>1. Step(c, NoRequest) \/ \E reply : Step(c, Answered(reply))
      BY <1>2, Zenon DEF Return, HeadBucketCached, HeadBucketInsert, PutObjectFails, FinishWrite, HeadMeta,
           GetBody, Answer, Fail
    <2> QED
      BY <1>u, <2>1, AnsweredKnown, KnownStep DEF Answers
  <1> QED
    BY <1>1, <1>2

\* A request fails.
LEMMA FailKnown ==
    ASSUME AnswerInv, NEW c \in Clients, NEW code, Fail(c, code), UNCHANGED objects
    PROVE  Answers'
  BY AnsweredKnown, KnownStep DEF Answers, Fail, Answer

\* delete_bucket finds its bucket empty.
LEMMA ListKnown ==
    ASSUME AnswerInv, NEW c \in Clients, DeleteBucketList(c)
    PROVE  Answers'
  <1> DEFINE r == [req[c] EXCEPT !.step = "remove"]
  <1>1. ~ Over(req[c]) /\ req[c].op = "delete_bucket" /\ UNCHANGED objects
    BY AtNotOver DEF DeleteBucketList, At
  <1>2. r.step = "remove" /\ r.op = "delete_bucket" /\ r.bucket = req[c].bucket
    BY <1>1, AtRuns DEF Shaped, Fields, AnswerInv
  <1>3. Fail(c, "BucketNotEmpty") \/ (Step(c, r) /\ InBucket(req[c].bucket) = {})
    BY DEF DeleteBucketList
  <1> HIDE DEF r
  <1>4. InBucket(req[c].bucket) = {} => Aware(r)
    BY <1>2 DEF Aware, Bodied, Knows, Empties
  <1> QED
    BY <1>1, <1>3, <1>4, KnownStep, FailKnown DEF Answers

\* copy_object up to its write has a body of the store's in hand.
LEMMA CopyKnown ==
    ASSUME AnswerInv, NEW c \in Clients, CopyHead(c) \/ CopyBody(c) \/ CopyMeta(c)
    PROVE  Answers'
  <1>u. UNCHANGED objects
    BY DEF CopyHead, CopyBody, CopyMeta
  <1>o. ~ Over(req[c]) /\ req[c].op = "copy_object" /\ Shaped(req[c]) /\ Aware(req[c])
    BY AtNotOver, AtRuns DEF CopyHead, CopyBody, CopyMeta, At, AnswerInv
  <1>k. \A r : r.op = "copy_object" /\ (r.step \in {"meta", "write"} => r.body \in S3Bodies) => Aware(r)
    BY DEF Aware, Bodied, Knows, Empties
  <1>1. CASE CopyHead(c)
    <2> DEFINE r == [req[c] EXCEPT !.step = "body",
                         !.size = IF objects[req[c].src].meta = NoMeta THEN 0 ELSE 1]
    <2>1. r.op = "copy_object" /\ r.step = "body"
      BY <1>o DEF Shaped, Fields
    <2>2. (\E code : Fail(c, code)) \/ Step(c, r)
      BY <1>1, Zenon DEF CopyHead
    <2> HIDE DEF r
    <2> QED
      BY <1>u, <1>k, <2>1, <2>2, KnownStep, FailKnown DEF Answers
  <1>2. CASE CopyBody(c)
    <2> DEFINE r == [req[c] EXCEPT !.step = "meta", !.body = objects[req[c].src].body]
    <2>1. r.op = "copy_object" /\ r.body = objects[req[c].src].body
      BY <1>o DEF Shaped, Fields
    <2>2. (\E code : Fail(c, code)) \/ (Step(c, r) /\ Stored(req[c].src))
      BY <1>2, Zenon DEF CopyBody
    <2> HIDE DEF r
    <2>3. Stored(req[c].src) => r.body \in S3Bodies
      BY <1>o, <2>1 DEF AnswerInv, StoredBodies, Shaped
    <2> QED
      BY <1>u, <1>k, <2>1, <2>2, <2>3, KnownStep, FailKnown DEF Answers
  <1>3. CASE CopyMeta(c)
    <2> DEFINE m    == IF req[c].size = 0 THEN NoMeta ELSE GetMetadata(req[c].src)
               etag == IF m.etag = NoEtag THEN Md5(req[c].body) ELSE m.etag
               r    == [req[c] EXCEPT !.step = "write", !.meta = Meta(m.headers, etag)]
    <2>1. (\E code : Fail(c, code)) \/ Step(c, r)
      BY <1>3, Zenon DEF CopyMeta
    <2> HIDE DEF m, etag
    <2>2. r.op = "copy_object" /\ r.body = req[c].body
      BY <1>o DEF Shaped, Fields
    <2> HIDE DEF r
    <2>3. req[c].body \in S3Bodies
      BY <1>3, <1>o DEF CopyMeta, At, Aware, Bodied
    <2> QED
      BY <1>u, <1>k, <2>1, <2>2, <2>3, KnownStep, FailKnown DEF Answers
  <1> QED
    BY <1>1, <1>2, <1>3

\* get_object and the others look an object up.
LEMMA ReadKnown ==
    ASSUME AnswerInv, NEW c \in Clients, ReadHead(c)
    PROVE  Answers'
  <1> DEFINE r == [req[c] EXCEPT !.step = "meta", !.size = HeadSize(PathOf(req[c]))]
  <1>1. ~ Over(req[c]) /\ req[c].op \in Reading /\ UNCHANGED objects
    BY ReadingNotOver DEF ReadHead
  <1>2. Shaped(req[c]) /\ Aware(req[c])
    BY <1>1, AtRuns DEF AnswerInv
  <1>3. /\ r.step = "meta" /\ r.op = req[c].op /\ PathOf(r) = PathOf(req[c]) /\ r.range = req[c].range
        /\ r.size = HeadSize(PathOf(req[c]))
    BY <1>2 DEF Shaped, Fields, PathOf
  <1>4. Fail(c, "NoSuchKey") \/ (Step(c, r) /\ Stored(PathOf(req[c])))
    BY DEF ReadHead
  <1> HIDE DEF r
  <1>5. r.op = "get_object" => r.range \in Ranges
    BY <1>1, <1>2, <1>3 DEF Aware, Knows
  <1>6. Stored(PathOf(req[c])) => Aware(r)
    BY <1>1, <1>3, <1>5 DEF Aware, Bodied, Knows, Empties, Reading, HeadSize
  <1> QED
    BY <1>1, <1>4, <1>6, KnownStep, FailKnown DEF Answers

\* get_object reads the metadata and looks at the conditions.
LEMMA MetaKnown ==
    ASSUME AnswerInv, NEW c \in Clients, GetMeta(c)
    PROVE  Answers'
  <1> DEFINE m == GetMetadata(PathOf(req[c]))
             r == [req[c] EXCEPT !.step = "body", !.meta = m]
  <1>1. ~ Over(req[c]) /\ req[c].op = "get_object" /\ req[c].step = "meta" /\ UNCHANGED objects
    BY AtNotOver DEF GetMeta, At
  <1>2. Shaped(req[c]) /\ Knows(req[c])
    BY <1>1, AtRuns DEF AnswerInv, Aware
  <1>3. (\E code : Fail(c, code)) \/ (Step(c, r) /\ Verdict(req[c], EtagOr(m, EmptyMd5)) = "pass")
    BY Zenon DEF GetMeta
  <1>m. Stored(PathOf(req[c])) => m = objects[PathOf(req[c])].meta
    BY DEF GetMetadata
  <1> HIDE DEF m
  <1>4. /\ r.step = "body" /\ r.op = "get_object" /\ PathOf(r) = PathOf(req[c]) /\ r.range = req[c].range
        /\ r.size = req[c].size /\ r.meta = m /\ r.clean = req[c].clean /\ r.dates = req[c].dates
        /\ r.cond = req[c].cond
    BY <1>1, <1>2 DEF Shaped, Fields, PathOf
  <1> HIDE DEF r
  <1>5. \A e : Verdict(r, e) = Verdict(req[c], e)
    BY <1>4 DEF Verdict, Unsatisfiable
  <1>6. r.clean => Stored(PathOf(r)) /\ r.size = Len(objects[PathOf(r)].body)
    BY <1>1, <1>2, <1>4 DEF Knows
  <1>a. Bodied(r) /\ Empties(r)
    BY <1>4 DEF Bodied, Empties
  <1>b. r.range \in Ranges /\ (r.clean => r.meta = objects[PathOf(r)].meta)
    BY <1>1, <1>2, <1>4, <1>6, <1>m DEF Knows
  <1>7. Verdict(req[c], EtagOr(m, EmptyMd5)) = "pass" => Aware(r)
    BY <1>4, <1>5, <1>6, <1>a, <1>b DEF Aware, Knows
  <1> QED
    BY <1>1, <1>3, <1>7, KnownStep, FailKnown DEF Answers
\* The store after a write holds bodies of the clients'.
LEMMA StoredAfter ==
    ASSUME AnswerInv, NEW p \in Paths, NEW o, objects' = [objects EXCEPT ![p] = o],
           o = NoObject \/ o.body \in S3Bodies
    PROVE  StoredBodies'
  <1>1. \A q \in Paths : objects'[q] = IF q = p THEN o ELSE objects[q]
    BY DEF AnswerInv, S3Inv, Tables
  <1> QED
    BY <1>1 DEF AnswerInv, StoredBodies, Stored

\* The writes.
LEMMA WritesKnown ==
    ASSUME AnswerInv, NEW c \in Clients,
           \/ PutObject(c) \/ DeleteObject(c) \/ CopyWrite(c)
           \/ DeleteSidecar(c) \/ DeleteObjectFails(c) \/ DeleteObjects(c)
    PROVE  Answers'
  <1>f. ASSUME ~ Over(req[c]), req[c].op \in {"put_object", "delete_object", "copy_object"},
               Overtake(c, [req[c] EXCEPT !.step = "finish"])
        PROVE  \A d \in Clients : Aware(req[d])'
    <2> DEFINE r == [req[c] EXCEPT !.step = "finish"]
    <2>1. Shaped(req[c]) /\ Bodied(req[c])
      BY <1>f, AtRuns DEF AnswerInv, Aware
    <2>2. r.op = req[c].op /\ r.step = "finish" /\ r.body = req[c].body
      BY <2>1 DEF Shaped, Fields
    <2>3. Overtake(c, r)
      BY <1>f
    <2> HIDE DEF r
    <2>4. Bodied(r) /\ r.op \notin {"get_object", "delete_bucket"}
      BY <1>f, <2>1, <2>2 DEF Bodied
    <2> QED
      BY <2>3, <2>4, KnownWrite
  <1>p. \A b, m : [body |-> b, meta |-> m].body = b
    OBVIOUS
  <1>1. CASE PutObject(c)
    <2>1. ~ Over(req[c]) /\ req[c].op = "put_object"
      BY <1>1, AtNotOver DEF PutObject, At
    <2>2. PathOf(req[c]) \in Paths /\ req[c].body \in S3Bodies
      BY <2>1, AtRuns DEF AnswerInv, Aware, Bodied
    <2>3. StoredBodies'
      BY <1>1, <1>p, <2>2, StoredAfter DEF PutObject, PutWithMeta
    <2> QED
      BY <1>1, <1>f, <2>1, <2>3 DEF PutObject, Answers
  <1>2. CASE DeleteObject(c)
    <2>1. ~ Over(req[c]) /\ req[c].op = "delete_object"
      BY <1>2, AtNotOver DEF DeleteObject, At
    <2>2. PathOf(req[c]) \in Paths
      BY <2>1, AtRuns DEF AnswerInv
    <2>3. StoredBodies'
      BY <1>2, <2>2, StoredAfter DEF DeleteObject
    <2> QED
      BY <1>2, <1>f, <2>1, <2>3 DEF DeleteObject, Answers
  <1>3. CASE CopyWrite(c)
    <2>1. ~ Over(req[c]) /\ req[c].op = "copy_object" /\ req[c].step = "write"
      BY <1>3, AtNotOver DEF CopyWrite, At
    <2>2. PathOf(req[c]) \in Paths /\ req[c].body \in S3Bodies
      BY <2>1, AtRuns DEF AnswerInv, Aware, Bodied
    <2>3. StoredBodies'
      BY <1>3, <1>p, <2>2, StoredAfter DEF CopyWrite, PutWithMeta
    <2> QED
      BY <1>3, <1>f, <2>1, <2>3 DEF CopyWrite, Answers
  <1>k. ASSUME NEW p \in Paths, NEW o, objects' = [objects EXCEPT ![p] = o],
               o \in {NoObject, objects[p], WithoutSidecar(objects[p])}
        PROVE  StoredBodies'
    <2>1. o = NoObject \/ (Stored(p) /\ o.body = objects[p].body)
      BY <1>k DEF WithoutSidecar, Stored
    <2> QED
      BY <1>k, <2>1, StoredAfter DEF AnswerInv, StoredBodies
  <1>d. ASSUME ~ Over(req[c]), req[c].op \in {"delete_object", "delete_objects"}, NEW r,
               Overtake(c, r), Over(r) \/ r.op = req[c].op
        PROVE  \A d \in Clients : Aware(req[d])'
    <2>1. Over(r) \/ (Bodied(r) /\ r.op \notin {"get_object", "delete_bucket"})
      BY <1>d DEF Bodied
    <2> QED
      BY <1>d, <2>1, KnownWrite
  <1>4. CASE DeleteObjectFails(c) \/ DeleteObjects(c)
    <2>1. ~ Over(req[c]) /\ req[c].op \in {"delete_object", "delete_objects"}
      BY <1>4, AtNotOver DEF DeleteObjectFails, DeleteObjects, At
    <2>2. Shaped(req[c]) /\ PathOf(req[c]) \in Paths
      BY <2>1, AtRuns DEF AnswerInv
    <2>3. \E left \in LeftByError(PathOf(req[c])) : objects' = [objects EXCEPT ![PathOf(req[c])] = left]
      BY <1>4 DEF DeleteObjectFails, DeleteObjects
    <2>4. StoredBodies'
      BY <1>k, <2>2, <2>3 DEF LeftByError
    <2> DEFINE r == [req[c] EXCEPT !.step = "begin"]
    <2>5. r.op = req[c].op
      BY <2>2 DEF Shaped, Fields
    <2>6. (\E reply : Overtake(c, Answered(reply))) \/ Overtake(c, r)
      BY <1>4, Zenon DEF DeleteObjectFails, DeleteObjects
    <2> HIDE DEF r
    <2> QED
      BY <1>d, <2>1, <2>4, <2>5, <2>6, AnswersRun DEF Answers
  <1>5. CASE DeleteSidecar(c)
    <2>0. req[c] # NoRequest /\ req[c].op \in {"delete_object", "delete_objects"} /\ req[c].step = "begin"
      BY <1>5, Zenon DEF DeleteSidecar
    <2>1. ~ Over(req[c]) /\ req[c].op \in {"delete_object", "delete_objects"}
      BY <2>0, ReadingNotOver
    <2>2. Shaped(req[c])
      BY <2>1, AtRuns DEF AnswerInv
    <2>3. PICK k \in (IF req[c].op = "delete_object" THEN {req[c].key} ELSE req[c].keys) :
            /\ \E raw \in BOOLEAN :
                objects' = [objects EXCEPT ![<<req[c].bucket, k>>] = IF raw THEN @ ELSE WithoutSidecar(@)]
            /\ Overtake(c, [req[c] EXCEPT !.step = "delete", !.key = k, !.keys = @ \ {k}])
      BY <1>5, Zenon DEF DeleteSidecar
    <2> DEFINE f == <<req[c].bucket, k>>
               r == [req[c] EXCEPT !.step = "delete", !.key = k, !.keys = @ \ {k}]
    <2>4. f \in Paths /\ r.op = req[c].op
      BY <2>2 DEF Shaped, Fields, Paths
    <2>5. Overtake(c, r)
      BY <2>3
    <2> HIDE DEF f, r
    <2>6. \E o \in {objects[f], WithoutSidecar(objects[f])} : objects' = [objects EXCEPT ![f] = o]
      BY <2>3 DEF f
    <2>7. StoredBodies'
      BY <1>k, <2>4, <2>6
    <2> QED
      BY <1>d, <2>1, <2>4, <2>5, <2>7 DEF Answers
  <1> QED
    BY <1>1, <1>2, <1>3, <1>4, <1>5

\* delete_bucket removes the name.
LEMMA RemoveKnown ==
    ASSUME AnswerInv, NEW c \in Clients, DeleteBucketRemove(c)
    PROVE  Answers'
  <1>1. UNCHANGED objects /\ \E reply : Overtake(c, Answered(reply))
    BY Zenon DEF DeleteBucketRemove
  <1> QED
    BY <1>1, AnswersRun, KnownWrite DEF Answers, AnswerInv, StoredBodies, Stored

\* A client goes away.
LEMMA LostKnown ==
    ASSUME AnswerInv, NEW c \in Clients, LoseClient(c)
    PROVE  Answers'
  <1>1. UNCHANGED objects /\ Step(c, NoRequest)
    BY DEF LoseClient
  <1> QED
    BY <1>1, AnsweredKnown, KnownStep DEF Answers

\* The operations keep what the answers rest on.
THEOREM AnswerInvariance == S3Spec => []AnswerInv
  <1>1. S3Init => Answers
    <2> SUFFICES ASSUME S3Init PROVE Answers
      OBVIOUS
    <2>1. \A c \in Clients : Aware(req[c])
      BY AnsweredKnown DEF S3Init
    <2>2. StoredBodies
      BY DEF S3Init, StoredBodies, Stored
    <2> QED
      BY <2>1, <2>2 DEF Answers
  <1>2. S3Inv /\ Answers /\ [S3Next]_s3Vars => Answers'
    <2> SUFFICES ASSUME AnswerInv, [S3Next]_s3Vars PROVE Answers'
      BY DEF AnswerInv, Answers
    <2>1. ASSUME UNCHANGED <<objects, req>> PROVE Answers'
      <3>1. \A c \in Clients : Aware(req[c])'
        BY <2>1, KnownSame DEF AnswerInv, Aware, Bodied, Over
      <3> QED
        BY <2>1, <3>1 DEF AnswerInv, Answers, StoredBodies, Stored
    <2>2. CASE Restart
      <3>1. UNCHANGED objects /\ \A c \in Clients : req'[c] = NoRequest
        BY <2>2 DEF Restart
      <3> QED
        BY <3>1 DEF AnswerInv, Answers, StoredBodies, Stored, Aware, Over
    <2>3. ASSUME NEW b \in Buckets, CreateBucket(b) \/ StatsExpire(b) PROVE Answers'
      BY <2>1, <2>3 DEF CreateBucket, StatsExpire
    <2>4. CASE UNCHANGED s3Vars
      BY <2>1, <2>4 DEF s3Vars
    <2> QED
      BY <2>2, <2>3, <2>4, SendKnown, PlainKnown, ListKnown, CopyKnown, ReadKnown, MetaKnown, WritesKnown,
         RemoveKnown, LostKnown DEF S3Next
  <1>3. S3Inv /\ Answers => AnswerInv
    BY DEF AnswerInv, Answers
  <1> QED
    BY <1>1, <1>2, <1>3, S3Invariance, PTL DEF S3Spec

\* A number below the word size is its own remainder.
LEMMA SmallRemainder ==
    ASSUME NEW w \in Nat, NEW x \in Nat, x < w
    PROVE  x % w = x
  OBVIOUS

\* The bytes asked for are those between the ends that get_object computes.
LEMMA AskedInterval ==
    ASSUME NEW range \in Ranges, NEW n \in Nat, range.kind \in {"int", "from"} => range.first < n,
           ~ WrappingRange(range)
    PROVE  /\ RangeStart(range, n) \in 0..n /\ RangeEnd(range, n) \in RangeStart(range, n)..n
           /\ Asked(range, n) = RangeStart(range, n)..(RangeEnd(range, n) - 1)
           /\ range = NoRange => RangeStart(range, n) = 0 /\ RangeEnd(range, n) = n
  <1>1. CASE range = NoRange
    <2>1. range.kind = "none"
      BY <1>1 DEF NoRange
    <2>2. RangeStart(range, n) = 0 /\ RangeEnd(range, n) = n
      BY <2>1 DEF RangeStart, RangeEnd
    <2>3. Asked(range, n) = 0..(n - 1)
      BY <2>1 DEF Asked
    <2> QED
      BY <2>2, <2>3
  <1>2. CASE range # NoRange /\ range.kind = "int"
    <2>1. range.first \in Nat /\ range.last \in Nat /\ range.first <= range.last /\ range.first < n
          /\ WordSize \in Nat /\ range.last + 1 < WordSize
      BY <1>2, S3Assumption DEF WrappingRange
    <2>e. (range.last + 1) % WordSize = range.last + 1
      <3> DEFINE x == range.last + 1
      <3>1. x \in Nat /\ x < WordSize
        BY <2>1
      <3> HIDE DEF x
      <3>2. x % WordSize = x
        BY <2>1, <3>1, SmallRemainder
      <3> QED
        BY <3>2 DEF x
    <2>2. RangeStart(range, n) = range.first /\ RangeEnd(range, n) = IF range.last + 1 < n THEN range.last + 1 ELSE n
      BY <1>2, <2>e DEF RangeStart, RangeEnd
    <2>3. Asked(range, n) = {i \in 0..(n - 1) : i >= range.first /\ i <= range.last}
      BY <1>2 DEF Asked
    <2> QED
      BY <1>2, <2>1, <2>2, <2>3
  <1>4. CASE range # NoRange /\ range.kind = "from"
    <2>1. range.first \in Nat /\ range.first < n
      BY <1>4, S3Assumption
    <2>2. RangeStart(range, n) = range.first /\ RangeEnd(range, n) = n
      BY <1>4 DEF RangeStart, RangeEnd
    <2>3. Asked(range, n) = {i \in 0..(n - 1) : i >= range.first}
      BY <1>4 DEF Asked
    <2> QED
      BY <1>4, <2>1, <2>2, <2>3
  <1>3. CASE range # NoRange /\ range.kind \notin {"int", "from"}
    <2>1. range.kind = "suffix" /\ range.length \in Nat
      BY <1>3, S3Assumption
    <2>2. RangeStart(range, n) = n - (IF range.length < n THEN range.length ELSE n) /\ RangeEnd(range, n) = n
      BY <2>1 DEF RangeStart, RangeEnd
    <2>3. Asked(range, n) = {i \in 0..(n - 1) : i >= n - range.length}
      BY <2>1 DEF Asked
    <2> QED
      BY <1>3, <2>1, <2>2, <2>3
  <1> QED
    BY <1>1, <1>2, <1>3, <1>4

\* The slice of a body between two ends has the bytes of that interval, each
\* at its rank.
LEMMA SliceExact ==
    ASSUME NEW body, body \in Seq(Range(body)), NEW lo \in 0..Len(body), NEW hi \in lo..Len(body)
    PROVE  LET asked == lo..(hi - 1)
           IN  /\ Len(Slice(body, lo, hi)) = Cardinality(asked) /\ Cardinality(asked) = hi - lo
               /\ \A i \in asked : Slice(body, lo, hi)[Cardinality({j \in asked : j <= i})] = body[i + 1]
  <1>1. Len(body) \in Nat /\ \A i \in (lo + 1)..hi : body[i] \in Range(body)
    BY ElementOfSeq
  <1>2. Slice(body, lo, hi) = SubSeq(body, lo + 1, hi)
    BY <1>1 DEF Slice
  <1>3. lo \in Nat /\ hi \in Nat /\ lo <= hi
    BY <1>1
  <1>4. lo \in Int /\ lo + 1 \in Int /\ hi \in Int /\ hi - 1 \in Int
    BY <1>3
  <1>5. /\ Len(SubSeq(body, lo + 1, hi)) = IF lo + 1 <= hi THEN hi - (lo + 1) + 1 ELSE 0
        /\ \A i \in 1..(hi - (lo + 1) + 1) : SubSeq(body, lo + 1, hi)[i] = body[lo + 1 + i - 1]
    <2>1. \A i \in (lo + 1)..hi : body[i] \in Range(body)
      BY <1>1
    <2> DEFINE m == lo + 1
               S == Range(body)
    <2>2. m \in Int /\ hi \in Int /\ \A i \in m..hi : body[i] \in S
      BY <1>4, <2>1
    <2> HIDE DEF m, S
    <2>3. /\ Len(SubSeq(body, m, hi)) = IF m <= hi THEN hi - m + 1 ELSE 0
          /\ \A i \in 1..(hi - m + 1) : SubSeq(body, m, hi)[i] = body[m + i - 1]
      BY <2>2, SubSeqProperties
    <2> QED
      BY <2>3 DEF m
  <1>6. Cardinality(lo..(hi - 1)) = hi - lo
    <2>1. Cardinality(lo..(hi - 1)) = IF lo > hi - 1 THEN 0 ELSE (hi - 1) - lo + 1
      BY <1>4, FS_Interval
    <2> QED
      BY <1>3, <2>1
  <1>7. ASSUME NEW i \in lo..(hi - 1)
        PROVE  Cardinality({j \in lo..(hi - 1) : j <= i}) = i - lo + 1
    <2>1. {j \in lo..(hi - 1) : j <= i} = lo..i
      BY <1>3
    <2>2. i \in Int /\ lo <= i
      BY <1>3
    <2>3. Cardinality(lo..i) = IF lo > i THEN 0 ELSE i - lo + 1
      BY <1>4, <2>2, FS_Interval
    <2>4. Cardinality(lo..i) = i - lo + 1
      BY <1>4, <2>2, <2>3
    <2> QED
      BY <2>1, <2>4, Zenon
  <1>8. ASSUME NEW i \in lo..(hi - 1)
        PROVE  SubSeq(body, lo + 1, hi)[i - lo + 1] = body[i + 1]
    <2>1. i - lo + 1 \in 1..(hi - (lo + 1) + 1) /\ lo + 1 + (i - lo + 1) - 1 = i + 1
      BY <1>3
    <2> QED
      BY <1>5, <2>1
  <1>9. Len(SubSeq(body, lo + 1, hi)) = hi - lo
    BY <1>3, <1>5
  <1> QED
    BY <1>2, <1>6, <1>7, <1>8, <1>9

\* A request whose conditions hold.
LEMMA VerdictPassed ==
    ASSUME NEW r, NEW etag, Verdict(r, etag) = "pass"
    PROVE  /\ ~ Unsatisfiable(r)
           /\ r.cond.kind = "match" => EtagMatches(r.cond, etag)
           /\ r.cond.kind = "none_match" => ~ EtagMatches(r.cond, etag)
  BY DEF Verdict

\* What client c's request does.
Acts(c) ==
    \/ SendAny(c) \/ Return(c) \/ LoseClient(c)
    \/ DeleteBucketList(c) \/ DeleteBucketRemove(c)
    \/ HeadBucketCached(c) \/ HeadBucketCompute(c) \/ HeadBucketInsert(c)
    \/ PutObject(c) \/ PutObjectFails(c) \/ FinishWrite(c)
    \/ DeleteSidecar(c) \/ DeleteObject(c) \/ DeleteObjectFails(c) \/ DeleteObjects(c)
    \/ CopyHead(c) \/ CopyBody(c) \/ CopyMeta(c) \/ CopyWrite(c)
    \/ ReadHead(c) \/ HeadMeta(c) \/ GetMeta(c) \/ GetBody(c)

\* Each of them changes one request, and may overtake the others.
LEMMA ActsStep ==
    ASSUME NEW c \in Clients, Acts(c)
    PROVE  \E r : Step(c, r) \/ Overtake(c, r)
  <1>0. \A code : Fail(c, code) => \E r : Step(c, r)
    BY DEF Fail, Answer
  <1>1. CASE SendAny(c)
    <2>1. \E r : Send(c, r)
      BY <1>1, Zenon DEF SendAny
    <2> QED
      BY <1>0, <2>1, Zenon DEF Send
  <1>2. CASE \/ Return(c) \/ LoseClient(c) \/ DeleteBucketList(c) \/ HeadBucketCached(c) \/ HeadBucketCompute(c)
             \/ HeadBucketInsert(c) \/ PutObjectFails(c) \/ FinishWrite(c)
    BY <1>0, <1>2, Zenon DEF Return, LoseClient, DeleteBucketList, HeadBucketCached, HeadBucketCompute,
       HeadBucketInsert, PutObjectFails, FinishWrite, Answer
  <1>3. CASE \/ DeleteBucketRemove(c) \/ PutObject(c) \/ DeleteObject(c) \/ CopyWrite(c)
             \/ DeleteSidecar(c) \/ DeleteObjectFails(c) \/ DeleteObjects(c)
    BY <1>3, Zenon DEF DeleteBucketRemove, PutObject, DeleteObject, DeleteObjects, CopyWrite, DeleteSidecar,
       DeleteObjectFails
  <1>4. CASE \/ CopyHead(c) \/ CopyBody(c) \/ CopyMeta(c) \/ ReadHead(c) \/ HeadMeta(c) \/ GetMeta(c)
             \/ GetBody(c)
    BY <1>0, <1>4, Zenon DEF CopyHead, CopyBody, CopyMeta, ReadHead, HeadMeta, GetMeta, GetBody, Answer
  <1> QED
    BY <1>1, <1>2, <1>3, <1>4 DEF Acts

\* A request is answered by a step of its own.
LEMMA OwnAnswer ==
    ASSUME AnswerInv, [S3Next]_s3Vars, NEW c \in Clients, Answering(c)
    PROVE  Acts(c)
  <1>1. req'[c] # req[c] /\ req'[c] # NoRequest /\ req'[c].step = "answered" /\ ~ Over(req[c])
    BY DEF Answering, Over
  <1>2. ASSUME NEW d \in Clients, Acts(d), d # c PROVE FALSE
    <2>1. PICK r : Step(d, r) \/ Overtake(d, r)
      BY <1>2, ActsStep
    <2>2. CASE Step(d, r)
      BY <1>1, <1>2, <2>2, StepSets DEF AnswerInv, S3Inv
    <2>3. CASE Overtake(d, r)
      <3>1. \/ Over(req[c]) /\ req'[c] = req[c]
            \/ req'[c].step = req[c].step
        BY <1>2, <2>3, OvertakeSets DEF AnswerInv, S3Inv
      <3> QED
        BY <1>1, <3>1 DEF Over
    <2> QED
      BY <2>1, <2>2, <2>3
  <1>3. \/ \E d \in Clients : Acts(d)
        \/ \E b \in Buckets : CreateBucket(b) \/ StatsExpire(b)
        \/ Restart \/ UNCHANGED s3Vars
    BY Zenon DEF S3Next, Acts
  <1>4. \A b \in Buckets : ~ (CreateBucket(b) \/ StatsExpire(b))
    BY <1>1 DEF CreateBucket, StatsExpire
  <1>5. ~ Restart /\ ~ UNCHANGED s3Vars
    BY <1>1 DEF Restart, s3Vars
  <1> QED
    BY <1>2, <1>3, <1>4, <1>5

\* What an answer has.
LEMMA AnswerHas ==
    ASSUME AnswerInv, NEW c \in Clients
    PROVE  /\ \A reply : Answer(c, reply) => req'[c].reply = reply
           /\ \A code : Fail(c, code) => req'[c].reply = [error |-> code]
           /\ \A r : Step(c, r) => req'[c] = r
  BY StepSets DEF AnswerInv, S3Inv, Fail, Answer, Answered

\* Only the last step of get_object answers with data.
LEMMA DataFromBody ==
    ASSUME AnswerInv, [S3Next]_s3Vars, NEW c \in Clients, Answering(c), req[c].op = "get_object",
           "data" \in DOMAIN req'[c].reply
    PROVE  GetBody(c)
  <1>1. Acts(c)
    BY OwnAnswer
  <1>2. ~ Over(req[c]) /\ Shaped(req[c]) /\ req'[c].step = "answered"
    BY AtRuns DEF Answering, Over, AnswerInv
  <1>3. ASSUME NEW code, Fail(c, code) PROVE FALSE
    <2>1. req'[c].reply = [error |-> code]
      BY <1>3, AnswerHas
    <2> QED
      BY <2>1
  <1>4. ~ SendAny(c) /\ ~ Return(c) /\ ~ LoseClient(c)
    <2>1. ASSUME SendAny(c) PROVE \E r : Send(c, r)
      BY <2>1, Zenon DEF SendAny
    <2>2. ~ LoseClient(c)
      BY AnswerHas DEF LoseClient, Answering
    <2> QED
      BY <1>2, <2>1, <2>2 DEF Send, Return, Over
  <1>5. /\ ~ DeleteBucketList(c) /\ ~ DeleteBucketRemove(c) /\ ~ HeadBucketCached(c) /\ ~ HeadBucketCompute(c)
        /\ ~ HeadBucketInsert(c) /\ ~ PutObject(c) /\ ~ PutObjectFails(c) /\ ~ DeleteObject(c)
        /\ ~ DeleteSidecar(c) /\ ~ DeleteObjectFails(c) /\ ~ DeleteObjects(c)
    BY DEF DeleteBucketList, DeleteBucketRemove, HeadBucketCached, HeadBucketCompute, HeadBucketInsert,
           PutObject, PutObjectFails, DeleteObject, DeleteSidecar, DeleteObjectFails, DeleteObjects, At
  <1>6. ~ CopyHead(c) /\ ~ CopyBody(c) /\ ~ CopyMeta(c) /\ ~ CopyWrite(c) /\ ~ HeadMeta(c)
    BY DEF CopyHead, CopyBody, CopyMeta, CopyWrite, HeadMeta, At
  <1>7. ~ FinishWrite(c)
    BY AnswerHas DEF FinishWrite
  <1>8. ~ ReadHead(c)
    <2>1. [req[c] EXCEPT !.step = "meta", !.size = HeadSize(PathOf(req[c]))].step = "meta"
      BY <1>2 DEF Shaped, Fields
    <2> QED
      BY <1>2, <1>3, <2>1, AnswerHas DEF ReadHead
  <1>9. ~ GetMeta(c)
    <2>1. \A m : [req[c] EXCEPT !.step = "body", !.meta = m].step = "body"
      BY <1>2 DEF Shaped, Fields
    <2> QED
      BY <1>2, <1>3, <2>1, AnswerHas DEF GetMeta
  <1> QED
    BY <1>1, <1>4, <1>5, <1>6, <1>7, <1>8, <1>9 DEF Acts

\* Only the last step of delete_bucket answers that the bucket is deleted.
LEMMA OkFromRemove ==
    ASSUME AnswerInv, [S3Next]_s3Vars, NEW c \in Clients, Answering(c), req[c].op = "delete_bucket",
           "ok" \in DOMAIN req'[c].reply
    PROVE  DeleteBucketRemove(c)
  <1>1. Acts(c)
    BY OwnAnswer
  <1>2. ~ Over(req[c]) /\ Shaped(req[c]) /\ Aware(req[c]) /\ req'[c].step = "answered"
    BY AtRuns DEF Answering, Over, AnswerInv
  <1>3. ASSUME NEW code, Fail(c, code) PROVE FALSE
    <2>1. req'[c].reply = [error |-> code]
      BY <1>3, AnswerHas
    <2> QED
      BY <2>1
  <1>4. ~ SendAny(c) /\ ~ Return(c) /\ ~ LoseClient(c)
    <2>1. ASSUME SendAny(c) PROVE \E r : Send(c, r)
      BY <2>1, Zenon DEF SendAny
    <2>2. ~ LoseClient(c)
      BY AnswerHas DEF LoseClient, Answering
    <2> QED
      BY <1>2, <2>1, <2>2 DEF Send, Return, Over
  <1>5. /\ ~ HeadBucketCached(c) /\ ~ HeadBucketCompute(c)
        /\ ~ HeadBucketInsert(c) /\ ~ PutObject(c) /\ ~ PutObjectFails(c) /\ ~ DeleteObject(c)
        /\ ~ DeleteSidecar(c) /\ ~ DeleteObjectFails(c) /\ ~ DeleteObjects(c)
    BY DEF HeadBucketCached, HeadBucketCompute, HeadBucketInsert,
           PutObject, PutObjectFails, DeleteObject, DeleteSidecar, DeleteObjectFails, DeleteObjects, At
  <1>6. /\ ~ CopyHead(c) /\ ~ CopyBody(c) /\ ~ CopyMeta(c) /\ ~ CopyWrite(c) /\ ~ ReadHead(c) /\ ~ HeadMeta(c)
        /\ ~ GetMeta(c) /\ ~ GetBody(c)
    BY DEF CopyHead, CopyBody, CopyMeta, CopyWrite, ReadHead, HeadMeta, GetMeta, GetBody, Reading, At
  <1>7. ~ FinishWrite(c)
    BY <1>2 DEF FinishWrite, Aware, Empties
  <1>8. ~ DeleteBucketList(c)
    <2>1. [req[c] EXCEPT !.step = "remove"].step = "remove"
      BY <1>2 DEF Shaped, Fields
    <2> QED
      BY <1>2, <1>3, <2>1, AnswerHas DEF DeleteBucketList
  <1> QED
    BY <1>1, <1>4, <1>5, <1>6, <1>7, <1>8 DEF Acts

\* The last step of a get_object that nobody has overtaken.
LEMMA BodyExact ==
    ASSUME AnswerInv, NEW c \in Clients, GetBody(c), req[c].clean, "data" \in DOMAIN req'[c].reply,
           ~ WrappingRange(req[c].range)
    PROVE  LET r == req[c]
               a == req'[c].reply
           IN  /\ Stored(PathOf(r)) /\ ExactGet(r, a) /\ a.length = Len(a.data)
               /\ r.cond.kind = "match" => EtagMatches(r.cond, a.etag)
               /\ r.cond.kind = "none_match" => ~ EtagMatches(r.cond, a.etag)
               /\ a.range # <<>> /\ a.data # <<>> => a.range[2] - a.range[1] + 1 = a.length
  <1> DEFINE r     == req[c]
             a     == req'[c].reply
             body  == objects[PathOf(r)].body
             meta  == objects[PathOf(r)].meta
             n     == Len(body)
             start == RangeStart(r.range, r.size)
             end   == RangeEnd(r.range, r.size)
             reply(data) == [etag |-> EtagOr(r.meta, EmptyMd5), headers |-> r.meta.headers,
                             length |-> end - start, data |-> data,
                             range |-> IF r.range = NoRange THEN <<>>
                                       ELSE <<start, (end - 1) % WordSize, r.size>>]
  <1>1. ~ Over(r) /\ r.op = "get_object" /\ r.step = "body"
    BY AtNotOver DEF GetBody, At
  <1>2. Knows(r) /\ PathOf(r) \in Paths
    BY <1>1, AtRuns DEF AnswerInv, Aware
  <1>3. /\ r.range \in Ranges /\ Stored(PathOf(r)) /\ r.size = n /\ r.meta = meta
        /\ Verdict(r, EtagOr(r.meta, EmptyMd5)) = "pass"
    BY <1>1, <1>2 DEF Knows
  <1>4. body \in Seq(Range(body)) /\ n < WordSize /\ WordSize \in Nat
    BY <1>2, <1>3, S3Assumption DEF AnswerInv, StoredBodies
  <1>5. n \in Nat
    BY <1>4, LenProperties
  <1>6. /\ ~ Unsatisfiable(r)
        /\ r.cond.kind = "match" => EtagMatches(r.cond, EtagOr(r.meta, EmptyMd5))
        /\ r.cond.kind = "none_match" => ~ EtagMatches(r.cond, EtagOr(r.meta, EmptyMd5))
    BY <1>3, VerdictPassed
  <1>r. \E data : a = reply(data) /\
           \/ data = <<>> /\ r.range # NoRange /\ end <= start
           \/ data = body /\ r.range = NoRange
           \/ data = Slice(body, start, end)
    <2>1. \A code : ~ Fail(c, code)
      <3>1. ASSUME NEW code, Fail(c, code) PROVE FALSE
        <4>1. req'[c].reply = [error |-> code]
          BY <3>1, AnswerHas
        <4> QED
          BY <4>1
      <3> QED
        BY <3>1
    <2> HIDE DEF start, end, body
    <2>2. \E data : Answer(c, reply(data)) /\
           (\/ data = <<>> /\ r.range # NoRange /\ end <= start
            \/ data = body /\ r.range = NoRange
            \/ data = Slice(body, start, end))
      BY <2>1, Zenon DEF GetBody, start, end, body
    <2>3. PICK data : Answer(c, reply(data)) /\
           (\/ data = <<>> /\ r.range # NoRange /\ end <= start
            \/ data = body /\ r.range = NoRange
            \/ data = Slice(body, start, end))
      BY <2>2
    <2>4. a = reply(data)
      BY <2>3, AnswerHas
    <2> QED
      BY <2>3, <2>4
  <1>7. PICK data : a = reply(data) /\
           (\/ data = <<>> /\ r.range # NoRange /\ end <= start
            \/ data = body /\ r.range = NoRange
            \/ data = Slice(body, start, end))
    BY <1>r
  <1>8. /\ start \in 0..n /\ end \in start..n /\ Asked(r.range, n) = start..(end - 1)
        /\ r.range = NoRange => start = 0 /\ end = n
    <2>1. r.range.kind \in {"int", "from"} => r.range.first < n
      <3>1. r.range.kind \in {"int", "from"} => r.range.first \in Nat
        BY <1>3, S3Assumption DEF NoRange
      <3> QED
        BY <1>3, <1>5, <1>6, <3>1 DEF Unsatisfiable
    <2> QED
      BY <1>3, <1>5, <2>1, AskedInterval, ZenonT(60)
  <1> HIDE DEF start, end, body, n
  <1>9. start \in Nat /\ end \in Nat /\ start <= end /\ end <= n
    BY <1>5, <1>8
  <1>10. /\ Len(Slice(body, start, end)) = end - start /\ Cardinality(start..(end - 1)) = end - start
         /\ \A i \in start..(end - 1) :
               Slice(body, start, end)[Cardinality({j \in start..(end - 1) : j <= i})] = body[i + 1]
    BY <1>4, <1>8, SliceExact DEF n
  <1>11. /\ Len(data) = end - start
         /\ \A i \in start..(end - 1) : data[Cardinality({j \in start..(end - 1) : j <= i})] = body[i + 1]
    <2>1. CASE data = <<>> /\ end <= start
      BY <1>9, <2>1
    <2>2. CASE data = body /\ r.range = NoRange
      <3>1. Slice(body, start, end) = body
        BY <1>4, <1>5, <1>8, <2>2 DEF Slice, n
      <3> QED
        BY <1>10, <2>2, <3>1
    <2> QED
      BY <1>7, <1>10, <2>1, <2>2
  <1>12. /\ a.etag = EtagOr(r.meta, EmptyMd5) /\ a.headers = r.meta.headers /\ a.length = end - start
         /\ a.data = data
         /\ a.range = IF r.range = NoRange THEN <<>> ELSE <<start, (end - 1) % WordSize, r.size>>
    BY <1>7
  <1>13. ExactGet(r, a)
    BY <1>3, <1>8, <1>10, <1>11, <1>12 DEF ExactGet, n, body
  <1>14. a.range # <<>> /\ a.data # <<>> => a.range[2] - a.range[1] + 1 = a.length
    <2>1. SUFFICES ASSUME a.range # <<>>, data # <<>> PROVE a.range[2] - a.range[1] + 1 = a.length
      BY <1>12
    <2>2. end - start > 0
      BY <1>9, <1>11, <2>1
    <2>3. (end - 1) % WordSize = end - 1
      <3>1. end - 1 \in Nat /\ end - 1 < WordSize
        BY <1>4, <1>5, <1>9, <2>2
      <3> QED
        BY <1>4, <3>1, SmallRemainder
    <2>4. a.range[2] = (end - 1) % WordSize /\ a.range[1] = start
      BY <1>12, <2>1
    <2> QED
      BY <1>9, <1>12, <2>3, <2>4
  <1> QED
    BY <1>3, <1>6, <1>11, <1>12, <1>13, <1>14

\* A GET that no write overtook answers with exactly the bytes asked for, the
\* length, the ETag and the headers of one object, and only when its
\* conditions hold; a bucket that delete_bucket removed undisturbed was empty:
\* get_object and delete_bucket of adapter.rs, which look several times with
\* other requests between, for every body and every range but those whose last
\* byte is the greatest word, to which get_object adds 1.
THEOREM AnswersAreExact == S3Spec => UndisturbedAnswersExact
  <1> DEFINE Exact ==
          \A c \in Clients :
            Answering(c) /\ req[c].clean =>
                LET r == req[c]
                    a == req'[c].reply
                IN  /\ r.op = "get_object" /\ "data" \in DOMAIN a /\ ~ WrappingRange(r.range) =>
                        /\ Stored(PathOf(r))
                        /\ ExactGet(r, a)
                        /\ a.length = Len(a.data)
                        /\ r.cond.kind = "match" => EtagMatches(r.cond, a.etag)
                        /\ r.cond.kind = "none_match" => ~ EtagMatches(r.cond, a.etag)
                        /\ a.range # <<>> /\ a.data # <<>> => a.range[2] - a.range[1] + 1 = a.length
                    /\ r.op = "delete_bucket" /\ "ok" \in DOMAIN a => InBucket(r.bucket) = {}
  <1>1. AnswerInv /\ [S3Next]_s3Vars => [Exact]_s3Vars
    <2> SUFFICES ASSUME AnswerInv, [S3Next]_s3Vars, NEW c \in Clients, Answering(c), req[c].clean
                 PROVE  LET r == req[c]
                            a == req'[c].reply
                        IN  /\ r.op = "get_object" /\ "data" \in DOMAIN a /\ ~ WrappingRange(r.range) =>
                                /\ Stored(PathOf(r))
                                /\ ExactGet(r, a)
                                /\ a.length = Len(a.data)
                                /\ r.cond.kind = "match" => EtagMatches(r.cond, a.etag)
                                /\ r.cond.kind = "none_match" => ~ EtagMatches(r.cond, a.etag)
                                /\ a.range # <<>> /\ a.data # <<>> => a.range[2] - a.range[1] + 1 = a.length
                            /\ r.op = "delete_bucket" /\ "ok" \in DOMAIN a => InBucket(r.bucket) = {}
      BY Zenon
    <2>1. CASE req[c].op = "get_object" /\ "data" \in DOMAIN req'[c].reply /\ ~ WrappingRange(req[c].range)
      BY <2>1, DataFromBody, BodyExact
    <2>2. ASSUME req[c].op = "delete_bucket", "ok" \in DOMAIN req'[c].reply
          PROVE  InBucket(req[c].bucket) = {}
      <3>1. DeleteBucketRemove(c)
        BY <2>2, OkFromRemove
      <3>2. ~ Over(req[c]) /\ req[c].step = "remove"
        BY <3>1, AtNotOver DEF DeleteBucketRemove, At
      <3> QED
        BY <2>2, <3>2 DEF AnswerInv, Aware, Empties
    <2> QED
      BY <2>1, <2>2
  <1> QED
    BY <1>1, AnswerInvariance, PTL DEF S3Spec, UndisturbedAnswersExact

-----------------------------------------------------------------------------
(* The event stream. What replica c must still learn about a key is the    *)
(* last event on it: wherever that event is, it agrees with the shards.    *)

\* An event, as the client reads it and on the bus, a connection and an operation
\* of the writer.
Event == [op : Emits, key : EventKeys]
BusEvent == Event \cup {[op |-> "flush", key |-> FlushKey]}
Link == [step : {"unopened", "away", "rejected", "accepted", "counted", "relaying", "closed"}, alive : BOOLEAN,
         next : Nat, queue : Seq(Event), head : {"none", "found"}, index : [mirror -> SUBSET EventKeys],
         scan : SUBSET EventKeys, rebuild : {"todo", "scanned", "done"}, heard : SUBSET EventKeys]
Change == [key : EventKeys, op : {"put", "delete", "copy_if_not_exists"}, step : {"shards", "emit"}]

\* The types.
EventTypes ==
    /\ 0 \in mirror
    /\ durable \in [mirror -> SUBSET EventKeys]
    /\ present \subseteq EventKeys
    /\ changes \subseteq Change
    /\ \A q \in changes : q.step = "emit" => q.op \in Emits
    /\ bus \in Seq(BusEvent)
    /\ conn \in [Replicas -> Link]
    /\ view \in [Replicas -> SUBSET EventKeys]
    /\ excused \in [Replicas -> SUBSET EventKeys]

\* The steps before a replica handles events.
Joining == {"unopened", "away", "accepted", "counted"}

\* A connection is within the bus; before it relays nothing is queued; the PUT
\* whose HEAD has answered is at the head.
LinkSound(l, n) ==
    /\ l.next <= n
    /\ l.step \in Joining => l.queue = <<>>
    /\ l.head = "found" => l.queue # <<>> /\ l.queue[1].op = "put"

\* Every connection is sound.
Links == \A c \in Replicas : LinkSound(conn[c], Len(bus))

\* Before it relays no catalog is built, and only a cluster of several shards
\* builds one; a replica with shards of its own knows nothing else.
Owned(c) ==
    /\ conn[c].step \in Joining =>
         /\ view[c] = {} /\ conn[c].scan = {} /\ conn[c].heard = {}
         /\ conn[c].rebuild = IF mirror = {0} THEN "done" ELSE "todo"
    /\ conn[c].rebuild # "done" => mirror # {0}
    /\ kind # "shared" =>
         /\ view[c] \subseteq Holds(c) /\ conn[c].scan \subseteq Holds(c)
         /\ conn[c].head = "found" => conn[c].queue[1].key \in OnShard0(c)

\* The keys that replica c is not excused for.
Certain(c) == EventKeys \ excused[c]

\* An operation on such a key is the only one on it, emits, and has reached
\* the shards when it is about to; no other key is taken for it.
OrderlyChange(c, q) ==
    /\ q.key \in Certain(c) =>
         /\ q.op \in Emits
         /\ \A r \in changes : r.key = q.key => r = q
         /\ q.step = "emit" => (q.key \in present <=> q.op = "put")
    /\ q.key \in Certain(c) \/ Trimmed[q.key] \in Certain(c) => Trimmed[q.key] = q.key

\* Nor is the key of an event.
OrderlyEvent(c, e) ==
    e.op # "flush" =>
    (e.key \in Certain(c) \/ Trimmed[e.key] \in Certain(c) => Trimmed[e.key] = e.key)

\* All operations and all events are orderly, for every replica.
Orderly ==
    \A c \in Replicas :
        /\ \A q \in changes : OrderlyChange(c, q)
        /\ \A i \in DOMAIN bus : OrderlyEvent(c, bus[i])

\* No event on k from place lo on.
Silent(s, lo, k) == \A i \in lo..Len(s) : s[i].key # k

\* The last event on k from place lo on says whether k is in P.
Word(s, lo, k, P) ==
    \E i \in lo..Len(s) : s[i].key = k /\ Silent(s, i + 1, k) /\ (k \in P <=> s[i].op = "put")

\* The listing, or the catalog that replaced it, is right about k.
CaughtUp(c, k) ==
    (k \in Holds(c) => k \in OnShard0(c)) =>
        /\ conn[c].rebuild = "scanned" => (k \in conn[c].scan <=> Due(c, k))
        /\ conn[c].rebuild = "done" => (k \in view[c] <=> Due(c, k))

\* An event on k is about to be emitted.
Coming(k) == \E q \in changes : q.key = k /\ q.step = "emit"

\* The last word on k is still to come, on the bus, in the queue of the
\* client, or in its catalog.
Agrees(c, k) ==
    \/ Coming(k)
    \/ Word(bus, conn[c].next + 1, k, present)
    \/ Silent(bus, conn[c].next + 1, k) /\ Word(conn[c].queue, 1, k, present)
    \/ Silent(bus, conn[c].next + 1, k) /\ Silent(conn[c].queue, 1, k) /\ CaughtUp(c, k)

\* The steps in which a connection receives events.
Linked == {"accepted", "counted", "relaying"}

\* Every connection that receives events agrees with the shards.
LastWord == \A c \in Replicas : conn[c].step \in Linked => \A k \in Certain(c) : Agrees(c, k)

\* The inductive invariant of the event stream.
EventInv == EventTypes /\ Links /\ (\A c \in Replicas : Owned(c)) /\ Orderly /\ LastWord

\* An event on another key, or one before lo, leaves silence;
LEMMA AppendSilent ==
    ASSUME NEW S, NEW s \in Seq(S), NEW e \in S, NEW lo \in Nat, NEW k, lo >= 1
    PROVE  /\ e.key # k /\ Silent(s, lo, k) => Silent(Append(s, e), lo, k)
           /\ lo > Len(s) + 1 => Silent(Append(s, e), lo, k)
  <1> DEFINE t == Append(s, e)
  <1>1. Len(t) = Len(s) + 1 /\ t[Len(s) + 1] = e /\ \A i \in 1..Len(s) : t[i] = s[i]
    OBVIOUS
  <1>2. Len(s) \in Nat
    OBVIOUS
  <1> HIDE DEF t
  <1>3. ASSUME e.key # k, Silent(s, lo, k), NEW i \in lo..Len(t) PROVE t[i].key # k
    <2>1. i = Len(s) + 1 \/ (i \in lo..Len(s) /\ i \in 1..Len(s))
      BY <1>1, <1>2
    <2> QED
      BY <1>1, <1>3, <2>1 DEF Silent
  <1>4. lo > Len(s) + 1 => Silent(t, lo, k)
    BY <1>1, <1>2 DEF Silent
  <1> QED
    BY <1>3, <1>4 DEF Silent, t

\* the last word stays, or is the event that is appended.
LEMMA AppendWord ==
    ASSUME NEW S, NEW s \in Seq(S), NEW e \in S, NEW lo \in Nat, NEW k, NEW P, lo >= 1
    PROVE  /\ e.key # k /\ Word(s, lo, k, P) => Word(Append(s, e), lo, k, P)
           /\ e.key = k /\ lo <= Len(s) + 1 /\ (k \in P <=> e.op = "put") => Word(Append(s, e), lo, k, P)
  <1> DEFINE t == Append(s, e)
  <1>1. Len(t) = Len(s) + 1 /\ t[Len(s) + 1] = e /\ \A i \in 1..Len(s) : t[i] = s[i]
    OBVIOUS
  <1>2. Len(s) \in Nat
    OBVIOUS
  <1>3. ASSUME NEW i \in Nat, i >= 1
        PROVE  /\ e.key # k /\ Silent(s, i, k) => Silent(t, i, k)
               /\ i > Len(s) + 1 => Silent(t, i, k)
    BY <1>3, AppendSilent
  <1> HIDE DEF t
  <1>4. ASSUME e.key # k, Word(s, lo, k, P) PROVE Word(t, lo, k, P)
    <2>1. PICK i \in lo..Len(s) : s[i].key = k /\ Silent(s, i + 1, k) /\ (k \in P <=> s[i].op = "put")
      BY <1>4 DEF Word
    <2>2. i \in lo..Len(t) /\ i \in 1..Len(s) /\ i + 1 \in Nat /\ i + 1 >= 1
      BY <1>1, <1>2
    <2> QED
      BY <1>1, <1>3, <1>4, <2>1, <2>2 DEF Word
  <1>5. ASSUME e.key = k, lo <= Len(s) + 1, k \in P <=> e.op = "put" PROVE Word(t, lo, k, P)
    <2> DEFINE i == Len(s) + 1
    <2>1. i \in lo..Len(t) /\ i + 1 \in Nat /\ i + 1 >= 1 /\ i + 1 > Len(s) + 1
      BY <1>1, <1>2, <1>5
    <2>2. t[i] = e
      BY <1>1
    <2> HIDE DEF i
    <2> QED
      BY <1>3, <1>5, <2>1, <2>2 DEF Word
  <1> QED
    BY <1>4, <1>5 DEF t

\* Moving on over events on other keys.
LEMMA NextSilent ==
    ASSUME NEW S, NEW s \in Seq(S), NEW lo \in Nat, NEW hi \in Nat, lo <= hi, NEW k, NEW P
    PROVE  /\ Silent(s, lo, k) => Silent(s, hi, k)
           /\ Word(s, lo, k, P) /\ (\A i \in lo..(hi - 1) : s[i].key # k) => Word(s, hi, k, P)
           /\ Silent(s, lo, k) => ~ Word(s, lo, k, P)
  <1>1. Len(s) \in Nat
    OBVIOUS
  <1>2. Silent(s, lo, k) => Silent(s, hi, k)
    BY <1>1 DEF Silent
  <1>3. ASSUME Word(s, lo, k, P), \A i \in lo..(hi - 1) : s[i].key # k PROVE Word(s, hi, k, P)
    <2>1. PICK i \in lo..Len(s) : s[i].key = k /\ Silent(s, i + 1, k) /\ (k \in P <=> s[i].op = "put")
      BY <1>3 DEF Word
    <2>2. i \in hi..Len(s)
      BY <1>1, <1>3, <2>1
    <2> QED
      BY <2>1, <2>2 DEF Word
  <1>4. Silent(s, lo, k) => ~ Word(s, lo, k, P)
    BY DEF Silent, Word
  <1> QED
    BY <1>2, <1>3, <1>4

\* Moving on over an event on k: it was the last word or it was not.
LEMMA PassEvent ==
    ASSUME NEW S, NEW s \in Seq(S), NEW lo \in Nat, lo >= 1, lo <= Len(s), NEW k, NEW P, s[lo].key = k, Word(s, lo, k, P)
    PROVE  \/ Word(s, lo + 1, k, P)
           \/ Silent(s, lo + 1, k) /\ (k \in P <=> s[lo].op = "put")
  <1>1. Len(s) \in Nat
    OBVIOUS
  <1>2. PICK i \in lo..Len(s) : s[i].key = k /\ Silent(s, i + 1, k) /\ (k \in P <=> s[i].op = "put")
    BY DEF Word
  <1>3. CASE i = lo
    BY <1>2, <1>3
  <1>4. CASE i # lo
    <2>1. i \in (lo + 1)..Len(s)
      BY <1>1, <1>4
    <2> QED
      BY <1>2, <2>1 DEF Word
  <1> QED
    BY <1>3, <1>4

\* The tail of a queue says what the queue says from its second place on.
LEMMA TailWords ==
    ASSUME NEW S, NEW s \in Seq(S), s # <<>>, NEW k, NEW P
    PROVE  /\ Silent(s, 2, k) <=> Silent(Tail(s), 1, k)
           /\ Word(s, 2, k, P) <=> Word(Tail(s), 1, k, P)
  <1> DEFINE t == Tail(s)
  <1>1. Len(t) = Len(s) - 1 /\ Len(s) \in Nat /\ \A i \in 1..Len(t) : t[i] = s[i + 1]
    OBVIOUS
  <1> HIDE DEF t
  <1>2. \A i \in 1..Len(t) : i + 1 \in 2..Len(s) /\ i \in Nat
    BY <1>1
  <1>3. \A i \in 2..Len(s) : i - 1 \in 1..Len(t) /\ (i - 1) + 1 = i /\ i \in Nat
    BY <1>1
  <1>4. \A i \in 2..Len(s) : t[i - 1] = s[i]
    BY <1>1, <1>3
  <1>5. \A j \in Nat : Silent(s, j + 1, k) /\ j >= 1 => Silent(t, j, k)
    <2> SUFFICES ASSUME NEW j \in Nat, j >= 1, Silent(s, j + 1, k), NEW i \in j..Len(t) PROVE t[i].key # k
      BY DEF Silent
    <2>1. i \in 1..Len(t) /\ i + 1 \in (j + 1)..Len(s)
      BY <1>1
    <2> QED
      BY <1>1, <2>1 DEF Silent
  <1>6. \A j \in Nat : Silent(t, j, k) /\ j >= 1 => Silent(s, j + 1, k)
    <2> SUFFICES ASSUME NEW j \in Nat, j >= 1, Silent(t, j, k), NEW i \in (j + 1)..Len(s) PROVE s[i].key # k
      BY DEF Silent
    <2>1. i \in 2..Len(s) /\ i - 1 \in j..Len(t)
      BY <1>1
    <2> QED
      BY <1>4, <2>1 DEF Silent
  <1>7. Silent(s, 2, k) <=> Silent(t, 1, k)
    BY <1>5, <1>6
  <1>8. ASSUME Word(s, 2, k, P) PROVE Word(t, 1, k, P)
    <2>1. PICK i \in 2..Len(s) : s[i].key = k /\ Silent(s, i + 1, k) /\ (k \in P <=> s[i].op = "put")
      BY <1>8 DEF Word
    <2>2. i - 1 \in 1..Len(t) /\ t[i - 1] = s[i] /\ (i - 1) + 1 = i /\ i \in Nat /\ i >= 1
      BY <1>3, <1>4
    <2>3. Silent(t, i, k)
      BY <1>5, <2>1, <2>2
    <2> QED
      BY <2>1, <2>2, <2>3 DEF Word
  <1>9. ASSUME Word(t, 1, k, P) PROVE Word(s, 2, k, P)
    <2>1. PICK i \in 1..Len(t) : t[i].key = k /\ Silent(t, i + 1, k) /\ (k \in P <=> t[i].op = "put")
      BY <1>9 DEF Word
    <2>2. i + 1 \in 2..Len(s) /\ t[i] = s[i + 1] /\ i + 1 \in Nat /\ i + 1 >= 1
      BY <1>1, <1>2
    <2>3. Silent(s, (i + 1) + 1, k)
      BY <1>6, <2>1, <2>2
    <2> QED
      BY <2>1, <2>2, <2>3 DEF Word
  <1> QED
    BY <1>7, <1>8, <1>9 DEF t

\* Taking the first line of a queue.
LEMMA HeadTaken ==
    ASSUME NEW q \in Seq(Event), q # <<>>, NEW k, NEW P
    PROVE  /\ Head(q) = q[1] /\ q[1] \in Event /\ Tail(q) \in Seq(Event)
           /\ Silent(q, 1, k) => q[1].key # k /\ Silent(Tail(q), 1, k)
           /\ Word(q, 1, k, P) => \/ Word(Tail(q), 1, k, P)
                                  \/ Silent(Tail(q), 1, k) /\ q[1].key = k /\ (k \in P <=> q[1].op = "put")
  <1>1. Len(q) \in Nat /\ 1 \in 1..Len(q) /\ 1 <= Len(q)
    OBVIOUS
  <1>2. Head(q) = q[1] /\ q[1] \in Event /\ Tail(q) \in Seq(Event)
    OBVIOUS
  <1>3. Silent(q, 1, k) => q[1].key # k /\ Silent(Tail(q), 1, k)
    <2>1. Silent(q, 1, k) => Silent(q, 2, k)
      BY NextSilent
    <2> QED
      BY <1>1, <2>1, TailWords DEF Silent
  <1>4. CASE q[1].key = k
    <2>1. Word(q, 1, k, P) => Word(q, 2, k, P) \/ (Silent(q, 2, k) /\ (k \in P <=> q[1].op = "put"))
      <3> SUFFICES ASSUME Word(q, 1, k, P)
                   PROVE  Word(q, 2, k, P) \/ (Silent(q, 2, k) /\ (k \in P <=> q[1].op = "put"))
        OBVIOUS
      <3>1. Word(q, 1 + 1, k, P) \/ (Silent(q, 1 + 1, k) /\ (k \in P <=> q[1].op = "put"))
        BY <1>1, <1>4, PassEvent
      <3>2. 1 + 1 = 2
        OBVIOUS
      <3> QED
        BY <3>1, <3>2
    <2> QED
      BY <1>2, <1>3, <1>4, <2>1, TailWords
  <1>5. CASE q[1].key # k
    <2>1. \A i \in 1..(2 - 1) : q[i].key # k
      BY <1>5
    <2>2. Word(q, 1, k, P) => Word(q, 2, k, P)
      BY <2>1, NextSilent
    <2> QED
      BY <1>2, <1>3, <2>2, TailWords
  <1> QED
    BY <1>4, <1>5

\* A step of one connection keeps the invariant if that connection stays
\* sound and still agrees.
LEMMA LinkStep ==
    ASSUME EventInv, NEW c \in Replicas, UNCHANGED <<kind, mirror, durable, present, changes, bus>>,
           conn' \in [Replicas -> Link],
           view' \in [Replicas -> SUBSET EventKeys],
           excused' \in [Replicas -> SUBSET EventKeys],
           \A d \in Replicas \ {c} : conn'[d] = conn[d] /\ view'[d] = view[d],
           \A d \in Replicas : excused[d] \subseteq excused'[d],
           LinkSound(conn'[c], Len(bus)), Owned(c)',
           conn'[c].step \in Linked => \A k \in Certain(c)' : Agrees(c, k)'
    PROVE  EventInv'
  <1>1. EventTypes'
    BY DEF EventInv, EventTypes, Link
  <1>o. \A d \in Replicas : Owned(d)'
    BY DEF EventInv, Owned, Holds, OnShard0
  <1>2. \A d \in Replicas : LinkSound(conn'[d], Len(bus))
    BY DEF EventInv, Links
  <1>3. Links'
    BY <1>2 DEF Links, LinkSound
  <1>4. \A d \in Replicas : Certain(d)' \subseteq Certain(d)
    BY DEF Certain
  <1>5. Orderly'
    BY <1>4 DEF EventInv, Orderly, OrderlyChange, OrderlyEvent
  <1>6. ASSUME NEW d \in Replicas \ {c}, NEW k, Agrees(d, k) PROVE Agrees(d, k)'
    <2>1. CaughtUp(d, k) => CaughtUp(d, k)'
      BY DEF CaughtUp, Due, Holds, OnShard0
    <2> QED
      BY <1>6, <2>1, SMTT(30) DEF Agrees, Coming, Word, Silent
  <1>7. LastWord'
    BY <1>4, <1>6 DEF EventInv, LastWord
  <1> QED
    BY <1>1, <1>o, <1>3, <1>5, <1>7 DEF EventInv

\* Agreement needs the place, the queue and what the replica has caught up;
LEMMA AgreesSame ==
    ASSUME NEW c \in Replicas, NEW k, Agrees(c, k), UNCHANGED <<present, changes, bus>>,
           conn'[c].next = conn[c].next, conn'[c].queue = conn[c].queue,
           CaughtUp(c, k) => CaughtUp(c, k)'
    PROVE  Agrees(c, k)'
  BY DEF Agrees, Coming, Word, Silent

\* the latter needs the listing and the catalog.
LEMMA CaughtSame ==
    ASSUME NEW c \in Replicas, NEW k, UNCHANGED <<kind, mirror, present, view>>,
           conn'[c].scan = conn[c].scan, conn'[c].rebuild = conn[c].rebuild,
           conn'[c].index = conn[c].index, conn'[c].heard = conn[c].heard
    PROVE  CaughtUp(c, k) => CaughtUp(c, k)'
  BY DEF CaughtUp, Due, Holds, OnShard0

\* What a replica owns needs them too, and the PUT whose HEAD has answered.
LEMMA OwnedSame ==
    ASSUME NEW c \in Replicas, Owned(c), UNCHANGED <<kind, mirror, present, view>>,
           conn'[c].scan = conn[c].scan, conn'[c].rebuild = conn[c].rebuild,
           conn'[c].index = conn[c].index, conn'[c].heard = conn[c].heard,
           conn'[c].step \in Joining => conn[c].step \in Joining,
           conn'[c].head = "found" => conn[c].head = "found" /\ conn'[c].queue[1].key = conn[c].queue[1].key
    PROVE  Owned(c)'
  BY DEF Owned, Holds, OnShard0

\* A step that touches none of them keeps the invariant.
LEMMA BecameSame ==
    ASSUME EventInv, NEW c \in Replicas, UNCHANGED <<kind, mirror, durable, present, changes, bus, view>>,
           conn' \in [Replicas -> Link],
           \A d \in Replicas \ {c} : conn'[d] = conn[d],
           excused' \in [Replicas -> SUBSET EventKeys],
           \A d \in Replicas : excused[d] \subseteq excused'[d],
           conn'[c].next = conn[c].next, conn'[c].queue = conn[c].queue,
           conn'[c].scan = conn[c].scan, conn'[c].rebuild = conn[c].rebuild,
           conn'[c].index = conn[c].index, conn'[c].heard = conn[c].heard,
           LinkSound(conn'[c], Len(bus)), Owned(c)',
           conn'[c].step \in Linked => conn[c].step \in Linked
    PROVE  EventInv'
  <1>1. view' \in [Replicas -> SUBSET EventKeys]
    BY DEF EventInv, EventTypes
  <1>2. conn'[c].step \in Linked => \A k \in Certain(c)' : Agrees(c, k)'
    <2> SUFFICES ASSUME conn'[c].step \in Linked, NEW k \in Certain(c)' PROVE Agrees(c, k)'
      OBVIOUS
    <2>1. Agrees(c, k)
      BY DEF EventInv, LastWord, Certain
    <2> QED
      BY <2>1, AgreesSame, CaughtSame
  <1> QED
    BY <1>1, <1>2, LinkStep

\* Connections come and go: the accept loop subscribes at the end of the bus,
\* where nothing is pending.
LEMMA ConnectionStep ==
    ASSUME EventInv, NEW c \in Replicas,
           Accept(c) \/ Refuse(c) \/ Authenticate(c) \/ SendOk(c) \/ ClientDies(c)
    PROVE  EventInv'
  <1>t. EventTypes /\ conn[c] \in Link /\ LinkSound(conn[c], Len(bus)) /\ Len(bus) \in Nat /\ Owned(c)
    BY DEF EventInv, EventTypes, Links
  <1>u. UNCHANGED <<kind, mirror, durable, present, changes, bus, view, excused>>
    BY DEF Accept, Refuse, Authenticate, SendOk, ClientDies, shardVars
  <1>x. excused' \in [Replicas -> SUBSET EventKeys] /\ \A d \in Replicas : excused[d] \subseteq excused'[d]
    BY <1>t, <1>u DEF EventTypes
  <1>1. ASSUME NEW s \in {"rejected", "counted", "relaying", "closed"}, conn' = [conn EXCEPT ![c].step = s],
               s = "counted" => conn[c].step = "accepted", s = "relaying" => conn[c].step = "counted"
        PROVE  EventInv'
    <2>1. /\ conn' \in [Replicas -> Link] /\ \A d \in Replicas \ {c} : conn'[d] = conn[d]
          /\ conn'[c].step = s /\ conn'[c].next = conn[c].next /\ conn'[c].queue = conn[c].queue
          /\ conn'[c].scan = conn[c].scan /\ conn'[c].rebuild = conn[c].rebuild /\ conn'[c].head = conn[c].head
          /\ conn'[c].index = conn[c].index /\ conn'[c].heard = conn[c].heard
      BY <1>t, <1>1 DEF EventTypes, Link
    <2>2. LinkSound(conn'[c], Len(bus))
      BY <1>t, <1>1, <2>1 DEF LinkSound, Joining
    <2>3. conn'[c].step \in Linked => conn[c].step \in Linked
      BY <1>1, <2>1 DEF Linked
    <2>4. Owned(c)'
      <3>1. conn'[c].step \in Joining => conn[c].step \in Joining
        BY <1>1, <2>1 DEF Joining
      <3> QED
        BY <1>t, <1>u, <2>1, <3>1, OwnedSame
    <2> QED
      BY <1>u, <1>x, <2>1, <2>2, <2>3, <2>4, BecameSame
  <1>2. ASSUME conn' = [conn EXCEPT ![c].step = "accepted", ![c].next = Len(bus)], conn[c].step = "away"
        PROVE  EventInv'
    <2>1. /\ conn' \in [Replicas -> Link] /\ \A d \in Replicas \ {c} : conn'[d] = conn[d]
          /\ conn'[c].step = "accepted" /\ conn'[c].next = Len(bus) /\ conn'[c].queue = conn[c].queue
          /\ conn'[c].scan = conn[c].scan /\ conn'[c].rebuild = conn[c].rebuild
          /\ conn'[c].head = conn[c].head
          /\ conn'[c].index = conn[c].index /\ conn'[c].heard = conn[c].heard
      BY <1>t, <1>2 DEF EventTypes, Link
    <2>2. LinkSound(conn'[c], Len(bus)) /\ conn'[c].queue = <<>>
      BY <1>t, <1>2, <2>1 DEF LinkSound, Joining
    <2>o. Owned(c)'
      BY <1>t, <1>2, <1>u, <2>1, OwnedSame DEF Joining
    <2>3. ASSUME NEW k PROVE Agrees(c, k)'
      <3>1. Silent(bus, Len(bus) + 1, k) /\ Silent(<<>>, 1, k)
        BY <1>t DEF Silent
      <3>2. Silent(bus', conn'[c].next + 1, k) /\ Silent(conn'[c].queue, 1, k)
        BY <1>u, <2>1, <2>2, <3>1
      <3>3. CaughtUp(c, k)'
        BY <2>1, <2>o DEF CaughtUp, Owned, Joining, Due
      <3> QED
        BY <3>2, <3>3 DEF Agrees
    <2>4. view' \in [Replicas -> SUBSET EventKeys] /\ \A d \in Replicas : view'[d] = view[d]
      BY <1>t, <1>u DEF EventTypes
    <2> QED
      BY <1>u, <1>x, <2>1, <2>2, <2>o, <2>3, <2>4, LinkStep
  <1>3. CASE ClientDies(c)
    <2>1. /\ conn' \in [Replicas -> Link] /\ \A d \in Replicas \ {c} : conn'[d] = conn[d]
          /\ conn'[c].step = conn[c].step /\ conn'[c].next = conn[c].next /\ conn'[c].queue = conn[c].queue
          /\ conn'[c].scan = conn[c].scan /\ conn'[c].rebuild = conn[c].rebuild /\ conn'[c].head = conn[c].head
          /\ conn'[c].index = conn[c].index /\ conn'[c].heard = conn[c].heard
      BY <1>t, <1>3 DEF EventTypes, Link, ClientDies
    <2>2. LinkSound(conn'[c], Len(bus)) /\ Owned(c)'
      BY <1>t, <1>u, <2>1, OwnedSame DEF LinkSound
    <2> QED
      BY <1>u, <1>x, <2>1, <2>2, BecameSame
  <1> QED
    BY <1>1, <1>2, <1>3 DEF Accept, Dials, Refuse, Authenticate, SendOk, InStep, Goes

\* The next event of the bus is the last word, or the last word is elsewhere.
LEMMA LastEventPassed ==
    ASSUME EventInv, NEW c \in Replicas, NEW k \in Certain(c), conn[c].step \in Linked,
           conn[c].next < Len(bus)
    PROVE  LET e == bus[conn[c].next + 1]
           IN  /\ e \in BusEvent
               /\ IF e.op = "flush" THEN e.key # k ELSE e \in Event /\ (Trimmed[e.key] = k <=> e.key = k)
               /\ \/ Coming(k)
                  \/ Word(bus, conn[c].next + 2, k, present)
                  \/ Silent(bus, conn[c].next + 2, k) /\ e.key = k /\ (k \in present <=> e.op = "put")
                  \/ /\ Silent(bus, conn[c].next + 2, k) /\ e.key # k
                     /\ \/ Word(conn[c].queue, 1, k, present)
                        \/ Silent(conn[c].queue, 1, k) /\ CaughtUp(c, k)
  <1> DEFINE lo == conn[c].next + 1
             e == bus[lo]
  <1>1. bus \in Seq(BusEvent) /\ conn[c] \in Link /\ conn[c].next \in Nat /\ Len(bus) \in Nat
    BY DEF EventInv, EventTypes, Link
  <1>2. lo \in Nat /\ lo >= 1 /\ lo <= Len(bus) /\ lo \in 1..Len(bus) /\ lo + 1 = conn[c].next + 2
        /\ lo + 1 \in Nat /\ lo <= lo + 1 /\ \A i \in lo..((lo + 1) - 1) : i = lo
    BY <1>1
  <1> HIDE DEF lo
  <1>3. e \in BusEvent /\ lo \in DOMAIN bus
    BY <1>1, <1>2
  <1>4. IF e.op = "flush" THEN e.key # k ELSE e \in Event /\ (Trimmed[e.key] = k <=> e.key = k)
    <2>1. k \in EventKeys /\ OrderlyEvent(c, e)
      BY <1>3 DEF Certain, EventInv, Orderly
    <2>2. e.op = "flush" <=> e \notin Event
      BY <1>3 DEF BusEvent, Event, Emits
    <2>3. e \notin Event => e.key # k
      BY <1>3, <2>1, EventAssumption DEF BusEvent
    <2> QED
      BY <2>1, <2>2, <2>3 DEF OrderlyEvent
  <1>5. Coming(k) \/ Word(bus, lo, k, present)
        \/ (Silent(bus, lo, k) /\ (Word(conn[c].queue, 1, k, present)
                                   \/ (Silent(conn[c].queue, 1, k) /\ CaughtUp(c, k))))
    BY DEF EventInv, LastWord, Agrees, lo
  <1>6. ASSUME Word(bus, lo, k, present)
        PROVE  Word(bus, lo + 1, k, present)
               \/ (Silent(bus, lo + 1, k) /\ e.key = k /\ (k \in present <=> e.op = "put"))
    <2>1. CASE e.key = k
      BY <1>1, <1>2, <1>6, <2>1, PassEvent
    <2>2. CASE e.key # k
      <3>1. \A i \in lo..((lo + 1) - 1) : bus[i].key # k
        BY <1>2, <2>2
      <3> QED
        BY <1>1, <1>2, <1>6, <3>1, NextSilent
    <2> QED
      BY <2>1, <2>2
  <1>7. ASSUME Silent(bus, lo, k) PROVE Silent(bus, lo + 1, k) /\ e.key # k
    <2>1. Silent(bus, lo + 1, k)
      BY <1>1, <1>2, <1>7, NextSilent
    <2>2. lo \in lo..Len(bus)
      BY <1>1, <1>2
    <2> QED
      BY <1>7, <2>1, <2>2 DEF Silent
  <1>8. \/ Coming(k)
        \/ Word(bus, lo + 1, k, present)
        \/ Silent(bus, lo + 1, k) /\ e.key = k /\ (k \in present <=> e.op = "put")
        \/ /\ Silent(bus, lo + 1, k) /\ e.key # k
           /\ \/ Word(conn[c].queue, 1, k, present)
              \/ Silent(conn[c].queue, 1, k) /\ CaughtUp(c, k)
    BY <1>5, <1>6, <1>7
  <1> QED
    BY <1>2, <1>3, <1>4, <1>8 DEF lo

\* rx.recv() and the line to the client: an event moves from bus to queue.
LEMMA RelayStep ==
    ASSUME EventInv, NEW c \in Replicas, Relay(c)
    PROVE  EventInv'
  <1>t. EventTypes /\ conn[c] \in Link /\ LinkSound(conn[c], Len(bus)) /\ Len(bus) \in Nat
        /\ conn[c].next \in Nat /\ conn[c].queue \in Seq(Event) /\ bus \in Seq(BusEvent) /\ Owned(c)
    BY DEF EventInv, EventTypes, Links, Link
  <1>u. UNCHANGED <<kind, mirror, durable, present, changes, bus, view, excused>>
    BY DEF Relay, shardVars
  <1>x. /\ excused' \in [Replicas -> SUBSET EventKeys] /\ \A d \in Replicas : excused[d] \subseteq excused'[d]
        /\ view' \in [Replicas -> SUBSET EventKeys] /\ \A d \in Replicas : view'[d] = view[d]
    BY <1>t, <1>u DEF EventTypes
  <1>s. conn[c].step = "relaying" /\ conn[c].next < Len(bus)
    BY DEF Relay, InStep
  <1>1. CASE ~ conn[c].alive
    <2>0. conn' = [conn EXCEPT ![c].step = "closed"]
      BY <1>1 DEF Relay, Goes
    <2>1. /\ conn' \in [Replicas -> Link] /\ \A d \in Replicas \ {c} : conn'[d] = conn[d]
          /\ conn'[c].step = "closed" /\ conn'[c].next = conn[c].next /\ conn'[c].queue = conn[c].queue
          /\ conn'[c].scan = conn[c].scan /\ conn'[c].rebuild = conn[c].rebuild /\ conn'[c].head = conn[c].head
          /\ conn'[c].index = conn[c].index /\ conn'[c].heard = conn[c].heard
      BY <1>t, <2>0 DEF EventTypes, Link
    <2>2. LinkSound(conn'[c], Len(bus)) /\ conn'[c].step \notin Linked
      BY <1>t, <2>1 DEF LinkSound, Linked, Joining
    <2>3. Owned(c)'
      BY <1>t, <1>u, <2>1, OwnedSame DEF Joining
    <2> QED
      BY <1>u, <1>x, <2>1, <2>2, <2>3, LinkStep
  <1>3. CASE conn[c].alive /\ bus[conn[c].next + 1].op = "flush"
    <2>0. conn' = [conn EXCEPT ![c].next = @ + 1]
      <3>1. conn' = [conn EXCEPT ![c].next = @ + 1, ![c].queue = @]
        BY <1>3 DEF Relay, Received
      <3>2. conn \in [Replicas -> Link] /\ conn[c] \in Link
        BY <1>t DEF EventTypes
      <3> QED
        BY <3>1, <3>2 DEF Link
    <2>n. conn[c].next + 1 \in Nat /\ conn[c].next + 1 <= Len(bus)
      BY <1>t, <1>s
    <2>1. /\ conn' \in [Replicas -> Link] /\ \A d \in Replicas \ {c} : conn'[d] = conn[d]
          /\ conn'[c].step = "relaying" /\ conn'[c].next = conn[c].next + 1 /\ conn'[c].queue = conn[c].queue
          /\ conn'[c].scan = conn[c].scan /\ conn'[c].rebuild = conn[c].rebuild /\ conn'[c].head = conn[c].head
          /\ conn'[c].index = conn[c].index /\ conn'[c].heard = conn[c].heard
      BY <1>t, <1>s, <2>0, <2>n DEF EventTypes, Link
    <2>2. LinkSound(conn'[c], Len(bus))
      BY <1>t, <1>s, <2>n, <2>1 DEF LinkSound, Joining
    <2>3. Owned(c)'
      BY <1>t, <1>u, <1>s, <2>1, OwnedSame DEF Joining
    <2>4. ASSUME NEW k \in Certain(c)' PROVE Agrees(c, k)'
      <3>1. k \in Certain(c) /\ conn[c].step \in Linked
        BY <1>u, <1>s DEF Certain, Linked
      <3>2. \/ Coming(k)
            \/ Word(bus, conn[c].next + 2, k, present)
            \/ /\ Silent(bus, conn[c].next + 2, k)
               /\ \/ Word(conn[c].queue, 1, k, present)
                  \/ Silent(conn[c].queue, 1, k) /\ CaughtUp(c, k)
        BY <1>s, <1>3, <3>1, LastEventPassed
      <3>3. CaughtUp(c, k) => CaughtUp(c, k)'
        BY <1>u, <2>1, CaughtSame
      <3>4. conn'[c].next + 1 = conn[c].next + 2
        BY <1>t, <2>1
      <3> QED
        BY <1>u, <2>1, <3>2, <3>3, <3>4 DEF Agrees, Coming
    <2> QED
      BY <1>u, <1>x, <2>1, <2>2, <2>3, <2>4, LinkStep
  <1>2. CASE conn[c].alive /\ bus[conn[c].next + 1].op # "flush"
    <2> DEFINE e == bus[conn[c].next + 1]
               r == [e EXCEPT !.key = Trimmed[@]]
               q == conn[c].queue
    <2>1. conn' = [conn EXCEPT ![c].next = @ + 1, ![c].queue = Append(@, r)]
      BY <1>2 DEF Relay, Received
    <2>2. conn[c].next + 1 \in 1..Len(bus) /\ conn[c].next + 1 \in Nat /\ conn[c].next + 1 <= Len(bus)
          /\ (conn[c].next + 1) + 1 = conn[c].next + 2
      BY <1>t, <1>s
    <2>3. e \in Event
      <3>1. e \in BusEvent
        BY <1>t, <2>2
      <3> QED
        BY <1>2, <3>1 DEF BusEvent
    <2>4. r \in Event /\ r.key = Trimmed[e.key] /\ r.op = e.op
      BY <2>3, EventAssumption DEF Event
    <2> HIDE DEF r, e
    <2>5. Append(q, r) \in Seq(Event) /\ Append(q, r) # <<>>
          /\ (q # <<>> => Append(q, r)[1] = q[1])
      <3>1. q \in Seq(Event) /\ (q # <<>> => 1 \in 1..Len(q))
        BY <1>t
      <3> HIDE DEF q
      <3>2. Append(q, r) \in Seq(Event) /\ Len(Append(q, r)) = Len(q) + 1 /\ Len(q) \in Nat
        BY <2>4, <3>1
      <3>3. q # <<>> => Append(q, r)[1] = q[1]
        BY <2>4, <3>1
      <3>4. Append(q, r) # <<>>
        BY <3>2
      <3> QED
        BY <3>2, <3>3, <3>4
    <2>6. /\ conn' \in [Replicas -> Link] /\ \A d \in Replicas \ {c} : conn'[d] = conn[d]
          /\ conn'[c].step = "relaying" /\ conn'[c].next = conn[c].next + 1 /\ conn'[c].queue = Append(q, r)
          /\ conn'[c].scan = conn[c].scan /\ conn'[c].rebuild = conn[c].rebuild /\ conn'[c].head = conn[c].head
          /\ conn'[c].index = conn[c].index /\ conn'[c].heard = conn[c].heard
      BY <1>t, <1>s, <2>1, <2>2, <2>5 DEF EventTypes, Link
    <2>7. LinkSound(conn'[c], Len(bus))
      BY <1>t, <2>2, <2>5, <2>6 DEF LinkSound, Joining
    <2>o. Owned(c)'
      <3>1. conn'[c].head = "found" => conn[c].head = "found" /\ conn'[c].queue[1].key = q[1].key
        BY <1>t, <2>5, <2>6 DEF LinkSound
      <3> QED
        BY <1>t, <1>u, <1>s, <2>6, <3>1, OwnedSame DEF Joining
    <2>8. ASSUME NEW k \in Certain(c)' PROVE Agrees(c, k)'
      <3>1. k \in Certain(c) /\ conn[c].step \in Linked
        BY <1>u, <1>s DEF Certain, Linked
      <3>2. /\ Trimmed[e.key] = k <=> e.key = k
            /\ \/ Coming(k)
               \/ Word(bus, conn[c].next + 2, k, present)
               \/ Silent(bus, conn[c].next + 2, k) /\ e.key = k /\ (k \in present <=> e.op = "put")
               \/ /\ Silent(bus, conn[c].next + 2, k) /\ e.key # k
                  /\ \/ Word(q, 1, k, present)
                     \/ Silent(q, 1, k) /\ CaughtUp(c, k)
        BY <1>s, <1>2, <3>1, LastEventPassed DEF e
      <3>3. r.key = k <=> e.key = k
        BY <2>4, <3>2
      <3>4. (Silent(q, 1, k) /\ e.key # k) => Silent(Append(q, r), 1, k)
        BY <1>t, <2>4, <3>3, AppendSilent
      <3>5. Len(q) \in Nat /\ 1 <= Len(q) + 1
        BY <1>t
      <3>6. (Word(q, 1, k, present) /\ e.key # k) => Word(Append(q, r), 1, k, present)
        BY <1>t, <2>4, <3>3, AppendWord
      <3>7. (e.key = k /\ (k \in present <=> e.op = "put")) => Word(Append(q, r), 1, k, present)
        BY <1>t, <2>4, <3>3, <3>5, AppendWord
      <3>8. CaughtUp(c, k) => CaughtUp(c, k)'
        BY <1>u, <2>6, CaughtSame
      <3>9. \/ Coming(k)
            \/ Word(bus, conn[c].next + 2, k, present)
            \/ Silent(bus, conn[c].next + 2, k) /\ Word(Append(q, r), 1, k, present)
            \/ Silent(bus, conn[c].next + 2, k) /\ Silent(Append(q, r), 1, k) /\ CaughtUp(c, k)'
        BY <3>2, <3>4, <3>6, <3>7, <3>8
      <3> QED
        BY <1>u, <2>2, <2>6, <3>9 DEF Agrees, Coming
    <2> QED
      BY <1>u, <1>x, <2>6, <2>7, <2>o, <2>8, LinkStep
  <1> QED
    BY <1>1, <1>2, <1>3

\* RecvError::Lagged: the keys of the events that are skipped are excused.
LEMMA LagStep ==
    ASSUME EventInv, NEW c \in Replicas, Lag(c)
    PROVE  EventInv'
  <1> DEFINE m == Len(bus) - Capacity
             dropped == EventKeys \cap {bus[i].key : i \in conn[c].next + 1 .. m}
  <1>t. EventTypes /\ conn[c] \in Link /\ LinkSound(conn[c], Len(bus)) /\ Len(bus) \in Nat /\ Owned(c)
        /\ conn[c].next \in Nat /\ bus \in Seq(BusEvent) /\ excused[c] \subseteq EventKeys
    BY DEF EventInv, EventTypes, Links, Link
  <1>u. UNCHANGED <<kind, mirror, durable, present, changes, bus, view>> /\ conn[c].step = "relaying"
        /\ conn' = [conn EXCEPT ![c].next = m]
        /\ excused' = [excused EXCEPT ![c] = @ \cup dropped]
    BY DEF Lag, InStep, shardVars
  <1>m. m \in Nat /\ m <= Len(bus) /\ conn[c].next + 1 \in Nat /\ m + 1 \in Nat /\ conn[c].next + 1 <= m + 1
        /\ (m + 1) - 1 = m
    BY <1>t, EventAssumption DEF Lag
  <1>d. dropped \subseteq EventKeys
    OBVIOUS
  <1> HIDE DEF m, dropped
  <1>x. /\ excused' \in [Replicas -> SUBSET EventKeys] /\ \A d \in Replicas : excused[d] \subseteq excused'[d]
        /\ excused'[c] = excused[c] \cup dropped
        /\ view' \in [Replicas -> SUBSET EventKeys] /\ \A d \in Replicas : view'[d] = view[d]
    BY <1>t, <1>u, <1>d DEF EventTypes
  <1>1. /\ conn' \in [Replicas -> Link] /\ \A d \in Replicas \ {c} : conn'[d] = conn[d]
        /\ conn'[c].step = "relaying" /\ conn'[c].next = m /\ conn'[c].queue = conn[c].queue
        /\ conn'[c].scan = conn[c].scan /\ conn'[c].rebuild = conn[c].rebuild /\ conn'[c].head = conn[c].head
          /\ conn'[c].index = conn[c].index /\ conn'[c].heard = conn[c].heard
    BY <1>t, <1>u, <1>m DEF EventTypes, Link
  <1>2. LinkSound(conn'[c], Len(bus))
    BY <1>t, <1>m, <1>1 DEF LinkSound, Joining
  <1>o. Owned(c)'
    BY <1>t, <1>u, <1>1, OwnedSame DEF Joining
  <1>3. ASSUME NEW k \in Certain(c)' PROVE Agrees(c, k)'
    <2>1. k \in Certain(c) /\ k \notin dropped /\ conn[c].step \in Linked
      BY <1>u, <1>x DEF Certain, Linked
    <2>2. \A i \in (conn[c].next + 1)..((m + 1) - 1) : bus[i].key # k
      BY <1>m, <2>1 DEF dropped, Certain
    <2>3. /\ Silent(bus, conn[c].next + 1, k) => Silent(bus, m + 1, k)
          /\ Word(bus, conn[c].next + 1, k, present) => Word(bus, m + 1, k, present)
      BY <1>t, <1>m, <2>2, NextSilent
    <2>4. CaughtUp(c, k) => CaughtUp(c, k)'
      BY <1>u, <1>1, CaughtSame
    <2>5. Agrees(c, k)
      BY <2>1 DEF EventInv, LastWord
    <2> QED
      BY <1>u, <1>1, <2>3, <2>4, <2>5 DEF Agrees, Coming
  <1> QED
    BY <1>u, <1>x, <1>1, <1>2, <1>o, <1>3, LinkStep

\* rebuild_catalog lists the shards and replaces the catalog.
LEMMA ScanStep ==
    ASSUME EventInv, NEW c \in Replicas, Scan(c) \/ Replace(c)
    PROVE  EventInv'
  <1>t. EventTypes /\ conn[c] \in Link /\ LinkSound(conn[c], Len(bus)) /\ present \subseteq EventKeys
        /\ conn[c].scan \subseteq EventKeys /\ conn[c].index \in [mirror -> SUBSET EventKeys] /\ Owned(c)
    BY DEF EventInv, EventTypes, Links, Link
  <1>k. Holds(c) \subseteq EventKeys
    BY <1>t DEF Holds
  <1>u. UNCHANGED <<kind, mirror, durable, present, changes, bus, excused>> /\ conn[c].step = "relaying"
    BY DEF Scan, Replace, Runs, InStep, shardVars
  <1>x. excused' \in [Replicas -> SUBSET EventKeys] /\ \A d \in Replicas : excused[d] \subseteq excused'[d]
    BY <1>t, <1>u DEF EventTypes
  <1>1. /\ conn' \in [Replicas -> Link] /\ \A d \in Replicas \ {c} : conn'[d] = conn[d]
        /\ conn'[c].step = "relaying" /\ conn'[c].next = conn[c].next /\ conn'[c].queue = conn[c].queue
        /\ conn'[c].head = conn[c].head /\ conn'[c].index = conn[c].index
    <2>1. CASE Scan(c)
      BY <1>t, <1>u, <1>k, <2>1 DEF EventTypes, Link, Scan
    <2>2. CASE Replace(c)
      BY <1>t, <1>u, <2>2 DEF EventTypes, Link, Replace
    <2> QED
      BY <2>1, <2>2
  <1>2. LinkSound(conn'[c], Len(bus))
    BY <1>t, <1>1 DEF LinkSound, Joining
  <1>3. \/ /\ UNCHANGED view /\ conn[c].rebuild = "todo" /\ conn'[c].rebuild = "scanned"
           /\ conn'[c].scan = Holds(c) /\ conn'[c].heard = {}
        \/ /\ conn[c].rebuild = "scanned" /\ conn'[c].rebuild = "done"
           /\ conn'[c].scan = conn[c].scan /\ conn'[c].heard = conn[c].heard
           /\ view' \in [Replicas -> SUBSET EventKeys] /\ \A d \in Replicas \ {c} : view'[d] = view[d]
           /\ view'[c] = conn[c].scan
    <2>1. CASE Scan(c)
      BY <1>t, <2>1 DEF EventTypes, Link, Scan
    <2>2. CASE Replace(c)
      BY <1>t, <2>2 DEF EventTypes, Link, Replace
    <2> QED
      BY <2>1, <2>2
  <1>4. view' \in [Replicas -> SUBSET EventKeys] /\ \A d \in Replicas \ {c} : view'[d] = view[d]
    BY <1>t, <1>3 DEF EventTypes
  <1>h. /\ Holds(c)' = Holds(c) /\ OnShard0(c)' = OnShard0(c) /\ OnShard0(c) \subseteq Holds(c)
    BY <1>t, <1>u, <1>1 DEF Holds, OnShard0, EventTypes
  <1>5. ASSUME NEW k \in Certain(c)' PROVE Agrees(c, k)'
    <2>1. k \in Certain(c) /\ conn[c].step \in Linked
      BY <1>u DEF Certain, Linked
    <2>2. Agrees(c, k)
      BY <2>1 DEF EventInv, LastWord
    <2>3. CaughtUp(c, k) => CaughtUp(c, k)'
      <3>1. Holds(c)' = Holds(c) /\ OnShard0(c)' = OnShard0(c) /\ OnShard0(c) \subseteq Holds(c)
        BY <1>t, <1>h
      <3>2. conn[c].rebuild = "todo" => mirror # {0}
        BY <1>t DEF Owned
      <3> QED
        BY <1>u, <1>3, <3>1, <3>2 DEF CaughtUp, Due
    <2> QED
      BY <1>u, <1>1, <2>2, <2>3, AgreesSame
  <1>6. Owned(c)'
    <2>1. conn'[c].step \notin Joining /\ mirror # {0}
      BY <1>t, <1>1, <1>3 DEF Owned, Joining
    <2> QED
      BY <1>t, <1>u, <1>h, <1>1, <1>3, <2>1 DEF Owned
  <1> QED
    BY <1>u, <1>x, <1>1, <1>2, <1>4, <1>5, <1>6, LinkStep

\* A line that is handled: the catalog takes over as the last word.
LEMMA Popped ==
    ASSUME EventInv, NEW c \in Replicas, NEW k \in Certain(c), conn[c].step \in Linked,
           UNCHANGED <<present, changes, bus>>, conn[c].queue # <<>>,
           conn'[c].next = conn[c].next, conn'[c].queue = Tail(conn[c].queue),
           CaughtUp(c, k) /\ conn[c].queue[1].key # k => CaughtUp(c, k)',
           conn[c].queue[1].key = k /\ (k \in present <=> conn[c].queue[1].op = "put") => CaughtUp(c, k)'
    PROVE  Agrees(c, k)'
  <1> DEFINE q == conn[c].queue
  <1>1. q \in Seq(Event) /\ q # <<>>
    BY DEF EventInv, EventTypes, Link
  <1>2. Agrees(c, k)
    BY DEF EventInv, LastWord
  <1>3. /\ Silent(q, 1, k) => q[1].key # k /\ Silent(Tail(q), 1, k)
        /\ Word(q, 1, k, present) =>
             \/ Word(Tail(q), 1, k, present)
             \/ Silent(Tail(q), 1, k) /\ q[1].key = k /\ (k \in present <=> q[1].op = "put")
    BY <1>1, HeadTaken
  <1>4. \/ Coming(k)
        \/ Word(bus, conn[c].next + 1, k, present)
        \/ Silent(bus, conn[c].next + 1, k) /\ Word(Tail(q), 1, k, present)
        \/ Silent(bus, conn[c].next + 1, k) /\ Silent(Tail(q), 1, k) /\ CaughtUp(c, k)'
    BY <1>2, <1>3 DEF Agrees
  <1> QED
    BY <1>4 DEF Agrees, Coming

\* The three ways to handle a line: HEAD and PUT, a PUT skipped, DELETE.
LEMMA QueueStep ==
    ASSUME EventInv, NEW c \in Replicas, HeadObject(c) \/ ApplyPut(c) \/ ApplyDelete(c)
    PROVE  EventInv'
  <1> DEFINE q == conn[c].queue
  <1>t. EventTypes /\ conn[c] \in Link /\ LinkSound(conn[c], Len(bus)) /\ q \in Seq(Event)
        /\ view[c] \subseteq EventKeys /\ excused[c] \subseteq EventKeys /\ Owned(c)
    BY DEF EventInv, EventTypes, Links, Link
  <1>u. /\ UNCHANGED <<kind, mirror, durable, present, changes, bus>>
        /\ conn[c].step = "relaying" /\ conn[c].step \in Linked /\ conn[c].step \notin Joining
    BY DEF HeadObject, ApplyPut, ApplyDelete, Runs, InStep, Linked, Joining, shardVars
  <1>q. q # <<>>
    BY <1>t DEF HeadObject, ApplyPut, ApplyDelete, LinkSound
  <1>h. Head(q) = q[1] /\ q[1] \in Event /\ Tail(q) \in Seq(Event) /\ q[1].key \in EventKeys
    <2>1. Head(q) = q[1] /\ q[1] \in Event /\ Tail(q) \in Seq(Event)
      BY <1>t, <1>q, HeadTaken
    <2> QED
      BY <2>1 DEF Event
  <1>1. ASSUME conn' = [conn EXCEPT ![c].head = "found"], q[1].op = "put", q[1].key \in OnShard0(c),
               UNCHANGED <<view, excused>>
        PROVE  EventInv'
    <2>1. /\ conn' \in [Replicas -> Link] /\ \A d \in Replicas \ {c} : conn'[d] = conn[d]
          /\ conn'[c].step = conn[c].step /\ conn'[c].next = conn[c].next /\ conn'[c].queue = q
          /\ conn'[c].scan = conn[c].scan /\ conn'[c].rebuild = conn[c].rebuild
          /\ conn'[c].index = conn[c].index /\ conn'[c].heard = conn[c].heard
      BY <1>t, <1>1 DEF EventTypes, Link
    <2>2. LinkSound(conn'[c], Len(bus))
      BY <1>t, <1>u, <1>q, <1>1, <2>1 DEF LinkSound
    <2>3. excused' \in [Replicas -> SUBSET EventKeys] /\ \A d \in Replicas : excused[d] \subseteq excused'[d]
      BY <1>t, <1>1 DEF EventTypes
    <2>4. Owned(c)'
      BY <1>t, <1>u, <1>1, <2>1 DEF Owned, Holds, OnShard0
    <2> QED
      BY <1>u, <1>1, <2>1, <2>2, <2>3, <2>4, BecameSame
  <1>2. ASSUME conn'[c].head = "none", conn' \in [Replicas -> Link],
               \A d \in Replicas \ {c} : conn'[d] = conn[d],
               conn'[c].step = conn[c].step, conn'[c].next = conn[c].next, conn'[c].queue = Tail(q),
               conn'[c].scan = conn[c].scan, conn'[c].rebuild = conn[c].rebuild, conn'[c].index = conn[c].index,
               kind # "shared" => view'[c] \subseteq Holds(c),
               view' \in [Replicas -> SUBSET EventKeys], \A d \in Replicas \ {c} : view'[d] = view[d],
               excused' \in [Replicas -> SUBSET EventKeys], \A d \in Replicas : excused[d] \subseteq excused'[d],
               \A k \in Certain(c)' : CaughtUp(c, k) /\ q[1].key # k => CaughtUp(c, k)',
               \A k \in Certain(c)' : q[1].key = k /\ (k \in present <=> q[1].op = "put") => CaughtUp(c, k)'
        PROVE  EventInv'
    <2>1. LinkSound(conn'[c], Len(bus))
      BY <1>t, <1>u, <1>2 DEF LinkSound
    <2>o. Owned(c)'
      BY <1>t, <1>u, <1>2 DEF Owned, Holds, OnShard0
    <2>2. ASSUME NEW k \in Certain(c)' PROVE Agrees(c, k)'
      <3>1. k \in Certain(c)
        BY <1>2 DEF Certain
      <3>2. /\ CaughtUp(c, k) /\ q[1].key # k => CaughtUp(c, k)'
            /\ q[1].key = k /\ (k \in present <=> q[1].op = "put") => CaughtUp(c, k)'
        BY <1>2
      <3> QED
        BY <1>u, <1>q, <1>2, <3>1, <3>2, Popped
    <2> QED
      BY <1>u, <1>2, <2>1, <2>o, <2>2, LinkStep
  <1>d. ASSUME Handled(c)
        PROVE  /\ conn'[c].head = "none" /\ conn' \in [Replicas -> Link]
               /\ \A d \in Replicas \ {c} : conn'[d] = conn[d]
               /\ conn'[c].step = conn[c].step /\ conn'[c].next = conn[c].next /\ conn'[c].queue = Tail(q)
               /\ conn'[c].scan = conn[c].scan /\ conn'[c].rebuild = conn[c].rebuild
               /\ conn'[c].index = conn[c].index /\ conn'[c].heard = conn[c].heard \cup {q[1].key}
               /\ Holds(c)' = Holds(c) /\ OnShard0(c)' = OnShard0(c)
    <2>1. conn' = [conn EXCEPT ![c].queue = Tail(q), ![c].head = "none", ![c].heard = @ \cup {q[1].key}]
      BY <1>d, <1>h DEF Handled
    <2>2. conn \in [Replicas -> Link] /\ conn[c] \in Link
      BY <1>t DEF EventTypes
    <2>3. /\ conn'[c].head = "none"
          /\ \A d \in Replicas \ {c} : conn'[d] = conn[d]
          /\ conn'[c].step = conn[c].step /\ conn'[c].next = conn[c].next /\ conn'[c].queue = Tail(q)
          /\ conn'[c].scan = conn[c].scan /\ conn'[c].rebuild = conn[c].rebuild
          /\ conn'[c].index = conn[c].index /\ conn'[c].heard = conn[c].heard \cup {q[1].key}
      BY <2>1, <2>2 DEF Link
    <2>4. conn' \in [Replicas -> Link]
      <3> DEFINE n == [conn[c] EXCEPT !.queue = Tail(q), !.head = "none", !.heard = @ \cup {q[1].key}]
      <3>1. n \in Link
        BY <1>h, <2>2 DEF Link
      <3>2. conn' = [conn EXCEPT ![c] = n]
        BY <2>1, <2>2
      <3> HIDE DEF n
      <3> QED
        BY <2>2, <3>1, <3>2
    <2> QED
      BY <1>u, <2>3, <2>4 DEF Holds, OnShard0
  <1>3. ASSUME HeadObject(c), Handled(c),
               \/ q[1].key \notin OnShard0(c) /\ UNCHANGED excused
               \/ excused' = [excused EXCEPT ![c] = @ \cup {q[1].key}]
        PROVE  EventInv'
    <2>1. UNCHANGED view /\ conn[c].head = "none" /\ q[1].op = "put"
      BY <1>3, <1>h DEF HeadObject
    <2>2. /\ conn'[c].head = "none" /\ conn' \in [Replicas -> Link]
          /\ \A d \in Replicas \ {c} : conn'[d] = conn[d]
          /\ conn'[c].step = conn[c].step /\ conn'[c].next = conn[c].next /\ conn'[c].queue = Tail(q)
          /\ conn'[c].scan = conn[c].scan /\ conn'[c].rebuild = conn[c].rebuild
          /\ conn'[c].index = conn[c].index /\ conn'[c].heard = conn[c].heard \cup {q[1].key}
          /\ Holds(c)' = Holds(c) /\ OnShard0(c)' = OnShard0(c)
      BY <1>3, <1>d
    <2>3. /\ excused' \in [Replicas -> SUBSET EventKeys] /\ \A d \in Replicas : excused[d] \subseteq excused'[d]
      <3>1. CASE UNCHANGED excused
        BY <1>t, <3>1 DEF EventTypes
      <3>2. CASE excused' = [excused EXCEPT ![c] = @ \cup {q[1].key}]
        BY <1>t, <1>h, <3>2 DEF EventTypes
      <3> QED
        BY <1>3, <3>1, <3>2
    <2>4. view' \in [Replicas -> SUBSET EventKeys] /\ \A d \in Replicas \ {c} : view'[d] = view[d]
      BY <1>t, <2>1 DEF EventTypes
    <2>5. \A k \in Certain(c)' : CaughtUp(c, k) /\ q[1].key # k => CaughtUp(c, k)'
      BY <1>u, <2>1, <2>2 DEF CaughtUp, Due
    <2>6. \A k \in Certain(c)' : q[1].key = k /\ (k \in present <=> q[1].op = "put") => CaughtUp(c, k)'
      <3> SUFFICES ASSUME NEW k \in Certain(c)', q[1].key = k, k \in present PROVE CaughtUp(c, k)'
        BY <2>1
      <3>1. k \notin excused'[c]
        BY DEF Certain
      <3>2. k \notin OnShard0(c)
        BY <1>3, <1>t, <1>h, <3>1 DEF EventTypes
      <3>3. kind # "shared"
        BY <3>2 DEF OnShard0
      <3>4. (k \in Holds(c) => k \in OnShard0(c)) => k \notin view[c] /\ k \notin conn[c].scan
        BY <1>t, <3>2, <3>3 DEF Owned
      <3> QED
        BY <2>1, <2>2, <3>2, <3>4 DEF CaughtUp, Due
    <2>7. kind # "shared" => view'[c] \subseteq Holds(c)
      BY <1>t, <2>1 DEF Owned
    <2> QED
      BY <1>2, <2>2, <2>3, <2>4, <2>5, <2>6, <2>7
  <1>4. ASSUME ApplyPut(c) \/ ApplyDelete(c) PROVE EventInv'
    <2> DEFINE a == q[1].key
    <2>1. /\ ApplyPut(c) => q[1].op = "put"
          /\ ApplyDelete(c) => q[1].op = "delete" /\ conn[c].head = "none"
      BY <1>t, <1>h DEF ApplyPut, ApplyDelete, LinkSound, Link
    <2>2. /\ conn'[c].head = "none" /\ conn' \in [Replicas -> Link]
          /\ \A d \in Replicas \ {c} : conn'[d] = conn[d]
          /\ conn'[c].step = conn[c].step /\ conn'[c].next = conn[c].next /\ conn'[c].queue = Tail(q)
          /\ conn'[c].scan = conn[c].scan /\ conn'[c].rebuild = conn[c].rebuild
          /\ conn'[c].index = conn[c].index /\ conn'[c].heard = conn[c].heard \cup {q[1].key}
          /\ Holds(c)' = Holds(c) /\ OnShard0(c)' = OnShard0(c)
      <3>1. Handled(c)
        BY <1>4 DEF ApplyPut, ApplyDelete
      <3> QED
        BY <1>d, <3>1
    <2>3. view' = [view EXCEPT ![c] = IF q[1].op = "put" THEN @ \cup {a} ELSE @ \ {a}]
      BY <1>4, <1>h, <2>1 DEF ApplyPut, ApplyDelete
    <2>4. excused' = [excused EXCEPT ![c] = IF conn[c].rebuild = "scanned" THEN @ \cup {a} ELSE @]
      BY <1>4, <1>h DEF ApplyPut, ApplyDelete, CatalogLost
    <2>5. a \in EventKeys /\ q[1].op \in Emits
      BY <1>h DEF Event
    <2>6. /\ view' \in [Replicas -> SUBSET EventKeys] /\ \A d \in Replicas \ {c} : view'[d] = view[d]
          /\ \A k : k # a => (k \in view'[c] <=> k \in view[c])
          /\ a \in view'[c] <=> q[1].op = "put"
      BY <1>t, <2>3, <2>5 DEF EventTypes
    <2>7. /\ excused' \in [Replicas -> SUBSET EventKeys] /\ \A d \in Replicas : excused[d] \subseteq excused'[d]
          /\ conn[c].rebuild = "scanned" => a \in excused'[c]
      BY <1>t, <2>4, <2>5 DEF EventTypes
    <2>8. \A k \in Certain(c)' : CaughtUp(c, k) /\ q[1].key # k => CaughtUp(c, k)'
      BY <1>u, <2>2, <2>6 DEF CaughtUp, Due
    <2>10. kind # "shared" /\ q[1].op = "put" => a \in OnShard0(c) /\ OnShard0(c) \subseteq Holds(c)
      <3>1. ApplyDelete(c) => q[1].op # "put"
        BY <2>1
      <3>2. ApplyPut(c) => conn[c].head = "found"
        BY DEF ApplyPut
      <3>3. OnShard0(c) \subseteq Holds(c)
        BY <1>t DEF EventTypes, OnShard0, Holds
      <3> QED
        BY <1>4, <1>t, <3>1, <3>2, <3>3 DEF Owned
    <2>9. \A k \in Certain(c)' : q[1].key = k /\ (k \in present <=> q[1].op = "put") => CaughtUp(c, k)'
      <3> SUFFICES ASSUME NEW k \in Certain(c)', q[1].key = k, k \in present <=> q[1].op = "put"
                   PROVE  CaughtUp(c, k)'
        OBVIOUS
      <3>1. conn[c].rebuild # "scanned"
        BY <2>7 DEF Certain
      <3>2. k \in present => k \in OnShard0(c)
        <4>1. kind = "shared" => OnShard0(c) = present
          BY DEF OnShard0
        <4> QED
          BY <2>10, <4>1
      <3> QED
        BY <1>u, <2>2, <2>6, <3>1, <3>2 DEF CaughtUp, Due
    <2>11. kind # "shared" => view'[c] \subseteq Holds(c)
      BY <1>t, <2>3, <2>5, <2>6, <2>10 DEF Owned
    <2> QED
      BY <1>2, <2>2, <2>6, <2>7, <2>8, <2>9, <2>11
  <1>5. CASE HeadObject(c)
    <2>1. Head(q).op = "put" /\ UNCHANGED view
          /\ \/ /\ Head(q).key \in OnShard0(c)
                /\ conn' = [conn EXCEPT ![c].head = "found"]
                /\ UNCHANGED excused
             \/ Head(q).key \notin OnShard0(c) /\ Handled(c) /\ UNCHANGED excused
             \/ /\ Handled(c)
                /\ excused' = [excused EXCEPT ![c] = @ \cup {Head(q).key}]
      BY <1>5, Zenon DEF HeadObject
    <2> QED
      BY <1>1, <1>3, <1>5, <1>h, <2>1
  <1> QED
    BY <1>4, <1>5

\* The writer begins an operation: if it overlaps another the key is excused.
LEMMA BeginStep ==
    ASSUME EventInv, NEW k \in EventKeys, NEW op \in {"put", "delete", "copy_if_not_exists"}, BeginChange(k, op)
    PROVE  EventInv'
  <1> DEFINE q == [key |-> k, op |-> op, step |-> "shards"]
  <1>t. EventTypes /\ Orderly
    BY DEF EventInv
  <1>u. UNCHANGED <<kind, mirror, durable, present, bus, conn, view>> /\ changes' = changes \cup {q}
    BY DEF BeginChange, shardVars
  <1>q. q \in Change /\ q.key = k /\ q.op = op /\ q.step = "shards"
    BY DEF Change
  <1> HIDE DEF q
  <1>k. Trimmed[k] \in EventKeys
    BY EventAssumption
  <1>e. \/ /\ excused' = [c \in Replicas |-> excused[c] \cup {k, Trimmed[k]}]
        \/ /\ excused' = excused /\ op \in Emits /\ Trimmed[k] = k
           /\ \A r \in changes : Trimmed[r.key] # Trimmed[k]
    BY DEF BeginChange, Excuse
  <1>x. /\ excused' \in [Replicas -> SUBSET EventKeys]
        /\ \A c \in Replicas : excused[c] \subseteq excused'[c]
        /\ \A c \in Replicas : \/ k \notin Certain(c)' /\ Trimmed[k] \notin Certain(c)'
                               \/ /\ op \in Emits /\ Trimmed[k] = k
                                  /\ \A r \in changes : Trimmed[r.key] # Trimmed[k]
    <2>1. CASE excused' = [c \in Replicas |-> excused[c] \cup {k, Trimmed[k]}]
      BY <1>t, <1>k, <2>1 DEF EventTypes, Certain
    <2>2. CASE excused' = excused
      BY <1>t, <1>k, <1>e, <2>2 DEF EventTypes, Certain
    <2> QED
      BY <1>e, <2>1, <2>2
  <1>1. EventTypes'
    BY <1>t, <1>u, <1>q, <1>x DEF EventTypes, Link
  <1>o. \A c \in Replicas : Owned(c)'
    BY <1>u DEF EventInv, Owned, Holds, OnShard0
  <1>2. Links'
    BY <1>u DEF EventInv, Links
  <1>c. \A c \in Replicas : Certain(c)' \subseteq Certain(c)
    BY <1>x DEF Certain
  <1>3. ASSUME NEW c \in Replicas PROVE \A r \in changes' : OrderlyChange(c, r)'
    <2> SUFFICES ASSUME NEW r \in changes' PROVE OrderlyChange(c, r)'
      OBVIOUS
    <2>1. CASE r = q
      BY <1>t, <1>u, <1>q, <1>x, <2>1 DEF OrderlyChange
    <2>2. CASE r # q
      <3>1. r \in changes /\ OrderlyChange(c, r)
        BY <1>t, <1>u, <2>2 DEF Orderly
      <3>2. r.key = k => k \notin Certain(c)'
        BY <1>x, <3>1
      <3> QED
        BY <1>u, <1>q, <1>c, <3>1, <3>2 DEF OrderlyChange
    <2> QED
      BY <2>1, <2>2
  <1>4. \A c \in Replicas : \A i \in DOMAIN bus : OrderlyEvent(c, bus[i])'
    BY <1>t, <1>u, <1>c DEF Orderly, OrderlyEvent
  <1>5. Orderly'
    BY <1>3, <1>4, <1>u DEF Orderly
  <1>6. ASSUME NEW c \in Replicas, NEW x, Agrees(c, x) PROVE Agrees(c, x)'
    <2>1. Coming(x) => Coming(x)'
      BY <1>u DEF Coming
    <2>2. CaughtUp(c, x) => CaughtUp(c, x)'
      BY <1>u DEF CaughtUp, Due, Holds, OnShard0
    <2> QED
      BY <1>u, <1>6, <2>1, <2>2 DEF Agrees
  <1>7. LastWord'
    BY <1>u, <1>c, <1>6 DEF EventInv, LastWord
  <1> QED
    BY <1>1, <1>2, <1>o, <1>5, <1>7 DEF EventInv

\* The shards change and the event is to come.
LEMMA ShardsWritten ==
    ASSUME EventInv, NEW q \in changes, WriteShards(q)
    PROVE  EventInv'
  <1> DEFINE r == [q EXCEPT !.step = "emit"]
  <1>t. EventTypes /\ Orderly /\ q \in Change /\ q.step = "shards"
    BY DEF EventInv, EventTypes, WriteShards
  <1>u. UNCHANGED <<kind, mirror, durable, bus, conn, view, excused>>
        /\ present' = (IF q.op = "delete" THEN present \ {q.key} ELSE present \cup {q.key})
        /\ changes' = (changes \ {q}) \cup (IF q.op \in Emits THEN {r} ELSE {})
    BY DEF WriteShards, shardVars
  <1>r. r \in Change /\ r.key = q.key /\ r.op = q.op /\ r.step = "emit" /\ q.key \in EventKeys
    BY <1>t DEF Change
  <1> HIDE DEF r
  <1>p. /\ \A k : k # q.key => (k \in present' <=> k \in present)
        /\ q.op \in Emits => (q.key \in present' <=> q.op = "put")
        /\ present' \subseteq EventKeys
    BY <1>t, <1>u, <1>r DEF Emits, EventTypes
  <1>1. EventTypes'
    BY <1>t, <1>u, <1>r, <1>p DEF EventTypes, Link
  <1>o. \A c \in Replicas : Owned(c)'
    BY <1>u DEF EventInv, Owned, Holds, OnShard0
  <1>2. Links'
    BY <1>u DEF EventInv, Links
  <1>c. \A c \in Replicas : Certain(c)' = Certain(c)
    BY <1>u DEF Certain
  <1>3. ASSUME NEW c \in Replicas PROVE \A s \in changes' : OrderlyChange(c, s)'
    <2> SUFFICES ASSUME NEW s \in changes' PROVE OrderlyChange(c, s)'
      OBVIOUS
    <2>q. OrderlyChange(c, q)
      BY <1>t DEF Orderly
    <2>1. CASE s = r
      BY <1>u, <1>r, <1>p, <1>c, <2>1, <2>q DEF OrderlyChange
    <2>2. CASE s # r
      <3>1. s \in changes /\ s # q /\ OrderlyChange(c, s)
        BY <1>t, <1>u, <2>2 DEF Orderly
      <3>2. s.key \in Certain(c) => s.key # q.key
        BY <2>q, <3>1 DEF OrderlyChange
      <3> QED
        BY <1>u, <1>r, <1>p, <1>c, <3>1, <3>2 DEF OrderlyChange
    <2> QED
      BY <2>1, <2>2
  <1>4. \A c \in Replicas : \A i \in DOMAIN bus : OrderlyEvent(c, bus[i])'
    BY <1>t, <1>u, <1>c DEF Orderly, OrderlyEvent
  <1>5. Orderly'
    BY <1>3, <1>4, <1>u DEF Orderly
  <1>6. ASSUME NEW c \in Replicas, NEW k \in Certain(c), Agrees(c, k) PROVE Agrees(c, k)'
    <2>1. CASE k = q.key
      <3>1. q.op \in Emits
        BY <1>t, <2>1 DEF Orderly, OrderlyChange
      <3>2. r \in changes' /\ r.key = k /\ r.step = "emit"
        BY <1>u, <1>r, <2>1, <3>1
      <3> QED
        BY <3>2 DEF Agrees, Coming
    <2>2. CASE k # q.key
      <3>0. k \in present' <=> k \in present
        BY <1>p, <2>2
      <3>1. Coming(k) => Coming(k)'
        BY <1>u, <2>2 DEF Coming
      <3>2. CaughtUp(c, k) => CaughtUp(c, k)'
        BY <1>u, <3>0 DEF CaughtUp, Due, Holds, OnShard0
      <3>3. \A s, lo : Word(s, lo, k, present) => Word(s, lo, k, present')
        BY <3>0 DEF Word
      <3> QED
        BY <1>u, <1>6, <3>1, <3>2, <3>3 DEF Agrees
    <2> QED
      BY <2>1, <2>2
  <1>7. LastWord'
    BY <1>u, <1>c, <1>6 DEF EventInv, LastWord
  <1> QED
    BY <1>1, <1>2, <1>o, <1>5, <1>7 DEF EventInv

\* emit_event: the event is the last word.
LEMMA EmitStep ==
    ASSUME EventInv, NEW q \in changes, Emit(q)
    PROVE  EventInv'
  <1> DEFINE e == [op |-> q.op, key |-> q.key]
  <1>t. EventTypes /\ Orderly /\ q \in Change /\ q.step = "emit" /\ q.op \in Emits /\ bus \in Seq(BusEvent)
    BY DEF EventInv, EventTypes, Emit
  <1>u. /\ UNCHANGED <<kind, mirror, durable, present, conn, view, excused>>
        /\ changes' = changes \ {q} /\ bus' = Append(bus, e)
    BY DEF Emit, shardVars
  <1>e. e \in BusEvent /\ e.key = q.key /\ e.op = q.op /\ q.key \in EventKeys
    BY <1>t DEF Change, Event, BusEvent
  <1> HIDE DEF e
  <1>b. /\ bus' \in Seq(BusEvent) /\ Len(bus') = Len(bus) + 1 /\ Len(bus) \in Nat
        /\ bus'[Len(bus) + 1] = e /\ \A i \in 1..Len(bus) : bus'[i] = bus[i]
    BY <1>t, <1>u, <1>e
  <1>1. EventTypes'
    BY <1>t, <1>u, <1>b DEF EventTypes, Link
  <1>o. \A c \in Replicas : Owned(c)'
    BY <1>u DEF EventInv, Owned, Holds, OnShard0
  <1>n. \A c \in Replicas : conn[c].next \in Nat /\ conn[c].next <= Len(bus)
    BY <1>t DEF EventTypes, EventInv, Links, LinkSound, Link
  <1>2. Links'
    <2>1. \A n \in Nat : n <= Len(bus) => n <= Len(bus')
      BY <1>b
    <2> QED
      BY <1>u, <1>n, <2>1 DEF EventInv, Links, LinkSound
  <1>c. \A c \in Replicas : Certain(c)' = Certain(c)
    BY <1>u DEF Certain
  <1>3. \A c \in Replicas : \A r \in changes' : OrderlyChange(c, r)'
    BY <1>t, <1>u, <1>c DEF Orderly, OrderlyChange
  <1>4. ASSUME NEW c \in Replicas, NEW i \in DOMAIN bus' PROVE OrderlyEvent(c, bus[i])'
    <2>1. i = Len(bus) + 1 \/ (i \in 1..Len(bus) /\ i \in DOMAIN bus)
      BY <1>t, <1>b
    <2>2. CASE i = Len(bus) + 1
      <3>1. bus'[i] = e /\ OrderlyChange(c, q)
        BY <1>t, <1>b, <2>2 DEF Orderly
      <3> QED
        BY <1>c, <1>e, <3>1 DEF OrderlyChange, OrderlyEvent
    <2>3. CASE i \in 1..Len(bus) /\ i \in DOMAIN bus
      <3>1. bus'[i] = bus[i] /\ OrderlyEvent(c, bus[i])
        BY <1>t, <1>b, <2>3 DEF Orderly
      <3> QED
        BY <1>c, <3>1 DEF OrderlyEvent
    <2> QED
      BY <2>1, <2>2, <2>3
  <1>5. Orderly'
    BY <1>3, <1>4 DEF Orderly
  <1>6. ASSUME NEW c \in Replicas, NEW k \in Certain(c), Agrees(c, k) PROVE Agrees(c, k)'
    <2> DEFINE lo == conn[c].next + 1
    <2>0. lo \in Nat /\ lo >= 1 /\ lo <= Len(bus) + 1
      BY <1>n, <1>b
    <2> HIDE DEF lo
    <2>1. CASE k = q.key
      <3>1. k \in present <=> e.op = "put"
        BY <1>t, <1>e, <2>1 DEF Orderly, OrderlyChange
      <3>2. Word(Append(bus, e), lo, k, present)
        BY <1>t, <1>e, <2>0, <2>1, <3>1, AppendWord
      <3> QED
        BY <1>u, <3>2 DEF Agrees, lo
    <2>2. CASE k # q.key
      <3>1. Coming(k) => Coming(k)'
        BY <1>u, <2>2 DEF Coming
      <3>2. CaughtUp(c, k) => CaughtUp(c, k)'
        BY <1>u DEF CaughtUp, Due, Holds, OnShard0
      <3>3. Word(bus, lo, k, present) => Word(Append(bus, e), lo, k, present)
        BY <1>t, <1>e, <2>0, <2>2, AppendWord
      <3>4. Silent(bus, lo, k) => Silent(Append(bus, e), lo, k)
        BY <1>t, <1>e, <2>0, <2>2, AppendSilent
      <3> QED
        BY <1>u, <1>6, <3>1, <3>2, <3>3, <3>4 DEF Agrees, lo
    <2> QED
      BY <2>1, <2>2
  <1>7. LastWord'
    BY <1>u, <1>c, <1>6 DEF EventInv, LastWord
  <1> QED
    BY <1>1, <1>2, <1>o, <1>5, <1>7 DEF EventInv

\* FLUSH is an event on no key.
LEMMA FlushShardStep ==
    ASSUME EventInv, NEW m \in mirror, FlushShard(m)
    PROVE  EventInv'
  <1> DEFINE e == [op |-> "flush", key |-> FlushKey]
  <1>t. EventTypes /\ Orderly /\ bus \in Seq(BusEvent)
    BY DEF EventInv, EventTypes
  <1>u. /\ UNCHANGED <<kind, mirror, present, changes, conn, view, excused>>
        /\ durable' = [durable EXCEPT ![m] = present] /\ bus' = Append(bus, e)
    BY DEF FlushShard
  <1>e. e \in BusEvent /\ e.key = FlushKey /\ e.op = "flush"
    BY DEF BusEvent
  <1> HIDE DEF e
  <1>b. /\ bus' \in Seq(BusEvent) /\ Len(bus') = Len(bus) + 1 /\ Len(bus) \in Nat
        /\ bus'[Len(bus) + 1] = e /\ \A i \in 1..Len(bus) : bus'[i] = bus[i]
    BY <1>t, <1>u, <1>e
  <1>1. EventTypes'
    <2>1. durable' \in [mirror -> SUBSET EventKeys]
      BY <1>t, <1>u DEF EventTypes
    <2> QED
      BY <1>t, <1>u, <1>b, <2>1 DEF EventTypes, Link
  <1>n. \A c \in Replicas : conn[c].next \in Nat /\ conn[c].next <= Len(bus)
    BY <1>t DEF EventTypes, EventInv, Links, LinkSound, Link
  <1>2. Links'
    <2>1. \A n \in Nat : n <= Len(bus) => n <= Len(bus')
      BY <1>b
    <2> QED
      BY <1>u, <1>n, <2>1 DEF EventInv, Links, LinkSound
  <1>o. \A c \in Replicas : Owned(c)'
    BY <1>u DEF EventInv, Owned, Holds, OnShard0
  <1>c. \A c \in Replicas : Certain(c)' = Certain(c)
    BY <1>u DEF Certain
  <1>3. \A c \in Replicas : \A r \in changes' : OrderlyChange(c, r)'
    BY <1>t, <1>u, <1>c DEF Orderly, OrderlyChange
  <1>4. ASSUME NEW c \in Replicas, NEW i \in DOMAIN bus' PROVE OrderlyEvent(c, bus[i])'
    <2>1. i = Len(bus) + 1 \/ (i \in 1..Len(bus) /\ i \in DOMAIN bus)
      BY <1>t, <1>b
    <2>2. CASE i = Len(bus) + 1
      BY <1>b, <1>e, <2>2 DEF OrderlyEvent
    <2>3. CASE i \in 1..Len(bus) /\ i \in DOMAIN bus
      <3>1. bus'[i] = bus[i] /\ OrderlyEvent(c, bus[i])
        BY <1>t, <1>b, <2>3 DEF Orderly
      <3> QED
        BY <1>c, <3>1 DEF OrderlyEvent
    <2> QED
      BY <2>1, <2>2, <2>3
  <1>5. Orderly'
    BY <1>3, <1>4 DEF Orderly
  <1>6. ASSUME NEW c \in Replicas, NEW k \in Certain(c), Agrees(c, k) PROVE Agrees(c, k)'
    <2> DEFINE lo == conn[c].next + 1
    <2>0. lo \in Nat /\ lo >= 1 /\ e.key # k
      BY <1>n, <1>b, <1>e, EventAssumption DEF Certain
    <2> HIDE DEF lo
    <2>1. Coming(k) => Coming(k)'
      BY <1>u DEF Coming
    <2>2. CaughtUp(c, k) => CaughtUp(c, k)'
      BY <1>u DEF CaughtUp, Due, Holds, OnShard0
    <2>3. Word(bus, lo, k, present) => Word(Append(bus, e), lo, k, present)
      BY <1>t, <1>e, <2>0, AppendWord
    <2>4. Silent(bus, lo, k) => Silent(Append(bus, e), lo, k)
      BY <1>t, <1>e, <2>0, AppendSilent
    <2> QED
      BY <1>u, <1>6, <2>1, <2>2, <2>3, <2>4 DEF Agrees, lo
  <1>7. LastWord'
    BY <1>u, <1>c, <1>6 DEF EventInv, LastWord
  <1> QED
    BY <1>1, <1>2, <1>o, <1>5, <1>7 DEF EventInv

\* The replica opens its shards before it knows anything.
LEMMA OpenStep ==
    ASSUME EventInv, NEW c \in Replicas, OpenShards(c)
    PROVE  EventInv'
  <1>t. EventTypes /\ conn[c] \in Link /\ LinkSound(conn[c], Len(bus)) /\ Owned(c)
        /\ conn[c].step = "unopened" /\ durable \in [mirror -> SUBSET EventKeys]
    BY DEF EventInv, EventTypes, Links, OpenShards, InStep
  <1>u. UNCHANGED <<kind, mirror, durable, present, changes, bus, view, excused>>
    BY DEF OpenShards, shardVars
  <1>1. PICK x \in [mirror -> SUBSET EventKeys] : conn' = [conn EXCEPT ![c].step = "away", ![c].index = x]
    <2>1. CASE kind = "raw"
      BY <1>t, <2>1 DEF OpenShards
    <2>2. CASE kind # "raw"
      <3>1. conn' = [conn EXCEPT ![c].step = "away", ![c].index = conn[c].index]
        BY <2>2 DEF OpenShards
      <3>2. conn[c].index \in [mirror -> SUBSET EventKeys]
        BY <1>t DEF Link
      <3> QED
        BY <3>1, <3>2
    <2> QED
      BY <2>1, <2>2
  <1>2. /\ conn' \in [Replicas -> Link] /\ \A d \in Replicas \ {c} : conn'[d] = conn[d]
        /\ conn'[c].step = "away" /\ conn'[c].next = conn[c].next /\ conn'[c].queue = conn[c].queue
        /\ conn'[c].scan = conn[c].scan /\ conn'[c].rebuild = conn[c].rebuild
        /\ conn'[c].head = conn[c].head /\ conn'[c].heard = conn[c].heard
    BY <1>t, <1>1 DEF EventTypes, Link
  <1>3. LinkSound(conn'[c], Len(bus)) /\ conn[c].head # "found"
    BY <1>t, <1>2 DEF LinkSound, Joining
  <1>4. Owned(c)'
    BY <1>t, <1>u, <1>2, <1>3 DEF Owned, Joining
  <1>5. /\ excused' \in [Replicas -> SUBSET EventKeys] /\ \A d \in Replicas : excused[d] \subseteq excused'[d]
        /\ view' \in [Replicas -> SUBSET EventKeys] /\ \A d \in Replicas : view'[d] = view[d]
        /\ conn'[c].step \notin Linked
    BY <1>t, <1>u, <1>2 DEF EventTypes, Linked
  <1> QED
    BY <1>u, <1>2, <1>3, <1>4, <1>5, LinkStep

\* No connection, no event.
LEMMA EventStart ==
    ASSUME EventInit
    PROVE  EventInv
  <1>1. <<>> \in Seq(Event) /\ Len(<<>>) = 0 /\ DOMAIN <<>> = {}
    OBVIOUS
  <1>2. Unopened \in Link
    BY <1>1 DEF Unopened, Link
  <1>m. 0 \in mirror /\ durable \in [mirror -> SUBSET EventKeys]
    BY EventAssumption DEF EventInit
  <1>3. EventTypes
    BY <1>1, <1>2, <1>m DEF EventInit, EventTypes, Change
  <1>4. \A c \in Replicas : conn[c].step = "unopened" /\ conn[c].next = 0 /\ conn[c].queue = <<>>
                            /\ conn[c].rebuild = (IF mirror = {0} THEN "done" ELSE "todo") /\ conn[c].head = "none"
                            /\ conn[c].scan = {} /\ conn[c].heard = {} /\ view[c] = {}
    BY DEF EventInit, Unopened
  <1>5. Links
    BY <1>1, <1>4 DEF EventInit, Links, LinkSound
  <1>6. Orderly
    BY <1>1 DEF EventInit, Orderly
  <1>7. LastWord
    BY <1>4 DEF LastWord, Linked
  <1>8. \A c \in Replicas : Owned(c)
    BY <1>4 DEF Owned
  <1> QED
    BY <1>3, <1>5, <1>6, <1>7, <1>8 DEF EventInv

\* Writer, bus, socket and replicas keep the invariant, for any number of
\* replicas, keys, operations and faults and any capacity of the channel.
THEOREM EventInvariance == EventSpec => []EventInv
  <1>1. EventInit => EventInv
    BY EventStart
  <1>2. EventInv /\ [EventNext]_eventVars => EventInv'
    <2> SUFFICES ASSUME EventInv, [EventNext]_eventVars PROVE EventInv'
      OBVIOUS
    <2>1. ASSUME NEW x \in Ops, BeginChange(x[1], x[2]) PROVE EventInv'
      <3>1. x[1] \in EventKeys /\ x[2] \in {"put", "delete", "copy_if_not_exists"}
        BY EventAssumption
      <3> QED
        BY <2>1, <3>1, BeginStep
    <2>2. ASSUME NEW q \in changes, WriteShards(q) PROVE EventInv'
      BY <2>2, ShardsWritten
    <2>3. ASSUME NEW q \in changes, Emit(q) PROVE EventInv'
      BY <2>3, EmitStep
    <2>4. ASSUME NEW c \in Replicas, Accept(c) \/ Refuse(c) \/ Authenticate(c) \/ SendOk(c) \/ ClientDies(c)
          PROVE  EventInv'
      BY <2>4, ConnectionStep
    <2>5. ASSUME NEW c \in Replicas, Relay(c) PROVE EventInv'
      BY <2>5, RelayStep
    <2>6. ASSUME NEW c \in Replicas, Lag(c) PROVE EventInv'
      BY <2>6, LagStep
    <2>7. ASSUME NEW c \in Replicas, Scan(c) \/ Replace(c) PROVE EventInv'
      BY <2>7, ScanStep
    <2>8. ASSUME NEW c \in Replicas, HeadObject(c) \/ ApplyPut(c) \/ ApplyDelete(c) PROVE EventInv'
      BY <2>8, QueueStep
    <2>10. ASSUME NEW m \in mirror, FlushShard(m) PROVE EventInv'
      BY <2>10, FlushShardStep
    <2>11. ASSUME NEW c \in Replicas, OpenShards(c) PROVE EventInv'
      BY <2>11, OpenStep
    <2>9. CASE UNCHANGED eventVars
      BY <2>9 DEF eventVars, shardVars, Link, Owned, Holds, OnShard0, Due, EventInv, EventTypes, Links, Orderly, OrderlyChange, OrderlyEvent, Certain,
                  LastWord, Agrees, Coming, CaughtUp
    <2> QED
      BY <2>1, <2>2, <2>3, <2>4, <2>5, <2>6, <2>7, <2>8, <2>9, <2>10, <2>11 DEF EventNext
  <1> QED
    BY <1>1, <1>2, PTL DEF EventSpec

\* A replica that has handled every event has in its catalog what its shards let
\* it know, shared with the writer or its own, one or several, for every key whose
\* operations did not overlap, whose name survives the trim of parse_event, whose
\* events were not dropped, whose HEAD did not fail, whose events did not fall
\* into the rebuild at start-up and which shard 0 had if another shard did
\* (subscribe_streaming_replica).
THEOREM ReplicasFollow == EventSpec => []ReplicaConverges
  <1>1. EventInv => ReplicaConverges
    <2> SUFFICES ASSUME EventInv, NEW c \in Replicas, UpToDate(c), NEW k \in EventKeys \ excused[c],
                        k \in Holds(c) => k \in OnShard0(c)
                 PROVE  k \in view[c] <=> Due(c, k)
      BY DEF ReplicaConverges
    <2>0. Runs(c) /\ conn[c].rebuild = "done" /\ conn[c].queue = <<>> /\ conn[c].next = Len(bus) /\ changes = {}
      BY DEF UpToDate
    <2>1. Agrees(c, k)
      BY <2>0 DEF EventInv, LastWord, Linked, Runs, InStep, Certain
    <2>2. Len(bus) \in Nat
      BY DEF EventInv, EventTypes
    <2>3. ~ Coming(k) /\ ~ Word(bus, Len(bus) + 1, k, present) /\ ~ Word(<<>>, 1, k, present)
      BY <2>0, <2>2 DEF Coming, Word
    <2> QED
      BY <2>0, <2>1, <2>3 DEF Agrees, CaughtUp
  <1> QED
    BY <1>1, EventInvariance, PTL

-----------------------------------------------------------------------------
(* The encoding of metadata.                                                *)

\* The bytes of a field.
Coded(f) ==
    IF f \in Known /\ Lookup(f, headers[f]) # {} THEN Looked(f, headers[f])
    ELSE IF f \in Known THEN <<Tag[f]>> \o Counted(headers[f])
    ELSE <<LookupBit>> \o Counted(Suffix[f]) \o Counted(headers[f])

\* The fields to encode.
Encoded == DOMAIN headers \cap (Known \cup Custom)

\* The fields whose lengths have room in two bytes.
Fitting ==
    {f \in Encoded : (f \in Known /\ Lookup(f, headers[f]) # {}) \/ ~ TooLong(f, headers[f])}

HeadersOK ==
    /\ DOMAIN headers \subseteq FieldNames /\ \A f \in DOMAIN headers : headers[f] \in Seq(Nat)

\* Where the entries of the bytes b begin, and the field of each.
Marks(b, left, M, G) ==
    /\ b \in Seq(Nat) /\ M \subseteq 0..Len(b) /\ 0 \in M /\ Len(b) \in M
    /\ G \in [M \ {Len(b)} -> Fitting]
    /\ \A p \in M \ {Len(b)} :
          /\ p + Len(Coded(G[p])) \in M
          /\ \A i \in 1..Len(Coded(G[p])) : b[p + i] = Coded(G[p])[i]
          /\ \A q \in M : p < q => p + Len(Coded(G[p])) <= q
    /\ \A f \in Encoded : f \in left \/ \E p \in M \ {Len(b)} : G[p] = f

\* What the decoder has read are the fields of the entries before its place.
Decoding(M, G) ==
    /\ decoder = [data |-> decoder.data, pos |-> decoder.pos, map |-> decoder.map, on |-> decoder.on]
    /\ decoder.map = [f \in DOMAIN decoder.map |-> headers[f]] /\ DOMAIN decoder.map \subseteq Encoded
    /\ decoder.on => /\ encoder.left = {}
                     /\ \E n \in 0..Len(encoder.bytes) :
                           decoder.data = SubSeq(encoder.bytes, 1, n) /\ decoder.pos \in M /\ decoder.pos <= n
                     /\ \A p \in M : p < decoder.pos => G[p] \in DOMAIN decoder.map

TlvInv ==
    /\ HeadersOK
    /\ encoder = [left |-> encoder.left, bytes |-> encoder.bytes, ok |-> encoder.ok]
    /\ encoder.left \subseteq DOMAIN headers
    /\ \E M, G : Marks(encoder.bytes, encoder.left, M, G) /\ Decoding(M, G)

\* A byte in front of others.
LEMMA Prefixed ==
    ASSUME NEW h \in Nat, NEW c \in Seq(Nat)
    PROVE  /\ <<h>> \o c \in Seq(Nat) /\ Len(<<h>> \o c) = Len(c) + 1
           /\ (<<h>> \o c)[1] = h /\ \A i \in 1..Len(c) : (<<h>> \o c)[i + 1] = c[i]
  <1> DEFINE l == <<h>>
             z == l \o c
  <1>1. l \in Seq(Nat) /\ Len(l) = 1 /\ l[1] = h /\ Len(c) \in Nat
    OBVIOUS
  <1> HIDE DEF l
  <1>2. z \in Seq(Nat) /\ Len(z) = Len(l) + Len(c)
    BY <1>1, ConcatProperties, Zenon
  <1>3. \A i \in 1..(Len(l) + Len(c)) : z[i] = IF i <= Len(l) THEN l[i] ELSE c[i - Len(l)]
    BY <1>1, ConcatProperties, Zenon
  <1> HIDE DEF z
  <1>4. z[1] = h
    BY <1>1, <1>3
  <1>5. ASSUME NEW i \in 1..Len(c) PROVE z[i + 1] = c[i]
    <2>1. i + 1 \in 1..(1 + Len(c)) /\ ~ (i + 1 <= 1) /\ (i + 1) - 1 = i
      BY <1>1
    <2> QED
      BY <1>1, <1>3, <2>1
  <1>6. Len(z) = Len(c) + 1
    BY <1>1, <1>2
  <1> QED
    BY <1>2, <1>4, <1>5, <1>6 DEF z, l

\* A length in two bytes, and the value behind it.
LEMMA CountedIs ==
    ASSUME NEW v \in Seq(Nat)
    PROVE  /\ Counted(v) \in Seq(Nat) /\ Len(Counted(v)) = Len(v) + 2
           /\ Len(v) <= MaxFieldLen => Counted(v)[1] + ByteSize * Counted(v)[2] = Len(v)
           /\ \A i \in 1..Len(v) : Counted(v)[i + 2] = v[i]
  <1> DEFINE n == Len(v)
             x == (n % ByteSize)
             k == n \div ByteSize
             y == (k % ByteSize)
             l == <<x, y>>
             c == l \o v
  <1>1. ByteSize \in Nat \ {0} /\ n \in Nat
    BY TlvAssumption DEF ByteSize
  <1>2. k \in Nat /\ x \in 0..(ByteSize - 1) /\ n = k * ByteSize + x
    BY <1>1, Quotient
  <1>3. x \in Nat /\ y \in Nat
    <2> HIDE DEF k
    <2>1. y \in 0..(ByteSize - 1)
      BY <1>1, <1>2, Quotient
    <2> QED
      BY <1>1, <1>2, <2>1
  <1>4. c = Counted(v)
    BY DEF Counted, Length
  <1> HIDE DEF x, k
  <1>5. n <= MaxFieldLen => x + ByteSize * y = n
    <2>1. ASSUME n <= MaxFieldLen PROVE k < ByteSize
      <3>1. n < ByteSize * ByteSize /\ ByteSize * ByteSize \in Nat
        BY <1>1, <2>1, TlvAssumption DEF ByteSize
      <3>2. k >= ByteSize => k * ByteSize >= ByteSize * ByteSize
        BY <1>1, <1>2
      <3>3. k * ByteSize \in Nat /\ k * ByteSize <= n
        BY <1>1, <1>2, <1>3
      <3> QED
        BY <1>1, <1>2, <3>1, <3>2, <3>3
    <2>2. ASSUME k < ByteSize PROVE y = k
      BY <1>1, <1>2, <2>2
    <2>3. x + ByteSize * k = n
      BY <1>1, <1>2, <1>3
    <2> HIDE DEF y
    <2> QED
      BY <2>1, <2>2, <2>3
  <1> HIDE DEF y
  <1>6. l \in Seq(Nat) /\ Len(l) = 2 /\ l[1] = x /\ l[2] = y
    BY <1>3
  <1> HIDE DEF l
  <1>7. c \in Seq(Nat) /\ Len(c) = Len(l) + Len(v)
    BY <1>6, ConcatProperties, Zenon
  <1>8. \A i \in 1..(Len(l) + Len(v)) : c[i] = IF i <= Len(l) THEN l[i] ELSE v[i - Len(l)]
    BY <1>6, ConcatProperties, Zenon
  <1> HIDE DEF c
  <1>9. c[1] = x /\ c[2] = y /\ Len(c) = n + 2
    BY <1>1, <1>6, <1>7, <1>8
  <1>10. ASSUME NEW i \in 1..Len(v) PROVE c[i + 2] = v[i]
    <2>1. i + 2 \in 1..(2 + Len(v)) /\ ~ (i + 2 <= 2) /\ (i + 2) - 2 = i
      BY <1>1
    <2> QED
      BY <1>6, <1>8, <2>1
  <1> QED
    BY <1>4, <1>5, <1>7, <1>9, <1>10

\* A counted value is read back where it is, and not at all where it is cut off.
LEMMA CountedBack ==
    ASSUME NEW d \in Seq(Nat), NEW p \in Nat, NEW v \in Seq(Nat), Len(v) <= MaxFieldLen,
           \A i \in 1..Len(Counted(v)) : p + i <= Len(d) => d[p + i] = Counted(v)[i]
    PROVE  CountedAt(d, p) = IF p + 2 + Len(v) <= Len(d) THEN [value |-> v, next |-> p + 2 + Len(v)] ELSE NoValue
  <1> DEFINE c == Counted(v)
             n == Len(v)
             m == Len(d)
             k == d[p + 1] + ByteSize * d[p + 2]
  <1>1. /\ Len(c) = n + 2 /\ c[1] + ByteSize * c[2] = n /\ \A i \in 1..n : c[i + 2] = v[i]
        /\ n \in Nat /\ m \in Nat
    <2>1. n \in Nat /\ m \in Nat
      OBVIOUS
    <2>2. Len(c) = n + 2 /\ c[1] + ByteSize * c[2] = n /\ \A i \in 1..n : c[i + 2] = v[i]
      BY CountedIs, Zenon
    <2> QED
      BY <2>1, <2>2
  <1>2. \A i \in 1..(n + 2) : p + i <= m => d[p + i] = c[i]
    BY <1>1
  <1> HIDE DEF c
  <1>3. CASE p + 2 > m
    <2>1. ~ (p + 2 + n <= m)
      BY <1>1, <1>3
    <2>2. CountedAt(d, p) = NoValue
      BY <1>3 DEF CountedAt
    <2> QED
      BY <2>1, <2>2
  <1>4. CASE ~ (p + 2 > m)
    <2>1. 1 \in 1..(n + 2) /\ 2 \in 1..(n + 2) /\ p + 1 <= m /\ p + 2 <= m
      BY <1>1, <1>4
    <2>2. d[p + 1] = c[1] /\ d[p + 2] = c[2]
      BY <1>2, <2>1
    <2>3. k = n
      BY <1>1, <2>2
    <2>4. CountedAt(d, p) = IF p + 2 + k > m THEN NoValue
                            ELSE [value |-> SubSeq(d, p + 3, p + 2 + k), next |-> p + 2 + k]
      BY <1>4 DEF CountedAt
    <2> HIDE DEF k
    <2>5. CASE p + 2 + n > m
      <3>1. ~ (p + 2 + n <= m)
        BY <1>1, <2>5
      <3> QED
        BY <2>3, <2>4, <2>5, <3>1
    <2>6. CASE ~ (p + 2 + n > m)
      <3> DEFINE s == SubSeq(d, p + 3, p + 2 + n)
      <3>1. p + 3 \in 1..(m + 1) /\ p + 2 + n \in ((p + 3) - 1)..m /\ (p + 2 + n) - (p + 3) + 1 = n /\ p + 2 + n <= m
        BY <1>1, <2>6
      <3>2. /\ s \in Seq(Nat) /\ Len(s) = (p + 2 + n) - (p + 3) + 1
            /\ \A i \in 1..((p + 2 + n) - (p + 3) + 1) : s[i] = d[(p + 3) + i - 1]
        <4> DEFINE x == p + 3
                   y == p + 2 + n
        <4>1. x \in 1..(m + 1) /\ y \in (x - 1)..m
          BY <3>1
        <4> HIDE DEF x, y
        <4>2. /\ SubSeq(d, x, y) \in Seq(Nat) /\ Len(SubSeq(d, x, y)) = y - x + 1
              /\ \A i \in 1..(y - x + 1) : SubSeq(d, x, y)[i] = d[x + i - 1]
          BY <4>1, PieceIs
        <4> QED
          BY <4>2 DEF x, y
      <3> HIDE DEF s
      <3>3. ASSUME NEW i \in 1..n PROVE s[i] = v[i]
        <4>1. (p + 3) + i - 1 = p + (i + 2) /\ i + 2 \in 1..(n + 2) /\ p + (i + 2) <= m
          BY <1>1, <3>1
        <4>2. s[i] = d[p + (i + 2)]
          BY <3>1, <3>2, <4>1
        <4> QED
          BY <1>1, <1>2, <4>1, <4>2
      <3>4. s = v
        BY <3>1, <3>2, <3>3, SameCells
      <3> QED
        BY <2>3, <2>4, <2>6, <3>1, <3>4 DEF s
    <2> QED
      BY <2>5, <2>6
  <1> QED
    BY <1>3, <1>4

\* The bytes of a custom field: its suffix and its value.
LEMMA CustomIs ==
    ASSUME NEW s \in Seq(Nat), NEW v \in Seq(Nat)
    PROVE  LET z == <<LookupBit>> \o Counted(s) \o Counted(v)
           IN  /\ z \in Seq(Nat) /\ Len(z) = Len(s) + Len(v) + 5 /\ z[1] = LookupBit
               /\ \A i \in 1..Len(Counted(s)) : z[1 + i] = Counted(s)[i]
               /\ \A i \in 1..Len(Counted(v)) : z[Len(s) + 3 + i] = Counted(v)[i]
  <1> DEFINE c == Counted(s)
             e == Counted(v)
             a == <<LookupBit>> \o c
             z == a \o e
  <1>1. /\ c \in Seq(Nat) /\ Len(c) = Len(s) + 2 /\ e \in Seq(Nat) /\ Len(e) = Len(v) + 2
        /\ Len(s) \in Nat /\ Len(v) \in Nat
    <2>1. Len(s) \in Nat /\ Len(v) \in Nat
      OBVIOUS
    <2>2. c \in Seq(Nat) /\ Len(c) = Len(s) + 2 /\ e \in Seq(Nat) /\ Len(e) = Len(v) + 2
      BY CountedIs, Zenon
    <2> QED
      BY <2>1, <2>2
  <1> HIDE DEF c, e
  <1>2. /\ a \in Seq(Nat) /\ Len(a) = Len(c) + 1 /\ a[1] = LookupBit /\ \A i \in 1..Len(c) : a[i + 1] = c[i]
    BY <1>1, TlvAssumption, Prefixed
  <1> HIDE DEF a
  <1>3. z \in Seq(Nat) /\ Len(z) = Len(a) + Len(e)
    BY <1>1, <1>2, ConcatProperties, Zenon
  <1>4. \A i \in 1..(Len(a) + Len(e)) : z[i] = IF i <= Len(a) THEN a[i] ELSE e[i - Len(a)]
    BY <1>1, <1>2, ConcatProperties, Zenon
  <1> HIDE DEF z
  <1>5. Len(a) = Len(s) + 3 /\ Len(z) = Len(s) + Len(v) + 5
    BY <1>1, <1>2, <1>3
  <1>6. z[1] = LookupBit
    <2>1. 1 \in 1..(Len(a) + Len(e)) /\ 1 <= Len(a)
      BY <1>1, <1>5
    <2> QED
      BY <1>2, <1>4, <2>1
  <1>7. ASSUME NEW i \in 1..Len(c) PROVE z[1 + i] = c[i]
    <2>1. 1 + i \in 1..(Len(a) + Len(e)) /\ 1 + i <= Len(a) /\ 1 + i = i + 1
      BY <1>1, <1>2
    <2> QED
      BY <1>2, <1>4, <2>1
  <1>8. ASSUME NEW i \in 1..Len(e) PROVE z[Len(s) + 3 + i] = e[i]
    <2>1. /\ Len(s) + 3 + i \in 1..(Len(a) + Len(e)) /\ ~ (Len(s) + 3 + i <= Len(a))
          /\ (Len(s) + 3 + i) - Len(a) = i
      BY <1>1, <1>5
    <2> QED
      BY <1>4, <2>1
  <1> QED
    BY <1>3, <1>5, <1>6, <1>7, <1>8 DEF z, a, c, e

\* The bytes of a field.
LEMMA CodedIs ==
    ASSUME HeadersOK, NEW f \in Encoded
    PROVE  Coded(f) \in Seq(Nat) /\ Len(Coded(f)) \in Nat /\ Len(Coded(f)) >= 2
  <1> DEFINE v == headers[f]
  <1>1. v \in Seq(Nat) /\ (f \in Known \/ f \in Custom)
    BY DEF HeadersOK, Encoded
  <1> HIDE DEF v
  <1>2. CASE f \in Known /\ Lookup(f, v) # {}
    <2> DEFINE j == CHOOSE i \in Lookup(f, v) : TRUE
               x == Tag[f] + LookupBit
               y == j - 1
    <2>1. j \in 1..Len(Table[f]) /\ Table[f] \in Seq(Seq(Nat))
      BY <1>2, TlvAssumption DEF Lookup
    <2>2. x \in Nat /\ y \in Nat
      BY <1>2, <2>1, TlvAssumption
    <2>3. Coded(f) = <<x, y>>
      BY <1>2 DEF Coded, Looked, v
    <2> HIDE DEF x, y
    <2>4. <<x, y>> \in Seq(Nat) /\ Len(<<x, y>>) = 2
      BY <2>2
    <2> QED
      BY <2>3, <2>4
  <1>3. CASE f \in Known /\ Lookup(f, v) = {}
    <2> DEFINE c == Counted(v)
               t == Tag[f]
    <2>1. Coded(f) = <<t>> \o c
      BY <1>3 DEF Coded, v
    <2>2. t \in Nat /\ c \in Seq(Nat) /\ Len(c) = Len(v) + 2 /\ Len(v) \in Nat
      <3>1. t \in 1..(LookupBit - 1) /\ LookupBit \in Nat /\ Len(v) \in Nat
        BY <1>1, <1>3, TlvAssumption
      <3>2. c \in Seq(Nat) /\ Len(c) = Len(v) + 2
        BY <1>1, CountedIs, Zenon
      <3> QED
        BY <3>1, <3>2
    <2> HIDE DEF c, t
    <2>3. <<t>> \o c \in Seq(Nat) /\ Len(<<t>> \o c) = Len(c) + 1
      BY <2>2, Prefixed
    <2> QED
      BY <2>1, <2>2, <2>3
  <1>4. CASE f \notin Known
    <2>1. f \in Custom /\ Suffix[f] \in Seq(Nat) /\ Len(Suffix[f]) \in Nat /\ Len(v) \in Nat
      BY <1>1, <1>4, TlvAssumption
    <2>2. Coded(f) = <<LookupBit>> \o Counted(Suffix[f]) \o Counted(v)
      BY <1>4 DEF Coded, v
    <2>3. Coded(f) \in Seq(Nat) /\ Len(Coded(f)) = Len(Suffix[f]) + Len(v) + 5
      <3> DEFINE s == Suffix[f]
                 z == <<LookupBit>> \o Counted(s) \o Counted(v)
      <3>1. s \in Seq(Nat)
        BY <2>1
      <3> HIDE DEF s
      <3>2. z \in Seq(Nat) /\ Len(z) = Len(s) + Len(v) + 5
        BY <1>1, <3>1, CustomIs
      <3> QED
        BY <2>2, <3>2 DEF s
    <2> QED
      BY <2>1, <2>3
  <1> QED
    BY <1>2, <1>3, <1>4

\* An entry is read back where it is, and not at all where it is cut off.
LEMMA EntryBack ==
    ASSUME HeadersOK, NEW f \in Fitting, NEW d \in Seq(Nat), NEW p \in Nat, p < Len(d),
           \A i \in 1..Len(Coded(f)) : p + i <= Len(d) => d[p + i] = Coded(f)[i]
    PROVE  IF p + Len(Coded(f)) <= Len(d)
           THEN /\ Entry(d, p).fields = {f} /\ Entry(d, p).value = headers[f]
                /\ Entry(d, p).next = p + Len(Coded(f))
           ELSE Entry(d, p).next = -1
  <1> DEFINE v == headers[f]
             z == Coded(f)
             m == Len(d)
             g == d[p + 1]
             e == Entry(d, p)
  <1>1. v \in Seq(Nat) /\ (f \in Known \/ f \in Custom) /\ Len(v) \in Nat /\ m \in Nat
    BY DEF HeadersOK, Encoded, Fitting
  <1>2. z \in Seq(Nat) /\ Len(z) \in Nat /\ Len(z) >= 2
    BY CodedIs DEF Fitting
  <1>9. (f \in Known /\ Lookup(f, v) # {}) \/ ~ TooLong(f, v)
    BY DEF Fitting
  <1>3. \A i \in 1..Len(z) : p + i <= m => d[p + i] = z[i]
    OBVIOUS
  <1>4. p + 1 <= m /\ 1 \in 1..Len(z) /\ 2 \in 1..Len(z) /\ LookupBit \in Nat \ {0}
    BY <1>1, <1>2, TlvAssumption
  <1>5. g = z[1]
    BY <1>3, <1>4
  <1> HIDE DEF v, z
  <1>6. CASE f \in Known /\ Lookup(f, v) # {}
    <2> DEFINE j == CHOOSE i \in Lookup(f, v) : TRUE
               T == Table[f]
               x == Tag[f] + LookupBit
               y == j - 1
    <2>1. j \in 1..Len(T) /\ T \in Seq(Seq(Nat)) /\ T[j] = v /\ Tag[f] \in 1..(LookupBit - 1)
      BY <1>6, TlvAssumption DEF Lookup
    <2>2. x \in Nat /\ y \in Nat /\ y + 1 = j /\ x - LookupBit = Tag[f] /\ x > LookupBit /\ x # LookupBit
      <3> DEFINE t == Tag[f]
      <3>1. t \in 1..(LookupBit - 1)
        BY <2>1
      <3> HIDE DEF t, j
      <3>2. x = t + LookupBit /\ j \in Nat /\ j >= 1
        BY <2>1 DEF t
      <3>3. x \in Nat /\ x - LookupBit = t /\ x > LookupBit /\ x # LookupBit
        BY <1>4, <3>1, <3>2
      <3> QED
        BY <3>2, <3>3 DEF t
    <2>3. z = <<x, y>>
      BY <1>6 DEF Coded, Looked, v, z
    <2> HIDE DEF x, y, j
    <2>4. Len(z) = 2 /\ z[1] = x /\ z[2] = y
      BY <2>3
    <2>5. CASE p + 1 >= m
      <3>1. e.next = -1
        BY <1>5, <2>2, <2>4, <2>5 DEF Entry
      <3>2. ~ (p + Len(z) <= m)
        BY <1>1, <2>4, <2>5
      <3> QED
        BY <3>1, <3>2 DEF z
    <2>6. CASE ~ (p + 1 >= m)
      <3>1. p + 2 <= m
        BY <1>1, <2>6
      <3>2. d[p + 2] = y
        BY <1>3, <1>4, <2>4, <3>1
      <3> DEFINE F == {h \in Known : Tag[h] = g - LookupBit /\ d[p + 2] + 1 <= Len(Table[h])}
      <3>3. F = {f}
        <4>1. \A h \in Known : Tag[h] = g - LookupBit <=> h = f
          BY <1>5, <1>6, <2>2, <2>4, TlvAssumption
        <4>2. d[p + 2] + 1 <= Len(T)
          BY <2>1, <2>2, <3>2
        <4> QED
          BY <1>6, <4>1, <4>2
      <3>4. e = [fields |-> F, value |-> IF F = {} THEN <<>> ELSE Table[CHOOSE h \in F : TRUE][d[p + 2] + 1], next |-> p + 2]
        BY <1>5, <2>2, <2>4, <2>6 DEF Entry
      <3> HIDE DEF F, e
      <3>5. F # {} /\ (CHOOSE h \in F : TRUE) = f
        BY <3>3
      <3>6. e.fields = {f} /\ e.value = T[j] /\ e.next = p + 2
        BY <2>2, <3>2, <3>3, <3>4, <3>5
      <3> QED
        BY <2>1, <2>4, <3>1, <3>6 DEF z, e, v
    <2> QED
      BY <2>5, <2>6
  <1>7. CASE f \in Known /\ Lookup(f, v) = {}
    <2> DEFINE c == Counted(v)
               t == Tag[f]
               q == p + 1
               w == CountedAt(d, q)
    <2>1. z = <<t>> \o c
      BY <1>7 DEF Coded, v, z
    <2>2. /\ t \in Nat /\ c \in Seq(Nat) /\ Len(c) = Len(v) + 2 /\ t \in 1..(LookupBit - 1)
          /\ \A h \in Known : Tag[h] = t <=> h = f
      <3>1. t \in 1..(LookupBit - 1) /\ \A h \in Known : Tag[h] = t <=> h = f
        BY <1>7, TlvAssumption
      <3>2. c \in Seq(Nat) /\ Len(c) = Len(v) + 2
        BY <1>1, CountedIs, Zenon
      <3>3. t \in Nat
        BY <1>4, <3>1
      <3> QED
        BY <3>1, <3>2, <3>3
    <2> HIDE DEF c, t
    <2>3. t # LookupBit /\ ~ (t > LookupBit)
      <3>1. t \in 1..(LookupBit - 1) /\ LookupBit \in Nat
        BY <1>4, <2>2, Zenon
      <3> QED
        BY <3>1
    <2>4. Len(z) = Len(c) + 1 /\ z[1] = t /\ \A i \in 1..Len(c) : z[i + 1] = c[i]
      BY <2>1, <2>2, Prefixed
    <2>5. e = [fields |-> {h \in Known : Tag[h] = g}, value |-> w.value, next |-> w.next]
      BY <1>5, <2>3, <2>4 DEF Entry
    <2>6. {h \in Known : Tag[h] = g} = {f}
      BY <1>5, <1>7, <2>2, <2>4
    <2>7. ASSUME NEW i \in 1..Len(c), q + i <= m PROVE d[q + i] = c[i]
      <3>1. q + i = p + (i + 1) /\ i + 1 \in 1..Len(z) /\ p + (i + 1) <= m
        BY <1>1, <2>2, <2>4, <2>7
      <3> QED
        BY <1>3, <2>4, <3>1
    <2>8. q \in Nat /\ Len(v) <= MaxFieldLen
      BY <1>1, <1>7, <1>9, TlvAssumption DEF TooLong
    <2> HIDE DEF q
    <2>9. w = IF q + 2 + Len(v) <= m THEN [value |-> v, next |-> q + 2 + Len(v)] ELSE NoValue
      BY <1>1, <2>7, <2>8, CountedBack DEF c
    <2>10. q + 2 + Len(v) = p + Len(z)
      BY <1>1, <2>2, <2>4 DEF q
    <2> HIDE DEF w, e
    <2>11. e.fields = {f} /\ e.value = w.value /\ e.next = w.next
      BY <2>5, <2>6
    <2>12. CASE q + 2 + Len(v) <= m
      <3>1. w.value = v /\ w.next = q + 2 + Len(v)
        BY <2>9, <2>12
      <3> QED
        BY <2>10, <2>11, <2>12, <3>1 DEF e, z, v
    <2>13. CASE ~ (q + 2 + Len(v) <= m)
      <3>1. w.next = -1
        BY <2>9, <2>13 DEF NoValue
      <3> QED
        BY <2>10, <2>11, <2>13, <3>1 DEF e, z, v
    <2> QED
      BY <2>12, <2>13
  <1>8. CASE f \notin Known
    <2> DEFINE S == Suffix[f]
               c == Counted(S)
               b == Counted(v)
               q == p + 1
               s == CountedAt(d, q)
               r == q + 2 + Len(S)
               w == IF s = NoValue THEN NoValue ELSE CountedAt(d, s.next)
    <2>1. f \in Custom /\ S \in Seq(Nat) /\ Len(S) \in Nat /\ \A h \in Custom : Suffix[h] = S <=> h = f
      BY <1>1, <1>8, TlvAssumption
    <2>2. z = <<LookupBit>> \o c \o b
      BY <1>8 DEF Coded, v, z
    <2>3. /\ Len(z) = Len(S) + Len(v) + 5 /\ z[1] = LookupBit
          /\ \A i \in 1..Len(c) : z[1 + i] = c[i]
          /\ \A i \in 1..Len(b) : z[Len(S) + 3 + i] = b[i]
      <3>1. S \in Seq(Nat) /\ v \in Seq(Nat)
        BY <1>1, <2>1
      <3> HIDE DEF S
      <3>2. LET u == <<LookupBit>> \o Counted(S) \o Counted(v)
            IN  /\ Len(u) = Len(S) + Len(v) + 5 /\ u[1] = LookupBit
                /\ \A i \in 1..Len(Counted(S)) : u[1 + i] = Counted(S)[i]
                /\ \A i \in 1..Len(Counted(v)) : u[Len(S) + 3 + i] = Counted(v)[i]
        BY <3>1, CustomIs
      <3> QED
        BY <2>2, <3>2
    <2>4. Len(c) = Len(S) + 2 /\ Len(b) = Len(v) + 2
      BY <1>1, <2>1, CountedIs, Zenon
    <2>13. Len(S) <= MaxFieldLen /\ Len(v) <= MaxFieldLen
      <3>1. ~ (Len(v) > MaxFieldLen) /\ ~ (Len(S) > MaxFieldLen)
        BY <1>8, <1>9, <2>1 DEF TooLong
      <3> HIDE DEF S
      <3> QED
        BY <1>1, <2>1, <3>1, TlvAssumption
    <2>5. e = [fields |-> {h \in Custom : Suffix[h] = s.value}, value |-> w.value, next |-> w.next]
      BY <1>5, <2>3 DEF Entry
    <2> HIDE DEF c, b, S, e
    <2>6. ASSUME NEW i \in 1..Len(c), q + i <= m PROVE d[q + i] = c[i]
      <3>1. q + i = p + (1 + i) /\ 1 + i \in 1..Len(z) /\ p + (1 + i) <= m
        BY <1>1, <2>1, <2>3, <2>4, <2>6
      <3> QED
        BY <1>3, <2>3, <3>1
    <2>7. ASSUME NEW i \in 1..Len(b), r + i <= m PROVE d[r + i] = b[i]
      <3>1. r + i = p + (Len(S) + 3 + i) /\ Len(S) + 3 + i \in 1..Len(z) /\ p + (Len(S) + 3 + i) <= m
        BY <1>1, <2>1, <2>3, <2>4, <2>7
      <3> QED
        BY <1>3, <2>3, <3>1
    <2>8. q \in Nat /\ r \in Nat /\ r + 2 + Len(v) = p + Len(z)
      BY <1>1, <2>1, <2>3
    <2> HIDE DEF q
    <2>9. s = IF r <= m THEN [value |-> S, next |-> r] ELSE NoValue
      BY <2>1, <2>6, <2>8, <2>13, CountedBack DEF c
    <2> HIDE DEF r
    <2>10. CountedAt(d, r) = IF r + 2 + Len(v) <= m THEN [value |-> v, next |-> r + 2 + Len(v)] ELSE NoValue
      BY <1>1, <2>7, <2>8, <2>13, CountedBack DEF b
    <2> HIDE DEF s
    <2>11. CASE ~ (r <= m)
      <3>1. s = NoValue
        BY <2>9, <2>11
      <3>2. w = NoValue
        BY <3>1
      <3>3. NoValue.next = -1
        BY DEF NoValue
      <3>4. e.next = -1
        BY <2>5, <3>2, <3>3
      <3>5. ~ (p + Len(z) <= m)
        BY <1>1, <2>8, <2>11
      <3> QED
        BY <3>4, <3>5 DEF e, z
    <2>12. CASE r <= m
      <3>1. s = [value |-> S, next |-> r]
        BY <2>9, <2>12
      <3>2. s.value = S /\ s.next = r
        BY <3>1
      <3>3. s # NoValue
        <4>1. NoValue.next = -1
          BY DEF NoValue
        <4> QED
          BY <2>8, <3>2, <4>1
      <3>4. w = CountedAt(d, r)
        BY <3>2, <3>3
      <3>5. {h \in Custom : Suffix[h] = s.value} = {f}
        BY <2>1, <3>2
      <3> HIDE DEF w
      <3>6. e.fields = {f} /\ e.value = w.value /\ e.next = w.next
        BY <2>5, <3>5
      <3>7. CASE r + 2 + Len(v) <= m
        <4>1. w = [value |-> v, next |-> r + 2 + Len(v)]
          BY <2>10, <3>4, <3>7
        <4>2. w.value = v /\ w.next = r + 2 + Len(v)
          BY <4>1
        <4> QED
          BY <2>8, <3>6, <3>7, <4>2 DEF e, z, v
      <3>8. CASE ~ (r + 2 + Len(v) <= m)
        <4>1. w = NoValue
          BY <2>10, <3>4, <3>8
        <4>2. w.next = -1
          BY <4>1 DEF NoValue
        <4> QED
          BY <2>8, <3>6, <3>8, <4>2 DEF e, z, v
      <3> QED
        BY <3>7, <3>8
    <2> QED
      BY <2>11, <2>12
  <1> QED
    BY <1>6, <1>7, <1>8

\* The next of the sorted names is one of those that are left.
LEMMA NextFieldIs ==
    ASSUME NEW fs, fs \subseteq FieldNames, fs # {}
    PROVE  NextField(fs) \in fs
  <1> DEFINE I == {i \in 1..Len(FieldOrder) : FieldOrder[i] \in fs}
  <1>1. FieldOrder \in Seq(FieldNames) /\ Len(FieldOrder) \in Nat /\ DOMAIN FieldOrder = 1..Len(FieldOrder)
    BY TlvAssumption
  <1>2. I # {} /\ I \subseteq Nat
    <2>1. PICK f \in fs : f \in FieldNames
      OBVIOUS
    <2>2. PICK i \in DOMAIN FieldOrder : FieldOrder[i] = f
      BY <2>1 DEF FieldNames, Range
    <2> QED
      BY <1>1, <2>1, <2>2
  <1>3. PICK i \in I : \A j \in I : i <= j
    BY <1>2, LeastNat
  <1>4. \A j \in 1..(i - 1) : FieldOrder[j] \notin fs
    BY <1>1, <1>3
  <1> QED
    BY <1>3, <1>4 DEF NextField

\* A step that leaves the metadata alone does not change what a field is encoded
\* as.
LEMMA SameCoding ==
    ASSUME headers' = headers
    PROVE  /\ HeadersOK => HeadersOK'
           /\ \A b, left, M, G : Marks(b, left, M, G) => Marks(b, left, M, G)'
  <1>1. Encoded' = Encoded /\ Fitting' = Fitting /\ \A f : Coded(f)' = Coded(f)
    BY DEF Encoded, Fitting, Coded, Lookup, Looked
  <1> QED
    BY <1>1 DEF HeadersOK, Marks

\* The entry of one more field.
LEMMA OneMore ==
    ASSUME HeadersOK, NEW b, NEW left, NEW M, NEW G, Marks(b, left, M, G), NEW f \in Fitting
    PROVE  LET c == b \o Coded(f)
           IN  \E K, H : /\ Marks(c, left \ {f}, K, H) /\ M \subseteq K
                         /\ \A p \in M \ {Len(b)} : H[p] = G[p]
  <1> DEFINE z == Coded(f)
             c == b \o z
             m == Len(b)
             n == Len(c)
             K == M \cup {n}
             H == [p \in M |-> IF p = m THEN f ELSE G[p]]
  <1>1. z \in Seq(Nat) /\ Len(z) \in Nat /\ Len(z) >= 2
    BY CodedIs DEF Fitting
  <1>2. b \in Seq(Nat) /\ M \subseteq 0..m /\ 0 \in M /\ m \in M /\ m \in Nat /\ G \in [M \ {m} -> Fitting]
    BY DEF Marks
  <1>3. /\ \A p \in M \ {m} :
             /\ p + Len(Coded(G[p])) \in M
             /\ \A i \in 1..Len(Coded(G[p])) : b[p + i] = Coded(G[p])[i]
             /\ \A q \in M : p < q => p + Len(Coded(G[p])) <= q
        /\ \A g \in Encoded : g \in left \/ \E p \in M \ {m} : G[p] = g
    BY DEF Marks
  <1> HIDE DEF z
  <1>4. c \in Seq(Nat) /\ n = m + Len(z)
    <2>1. b \in Seq(Nat) /\ z \in Seq(Nat)
      BY <1>1, <1>2
    <2> QED
      BY <2>1, ConcatProperties, ZenonT(40)
  <1>5. \A i \in 1..(m + Len(z)) : c[i] = IF i <= m THEN b[i] ELSE z[i - m]
    BY <1>1, <1>2, ConcatProperties, Zenon
  <1> HIDE DEF c, n, m
  <1>6. n \in Nat /\ m < n /\ n \notin M /\ K \ {n} = M
    BY <1>1, <1>2, <1>4
  <1>7. K \subseteq 0..n /\ 0 \in K /\ n \in K
    BY <1>2, <1>6
  <1>8. H \in [M -> Fitting] /\ H[m] = f /\ \A p \in M \ {m} : H[p] = G[p]
    BY <1>2
  <1> HIDE DEF H
  <1>9. ASSUME NEW p \in M
        PROVE  /\ p + Len(Coded(H[p])) \in K
               /\ \A i \in 1..Len(Coded(H[p])) : c[p + i] = Coded(H[p])[i]
               /\ \A q \in K : p < q => p + Len(Coded(H[p])) <= q
    <2>1. CASE p = m
      <3>1. Coded(H[p]) = z /\ p + Len(z) = n
        BY <1>4, <1>8, <2>1 DEF z
      <3>2. ASSUME NEW i \in 1..Len(z) PROVE c[p + i] = z[i]
        <4>1. m + i \in 1..(m + Len(z)) /\ ~ (m + i <= m) /\ (m + i) - m = i
          BY <1>1, <1>2
        <4> QED
          BY <1>5, <2>1, <4>1
      <3>3. ASSUME NEW q \in K, p < q PROVE p + Len(z) <= q
        <4>1. q = n
          BY <1>2, <2>1, <3>3
        <4> QED
          BY <1>6, <3>1, <4>1
      <3> QED
        BY <1>7, <3>1, <3>2, <3>3
    <2>2. CASE p # m
      <3> DEFINE y == Coded(G[p])
      <3>1. p \in M \ {m} /\ H[p] = G[p] /\ p \in Nat /\ G[p] \in Fitting
        BY <1>2, <1>8, <2>2
      <3>2. /\ p + Len(y) \in M /\ (\A i \in 1..Len(y) : b[p + i] = y[i])
            /\ \A q \in M : p < q => p + Len(y) <= q
        BY <1>3, <3>1
      <3>3. Len(y) \in Nat
        BY <3>1, CodedIs DEF Fitting
      <3>4. Coded(H[p]) = y
        BY <3>1
      <3> HIDE DEF y
      <3>5. p + Len(y) <= m
        BY <1>2, <3>2
      <3>6. ASSUME NEW i \in 1..Len(y) PROVE c[p + i] = y[i]
        <4>1. p + i \in 1..(m + Len(z)) /\ p + i <= m
          BY <1>1, <1>2, <3>1, <3>3, <3>5
        <4> QED
          BY <1>5, <3>2, <4>1
      <3>7. ASSUME NEW q \in K, p < q PROVE p + Len(y) <= q
        <4>1. CASE q \in M
          BY <3>2, <3>7, <4>1
        <4>2. CASE q = n
          BY <1>2, <1>6, <3>1, <3>3, <3>5, <4>2
        <4> QED
          BY <4>1, <4>2
      <3> QED
        BY <3>2, <3>4, <3>6, <3>7
    <2> QED
      BY <2>1, <2>2
  <1>10. ASSUME NEW g \in Encoded PROVE g \in left \ {f} \/ \E p \in M : H[p] = g
    <2>1. CASE g = f
      BY <1>2, <1>8, <2>1
    <2>2. CASE g # f
      BY <1>3, <1>8, <2>2
    <2> QED
      BY <2>1, <2>2
  <1> HIDE DEF K
  <1>11. Marks(c, left \ {f}, K, H)
    BY <1>4, <1>6, <1>7, <1>8, <1>9, <1>10 DEF Marks, n
  <1>12. M \subseteq K
    BY DEF K
  <1> QED
    BY <1>8, <1>11, <1>12 DEF c, z, m

LEMMA TlvStart ==
    ASSUME TlvInit
    PROVE  TlvInv
  <1>1. PICK fs \in SUBSET FieldNames : \E hs \in [fs -> UNION {FieldValues[f] : f \in fs}] :
           headers = hs /\ \A f \in fs : hs[f] \in FieldValues[f]
    BY DEF TlvInit
  <1>2. DOMAIN headers = fs /\ \A f \in fs : headers[f] \in FieldValues[f]
    BY <1>1
  <1>3. HeadersOK
    BY <1>2, TlvAssumption DEF HeadersOK
  <1>4. /\ encoder = [left |-> DOMAIN headers, bytes |-> <<>>, ok |-> TRUE] /\ decoder = Idle
    BY DEF TlvInit
  <1>5. encoder.left = DOMAIN headers /\ encoder.bytes = <<>> /\ encoder.ok = TRUE
    BY <1>4
  <1>6. decoder.on = FALSE /\ decoder.map = <<>> /\ decoder.data = <<>> /\ decoder.pos = 0
    BY <1>4 DEF Idle
  <1> DEFINE M == {0}
             G == [p \in {} |-> 0]
  <1>7. Marks(encoder.bytes, encoder.left, M, G)
    <2>1. <<>> \in Seq(Nat) /\ Len(<<>>) = 0 /\ M \ {0} = {}
      OBVIOUS
    <2>2. G \in [{} -> Fitting]
      OBVIOUS
    <2>3. Encoded \subseteq encoder.left
      BY <1>5 DEF Encoded
    <2> HIDE DEF G
    <2>4. M \subseteq 0..0 /\ 0 \in M
      OBVIOUS
    <2> HIDE DEF M
    <2> QED
      BY <1>5, <2>1, <2>2, <2>3, <2>4 DEF Marks
  <1>8. Decoding(M, G)
    <2>1. <<>> = [f \in DOMAIN <<>> |-> headers[f]] /\ DOMAIN <<>> = {}
      OBVIOUS
    <2>2. decoder = [data |-> decoder.data, pos |-> decoder.pos, map |-> decoder.map, on |-> decoder.on]
      BY <1>4 DEF Idle
    <2> QED
      BY <1>6, <2>1, <2>2 DEF Decoding
  <1>9. encoder = [left |-> encoder.left, bytes |-> encoder.bytes, ok |-> encoder.ok]
    BY <1>4
  <1> HIDE DEF M, G
  <1> QED
    BY <1>3, <1>5, <1>7, <1>8, <1>9 DEF TlvInv

LEMMA EncodeStep ==
    ASSUME TlvInv, EncodeField
    PROVE  TlvInv'
  <1> DEFINE l == encoder.left
             b == encoder.bytes
             f == NextField(l)
             v == headers[f]
             c == b \o Coded(f)
  <1>1. /\ HeadersOK /\ encoder = [left |-> l, bytes |-> b, ok |-> encoder.ok] /\ l \subseteq DOMAIN headers
        /\ encoder.ok /\ l # {} /\ UNCHANGED <<headers, decoder>>
    BY DEF TlvInv, EncodeField
  <1>2. PICK M, G : Marks(b, l, M, G) /\ Decoding(M, G)
    BY DEF TlvInv
  <1>3. f \in l /\ f \in DOMAIN headers /\ f \in FieldNames
    BY <1>1, NextFieldIs DEF HeadersOK
  <1> HIDE DEF f
  <1>4. \/ f \notin Known \cup Custom /\ encoder' = [encoder EXCEPT !.left = l \ {f}]
        \/ encoder' = [encoder EXCEPT !.ok = FALSE]
        \/ f \in Fitting /\ encoder' = [encoder EXCEPT !.left = l \ {f}, !.bytes = c]
    <2> DEFINE t == f \in Known /\ Lookup(f, v) # {}
               y == IF f \in Known THEN <<Tag[f]>> \o Counted(v) ELSE <<LookupBit>> \o Counted(Suffix[f]) \o Counted(v)
    <2>1. encoder' =
             CASE f \in FieldNames \ (Known \cup Custom) -> [encoder EXCEPT !.left = @ \ {f}]
               [] f \in Known /\ t -> [encoder EXCEPT !.left = @ \ {f}, !.bytes = @ \o Looked(f, v)]
               [] ~ t /\ f \in Known \cup Custom /\ TooLong(f, v) -> [encoder EXCEPT !.ok = FALSE]
               [] OTHER -> [encoder EXCEPT !.left = @ \ {f}, !.bytes = @ \o y]
      BY DEF EncodeField, f
    <2>2. Coded(f) = IF t THEN Looked(f, v) ELSE y
      BY DEF Coded
    <2>3. f \in Known \cup Custom => (f \in Fitting <=> t \/ ~ TooLong(f, v))
      BY <1>3 DEF Encoded, Fitting
    <2> HIDE DEF y, v
    <2>4. CASE f \notin Known \cup Custom
      BY <1>3, <2>1, <2>4
    <2>5. CASE f \in Known \cup Custom /\ t
      BY <2>1, <2>2, <2>3, <2>5
    <2>6. CASE f \in Known \cup Custom /\ ~ t
      BY <2>1, <2>2, <2>3, <2>6
    <2> QED
      BY <2>4, <2>5, <2>6
  <1> DEFINE Goal == TlvInv'
  <1>5. ASSUME NEW M2, NEW G2, NEW l2, NEW b2, NEW o2, Marks(b2, l2, M2, G2), l2 \subseteq DOMAIN headers,
               encoder' = [left |-> l2, bytes |-> b2, ok |-> o2]
        PROVE  Goal
    <2>1. encoder'.left = l2 /\ encoder'.bytes = b2 /\ encoder'.ok = o2
      BY <1>5
    <2>2. HeadersOK' /\ Marks(b2, l2, M2, G2)'
      BY <1>1, <1>5, SameCoding
    <2>3. Marks(encoder.bytes, encoder.left, M2, G2)'
      BY <2>1, <2>2 DEF Marks
    <2>4. Decoding(M2, G2)'
      <3>1. ~ decoder.on
        BY <1>1, <1>2 DEF Decoding
      <3>2. /\ decoder = [data |-> decoder.data, pos |-> decoder.pos, map |-> decoder.map, on |-> decoder.on]
            /\ decoder.map = [g \in DOMAIN decoder.map |-> headers[g]] /\ DOMAIN decoder.map \subseteq Encoded
        BY <1>2 DEF Decoding
      <3>3. Encoded' = Encoded
        BY <1>1 DEF Encoded
      <3> QED
        BY <1>1, <3>1, <3>2, <3>3 DEF Decoding
    <2>5. /\ encoder' = [left |-> encoder'.left, bytes |-> encoder'.bytes, ok |-> encoder'.ok]
          /\ encoder'.left \subseteq DOMAIN headers'
      BY <1>1, <1>5, <2>1
    <2> QED
      BY <2>2, <2>3, <2>4, <2>5 DEF TlvInv
  <1> SUFFICES Goal
    OBVIOUS
  <1> HIDE DEF Goal, l, b
  <1>6. CASE f \notin Known \cup Custom /\ encoder' = [encoder EXCEPT !.left = l \ {f}]
    <2>1. encoder' = [left |-> l \ {f}, bytes |-> b, ok |-> encoder.ok]
      <3>1. PICK o : encoder = [left |-> l, bytes |-> b, ok |-> o] /\ o = encoder.ok
        BY <1>1
      <3> QED
        BY <1>6, <3>1
    <2>2. Marks(b, l \ {f}, M, G)
      BY <1>2, <1>6 DEF Marks, Encoded
    <2> QED
      BY <1>1, <1>5, <2>1, <2>2
  <1>7. CASE encoder' = [encoder EXCEPT !.ok = FALSE]
    <2>1. encoder' = [left |-> l, bytes |-> b, ok |-> FALSE]
      <3>1. PICK o : encoder = [left |-> l, bytes |-> b, ok |-> o]
        BY <1>1
      <3> QED
        BY <1>7, <3>1
    <2> QED
      BY <1>1, <1>2, <1>5, <2>1
  <1>8. CASE f \in Fitting /\ encoder' = [encoder EXCEPT !.left = l \ {f}, !.bytes = c]
    <2>1. encoder' = [left |-> l \ {f}, bytes |-> c, ok |-> encoder.ok]
      BY <1>1, <1>8
    <2>2. PICK K, H : Marks(c, l \ {f}, K, H)
      BY <1>1, <1>2, <1>8, OneMore
    <2> QED
      BY <1>1, <1>5, <2>1, <2>2
  <1> QED
    BY <1>4, <1>6, <1>7, <1>8

\* A step of the decoder keeps what was encoded.
LEMMA DecoderKeeps ==
    ASSUME TlvInv, UNCHANGED <<headers, encoder>>, NEW M, NEW G, Marks(encoder.bytes, encoder.left, M, G), Decoding(M, G)'
    PROVE  TlvInv'
  <1>1. HeadersOK'
    BY DEF TlvInv, HeadersOK
  <1>2. Encoded' = Encoded /\ Fitting' = Fitting /\ \A f : Coded(f)' = Coded(f)
    BY DEF Encoded, Fitting, Coded, Lookup, Looked
  <1>3. encoder'.bytes = encoder.bytes /\ encoder'.left = encoder.left
    OBVIOUS
  <1>4. Marks(encoder.bytes, encoder.left, M, G)'
    <2>1. /\ encoder.bytes \in Seq(Nat) /\ M \subseteq 0..Len(encoder.bytes) /\ 0 \in M /\ Len(encoder.bytes) \in M
          /\ G \in [M \ {Len(encoder.bytes)} -> Fitting]
      BY DEF Marks
    <2>2. \A p \in M \ {Len(encoder.bytes)} :
            /\ p + Len(Coded(G[p])) \in M
            /\ \A i \in 1..Len(Coded(G[p])) : encoder.bytes[p + i] = Coded(G[p])[i]
            /\ \A q \in M : p < q => p + Len(Coded(G[p])) <= q
      BY DEF Marks
    <2>3. \A f \in Encoded : f \in encoder.left \/ \E p \in M \ {Len(encoder.bytes)} : G[p] = f
      BY DEF Marks
    <2>4. \A p \in M \ {Len(encoder'.bytes)} :
            /\ p + Len(Coded(G[p])') \in M
            /\ \A i \in 1..Len(Coded(G[p])') : encoder'.bytes[p + i] = Coded(G[p])'[i]
            /\ \A q \in M : p < q => p + Len(Coded(G[p])') <= q
      BY <1>2, <1>3, <2>2
    <2> QED
      BY <1>2, <1>3, <2>1, <2>3, <2>4 DEF Marks
  <1> QED
    BY <1>1, <1>4 DEF TlvInv

LEMMA BeginDecodeStep ==
    ASSUME TlvInv, NEW n \in 0..Len(encoder.bytes), BeginDecode(n)
    PROVE  TlvInv'
  <1> DEFINE s == SubSeq(encoder.bytes, 1, n)
  <1>1. /\ encoder.left = {} /\ UNCHANGED <<headers, encoder>>
        /\ decoder' = [data |-> s, pos |-> 0, map |-> <<>>, on |-> TRUE]
    BY DEF BeginDecode
  <1>2. PICK M, G : Marks(encoder.bytes, encoder.left, M, G)
    BY DEF TlvInv
  <1>3. 0 \in M /\ M \subseteq Nat
    BY <1>2 DEF Marks
  <1> HIDE DEF s
  <1>4. decoder'.data = s /\ decoder'.pos = 0 /\ decoder'.map = <<>> /\ decoder'.on = TRUE
    BY <1>1
  <1>5. <<>> = [f \in DOMAIN <<>> |-> headers'[f]] /\ DOMAIN <<>> = {}
    OBVIOUS
  <1>6. decoder' = [data |-> decoder'.data, pos |-> decoder'.pos, map |-> decoder'.map, on |-> decoder'.on]
    BY <1>1
  <1>7. n \in 0..Len(encoder'.bytes) /\ decoder'.data = SubSeq(encoder'.bytes, 1, n) /\ decoder'.pos <= n
    BY <1>1, <1>4 DEF s
  <1>8. \A p \in M : ~ (p < decoder'.pos)
    <2>1. \A p \in M : p \in Nat /\ ~ (p < 0)
      BY <1>3
    <2> QED
      BY <1>4, <2>1
  <1>9. Decoding(M, G)'
    BY <1>1, <1>3, <1>4, <1>5, <1>6, <1>7, <1>8 DEF Decoding
  <1> QED
    BY <1>1, <1>2, <1>9, DecoderKeeps

LEMMA DecodeStep ==
    ASSUME TlvInv, DecodeEntry
    PROVE  TlvInv'
  <1> DEFINE b == encoder.bytes
             d == decoder.data
             p == decoder.pos
             m == decoder.map
             e == Entry(d, p)
             k == [g \in DOMAIN m \cup e.fields |-> IF g \in e.fields THEN e.value ELSE m[g]]
  <1>1. /\ decoder.on /\ p < Len(d) /\ UNCHANGED <<headers, encoder>>
        /\ decoder' = IF e.next < 0 THEN [decoder EXCEPT !.pos = Len(d), !.on = FALSE]
                      ELSE [decoder EXCEPT !.pos = e.next, !.map = k]
    BY DEF DecodeEntry
  <1>2. PICK M, G : Marks(b, encoder.left, M, G) /\ Decoding(M, G)
    BY DEF TlvInv
  <1>3. /\ decoder = [data |-> d, pos |-> p, map |-> m, on |-> decoder.on] /\ encoder.left = {}
        /\ m = [g \in DOMAIN m |-> headers[g]] /\ DOMAIN m \subseteq Encoded
        /\ \A q \in M : q < p => G[q] \in DOMAIN m
    BY <1>1, <1>2 DEF Decoding
  <1>4. PICK n \in 0..Len(b) : d = SubSeq(b, 1, n) /\ p \in M /\ p <= n
    BY <1>1, <1>2 DEF Decoding
  <1>5. b \in Seq(Nat) /\ Len(b) \in Nat /\ M \subseteq 0..Len(b) /\ G \in [M \ {Len(b)} -> Fitting]
    BY <1>2 DEF Marks
  <1> DEFINE f == G[p]
             z == Coded(f)
  <1>6. d \in Seq(Nat) /\ Len(d) = n /\ \A i \in 1..n : d[i] = b[i]
    <2> HIDE DEF b, d
    <2>1. 1 \in 1..(Len(b) + 1) /\ n \in (1 - 1)..Len(b) /\ n - 1 + 1 = n /\ \A i \in 1..n : 1 + i - 1 = i
      BY <1>5
    <2>2. /\ SubSeq(b, 1, n) \in Seq(Nat) /\ Len(SubSeq(b, 1, n)) = n - 1 + 1
          /\ \A i \in 1..(n - 1 + 1) : SubSeq(b, 1, n)[i] = b[1 + i - 1]
      BY <1>5, <2>1, PieceIs
    <2> QED
      BY <1>4, <2>1, <2>2
  <1>7. p \in M \ {Len(b)} /\ p \in Nat /\ n \in Nat /\ n <= Len(b) /\ p < n
    BY <1>1, <1>4, <1>5, <1>6
  <1>8. /\ f \in Fitting /\ f \in Encoded /\ p + Len(z) \in M /\ (\A i \in 1..Len(z) : b[p + i] = z[i])
        /\ \A q \in M : p < q => p + Len(z) <= q
    BY <1>2, <1>5, <1>7 DEF Marks, Fitting
  <1>9. HeadersOK
    BY DEF TlvInv
  <1>10. z \in Seq(Nat) /\ Len(z) \in Nat
    BY <1>8, <1>9, CodedIs
  <1>11. ASSUME NEW i \in 1..Len(z), p + i <= Len(d) PROVE d[p + i] = z[i]
    <2>1. p + i \in 1..n
      BY <1>6, <1>7, <1>10, <1>11
    <2> QED
      BY <1>6, <1>8, <2>1
  <1>12. IF p + Len(z) <= Len(d)
         THEN e.fields = {f} /\ e.value = headers[f] /\ e.next = p + Len(z)
         ELSE e.next = -1
    <2> HIDE DEF d, p, f
    <2> QED
      BY <1>1, <1>6, <1>7, <1>8, <1>9, <1>11, EntryBack
  <1>13. Encoded' = Encoded /\ encoder'.left = {} /\ encoder'.bytes = b
    BY <1>1, <1>3 DEF Encoded
  <1> HIDE DEF e, z
  <1>14. CASE p + Len(z) <= Len(d)
    <2> DEFINE y == p + Len(z)
               h == headers[f]
               a == decoder.on
    <2>1. y \in Nat /\ y \in M /\ y <= n
      BY <1>6, <1>7, <1>8, <1>10, <1>14
    <2>2. e.fields = {f} /\ e.value = h /\ e.next = y /\ ~ (e.next < 0)
      BY <1>12, <1>14, <2>1
    <2>3. k = [g \in DOMAIN m \cup {f} |-> headers[g]]
      <3>1. \A g \in DOMAIN m : m[g] = headers[g]
        BY <1>3
      <3> QED
        BY <2>2, <3>1
    <2> HIDE DEF k, y, d, m, f, a
    <2>4. decoder' = [data |-> d, pos |-> y, map |-> k, on |-> a]
      BY <1>1, <1>3, <2>2 DEF d, p, m, a
    <2>5. decoder'.data = d /\ decoder'.pos = y /\ decoder'.map = k /\ decoder'.on = a
      BY <2>4
    <2>6. DOMAIN k = DOMAIN m \cup {f} /\ DOMAIN k \subseteq Encoded /\ k = [g \in DOMAIN k |-> headers'[g]]
      BY <1>1, <1>3, <1>8, <2>3
    <2>7. ASSUME NEW q \in M, q < y PROVE G[q] \in DOMAIN k
      <3>1. ~ (p < q)
        <4>1. p < q => y <= q
          BY <1>8 DEF y
        <4>2. q \in Nat
          BY <1>5
        <4> QED
          BY <2>1, <2>7, <4>1, <4>2
      <3>2. q = p \/ q < p
        BY <1>5, <1>7, <3>1
      <3> QED
        BY <1>3, <2>6, <3>2 DEF f
    <2>8. decoder' = [data |-> decoder'.data, pos |-> decoder'.pos, map |-> decoder'.map, on |-> decoder'.on]
      BY <2>4, <2>5
    <2>9. n \in 0..Len(encoder'.bytes) /\ decoder'.data = SubSeq(encoder'.bytes, 1, n) /\ decoder'.pos \in M /\ decoder'.pos <= n
      BY <1>4, <1>13, <2>1, <2>5 DEF d
    <2>10. Decoding(M, G)'
      BY <1>13, <2>5, <2>6, <2>7, <2>8, <2>9 DEF Decoding
    <2> QED
      BY <1>1, <1>2, <2>10, DecoderKeeps
  <1>15. CASE ~ (p + Len(z) <= Len(d))
    <2>1. e.next < 0
      BY <1>12, <1>15
    <2> DEFINE y == Len(d)
    <2> HIDE DEF y, d, m
    <2>2. decoder' = [data |-> d, pos |-> y, map |-> m, on |-> FALSE]
      BY <1>1, <1>3, <2>1 DEF d, m, y
    <2>3. decoder'.map = m /\ decoder'.on = FALSE /\ decoder'.data = d /\ decoder'.pos = y
      BY <2>2
    <2>4. decoder' = [data |-> decoder'.data, pos |-> decoder'.pos, map |-> decoder'.map, on |-> decoder'.on]
      BY <2>2, <2>3
    <2>5. m = [g \in DOMAIN m |-> headers'[g]] /\ DOMAIN m \subseteq Encoded
      BY <1>1, <1>3
    <2>6. Decoding(M, G)'
      BY <1>13, <2>3, <2>4, <2>5 DEF Decoding
    <2> QED
      BY <1>1, <1>2, <2>6, DecoderKeeps
  <1> QED
    BY <1>14, <1>15

LEMMA TlvKeeps ==
    ASSUME TlvInv, [TlvNext]_tlvVars
    PROVE  TlvInv'
  <1>1. CASE EncodeField
    BY <1>1, EncodeStep
  <1>2. CASE DecodeEntry
    BY <1>2, DecodeStep
  <1>3. ASSUME NEW n \in 0..Len(encoder.bytes), BeginDecode(n) PROVE TlvInv'
    BY <1>3, BeginDecodeStep
  <1>4. CASE UNCHANGED tlvVars
    <2>1. UNCHANGED <<headers, encoder, decoder>>
      BY <1>4 DEF tlvVars
    <2>2. PICK M, G : Marks(encoder.bytes, encoder.left, M, G) /\ Decoding(M, G)
      BY DEF TlvInv
    <2>3. Encoded' = Encoded
      BY <2>1 DEF Encoded
    <2>4. Decoding(M, G)'
      BY <2>1, <2>2, <2>3 DEF Decoding
    <2> QED
      BY <2>1, <2>2, <2>4, DecoderKeeps
  <1> QED
    BY <1>1, <1>2, <1>3, <1>4 DEF TlvNext

LEMMA TlvExact ==
    ASSUME TlvInv
    PROVE  DecodeInverts
  <1>1. PICK M, G : Marks(encoder.bytes, encoder.left, M, G) /\ Decoding(M, G)
    BY DEF TlvInv
  <1> DEFINE m == decoder.map
             b == encoder.bytes
             kept == Kept(headers)
  <1>2. m = [f \in DOMAIN m |-> headers[f]] /\ DOMAIN m \subseteq Encoded
    BY <1>1 DEF Decoding
  <1>3. kept = [f \in Encoded |-> headers[f]] /\ DOMAIN kept = Encoded
    BY DEF Kept, Encoded
  <1>4. \A f \in DOMAIN m : m[f] = headers[f]
    BY <1>2
  <1>5. ASSUME decoder.on, decoder.data = b, decoder.pos = Len(decoder.data) PROVE m = kept
    <2>1. encoder.left = {} /\ \A p \in M : p < decoder.pos => G[p] \in DOMAIN m
      BY <1>1, <1>5 DEF Decoding
    <2>2. /\ M \subseteq 0..Len(b) /\ Len(b) \in Nat
          /\ \A f \in Encoded : f \in encoder.left \/ \E p \in M \ {Len(b)} : G[p] = f
      <3>1. b \in Seq(Nat) /\ M \subseteq 0..Len(b)
        BY <1>1, Zenon DEF Marks
      <3>2. \A f \in Encoded : f \in encoder.left \/ \E p \in M \ {Len(b)} : G[p] = f
        BY <1>1, Zenon DEF Marks
      <3>3. Len(b) \in Nat
        BY <3>1, LenProperties, Zenon
      <3> QED
        BY <3>1, <3>2, <3>3, Zenon
    <2>3. \A p \in M \ {Len(b)} : p < decoder.pos
      <3> DEFINE n == Len(b)
      <3>1. decoder.pos = n /\ n \in Nat /\ M \subseteq 0..n
        BY <1>5, <2>2
      <3> HIDE DEF n
      <3>2. \A p \in M \ {n} : p < n
        BY <3>1
      <3> QED
        BY <3>1, <3>2 DEF n
    <2>4. Encoded \subseteq DOMAIN m
      BY <2>1, <2>2, <2>3
    <2>5. DOMAIN m = Encoded
      BY <1>2, <2>4
    <2> HIDE DEF m, kept
    <2> QED
      BY <1>2, <1>3, <2>5
  <1> HIDE DEF m, kept
  <1> QED
    BY <1>2, <1>3, <1>4, <1>5 DEF DecodeInverts, m, kept, b

\* Metadata of any fields and values, read back whole or cut off anywhere, gives
\* only fields and values that were there, and all of them when it is whole
\* (encode_metadata and decode_metadata).
THEOREM DecodingInverts == TlvSpec => []DecodeInverts
  <1>1. TlvInit => TlvInv
    BY TlvStart
  <1>2. TlvInv /\ [TlvNext]_tlvVars => TlvInv'
    BY TlvKeeps
  <1>3. TlvInv => DecodeInverts
    BY TlvExact
  <1> QED
    BY <1>1, <1>2, <1>3, PTL DEF TlvSpec

-----------------------------------------------------------------------------
(* The paged listings.                                                      *)

Symbols == 1..DirMark
Names == Seq(Symbols)

\* a is before b by its cell i, the first in which they differ.
BeforeAt(a, b, i) ==
    /\ i \in 1..Len(b) /\ i <= Len(a) + 1 /\ (i <= Len(a) => a[i] < b[i])
    /\ \A j \in 1..(i - 1) : a[j] = b[j]

LEMMA NameIs ==
    ASSUME NEW a \in Names
    PROVE  Len(a) \in Nat /\ \A i \in 1..Len(a) : a[i] \in Int
  <1>1. Len(a) \in Nat /\ \A i \in 1..Len(a) : a[i] \in Symbols
    BY ElementOfSeq DEF Names
  <1>2. Symbols \subseteq Int
    BY DEF Symbols, DirMark
  <1> HIDE DEF Symbols
  <1> QED
    BY <1>1, <1>2

\* The first cells of a sequence.
LEMMA StartIs ==
    ASSUME NEW a \in Names, NEW n \in 0..Len(a)
    PROVE  /\ SubSeq(a, 1, n) \in Names /\ Len(SubSeq(a, 1, n)) = n
           /\ \A i \in 1..n : SubSeq(a, 1, n)[i] = a[i]
  <1>1. Len(a) \in Nat /\ a \in Seq(Symbols)
    BY NameIs DEF Names
  <1>2. 1 \in 1..(Len(a) + 1) /\ n \in (1 - 1)..Len(a) /\ n - 1 + 1 = n /\ \A i \in 1..n : 1 + i - 1 = i
    BY <1>1
  <1>3. /\ SubSeq(a, 1, n) \in Seq(Symbols) /\ Len(SubSeq(a, 1, n)) = n - 1 + 1
        /\ \A i \in 1..(n - 1 + 1) : SubSeq(a, 1, n)[i] = a[1 + i - 1]
    BY <1>1, <1>2, PieceIs
  <1> QED
    BY <1>2, <1>3 DEF Names

LEMMA SameStart ==
    ASSUME NEW a \in Names, NEW b \in Names, NEW n \in 0..Len(a), n <= Len(b)
    PROVE  SubSeq(a, 1, n) = SubSeq(b, 1, n) <=> \A i \in 1..n : a[i] = b[i]
  <1> DEFINE s == SubSeq(a, 1, n)
             t == SubSeq(b, 1, n)
  <1>1. n \in 0..Len(b)
    BY NameIs
  <1>2. s \in Names /\ Len(s) = n /\ \A i \in 1..n : s[i] = a[i]
    BY StartIs
  <1>3. t \in Names /\ Len(t) = n /\ \A i \in 1..n : t[i] = b[i]
    BY <1>1, StartIs
  <1> HIDE DEF s, t
  <1>4. (\A i \in 1..n : a[i] = b[i]) => s = t
    BY <1>2, <1>3, SameCells DEF Names
  <1>5. s = t => \A i \in 1..n : a[i] = b[i]
    BY <1>2, <1>3
  <1> QED
    BY <1>4, <1>5 DEF s, t

LEMMA PrefixIs ==
    ASSUME NEW a \in Names, NEW b \in Names
    PROVE  IsPrefix(a, b) <=> Len(a) <= Len(b) /\ \A i \in 1..Len(a) : a[i] = b[i]
  <1>1. Len(a) \in 0..Len(a)
    BY NameIs
  <1>2. Len(a) <= Len(b) => (SubSeq(a, 1, Len(a)) = SubSeq(b, 1, Len(a)) <=> \A i \in 1..Len(a) : a[i] = b[i])
    BY <1>1, SameStart
  <1> QED
    BY <1>2 DEF IsPrefix

LEMMA BeforeIs ==
    ASSUME NEW a \in Names, NEW b \in Names
    PROVE  Before(a, b) <=> \E i \in 1..Len(b) : BeforeAt(a, b, i)
  <1>1. Len(a) \in Nat /\ Len(b) \in Nat
    BY NameIs
  <1>2. ASSUME IsStrictPrefix(a, b) PROVE \E i \in 1..Len(b) : BeforeAt(a, b, i)
    <2>1. Len(a) <= Len(b) /\ a # b /\ \A i \in 1..Len(a) : a[i] = b[i]
      BY <1>2, PrefixIs DEF IsStrictPrefix
    <2>2. Len(a) # Len(b)
      BY <2>1, SameCells DEF Names
    <2>3. Len(a) + 1 \in 1..Len(b) /\ ~ (Len(a) + 1 <= Len(a)) /\ (Len(a) + 1) - 1 = Len(a)
      BY <1>1, <2>1, <2>2
    <2>4. BeforeAt(a, b, Len(a) + 1)
      BY <1>1, <2>1, <2>3 DEF BeforeAt
    <2> QED
      BY <2>3, <2>4
  <1>3. ASSUME NEW i \in 1..Len(b), i <= Len(a)
        PROVE  SubSeq(a, 1, i - 1) = SubSeq(b, 1, i - 1) <=> \A j \in 1..(i - 1) : a[j] = b[j]
    <2>1. i - 1 \in 0..Len(a) /\ i - 1 <= Len(b)
      BY <1>1, <1>3
    <2> QED
      BY <2>1, SameStart
  <1>4. ASSUME NEW i \in 1..Len(b), BeforeAt(a, b, i), ~ (i <= Len(a)) PROVE IsStrictPrefix(a, b)
    <2>1. i = Len(a) + 1 /\ i - 1 = Len(a) /\ Len(a) < Len(b)
      BY <1>1, <1>4 DEF BeforeAt
    <2>2. \A j \in 1..Len(a) : a[j] = b[j]
      BY <1>4, <2>1 DEF BeforeAt
    <2>3. a # b /\ Len(a) <= Len(b)
      BY <1>1, <2>1
    <2> QED
      BY <2>2, <2>3, PrefixIs DEF IsStrictPrefix
  <1>5. ASSUME NEW i \in 1..Len(b), i <= Len(a)
        PROVE  BeforeAt(a, b, i) <=> SubSeq(a, 1, i - 1) = SubSeq(b, 1, i - 1) /\ a[i] < b[i]
    <2>1. i <= Len(a) + 1
      BY <1>1, <1>5
    <2> QED
      BY <1>3, <1>5, <2>1 DEF BeforeAt
  <1> QED
    BY <1>2, <1>4, <1>5 DEF Before

\* The order of the bytes is a total order.
LEMMA NotBeforeItself ==
    ASSUME NEW a \in Names
    PROVE  ~ Before(a, a)
  <1>1. ASSUME NEW i \in 1..Len(a), BeforeAt(a, a, i) PROVE FALSE
    <2>1. a[i] \in Int /\ i <= Len(a) /\ a[i] < a[i]
      BY <1>1, NameIs DEF BeforeAt
    <2> QED
      BY <2>1
  <1> QED
    BY <1>1, BeforeIs

LEMMA BeforeTransitive ==
    ASSUME NEW a \in Names, NEW b \in Names, NEW c \in Names, Before(a, b), Before(b, c)
    PROVE  Before(a, c)
  <1>1. PICK i \in 1..Len(b) : BeforeAt(a, b, i)
    BY BeforeIs
  <1>2. PICK k \in 1..Len(c) : BeforeAt(b, c, k)
    BY BeforeIs
  <1>3. /\ Len(a) \in Nat /\ Len(b) \in Nat /\ Len(c) \in Nat
        /\ (\A j \in 1..Len(a) : a[j] \in Int) /\ (\A j \in 1..Len(b) : b[j] \in Int)
        /\ (\A j \in 1..Len(c) : c[j] \in Int)
    BY NameIs
  <1>4. i <= Len(a) + 1 /\ (i <= Len(a) => a[i] < b[i]) /\ \A j \in 1..(i - 1) : a[j] = b[j]
    BY <1>1 DEF BeforeAt
  <1>5. k <= Len(b) + 1 /\ (k <= Len(b) => b[k] < c[k]) /\ \A j \in 1..(k - 1) : b[j] = c[j]
    BY <1>2 DEF BeforeAt
  <1>6. CASE i < k
    <2>1. i \in 1..(k - 1) /\ i \in 1..Len(c) /\ \A j \in 1..(i - 1) : j \in 1..(k - 1)
      BY <1>3, <1>6
    <2>2. i <= Len(a) => a[i] < c[i]
      BY <1>4, <1>5, <2>1
    <2>3. \A j \in 1..(i - 1) : a[j] = c[j]
      BY <1>4, <1>5, <2>1
    <2> QED
      BY <1>4, <2>1, <2>2, <2>3, BeforeIs DEF BeforeAt
  <1>7. CASE k < i
    <2>1. k \in 1..(i - 1) /\ k <= Len(b) /\ k <= Len(a) + 1 /\ \A j \in 1..(k - 1) : j \in 1..(i - 1)
      BY <1>3, <1>4, <1>7
    <2>2. a[k] < c[k]
      BY <1>4, <1>5, <2>1
    <2>3. \A j \in 1..(k - 1) : a[j] = c[j]
      BY <1>4, <1>5, <2>1
    <2> QED
      BY <2>1, <2>2, <2>3, BeforeIs DEF BeforeAt
  <1>8. CASE i = k
    <2>1. k <= Len(b) /\ b[k] < c[k] /\ b[k] \in Int /\ c[k] \in Int
      BY <1>3, <1>5, <1>8
    <2>2. k <= Len(a) => a[k] < c[k]
      <3>1. ASSUME k <= Len(a) PROVE a[k] \in Int /\ a[k] < b[k]
        BY <1>3, <1>4, <1>8, <3>1
      <3> QED
        BY <2>1, <3>1
    <2>3. \A j \in 1..(k - 1) : a[j] = c[j]
      BY <1>4, <1>5, <1>8
    <2> QED
      BY <1>4, <1>8, <2>2, <2>3, BeforeIs DEF BeforeAt
  <1> QED
    BY <1>6, <1>7, <1>8

LEMMA BeforeTotal ==
    ASSUME NEW a \in Names, NEW b \in Names, a # b
    PROVE  Before(a, b) \/ Before(b, a)
  <1> DEFINE T == {i \in Nat \ {0} : \/ i = Len(a) + 1 \/ i = Len(b) + 1
                                     \/ i <= Len(a) /\ i <= Len(b) /\ a[i] # b[i]}
  <1>1. /\ Len(a) \in Nat /\ Len(b) \in Nat
        /\ (\A j \in 1..Len(a) : a[j] \in Int) /\ (\A j \in 1..Len(b) : b[j] \in Int)
    BY NameIs
  <1>2. T \subseteq Nat /\ Len(a) + 1 \in T /\ Len(b) + 1 \in T
    BY <1>1
  <1>3. PICK i \in T : \A j \in T : i <= j
    BY <1>2, LeastNat
  <1>4. i \in Nat /\ i >= 1 /\ i <= Len(a) + 1 /\ i <= Len(b) + 1
    BY <1>1, <1>2, <1>3
  <1>5. ASSUME NEW j \in 1..(i - 1) PROVE a[j] = b[j]
    <2>1. j \in Nat \ {0} /\ j <= Len(a) /\ j <= Len(b) /\ ~ (i <= j)
      BY <1>1, <1>4
    <2>2. j \notin T
      BY <1>3, <2>1
    <2> QED
      BY <2>1, <2>2
  <1>6. CASE i <= Len(a) /\ i <= Len(b)
    <2>1. a[i] # b[i] /\ i \in 1..Len(a) /\ i \in 1..Len(b)
      BY <1>1, <1>3, <1>4, <1>6
    <2>2. a[i] < b[i] \/ b[i] < a[i]
      BY <1>1, <2>1
    <2>3. BeforeAt(a, b, i) \/ BeforeAt(b, a, i)
      BY <1>4, <1>5, <2>1, <2>2 DEF BeforeAt
    <2> QED
      BY <2>1, <2>3, BeforeIs
  <1>7. CASE ~ (i <= Len(a)) /\ i <= Len(b)
    <2>1. BeforeAt(a, b, i) /\ i \in 1..Len(b)
      BY <1>1, <1>4, <1>5, <1>7 DEF BeforeAt
    <2> QED
      BY <2>1, BeforeIs
  <1>8. CASE i <= Len(a) /\ ~ (i <= Len(b))
    <2>1. BeforeAt(b, a, i) /\ i \in 1..Len(a)
      BY <1>1, <1>4, <1>5, <1>8 DEF BeforeAt
    <2> QED
      BY <2>1, BeforeIs
  <1>9. CASE ~ (i <= Len(a)) /\ ~ (i <= Len(b))
    <2>1. Len(a) = Len(b) /\ i - 1 = Len(a)
      BY <1>1, <1>4, <1>9
    <2> QED
      BY <1>5, <2>1, SameCells DEF Names
  <1> QED
    BY <1>6, <1>7, <1>8, <1>9

\* A beginning of a key is before it.
LEMMA PrefixBefore ==
    ASSUME NEW a \in Names, NEW b \in Names, IsPrefix(a, b)
    PROVE  a = b \/ Before(a, b)
  BY DEF Before, IsStrictPrefix

\* Sorting gives the keys of a set, in their order.
LEMMA SortedIs ==
    ASSUME NEW S \in SUBSET Names, IsFiniteSet(S)
    PROVE  LET q == Sorted(S)
           IN  /\ q \in Seq(S) /\ Len(q) \in Nat
               /\ \A i, j \in 1..Len(q) : i < j => Before(q[i], q[j])
               /\ \A e \in S : \E i \in 1..Len(q) : q[i] = e
  <1> DEFINE n == Cardinality(S)
             Below(s) == {d \in S : Before(d, s)}
             rank == [s \in S |-> Cardinality(Below(s))]
             T == 0..(n - 1)
             q == Sorted(S)
  <1>1. n \in Nat
    BY FS_CardinalityType
  <1>2. ASSUME NEW s \in S
        PROVE  IsFiniteSet(Below(s)) /\ Cardinality(Below(s)) \in T
    <2>1. Below(s) \in SUBSET S /\ s \notin Below(s)
      BY NotBeforeItself
    <2> HIDE DEF Below
    <2>2. IsFiniteSet(Below(s)) /\ Cardinality(Below(s)) <= n /\ (n = Cardinality(Below(s)) => S = Below(s))
      BY <2>1, FS_Subset
    <2>3. Cardinality(Below(s)) \in Nat
      BY <2>2, FS_CardinalityType
    <2>4. Cardinality(Below(s)) # n
      BY <2>1, <2>2
    <2> HIDE DEF n
    <2> QED
      BY <1>1, <2>2, <2>3, <2>4
  <1>3. ASSUME NEW r \in S, NEW s \in S, Before(r, s)
        PROVE  Cardinality(Below(r)) < Cardinality(Below(s))
    <2>1. Below(r) \in SUBSET Below(s) /\ r \in Below(s) /\ r \notin Below(r)
      <3>1. ASSUME NEW d \in S, Before(d, r) PROVE Before(d, s)
        BY <1>3, <3>1, BeforeTransitive
      <3> QED
        BY <1>3, <3>1, NotBeforeItself
    <2> HIDE DEF Below
    <2>2. /\ Cardinality(Below(r)) <= Cardinality(Below(s))
          /\ Cardinality(Below(s)) = Cardinality(Below(r)) => Below(s) = Below(r)
      BY <1>2, <2>1, FS_Subset
    <2>3. Cardinality(Below(r)) \in Nat /\ Cardinality(Below(s)) \in Nat
      BY <1>2, FS_CardinalityType
    <2>4. Cardinality(Below(s)) # Cardinality(Below(r))
      BY <2>1, <2>2
    <2> QED
      BY <2>2, <2>3, <2>4
  <1>4. rank \in [S -> T] /\ \A s \in S : rank[s] = Cardinality(Below(s))
    BY <1>2
  <1>5. ASSUME NEW s \in S PROVE rank[s] \in Nat
    <2>1. rank[s] \in T
      BY <1>4
    <2> HIDE DEF rank
    <2> QED
      BY <1>1, <2>1
  <1>6. ASSUME NEW r \in S, NEW s \in S, Before(r, s) PROVE rank[r] < rank[s]
    BY <1>3, <1>4, <1>6
  <1> HIDE DEF rank
  <1>7. ASSUME NEW r \in S, NEW s \in S, rank[r] = rank[s] PROVE r = s
    <2>1. ~ Before(r, s) /\ ~ Before(s, r)
      <3>1. rank[r] \in Nat /\ rank[s] \in Nat
        BY <1>5
      <3>2. ~ (rank[r] < rank[s]) /\ ~ (rank[s] < rank[r])
        BY <1>7, <3>1
      <3> QED
        BY <1>6, <3>2
    <2> QED
      BY <2>1, BeforeTotal
  <1>8. IsFiniteSet(T) /\ Cardinality(T) = n
    <2> HIDE DEF n
    <2> QED
      BY <1>1, FS_Interval
  <1> HIDE DEF T
  <1>9. rank \in Injection(S, T)
    BY <1>4, <1>7 DEF Injection, IsInjective
  <1>10. \A t \in T : \E s \in S : rank[s] = t
    <2>1. rank \in Surjection(S, T)
      BY <1>8, <1>9, FS_Injection
    <2> QED
      BY <2>1 DEF Surjection
  <1>11. ASSUME NEW i \in 1..n
         PROVE  q[i] \in S /\ rank[q[i]] = i - 1
    <2>1. q[i] = CHOOSE e \in S : Cardinality({d \in S : Before(d, e)}) = i - 1
      BY DEF Sorted
    <2>2. i - 1 \in T
      <3> HIDE DEF n
      <3> QED
        BY <1>1 DEF T
    <2>3. \E e \in S : Cardinality({d \in S : Before(d, e)}) = i - 1
      BY <1>4, <1>10, <2>2
    <2>4. q[i] \in S /\ Cardinality({d \in S : Before(d, q[i])}) = i - 1
      BY <2>1, <2>3
    <2> HIDE DEF q
    <2> QED
      BY <1>4, <2>4
  <1>12. q = [i \in 1..n |-> q[i]]
    <2> DEFINE op(i) == CHOOSE e \in S : Cardinality({d \in S : Before(d, e)}) = i - 1
    <2>1. q = [i \in 1..n |-> op(i)]
      BY Zenon DEF Sorted
    <2> HIDE DEF op, n, q
    <2> QED
      BY <2>1
  <1> HIDE DEF n, q
  <1>13. q \in Seq(S) /\ Len(q) = n
    BY <1>1, <1>11, <1>12
  <1>14. ASSUME NEW i \in 1..n, NEW j \in 1..n, i < j
         PROVE  Before(q[i], q[j])
    <2>1. /\ q[i] \in S /\ rank[q[i]] = i - 1 /\ q[j] \in S /\ rank[q[j]] = j - 1
      BY <1>11
    <2>2. i - 1 # j - 1 /\ ~ (j - 1 < i - 1)
      BY <1>1, <1>14
    <2>3. q[i] # q[j] /\ ~ Before(q[j], q[i])
      BY <1>6, <2>1, <2>2
    <2> QED
      BY <2>1, <2>3, BeforeTotal
  <1>15. ASSUME NEW e \in S PROVE \E i \in 1..n : q[i] = e
    <2>1. rank[e] \in T
      BY <1>4
    <2>2. rank[e] + 1 \in 1..n /\ (rank[e] + 1) - 1 = rank[e]
      BY <1>1, <2>1 DEF T
    <2>3. q[rank[e] + 1] \in S /\ rank[q[rank[e] + 1]] = rank[e]
      BY <1>11, <2>2
    <2> QED
      BY <1>7, <2>2, <2>3
  <1> QED
    BY <1>1, <1>13, <1>14, <1>15 DEF q

\* The keys of the bucket.
KeysOK == keys \subseteq Universe

LEMMA KeyIs ==
    ASSUME KeysOK, NEW k \in keys
    PROVE  /\ k \in Names /\ k # <<>> /\ Len(k) \in Nat \ {0}
           /\ \A i \in 1..Len(k) : k[i] \in 1..(DirMark - 1)
  <1> DEFINE B == 1..(DirMark - 1)
  <1>1. k \in Seq(B) /\ k # <<>>
    BY ListingAssumption DEF KeysOK
  <1>2. B \subseteq Symbols
    BY DEF Symbols, DirMark
  <1> HIDE DEF B
  <1>3. Len(k) \in Nat /\ (\A i \in 1..Len(k) : k[i] \in B) /\ k \in [1..Len(k) -> B] /\ Len(k) # 0
    BY <1>1
  <1>4. k \in Seq(Symbols)
    BY <1>2, <1>3, OneOfSeq
  <1> QED
    BY <1>1, <1>3, <1>4 DEF B, Names

LEMMA AskedIs ==
    ASSUME NEW p \in AskedPrefixes
    PROVE  p \in Names
  <1> DEFINE B == 1..(DirMark - 1)
  <1>1. p \in Seq(B)
    BY ListingAssumption
  <1>2. B \subseteq Symbols
    BY DEF Symbols, DirMark
  <1> HIDE DEF B
  <1>3. Len(p) \in Nat /\ p \in [1..Len(p) -> B]
    BY <1>1
  <1> QED
    BY <1>2, <1>3, OneOfSeq DEF Names

\* The path of a key begins with the key, and gives the key back.
LEMMA PathIs ==
    ASSUME KeysOK, NEW k \in keys
    PROVE  /\ ObjKey(k) \in Names /\ Len(k) <= Len(ObjKey(k))
           /\ \A i \in 1..Len(k) : ObjKey(k)[i] = k[i]
           /\ KeyOf(ObjKey(k)) = k
  <1>1. k \in Names /\ k # <<>> /\ Len(k) \in Nat \ {0} /\ \A i \in 1..Len(k) : k[i] \in 1..(DirMark - 1)
    BY KeyIs
  <1>2. CASE EndsInSlash(k)
    <2> DEFINE a == Append(k, DirMark)
    <2>1. DirMark \in Symbols
      BY DEF Symbols, DirMark
    <2>2. /\ a \in Seq(Symbols) /\ Len(a) = Len(k) + 1 /\ (\A i \in 1..Len(k) : a[i] = k[i]) /\ a[Len(k) + 1] = DirMark
      BY <1>1, <2>1, AppendProperties DEF Names
    <2>3. ObjKey(k) = a
      BY <1>2 DEF ObjKey
    <2> HIDE DEF a
    <2>4. Last(a) = DirMark /\ Len(a) - 1 = Len(k) /\ Len(k) \in 0..Len(a)
      BY <1>1, <2>2 DEF Last
    <2>5. KeyOf(a) = SubSeq(a, 1, Len(k))
      BY <2>4 DEF KeyOf, Front
    <2>6. SubSeq(a, 1, Len(k)) = k
      <3>1. /\ SubSeq(a, 1, Len(k)) \in Names /\ Len(SubSeq(a, 1, Len(k))) = Len(k)
            /\ \A i \in 1..Len(k) : SubSeq(a, 1, Len(k))[i] = a[i]
        BY <2>2, <2>4, StartIs DEF Names
      <3> QED
        BY <1>1, <2>2, <3>1, SameCells DEF Names
    <2> QED
      BY <1>1, <2>2, <2>3, <2>5, <2>6 DEF Names
  <1>3. CASE ~ EndsInSlash(k)
    <2>1. ObjKey(k) = k
      BY <1>3 DEF ObjKey
    <2>2. Last(k) # DirMark
      <3>1. Len(k) \in 1..Len(k)
        BY <1>1
      <3>2. k[Len(k)] \in 1..(DirMark - 1)
        BY <1>1, <3>1
      <3>3. DirMark \notin 1..(DirMark - 1)
        BY DEF DirMark
      <3> QED
        BY <3>2, <3>3 DEF Last
    <2> QED
      BY <1>1, <2>1, <2>2 DEF KeyOf
  <1> QED
    BY <1>2, <1>3

\* A listing of the store gives the keys whose paths match.
LEMMA ListIs ==
    ASSUME KeysOK, NEW p
    PROVE  ListWithMeta(p) = {k \in keys : PrefixMatches(ObjKey(k), p)}
  <1>1. \A k \in keys : KeyOf(ObjKey(k)) = k
    BY PathIs
  <1> QED
    BY <1>1 DEF ListWithMeta

\* A set of places in a key that is not empty has a last one.
LEMMA GreatestPlace ==
    ASSUME NEW n \in Nat, NEW T, T \subseteq 1..n, T # {}
    PROVE  \E i \in T : \A j \in T : j <= i
  <1> DEFINE U == {n - i : i \in T}
  <1>1. U \subseteq Nat /\ U # {}
    <2>1. \A i \in T : n - i \in Nat
      OBVIOUS
    <2>2. PICK i \in T : TRUE
      OBVIOUS
    <2>3. n - i \in U
      BY <2>2
    <2> QED
      BY <2>1, <2>3
  <1>2. PICK u \in U : \A w \in U : u <= w
    BY <1>1, LeastNat
  <1>3. PICK i \in T : u = n - i
    BY <1>2
  <1>4. ASSUME NEW j \in T PROVE j <= i
    <2>1. n - i <= n - j
      BY <1>2, <1>3
    <2> QED
      BY <1>3, <2>1
  <1> QED
    BY <1>4

\* A key that starts with a prefix is found where the prefix is listed.
LEMMA FoundBelow ==
    ASSUME KeysOK, NEW k \in keys, NEW p \in AskedPrefixes, IsPrefix(p, k)
    PROVE  PrefixMatches(ObjKey(k), DirPrefix(p))
  <1> DEFINE S == {i \in DOMAIN p : p[i] = Slash}
             o == ObjKey(k)
  <1>1. p \in Names /\ Len(p) \in Nat /\ DOMAIN p = 1..Len(p)
    BY AskedIs, NameIs DEF Names
  <1>2. k \in Names /\ Len(k) \in Nat
    BY KeyIs
  <1>3. Len(p) <= Len(k) /\ \A i \in 1..Len(p) : p[i] = k[i]
    BY <1>1, <1>2, PrefixIs
  <1>4. o \in Names /\ Len(o) \in Nat /\ Len(k) <= Len(o) /\ \A i \in 1..Len(k) : o[i] = k[i]
    BY PathIs, NameIs
  <1> HIDE DEF o
  <1>5. CASE S = {}
    <2>1. DirPrefix(p) = <<>>
      BY <1>5 DEF DirPrefix
    <2> QED
      BY <2>1 DEF PrefixMatches, EndsInSlash
  <1>6. CASE S # {}
    <2> DEFINE m == CHOOSE i \in S : \A j \in S : j <= i
               d == SubSeq(p, 1, m)
               f == Front(d)
    <2>1. m \in S
      <3>1. S \subseteq 1..Len(p)
        BY <1>1
      <3>2. \E i \in S : \A j \in S : j <= i
        BY <1>1, <1>6, <3>1, GreatestPlace
      <3> QED
        BY <3>2
    <2>2. DirPrefix(p) = d
      BY <1>6 DEF DirPrefix
    <2> HIDE DEF m
    <2>3. m \in 1..Len(p) /\ p[m] = Slash
      BY <1>1, <2>1
    <2>4. d \in Names /\ Len(d) = m /\ \A i \in 1..m : d[i] = p[i]
      <3>1. m \in 0..Len(p)
        BY <2>3
      <3> QED
        BY <1>1, <3>1, StartIs
    <2> HIDE DEF d
    <2>5. EndsInSlash(d)
      BY <2>3, <2>4 DEF EndsInSlash, Last
    <2>6. f \in Names /\ Len(f) = m - 1 /\ \A i \in 1..(m - 1) : f[i] = d[i]
      <3>1. m - 1 \in 0..Len(d) /\ f = SubSeq(d, 1, m - 1)
        BY <2>3, <2>4 DEF Front
      <3> QED
        BY <2>4, <3>1, StartIs
    <2> HIDE DEF f
    <2>7. Append(f, Slash) = d
      <3> DEFINE a == Append(f, Slash)
      <3>1. Slash \in Symbols
        BY DEF Slash, Symbols, DirMark
      <3>2. a \in Seq(Symbols) /\ Len(a) = Len(f) + 1 /\ (\A i \in 1..Len(f) : a[i] = f[i]) /\ a[Len(f) + 1] = Slash
        BY <2>6, <3>1, AppendProperties DEF Names
      <3> HIDE DEF a
      <3>3. Len(a) = Len(d) /\ m - 1 + 1 = m
        BY <2>3, <2>4, <2>6, <3>2
      <3>4. ASSUME NEW i \in 1..Len(a) PROVE a[i] = d[i]
        <4>1. i = m \/ i \in 1..(m - 1)
          BY <2>3, <2>4, <3>3
        <4>2. i = m => a[i] = d[i]
          BY <2>3, <2>4, <2>6, <3>2, <3>3
        <4>3. i \in 1..(m - 1) => a[i] = d[i]
          BY <2>6, <3>2
        <4> QED
          BY <4>1, <4>2, <4>3
      <3>5. a = d
        BY <2>4, <3>2, <3>3, <3>4, SameCells DEF Names
      <3> QED
        BY <3>5 DEF a
    <2>8. IsPrefix(d, o)
      <3>1. Len(d) <= Len(o) /\ \A i \in 1..Len(d) : i \in 1..Len(p) /\ i \in 1..Len(k)
        BY <1>1, <1>2, <1>3, <1>4, <2>3, <2>4
      <3>2. \A i \in 1..Len(d) : d[i] = o[i]
        BY <1>3, <1>4, <2>4, <3>1
      <3> QED
        BY <1>4, <2>4, <3>1, <3>2, PrefixIs
    <2>9. PrefixMatches(o, d)
      BY <2>5, <2>7, <2>8 DEF PrefixMatches, f
    <2> QED
      BY <2>2, <2>9 DEF o
  <1> QED
    BY <1>5, <1>6

\* The common prefix of a key is a beginning of it.
LEMMA GroupIs ==
    ASSUME NEW k \in Names, NEW p \in Names, HasGroup(p, k)
    PROVE  Group(p, k) \in Names /\ Group(p, k) # <<>> /\ IsPrefix(Group(p, k), k)
  <1> DEFINE P == (Len(p) + 1)..Len(k)
             T == {i \in P : k[i] = Slash}
             Is(i) == k[i] = Slash /\ \A j \in (Len(p) + 1)..(i - 1) : k[j] # Slash
             m == CHOOSE i \in P : Is(i)
             g == SubSeq(k, 1, m)
  <1>1. Len(p) \in Nat /\ Len(k) \in Nat
    BY NameIs
  <1>2. T \subseteq Nat /\ T # {}
    BY <1>1 DEF HasGroup
  <1>3. PICK i \in T : \A j \in T : i <= j
    BY <1>2, LeastNat
  <1>4. \A j \in (Len(p) + 1)..(i - 1) : k[j] # Slash
    BY <1>1, <1>3
  <1>5. m \in P
    <2>1. i \in P /\ Is(i)
      BY <1>3, <1>4
    <2> HIDE DEF Is, P
    <2> QED
      BY <2>1
  <1>6. Group(p, k) = g
    BY DEF Group
  <1> HIDE DEF m
  <1>7. m \in 0..Len(k) /\ m # 0
    BY <1>1, <1>5
  <1>8. g \in Names /\ Len(g) = m /\ \A j \in 1..m : g[j] = k[j]
    BY <1>7, StartIs
  <1> HIDE DEF g
  <1>9. IsPrefix(g, k)
    BY <1>7, <1>8, PrefixIs
  <1>10. g # <<>>
    BY <1>7, <1>8
  <1> QED
    BY <1>6, <1>8, <1>9, <1>10

Increasing(q) == \A i, j \in 1..Len(q) : i < j => Before(q[i], q[j])

\* A page of the entries E: its entries in order, and either no next token and
\* all of E, unless no entry was asked for, or one of its entries as the token,
\* the last one when exact, and all entries of E up to that one.
PageFor(E, max, exact, page) ==
    /\ page = [got |-> page.got, truncated |-> page.truncated, next |-> page.next]
    /\ page.got \in Seq(E) /\ Increasing(page.got)
    /\ page.next = NoToken /\ max > 0 => \A e \in E : Contains(page.got, e)
    /\ page.next # NoToken =>
          /\ page.truncated /\ Len(page.got) > 0 /\ Contains(page.got, page.next)
          /\ exact => page.next = page.got[Len(page.got)]
          /\ \A e \in E : Contains(page.got, e) \/ Before(page.next, e)
    /\ page.truncated /\ max > 0 => page.next # NoToken

\* The first entries of a set.
LEMMA FirstFew ==
    ASSUME NEW E \in SUBSET Names, IsFiniteSet(E), NEW n \in 0..Len(Sorted(E))
    PROVE  LET q == Sorted(E)
               g == SubSeq(q, 1, n)
           IN  /\ q \in Seq(E) /\ Len(q) \in Nat
               /\ g \in Seq(E) /\ Len(g) = n /\ Increasing(g)
               /\ n = Len(q) => \A e \in E : Contains(g, e)
               /\ n > 0 => g[n] = q[n] /\ q[n] \in E /\ \A e \in E : Contains(g, e) \/ Before(q[n], e)
  <1> DEFINE q == Sorted(E)
             g == SubSeq(q, 1, n)
  <1>1. /\ q \in Seq(E) /\ Len(q) \in Nat
        /\ (\A i, j \in 1..Len(q) : i < j => Before(q[i], q[j]))
        /\ \A e \in E : \E i \in 1..Len(q) : q[i] = e
    BY SortedIs
  <1> HIDE DEF q
  <1>2. n \in 0..Len(q)
    BY DEF q
  <1>3. g \in Seq(E) /\ Len(g) = n /\ \A i \in 1..n : g[i] = q[i]
    <2>1. 1 \in 1..(Len(q) + 1) /\ n \in (1 - 1)..Len(q) /\ n - 1 + 1 = n /\ \A i \in 1..n : 1 + i - 1 = i
      BY <1>1, <1>2
    <2>2. /\ SubSeq(q, 1, n) \in Seq(E) /\ Len(SubSeq(q, 1, n)) = n - 1 + 1
          /\ \A i \in 1..(n - 1 + 1) : SubSeq(q, 1, n)[i] = q[1 + i - 1]
      BY <1>1, <2>1, PieceIs
    <2> QED
      BY <2>1, <2>2
  <1> HIDE DEF g
  <1>4. Increasing(g)
    <2>1. \A i \in 1..n : i \in 1..Len(q)
      BY <1>1, <1>2
    <2> QED
      BY <1>1, <1>3, <2>1 DEF Increasing
  <1>5. n = Len(q) => \A e \in E : Contains(g, e)
    BY <1>1, <1>3 DEF Contains
  <1>6. ASSUME n > 0 PROVE g[n] = q[n] /\ q[n] \in E /\ \A e \in E : Contains(g, e) \/ Before(q[n], e)
    <2>1. n \in 1..n /\ n \in 1..Len(q)
      BY <1>1, <1>2, <1>6
    <2>2. q[n] \in E
      BY <1>1, <2>1, ElementOfSeq
    <2>3. ASSUME NEW e \in E PROVE Contains(g, e) \/ Before(q[n], e)
      <3>1. PICK i \in 1..Len(q) : q[i] = e
        BY <1>1
      <3>2. CASE i <= n
        <4>1. i \in 1..n
          BY <1>1, <3>2
        <4> QED
          BY <1>3, <3>1, <4>1 DEF Contains
      <3>3. CASE n < i
        BY <1>1, <2>1, <3>1, <3>3
      <3> QED
        BY <1>1, <1>2, <3>2, <3>3
    <2> QED
      BY <1>3, <2>1, <2>2, <2>3
  <1> QED
    BY <1>1, <1>3, <1>4, <1>5, <1>6 DEF g, q

\* The pages of list_objects_v2 and list_objects, where a page of no entry is
\* not truncated, and those of the others, where it is.
LEMMA PageIs ==
    ASSUME NEW E \in SUBSET Names, IsFiniteSet(E), <<>> \notin E, NEW max \in Nat, NEW page,
           LET q == Sorted(E)
               n == IF Len(q) < max THEN Len(q) ELSE max
           IN  \/ page = [got |-> SubSeq(q, 1, n), truncated |-> max > 0 /\ n < Len(q),
                          next |-> IF max > 0 /\ n < Len(q) THEN q[n] ELSE NoToken]
               \/ page = [got |-> SubSeq(q, 1, n), truncated |-> n < Len(q),
                          next |-> IF 0 < n /\ n < Len(q) THEN q[n] ELSE NoToken]
    PROVE  PageFor(E, max, TRUE, page)
  <1> DEFINE q == Sorted(E)
             m == Len(q)
             n == IF m < max THEN m ELSE max
             g == SubSeq(q, 1, n)
             more == 0 < n /\ n < m
  <1>1. m \in Nat
    BY SortedIs
  <1> DEFINE t == page.truncated
             x == page.next
  <1>2. /\ page = [got |-> g, truncated |-> t, next |-> x]
        /\ x = (IF more THEN q[n] ELSE NoToken)
        /\ more => t
        /\ t /\ max > 0 => more
    <2>1. (max > 0 /\ n < m) <=> more
      <3> HIDE DEF m
      <3> QED
        BY <1>1
    <2> HIDE DEF q, g
    <2>2. CASE page = [got |-> g, truncated |-> max > 0 /\ n < m, next |-> IF max > 0 /\ n < m THEN q[n] ELSE NoToken]
      <3> HIDE DEF n, m, more
      <3>1. t = (max > 0 /\ n < m) /\ x = (IF max > 0 /\ n < m THEN q[n] ELSE NoToken)
        BY <2>2
      <3> QED
        BY <2>1, <2>2, <3>1
    <2>3. CASE page = [got |-> g, truncated |-> n < m, next |-> IF 0 < n /\ n < m THEN q[n] ELSE NoToken]
      <3> HIDE DEF n, m
      <3>1. t = (n < m) /\ x = (IF 0 < n /\ n < m THEN q[n] ELSE NoToken)
        BY <2>3
      <3> QED
        BY <2>1, <2>3, <3>1
    <2> QED
      BY <2>2, <2>3 DEF q, g
  <1>3. n \in 0..m /\ n \in Nat /\ (~ more /\ max > 0 => n = m)
    <2> HIDE DEF m
    <2> QED
      BY <1>1
  <1> HIDE DEF n
  <1>4. /\ g \in Seq(E) /\ Len(g) = n /\ Increasing(g)
        /\ n = m => \A e \in E : Contains(g, e)
        /\ n > 0 => g[n] = q[n] /\ q[n] \in E /\ \A e \in E : Contains(g, e) \/ Before(q[n], e)
    BY <1>3, FirstFew
  <1> HIDE DEF g, q, m
  <1>5. page.got = g /\ page.truncated = t /\ page.next = x
    BY <1>2
  <1>6. n \in Nat /\ m \in Nat
    BY <1>1, <1>3
  <1>7. more <=> x # NoToken
    BY <1>2, <1>4, <1>6 DEF NoToken
  <1>8. page = [got |-> page.got, truncated |-> page.truncated, next |-> page.next]
    BY <1>2, <1>5
  <1>9. x # NoToken => /\ t /\ Len(g) > 0 /\ x = g[Len(g)] /\ Contains(g, x)
                       /\ \A e \in E : Contains(g, e) \/ Before(x, e)
    BY <1>2, <1>4, <1>6, <1>7 DEF Contains
  <1>10. x = NoToken /\ max > 0 => \A e \in E : Contains(g, e)
    BY <1>3, <1>4, <1>7
  <1>11. t /\ max > 0 => x # NoToken
    BY <1>2, <1>7
  <1> QED
    BY <1>4, <1>5, <1>8, <1>9, <1>10, <1>11 DEF PageFor

\* What the pages of a walk are about from a token on.
Listed(api, prefix, delim, token) ==
    IF api \in {"v1", "v2"} THEN Entries(prefix, delim, token)
    ELSE IF api = "versions" THEN {k \in ListWithMeta(prefix) : IsPrefix(prefix, k) /\ After(token, k)}
    ELSE {k \in keys : After(token, k)}

EntryOf(prefix, delim, k) == IF delim /\ HasGroup(prefix, k) THEN Group(prefix, k) ELSE k

LEMMA ListedIs ==
    ASSUME KeysOK, NEW api, NEW prefix \in AskedPrefixes, NEW delim \in BOOLEAN, NEW token
    PROVE  LET E == Listed(api, prefix, delim, token)
           IN  /\ E \in SUBSET Names /\ IsFiniteSet(E) /\ <<>> \notin E
               /\ \A e \in E : After(token, e)
  <1> DEFINE E == Listed(api, prefix, delim, token)
             K == {k \in keys : After(token, k)}
             C == Candidates(prefix, token)
             D == {c \in C : HasGroup(prefix, c)}
             H == {Group(prefix, k) : k \in D}
             G == Groups(prefix, token)
             f == [k \in D |-> Group(prefix, k)]
  <1>1. \A k \in keys : k \in Names /\ k # <<>>
    BY KeyIs
  <1>2. IsFiniteSet(keys)
    BY ListingAssumption, FS_Subset DEF KeysOK
  <1>3. C \subseteq K
    BY ListIs DEF Candidates
  <1>4. D \subseteq keys /\ IsFiniteSet(D)
    <2>1. D \in SUBSET keys
      BY <1>3
    <2> QED
      BY <1>2, <2>1, FS_Subset
  <1>5. f \in Surjection(D, H)
    <2>1. f \in [D -> H] /\ \A h \in H : \E k \in D : f[k] = h
      OBVIOUS
    <2> HIDE DEF f, H, D
    <2> QED
      BY <2>1 DEF Surjection
  <1>6. IsFiniteSet(H)
    <2> HIDE DEF f, H, D
    <2> QED
      BY <1>4, <1>5, FS_Surjection
  <1>7. G \subseteq H /\ \A e \in G : After(token, e)
    BY DEF Groups
  <1>8. \A h \in H : h \in Names /\ h # <<>>
    BY <1>1, <1>4, AskedIs, GroupIs
  <1>9. E \subseteq K \cup G
    BY <1>3, ListIs DEF Listed, Entries
  <1> HIDE DEF C, D, H, G, f, E
  <1>10. IsFiniteSet(keys \cup H)
    BY <1>2, <1>6, FS_Union
  <1>11. E \in SUBSET (keys \cup H)
    BY <1>7, <1>9
  <1>12. IsFiniteSet(E)
    BY <1>10, <1>11, FS_Subset
  <1>13. E \in SUBSET Names /\ <<>> \notin E
    BY <1>1, <1>8, <1>11
  <1>14. \A e \in E : After(token, e)
    BY <1>7, <1>9
  <1> QED
    BY <1>12, <1>13, <1>14 DEF E

\* A key that is there has its entry on the pages from any token before it.
LEMMA WantedListed ==
    ASSUME KeysOK, NEW api \in Apis, NEW prefix \in AskedPrefixes, NEW delim \in BOOLEAN, NEW token \in Names,
           delim => api \in {"v1", "v2"}, NEW k \in keys, IsPrefix(prefix, k),
           api = "versions" => PrefixMatches(ObjKey(k), prefix),
           After(token, EntryOf(prefix, delim, k))
    PROVE  EntryOf(prefix, delim, k) \in Listed(api, prefix, delim, token)
  <1>1. k \in Names /\ prefix \in Names
    BY KeyIs, AskedIs
  <1>2. CASE api \in {"v1", "v2"}
    <2>1. k \in ListWithMeta(DirPrefix(prefix))
      BY FoundBelow, ListIs
    <2>2. CASE delim /\ HasGroup(prefix, k)
      <3> DEFINE g == Group(prefix, k)
      <3>1. g \in Names /\ IsPrefix(g, k) /\ EntryOf(prefix, delim, k) = g
        BY <1>1, <2>2, GroupIs DEF EntryOf
      <3> HIDE DEF g
      <3>2. After(token, g) /\ (g = k \/ Before(g, k))
        BY <1>1, <3>1, PrefixBefore
      <3>3. After(token, k)
        BY <1>1, <3>1, <3>2, BeforeTransitive DEF After
      <3>4. k \in Candidates(prefix, token)
        BY <2>1, <3>3 DEF Candidates
      <3>5. g \in Groups(prefix, token)
        BY <2>2, <3>2, <3>4 DEF Groups, g
      <3> QED
        BY <1>2, <2>2, <3>1, <3>5 DEF Listed, Entries
    <2>3. CASE ~ (delim /\ HasGroup(prefix, k))
      <3>1. EntryOf(prefix, delim, k) = k
        BY <2>3 DEF EntryOf
      <3>2. k \in Candidates(prefix, token)
        BY <2>1, <3>1 DEF Candidates
      <3> QED
        BY <1>2, <2>3, <3>1, <3>2 DEF Listed, Entries
    <2> QED
      BY <2>2, <2>3
  <1>3. CASE api \notin {"v1", "v2"}
    <2>1. EntryOf(prefix, delim, k) = k
      BY <1>3 DEF EntryOf
    <2>2. CASE api = "versions"
      BY <1>3, <2>1, <2>2, ListIs DEF Listed
    <2>3. CASE api # "versions"
      BY <1>3, <2>1, <2>3 DEF Listed
    <2> QED
      BY <2>2, <2>3
  <1> QED
    BY <1>2, <1>3

\* A walk: what it has got ends in its token and is in order, unless its pages
\* overlap, and every key that was there all the time is in it, or ahead.
Overlapping(api, delim, enc) == api = "v1" /\ delim /\ enc

Walking(api, prefix, delim, enc, max, token, got, done, steady) ==
    /\ api \in Apis /\ prefix \in AskedPrefixes /\ delim \in BOOLEAN /\ max \in Nat /\ done \in BOOLEAN
    /\ enc \in BOOLEAN /\ (delim => api \in {"v1", "v2"})
    /\ steady \subseteq keys
    /\ got \in Seq(Names) /\ token \in Names
    /\ ~ Overlapping(api, delim, enc) =>
          /\ Increasing(got)
          /\ IF token = NoToken THEN done \/ got = <<>>
             ELSE Len(got) > 0 /\ token = got[Len(got)]
    /\ max > 0 => \A k \in steady :
          IsPrefix(prefix, k) /\ (api = "versions" => PrefixMatches(ObjKey(k), prefix)) =>
              Contains(got, EntryOf(prefix, delim, k)) \/ (~ done /\ After(token, EntryOf(prefix, delim, k)))

Walk(api, prefix, delim, enc, max, token, got, done, steady) ==
    [api |-> api, prefix |-> prefix, delim |-> delim, max |-> max, enc |-> enc,
     token |-> token, got |-> got, done |-> done, steady |-> steady]

ListingInv ==
    /\ KeysOK
    /\ \/ walk = NoWalk
       \/ \E api, prefix, delim, enc, max, token, got, done, steady :
             /\ walk = Walk(api, prefix, delim, enc, max, token, got, done, steady)
             /\ Walking(api, prefix, delim, enc, max, token, got, done, steady)

LEMMA WalkIs ==
    ASSUME NEW api \in Apis, NEW prefix, NEW delim, NEW enc, NEW max, NEW token, NEW got, NEW done, NEW steady,
           walk = Walk(api, prefix, delim, enc, max, token, got, done, steady)
    PROVE  /\ walk # NoWalk /\ walk.api = api /\ walk.prefix = prefix /\ walk.delim = delim /\ walk.enc = enc /\ walk.max = max
           /\ walk.token = token /\ walk.got = got /\ walk.done = done /\ walk.steady = steady
  <1>1. /\ walk.api = api /\ walk.prefix = prefix /\ walk.delim = delim /\ walk.enc = enc /\ walk.max = max
        /\ walk.token = token /\ walk.got = got /\ walk.done = done /\ walk.steady = steady
    BY DEF Walk
  <1>2. NoWalk.api = "none" /\ api # "none"
    BY DEF NoWalk, Apis
  <1> QED
    BY <1>1, <1>2

\* What is got and the entries behind its end, in order.
LEMMA Joined ==
    ASSUME NEW a \in Seq(Names), NEW b \in Seq(Names)
    PROVE  /\ a \o b \in Seq(Names) /\ Len(a \o b) = Len(a) + Len(b)
           /\ Increasing(a) /\ Increasing(b) /\ (Len(a) > 0 => \A j \in 1..Len(b) : Before(a[Len(a)], b[j])) =>
                 Increasing(a \o b)
           /\ \A e : Contains(a, e) \/ Contains(b, e) => Contains(a \o b, e)
           /\ Len(b) > 0 => (a \o b)[Len(a \o b)] = b[Len(b)]
  <1> DEFINE c == a \o b
             m == Len(a)
             n == Len(b)
  <1>1. m \in Nat /\ n \in Nat /\ (\A i \in 1..m : a[i] \in Names) /\ \A i \in 1..n : b[i] \in Names
    BY ElementOfSeq
  <1>2. c \in Seq(Names) /\ Len(c) = m + n
    BY ConcatProperties, Zenon
  <1>3. \A i \in 1..(m + n) : c[i] = IF i <= m THEN a[i] ELSE b[i - m]
    BY ConcatProperties, Zenon
  <1> HIDE DEF c
  <1>4. \A i \in 1..m : i \in 1..(m + n) /\ c[i] = a[i]
    BY <1>1, <1>3
  <1>5. ASSUME NEW i \in 1..n PROVE m + i \in 1..(m + n) /\ c[m + i] = b[i]
    <2>1. m + i \in 1..(m + n) /\ ~ (m + i <= m) /\ (m + i) - m = i
      BY <1>1
    <2> QED
      BY <1>3, <2>1
  <1>6. ASSUME Increasing(a), Increasing(b), m > 0 => \A j \in 1..n : Before(a[m], b[j]),
               NEW i \in 1..(m + n), NEW j \in 1..(m + n), i < j
        PROVE  Before(c[i], c[j])
    <2>1. CASE j <= m
      <3>1. i \in 1..m /\ j \in 1..m
        BY <1>1, <1>6, <2>1
      <3> QED
        BY <1>4, <1>6, <3>1 DEF Increasing
    <2>2. CASE i <= m /\ ~ (j <= m)
      <3>1. i \in 1..m /\ j - m \in 1..n /\ m > 0 /\ m \in 1..m
        BY <1>1, <2>2
      <3>2. c[i] = a[i] /\ c[j] = b[j - m]
        BY <1>3, <2>2
      <3>3. Before(a[m], b[j - m])
        BY <1>6, <3>1
      <3>4. i = m \/ Before(a[i], a[m])
        <4>1. i = m \/ i < m
          BY <1>1, <2>2
        <4> QED
          BY <1>6, <3>1, <4>1 DEF Increasing
      <3>5. a[i] \in Names /\ a[m] \in Names /\ b[j - m] \in Names
        BY <1>1, <3>1
      <3>6. Before(a[i], b[j - m])
        BY <3>3, <3>4, <3>5, BeforeTransitive
      <3> QED
        BY <3>2, <3>6
    <2>3. CASE ~ (i <= m)
      <3>1. i - m \in 1..n /\ j - m \in 1..n /\ i - m < j - m /\ ~ (j <= m)
        BY <1>1, <1>6, <2>3
      <3>2. c[i] = b[i - m] /\ c[j] = b[j - m]
        BY <1>3, <2>3, <3>1
      <3>3. Before(b[i - m], b[j - m])
        BY <1>6, <3>1 DEF Increasing
      <3> QED
        BY <3>2, <3>3
    <2> QED
      BY <2>1, <2>2, <2>3
  <1>7. ASSUME NEW e PROVE Contains(a, e) \/ Contains(b, e) => Contains(c, e)
    BY <1>2, <1>4, <1>5 DEF Contains
  <1>8. n > 0 => c[Len(c)] = b[n]
    <2>1. n > 0 => n \in 1..n
      BY <1>1
    <2> QED
      BY <1>2, <1>5, <2>1
  <1>9. Increasing(a) /\ Increasing(b) /\ (m > 0 => \A j \in 1..n : Before(a[m], b[j])) => Increasing(c)
    BY <1>2, <1>6 DEF Increasing
  <1> QED
    BY <1>2, <1>7, <1>8, <1>9 DEF c

LEMMA ListingStart ==
    ASSUME ListingInit
    PROVE  ListingInv
  BY DEF ListingInit, ListingInv, KeysOK

LEMMA StartWalkStep ==
    ASSUME ListingInv, NEW api \in Apis, NEW prefix \in AskedPrefixes, NEW delim \in BOOLEAN, NEW enc \in BOOLEAN, NEW max \in PageSizes,
           StartWalk(api, prefix, delim, max, enc)
    PROVE  ListingInv'
  <1>1. /\ KeysOK /\ (delim => api \in {"v1", "v2"})
        /\ keys' = keys /\ walk' = Walk(api, prefix, delim, enc, max, NoToken, <<>>, FALSE, keys)
    BY DEF ListingInv, StartWalk, Walk
  <1>2. max \in Nat
    BY ListingAssumption
  <1>3. <<>> \in Seq(Names) /\ Increasing(<<>>) /\ NoToken \in Names
    <2>1. <<>> \in Seq(Names) /\ Len(<<>>) = 0 /\ <<>> \in Names
      BY DEF Names
    <2> QED
      BY <2>1 DEF Increasing, NoToken
  <1>4. Walking(api, prefix, delim, enc, max, NoToken, <<>>, FALSE, keys)
    BY <1>1, <1>2, <1>3 DEF Walking, After
  <1>5. Walking(api, prefix, delim, enc, max, NoToken, <<>>, FALSE, keys)'
    BY <1>1, <1>4 DEF Walking
  <1>6. KeysOK'
    BY <1>1 DEF KeysOK
  <1>7. walk' = Walk(api, prefix, delim, enc, max, NoToken, <<>>, FALSE, keys)'
    BY <1>1 DEF Walk
  <1> QED
    BY <1>1, <1>5, <1>6, <1>7 DEF ListingInv

LEMMA ChangeKeysStep ==
    ASSUME ListingInv, NEW k \in Universe, ChangeKeys(k)
    PROVE  ListingInv'
  <1>1. keys' = (IF k \in keys THEN keys \ {k} ELSE keys \cup {k})
    BY DEF ChangeKeys
  <1>2. KeysOK'
    BY <1>1 DEF KeysOK, ListingInv
  <1>3. CASE walk = NoWalk
    BY <1>2, <1>3 DEF ChangeKeys, ListingInv
  <1>4. CASE walk # NoWalk
    <2>1. PICK api, prefix, delim, enc, max, token, got, done, steady :
             /\ walk = Walk(api, prefix, delim, enc, max, token, got, done, steady)
             /\ Walking(api, prefix, delim, enc, max, token, got, done, steady)
      BY <1>4 DEF ListingInv
    <2>2. walk' = [walk EXCEPT !.steady = @ \ {k}]
      BY <1>4 DEF ChangeKeys
    <2> DEFINE rest == steady \ {k}
    <2>3. walk' = Walk(api, prefix, delim, enc, max, token, got, done, rest)
      BY <2>1, <2>2 DEF Walk
    <2>4. rest \subseteq keys' /\ rest \subseteq steady
      BY <1>1, <2>1 DEF Walking
    <2> HIDE DEF rest
    <2>5. Walking(api, prefix, delim, enc, max, token, got, done, rest)'
      BY <2>1, <2>4 DEF Walking
    <2> QED
      BY <1>2, <2>3, <2>5 DEF ListingInv
  <1> QED
    BY <1>3, <1>4

\* The greatest place of a set of places that holds the last one is the last.
LEMMA LastPlace ==
    ASSUME NEW n \in Nat, NEW x \in 1..n, n <= x
    PROVE  x = n
  OBVIOUS

\* NextMarker is an entry of the page, and the last one when the entries are
\* compared as they are.
LEMMA MarkerIs ==
    ASSUME NEW g \in Seq(Names), Len(g) > 0, Increasing(g), NEW prefix, NEW enc \in BOOLEAN
    PROVE  \E i \in 1..Len(g) : NextMarker(prefix, g, enc) = g[i] /\ (~ enc => i = Len(g))
  <1> DEFINE n == Len(g)
             objs == {i \in DOMAIN g : ~ HasGroup(prefix, g[i])}
             pfxs == {i \in DOMAIN g : HasGroup(prefix, g[i])}
             o == Max(objs)
             f == Max(pfxs)
             shown(k) == IF enc THEN UrlEncode(k) ELSE k
             marker == NextMarker(prefix, g, enc)
  <1>1. n \in Nat /\ n \in 1..n /\ DOMAIN g = 1..n /\ \A i \in 1..n : g[i] \in Names
    BY ElementOfSeq
  <1>2. objs \subseteq 1..n /\ pfxs \subseteq 1..n /\ (\A i \in 1..n : i \in objs \/ i \in pfxs)
        /\ objs \cap pfxs = {}
    BY <1>1
  <1>3. marker = IF pfxs = {} THEN g[o] ELSE IF objs = {} THEN g[f]
                 ELSE IF Before(shown(g[f]), shown(g[o])) THEN g[o] ELSE g[f]
    BY DEF NextMarker
  <1> HIDE DEF objs, pfxs, marker, n
  <1>4. objs # {} => o \in objs /\ \A j \in objs : j <= o
    <2>1. objs # {} => \E i \in objs : \A j \in objs : j <= i
      BY <1>1, <1>2, GreatestPlace
    <2>2. objs # {} => \E i \in objs : \A j \in objs : i >= j
      BY <1>1, <1>2, <2>1
    <2>3. objs # {} => o \in objs /\ \A j \in objs : o >= j
      BY <2>2 DEF Max
    <2> QED
      BY <1>1, <1>2, <2>3
  <1>5. pfxs # {} => f \in pfxs /\ \A j \in pfxs : j <= f
    <2>1. pfxs # {} => \E i \in pfxs : \A j \in pfxs : j <= i
      BY <1>1, <1>2, GreatestPlace
    <2>2. pfxs # {} => \E i \in pfxs : \A j \in pfxs : i >= j
      BY <1>1, <1>2, <2>1
    <2>3. pfxs # {} => f \in pfxs /\ \A j \in pfxs : f >= j
      BY <2>2 DEF Max
    <2> QED
      BY <1>1, <1>2, <2>3
  <1> HIDE DEF o, f
  <1>6. CASE pfxs = {} \/ objs = {}
    <2>1. CASE pfxs = {}
      <3>1. n \in objs
        BY <1>1, <1>2, <2>1
      <3>2. o \in objs /\ n <= o
        BY <1>4, <3>1
      <3>3. o \in 1..n
        BY <1>2, <3>2
      <3>4. o = n
        BY <1>1, <3>2, <3>3, LastPlace
      <3> QED
        BY <1>3, <2>1, <3>3, <3>4 DEF marker, n
    <2>2. CASE pfxs # {} /\ objs = {}
      <3>1. n \in pfxs
        BY <1>1, <1>2, <2>2
      <3>2. f \in pfxs /\ n <= f
        BY <1>5, <3>1
      <3>3. f \in 1..n
        BY <1>2, <3>2
      <3>4. f = n
        BY <1>1, <3>2, <3>3, LastPlace
      <3> QED
        BY <1>3, <2>2, <3>3, <3>4 DEF marker, n
    <2> QED
      BY <1>6, <2>1, <2>2
  <1>7. CASE pfxs # {} /\ objs # {}
    <2>1. o \in 1..n /\ f \in 1..n /\ o # f /\ (o = n \/ f = n)
      <3>1. o \in objs /\ f \in pfxs
        BY <1>4, <1>5, <1>7
      <3>2. o \in 1..n /\ f \in 1..n /\ o # f
        BY <1>2, <3>1
      <3>3. n \in objs \/ n \in pfxs
        BY <1>1, <1>2
      <3>4. n <= o \/ n <= f
        BY <1>4, <1>5, <1>7, <3>3
      <3> QED
        BY <1>1, <3>2, <3>4, LastPlace
    <2>2. marker = IF Before(shown(g[f]), shown(g[o])) THEN g[o] ELSE g[f]
      BY <1>3, <1>7
    <2>3. CASE enc
      BY <2>1, <2>2, <2>3 DEF marker, n
    <2>4. CASE ~ enc
      <3>1. marker = IF Before(g[f], g[o]) THEN g[o] ELSE g[f]
        BY <2>2, <2>4
      <3>2. CASE o = n
        <4>1. f < o
          BY <1>1, <2>1, <3>2
        <4>2. Before(g[f], g[o])
          BY <2>1, <4>1 DEF Increasing, n
        <4> QED
          BY <2>1, <3>1, <3>2, <4>2 DEF marker, n
      <3>3. CASE f = n
        <4>1. o < f
          BY <1>1, <2>1, <3>3
        <4>2. Before(g[o], g[f])
          BY <2>1, <4>1 DEF Increasing, n
        <4>3. ~ Before(g[f], g[o])
          BY <1>1, <2>1, <4>2, BeforeTransitive, NotBeforeItself
        <4> QED
          BY <2>1, <3>1, <3>3, <4>3 DEF marker, n
      <3> QED
        BY <2>1, <3>2, <3>3
    <2> QED
      BY <2>3, <2>4
  <1> QED
    BY <1>6, <1>7

\* The answer of each call.
LEMMA PageOfWalk ==
    ASSUME KeysOK, NEW api \in Apis, NEW prefix \in AskedPrefixes, NEW delim \in BOOLEAN, NEW enc \in BOOLEAN, NEW max \in Nat,
           NEW token, NEW got, NEW done, NEW steady,
           walk = Walk(api, prefix, delim, enc, max, token, got, done, steady)
    PROVE  PageFor(Listed(api, prefix, delim, token), max, ~ Overlapping(api, delim, enc), Page(walk))
  <1> DEFINE E == Listed(api, prefix, delim, token)
             page == Page(walk)
             q == Sorted(E)
             n == IF Len(q) < max THEN Len(q) ELSE max
             p == ListObjectsV2(prefix, delim, max, token)
  <1>1. /\ walk.api = api /\ walk.prefix = prefix /\ walk.delim = delim /\ walk.enc = enc /\ walk.max = max /\ walk.token = token
    BY WalkIs
  <1>2. E \in SUBSET Names /\ IsFiniteSet(E) /\ <<>> \notin E
    BY ListedIs
  <1>3. CASE api \in {"v1", "v2"}
    <2>1. E = Entries(prefix, delim, token)
      BY <1>3 DEF Listed
    <2>2. p = [got |-> SubSeq(q, 1, n), truncated |-> max > 0 /\ n < Len(q),
               next |-> IF max > 0 /\ n < Len(q) THEN q[n] ELSE NoToken]
      BY <2>1 DEF ListObjectsV2
    <2> HIDE DEF E, p
    <2>3. PageFor(E, max, TRUE, p)
      BY <1>2, <2>2, PageIs
    <2>4. CASE api = "v2"
      BY <1>1, <2>3, <2>4 DEF Page, p, E, PageFor
    <2>5. CASE api = "v1" /\ ~ p.truncated
      <3>1. page = p
        BY <1>1, <2>5 DEF Page, ListObjects, p
      <3> QED
        BY <2>3, <3>1 DEF E, PageFor
    <2>6. CASE api = "v1" /\ p.truncated
      <3> DEFINE g == p.got
                 x == IF delim THEN NextMarker(prefix, g, enc) ELSE Last(g)
                 r == [p EXCEPT !.next = x]
      <3>1. page = r
        BY <1>1, <2>6 DEF Page, ListObjects, p
      <3>2. max > 0
        <4>1. p.truncated = (max > 0 /\ n < Len(q))
          BY <2>2
        <4> QED
          BY <2>6, <4>1
      <3>3. /\ p = [got |-> g, truncated |-> p.truncated, next |-> p.next]
            /\ g \in Seq(E) /\ Increasing(g) /\ Len(g) > 0 /\ p.next = g[Len(g)] /\ p.next # NoToken
            /\ \A e \in E : Contains(g, e) \/ Before(p.next, e)
        BY <2>3, <2>6, <3>2 DEF PageFor
      <3> HIDE DEF p
      <3>4. g \in Seq(Names)
        BY <1>2, <3>3
      <3> HIDE DEF g
      <3>5. PICK i \in 1..Len(g) : x = g[i] /\ (~ Overlapping(api, delim, enc) => i = Len(g))
        <4>1. Len(g) \in 1..Len(g)
          BY <3>3, <3>4
        <4>2. CASE delim
          BY <2>6, <3>3, <3>4, <4>1, <4>2, MarkerIs DEF Overlapping
        <4>3. CASE ~ delim
          BY <4>1, <4>3 DEF Last
        <4> QED
          BY <4>2, <4>3
      <3>6. r = [got |-> g, truncated |-> p.truncated, next |-> x]
        <4> HIDE DEF x
        <4> QED
          BY <3>3
      <3>7. x \in E /\ x \in Names /\ x # NoToken /\ Contains(g, x)
        <4>1. g[i] \in E
          BY <3>3, ElementOfSeq
        <4> HIDE DEF x
        <4> QED
          BY <1>2, <3>5, <4>1 DEF Contains, NoToken
      <3>8. ASSUME NEW e \in E PROVE Contains(g, e) \/ Before(x, e)
        <4>1. CASE Contains(g, e)
          BY <4>1
        <4>2. CASE Before(p.next, e)
          <5>1. Len(g) \in Nat /\ (i = Len(g) \/ i < Len(g)) /\ Len(g) \in 1..Len(g)
            BY <3>3, <3>4
          <5>2. x = p.next \/ Before(x, p.next)
            BY <3>3, <3>5, <5>1 DEF Increasing
          <5>3. p.next \in Names /\ e \in Names
            BY <1>2, <3>3, <3>4, <3>8, <5>1, ElementOfSeq
          <5> HIDE DEF x
          <5> QED
            BY <3>7, <4>2, <5>2, <5>3, BeforeTransitive
        <4> QED
          BY <3>3, <3>8, <4>1, <4>2
      <3> HIDE DEF x
      <3>9. r.got = g /\ r.truncated = p.truncated /\ r.next = x
        BY <3>6
      <3> HIDE DEF r
      <3>10. PageFor(E, max, ~ Overlapping(api, delim, enc), r)
        BY <2>6, <3>3, <3>5, <3>6, <3>7, <3>8, <3>9 DEF PageFor
      <3> QED
        BY <3>1, <3>10 DEF E
    <2> QED
      BY <1>3, <2>4, <2>5, <2>6
  <1>4. CASE api \in {"versions", "buckets"}
    <2>1. page = PageOf(q, max)
      BY <1>1, <1>4 DEF Page, ListObjectVersions, ListBuckets, Listed
    <2>2. page = [got |-> SubSeq(q, 1, n), truncated |-> n < Len(q),
                  next |-> IF 0 < n /\ n < Len(q) THEN q[n] ELSE NoToken]
      BY <2>1 DEF PageOf
    <2> HIDE DEF E, page
    <2>3. PageFor(E, max, TRUE, page)
      BY <1>2, <2>2, PageIs
    <2> QED
      BY <2>3 DEF E, page, PageFor
  <1> QED
    BY <1>3, <1>4 DEF Apis

LEMMA FetchPageStep ==
    ASSUME ListingInv, FetchPage
    PROVE  ListingInv'
  <1>1. PICK api, prefix, delim, enc, max, token, got, done, steady :
           /\ walk = Walk(api, prefix, delim, enc, max, token, got, done, steady)
           /\ Walking(api, prefix, delim, enc, max, token, got, done, steady)
    BY DEF FetchPage, ListingInv
  <1>2. /\ KeysOK /\ api \in Apis /\ prefix \in AskedPrefixes /\ delim \in BOOLEAN /\ max \in Nat
        /\ enc \in BOOLEAN /\ (delim => api \in {"v1", "v2"})
        /\ steady \subseteq keys /\ got \in Seq(Names) /\ token \in Names
    BY <1>1 DEF ListingInv, Walking
  <1>3. walk.done = done /\ walk.got = got
    BY <1>1, <1>2, WalkIs
  <1>4. ~ done /\ keys' = keys
    BY <1>3 DEF FetchPage
  <1> DEFINE page == Page(walk)
             E == Listed(api, prefix, delim, token)
             new == page.got
             next == page.next
             more == got \o new
             over == ~ page.truncated \/ next = NoToken
             exact == ~ Overlapping(api, delim, enc)
  <1>5. PageFor(E, max, exact, page)
    BY <1>1, <1>2, PageOfWalk
  <1>6. E \in SUBSET Names /\ \A e \in E : After(token, e)
    BY <1>2, ListedIs
  <1>7. walk' = Walk(api, prefix, delim, enc, max, next, more, over, steady)
    <2>1. walk' = [walk EXCEPT !.got = @ \o new, !.token = next, !.done = over]
      BY DEF FetchPage
    <2> HIDE DEF new, next, over, page
    <2> QED
      BY <1>1, <2>1 DEF Walk
  <1>8. /\ new \in Seq(E) /\ Increasing(new)
        /\ next = NoToken /\ max > 0 => \A e \in E : Contains(new, e)
        /\ next # NoToken => /\ page.truncated /\ Len(new) > 0 /\ Contains(new, next)
                             /\ exact => next = new[Len(new)]
                             /\ \A e \in E : Contains(new, e) \/ Before(next, e)
    BY <1>5 DEF PageFor
  <1> HIDE DEF page, E, exact
  <1>9. over <=> next = NoToken
    BY <1>8
  <1> HIDE DEF new, next, over
  <1>10. new \in Seq(Names) /\ \A j \in 1..Len(new) : new[j] \in E
    BY <1>6, <1>8
  <1>11. exact => Increasing(got) /\ (Len(got) > 0 => token # NoToken /\ token = got[Len(got)])
    <2>1. exact => /\ Increasing(got)
                   /\ IF token = NoToken THEN got = <<>> ELSE Len(got) > 0 /\ token = got[Len(got)]
      BY <1>1, <1>4 DEF Walking, exact
    <2>2. Len(<<>>) = 0
      OBVIOUS
    <2> QED
      BY <2>1, <2>2
  <1>12. exact => (Len(got) > 0 => \A j \in 1..Len(new) : Before(got[Len(got)], new[j]))
    BY <1>6, <1>10, <1>11 DEF After
  <1>13. /\ more \in Seq(Names) /\ (exact => Increasing(more)) /\ Len(more) = Len(got) + Len(new)
         /\ (\A e : Contains(got, e) \/ Contains(new, e) => Contains(more, e))
         /\ Len(new) > 0 => more[Len(more)] = new[Len(new)]
    BY <1>2, <1>8, <1>10, <1>11, <1>12, Joined
  <1>23. next \in Names
    <2>1. CASE next = NoToken
      BY <2>1 DEF NoToken, Names
    <2>2. CASE next # NoToken
      BY <1>8, <1>10, <2>2, ElementOfSeq DEF Contains
    <2> QED
      BY <2>1, <2>2
  <1>14. Len(got) \in Nat /\ Len(new) \in Nat
    BY <1>2, <1>10
  <1> HIDE DEF more
  <1>15. exact => IF next = NoToken THEN over \/ more = <<>> ELSE Len(more) > 0 /\ next = more[Len(more)]
    BY <1>8, <1>9, <1>13, <1>14
  <1>16. ASSUME max > 0, NEW k \in steady, IsPrefix(prefix, k), api = "versions" => PrefixMatches(ObjKey(k), prefix)
         PROVE  \/ Contains(more, EntryOf(prefix, delim, k))
                \/ ~ over /\ After(next, EntryOf(prefix, delim, k))
    <2> DEFINE e == EntryOf(prefix, delim, k)
    <2>1. Contains(got, e) \/ After(token, e)
      BY <1>1, <1>16 DEF Walking
    <2>2. CASE Contains(got, e)
      BY <1>13, <2>2
    <2>3. CASE After(token, e)
      <3>1. e \in E
        BY <1>2, <1>16, <2>3, WantedListed DEF E
      <3> HIDE DEF e
      <3>2. next = NoToken => Contains(new, e)
        BY <1>8, <1>16, <3>1
      <3>3. next # NoToken => Contains(new, e) \/ (~ over /\ After(next, e))
        BY <1>8, <1>9, <3>1 DEF After
      <3>4. Contains(more, e) \/ (~ over /\ After(next, e))
        BY <1>13, <3>2, <3>3
      <3> QED
        BY <3>4 DEF e
    <2> QED
      BY <2>1, <2>2, <2>3
  <1>17. over \in BOOLEAN
    BY DEF over
  <1>18. Walking(api, prefix, delim, enc, max, next, more, over, steady)
    BY <1>2, <1>13, <1>15, <1>16, <1>17, <1>23 DEF Walking, exact
  <1>19. PICK next2, more2, over2 :
           /\ Walking(api, prefix, delim, enc, max, next2, more2, over2, steady)
           /\ walk' = Walk(api, prefix, delim, enc, max, next2, more2, over2, steady)
    BY <1>7, <1>18
  <1>20. Walking(api, prefix, delim, enc, max, next2, more2, over2, steady)'
    BY <1>4, <1>19 DEF Walking
  <1>21. KeysOK'
    BY <1>2, <1>4 DEF KeysOK
  <1>22. walk' = Walk(api, prefix, delim, enc, max, next2, more2, over2, steady)'
    BY <1>19 DEF Walk
  <1> QED
    BY <1>20, <1>21, <1>22 DEF ListingInv

LEMMA ListingKeeps ==
    ASSUME ListingInv, [ListingNext]_listingVars
    PROVE  ListingInv'
  <1>1. ASSUME NEW api \in Apis, NEW prefix \in AskedPrefixes, NEW delim \in BOOLEAN, NEW enc \in BOOLEAN, NEW max \in PageSizes,
               StartWalk(api, prefix, delim, max, enc)
        PROVE  ListingInv'
    BY <1>1, StartWalkStep
  <1>2. CASE FetchPage
    BY <1>2, FetchPageStep
  <1>3. ASSUME NEW k \in Universe, ChangeKeys(k) PROVE ListingInv'
    BY <1>3, ChangeKeysStep
  <1>4. CASE UNCHANGED listingVars
    BY <1>4 DEF listingVars, ListingInv, KeysOK, Walking, Walk
  <1> QED
    BY <1>1, <1>2, <1>3, <1>4 DEF ListingNext

LEMMA WalkExact ==
    ASSUME ListingInv, walk # NoWalk
    PROVE  /\ \/ MarkerFallsBack(walk)
              \/ \A i \in 1..(Len(walk.got) - 1) : Before(walk.got[i], walk.got[i + 1])
           /\ walk.done /\ walk.max > 0 =>
                 \A k \in Wanted(walk) : MissedByVersions(walk, k) \/ Contains(walk.got, EntryFor(walk, k))
  <1>1. PICK api, prefix, delim, enc, max, token, got, done, steady :
           /\ walk = Walk(api, prefix, delim, enc, max, token, got, done, steady)
           /\ Walking(api, prefix, delim, enc, max, token, got, done, steady)
    BY DEF ListingInv
  <1>2. /\ walk.api = api /\ walk.prefix = prefix /\ walk.delim = delim /\ walk.enc = enc /\ walk.max = max
        /\ walk.got = got /\ walk.done = done /\ walk.steady = steady
    BY <1>1, WalkIs DEF Walking
  <1>3. ASSUME ~ MarkerFallsBack(walk), NEW i \in 1..(Len(got) - 1) PROVE Before(got[i], got[i + 1])
    <2>1. ~ Overlapping(api, delim, enc)
      BY <1>2, <1>3 DEF MarkerFallsBack, Overlapping
    <2>2. got \in Seq(Names) /\ Len(got) \in Nat /\ Increasing(got)
      BY <1>1, <2>1 DEF Walking
    <2>3. i \in 1..Len(got) /\ i + 1 \in 1..Len(got) /\ i < i + 1
      BY <2>2
    <2> QED
      BY <2>2, <2>3 DEF Increasing
  <1>4. ASSUME done, max > 0, NEW k \in Wanted(walk), ~ MissedByVersions(walk, k)
        PROVE  Contains(got, EntryFor(walk, k))
    <2>1. k \in steady /\ IsPrefix(prefix, k) /\ (api = "versions" => PrefixMatches(ObjKey(k), prefix))
      BY <1>2, <1>4 DEF Wanted, MissedByVersions
    <2>2. EntryFor(walk, k) = EntryOf(prefix, delim, k)
      BY <1>2 DEF EntryFor, EntryOf
    <2> QED
      BY <1>1, <1>4, <2>1, <2>2 DEF Walking
  <1> QED
    BY <1>2, <1>3, <1>4

\* A walk through the pages of a listing ends with every key that was there
\* from its first page to its last, and repeats no entry and goes forward, for
\* any keys, prefixes, page sizes and escaped symbols, whatever other clients
\* do between two pages (list_objects_v2, list_objects, list_object_versions,
\* list_buckets), but for the keys that list_object_versions misses and for the
\* repetitions of list_objects with a delimiter and encoded keys.
THEOREM WalksAreExact == ListingSpec => []WalkIsExact
  <1>1. ListingInit => ListingInv
    BY ListingStart
  <1>2. ListingInv /\ [ListingNext]_listingVars => ListingInv'
    BY ListingKeeps
  <1>3. ListingInv => WalkIsExact
    BY WalkExact DEF WalkIsExact
  <1> QED
    BY <1>1, <1>2, <1>3, PTL DEF ListingSpec
=============================================================================
