--------------------------- MODULE ClusterProofs ---------------------------
(***************************************************************************)
(* What the operations of ClusterWrites promise, proved for any number of  *)
(* shards, callers and failures, with the inspections of ClusterInspect    *)
(* running among them.                                                     *)
(*                                                                         *)
(* All proofs go by induction on the steps of one caller.  A caller's      *)
(* record is only known by its fields (CallTables), so the first lemmas    *)
(* say which fields a step of each kind sets; the frame lemmas (CreateFrame,*)
(* PutFrame, GetFrame, SoloFrame, CalmFrame) then say what a move of one   *)
(* caller needs to keep an invariant, and the step lemmas check this       *)
(* action by action.                                                       *)
(***************************************************************************)
EXTENDS ClusterInspect, FiniteSetTheorems, TLAPS

\* The fields of a caller's record.
CallFields == {"step", "targets", "order", "todo", "placed", "failed", "retried", "again", "data",
               "fields", "primary", "clean"}

\* What holds of the shapes of the variables: the one thing the other
\* invariants need to take records apart.
CallTables ==
    /\ play \in Plays
    /\ faults \in 0..MaxFaults
    /\ bodyOn = [s \in Ids |-> bodyOn[s]] /\ metaOn = [s \in Ids |-> metaOn[s]]
    /\ call = [c \in Callers |-> call[c]]
    /\ \A c \in Callers : DOMAIN call[c] = CallFields /\ call[c].clean \in BOOLEAN

\* No background work: nothing is being repaired, purged or uploaded.
Quiet == repairs = {} /\ purge = {} /\ \A c \in Callers : tracked[c] = NoShard

----------------------------------------------------------------------------
\* Only conditional creations run (CreateOnce's hypothesis).
Creating == OpsUsed \subseteq Creates

\* Caller c stands behind the placeholder that try_insert gave it.
Holding(c) == call[c].step \in {"write", "orphans", "unplace", "remove", "unmark", "done"}

\* The entry belongs to caller c in state r: a placeholder while c writes,
\* c's own entry with c's bytes on every shard once it has committed.
Owns(c, r, entry, bodies) ==
    /\ entry # NoPlace
    /\ IF r.step \in {"unmark", "done"}
       THEN entry.crc = c /\ \A s \in entry.shards : bodies[s] = c
       ELSE entry.crc = NoBody
    /\ r.step = "write" => r.placed \subseteq Ids /\ \A s \in r.placed : bodies[s] = c

\* At most one caller is between a successful try_insert and its end, and the
\* entry is its own.  CreateOnce speaks of answered calls only; what keeps the
\* others out is the placeholder of a call that still writes.
CreateInv ==
    Creating =>
        /\ Quiet
        /\ \A c \in Callers : Holding(c) \/ call[c].step \in {"begin", "insert", "failed"}
        /\ \A c, d \in Callers : Holding(c) /\ Holding(d) => c = d
        /\ \A c \in Callers : Holding(c) => Owns(c, call[c], place, bodyOn)

----------------------------------------------------------------------------
\* Only puts run (AckedPutsReadable's hypothesis).
Putting == OpsUsed \subseteq {"put", "put_meta", "put_file"}

\* The steps a put goes through.
PutSteps == {"begin", "write", "orphans", "clean", "unmark", "done", "failed"}

\* Every shard of S has a readable copy.
Kept(S) == S \subseteq Ids /\ \A s \in S : Readable(bodyOn[s])

\* Caller c has committed and ran undisturbed up to now.
Acked(c) == call[c].clean /\ call[c].step \in {"unmark", "done"}

\* From the first undisturbed commit on the entry names readable copies, and
\* no call is at the step that deletes: cleanup_orphaned_writes finds the key
\* in the catalog and steps back.  The copies that other calls have placed are
\* readable too, since their commit replaces the entry.
PutInv ==
    Putting =>
        /\ Quiet
        /\ \A c \in Callers : call[c].step \in PutSteps
        /\ \A c \in Callers : call[c].clean /\ call[c].step = "write" => Kept(call[c].placed)
        /\ (\E c \in Callers : Acked(c)) =>
              /\ place.shards # {} /\ Kept(place.shards)
              /\ \A d \in Callers : /\ call[d].step # "clean"
                                    /\ call[d].step = "write" => Kept(call[d].placed)

----------------------------------------------------------------------------
\* Only reads run and no shard has failed (ReadRepairRestores' hypothesis).
Getting == OpsUsed = {"get"} /\ faults = MaxFaults

\* The shard whose copy was corrupt at the start.
Broken == IF play.before = "corrupt" THEN {HomeShard} ELSE {}

\* The corrupt copy has been replaced and is in the catalog.
Restored == \A s \in Broken : s \in place.shards /\ bodyOn[s] = OldBody

\* A repair copies from a good shard to the corrupt one, and has written the
\* good bytes before it enters the copy.
RepairSound(r) ==
    /\ DOMAIN r = {"good", "bad", "step", "data", "fields"}
    /\ r.bad \in Broken /\ r.good \in Ids \ Broken /\ bodyOn[r.good] = OldBody
    /\ r.step \in {"read", "write", "enter"}
    /\ r.step = "write" => r.data = OldBody
    /\ r.step = "enter" => bodyOn[r.bad] = OldBody

\* A read has met no corrupt copy but the broken one, and does not ask it
\* again.
Reads(r) ==
    /\ r.step \in {"begin", "read", "done", "failed"}
    /\ r.failed \subseteq Broken /\ (r.step = "begin" => r.failed = {})
    /\ r.step = "read" => r.todo \subseteq Ids /\ r.todo \cap r.failed = {}

\* The record of a catalog entry.
IsEntry(e) == DOMAIN e = {"shards", "crc", "meta"}

\* The other copies stay in the catalog and good while the corrupt one leaves
\* it and comes back.
GoodCopies ==
    /\ \A s \in Ids \ Broken : bodyOn[s] # BadBody /\ (Broken # {} => bodyOn[s] \in {OldBody, NoBody})
    /\ \A s \in Broken : bodyOn[s] \in {BadBody, OldBody}
    /\ Broken # {} => \A s \in InitialShards \ Broken : s \in place.shards /\ bodyOn[s] = OldBody

\* A read that has met the corrupt copy left a repair behind, or the copy is
\* restored.
RepairDue ==
    (\E c \in Callers : call[c].step = "done" /\ call[c].failed # {}) => repairs # {} \/ Restored

\* The state of reads and repairs: what each repair has in hand, and that the
\* last one to finish leaves the copy restored.
GetInv ==
    Getting =>
        /\ purge = {} /\ \A c \in Callers : tracked[c] = NoShard
        /\ Reachable = Ids /\ IsEntry(place)
        /\ \A c \in Callers : Reads(call[c])
        /\ GoodCopies
        /\ \A r \in repairs : RepairSound(r)
        /\ RepairDue

----------------------------------------------------------------------------
\* What Go makes of the callers' records: the mover gets r, the others keep
\* all but their clean flag, which whoever runs at the same time loses.
LEMMA GoSets ==
    ASSUME CallTables, NEW c \in Callers, NEW r, Go(c, r), DOMAIN r = CallFields, r.clean = call[c].clean
    PROVE  /\ call' = [d \in Callers |-> call'[d]]
           /\ \A d \in Callers : DOMAIN call'[d] = CallFields /\ call'[d].clean \in BOOLEAN
           /\ \A f \in CallFields \ {"clean"} : call'[c][f] = r[f]
           /\ call'[c].clean => /\ call[c].clean /\ repairs = {} /\ purge = {}
                                /\ \A d \in Callers \ {c} : ~ Running(d)
           /\ \A d \in Callers \ {c} : /\ \A f \in CallFields \ {"clean"} : call'[d][f] = call[d][f]
                                       /\ call'[d].clean => call[d].clean
                                       /\ Running(d) => ~ call'[d].clean
  <1> DEFINE busy == {d \in Callers \ {c} : Running(d)}
             ok == (r.clean /\ busy = {} /\ repairs = {} /\ purge = {})
             mine == [r EXCEPT !.clean = ok]
             other(d) == IF d \in busy THEN [call[d] EXCEPT !.clean = FALSE] ELSE call[d]
  <1>0. "clean" \in CallFields
    BY DEF CallFields
  <1>1. call' = [d \in Callers |-> IF d = c THEN [r EXCEPT !.clean = r.clean /\ busy = {} /\ repairs = {} /\ purge = {}]
                                   ELSE IF d \in busy THEN [call[d] EXCEPT !.clean = FALSE] ELSE call[d]]
    BY Zenon DEF Go
  <1>2. call'[c] = mine /\ \A d \in Callers \ {c} : call'[d] = other(d)
    BY <1>1
  <1>3. call' = [d \in Callers |-> call'[d]]
    BY <1>1
  <1>4. ok \in BOOLEAN /\ (ok => r.clean /\ busy = {} /\ repairs = {} /\ purge = {})
    OBVIOUS
  <1> HIDE DEF ok
  <1>5. DOMAIN mine = CallFields /\ mine.clean = ok /\ \A f \in CallFields \ {"clean"} : mine[f] = r[f]
    BY <1>0
  <1>6. ASSUME NEW d \in Callers \ {c}
        PROVE  /\ DOMAIN other(d) = CallFields /\ other(d).clean \in BOOLEAN
               /\ \A f \in CallFields \ {"clean"} : other(d)[f] = call[d][f]
               /\ other(d).clean => call[d].clean
               /\ Running(d) => ~ other(d).clean
    <2>1. DOMAIN call[d] = CallFields /\ call[d].clean \in BOOLEAN
      BY DEF CallTables
    <2>2. CASE d \in busy
      BY <1>0, <2>1, <2>2
    <2>3. CASE d \notin busy
      BY <2>1, <2>3
    <2> QED
      BY <2>2, <2>3
  <1>7. ok => call[c].clean /\ repairs = {} /\ purge = {} /\ \A d \in Callers \ {c} : ~ Running(d)
    BY <1>4
  <1> HIDE DEF mine, other, busy
  <1>8. /\ \A d \in Callers : DOMAIN call'[d] = CallFields /\ call'[d].clean \in BOOLEAN
        /\ \A f \in CallFields \ {"clean"} : call'[c][f] = r[f]
    BY <1>2, <1>4, <1>5, <1>6
  <1>9. call'[c].clean => /\ call[c].clean /\ repairs = {} /\ purge = {}
                          /\ \A d \in Callers \ {c} : ~ Running(d)
    BY <1>2, <1>5, <1>7
  <1> QED
    BY <1>2, <1>3, <1>6, <1>8, <1>9

\* The record behind Move.
LEMMA CallMoves ==
    ASSUME CallTables, NEW c \in Callers, NEW step, Move(c, step)
    PROVE  LET r == [call[c] EXCEPT !.step = step]
           IN  /\ Go(c, r) /\ DOMAIN r = CallFields /\ r.clean = call[c].clean /\ r.step = step
               /\ r.placed = call[c].placed /\ r.failed = call[c].failed /\ r.todo = call[c].todo
  <1>1. DOMAIN call[c] = CallFields
    BY DEF CallTables
  <1> QED
    BY <1>1 DEF Move, CallFields

\* The record of a fan-out.
LEMMA FansOut ==
    ASSUME CallTables, NEW c \in Callers, NEW q
    PROVE  LET r == FanOut(c, q)
           IN  /\ DOMAIN r = CallFields /\ r.clean = call[c].clean /\ r.step = "write"
               /\ r.placed = {} /\ r.todo = ToSet(q) /\ r.failed = {}
  <1>1. DOMAIN call[c] = CallFields
    BY DEF CallTables
  <1> QED
    BY <1>1 DEF FanOut, CallFields

\* A record that caller c may move to.
Fit(c, r) == DOMAIN r = CallFields /\ r.clean = call[c].clean
\* Caller c moves.
Moves(c) == \E r : Go(c, r) /\ Fit(c, r)

\* Every record that an action of ClusterWrites moves to has the right fields.
LEMMA EveryMove ==
    ASSUME CallTables, NEW c \in Callers
    PROVE  /\ \A step : Move(c, step) => Moves(c)
           /\ \A q : Fit(c, FanOut(c, q))
           /\ \A q : Fit(c, [FanOut(c, q) EXCEPT !.again = TRUE])
           /\ \A q : Fit(c, Upload(c, q))
           /\ \A a, b : Fit(c, [call[c] EXCEPT !.todo = a, !.placed = b])
           /\ \A a, b : Fit(c, [call[c] EXCEPT !.todo = a, !.failed = b])
           /\ \A a, b, d : Fit(c, [call[c] EXCEPT !.order = a, !.todo = b, !.retried = d])
           /\ \A a, b : Fit(c, [call[c] EXCEPT !.step = a, !.todo = b])
           /\ \A a : Fit(c, [call[c] EXCEPT !.todo = a])
           /\ \A a, b : Fit(c, [call[c] EXCEPT !.step = a, !.data = b])
           /\ \A a, b : Fit(c, [call[c] EXCEPT !.todo = a, !.step = b])
           /\ \A a, b, d : Fit(c, [[call[c] EXCEPT !.todo = a, !.step = b] EXCEPT !.failed = d])
  <1>1. DOMAIN call[c] = CallFields
    BY DEF CallTables
  <1>2. \A r : Go(c, r) /\ Fit(c, r) => Moves(c)
    BY Zenon DEF Moves
  <1>3. \A step : Move(c, step) => Moves(c)
    BY CallMoves, <1>2 DEF Fit
  <1>4. \A q : Fit(c, FanOut(c, q))
    BY FansOut DEF Fit
  <1>5. \A q : Fit(c, [FanOut(c, q) EXCEPT !.again = TRUE])
    BY <1>4 DEF CallFields, Fit
  <1>6. \A q : Fit(c, Upload(c, q))
    BY <1>1 DEF CallFields, Fit, Upload
  <1>7. \A a, b : Fit(c, [call[c] EXCEPT !.todo = a, !.placed = b])
    BY <1>1 DEF CallFields, Fit
  <1>8. \A a, b : Fit(c, [call[c] EXCEPT !.todo = a, !.failed = b])
    BY <1>1 DEF CallFields, Fit
  <1>9. \A a, b, d : Fit(c, [call[c] EXCEPT !.order = a, !.todo = b, !.retried = d])
    BY <1>1 DEF CallFields, Fit
  <1>10. \A a, b : Fit(c, [call[c] EXCEPT !.step = a, !.todo = b])
    BY <1>1 DEF CallFields, Fit
  <1>11. \A a : Fit(c, [call[c] EXCEPT !.todo = a])
    BY <1>1 DEF CallFields, Fit
  <1>14. \A a, b : Fit(c, [call[c] EXCEPT !.step = a, !.data = b])
    BY <1>1 DEF CallFields, Fit
  <1>15. \A a, b : Fit(c, [call[c] EXCEPT !.todo = a, !.step = b])
    BY <1>1 DEF CallFields, Fit
  <1>16. \A a, b, d : Fit(c, [[call[c] EXCEPT !.todo = a, !.step = b] EXCEPT !.failed = d])
    BY <1>1 DEF CallFields, Fit
  <1> QED
    BY <1>3, <1>4, <1>5, <1>6, <1>7, <1>8, <1>9, <1>10, <1>11, <1>14, <1>15, <1>16, Zenon

\* A step of an operation moves its caller.
LEMMA CallSteps ==
    ASSUME CallTables, NEW c \in Callers, CallNext(c)
    PROVE  Moves(c)
  <1>0. \A r : Go(c, r) /\ Fit(c, r) => Moves(c)
    BY Zenon DEF Moves
  <1> USE EveryMove, <1>0
  <1>1. CASE BeginPut(c) \/ BeginCreate(c) \/ CopyCheck(c) \/ CopyInsert(c)
    BY <1>1, Zenon DEF BeginPut, BeginCreate, CopyCheck, CopyInsert
  <1>2. CASE BeginUpload(c) \/ BeginDelete(c) \/ BeginGet(c)
    <2>1. CASE BeginUpload(c)
      BY <2>1, Zenon DEF BeginUpload
    <2>2. CASE BeginDelete(c)
      BY <2>2, Zenon DEF BeginDelete
    <2>3. CASE BeginGet(c)
      <3>1. (\E step : Move(c, step))
            \/ Go(c, [call[c] EXCEPT !.step = "read", !.todo = Resolved, !.again = (place = NoPlace)])
        BY <2>3, Zenon DEF BeginGet
      <3>2. Fit(c, [call[c] EXCEPT !.step = "read", !.todo = Resolved, !.again = (place = NoPlace)])
        BY DEF CallTables, CallFields, Fit
      <3> QED
        BY <3>1, <3>2, Zenon
    <2> QED
      BY <1>2, <2>1, <2>2, <2>3
  <1>3. CASE RetryWrites(c) \/ AllFailed(c) \/ TooFew(c) \/ Orphans(c)
    <2>1. CASE RetryWrites(c)
      BY <2>1, Zenon DEF RetryWrites
    <2>2. CASE AllFailed(c)
      BY <2>2, Zenon DEF AllFailed
    <2>3. CASE TooFew(c)
      BY <2>3, Zenon DEF TooFew
    <2>4. CASE Orphans(c)
      BY <2>4, Zenon DEF Orphans
    <2> QED
      BY <1>3, <2>1, <2>2, <2>3, <2>4
  <1>4. CASE Unplace(c) \/ RemoveEntry(c) \/ Commit(c) \/ Unmark(c)
    <2>1. CASE Unplace(c)
      BY <2>1, Zenon DEF Unplace
    <2>2. CASE RemoveEntry(c)
      BY <2>2, Zenon DEF RemoveEntry
    <2>3. CASE Commit(c)
      BY <2>3, Zenon DEF Commit
    <2>4. CASE Unmark(c)
      BY <2>4, Zenon DEF Unmark
    <2> QED
      BY <1>4, <2>1, <2>2, <2>3, <2>4
  <1>5. CASE RetryUpload(c) \/ AbortUpload(c) \/ CompletePrimary(c) \/ Untrack(c)
    <2>1. CASE RetryUpload(c)
      BY <2>1, Zenon DEF RetryUpload
    <2>2. CASE AbortUpload(c)
      BY <2>2, Zenon DEF AbortUpload
    <2>3. CASE CompletePrimary(c)
      BY <2>3, Zenon DEF CompletePrimary
    <2>4. CASE Untrack(c)
      BY <2>4, Zenon DEF Untrack
    <2> QED
      BY <1>5, <2>1, <2>2, <2>3, <2>4
  <1>6. CASE ReadBack(c) \/ CompleteUpload(c) \/ DeleteLookup(c) \/ DeleteCollect(c)
    <2>1. CASE ReadBack(c)
      <3> DEFINE p == call[c].primary
      <3>1. \/ Move(c, "done") \/ Move(c, "failed")
            \/ Go(c, [call[c] EXCEPT !.step = "write", !.todo = ToSet(call[c].order), !.placed = {p},
                                !.data = bodyOn[p], !.fields = metaOn[p]])
        BY <2>1, Zenon DEF ReadBack
      <3>2. Fit(c, [call[c] EXCEPT !.step = "write", !.todo = ToSet(call[c].order), !.placed = {p},
                              !.data = bodyOn[p], !.fields = metaOn[p]])
        BY DEF CallTables, CallFields, Fit
      <3> QED
        BY <3>1, <3>2, Zenon
    <2>2. CASE CompleteUpload(c)
      BY <2>2, Zenon DEF CompleteUpload
    <2>3. CASE DeleteLookup(c)
      BY <2>3, Zenon DEF DeleteLookup
    <2>4. CASE DeleteCollect(c)
      <3>1. \E step : Move(c, step)
        BY <2>4, Zenon DEF DeleteCollect
      <3> QED
        BY <3>1, Zenon
    <2> QED
      BY <1>6, <2>1, <2>2, <2>3, <2>4
  <1>7. ASSUME NEW s \in Ids, WriteOne(c, s) \/ CleanOne(c, s) \/ WithdrawOne(c, s) \/ EraseOne(c, s)
        PROVE  Moves(c)
    <2>1. CASE WriteOne(c, s)
      BY <2>1, Zenon DEF WriteOne
    <2>2. CASE CleanOne(c, s)
      BY <2>2, Zenon DEF CleanOne
    <2>3. CASE WithdrawOne(c, s)
      BY <2>3, Zenon DEF WithdrawOne
    <2>4. CASE EraseOne(c, s)
      BY <2>4, Zenon DEF EraseOne
    <2> QED
      BY <1>7, <2>1, <2>2, <2>3, <2>4
  <1>8. ASSUME NEW s \in Ids, ReadOne(c, s) PROVE Moves(c)
    BY <1>8, Zenon DEF ReadOne
  <1> QED
    BY <1>1, <1>2, <1>3, <1>4, <1>5, <1>6, <1>7, <1>8 DEF CallNext

\* The operations of ClusterInspect.
LookOps == {"verify", "cross_verify", "head_meta", "get_meta", "head", "list", "list_meta", "drop_sidecar"}
\* And their steps.
LookSteps == {"compare", "meta", "head", "list", "drop"}

\* What an inspection may change besides its report: the catalog, by the shard
\* that answered a miss, the sidecar it was asked to drop, and the faults.
LEMMA Looks ==
    ASSUME NEW c \in Callers, InspectCall(c)
    PROVE  /\ \/ call[c].step = "begin" /\ OpOf(c) \in LookOps
              \/ call[c].step \in LookSteps
           /\ UNCHANGED <<bodyOn, status, marker, repairs, tracked, purge, play>>
           /\ metaOn' = metaOn \/ \E s, v : metaOn' = [metaOn EXCEPT ![s] = v]
           /\ faults' = faults \/ Fault
           /\ place' = place \/ \E s \in Ids : bodyOn[s] # NoBody /\ place' = Replicated(s, IndexedMeta(s))
  <1>1. CASE BeginVerify(c) \/ Verdict(c) \/ BeginMeta(c) \/ BeginHead(c) \/ List(c) \/ BeginList(c)
    BY <1>1 DEF BeginVerify, Verdict, BeginMeta, BeginHead, List, BeginList, Looking, At, LookOps, LookSteps
  <1>2. CASE ListOne(c)
    BY <1>2 DEF ListOne, Looking, At, LookSteps
  <1>3. CASE BeginDrop(c)
    BY <1>3 DEF BeginDrop, Looking, At, LookOps
  <1>4. ASSUME NEW s \in Ids, CompareOne(c, s) \/ GetMeta(c, s) \/ HeadMeta(c, s)
        PROVE  /\ call[c].step \in LookSteps
               /\ UNCHANGED <<bodyOn, status, marker, repairs, tracked, purge, play>>
               /\ metaOn' = metaOn /\ place' = place
               /\ faults' = faults \/ Fault
    BY <1>4 DEF CompareOne, GetMeta, HeadMeta, Looking, At, LookSteps
  <1>5. ASSUME NEW s \in Ids, HeadOne(c, s) \/ DropOne(c, s)
        PROVE  /\ call[c].step \in LookSteps
               /\ UNCHANGED <<bodyOn, status, marker, repairs, tracked, purge, play>>
               /\ metaOn' = metaOn \/ \E v : metaOn' = [metaOn EXCEPT ![s] = v]
               /\ faults' = faults \/ Fault
               /\ place' = place \/ (bodyOn[s] # NoBody /\ place' = Replicated(s, IndexedMeta(s)))
    BY <1>5 DEF HeadOne, DropOne, At, LookSteps
  <1> QED
    BY <1>1, <1>2, <1>3, <1>4, <1>5 DEF InspectCall

\* Caller c moves within an inspection or ends it.
Peeks(c) == \E r : Go(c, r) /\ Fit(c, r) /\ r.step \in LookSteps \cup {"done"}

\* A step of an inspection moves its caller, within the inspection.
LEMMA LookMoves ==
    ASSUME CallTables, NEW c \in Callers, InspectCall(c)
    PROVE  Peeks(c)
  <1>c. DOMAIN call[c] = CallFields
    BY DEF CallTables
  <1>0. \A r : Go(c, r) /\ Fit(c, r) /\ r.step \in LookSteps \cup {"done"} => Peeks(c)
    BY Zenon DEF Peeks
  <1>st. "done" \in LookSteps \cup {"done"} /\ {"compare", "meta", "head", "list", "drop"} \subseteq LookSteps \cup {"done"}
    BY DEF LookSteps
  <1>m. ASSUME Move(c, "done") PROVE Peeks(c)
    <2> DEFINE r == [call[c] EXCEPT !.step = "done"]
    <2>1. Go(c, r) /\ Fit(c, r) /\ r.step = "done"
      BY <1>m, CallMoves DEF Fit
    <2> QED
      BY <1>0, <1>st, <2>1
  <1>a. \A verdict, meta : Answer(c, verdict, meta) => Peeks(c)
    BY <1>m DEF Answer
  <1>t. ASSUME NEW todo, Go(c, [call[c] EXCEPT !.todo = todo]), call[c].step \in LookSteps PROVE Peeks(c)
    <2> DEFINE r == [call[c] EXCEPT !.todo = todo]
    <2>1. Fit(c, r) /\ r.step \in LookSteps \cup {"done"}
      BY <1>c, <1>t DEF Fit, CallFields
    <2> QED
      BY <1>0, <1>t, <2>1
  <1>n. \A s : AskNext(c, s) /\ call[c].step \in LookSteps => Peeks(c)
    BY <1>a, <1>t, Zenon DEF AskNext
  <1>s. ASSUME NEW step \in LookSteps \cup {"done"}, NEW todo,
               \/ Go(c, [call[c] EXCEPT !.step = step, !.todo = todo])
               \/ Go(c, [call[c] EXCEPT !.todo = todo, !.step = step])
        PROVE  Peeks(c)
    <2> DEFINE r == [call[c] EXCEPT !.step = step, !.todo = todo]
               q == [call[c] EXCEPT !.todo = todo, !.step = step]
    <2>1. Fit(c, r) /\ r.step = step /\ Fit(c, q) /\ q.step = step
      BY <1>c DEF Fit, CallFields
    <2> QED
      BY <1>0, <1>s, <2>1
  <1> USE <1>a, <1>n, <1>s, <1>st
  <1>1. CASE BeginVerify(c)
    <2>1. \/ \E verdict, meta : Answer(c, verdict, meta)
          \/ Go(c, [call[c] EXCEPT !.step = "compare", !.todo = place.shards])
      BY <1>1, Zenon DEF BeginVerify
    <2> QED
      BY <2>1
  <1>2. CASE Verdict(c)
    BY <1>2, Zenon DEF Verdict
  <1>3. CASE BeginMeta(c)
    <2>1. \/ \E verdict, meta : Answer(c, verdict, meta)
          \/ Go(c, [call[c] EXCEPT !.step = "meta", !.todo = Resolved])
      BY <1>3, Zenon DEF BeginMeta
    <2> QED
      BY <2>1
  <1>4. CASE BeginHead(c)
    <2> DEFINE r == [call[c] EXCEPT !.step = "head", !.todo = Resolved, !.again = (place = NoPlace)]
    <2>1. (\E verdict, meta : Answer(c, verdict, meta)) \/ Go(c, r)
      BY <1>4, Zenon DEF BeginHead
    <2>2. Fit(c, r) /\ r.step = "head"
      BY <1>c DEF CallFields, Fit
    <2> QED
      BY <1>0, <2>1, <2>2
  <1>5. CASE List(c)
    BY <1>5, Zenon DEF List
  <1>6. CASE BeginList(c)
    BY <1>6 DEF BeginList
  <1>7. CASE ListOne(c)
    <2>1. \E step \in {"done", "list"} : \E todo : Go(c, [call[c] EXCEPT !.todo = todo, !.step = step])
      BY <1>7, Zenon DEF ListOne
    <2> QED
      BY <2>1
  <1>8. CASE BeginDrop(c)
    <2>1. Move(c, "done") \/ \E todo : Go(c, [call[c] EXCEPT !.step = "drop", !.todo = todo])
      BY <1>8, Zenon DEF BeginDrop
    <2> QED
      BY <1>m, <2>1
  <1>9. ASSUME NEW s \in Ids, CompareOne(c, s) PROVE Peeks(c)
    BY <1>9, <1>t DEF CompareOne, At, LookSteps
  <1>10. ASSUME NEW s \in Ids, GetMeta(c, s) PROVE Peeks(c)
    <2>1. call[c].step \in LookSteps
      BY <1>10 DEF GetMeta, At, LookSteps
    <2> QED
      BY <1>10, <2>1, Zenon DEF GetMeta
  <1>11. ASSUME NEW s \in Ids, HeadMeta(c, s) PROVE Peeks(c)
    <2>1. call[c].step \in LookSteps
      BY <1>11 DEF HeadMeta, At, LookSteps
    <2> QED
      BY <1>11, <2>1, Zenon DEF HeadMeta
  <1>12. ASSUME NEW s \in Ids, HeadOne(c, s) PROVE Peeks(c)
    <2>1. call[c].step \in LookSteps
      BY <1>12 DEF HeadOne, At, LookSteps
    <2> QED
      BY <1>12, <2>1, Zenon DEF HeadOne
  <1>13. ASSUME NEW s \in Ids, DropOne(c, s) PROVE Peeks(c)
    <2>1. \E step \in {"done", "drop"} : \E todo : Go(c, [call[c] EXCEPT !.todo = todo, !.step = step])
      BY <1>13, Zenon DEF DropOne
    <2> QED
      BY <2>1
  <1> QED
    BY <1>1, <1>2, <1>3, <1>4, <1>5, <1>6, <1>7, <1>8, <1>9, <1>10, <1>11, <1>12, <1>13 DEF InspectCall

\* CallTables survives a step that changes one copy and the records.
LEMMA TablesKept ==
    ASSUME CallTables, play' = play, faults' \in {faults, faults - 1}, faults' = faults \/ faults > 0,
           bodyOn' = bodyOn \/ \E s, v : bodyOn' = [bodyOn EXCEPT ![s] = v],
           metaOn' = metaOn \/ \E s, v : metaOn' = [metaOn EXCEPT ![s] = v],
           call' = [c \in Callers |-> call'[c]],
           \A c \in Callers : DOMAIN call'[c] = CallFields /\ call'[c].clean \in BOOLEAN
    PROVE  CallTables'
  <1>1. faults' \in 0..MaxFaults
    BY ClusterAssumption DEF CallTables
  <1>2. bodyOn' = [s \in Ids |-> bodyOn'[s]] /\ metaOn' = [s \in Ids |-> metaOn'[s]]
    BY DEF CallTables
  <1> QED
    BY <1>1, <1>2 DEF CallTables

\* CallTables is inductive; the play is fixed and a step spends one fault or
\* none.
LEMMA CallTablesStep ==
    CallTables /\ [InspectNext]_inspectVars => CallTables' /\ play' = play /\ faults' \in {faults, faults - 1}
  <1> SUFFICES ASSUME CallTables, [InspectNext]_inspectVars PROVE CallTables' /\ play' = play /\ faults' \in {faults, faults - 1}
    OBVIOUS
  <1> DEFINE Spent == faults' \in {faults, faults - 1} /\ (faults' = faults \/ faults > 0)
             Bodies == /\ bodyOn' = bodyOn \/ \E s, v : bodyOn' = [bodyOn EXCEPT ![s] = v]
                       /\ metaOn' = metaOn \/ \E s, v : metaOn' = [metaOn EXCEPT ![s] = v]
             Calls == /\ call' = [c \in Callers |-> call'[c]]
                      /\ \A c \in Callers : DOMAIN call'[c] = CallFields /\ call'[c].clean \in BOOLEAN
  <1>0. ASSUME call' = call PROVE Calls
    BY <1>0 DEF CallTables
  <1>1. ASSUME NEW c \in Callers, CallNext(c) PROVE CallTables' /\ play' = play /\ faults' \in {faults, faults - 1}
    <2>1. Calls
      <3>1. PICK r : Go(c, r) /\ DOMAIN r = CallFields /\ r.clean = call[c].clean
        BY <1>1, CallSteps DEF Moves, Fit
      <3> QED
        BY <3>1, GoSets
    <2>2. play' = play /\ Spent /\ Bodies
      <3>1. CASE BeginPut(c) \/ BeginCreate(c) \/ CopyCheck(c) \/ CopyInsert(c) \/ BeginGet(c)
                 \/ RetryWrites(c) \/ AllFailed(c) \/ TooFew(c) \/ Orphans(c)
        BY <3>1 DEF BeginPut, BeginCreate, CopyCheck, CopyInsert, BeginGet, RetryWrites, AllFailed, TooFew, Orphans
      <3>2. CASE Unplace(c) \/ RemoveEntry(c) \/ Commit(c) \/ Unmark(c) \/ AbortUpload(c) \/ Untrack(c)
                 \/ CompleteUpload(c) \/ DeleteLookup(c) \/ DeleteCollect(c)
        BY <3>2 DEF Unplace, RemoveEntry, Commit, Unmark, AbortUpload, Untrack, CompleteUpload, DeleteLookup,
                    DeleteCollect, Fault
      <3>3. CASE BeginUpload(c) \/ BeginDelete(c) \/ RetryUpload(c) \/ ReadBack(c)
        BY <3>3 DEF BeginUpload, BeginDelete, RetryUpload, ReadBack, Fault
      <3>4. CASE CompletePrimary(c)
        BY <3>4 DEF CompletePrimary, Store, Fault
      <3>5. ASSUME NEW s \in Ids, WriteOne(c, s) PROVE play' = play /\ Spent /\ Bodies
        BY <3>5 DEF WriteOne, Store, Refuse
      <3>6. ASSUME NEW s \in Ids, CleanOne(c, s) \/ WithdrawOne(c, s) \/ EraseOne(c, s)
            PROVE  play' = play /\ Spent /\ Bodies
        BY <3>6 DEF CleanOne, WithdrawOne, EraseOne, Erase, Fault
      <3>7. ASSUME NEW s \in Ids, ReadOne(c, s) PROVE play' = play /\ Spent /\ Bodies
        BY <3>7 DEF ReadOne, Fault
      <3> QED
        BY <1>1, <3>1, <3>2, <3>3, <3>4, <3>5, <3>6, <3>7 DEF CallNext
    <2> QED
      BY <2>1, <2>2, TablesKept
  <1>2. ASSUME NEW r \in repairs, RepairRead(r) \/ RepairWrite(r) \/ RepairEnter(r) PROVE CallTables' /\ play' = play /\ faults' \in {faults, faults - 1}
    <2>1. call' = call /\ play' = play /\ Spent /\ Bodies
      BY <1>2 DEF RepairRead, RepairWrite, RepairEnter, Store, Refuse, Fault
    <2> QED
      BY <1>0, <2>1, TablesKept
  <1>3. ASSUME PurgeCollect PROVE CallTables' /\ play' = play /\ faults' \in {faults, faults - 1}
    <2>1. play' = play /\ Spent /\ Bodies
      BY <1>3 DEF PurgeCollect
    <2>2. call' = [c \in Callers |-> IF Running(c) THEN [call[c] EXCEPT !.clean = FALSE] ELSE call[c]]
      BY <1>3 DEF PurgeCollect
    <2>3. Calls
      BY <2>2 DEF CallTables, CallFields
    <2> QED
      BY <2>1, <2>3, TablesKept
  <1>4. ASSUME NEW u \in purge, PurgeOne(u) PROVE CallTables' /\ play' = play /\ faults' \in {faults, faults - 1}
    <2>1. call' = call /\ play' = play /\ Spent /\ Bodies
      BY <1>4 DEF PurgeOne
    <2> QED
      BY <1>0, <2>1, TablesKept
  <1>5. CASE UNCHANGED inspectVars
    BY <1>5 DEF inspectVars, clusterVars, CallTables
  <1>6. ASSUME NEW c \in Callers, InspectCall(c) PROVE CallTables' /\ play' = play /\ faults' \in {faults, faults - 1}
    <2>1. PICK r : Go(c, r) /\ DOMAIN r = CallFields /\ r.clean = call[c].clean
      BY <1>6, LookMoves DEF Peeks, Fit
    <2>2. Calls
      BY <2>1, GoSets
    <2>3. play' = play /\ Spent /\ Bodies
      BY <1>6, Looks DEF Fault
    <2> QED
      BY <2>2, <2>3, TablesKept
  <1> QED
    BY <1>1, <1>2, <1>3, <1>4, <1>5, <1>6 DEF InspectNext, ClusterNext

\* CallTables holds at the start.
LEMMA CallTablesStart == ClusterInit => CallTables
  <1> SUFFICES ASSUME ClusterInit PROVE CallTables
    OBVIOUS
  <1>1. play \in Plays /\ faults \in 0..MaxFaults
    BY ClusterAssumption DEF ClusterInit
  <1>2. bodyOn = [s \in Ids |-> bodyOn[s]] /\ metaOn = [s \in Ids |-> metaOn[s]]
    BY DEF ClusterInit
  <1>3. DOMAIN NewCall = CallFields /\ NewCall.clean \in BOOLEAN
    BY DEF NewCall, CallFields
  <1>4. call = [c \in Callers |-> call[c]] /\ \A c \in Callers : call[c] = NewCall
    BY DEF ClusterInit
  <1> QED
    BY <1>1, <1>2, <1>3, <1>4 DEF CallTables

\* CreateInv after a move of caller c, from what the move does to the entry.
LEMMA CreateFrame ==
    ASSUME CallTables, CreateInv, Creating, NEW c \in Callers, NEW r, Go(c, r), Fit(c, r),
           UNCHANGED <<repairs, purge, tracked, play>>,
           r.step \in {"begin", "insert", "failed", "write", "orphans", "unplace", "remove", "unmark", "done"},
           \/ r.step \in {"begin", "insert", "failed"} /\ UNCHANGED <<place, bodyOn>>
           \/ /\ \A d \in Callers \ {c} : ~ Holding(d)
              /\ r.step \notin {"begin", "insert", "failed"} => Owns(c, r, place', bodyOn')
    PROVE  CreateInv'
  <1>1. /\ "step" \in CallFields \ {"clean"} /\ "placed" \in CallFields \ {"clean"}
    BY DEF CallFields
  <1>2. /\ call'[c].step = r.step /\ call'[c].placed = r.placed
        /\ \A d \in Callers \ {c} : call'[d].step = call[d].step /\ call'[d].placed = call[d].placed
    <2>1. /\ \A f \in CallFields \ {"clean"} : call'[c][f] = r[f]
          /\ \A d \in Callers \ {c} : \A f \in CallFields \ {"clean"} : call'[d][f] = call[d][f]
      BY GoSets DEF Fit
    <2> QED
      BY <1>1, <2>1
  <1>3. Quiet' /\ Creating'
    BY DEF CreateInv, Quiet, Creating, OpsUsed, OpOf
  <1>4. \A d \in Callers \ {c} : Holding(d)' <=> Holding(d)
    BY <1>2 DEF Holding
  <1>5. Holding(c)' <=> r.step \notin {"begin", "insert", "failed"}
    BY <1>2 DEF Holding
  <1>6. \A d \in Callers : (Holding(d) \/ call[d].step \in {"begin", "insert", "failed"})'
    BY <1>2, <1>4, <1>5 DEF CreateInv
  <1>7. \A d, e \in Callers : Holding(d)' /\ Holding(e)' => d = e
    BY <1>4, <1>5 DEF CreateInv
  <1>8. ASSUME NEW d \in Callers, Holding(d)' PROVE Owns(d, call[d], place, bodyOn)'
    <2>1. CASE d = c
      BY <1>2, <1>5, <1>8, <2>1 DEF Owns
    <2>2. CASE d # c
      <3>1. Holding(d) /\ Owns(d, call[d], place, bodyOn)
        BY <1>4, <1>8, <2>2 DEF CreateInv
      <3>2. UNCHANGED <<place, bodyOn>>
        BY <2>2, <3>1
      <3> QED
        BY <1>2, <2>2, <3>1, <3>2 DEF Owns
    <2> QED
      BY <2>1, <2>2
  <1> QED
    BY <1>3, <1>6, <1>7, <1>8 DEF CreateInv

\* Every step of an operation preserves CreateInv.
LEMMA CreateStep ==
    ASSUME CallTables, CreateInv, Creating, NEW c \in Callers, CallNext(c)
    PROVE  CreateInv'
  <1>op. OpOf(c) \in Creates \cup {"none"}
    BY DEF Creating, OpsUsed
  <1>st. Holding(c) \/ call[c].step \in {"begin", "insert", "failed"}
    BY DEF CreateInv
  <1>q. Quiet
    BY DEF CreateInv
  <1>own. Holding(c) => Owns(c, call[c], place, bodyOn) /\ \A d \in Callers \ {c} : ~ Holding(d)
    BY DEF CreateInv
  <1>none. place = NoPlace => \A d \in Callers : ~ Holding(d)
    BY DEF CreateInv, Owns
  <1>c. c \notin {NoBody, NoEntry} /\ DOMAIN call[c] = CallFields
    BY ClusterAssumption DEF CallTables
  <1>p. \A S : Placeholder(S) # NoPlace /\ Placeholder(S).crc = NoBody
    BY DEF Placeholder, NoPlace, NoBody, NoEntry
  <1>1. ASSUME NEW step \in {"begin", "insert", "failed", "write", "orphans", "unplace", "remove", "unmark", "done"},
               Move(c, step), UNCHANGED <<repairs, purge, tracked, play>>,
               \/ step \in {"begin", "insert", "failed"} /\ UNCHANGED <<place, bodyOn>>
               \/ /\ Holding(c)
                  /\ step \notin {"begin", "insert", "failed"} => Owns(c, [call[c] EXCEPT !.step = step], place', bodyOn')
        PROVE  CreateInv'
    <2> DEFINE r == [call[c] EXCEPT !.step = step]
    <2>1. Go(c, r) /\ Fit(c, r) /\ r.step = step
      BY <1>1, CallMoves DEF Fit
    <2> HIDE DEF r
    <2>2. \/ r.step \in {"begin", "insert", "failed"} /\ UNCHANGED <<place, bodyOn>>
          \/ /\ \A d \in Callers \ {c} : ~ Holding(d)
             /\ r.step \notin {"begin", "insert", "failed"} => Owns(c, r, place', bodyOn')
      BY <1>1, <1>own, <2>1 DEF r
    <2> QED
      BY <1>1, <2>1, <2>2, CreateFrame
  <1>2. ASSUME place = NoPlace, NEW q, place' = Placeholder(ToSet(q)), Go(c, FanOut(c, q)),
               UNCHANGED <<bodyOn, repairs, purge, tracked, play>>
        PROVE  CreateInv'
    <2> DEFINE r == FanOut(c, q)
    <2>1. Fit(c, r) /\ r.step = "write" /\ r.placed = {}
      BY FansOut DEF Fit
    <2> HIDE DEF r
    <2>2. Owns(c, r, place', bodyOn')
      BY <1>2, <1>p, <2>1 DEF Owns
    <2>3. Go(c, r)
      BY <1>2 DEF r
    <2> QED
      BY <1>2, <1>none, <2>1, <2>2, <2>3, CreateFrame
  <1>3. CASE BeginCreate(c)
    <2>1. \/ Move(c, "failed") /\ UNCHANGED place
          \/ /\ place = NoPlace /\ place' = Placeholder(ToSet(Targets(status)))
             /\ Go(c, FanOut(c, Targets(status)))
      BY <1>3 DEF BeginCreate, TryInsert
    <2>2. UNCHANGED <<bodyOn, repairs, purge, tracked, play>>
      BY <1>3 DEF BeginCreate
    <2> QED
      BY <1>1, <1>2, <2>1, <2>2
  <1>4. CASE CopyCheck(c)
    <2>1. Move(c, "failed") \/ Move(c, "insert")
      BY <1>4 DEF CopyCheck
    <2>2. UNCHANGED <<place, bodyOn, repairs, purge, tracked, play>>
      BY <1>4 DEF CopyCheck
    <2> QED
      BY <1>1, <2>1, <2>2
  <1>5. CASE CopyInsert(c)
    <2>1. \/ Move(c, "failed") /\ UNCHANGED place
          \/ /\ place = NoPlace /\ place' = Placeholder(ToSet(Targets(status)))
             /\ Go(c, FanOut(c, Targets(status)))
      BY <1>5 DEF CopyInsert, TryInsert
    <2>2. UNCHANGED <<bodyOn, repairs, purge, tracked, play>>
      BY <1>5 DEF CopyInsert
    <2> QED
      BY <1>1, <1>2, <2>1, <2>2
  <1>6. ASSUME NEW s \in Ids, WriteOne(c, s) PROVE CreateInv'
    <2>1. At(c, "write") /\ UNCHANGED <<place, repairs, purge, tracked, play>> /\ DataOf(c) = c
      BY <1>6, <1>op DEF WriteOne, DataOf, Creates
    <2>2. Holding(c) /\ place # NoPlace /\ place.crc = NoBody
          /\ call[c].placed \subseteq Ids /\ \A t \in call[c].placed : bodyOn[t] = c
      BY <1>own, <2>1 DEF At, Holding, Owns
    <2>3. /\ bodyOn' = bodyOn \/ bodyOn' = [bodyOn EXCEPT ![s] = c]
          /\ \/ /\ bodyOn' = [bodyOn EXCEPT ![s] = c]
                /\ Go(c, [call[c] EXCEPT !.todo = @ \ {s}, !.placed = @ \cup {s}])
             \/ Go(c, [call[c] EXCEPT !.todo = @ \ {s}, !.failed = @ \cup {s}])
      BY <1>6, <2>1 DEF WriteOne, Store, Refuse
    <2>4. \A t \in Ids : (bodyOn[t] = c => bodyOn'[t] = c)
                         /\ (bodyOn' = [bodyOn EXCEPT ![s] = c] => bodyOn'[s] = c)
      BY <2>3 DEF CallTables
    <2>5. PICK r : /\ Go(c, r) /\ Fit(c, r) /\ r.step = "write"
                   /\ \/ r.placed = call[c].placed
                      \/ r.placed = call[c].placed \cup {s} /\ bodyOn'[s] = c
      <3> DEFINE a == [call[c] EXCEPT !.todo = @ \ {s}, !.placed = @ \cup {s}]
                 b == [call[c] EXCEPT !.todo = @ \ {s}, !.failed = @ \cup {s}]
      <3>1. Fit(c, a) /\ a.step = "write" /\ a.placed = call[c].placed \cup {s}
        BY <1>c, <2>1 DEF Fit, CallFields, At
      <3>2. Fit(c, b) /\ b.step = "write" /\ b.placed = call[c].placed
        BY <1>c, <2>1 DEF Fit, CallFields, At
      <3>3. (bodyOn' = [bodyOn EXCEPT ![s] = c] /\ Go(c, a)) \/ Go(c, b)
        BY <2>3
      <3> HIDE DEF a, b
      <3>4. bodyOn' = [bodyOn EXCEPT ![s] = c] => bodyOn'[s] = c
        BY <2>4
      <3> QED
        BY <3>1, <3>2, <3>3, <3>4, Zenon
    <2>6. Owns(c, r, place', bodyOn')
      BY <2>1, <2>2, <2>4, <2>5 DEF Owns
    <2> QED
      BY <1>own, <2>1, <2>2, <2>5, <2>6, CreateFrame
  <1>7. CASE RetryWrites(c) \/ AllFailed(c)
    <2>1. At(c, "write") /\ UNCHANGED <<place, bodyOn, repairs, purge, tracked, play>> /\ call[c].placed = {}
      BY <1>7 DEF RetryWrites, AllFailed, Answered
    <2>2. Holding(c) /\ place # NoPlace /\ place.crc = NoBody
      BY <1>own, <2>1 DEF At, Holding, Owns
    <2>3. ASSUME NEW r, Go(c, r), Fit(c, r), r.step = "write", r.placed = {} PROVE CreateInv'
      <3>1. Owns(c, r, place', bodyOn')
        BY <2>1, <2>2, <2>3 DEF Owns
      <3> QED
        BY <1>own, <2>1, <2>2, <2>3, <3>1, CreateFrame
    <2>4. CASE RetryWrites(c)
      <3> DEFINE r == [call[c] EXCEPT !.order = Fresh(c), !.todo = ToSet(Fresh(c)), !.retried = TRUE]
      <3>1. Fit(c, r) /\ r.step = "write" /\ r.placed = {}
        BY <1>c, <2>1 DEF Fit, CallFields, At
      <3>2. Go(c, r)
        BY <2>4 DEF RetryWrites
      <3> HIDE DEF r
      <3> QED
        BY <2>3, <3>1, <3>2
    <2>5. CASE AllFailed(c)
      <3>1. (\E q : Go(c, [FanOut(c, q) EXCEPT !.again = TRUE])) \/ Move(c, Undo(c))
        BY <2>5, Zenon DEF AllFailed
      <3>2. ASSUME NEW q, Go(c, [FanOut(c, q) EXCEPT !.again = TRUE]) PROVE CreateInv'
        <4> DEFINE r == [FanOut(c, q) EXCEPT !.again = TRUE]
        <4>1. Fit(c, FanOut(c, q)) /\ FanOut(c, q).step = "write" /\ FanOut(c, q).placed = {}
          BY FansOut DEF Fit
        <4>2. Fit(c, r) /\ r.step = "write" /\ r.placed = {}
          BY <4>1 DEF Fit, CallFields
        <4>3. Go(c, r)
          BY <3>2
        <4> HIDE DEF r
        <4> QED
          BY <2>3, <4>2, <4>3
      <3>3. ASSUME Move(c, Undo(c)) PROVE CreateInv'
        <4>1. Undo(c) \in {"unplace", "remove", "failed"}
          BY DEF Undo
        <4>2. Undo(c) \notin {"begin", "insert", "failed"} =>
                Owns(c, [call[c] EXCEPT !.step = Undo(c)], place', bodyOn')
          BY <1>c, <2>1, <2>2, <4>1 DEF Owns, CallFields
        <4> QED
          BY <1>1, <2>1, <2>2, <3>3, <4>1, <4>2
      <3> QED
        BY <3>1, <3>2, <3>3
    <2> QED
      BY <1>7, <2>4, <2>5
  <1>8. CASE TooFew(c) \/ Orphans(c) \/ Unplace(c)
    <2>1. Holding(c) /\ UNCHANGED <<place, bodyOn, repairs, purge, tracked, play>>
          /\ call[c].step \in {"write", "orphans", "unplace"}
      BY <1>8 DEF TooFew, Orphans, Unplace, Answered, At, Holding
    <2>2. place # NoPlace /\ place.crc = NoBody
      BY <1>own, <2>1 DEF Owns
    <2>3. Move(c, "orphans") \/ Move(c, Undo(c)) \/ Move(c, "remove")
      BY <1>8, <2>2 DEF TooFew, Orphans, Unplace
    <2>4. ASSUME NEW step \in {"orphans", "unplace", "remove", "failed"}, Move(c, step) PROVE CreateInv'
      <3>1. Owns(c, [call[c] EXCEPT !.step = step], place', bodyOn')
        BY <1>c, <2>1, <2>2 DEF Owns, CallFields
      <3> QED
        BY <1>1, <2>1, <2>4, <3>1
    <2>5. Undo(c) \in {"unplace", "remove", "failed"}
      BY DEF Undo
    <2> QED
      BY <2>3, <2>4, <2>5
  <1>9. CASE RemoveEntry(c)
    <2>1. Holding(c) /\ Move(c, "failed") /\ UNCHANGED <<repairs, purge, tracked, play>>
      BY <1>9 DEF RemoveEntry, At, Holding
    <2> QED
      BY <1>1, <2>1
  <1>10. CASE Commit(c)
    <2>1. At(c, "write") /\ UNCHANGED <<bodyOn, repairs, purge, tracked, play>>
          /\ place' = Placed(call[c].placed, c, MetaOf(c)) /\ (Move(c, "unmark") \/ Move(c, "done"))
      BY <1>10 DEF Commit, Answered
    <2>2. Holding(c) /\ call[c].placed \subseteq Ids /\ \A t \in call[c].placed : bodyOn[t] = c
      BY <1>own, <2>1 DEF At, Holding, Owns
    <2>3. place' # NoPlace /\ place'.crc = c /\ place'.shards = call[c].placed
      BY <1>c, <2>1 DEF Placed, NoPlace
    <2>4. \A step \in {"unmark", "done"} : Owns(c, [call[c] EXCEPT !.step = step], place', bodyOn')
      BY <1>c, <2>1, <2>2, <2>3 DEF Owns, CallFields
    <2> QED
      BY <1>1, <2>1, <2>2, <2>4
  <1>11. CASE Unmark(c)
    <2>1. At(c, "unmark") /\ UNCHANGED <<place, bodyOn, repairs, purge, tracked, play>> /\ Move(c, "done")
      BY <1>11 DEF Unmark
    <2>2. Holding(c) /\ place # NoPlace /\ place.crc = c /\ \A s \in place.shards : bodyOn[s] = c
      BY <1>own, <2>1 DEF At, Holding, Owns
    <2>3. Owns(c, [call[c] EXCEPT !.step = "done"], place', bodyOn')
      BY <1>c, <2>1, <2>2 DEF Owns, CallFields
    <2> QED
      BY <1>1, <2>1, <2>2, <2>3
  <1>12. ~ (BeginPut(c) \/ BeginUpload(c) \/ BeginDelete(c) \/ BeginGet(c) \/ CompleteUpload(c))
    BY <1>op DEF BeginPut, BeginUpload, BeginDelete, BeginGet, CompleteUpload, Creates
  <1>13. ~ (RetryUpload(c) \/ AbortUpload(c) \/ CompletePrimary(c) \/ Untrack(c) \/ ReadBack(c)
            \/ DeleteLookup(c) \/ DeleteCollect(c))
    BY <1>st DEF RetryUpload, AbortUpload, CompletePrimary, Untrack, ReadBack, DeleteLookup, DeleteCollect,
                 At, Holding
  <1>14. \A s \in Ids : ~ (CleanOne(c, s) \/ WithdrawOne(c, s) \/ EraseOne(c, s) \/ ReadOne(c, s))
    BY <1>st DEF CleanOne, WithdrawOne, EraseOne, ReadOne, At, Holding
  <1> QED
    BY <1>3, <1>4, <1>5, <1>6, <1>7, <1>8, <1>9, <1>10, <1>11, <1>12, <1>13, <1>14 DEF CallNext

\* With no background work and no inspection only operations take steps.
LEMMA QuietCalls ==
    ASSUME Quiet, [InspectNext]_inspectVars, \A c \in Callers : OpOf(c) \notin LookOps /\ call[c].step \notin LookSteps
    PROVE  (\E c \in Callers : CallNext(c)) \/ UNCHANGED clusterVars
  <1>1. ~ PurgeCollect
    BY DEF Quiet, PurgeCollect
  <1>2. \A c \in Callers : ~ InspectCall(c)
    BY Looks
  <1> QED
    BY <1>1, <1>2 DEF InspectNext, ClusterNext, Quiet, inspectVars

\* CreateOnce for any number of shards, callers, failures and retries: of the
\* operations that must create the key (put_opts with PutMode::Create,
\* lib.rs:2920, and copy_if_not_exists, lib.rs:3305) at most one succeeds, and
\* the entry is its own.  By induction on CreateInv.
THEOREM CreatesExclude == InspectSpec => []CreateOnce
  <1>1. InspectInit => CallTables /\ CreateInv
    <2> SUFFICES ASSUME ClusterInit PROVE CreateInv
      BY CallTablesStart DEF InspectInit
    <2>1. \A c \in Callers : call[c] = NewCall /\ tracked[c] = NoShard
      BY DEF ClusterInit
    <2> QED
      BY <2>1 DEF ClusterInit, CreateInv, Quiet, Holding, NewCall
  <1>2. CallTables /\ CreateInv /\ [InspectNext]_inspectVars => (CallTables /\ CreateInv)'
    <2> SUFFICES ASSUME CallTables, CreateInv, [InspectNext]_inspectVars PROVE CreateInv'
      BY CallTablesStep
    <2>1. CASE UNCHANGED clusterVars
      BY <2>1 DEF clusterVars, CreateInv, Creating, OpsUsed, OpOf, Quiet, Holding, Owns
    <2>2. CASE ~ Creating
      <3>1. play' = play
        BY CallTablesStep
      <3> QED
        BY <2>2, <3>1 DEF CreateInv, Creating, OpsUsed, OpOf
    <2>3. CASE Creating
      <3>1. Quiet /\ \A c \in Callers : OpOf(c) \notin LookOps /\ call[c].step \notin LookSteps
        BY <2>3 DEF CreateInv, Creating, OpsUsed, Creates, LookOps, LookSteps, Holding
      <3> QED
        BY <2>1, <2>3, <3>1, QuietCalls, CreateStep
    <2> QED
      BY <2>2, <2>3
  <1>3. CreateInv => CreateOnce
    <2> SUFFICES ASSUME CreateInv, Creating
                 PROVE  /\ Cardinality({c \in Callers : At(c, "done") \/ At(c, "unmark")}) <= 1
                        /\ \A c \in Callers : At(c, "done") \/ At(c, "unmark") =>
                               place.crc = c /\ \A s \in place.shards : bodyOn[s] = c
      BY DEF CreateOnce, Creating
    <2> DEFINE S == {c \in Callers : At(c, "done") \/ At(c, "unmark")}
    <2>1. \A c, d \in S : c = d
      BY DEF CreateInv, Holding, At
    <2>2. S = {} \/ \E c : S = {c}
      BY <2>1
    <2> HIDE DEF S
    <2>3. Cardinality(S) <= 1
      <3>1. CASE S = {}
        BY <3>1, FS_EmptySet
      <3>2. CASE \E c : S = {c}
        BY <3>2, FS_Singleton
      <3> QED
        BY <2>2, <3>1, <3>2
    <2>4. \A c \in S : place.crc = c /\ \A s \in place.shards : bodyOn[s] = c
      BY DEF CreateInv, Holding, Owns, At, S
    <2> QED
      BY <2>3, <2>4 DEF S
  <1> QED
    BY <1>1, <1>2, <1>3, PTL DEF InspectSpec

\* PutInv after a move of caller c, from what the move does to the entry.
LEMMA PutFrame ==
    ASSUME CallTables, PutInv, Putting, NEW c \in Callers, NEW r, Go(c, r), Fit(c, r),
           UNCHANGED <<repairs, purge, tracked, play>>,
           r.step \in PutSteps,
           \A S : Kept(S) => Kept(S)',
           r.step = "write" => \/ r.placed = {}
                               \/ /\ call[c].step = "write"
                                  /\ \E T : r.placed = call[c].placed \cup T /\ Kept(T)',
           r.step = "clean" => place.shards = {},
           \/ /\ place' = place
              /\ r.step \in {"unmark", "done"} => call[c].step = "unmark"
           \/ /\ call[c].step = "write" /\ r.step \in {"unmark", "done"}
              /\ place'.shards = call[c].placed /\ call[c].placed # {}
    PROVE  PutInv'
  <1>1. /\ "step" \in CallFields \ {"clean"} /\ "placed" \in CallFields \ {"clean"}
    BY DEF CallFields
  <1>2. /\ call'[c].step = r.step /\ call'[c].placed = r.placed
        /\ \A d \in Callers \ {c} : call'[d].step = call[d].step /\ call'[d].placed = call[d].placed
        /\ call'[c].clean => call[c].clean /\ \A d \in Callers \ {c} : ~ Running(d)
        /\ \A d \in Callers \ {c} : (call'[d].clean => call[d].clean) /\ (Running(d) => ~ call'[d].clean)
    <2>1. /\ \A f \in CallFields \ {"clean"} : call'[c][f] = r[f]
          /\ \A d \in Callers \ {c} : \A f \in CallFields \ {"clean"} : call'[d][f] = call[d][f]
          /\ call'[c].clean => call[c].clean /\ \A d \in Callers \ {c} : ~ Running(d)
          /\ \A d \in Callers \ {c} : (call'[d].clean => call[d].clean) /\ (Running(d) => ~ call'[d].clean)
      BY GoSets DEF Fit
    <2> QED
      BY <1>1, <2>1
  <1>3. Quiet' /\ Putting'
    BY DEF PutInv, Quiet, Putting, OpsUsed, OpOf
  <1>4. \A d \in Callers : call'[d].step \in PutSteps
    BY <1>2 DEF PutInv
  <1>5. /\ Kept({})' /\ \A S, T : Kept(S)' /\ Kept(T)' => Kept(S \cup T)'
    BY DEF Kept
  <1>6. ASSUME r.step = "write", call[c].step = "write" => Kept(call[c].placed)
        PROVE  Kept(r.placed)'
    BY <1>5, <1>6
  <1>7. ASSUME NEW d \in Callers, call'[d].clean, call'[d].step = "write" PROVE Kept(call[d].placed)'
    <2>1. CASE d = c
      <3>1. call[c].step = "write" => Kept(call[c].placed)
        BY <1>2, <1>7, <2>1 DEF PutInv
      <3>2. Kept(r.placed)'
        BY <1>2, <1>6, <1>7, <2>1, <3>1
      <3> QED
        BY <1>2, <2>1, <3>2
    <2>2. CASE d # c
      <3>1. Running(d)
        BY <1>2, <1>7, <2>2 DEF Running
      <3> QED
        BY <1>2, <1>7, <2>2, <3>1
    <2> QED
      BY <2>1, <2>2
  <1>8. ASSUME NEW a \in Callers, Acked(a)'
        PROVE  /\ place'.shards # {} /\ Kept(place.shards)'
               /\ \A d \in Callers : /\ call'[d].step # "clean"
                                     /\ call'[d].step = "write" => Kept(call[d].placed)'
    <2>0. call'[a].clean /\ call'[a].step \in {"unmark", "done"}
      BY <1>8 DEF Acked
    <2>1. CASE Acked(a)
      <3>1. /\ place.shards # {} /\ Kept(place.shards)
            /\ \A d \in Callers : call[d].step # "clean" /\ (call[d].step = "write" => Kept(call[d].placed))
        BY <2>1 DEF PutInv
      <3>2. r.step # "clean"
        BY <3>1
      <3>3. place'.shards # {} /\ Kept(place.shards)'
        BY <3>1
      <3>4. ASSUME NEW d \in Callers
            PROVE  call'[d].step # "clean" /\ (call'[d].step = "write" => Kept(call[d].placed)')
        <4>1. CASE d = c
          BY <1>2, <1>6, <3>1, <3>2, <4>1
        <4>2. CASE d # c
          BY <1>2, <3>1, <4>2
        <4> QED
          BY <4>1, <4>2
      <3> QED
        BY <3>3, <3>4
    <2>2. CASE ~ Acked(a)
      <3>1. a = c
        BY <1>2, <2>0, <2>2 DEF Acked
      <3>2. call[c].clean /\ call[c].step # "unmark" /\ \A d \in Callers \ {c} : ~ Running(d)
        BY <1>2, <2>0, <2>2, <3>1 DEF Acked
      <3>3. call[c].step = "write" /\ place'.shards = call[c].placed /\ call[c].placed # {}
        BY <1>2, <2>0, <3>1, <3>2
      <3>4. Kept(call[c].placed)
        BY <3>2, <3>3 DEF PutInv
      <3>5. \A d \in Callers : call'[d].step \notin {"clean", "write"}
        BY <1>2, <2>0, <3>1, <3>2 DEF Running
      <3> QED
        BY <3>3, <3>4, <3>5
    <2> QED
      BY <2>1, <2>2
  <1> QED
    BY <1>3, <1>4, <1>7, <1>8 DEF PutInv

\* Every step of an operation preserves PutInv.
LEMMA PutStep ==
    ASSUME CallTables, PutInv, Putting, NEW c \in Callers, CallNext(c)
    PROVE  PutInv'
  <1>op. OpOf(c) \in {"put", "put_meta", "put_file", "none"}
    BY DEF Putting, OpsUsed
  <1>st. call[c].step \in PutSteps
    BY DEF PutInv
  <1>c. c \notin {NoBody, BadBody} /\ DOMAIN call[c] = CallFields
    BY ClusterAssumption DEF CallTables
  <1>same. ASSUME bodyOn' = bodyOn PROVE \A S : Kept(S) => Kept(S)'
    BY <1>same DEF Kept
  <1>1. ASSUME NEW step \in {"orphans", "clean", "unmark", "done", "failed"}, Move(c, step),
               UNCHANGED <<repairs, purge, tracked, play>>, \A S : Kept(S) => Kept(S)',
               step = "clean" => place.shards = {},
               \/ /\ place' = place
                  /\ step \in {"unmark", "done"} => call[c].step = "unmark"
               \/ /\ call[c].step = "write" /\ step \in {"unmark", "done"}
                  /\ place'.shards = call[c].placed /\ call[c].placed # {}
        PROVE  PutInv'
    <2> DEFINE r == [call[c] EXCEPT !.step = step]
    <2>1. Go(c, r) /\ Fit(c, r) /\ r.step = step
      BY <1>1, CallMoves DEF Fit
    <2> HIDE DEF r
    <2>2. r.step \in PutSteps
      BY <2>1 DEF PutSteps
    <2> QED
      BY <1>1, <2>1, <2>2, PutFrame
  <1>2. ASSUME NEW r, Go(c, r), Fit(c, r), r.step = "write",
               UNCHANGED <<place, repairs, purge, tracked, play>>, \A S : Kept(S) => Kept(S)',
               \/ r.placed = {}
               \/ call[c].step = "write" /\ \E T : r.placed = call[c].placed \cup T /\ Kept(T)'
        PROVE  PutInv'
    <2>1. r.step \in PutSteps
      BY <1>2 DEF PutSteps
    <2> QED
      BY <1>2, <2>1, PutFrame
  <1>3. CASE BeginPut(c)
    <2>1. Move(c, "failed") \/ Go(c, FanOut(c, Targets(status)))
      BY <1>3 DEF BeginPut
    <2>2. UNCHANGED <<place, bodyOn, repairs, purge, tracked, play>>
      BY <1>3 DEF BeginPut
    <2>3. LET r == FanOut(c, Targets(status)) IN Fit(c, r) /\ r.step = "write" /\ r.placed = {}
      BY FansOut DEF Fit
    <2> QED
      BY <1>1, <1>2, <1>same, <2>1, <2>2, <2>3
  <1>4. ASSUME NEW s \in Ids, WriteOne(c, s) PROVE PutInv'
    <2>1. call[c].step = "write" /\ UNCHANGED <<place, repairs, purge, tracked, play>> /\ DataOf(c) = c
      BY <1>4, <1>op DEF WriteOne, DataOf, At
    <2>2. /\ bodyOn' = bodyOn \/ bodyOn' = [bodyOn EXCEPT ![s] = c]
          /\ \/ /\ bodyOn' = [bodyOn EXCEPT ![s] = c]
                /\ Go(c, [call[c] EXCEPT !.todo = @ \ {s}, !.placed = @ \cup {s}])
             \/ Go(c, [call[c] EXCEPT !.todo = @ \ {s}, !.failed = @ \cup {s}])
      BY <1>4, <2>1 DEF WriteOne, Store, Refuse
    <2>3. bodyOn' = [bodyOn EXCEPT ![s] = c] => bodyOn'[s] = c /\ \A t \in Ids \ {s} : bodyOn'[t] = bodyOn[t]
      BY DEF CallTables
    <2>4. Readable(c)
      BY <1>c DEF Readable
    <2>5. \A S : Kept(S) => Kept(S)'
      <3>1. CASE bodyOn' = bodyOn
        BY <1>same, <3>1
      <3>2. CASE bodyOn' = [bodyOn EXCEPT ![s] = c]
        BY <2>3, <2>4, <3>2 DEF Kept, Readable
      <3> QED
        BY <2>2, <3>1, <3>2
    <2>6. bodyOn' = [bodyOn EXCEPT ![s] = c] => Kept({s})'
      BY <2>3, <2>4 DEF Kept, Readable
    <2>7. Kept({})'
      BY DEF Kept
    <2> DEFINE a == [call[c] EXCEPT !.todo = @ \ {s}, !.placed = @ \cup {s}]
               b == [call[c] EXCEPT !.todo = @ \ {s}, !.failed = @ \cup {s}]
    <2>8. Fit(c, a) /\ a.step = "write" /\ a.placed = call[c].placed \cup {s}
      BY <1>c, <2>1 DEF Fit, CallFields
    <2>9. Fit(c, b) /\ b.step = "write" /\ b.placed = call[c].placed \cup {}
      BY <1>c, <2>1 DEF Fit, CallFields
    <2>10. (bodyOn' = [bodyOn EXCEPT ![s] = c] /\ Go(c, a)) \/ Go(c, b)
      BY <2>2
    <2> HIDE DEF a, b
    <2>11. CASE Go(c, b)
      BY <1>2, <2>1, <2>5, <2>7, <2>9, <2>11
    <2>12. CASE bodyOn' = [bodyOn EXCEPT ![s] = c] /\ Go(c, a)
      <3>1. Kept({s})'
        BY <2>6, <2>12
      <3>2. \E T : a.placed = call[c].placed \cup T /\ Kept(T)'
        BY <2>8, <3>1
      <3> QED
        BY <1>2, <2>1, <2>5, <2>8, <2>12, <3>2
    <2> QED
      BY <2>10, <2>11, <2>12
  <1>5. CASE RetryWrites(c)
    <2> DEFINE r == [call[c] EXCEPT !.order = Fresh(c), !.todo = ToSet(Fresh(c)), !.retried = TRUE]
    <2>1. UNCHANGED <<place, bodyOn, repairs, purge, tracked, play>> /\ call[c].step = "write"
          /\ call[c].placed = {} /\ Go(c, r)
      BY <1>5 DEF RetryWrites, Answered, At
    <2>2. Fit(c, r) /\ r.step = "write" /\ r.placed = {}
      BY <1>c, <2>1 DEF Fit, CallFields
    <2> HIDE DEF r
    <2> QED
      BY <1>2, <1>same, <2>1, <2>2
  <1>6. CASE AllFailed(c)
    <2>1. UNCHANGED <<place, bodyOn, repairs, purge, tracked, play>>
      BY <1>6 DEF AllFailed
    <2>2. (\E q : Go(c, [FanOut(c, q) EXCEPT !.again = TRUE])) \/ Move(c, Undo(c))
      BY <1>6, Zenon DEF AllFailed
    <2>3. ASSUME NEW q, Go(c, [FanOut(c, q) EXCEPT !.again = TRUE]) PROVE PutInv'
      <3> DEFINE r == [FanOut(c, q) EXCEPT !.again = TRUE]
      <3>1. Fit(c, FanOut(c, q)) /\ FanOut(c, q).step = "write" /\ FanOut(c, q).placed = {}
        BY FansOut DEF Fit
      <3>2. Fit(c, r) /\ r.step = "write" /\ r.placed = {}
        BY <3>1 DEF Fit, CallFields
      <3>3. Go(c, r)
        BY <2>3
      <3> HIDE DEF r
      <3> QED
        BY <1>2, <1>same, <2>1, <3>2, <3>3
    <2>4. Undo(c) = "failed"
      BY <1>op DEF Undo
    <2> QED
      BY <1>1, <1>same, <2>1, <2>2, <2>3, <2>4
  <1>7. CASE TooFew(c)
    <2>1. UNCHANGED <<place, bodyOn, repairs, purge, tracked, play>> /\ Move(c, "orphans")
      BY <1>7 DEF TooFew
    <2> QED
      BY <1>1, <1>same, <2>1
  <1>8. CASE Orphans(c)
    <2>1. UNCHANGED <<place, bodyOn, repairs, purge, tracked, play>>
          /\ \/ place = NoPlace /\ Go(c, [call[c] EXCEPT !.step = "clean", !.todo = call[c].placed])
             \/ Move(c, Undo(c))
      BY <1>8 DEF Orphans
    <2>2. Undo(c) = "failed"
      BY <1>op DEF Undo
    <2>3. CASE Move(c, Undo(c))
      BY <1>1, <1>same, <2>1, <2>2, <2>3
    <2>4. CASE place = NoPlace /\ Go(c, [call[c] EXCEPT !.step = "clean", !.todo = call[c].placed])
      <3> DEFINE r == [call[c] EXCEPT !.step = "clean", !.todo = call[c].placed]
      <3>1. Fit(c, r) /\ r.step = "clean"
        BY <1>c DEF Fit, CallFields
      <3>2. Go(c, r) /\ place.shards = {}
        BY <2>4 DEF NoPlace
      <3> HIDE DEF r
      <3>3. r.step \in PutSteps
        BY <3>1 DEF PutSteps
      <3> QED
        BY <1>same, <2>1, <3>1, <3>2, <3>3, PutFrame
    <2> QED
      BY <2>1, <2>3, <2>4
  <1>9. ASSUME NEW s \in Ids, CleanOne(c, s) PROVE PutInv'
    <2>1. call[c].step = "clean" /\ UNCHANGED <<place, repairs, purge, tracked, play>>
          /\ (Move(c, Undo(c)) \/ Go(c, [call[c] EXCEPT !.todo = @ \ {s}]))
      BY <1>9 DEF CleanOne, At
    <2>2. PICK r : Go(c, r) /\ Fit(c, r) /\ r.step \in {"clean", "failed"}
      <3>0. \A r : Go(c, r) /\ Fit(c, r) /\ r.step \in {"clean", "failed"}
                   => \E q : Go(c, q) /\ Fit(c, q) /\ q.step \in {"clean", "failed"}
        BY Zenon
      <3>1. CASE Move(c, Undo(c))
        <4> DEFINE a == [call[c] EXCEPT !.step = "failed"]
        <4>1. Undo(c) = "failed"
          BY <1>op DEF Undo
        <4>2. Go(c, a) /\ Fit(c, a) /\ a.step \in {"clean", "failed"}
          BY <3>1, <4>1, CallMoves DEF Fit
        <4> HIDE DEF a
        <4> QED
          BY <3>0, <4>2, Zenon
      <3>2. CASE Go(c, [call[c] EXCEPT !.todo = @ \ {s}])
        <4> DEFINE a == [call[c] EXCEPT !.todo = @ \ {s}]
        <4>1. Go(c, a) /\ Fit(c, a) /\ a.step \in {"clean", "failed"}
          BY <1>c, <2>1, <3>2 DEF Fit, CallFields
        <4> HIDE DEF a
        <4> QED
          BY <3>0, <4>1, Zenon
      <3> QED
        BY <2>1, <3>1, <3>2
    <2>3. /\ "step" \in CallFields \ {"clean"} /\ "placed" \in CallFields \ {"clean"}
      BY DEF CallFields
    <2>4. /\ call'[c].step = r.step
          /\ \A d \in Callers \ {c} : call'[d].step = call[d].step
          /\ \A d \in Callers \ {c} : (call'[d].clean => call[d].clean) /\ (Running(d) => ~ call'[d].clean)
      <3>1. /\ \A f \in CallFields \ {"clean"} : call'[c][f] = r[f]
            /\ \A d \in Callers \ {c} : \A f \in CallFields \ {"clean"} : call'[d][f] = call[d][f]
            /\ \A d \in Callers \ {c} : (call'[d].clean => call[d].clean) /\ (Running(d) => ~ call'[d].clean)
        BY <2>2, GoSets DEF Fit
      <3> QED
        BY <2>3, <3>1
    <2>5. \A d \in Callers : ~ Acked(d)
      BY <2>1 DEF PutInv
    <2>6. \A d \in Callers : ~ Acked(d)'
      BY <2>2, <2>4, <2>5 DEF Acked
    <2>7. \A d \in Callers : call'[d].step \in PutSteps /\ ~ (call'[d].clean /\ call'[d].step = "write")
      BY <2>2, <2>4 DEF PutInv, PutSteps, Running
    <2>8. Quiet'
      BY <2>1 DEF PutInv, Quiet
    <2> QED
      BY <2>6, <2>7, <2>8 DEF PutInv
  <1>10. CASE Commit(c)
    <2>1. UNCHANGED <<bodyOn, repairs, purge, tracked, play>> /\ call[c].step = "write"
          /\ place' = Placed(call[c].placed, c, MetaOf(c)) /\ (Move(c, "unmark") \/ Move(c, "done"))
          /\ Cardinality(call[c].placed) >= Quorum
      BY <1>10 DEF Commit, Answered, At
    <2>2. play.quorum \in 1..NShards /\ NShards \in Nat
      BY ClusterAssumption DEF CallTables, Play
    <2>3. call[c].placed # {}
      BY <2>1, <2>2, FS_EmptySet DEF Quorum
    <2>4. place'.shards = call[c].placed
      BY <2>1 DEF Placed
    <2> QED
      BY <1>1, <1>same, <2>1, <2>3, <2>4
  <1>11. CASE Unmark(c)
    <2>1. UNCHANGED <<place, bodyOn, repairs, purge, tracked, play>> /\ Move(c, "done") /\ call[c].step = "unmark"
      BY <1>11 DEF Unmark, At
    <2> QED
      BY <1>1, <1>same, <2>1
  <1>12. ~ (BeginCreate(c) \/ CopyCheck(c) \/ BeginUpload(c) \/ BeginDelete(c) \/ BeginGet(c) \/ CompleteUpload(c))
    BY <1>op DEF BeginCreate, CopyCheck, BeginUpload, BeginDelete, BeginGet, CompleteUpload
  <1>13. ~ (CopyInsert(c) \/ Unplace(c) \/ RemoveEntry(c) \/ RetryUpload(c) \/ AbortUpload(c) \/ CompletePrimary(c)
            \/ Untrack(c) \/ ReadBack(c) \/ DeleteLookup(c) \/ DeleteCollect(c))
    BY <1>st DEF CopyInsert, Unplace, RemoveEntry, RetryUpload, AbortUpload, CompletePrimary, Untrack, ReadBack,
                 DeleteLookup, DeleteCollect, At, PutSteps
  <1>14. \A s \in Ids : ~ (WithdrawOne(c, s) \/ EraseOne(c, s) \/ ReadOne(c, s))
    BY <1>st DEF WithdrawOne, EraseOne, ReadOne, At, PutSteps
  <1> QED
    BY <1>3, <1>4, <1>5, <1>6, <1>7, <1>8, <1>9, <1>10, <1>11, <1>12, <1>13, <1>14 DEF CallNext

\* AckedPutsReadable for any number of shards, callers and failures: after an
\* undisturbed put has been answered, puts that fail half way and clean up
\* behind them (cleanup_orphaned_writes, lib.rs:1244) leave a readable copy in
\* the catalog.  By induction on PutInv.
THEOREM PutsStayReadable == InspectSpec => []AckedPutsReadable
  <1>1. InspectInit => CallTables /\ PutInv
    <2> SUFFICES ASSUME ClusterInit PROVE PutInv
      BY CallTablesStart DEF InspectInit
    <2>1. \A c \in Callers : call[c] = NewCall /\ tracked[c] = NoShard
      BY DEF ClusterInit
    <2> QED
      BY <2>1 DEF ClusterInit, PutInv, Quiet, Acked, NewCall, PutSteps
  <1>2. CallTables /\ PutInv /\ [InspectNext]_inspectVars => (CallTables /\ PutInv)'
    <2> SUFFICES ASSUME CallTables, PutInv, [InspectNext]_inspectVars PROVE PutInv'
      BY CallTablesStep
    <2>1. CASE UNCHANGED clusterVars
      BY <2>1 DEF clusterVars, PutInv, Putting, OpsUsed, OpOf, Quiet, Acked, Kept
    <2>2. CASE ~ Putting
      <3>1. play' = play
        BY CallTablesStep
      <3> QED
        BY <2>2, <3>1 DEF PutInv, Putting, OpsUsed, OpOf
    <2>3. CASE Putting
      <3>1. Quiet /\ \A c \in Callers : OpOf(c) \notin LookOps /\ call[c].step \notin LookSteps
        BY <2>3 DEF PutInv, Putting, OpsUsed, LookOps, LookSteps, PutSteps
      <3> QED
        BY <2>1, <2>3, <3>1, QuietCalls, PutStep
    <2> QED
      BY <2>2, <2>3
  <1>3. PutInv => AckedPutsReadable
    BY DEF PutInv, AckedPutsReadable, Putting, Acked, At, Kept
  <1> QED
    BY <1>1, <1>2, <1>3, PTL DEF InspectSpec

\* InOrder lists members of S: the i-th has i - 1 members of S below it.  The
\* ranks of S are as many different numbers below |S| as S has members.
LEMMA InOrderRange ==
    ASSUME NEW S \in SUBSET Ids, NEW key, \A s \in Ids : key[s] \in Int, \A r, s \in Ids : key[r] = key[s] => r = s
    PROVE  /\ Cardinality(S) \in Nat
           /\ InOrder(S, key) \in [1..Cardinality(S) -> S]
           /\ \A i \in 1..Cardinality(S) : Cardinality({r \in S : key[r] < key[InOrder(S, key)[i]]}) = i - 1
  <1> DEFINE n == Cardinality(S)
             Below(s) == {r \in S : key[r] < key[s]}
             rank == [s \in S |-> Cardinality(Below(s))]
             T == 0..(n - 1)
  <1>1. IsFiniteSet(S) /\ n \in Nat
    <2>1. IsFiniteSet(Ids)
      BY ClusterAssumption, FS_Interval DEF Ids
    <2> QED
      BY <2>1, FS_Subset, FS_CardinalityType
  <1>2. ASSUME NEW s \in S
        PROVE  /\ IsFiniteSet(Below(s)) /\ Cardinality(Below(s)) \in T
    <2>1. Below(s) \in SUBSET S /\ s \notin Below(s)
      OBVIOUS
    <2> HIDE DEF Below
    <2>2. IsFiniteSet(Below(s)) /\ Cardinality(Below(s)) <= n /\ (n = Cardinality(Below(s)) => S = Below(s))
      BY <1>1, <2>1, FS_Subset
    <2>3. Cardinality(Below(s)) \in Nat
      BY <2>2, FS_CardinalityType
    <2>4. Cardinality(Below(s)) # n
      BY <2>1, <2>2
    <2> HIDE DEF n
    <2> QED
      BY <1>1, <2>2, <2>3, <2>4
  <1>3. ASSUME NEW r \in S, NEW s \in S, key[r] < key[s]
        PROVE  Cardinality(Below(r)) < Cardinality(Below(s))
    <2>1. Below(r) \in SUBSET Below(s) /\ r \in Below(s) /\ r \notin Below(r)
      BY <1>3
    <2> HIDE DEF Below
    <2>2. /\ Cardinality(Below(r)) <= Cardinality(Below(s))
          /\ Cardinality(Below(s)) = Cardinality(Below(r)) => Below(s) = Below(r)
      BY <1>2, <2>1, FS_Subset
    <2>3. Cardinality(Below(r)) \in Nat /\ Cardinality(Below(s)) \in Nat
      BY <1>2, FS_CardinalityType
    <2>4. Cardinality(Below(s)) # Cardinality(Below(r))
      BY <2>1, <2>2
    <2> QED
      BY <2>2, <2>3, <2>4
  <1>4. rank \in [S -> T] /\ \A s \in S : rank[s] = Cardinality(Below(s))
    BY <1>2
  <1>5. ASSUME NEW r \in S, NEW s \in S, rank[r] = rank[s] PROVE r = s
    <2>1. key[r] \in Int /\ key[s] \in Int /\ rank[r] \in Int
      <3>1. rank[r] \in T
        BY <1>4
      <3> HIDE DEF rank
      <3> QED
        BY <3>1
    <2>2. ~ (key[r] < key[s]) /\ ~ (key[s] < key[r])
      <3>1. key[r] < key[s] => rank[r] < rank[s]
        BY <1>3, <1>4
      <3>2. key[s] < key[r] => rank[s] < rank[r]
        BY <1>3, <1>4
      <3> HIDE DEF rank
      <3> QED
        BY <1>5, <2>1, <3>1, <3>2
    <2> HIDE DEF rank
    <2> QED
      BY <2>1, <2>2
  <1>6. IsFiniteSet(T) /\ Cardinality(T) = n
    <2> HIDE DEF n
    <2> QED
      BY <1>1, FS_Interval
  <1> HIDE DEF rank, T
  <1>7. rank \in Injection(S, T)
    BY <1>4, <1>5 DEF Injection, IsInjective
  <1>8. rank \in Surjection(S, T)
    BY <1>6, <1>7, FS_Injection
  <1>9. \A t \in T : \E s \in S : rank[s] = t
    BY <1>8 DEF Surjection
  <1>10. ASSUME NEW i \in 1..n
         PROVE  InOrder(S, key)[i] \in S /\ Cardinality({r \in S : key[r] < key[InOrder(S, key)[i]]}) = i - 1
    <2>1. InOrder(S, key)[i] = CHOOSE s \in S : Cardinality({r \in S : key[r] < key[s]}) = i - 1
      BY DEF InOrder
    <2>2. i - 1 \in T
      <3> HIDE DEF n
      <3> QED
        BY <1>1 DEF T
    <2>3. \E s \in S : Cardinality({r \in S : key[r] < key[s]}) = i - 1
      BY <1>4, <1>9, <2>2
    <2> QED
      BY <2>1, <2>3
  <1>11. InOrder(S, key) = [i \in 1..n |-> InOrder(S, key)[i]]
    <2> DEFINE op(i) == CHOOSE s \in S : Cardinality({r \in S : key[r] < key[s]}) = i - 1
    <2>1. InOrder(S, key) = [i \in 1..n |-> op(i)]
      BY Zenon DEF InOrder
    <2> HIDE DEF op, n
    <2> QED
      BY <2>1
  <1> HIDE DEF n
  <1>12. InOrder(S, key) \in [1..n -> S]
    BY <1>10, <1>11
  <1> QED
    BY <1>1, <1>10, <1>12 DEF n

\* Distances from home and numbers tell shards apart.
LEMMA Distances ==
    /\ \A s \in Ids : ByNumber[s] \in Int /\ StepsFromHome[s] \in Int
    /\ \A r, s \in Ids : (ByNumber[r] = ByNumber[s] => r = s) /\ (StepsFromHome[r] = StepsFromHome[s] => r = s)
  <1>0. NShards \in Nat /\ HomeShard \in Ids
    BY ClusterAssumption
  <1>1. \A s \in Ids : /\ ByNumber[s] = s
                       /\ StepsFromHome[s] = IF s >= HomeShard THEN s - HomeShard ELSE s + NShards - HomeShard
    BY DEF StepsFromHome, ByNumber
  <1> QED
    BY <1>0, <1>1 DEF Ids

\* select_targets returns shards.
LEMMA TargetShards ==
    ASSUME CallTables, NEW st
    PROVE  Targets(st) \in Seq(Ids)
  <1> DEFINE W == {s \in Ids : st[s] # "Offline"}
             a == InOrder(W, ByNumber)
             b == InOrder(W, StepsFromHome)
  <1>1. Cardinality(W) \in Nat /\ a \in [1..Cardinality(W) -> W] /\ b \in [1..Cardinality(W) -> W]
    <2>1. W \in SUBSET Ids
      OBVIOUS
    <2> QED
      BY <2>1, Distances, InOrderRange
  <1>2. Factor \in 1..NShards /\ NShards \in Nat
    BY ClusterAssumption DEF CallTables, Play, Factor
  <1>3. Targets(st) = IF Cardinality(W) <= Factor THEN a ELSE SubSeq(b, 1, Factor)
    BY Zenon DEF Targets
  <1>4. W \subseteq Ids
    OBVIOUS
  <1> HIDE DEF W, a, b
  <1>5. a \in Seq(Ids) /\ b \in Seq(Ids) /\ Len(b) = Cardinality(W)
    BY <1>1, <1>4
  <1>6. CASE Cardinality(W) <= Factor
    BY <1>3, <1>5, <1>6
  <1>7. CASE ~ (Cardinality(W) <= Factor)
    <2>1. SubSeq(b, 1, Factor) \in Seq(Ids)
      BY <1>1, <1>2, <1>5, <1>7
    <2> QED
      BY <1>3, <1>7, <2>1
  <1> QED
    BY <1>6, <1>7

\* The first targets are shards.
LEMMA InitialInIds == CallTables => InitialShards \subseteq Ids
  <1> SUFFICES ASSUME CallTables PROVE InitialShards \subseteq Ids
    OBVIOUS
  <1> DEFINE q == Targets([s \in Ids |-> "Healthy"])
  <1>1. q \in Seq(Ids)
    BY TargetShards
  <1>2. InitialShards = {q[i] : i \in DOMAIN q}
    BY DEF InitialShards, ToSet
  <1> HIDE DEF q
  <1> QED
    BY <1>1, <1>2

\* There are as many first targets as the replication factor says, the home
\* shard among them.
LEMMA InitialCount ==
    ASSUME CallTables
    PROVE  /\ Cardinality(InitialShards) = Factor /\ IsFiniteSet(InitialShards)
           /\ InitialShards # {} /\ HomeShard \in InitialShards
  <1> DEFINE a == InOrder(Ids, ByNumber)
             b == InOrder(Ids, StepsFromHome)
             q == Targets([s \in Ids |-> "Healthy"])
             W == {s \in Ids : [t \in Ids |-> "Healthy"][s] # "Offline"}
  <1>1. Factor \in 1..NShards /\ NShards \in Nat
    BY ClusterAssumption DEF CallTables, Play, Factor
  <1>2. IsFiniteSet(Ids) /\ Cardinality(Ids) = NShards
    BY <1>1, FS_Interval DEF Ids
  <1>3. W = Ids
    OBVIOUS
  <1>4. q = IF Cardinality(W) <= Factor THEN InOrder(W, ByNumber) ELSE SubSeq(InOrder(W, StepsFromHome), 1, Factor)
    BY Zenon DEF Targets
  <1>5. q = IF NShards <= Factor THEN a ELSE SubSeq(b, 1, Factor)
    BY <1>2, <1>3, <1>4
  <1>6. /\ a \in [1..NShards -> Ids] /\ b \in [1..NShards -> Ids]
        /\ \A i \in 1..NShards : /\ Cardinality({r \in Ids : ByNumber[r] < ByNumber[a[i]]}) = i - 1
                                 /\ Cardinality({r \in Ids : StepsFromHome[r] < StepsFromHome[b[i]]}) = i - 1
    <2>1. Ids \in SUBSET Ids
      OBVIOUS
    <2>2. /\ a \in [1..NShards -> Ids]
          /\ \A i \in 1..NShards : Cardinality({r \in Ids : ByNumber[r] < ByNumber[a[i]]}) = i - 1
      BY <1>2, <2>1, Distances, InOrderRange
    <2>3. /\ b \in [1..NShards -> Ids]
          /\ \A i \in 1..NShards : Cardinality({r \in Ids : StepsFromHome[r] < StepsFromHome[b[i]]}) = i - 1
      BY <1>2, <2>1, Distances, InOrderRange
    <2> QED
      BY <2>2, <2>3
  <1>7. \A i, j \in 1..NShards : (a[i] = a[j] => i = j) /\ (b[i] = b[j] => i = j)
    <2> HIDE DEF a, b
    <2>1. \A i, j \in 1..NShards : i - 1 = j - 1 => i = j
      BY <1>1
    <2>2. ASSUME NEW i \in 1..NShards, NEW j \in 1..NShards, a[i] = a[j] PROVE i = j
      BY <1>6, <2>1, <2>2, ZenonT(60)
    <2>3. ASSUME NEW i \in 1..NShards, NEW j \in 1..NShards, b[i] = b[j] PROVE i = j
      BY <1>6, <2>1, <2>3, ZenonT(60)
    <2> QED
      BY <2>2, <2>3
  <1>8. InitialShards = {q[i] : i \in DOMAIN q}
    BY DEF InitialShards, ToSet
  <1>9. b[1] = HomeShard
    <2> DEFINE R == {r \in Ids : StepsFromHome[r] < StepsFromHome[b[1]]}
    <2>0. 1 \in 1..NShards /\ 1 - 1 = 0
      BY <1>1
    <2>1. R \subseteq Ids /\ Cardinality(R) = 0 /\ b[1] \in Ids
      <3> HIDE DEF b
      <3> QED
        BY <1>6, <2>0
    <2>2. R = {}
      <3> HIDE DEF R
      <3>1. IsFiniteSet(R)
        BY <1>2, <2>1, FS_Subset
      <3> QED
        BY <2>1, <3>1, FS_EmptySet
    <2>3. HomeShard \in Ids /\ ~ (StepsFromHome[HomeShard] < StepsFromHome[b[1]])
      BY <2>2, ClusterAssumption
    <2>4. StepsFromHome[HomeShard] = 0 /\ StepsFromHome[b[1]] \in Nat
      <3> HIDE DEF b
      <3> QED
        BY <1>1, <2>1, <2>3 DEF StepsFromHome, Ids
    <2>5. StepsFromHome[HomeShard] = StepsFromHome[b[1]]
      <3> HIDE DEF b
      <3> QED
        BY <2>3, <2>4
    <2> HIDE DEF b
    <2> QED
      BY <2>1, <2>3, <2>5, Distances
  <1> HIDE DEF a, b, q
  <1>10. q \in [1..Factor -> Ids] /\ \A i, j \in 1..Factor : q[i] = q[j] => i = j
    <2>1. CASE NShards <= Factor
      <3>1. NShards = Factor /\ q = a
        BY <1>1, <1>5, <2>1
      <3> QED
        BY <1>6, <1>7, <3>1
    <2>2. CASE ~ (NShards <= Factor)
      <3>1. q = SubSeq(b, 1, Factor) /\ 1..Factor \subseteq 1..NShards
        BY <1>1, <1>5, <2>2
      <3>2. b \in Seq(Ids) /\ Len(b) = NShards
        BY <1>1, <1>6
      <3>3. q \in Seq(Ids) /\ Len(q) = Factor /\ \A i \in 1..Factor : q[i] = b[i]
        BY <1>1, <2>2, <3>1, <3>2
      <3>4. q \in [1..Factor -> Ids]
        BY <3>3
      <3> QED
        BY <1>7, <3>1, <3>3, <3>4
    <2> QED
      BY <2>1, <2>2
  <1>11. DOMAIN q = 1..Factor
    BY <1>10
  <1>12. q \in Surjection(1..Factor, InitialShards) /\ q \in Injection(1..Factor, InitialShards)
    BY <1>8, <1>10, <1>11 DEF Surjection, Injection, IsInjective
  <1>13. IsFiniteSet(1..Factor) /\ Cardinality(1..Factor) = Factor
    BY <1>1, FS_Interval
  <1>14. Cardinality(InitialShards) = Factor /\ IsFiniteSet(InitialShards)
    BY <1>12, <1>13, FS_Surjection
  <1>15. HomeShard \in InitialShards
    <2>1. CASE NShards <= Factor
      <3>1. InitialShards \subseteq Ids /\ Cardinality(InitialShards) = Cardinality(Ids)
        BY <1>1, <1>2, <1>14, <2>1, InitialInIds
      <3>2. InitialShards = Ids
        BY <1>2, <3>1, FS_Subset
      <3> QED
        BY <3>2, ClusterAssumption
    <2>2. CASE ~ (NShards <= Factor)
      <3>1. q = SubSeq(b, 1, Factor) /\ b \in Seq(Ids) /\ Len(b) = NShards
        BY <1>1, <1>5, <1>6, <2>2
      <3>2. q[1] = b[1] /\ 1 \in DOMAIN q
        BY <1>1, <1>11, <2>2, <3>1
      <3> QED
        BY <1>8, <1>9, <3>2
    <2> QED
      BY <2>1, <2>2
  <1> QED
    BY <1>14, <1>15

\* With all shards healthy select_targets returns the first targets again.
LEMMA HealthyTargets ==
    ASSUME CallTables, \A s \in Ids : status[s] = "Healthy"
    PROVE  /\ Targets(status) \in Seq(Ids) /\ Targets(status) # <<>>
           /\ ToSet(Targets(status)) = InitialShards /\ Reachable = Ids
  <1> DEFINE V == {s \in Ids : status[s] # "Offline"}
             W == {s \in Ids : [t \in Ids |-> "Healthy"][s] # "Offline"}
             T(X) == IF Cardinality(X) <= Factor THEN InOrder(X, ByNumber) ELSE SubSeq(InOrder(X, StepsFromHome), 1, Factor)
  <1>1. V = W /\ V = Ids
    OBVIOUS
  <1>2. Targets(status) = T(V) /\ Targets([s \in Ids |-> "Healthy"]) = T(W)
    BY Zenon DEF Targets
  <1> HIDE DEF V, W, T
  <1>3. ToSet(Targets(status)) = InitialShards
    BY <1>1, <1>2 DEF InitialShards
  <1>4. Targets(status) # <<>>
    BY <1>3, InitialCount DEF ToSet
  <1> QED
    BY <1>1, <1>3, <1>4, TargetShards DEF Reachable, V

\* GetInv after a move of a reader.
LEMMA GetFrame ==
    ASSUME CallTables, GetInv, Getting, NEW c \in Callers, NEW r, Go(c, r), Fit(c, r),
           UNCHANGED <<bodyOn, status, tracked, purge, play>>, Reads(r), IsEntry(place'),
           Broken # {} => \A s \in InitialShards \ Broken : s \in place'.shards,
           \A x \in repairs' : x \in repairs \/ RepairSound(x),
           repairs \subseteq repairs',
           Restored => Restored',
           r.step = "done" /\ r.failed # {} => repairs' # {}
    PROVE  GetInv'
  <1>1. \A f \in {"step", "failed", "todo"} : f \in CallFields \ {"clean"}
    BY DEF CallFields
  <1>2. \A f \in {"step", "failed", "todo"} :
            call'[c][f] = r[f] /\ \A d \in Callers \ {c} : call'[d][f] = call[d][f]
    BY <1>1, GoSets DEF Fit
  <1>3. /\ call'[c].step = r.step /\ call'[c].failed = r.failed /\ call'[c].todo = r.todo
        /\ \A d \in Callers \ {c} :
              call'[d].step = call[d].step /\ call'[d].failed = call[d].failed /\ call'[d].todo = call[d].todo
    BY <1>2
  <1>4. Broken' = Broken /\ Reachable' = Reachable
    BY DEF Broken, Reachable
  <1>5. InitialShards' = InitialShards
    BY DEF InitialShards, Targets, Factor
  <1>6. \A x : RepairSound(x) => RepairSound(x)'
    BY <1>4 DEF RepairSound
  <1>7. ASSUME NEW d \in Callers PROVE Reads(call[d])'
    <2>1. CASE d = c
      BY <1>3, <1>4, <2>1 DEF Reads
    <2>2. CASE d # c
      <3>1. Reads(call[d])
        BY DEF GetInv
      <3> QED
        BY <1>3, <1>4, <2>2, <3>1 DEF Reads
    <2> QED
      BY <2>1, <2>2
  <1>8. ASSUME NEW d \in Callers, call'[d].step = "done", call'[d].failed # {}
        PROVE  repairs' # {} \/ Restored'
    <2>1. CASE d = c
      BY <1>3, <1>8, <2>1
    <2>2. CASE d # c
      <3>1. call[d].step = "done" /\ call[d].failed # {}
        BY <1>3, <1>8, <2>2
      <3> QED
        BY <3>1 DEF GetInv, RepairDue
    <2> QED
      BY <2>1, <2>2
  <1>9. \A x \in repairs' : RepairSound(x)'
    BY <1>6 DEF GetInv
  <1>10. GoodCopies'
    BY <1>4, <1>5 DEF GetInv, GoodCopies
  <1>11. RepairDue'
    BY <1>8 DEF RepairDue
  <1>12. (purge = {} /\ (\A d \in Callers : tracked[d] = NoShard) /\ Reachable = Ids /\ IsEntry(place))'
    BY <1>4 DEF GetInv
  <1> QED
    BY <1>7, <1>9, <1>10, <1>11, <1>12 DEF GetInv

\* add_replica keeps what the entry names.
LEMMA EntryGrows ==
    ASSUME IsEntry(place), NEW s, NEW meta
    PROVE  /\ IsEntry(Replicated(s, meta))
           /\ Replicated(s, meta).shards = place.shards \cup {s}
  <1> DEFINE e == IF place = NoPlace THEN Placeholder({}) ELSE place
             m == (e.meta \/ meta # {})
  <1>1. IsEntry(e) /\ e.shards = place.shards
    BY DEF IsEntry, NoPlace, Placeholder
  <1>2. Replicated(s, meta) = [e EXCEPT !.shards = e.shards \cup {s}, !.meta = m]
    BY Zenon DEF Replicated
  <1> HIDE DEF e, m
  <1> QED
    BY <1>1, <1>2 DEF IsEntry

\* Every step of a read preserves GetInv when no shard fails.
LEMMA GetStep ==
    ASSUME CallTables, GetInv, Getting, faults' = faults, NEW c \in Callers, CallNext(c)
    PROVE  GetInv'
  <1>op. OpOf(c) \in {"get", "none"}
    BY DEF Getting, OpsUsed
  <1>reads. Reads(call[c]) /\ call[c].step \in {"begin", "read", "done", "failed"}
    BY DEF GetInv, Reads
  <1>c. DOMAIN call[c] = CallFields
    BY DEF CallTables
  <1>quiet. ~ Fault
    BY ClusterAssumption DEF Fault, CallTables
  <1>1. ASSUME NEW r, Go(c, r), Fit(c, r), Reads(r), r.step # "done",
               UNCHANGED <<bodyOn, place, status, repairs, tracked, purge, play>>
        PROVE  GetInv'
    <2>1. Restored => Restored'
      BY <1>1 DEF Restored, Broken
    <2>2. Broken # {} => \A s \in InitialShards \ Broken : s \in place'.shards
      BY <1>1 DEF GetInv, GoodCopies
    <2>3. IsEntry(place')
      BY <1>1 DEF GetInv
    <2> QED
      BY <1>1, <2>1, <2>2, <2>3, GetFrame
  <1>2. CASE BeginGet(c)
    <2>0. call[c].step = "begin" /\ UNCHANGED <<bodyOn, place, status, repairs, tracked, purge, play>>
      BY <1>2 DEF BeginGet, At
    <2>1. CASE Move(c, "failed")
      <3> DEFINE r == [call[c] EXCEPT !.step = "failed"]
      <3>1. Go(c, r) /\ Fit(c, r) /\ r.step = "failed" /\ r.failed = call[c].failed
        BY <2>1, CallMoves DEF Fit
      <3> HIDE DEF r
      <3>2. Reads(r)
        BY <1>reads, <3>1 DEF Reads
      <3> QED
        BY <1>1, <2>0, <3>1, <3>2
    <2>2. CASE Go(c, [call[c] EXCEPT !.step = "read", !.todo = Resolved, !.again = (place = NoPlace)])
      <3> DEFINE r == [call[c] EXCEPT !.step = "read", !.todo = Resolved, !.again = (place = NoPlace)]
      <3>1. Go(c, r) /\ Fit(c, r) /\ r.step = "read" /\ r.todo = Resolved /\ r.failed = call[c].failed
        BY <1>c, <2>2 DEF Fit, CallFields
      <3> HIDE DEF r
      <3>2. Resolved \subseteq Ids
        BY DEF Resolved, Reachable
      <3>3. Reads(r)
        BY <1>reads, <2>0, <3>1, <3>2 DEF Reads
      <3> QED
        BY <1>1, <2>0, <3>1, <3>3
    <2> QED
      BY <1>2, <2>1, <2>2, Zenon DEF BeginGet
  <1>3. ASSUME NEW s \in Ids, ReadOne(c, s) PROVE GetInv'
    <2> DEFINE rest == [call[c] EXCEPT !.todo = @ \ {s}, !.step = IF call[c].todo = {s} THEN "failed" ELSE @]
               sick == [rest EXCEPT !.failed = @ \cup {s}]
               good == [call[c] EXCEPT !.step = "done", !.data = bodyOn[s]]
    <2>0. /\ call[c].step = "read" /\ s \in call[c].todo /\ UNCHANGED <<bodyOn, status, tracked, purge, play>>
      BY <1>3 DEF ReadOne, At
    <2>1. \/ /\ Readable(bodyOn[s]) /\ Go(c, good)
             /\ place' = place \/ place' = Replicated(s, IndexedMeta(s))
             /\ repairs' = repairs \cup {Repair(s, b) : b \in call[c].failed \cap Reachable}
          \/ bodyOn[s] = BadBody /\ place' = Without({s}) /\ Go(c, sick) /\ repairs' = repairs
          \/ Go(c, rest) /\ UNCHANGED <<place, repairs>>
      BY <1>3, <1>quiet, Zenon DEF ReadOne
    <2>2. /\ Fit(c, rest) /\ rest.step \in {"read", "failed"} /\ rest.todo = call[c].todo \ {s}
          /\ rest.failed = call[c].failed
      BY <1>c, <2>0 DEF Fit, CallFields
    <2>3. /\ Fit(c, good) /\ good.step = "done" /\ good.failed = call[c].failed
      BY <1>c DEF Fit, CallFields
    <2> HIDE DEF rest, good
    <2>4. /\ Fit(c, sick) /\ sick.step \in {"read", "failed"} /\ sick.todo = call[c].todo \ {s}
          /\ sick.failed = call[c].failed \cup {s}
      BY <2>2 DEF Fit, CallFields
    <2> HIDE DEF sick
    <2>5. call[c].todo \subseteq Ids /\ call[c].todo \cap call[c].failed = {} /\ call[c].failed \subseteq Broken
      BY <1>reads, <2>0 DEF Reads
    <2>6. CASE Go(c, rest) /\ UNCHANGED <<place, repairs>>
      <3>1. Reads(rest)
        BY <2>2, <2>5 DEF Reads
      <3> QED
        BY <1>1, <2>0, <2>2, <2>6, <3>1
    <2>7. CASE bodyOn[s] = BadBody /\ place' = Without({s}) /\ Go(c, sick) /\ repairs' = repairs
      <3>1. s \in Broken
        BY <2>7 DEF GetInv, GoodCopies
      <3>2. Reads(sick)
        BY <2>4, <2>5, <3>1 DEF Reads
      <3>3. ~ Restored
        BY <2>7, <3>1 DEF Restored, BadBody, OldBody
      <3>4. ASSUME NEW t \in InitialShards \ Broken, Broken # {} PROVE t \in place'.shards
        <4>1. t \in place.shards /\ t # s
          BY <3>1, <3>4 DEF GetInv, GoodCopies
        <4>2. place' = [place EXCEPT !.shards = @ \ {s}]
          BY <2>7, <4>1 DEF Without
        <4>3. "shards" \in DOMAIN place
          BY DEF GetInv, IsEntry
        <4> QED
          BY <4>1, <4>2, <4>3
      <3>5. IsEntry(place')
        BY <2>7 DEF GetInv, IsEntry, Without, NoPlace
      <3> QED
        BY <2>0, <2>4, <2>7, <3>2, <3>3, <3>4, <3>5, GetFrame
    <2>8. CASE /\ Readable(bodyOn[s]) /\ Go(c, good)
               /\ place' = place \/ place' = Replicated(s, IndexedMeta(s))
               /\ repairs' = repairs \cup {Repair(s, b) : b \in call[c].failed \cap Reachable}
      <3>1. Reads(good)
        BY <2>3, <2>5 DEF Reads
      <3>2. place.shards \subseteq place'.shards /\ IsEntry(place')
        BY <2>8, EntryGrows DEF GetInv
      <3>3. ASSUME NEW b \in call[c].failed PROVE RepairSound(Repair(s, b))
        <4>1. b \in Broken /\ s # b /\ s \notin Broken
          BY <2>0, <2>5 DEF Broken
        <4>2. bodyOn[s] = OldBody
          BY <2>8, <4>1 DEF GetInv, GoodCopies, Readable
        <4> QED
          BY <4>1, <4>2 DEF RepairSound, Repair
      <3>4. call[c].failed # {} => repairs' # {}
        <4>1. Reachable = Ids /\ Broken \subseteq Ids
          BY ClusterAssumption DEF GetInv, Broken
        <4>2. \A b \in call[c].failed : Repair(s, b) \in repairs'
          BY <2>5, <2>8, <4>1
        <4> QED
          BY <4>2
      <3>5. Restored => Restored'
        BY <2>0, <3>2 DEF Restored, Broken
      <3>6. Broken # {} => \A t \in InitialShards \ Broken : t \in place'.shards
        BY <3>2 DEF GetInv, GoodCopies
      <3>7. (\A x \in repairs' : x \in repairs \/ RepairSound(x)) /\ repairs \subseteq repairs'
        BY <2>8, <3>3
      <3> QED
        BY <2>0, <2>3, <2>8, <3>1, <3>2, <3>4, <3>5, <3>6, <3>7, GetFrame
    <2> QED
      BY <2>1, <2>6, <2>7, <2>8
  <1>4. ~ (BeginPut(c) \/ BeginCreate(c) \/ CopyCheck(c) \/ BeginUpload(c) \/ BeginDelete(c))
    BY <1>op DEF BeginPut, BeginCreate, CopyCheck, BeginUpload, BeginDelete
  <1>5. ~ (CopyInsert(c) \/ RetryWrites(c) \/ AllFailed(c) \/ TooFew(c) \/ Orphans(c) \/ Unplace(c) \/ RemoveEntry(c)
           \/ Commit(c) \/ Unmark(c) \/ RetryUpload(c) \/ AbortUpload(c) \/ CompletePrimary(c) \/ Untrack(c)
           \/ ReadBack(c) \/ CompleteUpload(c) \/ DeleteLookup(c) \/ DeleteCollect(c))
    BY <1>reads DEF CopyInsert, RetryWrites, AllFailed, TooFew, Orphans, Unplace, RemoveEntry, Commit, Unmark,
                    RetryUpload, AbortUpload, CompletePrimary, Untrack, ReadBack, CompleteUpload, DeleteLookup,
                    DeleteCollect, Answered, At
  <1>6. \A s \in Ids : ~ (WriteOne(c, s) \/ CleanOne(c, s) \/ WithdrawOne(c, s) \/ EraseOne(c, s))
    BY <1>reads DEF WriteOne, CleanOne, WithdrawOne, EraseOne, At
  <1> QED
    BY <1>2, <1>3, <1>4, <1>5, <1>6 DEF CallNext

\* GetInv after a step of a repair.
LEMMA RepairFrame ==
    ASSUME CallTables, GetInv, Getting, UNCHANGED <<status, call, tracked, purge, play>>, IsEntry(place'),
           place.shards \subseteq place'.shards,
           \A s \in Ids : bodyOn'[s] = bodyOn[s] \/ (s \in Broken /\ bodyOn'[s] = OldBody),
           \A x \in repairs' : x \in repairs \/ RepairSound(x)',
           repairs' # {} \/ Restored'
    PROVE  GetInv'
  <1>1. Broken' = Broken /\ Reachable' = Reachable /\ Broken \subseteq Ids
    BY ClusterAssumption DEF Broken, Reachable
  <1>2. InitialShards' = InitialShards
    BY DEF InitialShards, Targets, Factor
  <1>3. \A x : RepairSound(x) => RepairSound(x)'
    BY <1>1 DEF RepairSound
  <1>4. \A x \in repairs' : RepairSound(x)'
    BY <1>3 DEF GetInv
  <1>5. ASSUME NEW d \in Callers PROVE Reads(call[d])'
    <2>1. Reads(call[d])
      BY DEF GetInv
    <2> QED
      BY <1>1, <2>1 DEF Reads
  <1>6. GoodCopies'
    <2>1. GoodCopies
      BY DEF GetInv
    <2>2. \A s \in Ids \ Broken : bodyOn'[s] = bodyOn[s]
      OBVIOUS
    <2>3. ASSUME Broken # {}, NEW s \in InitialShards \ Broken PROVE s \in place'.shards /\ bodyOn'[s] = OldBody
      BY <2>1, <2>2, <2>3, InitialInIds DEF GoodCopies
    <2>4. \A s \in Broken : bodyOn'[s] \in {BadBody, OldBody}
      BY <1>1, <2>1 DEF GoodCopies
    <2> QED
      BY <1>1, <1>2, <2>1, <2>2, <2>3, <2>4 DEF GoodCopies
  <1>7. RepairDue'
    BY DEF RepairDue
  <1>8. (purge = {} /\ (\A d \in Callers : tracked[d] = NoShard) /\ Reachable = Ids /\ IsEntry(place))'
    BY <1>1 DEF GetInv
  <1> QED
    BY <1>4, <1>5, <1>6, <1>7, <1>8 DEF GetInv

\* Every step of a repair preserves GetInv when no shard fails.
LEMMA RepairStep ==
    ASSUME CallTables, GetInv, Getting, faults' = faults, NEW r \in repairs,
           RepairRead(r) \/ RepairWrite(r) \/ RepairEnter(r)
    PROVE  GetInv'
  <1>1. RepairSound(r) /\ IsEntry(place)
    BY DEF GetInv
  <1>2. faults' # faults - 1
    BY DEF CallTables
  <1>3. r.bad \in Ids /\ Broken = {r.bad}
    BY <1>1, ClusterAssumption DEF RepairSound, Broken
  <1>4. CASE RepairRead(r)
    <2>q. PICK q : q = [r EXCEPT !.step = "write", !.data = bodyOn[r.good], !.fields = metaOn[r.good]]
      OBVIOUS
    <2>0. UNCHANGED <<bodyOn, place, status, call, tracked, purge, play>>
      BY <1>4 DEF RepairRead
    <2>1. repairs' = (repairs \ {r}) \cup {q}
      <3>1. Readable(bodyOn[r.good])
        BY <1>1 DEF RepairSound, Readable, OldBody, NoBody, BadBody
      <3> QED
        BY <1>2, <1>4, <2>q, <3>1 DEF RepairRead, Proceed, Fault
    <2>2. RepairSound(q)
      BY <1>1, <2>q DEF RepairSound
    <2>3. RepairSound(q)'
      BY <2>0, <2>2 DEF RepairSound, Broken
    <2> QED
      BY <1>1, <2>0, <2>1, <2>3, RepairFrame
  <1>5. CASE RepairWrite(r)
    <2> DEFINE q == [r EXCEPT !.step = "enter"]
    <2>0. UNCHANGED <<place, status, call, tracked, purge, play>> /\ r.step = "write"
      BY <1>5 DEF RepairWrite
    <2>1. repairs' = (repairs \ {r}) \cup {q} /\ bodyOn' = [bodyOn EXCEPT ![r.bad] = r.data]
      BY <1>2, <1>5 DEF RepairWrite, Proceed, Store, Refuse
    <2>2. /\ \A s \in Ids \ {r.bad} : bodyOn'[s] = bodyOn[s]
          /\ bodyOn'[r.bad] = OldBody
      BY <1>1, <1>3, <2>0, <2>1 DEF CallTables, RepairSound
    <2>3. /\ DOMAIN q = {"good", "bad", "step", "data", "fields"} /\ q.bad = r.bad /\ q.good = r.good
          /\ q.step = "enter"
      BY <1>1 DEF RepairSound
    <2> HIDE DEF q
    <2>4. RepairSound(q)'
      <3>1. r.good \in Ids \ Broken /\ bodyOn[r.good] = OldBody
        BY <1>1 DEF RepairSound
      <3>2. Broken' = Broken
        BY <2>0 DEF Broken
      <3> QED
        BY <1>3, <2>2, <2>3, <3>1, <3>2 DEF RepairSound
    <2> QED
      BY <1>1, <1>3, <2>0, <2>1, <2>2, <2>4, RepairFrame
  <1>6. CASE RepairEnter(r)
    <2>0. /\ UNCHANGED <<bodyOn, status, call, tracked, purge, play>> /\ r.step = "enter"
          /\ repairs' = repairs \ {r} /\ place' = Replicated(r.bad, r.fields)
      BY <1>6 DEF RepairEnter, Proceed
    <2>1. IsEntry(place') /\ place'.shards = place.shards \cup {r.bad}
      BY <1>1, <2>0, EntryGrows
    <2>2. bodyOn[r.bad] = OldBody
      BY <1>1, <2>0 DEF RepairSound
    <2>3. Restored'
      <3>1. Broken' = Broken
        BY <2>0 DEF Broken
      <3> QED
        BY <1>3, <2>0, <2>1, <2>2, <3>1 DEF Restored
    <2> QED
      BY <2>0, <2>1, <2>3, RepairFrame
  <1> QED
    BY <1>4, <1>5, <1>6

\* ReadRepairRestores for any number of shards and readers: once the repairs
\* that reads have scheduled (schedule_read_repair, lib.rs:1032) are through,
\* the corrupt copy is replaced and in the catalog again.  By induction on
\* GetInv.
THEOREM RepairsRestore == InspectSpec => []ReadRepairRestores
  <1>1. InspectInit => CallTables /\ GetInv
    <2> SUFFICES ASSUME ClusterInit, CallTables PROVE GetInv
      BY CallTablesStart DEF InspectInit
    <2>1. \A c \in Callers : call[c] = NewCall /\ tracked[c] = NoShard
      BY DEF ClusterInit
    <2>2. \A c \in Callers : call[c].step = "begin" /\ call[c].failed = {}
      BY <2>1 DEF NewCall
    <2>3. repairs = {} /\ purge = {} /\ status = [s \in Ids |-> "Healthy"]
      BY DEF ClusterInit
    <2>4. IsEntry(place)
      <3>1. \E S, b, m : place = NoPlace \/ place = Placed(S, b, m)
        BY Zenon DEF ClusterInit
      <3> QED
        BY <3>1 DEF IsEntry, NoPlace, Placed
    <2> DEFINE held == IF play.before = "absent" THEN {} ELSE InitialShards
               last == IF play.before = "altered" THEN {InOrder(held, StepsFromHome)[Cardinality(held)]} ELSE {}
    <2>5. bodyOn = [s \in Ids |-> CASE s \in Broken -> BadBody
                                   [] s \in last -> AlteredBody
                                   [] s \in held \ (Broken \cup last) -> OldBody
                                   [] OTHER -> NoBody]
      BY Zenon DEF ClusterInit, Broken
    <2>6. Broken # {} => last = {} /\ held = InitialShards
      BY DEF Broken
    <2>7. Broken # {} /\ held # {} => place.shards = held
      <3>1. \E b, m : held # {} => place = Placed(held, b, m)
        BY Zenon DEF ClusterInit
      <3> QED
        BY <3>1 DEF Placed
    <2>8. Broken \subseteq Ids /\ InitialShards \subseteq Ids
      BY ClusterAssumption, InitialInIds DEF Broken
    <2>9. last \cap Broken = {}
      BY DEF Broken
    <2> HIDE DEF held, last
    <2>10. GoodCopies
      <3>1. \A s \in Broken : bodyOn[s] = BadBody
        BY <2>5, <2>8, <2>9
      <3>2. \A s \in Ids \ Broken : bodyOn[s] \in {AlteredBody, OldBody, NoBody}
        BY <2>5
      <3>3. ASSUME Broken # {}, NEW s \in Ids \ Broken
            PROVE  bodyOn[s] \in {OldBody, NoBody} /\ (s \in InitialShards => bodyOn[s] = OldBody /\ s \in place.shards)
        BY <2>5, <2>6, <2>7, <3>3
      <3> QED
        BY <2>8, <3>1, <3>2, <3>3 DEF GoodCopies, BadBody, AlteredBody, OldBody, NoBody
    <2>11. Reachable = Ids
      BY <2>3 DEF Reachable
    <2> QED
      BY <2>1, <2>2, <2>3, <2>4, <2>10, <2>11 DEF GetInv, Reads, RepairDue
  <1>2. CallTables /\ GetInv /\ [InspectNext]_inspectVars => (CallTables /\ GetInv)'
    <2> SUFFICES ASSUME CallTables, GetInv, [InspectNext]_inspectVars, Getting' PROVE GetInv'
      BY CallTablesStep DEF GetInv
    <2>1. play' = play /\ faults \in 0..MaxFaults
      BY CallTablesStep DEF CallTables
    <2>2. Getting /\ faults' = faults
      <3>1. faults' \in {faults, faults - 1}
        BY CallTablesStep
      <3> QED
        BY <2>1, <3>1, ClusterAssumption DEF Getting, OpsUsed, OpOf
    <2>3. CASE UNCHANGED clusterVars
      <3>1. Broken' = Broken /\ InitialShards' = InitialShards /\ Reachable' = Reachable /\ Restored' = Restored
        BY <2>3 DEF clusterVars, Broken, InitialShards, Targets, Factor, Reachable, Restored
      <3>2. \A x : RepairSound(x) => RepairSound(x)'
        BY <2>3, <3>1 DEF clusterVars, RepairSound
      <3>3. \A c \in Callers : Reads(call[c]) => Reads(call[c])'
        BY <2>3, <3>1 DEF clusterVars, Reads
      <3>4. GoodCopies => GoodCopies'
        BY <2>3, <3>1 DEF clusterVars, GoodCopies
      <3>5. RepairDue => RepairDue'
        BY <2>3, <3>1 DEF clusterVars, RepairDue
      <3> QED
        BY <2>2, <2>3, <3>1, <3>2, <3>3, <3>4, <3>5 DEF clusterVars, GetInv
    <2>4. ASSUME NEW c \in Callers, CallNext(c) PROVE GetInv'
      BY <2>2, <2>4, GetStep
    <2>5. ASSUME NEW r \in repairs, RepairRead(r) \/ RepairWrite(r) \/ RepairEnter(r) PROVE GetInv'
      BY <2>2, <2>5, RepairStep
    <2>6. ~ PurgeCollect /\ purge = {}
      BY <2>2 DEF GetInv, PurgeCollect
    <2>7. \A c \in Callers : ~ InspectCall(c)
      <3>1. \A c \in Callers : OpOf(c) \notin LookOps /\ call[c].step \notin LookSteps
        BY <2>2 DEF GetInv, Getting, OpsUsed, LookOps, LookSteps, Reads
      <3> QED
        BY <3>1, Looks
    <2> QED
      BY <2>3, <2>4, <2>5, <2>6, <2>7 DEF InspectNext, ClusterNext, inspectVars
  <1>3. GetInv => ReadRepairRestores
    <2> SUFFICES ASSUME GetInv, Getting, repairs = {},
                        NEW c \in Callers, call[c].step = "done", call[c].failed # {},
                        NEW s \in InitialShards
                 PROVE  s \in place.shards /\ bodyOn[s] = OldBody
      BY DEF ReadRepairRestores, Getting, At
    <2>1. Restored /\ Broken # {} /\ GoodCopies
      BY DEF GetInv, RepairDue, Reads
    <2> QED
      BY <2>1 DEF Restored, GoodCopies
  <1> QED
    BY <1>1, <1>2, <1>3, PTL DEF InspectSpec

----------------------------------------------------------------------------
\* The operations of the two write paths.
WriteOps == {"put", "create", "copy_new", "put_meta", "put_file", "copy_new_meta"}

\* The steps belong to operations: which operation can be at which step.
Lane(op, step) ==
    /\ step \in {"insert", "orphans", "clean", "unplace", "remove", "unmark"} => op \in WriteOps
    /\ step = "write" => op \in WriteOps \cup {"multipart"}
    /\ step \in {"upload", "parts", "untrack", "readback", "withdraw"} => op = "multipart"
    /\ step \in {"lookup", "erase"} => op = "delete"
    /\ step = "read" => op = "get"
    /\ step \in LookSteps => op \in LookOps

\* The metadata that a write with metadata leaves on shard s.
StampOf(c, s) == IF Kind[s] = "s3" THEN AttributesOf(Fields(c)) ELSE Fields(c)

\* The shards of S have what caller c writes.
Wrote(c, S) ==
    S \subseteq Ids /\ \A s \in S : bodyOn[s] = c /\ (OpOf(c) \in WithMeta => metaOn[s] = StampOf(c, s))

\* What caller c in state r has done so far, when nobody disturbed it.
Progress(c, r) ==
    /\ r.step = "write" => Wrote(c, r.placed) /\ (OpOf(c) = "multipart" => r.data = c)
    /\ r.step = "unmark" => Wrote(c, place.shards) /\ Cardinality(place.shards) >= Quorum
    /\ r.step \in {"parts", "untrack", "readback"} => r.primary \in Ids
    /\ r.step \in {"untrack", "readback"} => bodyOn[r.primary] = c

\* Caller c is running and has not been disturbed.
Solo(c) == call[c].clean /\ Running(c)

\* A running call that is not marked as disturbed really is alone: no other
\* call, repair or purge is under way, and what it has written is still there.
SoloInv ==
    /\ \A c \in Callers : /\ Lane(OpOf(c), call[c].step)
                          /\ call[c].step = "begin" => call[c].placed = {} /\ call[c].failed = {}
    /\ \A c \in Callers : Solo(c) => /\ repairs = {} /\ purge = {}
                                     /\ \A d \in Callers \ {c} : ~ Running(d)
                                     /\ Progress(c, call[c])

----------------------------------------------------------------------------
\* No shard has failed and no call has been disturbed.
Calm == faults = MaxFaults /\ \A c \in Callers : call[c].clean

\* Every readable copy is in the catalog, or a repair is about to enter it.
Tidy ==
    \A s \in Ids : Readable(bodyOn[s]) =>
        s \in place.shards \/ \E r \in repairs : r.bad = s /\ r.step = "enter"

\* All shards are healthy and only the first targets have copies.
Sound ==
    /\ \A s \in Ids : status[s] = "Healthy"
    /\ IsEntry(place)
    /\ \A s \in Ids : bodyOn[s] # NoBody => s \in InitialShards
    /\ \A r \in repairs : DOMAIN r = {"good", "bad", "step", "data", "fields"} /\ r.bad \in InitialShards

\* What an undisturbed call in state r has reached when no shard fails: a write
\* goes to exactly the first targets, and the copies that a delete has still
\* to erase include every readable one.
Orderly(r) ==
    /\ r.step \notin {"orphans", "clean", "unplace", "remove", "upload", "withdraw"}
    /\ r.step = "write" => r.placed \cup r.todo = InitialShards /\ r.failed = {}
    /\ r.step = "unmark" => place.shards = InitialShards
    /\ r.step \in {"parts", "untrack", "readback"} => {r.primary} \cup ToSet(r.order) = InitialShards
    /\ r.step \in {"parts", "untrack", "readback", "lookup", "erase"} => r.failed = {}
    /\ r.step = "erase" => \A s \in Ids : Readable(bodyOn[s]) => s \in r.todo
    /\ r.step = "read" => r.failed \subseteq InitialShards
    /\ r.step \notin {"write", "untrack", "readback", "erase"} => Tidy

\* In a calm history copies and catalog agree between calls: the fact that a
\* delete relies on when it takes only the shards of the entry.
CalmInv ==
    Calm => /\ Sound
            /\ \A c \in Callers : Running(c) => Orderly(call[c])
            /\ (\A c \in Callers : ~ Running(c)) => Tidy

\* SoloInv after a move of caller c: only c can be alone then.
LEMMA SoloFrame ==
    ASSUME CallTables, SoloInv, NEW c \in Callers, NEW r, Go(c, r), Fit(c, r), play' = play, purge' = purge,
           Lane(OpOf(c), r.step), r.step # "begin",
           call'[c].clean /\ r.step \notin {"done", "failed"} => repairs' = {} /\ Progress(c, r)'
    PROVE  SoloInv'
  <1>1. \A f \in {"step", "placed", "failed", "data", "primary"} : f \in CallFields \ {"clean"}
    BY DEF CallFields
  <1>2. /\ \A f \in CallFields \ {"clean"} : call'[c][f] = r[f]
        /\ call'[c].clean => purge = {} /\ \A d \in Callers \ {c} : ~ Running(d)
        /\ \A d \in Callers \ {c} : /\ \A f \in CallFields \ {"clean"} : call'[d][f] = call[d][f]
                                    /\ Running(d) => ~ call'[d].clean
    BY GoSets DEF Fit
  <1>3. /\ call'[c].step = r.step /\ call'[c].placed = r.placed /\ call'[c].data = r.data /\ call'[c].primary = r.primary
        /\ \A d \in Callers \ {c} : call'[d].step = call[d].step /\ call'[d].placed = call[d].placed
                                    /\ call'[d].failed = call[d].failed
    BY <1>1, <1>2
  <1>4. \A d \in Callers : OpOf(d)' = OpOf(d)
    BY DEF OpOf
  <1>5. ASSUME NEW d \in Callers
        PROVE  (/\ Lane(OpOf(d), call[d].step)
                /\ call[d].step = "begin" => call[d].placed = {} /\ call[d].failed = {})'
    <2>1. CASE d = c
      BY <1>3, <1>4, <2>1 DEF Lane
    <2>2. CASE d # c
      BY <1>3, <1>4, <2>2 DEF SoloInv, Lane
    <2> QED
      BY <2>1, <2>2
  <1>6. ASSUME NEW d \in Callers, Solo(d)'
        PROVE  (repairs = {} /\ purge = {} /\ (\A e \in Callers \ {d} : ~ Running(e)) /\ Progress(d, call[d]))'
    <2>1. call'[d].clean /\ call'[d].step \notin {"begin", "done", "failed"}
      BY <1>6 DEF Solo, Running
    <2>2. d = c
      BY <1>2, <1>3, <2>1 DEF Running
    <2>3. \A e \in Callers \ {c} : ~ Running(e)'
      BY <1>2, <1>3, <2>1, <2>2 DEF Running
    <2>4. repairs' = {} /\ Progress(c, r)' /\ purge' = {}
      BY <1>2, <1>3, <2>1, <2>2
    <2>5. Progress(c, call[c])'
      BY <1>3, <2>4 DEF Progress, Wrote
    <2> QED
      BY <2>2, <2>3, <2>4, <2>5
  <1> QED
    BY <1>5, <1>6 DEF SoloInv

\* What a write with metadata leaves does not depend on what was there.
LEMMA Stamps ==
    ASSUME NEW c, NEW s \in Ids
    PROVE  MetaAfter(s, Fields(c)) = StampOf(c, s) /\ MetaAfter(s, Fields(c))' = StampOf(c, s)
  <1>1. Kind[s] \in {"raw", "s3", "sidecar"} /\ Fields(c) # {}
    BY ClusterAssumption DEF Fields
  <1> QED
    BY <1>1 DEF MetaAfter, StampOf

\* Every step of an operation preserves SoloInv.
LEMMA SoloStep ==
    ASSUME CallTables, SoloInv, NEW c \in Callers, CallNext(c)
    PROVE  SoloInv'
  <1>c. DOMAIN call[c] = CallFields /\ Lane(OpOf(c), call[c].step)
    BY DEF CallTables, SoloInv
  <1>cl. ASSUME NEW r, Go(c, r), Fit(c, r), call'[c].clean PROVE call[c].clean /\ repairs = {}
    BY <1>cl, GoSets DEF Fit
  <1>op. OpOf(c)' = OpOf(c) \/ play' # play
    BY DEF OpOf
  <1>m. ASSUME NEW step \in {"insert", "orphans", "unplace", "remove", "upload", "lookup", "done", "failed"},
               Move(c, step), UNCHANGED <<play, purge>>, Lane(OpOf(c), step),
               step \notin {"done", "failed"} => repairs' = repairs
        PROVE  SoloInv'
    <2> DEFINE r == [call[c] EXCEPT !.step = step]
    <2>1. Go(c, r) /\ Fit(c, r) /\ r.step = step
      BY <1>m, CallMoves DEF Fit
    <2> HIDE DEF r
    <2>2. PICK x : x = r
      OBVIOUS
    <2>3. Lane(OpOf(c), x.step) /\ x.step # "begin" /\ Progress(c, x)' /\ Go(c, x) /\ Fit(c, x) /\ x.step = step
      BY <1>m, <2>1, <2>2 DEF Progress
    <2> QED
      BY <1>m, <1>cl, <2>3, SoloFrame
  <1>f. ASSUME NEW q, Go(c, FanOut(c, q)) \/ Go(c, [FanOut(c, q) EXCEPT !.again = TRUE]),
               UNCHANGED <<play, purge, repairs>>, OpOf(c) \in WriteOps
        PROVE  SoloInv'
    <2>1. ASSUME NEW r, Go(c, r), Fit(c, r), r.step = "write", r.placed = {} PROVE SoloInv'
      <3>1. Wrote(c, {})'
        BY DEF Wrote
      <3>2. OpOf(c)' # "multipart"
        BY <1>f, <1>op DEF WriteOps
      <3>3. Progress(c, r)' /\ Lane(OpOf(c), r.step) /\ r.step # "begin"
        BY <1>f, <2>1, <3>1, <3>2 DEF Progress, Lane, LookSteps
      <3> QED
        BY <1>f, <1>cl, <2>1, <3>3, SoloFrame
    <2>2. LET r == FanOut(c, q) IN Fit(c, r) /\ r.step = "write" /\ r.placed = {}
      BY FansOut DEF Fit
    <2>3. LET r == [FanOut(c, q) EXCEPT !.again = TRUE] IN Fit(c, r) /\ r.step = "write" /\ r.placed = {}
      BY <2>2 DEF Fit, CallFields
    <2> QED
      BY <1>f, <2>1, <2>2, <2>3
  <1>u. Undo(c) \in {"unplace", "remove", "failed"}
    BY DEF Undo
  <1>x. \A step \in {"done", "failed"} : Lane(OpOf(c), step)
    BY DEF Lane, LookSteps
  <1>w. OpOf(c) \in WriteOps => \A step \in {"insert", "orphans", "clean", "unplace", "remove", "unmark"} : Lane(OpOf(c), step)
    BY DEF Lane, LookSteps
  <1>1. CASE BeginPut(c)
    <2>1. UNCHANGED <<play, purge, repairs>> /\ OpOf(c) \in WriteOps
          /\ (Move(c, "failed") \/ Go(c, FanOut(c, Targets(status))))
      BY <1>1 DEF BeginPut, WriteOps
    <2> QED
      BY <1>m, <1>f, <1>x, <2>1
  <1>2. CASE BeginCreate(c)
    <2>1. UNCHANGED <<play, purge, repairs>> /\ OpOf(c) \in WriteOps
          /\ (Move(c, "failed") \/ Go(c, FanOut(c, Targets(status))))
      BY <1>2 DEF BeginCreate, WriteOps
    <2> QED
      BY <1>m, <1>f, <1>x, <2>1
  <1>3. CASE CopyCheck(c)
    <2>1. UNCHANGED <<play, purge, repairs>> /\ OpOf(c) \in WriteOps /\ (Move(c, "failed") \/ Move(c, "insert"))
      BY <1>3 DEF CopyCheck, WriteOps
    <2> QED
      BY <1>m, <1>w, <1>x, <2>1
  <1>4. CASE CopyInsert(c)
    <2>1. UNCHANGED <<play, purge, repairs>> /\ OpOf(c) \in WriteOps
          /\ (Move(c, "failed") \/ Go(c, FanOut(c, Targets(status))))
      BY <1>4, <1>c DEF CopyInsert, At, Lane
    <2> QED
      BY <1>m, <1>f, <1>x, <2>1
  <1>5. ASSUME NEW q \in Seq(Ids), q # <<>>, Go(c, Upload(c, q)), UNCHANGED <<play, purge, repairs>>, OpOf(c) = "multipart"
        PROVE  SoloInv'
    <2> DEFINE r == Upload(c, q)
    <2>1. Fit(c, r) /\ r.step = "parts" /\ r.primary = Head(q)
      BY <1>c DEF Upload, Fit, CallFields
    <2>2. Head(q) \in Ids /\ Go(c, r)
      BY <1>5
    <2> HIDE DEF r
    <2>3. PICK x : x = r
      OBVIOUS
    <2>4. Progress(c, x)' /\ Lane(OpOf(c), x.step) /\ x.step # "begin" /\ Go(c, x) /\ Fit(c, x)
      BY <1>5, <2>1, <2>2, <2>3 DEF Progress, Lane, LookSteps
    <2> QED
      BY <1>5, <1>cl, <2>4, SoloFrame
  <1>6. CASE BeginUpload(c)
    <2>1. /\ UNCHANGED <<play, purge, repairs>> /\ OpOf(c) = "multipart"
          /\ \/ Move(c, "failed") \/ Move(c, "upload")
             \/ Targets(status) # <<>> /\ Go(c, Upload(c, Targets(status)))
      BY <1>6, Zenon DEF BeginUpload
    <2>2. Lane(OpOf(c), "upload")
      BY <2>1 DEF Lane, LookSteps
    <2> QED
      BY <1>m, <1>x, <1>5, <2>1, <2>2, TargetShards
  <1>7. CASE RetryUpload(c)
    <2>1. /\ UNCHANGED <<play, purge, repairs>> /\ OpOf(c) = "multipart"
          /\ \/ Move(c, "failed")
             \/ Targets(status) # <<>> /\ Go(c, Upload(c, Targets(status)))
      BY <1>7, <1>c DEF RetryUpload, At, Lane
    <2> QED
      BY <1>m, <1>x, <1>5, <2>1, TargetShards
  <1>8. CASE BeginDelete(c)
    <2>1. UNCHANGED <<play, purge, repairs>> /\ OpOf(c) = "delete" /\ (Move(c, "failed") \/ Move(c, "lookup"))
      BY <1>8 DEF BeginDelete
    <2>2. Lane(OpOf(c), "lookup")
      BY <2>1 DEF Lane, LookSteps
    <2> QED
      BY <1>m, <1>x, <2>1, <2>2
  <1>9. CASE BeginGet(c)
    <2> DEFINE r == [call[c] EXCEPT !.step = "read", !.todo = Resolved, !.again = (place = NoPlace)]
    <2>1. UNCHANGED <<play, purge, repairs>> /\ OpOf(c) = "get" /\ (Move(c, "failed") \/ Go(c, r))
      BY <1>9, Zenon DEF BeginGet
    <2>2. Fit(c, r) /\ r.step = "read"
      BY <1>c DEF Fit, CallFields
    <2> HIDE DEF r
    <2>3. PICK x : x = r
      OBVIOUS
    <2>4. Progress(c, x)' /\ Lane(OpOf(c), x.step) /\ x.step # "begin"
      BY <2>1, <2>2, <2>3 DEF Progress, Lane, LookSteps
    <2>5. CASE Go(c, r)
      BY <1>cl, <2>1, <2>2, <2>3, <2>4, <2>5, SoloFrame
    <2> QED
      BY <1>m, <1>x, <2>1, <2>5
  <1>10. CASE RetryWrites(c)
    <2> DEFINE r == [call[c] EXCEPT !.order = Fresh(c), !.todo = ToSet(Fresh(c)), !.retried = TRUE]
    <2>1. UNCHANGED <<play, purge, repairs>> /\ call[c].step = "write" /\ call[c].placed = {} /\ Go(c, r)
          /\ OpOf(c) # "multipart"
      BY <1>10 DEF RetryWrites, Answered, At
    <2>2. Fit(c, r) /\ r.step = "write" /\ r.placed = {}
      BY <1>c, <2>1 DEF Fit, CallFields
    <2> HIDE DEF r
    <2>3. PICK x : x = r
      OBVIOUS
    <2>4. Wrote(c, {})'
      BY DEF Wrote
    <2>5. Progress(c, x)' /\ Lane(OpOf(c), x.step) /\ x.step # "begin"
      BY <1>c, <1>op, <2>1, <2>2, <2>3, <2>4 DEF Progress
    <2> QED
      BY <1>cl, <2>1, <2>2, <2>3, <2>5, SoloFrame
  <1>11. CASE AllFailed(c)
    <2>1. UNCHANGED <<play, purge, repairs>> /\ call[c].step = "write" /\ OpOf(c) # "multipart"
      BY <1>11 DEF AllFailed, Answered, At
    <2>2. (\E q : Go(c, [FanOut(c, q) EXCEPT !.again = TRUE])) \/ Move(c, Undo(c))
      BY <1>11, Zenon DEF AllFailed
    <2>3. OpOf(c) \in WriteOps
      BY <1>c, <2>1 DEF Lane
    <2> QED
      BY <1>m, <1>f, <1>u, <1>w, <1>x, <2>1, <2>2, <2>3
  <1>12. CASE TooFew(c)
    <2>1. UNCHANGED <<play, purge, repairs>> /\ Move(c, "orphans") /\ OpOf(c) \in WriteOps
      BY <1>12, <1>c DEF TooFew, Answered, At, Lane
    <2> QED
      BY <1>m, <1>w, <2>1
  <1>13. ASSUME NEW r, Go(c, r), Fit(c, r), r.step = "clean", OpOf(c) \in WriteOps, UNCHANGED <<play, purge, repairs>>
         PROVE  SoloInv'
    <2>1. Progress(c, r)' /\ Lane(OpOf(c), r.step) /\ r.step # "begin"
      BY <1>13, <1>w DEF Progress
    <2> QED
      BY <1>13, <1>cl, <2>1, SoloFrame
  <1>14. CASE Orphans(c)
    <2> DEFINE r == [call[c] EXCEPT !.step = "clean", !.todo = call[c].placed]
    <2>1. UNCHANGED <<play, purge, repairs>> /\ OpOf(c) \in WriteOps /\ (Go(c, r) \/ Move(c, Undo(c)))
      BY <1>14, <1>c DEF Orphans, At, Lane
    <2>2. Fit(c, r) /\ r.step = "clean"
      BY <1>c DEF Fit, CallFields
    <2> HIDE DEF r
    <2> QED
      BY <1>m, <1>13, <1>u, <1>w, <1>x, <2>1, <2>2
  <1>15. ASSUME NEW s \in Ids, CleanOne(c, s) PROVE SoloInv'
    <2> DEFINE r == [call[c] EXCEPT !.todo = @ \ {s}]
    <2>1. UNCHANGED <<play, purge, repairs>> /\ OpOf(c) \in WriteOps /\ call[c].step = "clean" /\ (Go(c, r) \/ Move(c, Undo(c)))
      BY <1>15, <1>c DEF CleanOne, At, Lane
    <2>2. Fit(c, r) /\ r.step = "clean"
      BY <1>c, <2>1 DEF Fit, CallFields
    <2> HIDE DEF r
    <2> QED
      BY <1>m, <1>13, <1>u, <1>w, <1>x, <2>1, <2>2
  <1>16. CASE Unplace(c) \/ RemoveEntry(c)
    <2>1. UNCHANGED <<play, purge, repairs>> /\ OpOf(c) \in WriteOps /\ (Move(c, "remove") \/ Move(c, "failed"))
      BY <1>16, <1>c DEF Unplace, RemoveEntry, At, Lane
    <2> QED
      BY <1>m, <1>w, <1>x, <2>1
  <1>17. CASE Unmark(c) \/ AbortUpload(c)
    <2>1. UNCHANGED <<play, purge, repairs>> /\ (Move(c, "done") \/ Move(c, "failed"))
      BY <1>17 DEF Unmark, AbortUpload
    <2> QED
      BY <1>m, <1>x, <2>1
  <1>18. CASE DeleteCollect(c)
    <2>1. UNCHANGED <<play, purge, repairs>> /\ (Move(c, "done") \/ Move(c, "failed"))
      BY <1>18, Zenon DEF DeleteCollect
    <2> QED
      BY <1>m, <1>x, <2>1
  <1>g. ASSUME NEW r, Go(c, r), Fit(c, r), UNCHANGED <<play, purge, repairs>>, Lane(OpOf(c), r.step), r.step # "begin",
               call'[c].clean => Progress(c, r)'
        PROVE  SoloInv'
    BY <1>g, <1>cl, SoloFrame
  <1>p. ASSUME call[c].clean, call[c].step \in {"write", "untrack", "readback", "parts"} PROVE Progress(c, call[c])
    BY <1>p DEF SoloInv, Solo, Running
  <1>19. ASSUME NEW s \in Ids, WriteOne(c, s) PROVE SoloInv'
    <2> DEFINE a == [call[c] EXCEPT !.todo = @ \ {s}, !.placed = @ \cup {s}]
               b == [call[c] EXCEPT !.todo = @ \ {s}, !.failed = @ \cup {s}]
    <2>1. UNCHANGED <<play, purge, repairs>> /\ call[c].step = "write"
      BY <1>19 DEF WriteOne, At
    <2>2. Fit(c, a) /\ a.step = "write" /\ a.placed = call[c].placed \cup {s} /\ a.data = call[c].data
      BY <1>c, <2>1 DEF Fit, CallFields
    <2>3. Fit(c, b) /\ b.step = "write" /\ b.placed = call[c].placed /\ b.data = call[c].data
      BY <1>c, <2>1 DEF Fit, CallFields
    <2>4. \/ Store(s, DataOf(c), FieldsOf(c)) /\ Go(c, a)
          \/ Refuse(s, DataOf(c), FieldsOf(c)) /\ Go(c, b)
      BY <1>19 DEF WriteOne
    <2> HIDE DEF a, b
    <2>5. PICK x, y : x = a /\ y = b
      OBVIOUS
    <2>6. ASSUME call[c].clean PROVE DataOf(c) = c /\ Wrote(c, call[c].placed) /\ (OpOf(c) = "multipart" => call[c].data = c)
      BY <1>p, <2>1, <2>6 DEF Progress, DataOf
    <2>7. OpOf(c) \in WithMeta => FieldsOf(c) = Fields(c)
      BY DEF WithMeta, FieldsOf, MetaOf
    <2>8. bodyOn = [t \in Ids |-> bodyOn[t]] /\ metaOn = [t \in Ids |-> metaOn[t]]
      BY DEF CallTables
    <2>9. OpOf(c)' = OpOf(c)
      BY <2>1 DEF OpOf
    <2>10. CASE Store(s, DataOf(c), FieldsOf(c)) /\ Go(c, a)
      <3>0. PICK S : S = call[c].placed
        OBVIOUS
      <3>1. ASSUME call[c].clean PROVE Wrote(c, S \cup {s})'
        <4>1. bodyOn'[s] = c /\ \A t \in Ids \ {s} : bodyOn'[t] = bodyOn[t] /\ metaOn'[t] = metaOn[t]
          BY <2>6, <2>8, <2>10, <3>1 DEF Store
        <4>2. OpOf(c) \in WithMeta => metaOn'[s] = StampOf(c, s)
          BY <2>7, <2>8, <2>10, Stamps DEF Store
        <4> QED
          BY <2>6, <2>9, <3>0, <3>1, <4>1, <4>2 DEF Wrote, StampOf
      <3>2. ASSUME call[c].clean PROVE Progress(c, x)'
        BY <2>2, <2>5, <2>6, <2>9, <3>0, <3>1, <3>2 DEF Progress, Wrote
      <3> QED
        BY <1>c, <1>g, <1>cl, <2>1, <2>2, <2>5, <2>10, <3>2
    <2>11. CASE Refuse(s, DataOf(c), FieldsOf(c)) /\ Go(c, b)
      <3>1. ASSUME call[c].clean PROVE Progress(c, y)'
        <4>1. \A t \in Ids : (bodyOn'[t] = bodyOn[t] \/ bodyOn'[t] = c) /\ metaOn'[t] = metaOn[t]
          BY <2>6, <2>8, <2>11, <3>1 DEF Refuse
        <4>2. y.step = "write" /\ y.placed = call[c].placed /\ y.data = call[c].data
          BY <2>3, <2>5
        <4>3. Wrote(c, y.placed)'
          BY <2>6, <2>9, <3>1, <4>1, <4>2 DEF Wrote, StampOf
        <4> QED
          BY <2>6, <2>9, <3>1, <4>2, <4>3 DEF Progress
      <3> QED
        BY <1>c, <1>g, <1>cl, <2>1, <2>3, <2>5, <2>11, <3>1
    <2> QED
      BY <2>4, <2>10, <2>11
  <1>20. CASE Commit(c)
    <2>1. UNCHANGED <<bodyOn, metaOn, play, purge, repairs>> /\ call[c].step = "write" /\ OpOf(c) \in WriteOps
          /\ place' = Placed(call[c].placed, c, MetaOf(c)) /\ Cardinality(call[c].placed) >= Quorum
          /\ (Move(c, "done") \/ Move(c, "unmark"))
      BY <1>20, <1>c DEF Commit, Answered, At, Lane
    <2>2. CASE Move(c, "unmark")
      <3> DEFINE r == [call[c] EXCEPT !.step = "unmark"]
      <3>1. Go(c, r) /\ Fit(c, r) /\ r.step = "unmark"
        BY <2>2, CallMoves DEF Fit
      <3> HIDE DEF r
      <3>2. PICK x : x = r
        OBVIOUS
      <3>3. ASSUME call[c].clean PROVE Progress(c, x)'
        <4>1. Wrote(c, call[c].placed)
          BY <1>p, <2>1, <3>3 DEF Progress
        <4>2. place'.shards = call[c].placed /\ Quorum' = Quorum /\ OpOf(c)' = OpOf(c)
          BY <2>1 DEF Placed, Quorum, OpOf
        <4> QED
          BY <2>1, <3>1, <3>2, <4>1, <4>2 DEF Progress, Wrote, StampOf
      <3> QED
        BY <1>g, <1>cl, <1>w, <2>1, <3>1, <3>2, <3>3
    <2> QED
      BY <1>m, <1>x, <2>1, <2>2
  <1>21. CASE CompletePrimary(c)
    <2>1. UNCHANGED <<play, purge, repairs>> /\ call[c].step = "parts" /\ OpOf(c) = "multipart"
          /\ (Move(c, "failed") \/ (Store(call[c].primary, c, {}) /\ Move(c, "untrack")))
      BY <1>21, <1>c DEF CompletePrimary, At, Lane
    <2>2. CASE Store(call[c].primary, c, {}) /\ Move(c, "untrack")
      <3> DEFINE r == [call[c] EXCEPT !.step = "untrack"]
      <3>1. Go(c, r) /\ Fit(c, r) /\ r.step = "untrack" /\ r.primary = call[c].primary
        BY <1>c, <2>2, CallMoves DEF Fit, CallFields
      <3> HIDE DEF r
      <3>2. PICK x : x = r
        OBVIOUS
      <3>3. ASSUME call[c].clean PROVE Progress(c, x)'
        <4>1. call[c].primary \in Ids
          BY <1>p, <2>1, <3>3 DEF Progress
        <4>2. bodyOn'[call[c].primary] = c
          BY <2>2, <4>1 DEF Store, CallTables
        <4> QED
          BY <3>1, <3>2, <4>1, <4>2 DEF Progress
      <3>4. Lane(OpOf(c), x.step)
        BY <2>1, <3>1, <3>2 DEF Lane, LookSteps
      <3> QED
        BY <1>g, <1>cl, <2>1, <3>1, <3>2, <3>3, <3>4
    <2> QED
      BY <1>m, <1>x, <2>1, <2>2
  <1>22. CASE Untrack(c)
    <2> DEFINE r == [call[c] EXCEPT !.step = "readback"]
    <2>1. UNCHANGED <<bodyOn, play, purge, repairs>> /\ call[c].step = "untrack" /\ OpOf(c) = "multipart" /\ Move(c, "readback")
      BY <1>22, <1>c DEF Untrack, At, Lane
    <2>2. Go(c, r) /\ Fit(c, r) /\ r.step = "readback" /\ r.primary = call[c].primary
      BY <1>c, <2>1, CallMoves DEF Fit, CallFields
    <2> HIDE DEF r
    <2>3. PICK x : x = r
      OBVIOUS
    <2>4. ASSUME call[c].clean PROVE Progress(c, x)'
      BY <1>p, <2>1, <2>2, <2>3, <2>4 DEF Progress
    <2>5. Lane(OpOf(c), x.step)
      BY <2>1, <2>2, <2>3 DEF Lane, LookSteps
    <2> QED
      BY <1>g, <1>cl, <2>1, <2>2, <2>3, <2>4, <2>5
  <1>23. CASE ReadBack(c)
    <2> DEFINE r == [call[c] EXCEPT !.step = "write", !.todo = ToSet(call[c].order), !.placed = {call[c].primary},
                                    !.data = bodyOn[call[c].primary], !.fields = metaOn[call[c].primary]]
    <2>1. UNCHANGED <<bodyOn, metaOn, play, purge, repairs>> /\ call[c].step = "readback" /\ OpOf(c) = "multipart"
      BY <1>23, <1>c DEF ReadBack, At, Lane
    <2>2. Move(c, "done") \/ Move(c, "failed") \/ Go(c, r)
      BY <1>23, Zenon DEF ReadBack
    <2>3. Fit(c, r) /\ r.step = "write" /\ r.placed = {call[c].primary} /\ r.data = bodyOn[call[c].primary]
      BY <1>c DEF Fit, CallFields
    <2> HIDE DEF r
    <2>4. PICK x : x = r
      OBVIOUS
    <2>5. ASSUME call[c].clean PROVE Progress(c, x)'
      <3>1. call[c].primary \in Ids /\ bodyOn[call[c].primary] = c
        BY <1>p, <2>1, <2>5 DEF Progress
      <3>2. OpOf(c)' \notin WithMeta
        BY <2>1 DEF WithMeta, OpOf
      <3> QED
        BY <2>1, <2>3, <2>4, <3>1, <3>2 DEF Progress, Wrote
    <2>6. Lane(OpOf(c), x.step)
      BY <2>1, <2>3, <2>4 DEF Lane, LookSteps
    <2>7. CASE Go(c, r)
      BY <1>g, <1>cl, <2>1, <2>3, <2>4, <2>5, <2>6, <2>7
    <2> QED
      BY <1>m, <1>x, <2>1, <2>2, <2>7
  <1>24. ASSUME NEW r, Go(c, r), Fit(c, r), r.step \in {"withdraw", "erase", "read"}, UNCHANGED <<play, purge, repairs>>,
                Lane(OpOf(c), r.step)
         PROVE  SoloInv'
    <2>1. Progress(c, r)' /\ r.step # "begin"
      BY <1>24 DEF Progress
    <2> QED
      BY <1>24, <1>g, <2>1
  <1>25. CASE CompleteUpload(c)
    <2> DEFINE r == [call[c] EXCEPT !.step = "withdraw", !.todo = call[c].placed]
    <2>1. UNCHANGED <<play, purge, repairs>> /\ OpOf(c) = "multipart" /\ (Go(c, r) \/ Move(c, "done"))
      BY <1>25, Zenon DEF CompleteUpload
    <2>2. Fit(c, r) /\ r.step = "withdraw"
      BY <1>c DEF Fit, CallFields
    <2> HIDE DEF r
    <2>3. Lane(OpOf(c), r.step)
      BY <2>1, <2>2 DEF Lane, LookSteps
    <2> QED
      BY <1>m, <1>x, <1>24, <2>1, <2>2, <2>3
  <1>26. ASSUME NEW s \in Ids, WithdrawOne(c, s) PROVE SoloInv'
    <2> DEFINE r == [call[c] EXCEPT !.todo = @ \ {s}]
    <2>1. UNCHANGED <<play, purge, repairs>> /\ call[c].step = "withdraw" /\ (Go(c, r) \/ Move(c, "failed"))
      BY <1>26, Zenon DEF WithdrawOne, At
    <2>2. Fit(c, r) /\ r.step = "withdraw"
      BY <1>c, <2>1 DEF Fit, CallFields
    <2> HIDE DEF r
    <2> QED
      BY <1>c, <1>m, <1>x, <1>24, <2>1, <2>2
  <1>27. CASE DeleteLookup(c)
    <2> DEFINE r == [call[c] EXCEPT !.step = "erase", !.todo = Resolved]
    <2>1. UNCHANGED <<play, purge, repairs>> /\ OpOf(c) = "delete" /\ Go(c, r)
      BY <1>27, <1>c DEF DeleteLookup, At, Lane
    <2>2. Fit(c, r) /\ r.step = "erase"
      BY <1>c DEF Fit, CallFields
    <2> HIDE DEF r
    <2>3. Lane(OpOf(c), r.step)
      BY <2>1, <2>2 DEF Lane, LookSteps
    <2> QED
      BY <1>24, <2>1, <2>2, <2>3
  <1>28. ASSUME NEW s \in Ids, EraseOne(c, s) PROVE SoloInv'
    <2> DEFINE a == [call[c] EXCEPT !.todo = @ \ {s}, !.placed = @ \cup {s}]
               b == [call[c] EXCEPT !.todo = @ \ {s}, !.failed = @ \cup {s}]
    <2>1. UNCHANGED <<play, purge, repairs>> /\ call[c].step = "erase" /\ (Go(c, a) \/ Go(c, b))
      BY <1>28 DEF EraseOne, At
    <2>2. Fit(c, a) /\ a.step = "erase" /\ Fit(c, b) /\ b.step = "erase"
      BY <1>c, <2>1 DEF Fit, CallFields
    <2> HIDE DEF a, b
    <2> QED
      BY <1>c, <1>24, <2>1, <2>2
  <1>29. ASSUME NEW s \in Ids, ReadOne(c, s) PROVE SoloInv'
    <2> DEFINE rest == [call[c] EXCEPT !.todo = @ \ {s}, !.step = IF call[c].todo = {s} THEN "failed" ELSE @]
               worse == [rest EXCEPT !.failed = @ \cup {s}]
               good == [call[c] EXCEPT !.step = "done", !.data = bodyOn[s]]
    <2>1. UNCHANGED <<play, purge>> /\ call[c].step = "read"
          /\ \/ Go(c, good) \/ ((Go(c, rest) \/ Go(c, worse)) /\ repairs' = repairs)
      BY <1>29 DEF ReadOne, At
    <2>2. Fit(c, rest) /\ rest.step \in {"read", "failed"}
      BY <1>c, <2>1 DEF Fit, CallFields
    <2>3. Fit(c, worse) /\ worse.step \in {"read", "failed"}
      BY <2>2 DEF Fit, CallFields
    <2>4. Fit(c, good) /\ good.step = "done"
      BY <1>c DEF Fit, CallFields
    <2> HIDE DEF rest, worse, good
    <2>5. ASSUME NEW r, Go(c, r), Fit(c, r), r.step \in {"done", "failed"} PROVE SoloInv'
      <3>1. Lane(OpOf(c), r.step) /\ r.step # "begin"
        BY <1>x, <2>5
      <3> QED
        BY <2>1, <2>5, <3>1, SoloFrame
    <2> QED
      BY <1>c, <1>24, <2>1, <2>2, <2>3, <2>4, <2>5
  <1> QED
    BY <1>1, <1>2, <1>3, <1>4, <1>6, <1>7, <1>8, <1>9, <1>10, <1>11, <1>12, <1>14, <1>15, <1>16, <1>17, <1>18,
       <1>19, <1>20, <1>21, <1>22, <1>23, <1>25, <1>26, <1>27, <1>28, <1>29, Zenon DEF CallNext

\* Every step of an inspection preserves SoloInv.
LEMMA SoloLook ==
    ASSUME CallTables, SoloInv, NEW c \in Callers, InspectCall(c)
    PROVE  SoloInv'
  <1>1. OpOf(c) \in LookOps
    BY Looks DEF SoloInv, Lane, LookSteps, LookOps
  <1>2. PICK r : Go(c, r) /\ Fit(c, r) /\ r.step \in LookSteps \cup {"done"}
    BY LookMoves DEF Peeks
  <1>3. UNCHANGED <<repairs, purge, play>>
    BY Looks
  <1>4. Lane(OpOf(c), r.step) /\ r.step # "begin" /\ Progress(c, r)'
    BY <1>1, <1>2 DEF Lane, LookSteps, Progress
  <1>5. call'[c].clean => repairs = {}
    BY <1>2, GoSets DEF Fit
  <1> QED
    BY <1>2, <1>3, <1>4, <1>5, SoloFrame

\* Repairs and purges preserve SoloInv: while one is under way nobody is alone.
LEMMA SoloOther ==
    ASSUME CallTables, SoloInv,
           \/ \E r \in repairs : RepairRead(r) \/ RepairWrite(r) \/ RepairEnter(r)
           \/ PurgeCollect
           \/ \E u \in purge : PurgeOne(u)
           \/ UNCHANGED clusterVars
    PROVE  SoloInv'
  <1>0. play' = play /\ \A c \in Callers : OpOf(c)' = OpOf(c)
    BY DEF RepairRead, RepairWrite, RepairEnter, PurgeCollect, PurgeOne, clusterVars, OpOf
  <1>1. CASE UNCHANGED clusterVars
    BY <1>1 DEF clusterVars, SoloInv, Solo, Running, Progress, Wrote, OpOf, Quorum
  <1>2. ASSUME call' = call, \A c \in Callers : ~ Solo(c) PROVE SoloInv'
    BY <1>0, <1>2 DEF SoloInv, Solo, Running
  <1>3. ASSUME NEW r \in repairs, RepairRead(r) \/ RepairWrite(r) \/ RepairEnter(r) PROVE SoloInv'
    BY <1>2, <1>3 DEF SoloInv, RepairRead, RepairWrite, RepairEnter
  <1>4. ASSUME NEW u \in purge, PurgeOne(u) PROVE SoloInv'
    BY <1>2, <1>4 DEF SoloInv, PurgeOne
  <1>5. CASE PurgeCollect
    <2>1. call' = [c \in Callers |-> IF Running(c) THEN [call[c] EXCEPT !.clean = FALSE] ELSE call[c]]
      BY <1>5 DEF PurgeCollect
    <2>2. ASSUME NEW c \in Callers
          PROVE  /\ call'[c].step = call[c].step /\ call'[c].placed = call[c].placed /\ call'[c].failed = call[c].failed
                 /\ Running(c) => ~ call'[c].clean
      <3>1. DOMAIN call[c] = CallFields
        BY DEF CallTables
      <3> QED
        BY <2>1, <3>1 DEF CallFields
    <2>3. \A c \in Callers : ~ Solo(c)'
      BY <2>2 DEF Solo, Running
    <2> QED
      BY <1>0, <2>2, <2>3 DEF SoloInv
  <1> QED
    BY <1>1, <1>3, <1>4, <1>5

\* SoloInv is inductive.
LEMMA SoloKept == CallTables /\ SoloInv /\ [InspectNext]_inspectVars => SoloInv'
  BY SoloStep, SoloLook, SoloOther DEF InspectNext, ClusterNext, inspectVars

\* SoloInv holds at the start.
LEMMA SoloStart == ClusterInit => SoloInv
  BY DEF ClusterInit, SoloInv, Solo, Running, NewCall, Lane, LookSteps

\* CalmInv after a move of caller c into a calm state.
LEMMA CalmFrame ==
    ASSUME CallTables, NEW c \in Callers, NEW r, Go(c, r), Fit(c, r), Calm', Sound', r.step # "begin",
           r.step \in {"done", "failed"} => Tidy',
           r.step \notin {"done", "failed"} => Orderly(r)'
    PROVE  CalmInv'
  <1>1. \A f \in {"step", "placed", "todo", "failed", "primary", "order"} : f \in CallFields \ {"clean"}
    BY DEF CallFields
  <1>2. /\ \A f \in CallFields \ {"clean"} : call'[c][f] = r[f]
        /\ call'[c].clean => \A d \in Callers \ {c} : ~ Running(d)
        /\ \A d \in Callers \ {c} : \A f \in CallFields \ {"clean"} : call'[d][f] = call[d][f]
    BY GoSets DEF Fit
  <1>3. /\ call'[c].step = r.step /\ call'[c].placed = r.placed /\ call'[c].todo = r.todo
        /\ call'[c].failed = r.failed /\ call'[c].primary = r.primary /\ call'[c].order = r.order
        /\ \A d \in Callers \ {c} : call'[d].step = call[d].step
    BY <1>1, <1>2
  <1>4. ASSUME NEW d \in Callers, Running(d)' PROVE Orderly(call[d])'
    <2>1. d = c
      BY <1>2, <1>3, <1>4 DEF Running, Calm
    <2>2. Orderly(r)'
      BY <1>3, <1>4, <2>1 DEF Running
    <2> QED
      BY <1>3, <2>1, <2>2 DEF Orderly
  <1>5. ASSUME \A d \in Callers : ~ Running(d)' PROVE Tidy'
    BY <1>3, <1>5 DEF Running
  <1> QED
    BY <1>4, <1>5 DEF CalmInv

\* A move into a calm state starts in one, with nothing else under way.
LEMMA CalmBefore ==
    ASSUME CallTables, SoloInv, CalmInv, NEW c \in Callers, NEW r, Go(c, r), Fit(c, r),
           faults' \in {faults, faults - 1}, Calm'
    PROVE  /\ faults' = faults /\ ~ Fault /\ repairs = {} /\ purge = {} /\ Sound
           /\ Running(c) => Orderly(call[c]) /\ Progress(c, call[c])
           /\ ~ Running(c) => Tidy
  <1>1. faults = MaxFaults /\ faults' = faults /\ ~ Fault
    BY ClusterAssumption DEF Calm, CallTables, Fault
  <1>2. call'[c].clean /\ \A d \in Callers \ {c} : call'[d].clean
    BY DEF Calm
  <1>3. /\ call[c].clean /\ repairs = {} /\ purge = {}
        /\ \A d \in Callers \ {c} : call[d].clean /\ ~ Running(d)
    BY <1>2, GoSets DEF Fit
  <1>4. Calm
    BY <1>1, <1>3 DEF Calm
  <1>5. Sound /\ (Running(c) => Orderly(call[c])) /\ (~ Running(c) => Tidy)
    BY <1>3, <1>4 DEF CalmInv
  <1>6. Running(c) => Progress(c, call[c])
    BY <1>3 DEF SoloInv, Solo
  <1> QED
    BY <1>1, <1>3, <1>5, <1>6

\* Every step of an operation preserves CalmInv.
LEMMA CalmStep ==
    ASSUME CallTables, SoloInv, CalmInv, NEW c \in Callers, CallNext(c),
           play' = play, faults' \in {faults, faults - 1}, Calm'
    PROVE  CalmInv'
  <1>c. DOMAIN call[c] = CallFields
    BY DEF CallTables
  <1>b. /\ faults' = faults /\ ~ Fault /\ repairs = {} /\ purge = {} /\ Sound
        /\ Running(c) => Orderly(call[c]) /\ Progress(c, call[c])
        /\ ~ Running(c) => Tidy
    <2>1. PICK r : Go(c, r) /\ Fit(c, r)
      BY CallSteps DEF Moves
    <2> QED
      BY <2>1, CalmBefore
  <1>h. /\ Targets(status) \in Seq(Ids) /\ Targets(status) # <<>>
        /\ ToSet(Targets(status)) = InitialShards /\ Reachable = Ids /\ InitialShards \subseteq Ids
        /\ Cardinality(InitialShards) = Factor /\ InitialShards # {} /\ Quorum \in Nat /\ Quorum <= Factor /\ Factor \in Nat
    <2>1. Quorum \in Nat /\ Quorum <= Factor /\ Factor \in Nat
      BY ClusterAssumption DEF CallTables, Play, Factor, Quorum
    <2> QED
      BY <1>b, <2>1, HealthyTargets, InitialCount, InitialInIds DEF Sound
  <1>i. InitialShards' = InitialShards
    BY DEF InitialShards, Targets, Factor
  <1>k. ASSUME UNCHANGED <<bodyOn, place, status, repairs>> PROVE Sound' /\ (Tidy => Tidy')
    BY <1>b, <1>i, <1>k DEF Sound, Tidy
  <1>e. ASSUME IsEntry(place'), UNCHANGED <<bodyOn, status, repairs>> PROVE Sound'
    BY <1>b, <1>i, <1>e DEF Sound
  <1>m. ASSUME NEW step \in {"insert", "lookup", "done", "failed"}, Move(c, step), Sound', Tidy',
               step = "lookup" => call[c].failed = {}
        PROVE  CalmInv'
    <2> DEFINE r == [call[c] EXCEPT !.step = step]
    <2>1. Go(c, r) /\ Fit(c, r) /\ r.step = step /\ r.failed = call[c].failed
      BY <1>m, CallMoves DEF Fit
    <2> HIDE DEF r
    <2>2. PICK x : x = r
      OBVIOUS
    <2>3. Go(c, x) /\ Fit(c, x) /\ x.step = step /\ Orderly(x)'
      BY <1>m, <2>1, <2>2 DEF Orderly
    <2> QED
      BY <1>m, <2>3, CalmFrame
  <1>f. ASSUME Go(c, FanOut(c, Targets(status))), Sound' PROVE CalmInv'
    <2>1. PICK x : x = FanOut(c, Targets(status))
      OBVIOUS
    <2>2. /\ Go(c, x) /\ Fit(c, x) /\ x.step = "write" /\ x.placed = {} /\ x.failed = {}
          /\ x.todo = ToSet(Targets(status))
      BY <1>f, <2>1, FansOut DEF Fit
    <2>3. Orderly(x)'
      BY <1>h, <1>i, <2>2 DEF Orderly
    <2> QED
      BY <1>f, <2>2, <2>3, CalmFrame
  <1>begin. ASSUME call[c].step = "begin" PROVE Tidy /\ call[c].failed = {}
    BY <1>b, <1>begin DEF Running, SoloInv
  <1>run. ASSUME call[c].step \notin {"begin", "done", "failed"} PROVE Orderly(call[c]) /\ Progress(c, call[c])
    BY <1>b, <1>run DEF Running
  <1>1. CASE BeginPut(c)
    <2>1. UNCHANGED <<bodyOn, place, status, repairs>> /\ call[c].step = "begin"
          /\ (Move(c, "failed") \/ Go(c, FanOut(c, Targets(status))))
      BY <1>1 DEF BeginPut, At
    <2> QED
      BY <1>m, <1>f, <1>k, <1>begin, <2>1
  <1>2. ASSUME place' = Placeholder(ToSet(Targets(status))) PROVE IsEntry(place')
    BY <1>2 DEF IsEntry, Placeholder
  <1>3. CASE BeginCreate(c)
    <2>1. UNCHANGED <<bodyOn, status, repairs>> /\ call[c].step = "begin"
          /\ \/ Move(c, "failed") /\ UNCHANGED place
             \/ place' = Placeholder(ToSet(Targets(status))) /\ Go(c, FanOut(c, Targets(status)))
      BY <1>3 DEF BeginCreate, At
    <2> QED
      BY <1>m, <1>f, <1>k, <1>e, <1>begin, <1>2, <2>1
  <1>4. CASE CopyCheck(c)
    <2>1. UNCHANGED <<bodyOn, place, status, repairs>> /\ call[c].step = "begin"
          /\ (Move(c, "failed") \/ Move(c, "insert"))
      BY <1>4 DEF CopyCheck, At
    <2> QED
      BY <1>m, <1>k, <1>begin, <2>1
  <1>5. CASE CopyInsert(c)
    <2>1. UNCHANGED <<bodyOn, status, repairs>> /\ call[c].step = "insert"
          /\ \/ Move(c, "failed") /\ UNCHANGED place
             \/ place' = Placeholder(ToSet(Targets(status))) /\ Go(c, FanOut(c, Targets(status)))
      BY <1>5 DEF CopyInsert, At
    <2>2. Tidy
      BY <1>run, <2>1 DEF Orderly
    <2> QED
      BY <1>m, <1>f, <1>k, <1>e, <1>2, <2>1, <2>2
  <1>6. ASSUME NEW s \in Ids, WriteOne(c, s) PROVE CalmInv'
    <2> DEFINE r == [call[c] EXCEPT !.todo = @ \ {s}, !.placed = @ \cup {s}]
    <2>1. /\ UNCHANGED <<place, status, repairs>> /\ call[c].step = "write" /\ s \in call[c].todo
          /\ Store(s, DataOf(c), FieldsOf(c)) /\ Go(c, r)
      BY <1>6, <1>b DEF WriteOne, At, Refuse, Fault
    <2>2. Fit(c, r) /\ r.step = "write" /\ r.todo = call[c].todo \ {s} /\ r.placed = call[c].placed \cup {s} /\ r.failed = call[c].failed
      BY <1>c, <2>1 DEF Fit, CallFields
    <2>3. call[c].placed \cup call[c].todo = InitialShards /\ call[c].failed = {}
      BY <1>run, <2>1 DEF Orderly
    <2> HIDE DEF r
    <2>4. PICK x : x = r
      OBVIOUS
    <2>5. x.placed \cup x.todo = InitialShards
      BY <2>1, <2>2, <2>3, <2>4
    <2>6. Orderly(x)'
      BY <1>i, <2>2, <2>3, <2>4, <2>5 DEF Orderly
    <2>7. \A t \in Ids \ {s} : bodyOn'[t] = bodyOn[t]
      BY <2>1 DEF Store, CallTables
    <2>8. Sound'
      BY <1>b, <1>i, <2>1, <2>3, <2>7 DEF Sound
    <2> QED
      BY <2>1, <2>2, <2>4, <2>6, <2>8, CalmFrame
  <1>7. ASSUME call[c].step = "write", call[c].todo = {}
        PROVE  call[c].placed = InitialShards /\ call[c].failed = {} /\ Cardinality(call[c].placed) >= Quorum
               /\ ~ (Cardinality(call[c].placed) < Quorum)
    <2>1. call[c].placed = InitialShards /\ call[c].failed = {}
      BY <1>run, <1>7 DEF Orderly
    <2> QED
      BY <1>h, <2>1
  <1>8. ~ RetryWrites(c) /\ ~ AllFailed(c) /\ ~ TooFew(c)
    BY <1>7, <1>h DEF RetryWrites, AllFailed, TooFew, Answered, At
  <1>9. ASSUME IsEntry(place'), place'.shards = InitialShards, UNCHANGED <<bodyOn, repairs>>,
               \A s \in Ids : status'[s] = "Healthy"
        PROVE  Sound' /\ Tidy'
    BY <1>b, <1>i, <1>9 DEF Sound, Tidy, Readable
  <1>10. CASE Commit(c)
    <2>1. /\ UNCHANGED <<bodyOn, repairs>> /\ call[c].step = "write" /\ call[c].todo = {}
          /\ place' = Placed(call[c].placed, c, MetaOf(c)) /\ status' = HealthAfter(c)
          /\ (Move(c, "done") \/ Move(c, "unmark"))
      BY <1>10 DEF Commit, Answered, At
    <2>2. IsEntry(place') /\ place'.shards = InitialShards
      BY <1>7, <2>1 DEF Placed, IsEntry
    <2>3. \A s \in Ids : status'[s] = "Healthy"
      <3>1. \A s \in Ids : status[s] = "Healthy"
        BY <1>b DEF Sound
      <3> QED
        BY <1>7, <1>h, <2>1, <3>1 DEF HealthAfter, AfterFailures, Marked
    <2>4. Sound' /\ Tidy'
      BY <1>9, <2>1, <2>2, <2>3
    <2>5. CASE Move(c, "unmark")
      <3> DEFINE r == [call[c] EXCEPT !.step = "unmark"]
      <3>1. Go(c, r) /\ Fit(c, r) /\ r.step = "unmark"
        BY <2>5, CallMoves DEF Fit
      <3> HIDE DEF r
      <3>2. PICK x : x = r
        OBVIOUS
      <3>3. Orderly(x)'
        BY <1>i, <2>2, <2>4, <3>1, <3>2 DEF Orderly
      <3> QED
        BY <2>4, <3>1, <3>2, <3>3, CalmFrame
    <2> QED
      BY <1>m, <2>1, <2>4, <2>5
  <1>11. ~ (Orphans(c) \/ Unplace(c) \/ RemoveEntry(c) \/ RetryUpload(c))
         /\ \A s \in Ids : ~ (CleanOne(c, s) \/ WithdrawOne(c, s))
    <2>1. call[c].step \notin {"orphans", "clean", "unplace", "remove", "upload", "withdraw"}
      BY <1>run DEF Orderly
    <2> QED
      BY <2>1 DEF Orphans, Unplace, RemoveEntry, RetryUpload, CleanOne, WithdrawOne, At
  <1>12. CASE Unmark(c) \/ AbortUpload(c)
    <2>1. UNCHANGED <<bodyOn, place, status, repairs>> /\ call[c].step \in {"unmark", "parts"}
          /\ (Move(c, "done") \/ Move(c, "failed"))
      BY <1>12 DEF Unmark, AbortUpload, At
    <2>2. Tidy
      BY <1>run, <2>1 DEF Orderly
    <2> QED
      BY <1>m, <1>k, <2>1, <2>2
  <1>13. CASE BeginUpload(c)
    <2> DEFINE q == Targets(status)
               r == Upload(c, q)
    <2>1. UNCHANGED <<bodyOn, place, repairs>> /\ call[c].step = "begin" /\ UNCHANGED status
          /\ (Move(c, "failed") \/ Go(c, r))
      BY <1>13, <1>b, Zenon DEF BeginUpload, At
    <2>2. /\ Fit(c, r) /\ r.step = "parts" /\ r.primary = Head(q) /\ r.order = Tail(q)
          /\ r.failed = call[c].failed
      BY <1>c DEF Upload, Fit, CallFields
    <2>3. {Head(q)} \cup ToSet(Tail(q)) = ToSet(q)
      <3> HIDE DEF q
      <3>0. q \in Seq(Ids) /\ q # <<>>
        BY <1>h DEF q
      <3>1. /\ Len(q) \in Nat \ {0} /\ DOMAIN q = 1..Len(q) /\ Head(q) = q[1]
            /\ DOMAIN Tail(q) = 1..(Len(q) - 1) /\ \A i \in 1..(Len(q) - 1) : Tail(q)[i] = q[i + 1]
        BY <3>0
      <3>2. ASSUME NEW s \in ToSet(q) PROVE s \in {Head(q)} \cup ToSet(Tail(q))
        <4>1. PICK i \in 1..Len(q) : s = q[i]
          BY <3>1 DEF ToSet
        <4>2. CASE i = 1
          BY <3>1, <4>1, <4>2
        <4>3. CASE i # 1
          <5>1. i - 1 \in 1..(Len(q) - 1) /\ (i - 1) + 1 = i
            BY <3>1, <4>3
          <5>2. Tail(q)[i - 1] = s
            BY <3>1, <4>1, <5>1
          <5> QED
            BY <3>1, <5>1, <5>2 DEF ToSet
        <4> QED
          BY <4>2, <4>3
      <3>3. ASSUME NEW s \in {Head(q)} \cup ToSet(Tail(q)) PROVE s \in ToSet(q)
        <4>1. CASE s = Head(q)
          BY <3>1, <4>1 DEF ToSet
        <4>2. CASE s \in ToSet(Tail(q))
          <5>1. PICK i \in 1..(Len(q) - 1) : s = Tail(q)[i]
            BY <3>1, <4>2 DEF ToSet
          <5>2. i + 1 \in 1..Len(q) /\ s = q[i + 1]
            BY <3>1, <5>1
          <5> QED
            BY <3>1, <5>2 DEF ToSet
        <4> QED
          BY <4>1, <4>2
      <3> QED
        BY <3>2, <3>3
    <2> HIDE DEF q, r
    <2>4. PICK x : x = r
      OBVIOUS
    <2>5. {x.primary} \cup ToSet(x.order) = InitialShards
      BY <1>h, <2>2, <2>3, <2>4 DEF q
    <2>6. Sound' /\ Tidy'
      BY <1>k, <1>begin, <2>1
    <2>7. Orderly(x)'
      BY <1>i, <1>begin, <2>1, <2>2, <2>4, <2>5, <2>6 DEF Orderly, ToSet
    <2>8. CASE Go(c, r)
      BY <2>2, <2>4, <2>6, <2>7, <2>8, CalmFrame
    <2> QED
      BY <1>m, <2>1, <2>6, <2>8
  <1>14. ASSUME NEW r, Go(c, r), Fit(c, r), r.step \in {"untrack", "readback"}, Sound', r.failed = {},
                {r.primary} \cup ToSet(r.order) = InitialShards
         PROVE  CalmInv'
    <2>1. Orderly(r)'
      BY <1>i, <1>14 DEF Orderly, ToSet
    <2> QED
      BY <1>14, <2>1, CalmFrame
  <1>15. ASSUME call[c].step \in {"parts", "untrack", "readback"}
         PROVE  {call[c].primary} \cup ToSet(call[c].order) = InitialShards /\ call[c].failed = {}
    BY <1>run, <1>15 DEF Orderly
  <1>16. CASE CompletePrimary(c)
    <2> DEFINE r == [call[c] EXCEPT !.step = "untrack"]
    <2>1. UNCHANGED <<place, status, repairs>> /\ call[c].step = "parts" /\ Store(call[c].primary, c, {}) /\ Move(c, "untrack")
      BY <1>16, <1>b DEF CompletePrimary, At
    <2>2. /\ Go(c, r) /\ Fit(c, r) /\ r.step = "untrack" /\ r.primary = call[c].primary /\ r.order = call[c].order
          /\ r.failed = call[c].failed
      BY <1>c, <2>1, CallMoves DEF Fit, CallFields
    <2> HIDE DEF r
    <2>3. \A t \in Ids : t # call[c].primary => bodyOn'[t] = bodyOn[t]
      BY <2>1 DEF Store, CallTables
    <2>4. Sound'
      BY <1>b, <1>i, <1>15, <2>1, <2>3 DEF Sound
    <2> QED
      BY <1>14, <1>15, <2>1, <2>2, <2>4
  <1>17. CASE Untrack(c)
    <2> DEFINE r == [call[c] EXCEPT !.step = "readback"]
    <2>1. UNCHANGED <<bodyOn, place, status, repairs>> /\ call[c].step = "untrack" /\ Move(c, "readback")
      BY <1>17 DEF Untrack, At
    <2>2. /\ Go(c, r) /\ Fit(c, r) /\ r.step = "readback" /\ r.primary = call[c].primary /\ r.order = call[c].order
          /\ r.failed = call[c].failed
      BY <1>c, <2>1, CallMoves DEF Fit, CallFields
    <2> HIDE DEF r
    <2> QED
      BY <1>14, <1>15, <1>k, <2>1, <2>2
  <1>18. CASE ReadBack(c)
    <2> DEFINE r == [call[c] EXCEPT !.step = "write", !.todo = ToSet(call[c].order), !.placed = {call[c].primary},
                                    !.data = bodyOn[call[c].primary], !.fields = metaOn[call[c].primary]]
    <2>1. UNCHANGED <<bodyOn, status, repairs>> /\ call[c].step = "readback"
      BY <1>18 DEF ReadBack, At
    <2>2. bodyOn[call[c].primary] = c /\ Readable(bodyOn[call[c].primary])
      BY <1>run, <2>1, ClusterAssumption DEF Progress, Readable
    <2>3. \/ /\ call[c].order = <<>> /\ Move(c, "done")
             /\ place' = Placed({call[c].primary}, bodyOn[call[c].primary], IndexedMeta(call[c].primary))
          \/ Go(c, r) /\ UNCHANGED place
      BY <1>18, <1>b, <2>2, Zenon DEF ReadBack
    <2>4. /\ Fit(c, r) /\ r.step = "write" /\ r.placed = {call[c].primary} /\ r.todo = ToSet(call[c].order)
          /\ r.failed = call[c].failed
      BY <1>c DEF Fit, CallFields
    <2> HIDE DEF r
    <2>5. CASE Go(c, r) /\ UNCHANGED place
      <3>1. PICK x : x = r
        OBVIOUS
      <3>2. x.placed \cup x.todo = InitialShards /\ x.failed = {} /\ x.step = "write"
        BY <1>15, <2>1, <2>4, <3>1
      <3>3. Orderly(x)' /\ Sound'
        BY <1>i, <1>k, <2>1, <2>5, <3>2 DEF Orderly
      <3> QED
        BY <2>4, <2>5, <3>1, <3>2, <3>3, CalmFrame
    <2>6. CASE /\ call[c].order = <<>> /\ Move(c, "done")
               /\ place' = Placed({call[c].primary}, bodyOn[call[c].primary], IndexedMeta(call[c].primary))
      <3>1. ToSet(call[c].order) = {}
        BY <2>6 DEF ToSet
      <3>2. IsEntry(place') /\ place'.shards = InitialShards
        BY <1>15, <2>1, <2>6, <3>1 DEF Placed, IsEntry
      <3>3. Sound' /\ Tidy'
        BY <1>9, <1>b, <2>1, <3>2 DEF Sound
      <3> QED
        BY <1>m, <2>6, <3>3
    <2> QED
      BY <2>3, <2>5, <2>6
  <1>19. CASE CompleteUpload(c)
    <2>1. UNCHANGED <<bodyOn, status, repairs>> /\ call[c].step = "write" /\ call[c].todo = {}
      BY <1>19 DEF CompleteUpload, At
    <2>2. place' = Placed(call[c].placed, call[c].data, call[c].fields) /\ Move(c, "done")
      BY <1>19, <1>7, <2>1 DEF CompleteUpload
    <2>3. IsEntry(place') /\ place'.shards = InitialShards
      BY <1>7, <2>1, <2>2 DEF Placed, IsEntry
    <2>4. Sound' /\ Tidy'
      BY <1>9, <1>b, <2>1, <2>3 DEF Sound
    <2> QED
      BY <1>m, <2>2, <2>4
  <1>20. CASE BeginDelete(c)
    <2>1. UNCHANGED <<bodyOn, place, status, repairs>> /\ call[c].step = "begin" /\ (Move(c, "failed") \/ Move(c, "lookup"))
      BY <1>20 DEF BeginDelete, At
    <2> QED
      BY <1>m, <1>k, <1>begin, <2>1
  <1>21. ASSUME Tidy, NEW s \in Ids, Readable(bodyOn[s]) PROVE s \in place.shards /\ s \in Resolved
    <2>1. s \in place.shards
      BY <1>21, <1>b DEF Tidy
    <2> QED
      BY <1>h, <2>1 DEF Resolved, NoPlace
  <1>22. ASSUME NEW r, Go(c, r), Fit(c, r), r.step = "erase", Sound', r.failed = {},
                \A s \in Ids : Readable(bodyOn'[s]) => s \in r.todo
         PROVE  CalmInv'
    <2>1. Orderly(r)'
      BY <1>22 DEF Orderly, Readable
    <2> QED
      BY <1>22, <2>1, CalmFrame
  <1>23. CASE DeleteLookup(c)
    <2> DEFINE r == [call[c] EXCEPT !.step = "erase", !.todo = Resolved]
    <2>1. UNCHANGED <<bodyOn, place, status, repairs>> /\ call[c].step = "lookup" /\ Go(c, r)
      BY <1>23 DEF DeleteLookup, At
    <2>2. Fit(c, r) /\ r.step = "erase" /\ r.todo = Resolved /\ r.failed = call[c].failed
      BY <1>c DEF Fit, CallFields
    <2> HIDE DEF r
    <2>3. Tidy /\ call[c].failed = {}
      BY <1>run, <2>1 DEF Orderly
    <2> QED
      BY <1>k, <1>21, <1>22, <2>1, <2>2, <2>3
  <1>24. ASSUME NEW s \in Ids, EraseOne(c, s) PROVE CalmInv'
    <2> DEFINE r == [call[c] EXCEPT !.todo = @ \ {s}, !.placed = @ \cup {s}]
    <2>1. UNCHANGED <<place, status, repairs>> /\ call[c].step = "erase" /\ Go(c, r) /\ Erase(s)
      BY <1>24, <1>b DEF EraseOne, At
    <2>2. Fit(c, r) /\ r.step = "erase" /\ r.todo = call[c].todo \ {s} /\ r.failed = call[c].failed
      BY <1>c, <2>1 DEF Fit, CallFields
    <2> HIDE DEF r
    <2>3. call[c].failed = {} /\ \A t \in Ids : Readable(bodyOn[t]) => t \in call[c].todo
      BY <1>run, <2>1 DEF Orderly
    <2>4. bodyOn'[s] = NoBody /\ \A t \in Ids \ {s} : bodyOn'[t] = bodyOn[t]
      BY <2>1 DEF Erase, CallTables
    <2>5. Sound'
      BY <1>b, <1>i, <2>1, <2>4 DEF Sound
    <2>6. \A t \in Ids : Readable(bodyOn'[t]) => t \in r.todo
      BY <2>2, <2>3, <2>4 DEF Readable
    <2> QED
      BY <1>22, <2>1, <2>2, <2>3, <2>5, <2>6
  <1>25. CASE DeleteCollect(c)
    <2>1. UNCHANGED <<bodyOn, status, repairs>> /\ call[c].step = "erase" /\ call[c].todo = {}
      BY <1>25 DEF DeleteCollect, At
    <2>2. call[c].failed = {} /\ \A t \in Ids : ~ Readable(bodyOn[t])
      BY <1>run, <2>1 DEF Orderly
    <2>3. place' = NoPlace /\ Move(c, "done")
      BY <1>25, <2>2, Zenon DEF DeleteCollect
    <2>4. Sound' /\ Tidy'
      BY <1>e, <2>1, <2>2, <2>3 DEF IsEntry, NoPlace, Tidy, Readable
    <2> QED
      BY <1>m, <2>3, <2>4
  <1>26. ASSUME NEW r, Go(c, r), Fit(c, r), r.step \in {"read", "done", "failed"}, Sound', Tidy',
                r.failed \subseteq InitialShards
         PROVE  CalmInv'
    <2>1. Orderly(r)'
      BY <1>i, <1>26 DEF Orderly
    <2> QED
      BY <1>26, <2>1, CalmFrame
  <1>27. CASE BeginGet(c)
    <2> DEFINE r == [call[c] EXCEPT !.step = "read", !.todo = Resolved, !.again = (place = NoPlace)]
    <2>1. UNCHANGED <<bodyOn, place, status, repairs>> /\ call[c].step = "begin" /\ (Move(c, "failed") \/ Go(c, r))
      BY <1>27, Zenon DEF BeginGet, At
    <2>2. Fit(c, r) /\ r.step = "read" /\ r.failed = call[c].failed
      BY <1>c DEF Fit, CallFields
    <2> HIDE DEF r
    <2>3. r.failed \subseteq InitialShards
      BY <1>begin, <2>1, <2>2
    <2> QED
      BY <1>m, <1>k, <1>begin, <1>26, <2>1, <2>2, <2>3
  <1>28. ASSUME NEW s \in Ids, ReadOne(c, s) PROVE CalmInv'
    <2> DEFINE rest == [call[c] EXCEPT !.todo = @ \ {s}, !.step = IF call[c].todo = {s} THEN "failed" ELSE @]
               worse == [rest EXCEPT !.failed = @ \cup {s}]
               good == [call[c] EXCEPT !.step = "done", !.data = bodyOn[s]]
    <2>1. UNCHANGED <<bodyOn, status>> /\ call[c].step = "read"
      BY <1>28 DEF ReadOne, At
    <2>2. \/ /\ Readable(bodyOn[s]) /\ Go(c, good)
             /\ place' = place \/ place' = Replicated(s, IndexedMeta(s))
             /\ repairs' = repairs \cup {Repair(s, b) : b \in call[c].failed \cap Reachable}
          \/ bodyOn[s] = BadBody /\ place' = Without({s}) /\ Go(c, worse) /\ UNCHANGED repairs
          \/ Go(c, rest) /\ UNCHANGED <<place, repairs>>
      BY <1>28, <1>b DEF ReadOne
    <2>3. Tidy /\ call[c].failed \subseteq InitialShards
      BY <1>run, <2>1 DEF Orderly
    <2>4. Fit(c, rest) /\ rest.step \in {"read", "failed"} /\ rest.failed = call[c].failed
      BY <1>c, <2>1 DEF Fit, CallFields
    <2>5. Fit(c, worse) /\ worse.step \in {"read", "failed"} /\ worse.failed = call[c].failed \cup {s}
      BY <2>4 DEF Fit, CallFields
    <2>6. Fit(c, good) /\ good.step = "done" /\ good.failed = call[c].failed
      BY <1>c DEF Fit, CallFields
    <2> HIDE DEF rest, worse, good
    <2>7. CASE Go(c, rest) /\ UNCHANGED <<place, repairs>>
      BY <1>26, <1>k, <2>1, <2>3, <2>4, <2>7
    <2>8. CASE bodyOn[s] = BadBody /\ place' = Without({s}) /\ Go(c, worse) /\ UNCHANGED repairs
      <3>1. IsEntry(place)
        BY <1>b DEF Sound
      <3>2. IsEntry(place') /\ \A t \in place.shards \ {s} : t \in place'.shards
        BY <2>8, <3>1 DEF Without, IsEntry, NoPlace
      <3>3. Sound'
        BY <1>e, <2>1, <2>8, <3>2
      <3>4. Tidy'
        BY <1>b, <2>1, <2>3, <2>8, <3>2 DEF Tidy, Readable
      <3>5. s \in InitialShards
        BY <1>b, <2>8 DEF Sound, BadBody, NoBody
      <3> QED
        BY <1>26, <2>3, <2>5, <2>8, <3>3, <3>4, <3>5
    <2>9. CASE /\ Readable(bodyOn[s]) /\ Go(c, good)
               /\ place' = place \/ place' = Replicated(s, IndexedMeta(s))
               /\ repairs' = repairs \cup {Repair(s, b) : b \in call[c].failed \cap Reachable}
      <3>1. IsEntry(place') /\ place.shards \subseteq place'.shards
        BY <1>b, <2>9, EntryGrows DEF Sound
      <3>2. \A x \in repairs' : DOMAIN x = {"good", "bad", "step", "data", "fields"} /\ x.bad \in InitialShards
        BY <1>b, <2>3, <2>9 DEF Repair
      <3>3. Sound'
        BY <1>b, <1>i, <2>1, <3>1, <3>2 DEF Sound
      <3>4. Tidy'
        BY <1>b, <2>1, <2>3, <3>1 DEF Tidy
      <3> QED
        BY <1>26, <2>3, <2>6, <2>9, <3>3, <3>4
    <2> QED
      BY <2>2, <2>7, <2>8, <2>9
  <1> QED
    BY <1>1, <1>3, <1>4, <1>5, <1>6, <1>8, <1>10, <1>11, <1>12, <1>13, <1>16, <1>17, <1>18, <1>19, <1>20, <1>23, <1>24,
       <1>25, <1>27, <1>28, Zenon DEF CallNext

\* Every step of an inspection preserves CalmInv.
LEMMA CalmLook ==
    ASSUME CallTables, SoloInv, CalmInv, NEW c \in Callers, InspectCall(c),
           play' = play, faults' \in {faults, faults - 1}, Calm'
    PROVE  CalmInv'
  <1>1. PICK r : Go(c, r) /\ Fit(c, r) /\ r.step \in LookSteps \cup {"done"}
    BY LookMoves DEF Peeks
  <1>2. repairs = {} /\ Sound /\ (Running(c) => Orderly(call[c])) /\ (~ Running(c) => Tidy)
    BY <1>1, CalmBefore
  <1>3. /\ call[c].step = "begin" \/ call[c].step \in LookSteps
        /\ UNCHANGED <<bodyOn, status, repairs>>
        /\ place' = place \/ \E s \in Ids : place' = Replicated(s, IndexedMeta(s))
    BY Looks
  <1>4. Tidy
    BY <1>2, <1>3 DEF Running, LookSteps, Orderly
  <1>5. IsEntry(place') /\ place.shards \subseteq place'.shards
    BY <1>2, <1>3, EntryGrows DEF Sound
  <1>6. InitialShards' = InitialShards
    BY DEF InitialShards, Targets, Factor
  <1>7. Sound'
    BY <1>2, <1>3, <1>5, <1>6 DEF Sound
  <1>8. Tidy'
    BY <1>2, <1>3, <1>4, <1>5 DEF Tidy
  <1>9. r.step # "begin" /\ (r.step \notin {"done", "failed"} => Orderly(r)')
    BY <1>1, <1>8 DEF LookSteps, Orderly
  <1> QED
    BY <1>1, <1>7, <1>8, <1>9, CalmFrame

\* Every step of a repair preserves CalmInv.
LEMMA CalmRepair ==
    ASSUME CallTables, SoloInv, CalmInv, NEW r \in repairs, RepairRead(r) \/ RepairWrite(r) \/ RepairEnter(r),
           play' = play, faults' \in {faults, faults - 1}, Calm'
    PROVE  CalmInv'
  <1>1. UNCHANGED <<call, status>>
    BY DEF RepairRead, RepairWrite, RepairEnter
  <1>2. faults = MaxFaults /\ faults' = faults /\ ~ Fault /\ Calm
    BY <1>1, ClusterAssumption DEF Calm, CallTables, Fault
  <1>3. \A c \in Callers : ~ Running(c)
    BY <1>2 DEF Calm, SoloInv, Solo
  <1>4. Sound /\ Tidy
    BY <1>2, <1>3 DEF CalmInv
  <1>5. InitialShards' = InitialShards
    BY DEF InitialShards, Targets, Factor
  <1>6. DOMAIN r = {"good", "bad", "step", "data", "fields"} /\ r.bad \in InitialShards /\ r.bad \in Ids
    BY <1>4, InitialInIds DEF Sound
  <1>7. ASSUME Sound', Tidy' PROVE CalmInv'
    BY <1>1, <1>3, <1>7 DEF CalmInv, Running
  <1>8. CASE RepairRead(r)
    <2> DEFINE x == [r EXCEPT !.step = "write", !.data = bodyOn[r.good], !.fields = metaOn[r.good]]
    <2>1. /\ UNCHANGED <<bodyOn, place>> /\ r.step = "read"
          /\ repairs' = (repairs \ {r}) \cup {x} \/ repairs' = repairs \ {r}
      BY <1>8 DEF RepairRead, Proceed
    <2>2. DOMAIN x = {"good", "bad", "step", "data", "fields"} /\ x.bad \in InitialShards
      BY <1>6
    <2> HIDE DEF x
    <2>3. Sound'
      BY <1>1, <1>4, <1>5, <2>1, <2>2 DEF Sound
    <2>4. Tidy'
      BY <1>4, <2>1 DEF Tidy
    <2> QED
      BY <1>7, <2>3, <2>4
  <1>9. CASE RepairWrite(r)
    <2> DEFINE x == [r EXCEPT !.step = "enter"]
    <2>1. /\ UNCHANGED place /\ r.step = "write" /\ Store(r.bad, r.data, r.fields) /\ repairs' = (repairs \ {r}) \cup {x}
      BY <1>9, <1>2 DEF RepairWrite, Proceed, Refuse, Fault
    <2>2. DOMAIN x = {"good", "bad", "step", "data", "fields"} /\ x.bad = r.bad /\ x.step = "enter"
      BY <1>6
    <2> HIDE DEF x
    <2>3. \A s \in Ids \ {r.bad} : bodyOn'[s] = bodyOn[s]
      BY <2>1 DEF Store, CallTables
    <2>4. Sound'
      BY <1>1, <1>4, <1>5, <1>6, <2>1, <2>2, <2>3 DEF Sound
    <2>5. ASSUME NEW s \in Ids, Readable(bodyOn'[s])
          PROVE  s \in place'.shards \/ \E y \in repairs' : y.bad = s /\ y.step = "enter"
      <3>1. CASE s = r.bad
        BY <2>1, <2>2, <3>1
      <3>2. CASE s # r.bad
        BY <1>4, <2>1, <2>3, <2>5, <3>2 DEF Tidy
      <3> QED
        BY <3>1, <3>2
    <2>6. Tidy'
      BY <2>5 DEF Tidy, Readable
    <2> QED
      BY <1>7, <2>4, <2>6
  <1>10. CASE RepairEnter(r)
    <2>1. UNCHANGED bodyOn /\ place' = Replicated(r.bad, r.fields) /\ repairs' = repairs \ {r}
      BY <1>10 DEF RepairEnter, Proceed
    <2>2. IsEntry(place') /\ place'.shards = place.shards \cup {r.bad}
      BY <1>4, <2>1, EntryGrows DEF Sound
    <2>3. Sound'
      BY <1>1, <1>4, <1>5, <2>1, <2>2 DEF Sound
    <2>4. Tidy'
      BY <1>4, <2>1, <2>2 DEF Tidy
    <2> QED
      BY <1>7, <2>3, <2>4
  <1> QED
    BY <1>8, <1>9, <1>10

\* Purges preserve CalmInv.
LEMMA CalmPurge ==
    ASSUME CallTables, SoloInv, CalmInv, PurgeCollect \/ \E u \in purge : PurgeOne(u),
           play' = play, faults' \in {faults, faults - 1}, Calm'
    PROVE  CalmInv'
  <1>1. UNCHANGED <<status, place, repairs>> /\ faults = MaxFaults
    BY DEF PurgeCollect, PurgeOne, Calm
  <1>2. ASSUME NEW c \in Callers PROVE call'[c].step = call[c].step /\ call[c].clean /\ ~ Running(c)
    <2>1. call'[c].clean
      BY DEF Calm
    <2>2. CASE PurgeCollect
      <3>1. call' = [d \in Callers |-> IF Running(d) THEN [call[d] EXCEPT !.clean = FALSE] ELSE call[d]]
        BY <2>2 DEF PurgeCollect
      <3>2. DOMAIN call[c] = CallFields
        BY DEF CallTables
      <3> QED
        BY <2>1, <3>1, <3>2 DEF CallFields
    <2>3. CASE \E u \in purge : PurgeOne(u)
      BY <2>1, <2>3 DEF PurgeOne, SoloInv, Solo
    <2> QED
      BY <2>2, <2>3
  <1>3. Sound /\ Tidy
    BY <1>1, <1>2 DEF Calm, CalmInv
  <1>4. InitialShards' = InitialShards
    BY DEF InitialShards, Targets, Factor
  <1>5. \A s \in Ids : bodyOn'[s] = bodyOn[s] \/ bodyOn'[s] = NoBody
    BY DEF PurgeCollect, PurgeOne, CallTables
  <1>6. Sound' /\ Tidy'
    BY <1>1, <1>3, <1>4, <1>5 DEF Sound, Tidy, Readable
  <1> QED
    BY <1>2, <1>6 DEF CalmInv, Running

\* CalmInv is inductive.
LEMMA CalmKept == CallTables /\ SoloInv /\ CalmInv /\ [InspectNext]_inspectVars => CalmInv'
  <1> SUFFICES ASSUME CallTables, SoloInv, CalmInv, [InspectNext]_inspectVars, Calm' PROVE CalmInv'
    BY DEF CalmInv
  <1>1. play' = play /\ faults' \in {faults, faults - 1}
    BY CallTablesStep
  <1>2. CASE UNCHANGED clusterVars
    <2>1. InitialShards' = InitialShards
      BY <1>1 DEF InitialShards, Targets, Factor
    <2>2. (Sound <=> Sound') /\ (Tidy <=> Tidy') /\ (Calm <=> Calm')
      BY <1>2, <2>1 DEF clusterVars, Sound, Tidy, Calm
    <2>3. \A c \in Callers : (Running(c) <=> Running(c)') /\ (Orderly(call[c]) <=> Orderly(call[c])')
      BY <1>2, <2>1, <2>2 DEF clusterVars, Running, Orderly
    <2> QED
      BY <2>2, <2>3 DEF CalmInv
  <1>3. \/ \E c \in Callers : CallNext(c) \/ InspectCall(c)
        \/ \E r \in repairs : RepairRead(r) \/ RepairWrite(r) \/ RepairEnter(r)
        \/ PurgeCollect \/ \E u \in purge : PurgeOne(u)
        \/ UNCHANGED clusterVars
    BY DEF InspectNext, ClusterNext, inspectVars
  <1> QED
    BY <1>1, <1>2, <1>3, CalmStep, CalmLook, CalmRepair, CalmPurge

\* CalmInv holds at the start.
LEMMA CalmStart == ClusterInit => CalmInv
  <1> SUFFICES ASSUME ClusterInit PROVE Sound /\ Tidy /\ \A c \in Callers : ~ Running(c)
    BY DEF CalmInv
  <1> DEFINE held == IF play.before = "absent" THEN {} ELSE InitialShards
             bad == IF play.before = "corrupt" THEN {HomeShard} ELSE {}
             last == IF play.before = "altered" THEN {InOrder(held, StepsFromHome)[Cardinality(held)]} ELSE {}
  <1>0. CallTables
    BY CallTablesStart
  <1>1. /\ bodyOn = [s \in Ids |-> CASE s \in bad -> BadBody
                                     [] s \in last -> AlteredBody
                                     [] s \in held \ (bad \cup last) -> OldBody
                                     [] OTHER -> NoBody]
        /\ place = IF held = {} THEN NoPlace ELSE Placed(held, OldBody, IF play.before = "plain" THEN {} ELSE Fields(OldBody))
        /\ repairs = {} /\ call = [c \in Callers |-> NewCall] /\ status = [s \in Ids |-> "Healthy"]
    BY Zenon DEF ClusterInit
  <1>2. bad \subseteq held
    BY <1>0, InitialCount
  <1>3. last \subseteq held
    <2>1. CASE play.before = "altered"
      <3>1. held = InitialShards /\ held \in SUBSET Ids
        BY <1>0, <2>1, InitialInIds
      <3>2. Cardinality(held) = Factor /\ Factor \in Nat \ {0}
        <4>1. Factor \in Nat \ {0}
          BY <1>0, ClusterAssumption DEF CallTables, Play, Factor
        <4> QED
          BY <1>0, <3>1, <4>1, InitialCount
      <3>3. InOrder(held, StepsFromHome) \in [1..Cardinality(held) -> held]
        BY <3>1, Distances, InOrderRange
      <3>4. Cardinality(held) \in 1..Cardinality(held)
        BY <3>2
      <3> HIDE DEF held
      <3> QED
        BY <3>3, <3>4
    <2>2. CASE play.before # "altered"
      BY <2>2
    <2> QED
      BY <2>1, <2>2
  <1>4. held \subseteq InitialShards
    OBVIOUS
  <1> HIDE DEF held, bad, last
  <1>5. \A s \in Ids : bodyOn[s] # NoBody => s \in held
    BY <1>1, <1>2, <1>3
  <1>6. IsEntry(place) /\ place.shards = held
    BY <1>1 DEF IsEntry, Placed, NoPlace
  <1>7. Sound
    BY <1>1, <1>4, <1>5, <1>6 DEF Sound
  <1>8. Tidy
    BY <1>5, <1>6 DEF Tidy, Readable
  <1>9. \A c \in Callers : ~ Running(c)
    BY <1>1 DEF Running, NewCall
  <1> QED
    BY <1>7, <1>8, <1>9

\* What Exact asks of a write follows from what was written.
LEMMA WriteExact ==
    ASSUME NEW c \in Callers, play' = play, OpOf(c) \in WriteOps, Wrote(c, place.shards)', Cardinality(place'.shards) >= Quorum
    PROVE  Exact(c)'
  <1>1. OpOf(c)' = OpOf(c) /\ Quorum' = Quorum
    BY DEF OpOf, Quorum
  <1>2. \A s \in place'.shards : bodyOn'[s] = c /\ s \in Ids
    BY DEF Wrote
  <1>3. OpOf(c) \in WithMeta => \A s \in place'.shards : metaOn'[s] = MetaAfter(s, Fields(c))'
    BY <1>1, Stamps DEF Wrote, StampOf
  <1> QED
    BY <1>1, <1>2, <1>3 DEF Exact, WriteOps, Fields

\* What Exact asks of an upload follows from what was written.
LEMMA UploadExact ==
    ASSUME NEW c \in Callers, play' = play, OpOf(c) = "multipart", \A s \in place'.shards : bodyOn'[s] = c,
           call'[c].order = <<>> \/ Cardinality(place'.shards) >= Quorum
    PROVE  Exact(c)'
  BY DEF Exact, OpOf, Quorum

\* An operation that ends undisturbed has kept its promise.
LEMMA DoneExact ==
    ASSUME CallTables, SoloInv, CalmInv, NEW c \in Callers, CallNext(c), play' = play, faults' \in {faults, faults - 1},
           call'[c].step = "done", call'[c].clean
    PROVE  Exact(c)'
  <1>c. DOMAIN call[c] = CallFields /\ Lane(OpOf(c), call[c].step)
    BY DEF CallTables, SoloInv
  <1>op. OpOf(c)' = OpOf(c) /\ Quorum' = Quorum
    BY DEF OpOf, Quorum
  <1>clean. call[c].clean
    BY CallSteps, GoSets DEF Moves, Fit
  <1>r. ASSUME NEW r, Go(c, r), Fit(c, r) PROVE r.step = "done" /\ call'[c].order = r.order
    <2>1. {"step", "order"} \subseteq CallFields \ {"clean"}
      BY DEF CallFields
    <2> QED
      BY <1>r, <2>1, GoSets DEF Fit
  <1>m. ASSUME NEW step, Move(c, step) PROVE step = "done" /\ call'[c].order = call[c].order
    <2> DEFINE r == [call[c] EXCEPT !.step = step]
    <2>1. Go(c, r) /\ Fit(c, r) /\ r.step = step /\ r.order = call[c].order
      BY <1>m, <1>c, CallMoves DEF Fit, CallFields
    <2> HIDE DEF r
    <2> QED
      BY <1>r, <2>1
  <1>f. ASSUME NEW q PROVE ~ Go(c, FanOut(c, q)) /\ ~ Go(c, [FanOut(c, q) EXCEPT !.again = TRUE]) /\ ~ Go(c, Upload(c, q))
    <2>1. LET r == FanOut(c, q) IN Fit(c, r) /\ r.step = "write"
      BY FansOut DEF Fit
    <2>2. LET r == [FanOut(c, q) EXCEPT !.again = TRUE] IN Fit(c, r) /\ r.step = "write"
      BY <2>1 DEF Fit, CallFields
    <2>3. LET r == Upload(c, q) IN Fit(c, r) /\ r.step = "parts"
      BY <1>c DEF Upload, Fit, CallFields
    <2> QED
      BY <1>r, <2>1, <2>2, <2>3
  <1>t. ASSUME NEW a, NEW b, call[c].step # "done"
        PROVE  /\ ~ Go(c, [call[c] EXCEPT !.todo = a])
               /\ ~ Go(c, [call[c] EXCEPT !.todo = a, !.placed = b])
               /\ ~ Go(c, [call[c] EXCEPT !.todo = a, !.failed = b])
               /\ \A d : ~ Go(c, [call[c] EXCEPT !.order = a, !.todo = b, !.retried = d])
    <2>1. LET r == [call[c] EXCEPT !.todo = a] IN Fit(c, r) /\ r.step = call[c].step
      BY <1>c DEF Fit, CallFields
    <2>2. LET r == [call[c] EXCEPT !.todo = a, !.placed = b] IN Fit(c, r) /\ r.step = call[c].step
      BY <1>c DEF Fit, CallFields
    <2>3. LET r == [call[c] EXCEPT !.todo = a, !.failed = b] IN Fit(c, r) /\ r.step = call[c].step
      BY <1>c DEF Fit, CallFields
    <2>4. ASSUME NEW d PROVE LET r == [call[c] EXCEPT !.order = a, !.todo = b, !.retried = d] IN Fit(c, r) /\ r.step = call[c].step
      BY <1>c DEF Fit, CallFields
    <2> QED
      BY <1>r, <1>t, <2>1, <2>2, <2>3, <2>4
  <1>s. ASSUME NEW step, step # "done", NEW a PROVE ~ Go(c, [call[c] EXCEPT !.step = step, !.todo = a])
    <2>1. LET r == [call[c] EXCEPT !.step = step, !.todo = a] IN Fit(c, r) /\ r.step = step
      BY <1>c DEF Fit, CallFields
    <2> QED
      BY <1>r, <1>s, <2>1
  <1>u. Undo(c) # "done"
    BY DEF Undo
  <1>n. \A step \in {"failed", "upload", "lookup", "untrack", "readback", "orphans"} : ~ Move(c, step)
    BY <1>m
  <1>nm. /\ ~ Move(c, "failed") /\ ~ Move(c, "upload") /\ ~ Move(c, "lookup") /\ ~ Move(c, "untrack")
         /\ ~ Move(c, "readback") /\ ~ Move(c, "orphans")
    BY <1>n
  <1>1. ~ (BeginPut(c) \/ BeginCreate(c) \/ CopyInsert(c) \/ RemoveEntry(c) \/ AbortUpload(c) \/ Untrack(c) \/ TooFew(c))
    <2>1. ~ BeginPut(c) /\ ~ BeginCreate(c) /\ ~ CopyInsert(c)
      BY <1>nm, <1>f, Zenon DEF BeginPut, BeginCreate, CopyInsert
    <2>2. ~ RemoveEntry(c) /\ ~ AbortUpload(c) /\ ~ Untrack(c) /\ ~ TooFew(c)
      BY <1>nm, Zenon DEF RemoveEntry, AbortUpload, Untrack, TooFew
    <2> QED
      BY <2>1, <2>2
  <1>2. ~ (CopyCheck(c) \/ Unplace(c))
    BY <1>m DEF CopyCheck, Unplace
  <1>3. ~ BeginUpload(c) /\ ~ RetryUpload(c)
    BY <1>nm, <1>f, Zenon DEF BeginUpload, RetryUpload
  <1>4. ~ BeginDelete(c) /\ ~ DeleteLookup(c) /\ ~ CompletePrimary(c)
    <2>1. ~ BeginDelete(c) /\ ~ CompletePrimary(c)
      BY <1>nm, Zenon DEF BeginDelete, CompletePrimary
    <2>2. ~ DeleteLookup(c)
      BY <1>s DEF DeleteLookup
    <2> QED
      BY <2>1, <2>2
  <1>5. ~ RetryWrites(c) /\ ~ AllFailed(c)
    <2>1. ~ RetryWrites(c)
      BY <1>t DEF RetryWrites, Answered, At
    <2>2. AllFailed(c) => (\E q : Go(c, [FanOut(c, q) EXCEPT !.again = TRUE])) \/ Move(c, Undo(c))
      BY Zenon DEF AllFailed
    <2> QED
      BY <1>m, <1>f, <1>u, <2>1, <2>2
  <1>6. ~ Orphans(c)
    BY <1>m, <1>s, <1>u DEF Orphans
  <1>7. ASSUME NEW s \in Ids PROVE ~ (WriteOne(c, s) \/ CleanOne(c, s) \/ WithdrawOne(c, s) \/ EraseOne(c, s))
    <2>1. ~ WriteOne(c, s) /\ ~ EraseOne(c, s)
      BY <1>t DEF WriteOne, EraseOne, At
    <2>u. ~ Move(c, Undo(c))
      BY <1>m, <1>u
    <2>2. ~ CleanOne(c, s)
      <3>1. CleanOne(c, s) => call[c].step # "done" /\ Go(c, [call[c] EXCEPT !.todo = @ \ {s}])
        BY <2>u DEF CleanOne, At
      <3> QED
        BY <1>t, <3>1
    <2>3. ~ WithdrawOne(c, s)
      <3>1. WithdrawOne(c, s) => call[c].step # "done" /\ Go(c, [call[c] EXCEPT !.todo = @ \ {s}])
        BY <1>nm DEF WithdrawOne, At
      <3> QED
        BY <1>t, <3>1
    <2> QED
      BY <2>1, <2>2, <2>3
  <1>8. CASE BeginGet(c) \/ \E s \in Ids : ReadOne(c, s)
    <2>1. OpOf(c) = "get"
      BY <1>8, <1>c DEF BeginGet, ReadOne, At, Lane
    <2> QED
      BY <1>op, <2>1 DEF Exact
  <1>p. ASSUME call[c].step \in {"write", "unmark", "readback"} PROVE Progress(c, call[c])
    BY <1>p, <1>clean DEF SoloInv, Solo, Running
  <1>9. CASE Commit(c)
    <2>1. /\ UNCHANGED <<bodyOn, metaOn>> /\ call[c].step = "write" /\ OpOf(c) \in WriteOps
          /\ place' = Placed(call[c].placed, c, MetaOf(c)) /\ Cardinality(call[c].placed) >= Quorum
      BY <1>9, <1>c DEF Commit, Answered, At, Lane
    <2>2. Wrote(c, call[c].placed)
      BY <1>p, <2>1 DEF Progress
    <2>3. place'.shards = call[c].placed
      BY <2>1 DEF Placed
    <2>4. Wrote(c, place.shards)'
      BY <1>op, <2>1, <2>2, <2>3 DEF Wrote, StampOf
    <2> QED
      BY <2>1, <2>3, <2>4, WriteExact
  <1>10. CASE Unmark(c)
    <2>1. UNCHANGED <<bodyOn, metaOn, place>> /\ call[c].step = "unmark" /\ OpOf(c) \in WriteOps
      BY <1>10, <1>c DEF Unmark, At, Lane
    <2>2. Wrote(c, place.shards) /\ Cardinality(place.shards) >= Quorum
      BY <1>p, <2>1 DEF Progress
    <2>3. Wrote(c, place.shards)'
      BY <1>op, <2>1, <2>2 DEF Wrote, StampOf
    <2> QED
      BY <2>1, <2>2, <2>3, WriteExact
  <1>11. CASE ReadBack(c)
    <2> DEFINE p == call[c].primary
               r == [call[c] EXCEPT !.step = "write", !.todo = ToSet(call[c].order), !.placed = {p},
                                    !.data = bodyOn[p], !.fields = metaOn[p]]
    <2>1. UNCHANGED bodyOn /\ call[c].step = "readback" /\ OpOf(c) = "multipart"
      BY <1>11, <1>c DEF ReadBack, At, Lane
    <2>2. bodyOn[p] = c
      BY <1>p, <2>1 DEF Progress
    <2>3. \/ Go(c, r) \/ Move(c, "failed")
          \/ call[c].order = <<>> /\ place' = Placed({p}, bodyOn[p], IndexedMeta(p)) /\ Move(c, "done")
      BY <1>11, Zenon DEF ReadBack
    <2>4. Fit(c, r) /\ r.step = "write"
      BY <1>c DEF Fit, CallFields
    <2> HIDE DEF r
    <2>5. call[c].order = <<>> /\ place' = Placed({p}, bodyOn[p], IndexedMeta(p)) /\ Move(c, "done")
      BY <1>m, <1>r, <2>3, <2>4
    <2>6. (\A s \in place'.shards : bodyOn'[s] = c) /\ call'[c].order = <<>>
      BY <1>m, <2>1, <2>2, <2>5 DEF Placed
    <2> QED
      BY <2>1, <2>6, UploadExact
  <1>12. CASE CompleteUpload(c)
    <2>1. UNCHANGED bodyOn /\ call[c].step = "write" /\ OpOf(c) = "multipart"
      BY <1>12 DEF CompleteUpload, At
    <2>2. ~ (Cardinality(call[c].placed) < Quorum) /\ place' = Placed(call[c].placed, call[c].data, call[c].fields)
      BY <1>12, <1>s DEF CompleteUpload
    <2>3. Wrote(c, call[c].placed)
      BY <1>p, <2>1 DEF Progress
    <2>4. Cardinality(call[c].placed) \in Nat /\ Quorum \in Nat
      <3>1. IsFiniteSet(Ids) /\ call[c].placed \in SUBSET Ids
        BY <2>3, ClusterAssumption, FS_Interval DEF Ids, Wrote
      <3>2. Cardinality(call[c].placed) \in Nat
        BY <3>1, FS_Subset, FS_CardinalityType
      <3>3. Quorum \in Nat
        BY ClusterAssumption DEF CallTables, Play, Quorum
      <3> QED
        BY <3>2, <3>3
    <2>5. place'.shards = call[c].placed /\ Cardinality(call[c].placed) >= Quorum
      BY <2>2, <2>4 DEF Placed
    <2>6. \A s \in place'.shards : bodyOn'[s] = c
      BY <2>1, <2>3, <2>5 DEF Wrote
    <2> QED
      BY <2>1, <2>5, <2>6, UploadExact
  <1>13. CASE DeleteCollect(c)
    <2>1. UNCHANGED bodyOn /\ call[c].step = "erase" /\ call[c].todo = {} /\ OpOf(c) = "delete"
      BY <1>13, <1>c DEF DeleteCollect, At, Lane
    <2>2. ASSUME Calm' PROVE place' = NoPlace /\ \A s \in Ids : ~ Readable(bodyOn'[s])
      <3>1. PICK r : Go(c, r) /\ Fit(c, r)
        BY CallSteps DEF Moves
      <3>2. Orderly(call[c])
        BY <2>1, <2>2, <3>1, CalmBefore DEF Running
      <3>3. call[c].failed = {} /\ \A s \in Ids : ~ Readable(bodyOn[s])
        BY <2>1, <3>2 DEF Orderly
      <3>4. place' = NoPlace
        BY <1>13, <3>3, Zenon DEF DeleteCollect
      <3> QED
        BY <2>1, <3>3, <3>4
    <2> QED
      BY <1>op, <2>1, <2>2 DEF Exact, Calm, Readable
  <1> QED
    BY <1>1, <1>2, <1>3, <1>4, <1>5, <1>6, <1>7, <1>8, <1>9, <1>10, <1>11, <1>12, <1>13, Zenon DEF CallNext

\* UndisturbedOpExact for any number of shards, callers and failures: the
\* answer of an operation that ran alone is true of the catalog and of the
\* shards it names, whatever ran before it: put (lib.rs:2841), put_opts,
\* copy_if_not_exists, put_with_meta (metadata.rs:260), multipart complete, and
\* delete_raw.  SoloInv carries the writes; the delete also needs CalmInv,
\* which relates every copy to the entry.
THEOREM OperationsDeliverAlone == InspectSpec => UndisturbedOpExact
  <1>1. InspectInit => CallTables /\ SoloInv /\ CalmInv
    BY CallTablesStart, SoloStart, CalmStart DEF InspectInit
  <1>2. CallTables /\ SoloInv /\ CalmInv /\ [InspectNext]_inspectVars => CallTables' /\ SoloInv' /\ CalmInv'
    BY CallTablesStep, SoloKept, CalmKept
  <1>3. CallTables /\ SoloInv /\ CalmInv /\ [InspectNext]_inspectVars
        => [\A c \in Callers : ~ At(c, "done") /\ At(c, "done")' /\ call'[c].clean => Exact(c)']_clusterVars
    <2> SUFFICES ASSUME CallTables, SoloInv, CalmInv, [InspectNext]_inspectVars, NEW c \in Callers,
                        ~ At(c, "done"), At(c, "done")', call'[c].clean
                 PROVE  Exact(c)'
      OBVIOUS
    <2>1. play' = play /\ faults' \in {faults, faults - 1} /\ call[c].step # "done" /\ call'[c].step = "done"
      BY CallTablesStep DEF At
    <2>2. "step" \in CallFields \ {"clean"}
      BY DEF CallFields
    <2>3. \A d \in Callers : CallNext(d) \/ InspectCall(d) => d = c
      <3> SUFFICES ASSUME NEW d \in Callers, CallNext(d) \/ InspectCall(d), d # c PROVE FALSE
        OBVIOUS
      <3>1. PICK r : Go(d, r) /\ Fit(d, r)
        BY CallSteps, LookMoves DEF Moves, Peeks
      <3> QED
        BY <2>1, <2>2, <3>1, GoSets DEF Fit
    <2>4. ASSUME NEW r \in repairs PROVE ~ (RepairRead(r) \/ RepairWrite(r) \/ RepairEnter(r))
      BY <2>1 DEF RepairRead, RepairWrite, RepairEnter
    <2>5. ~ PurgeCollect
      <3> SUFFICES ASSUME PurgeCollect PROVE FALSE
        OBVIOUS
      <3>1. call' = [d \in Callers |-> IF Running(d) THEN [call[d] EXCEPT !.clean = FALSE] ELSE call[d]]
        BY DEF PurgeCollect
      <3>2. DOMAIN call[c] = CallFields
        BY DEF CallTables
      <3> QED
        BY <2>1, <3>1, <3>2 DEF CallFields
    <2>6. ASSUME NEW u \in purge PROVE ~ PurgeOne(u)
      BY <2>1 DEF PurgeOne
    <2>7. ~ UNCHANGED call
      BY <2>1
    <2>8. CASE InspectCall(c)
      <3>1. OpOf(c) \in LookOps
        BY <2>8, Looks DEF SoloInv, Lane, LookSteps, LookOps
      <3> QED
        BY <2>1, <3>1 DEF Exact, OpOf, LookOps
    <2>9. CASE CallNext(c)
      BY <2>1, <2>9, DoneExact
    <2>10. \/ \E d \in Callers : CallNext(d) \/ InspectCall(d)
           \/ \E r \in repairs : RepairRead(r) \/ RepairWrite(r) \/ RepairEnter(r)
           \/ PurgeCollect \/ \E u \in purge : PurgeOne(u)
           \/ UNCHANGED call
      BY DEF InspectNext, ClusterNext, inspectVars, clusterVars
    <2> QED
      BY <2>3, <2>4, <2>5, <2>6, <2>7, <2>8, <2>9, <2>10
  <1> QED
    BY <1>1, <1>2, <1>3, PTL DEF InspectSpec, UndisturbedOpExact

=============================================================================
