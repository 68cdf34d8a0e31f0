----------------------------- MODULE S3Uploads -----------------------------
(***************************************************************************)
(* Multipart uploads of the S3 front end, objstrd/src/adapter.rs.  A part  *)
(* is spooled to a temporary file of its own and then entered in the table *)
(* of uploads; completing an upload takes it out of the table, joins the   *)
(* files that the client names and writes the object; an Upload removes    *)
(* its files when it is dropped.  The uploads are in memory only, and a    *)
(* handler can stop at any await when its client goes away.                *)
(***************************************************************************)
EXTENDS Integers, Sequences, FiniteSets

CONSTANTS
    UpClients,      \* requests in flight at the same time
    UploadIds,      \* upload ids; each is handed out once
    PartNumbers,    \* part numbers that clients use
    PartData,       \* contents of a part
    TempFiles,      \* names of temporary files
    PartLists,      \* lists of parts that clients complete with
    MaxUploads,     \* MAX_CONCURRENT_UPLOADS
    NoUpload, NoPart, NoFile, NoTarget

Digest(data) == <<"md5", data>>

\* PartMeta and Upload: the parts entered by number, each with its file and
\* the digest of what was spooled; whether the upload is past its expiry.
PartMeta == [file : TempFiles, etag : {Digest(data) : data \in PartData}]
Upload == [parts : [PartNumbers -> {NoPart} \cup PartMeta], stale : BOOLEAN]

ASSUME UploadsAssumption ==
    /\ MaxUploads \in Nat
    /\ PartLists \subseteq Seq(PartNumbers)
    /\ \A data \in PartData : data # NoFile
    /\ \A p \in PartMeta : p # NoPart
    /\ \A u \in Upload : u # NoUpload

VARIABLES
    uploads,    \* the table: an upload by id, or NoUpload
    given,      \* ids handed out so far
    files,      \* content of every temporary file, or NoFile
    task,       \* the request each client has in flight
    target,     \* the parts that the stored object consists of, or NoTarget
    leaked      \* ghost: files that nothing will remove any more

uploadVars == <<uploads, given, files, task, target, leaked>>

IdleTask == [op |-> "idle"]
NewUpload == [parts |-> [n \in PartNumbers |-> NoPart], stale |-> FALSE]
Open == {id \in UploadIds : uploads[id] # NoUpload}
PartFiles(u) == {u.parts[n].file : n \in {m \in PartNumbers : u.parts[m] # NoPart}}

\* Upload::drop: the files of all its parts are removed.
DropUploads(U) ==
    [f \in TempFiles |-> IF \E u \in U : f \in PartFiles(u) THEN NoFile ELSE files[f]]

\* The files that are named somewhere; a new file has a new name.
Named ==
    {f \in TempFiles : files[f] # NoFile}
    \cup UNION {PartFiles(uploads[id]) : id \in Open}
    \cup UNION {PartFiles(task[c].upload) : c \in {d \in UpClients : task[d].op = "complete"}}
Fresh == TempFiles \ Named

SetTask(c, t) == task' = [task EXCEPT ![c] = t]
End(c) == SetTask(c, IdleTask)

----------------------------------------------------------------------------
\* create_multipart_upload: uploads past their expiry are dropped first; then
\* the table may be full (SlowDown).
CreateUpload(id) ==
    /\ id \notin given
    /\ given' = given \cup {id}
    /\ LET old == {i \in Open : uploads[i].stale}
       IN  /\ files' = DropUploads({uploads[i] : i \in old})
           /\ uploads' = [i \in UploadIds |->
                            IF i \in old THEN NoUpload
                            ELSE IF i = id /\ Cardinality(Open \ old) < MaxUploads THEN NewUpload
                            ELSE uploads[i]]
    /\ UNCHANGED <<task, target, leaked>>

\* upload_expiry passes for an upload.
UploadAges(id) ==
    /\ id \in Open /\ ~ uploads[id].stale
    /\ uploads' = [uploads EXCEPT ![id].stale = TRUE]
    /\ UNCHANGED <<given, files, task, target, leaked>>

\* upload_part spools the body to a new file before it looks for the upload.
\* upload_part_copy does the same with a range of a stored object.
StartPart(c, op, id, n, data) ==
    /\ task[c] = IdleTask
    /\ id \in given /\ Fresh # {}
    /\ LET f == CHOOSE g \in Fresh : TRUE
       IN  /\ files' = [files EXCEPT ![f] = data]
           /\ SetTask(c, [op |-> op, id |-> id, part |-> n, file |-> f])
    /\ UNCHANGED <<uploads, given, target, leaked>>

\* A part that is entered again replaces the one before; nothing removes the
\* file of that one.
Register(id, n, f) ==
    uploads' = [uploads EXCEPT ![id].parts[n] = [file |-> f, etag |-> Digest(files[f])]]
Replaced(id, n) ==
    IF uploads[id].parts[n] = NoPart THEN {} ELSE {uploads[id].parts[n].file}

\* Mutant of FinishPart: the entry is made although the upload may be gone
\* for the file, which is removed.
FinishPartTidy(c) ==
    /\ task[c].op = "upload_part"
    /\ LET t == task[c] IN
       /\ uploads[t.id] # NoUpload
       /\ Register(t.id, t.part, t.file)
       /\ files' = [files EXCEPT ![t.file] = NoFile]
       /\ leaked' = leaked
    /\ End(c)
    /\ UNCHANGED <<given, target>>

\* The end of upload_part: the part is entered, or there is no such upload
\* and the file is removed.
FinishPart(c) ==
    /\ task[c].op = "upload_part"
    /\ LET t == task[c] IN
       \/ /\ uploads[t.id] # NoUpload
          /\ Register(t.id, t.part, t.file)
          /\ leaked' = leaked \cup Replaced(t.id, t.part)
          /\ files' = files
       \/ /\ uploads[t.id] = NoUpload
          /\ files' = [files EXCEPT ![t.file] = NoFile]
          /\ UNCHANGED <<uploads, leaked>>
    /\ End(c)
    /\ UNCHANGED <<given, target>>

\* The client's stream or the spooling fails: the file is removed.
PartFails(c) ==
    /\ task[c].op = "upload_part"
    /\ files' = [files EXCEPT ![task[c].file] = NoFile]
    /\ End(c)
    /\ UNCHANGED <<uploads, given, target, leaked>>

\* The end of upload_part_copy; a failure leaves the file behind.
FinishPartCopy(c) ==
    /\ task[c].op = "upload_part_copy"
    /\ LET t == task[c] IN
       \/ /\ uploads[t.id] # NoUpload
          /\ Register(t.id, t.part, t.file)
          /\ leaked' = leaked \cup Replaced(t.id, t.part)
       \/ /\ uploads' = uploads
          /\ leaked' = leaked \cup {t.file}
    /\ End(c)
    /\ UNCHANGED <<given, files, target>>

----------------------------------------------------------------------------
\* complete_multipart_upload takes the upload out of the table.  An upload
\* that is not there is taken for one already completed when the object
\* exists; the client gets an answer either way and nothing changes.
StartComplete(c, id, list) ==
    /\ task[c] = IdleTask
    /\ id \in Open
    /\ uploads' = [uploads EXCEPT ![id] = NoUpload]
    /\ IF list = <<>>
       THEN /\ files' = DropUploads({uploads[id]})     \* InvalidPart
            /\ UNCHANGED task
       ELSE /\ SetTask(c, [op |-> "complete", id |-> id, upload |-> uploads[id],
                           list |-> list, at |-> 1, body |-> <<>>])
            /\ UNCHANGED files
    /\ UNCHANGED <<given, target, leaked>>

\* Mutant of NextPart: the parts are read in the order of their numbers.
NextPartByNumber(t) ==
    CHOOSE n \in PartNumbers : Cardinality({i \in DOMAIN t.list : t.list[i] <= n}) = t.at

\* The parts are read in the order of the client's list.
NextPart(t) == t.list[t.at]

\* One part is appended to the assembly file; a part that was never entered
\* (InvalidPart) drops the upload with all its files.
CompletePart(c) ==
    /\ task[c].op = "complete" /\ task[c].at <= Len(task[c].list)
    /\ LET t == task[c]
           p == t.upload.parts[NextPart(t)]
       IN  IF p = NoPart \/ files[p.file] = NoFile
           THEN /\ files' = DropUploads({t.upload})
                /\ End(c)
           ELSE /\ SetTask(c, [t EXCEPT !.at = @ + 1, !.body = Append(@, files[p.file])])
                /\ UNCHANGED files
    /\ UNCHANGED <<uploads, given, target, leaked>>

\* The object is written from the assembly file and the upload is dropped.  Its
\* body ends meta_bytes.len() as u16 bytes before the end of the file: the
\* encoded headers are taken to be shorter than 2^16, where the cast is exact.
CompleteStore(c) ==
    /\ task[c].op = "complete" /\ task[c].at > Len(task[c].list)
    /\ target' = task[c].body
    /\ files' = DropUploads({task[c].upload})
    /\ End(c)
    /\ UNCHANGED <<uploads, given, leaked>>

\* The write fails: the upload goes back into the table for a retry.
CompleteStoreFails(c) ==
    /\ task[c].op = "complete" /\ task[c].at > Len(task[c].list)
    /\ uploads' = [uploads EXCEPT ![task[c].id] = task[c].upload]
    /\ End(c)
    /\ UNCHANGED <<given, files, target, leaked>>

\* abort_multipart_upload.
AbortUpload(id) ==
    /\ id \in Open
    /\ uploads' = [uploads EXCEPT ![id] = NoUpload]
    /\ files' = DropUploads({uploads[id]})
    /\ UNCHANGED <<given, task, target, leaked>>

\* The client goes away: its handler is dropped where it stands, and with it
\* the upload that it holds; a part's file has no owner yet.
Disconnect(c) ==
    /\ task[c] # IdleTask
    /\ IF task[c].op = "complete"
       THEN files' = DropUploads({task[c].upload}) /\ UNCHANGED leaked
       ELSE leaked' = leaked \cup {task[c].file} /\ UNCHANGED files
    /\ End(c)
    /\ UNCHANGED <<uploads, given, target>>

\* The server stops without running any destructor; the files stay.
ServerDies ==
    /\ uploads' = [id \in UploadIds |-> NoUpload]
    /\ task' = [c \in UpClients |-> IdleTask]
    /\ leaked' = {f \in TempFiles : files[f] # NoFile}
    /\ UNCHANGED <<given, files, target>>

UploadsInit ==
    /\ uploads = [id \in UploadIds |-> NoUpload]
    /\ given = {}
    /\ files = [f \in TempFiles |-> NoFile]
    /\ task = [c \in UpClients |-> IdleTask]
    /\ target = NoTarget
    /\ leaked = {}

UploadsNext ==
    \/ \E id \in UploadIds :
        \/ CreateUpload(id) \/ UploadAges(id) \/ AbortUpload(id)
        \/ \E c \in UpClients :
            \/ \E op \in {"upload_part", "upload_part_copy"}, n \in PartNumbers, data \in PartData :
                    StartPart(c, op, id, n, data)
            \/ \E list \in PartLists : StartComplete(c, id, list)
    \/ \E c \in UpClients :
        \/ FinishPart(c) \/ PartFails(c) \/ FinishPartCopy(c)
        \/ CompletePart(c) \/ CompleteStore(c) \/ CompleteStoreFails(c)
        \/ Disconnect(c)
    \/ ServerDies

UploadsSpec == UploadsInit /\ [][UploadsNext]_uploadVars

----------------------------------------------------------------------------
\* The uploads that the server holds, in the table or in a handler.
Held == {uploads[id] : id \in Open}
        \cup {task[c].upload : c \in {d \in UpClients : task[d].op = "complete"}}

\* Every part of an upload, in the table or taken out by a running complete,
\* has its file with the content of its etag, although parts are replaced,
\* expired, aborted and retried meanwhile; and every file belongs to such a
\* part or to a running upload_part, except the ones the code leaves behind:
\* files of replaced parts, of failed part copies and of lost clients.
TempFilesAccounted ==
    /\ \A u \in Held : \A n \in PartNumbers :
        u.parts[n] # NoPart =>
            /\ files[u.parts[n].file] # NoFile
            /\ u.parts[n].etag = Digest(files[u.parts[n].file])
            /\ u.parts[n].file \notin leaked
    /\ \A f \in TempFiles :
        files[f] # NoFile =>
            \/ f \in leaked
            \/ \E u \in Held : f \in PartFiles(u)
            \/ \E c \in UpClients : task[c].op \in {"upload_part", "upload_part_copy"}
                                    /\ task[c].file = f

\* A completed object is the data of the parts that the client named, in its
\* order, as they were entered when complete took the upload: a part that
\* arrives during the assembly changes nothing.
CompleteAssembles ==
    [][target' # target =>
        \E c \in UpClients :
            /\ task[c].op = "complete" /\ task'[c] = IdleTask
            /\ Len(target') = Len(task[c].list)
            /\ \A i \in DOMAIN target' :
                Digest(target'[i]) = task[c].upload.parts[task[c].list[i]].etag]_uploadVars
============================================================================
