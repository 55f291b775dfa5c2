------------------------------ MODULE FileObjects ------------------------------
(* Content-addressed objects, the rows and metadata files that refer to them,  *)
(* and their garbage collection (store/fileLifecycleService.ts, fileStore.ts,  *)
(* objectPublicationCoordinator.ts, conversationObjectGarbageCollector.ts,     *)
(* threadStore.ts purge, postgres/fileObjectRepository.ts and                  *)
(* objectReferenceRepository.ts, runtimeIntegrityChecker.ts).                  *)
(*                                                                             *)
(* Objects and metadata are files, rows and references are in the database; no *)
(* transaction spans both, and a metadata file lies in a directory of its own, *)
(* made before it and removed after it. One coordinator keeps publication and  *)
(* collection apart; deletions, reservations and the database purge do not go  *)
(* through it. Each thread's files are written and removed one at a time.      *)
EXTENDS Naturals, Sequences, FiniteSets

CONSTANTS
    Thread,
    File,           \* rows of platform_file_objects, one per upload request
    Reference,      \* hash columns: checkpoints, model requests, thread memory
    Object,         \* contents, named by their hash
    Worker,         \* calls in progress
    ThreadOf,       \* the thread of each file and reference
    SourceOf,       \* the source key of each file
    ContentOf,      \* the content of each file
    CloneOf,        \* the file a branch copies, None for an upload
    None

ASSUME FileAssumption ==
    /\ IsFiniteSet(Worker) /\ IsFiniteSet(Thread)
    /\ File \cap Reference = {}
    /\ ThreadOf \in [File \cup Reference -> Thread]
    /\ ContentOf \in [File -> Object]
    /\ CloneOf \in [File -> File \cup {None}]
    /\ \A f \in File : CloneOf[f] # None => ContentOf[f] = ContentOf[CloneOf[f]]
    /\ None \notin Object \cup File \cup Reference

VARIABLES
    \* database
    threadStatus,
    fileStatus,         \* "unborn" is no row yet, "purged" no row any more
    reference,          \* per reference: the object it names
    \* files
    objects,            \* objects on disk
    directories,        \* files whose directory is on disk
    metadata,           \* files whose metadata.json is on disk
    \* memory
    up,                 \* whether the server runs
    activePublishers, collecting, waitingPublishers, waitingCollectors,
    place, subject, content,    \* per worker: how far its call is, on what
    retired,            \* per worker: files whose metadata it has still to remove
    purge,              \* per thread: how far its purge is
    referenced          \* what the running collection has found referenced

rowVars == <<threadStatus, fileStatus, reference>>
diskVars == <<objects, directories, metadata>>
lockVars == <<activePublishers, collecting, waitingPublishers, waitingCollectors>>
callVars == <<place, subject, content, retired>>
purgeVars == <<purge, referenced>>
fileVars == <<rowVars, diskVars, up, lockVars, callVars, purgeVars>>

Publishing == {"admitted", "stored", "placing", "written"}
Removing == {"retiring", "deleting", "removing"}
PlaceOfCall == Publishing \cup Removing \cup {"idle", "reserved", "waiting", "leaving"}
Collecting == {"admitted", "cleared", "scanning", "sweeping"}
PlaceOfPurge == Collecting \cup {"none", "committed", "waiting", "leaving", "done"}

FileTypeOK ==
    /\ threadStatus \in [Thread -> {"active", "trashed", "purged"}]
    /\ fileStatus \in [File -> {"unborn", "pending", "ready", "deleted", "purged"}]
    /\ reference \in [Reference -> Object \cup {None}]
    /\ objects \subseteq Object
    /\ directories \subseteq File /\ metadata \subseteq directories
    /\ up \in BOOLEAN
    /\ activePublishers \in Nat /\ collecting \in BOOLEAN
    /\ waitingPublishers \in Seq(Worker) /\ waitingCollectors \in Seq(Thread)
    /\ place \in [Worker -> PlaceOfCall]
    /\ subject \in [Worker -> File \cup Reference \cup {None}]
    /\ content \in [Worker -> Object \cup {None}]
    /\ retired \in [Worker -> SUBSET File]
    /\ purge \in [Thread -> PlaceOfPurge]
    /\ referenced \subseteq Object

FileInit ==
    /\ threadStatus = [t \in Thread |-> "active"]
    /\ fileStatus = [f \in File |-> "unborn"]
    /\ reference = [r \in Reference |-> None]
    /\ objects = {} /\ directories = {} /\ metadata = {}
    /\ up = TRUE
    /\ activePublishers = 0 /\ collecting = FALSE
    /\ waitingPublishers = <<>> /\ waitingCollectors = <<>>
    /\ place = [w \in Worker |-> "idle"]
    /\ subject = [w \in Worker |-> None]
    /\ content = [w \in Worker |-> None]
    /\ retired = [w \in Worker |-> {}]
    /\ purge = [t \in Thread |-> "none"]
    /\ referenced = {}

\* The elements of a queue.
Queued(queue) == {queue[i] : i \in 1..Len(queue)}

--------------------------------------------------------------------------------
(* The coordinator (objectPublicationCoordinator.ts).                          *)

\* (mutant) a collection under way does not hold publishers back
AdmitsBesideCollector == waitingCollectors = <<>>

\* A publisher is admitted at once unless a collection runs or waits.
AdmitsPublisher == ~collecting /\ waitingCollectors = <<>>

AcquirePublisher(w) ==
    IF AdmitsPublisher
    THEN /\ activePublishers' = activePublishers + 1
         /\ place' = [place EXCEPT ![w] = "admitted"]
         /\ UNCHANGED <<collecting, waitingPublishers, waitingCollectors>>
    ELSE /\ waitingPublishers' = Append(waitingPublishers, w)
         /\ place' = [place EXCEPT ![w] = "waiting"]
         /\ UNCHANGED <<activePublishers, collecting, waitingCollectors>>

\* The last publisher hands over to the first collector that waits.
ReleasePublisher(w, next) ==
    /\ activePublishers' = activePublishers - 1
    /\ place' = [place EXCEPT ![w] = next]
    /\ IF activePublishers = 1 /\ ~collecting /\ waitingCollectors # <<>>
       THEN /\ collecting' = TRUE
            /\ waitingCollectors' = Tail(waitingCollectors)
            /\ purge' = [purge EXCEPT ![Head(waitingCollectors)] = "admitted"]
       ELSE UNCHANGED <<collecting, waitingCollectors, purge>>
    /\ UNCHANGED waitingPublishers

\* A collection starts at once when nobody publishes and no other runs.
AdmitsCollector == ~collecting /\ activePublishers = 0

AcquireCollector(t) ==
    IF AdmitsCollector
    THEN /\ collecting' = TRUE
         /\ purge' = [purge EXCEPT ![t] = "admitted"]
         /\ UNCHANGED <<activePublishers, waitingPublishers, waitingCollectors>>
    ELSE /\ waitingCollectors' = Append(waitingCollectors, t)
         /\ purge' = [purge EXCEPT ![t] = "waiting"]
         /\ UNCHANGED <<activePublishers, collecting, waitingPublishers>>

\* (mutant) the waiting publishers are not woken
ReleaseCollectorAlone(t) ==
    /\ collecting' = (waitingCollectors # <<>>)
    /\ purge' = IF waitingCollectors = <<>> THEN [purge EXCEPT ![t] = "done"]
                ELSE [purge EXCEPT ![t] = "done", ![Head(waitingCollectors)] = "admitted"]
    /\ waitingCollectors' = IF waitingCollectors = <<>> THEN <<>> ELSE Tail(waitingCollectors)
    /\ UNCHANGED <<activePublishers, waitingPublishers, place>>

\* The next collector goes first; without one every publisher that waits is let in.
ReleaseCollector(t) ==
    IF waitingCollectors # <<>>
    THEN /\ waitingCollectors' = Tail(waitingCollectors)
         /\ purge' = [purge EXCEPT ![t] = "done", ![Head(waitingCollectors)] = "admitted"]
         /\ UNCHANGED <<activePublishers, collecting, waitingPublishers, place>>
    ELSE /\ collecting' = FALSE
         /\ purge' = [purge EXCEPT ![t] = "done"]
         /\ activePublishers' = activePublishers + Len(waitingPublishers)
         /\ place' = [w \in Worker |->
                         IF w \in Queued(waitingPublishers) THEN "admitted" ELSE place[w]]
         /\ waitingPublishers' = <<>>
         /\ UNCHANGED waitingCollectors

--------------------------------------------------------------------------------
(* Calls that publish an object and commit what refers to it.                  *)

\* upload() and each file of cloneThreadFiles(): the row is reserved first. A
\* repeated request finds its row; a deleted one is refused. What is cloned was ready
\* when the list of files was read.
Reserve(w, f) ==
    /\ place[w] = "idle"
    /\ threadStatus[ThreadOf[f]] # "purged"
    /\ fileStatus[f] \in {"unborn", "pending"}
    /\ CloneOf[f] # None => /\ fileStatus[f] = "unborn"
                           /\ fileStatus[CloneOf[f]] \in {"ready", "deleted"}
    /\ fileStatus' = [fileStatus EXCEPT ![f] = "pending"]
    /\ place' = [place EXCEPT ![w] = "reserved"]
    /\ subject' = [subject EXCEPT ![w] = f]
    /\ content' = [content EXCEPT ![w] = ContentOf[f]]
    /\ UNCHANGED <<threadStatus, reference, diskVars, up, lockVars, retired, purgeVars>>

\* (mutant) the rows of a source include the one that has just become ready
AllOfSource(f) ==
    {g \in File : /\ ThreadOf[g] = ThreadOf[f] /\ SourceOf[g] = SourceOf[f]
                  /\ fileStatus[g] \in {"ready", "deleted"}}

\* The other rows of the file's source, which a commit retires.
Siblings(f) ==
    {g \in File \ {f} : /\ ThreadOf[g] = ThreadOf[f] /\ SourceOf[g] = SourceOf[f]
                        /\ fileStatus[g] \in {"ready", "deleted"}}

\* A request whose row is ready publishes nothing; it retires what is left.
Replay(w, f) ==
    /\ place[w] = "idle" /\ fileStatus[f] = "ready"
    /\ threadStatus[ThreadOf[f]] # "purged"
    /\ Siblings(f) # {}
    /\ retired' = [retired EXCEPT ![w] = Siblings(f)]
    /\ place' = [place EXCEPT ![w] = "retiring"]
    /\ UNCHANGED <<rowVars, diskVars, up, lockVars, subject, content, purgeVars>>

PublishFile(w) ==
    /\ place[w] = "reserved"
    /\ AcquirePublisher(w)
    /\ UNCHANGED <<rowVars, diskVars, up, subject, content, retired, purgeVars>>

\* A checkpoint, a model request or a version of the thread's memory.
PublishReference(w, r, o) ==
    /\ place[w] = "idle"
    /\ threadStatus[ThreadOf[r]] # "purged"
    /\ subject' = [subject EXCEPT ![w] = r]
    /\ content' = [content EXCEPT ![w] = o]
    /\ AcquirePublisher(w)
    /\ UNCHANGED <<rowVars, diskVars, up, retired, purgeVars>>

\* A thread's queue runs one job at a time: the publication of an upload's object and
\* metadata, or a removal. A clone does not go through it.
HoldsQueue(w) ==
    \/ place[w] = "removing"
    \/ place[w] \in {"stored", "placing"} /\ CloneOf[subject[w]] = None

QueueIsFree(t) == ~ \E w \in Worker : HoldsQueue(w) /\ ThreadOf[subject[w]] = t

\* The object is published atomically, or found. A clone writes none; it needs the
\* metadata of the file it copies.
StoreObject(w) ==
    /\ place[w] = "admitted"
    /\ IF subject[w] \in File /\ CloneOf[subject[w]] # None
       THEN CloneOf[subject[w]] \in metadata /\ UNCHANGED objects
       ELSE /\ subject[w] \in File => QueueIsFree(ThreadOf[subject[w]])
            /\ objects' = objects \cup {content[w]}
    /\ place' = [place EXCEPT ![w] = IF subject[w] \in File THEN "stored" ELSE "written"]
    /\ UNCHANGED <<rowVars, directories, metadata, up, lockVars, subject, content, retired,
                   purgeVars>>

\* atomicWriteText makes the directory, writes a temporary file there ...
MakeDirectory(w) ==
    /\ place[w] = "stored"
    /\ directories' = directories \cup {subject[w]}
    /\ place' = [place EXCEPT ![w] = "placing"]
    /\ UNCHANGED <<rowVars, objects, metadata, up, lockVars, subject, content, retired,
                   purgeVars>>

\* ... and renames it.
WriteMetadata(w) ==
    /\ place[w] = "placing"
    /\ subject[w] \in directories
    /\ metadata' = metadata \cup {subject[w]}
    /\ place' = [place EXCEPT ![w] = "written"]
    /\ UNCHANGED <<rowVars, objects, directories, up, lockVars, subject, content, retired,
                   purgeVars>>

\* promoteReadyAndRetire of a pending row.
Promote(f) ==
    fileStatus' = [g \in File |->
        IF g = f THEN "ready"
        ELSE IF g \in Siblings(f) THEN "deleted" ELSE fileStatus[g]]

\* The reference is committed; a purged thread or a deleted row makes it throw.
Commit(w) ==
    LET s == subject[w]
    IN  /\ place[w] = "written"
        /\ threadStatus[ThreadOf[s]] # "purged"
        /\ \/ /\ s \in File /\ fileStatus[s] \in {"pending", "ready"}
              /\ IF fileStatus[s] = "pending" THEN Promote(s) ELSE UNCHANGED fileStatus
              /\ retired' = [retired EXCEPT ![w] = Siblings(s)]
              /\ UNCHANGED reference
           \/ /\ s \in Reference
              /\ reference' = [reference EXCEPT ![s] = content[w]]
              /\ UNCHANGED <<fileStatus, retired>>
        /\ place' = [place EXCEPT ![w] = "leaving"]
        /\ UNCHANGED <<threadStatus, diskVars, up, lockVars, subject, content, purgeVars>>

\* Any of these steps may throw. A pending row stays, with its error message.
PublicationFails(w) ==
    /\ place[w] \in Publishing
    /\ place' = [place EXCEPT ![w] = "leaving"]
    /\ UNCHANGED <<rowVars, diskVars, up, lockVars, subject, content, retired, purgeVars>>

LeavePublication(w) ==
    /\ place[w] = "leaving"
    /\ ReleasePublisher(w, IF retired[w] = {} THEN "idle" ELSE "retiring")
    /\ subject' = [subject EXCEPT ![w] = None]
    /\ content' = [content EXCEPT ![w] = None]
    /\ UNCHANGED <<rowVars, diskVars, up, retired, referenced>>

\* delete(): the row first, again if it is deleted already ...
Delete(w, f) ==
    /\ place[w] = "idle" /\ fileStatus[f] \in {"ready", "deleted"}
    /\ fileStatus' = [fileStatus EXCEPT ![f] = "deleted"]
    /\ subject' = [subject EXCEPT ![w] = f]
    /\ place' = [place EXCEPT ![w] = "deleting"]
    /\ UNCHANGED <<threadStatus, reference, diskVars, up, lockVars, content, retired,
                   purgeVars>>

\* ... then the file's directory. removeRetiredFiles does that for one file after the
\* other. A recursive removal takes the metadata first,
RemoveMetadata(w, f) ==
    /\ \/ place[w] = "deleting" /\ f = subject[w]
       \/ place[w] = "retiring" /\ f \in retired[w]
    /\ QueueIsFree(ThreadOf[f])
    /\ metadata' = metadata \ {f}
    /\ place' = [place EXCEPT ![w] = "removing"]
    /\ subject' = [subject EXCEPT ![w] = f]
    /\ retired' = [retired EXCEPT ![w] = @ \ {f}]
    /\ UNCHANGED <<rowVars, objects, directories, up, lockVars, content, purgeVars>>

\* then the directory with whatever is in it.
RemoveDirectory(w) ==
    /\ place[w] = "removing"
    /\ directories' = directories \ {subject[w]}
    /\ metadata' = metadata \ {subject[w]}
    /\ place' = [place EXCEPT ![w] = IF retired[w] = {} THEN "idle" ELSE "retiring"]
    /\ subject' = [subject EXCEPT ![w] = None]
    /\ UNCHANGED <<rowVars, objects, up, lockVars, content, retired, purgeVars>>

\* Either may throw; the files that are left stay.
RemovalFails(w) ==
    /\ place[w] \in Removing
    /\ place' = [place EXCEPT ![w] = "idle"]
    /\ subject' = [subject EXCEPT ![w] = None]
    /\ retired' = [retired EXCEPT ![w] = {}]
    /\ UNCHANGED <<rowVars, diskVars, up, lockVars, content, purgeVars>>

--------------------------------------------------------------------------------
(* Threads: trash, restoration, and the purge with its collection.             *)

Trash(t) ==
    /\ threadStatus[t] = "active"
    /\ threadStatus' = [threadStatus EXCEPT ![t] = "trashed"]
    /\ UNCHANGED <<fileStatus, reference, diskVars, up, lockVars, callVars, purgeVars>>

Restore(t) ==
    /\ threadStatus[t] = "trashed"
    /\ threadStatus' = [threadStatus EXCEPT ![t] = "active"]
    /\ UNCHANGED <<fileStatus, reference, diskVars, up, lockVars, callVars, purgeVars>>

\* purgeThread: the thread's row goes, and with it every row below it.
PurgeRows(t) ==
    /\ threadStatus[t] = "trashed"
    /\ threadStatus' = [threadStatus EXCEPT ![t] = "purged"]
    /\ fileStatus' = [f \in File |->
           IF ThreadOf[f] = t /\ fileStatus[f] # "unborn" THEN "purged" ELSE fileStatus[f]]
    /\ reference' = [r \in Reference |-> IF ThreadOf[r] = t THEN None ELSE reference[r]]
    /\ purge' = [purge EXCEPT ![t] = "committed"]
    /\ UNCHANGED <<diskVars, up, lockVars, callVars, referenced>>

Collect(t) ==
    /\ purge[t] = "committed"
    /\ AcquireCollector(t)
    /\ UNCHANGED <<rowVars, diskVars, up, callVars, referenced>>

\* The thread's directory is removed with all below it, in the thread's queue,
ClearThread(t) ==
    /\ purge[t] = "admitted" /\ QueueIsFree(t)
    /\ LET left == {f \in directories : ThreadOf[f] = t}
       IN  \/ /\ \E f \in left :
                    \/ f \in metadata /\ metadata' = metadata \ {f} /\ UNCHANGED directories
                    \/ /\ f \notin metadata /\ directories' = directories \ {f}
                       /\ UNCHANGED metadata
              /\ UNCHANGED purge
           \/ /\ left = {}
              /\ purge' = [purge EXCEPT ![t] = "cleared"]
              /\ UNCHANGED <<directories, metadata>>
    /\ UNCHANGED <<rowVars, objects, up, lockVars, callVars, referenced>>

\* Contents of rows that are not deleted: a pending one pins its own.
RowContents ==
    {ContentOf[f] : f \in {g \in File : fileStatus[g] \in {"pending", "ready"}}}

\* then the database is asked for references,
ReadReferences(t) ==
    /\ purge[t] = "cleared"
    /\ referenced' = RowContents \cup ({reference[r] : r \in Reference} \ {None})
    /\ purge' = [purge EXCEPT ![t] = "scanning"]
    /\ UNCHANGED <<rowVars, diskVars, up, lockVars, callVars>>

MetadataContents == {ContentOf[f] : f \in metadata}

\* then the metadata files are,
ScanMetadata(t) ==
    /\ purge[t] = "scanning"
    /\ referenced' = referenced \cup MetadataContents
    /\ purge' = [purge EXCEPT ![t] = "sweeping"]
    /\ UNCHANGED <<rowVars, diskVars, up, lockVars, callVars>>

\* and objects nobody named are removed one by one.
Sweep(t) ==
    /\ purge[t] = "sweeping"
    /\ \E o \in objects \ referenced : objects' = objects \ {o}
    /\ UNCHANGED <<rowVars, directories, metadata, up, lockVars, callVars, purgeVars>>

\* The collection ends when nothing is left to remove, or anything in it throws:
\* nothing repeats it.
EndCollection(t) ==
    /\ purge[t] \in Collecting
    /\ purge' = [purge EXCEPT ![t] = "leaving"]
    /\ referenced' = {}
    /\ UNCHANGED <<rowVars, diskVars, up, lockVars, callVars>>

LeaveCollection(t) ==
    /\ purge[t] = "leaving"
    /\ ReleaseCollector(t)
    /\ UNCHANGED <<rowVars, diskVars, up, subject, content, retired, referenced>>

--------------------------------------------------------------------------------
(* Restart. The server starts only when RuntimeIntegrityChecker.verify passes. *)

Crash ==
    /\ up
    /\ up' = FALSE
    /\ activePublishers' = 0 /\ collecting' = FALSE
    /\ waitingPublishers' = <<>> /\ waitingCollectors' = <<>>
    /\ place' = [w \in Worker |-> "idle"]
    /\ subject' = [w \in Worker |-> None]
    /\ content' = [w \in Worker |-> None]
    /\ retired' = [w \in Worker |-> {}]
    /\ purge' = [t \in Thread |-> "none"]
    /\ referenced' = {}
    /\ UNCHANGED <<rowVars, diskVars>>

\* Every directory is taken for a file's, and one without metadata.json makes it throw.
RuntimeIntegrity ==
    /\ directories \subseteq metadata
    /\ \A r \in Reference : reference[r] # None => reference[r] \in objects
    /\ \A f \in File : fileStatus[f] = "ready" => ContentOf[f] \in objects /\ f \in metadata
    /\ \A f \in metadata :
           /\ ContentOf[f] \in objects
           /\ fileStatus[f] \in {"pending", "ready", "deleted"}

Restart ==
    /\ ~up
    /\ RuntimeIntegrity
    /\ up' = TRUE
    /\ UNCHANGED <<rowVars, diskVars, lockVars, callVars, purgeVars>>

--------------------------------------------------------------------------------

FileNext ==
    \/ up /\ \E w \in Worker :
          \/ \E f \in File :
                \/ Reserve(w, f) \/ Replay(w, f) \/ Delete(w, f) \/ RemoveMetadata(w, f)
          \/ \E r \in Reference, o \in Object : PublishReference(w, r, o)
          \/ PublishFile(w) \/ StoreObject(w) \/ MakeDirectory(w) \/ WriteMetadata(w)
          \/ Commit(w) \/ PublicationFails(w) \/ LeavePublication(w)
          \/ RemoveDirectory(w) \/ RemovalFails(w)
    \/ up /\ \E t \in Thread :
          \/ Trash(t) \/ Restore(t) \/ PurgeRows(t) \/ Collect(t) \/ ClearThread(t)
          \/ ReadReferences(t) \/ ScanMetadata(t) \/ Sweep(t) \/ EndCollection(t)
          \/ LeaveCollection(t)
    \/ Crash \/ Restart

FileSpec == FileInit /\ [][FileNext]_fileVars

--------------------------------------------------------------------------------
(* Properties.                                                                 *)

\* Nothing that is referred to is collected: whatever a committed row, reference or
\* metadata file names is on disk, at every moment and so after every crash.
ReferencedObjectsExist ==
    /\ FileTypeOK
    /\ \A r \in Reference : reference[r] # None => reference[r] \in objects
    /\ \A f \in File : fileStatus[f] = "ready" \/ f \in metadata => ContentOf[f] \in objects

\* Rows and files agree through concurrent uploads of one source, repeated requests,
\* deletions, collections and crashes at any point of them: what is ready has its
\* metadata, and the check of the next start can only meet leftovers. These are the
\* directory of a write or a removal that was cut short, and files of a purged thread.
OnlyLeftoversBreakIntegrity ==
    /\ \A f \in File : fileStatus[f] = "ready" => f \in metadata
    /\ (\A f \in directories : f \in metadata /\ threadStatus[ThreadOf[f]] # "purged") =>
           RuntimeIntegrity

\* The coordinator keeps the two sides apart and loses no wake-up: its counter says
\* who is inside, whoever waits is in a queue, and nobody waits for nothing.
CoordinatorNeverStalls ==
    LET inside == {w \in Worker : place[w] \in Publishing \cup {"leaving"}}
        collectors == {t \in Thread : purge[t] \in Collecting \cup {"leaving"}}
    IN  /\ activePublishers = Cardinality(inside)
        /\ collecting <=> collectors # {}
        /\ \A t, u \in collectors : t = u
        /\ inside = {} \/ collectors = {}
        /\ Queued(waitingPublishers) = {w \in Worker : place[w] = "waiting"}
        /\ Queued(waitingCollectors) = {t \in Thread : purge[t] = "waiting"}
        /\ waitingCollectors # <<>> => inside # {} \/ collectors # {}
        /\ waitingPublishers # <<>> => collectors # {} \/ waitingCollectors # <<>>

--------------------------------------------------------------------------------
(* What comments say.                                                          *)

\* fileLifecycleService.ts says that whichever stage of a publication fails, its pending
\* row can be tried again: the server that would do so starts.
PendingFilesCanBeRetried ==
    ~up /\ (\E f \in File : fileStatus[f] = "pending") => RuntimeIntegrity

\* What threadStore.ts says the exclusive section of a purge is for: once a purge is
\* through with it, no metadata of the thread is written back.
NothingIsWrittenBack ==
    [][\A t \in Thread : purge[t] = "done" =>
          ~ \E f \in metadata' \ metadata : ThreadOf[f] = t]_fileVars
================================================================================
