------------------------------- MODULE Database -------------------------------
(***************************************************************************)
(* The file database of crates/database and its change log.  A file is an  *)
(* Arc<File>: the database and the snapshots taken of it share one object  *)
(* per file, and an update happens in place when nobody else holds the     *)
(* object.  Threads record changes in a shared log, commit applies them in *)
(* order, and the file operations that go with them run in parallel        *)
(* afterwards, any of which may fail.                                      *)
(***************************************************************************)
EXTENDS Naturals, Sequences

CONSTANTS
    Names, Contents, Missing, Readers,  \* as in FileStore
    Ids,            \* file ids
    FileId,         \* Names -> Ids: FileId::new
    OnDisk,         \* the names whose files have a path
    Cells,          \* file objects (the heap)
    NoCell,         \* no file object
    NoName,         \* no name is recorded for an id
    Torn,           \* what a failed write leaves behind
    Recorders,      \* the threads that record changes
    MaxChanges      \* bound: the changes in one log

\* Ids are hashes of the logical name; collisions are left out.
ASSUME FileIdAssumption ==
    /\ FileId \in [Names -> Ids]
    /\ \A m, n \in Names : FileId[m] = FileId[n] => m = n

ASSUME NullAssumption ==
    /\ NoCell \notin Cells
    /\ NoName \notin Names
    /\ Missing \notin Contents

VARIABLES
    files,      \* Database.files: Names -> Cells \cup {NoCell}
    idToName,   \* Database.id_to_name: Ids -> Names \cup {NoName}
    snapshots,  \* the files of each reader's ReadDatabase
    heap,       \* Cells -> what the file object contains
    disk,       \* what the file at the path of a name contains
    log,        \* ChangeLog.changes
    owned,      \* whether the database's user still has its own handle of the log
    clones,     \* the threads that have a clone of it
    step,       \* where commit is: "Idle", "Applying", "Writing"
    batch,      \* the changes of the log that is committed
    todo,       \* how many of them have not been applied
    save,       \* write_to_disk
    ops,        \* fs_operations
    pending,    \* those that have not been executed
    failed      \* whether one of them has failed

memory == <<files, idToName, snapshots, heap>>
logs   == <<log, owned, clones>>
commit == <<step, batch, todo, save, ops, pending, failed>>
vars   == <<memory, disk, logs, commit>>

Changes ==
    [op : {"Add"}, name : Names, content : Contents]
      \cup [op : {"Update"}, id : Ids, content : Contents]
      \cup [op : {"Delete"}, id : Ids]

Operations ==
    [nth : Nat, name : OnDisk, content : Contents \cup {Missing}]

-----------------------------------------------------------------------------
(* The database in memory *)

NoFiles == [n \in Names |-> NoCell]

\* The file objects somebody holds a reference to.
Held(fs, views) ==
    {c \in Cells : \E n \in Names : fs[n] = c \/ \E r \in Readers : views[r][n] = c}

Free == Cells \ Held(files, snapshots)

\* The files, the snapshots and the contents of the objects change; an object
\* nobody refers to any longer is dropped.
Remember(fs, views, h) ==
    /\ files' = fs
    /\ snapshots' = views
    /\ heap' = [c \in Cells |-> IF c \in Held(fs, views) THEN h[c] ELSE Missing]

\* The file `n' gets a new object.
PutFile(n, content) ==
    \E c \in Free : Remember([files EXCEPT ![n] = c], snapshots,
                             [heap EXCEPT ![c] = content])

\* add: a file of that name is replaced.
AddFile(n, content) ==
    /\ PutFile(n, content)
    /\ idToName' = [idToName EXCEPT ![FileId[n]] = n]

\* Arc::get_mut succeeds: only the database refers to the object of `n'.
Sole(n) ==
    /\ \A m \in Names \ {n} : files[m] # files[n]
    /\ \A r \in Readers, m \in Names : snapshots[r][m] # files[n]

\* Mutant: the object is changed in place although a snapshot shows it.
UpdateInPlace(id, content) ==
    LET n == idToName[id]
    IN  IF n = NoName
        THEN UNCHANGED memory
        ELSE /\ files[n] # NoCell
             /\ Remember(files, snapshots, [heap EXCEPT ![files[n]] = content])
             /\ UNCHANGED idToName

Known(id) == idToName[id] # NoName /\ files[idToName[id]] # NoCell

\* update: in place if nobody else holds the file, else by a new object.
UpdateFile(id, content) ==
    LET n == idToName[id]
    IN  \/ /\ ~ Known(id)
           /\ UNCHANGED memory
        \/ /\ Known(id)
           /\ \/ /\ Sole(n)
                 /\ Remember(files, snapshots, [heap EXCEPT ![files[n]] = content])
              \/ /\ ~ Sole(n)
                 /\ PutFile(n, content)
           /\ UNCHANGED idToName

\* Mutant: the id keeps its name when the file goes.
DeleteKeepsId(id) ==
    /\ idToName[id] # NoName
    /\ Remember([files EXCEPT ![idToName[id]] = NoCell], snapshots, heap)
    /\ UNCHANGED idToName

\* delete
DeleteFile(id) ==
    \/ /\ idToName[id] = NoName
       /\ UNCHANGED memory
    \/ /\ idToName[id] # NoName
       /\ Remember([files EXCEPT ![idToName[id]] = NoCell], snapshots, heap)
       /\ idToName' = [idToName EXCEPT ![id] = NoName]

-----------------------------------------------------------------------------
Init ==
    /\ files = NoFiles
    /\ idToName = [i \in Ids |-> NoName]
    /\ snapshots = [r \in Readers |-> NoFiles]
    /\ heap = [c \in Cells |-> Missing]
    /\ disk \in [OnDisk -> Contents \cup {Missing}]
    /\ log = <<>> /\ owned = FALSE /\ clones = {}
    /\ step = "Idle" /\ batch = <<>> /\ todo = 0 /\ save = FALSE
    /\ ops = {} /\ pending = {} /\ failed = FALSE

\* The operations take the database exclusively: none of them runs in a commit.
Add(n, content) ==
    /\ step = "Idle"
    /\ AddFile(n, content)
    /\ UNCHANGED <<disk, logs, commit>>

Update(id, content) ==
    /\ step = "Idle"
    /\ UpdateFile(id, content)
    /\ UNCHANGED <<disk, logs, commit>>

Delete(id) ==
    /\ step = "Idle"
    /\ DeleteFile(id)
    /\ UNCHANGED <<disk, logs, commit>>

\* merge_base, for one file of the base: it is taken if there is none of that name.
MergeBase(n, content) ==
    /\ step = "Idle"
    /\ files[n] = NoCell
    /\ AddFile(n, content)
    /\ UNCHANGED <<disk, logs, commit>>

\* read_only
TakeSnapshot(r) ==
    /\ step = "Idle"
    /\ snapshots[r] = NoFiles
    /\ Remember(files, [snapshots EXCEPT ![r] = files], heap)
    /\ UNCHANGED <<idToName, disk, logs, commit>>

\* A snapshot may be dropped at any time, on another thread.
DropSnapshot(r) ==
    /\ snapshots[r] # NoFiles
    /\ Remember(files, [snapshots EXCEPT ![r] = NoFiles], heap)
    /\ UNCHANGED <<idToName, disk, logs, commit>>

-----------------------------------------------------------------------------
(* The change log *)

NewLog ==
    /\ step = "Idle" /\ ~ owned /\ clones = {}
    /\ log' = <<>> /\ owned' = TRUE
    /\ UNCHANGED <<memory, disk, clones, commit>>

CloneLog(t) ==
    /\ owned /\ t \notin clones
    /\ clones' = clones \cup {t}
    /\ UNCHANGED <<memory, disk, log, owned, commit>>

\* add, update and delete of ChangeLog, by the owner or by a thread with a clone
Record(change) ==
    /\ owned \/ clones # {}
    /\ Len(log) < MaxChanges
    /\ log' = Append(log, change)
    /\ UNCHANGED <<memory, disk, owned, clones, commit>>

\* The last handle takes the log with it.
DropClone(t) ==
    /\ t \in clones
    /\ clones' = clones \ {t}
    /\ log' = IF owned \/ clones' # {} THEN log ELSE <<>>
    /\ UNCHANGED <<memory, disk, owned, commit>>

\* into_inner fails with ChangeLogInUse, and the owner has given its handle away.
CommitRefused ==
    /\ step = "Idle" /\ owned /\ clones # {}
    /\ owned' = FALSE
    /\ UNCHANGED <<memory, disk, log, clones, commit>>

\* commit, once into_inner has handed out the changes
CommitBegin(writeToDisk) ==
    /\ step = "Idle" /\ owned /\ clones = {}
    /\ owned' = FALSE /\ log' = <<>>
    /\ step' = "Applying" /\ batch' = log /\ todo' = Len(log)
    /\ save' = writeToDisk /\ ops' = {} /\ pending' = {}
    /\ UNCHANGED <<memory, disk, clones, failed>>

\* Mutant: the changes are applied from the last to the first.
CurrentFromTheEnd == batch[todo]

Current == batch[Len(batch) + 1 - todo]

\* The operation on disk that goes with a change: if the file has a path, and for
\* an update or a deletion if the database knows the file.
Operation(change) ==
    LET n       == IF change.op = "Add" THEN change.name ELSE idToName[change.id]
        content == IF change.op = "Delete" THEN Missing ELSE change.content
    IN  IF save /\ n \in OnDisk /\ (change.op = "Add" \/ Known(change.id))
        THEN {[nth |-> todo, name |-> n, content |-> content]}
        ELSE {}

\* The loop of commit, for one change.
Apply ==
    /\ step = "Applying" /\ todo > 0
    /\ \/ /\ Current.op = "Add"
          /\ AddFile(Current.name, Current.content)
       \/ /\ Current.op = "Update"
          /\ UpdateFile(Current.id, Current.content)
       \/ /\ Current.op = "Delete"
          /\ DeleteFile(Current.id)
    /\ ops' = ops \cup Operation(Current)
    /\ todo' = todo - 1
    /\ UNCHANGED <<disk, logs, step, batch, save, pending, failed>>

\* into_par_iter
StartWriting ==
    /\ step = "Applying" /\ todo = 0
    /\ step' = "Writing" /\ pending' = ops
    /\ UNCHANGED <<memory, disk, logs, batch, todo, save, ops, failed>>

\* Mutant: remove_file is not called.
ExecuteWrites(op) ==
    /\ step = "Writing" /\ op \in pending
    /\ op.content = Missing => disk[op.name] # Missing
    /\ disk' = IF op.content = Missing THEN disk
               ELSE [disk EXCEPT ![op.name] = op.content]
    /\ pending' = pending \ {op}
    /\ UNCHANGED <<memory, logs, step, batch, todo, save, ops, failed>>

\* FilesystemOperation::execute, on any thread and in any order.  remove_file of a
\* file that is not there is an error.
Execute(op) ==
    /\ step = "Writing" /\ op \in pending
    /\ op.content = Missing => disk[op.name] # Missing
    /\ disk' = [disk EXCEPT ![op.name] = op.content]
    /\ pending' = pending \ {op}
    /\ UNCHANGED <<memory, logs, step, batch, todo, save, ops, failed>>

\* An operation fails; a write may leave the file truncated.
ExecuteFails(op) ==
    /\ step = "Writing" /\ op \in pending
    /\ disk' \in {disk} \cup (IF op.content = Missing THEN {}
                              ELSE {[disk EXCEPT ![op.name] = Torn]})
    /\ pending' = pending \ {op} /\ failed' = TRUE
    /\ UNCHANGED <<memory, logs, step, batch, todo, save, ops>>

\* Mutant: what was left to write stays behind.
CommitKeepsPending ==
    /\ step = "Writing"
    /\ pending = {} \/ failed
    /\ step' = "Idle" /\ batch' = <<>> /\ todo' = 0 /\ save' = FALSE
    /\ ops' = {} /\ failed' = FALSE
    /\ UNCHANGED <<memory, disk, logs, pending>>

\* commit returns when every operation has been executed, or with the error of one
\* that failed: then those that have not started are not executed any more.
CommitDone ==
    /\ step = "Writing"
    /\ pending = {} \/ failed
    /\ step' = "Idle" /\ batch' = <<>> /\ todo' = 0 /\ save' = FALSE
    /\ ops' = {} /\ pending' = {} /\ failed' = FALSE
    /\ UNCHANGED <<memory, disk, logs>>

Next ==
    \/ \E n \in Names, c \in Contents : Add(n, c) \/ MergeBase(n, c)
    \/ \E i \in Ids, c \in Contents : Update(i, c)
    \/ \E i \in Ids : Delete(i)
    \/ \E r \in Readers : TakeSnapshot(r) \/ DropSnapshot(r)
    \/ NewLog
    \/ \E t \in Recorders : CloneLog(t) \/ DropClone(t)
    \/ \E change \in Changes : Record(change)
    \/ CommitRefused
    \/ \E w \in BOOLEAN : CommitBegin(w)
    \/ Apply
    \/ StartWriting
    \/ \E op \in pending : Execute(op) \/ ExecuteFails(op)
    \/ CommitDone

Spec == Init /\ [][Next]_vars

-----------------------------------------------------------------------------
(* The types of the variables of the database, the log and the commit. *)
TypeOK ==
    /\ files \in [Names -> Cells \cup {NoCell}]
    /\ idToName \in [Ids -> Names \cup {NoName}]
    /\ snapshots \in [Readers -> [Names -> Cells \cup {NoCell}]]
    /\ heap \in [Cells -> Contents \cup {Missing}]
    /\ disk \in [OnDisk -> Contents \cup {Missing, Torn}]
    /\ log \in Seq(Changes) /\ owned \in BOOLEAN /\ clones \subseteq Recorders
    /\ step \in {"Idle", "Applying", "Writing"}
    /\ batch \in Seq(Changes) /\ todo \in 0..Len(batch) /\ save \in BOOLEAN
    /\ ops \subseteq Operations /\ pending \subseteq ops /\ failed \in BOOLEAN

\* The two indexes of the database stay each other's inverse through every sequence
\* of add, update, delete, merge_base and commit: an id finds exactly the file that
\* has it, and no file is out of reach of its id (update and delete go by id).
IndexesAgree ==
    /\ \A n \in Names : files[n] # NoCell => idToName[FileId[n]] = n
    /\ \A i \in Ids : idToName[i] # NoName =>
          FileId[idToName[i]] = i /\ files[idToName[i]] # NoCell

\* commit applies the changes in the order they were recorded: when it is through,
\* the file of a change has the state the last change of it asks for (an update of
\* a file that is not there is ignored).
LastChangeWins ==
    step = "Writing" =>
        \A k \in DOMAIN batch :
            LET Id(c) == IF c.op = "Add" THEN FileId[c.name] ELSE c.id
                last  == \A j \in DOMAIN batch : j > k => Id(batch[j]) # Id(batch[k])
                n     == idToName[Id(batch[k])]
            IN  last =>
                CASE batch[k].op = "Add" ->
                        n = batch[k].name /\ heap[files[n]] = batch[k].content
                  [] batch[k].op = "Update" ->
                        n # NoName => heap[files[n]] = batch[k].content
                  [] batch[k].op = "Delete" -> n = NoName

\* When every operation of a commit has been executed, the disk has what the
\* database has, for every path the commit touches once.  (Two changes of one path
\* are written in either order.)
DiskFollowsDatabase ==
    step = "Writing" /\ pending = {} /\ ~ failed =>
        \A op \in ops :
            (\A o \in ops : o.name = op.name => o = op) =>
            disk[op.name] = IF files[op.name] = NoCell THEN Missing
                            ELSE heap[files[op.name]]

-----------------------------------------------------------------------------
\* What a view of the files (the database's own or a snapshot's) shows.
Shown(view) == [n \in Names |-> IF view[n] = NoCell THEN Missing ELSE heap[view[n]]]

Store == INSTANCE FileStore WITH
            contents  <- Shown(files),
            snapshots <- [r \in Readers |-> Shown(snapshots[r])]

\* The database is a map with snapshots that never change, although it shares the
\* file objects with them and updates some in place.
IsFileStore == Store!Spec
===============================================================================
