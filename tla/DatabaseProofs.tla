---------------------------- MODULE DatabaseProofs ----------------------------
(***************************************************************************)
(* Proofs about the file database, for any sets of files, contents,        *)
(* readers and recording threads and a change log of any length: typing,   *)
(* the refinement of FileStore, and what a commit leaves behind.           *)
(***************************************************************************)
EXTENDS Database, TLAPS

(***************************************************************************)
(* The change a commit applies next is one of the log's.                   *)
(***************************************************************************)
LEMMA CurrentIsChange ==
    ASSUME TypeOK, todo > 0
    PROVE  Current \in Changes
  <1>1. batch \in Seq(Changes) /\ todo \in 0..Len(batch)
    BY DEF TypeOK
  <1>2. Len(batch) + 1 - todo \in 1..Len(batch)
    BY <1>1
  <1> QED  BY <1>1, <1>2 DEF Current

(***************************************************************************)
(* Remember keeps the types of files, snapshots and heap.                  *)
(***************************************************************************)
LEMMA RememberType ==
    ASSUME NEW fs \in [Names -> Cells \cup {NoCell}],
           NEW views \in [Readers -> [Names -> Cells \cup {NoCell}]],
           NEW h \in [Cells -> Contents \cup {Missing}],
           Remember(fs, views, h)
    PROVE  /\ files' \in [Names -> Cells \cup {NoCell}]
           /\ snapshots' \in [Readers -> [Names -> Cells \cup {NoCell}]]
           /\ heap' \in [Cells -> Contents \cup {Missing}]
  BY DEF Remember

MemoryType ==
    /\ files \in [Names -> Cells \cup {NoCell}]
    /\ idToName \in [Ids -> Names \cup {NoName}]
    /\ snapshots \in [Readers -> [Names -> Cells \cup {NoCell}]]
    /\ heap \in [Cells -> Contents \cup {Missing}]

(***************************************************************************)
(* A file object that is put under a name keeps the types of the memory.   *)
(***************************************************************************)
LEMMA PutFileType ==
    ASSUME MemoryType, NEW n \in Names, NEW c \in Contents, PutFile(n, c)
    PROVE  /\ files' \in [Names -> Cells \cup {NoCell}]
           /\ snapshots' \in [Readers -> [Names -> Cells \cup {NoCell}]]
           /\ heap' \in [Cells -> Contents \cup {Missing}]
  <1>1. PICK cell \in Free : Remember([files EXCEPT ![n] = cell], snapshots,
                                      [heap EXCEPT ![cell] = c])
    BY DEF PutFile
  <1>2. cell \in Cells
    BY DEF Free
  <1> QED  BY <1>1, <1>2, RememberType DEF MemoryType

(***************************************************************************)
(* Adding a file keeps the types of the memory.                            *)
(***************************************************************************)
LEMMA AddFileType ==
    ASSUME MemoryType, NEW n \in Names, NEW c \in Contents, AddFile(n, c)
    PROVE  MemoryType'
  BY PutFileType, FileIdAssumption DEF AddFile, MemoryType

(***************************************************************************)
(* Updating a file, in place or in a copy, keeps the types of the memory.  *)
(***************************************************************************)
LEMMA UpdateFileType ==
    ASSUME MemoryType, NEW i \in Ids, NEW c \in Contents, UpdateFile(i, c)
    PROVE  MemoryType'
  <1>1. CASE ~ Known(i) /\ UNCHANGED memory
    BY <1>1 DEF MemoryType, memory
  <1>2. CASE Known(i) /\ ~ (UNCHANGED memory)
    <2>1. idToName[i] \in Names
      BY <1>2 DEF Known, MemoryType
    <2>2. idToName' = idToName
      BY <1>2 DEF UpdateFile
    <2>3. CASE Remember(files, snapshots, [heap EXCEPT ![files[idToName[i]]] = c])
      BY <2>3, <2>2, RememberType DEF MemoryType
    <2>4. CASE PutFile(idToName[i], c)
      BY <2>4, <2>1, <2>2, PutFileType DEF MemoryType
    <2> QED  BY <1>2, <2>3, <2>4 DEF UpdateFile
  <1>3. CASE UNCHANGED memory
    BY <1>3 DEF MemoryType, memory
  <1> QED  BY <1>1, <1>2, <1>3 DEF UpdateFile

(***************************************************************************)
(* Deleting a file keeps the types of the memory.                          *)
(***************************************************************************)
LEMMA DeleteFileType ==
    ASSUME MemoryType, NEW i \in Ids, DeleteFile(i)
    PROVE  MemoryType'
  <1>1. CASE UNCHANGED memory
    BY <1>1 DEF MemoryType, memory
  <1>2. CASE /\ idToName[i] # NoName
             /\ Remember([files EXCEPT ![idToName[i]] = NoCell], snapshots, heap)
             /\ idToName' = [idToName EXCEPT ![i] = NoName]
    <2>1. [files EXCEPT ![idToName[i]] = NoCell] \in [Names -> Cells \cup {NoCell}]
      BY DEF MemoryType
    <2> QED  BY <1>2, <2>1, RememberType DEF MemoryType
  <1> QED  BY <1>1, <1>2 DEF DeleteFile

(***************************************************************************)
(* The operations that a change asks for are well-formed.                  *)
(***************************************************************************)
LEMMA OperationType ==
    ASSUME TypeOK, NEW change \in Changes
    PROVE  Operation(change) \subseteq Operations
  <1>1. todo \in Nat
    BY DEF TypeOK
  <1>2. \/ change.op = "Add" /\ change.name \in Names /\ change.content \in Contents
        \/ change.op = "Update" /\ change.id \in Ids /\ change.content \in Contents
        \/ change.op = "Delete" /\ change.id \in Ids
    BY DEF Changes
  <1>3. CASE change.op = "Add"
    BY <1>1, <1>2, <1>3 DEF Operation, Operations
  <1>4. CASE change.op = "Update"
    BY <1>1, <1>2, <1>4 DEF Operation, Operations
  <1>5. CASE change.op = "Delete"
    BY <1>1, <1>2, <1>5 DEF Operation, Operations
  <1> QED  BY <1>2, <1>3, <1>4, <1>5

(***************************************************************************)
(* A step of the loop of commit changes the memory as the add, the update  *)
(* or the deletion it applies.                                             *)
(***************************************************************************)
LEMMA ApplyCases ==
    ASSUME TypeOK, Apply
    PROVE  \/ \E n \in Names, c \in Contents : AddFile(n, c)
           \/ \E i \in Ids, c \in Contents : UpdateFile(i, c)
           \/ \E i \in Ids : DeleteFile(i)
  <1>1. Current \in Changes
    BY CurrentIsChange DEF Apply
  <1>2. \/ Current.op = "Add" /\ Current.name \in Names /\ Current.content \in Contents
        \/ Current.op = "Update" /\ Current.id \in Ids /\ Current.content \in Contents
        \/ Current.op = "Delete" /\ Current.id \in Ids
    BY <1>1 DEF Changes
  <1> QED  BY <1>2 DEF Apply

(***************************************************************************)
(* Taking and dropping a snapshot keep the types of the memory.            *)
(***************************************************************************)
LEMMA SnapshotType ==
    ASSUME MemoryType, NEW r \in Readers, TakeSnapshot(r) \/ DropSnapshot(r)
    PROVE  MemoryType'
  <1>1. NoFiles \in [Names -> Cells \cup {NoCell}]
    BY DEF NoFiles
  <1>2. idToName' = idToName
    BY DEF TakeSnapshot, DropSnapshot
  <1>3. PICK view \in {files, NoFiles} :
            Remember(files, [snapshots EXCEPT ![r] = view], heap)
    BY DEF TakeSnapshot, DropSnapshot
  <1>4. [snapshots EXCEPT ![r] = view] \in [Readers -> [Names -> Cells \cup {NoCell}]]
    BY <1>1 DEF MemoryType
  <1> QED  BY <1>2, <1>3, <1>4, RememberType DEF MemoryType

(***************************************************************************)
(* The empty change log is a change log.                                   *)
(***************************************************************************)
LEMMA EmptyLog == <<>> \in Seq(Changes) /\ Len(<<>>) = 0 /\ 0 \in 0..Len(<<>>)
  OBVIOUS

(***************************************************************************)
(* Every step keeps the types.                                             *)
(***************************************************************************)
LEMMA TypeStep ==
    ASSUME TypeOK, [Next]_vars
    PROVE  TypeOK'
  <1>m. MemoryType
    BY DEF TypeOK, MemoryType
  <1> DEFINE RestType ==
        /\ disk \in [OnDisk -> Contents \cup {Missing, Torn}]
        /\ log \in Seq(Changes) /\ owned \in BOOLEAN /\ clones \subseteq Recorders
        /\ step \in {"Idle", "Applying", "Writing"}
        /\ batch \in Seq(Changes) /\ todo \in 0..Len(batch) /\ save \in BOOLEAN
        /\ ops \subseteq Operations /\ pending \subseteq ops /\ failed \in BOOLEAN
  <1>r. RestType
    BY DEF TypeOK
  <1>g. ASSUME MemoryType', RestType'  PROVE TypeOK'
    BY <1>g DEF TypeOK, MemoryType
  <1>u. ASSUME UNCHANGED memory  PROVE MemoryType'
    BY <1>m, <1>u DEF memory, MemoryType
  <1>v. ASSUME UNCHANGED <<disk, logs, commit>>  PROVE RestType'
    BY <1>r, <1>v DEF logs, commit
  <1> HIDE DEF RestType
  <1>1. ASSUME NEW n \in Names, NEW c \in Contents, Add(n, c) \/ MergeBase(n, c)
        PROVE  TypeOK'
    BY <1>1, <1>m, <1>v, <1>g, AddFileType DEF Add, MergeBase
  <1>2. ASSUME NEW i \in Ids, NEW c \in Contents, Update(i, c)  PROVE TypeOK'
    BY <1>2, <1>m, <1>v, <1>g, UpdateFileType DEF Update
  <1>3. ASSUME NEW i \in Ids, Delete(i)  PROVE TypeOK'
    BY <1>3, <1>m, <1>v, <1>g, DeleteFileType DEF Delete
  <1>4. ASSUME NEW r \in Readers, TakeSnapshot(r) \/ DropSnapshot(r)  PROVE TypeOK'
    BY <1>4, <1>m, <1>v, <1>g, SnapshotType DEF TakeSnapshot, DropSnapshot
  <1>5. ASSUME NewLog  PROVE TypeOK'
    BY <1>5, <1>u, <1>g, <1>r DEF NewLog, RestType, commit
  <1>6. ASSUME NEW t \in Recorders, CloneLog(t) \/ DropClone(t)  PROVE TypeOK'
    <2>1. log' \in Seq(Changes) /\ clones' \subseteq Recorders
      BY <1>6, <1>r, EmptyLog DEF CloneLog, DropClone, RestType
    <2>2. UNCHANGED <<memory, disk, owned, commit>>
      BY <1>6 DEF CloneLog, DropClone
    <2>3. RestType'
      BY <2>1, <2>2, <1>r DEF RestType, commit
    <2> QED  BY <2>2, <2>3, <1>u, <1>g
  <1>7. ASSUME NEW change \in Changes, Record(change)  PROVE TypeOK'
    BY <1>7, <1>u, <1>g, <1>r DEF Record, RestType, commit
  <1>8. ASSUME CommitRefused  PROVE TypeOK'
    BY <1>8, <1>u, <1>g, <1>r DEF CommitRefused, RestType, commit
  <1>9. ASSUME NEW w \in BOOLEAN, CommitBegin(w)  PROVE TypeOK'
    <2>1. /\ batch' \in Seq(Changes) /\ todo' \in 0..Len(batch') /\ log' \in Seq(Changes)
          /\ owned' \in BOOLEAN /\ save' \in BOOLEAN /\ ops' = {} /\ pending' = {}
          /\ step' = "Applying" /\ disk' = disk /\ clones' = clones /\ failed' = failed
      <3>1. log \in Seq(Changes)
        BY <1>r DEF RestType
      <3>2. Len(log) \in 0..Len(log)
        BY <3>1
      <3>3. /\ owned' = FALSE /\ log' = <<>> /\ step' = "Applying" /\ batch' = log
            /\ todo' = Len(log) /\ save' = w /\ ops' = {} /\ pending' = {}
            /\ UNCHANGED <<memory, disk, clones, failed>>
        BY <1>9 DEF CommitBegin
      <3> QED  BY <3>1, <3>2, <3>3, EmptyLog
    <2>a. step' \in {"Idle", "Applying", "Writing"}
      BY <2>1
    <2>b. ops' \subseteq Operations /\ pending' \subseteq ops'
      BY <2>1
    <2>2. RestType'
      BY <2>1, <2>a, <2>b, <1>r DEF RestType
    <2>3. UNCHANGED memory
      BY <1>9 DEF CommitBegin
    <2> QED  BY <2>2, <2>3, <1>u, <1>g
  <1>10. ASSUME Apply  PROVE TypeOK'
    <2>1. MemoryType'
      BY <1>10, <1>m, ApplyCases, AddFileType, UpdateFileType, DeleteFileType
    <2>2. Operation(Current) \subseteq Operations
      BY <1>10, CurrentIsChange, OperationType DEF Apply
    <2>3. /\ ops' = ops \cup Operation(Current) /\ todo' = todo - 1 /\ todo > 0
          /\ UNCHANGED <<disk, logs, step, batch, save, pending, failed>>
      BY <1>10 DEF Apply
    <2>4. todo' \in 0..Len(batch')
      BY <2>3, <1>r DEF RestType
    <2>5. RestType'
      BY <2>2, <2>3, <2>4, <1>r DEF RestType, logs
    <2> QED  BY <2>1, <2>5, <1>g
  <1>11. ASSUME StartWriting  PROVE TypeOK'
    BY <1>11, <1>u, <1>g, <1>r DEF StartWriting, RestType, logs
  <1>12. ASSUME NEW op \in pending, Execute(op)  PROVE TypeOK'
    <2>1. op.content \in Contents \cup {Missing}
      BY <1>r DEF RestType, Operations
    <2>2. disk' \in [OnDisk -> Contents \cup {Missing, Torn}]
      BY <2>1, <1>12, <1>r DEF Execute, RestType
    <2>3. RestType'
      BY <2>2, <1>12, <1>r DEF Execute, RestType, logs
    <2>4. UNCHANGED memory
      BY <1>12 DEF Execute
    <2> QED  BY <2>3, <2>4, <1>u, <1>g
  <1>13. ASSUME NEW op \in pending, ExecuteFails(op)  PROVE TypeOK'
    <2>1. disk' = disk \/ disk' = [disk EXCEPT ![op.name] = Torn]
      BY <1>13 DEF ExecuteFails
    <2>2. disk' \in [OnDisk -> Contents \cup {Missing, Torn}]
      BY <2>1, <1>r DEF RestType
    <2>3. RestType'
      BY <2>2, <1>13, <1>r DEF ExecuteFails, RestType, logs
    <2>4. UNCHANGED memory
      BY <1>13 DEF ExecuteFails
    <2> QED  BY <2>3, <2>4, <1>u, <1>g
  <1>14. ASSUME CommitDone  PROVE TypeOK'
    <2>1. /\ batch' = <<>> /\ todo' = 0 /\ save' = FALSE /\ ops' = {} /\ pending' = {}
          /\ step' = "Idle" /\ failed' = FALSE /\ UNCHANGED <<disk, logs>>
      BY <1>14 DEF CommitDone
    <2>2. RestType'
      BY <2>1, <1>r, EmptyLog DEF RestType, logs
    <2>3. UNCHANGED memory
      BY <1>14 DEF CommitDone
    <2> QED  BY <2>2, <2>3, <1>u, <1>g
  <1>15. ASSUME UNCHANGED vars  PROVE TypeOK'
    BY <1>15, <1>u, <1>v, <1>g DEF vars
  <1> QED
    BY <1>1, <1>2, <1>3, <1>4, <1>5, <1>6, <1>7, <1>8, <1>9, <1>10, <1>11, <1>12,
       <1>13, <1>14, <1>15 DEF Next

(***************************************************************************)
(* Type correctness of the database, the change log and the commit.        *)
(***************************************************************************)
THEOREM Typing == Spec => []TypeOK
  <1>1. Init => TypeOK
    BY EmptyLog DEF Init, TypeOK, NoFiles
  <1>2. TypeOK /\ [Next]_vars => TypeOK'
    BY TypeStep
  <1> QED  BY <1>1, <1>2, PTL DEF Spec

-----------------------------------------------------------------------------
(***************************************************************************)
(* The three changes of a file keep the indexes in agreement; for a        *)
(* deletion this needs that no two names have the same id.                 *)
(***************************************************************************)
LEMMA AddFileIndexes ==
    ASSUME MemoryType, IndexesAgree, NEW n \in Names, NEW c \in Contents, AddFile(n, c)
    PROVE  IndexesAgree'
  <1>1. PICK cell \in Free : files' = [files EXCEPT ![n] = cell]
    BY DEF AddFile, PutFile, Remember
  <1>2. cell \in Cells /\ cell # NoCell
    BY NullAssumption DEF Free
  <1>3. idToName' = [idToName EXCEPT ![FileId[n]] = n]
    BY DEF AddFile
  <1>4. FileId[n] \in Ids /\ n # NoName
    BY FileIdAssumption, NullAssumption
  <1>5. ASSUME NEW m \in Names, files'[m] # NoCell  PROVE idToName'[FileId[m]] = m
    BY <1>1, <1>2, <1>3, <1>4, <1>5, FileIdAssumption DEF MemoryType, IndexesAgree
  <1>6. ASSUME NEW i \in Ids, idToName'[i] # NoName
        PROVE  FileId[idToName'[i]] = i /\ files'[idToName'[i]] # NoCell
    <2>1. CASE i = FileId[n]
      BY <2>1, <1>1, <1>2, <1>3, <1>4 DEF MemoryType
    <2>2. CASE i # FileId[n]
      <3>1. idToName'[i] = idToName[i] /\ idToName[i] \in Names
        BY <2>2, <1>3, <1>6 DEF MemoryType
      <3> QED  BY <3>1, <1>1, <1>2, <1>6 DEF MemoryType, IndexesAgree
    <2> QED  BY <2>1, <2>2
  <1> QED  BY <1>5, <1>6 DEF IndexesAgree

(***************************************************************************)
(* Updating a file changes no index.                                       *)
(***************************************************************************)
LEMMA UpdateFileIndexes ==
    ASSUME MemoryType, IndexesAgree, NEW i \in Ids, NEW c \in Contents, UpdateFile(i, c)
    PROVE  IndexesAgree'
  <1>1. CASE UNCHANGED memory
    BY <1>1 DEF memory, IndexesAgree
  <1>2. CASE ~ UNCHANGED memory
    <2>1. Known(i) /\ idToName' = idToName
      BY <1>2 DEF UpdateFile
    <2>2. idToName[i] \in Names /\ files[idToName[i]] # NoCell
      BY <2>1 DEF Known, MemoryType
    <2>3. files' = files \/ \E cell \in Free : files' = [files EXCEPT ![idToName[i]] = cell]
      BY <1>2 DEF UpdateFile, PutFile, Remember
    <2>4. \A m \in Names : files'[m] # NoCell <=> files[m] # NoCell
      BY <2>2, <2>3, NullAssumption DEF MemoryType, Free
    <2>5. \A j \in Ids : idToName[j] # NoName => idToName[j] \in Names
      BY DEF MemoryType
    <2> QED  BY <2>1, <2>4, <2>5 DEF IndexesAgree
  <1> QED  BY <1>1, <1>2

(***************************************************************************)
(* Deleting a file takes it out of both indexes.                           *)
(***************************************************************************)
LEMMA DeleteFileIndexes ==
    ASSUME MemoryType, IndexesAgree, NEW i \in Ids, DeleteFile(i)
    PROVE  IndexesAgree'
  <1>1. CASE UNCHANGED memory
    BY <1>1 DEF memory, IndexesAgree
  <1>2. CASE ~ UNCHANGED memory
    <2> DEFINE n == idToName[i]
    <2>1. /\ n # NoName
          /\ files' = [files EXCEPT ![n] = NoCell]
          /\ idToName' = [idToName EXCEPT ![i] = NoName]
      BY <1>2 DEF DeleteFile, Remember
    <2>2. n \in Names /\ FileId[n] = i
      BY <2>1 DEF MemoryType, IndexesAgree
    <2>3. ASSUME NEW m \in Names, files'[m] # NoCell  PROVE idToName'[FileId[m]] = m
      <3>1. m # n /\ files[m] # NoCell
        BY <2>1, <2>2, <2>3 DEF MemoryType
      <3>2. FileId[m] # i /\ FileId[m] \in Ids
        BY <3>1, <2>2, FileIdAssumption
      <3> QED  BY <2>1, <3>1, <3>2 DEF MemoryType, IndexesAgree
    <2>4. ASSUME NEW j \in Ids, idToName'[j] # NoName
          PROVE  FileId[idToName'[j]] = j /\ files'[idToName'[j]] # NoCell
      <3>1. j # i /\ idToName'[j] = idToName[j] /\ idToName[j] \in Names
        BY <2>1, <2>4 DEF MemoryType
      <3>2. FileId[idToName[j]] = j /\ files[idToName[j]] # NoCell
        BY <2>4, <3>1 DEF IndexesAgree
      <3>3. idToName[j] # n
        BY <3>1, <3>2, <2>2
      <3> QED  BY <2>1, <2>2, <3>1, <3>2, <3>3 DEF MemoryType
    <2> QED  BY <2>3, <2>4 DEF IndexesAgree
  <1> QED  BY <1>1, <1>2

(***************************************************************************)
(* An id finds exactly the file that has it, after any sequence of adds,   *)
(* updates, deletions, merges and commits.                                 *)
(***************************************************************************)
THEOREM Indexes == Spec => []IndexesAgree
  <1>1. Init => IndexesAgree
    BY DEF Init, IndexesAgree, NoFiles
  <1>2. TypeOK /\ IndexesAgree /\ [Next]_vars => IndexesAgree'
    <2> SUFFICES ASSUME TypeOK, IndexesAgree, [Next]_vars  PROVE IndexesAgree'
      OBVIOUS
    <2>m. MemoryType
      BY DEF TypeOK, MemoryType
    <2>u. ASSUME files' = files, idToName' = idToName  PROVE IndexesAgree'
      BY <2>u DEF IndexesAgree
    <2>1. ASSUME NEW n \in Names, NEW c \in Contents, Add(n, c) \/ MergeBase(n, c)
          PROVE  IndexesAgree'
      BY <2>1, <2>m, AddFileIndexes DEF Add, MergeBase
    <2>2. ASSUME NEW i \in Ids, NEW c \in Contents, Update(i, c)  PROVE IndexesAgree'
      BY <2>2, <2>m, UpdateFileIndexes DEF Update
    <2>3. ASSUME NEW i \in Ids, Delete(i)  PROVE IndexesAgree'
      BY <2>3, <2>m, DeleteFileIndexes DEF Delete
    <2>4. ASSUME NEW r \in Readers, TakeSnapshot(r) \/ DropSnapshot(r)
          PROVE  IndexesAgree'
      BY <2>4, <2>u DEF TakeSnapshot, DropSnapshot, Remember
    <2>5. ASSUME Apply  PROVE IndexesAgree'
      BY <2>5, <2>m, ApplyCases, AddFileIndexes, UpdateFileIndexes, DeleteFileIndexes
    <2>6. ASSUME UNCHANGED memory  PROVE IndexesAgree'
      BY <2>6, <2>u DEF memory
    <2> QED
      BY <2>1, <2>2, <2>3, <2>4, <2>5, <2>6
      DEF Next, vars, NewLog, CloneLog, DropClone, Record, CommitRefused, CommitBegin,
          StartWriting, Execute, ExecuteFails, CommitDone
  <1> QED  BY <1>1, <1>2, Typing, PTL DEF Spec

-----------------------------------------------------------------------------
(***************************************************************************)
(* What the database and the snapshots show after a change of the memory.  *)
(***************************************************************************)
LEMMA RememberShows ==
    ASSUME NEW fs \in [Names -> Cells \cup {NoCell}],
           NEW views \in [Readers -> [Names -> Cells \cup {NoCell}]],
           NEW h, Remember(fs, views, h)
    PROVE  /\ Shown(files)' =
                [n \in Names |-> IF fs[n] = NoCell THEN Missing ELSE h[fs[n]]]
           /\ [r \in Readers |-> Shown(snapshots[r])]' =
                [r \in Readers |-> [n \in Names |->
                    IF views[r][n] = NoCell THEN Missing ELSE h[views[r][n]]]]
  <1>1. files' = fs /\ snapshots' = views
    BY DEF Remember
  <1>2. \A n \in Names : fs[n] # NoCell => heap'[fs[n]] = h[fs[n]]
    BY DEF Remember, Held
  <1>3. \A r \in Readers, n \in Names :
            views[r][n] # NoCell => heap'[views[r][n]] = h[views[r][n]]
    BY DEF Remember, Held
  <1> QED  BY <1>1, <1>2, <1>3 DEF Shown

(***************************************************************************)
(* A new object changes what is shown of one file, and no snapshot.        *)
(***************************************************************************)
LEMMA PutFileWrites ==
    ASSUME MemoryType, NEW n \in Names, NEW c \in Contents, PutFile(n, c)
    PROVE  Store!Write(n, c)
  <1>1. PICK cell \in Free : Remember([files EXCEPT ![n] = cell], snapshots,
                                      [heap EXCEPT ![cell] = c])
    BY DEF PutFile
  <1>2. /\ cell \in Cells /\ cell # NoCell
        /\ \A m \in Names : files[m] # cell
        /\ \A r \in Readers, m \in Names : snapshots[r][m] # cell
    BY NullAssumption DEF Free, Held
  <1> DEFINE fs == [files EXCEPT ![n] = cell]
             h  == [heap EXCEPT ![cell] = c]
  <1>3. /\ fs \in [Names -> Cells \cup {NoCell}]
        /\ \A m \in Names : fs[m] = IF m = n THEN cell ELSE files[m]
        /\ h[cell] = c
        /\ \A d \in Cells : d # cell => h[d] = heap[d]
    BY <1>2 DEF MemoryType
  <1>4. snapshots \in [Readers -> [Names -> Cells \cup {NoCell}]]
    BY DEF MemoryType
  <1>5. Remember(fs, snapshots, h)
    BY <1>1
  <1> HIDE DEF fs, h
  <1>6. Shown(files)' = [Shown(files) EXCEPT ![n] = c]
    <2>1. Shown(files)' =
            [m \in Names |-> IF fs[m] = NoCell THEN Missing ELSE h[fs[m]]]
      BY <1>3, <1>4, <1>5, RememberShows
    <2>2. \A m \in Names : (IF fs[m] = NoCell THEN Missing ELSE h[fs[m]]) =
                           IF m = n THEN c ELSE Shown(files)[m]
      BY ZenonT(30), <1>2, <1>3 DEF Shown, MemoryType
    <2> QED  BY <2>1, <2>2 DEF Shown
  <1>7. [r \in Readers |-> Shown(snapshots[r])]' = [r \in Readers |-> Shown(snapshots[r])]
    <2>1. [r \in Readers |-> Shown(snapshots[r])]' =
            [r \in Readers |-> [m \in Names |->
                IF snapshots[r][m] = NoCell THEN Missing ELSE h[snapshots[r][m]]]]
      <3>1. fs \in [Names -> Cells \cup {NoCell}]
        BY <1>3
      <3> QED  BY <3>1, <1>4, <1>5, RememberShows
    <2>2. \A r \in Readers, m \in Names :
            snapshots[r][m] # NoCell => h[snapshots[r][m]] = heap[snapshots[r][m]]
      BY <1>2, <1>3 DEF MemoryType
    <2> QED  BY <2>1, <2>2 DEF Shown
  <1> QED  BY <1>6, <1>7 DEF Store!Write

(***************************************************************************)
(* So does an update in place, because nobody else has the object.         *)
(***************************************************************************)
LEMMA InPlaceWrites ==
    ASSUME MemoryType, NEW n \in Names, NEW c \in Contents, Sole(n),
           files[n] # NoCell,
           Remember(files, snapshots, [heap EXCEPT ![files[n]] = c])
    PROVE  Store!Write(n, c)
  <1> DEFINE h == [heap EXCEPT ![files[n]] = c]
  <1>1. /\ files[n] \in Cells
        /\ h[files[n]] = c
        /\ \A d \in Cells : d # files[n] => h[d] = heap[d]
    BY DEF MemoryType
  <1>2. /\ files \in [Names -> Cells \cup {NoCell}]
        /\ snapshots \in [Readers -> [Names -> Cells \cup {NoCell}]]
        /\ Remember(files, snapshots, h)
    BY DEF MemoryType
  <1> HIDE DEF h
  <1>3. Shown(files)' = [Shown(files) EXCEPT ![n] = c]
    <2>1. Shown(files)' =
            [m \in Names |-> IF files[m] = NoCell THEN Missing ELSE h[files[m]]]
      BY <1>2, RememberShows
    <2>2. \A m \in Names : (IF files[m] = NoCell THEN Missing ELSE h[files[m]]) =
                           IF m = n THEN c ELSE Shown(files)[m]
      BY <1>1, <1>2 DEF Shown, Sole
    <2> QED  BY <2>1, <2>2 DEF Shown
  <1>4. [r \in Readers |-> Shown(snapshots[r])]' = [r \in Readers |-> Shown(snapshots[r])]
    <2>1. [r \in Readers |-> Shown(snapshots[r])]' =
            [r \in Readers |-> [m \in Names |->
                IF snapshots[r][m] = NoCell THEN Missing ELSE h[snapshots[r][m]]]]
      BY <1>2, RememberShows
    <2>2. \A r \in Readers, m \in Names :
            snapshots[r][m] # NoCell => h[snapshots[r][m]] = heap[snapshots[r][m]]
      BY <1>1, <1>2 DEF Sole
    <2> QED  BY <2>1, <2>2 DEF Shown
  <1> QED  BY <1>3, <1>4 DEF Store!Write

(***************************************************************************)
(* An update writes the new content where the promised store has the file, *)
(* and leaves the snapshots as they were.                                  *)
(***************************************************************************)
LEMMA UpdateFileWrites ==
    ASSUME MemoryType, NEW i \in Ids, NEW c \in Contents, UpdateFile(i, c)
    PROVE  /\ Known(i) => idToName[i] \in Names /\ Store!Write(idToName[i], c)
           /\ ~ Known(i) => UNCHANGED memory
  <1>1. CASE Known(i)
    <2>1. idToName[i] \in Names /\ files[idToName[i]] # NoCell
      BY <1>1 DEF Known, MemoryType
    <2> QED  BY <1>1, <2>1, PutFileWrites, InPlaceWrites DEF UpdateFile
  <1> QED  BY <1>1 DEF UpdateFile

(***************************************************************************)
(* A deletion removes the file from the promised store only.               *)
(***************************************************************************)
LEMMA DeleteFileRemoves ==
    ASSUME MemoryType, NEW i \in Ids, DeleteFile(i)
    PROVE  /\ idToName[i] # NoName =>
                 idToName[i] \in Names /\ Store!Remove(idToName[i])
           /\ idToName[i] = NoName => UNCHANGED memory
  <1>1. CASE idToName[i] # NoName
    <2> DEFINE n  == idToName[i]
               fs == [files EXCEPT ![n] = NoCell]
    <2>1. n \in Names /\ Remember(fs, snapshots, heap)
      BY <1>1 DEF DeleteFile, MemoryType
    <2>2. /\ fs \in [Names -> Cells \cup {NoCell}]
          /\ \A m \in Names : fs[m] = IF m = n THEN NoCell ELSE files[m]
          /\ snapshots \in [Readers -> [Names -> Cells \cup {NoCell}]]
      BY DEF MemoryType
    <2> HIDE DEF n, fs
    <2>3. Shown(files)' = [Shown(files) EXCEPT ![n] = Missing]
      <3>1. Shown(files)' =
              [m \in Names |-> IF fs[m] = NoCell THEN Missing ELSE heap[fs[m]]]
        BY <2>1, <2>2, RememberShows
      <3>2. \A m \in Names : (IF fs[m] = NoCell THEN Missing ELSE heap[fs[m]]) =
                             IF m = n THEN Missing ELSE Shown(files)[m]
        BY <2>2 DEF Shown
      <3> QED  BY <3>1, <3>2 DEF Shown
    <2>4. [r \in Readers |-> Shown(snapshots[r])]' = [r \in Readers |-> Shown(snapshots[r])]
      BY <2>1, <2>2, RememberShows DEF Shown
    <2> QED  BY <1>1, <2>1, <2>3, <2>4 DEF Store!Remove, n
  <1>2. CASE idToName[i] = NoName
    BY <1>2 DEF DeleteFile
  <1> QED  BY <1>1, <1>2

(***************************************************************************)
(* Taking a snapshot shows the reader what the database has, and dropping  *)
(* it leaves the others what they showed.                                  *)
(***************************************************************************)
LEMMA SnapshotSteps ==
    ASSUME MemoryType, NEW r \in Readers
    PROVE  /\ TakeSnapshot(r) => Store!TakeSnapshot(r)
           /\ DropSnapshot(r) => Store!DropSnapshot(r)
  <1>1. NoFiles \in [Names -> Cells \cup {NoCell}] /\ Shown(NoFiles) = Store!NoFiles
    BY DEF NoFiles, Shown, Store!NoFiles
  <1>2. ASSUME NEW view \in [Names -> Cells \cup {NoCell}],
               Remember(files, [snapshots EXCEPT ![r] = view], heap)
        PROVE  /\ Shown(files)' = Shown(files)
               /\ [s \in Readers |-> Shown(snapshots[s])]' =
                    [[s \in Readers |-> Shown(snapshots[s])] EXCEPT ![r] = Shown(view)]
    <2> DEFINE views == [snapshots EXCEPT ![r] = view]
    <2>1. views \in [Readers -> [Names -> Cells \cup {NoCell}]]
      BY DEF MemoryType
    <2>2. Remember(files, views, heap)
      BY <1>2
    <2>3. \A s \in Readers : views[s] = IF s = r THEN view ELSE snapshots[s]
      BY DEF MemoryType
    <2> HIDE DEF views
    <2>f. files \in [Names -> Cells \cup {NoCell}]
      BY DEF MemoryType
    <2>4. Shown(files)' = Shown(files)
      BY <2>1, <2>2, <2>f, RememberShows DEF Shown
    <2>5. [s \in Readers |-> Shown(snapshots[s])]' =
            [s \in Readers |-> [n \in Names |->
                IF views[s][n] = NoCell THEN Missing ELSE heap[views[s][n]]]]
      BY <2>1, <2>2, <2>f, RememberShows
    <2>6. \A s \in Readers :
            [n \in Names |-> IF views[s][n] = NoCell THEN Missing ELSE heap[views[s][n]]]
              = IF s = r THEN Shown(view) ELSE Shown(snapshots[s])
      BY <2>3 DEF Shown
    <2> QED  BY <2>4, <2>5, <2>6
  <1>f. files \in [Names -> Cells \cup {NoCell}]
    BY DEF MemoryType
  <1>3. TakeSnapshot(r) => Store!TakeSnapshot(r)
    BY <1>f, <1>2 DEF TakeSnapshot, Store!TakeSnapshot
  <1>4. DropSnapshot(r) => Store!DropSnapshot(r)
    BY <1>1, <1>2 DEF DropSnapshot, Store!DropSnapshot
  <1> QED  BY <1>3, <1>4

(***************************************************************************)
(* The database implements FileStore: however it shares file objects with  *)
(* the snapshots, and whenever they are dropped, it is a map whose         *)
(* snapshots stay what they were.                                          *)
(***************************************************************************)
THEOREM Refinement == Spec => IsFileStore
  <1> DEFINE mapped == <<Shown(files), [r \in Readers |-> Shown(snapshots[r])]>>
  <1>1. Init => Store!Init
    BY DEF Init, NoFiles, Shown, Store!Init, Store!NoFiles
  <1>2. TypeOK /\ [Next]_vars => [Store!Next]_mapped
    <2> SUFFICES ASSUME TypeOK, [Next]_vars  PROVE [Store!Next]_mapped
      OBVIOUS
    <2>m. MemoryType
      BY DEF TypeOK, MemoryType
    <2>u. ASSUME UNCHANGED memory  PROVE mapped' = mapped
      BY <2>u DEF memory, Shown
    <2> HIDE DEF mapped
    <2>1. ASSUME NEW n \in Names, NEW c \in Contents, AddFile(n, c)
          PROVE  Store!Next
      BY <2>1, <2>m, PutFileWrites DEF AddFile, Store!Next
    <2>2. ASSUME NEW i \in Ids, NEW c \in Contents, UpdateFile(i, c)
          PROVE  [Store!Next]_mapped
      BY <2>2, <2>m, <2>u, UpdateFileWrites DEF Store!Next
    <2>3. ASSUME NEW i \in Ids, DeleteFile(i)  PROVE [Store!Next]_mapped
      BY <2>3, <2>m, <2>u, DeleteFileRemoves DEF Store!Next
    <2>4. ASSUME NEW r \in Readers, TakeSnapshot(r) \/ DropSnapshot(r)
          PROVE  Store!Next
      BY <2>4, <2>m, SnapshotSteps DEF Store!Next
    <2>5. ASSUME Apply  PROVE [Store!Next]_mapped
      BY <2>5, ApplyCases, <2>1, <2>2, <2>3
    <2>6. ASSUME UNCHANGED memory  PROVE [Store!Next]_mapped
      BY <2>6, <2>u
    <2> QED
      BY <2>1, <2>2, <2>3, <2>4, <2>5, <2>6
      DEF Next, vars, Add, MergeBase, Update, Delete, NewLog, CloneLog, DropClone,
          Record, CommitRefused, CommitBegin, StartWriting, Execute, ExecuteFails,
          CommitDone
  <1> QED  BY <1>1, <1>2, Typing, PTL DEF Spec, IsFileStore, Store!Spec

-----------------------------------------------------------------------------
(* Database.commit, for a change log of any length.  Both results are      *)
(* stated of what the database shows of a name, so that the file objects   *)
(* matter only to ShowsAfter, which rests on the refinement of FileStore:  *)
(* a change shows in its own file and in no other.                         *)

Has(n) == Shown(files)[n]

\* The id a change is about, and the name it changes if there is one.
IdOf(ch)    == IF ch.op = "Add" THEN FileId[ch.name] ELSE ch.id
Touched(ch) == IF ch.op = "Add" THEN ch.name ELSE idToName[ch.id]
Effective(ch) == ch.op = "Add" \/ Known(ch.id)
Asked(ch)   == IF ch.op = "Delete" THEN Missing ELSE ch.content

\* The change is made.
Makes(ch) ==
    \/ ch.op = "Add" /\ AddFile(ch.name, ch.content)
    \/ ch.op = "Update" /\ UpdateFile(ch.id, ch.content)
    \/ ch.op = "Delete" /\ DeleteFile(ch.id)

\* What a change asks for, until a later one of the same id.
Holds(ch) ==
    \/ ch.op = "Add" /\ idToName[FileId[ch.name]] = ch.name /\ Has(ch.name) = ch.content
    \/ ch.op = "Update" /\ (idToName[ch.id] # NoName => Has(idToName[ch.id]) = ch.content)
    \/ ch.op = "Delete" /\ idToName[ch.id] = NoName

Done == Len(batch) - todo

\* LastChangeWins for the changes that have been applied so far.
AppliedHold ==
    step \in {"Applying", "Writing"} =>
        \A k \in 1..Done :
            (\A j \in 1..Done : j > k => IdOf(batch[j]) # IdOf(batch[k])) => Holds(batch[k])

\* The only operation of a name writes what the database has under that name.
Single(op) == \A o \in ops : o.name = op.name => o = op

OpsMatch ==
    step \in {"Applying", "Writing"} =>
        \A op \in ops : /\ save /\ op.nth > todo /\ op.name \in Names
                        /\ Single(op) => Has(op.name) = op.content

\* What has been executed without a failure is on disk.
Written ==
    step = "Writing" =>
        /\ todo = 0
        /\ ~ failed => \A op \in ops \ pending : Single(op) => disk[op.name] = op.content

-----------------------------------------------------------------------------
(***************************************************************************)
(* The three kinds of change.                                              *)
(***************************************************************************)
LEMMA ChangeKinds ==
    ASSUME NEW ch \in Changes
    PROVE  \/ ch.op = "Add" /\ ch.name \in Names /\ ch.content \in Contents
           \/ ch.op = "Update" /\ ch.id \in Ids /\ ch.content \in Contents
           \/ ch.op = "Delete" /\ ch.id \in Ids
  BY DEF Changes

(***************************************************************************)
(* A change of the memory, name by name: add, update and delete of         *)
(* Database change what they ask for of the file they touch, and nothing   *)
(* of any other file.                                                      *)
(***************************************************************************)
LEMMA ShowsAfter ==
    ASSUME MemoryType, IndexesAgree, NEW ch \in Changes, Makes(ch)
    PROVE  /\ Effective(ch) => Touched(ch) \in Names
           /\ \A m \in Names : Has(m)' = IF Effective(ch) /\ m = Touched(ch)
                                         THEN Asked(ch) ELSE Has(m)
           /\ idToName' = IF ch.op = "Add" THEN [idToName EXCEPT ![FileId[ch.name]] = ch.name]
                          ELSE IF ch.op = "Delete" THEN [idToName EXCEPT ![ch.id] = NoName]
                          ELSE idToName
  <1> DEFINE S == Shown(files)
             After == \A m \in Names : Has(m)' = IF Effective(ch) /\ m = Touched(ch)
                                                 THEN Asked(ch) ELSE Has(m)
  <1>0. S \in [Names -> Contents \cup {Missing}]
    BY DEF Shown, MemoryType
  <1>u. ASSUME UNCHANGED memory  PROVE \A m \in Names : Has(m)' = Has(m)
    BY <1>u DEF memory, Has, Shown
  <1>1. CASE ch.op = "Add"
    <2>1. /\ ch.name \in Names /\ ch.content \in Contents /\ AddFile(ch.name, ch.content)
      BY <1>1, ChangeKinds DEF Makes
    <2>2. S' = [S EXCEPT ![ch.name] = ch.content]
      BY <2>1, PutFileWrites DEF AddFile, Store!Write
    <2>3. After
      BY <1>0, <1>1, <2>1, <2>2 DEF Has, Effective, Touched, Asked
    <2> QED  BY <1>1, <2>1, <2>3 DEF AddFile, Touched
  <1>2. CASE ch.op = "Update"
    <2>1. ch.id \in Ids /\ ch.content \in Contents /\ UpdateFile(ch.id, ch.content)
      BY <1>2, ChangeKinds DEF Makes
    <2>2. CASE Known(ch.id)
      <3>1. idToName[ch.id] \in Names /\ S' = [S EXCEPT ![idToName[ch.id]] = ch.content]
        BY <2>1, <2>2, UpdateFileWrites DEF Store!Write
      <3>2. After
        BY <1>0, <1>2, <2>2, <3>1 DEF Has, Effective, Touched, Asked
      <3>3. idToName' = idToName
        BY <2>1, <2>2 DEF UpdateFile
      <3> QED  BY <1>2, <3>1, <3>2, <3>3 DEF Touched
    <2>3. CASE ~ Known(ch.id)
      <3>1. UNCHANGED memory
        BY <2>1, <2>3, UpdateFileWrites
      <3> QED  BY <1>2, <1>u, <2>3, <3>1 DEF memory, Effective
    <2> QED  BY <2>2, <2>3
  <1>3. CASE ch.op = "Delete"
    <2>1. ch.id \in Ids /\ DeleteFile(ch.id)
      BY <1>3, ChangeKinds DEF Makes
    <2>2. CASE idToName[ch.id] # NoName
      <3>0. Known(ch.id)
        BY <2>1, <2>2 DEF Known, IndexesAgree
      <3>1. idToName[ch.id] \in Names /\ S' = [S EXCEPT ![idToName[ch.id]] = Missing]
        BY <2>1, <2>2, DeleteFileRemoves DEF Store!Remove
      <3>2. After
        BY <1>0, <1>3, <3>0, <3>1 DEF Has, Effective, Touched, Asked
      <3>3. idToName' = [idToName EXCEPT ![ch.id] = NoName]
        BY <2>1, <2>2 DEF DeleteFile
      <3> QED  BY <1>3, <3>1, <3>2, <3>3 DEF Touched
    <2>3. CASE idToName[ch.id] = NoName
      <3>1. UNCHANGED memory
        BY <2>1, <2>3, DeleteFileRemoves
      <3>2. [idToName EXCEPT ![ch.id] = NoName] = idToName
        BY <2>1, <2>3 DEF MemoryType
      <3>3. ~ Effective(ch)
        BY <1>3, <2>3 DEF Effective, Known
      <3> QED  BY <1>3, <1>u, <3>1, <3>2, <3>3 DEF memory
    <2> QED  BY <2>2, <2>3
  <1> QED  BY <1>1, <1>2, <1>3, ChangeKinds

(***************************************************************************)
(* A change holds once it is made.                                         *)
(***************************************************************************)
LEMMA MadeHolds ==
    ASSUME MemoryType, IndexesAgree, NEW ch \in Changes, Makes(ch)
    PROVE  Holds(ch)'
  <1>s. /\ Effective(ch) => Touched(ch) \in Names
        /\ \A m \in Names : Shown(files)'[m] = IF Effective(ch) /\ m = Touched(ch)
                                               THEN Asked(ch) ELSE Shown(files)[m]
        /\ idToName' = IF ch.op = "Add" THEN [idToName EXCEPT ![FileId[ch.name]] = ch.name]
                       ELSE IF ch.op = "Delete" THEN [idToName EXCEPT ![ch.id] = NoName]
                       ELSE idToName
    BY ShowsAfter DEF Has
  <1>1. CASE ch.op = "Add"
    BY <1>1, <1>s, ChangeKinds, FileIdAssumption
    DEF Holds, Has, Effective, Touched, Asked, MemoryType
  <1>2. CASE ch.op = "Update"
    <2>1. idToName' = idToName /\ ch.id \in Ids
      BY <1>2, <1>s, ChangeKinds
    <2>2. idToName[ch.id] # NoName => Known(ch.id)
      BY <2>1 DEF IndexesAgree, Known
    <2> QED  BY <1>2, <1>s, <2>1, <2>2 DEF Holds, Has, Effective, Touched, Asked
  <1>3. CASE ch.op = "Delete"
    BY <1>3, <1>s, ChangeKinds DEF Holds, MemoryType
  <1> QED  BY <1>1, <1>2, <1>3, ChangeKinds

(***************************************************************************)
(* It still holds after a change of another id, because the two touch      *)
(* different files.                                                        *)
(***************************************************************************)
LEMMA OthersHold ==
    ASSUME MemoryType, IndexesAgree, NEW ch \in Changes, Makes(ch),
           NEW d \in Changes, IdOf(ch) # IdOf(d), Holds(d)
    PROVE  Holds(d)'
  <1>s. /\ \A m \in Names : m # Touched(ch) => Shown(files)'[m] = Shown(files)[m]
        /\ idToName' = IF ch.op = "Add" THEN [idToName EXCEPT ![FileId[ch.name]] = ch.name]
                       ELSE IF ch.op = "Delete" THEN [idToName EXCEPT ![ch.id] = NoName]
                       ELSE idToName
    BY ShowsAfter DEF Has
  <1>1. IdOf(ch) \in Ids /\ IdOf(d) \in Ids
    BY ChangeKinds, FileIdAssumption DEF IdOf
  <1>2. idToName'[IdOf(d)] = idToName[IdOf(d)]
    BY <1>1, <1>s, ChangeKinds DEF IdOf, MemoryType
  <1>3. ASSUME idToName[IdOf(d)] # NoName
        PROVE  /\ idToName[IdOf(d)] \in Names
               /\ Shown(files)'[idToName[IdOf(d)]] = Shown(files)[idToName[IdOf(d)]]
    <2>1. /\ idToName[IdOf(d)] \in Names
          /\ FileId[idToName[IdOf(d)]] = IdOf(d)
      BY <1>1, <1>3 DEF MemoryType, IndexesAgree
    <2>2. Touched(ch) \in Names => FileId[Touched(ch)] = IdOf(ch)
      BY <1>1, ChangeKinds, NullAssumption DEF Touched, IdOf, IndexesAgree
    <2> QED  BY <1>s, <2>1, <2>2
  <1>4. CASE d.op = "Add"
    <2>1. d.name \in Names /\ IdOf(d) = FileId[d.name] /\ d.name # NoName
      BY <1>4, ChangeKinds, NullAssumption DEF IdOf
    <2> QED  BY <1>2, <1>3, <1>4, <2>1 DEF Holds, Has
  <1>5. CASE d.op \in {"Update", "Delete"}
    <2>1. IdOf(d) = d.id
      BY <1>5 DEF IdOf
    <2> QED  BY <1>2, <1>3, <1>5, <2>1 DEF Holds, Has
  <1> QED  BY <1>4, <1>5, ChangeKinds

(***************************************************************************)
(* While a commit is under way, only the changes it applies are seen in    *)
(* the database; a snapshot may be dropped at any time.                    *)
(***************************************************************************)
LEMMA OnlyApply ==
    ASSUME TypeOK, [Next]_vars, step # "Idle", ~ Apply
    PROVE  /\ idToName' = idToName /\ Shown(files)' = Shown(files)
           /\ \A n \in Names : Has(n)' = Has(n)
  <1>m. MemoryType
    BY DEF TypeOK, MemoryType
  <1>1. CASE UNCHANGED memory
    BY <1>1 DEF memory, Has, Shown
  <1>2. ASSUME NEW r \in Readers, DropSnapshot(r)
        PROVE  idToName' = idToName /\ Shown(files)' = Shown(files)
    BY <1>2, <1>m, SnapshotSteps DEF DropSnapshot, Store!DropSnapshot
  <1> QED
    BY <1>1, <1>2
    DEF Next, vars, Has, Add, MergeBase, Update, Delete, TakeSnapshot, NewLog, CloneLog,
        DropClone, Record, CommitRefused, CommitBegin, StartWriting, Execute,
        ExecuteFails, CommitDone

(***************************************************************************)
(* What a step does to the commit.                                         *)
(***************************************************************************)
LEMMA CommitCases ==
    ASSUME [Next]_vars
    PROVE  \/ Apply \/ StartWriting \/ CommitDone \/ \E w \in BOOLEAN : CommitBegin(w)
           \/ \E op \in pending : Execute(op) \/ ExecuteFails(op)
           \/ UNCHANGED <<disk, commit>>
  BY DEF Next, vars, commit, Add, MergeBase, Update, Delete, TakeSnapshot, DropSnapshot,
         NewLog, CloneLog, DropClone, Record, CommitRefused

(***************************************************************************)
(* A step of the loop of commit makes the change it is at.                 *)
(***************************************************************************)
LEMMA ApplyMakes ==
    ASSUME TypeOK, Apply
    PROVE  \E ch \in Changes : /\ ch = Current /\ Makes(ch)
                               /\ ch = batch[Done + 1]
                               /\ Done \in Nat /\ Done' = Done + 1
                               /\ batch' = batch /\ Done + 1 \in 1..Len(batch)
  <1>1. Current \in Changes
    BY CurrentIsChange DEF Apply
  <1>2. Makes(Current)
    BY DEF Apply, Makes
  <1>3. batch \in Seq(Changes) /\ todo \in 0..Len(batch) /\ todo > 0
    BY DEF TypeOK, Apply
  <1>4. batch' = batch /\ todo' = todo - 1
    BY DEF Apply
  <1>5. Len(batch) \in Nat /\ Done \in Nat /\ Done' = Done + 1 /\ Done + 1 \in 1..Len(batch)
        /\ Done + 1 = Len(batch) + 1 - todo
    BY <1>3, <1>4 DEF Done
  <1>6. Current = batch[Done + 1]
    BY <1>5 DEF Current
  <1> QED  BY <1>1, <1>2, <1>4, <1>5, <1>6

(***************************************************************************)
(* The last change of each id that has been applied holds.                 *)
(***************************************************************************)
LEMMA AppliedStep ==
    ASSUME TypeOK, IndexesAgree, AppliedHold, [Next]_vars
    PROVE  AppliedHold'
  <1>m. MemoryType
    BY DEF TypeOK, MemoryType
  <1>t. batch \in Seq(Changes) /\ todo \in 0..Len(batch)
    BY DEF TypeOK
  <1>1. CASE Apply
    <2>1. PICK ch \in Changes : /\ ch = Current /\ Makes(ch) /\ ch = batch[Done + 1]
                                /\ Done \in Nat /\ Done' = Done + 1 /\ batch' = batch
                                /\ Done + 1 \in 1..Len(batch)
      BY <1>1, ApplyMakes
    <2>2. step = "Applying"
      BY <1>1 DEF Apply
    <2> SUFFICES ASSUME NEW k \in 1..Done',
                        \A j \in 1..Done' : j > k => IdOf(batch[j]) # IdOf(batch[k])
                 PROVE  Holds(batch[k])'
      BY <2>1 DEF AppliedHold, IdOf
    <2>3. CASE k = Done + 1
      BY <1>m, <2>1, <2>3, MadeHolds DEF Holds, Has
    <2>4. CASE k # Done + 1
      <3>1. k \in 1..Done /\ Done + 1 \in 1..Done' /\ Done + 1 > k
        BY <2>1, <2>4
      <3>2. \A j \in 1..Done : j \in 1..Done'
        BY <2>1
      <3>3. Holds(batch[k])
        BY <2>2, <3>1, <3>2 DEF AppliedHold
      <3>4. PICK d \in Changes : d = batch[k]
        BY <1>t, <2>1, <3>1
      <3>5. IdOf(ch) # IdOf(d)
        BY <2>1, <3>1, <3>4
      <3>6. Holds(d)'
        BY <1>m, <2>1, <3>3, <3>4, <3>5, OthersHold
      <3> QED  BY <2>1, <3>4, <3>6 DEF Holds, Has
    <2> QED  BY <2>3, <2>4
  <1>2. CASE ~ Apply /\ step \in {"Applying", "Writing"} /\ UNCHANGED <<batch, todo>>
    <2>1. idToName' = idToName /\ Shown(files)' = Shown(files)
      BY <1>2, OnlyApply
    <2> QED  BY <1>2, <2>1 DEF AppliedHold, Done, Holds, Has, IdOf
  <1>3. ASSUME NEW w \in BOOLEAN, CommitBegin(w)  PROVE AppliedHold'
    <2>1. log \in Seq(Changes) /\ batch' = log /\ todo' = Len(log)
      BY <1>3 DEF CommitBegin, TypeOK
    <2>2. Done' = 0
      BY <2>1 DEF Done
    <2> QED  BY <2>2 DEF AppliedHold
  <1>4. CASE CommitDone
    BY <1>4 DEF CommitDone, AppliedHold
  <1>5. CASE UNCHANGED <<disk, commit>> /\ step = "Idle"
    BY <1>5 DEF commit, AppliedHold
  <1>6. step \in {"Idle", "Applying", "Writing"}
    BY DEF TypeOK
  <1> QED
    BY <1>1, <1>2, <1>3, <1>4, <1>5, <1>6, CommitCases
    DEF StartWriting, Execute, ExecuteFails, commit


(***************************************************************************)
(* The operations pushed by the loop, and what the database shows.  Two    *)
(* operations are told apart by the position of their change.              *)
(***************************************************************************)
LEMMA OpsStep ==
    ASSUME TypeOK, IndexesAgree, OpsMatch, [Next]_vars
    PROVE  OpsMatch'
  <1>m. MemoryType
    BY DEF TypeOK, MemoryType
  <1>t. todo \in Nat /\ ops \subseteq Operations
    BY DEF TypeOK
  <1>1. CASE Apply
    <2>1. PICK ch \in Changes : ch = Current /\ Makes(ch)
      BY <1>1, ApplyMakes
    <2>2. /\ step = "Applying" /\ step' = step /\ save' = save
          /\ todo > 0 /\ todo' = todo - 1
          /\ ops' = ops \cup Operation(ch)
      BY <1>1, <2>1 DEF Apply
    <2>3. Operation(ch) = IF save /\ Touched(ch) \in OnDisk /\ Effective(ch)
                          THEN {[nth |-> todo, name |-> Touched(ch), content |-> Asked(ch)]}
                          ELSE {}
      BY DEF Operation, Touched, Effective, Asked
    <2>4. /\ Effective(ch) => Touched(ch) \in Names
          /\ \A m \in Names : Has(m)' = IF Effective(ch) /\ m = Touched(ch)
                                        THEN Asked(ch) ELSE Has(m)
      BY <1>m, <2>1, ShowsAfter
    <2> SUFFICES ASSUME NEW op \in ops'
                 PROVE  /\ save' /\ op.nth > todo' /\ op.name \in Names
                        /\ Single(op)' => Has(op.name)' = op.content
      BY DEF OpsMatch
    <2>5. CASE op \notin ops
      <3>1. /\ op.nth = todo /\ op.name = Touched(ch) /\ op.content = Asked(ch)
            /\ Effective(ch) /\ save
        BY <2>2, <2>3, <2>5
      <3> QED  BY <1>t, <2>2, <2>4, <3>1
    <2>6. CASE op \in ops
      <3>1. save /\ op.nth > todo /\ op.name \in Names /\ (Single(op) => Has(op.name) = op.content)
        BY <2>2, <2>6 DEF OpsMatch
      <3>2. op.nth \in Nat /\ op.name \in OnDisk
        BY <1>t, <2>6 DEF Operations
      <3>3. ASSUME Single(op)'  PROVE Has(op.name)' = op.content
        <4>1. Single(op)
          BY <2>2, <3>3 DEF Single
        <4>2. CASE Effective(ch) /\ op.name = Touched(ch)
          <5> DEFINE new == [nth |-> todo, name |-> Touched(ch), content |-> Asked(ch)]
          <5>1. new \in ops' /\ new.name = op.name /\ new.nth = todo
            BY <2>2, <2>3, <3>1, <3>2, <4>2
          <5>2. new = op
            BY <3>3, <5>1 DEF Single
          <5> QED  BY <1>t, <3>1, <3>2, <5>1, <5>2
        <4>3. CASE ~ (Effective(ch) /\ op.name = Touched(ch))
          BY <2>4, <3>1, <4>1, <4>3
        <4> QED  BY <4>2, <4>3
      <3> QED  BY <1>t, <2>2, <3>1, <3>2, <3>3
    <2> QED  BY <2>5, <2>6
  <1>2. CASE ~ Apply /\ step \in {"Applying", "Writing"} /\ UNCHANGED <<ops, todo, save>>
    <2>1. \A n \in Names : Has(n)' = Has(n)
      BY <1>2, OnlyApply
    <2> QED  BY <1>2, <2>1 DEF OpsMatch, Single
  <1>3. CASE ops' = {}
    BY <1>3 DEF OpsMatch
  <1>4. CASE UNCHANGED <<disk, commit>> /\ step = "Idle"
    BY <1>4 DEF commit, OpsMatch
  <1>5. step \in {"Idle", "Applying", "Writing"}
    BY DEF TypeOK
  <1> QED
    BY <1>1, <1>2, <1>3, <1>4, <1>5, CommitCases
    DEF StartWriting, Execute, ExecuteFails, CommitBegin, CommitDone, commit

(***************************************************************************)
(* An operation that has been executed without a failure is on disk, until *)
(* the next one of the same path.                                          *)
(***************************************************************************)
LEMMA WrittenStep ==
    ASSUME TypeOK, Written, [Next]_vars
    PROVE  Written'
  <1>t. pending \subseteq ops /\ ops \subseteq Operations
        /\ disk \in [OnDisk -> Contents \cup {Missing, Torn}]
    BY DEF TypeOK
  <1>1. CASE Apply
    BY <1>1 DEF Apply, Written
  <1>2. CASE StartWriting
    BY <1>2 DEF StartWriting, Written
  <1>3. ASSUME NEW op \in pending, Execute(op)  PROVE Written'
    <2>1. /\ disk' = [disk EXCEPT ![op.name] = op.content] /\ pending' = pending \ {op}
          /\ step = "Writing" /\ UNCHANGED <<todo, ops, failed>>
      BY <1>3 DEF Execute
    <2>2. ASSUME ~ failed, NEW o \in ops \ pending', Single(o)
          PROVE  disk'[o.name] = o.content
      <3>1. o.name \in OnDisk /\ op \in ops
        BY <1>t DEF Operations
      <3>2. CASE o = op
        BY <1>t, <2>1, <3>1, <3>2
      <3>3. CASE o # op
        BY <1>t, <2>1, <2>2, <3>1, <3>3 DEF Written, Single
      <3> QED  BY <3>2, <3>3
    <2> QED  BY <2>1, <2>2 DEF Written, Single
  <1>4. ASSUME NEW op \in pending, ExecuteFails(op)  PROVE Written'
    BY <1>4 DEF ExecuteFails, Written
  <1>5. CASE CommitDone \/ \E w \in BOOLEAN : CommitBegin(w)
    BY <1>5 DEF CommitDone, CommitBegin, Written
  <1>6. CASE UNCHANGED <<disk, commit>>
    BY <1>6 DEF commit, Written, Single
  <1> QED  BY <1>1, <1>2, <1>3, <1>4, <1>5, <1>6, CommitCases

-----------------------------------------------------------------------------
(***************************************************************************)
(* commit applies the changes of a log in the order they were recorded,    *)
(* whatever their number and kinds: each id ends as its last change asks.  *)
(***************************************************************************)
THEOREM LastWins == Spec => []LastChangeWins
  <1>1. Init => AppliedHold
    BY DEF Init, AppliedHold
  <1>2. TypeOK /\ IndexesAgree /\ AppliedHold /\ [Next]_vars => AppliedHold'
    BY AppliedStep
  <1>3. Init => Written
    BY DEF Init, Written
  <1>4. TypeOK /\ Written /\ [Next]_vars => Written'
    BY WrittenStep
  <1>5. TypeOK /\ IndexesAgree /\ AppliedHold /\ Written => LastChangeWins
    <2> SUFFICES ASSUME TypeOK, IndexesAgree, AppliedHold, Written, step = "Writing",
                        NEW k \in DOMAIN batch,
                        \A j \in DOMAIN batch : j > k => IdOf(batch[j]) # IdOf(batch[k])
                 PROVE  LET n == idToName[IdOf(batch[k])]
                        IN  CASE batch[k].op = "Add" ->
                                    n = batch[k].name /\ heap[files[n]] = batch[k].content
                              [] batch[k].op = "Update" ->
                                    n # NoName => heap[files[n]] = batch[k].content
                              [] batch[k].op = "Delete" -> n = NoName
      BY DEF LastChangeWins, IdOf
    <2>1. batch \in Seq(Changes) /\ todo = 0
      BY DEF TypeOK, Written
    <2>2. DOMAIN batch = 1..Done
      BY <2>1 DEF Done
    <2>3. Holds(batch[k])
      BY <2>2 DEF AppliedHold
    <2>4. PICK ch \in Changes : ch = batch[k]
      BY <2>1
    <2>5. IdOf(ch) \in Ids
      BY ChangeKinds, FileIdAssumption DEF IdOf
    <2>6. idToName[IdOf(ch)] # NoName =>
              /\ idToName[IdOf(ch)] \in Names
              /\ Has(idToName[IdOf(ch)]) = heap[files[idToName[IdOf(ch)]]]
      BY <2>5 DEF TypeOK, IndexesAgree, Has, Shown
    <2>7. CASE ch.op = "Add"
      BY <2>3, <2>4, <2>6, <2>7, ChangeKinds, NullAssumption DEF Holds, IdOf
    <2>8. CASE ch.op = "Update"
      BY <2>3, <2>4, <2>6, <2>8 DEF Holds, IdOf
    <2>9. CASE ch.op = "Delete"
      BY <2>3, <2>4, <2>9 DEF Holds, IdOf
    <2> QED  BY <2>4, <2>7, <2>8, <2>9, ChangeKinds
  <1> QED  BY <1>1, <1>2, <1>3, <1>4, <1>5, Typing, Indexes, PTL DEF Spec

(***************************************************************************)
(* When the parallel writes of a commit are through and none has failed,   *)
(* every path the commit touches once has on disk what the database shows. *)
(***************************************************************************)
THEOREM DiskFollows == Spec => []DiskFollowsDatabase
  <1>1. Init => OpsMatch /\ Written
    BY DEF Init, OpsMatch, Written
  <1>2. TypeOK /\ IndexesAgree /\ OpsMatch /\ Written /\ [Next]_vars => OpsMatch' /\ Written'
    BY OpsStep, WrittenStep
  <1>3. OpsMatch /\ Written => DiskFollowsDatabase
    <2> SUFFICES ASSUME OpsMatch, Written, step = "Writing", pending = {}, ~ failed,
                        NEW op \in ops, \A o \in ops : o.name = op.name => o = op
                 PROVE  disk[op.name] = IF files[op.name] = NoCell THEN Missing
                                        ELSE heap[files[op.name]]
      BY DEF DiskFollowsDatabase
    <2>1. Single(op) /\ op.name \in Names /\ Has(op.name) = op.content
      BY DEF OpsMatch, Single
    <2>2. disk[op.name] = op.content
      BY <2>1 DEF Written
    <2> QED  BY <2>1, <2>2 DEF Has, Shown
  <1> QED  BY <1>1, <1>2, <1>3, Typing, Indexes, PTL DEF Spec

===============================================================================
