---------------------------- MODULE WatchModeProofs ----------------------------
(***************************************************************************)
(* Proofs about watch mode, for any sets of files and contents and however *)
(* often the user changes files and the configuration.                     *)
(***************************************************************************)
EXTENDS WatchMode, TLAPS

StoreTypeOK ==
    /\ contents \in [Files -> Contents \cup {Missing}]
    /\ snapshots \in [{Service} -> [Files -> Contents \cup {Missing}]]

(***************************************************************************)
(* The operations of the store keep its type.                              *)
(***************************************************************************)
LEMMA StoreType ==
    ASSUME StoreTypeOK,
           \/ UNCHANGED database
           \/ \E f \in Files, c \in Contents \cup {Missing} : Db!Write(f, c)
           \/ \E f \in Files : Db!Remove(f)
           \/ Db!TakeSnapshot(Service)
    PROVE  StoreTypeOK'
  BY DEF StoreTypeOK, history, database, Db!Write, Db!Remove, Db!TakeSnapshot

(***************************************************************************)
(* What the fixes make of a file is a content, or the file stays missing.  *)
(***************************************************************************)
LEMMA FixedType ==
    ASSUME TypeOK, NEW f \in Files
    PROVE  Fixed(f) \subseteq Contents \cup {Missing}
  BY FixAssumption DEF Fixed, TypeOK

(***************************************************************************)
(* A change of a file keeps the types of the disk and of what is           *)
(* announced, missed or unread.                                            *)
(***************************************************************************)
LEMMA ChangedType ==
    ASSUME TypeOK, NEW f \in Files, NEW c \in Contents \cup {Missing}, Changed(f, c)
    PROVE  /\ disk' \in [Files -> Contents \cup {Missing}]
           /\ events' \subseteq Files
           /\ missed' \subseteq Files /\ unread' \subseteq Files
  BY DEF TypeOK, Changed

(***************************************************************************)
(* Every step keeps the types.                                             *)
(***************************************************************************)
LEMMA TypeStep ==
    ASSUME TypeOK, [Next]_vars
    PROVE  TypeOK'
  <1> USE BoundAssumption, NoneAssumption DEF Places
  <1>store. StoreTypeOK
    BY DEF TypeOK, StoreTypeOK
  <1>1. CASE \E f \in Files, c \in Contents \cup {Missing} : Edit(f, c)
    <2>1. PICK f \in Files, c \in Contents \cup {Missing} : Edit(f, c)
      BY <1>1
    <2>2. /\ disk' \in [Files -> Contents \cup {Missing}]
          /\ events' \subseteq Files /\ missed' \subseteq Files /\ unread' \subseteq Files
      BY <2>1, ChangedType DEF Edit
    <2>3. edits' \in 0..MaxEdits
      BY <2>1 DEF Edit, TypeOK
    <2> QED  BY <2>1, <2>2, <2>3 DEF Edit, TypeOK, history, database, session, NotReading
  <1>2. CASE EditConfig
    <2>1. config' \in 0..MaxConfigs /\ used' \in 0..config'
      BY <1>2 DEF EditConfig, TypeOK
    <2>2. restart' \in BOOLEAN /\ configMissed' \in BOOLEAN
      BY <1>2, Zenon DEF EditConfig
    <2> QED  BY <1>2, <2>1, <2>2 DEF EditConfig, TypeOK, history, database, NotReading
  <1>3. CASE \E f \in Files : Load(f)
    <2>1. PICK f \in Files : Load(f)
      BY <1>3
    <2>2. StoreTypeOK'
      BY <2>1, <1>store, StoreType DEF Load, TypeOK
    <2> QED  BY <2>1, <2>2 DEF Load, TypeOK, StoreTypeOK, history, user, session, NotReading
  <1>4. CASE \E f \in Files : ApplyFix(f)
    <2>1. PICK f \in Files : ApplyFix(f)
      BY <1>4
    <2>2. PICK c \in Fixed(f) : Db!Write(f, c)
                                /\ hint' = IF c = contents[f] THEN hint ELSE hint \cup {f}
      BY <2>1 DEF ApplyFix
    <2>3. StoreTypeOK'
      BY <2>2, <1>store, StoreType, FixedType
    <2> QED  BY <2>1, <2>2, <2>3 DEF ApplyFix, TypeOK, StoreTypeOK, history, user, session, NotReading
  <1>5. CASE \E f \in Files : WriteFix(f)
    <2>1. PICK f \in Files : WriteFix(f)
      BY <1>5
    <2>2. contents[f] \in Contents \cup {Missing}
      BY DEF TypeOK
    <2>3. /\ disk' \in [Files -> Contents \cup {Missing}]
          /\ events' \subseteq Files /\ missed' \subseteq Files /\ unread' \subseteq Files
      BY <2>1, <2>2, ChangedType DEF WriteFix
    <2> QED  BY <2>1, <2>3 DEF WriteFix, TypeOK, history, database, user, session, NotReading
  <1>6. CASE \E f \in Files : HandleNew(f) \/ HandleGone(f)
    <2>1. PICK f \in Files : HandleNew(f) \/ HandleGone(f)
      BY <1>6
    <2>2. StoreTypeOK'
      BY <2>1, <1>store, StoreType DEF HandleNew, HandleGone, TypeOK
    <2> QED  BY <2>1, <2>2 DEF HandleNew, HandleGone, Handled, TypeOK, StoreTypeOK, user,
                               session, NotReading
  <1>7. CASE \E f \in Files : HandleChanged(f) \/ HandleUnreadable(f)
    BY <1>7 DEF HandleChanged, HandleUnreadable, Handled, TypeOK, history, database, user, session,
                NotReading
  <1>8. CASE Watch
    BY <1>8 DEF Watch, TypeOK, history, database, user, NotReading
  <1>9. CASE WatchConfig
    BY <1>9 DEF WatchConfig, TypeOK, history, database, user, NotReading
  <1>10. CASE UpdateDatabase
    <2>1. StoreTypeOK'
      BY <1>10, <1>store, StoreType DEF UpdateDatabase
    <2> QED  BY <1>10, <2>1 DEF UpdateDatabase, TypeOK, StoreTypeOK, history, user, session, NotReading
  <1>11. CASE Analyze
    BY <1>11 DEF Analyze, TypeOK, history, database, user, session, NotReading
  <1>12. CASE Report \/ FixesWritten \/ Exit \/ DebounceEnds \/ ChangesHandled
    BY <1>12 DEF Report, FixesWritten, Exit, DebounceEnds, ChangesHandled, TypeOK, history, database,
                 user, session, NotReading
  <1>13. CASE StartFixing \/ StartWriting
    BY <1>13 DEF StartFixing, StartWriting, TypeOK, history, database, user, session, NotReading
  <1>14. CASE Read \/ ReadFails
    <2>1. pc = "Reading" /\ reading.file \in Files
      BY <1>14 DEF Read, ReadFails, TypeOK
    <2> QED  BY <1>14, <2>1 DEF Read, ReadFails, TypeOK, history, database, user, session, NotReading
  <1>15. CASE Reread
    <2>1. reading.file \in Files /\ reading.first \in Contents
      BY <1>15 DEF Reread, TypeOK
    <2>2. StoreTypeOK'
      BY <1>15, <2>1, <1>store, StoreType DEF Reread, TypeOK
    <2> QED  BY <1>15, <2>2 DEF Reread, TypeOK, StoreTypeOK, history, user, session, NotReading
  <1>16. CASE \E f \in Files : Receive(f)
    BY <1>16 DEF Receive, TypeOK, history, database, user, session, NotReading
  <1>17. CASE Restart
    <2>1. used' \in 0..config'
      BY <1>17 DEF Restart, TypeOK, user
    <2> QED  BY <1>17, <2>1 DEF Restart, TypeOK, Db!NoFiles, user, NotReading
  <1>18. CASE UNCHANGED vars
    BY <1>18 DEF vars, TypeOK, history, database, user, session, NotReading
  <1> QED
    BY <1>1, <1>2, <1>3, <1>4, <1>5, <1>6, <1>7, <1>8, <1>9, <1>10, <1>11, <1>12, <1>13,
       <1>14, <1>15, <1>16, <1>17, <1>18 DEF Next, LoopStep

(***************************************************************************)
(* Watch mode is well-typed; in particular a file that could not be read   *)
(* is never taken into the database (read_stable_contents).                *)
(***************************************************************************)
THEOREM Typing == Spec => []TypeOK
  <1>1. Init => TypeOK
    <2>1. Init => StoreTypeOK /\ analyzed \in [Files -> Contents \cup {Missing}]
      BY DEF Init, Db!Init, Db!NoFiles, StoreTypeOK
    <2>2. Init => edits \in 0..MaxEdits /\ config \in 0..MaxConfigs /\ used \in 0..config
      BY BoundAssumption DEF Init
    <2> QED  BY <2>1, <2>2 DEF Init, TypeOK, StoreTypeOK, Places
  <1>2. TypeOK /\ [Next]_vars => TypeOK'
    BY TypeStep
  <1> QED  BY <1>1, <1>2, PTL DEF Spec

-----------------------------------------------------------------------------
(* The files whose change the loop still has to take up, or has failed to. *)
Pending ==
    UNION { events, missed, unread, {reading.file},
            IF pc \in {"Loading", "Writing", "Debouncing", "Handling", "Reading", "Rereading"}
            THEN todo ELSE {},
            IF pc = "Fixing" THEN hint ELSE {} }

ChangesArePending ==
    /\ pc \notin {"Loading", "Exited"} => watching
    /\ pc = "Loading" => \A f \in todo : contents[f] = Missing
    /\ pc # "Exited" => \A f \in Files : disk[f] # contents[f] => f \in Pending
    /\ pc = "Reading" /\ disk[reading.file] = Missing => reading.file \in events
    /\ pc = "Rereading" /\ disk[reading.file] # reading.first => reading.file \in events

(***************************************************************************)
(* The user's steps leave a changed file announced, missed or still to be  *)
(* loaded.                                                                 *)
(***************************************************************************)
LEMMA PendingUser ==
    ASSUME TypeOK, ChangesArePending,
           \/ \E f \in Files, c \in Contents \cup {Missing} : Edit(f, c)
           \/ EditConfig
           \/ UNCHANGED vars
    PROVE  ChangesArePending'
  <1>1. CASE \E f \in Files, c \in Contents \cup {Missing} : Edit(f, c)
    BY <1>1 DEF Edit, Changed, TypeOK, ChangesArePending, Pending, history, database, session
  <1>2. CASE EditConfig
    BY <1>2 DEF EditConfig, ChangesArePending, Pending, history, database
  <1>3. CASE UNCHANGED vars
    BY <1>3 DEF vars, ChangesArePending, Pending, history, database, session
  <1> QED  BY <1>1, <1>2, <1>3

(***************************************************************************)
(* The start of a session, an analysis and its fixes drop no change.       *)
(***************************************************************************)
LEMMA PendingRound ==
    ASSUME TypeOK, ChangesArePending,
           \/ \E f \in Files : Load(f) \/ ApplyFix(f) \/ WriteFix(f)
           \/ Watch \/ WatchConfig \/ UpdateDatabase \/ Analyze
           \/ Report \/ StartFixing \/ StartWriting \/ FixesWritten \/ Exit \/ Restart
    PROVE  ChangesArePending'
  <1> USE DEF TypeOK, ChangesArePending, Pending, history, database, user, session
  <1>1. CASE \E f \in Files : Load(f)
    BY <1>1 DEF Load, Db!Write
  <1>2. CASE \E f \in Files : ApplyFix(f)
    BY <1>2 DEF ApplyFix, Db!Write
  <1>3. CASE \E f \in Files : WriteFix(f)
    BY <1>3 DEF WriteFix, Changed
  <1>4. CASE Watch \/ WatchConfig
    BY <1>4 DEF Watch, WatchConfig
  <1>5. CASE UpdateDatabase \/ Analyze \/ Report
    BY <1>5 DEF UpdateDatabase, Db!TakeSnapshot, Analyze, Report
  <1>6. CASE StartFixing \/ StartWriting \/ FixesWritten \/ Exit
    BY <1>6 DEF StartFixing, StartWriting, FixesWritten, Exit
  <1>7. CASE Restart
    BY <1>7 DEF Restart, Db!NoFiles, NotReading
  <1> QED  BY <1>1, <1>2, <1>3, <1>4, <1>5, <1>6, <1>7

(***************************************************************************)
(* DatabaseWatcher::wait drops no change: a file it takes off its list is  *)
(* what the database has, or it has been announced again, or it is noted   *)
(* as one that could not be read.                                          *)
(***************************************************************************)
LEMMA PendingWait ==
    ASSUME TypeOK, ChangesArePending,
           \/ \E f \in Files : Receive(f)
           \/ \E f \in Files : HandleNew(f) \/ HandleUnreadable(f)
           \/ \E f \in Files : HandleGone(f) \/ HandleChanged(f)
           \/ DebounceEnds \/ Read \/ ReadFails \/ Reread \/ ChangesHandled
    PROVE  ChangesArePending'
  <1> USE DEF TypeOK, ChangesArePending, Pending, history, database, user, session
  <1>1. CASE \E f \in Files : Receive(f)
    BY <1>1 DEF Receive
  <1>2. CASE \E f \in Files : HandleNew(f) \/ HandleUnreadable(f)
    BY <1>2 DEF HandleNew, HandleUnreadable, Handled, Db!Write
  <1>3. CASE \E f \in Files : HandleGone(f)
    BY <1>3 DEF HandleGone, Handled, Db!Remove
  <1>4. CASE \E f \in Files : HandleChanged(f)
    BY <1>4, NoneAssumption DEF HandleChanged, Handled, NotReading
  <1>5. CASE DebounceEnds \/ ChangesHandled
    BY <1>5 DEF DebounceEnds, ChangesHandled
  <1>6. CASE Read \/ ReadFails
    BY <1>6 DEF Read, ReadFails, NotReading
  <1>7. CASE Reread
    BY <1>7 DEF Reread, NotReading, Db!Write
  <1> QED  BY <1>1, <1>2, <1>3, <1>4, <1>5, <1>6, <1>7

(***************************************************************************)
(* No change made while the program watches is forgotten, however it falls *)
(* between the steps of the loop, unless the file could not be read when   *)
(* it was announced (watcher.rs wait, analyze.rs run_watch_mode).          *)
(***************************************************************************)
THEOREM Remembered == Spec => []NothingForgotten
  <1>1. Init => ChangesArePending
    BY DEF Init, ChangesArePending, Pending, Db!Init, Db!NoFiles
  <1>2. TypeOK /\ ChangesArePending /\ [Next]_vars => ChangesArePending'
    BY PendingUser, PendingRound, PendingWait DEF Next, LoopStep
  <1>3. TypeOK /\ ChangesArePending => NothingForgotten
    BY NoneAssumption DEF TypeOK, ChangesArePending, Pending, NothingForgotten, NotReading
  <1> QED  BY <1>1, <1>2, <1>3, Typing, PTL DEF Spec

-----------------------------------------------------------------------------
(* The files the loop knows to be analysed again. *)
ToAnalyze ==
    UNION { events,
            IF pc \in {"Writing", "Debouncing", "Handling", "Reading", "Rereading"}
            THEN todo ELSE {},
            IF pc \in {"Updating", "Analyzing", "Fixing", "Debouncing", "Handling", "Reading",
                       "Rereading"}
            THEN hint ELSE {} }

AnalysisIsPending ==
    /\ pc \notin {"Loading", "Configuring", "Exited"} =>
          \A f \in Files : analyzed[f] # contents[f] => f \in ToAnalyze
    /\ pc = "Analyzing" => snapshots[Service] = contents
    /\ pc \in {"Reading", "Rereading"} => reading.file \in hint

(***************************************************************************)
(* The user's steps do not touch what the database and the analysis have.  *)
(***************************************************************************)
LEMMA AnalysisUser ==
    ASSUME TypeOK, AnalysisIsPending,
           \/ \E f \in Files, c \in Contents \cup {Missing} : Edit(f, c)
           \/ EditConfig
           \/ UNCHANGED vars
    PROVE  AnalysisIsPending'
  <1>1. CASE \E f \in Files, c \in Contents \cup {Missing} : Edit(f, c)
    BY <1>1 DEF Edit, Changed, TypeOK, AnalysisIsPending, ToAnalyze, database, session
  <1>2. CASE EditConfig
    BY <1>2 DEF EditConfig, AnalysisIsPending, ToAnalyze, database
  <1>3. CASE UNCHANGED vars
    BY <1>3 DEF vars, AnalysisIsPending, ToAnalyze, database, session
  <1> QED  BY <1>1, <1>2, <1>3

(***************************************************************************)
(* The round of the loop analyses what is announced, and announces what it *)
(* fixes; this needs the watcher to be running when the fixes are written. *)
(***************************************************************************)
LEMMA AnalysisRound ==
    ASSUME TypeOK, ChangesArePending, AnalysisIsPending,
           \/ \E f \in Files : Load(f) \/ ApplyFix(f) \/ WriteFix(f)
           \/ Watch \/ WatchConfig \/ UpdateDatabase \/ Analyze
           \/ Report \/ StartFixing \/ StartWriting \/ FixesWritten \/ Exit \/ Restart
    PROVE  AnalysisIsPending'
  <1> USE DEF TypeOK, AnalysisIsPending, ToAnalyze, database, user, session
  <1>1. CASE \E f \in Files : Load(f)
    BY <1>1 DEF Load
  <1>2. CASE \E f \in Files : ApplyFix(f)
    BY <1>2 DEF ApplyFix, Db!Write
  <1>3. CASE \E f \in Files : WriteFix(f)
    BY <1>3 DEF WriteFix, Changed, ChangesArePending
  <1>4. CASE Watch \/ WatchConfig
    BY <1>4 DEF Watch, WatchConfig
  <1>5. CASE UpdateDatabase
    BY <1>5 DEF UpdateDatabase, Db!TakeSnapshot
  <1>6. CASE Analyze
    BY <1>6 DEF Analyze
  <1>7. CASE Report \/ StartFixing \/ StartWriting \/ FixesWritten \/ Exit
    BY <1>7 DEF Report, StartFixing, StartWriting, FixesWritten, Exit
  <1>8. CASE Restart
    BY <1>8 DEF Restart
  <1> QED  BY <1>1, <1>2, <1>3, <1>4, <1>5, <1>6, <1>7, <1>8

(***************************************************************************)
(* DatabaseWatcher::wait names every file it changes in the database.      *)
(***************************************************************************)
LEMMA AnalysisWait ==
    ASSUME TypeOK, AnalysisIsPending,
           \/ \E f \in Files : Receive(f)
           \/ \E f \in Files : HandleNew(f) \/ HandleUnreadable(f)
           \/ \E f \in Files : HandleGone(f) \/ HandleChanged(f)
           \/ DebounceEnds \/ Read \/ ReadFails \/ Reread \/ ChangesHandled
    PROVE  AnalysisIsPending'
  <1> USE DEF TypeOK, AnalysisIsPending, ToAnalyze, database, user, session
  <1>1. CASE \E f \in Files : Receive(f)
    BY <1>1 DEF Receive
  <1>2. CASE \E f \in Files : HandleNew(f) \/ HandleUnreadable(f)
    BY <1>2 DEF HandleNew, HandleUnreadable, Handled, Db!Write
  <1>3. CASE \E f \in Files : HandleGone(f)
    BY <1>3 DEF HandleGone, Handled, Db!Remove
  <1>4. CASE \E f \in Files : HandleChanged(f)
    BY <1>4 DEF HandleChanged, Handled
  <1>5. CASE DebounceEnds \/ ChangesHandled
    BY <1>5 DEF DebounceEnds, ChangesHandled
  <1>6. CASE Read \/ ReadFails
    BY <1>6 DEF Read, ReadFails, NotReading
  <1>7. CASE Reread
    BY <1>7 DEF Reread, NotReading, Db!Write
  <1> QED  BY <1>1, <1>2, <1>3, <1>4, <1>5, <1>6, <1>7

(***************************************************************************)
(* When the loop waits, the analysis is about what the database has, but   *)
(* for files whose fix is announced: the files wait names are enough for   *)
(* the incremental analysis (analyze.rs run_watch_mode,                    *)
(* incremental_analysis.rs analyze_incremental).                           *)
(***************************************************************************)
THEOREM AnalysisFollows == Spec => []AnalysisIsCurrent
  <1>1. Init => AnalysisIsPending /\ ChangesArePending
    BY DEF Init, AnalysisIsPending, ChangesArePending, Pending, Db!Init, Db!NoFiles
  <1>2. TypeOK /\ ChangesArePending /\ [Next]_vars => ChangesArePending'
    BY PendingUser, PendingRound, PendingWait DEF Next, LoopStep
  <1>3. TypeOK /\ ChangesArePending /\ AnalysisIsPending /\ [Next]_vars => AnalysisIsPending'
    BY AnalysisUser, AnalysisRound, AnalysisWait DEF Next, LoopStep
  <1>4. AnalysisIsPending => AnalysisIsCurrent
    BY DEF AnalysisIsPending, ToAnalyze, AnalysisIsCurrent
  <1> QED  BY <1>1, <1>2, <1>3, <1>4, Typing, PTL DEF Spec
===============================================================================
