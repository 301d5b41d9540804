------------------------------- MODULE WatchMode -------------------------------
(***************************************************************************)
(* Watch mode: the loop of `mago analyze --watch' with the file watcher of *)
(* crates/database.  The user edits files and the configuration at any     *)
(* time; the operating system tells the watcher which files changed, with  *)
(* any delay; the loop takes the changes into the database, analyses what  *)
(* changed and may write fixes back to disk.                               *)
(*                                                                         *)
(* The database is used as FileStore promises, the analysis as a function  *)
(* of the contents it was last told of, file by file.                      *)
(***************************************************************************)
EXTENDS Naturals

CONSTANTS
    Files,          \* the PHP files the configuration selects
    Contents,       \* what a file may contain
    Missing,        \* the file does not exist
    Nothing,        \* no file is being read
    Service,        \* the incremental analysis service, a reader of the database
    Fix,            \* Contents -> Contents: the content once its fixes are applied
    Unreadable,     \* the files that may exist and not be readable for a while
    InvalidConfigs, \* the versions of the configuration that do not load
    MaxEdits,       \* bound: how often the user changes files
    MaxConfigs,     \* bound: how often the user changes the configuration
    MaxChanges      \* bound: how often the user changes either

ASSUME BoundAssumption ==
    MaxEdits \in Nat /\ MaxConfigs \in Nat /\ MaxChanges \in Nat

ASSUME NoneAssumption == Missing \notin Contents /\ Nothing \notin Files

\* A fixed file needs no fix.
ASSUME FixAssumption ==
    /\ Fix \in [Contents -> Contents]
    /\ \A c \in Contents : Fix[Fix[c]] = Fix[c]

VARIABLES
    contents,       \* the database, as in FileStore
    snapshots,      \* the snapshot the service works on
    disk,           \* the files
    events,         \* the files with a notification under way to the loop
    fixing,         \* whether the program runs with --fix
    edits,          \* how many times the user has changed a file
    config,         \* the version of the configuration on disk
    used,           \* the version of the configuration in use
    restart,        \* restart_receiver has a reason to restart
    configWatched,  \* whether changes of the configuration are noticed
    watching,       \* whether changes of files are noticed
    pc,             \* where the loop is
    todo,           \* the files still to load, to handle, to fix or to write
    hint,           \* changed_ids
    reading,        \* the file read_stable_contents is at, and what it read first
    analyzed,       \* the content the last analysis of each file was about
    missed,         \* history: the files changed after they were loaded and
                    \* before the watcher was started
    unread,         \* history: the files that exist, but could not be read when
                    \* their last notification was handled
    configMissed    \* history: the configuration changed while it was not watched:
                    \* before its watcher was started, or for want of one

Db == INSTANCE FileStore WITH Names <- Files, Readers <- {Service}

database == <<contents, snapshots>>
user     == <<fixing, edits, config>>
session  == <<used, restart, configWatched, watching, configMissed>>
history  == <<missed, unread>>
vars     == <<database, disk, events, user, session, pc, todo, hint, reading,
              analyzed, history>>

Places ==
    {"Loading", "Configuring", "Updating", "Analyzing", "Processing", "Fixing",
     "Writing", "Waiting", "Debouncing", "Handling", "Reading", "Rereading", "Exited"}

NotReading == [file |-> Nothing, first |-> Missing]

-----------------------------------------------------------------------------
Init ==
    /\ Db!Init
    /\ disk \in [Files -> Contents \cup {Missing}]
    /\ fixing \in BOOLEAN
    /\ events = {} /\ edits = 0
    /\ config = 0 /\ used = 0 /\ restart = FALSE
    /\ configWatched = FALSE /\ watching = FALSE
    /\ pc = "Loading" /\ todo = Files /\ hint = {} /\ reading = NotReading
    /\ analyzed = Db!NoFiles
    /\ missed = {} /\ unread = {} /\ configMissed = FALSE

\* A file is written, created or removed: handle_event announces it if the watcher
\* runs.  Several notifications about one file are as good as one.
Changed(f, content) ==
    /\ disk' = [disk EXCEPT ![f] = content]
    /\ events' = IF watching THEN events \cup {f} ELSE events
    /\ missed' = IF ~ watching /\ ~ (pc = "Loading" /\ f \in todo)
                 THEN missed \cup {f} ELSE missed
    /\ UNCHANGED unread

Edit(f, content) ==
    /\ edits < MaxEdits /\ edits + config < MaxChanges /\ pc # "Exited"
    /\ disk[f] # content
    /\ Changed(f, content)
    /\ edits' = edits + 1
    /\ UNCHANGED <<database, fixing, config, session, pc, todo, hint, reading,
                   analyzed>>

EditConfig ==
    /\ config < MaxConfigs /\ edits + config < MaxChanges /\ pc # "Exited"
    /\ config' = config + 1
    /\ restart' = (restart \/ configWatched)
    /\ configMissed' = (configMissed \/ ~ configWatched)
    /\ UNCHANGED <<database, disk, events, fixing, edits, used, configWatched, watching,
                   pc, todo, hint, reading, analyzed, history>>

-----------------------------------------------------------------------------
(* The start of a session *)

\* load_database reads the files that exist.
Load(f) ==
    /\ pc = "Loading" /\ f \in todo
    /\ IF disk[f] = Missing THEN UNCHANGED database ELSE Db!Write(f, disk[f])
    /\ todo' = todo \ {f}
    /\ UNCHANGED <<disk, events, user, session, pc, hint, reading, analyzed, history>>

\* DatabaseWatcher::watch
Watch ==
    /\ pc = "Loading" /\ todo = {}
    /\ watching' = TRUE
    /\ pc' = "Configuring"
    /\ UNCHANGED <<database, disk, events, user, used, restart, configWatched,
                   configMissed, todo, hint, reading, analyzed, history>>

\* setup_restart_watcher: a directory that cannot be watched is only warned about.
WatchConfig ==
    /\ pc = "Configuring"
    /\ configWatched' \in BOOLEAN
    /\ pc' = "Updating" /\ hint' = Files
    /\ UNCHANGED <<database, disk, events, user, used, restart, watching, configMissed,
                   todo, reading, analyzed, history>>

-----------------------------------------------------------------------------
(* One round of the loop *)

\* update_database (at the start: the new service's first snapshot)
UpdateDatabase ==
    /\ pc = "Updating"
    /\ Db!TakeSnapshot(Service)
    /\ pc' = "Analyzing"
    /\ UNCHANGED <<disk, events, user, session, todo, hint, reading, analyzed, history>>

\* Mutant: files the service has seen are taken as unchanged.
AnalyzeNewFiles ==
    /\ pc = "Analyzing"
    /\ analyzed' = [f \in Files |->
                      IF analyzed[f] = Missing \/ snapshots[Service][f] = Missing
                      THEN snapshots[Service][f] ELSE analyzed[f]]
    /\ pc' = "Processing"
    /\ UNCHANGED <<database, disk, events, user, session, todo, hint, reading, history>>

\* analyze, analyze_incremental: a file that is not announced is taken as unchanged,
\* unless it is new or gone.
Analyze ==
    /\ pc = "Analyzing"
    /\ analyzed' = [f \in Files |->
                      IF \/ f \in hint
                         \/ analyzed[f] = Missing
                         \/ snapshots[Service][f] = Missing
                      THEN snapshots[Service][f] ELSE analyzed[f]]
    /\ pc' = "Processing"
    /\ UNCHANGED <<database, disk, events, user, session, todo, hint, reading, history>>

\* What the fixes for the issues of `f' make of the file: they are made for the
\* content that was analysed.
Fixed(f) ==
    IF analyzed[f] = Missing \/ Fix[analyzed[f]] = analyzed[f] THEN {contents[f]}
    ELSE IF analyzed[f] = contents[f] THEN {Fix[contents[f]]}
    ELSE Contents

\* process_issues without --fix
Report ==
    /\ pc = "Processing" /\ ~ fixing
    /\ pc' = "Waiting"
    /\ UNCHANGED <<database, disk, events, user, session, todo, hint, reading,
                   analyzed, history>>

\* process_issues with --fix: commit applies the fixes to the database ...
StartFixing ==
    /\ pc = "Processing" /\ fixing
    /\ pc' = "Fixing" /\ todo' = {f \in Files : Fixed(f) # {contents[f]}}
    /\ hint' = {}
    /\ UNCHANGED <<database, disk, events, user, session, reading, analyzed, history>>

ApplyFix(f) ==
    /\ pc = "Fixing" /\ f \in todo
    /\ \E c \in Fixed(f) :
          /\ Db!Write(f, c)
          /\ hint' = IF c = contents[f] THEN hint ELSE hint \cup {f}
    /\ todo' = todo \ {f}
    /\ UNCHANGED <<disk, events, user, session, pc, reading, analyzed, history>>

\* ... and then writes the changed files.
StartWriting ==
    /\ pc = "Fixing" /\ todo = {}
    /\ pc' = "Writing" /\ todo' = hint
    /\ UNCHANGED <<database, disk, events, user, session, hint, reading, analyzed,
                   history>>

WriteFix(f) ==
    /\ pc = "Writing" /\ f \in todo
    /\ Changed(f, contents[f])
    /\ todo' = todo \ {f}
    /\ UNCHANGED <<database, user, session, pc, hint, reading, analyzed>>

FixesWritten ==
    /\ pc = "Writing" /\ todo = {}
    /\ pc' = "Waiting"
    /\ UNCHANGED <<database, disk, events, user, session, todo, hint, reading,
                   analyzed, history>>

\* An error while loading, watching, analysing or writing ends the program.
Exit ==
    /\ pc \in {"Loading", "Configuring", "Analyzing", "Writing"}
    /\ pc' = "Exited"
    /\ UNCHANGED <<database, disk, events, user, session, todo, hint, reading,
                   analyzed, history>>

\* Mutant: the new session goes on with the configuration of the last one.
RestartWithOld ==
    /\ pc = "Waiting" /\ restart
    /\ used' = used
    /\ restart' = FALSE /\ configWatched' = FALSE /\ watching' = FALSE
    /\ configMissed' = FALSE
    /\ events' = {} /\ missed' = {} /\ unread' = {}
    /\ pc' = "Loading" /\ todo' = Files /\ hint' = {}
    /\ contents' = Db!NoFiles /\ snapshots' = [r \in {Service} |-> Db!NoFiles]
    /\ analyzed' = Db!NoFiles
    /\ UNCHANGED <<disk, user, reading>>

\* run_watch_loop starts a new session with the configuration it can load; what the
\* old watchers still had to say is dropped.
Restart ==
    /\ pc = "Waiting" /\ restart
    /\ used' = IF config \in InvalidConfigs THEN used ELSE config
    /\ restart' = FALSE /\ configWatched' = FALSE /\ watching' = FALSE
    /\ configMissed' = FALSE
    /\ events' = {} /\ missed' = {} /\ unread' = {}
    /\ pc' = "Loading" /\ todo' = Files /\ hint' = {}
    /\ contents' = Db!NoFiles /\ snapshots' = [r \in {Service} |-> Db!NoFiles]
    /\ analyzed' = Db!NoFiles
    /\ UNCHANGED <<disk, user, reading>>

-----------------------------------------------------------------------------
(* DatabaseWatcher::wait *)

\* A notification ends the wait or prolongs the debounce.
Receive(f) ==
    /\ pc \in {"Waiting", "Debouncing"} /\ f \in events
    /\ events' = events \ {f}
    /\ todo' = todo \cup {f}
    /\ hint' = IF pc = "Waiting" THEN {} ELSE hint
    /\ pc' = "Debouncing"
    /\ UNCHANGED <<database, disk, user, session, reading, analyzed, history>>

\* Mutant: what arrives while the changes are handled is thrown away.
DebounceDropping ==
    /\ pc = "Debouncing"
    /\ pc' = "Handling" /\ events' = {}
    /\ UNCHANGED <<database, disk, user, session, todo, hint, reading, analyzed, history>>

\* For WAIT_DEBOUNCE_MS no notification has arrived (some may still be under way).
DebounceEnds ==
    /\ pc = "Debouncing"
    /\ pc' = "Handling"
    /\ UNCHANGED <<database, disk, events, user, session, todo, hint, reading,
                   analyzed, history>>

\* A file is off the list; `lost' holds it if it could not be read.
Handled(f, lost) ==
    /\ todo' = todo \ {f}
    /\ hint' = hint \cup {f}
    /\ missed' = missed \ {f}
    /\ unread' = (unread \ {f}) \cup lost

\* The database does not have the file: it is added if it exists ...
HandleNew(f) ==
    /\ pc = "Handling" /\ f \in todo
    /\ contents[f] = Missing
    /\ IF disk[f] = Missing THEN UNCHANGED database ELSE Db!Write(f, disk[f])
    /\ Handled(f, {})
    /\ UNCHANGED <<disk, events, user, session, pc, reading, analyzed>>

\* ... and File::read can read it; if not, an error is logged.
HandleUnreadable(f) ==
    /\ pc = "Handling" /\ f \in todo
    /\ contents[f] = Missing /\ disk[f] # Missing /\ f \in Unreadable
    /\ Handled(f, {f})
    /\ UNCHANGED <<database, disk, events, user, session, pc, reading, analyzed>>

HandleGone(f) ==
    /\ pc = "Handling" /\ f \in todo
    /\ contents[f] # Missing /\ disk[f] = Missing
    /\ Db!Remove(f)
    /\ Handled(f, {})
    /\ UNCHANGED <<disk, events, user, session, pc, reading, analyzed>>

HandleChanged(f) ==
    /\ pc = "Handling" /\ f \in todo
    /\ contents[f] # Missing /\ disk[f] # Missing
    /\ pc' = "Reading" /\ reading' = [file |-> f, first |-> Missing]
    /\ Handled(f, {})
    /\ UNCHANGED <<database, disk, events, user, session, analyzed>>

\* Mutant: a file that cannot be read is taken for one that was.
ReadUnchecked ==
    /\ pc = "Reading"
    /\ pc' = "Rereading" /\ reading' = [reading EXCEPT !.first = disk[reading.file]]
    /\ UNCHANGED <<database, disk, events, user, session, todo, hint, analyzed, history>>

\* read_stable_contents reads the file.
Read ==
    /\ pc = "Reading" /\ disk[reading.file] # Missing
    /\ pc' = "Rereading" /\ reading' = [reading EXCEPT !.first = disk[reading.file]]
    /\ UNCHANGED <<database, disk, events, user, session, todo, hint, analyzed, history>>

\* It cannot: the database keeps what it has, and an error is logged.
ReadFails ==
    LET f == reading.file
    IN  /\ pc = "Reading" /\ (disk[f] = Missing \/ f \in Unreadable)
        /\ pc' = "Handling" /\ reading' = NotReading
        /\ unread' = IF disk[f] = Missing THEN unread ELSE unread \cup {f}
        /\ UNCHANGED <<database, disk, events, user, session, todo, hint, analyzed,
                       missed>>

\* After STABILITY_CHECK_MS it reads it again, once, and takes what it finds, or what
\* it has if it finds nothing.
Reread ==
    LET f == reading.file
    IN  /\ pc = "Rereading"
        /\ \E found \in {reading.first, disk[f]} \ {Missing} : Db!Write(f, found)
        /\ pc' = "Handling" /\ reading' = NotReading
        /\ UNCHANGED <<disk, events, user, session, todo, hint, analyzed, history>>

ChangesHandled ==
    /\ pc = "Handling" /\ todo = {}
    /\ pc' = "Updating"
    /\ UNCHANGED <<database, disk, events, user, session, todo, hint, reading,
                   analyzed, history>>

-----------------------------------------------------------------------------
\* What the loop does by itself while no error ends it.
LoopStep ==
    \/ \E f \in Files : Load(f) \/ ApplyFix(f) \/ WriteFix(f)
    \/ \E f \in Files : HandleNew(f) \/ HandleUnreadable(f)
    \/ \E f \in Files : HandleGone(f) \/ HandleChanged(f)
    \/ Watch \/ WatchConfig \/ UpdateDatabase \/ Analyze
    \/ Report \/ StartFixing \/ StartWriting \/ FixesWritten
    \/ DebounceEnds \/ Read \/ ReadFails \/ Reread \/ ChangesHandled

Next ==
    \/ \E f \in Files, c \in Contents \cup {Missing} : Edit(f, c)
    \/ EditConfig
    \/ LoopStep
    \/ \E f \in Files : Receive(f)
    \/ Restart
    \/ Exit

Spec == Init /\ [][Next]_vars

\* The loop runs; notifications arrive and a reason to restart is seen, in the end.
FairSpec ==
    /\ Spec
    /\ WF_vars(LoopStep)
    /\ \A f \in Files : WF_vars(Receive(f))
    /\ WF_vars(Restart)

-----------------------------------------------------------------------------
(* The types of the variables of watch mode; a file is read a second time only if it
   could be read at first. *)
TypeOK ==
    /\ contents \in [Files -> Contents \cup {Missing}]
    /\ snapshots \in [{Service} -> [Files -> Contents \cup {Missing}]]
    /\ disk \in [Files -> Contents \cup {Missing}]
    /\ analyzed \in [Files -> Contents \cup {Missing}]
    /\ events \subseteq Files /\ todo \subseteq Files /\ hint \subseteq Files
    /\ missed \subseteq Files /\ unread \subseteq Files
    /\ edits \in 0..MaxEdits /\ config \in 0..MaxConfigs /\ used \in 0..config
    /\ fixing \in BOOLEAN /\ restart \in BOOLEAN /\ watching \in BOOLEAN
    /\ configWatched \in BOOLEAN /\ configMissed \in BOOLEAN
    /\ pc \in Places
    /\ pc = "Reading" => reading \in [file : Files, first : {Missing}]
    /\ pc = "Rereading" => reading \in [file : Files, first : Contents]
    /\ pc \notin {"Reading", "Rereading"} => reading = NotReading

\* No change is forgotten: when the loop waits, a file that differs from what the
\* database has is announced, whenever it changed in the round before (while it was
\* being read, analysed or fixed).  Lost is only what changed between the load of the
\* database and the start of the watcher, and a file that could not be read.
NothingForgotten ==
    pc = "Waiting" =>
        \A f \in Files : disk[f] # contents[f] => f \in events \cup missed \cup unread

\* The hint is enough: when the loop waits, the analysis is about what the database
\* has, except for files whose own fix has just been written and is announced.
AnalysisIsCurrent ==
    pc = "Waiting" =>
        \A f \in Files : analyzed[f] # contents[f] => f \in events

\* A fix is applied to content it was not made for.
StaleFix == \E f \in Files : ApplyFix(f) /\ analyzed[f] # contents[f]

\* Once the user stops, the database catches up with the files that can be read, the
\* analysis with the database, and the session with a configuration that was changed
\* while it was watched, without another edit to wake the loop; unless fixes of files
\* that are not analysed again change each other's files for ever.
Converges ==
    \/ <>[](\/ pc = "Exited"
            \/ /\ \A f \in Files \ (missed \cup unread) : disk[f] = contents[f]
               /\ analyzed = contents
               /\ restart = FALSE
               /\ used = config \/ config \in InvalidConfigs \/ configMissed)
    \/ []<><<StaleFix>>_vars
===============================================================================
