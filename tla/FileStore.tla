------------------------------ MODULE FileStore ------------------------------
(***************************************************************************)
(* What the file database of crates/database promises to its users: a map  *)
(* from logical file names to contents, and snapshots of it that keep what *)
(* they showed when they were taken ("The snapshot stays unchanged when    *)
(* the original database changes", lib.rs).                                *)
(***************************************************************************)
CONSTANTS
    Names,      \* the logical names of files
    Contents,   \* what a file may contain
    Missing,    \* stands for the content of a file that is not there
    Readers     \* the owners of snapshots

VARIABLES
    contents,   \* Names -> Contents \cup {Missing}
    snapshots   \* Readers -> what the reader's snapshot shows

NoFiles == [n \in Names |-> Missing]

Init ==
    /\ contents = NoFiles
    /\ snapshots = [r \in Readers |-> NoFiles]

Write(n, c) ==
    /\ contents' = [contents EXCEPT ![n] = c]
    /\ UNCHANGED snapshots

Remove(n) ==
    /\ contents' = [contents EXCEPT ![n] = Missing]
    /\ UNCHANGED snapshots

TakeSnapshot(r) ==
    /\ snapshots' = [snapshots EXCEPT ![r] = contents]
    /\ UNCHANGED contents

DropSnapshot(r) ==
    /\ snapshots' = [snapshots EXCEPT ![r] = NoFiles]
    /\ UNCHANGED contents

Next ==
    \/ \E n \in Names, c \in Contents : Write(n, c)
    \/ \E n \in Names : Remove(n)
    \/ \E r \in Readers : TakeSnapshot(r) \/ DropSnapshot(r)

Spec == Init /\ [][Next]_<<contents, snapshots>>
==============================================================================
