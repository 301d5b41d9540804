------------------------------ MODULE TextEditor ------------------------------
(***************************************************************************)
(* TextEditor of crates/text-edit: the edits that fix one file.  Edits     *)
(* refer to the original text by offset; an edit or a batch of edits is    *)
(* accepted as a whole or not at all; finish() writes them in one pass.    *)
(* `mago --fix' gives it one batch per issue, from rules that know nothing *)
(* of each other, with a check that the text they give is still PHP.       *)
(***************************************************************************)
EXTENDS Integers, FiniteSets, Sequences, SequencesExt

CONSTANTS
    Source,         \* original_text, a sequence of bytes
    Edits,          \* the edits the callers offer
    Threshold,      \* safety_threshold
    MaxBatch,       \* bound: the edits of one batch
    MaxEdits        \* bound: the edits an editor accepts

Length == Len(Source)

Rank == [Safe |-> 0, PotentiallyUnsafe |-> 1, Unsafe |-> 2]

ASSUME EditAssumption ==
    /\ Edits \subseteq [start : Nat, end : Nat, text : Seq(STRING), safety : DOMAIN Rank]
    /\ Source \in Seq(STRING)
    /\ Threshold \in DOMAIN Rank
    /\ MaxBatch \in Nat /\ MaxEdits \in Nat

VARIABLES
    edits,          \* the accepted edits, in the order they are written
    output,         \* what finish() returned, NotFinished before
    offered,        \* history: the last call's edits
    result,         \* history: the last call's ApplyResult, or Aborted
    operation,      \* history: the last call
    accepted,       \* history: the edits in the order they were accepted
    approved,       \* history: the text the last check approved, if nothing
                    \* was accepted without a check since
    singly          \* history: every edit came by itself, through apply

editor  == <<edits, output>>
history == <<offered, result, operation, accepted, approved, singly>>
vars    == <<editor, history>>

NotFinished == <<"not finished">>
Unchecked   == <<"unchecked">>

Results == {"Applied", "OutOfBounds", "Overlap", "Rejected", "Unsafe", "PotentiallyUnsafe"}

\* The call asked for a buffer of a negative length: the program has ended.
Aborted == "Aborted"

\* What the caller's check says of the text it is shown; "None": there is no check.
Verdicts == {"None", "Accept", "Refuse"}

-----------------------------------------------------------------------------
(* Ranges *)

IsEmpty(e) == e.start = e.end

\* Mutant: ranges that touch overlap.
OverlapsTouching(e, f) ==
    \/ IsEmpty(e) /\ ~ IsEmpty(f) /\ e.start >= f.start /\ e.start <= f.end
    \/ ~ IsEmpty(e) /\ IsEmpty(f) /\ f.start >= e.start /\ f.start <= e.end
    \/ ~ IsEmpty(e) /\ ~ IsEmpty(f) /\ e.start <= f.end /\ f.start <= e.end

\* TextRange::overlaps
Overlaps(e, f) ==
    \/ IsEmpty(e) /\ ~ IsEmpty(f) /\ f.start < e.start /\ e.start < f.end
    \/ ~ IsEmpty(e) /\ IsEmpty(f) /\ e.start < f.start /\ f.start < e.end
    \/ ~ IsEmpty(e) /\ ~ IsEmpty(f) /\ e.start < f.end /\ f.start < e.end

\* The order edits are sorted and merged in: by start, then by end.
Precedes(e, f) == e.start < f.start \/ (e.start = f.start /\ e.end < f.end)

\* The elements of s whose indices `place' is defined for, each at its place.
Arranged(s, place) ==
    [k \in 1..Cardinality(DOMAIN place) |-> s[CHOOSE i \in DOMAIN place : place[i] = k]]

\* Mutant: the end is left out of the order.
InOrderStartOnly(s) ==
    LET upTo(i) == {j \in DOMAIN s : \/ s[j].start < s[i].start
                                     \/ s[j].start = s[i].start /\ j <= i}
    IN  Arranged(s, [i \in DOMAIN s |-> Cardinality(upTo(i))])

\* Mutant: the sort is not stable.
InOrderUnstable(s) ==
    LET upTo(i) == {j \in DOMAIN s : \/ Precedes(s[j], s[i])
                                     \/ ~ Precedes(s[i], s[j]) /\ i <= j}
    IN  Arranged(s, [i \in DOMAIN s |-> Cardinality(upTo(i))])

\* A stable sort: the place of an edit is the number of edits up to it.
InOrder(s) ==
    LET upTo(i) == {j \in DOMAIN s : \/ Precedes(s[j], s[i])
                                     \/ ~ Precedes(s[i], s[j]) /\ j <= i}
    IN  Arranged(s, [i \in DOMAIN s |-> Cardinality(upTo(i))])

OutOfBounds(e) == e.end > Length \/ e.start > e.end

\* check_safety
TooUnsafe(e) == Rank[e.safety] > Rank[Threshold]

-----------------------------------------------------------------------------
(* Writing *)

\* One turn of the loop of stitch and stitch_merged.
Write(page, e) ==
    [written |-> page.written \o SubSeq(Source, page.upto + 1, e.start) \o e.text,
     upto    |-> e.end]

\* stitch: the page after each edit.
Stitch(s) ==
    LET page[k \in 0..Len(s)] ==
            IF k = 0 THEN [written |-> <<>>, upto |-> 0] ELSE Write(page[k - 1], s[k])
        last == page[Len(s)]
    IN  last.written \o SubSeq(Source, last.upto + 1, Length)

\* Two lists gone through side by side: how many of the first k turns go on in the old
\* list.  At <<i, j>>, with i old and j new edits behind, a turn does so if the pair is in
\* `oldFirst', and goes on in the new list if not.
Turns(n, oldFirst) ==
    LET passed[k \in 0..n] ==
            IF k = 0 THEN 0
            ELSE LET i == passed[k - 1]
                 IN  IF <<i, k - 1 - i>> \in oldFirst THEN i + 1 ELSE i
    IN  passed

\* The edits in the order of the turns.
InTurn(old, new, oldFirst) ==
    LET passed == Turns(Len(old) + Len(new), oldFirst)
    IN  [k \in 1..Len(old) + Len(new) |->
            LET i == passed[k - 1]
                j == k - 1 - i
            IN  IF <<i, j>> \in oldFirst THEN old[i + 1] ELSE new[j + 1]]

\* Mutant: of equal ranges the new edit comes first.
MergedNewFirst(old, new) ==
    InTurn(old, new, {at \in (0..Len(old) - 1) \X (0..Len(new)) :
                         at[2] < Len(new) => Precedes(old[at[1] + 1], new[at[2] + 1])})

\* The order in which stitch_merged goes through two sorted lists: the edit that comes
\* first, the accepted one of equal ranges.
Merged(old, new) ==
    InTurn(old, new, {at \in (0..Len(old) - 1) \X (0..Len(new)) :
                         at[2] < Len(new) => ~ Precedes(new[at[2] + 1], old[at[1] + 1])})

\* final_len of stitch_merged, without the wrap of its unsigned arithmetic: what is
\* below zero wraps to more than a buffer can hold, and Vec::with_capacity aborts.
FinalLen(s) ==
    FoldLeft(LAMBDA n, e : n - (e.end - e.start) + Len(e.text), Length, s)

-----------------------------------------------------------------------------
(* Accepting *)

\* Nothing is accepted; the caller is told `answer'.
Return(answer) ==
    /\ result' = answer
    /\ UNCHANGED <<edits, output, accepted, approved, singly>>

\* The caller's check of the text with the edits `new', or no check; then they are taken.
CheckAndTake(new, after, isSingle) ==
    LET simulated == Merged(edits, new)
    IN  \E verdict \in Verdicts :
          \/ /\ verdict # "None" /\ FinalLen(simulated) < 0
             /\ Return(Aborted)
          \/ /\ verdict = "Refuse" /\ FinalLen(simulated) >= 0
             /\ Return("Rejected")
          \/ /\ verdict = "Accept" => FinalLen(simulated) >= 0
             /\ verdict # "Refuse"
             /\ edits' = after
             /\ result' = "Applied"
             /\ accepted' = accepted \o new
             /\ approved' = IF verdict = "Accept" THEN Stitch(simulated) ELSE Unchecked
             /\ singly' = (singly /\ isSingle)
             /\ UNCHANGED output

Open(new) ==
    /\ output = NotFinished /\ result # Aborted
    /\ Len(accepted) + Len(new) <= MaxEdits
    /\ offered' = new

-----------------------------------------------------------------------------
(* One edit at a time *)

\* Mutant: the search stops at an edit that ends where the new one starts.
PlacesBefore(e) ==
    {i \in 0..Len(edits) : /\ i > 0 => edits[i].end < e.start
                           /\ i < Len(edits) => e.start <= edits[i + 1].end}

\* The places where the binary search of partition_point can end: one, as long as the
\* accepted edits do not overlap.
Places(e) ==
    {i \in 0..Len(edits) : /\ i > 0 => edits[i].end <= e.start
                           /\ i < Len(edits) => e.start < edits[i + 1].end}


Apply(e) ==
    /\ Open(<<e>>)
    /\ operation' = "apply"
    /\ \/ TooUnsafe(e) /\ Return(e.safety)
       \/ /\ ~ TooUnsafe(e) /\ OutOfBounds(e)
          /\ Return("OutOfBounds")
       \/ /\ ~ TooUnsafe(e) /\ ~ OutOfBounds(e)
          /\ \E i \in Places(e) :
                IF i < Len(edits) /\ Overlaps(edits[i + 1], e)
                THEN Return("Overlap")
                ELSE CheckAndTake(<<e>>, InsertAt(edits, i + 1, e), TRUE)

-----------------------------------------------------------------------------
(* Batches *)

\* Of a pair without an overlap the edit that starts first is left behind, the new one
\* if they start together; the loop ends with one of the lists.
Conflict(old, new) ==
    LET pairs  == (0..Len(old) - 1) \X (0..Len(new) - 1)
        passed == Turns(Len(old) + Len(new),
                        {at \in pairs : old[at[1] + 1].start < new[at[2] + 1].start})
    IN  \E k \in 0..Len(old) + Len(new) :
            LET i == passed[k]
                j == k - i
            IN  <<i, j>> \in pairs /\ Overlaps(old[i + 1], new[j + 1])

\* Mutant: edits in the way of accepted ones are left out, the others taken.
ApplyBatchPartly(batch) ==
    LET free == SelectSeq(InOrder(batch), LAMBDA e :
                    ~ TooUnsafe(e) /\ ~ OutOfBounds(e) /\ ~ Conflict(edits, <<e>>))
    IN  CheckAndTake(free, InOrder(edits \o free), FALSE)

\* apply_batch
ApplyBatch(batch) ==
    LET new   == InOrder(batch)
        risky == {i \in DOMAIN batch : TooUnsafe(batch[i])}
        wrong == {i \in DOMAIN new : \/ OutOfBounds(new[i])
                                     \/ i > 1 /\ Overlaps(new[i - 1], new[i])}
    IN  \/ batch = <<>> /\ Return("Applied")
        \/ risky # {} /\ Return(batch[Min(risky)].safety)
        \/ /\ risky = {} /\ wrong # {}
           /\ Return(IF OutOfBounds(new[Min(wrong)]) THEN "OutOfBounds" ELSE "Overlap")
        \/ /\ batch # <<>> /\ risky = {} /\ wrong = {}
           /\ IF Conflict(edits, new)
              THEN Return("Overlap")
              ELSE CheckAndTake(new, InOrder(edits \o new), FALSE)

ApplyWholeBatch(batch) ==
    /\ Open(batch)
    /\ operation' = "apply_batch"
    /\ ApplyBatch(batch)

\* The edits of a batch at the indices `kept', in their order.
Retained(batch, kept) ==
    Arranged(batch, [i \in kept |-> Cardinality({j \in kept : j <= i})])

\* Mutant: only the first accepted edit of the same range is compared.
MissingFirst(batch) ==
    LET same(e) == {i \in DOMAIN edits : edits[i].start = e.start /\ edits[i].end = e.end}
    IN  Retained(batch, {k \in DOMAIN batch : \/ same(batch[k]) = {}
                                              \/ edits[Min(same(batch[k]))] # batch[k]})

\* The edits of a batch that are not yet accepted.  The accepted ones are in order, so
\* the binary search for the first with the same range and the run of those with the
\* same range find an equal one if there is one.
Missing(batch) ==
    Retained(batch, {k \in DOMAIN batch : \A i \in DOMAIN edits : edits[i] # batch[k]})

\* apply_unique_batch
ApplyUniqueBatch(batch) ==
    /\ Open(batch)
    /\ operation' = "apply_unique_batch"
    /\ ApplyBatch(Missing(batch))

Finish ==
    /\ output = NotFinished /\ result # Aborted
    /\ output' = Stitch(edits)
    /\ UNCHANGED <<edits, history>>

-----------------------------------------------------------------------------
Init ==
    /\ edits = <<>> /\ output = NotFinished
    /\ offered = <<>> /\ result = "Applied" /\ operation = "apply"
    /\ accepted = <<>> /\ approved = Unchecked /\ singly = TRUE

Batches == BoundedSeq(Edits, MaxBatch)

Next ==
    \/ \E e \in Edits : Apply(e)
    \/ \E batch \in Batches : ApplyWholeBatch(batch)
    \/ \E batch \in Batches : ApplyUniqueBatch(batch)
    \/ Finish

Spec == Init /\ [][Next]_vars

-----------------------------------------------------------------------------
\* What the checks of range and safety let pass.
Acceptable == {e \in Edits : /\ e.start <= e.end /\ e.end <= Length
                             /\ Rank[e.safety] <= Rank[Threshold]}

\* The accepted edits are in the order they are written in, whichever operation put
\* them there: every binary search relies on it.
Sorted == \A i, j \in DOMAIN edits : i < j => ~ Precedes(edits[j], edits[i])

(* The types of the variables; an accepted edit lies in the text and is as safe as the
   threshold asks, also when a batch had others that are not, and the accepted edits are
   in order. *)
TypeOK ==
    /\ edits \in Seq(Acceptable)
    /\ Sorted
    /\ output = NotFinished \/ output \in Seq(STRING)
    /\ singly \in BOOLEAN
    /\ offered \in Seq(Edits) /\ accepted \in Seq(Edits)
    /\ result \in Results \cup {Aborted}
    /\ operation \in {"apply", "apply_batch", "apply_unique_batch"}
    /\ approved = Unchecked \/ approved \in Seq(STRING)

\* What `overlaps' is meant to be, byte by byte: two edits replace one byte, or one of
\* them inserts between two bytes the other replaces.
Bytes(e) == e.start..(e.end - 1)
InConflict(e, f) ==
    \/ Bytes(e) \cap Bytes(f) # {}
    \/ IsEmpty(e) /\ {e.start - 1, e.start} \subseteq Bytes(f)
    \/ IsEmpty(f) /\ {f.start - 1, f.start} \subseteq Bytes(e)

\* "It ensures all edits are valid, non-overlapping": no two accepted edits are in
\* each other's way.
NonOverlapping ==
    \A i, j \in DOMAIN edits : i # j => ~ InConflict(edits[i], edits[j])

\* Edits that come one by one, through `apply', never overlap: the binary search needs
\* to compare one accepted edit only.
SinglyNonOverlapping == singly => NonOverlapping

\* What the edits mean, byte by byte: at each offset the insertions in the order they
\* were accepted, then what replaces the bytes from there, or the byte if it is kept.
Insertions(p)   == {i \in DOMAIN accepted : accepted[i].start = p /\ IsEmpty(accepted[i])}
Replacements(p) == {i \in DOMAIN accepted : accepted[i].start = p /\ ~ IsEmpty(accepted[i])}
Kept(p)         == p < Length /\ \A i \in DOMAIN accepted : p \notin Bytes(accepted[i])

Texts(s)    == FlattenSeq([k \in DOMAIN s |-> s[k].text])
MeantAt(p)  == Texts(Retained(accepted, Insertions(p)))
                   \o Texts(Retained(accepted, Replacements(p)))
                   \o (IF Kept(p) THEN <<Source[p + 1]>> ELSE <<>>)
Intended    == FlattenSeq([k \in 1..Length + 1 |-> MeantAt(k - 1)])

\* One pass over the sorted edits writes what they mean, in whatever order and by
\* whatever operations they were accepted, as long as they do not overlap.
WritesWhatIsMeant ==
    output # NotFinished /\ NonOverlapping => output = Intended

\* What finish() writes is the text the check approved last: the simulated merge of the
\* two lists and the sorted list agree on the order of edits of one place.
CheckedIsWritten ==
    output # NotFinished /\ approved # Unchecked => output = approved

\* No fix is refused for nothing: an overlap is reported only if two edits of the batch
\* or a new and an accepted one are in conflict.
OverlapsAreReal ==
    result = "Overlap" =>
        \/ \E i, j \in DOMAIN offered : i # j /\ InConflict(offered[i], offered[j])
        \/ \E i \in DOMAIN offered, j \in DOMAIN edits : InConflict(offered[i], edits[j])

Count(s, e) == Cardinality({i \in DOMAIN s : s[i] = e})

\* A batch is accepted as a whole or leaves no trace, and what was accepted stays.
AllOrNothing ==
    [][/\ result' # "Applied" => edits' = edits
       /\ result' = "Applied" =>
              ToSet(edits') = ToSet(edits) \cup ToSet(offered')]_vars

\* An edit that several issues share, such as an import, is written once, however many
\* other insertions of the same place were accepted in between.
SharedOnce ==
    [][operation' = "apply_unique_batch" =>
          \A e \in ToSet(edits') : Count(edits', e) = Count(edits, e)
                                   \/ Count(edits, e) = 0]_vars
===============================================================================
