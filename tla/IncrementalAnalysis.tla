-------------------------- MODULE IncrementalAnalysis --------------------------
(***************************************************************************)
(* The incremental analysis service of crates/orchestrator: after a full   *)
(* analysis it rescans only the files that changed, and analyses again     *)
(* only what the reference graph says is affected.                         *)
(*                                                                         *)
(* The content of a file is what the scanner and the analyzer get out of   *)
(* it: `decls' maps each declared identifier to its signature (`sig', the  *)
(* identifiers it `uses', its `parents', its `kind'), `body' maps it to    *)
(* the identifiers its body refers to, `top' are those of the top-level    *)
(* code, `flaws' the declarations the scanner complains about.  What the   *)
(* analyzer reports for a file is represented by what it can read while it *)
(* analyses the file: two analyses that read the same report the same.     *)
(*                                                                         *)
(* The base code base, which is there before any source file is scanned,   *)
(* consists of the files of type Builtin.  They never change, so it makes  *)
(* no difference that they are kept with the source files here, not apart. *)
(***************************************************************************)
EXTENDS SymbolGraph, Functions

CONSTANTS
    Files,          \* the paths of the workspace
    FileType,       \* Files -> {"Host", "Vendored", "Patch", "Builtin"}
    SpanOrder,      \* Files -> Nat: the order in which spans of files compare
    Versions,       \* Files -> the contents the file takes
    Initial,        \* the content of each file when the service is created
    Absent,         \* the content of a file that does not exist
    EntryPoints,    \* the symbols for which a plugin contributes references
    ExpenseLimit,   \* EXPENSE_LIMIT of the invalidation cascade
    PluginsFail,    \* whether a call of a plugin may fail
    MaxBatch        \* bound: the files that change between two analyses

ASSUME FileTypeAssumption ==
    FileType \in [Files -> {"Host", "Vendored", "Patch", "Builtin"}]

ASSUME SpanAssumption ==
    /\ SpanOrder \in [Files -> Nat]
    /\ \A f, g \in Files : SpanOrder[f] = SpanOrder[g] => f = g

ASSUME VersionAssumption ==
    /\ DOMAIN Versions = Files
    /\ Initial \in [Files -> UNION {Versions[f] : f \in Files}]
    /\ \A f \in Files : Initial[f] \in Versions[f]

\* The declarations of the base code base are always there.
ASSUME BuiltinAssumption ==
    \A f \in Files : FileType[f] = "Builtin" =>
        Versions[f] = {Initial[f]} /\ Initial[f] # Absent

\* A workspace has finitely many files, and a file declares and names finitely many
\* symbols.
ASSUME FiniteAssumption ==
    /\ IsFiniteSet(Files)
    /\ \A f \in Files : \A content \in Versions[f] \ {Absent} :
          /\ IsFiniteSet(DOMAIN content.decls) /\ IsFiniteSet(content.top)
          /\ \A i \in DOMAIN content.decls :
                IsFiniteSet(content.decls[i].uses) /\ IsFiniteSet(content.decls[i].parents)
          /\ \A o \in DOMAIN content.body : IsFiniteSet(content.body[o])

\* A body belongs to a declaration of its file, a member to a class of its file.
ASSUME ScopeAssumption ==
    \A f \in Files : \A content \in Versions[f] \ {Absent} :
        /\ DOMAIN content.body \subseteq DOMAIN content.decls
        /\ \A i \in DOMAIN content.decls : Owner(i) \in DOMAIN content.decls

VARIABLES
    db,                 \* database: Files -> content
    announced,          \* the files changed since the last analysis (caller)
    cache,              \* the result of the last analysis, a record:
                        \*   codebase, references, files (file_states),
                        \*   orphans (codebase_issues), external,
                        \*   editor (editor_files)
    initialized,
    needsFullRebuild,
    scanOnly,
    editorArtifacts,
    conflicted          \* history: since the last full analysis one was run
                        \* in a state of Conflict

vars == <<db, announced, cache, initialized, needsFullRebuild, scanOnly,
          editorArtifacts, conflicted>>

Host(f)  == FileType[f] = "Host"
Patch(f) == FileType[f] = "Patch"

Present(d) == {f \in Files : d[f] # Absent}

-----------------------------------------------------------------------------
(***************************************************************************)
(* The code base: `entries' maps an identifier to its declaration and the  *)
(* file that owns it, `signatures' a file to its FileSignature, `inherits' *)
(* a populated class to what it took from its ancestors, `patches' the     *)
(* identifiers refined by patch files, `issues' the complaints of the      *)
(* scanner that no analysis has taken yet.                                 *)
(***************************************************************************)
EmptyCodebase ==
    [entries |-> <<>>, signatures |-> <<>>, inherits |-> <<>>,
     patches |-> <<>>, issues |-> {}]

\* A map with the entries of `over', and those of `under' under the other keys.
Overlay(over, under) ==
    [x \in DOMAIN over \cup DOMAIN under |->
        IF x \in DOMAIN over THEN over[x] ELSE under[x]]

\* The function f: compared with another, TLC evaluates it once, not where it is applied.
Evaluated(f) == IF f = <<>> THEN <<>> ELSE f

Entry(f, decl) == [file |-> f, decl |-> decl, patch |-> {}]

\* should_replace_metadata: a definition of the user wins, then one that a patch has
\* brought in, then a built-in one, then the smaller span.
Rank == [Host |-> 3, Patch |-> 2, Builtin |-> 1, Vendored |-> 0]

Precedes(a, b) ==
    \/ a.file = b.file
    \/ Rank[FileType[a.file]] > Rank[FileType[b.file]]
    \/ /\ Rank[FileType[a.file]] = Rank[FileType[b.file]]
       /\ SpanOrder[a.file] < SpanOrder[b.file]

\* remove_entries_by_keys for the keys recorded for `files'.
RemoveEntries(cb, files, keys) ==
    [cb EXCEPT
        !.entries    = Restrict(@, DOMAIN @ \ keys),
        !.inherits   = Restrict(@, DOMAIN @ \ keys),
        !.signatures = Restrict(@, DOMAIN @ \ files),
        !.patches    = Restrict(@, {i \in DOMAIN @ : @[i].file \notin files})]

\* extend: merges the scans of `files'; of two patches of one symbol the first stays.
Extend(cb, files, d) ==
    LET patches  == {f \in files : Patch(f)}
        sources  == files \ patches
        declared == UNION {DOMAIN d[f].decls : f \in sources}
        winner == [i \in declared \cup DOMAIN cb.entries |->
                     LET claims == {Entry(f, d[f].decls[i]) :
                                      f \in {g \in sources : i \in DOMAIN d[g].decls}}
                                   \cup {cb.entries[j] : j \in {i} \cap DOMAIN cb.entries}
                     IN  CHOOSE e \in claims : \A o \in claims : Precedes(e, o)]
    IN  [cb EXCEPT
            !.entries    = Evaluated(winner),
            !.signatures = Overlay([f \in files |-> d[f].decls], @),
            !.patches    =
                Overlay(@, [i \in UNION {DOMAIN d[f].decls : f \in patches} |->
                               LET f == CHOOSE g \in patches : i \in DOMAIN d[g].decls
                               IN  [file |-> f, decl |-> d[f].decls[i]]]),
            !.issues     =
                @ \cup UNION {{f} \X {i \in d[f].flaws : winner[i].file = f} :
                                f \in {g \in files : Host(g)}}]

ParentIds(decl) == {Symbol(p) : p \in decl.parents}

\* Everything that can be reached from `ids' along `edges'.
Reach(edges, ids) ==
    LET grow[s \in SUBSET (ids \cup {e[2] : e \in edges})] ==
            LET t == s \cup {e[2] : e \in {x \in edges : x[1] \in s}}
            IN  IF t = s THEN s ELSE grow[t]
    IN  grow[ids]

\* collect_inherited_patch_methods: those of `members' that a class above their own has.
InheritedMembers(entries, members) ==
    LET ancestry == UNION {{i} \X ParentIds(entries[i].decl) : i \in DOMAIN entries}
    IN  {i \in members : \E class \in Reach(ancestry, {Owner(i)}) :
                            <<class[1], i[2]>> \in DOMAIN entries}

\* apply_patches_pass.  The members that an earlier pass brought in are taken out again
\* (reset_patch_methods).  Each patch is folded into the vendored or built-in declaration
\* it names; a member that its class only inherits becomes one of the class, declared by
\* the patch file.  Reported in the patch file are a patch of a symbol that does not
\* exist (of a member only if its class does), and a member that is new.
ApplyPatches(cb) ==
    LET reset == {i \in DOMAIN cb.patches \cap DOMAIN cb.entries :
                    /\ IsMember(i) /\ Patch(cb.entries[i].file)
                    /\ Owner(i) \in DOMAIN cb.entries
                    /\ ~ Host(cb.entries[Owner(i)].file)}
        entries   == Restrict(cb.entries, DOMAIN cb.entries \ reset)
        targets   == {i \in DOMAIN cb.patches \cap DOMAIN entries : ~ Host(entries[i].file)}
        missing   == DOMAIN cb.patches \ DOMAIN entries
        lacked    == {i \in missing : IsMember(i) /\ Owner(i) \in targets}
        inherited == InheritedMembers(entries, lacked)
        reported  == {i \in missing : ~ IsMember(i)} \cup (lacked \ inherited)
    IN  [cb EXCEPT
            !.entries = Evaluated(
                [i \in DOMAIN entries \cup inherited |->
                    IF i \in inherited THEN Entry(cb.patches[i].file, cb.patches[i].decl)
                    ELSE IF i \in targets
                    THEN [entries[i] EXCEPT !.patch = {cb.patches[i].decl.sig}]
                    ELSE entries[i]]),
            !.issues  = @ \cup {<<cb.patches[i].file, i>> : i \in reported}]

\* apply_scan_results: the patches are applied only if one was scanned.
ApplyScanResults(cb, files, d) ==
    LET merged == Extend(cb, files, d)
    IN  IF \E f \in files : Patch(f) THEN ApplyPatches(merged) ELSE merged

Classes(cb) == {i \in DOMAIN cb.entries : cb.entries[i].decl.kind = "class"}

Members(cb, class) ==
    {i \in DOMAIN cb.entries : IsMember(i) /\ Owner(i) = class}

\* What a class takes from its direct parents, given what these inherit.
InheritFrom(cb, inherits, class) ==
    UNION {IF p \in DOMAIN cb.entries
           THEN {<<j, cb.entries[j]>> : j \in {p} \cup Members(cb, p)}
                  \cup UNION {inherits[q] : q \in {p} \cap DOMAIN inherits}
           ELSE {<<p, Absent>>}
           : p \in ParentIds(cb.entries[class].decl)}

\* populate_codebase: the classes of `todo' are reset and populated, parents first; the
\* others keep what they inherited.  The order is that of the hierarchy, unless it is
\* circular (`Conflict'): after as many passes as there are classes, each has had its
\* turn after its parents.  Populating records the references of a signature.
Populate(cb, todo) ==
    LET classes == Classes(cb) \cap todo
        pass[n \in 0..Cardinality(classes)] ==
            IF n = 0 THEN Restrict(cb.inherits, DOMAIN cb.inherits \ classes)
            ELSE LET last == pass[n - 1]
                 IN  Evaluated(Overlay([c \in classes |-> InheritFrom(cb, last, c)], last))
    IN  [cb EXCEPT !.inherits = pass[Cardinality(classes)]]

SignatureReferences(cb, todo) ==
    [NoReferences EXCEPT
        !.sig = UNION {LET decl == cb.entries[i].decl
                       IN  {i} \X (decl.uses \cup ParentIds(decl)) : i \in todo}]

\* into_owned_keys
OwnedKeys(cb, f) == {i \in DOMAIN cb.entries : cb.entries[i].file = f}

-----------------------------------------------------------------------------
(* The analysis of one file *)

\* What a reader of a declaration comes to next.
Dependencies(cb) ==
    UNION {LET decl == cb.entries[i].decl
           IN  {i} \X (decl.uses \cup ParentIds(decl) \cup Members(cb, i)
                        \cup {x[1] : x \in UNION {cb.inherits[c] :
                                 c \in {i} \cap DOMAIN cb.inherits}})
           : i \in DOMAIN cb.entries}

View(cb, i) ==
    IF i \notin DOMAIN cb.entries THEN <<i, Absent, {}>>
    ELSE <<i, cb.entries[i],
           UNION {cb.inherits[c] : c \in {i} \cap DOMAIN cb.inherits}>>

\* The references a plugin contributes: one for each of its entry points.
ExternalReferences(cb) == EntryPoints \cap DOMAIN cb.entries

BodyTargets(content) == UNION {content.body[o] : o \in DOMAIN content.body}

\* What the analysis of a file begins with: what it declares and what its bodies name.
StartOf(content) ==
    DOMAIN content.decls \cup {Owner(t) : t \in content.top \cup BodyTargets(content)}

\* The issues of a file stand for what its analysis reads along the Dependencies.
FileIssues(cb, edges, content) ==
    [content  |-> content,
     read     |-> {View(cb, i) : i \in Reach(edges, StartOf(content))},
     external |-> ExternalReferences(cb)]

\* Each class, or member of one, with the classes below it (child_class_likes).
Heirs(cb) ==
    UNION {{x[1] : x \in cb.inherits[heir]} \X {heir} : heir \in DOMAIN cb.inherits}

\* What the analysis reads against the Dependencies: the heirs of what it comes to.
FileHeirs(heirs, issues) ==
    LET seen == {view[1] : view \in issues.read}
    IN  {h \in heirs : h[1] \in seen}

\* The reference recorded for a use of `t': the class or function it names and, if
\* it is a member that exists, the member of the class that declares it.
Recorded(cb, t) ==
    LET class == Owner(t)
        heirs == {class} \cup {x[1] : x \in UNION {cb.inherits[c] :
                                  c \in {class} \cap DOMAIN cb.inherits}}
    IN  {class} \cup (IF ~ IsMember(t) THEN {}
                      ELSE {<<h[1], t[2]>> : h \in heirs} \cap DOMAIN cb.entries)

AnalysisReferences(cb, f, content) ==
    LET Ancestors(c) == {x[1] : x \in {y \in cb.inherits[c] : ~ IsMember(y[1])}}
    IN  [sig  |-> UNION {{c} \X Ancestors(c) :
                           c \in Classes(cb) \cap OwnedKeys(cb, f)},
         body |-> UNION {{o} \X UNION {Recorded(cb, t) : t \in content.body[o]} :
                           o \in DOMAIN content.body},
         file |-> {f} \X UNION {Recorded(cb, t) : t \in content.top}]

ExtendAll(refs, more) ==
    ExtendReferences(refs, [sig  |-> UNION {m.sig : m \in more},
                            body |-> UNION {m.body : m \in more},
                            file |-> UNION {m.file : m \in more}])

\* run_analyzer_selective: the host files that are analysed.  If the references
\* contributed by plugins changed, none is skipped.
AnalyzedFiles(cb, d, skip, external) ==
    IF scanOnly THEN {}
    ELSE {f \in Present(d) : /\ Host(f)
                             /\ f \notin skip \/ external # ExternalReferences(cb)}

-----------------------------------------------------------------------------
(* Storing the result of an analysis *)

NoFile == [hash |-> Absent, keys |-> {}, issues |-> Absent, heirs |-> {},
           codebaseIssues |-> {}]

EmptyCache ==
    [codebase |-> EmptyCodebase, references |-> NoReferences, files |-> <<>>,
     orphans |-> {}, external |-> {}, editor |-> {}]

\* Mutant: the issues stay in the metadata and are taken again the next time.
TakeNoIssues(cb) == cb

\* take_issues: what the scanner complained about is handed out once.
TakeIssues(cb) == [cb EXCEPT !.issues = {}]

\* The state after `scanned' files were merged into `cb' and populated, the files
\* in `skip' were skipped and the others analysed.
Store(old, cb, refs, d, scanned, skip) ==
    LET analyzed == AnalyzedFiles(cb, d, skip, old.external)
        edges    == Dependencies(cb)
        heirs    == Heirs(cb)
        Previous(f) == IF f \in DOMAIN old.files THEN old.files[f] ELSE NoFile
        State(f) ==
            LET issues == IF f \in analyzed THEN FileIssues(cb, edges, d[f])
                          ELSE IF f \in scanned THEN Absent ELSE Previous(f).issues IN
            [hash   |-> IF f \in scanned THEN d[f] ELSE Previous(f).hash,
             keys   |-> IF f \notin scanned THEN Previous(f).keys
                        ELSE IF Patch(f) THEN {} ELSE OwnedKeys(cb, f),
             issues |-> issues,
             heirs  |-> IF f \in analyzed THEN FileHeirs(heirs, issues)
                        ELSE IF f \in scanned THEN {} ELSE Previous(f).heirs,
             codebaseIssues |->
                (IF f \in skip THEN Previous(f).codebaseIssues ELSE {})
                  \cup {x \in cb.issues : x[1] = f /\ f \in DOMAIN old.files}]
    IN  [codebase   |-> TakeIssues(cb),
         references |-> ExtendAll(refs, {AnalysisReferences(cb, f, d[f]) :
                                            f \in analyzed}),
         files      |-> [f \in Present(d) |-> State(f)],
         orphans    |-> {x \in cb.issues : x[1] \notin DOMAIN old.files},
         external   |-> IF scanOnly THEN {} ELSE ExternalReferences(cb),
         editor     |-> IF editorArtifacts
                        THEN (old.editor \cap {f \in Present(d) : Host(f)})
                               \cup analyzed
                        ELSE {}]

\* run_full_analysis, after reset_analysis: the files are tracked (`staged') before the
\* issues of the scanner are handed out.
FullAnalysis(d) ==
    LET merged == ApplyPatches(Extend(EmptyCodebase, Present(d), d))
        all    == DOMAIN merged.entries
        staged == [EmptyCache EXCEPT !.files = [f \in Present(d) |-> NoFile]]
    IN  Store(staged, Populate(merged, all), SignatureReferences(merged, all),
              d, Present(d), {})

-----------------------------------------------------------------------------
(***************************************************************************)
(* The incremental analysis.  `hint' is the set of files the caller says   *)
(* may have changed; without a hint it is Files.                           *)
(***************************************************************************)
Tracked == DOMAIN cache.files

Deleted == Tracked \ Present(db)

ContentChanged(hint) ==
    {f \in Present(db) : \/ f \notin Tracked
                         \/ f \in hint /\ cache.files[f].hash # db[f]}

\* Mutant: vendored files change without their patches being applied again.
RescannedWithoutPatches(hint) == ContentChanged(hint)

\* A change of a vendored file makes every patch file be scanned again.
Rescanned(hint) ==
    LET changed == ContentChanged(hint)
    IN  changed \cup {f \in Present(db) :
                        Patch(f) /\ \E g \in changed : FileType[g] = "Vendored"}

Unchanged(hint) == Present(db) \ Rescanned(hint)

Keys(files) == UNION {cache.files[f].keys : f \in files \cap Tracked}

DeclaredBy(files) == UNION {DOMAIN db[f].decls : f \in files}

\* The identifiers whose signature differs from the one of the last analysis.
Changed(hint) ==
    (UNION {ChangedIds(IF f \in DOMAIN cache.codebase.signatures
                       THEN cache.codebase.signatures[f] ELSE <<>>,
                       db[f].decls) : f \in Rescanned(hint)})
      \cup (UNION {DOMAIN cache.codebase.signatures[f] : f \in Deleted})

\* reference_origin_has_other_owner for a top-level name
OwnedElsewhere(f, ids) ==
    \E i \in ids \cap DOMAIN cache.codebase.entries :
        ~ IsMember(i) /\ cache.codebase.entries[i].file # f

\* The cases in which try_analyze_incremental gives up (returns Ok(None)).
MustRebuild(hint) ==
    \/ \E i \in DOMAIN cache.codebase.patches :
          cache.codebase.patches[i].file \in Deleted
    \/ \E f \in ContentChanged(hint) : Patch(f)
    \/ \E f \in Rescanned(hint) :
          OwnedElsewhere(f, Keys({f}) \cup
                            (IF Patch(f) THEN {} ELSE DeclaredBy({f})))
    \/ \E f \in Deleted : OwnedElsewhere(f, Keys({f}))
    \/ Cardinality(Cascade(cache.references.sig, Changed(hint))) > ExpenseLimit

\* The code base without the deleted files and with the new scans.
MergedCodebase(hint) ==
    LET gone == Deleted \cup Rescanned(hint)
    IN  ApplyScanResults(RemoveEntries(cache.codebase, gone, Keys(gone)),
                         Rescanned(hint), db)

\* The declared identifiers by the keys under which the code finds them dirty:
\* functions are looked up under another key, so only a change of their signature
\* makes them dirty.
DirtySymbols(hint) ==
    Changed(hint) \cup
    {i \in DeclaredBy({f \in Rescanned(hint) : ~ Patch(f)}) :
        \A f \in Rescanned(hint) :
            i \in DOMAIN db[f].decls => db[f].decls[i].kind # "function"}

\* The items whose bodies the scanned files may hold: of a patch its members only, since
\* its declarations are moved away but its signature names its members.
Redeclared(files) ==
    {i \in DeclaredBy(files) : IsMember(i)} \cup DeclaredBy({f \in files : ~ Patch(f)})

\* No signature changed: the changed files are analysed again, all others skipped.
BodyOnlyAnalysis(hint) ==
    LET files == Rescanned(hint)
        cb    == MergedCodebase(hint)
        fresh == UNION {OwnedKeys(cb, f) : f \in files}
        refs  == RemoveBodyReferences(cache.references, Redeclared(files), files)
    IN  Store(cache, Populate(cb, fresh),
              ExtendReferences(refs, SignatureReferences(cb, fresh)),
              db, files, Unchanged(hint))

\* can_skip_file
CanSkip(safe, invalidFiles, f) ==
    /\ f \notin invalidFiles
    /\ DOMAIN cache.codebase.signatures[f] \subseteq safe

\* Signatures changed: what the reference graph says is affected is populated and
\* analysed again.
SignatureAnalysis(hint) ==
    LET files   == Rescanned(hint)
        cb      == MergedCodebase(hint)
        changed == Changed(hint)
        keep    == UNION {DOMAIN cache.codebase.signatures[f] : f \in Unchanged(hint)}
        invalid == InvalidSymbols(cache.references, changed)
        marked  == MarkSafe(invalid, keep)
        \* children of a changed class are not safe, whatever the graph says
        kept    == {i \in marked :
                      ~ (/\ i \in Classes(cb)
                         /\ \E p \in ParentIds(cb.entries[i].decl) :
                               p \in changed /\ p \in DOMAIN cb.entries)}
        \* clear_invalidated_host_bodies
        affected == {f \in Unchanged(hint) :
                       Host(f) /\ ~ CanSkip(kept, invalid.files, f)}
        safe    == kept \ Keys(affected)
        refs0   == IF Deleted = {} THEN cache.references
                   ELSE RetainReferencesFromFiles(cache.references, Present(db))
        refs1   == RemoveBodyReferences(RemoveDirtyReferences(refs0, DirtySymbols(hint)),
                                        Keys(affected), {})
        fresh   == UNION {OwnedKeys(cb, f) : f \in files}
        todo    == fresh \cup
                   {i \in DOMAIN cb.entries :
                      IF i \in Classes(cb) THEN i \notin safe
                      ELSE Host(cb.entries[i].file) /\ {i, Owner(i)} \cap safe = {}}
        skip    == {f \in Unchanged(hint) : CanSkip(safe, invalid.files, f)}
        refs2   == RemoveReferencesFromFiles(
                      ExtendReferences(refs1, SignatureReferences(cb, todo)),
                      Present(db) \ skip)
    IN  Store(cache, Populate(cb, todo), refs2, db, files, skip)

-----------------------------------------------------------------------------
Init ==
    /\ db = Initial
    /\ announced = {}
    /\ cache = EmptyCache
    /\ initialized = FALSE
    /\ needsFullRebuild = FALSE
    /\ scanOnly = FALSE
    /\ editorArtifacts = FALSE
    /\ conflicted = FALSE

\* update_database with one more file created, changed or deleted
UpdateDatabase(f, content) ==
    /\ db[f] # content
    /\ Cardinality(announced \cup {f}) <= MaxBatch
    /\ db' = [db EXCEPT ![f] = content]
    /\ announced' = announced \cup {f}
    /\ UNCHANGED <<cache, initialized, needsFullRebuild, scanOnly,
                   editorArtifacts, conflicted>>

SetScanOnly ==
    /\ scanOnly' = ~ scanOnly
    /\ needsFullRebuild' = (needsFullRebuild \/ initialized)
    /\ cache' = [cache EXCEPT !.editor = {}]
    /\ UNCHANGED <<db, announced, initialized, editorArtifacts, conflicted>>

\* Mutant: the data of the files that were analysed before is never captured.
SetEditorArtifactsWithoutRebuild ==
    /\ editorArtifacts' = ~ editorArtifacts
    /\ cache' = [cache EXCEPT !.editor = {}]
    /\ UNCHANGED <<db, announced, initialized, needsFullRebuild, scanOnly, conflicted>>

SetEditorArtifacts ==
    /\ editorArtifacts' = ~ editorArtifacts
    /\ needsFullRebuild' = (needsFullRebuild \/ (editorArtifacts' /\ initialized))
    /\ cache' = [cache EXCEPT !.editor = {}]
    /\ UNCHANGED <<db, announced, initialized, scanOnly, conflicted>>

\* Each class with its parents, as the files declare them.
Hierarchy(d) ==
    UNION {UNION {{c} \X ParentIds(d[f].decls[c]) :
                     c \in {i \in DOMAIN d[f].decls : d[f].decls[i].kind = "class"}} :
             f \in {g \in Present(d) : ~ Patch(g)}}

\* Some classes are ancestors of each other.
Circular(hierarchy) ==
    \E classes \in SUBSET {e[1] : e \in hierarchy} :
        /\ classes # {}
        /\ \A c \in classes : \E e \in hierarchy : e[1] = c /\ e[2] \in classes

\* Some patch names a member that its class does not declare, or not as vendored or
\* built-in code, and another class does: the patch may come to declare it itself.
Materializes(d) ==
    \E f \in {g \in Present(d) : Patch(g)} :
        \E i \in {m \in DOMAIN d[f].decls : IsMember(m)} :
            /\ \A g \in Present(d) : i \in DOMAIN d[g].decls => Patch(g) \/ Host(g)
            /\ \E g \in {h \in Present(d) : ~ Patch(h)} :
                  \E j \in DOMAIN d[g].decls : j[2] = i[2]

\* Cases in which the result depends on the order of the calls: two files declare one
\* symbol, two patches refine one, a patch declares a member itself, or the hierarchy of
\* the classes is circular.
Conflict(d) ==
    \/ \E f, g \in Present(d) :
          /\ f # g /\ (Patch(f) <=> Patch(g))
          /\ DOMAIN d[f].decls \cap DOMAIN d[g].decls # {}
    \/ Materializes(d)
    \/ Circular(Hierarchy(d))

\* The result of a call is in: whatever was announced has been taken into account.
Finish(result, conflict) ==
    /\ cache' = result
    /\ announced' = {}
    /\ initialized' = TRUE
    /\ needsFullRebuild' = FALSE
    /\ conflicted' = conflict
    /\ UNCHANGED <<db, scanOnly, editorArtifacts>>

Rebuild == Finish(FullAnalysis(db), Conflict(db))

\* analyze
Analyze == Rebuild

\* A plugin fails in the course of an analysis: nothing of it is kept.
Fail ==
    /\ PluginsFail /\ ~ scanOnly
    /\ announced' = {}
    /\ cache' = EmptyCache
    /\ initialized' = FALSE
    /\ needsFullRebuild' = TRUE
    /\ conflicted' = FALSE
    /\ UNCHANGED <<db, scanOnly, editorArtifacts>>

AnalyzeFails == Fail

\* analyze_incremental up to the decision how much to do
Incremental == initialized /\ ~ needsFullRebuild

NothingChanged(hint) == ContentChanged(hint) = {} /\ Deleted = {}

AnalyzeIncrementalRebuild == needsFullRebuild /\ Rebuild

AnalyzeIncrementalUnchanged(hint) ==
    /\ Incremental /\ NothingChanged(hint)
    /\ announced' = {}
    /\ UNCHANGED <<db, cache, initialized, needsFullRebuild, scanOnly,
                   editorArtifacts, conflicted>>

AnalyzeIncrementalFallback(hint) ==
    /\ Incremental /\ ~ NothingChanged(hint)
    /\ MustRebuild(hint)
    /\ Rebuild

AnalyzeIncrementalBodies(hint) ==
    /\ Incremental /\ ~ NothingChanged(hint) /\ ~ MustRebuild(hint)
    /\ Changed(hint) = {} /\ Deleted = {}
    /\ Finish(BodyOnlyAnalysis(hint), conflicted \/ Conflict(db))

AnalyzeIncrementalSignatures(hint) ==
    /\ Incremental /\ ~ NothingChanged(hint) /\ ~ MustRebuild(hint)
    /\ ~ (Changed(hint) = {} /\ Deleted = {})
    /\ Finish(SignatureAnalysis(hint), conflicted \/ Conflict(db))

AnalyzeIncrementalFails(hint) ==
    /\ needsFullRebuild \/ (initialized /\ ~ NothingChanged(hint))
    /\ Fail

\* Without a completed analysis the call is refused and changes nothing.
AnalyzeIncrementalRefused ==
    /\ ~ initialized /\ ~ needsFullRebuild
    /\ UNCHANGED vars

Next ==
    \/ \E f \in Files : \E content \in Versions[f] : UpdateDatabase(f, content)
    \/ SetScanOnly
    \/ SetEditorArtifacts
    \/ Analyze
    \/ AnalyzeFails
    \/ AnalyzeIncrementalRebuild
    \/ AnalyzeIncrementalRefused
    \/ \E hint \in {announced, Files} :
          \/ AnalyzeIncrementalUnchanged(hint)
          \/ AnalyzeIncrementalFallback(hint)
          \/ AnalyzeIncrementalBodies(hint)
          \/ AnalyzeIncrementalSignatures(hint)
          \/ AnalyzeIncrementalFails(hint)

Spec == Init /\ [][Next]_vars

-----------------------------------------------------------------------------
\* The identifiers that any version of any file declares.
Ids == UNION {UNION {DOMAIN c.decls : c \in Versions[f] \ {Absent}} : f \in Files}

\* The types of the variables; between two calls the code base holds no issue of the
\* scanner that has not been taken (take_issues): it would be reported a second time.
TypeOK ==
    /\ DOMAIN db = Files /\ \A f \in Files : db[f] \in Versions[f]
    /\ announced \subseteq Files
    /\ DOMAIN cache.files \subseteq Files
    /\ DOMAIN cache.codebase.entries \subseteq Ids
    /\ cache.codebase.issues = {}
    /\ {initialized, needsFullRebuild, scanOnly, editorArtifacts, conflicted}
         \subseteq BOOLEAN

\* The service holds a result for the database it was given last.
Settled == initialized /\ ~ needsFullRebuild /\ announced = {}

\* What the analysis of a file reads along the dependencies is what it reads in a full
\* analysis of the same files, after any sequence of changes and calls, as long as no
\* order decides (`Conflict').  The heirs of a class are not among the dependencies.
ReadingsMatchFull ==
    Settled /\ ~ conflicted =>
        LET fresh == FullAnalysis(db)
        IN  /\ DOMAIN cache.files = DOMAIN fresh.files
            /\ \A f \in DOMAIN fresh.files : cache.files[f].issues = fresh.files[f].issues

\* What the scanner found in the code base of a result.
ScannerIssues(result) ==
    result.orphans \cup UNION {result.files[f].codebaseIssues : f \in DOMAIN result.files}

\* Incremental and full analysis agree (assert_matches_full in the tests): after any
\* sequence of changes and calls the result reports what a full analysis would report.
MatchesFull ==
    Settled =>
        LET fresh == FullAnalysis(db)
        IN  /\ DOMAIN cache.files = DOMAIN fresh.files
            /\ \A f \in DOMAIN fresh.files :
                  /\ cache.files[f].issues = fresh.files[f].issues
                  /\ cache.files[f].heirs = fresh.files[f].heirs
            /\ ScannerIssues(cache) = ScannerIssues(fresh)

\* The code base that stays in memory from update to update has the declarations,
\* the inheritance and the applied patches of a newly built one, as long as no order
\* decides (`Conflict').
CodebaseMatchesFull ==
    Settled /\ ~ conflicted => cache.codebase = FullAnalysis(db).codebase

\* No reference is forgotten: what a full analysis would record is in the graph the
\* next invalidation starts from, in a signature if it belongs to one.
ReferencesAreComplete ==
    Settled /\ ~ conflicted =>
        LET fresh == FullAnalysis(db).references
        IN  /\ fresh.sig \subseteq cache.references.sig
            /\ fresh.body \subseteq cache.references.sig \cup cache.references.body
            /\ fresh.file \subseteq cache.references.file

\* With editor data enabled, every host file has some after an analysis, and a file
\* that is gone has none.
EditorDataIsComplete ==
    Settled /\ editorArtifacts /\ ~ scanOnly =>
        cache.editor = {f \in Present(db) : Host(f)}
===============================================================================
