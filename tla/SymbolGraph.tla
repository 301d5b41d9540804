------------------------------ MODULE SymbolGraph ------------------------------
(***************************************************************************)
(* The reference graph of crates/codex: which symbol's signature or body   *)
(* refers to which other symbol, how two versions of a file differ, and    *)
(* what a difference invalidates.  Pure operators, used by                 *)
(* IncrementalAnalysis.                                                    *)
(*                                                                         *)
(* A SymbolIdentifier is a pair <<name, member>>; the symbol itself has    *)
(* the empty member.  The edges of SymbolReferences are pairs <<origin,    *)
(* target>>, those of top-level code pairs <<file, target>>.               *)
(***************************************************************************)
EXTENDS Naturals, FiniteSets

Symbol(name) == <<name, "">>
Owner(id)    == Symbol(id[1])
IsMember(id) == id[2] # ""

NoReferences == [sig |-> {}, body |-> {}, file |-> {}]

\* The sources of the edges that end in `targets'.
Origins(edges, targets) == {e[1] : e \in {x \in edges : x[2] \in targets}}

\* The edges that do not start in `sources'.
EdgesNotFrom(edges, sources) == {e \in edges : e[1] \notin sources}

-----------------------------------------------------------------------------
(* SymbolReferences *)

\* A pair is kept once: an edge of the signature replaces the one of the body.
ExtendReferences(refs, more) ==
    LET sig == refs.sig \cup more.sig
    IN  [sig  |-> sig,
         body |-> (refs.body \cup more.body) \ sig,
         file |-> refs.file \cup more.file]

RemoveBodyReferences(refs, ids, files) ==
    [refs EXCEPT !.body = EdgesNotFrom(@, ids),
                 !.file = EdgesNotFrom(@, files)]

\* Mutant: the references to a dirty symbol go too.
RemoveDirtyReferencesBothWays(refs, ids) ==
    [refs EXCEPT !.sig  = {e \in @ : {e[1], e[2]} \cap ids = {}},
                 !.body = {e \in @ : {e[1], e[2]} \cap ids = {}}]

RemoveDirtyReferences(refs, ids) ==
    [refs EXCEPT !.sig  = EdgesNotFrom(@, ids),
                 !.body = EdgesNotFrom(@, ids)]

RemoveReferencesFromFiles(refs, files) ==
    [refs EXCEPT !.file = EdgesNotFrom(@, files)]

RetainReferencesFromFiles(refs, files) ==
    [refs EXCEPT !.file = {e \in @ : e[1] \in files}]

-----------------------------------------------------------------------------
(* The difference between two versions of a file *)

\* `old' and `new' map the declarations of the file to their signatures.  What
\* was added, removed or has another signature is changed, and so is the class
\* of a changed member.
ChangedIds(old, new) ==
    LET differs == {i \in DOMAIN old \cup DOMAIN new :
                      ~ (i \in DOMAIN old \cap DOMAIN new /\ old[i] = new[i])}
    IN  differs \cup {Owner(i) : i \in differs}

-----------------------------------------------------------------------------
(* Invalidation *)

\* Mutant: only the items that refer to a changed item directly.
CascadeOneStep(sig, changed) ==
    changed \cup {Owner(i) : i \in changed} \cup Origins(sig, changed)

\* The items whose signature depends on a changed one: an invalid member
\* invalidates its class, an invalid item every item that names it in its
\* signature.
Cascade(sig, changed) ==
    LET sources == changed \cup {e[1] : e \in sig}
        grow[s \in SUBSET (sources \cup {Owner(i) : i \in sources})] ==
            LET t == s \cup {Owner(i) : i \in s} \cup Origins(sig, s)
            IN  IF t = s THEN s ELSE grow[t]
    IN  grow[changed]

\* get_invalid_symbols: the items that cannot be kept, the classes with a member
\* that cannot, and the files whose top-level code cannot.
InvalidSymbols(refs, changed) ==
    LET cascade    == Cascade(refs.sig, changed)
        direct     == {o \in {e[1] : e \in refs.sig} : Owner(o) \in changed}
        signatures == cascade \cup direct
        bodies     == Origins(refs.sig \cup refs.body, signatures)
    IN  [ids     |-> signatures \cup bodies,
         partial |-> {i[1] : i \in direct}
                       \cup {i[1] : i \in {x \in cascade \cup bodies : IsMember(x)}},
         files   |-> Origins(refs.file, signatures)]

\* mark_safe_symbols: what is kept of `keep'.
MarkSafe(invalid, keep) ==
    {i \in keep : /\ i \notin invalid.ids
                  /\ IsMember(i) \/ i[1] \notin invalid.partial}
===============================================================================
