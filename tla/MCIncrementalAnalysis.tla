------------------------- MODULE MCIncrementalAnalysis -------------------------
(***************************************************************************)
(* A workspace of seven files, and the base code base:                     *)
(*   core    the built-in class T, with a method t                         *)
(*   base    class P extends T, with a method m or without it              *)
(*   child   class C extends P, whose method n calls P::m; or, with P      *)
(*           moved into it, both classes                                   *)
(*   user    a function f, with either of two signatures, that calls C::m  *)
(*   main    top-level code that calls f and names V                       *)
(*   lib     a vendored class V whose method v takes a P, and may use it   *)
(*   patch   a patch of V and v                                            *)
(*   orphan  a patch of T and t, of a method that T has not, and of a class *)
(*           that no file declares                                         *)
(***************************************************************************)
EXTENDS IncrementalAnalysis, TLC

Decl(kind, sig, uses, parents) ==
    [kind |-> kind, sig |-> sig, uses |-> uses, parents |-> parents]

Content(decls, body, top) ==
    [decls |-> decls, body |-> body, top |-> top, flaws |-> {}]

ClassT == Symbol("T") :> Decl("class", 0, {}, {})
MethodT == <<"T", "t">> :> Decl("member", 0, {}, {})
Core == Content(ClassT @@ MethodT, <<>>, {})

ClassP == Symbol("P") :> Decl("class", 0, {}, {"T"})
MethodM(sig) == <<"P", "m">> :> Decl("member", sig, {}, {})
Base(sig) == Content(ClassP @@ MethodM(sig), <<>>, {})
BaseEmpty == Content(ClassP, <<>>, {})

ClassC == Symbol("C") :> Decl("class", 0, {}, {"P"})
            @@ <<"C", "n">> :> Decl("member", 0, {}, {})
Child(calls) == Content(ClassC, <<"C", "n">> :> calls, {})
Both == Content(ClassC @@ ClassP @@ MethodM(0), <<"C", "n">> :> {<<"P", "m">>}, {})

FunctionF(sig) == Symbol("f") :> Decl("function", sig, {Symbol("C")}, {})
User(sig, calls) == Content(FunctionF(sig), Symbol("f") :> calls, {})

Main(top) == Content(<<>>, <<>>, top)

ClassV == Symbol("V") :> Decl("class", 0, {}, {})
MethodV == <<"V", "v">> :> Decl("member", 0, {Symbol("P")}, {})
Lib(calls) == Content(ClassV @@ MethodV, <<"V", "v">> :> calls, {})
PatchV(sig) == Content(Symbol("V") :> Decl("class", sig, {}, {})
                         @@ <<"V", "v">> :> Decl("member", sig, {}, {}), <<>>, {})
Orphan == Content([i \in {Symbol("W"), Symbol("T"), <<"T", "t">>, <<"T", "new">>} |->
                     Decl(IF IsMember(i) THEN "member" ELSE "class", 1, {}, {})],
                  <<>>, {})

MCFiles == {"core", "base", "child", "user", "main", "lib", "patch", "orphan"}

MCFileType == [f \in MCFiles |-> CASE f = "core" -> "Builtin"
                                   [] f = "lib" -> "Vendored"
                                   [] f \in {"patch", "orphan"} -> "Patch"
                                   [] OTHER -> "Host"]

MCSpanOrder == "base" :> 1 @@ "child" :> 2 @@ "user" :> 3 @@ "main" :> 4
                 @@ "lib" :> 5 @@ "patch" :> 6 @@ "orphan" :> 7 @@ "core" :> 8

MCVersions ==
    "base"  :> {Absent, Base(0), BaseEmpty}
      @@ "child" :> {Child({<<"P", "m">>}), Both}
      @@ "user"  :> {User(0, {<<"C", "m">>}), User(1, {<<"C", "m">>})}
      @@ "main"  :> {Main({Symbol("f"), Symbol("V")})}
      @@ "lib"   :> {Lib({}), Lib({Symbol("P")})}
      @@ "patch" :> {PatchV(1), Absent}
      @@ "orphan" :> {Orphan}
      @@ "core" :> {Core}

MCInitial ==
    "base" :> Base(0) @@ "child" :> Child({<<"P", "m">>})
      @@ "user" :> User(0, {<<"C", "m">>}) @@ "main" :> Main({Symbol("f"), Symbol("V")})
      @@ "lib" :> Lib({}) @@ "patch" :> PatchV(1) @@ "orphan" :> Orphan
      @@ "core" :> Core

\* The same workspace, but the scanner complains about class C in any of its files.
MCFlawedVersions ==
    [MCVersions EXCEPT !["child"] =
        {[c EXCEPT !.flaws = {Symbol("C")}] : c \in @}]

MCFlawedInitial ==
    [MCInitial EXCEPT !["child"].flaws = {Symbol("C")}]

-----------------------------------------------------------------------------
(* Workspaces in which an incremental analysis differs from a full one. *)

\* Two versions for the files of `initial' that change, the initial one for the others.
Changing(initial, changes) ==
    [f \in MCFiles |-> {initial[f]} \cup {changes[g] : g \in {f} \cap DOMAIN changes}]

\* The child of P is created after P was analysed.
MCNewChildInitial == [MCInitial EXCEPT !["child"] = Absent]
MCNewChildVersions == Changing(MCNewChildInitial, "child" :> Child({<<"P", "m">>}))

\* The scanner complains about a file that is created later; then another one changes.
MCNewFileInitial == [MCInitial EXCEPT !["user"] = Absent]
MCNewFileVersions ==
    Changing(MCNewFileInitial,
             "user" :> [User(0, {<<"C", "m">>}) EXCEPT !.flaws = {Symbol("f")}]
               @@ "lib" :> Lib({Symbol("P")}))

\* A file of the user declares the built-in class T, and no longer.
MCShadowInitial == [MCInitial EXCEPT !["user"] = Content(ClassT @@ MethodT, <<>>, {})]
MCShadowVersions == Changing(MCShadowInitial, "user" :> User(0, {<<"C", "m">>}))

\* A patch refines a method of a class of the user, whose body names a function.
ClassA(sig) == Symbol("A") :> Decl("class", sig, {}, {})
                 @@ <<"A", "run">> :> Decl("member", sig, {}, {})
Runner == Content(ClassA(0), <<"A", "run">> :> {Symbol("f")}, {})
MCInertInitial ==
    [MCInitial EXCEPT !["main"] = Runner, !["orphan"] = Content(ClassA(1), <<>>, {})]
MCInertVersions ==
    Changing(MCInertInitial,
             "user" :> User(1, {<<"C", "m">>}) @@ "lib" :> Lib({Symbol("P")}))

\* A patch refines a method that the vendored class V inherits, and later declares.
LibChild == Content(Symbol("V") :> Decl("class", 0, {}, {"T"}), <<>>, {})
MCInheritedInitial ==
    [MCInitial EXCEPT
        !["lib"] = LibChild,
        !["patch"] = Content(Symbol("V") :> Decl("class", 1, {}, {})
                               @@ <<"V", "t">> :> Decl("member", 1, {}, {}), <<>>, {})]
MCInheritedVersions ==
    Changing(MCInheritedInitial,
             "lib" :> [LibChild EXCEPT
                         !.decls = @ @@ <<"V", "t">> :> Decl("member", 0, {}, {})])

MCEntryPoints == {<<"P", "m">>}
===============================================================================
