--------------------------- MODULE MCReachability ---------------------------
(***************************************************************************)
(* Small programs for Reachability: every subset of a few uses over one    *)
(* skeleton of two packages (with the second of the user's module or not), *)
(* and programs with an alias in another package, a generic type without   *)
(* and with an alias of its instance, two types with one set of fields,    *)
(* two declarations whose canonical names are equal, a package without     *)
(* types, and no package.                                                  *)
(***************************************************************************)
EXTENDS Reachability

A == <<"a">>
B == <<"b">>
AB == <<"a", ".", "b">>     \* the path "a.b"

Package(path, name, local, imports, scope, uses) ==
  [path |-> path, name |-> name, local |-> local, typed |-> TRUE,
   imports |-> imports, scope |-> scope, uses |-> uses]

Func(name) == [name |-> name, sort |-> "func"]
Var(name) == [name |-> name, sort |-> "var"]
Type(name, named) == [name |-> name, sort |-> "type", named |-> named]

Call(in, object, selector) ==
  [in |-> in, object |-> object, func |-> TRUE, selector |-> selector]
Read(in, object, selector) ==
  [in |-> in, object |-> object, func |-> FALSE, selector |-> selector]

Struct(methods, fields, embeds) ==
  [shape |-> "struct", methods |-> methods, fields |-> fields, embeds |-> embeds]
Interface == [shape |-> "interface", methods |-> {}, fields |-> {}, embeds |-> {}]

(* package main: func f, func main, type T (a method m, an embedded type   *)
(* of a package that is not loaded), and a variable whose initialiser is   *)
(* no function's; package b: type I interface, func g, func main.          *)
UsesOfA == {Call(<<A, None, "main">>, <<B, None, "g">>, TRUE),
            Read(<<A, None, "main">>, <<B, "I", None>>, TRUE),
            Read(<<A, None, "f">>, <<A, "T", None>>, FALSE),
            Call(<<A, "T", "m">>, <<A, None, "f">>, FALSE)}
UsesOfB == {Call(<<B, None, "g">>, <<B, None, "main">>, FALSE),
            Call(<<B, None, "main">>, <<B, None, "g">>, FALSE)}

Skeleton(usesOfA, usesOfB, local) ==
  [pkgs |-> <<Package(A, "main", TRUE, {B, <<"fmt">>},
                      <<Type("T", <<A, "T">>), Func("f"), Func("main"), Var("v")>>,
                      <<Call(NoFunc, <<A, None, "f">>, FALSE)>>
                        \o SetToSeq(usesOfA)),
              Package(B, "b", local, {},
                      <<Type("I", <<B, "I">>), Func("g"), Func("main")>>,
                      SetToSeq(usesOfB))>>,
   named |-> (<<A, "T">> :> Struct({"m"}, {}, {<<<<"sync">>, "Mutex">>}))
             @@ (<<B, "I">> :> Interface),
   implements |-> {<<<<A, "T">>, <<B, "I">>>>},
   origin |-> <<>>]

(* package b: type Foo, type Impl (a field and a method), type I; package  *)
(* main: type Foo = b.Impl.                                                *)
Alias ==
  [pkgs |-> <<Package(A, "main", TRUE, {B},
                      <<Type("Foo", <<B, "Impl">>), Func("main")>>,
                      <<Call(<<A, None, "main">>, <<B, "Impl", "m">>, TRUE)>>),
              Package(B, "b", TRUE, {},
                      <<Type("Foo", <<B, "Foo">>), Type("I", <<B, "I">>),
                        Type("Impl", <<B, "Impl">>)>>,
                      <<Read(<<B, "Impl", "m">>, <<B, "Impl", "x">>, TRUE)>>)>>,
   named |-> (<<B, "Foo">> :> Struct({}, {}, {}))
             @@ (<<B, "I">> :> Interface)
             @@ (<<B, "Impl">> :> Struct({"m"}, {<<B, "Impl", "x">>}, {})),
   implements |-> {<<<<B, "Impl">>, <<B, "I">>>>},
   origin |-> <<>>]

(* type Box[P any] struct { v P; n int }, a method get that returns v, a   *)
(* variable b of type Box[int], and func main, which calls b.get and reads *)
(* b.n; with or without type IntBox = Box[int].                            *)
BoxOfP == <<A, "Box[P]", "v">>
GetOfInt == <<A, "Box[int]", "get">>

Generic(aliased) ==
  [pkgs |-> <<Package(A, "main", TRUE, {},
                      <<Type("Box", <<A, "Box">>)>>
                        \o (IF aliased THEN <<Type("IntBox", <<A, "Box[int]">>)>>
                                       ELSE <<>>)
                        \o <<Var("b"), Func("main")>>,
                      <<Read(<<A, "Box", "get">>, BoxOfP, TRUE),
                        Read(<<A, None, "main">>, <<A, None, "b">>, FALSE),
                        Call(<<A, None, "main">>, GetOfInt, TRUE),
                        Read(<<A, None, "main">>, <<A, "Box", "n">>, TRUE)>>)>>,
   named |-> (<<A, "Box">> :>
                Struct({"get"}, {<<A, "Box", "v">>, <<A, "Box", "n">>}, {}))
             @@ (<<A, "Box[int]">> :>
                Struct({"get"}, {<<A, "Box[int]", "v">>, <<A, "Box", "n">>}, {})),
   implements |-> {},
   origin |-> (BoxOfP :> <<A, "Box", "v">>) @@ (GetOfInt :> <<A, "Box", "get">>)
              @@ (<<A, "Box[int]", "v">> :> <<A, "Box", "v">>)]

(* type S struct { x int }; type R S; func main reads an x.                *)
SharedFields ==
  [pkgs |-> <<Package(A, "main", TRUE, {},
                      <<Type("R", <<A, "R">>), Type("S", <<A, "S">>), Func("main")>>,
                      <<Read(<<A, None, "main">>, <<A, "S", "x">>, TRUE)>>)>>,
   named |-> (<<A, "R">> :> Struct({}, {<<A, "S", "x">>}, {}))
             @@ (<<A, "S">> :> Struct({}, {<<A, "S", "x">>}, {})),
   implements |-> {},
   origin |-> <<>>]

(* func b of package a, and a package whose path is a.b.                   *)
SameName ==
  [pkgs |-> <<Package(A, "main", TRUE, {AB}, <<Func("b"), Func("main")>>,
                      <<Call(<<A, None, "main">>, <<AB, None, "c">>, TRUE)>>),
              Package(AB, "ab", TRUE, {}, <<Func("c")>>, <<>>)>>,
   named |-> <<>>,
   implements |-> {},
   origin |-> <<>>]

Untyped ==
  [pkgs |-> <<[Package(A, "main", TRUE, {}, <<Func("main")>>, <<>>)
                 EXCEPT !.typed = FALSE]>>,
   named |-> <<>>,
   implements |-> {},
   origin |-> <<>>]

Nothing == [pkgs |-> <<>>, named |-> <<>>, implements |-> {}, origin |-> <<>>]

MCPrograms ==
  {Skeleton(u, v, l) : u \in SUBSET UsesOfA, v \in SUBSET UsesOfB, l \in BOOLEAN}
    \cup {Alias, Generic(TRUE), Generic(FALSE), SharedFields, SameName,
          Untyped, Nothing}

SpecOf(mode, manual, interfaces) ==
  [mode |-> mode, manual |-> manual, interfaces |-> interfaces]

MCSpecs ==
  {SpecOf("auto", {}, {}),
   SpecOf("auto", {}, {<<B, "I", None>>}),
   SpecOf("manual", {<<A, "T", "m">>}, {}),
   SpecOf("mixed", {<<B, None, "g">>, <<A, "T", None>>}, {}),
   SpecOf("manual", {<<B, "Foo", None>>, <<B, "I", None>>}, {}),
   SpecOf("mixed", {<<B, "g", None>>}, {}),
   SpecOf("auto", {<<A, "nowhere", None>>}, {<<A, "T", None>>})}
=============================================================================
