---------------------------- MODULE GraphBuilder ----------------------------
(***************************************************************************)
(* server/internal/graph: Build turns the type-checked packages of a       *)
(* project into the dependency graph.  A first pass over the packages, in  *)
(* the order of their paths, makes the nodes and the contains and embeds   *)
(* edges; a second pass makes the edges that cross packages, which need    *)
(* every node to exist; the implements resolver comes last.                *)
(*                                                                         *)
(* A program is a record                                                   *)
(*   pkgs        the packages, a sequence sorted by path.  A package has   *)
(*               its path, its name, local (it belongs to the user's       *)
(*               module), typed (it has type information), imports (a set  *)
(*               of paths), scope (its declarations, sorted by name) and   *)
(*               uses (the identifiers of its files, in order).  A         *)
(*               declaration has a name and a sort; that of a type also    *)
(*               says which named type it denotes, which is another one's  *)
(*               when it declares an alias.  A use says in which function  *)
(*               it stands (NoFunc outside of all), the object it resolves *)
(*               to, whether that is a function, and whether it is written *)
(*               as a selector;                                            *)
(*   named       the named types and the instances of generic ones that    *)
(*               are named by an alias: a function from <<path, name>> to  *)
(*               a record of the shape, the names of the methods declared  *)
(*               for it, the objects of its fields (an interface has       *)
(*               neither: what it asks for is no method of its own) and    *)
(*               the named types that it embeds, each a set;               *)
(*   implements  the pairs <<t, i>> for which go/types says that a pointer *)
(*               to t implements the interface i;                          *)
(*   origin      a function from the objects that are methods and fields   *)
(*               of instances to the declared ones they were made from.    *)
(* The objects of go/types are named <<path, type, member>>, with None for *)
(* no type or no member.  The code knows them by their addresses.  As a    *)
(* rule an object is named by its declaration; but each checker makes      *)
(* other objects for the methods of an instance of a generic type, and for *)
(* the fields whose types depend on its parameters: they have a type of    *)
(* their own in their names ("Box[int]"), also in the bodies of the        *)
(* methods of the generic type, where the receiver is an instance.         *)
(***************************************************************************)
EXTENDS Naturals, Sequences, FiniteSets, FiniteSetsExt, Bags, SequencesExt

CONSTANTS Programs,    \* the programs that may be analysed
          NoFunc       \* outside of every function

(* The packages, and the declarations of a package, are sequences.         *)
ASSUME ProgramsAssumption ==
  \A p \in Programs :
    /\ p.pkgs \in Seq(Range(p.pkgs))
    /\ \A pkg \in Range(p.pkgs) : pkg.scope \in Seq(Range(pkg.scope))

VARIABLES program,     \* the program under analysis
          phase,       \* "packages", "wiring", "implements", "built", ...
          next,        \* the position of the next package of the pass
          nodes,       \* a function from the ids to the nodes
          weight,      \* the edges, a bag: an edge met again is heavier
          objectIDs    \* the id minted for each object (funcByObj, ...)

builderVars == <<program, phase, next, nodes, weight, objectIDs>>

EdgeKinds == {"imports", "contains", "calls", "embeds", "implements",
              "references"}

NodeKinds == {"package", "struct", "interface", "func", "method", "field",
              "var", "const"}

Edges == DOMAIN weight

(* The empty name: no declaration that is looked up is called _.           *)
None == "_"

(* The canonical name that is hashed: "pkg", "pkg#Type", "pkg#Type.Member" *)
(* or "pkg.Member".  A path is the sequence of its dot-separated parts and *)
(* dots, so that two triples with one text have one id.                    *)
NodeID(path, type, member) ==
  path \o (IF type = None THEN <<>> ELSE <<"#", type>>)
       \o (IF member = None THEN <<>> ELSE <<".", member>>)

Node(pkg, kind, name) ==
  [kind |-> kind, name |-> name, package |-> pkg.path, external |-> ~pkg.local]

Edge(source, target, kind) ==
  [source |-> source, target |-> target, kind |-> kind]

-----------------------------------------------------------------------------
(* What AddPackage mints for a declaration: a record of the object, its id,*)
(* its container, its node and the position of the declaration.            *)

Minted(pkg, i, object, type, member, container, kind) ==
  [object |-> object, id |-> NodeID(pkg.path, type, member),
   container |-> container, position |-> i,
   node |-> Node(pkg, kind, IF member = None THEN type ELSE member)]

(* AddStructFields.  "type A B" has the field objects of B.                *)
MintedFields(pkg, i, typeName, named) ==
  {Minted(pkg, i, field, typeName, field[3],
          NodeID(pkg.path, typeName, None), "field") :
     field \in program.named[named].fields}

(* AddFunc for the methods of a type                                       *)
MintedMethods(pkg, i, typeName, named) ==
  {Minted(pkg, i, <<named[1], named[2], method>>, typeName, method,
          NodeID(pkg.path, typeName, None), "method") :
     method \in program.named[named].methods}

(* AddTypeName.  An alias is unwrapped: the methods and the fields of the  *)
(* type it denotes are added once more, under the alias's name.            *)
MintedType(pkg, i, decl) ==
  {Minted(pkg, i, <<pkg.path, decl.name, None>>, decl.name, None, pkg.path,
          IF program.named[decl.named].shape \in {"interface", "emptyInterface"}
          THEN "interface" ELSE "struct")}
  \cup MintedMethods(pkg, i, decl.name, decl.named)
  \cup MintedFields(pkg, i, decl.name, decl.named)

(* AddFunc, AddVar, AddConst                                               *)
MintedMember(pkg, i, decl) ==
  {Minted(pkg, i, <<pkg.path, None, decl.name>>, None, decl.name, pkg.path, decl.sort)}

(* A package without type information is skipped.                          *)
MintedBy(pkg) ==
  UNION {LET decl == pkg.scope[i]
         IN  IF decl.sort = "type" THEN MintedType(pkg, i, decl)
                                   ELSE MintedMember(pkg, i, decl) :
           i \in IF pkg.typed THEN DOMAIN pkg.scope ELSE {}}

(* Embedded types of a struct or an interface; the target need not be a    *)
(* node.                                                                   *)
EmbedsEdges(pkg) ==
  UNION {{Edge(NodeID(pkg.path, decl.name, None),
               NodeID(target[1], target[2], None), "embeds") :
            target \in program.named[decl.named].embeds} :
           decl \in {d \in Range(pkg.scope) : pkg.typed /\ d.sort = "type"}}

PackageEdges(pkg) ==
  {Edge(m.container, m.id, "contains") : m \in MintedBy(pkg)} \cup EmbedsEdges(pkg)

PackageIDs(pkg) ==
  IF pkg.typed THEN {pkg.path} \cup {m.id : m \in MintedBy(pkg)} ELSE {}

(* UpsertNode keeps the node that has the id already.                      *)
PackageNodes(pkg) ==
  [id \in DOMAIN nodes \cup PackageIDs(pkg) |->
     IF id \in DOMAIN nodes THEN nodes[id]
     ELSE IF id = pkg.path THEN Node(pkg, "package", pkg.name)
     ELSE (CHOOSE m \in MintedBy(pkg) : m.id = id).node]

PackageObjects(pkg) == {m.object : m \in MintedBy(pkg)}

(* An object met again under another name is known by its last id.         *)
LastMinted(pkg, object) ==
  CHOOSE m \in MintedBy(pkg) :
    /\ m.object = object
    /\ \A n \in MintedBy(pkg) : n.object = object => n.position <= m.position

PackageObjectIDs(pkg) ==
  [object \in DOMAIN objectIDs \cup PackageObjects(pkg) |->
     IF object \in PackageObjects(pkg) THEN LastMinted(pkg, object).id
                                       ELSE objectIDs[object]]

-----------------------------------------------------------------------------
(* The packages that got a node in the first pass (pkgID).                 *)
KnownPaths == {p.path : p \in {p \in Range(program.pkgs) : p.typed}}

(* addImports: what is not a node (the standard library) is left out.      *)
ImportEdges(pkg) ==
  {Edge(pkg.path, path, "imports") :
     path \in IF pkg.typed THEN pkg.imports \cap KnownPaths ELSE {}}

(* Mutation: a use of another package's object makes no edge.              *)
IsWireInPackage(use) ==
  /\ {use.in, use.object} \subseteq DOMAIN objectIDs
  /\ objectIDs[use.in] # objectIDs[use.object]
  /\ use.object[1] = use.in[1]

(* visitExpr: a use outside of a function has no source, and an object     *)
(* nothing was minted for is no target: what is declared in a package that *)
(* was not loaded, and what belongs to an instance of a generic type, for  *)
(* the lookup is by object and does not ask for its Origin.                *)
IsWire(use) ==
  /\ {use.in, use.object} \subseteq DOMAIN objectIDs
  /\ objectIDs[use.in] # objectIDs[use.object]

Wire(use) ==
  Edge(objectIDs[use.in], objectIDs[use.object],
       IF use.func THEN "calls" ELSE "references")

(* A selector is visited as itself and as its right-hand identifier.       *)
Visits(use) == IF use.selector THEN 2 ELSE 1

UseEdges(pkg) ==
  LET wires == {i \in DOMAIN pkg.uses : IsWire(pkg.uses[i])}
  IN  [e \in {Wire(pkg.uses[i]) : i \in wires} |->
         MapThenSumSet(LAMBDA i : Visits(pkg.uses[i]),
                       {i \in wires : Wire(pkg.uses[i]) = e})]

-----------------------------------------------------------------------------
TypeDecls == UNION {{d \in Range(p.scope) : d.sort = "type"} :
                      p \in {p \in Range(program.pkgs) : p.typed}}

(* typeFQN: the package of the type denoted, the name of the declaration.  *)
TypeFQN(decl) == <<decl.named[1], decl.name, None>>

(* The interfaces without methods are left out.                            *)
ProjectInterfaces ==
  {d \in TypeDecls : /\ program.named[d.named].shape = "interface"
                     /\ d.named[1] \in KnownPaths}

ImplementsPairs ==
  {pair \in {t \in TypeDecls : program.named[t.named].shape
                                 \notin {"interface", "emptyInterface"}}
            \X ProjectInterfaces :
     /\ TypeFQN(pair[1]) # TypeFQN(pair[2])
     /\ <<pair[1].named, pair[2].named>> \in program.implements
     /\ {TypeFQN(pair[1]), TypeFQN(pair[2])} \subseteq DOMAIN objectIDs}

(* The implements resolver: each pair is one edge, made here only.         *)
ImplementsEdges ==
  {Edge(objectIDs[TypeFQN(pair[1])], objectIDs[TypeFQN(pair[2])], "implements") :
     pair \in ImplementsPairs}

-----------------------------------------------------------------------------
(* Both passes go through the packages in turn.                            *)
PassContinues(pass, following) ==
  /\ phase = pass
  /\ next \in DOMAIN program.pkgs
  /\ IF next = Len(program.pkgs) THEN phase' = following /\ next' = 1
                                 ELSE phase' = pass /\ next' = next + 1
  /\ UNCHANGED program

AddPackage ==
  /\ PassContinues("packages", "wiring")
  /\ nodes' = PackageNodes(program.pkgs[next])
  /\ objectIDs' = PackageObjectIDs(program.pkgs[next])
  /\ weight' = weight (+) SetToBag(PackageEdges(program.pkgs[next]))

WirePackage ==
  /\ PassContinues("wiring", "implements")
  /\ weight' = weight (+) SetToBag(ImportEdges(program.pkgs[next]))
                     (+) UseEdges(program.pkgs[next])
  /\ UNCHANGED <<nodes, objectIDs>>

ResolveImplements ==
  /\ phase = "implements"
  /\ phase' = "built"
  /\ weight' = weight (+) SetToBag(ImplementsEdges)
  /\ UNCHANGED <<program, next, nodes, objectIDs>>

(* Nothing was loaded: the graph is empty.                                 *)
BuildNothing ==
  /\ phase = "packages"
  /\ program.pkgs = <<>>
  /\ phase' = "built"
  /\ UNCHANGED <<program, next, nodes, weight, objectIDs>>

(* The context is asked before each package of the first pass and by the   *)
(* implements resolver, not in the second pass.  No graph is returned.     *)
CancelBuild ==
  /\ phase \in {"packages", "implements"}
  /\ phase' = "cancelled"
  /\ UNCHANGED <<program, next, nodes, weight, objectIDs>>

BuilderInit ==
  /\ program \in Programs
  /\ phase = "packages"
  /\ next = 1
  /\ nodes = <<>>
  /\ weight = <<>>
  /\ objectIDs = <<>>

BuilderNext ==
  AddPackage \/ BuildNothing \/ WirePackage \/ ResolveImplements \/ CancelBuild
=============================================================================
