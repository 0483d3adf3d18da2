--------------------------- MODULE EntryResolver ---------------------------
(***************************************************************************)
(* server/internal/entry: the nodes an analysis starts from.  A spec has a *)
(* mode, and two sets of names: manual entry points and interfaces whose   *)
(* implementations are entry points.  A name "pkg#Type.Member" or          *)
(* "pkg#Name" is the triple <<path, type or name, member>>; one that does  *)
(* not parse is a triple of no package.                                    *)
(***************************************************************************)
EXTENDS GraphBuilder

CONSTANT Specs         \* the entry point specs a client may send

NodesOfKind(kind) == {id \in DOMAIN nodes : nodes[id].kind = kind}

EdgesOfKind(kind) == {e \in Edges : e.kind = kind}

Typed(path) == {p \in Range(program.pkgs) : p.typed /\ p.path = path}

Scope(path) == UNION {Range(p.scope) : p \in Typed(path)}

(* Every func main of a package named main.                                *)
AutoEntries ==
  {NodeID(p.path, None, "main") :
     p \in {p \in Range(program.pkgs) :
              /\ p.typed /\ p.name = "main"
              /\ \E d \in Range(p.scope) : d.name = "main" /\ d.sort = "func"}}
  \cap DOMAIN nodes

(* "pkg#Name": a function, or a variable, a constant or a type, whose id   *)
(* is first looked for as if it were a function's.                         *)
LookupName(path, name) ==
  LET decls    == {d \in Scope(path) : d.name = name}
      asMember == {NodeID(path, None, name)} \cap DOMAIN nodes
      asType   == {NodeID(path, name, None)} \cap DOMAIN nodes
  IN  IF decls = {} THEN {}
      ELSE IF asMember # {} \/ \E d \in decls : d.sort = "func" THEN asMember
      ELSE asType

(* "pkg#Type.Method"                                                       *)
LookupMethod(path, type, member) ==
  IF \E d \in Scope(path) :
       /\ d.name = type /\ d.sort = "type"
       /\ member \in program.named[d.named].methods
  THEN {NodeID(path, type, member)} \cap DOMAIN nodes
  ELSE {}

(* The id of the symbol a name stands for, in a set; {} for no node.       *)
LookupSymbol(fqn) ==
  IF fqn[3] = None THEN LookupName(fqn[1], fqn[2])
                 ELSE LookupMethod(fqn[1], fqn[2], fqn[3])

IsInterfaceName(fqn) ==
  /\ fqn[3] = None
  /\ Typed(fqn[1]) # {}
  /\ NodeID(fqn[1], fqn[2], None) \in NodesOfKind("interface")

(* The methods of the types with an implements edge to the interface.      *)
ImplementingMethods(fqn) ==
  {e.target : e \in {e \in EdgesOfKind("contains") :
     /\ Edge(e.source, NodeID(fqn[1], fqn[2], None), "implements") \in Edges
     /\ e.target \in NodesOfKind("method")}}

ByHand(spec) == IF spec.mode = "auto" THEN {} ELSE spec.manual

(* One name that cannot be resolved makes the request fail as a whole.     *)
ValidSpec(spec) ==
  /\ \A fqn \in ByHand(spec) : LookupSymbol(fqn) # {}
  /\ \A fqn \in spec.interfaces : IsInterfaceName(fqn)

Resolve(spec) ==
  (IF spec.mode = "manual" THEN {} ELSE AutoEntries)
    \cup (UNION {LookupSymbol(fqn) : fqn \in ByHand(spec)})
    \cup (UNION {ImplementingMethods(fqn) : fqn \in spec.interfaces})
=============================================================================
