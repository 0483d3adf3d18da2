------------------------------ MODULE Columns ------------------------------
(***************************************************************************)
(* What the two layout algorithms of the canvas, slotLayout.ts and         *)
(* reachDepth.ts, have in common: depths from the entries, the order of a  *)
(* layer by the mean height of the callers, the wrapping of a layer into   *)
(* columns, and the grid of what is left over.                             *)
(*                                                                         *)
(* A graph is a record: nodes, its ids as a sequence in alphabetical       *)
(* order; edges, a sequence of pairs of ids; entries; height, of each id.  *)
(***************************************************************************)
EXTENDS Integers, Sequences, FiniteSets, FiniteSetsExt, SequencesExt

(* Lengths are in eighths of a pixel, to which quotients are rounded.      *)
Px(n) == 8 * n

IdsOf(g) == ToSet(g.nodes)

(* Nodes twice, or edges of nodes that are not there, are left out before; *)
(* without nodes nothing is laid out.  A size is in whole pixels (a bound).*)
IsLayoutGraph(g) ==
    /\ g.nodes \in Seq(IdsOf(g)) /\ g.nodes # <<>>
    /\ g.edges \in Seq(IdsOf(g) \X IdsOf(g))
    /\ g.entries \subseteq IdsOf(g)
    /\ g.height \in [IdsOf(g) -> Nat]
    /\ \A n \in IdsOf(g) : g.height[n] % 8 = 0

(* The sums of the first elements of a sequence of numbers.                *)
Sums(f) ==
    LET sum[k \in 0..Len(f)] == IF k = 0 THEN 0 ELSE sum[k-1] + f[k]
    IN  sum
Total(f) == Sums(f)[Len(f)]

(* The places found before and those found now.                            *)
Merged(found, before) ==
    [n \in DOMAIN found \cup DOMAIN before |->
        IF n \in DOMAIN found THEN found[n] ELSE before[n]]

----------------------------------------------------------------------------
Callers(g, n) == {c \in IdsOf(g) : \E i \in DOMAIN g.edges : g.edges[i] = <<c, n>>}

(* What the entries reach in k calls.                                      *)
Levels(g) ==
    LET level[k \in 0..Len(g.nodes)] ==
            IF k = 0 THEN g.entries
            ELSE LET above == level[k-1]
                 IN  above \cup {n \in IdsOf(g) : Callers(g, n) \cap above # {}}
    IN  level

(* depth: of the nodes that are reached.                                   *)
Depths(g) ==
    LET steps == 0..Len(g.nodes)
    IN  [n \in {m \in IdsOf(g) : \E k \in steps : m \in Levels(g)[k]} |->
            Min({k \in steps : n \in Levels(g)[k]})]

----------------------------------------------------------------------------
(* The order within a layer.                                               *)

(* S in the order of R, a set of pairs.                                    *)
Ranked(S, R) ==
    [i \in 1..Cardinality(S) |-> CHOOSE a \in S : Cardinality({b \in S : <<b, a>> \in R}) = i - 1]

Index(g, n) == CHOOSE i \in DOMAIN g.nodes : g.nodes[i] = n

(* The mean height of some callers of a node, as <<sum, count>>: a caller  *)
(* counts once for every edge.                                             *)
Mean(g, n, callers, at) ==
    LET calls == {i \in DOMAIN g.edges : g.edges[i][2] = n /\ g.edges[i][1] \in callers}
    IN  <<Total([i \in DOMAIN g.edges |-> IF i \in calls THEN at[g.edges[i][1]].y ELSE 0]),
          Cardinality(calls)>>

(* Nodes without a mean come last; equal means are ordered by name.        *)
Smaller(x, y) == x[2] > 0 /\ (y[2] = 0 \/ x[1] * y[2] < y[1] * x[2])
Equal(x, y) == IF x[2] = 0 THEN y[2] = 0 ELSE y[2] > 0 /\ x[1] * y[2] = y[1] * x[2]

Above(g, S, mean) ==
    {p \in S \X S : \/ Smaller(mean[p[1]], mean[p[2]])
                    \/ Equal(mean[p[1]], mean[p[2]]) /\ Index(g, p[1]) < Index(g, p[2])}

InOrder(g, S, mean) == Ranked(S, Above(g, S, mean))

Position(ids, n) == CHOOSE i \in DOMAIN ids : ids[i] = n

----------------------------------------------------------------------------
(* A layer in columns of one size, the last perhaps shorter.               *)

CeilDiv(a, b) == (a + b - 1) \div b

ColumnOf(i, size) == (i - 1) \div size
TopRow(i, size) == ColumnOf(i, size) * size + 1
BottomRow(ids, i, size) == Min({Len(ids), TopRow(i, size) + size - 1})

----------------------------------------------------------------------------
(* A square grid of what has no layer, in alphabetical order.              *)
InGrid(g, S, left, top, gap) ==
    LET cols == Min({c \in 1..(Cardinality(S) + 1) : c * c >= Cardinality(S)})
        before(n) == Cardinality({m \in S : Index(g, m) < Index(g, n)})
    IN  [n \in S |-> [x |-> left + (before(n) % cols) * gap,
                      y |-> top + (before(n) \div cols) * gap]]
=============================================================================
