------------------------------ MODULE Layouts -------------------------------
(***************************************************************************)
(* The canvas is laid out, and then a package of it is opened where it     *)
(* stands.                                                                 *)
(***************************************************************************)
EXTENDS SlotLayout, MemberLayout

(* Which package is opened in which arrangement: [graph, editor, node] (a  *)
(* bound).                                                                 *)
CONSTANT Openings

LayoutsInit == SlotInit /\ MemberInit

OpenPackage ==
    /\ Swept
    /\ \E o \in Openings, ms \in Expansions :
            /\ o.graph = graph /\ o.editor = editor /\ o.node \in Ids
            /\ Open(ms, pos[o.node])
    /\ UNCHANGED canvas

LayoutsNext ==
    \/ SlotNext /\ UNCHANGED opened
    \/ OpenPackage
    \/ MemberNext /\ UNCHANGED canvas

LayoutsSpec == LayoutsInit /\ [][LayoutsNext]_<<canvas, opened>>
=============================================================================
