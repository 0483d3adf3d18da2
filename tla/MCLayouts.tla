------------------------------ MODULE MCLayouts -----------------------------
(***************************************************************************)
(* A few packages of one tree: nested directories, a chain, sizes of       *)
(* leaves and of an expanded package; the package that is opened has six   *)
(* members.                                                                *)
(***************************************************************************)
EXTENDS Layouts

DB == <<"db">>
PG == <<"db", "pg">>
API == <<"api">>

(* A part of some edges, in one order.                                     *)
Part(edges, es) == SelectSeq(edges, LAMBDA e : e \in es)

Graph(names, pkg, es, en, big) ==
    [nodes |-> names, package |-> pkg, edges |-> es, entries |-> en,
     width |-> [n \in ToSet(names) |-> IF n \in big THEN Px(500) ELSE Px(120)],
     height |-> [n \in ToSet(names) |-> IF n \in big THEN Px(460) ELSE Px(50)]]

PackageNames == <<"a", "b", "c", "d">>
Directories == [a |-> API, b |-> DB, c |-> PG, d |-> PG]

PackageEdges ==
    <<<<"a","b">>, <<"b","d">>, <<"a","c">>, <<"b","c">>, <<"c","d">>, <<"b","d">>>>

(* Every graph over four packages with these edges, one of them double,    *)
(* one entry, and none, the second or the last two packages expanded.      *)
MCGraphs ==
    {Graph(PackageNames, Directories, Part(PackageEdges, es), {"a"}, big) :
        es \in SUBSET ToSet(PackageEdges),
        big \in {{}, {"b"}, {"c", "d"}}}

(* One package that calls four large ones.                                 *)
FanNames == <<"a", "b", "c", "d", "e">>
Fan ==
    {Graph(FanNames, [n \in ToSet(FanNames) |-> API],
           <<<<"a","b">>, <<"a","c">>, <<"a","d">>, <<"a","e">>>>, {"a"}, {"b", "c", "d", "e"})}

Groupings == {<<>>, <<[id |-> 1, prefix |-> DB]>>,
              <<[id |-> 1, prefix |-> DB], [id |-> 2, prefix |-> PG]>>}

(* One lane a slot, all lanes in one, the folders first or left aside.     *)
Arrangements(groups) ==
    LET bfs == <<Bfs(0), Bfs(1), Bfs(2)>>
        folders == [i \in DOMAIN groups |-> Folder(groups[i].id)]
        Each(ls) == [i \in DOMAIN ls |-> <<ls[i]>>]
    IN  {Each(bfs), Each(bfs) \o Each(folders), Each(folders) \o Each(bfs),
         <<bfs \o folders>>, <<folders>> \o Each(bfs), <<<<Bfs(1)>>, <<>>, folders \o <<Bfs(0)>>>>}

MCEditors == UNION {{[groups |-> g, slots |-> s] : s \in Arrangements(g)} : g \in Groupings}

----------------------------------------------------------------------------
(* Six members: every call graph over some edges, with no, one or five     *)
(* entries, small and tall boxes; two members a column, so that layers     *)
(* wrap.                                                                   *)
MemberNames == <<"a", "b", "c", "d", "e", "f">>

Calls == <<<<"a","c">>, <<"a","d">>, <<"b","d">>, <<"a","f">>, <<"d","e">>, <<"e","c">>,
           <<"d","b">>>>

MCExpansions ==
    {[nodes |-> MemberNames, edges |-> Part(Calls, es), entries |-> en,
      height |-> [n \in ToSet(MemberNames) |-> Px(IF n \in tall THEN 130 ELSE 30)]] :
        es \in SUBSET ToSet(Calls),
        en \in {{}, {"a"}, {"a", "b", "c", "d", "e"}},
        tall \in {{}, {"d"}, {"c", "e"}}}

(* The second package of one chain, with one lane a slot.                  *)
MCOpenings ==
    {[graph |-> Graph(PackageNames, Directories, <<<<"a","b">>, <<"b","c">>>>, {"a"}, {}),
      editor |-> [groups |-> <<>>, slots |-> <<<<Bfs(0)>>, <<Bfs(1)>>, <<Bfs(2)>>>>],
      node |-> "b"]}
=============================================================================
