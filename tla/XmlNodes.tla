------------------------------ MODULE XmlNodes ------------------------------
(* The nodes of the XML parser (shared/vartypes/xml/xmlParser.cpp): every   *)
(* node keeps its children, texts and clear texts in an array each and one  *)
(* array of places, d->pOrder, that says in which order they come; handles  *)
(* of the class XMLNode share the data of a node and count themselves.      *)
EXTENDS Integers, Sequences, SequencesExt, FiniteSets

CONSTANTS Nodes,        \* the data a program can have at a time
          Strings,      \* what a text holds
          MaxContents,  \* the contents of all nodes
          MaxHandles    \* the handles a program keeps of one node

(* A node is numbered; the number 0 stands for none.                        *)
ASSUME NodesAssumption == Nodes \subseteq Nat \ {0}

VARIABLES data,         \* what is allocated for a node
          handles,      \* the handles the program has of it
          listed        \* the contents it was told to have, in order

nodeVars == <<data, handles, listed>>
NodeKinds == {"child", "text", "clear"}
None == 0

NoData == [alive |-> FALSE, parent |-> None, refs |-> 0, order |-> <<>>,
           items |-> [k \in NodeKinds |-> <<>>]]
NewData(parent, refs) ==
    [NoData EXCEPT !.alive = TRUE, !.parent = parent, !.refs = refs]

NodesInit == /\ data = [n \in Nodes |-> NoData]
             /\ handles = [n \in Nodes |-> 0]
             /\ listed = [n \in Nodes |-> <<>>]

PlaceOf(kind, index) == [kind |-> kind, index |-> index]

(* Where something goes in the order (from 0 on, -1 is the end), and in the *)
(* array of its kind.                                                       *)
addToOrder(d, kind, pos) ==
    LET n == Len(d.order)
        count == Len(d.items[kind])
        moved == SubSeq(d.order, 1, pos + 1) \o SubSeq(d.order, pos + 1, n)
        same == {k \in (pos + 1)..n : moved[k].kind = kind}
        next == CHOOSE k \in same : \A j \in same : k <= j
        shown == [moved EXCEPT ![pos + 1] = moved[next]]
    IN CASE pos < 0 \/ pos >= n ->
              [order |-> Append(d.order, PlaceOf(kind, count)), at |-> count]
         [] pos \in 0..(n - 1) /\ same = {} ->
              [order |-> [moved EXCEPT ![n + 1] = PlaceOf(kind, count)],
               at |-> count]
         [] OTHER ->
              [order |-> [k \in DOMAIN shown |->
                 IF k > next /\ shown[k].kind = kind
                 THEN PlaceOf(kind, shown[k].index + 1) ELSE shown[k]],
               at |-> shown[next].index]
Adding(d, kind, item, pos) ==
    LET added == addToOrder(d, kind, pos)
    IN [d EXCEPT !.order = added.order,
                 !.items[kind] = InsertAt(@, added.at + 1, item)]

findPosition(d, kind, index) ==
    (CHOOSE k \in DOMAIN d.order : d.order[k] = PlaceOf(kind, index)) - 1
(* A mistake: the later ones of its kind keep their index. *)
RemoveOnly(d, kind, index) == RemoveAt(d.order, findPosition(d, kind, index) + 1)
removeOrderElement(d, kind, index) ==
    LET at == findPosition(d, kind, index)
        left == RemoveAt(d.order, at + 1)
    IN [k \in DOMAIN left |-> IF k > at /\ left[k].kind = kind
                              THEN PlaceOf(kind, left[k].index - 1) ELSE left[k]]
Without(d, kind, index) ==
    [d EXCEPT !.order = removeOrderElement(d, kind, index),
              !.items[kind] = RemoveAt(@, index + 1)]

(* deleteClear() moves as many as there are texts: what it does not move    *)
(* stays where it was.                                                      *)
WithoutClear(d, index) ==
    LET clears == d.items["clear"]
        texts == Len(d.items["text"])
    IN [Without(d, "clear", index) EXCEPT !.items["clear"] =
          [k \in 1..(Len(clears) - 1) |->
             IF k > index /\ k <= texts THEN clears[k + 1] ELSE clears[k]]]

IndexOfChild(d, c) == (CHOOSE k \in DOMAIN d.items["child"] :
                       d.items["child"][k] = c) - 1
detachFromParent(all, c) ==
    LET p == all[c].parent
    IN [all EXCEPT ![p] = Without(@, "child", IndexOfChild(@, c))]

-----------------------------------------------------------------------------
(* The intended list of contents. *)

Item(kind, what) == [kind |-> kind, what |-> what]
Listed(list, item, pos) ==
    IF pos < 0 \/ pos >= Len(list) THEN Append(list, item)
    ELSE InsertAt(list, pos + 1, item)
Nth(list, kind, index) == CHOOSE k \in DOMAIN list :
    /\ list[k].kind = kind
    /\ Cardinality({j \in 1..k : list[j].kind = kind}) = index + 1
Unlisted(list, kind, index) == RemoveAt(list, Nth(list, kind, index))

(* The positions at which the contents that are there let something in:     *)
(* before one of the same kind, or the end.                                 *)
SamePositions(d, kind) ==
    {-1} \cup {k - 1 : k \in {j \in DOMAIN d.order : d.order[j].kind = kind}}

AllContents == FoldFunction(LAMBDA list, n : n + Len(list), 0, listed)
Room(p) == data[p].alive /\ handles[p] > 0 /\ AllContents < MaxContents
Free(c) == ~data[c].alive /\ \A n \in Nodes : ~data[n].alive => c <= n

createXMLTopNode(c) ==
    /\ Free(c)
    /\ data' = [data EXCEPT ![c] = NewData(None, 1)]
    /\ handles' = [handles EXCEPT ![c] = 1]
    /\ listed' = [listed EXCEPT ![c] = <<>>]

(* addChild(name): the handle that is returned is kept or thrown away. *)
addNewChild(p, c, pos) ==
    /\ Room(p)
    /\ Free(c)
    /\ \E kept \in {0, 1} :
         /\ data' = [data EXCEPT ![p] = Adding(@, "child", c, pos),
                                 ![c] = NewData(p, 1 + kept)]
         /\ handles' = [handles EXCEPT ![c] = kept]
    /\ listed' = [listed EXCEPT ![p] = Listed(@, Item("child", c), pos),
                                ![c] = <<>>]

addString(p, kind, s, pos) ==
    /\ Room(p)
    /\ data' = [data EXCEPT ![p] = Adding(@, kind, s, pos)]
    /\ listed' = [listed EXCEPT ![p] = Listed(@, Item(kind, s), pos)]
    /\ UNCHANGED handles

(* What deleteNodeContent() of c frees with c: it goes on to the children   *)
(* of every node it frees, and stops at one that has another holder, unless *)
(* it is forced.                                                            *)
Followed(gone, force) ==
    \A n \in gone : \A k \in ToSet(data[n].items["child"]) :
        force \/ data[k].refs = 1 => k \in gone
FreedWith(c, force) ==
    {n \in Nodes : \A gone \in SUBSET Nodes :
                     c \in gone /\ Followed(gone, force) => n \in gone}
Below(c) == FreedWith(c, TRUE)

(* addChild(node): a node that has a parent is taken from it. *)
(* A mistake: the new parent always counts once more. *)
LooseCounted(c) ==
    [(IF data[c].parent = None THEN data ELSE detachFromParent(data, c))
     EXCEPT ![c].refs = @ + 1]
Loose(c) == IF data[c].parent = None THEN [data EXCEPT ![c].refs = @ + 1]
            ELSE detachFromParent(data, c)

(* addChild(node): a node that has a parent is taken from it.  The place is *)
(* one less when the node was before it in the same parent.                 *)
addChild(p, c, pos) ==
    /\ Room(p) /\ handles[c] > 0 /\ p \notin Below(c)
    /\ LET from == data[c].parent
           was == IF from = None THEN -1 ELSE
                  findPosition(data[from], "child", IndexOfChild(data[from], c))
           at == IF from = p /\ was <= pos THEN pos - 1 ELSE pos
           left == IF from = None THEN listed
                   ELSE [listed EXCEPT ![from] = RemoveAt(@, was + 1)]
       IN /\ data' = [Loose(c) EXCEPT ![p] = Adding(@, "child", c, at),
                                      ![c].parent = p]
          /\ listed' = [left EXCEPT ![p] = Listed(@, Item("child", c),
                        IF from = p /\ was < pos THEN pos - 1 ELSE pos)]
    /\ UNCHANGED handles

deleteText(p, i) ==
    /\ handles[p] > 0
    /\ i \in 0..(Len(data[p].items["text"]) - 1)
    /\ data' = [data EXCEPT ![p] = Without(@, "text", i)]
    /\ listed' = [listed EXCEPT ![p] = Unlisted(@, "text", i)]
    /\ UNCHANGED handles

deleteClear(p, i) ==
    /\ handles[p] > 0
    /\ i \in 0..(Len(data[p].items["clear"]) - 1)
    /\ data' = [data EXCEPT ![p] = WithoutClear(@, i)]
    /\ listed' = [listed EXCEPT ![p] = Unlisted(@, "clear", i)]
    /\ UNCHANGED handles

-----------------------------------------------------------------------------
(* Handles. *)

(* getChildNode(): one more handle. *)
getChildNode(p, i) ==
    /\ handles[p] > 0
    /\ i \in DOMAIN data[p].items["child"]
    /\ LET c == data[p].items["child"][i]
       IN /\ handles[c] < MaxHandles
          /\ handles' = [handles EXCEPT ![c] = @ + 1]
          /\ data' = [data EXCEPT ![c].refs = @ + 1]
    /\ UNCHANGED listed

(* One handle less: the last one frees the data and what it alone holds.    *)
(* A child that stays has no parent any more, which no longer counts.       *)
ReleasedNode(c, force) ==
    LET gone == FreedWith(c, force)
        left == IF data[c].parent = None THEN data
                ELSE detachFromParent(data, c)
    IN [n \in Nodes |->
          CASE n \in gone -> NoData
            [] n \notin gone /\ data[n].parent \in gone ->
                 [left[n] EXCEPT !.parent = None, !.refs = @ - 1]
            [] OTHER -> left[n]]
Dropped(c, force) ==
    IF data[c].refs > 1 /\ ~force THEN [data EXCEPT ![c].refs = @ - 1]
    ELSE ReleasedNode(c, force)

Gone(all) == [n \in Nodes |-> IF all[n].alive THEN listed[n] ELSE <<>>]

(* ~XMLNode(): a handle goes out of scope. *)
DropHandle(c) ==
    /\ handles[c] > 0
    /\ handles' = [handles EXCEPT ![c] = @ - 1]
    /\ data' = Dropped(c, FALSE)
    /\ listed' = Gone(data')

(* deleteNodeContent(1): the node and all below it go, so there must be no  *)
(* other handle of them.                                                    *)
deleteNodeContent(c) ==
    /\ handles[c] = 1 /\ \A n \in Below(c) \ {c} : handles[n] = 0
    /\ LET p == data[c].parent
           unlisted == IF p = None THEN listed
                       ELSE [listed EXCEPT ![p] = Unlisted(@, "child",
                             IndexOfChild(data[p], c))]
       IN /\ data' = Dropped(c, TRUE)
          /\ listed' = [n \in Nodes |->
                        IF data'[n].alive THEN unlisted[n] ELSE <<>>]
    /\ handles' = [handles EXCEPT ![c] = 0]

-----------------------------------------------------------------------------
Handles(c) == \/ createXMLTopNode(c)
              \/ DropHandle(c)
              \/ deleteNodeContent(c)
              \/ \E i \in 1..MaxContents : getChildNode(c, i)
Adds(p) ==
    \/ \E c \in Nodes : \E pos \in SamePositions(data[p], "child") :
         \/ addNewChild(p, c, pos)
         \/ /\ pos >= 0 => data[p].items["child"]
                              [data[p].order[pos + 1].index + 1] # c
            /\ addChild(p, c, pos)
    \/ \E k \in {"text", "clear"}, s \in Strings :
         \E pos \in SamePositions(data[p], k) : addString(p, k, s, pos)

(* The program inserts at a place of the same kind, and takes away a clear  *)
(* text only where there are as many texts.                                 *)
NodesNext == \E p \in Nodes :
    \/ Handles(p)
    \/ Adds(p)
    \/ \E i \in 0..MaxContents : deleteText(p, i)
    \/ \E i \in 0..MaxContents :
         /\ Len(data[p].items["text"]) >= Len(data[p].items["clear"]) - 1
         /\ deleteClear(p, i)
NodesSpec == NodesInit /\ [][NodesNext]_nodeVars

(* What a node shows in the order of its places is what it was told to      *)
(* have: no content is lost, doubled or taken for another one.              *)
ShownContents(d) == [k \in DOMAIN d.order |->
    LET kind == d.order[k].kind
    IN Item(kind, d.items[kind][d.order[k].index + 1])]
ContentsAsListed == \A n \in Nodes : data[n].alive =>
    ShownContents(data[n]) = listed[n]

(* The count of a node is that of the handles there are and of its parent:  *)
(* nothing is freed while it is held or has a parent, and nothing is left. *)
CountsAreExact == \A n \in Nodes :
    /\ data[n].refs = handles[n] + IF data[n].parent = None THEN 0 ELSE 1
    /\ data[n].alive <=> data[n].refs > 0
    /\ \A c \in ToSet(data[n].items["child"]) :
         data[c].alive /\ data[c].parent = n
    /\ data[n].parent # None =>
         Cardinality({k \in DOMAIN data[data[n].parent].items["child"] :
                      data[data[n].parent].items["child"][k] = n}) = 1

(* However nodes are added, moved and deleted, each has the contents it was *)
(* given, in their order, and the counts of references are exact.           *)
NodesAreSound == ContentsAsListed /\ CountsAreExact
=============================================================================
