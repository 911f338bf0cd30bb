------------------------------- MODULE KdTree -------------------------------
(* shared/util/nkdtree.h with its vectors of shared/util/nvector.h: the     *)
(* tree of cmvision's regions, of two dimensions and not scaled.  A state   *)
(* is a point with a name; a node is a record with its children's trees.    *)
EXTENDS CheckedInput, Integers, Sequences, FiniteSets, SequencesExt

CONSTANTS LeafSize,    \* 16 in the code
          MaxDepth     \* 20 in the code

ASSUME TreeAssumption == LeafSize \in Nat \ {0} /\ MaxDepth \in Nat

Dims == 1 .. 2

----------------------------------------------------------------------------
(* NVector.                                                                *)

Of(Op(_, _), a, b) == [i \in Dims |-> Op(a[i], b[i])]
min(a, b) == Of(LAMBDA x, y : IF x < y THEN x ELSE y, a, b)
max(a, b) == Of(LAMBDA x, y : IF x > y THEN x ELSE y, a, b)
boundState(a, low, high) == max(low, min(a, high))
squaredDistance(a, b) == (a[1] - b[1]) * (a[1] - b[1]) + (a[2] - b[2]) * (a[2] - b[2])

----------------------------------------------------------------------------
(* The tree.                                                               *)

NoTree == [states |-> <<>>]
IsNone(t) == t = NoTree

NewNode(s) == [min |-> s.at, max |-> s.at, dim |-> 1, sum |-> 0, num |-> 0,
               states |-> <<>>, child |-> <<NoTree, NoTree>>]

updateBBox(t, s) == [t EXCEPT !.min = min(@, s.at), !.max = max(@, s.at)]

(* The child on whose side of the threshold, a mean, the point lies.       *)
Side(t, at) == IF at[t.dim] * t.num > t.sum THEN 2 ELSE 1

RECURSIVE add(_, _, _, _), split(_, _, _), AddEach(_, _, _, _)

(* A mistake: only the leaf's own box is told of the state.                *)
AddUntold(t, s, level, built) ==
    IF IsNone(t) \/ IsNone(t.child[1])
    THEN LET p == IF IsNone(t) THEN NewNode(s) ELSE t
             q == updateBBox([p EXCEPT !.states = <<s>> \o @], s)
         IN  IF built THEN split(q, level, built) ELSE q
    ELSE [t EXCEPT !.child[Side(t, s.at)] = add(@, s, level + 1, built)]

add(t, s, level, built) ==
    IF IsNone(t) \/ IsNone(t.child[1])
    THEN LET p == IF IsNone(t) THEN NewNode(s) ELSE t
             q == updateBBox([p EXCEPT !.states = <<s>> \o @], s)
         IN  IF built THEN split(q, level, built) ELSE q
    ELSE LET p == updateBBox(t, s)
         IN  [p EXCEPT !.child[Side(p, s.at)] = add(@, s, level + 1, built)]

(* The states of a leaf, each added to the child on its side.              *)
AddEach(t, states, level, built) ==
    IF states = <<>> THEN t
    ELSE LET s == Head(states)
         IN  AddEach([t EXCEPT !.child[Side(t, s.at)] =
                          add(@, s, level + 1, built)],
                     Tail(states), level, built)

split(t, level, built) ==
    IF IsNone(t) THEN t
    ELSE IF Len(t.states) <= LeafSize \/ level >= MaxDepth \/ t.min = t.max
    THEN t
    ELSE LET sd == (level % 2) + 1
             sum == FoldLeft(LAMBDA n, s : n + s.at[sd], 0, t.states)
             p == [t EXCEPT !.dim = sd, !.sum = sum, !.num = Len(t.states)]
             q == [AddEach(p, t.states, level, built)
                       EXCEPT !.states = <<>>]
         IN  IF built THEN q
             ELSE [q EXCEPT !.child[1] = split(@, level + 1, built),
                            !.child[2] = split(@, level + 1, built)]

(* The states before build(), the build, the states after it.  A tree that *)
(* was never cleared has is_built from nobody: then it may believe that it  *)
(* has been built.                                                         *)
build(t, built) == IF built THEN t ELSE split(t, 0, FALSE)
AddAll(t, states, built) ==
    FoldLeft(LAMBDA u, s : add(u, s, 0, built), t, states)
Tree(before, after, believed) ==
    AddAll(build(AddAll(NoTree, before, believed), believed), after, TRUE)

----------------------------------------------------------------------------
(* The queries; distances are squared.                                     *)

distFromNode(q, t) == squaredDistance(q, boundState(q, t.min, t.max))
distFromState(q, s) == squaredDistance(q, s.at)

(* The search queue: nodes and states that are nearer than the limit.      *)
addNode(queue, q, most, t) ==
    queue \cup (IF ~ IsNone(t) /\ distFromNode(q, t) < most
                THEN {[dist |-> distFromNode(q, t), node |-> t,
                       state |-> <<>>]}
                ELSE {})
addState(queue, q, most, s) ==
    queue \cup (IF distFromState(q, s) < most
                THEN {[dist |-> distFromState(q, s), node |-> NoTree,
                       state |-> <<s>>]}
                ELSE {})

startQuery(t, q, most) == addNode({}, q, most, t)

(* What getNextNearest returns, call after call, until there is no more.   *)
RECURSIVE NearestNext(_, _, _)
NearestNext(queue, q, most) ==
    IF queue = {} THEN <<>>
    ELSE LET top == CHOOSE e \in queue : \A f \in queue : e.dist <= f.dist
             rest == queue \ {top}
             t == top.node
             withNodes == IF IsNone(t) THEN rest
                          ELSE addNode(addNode(rest, q, most, t.child[1]),
                                       q, most, t.child[2])
         IN  IF top.state # <<>>
             THEN top.state \o NearestNext(rest, q, most)
             ELSE NearestNext(
                    FoldLeft(LAMBDA u, s : addState(u, q, most, s),
                             withNodes, t.states), q, most)

(* best is [dist, state]: the square of query_max_dist and the nearest     *)
(* state so far.                                                           *)
NearerState(q, best, s) ==
    IF distFromState(q, s) < best.dist
    THEN [dist |-> distFromState(q, s), state |-> <<s>>] ELSE best

RECURSIVE NearestIn(_, _, _)

(* A mistake: the far side of the plane is not looked at.                  *)
NearSideOnly(t, q, best) ==
    IF IsNone(t) THEN best
    ELSE IF distFromNode(q, t) > best.dist THEN best
    ELSE IF t.states # <<>>
    THEN FoldLeft(LAMBDA b, s : NearerState(q, b, s), best, t.states)
    ELSE NearestIn(t.child[Side(t, q)], q, best)

NearestIn(t, q, best) ==
    IF IsNone(t) THEN best
    ELSE IF distFromNode(q, t) > best.dist THEN best
    ELSE IF t.states # <<>>
    THEN FoldLeft(LAMBDA b, s : NearerState(q, b, s), best, t.states)
    ELSE NearestIn(t.child[3 - Side(t, q)], q,
                   NearestIn(t.child[Side(t, q)], q, best))

getOnlyNearest(t, q, most) ==
    NearestIn(t, q, [dist |-> most, state |-> <<>>])

----------------------------------------------------------------------------
(* Properties.                                                             *)

Added == Range(input.before) \cup Range(input.after)
Built == Tree(input.before, input.after, input.believed)

RECURSIVE StatesOf(_), BoxesHold(_)
StatesOf(t) == IF IsNone(t) THEN {}
               ELSE Range(t.states) \cup StatesOf(t.child[1])
                    \cup StatesOf(t.child[2])
BoxesHold(t) ==
    \/ IsNone(t)
    \/ /\ \A s \in StatesOf(t) : boundState(s.at, t.min, t.max) = s.at
       /\ ~ IsNone(t.child[1]) =>
            /\ t.states = <<>>
            /\ \A i \in {1, 2} : \A s \in StatesOf(t.child[i]) :
                 Side(t, s.at) = i
       /\ BoxesHold(t.child[1]) /\ BoxesHold(t.child[2])

(* nkdtree.h:221-303: whatever is added before the build and after it, and *)
(* whether or not the tree took itself for built before, every state is in *)
(* the boxes of its nodes and on its side of their planes, and none is     *)
(* lost.                                                                   *)
TreeHoldsStates == BoxesHold(Built) /\ StatesOf(Built) = Added

(* nkdtree.h:358: a query yields every state that is nearer than the limit, *)
(* once, the nearer ones first.                                            *)
QueryYieldsInOrder ==
    LET found == NearestNext(startQuery(Built, input.query, input.most),
                             input.query, input.most)
        Dist(s) == distFromState(input.query, s)
    IN  /\ Range(found) = {s \in Added : Dist(s) < input.most}
        /\ Len(found) = Cardinality(Range(found))
        /\ \A i, j \in 1 .. Len(found) :
             i < j => Dist(found[i]) <= Dist(found[j])

(* nkdtree.h:395-455: the nearest state alone is a nearest one, and the     *)
(* limit becomes its distance.                                             *)
NearestIsNearest ==
    LET best == getOnlyNearest(Built, input.query, input.most)
        Near == {s \in Added : distFromState(input.query, s) < input.most}
    IN  IF Near = {} THEN best = [dist |-> input.most, state |-> <<>>]
        ELSE /\ best.state # <<>> /\ best.state[1] \in Near
             /\ best.dist = distFromState(input.query, best.state[1])
             /\ \A s \in Near : best.dist <= distFromState(input.query, s)

(* What the tree of the found regions promises, for one input.             *)
TreeIsSound ==
    Is("tree") =>
        TreeHoldsStates /\ QueryYieldsInOrder /\ NearestIsNearest
=============================================================================
