------------------------- MODULE ObjectGraphProofs -------------------------
(***************************************************************************)
(* What Reach computes, for every graph of objects.                        *)
(***************************************************************************)
EXTENDS ObjectGraph, TLAPS

Graph == [Obj -> SUBSET Obj]

\* Reach(S, edges) contains S, is closed, and is contained in every closed set
\* that contains S.
LEMMA ReachIsLeast ==
  ASSUME NEW S \in SUBSET Obj, NEW edges \in Graph
  PROVE  /\ Reach(S, edges) \in SUBSET Obj
         /\ S \subseteq Reach(S, edges)
         /\ Closed(Reach(S, edges), edges)
         /\ \A C \in SUBSET Obj : S \subseteq C /\ Closed(C, edges) => Reach(S, edges) \subseteq C
<1>1. Reach(S, edges) \in SUBSET Obj /\ S \subseteq Reach(S, edges)
  BY DEF Reach
<1>2. \A C \in SUBSET Obj : S \subseteq C /\ Closed(C, edges) => Reach(S, edges) \subseteq C
  BY DEF Reach
<1>3. Closed(Reach(S, edges), edges)
  <2> SUFFICES ASSUME NEW o \in Reach(S, edges), NEW q \in edges[o],
                      NEW C \in SUBSET Obj, S \subseteq C, Closed(C, edges)
               PROVE  q \in Obj /\ q \in C
    BY DEF Reach, Closed, Graph
  <2>1. o \in Obj /\ o \in C
    BY DEF Reach
  <2> QED
    BY <2>1 DEF Closed, Graph
<1> QED
  BY <1>1, <1>2, <1>3

\* A closed set squeezed between S and Reach(S, edges) is Reach(S, edges).
LEMMA ReachUnique ==
  ASSUME NEW S \in SUBSET Obj, NEW edges \in Graph, NEW K \in SUBSET Obj,
         S \subseteq K, Closed(K, edges), K \subseteq Reach(S, edges)
  PROVE  K = Reach(S, edges)
BY ReachIsLeast

\* Reachability depends only on the edges inside a closed set around S.
LEMMA ReachLocal ==
  ASSUME NEW S \in SUBSET Obj, NEW e \in Graph, NEW f \in Graph, NEW K \in SUBSET Obj,
         S \subseteq K, Closed(K, e), \A o \in K : f[o] = e[o]
  PROVE  Reach(S, f) = Reach(S, e)
<1>1. ASSUME NEW g \in Graph, NEW h \in Graph, Closed(K, g), \A o \in K : h[o] = g[o]
      PROVE  Reach(S, g) \subseteq Reach(S, h)
  <2> DEFINE C == Reach(S, h) \cap K
  <2>1. C \in SUBSET Obj /\ S \subseteq C
    BY ReachIsLeast
  <2>2. Closed(C, g)
    BY <1>1, ReachIsLeast DEF Closed
  <2> QED
    BY <2>1, <2>2, ReachIsLeast
<1>2. Closed(K, f)
  BY DEF Closed
<1>3. Reach(S, e) \subseteq Reach(S, f)
  BY <1>1
<1>4. Reach(S, f) \subseteq Reach(S, e)
  BY <1>1, <1>2
<1> QED
  BY <1>3, <1>4
=============================================================================
