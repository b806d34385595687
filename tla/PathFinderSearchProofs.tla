------------------------ MODULE PathFinderSearchProofs ------------------------
(***************************************************************************)
(* Proofs about PathFinder: the search misses nothing.  For every graph    *)
(* and bound, the path it selects is the least one the gates let pass, a   *)
(* rejection has refused every complete path and lists every branch, and   *)
(* no branch on a complete path is marked as dead.                         *)
(***************************************************************************)
EXTENDS PathFinderProofs, FiniteSetTheorems

(* What CompletePaths and Entered enumerate step by step, said of a path   *)
(* as a whole.                                                             *)
Trail(p) ==
    /\ p \in Seq(Node) /\ Simple(p)
    /\ Len(p) >= 1 /\ p[1] = in.leaf
    /\ \A i \in 1 .. Len(p) - 1 : Admitted(p, i) /\ p[i] \notin in.anchors

Complete(p) ==
    Trail(p) /\ Len(p) \in 2 .. MaxDepth + 1 /\ p[Len(p)] \in in.anchors

OpenTrail(p) == Trail(p) /\ p[Len(p)] \notin in.anchors

Trails(n) == {p \in Seq(Node) : Trail(p) /\ Len(p) = n}

Ends(n) == {c \in Node : \E p \in Seq(Node) :
                            OpenTrail(p) /\ Len(p) <= n /\ p[Len(p)] = c}

------------------------------------------------------------------------------
(* Paths *)

LEMMA LeafIsNode ==
    ASSUME in \in Input
    PROVE  /\ in.leaf \in Node /\ in.anchors \subseteq Node
           /\ in.unfit \subseteq Node /\ in.cand \in [Node -> SUBSET Node]
           /\ \A c \in Node : Parents(c) \subseteq Node
BY InputType DEF Parents

(* The path that is the leaf alone.                                        *)
LEMMA LeafTrail ==
    ASSUME in \in Input, NEW p \in Seq(Node), Len(p) = 1, p[1] = in.leaf
    PROVE  Trail(p)
BY DEF Trail, Simple

(* A path without its last certificates is a path.                         *)
LEMMA Beginnings ==
    ASSUME NEW p \in Seq(Node), Trail(p), NEW k \in 1 .. Len(p)
    PROVE  /\ SubSeq(p, 1, k) \in Seq(Node)
           /\ Trail(SubSeq(p, 1, k)) /\ Len(SubSeq(p, 1, k)) = k
           /\ \A i \in 1 .. k : SubSeq(p, 1, k)[i] = p[i]
<1> DEFINE q == SubSeq(p, 1, k)
<1>1. Len(p) \in Nat /\ k \in Nat /\ 1 <= k /\ k <= Len(p)
      /\ \A i \in 1 .. Len(p) : p[i] \in Node
  BY LenProperties, ElementOfSeq
<1>2. \A i \in 1 .. k : p[i] \in Node
  BY <1>1
<1>3. /\ q \in Seq(Node)
      /\ Len(q) = IF 1 <= k THEN k - 1 + 1 ELSE 0
      /\ \A i \in 1 .. k - 1 + 1 : q[i] = p[1 + i - 1]
  BY <1>1, <1>2, SubSeqProperties
<1> HIDE DEF q
<1>4. Len(q) = k /\ \A i \in 1 .. k : q[i] = p[i]
  <2>1. Len(q) = k /\ 1 .. k - 1 + 1 = 1 .. k
    BY <1>1, <1>3
  <2>2. ASSUME NEW i \in 1 .. k PROVE q[i] = p[i]
    <3>1. 1 + i - 1 = i
      OBVIOUS
    <3> QED BY <1>3, <2>1, <3>1
  <2> QED BY <2>1, <2>2
<1>5. Simple(q)
  <2>1. DOMAIN q = 1 .. k /\ DOMAIN p = 1 .. Len(p)
    BY <1>3, <1>4, LenProperties
  <2> QED BY <1>1, <1>4, <2>1 DEF Simple, Trail
<1>6. ASSUME NEW i \in 1 .. Len(q) - 1
      PROVE  Admitted(q, i) /\ q[i] \notin in.anchors
  <2>1. i \in 1 .. k /\ i + 1 \in 1 .. k /\ i \in 1 .. Len(p) - 1
    BY <1>1, <1>4
  <2> QED BY <1>4, <2>1 DEF Trail, Admitted
<1>7. Trail(q)
  <2>1. 1 \in 1 .. k
    BY <1>1
  <2> QED BY <1>1, <1>3, <1>4, <1>5, <1>6, <2>1 DEF Trail
<1> QED
  BY <1>3, <1>4, <1>7 DEF q

(* A path that has not reached an anchor, with one more certificate.       *)
LEMMA Longer ==
    ASSUME in \in Input, NEW p \in Seq(Node), OpenTrail(p),
           NEW c \in Parents(p[Len(p)]) \ in.unfit,
           \A i \in 1 .. Len(p) : p[i] # c
    PROVE  /\ Append(p, c) \in Seq(Node) /\ Trail(Append(p, c))
           /\ Len(Append(p, c)) = Len(p) + 1
           /\ Append(p, c)[Len(p) + 1] = c
<1> DEFINE q == Append(p, c)
<1>1. Len(p) \in Nat /\ Len(p) >= 1 /\ p[Len(p)] \in Node /\ c \in Node
  <2>1. Len(p) \in Nat /\ Len(p) >= 1
    BY LenProperties DEF OpenTrail, Trail
  <2>2. p[Len(p)] \in Node
    BY <2>1, ElementOfSeq
  <2> QED BY <2>1, <2>2, LeafIsNode
<1>2. /\ q \in Seq(Node) /\ Len(q) = Len(p) + 1 /\ q[Len(p) + 1] = c
      /\ \A i \in 1 .. Len(p) : q[i] = p[i]
  BY <1>1, AppendProperties
<1> HIDE DEF q
<1>3. Simple(q)
  <2>1. DOMAIN q = 1 .. Len(p) + 1 /\ DOMAIN p = 1 .. Len(p)
    BY <1>2, LenProperties
  <2> QED BY <1>1, <1>2, <2>1 DEF Simple, OpenTrail, Trail
<1>4. ASSUME NEW i \in 1 .. Len(q) - 1
      PROVE  Admitted(q, i) /\ q[i] \notin in.anchors
  <2>1. i \in 1 .. Len(p)
    BY <1>1, <1>2
  <2>2. CASE i = Len(p)
    BY <1>1, <1>2, <2>1, <2>2 DEF Admitted, OpenTrail
  <2>3. CASE i # Len(p)
    <3>1. i \in 1 .. Len(p) - 1 /\ i + 1 \in 1 .. Len(p)
      BY <1>1, <2>1, <2>3
    <3> QED BY <1>2, <2>1, <3>1 DEF Admitted, OpenTrail, Trail
  <2> QED BY <2>2, <2>3
<1>5. Trail(q)
  <2>1. 1 \in 1 .. Len(p)
    BY <1>1
  <2> QED BY <1>1, <1>2, <1>3, <1>4, <2>1 DEF OpenTrail, Trail
<1> QED
  BY <1>2, <1>5 DEF q

(* The other way round.                                                    *)
LEMMA Shorter ==
    ASSUME NEW p \in Seq(Node), Trail(p), Len(p) >= 2
    PROVE  /\ Front(p) \in Seq(Node) /\ OpenTrail(Front(p))
           /\ Len(Front(p)) = Len(p) - 1
           /\ Front(p)[Len(Front(p))] = p[Len(p) - 1]
           /\ p = Append(Front(p), p[Len(p)])
           /\ p[Len(p)] \in Parents(p[Len(p) - 1]) \ in.unfit
           /\ \A i \in 1 .. Len(Front(p)) : Front(p)[i] # p[Len(p)]
<1> DEFINE n == Len(p) - 1
           q == Front(p)
<1>1. n \in Nat /\ n \in 1 .. Len(p) /\ n \in 1 .. Len(p) - 1 /\ n + 1 = Len(p)
  BY LenProperties
<1>2. q = SubSeq(p, 1, n)
  BY DEF Front
<1>3. q \in Seq(Node) /\ Trail(q) /\ Len(q) = n /\ \A i \in 1 .. n : q[i] = p[i]
  BY <1>1, <1>2, Beginnings
<1> HIDE DEF n, q
<1>4. Admitted(p, n) /\ p[n] \notin in.anchors
  BY <1>1 DEF Trail, n
<1>5. q[n] = p[n] /\ OpenTrail(q)
  BY <1>1, <1>3, <1>4 DEF OpenTrail
<1>6. \A i \in 1 .. n : q[i] # p[n + 1]
  <2>1. DOMAIN p = 1 .. Len(p)
    BY LenProperties
  <2> QED BY <1>1, <1>3, <2>1 DEF Trail, Simple
<1>7. p = Append(q, p[n + 1])
  <2>1. p[n + 1] \in Node
    BY <1>1, ElementOfSeq
  <2>2. /\ Append(q, p[n + 1]) \in Seq(Node)
        /\ Len(Append(q, p[n + 1])) = n + 1
        /\ Append(q, p[n + 1])[n + 1] = p[n + 1]
        /\ \A i \in 1 .. n : Append(q, p[n + 1])[i] = q[i]
    BY <1>3, <2>1, AppendProperties
  <2>3. \A i \in 1 .. Len(p) : p[i] = Append(q, p[n + 1])[i]
    <3>1. \A i \in 1 .. Len(p) : i \in 1 .. n \/ i = n + 1
      BY <1>1
    <3> QED BY <1>3, <2>2, <3>1
  <2> QED BY <1>1, <2>2, <2>3, SeqEqual
<1>8. p[n + 1] \in Parents(p[n]) \ in.unfit
  BY <1>4 DEF Admitted
<1> QED
  BY <1>1, <1>3, <1>5, <1>6, <1>7, <1>8 DEF n, q

------------------------------------------------------------------------------
(* The recursive definitions *)

(* The paths of one certificate more.                                      *)
LEMMA TrailsGrow ==
    ASSUME in \in Input, NEW n \in Nat, n >= 2
    PROVE  Trails(n) = UNION {Extensions(p) :
                                p \in {q \in Trails(n - 1) : Last(q) \notin in.anchors}}
<1> DEFINE Shorts == {q \in Trails(n - 1) : Last(q) \notin in.anchors}
<1>1. ASSUME NEW p \in Trails(n)
      PROVE  \E q \in Shorts : p \in Extensions(q)
  <2>1. p \in Seq(Node) /\ Trail(p) /\ Len(p) = n
    BY DEF Trails
  <2>2. /\ Front(p) \in Seq(Node) /\ OpenTrail(Front(p)) /\ Len(Front(p)) = n - 1
        /\ Front(p)[n - 1] = p[n - 1] /\ p = Append(Front(p), p[n])
        /\ p[n] \in Parents(p[n - 1]) \ in.unfit
        /\ \A i \in 1 .. n - 1 : Front(p)[i] # p[n]
    BY <2>1, Shorter
  <2> DEFINE q == Front(p)
  <2> HIDE DEF q
  <2>3. Last(q) = q[n - 1] /\ q \in Seq(Node) /\ DOMAIN q = 1 .. n - 1
    BY <2>2, LenProperties DEF q, Last
  <2>4. q \in Shorts
    BY <2>2, <2>3 DEF Trails, OpenTrail, q
  <2>5. p[n] \notin Range(q)
    BY <2>2, <2>3 DEF Range, q
  <2>6. p \in Extensions(q)
    BY <2>2, <2>3, <2>5 DEF Extensions, q
  <2> QED BY <2>4, <2>6
<1>2. ASSUME NEW q \in Shorts, NEW p \in Extensions(q)
      PROVE  p \in Trails(n)
  <2>1. q \in Seq(Node) /\ Trail(q) /\ Len(q) = n - 1 /\ Last(q) \notin in.anchors
    BY DEF Trails
  <2>2. Last(q) = q[n - 1] /\ DOMAIN q = 1 .. n - 1
    BY <2>1, LenProperties DEF Last
  <2>3. PICK c \in Parents(q[n - 1]) \ (in.unfit \cup Range(q)) : p = Append(q, c)
    BY <2>2 DEF Extensions
  <2>4. \A i \in 1 .. Len(q) : q[i] # c
    BY <2>1, <2>2, <2>3 DEF Range
  <2>5. OpenTrail(q)
    BY <2>1, <2>2 DEF OpenTrail
  <2> QED BY <2>1, <2>3, <2>4, <2>5, Longer DEF Trails
<1> QED
  BY <1>1, <1>2

LEMMA CompletePathsAre ==
    ASSUME in \in Input
    PROVE  CompletePaths = {p \in Seq(Node) : Complete(p)}
<1> DEFINE S == 1 .. MaxDepth + 1
           D(f, n) == IF n = 1 THEN {<<in.leaf>>}
                      ELSE UNION {Extensions(p) :
                             p \in {q \in f[n - 1] : Last(q) \notin in.anchors}}
           Of[n \in S] == D(Of, n)
           G == [n \in S |-> Trails(n)]
<1>0. MaxDepth \in Nat /\ MaxDepth >= 1
  BY SearchType
<1>1. Trails(1) = {<<in.leaf>>}
  <2>1. <<in.leaf>> \in Trails(1)
    <3>1. /\ <<in.leaf>> \in Seq(Node) /\ Len(<<in.leaf>>) = 1
          /\ <<in.leaf>>[1] = in.leaf
      BY LeafIsNode
    <3> QED BY <3>1, LeafTrail DEF Trails
  <2>2. \A p \in Trails(1) : p = <<in.leaf>>
    BY DEF Trails, Trail
  <2> QED BY <2>1, <2>2
<1>2. \A n \in S : Trails(n) = D(G, n)
  <2> SUFFICES ASSUME NEW n \in S PROVE Trails(n) = D(G, n)
    OBVIOUS
  <2>1. CASE n = 1
    BY <1>1, <2>1
  <2>2. CASE n # 1
    <3>1. n \in Nat /\ n >= 2 /\ n - 1 \in S
      BY <1>0, <2>2
    <3>2. G[n - 1] = Trails(n - 1)
      BY <3>1
    <3> HIDE DEF G
    <3> QED BY <2>2, <3>1, <3>2, TrailsGrow
  <2> QED BY <2>1, <2>2
<1>3. Of = CHOOSE f : f = [n \in S |-> D(f, n)]
  OBVIOUS
<1>4. CompletePaths =
        {p \in UNION {Of[n] : n \in 2 .. MaxDepth + 1} : Last(p) \in in.anchors}
  BY DEF CompletePaths
<1> HIDE DEF Of
<1>5. G = [n \in S |-> D(G, n)]
  <2> HIDE DEF D
  <2> QED BY <1>2
<1> HIDE DEF G
<1>6. Of = [n \in S |-> D(Of, n)]
  <2> HIDE DEF D
  <2> QED BY <1>3, <1>5
<1>7. \A n \in S : Of[n] = D(Of, n) /\ G[n] = D(G, n)
  <2> HIDE DEF D
  <2> QED BY <1>5, <1>6
<1>8. \A n \in S : Of[n] = G[n]
  <2> DEFINE Differ == {n \in S : Of[n] # G[n]}
             n == Smallest(Differ)
  <2> SUFFICES ASSUME Differ # {} PROVE FALSE
    OBVIOUS
  <2>1. Differ \subseteq Nat
    BY <1>0
  <2> HIDE DEF Differ
  <2>2. n \in Differ /\ \A m \in Differ : n <= m
    BY <2>1, SmallestIn
  <2> HIDE DEF n
  <2>3. n \in S /\ Of[n] # G[n]
    BY <2>2 DEF Differ
  <2>4. CASE n = 1
    BY <1>7, <2>3, <2>4
  <2>5. CASE n # 1
    <3>1. n - 1 \in S /\ ~ (n <= n - 1)
      BY <1>0, <2>3, <2>5
    <3>2. Of[n - 1] = G[n - 1]
      BY <2>2, <3>1 DEF Differ
    <3> QED BY <1>7, <2>3, <2>5, <3>2
  <2> QED BY <2>4, <2>5
<1>9. \A n \in 2 .. MaxDepth + 1 : Of[n] = Trails(n)
  <2>1. \A n \in 2 .. MaxDepth + 1 : n \in S
    BY <1>0
  <2>2. \A n \in S : G[n] = Trails(n)
    BY DEF G
  <2> QED BY <1>8, <2>1, <2>2
<1>10. ASSUME NEW p \in Seq(Node), Trail(p) PROVE Last(p) = p[Len(p)]
  BY DEF Last
<1>11. UNION {Of[n] : n \in 2 .. MaxDepth + 1}
         = {p \in Seq(Node) : Trail(p) /\ Len(p) \in 2 .. MaxDepth + 1}
  BY <1>9 DEF Trails
<1> QED
  BY <1>4, <1>10, <1>11 DEF Complete

(* The certificates at most n certificates away from the leaf, without an  *)
(* anchor between: Entered counts loops in, but where a walk with a loop   *)
(* ends a shorter path ends.                                               *)
LEMMA EndsGrow ==
    ASSUME in \in Input, in.leaf \notin in.anchors, NEW n \in Nat, n >= 2
    PROVE  Ends(n) = Ends(n - 1) \cup
                       {c \in UNION {Parents(d) : d \in Ends(n - 1)} :
                          c \notin in.unfit \cup in.anchors}
<1> DEFINE New == {c \in UNION {Parents(d) : d \in Ends(n - 1)} :
                     c \notin in.unfit \cup in.anchors}
<1>1. ASSUME NEW c \in Ends(n) PROVE c \in Ends(n - 1) \cup New
  <2>1. PICK p \in Seq(Node) : OpenTrail(p) /\ Len(p) <= n /\ p[Len(p)] = c
    BY DEF Ends
  <2>2. Len(p) \in Nat /\ Trail(p) /\ c \in Node /\ c \notin in.anchors
    BY <2>1, LenProperties DEF OpenTrail, Ends
  <2>3. CASE Len(p) <= n - 1
    BY <2>1, <2>2, <2>3 DEF Ends
  <2>4. CASE ~ (Len(p) <= n - 1)
    <3>1. Len(p) = n
      BY <2>1, <2>2, <2>4
    <3>2. /\ Front(p) \in Seq(Node) /\ OpenTrail(Front(p)) /\ Len(Front(p)) = n - 1
          /\ Front(p)[n - 1] = p[n - 1] /\ c \in Parents(p[n - 1]) \ in.unfit
      BY <2>1, <2>2, <3>1, Shorter
    <3>3. p[n - 1] \in Node
      <4>1. n - 1 \in 1 .. Len(p)
        BY <3>1
      <4> QED BY <4>1, ElementOfSeq
    <3>4. Len(Front(p)) <= n - 1
      BY <3>2
    <3>5. p[n - 1] \in Ends(n - 1)
      BY <3>2, <3>3, <3>4 DEF Ends
    <3> QED BY <2>2, <3>2, <3>5
  <2> QED BY <2>3, <2>4
<1>2. ASSUME NEW c \in Ends(n - 1) PROVE c \in Ends(n)
  <2>1. PICK p \in Seq(Node) : OpenTrail(p) /\ Len(p) <= n - 1 /\ p[Len(p)] = c
    BY DEF Ends
  <2>2. Len(p) <= n
    BY <2>1, LenProperties
  <2> QED BY <2>1, <2>2 DEF Ends
<1>3. ASSUME NEW c \in New PROVE c \in Ends(n)
  <2>1. PICK d \in Ends(n - 1) : c \in Parents(d)
    OBVIOUS
  <2>2. PICK p \in Seq(Node) : OpenTrail(p) /\ Len(p) <= n - 1 /\ p[Len(p)] = d
    BY DEF Ends
  <2>3. c \notin in.unfit /\ c \notin in.anchors /\ c \in Node
    BY <2>1, LeafIsNode DEF Ends
  <2>4. Len(p) \in Nat /\ Len(p) >= 1 /\ Trail(p)
    BY <2>2, LenProperties DEF OpenTrail, Trail
  <2>5. CASE \A i \in 1 .. Len(p) : p[i] # c
    <3>1. /\ Append(p, c) \in Seq(Node) /\ Trail(Append(p, c))
          /\ Len(Append(p, c)) = Len(p) + 1 /\ Append(p, c)[Len(p) + 1] = c
      BY <2>1, <2>2, <2>3, <2>5, Longer
    <3>2. Len(Append(p, c)) <= n
      BY <2>2, <2>4, <3>1
    <3> QED BY <2>3, <3>1, <3>2 DEF Ends, OpenTrail
  <2>6. CASE \E i \in 1 .. Len(p) : p[i] = c
    <3>1. PICK i \in 1 .. Len(p) : p[i] = c
      BY <2>6
    <3> DEFINE q == SubSeq(p, 1, i)
    <3>2. q \in Seq(Node) /\ Trail(q) /\ Len(q) = i /\ q[i] = c
      BY <2>4, <3>1, Beginnings
    <3> HIDE DEF q
    <3>3. Len(q) <= n
      BY <2>2, <2>4, <3>2
    <3> QED BY <2>3, <3>2, <3>3 DEF Ends, OpenTrail
  <2> QED BY <2>5, <2>6
<1> QED
  BY <1>1, <1>2, <1>3

LEMMA EnteredAre ==
    ASSUME in \in Input, in.leaf \notin in.anchors
    PROVE  Entered = Ends(MaxDepth)
<1> DEFINE S == 1 .. MaxDepth
           Beyond(s) == {c \in UNION {Parents(d) : d \in s} :
                           c \notin in.unfit \cup in.anchors}
           D(f, n) == IF n = 1 THEN {in.leaf}
                      ELSE f[n - 1] \cup Beyond(f[n - 1])
           Within[n \in S] == D(Within, n)
           G == [n \in S |-> Ends(n)]
<1>0. MaxDepth \in Nat /\ MaxDepth >= 1
  BY SearchType
<1>1. Ends(1) = {in.leaf}
  <2>1. in.leaf \in Ends(1)
    <3> DEFINE p == <<in.leaf>>
    <3>1. p \in Seq(Node) /\ Len(p) = 1 /\ p[1] = in.leaf /\ in.leaf \in Node
      BY LeafIsNode
    <3> HIDE DEF p
    <3>2. OpenTrail(p)
      BY <3>1, LeafTrail DEF OpenTrail
    <3>3. Len(p) <= 1 /\ p[Len(p)] = in.leaf
      BY <3>1
    <3> QED BY <3>1, <3>2, <3>3 DEF Ends
  <2>2. ASSUME NEW c \in Ends(1) PROVE c = in.leaf
    <3>1. PICK p \in Seq(Node) : OpenTrail(p) /\ Len(p) <= 1 /\ p[Len(p)] = c
      BY DEF Ends
    <3>2. Len(p) \in Nat /\ Len(p) >= 1 /\ Len(p) <= 1
      BY <3>1, LenProperties DEF OpenTrail, Trail
    <3>3. \A k \in Nat : k >= 1 /\ k <= 1 => k = 1
      OBVIOUS
    <3>4. Len(p) = 1
      BY <3>2, <3>3
    <3> QED BY <3>1, <3>4 DEF OpenTrail, Trail
  <2> QED BY <2>1, <2>2
<1>2. \A n \in S : Ends(n) = D(G, n)
  <2> SUFFICES ASSUME NEW n \in S PROVE Ends(n) = D(G, n)
    OBVIOUS
  <2>1. CASE n = 1
    BY <1>1, <2>1
  <2>2. CASE n # 1
    <3>1. n \in Nat /\ n >= 2 /\ n - 1 \in S
      BY <1>0, <2>2
    <3>2. G[n - 1] = Ends(n - 1)
      BY <3>1
    <3> HIDE DEF G
    <3> QED BY <2>2, <3>1, <3>2, EndsGrow
  <2> QED BY <2>1, <2>2
<1>3. Within = CHOOSE f : f = [n \in S |-> D(f, n)]
  OBVIOUS
<1>4. Entered = Within[MaxDepth]
  BY DEF Entered
<1> HIDE DEF Within
<1>5. G = [n \in S |-> D(G, n)]
  <2> HIDE DEF D
  <2> QED BY <1>2
<1> HIDE DEF G
<1>6. Within = [n \in S |-> D(Within, n)]
  <2> HIDE DEF D
  <2> QED BY <1>3, <1>5
<1>7. \A n \in S : Within[n] = D(Within, n) /\ G[n] = D(G, n)
  <2> HIDE DEF D
  <2> QED BY <1>5, <1>6
<1>8. \A n \in S : Within[n] = G[n]
  <2> DEFINE Differ == {n \in S : Within[n] # G[n]}
             n == Smallest(Differ)
  <2> SUFFICES ASSUME Differ # {} PROVE FALSE
    OBVIOUS
  <2>1. Differ \subseteq Nat
    BY <1>0
  <2> HIDE DEF Differ
  <2>2. n \in Differ /\ \A m \in Differ : n <= m
    BY <2>1, SmallestIn
  <2> HIDE DEF n
  <2>3. n \in S /\ Within[n] # G[n]
    BY <2>2 DEF Differ
  <2>4. CASE n = 1
    BY <1>7, <2>3, <2>4
  <2>5. CASE n # 1
    <3>1. n - 1 \in S /\ ~ (n <= n - 1)
      BY <1>0, <2>3, <2>5
    <3>2. Within[n - 1] = G[n - 1]
      BY <2>2, <3>1 DEF Differ
    <3>3. D(Within, n) = D(G, n)
      BY <2>5, <3>2
    <3> HIDE DEF D
    <3> QED BY <1>7, <2>3, <3>3
  <2> QED BY <2>4, <2>5
<1>9. MaxDepth \in S
  BY <1>0
<1> QED
  BY <1>4, <1>8, <1>9 DEF G

------------------------------------------------------------------------------
(* The invariant *)

Tried(p) == \E k \in 1 .. Len(outcomes) : outcomes[k] = p

(* The candidate issuers of the certificate a path ends with are listed.   *)
Scanned(p) == \A c \in in.cand[p[Len(p)]] : <<p[Len(p)], c>> \in edges

(* The search is still to come to a path: it leaves the stack with a       *)
(* parent not yet visited.                                                 *)
Pending(p) ==
    \E i \in 1 .. Len(stack) :
       /\ i < Len(p)
       /\ \A j \in 1 .. i : p[j] = stack[j]
       /\ p[i + 1] \in todo[i]

(* It comes to it now: it leaves the stack with the parent at hand.        *)
Through(p) ==
    /\ Len(stack) < Len(p)
    /\ \A j \in 1 .. Len(stack) : p[j] = stack[j]
    /\ p[Len(stack) + 1] = Parent

(* Within the bound of the iteration, every path is done or still to come. *)
NoneSkipped ==
    /\ \A p \in Seq(Node) :
          Complete(p) /\ Len(p) <= depth + 1 => Tried(p) \/ Pending(p)
    /\ \A p \in Seq(Node) :
          OpenTrail(p) /\ Len(p) <= depth => Scanned(p) \/ Pending(p)

(* The iterations before have refused the shorter ones.                    *)
ShorterTried ==
    \A p \in Seq(Node) : Complete(p) /\ Len(p) <= depth => Tried(p)

(* The parents left at a certificate come after the one on the stack.      *)
InOrder ==
    \A i \in 1 .. Len(stack) - 1 : \A x \in todo[i] : stack[i + 1] < x

Searching == status = "search" => NoneSkipped /\ ShorterTried /\ InOrder

OutcomesComplete == \A k \in 1 .. Len(outcomes) : Complete(outcomes[k])

(* Only the issuers of certificates that are reached are listed.           *)
OnlyEntered ==
    \A e \in edges : e[2] \in in.cand[e[1]] /\ e[1] \in Ends(MaxDepth)

Rule == {None, "ISSUER_NAME_KEY", "SIGNATURE", "LOOP", "INTRINSIC", "PATH_LEVEL"}

Unmarked == status # "rejected" => failure \in [Edge -> Rule]

Least ==
    (status = "accepted" /\ in.leaf \notin in.anchors) =>
        \A p \in Seq(Node) : Complete(p) /\ p \notin in.refused => ~ Before(p, winner)

NothingLeft ==
    (status = "rejected" /\ ~ in.expired) =>
        /\ in.leaf \notin in.anchors
        /\ \A p \in Seq(Node) : Complete(p) => Tried(p)
        /\ \A p \in Seq(Node) : OpenTrail(p) /\ Len(p) <= MaxDepth => Scanned(p)

MarksAreDead ==
    status = "rejected" =>
        \A p \in Seq(Node) : Complete(p) =>
           \A i \in 1 .. Len(p) - 1 :
              failure[<<p[i], p[i + 1]>>] # "NO_PATH_TO_ANCHOR"

SearchInv == /\ Inv
             /\ Searching /\ OutcomesComplete /\ OnlyEntered /\ Unmarked
             /\ Least /\ NothingLeft /\ MarksAreDead

------------------------------------------------------------------------------
(* Steps of the search *)

(* The paths of an input do not change.                                    *)
LEMMA SamePaths ==
    ASSUME in' = in, NEW p
    PROVE  /\ Trail(p)' <=> Trail(p)
           /\ Complete(p)' <=> Complete(p)
           /\ OpenTrail(p)' <=> OpenTrail(p)
<1>1. Trail(p)' <=> Trail(p)
  BY DEF Trail, Simple, Admitted, Parents, EdgeRule
<1> QED
  BY <1>1 DEF Complete, OpenTrail

LEMMA SameEnds ==
    ASSUME in' = in
    PROVE  Ends(MaxDepth)' = Ends(MaxDepth)
BY SamePaths DEF Ends

(* A path that was still to come is still to come when the parent at hand  *)
(* has been taken, unless it was the one to come to.                       *)
LEMMA TakeParent ==
    ASSUME Inv, Visiting, NEW p \in Seq(Node), Pending(p),
           Len(stack') \in Nat, Len(stack') >= Len(stack),
           \A i \in 1 .. Len(stack) : stack'[i] = stack[i] /\ todo'[i] = Rest(todo)[i]
    PROVE  Pending(p)' \/ Through(p)
<1>1. /\ Len(stack) \in Nat /\ Len(stack) >= 1 /\ Len(todo) = Len(stack)
      /\ todo \in Seq(SUBSET Node)
  BY AtParent, LenProperties DEF Inv, TypeOK
<1>2. /\ \A i \in 1 .. Len(stack) - 1 : Rest(todo)[i] = todo[i]
      /\ Rest(todo)[Len(stack)] = todo[Len(stack)] \ {Parent}
  <2>1. Last(todo) = todo[Len(stack)]
    BY <1>1 DEF Last
  <2> QED BY <1>1, <2>1, RestIs DEF Parent
<1>3. PICK i \in 1 .. Len(stack) :
         i < Len(p) /\ (\A j \in 1 .. i : p[j] = stack[j]) /\ p[i + 1] \in todo[i]
  BY DEF Pending
<1>4. /\ i \in 1 .. Len(stack') /\ \A j \in 1 .. i : p[j] = stack'[j]
  BY <1>1, <1>3
<1>5. CASE i = Len(stack) /\ p[i + 1] = Parent
  BY <1>3, <1>5 DEF Through
<1>6. CASE ~ (i = Len(stack) /\ p[i + 1] = Parent)
  <2>1. i = Len(stack) \/ i \in 1 .. Len(stack) - 1
    BY <1>1
  <2>2. p[i + 1] \in todo'[i]
    BY <1>2, <1>3, <1>6, <2>1
  <2> QED BY <1>3, <1>4, <2>2 DEF Pending
<1> QED
  BY <1>5, <1>6

(* The path that was to come next, seen from the parent at hand.           *)
LEMMA ThroughParent ==
    ASSUME Inv, Visiting, NEW p \in Seq(Node), Trail(p), Through(p)
    PROVE  /\ Len(p) \in Nat /\ Len(p) >= Len(stack) + 1
           /\ p[Len(stack) + 1] = Parent
           /\ ~ OnPath(Parent) /\ Parent \notin in.unfit
           /\ Parent \in in.anchors => Len(p) = Len(stack) + 1
           /\ Len(p) = Len(stack) + 1 => p = Path
<1>1. /\ Len(stack) \in Nat /\ Len(stack) >= 1 /\ Parent \in Node
      /\ stack \in Seq(Node) /\ DOMAIN stack = 1 .. Len(stack)
  BY AtParent, LenProperties DEF Inv, TypeOK
<1>2. Len(p) \in Nat /\ Len(p) >= Len(stack) + 1 /\ DOMAIN p = 1 .. Len(p)
  BY <1>1, LenProperties DEF Through
<1>3. /\ \A j \in 1 .. Len(stack) : p[j] = stack[j]
      /\ p[Len(stack) + 1] = Parent
  BY DEF Through
<1>4. ~ OnPath(Parent)
  <2> SUFFICES ASSUME NEW j \in 1 .. Len(stack), stack[j] = Parent PROVE FALSE
    BY <1>1 DEF OnPath, Range
  <2>1. p[j] = p[Len(stack) + 1] /\ j \in DOMAIN p /\ Len(stack) + 1 \in DOMAIN p
        /\ j # Len(stack) + 1
    BY <1>1, <1>2, <1>3
  <2> QED BY <2>1 DEF Trail, Simple
<1>5. Len(stack) \in 1 .. Len(p) - 1
  BY <1>1, <1>2
<1>6. Parent \notin in.unfit
  BY <1>3, <1>5 DEF Trail, Admitted
<1>7. ASSUME Parent \in in.anchors PROVE Len(p) = Len(stack) + 1
  <2> SUFFICES ASSUME Len(p) # Len(stack) + 1 PROVE FALSE
    OBVIOUS
  <2> DEFINE n == Len(stack)
             m == Len(p)
  <2>0. n \in Nat /\ m \in Nat /\ m >= n + 1 /\ m # n + 1
    BY <1>1, <1>2
  <2>1. n + 1 \in 1 .. m - 1
    <3> HIDE DEF n, m
    <3> QED BY <2>0
  <2> QED BY <1>3, <1>7, <2>1 DEF Trail
<1>8. ASSUME Len(p) = Len(stack) + 1 PROVE p = Path
  <2>1. /\ Path \in Seq(Node) /\ Len(Path) = Len(stack) + 1
        /\ \A i \in 1 .. Len(stack) : Path[i] = stack[i]
        /\ Path[Len(stack) + 1] = Parent
    BY <1>1, AppendProperties DEF Path
  <2>2. \A i \in 1 .. Len(p) : i \in 1 .. Len(stack) \/ i = Len(stack) + 1
    BY <1>1, <1>8
  <2>3. \A i \in 1 .. Len(p) : p[i] = Path[i]
    BY <1>3, <2>1, <2>2
  <2> QED BY <1>8, <2>1, <2>3, SeqEqual
<1> QED
  BY <1>2, <1>3, <1>4, <1>6, <1>7, <1>8

(* The loop goes on with the next parent.                                  *)
LEMMA GoingOn ==
    ASSUME SearchInv, Visiting, Skip,
           \A p \in Seq(Node) : Tried(p) => Tried(p)',
           \A p \in Seq(Node) :
              Complete(p) /\ Len(p) <= depth + 1 /\ Through(p) => Tried(p)',
           \A p \in Seq(Node) : OpenTrail(p) /\ Len(p) <= depth => ~ Through(p)
    PROVE  Searching'
<1>1. /\ Len(stack) \in Nat /\ Len(stack) >= 1 /\ Len(todo) = Len(stack)
      /\ todo \in Seq(SUBSET Node)
  BY AtParent, LenProperties DEF SearchInv, Inv, TypeOK
<1>2. /\ todo' = Rest(todo) /\ stack' = stack /\ in' = in /\ depth' = depth
      /\ edges' = edges /\ status = "search"
  BY DEF Skip, Visiting
<1>3. \A p \in Seq(Node) : Pending(p) => Pending(p)' \/ Through(p)
  BY <1>1, <1>2, TakeParent DEF SearchInv
<1>4. NoneSkipped /\ ShorterTried /\ InOrder
  BY <1>2 DEF SearchInv, Searching
<1>5. ASSUME NEW p \in Seq(Node), Complete(p)', Len(p) <= depth' + 1
      PROVE  Tried(p)' \/ Pending(p)'
  <2>1. Complete(p) /\ Len(p) <= depth + 1
    BY <1>2, <1>5, SamePaths
  <2> QED BY <1>3, <1>4, <2>1 DEF NoneSkipped
<1>6. ASSUME NEW p \in Seq(Node), OpenTrail(p)', Len(p) <= depth'
      PROVE  Scanned(p)' \/ Pending(p)'
  <2>1. OpenTrail(p) /\ Len(p) <= depth
    BY <1>2, <1>6, SamePaths
  <2>2. Scanned(p) => Scanned(p)'
    BY <1>2 DEF Scanned
  <2> QED BY <1>3, <1>4, <2>1, <2>2 DEF NoneSkipped
<1>7. ShorterTried'
  <2> SUFFICES ASSUME NEW p \in Seq(Node), Complete(p)', Len(p) <= depth'
               PROVE  Tried(p)'
    BY DEF ShorterTried
  <2>1. Complete(p) /\ Len(p) <= depth
    BY <1>2, SamePaths
  <2> QED BY <1>4, <2>1 DEF ShorterTried
<1>8. InOrder'
  <2> SUFFICES ASSUME NEW i \in 1 .. Len(stack) - 1, NEW x \in Rest(todo)[i]
               PROVE  stack[i + 1] < x
    BY <1>2 DEF InOrder
  <2>1. x \in todo[i]
    BY <1>1, RestIs
  <2> QED BY <1>4, <2>1 DEF InOrder
<1> QED
  BY <1>5, <1>6, <1>7, <1>8 DEF Searching, NoneSkipped

(* A new iteration: every path is still to come.                           *)
LEMMA NewIteration ==
    ASSUME SearchInv, NEW d \in 1 .. MaxDepth, Begin(d), in' = in,
           in.leaf \notin in.anchors,
           \A p \in Seq(Node) : Complete(p) /\ Len(p) <= d => Tried(p)'
    PROVE  Searching' /\ OnlyEntered'
<1>1. in \in Input /\ in.leaf \in Node /\ d \in Nat /\ d >= 1
  BY LeafIsNode DEF SearchInv, Inv
<1>2. /\ depth' = d /\ stack' = <<in.leaf>> /\ todo' = <<Parents(in.leaf)>>
      /\ edges' = edges \cup ({in.leaf} \X in.cand[in.leaf])
  BY DEF Begin, Scan
<1>3. /\ Len(stack') = 1 /\ stack'[1] = in.leaf /\ todo'[1] = Parents(in.leaf)
  BY <1>2
<1>4. ASSUME NEW p \in Seq(Node), Trail(p), Len(p) >= 2
      PROVE  Pending(p)'
  <2>1. p[1] = in.leaf /\ Admitted(p, 1)
    <3>1. 1 \in 1 .. Len(p) - 1
      BY <1>4, LenProperties
    <3> QED BY <1>4, <3>1 DEF Trail
  <2>2. p[1 + 1] \in Parents(in.leaf) /\ 1 < Len(p)
    BY <1>4, <2>1, LenProperties DEF Admitted
  <2>3. 1 \in 1 .. Len(stack') /\ \A j \in 1 .. 1 : p[j] = stack'[j]
    BY <1>3, <2>1
  <2> QED BY <1>3, <2>2, <2>3 DEF Pending
<1>5. ASSUME NEW p \in Seq(Node), Complete(p)' PROVE Pending(p)'
  <2>1. Complete(p)
    BY <1>5, SamePaths
  <2>2. Len(p) >= 2
    BY <2>1, SearchType DEF Complete
  <2> QED BY <1>4, <2>1, <2>2 DEF Complete
<1>6. ASSUME NEW p \in Seq(Node), OpenTrail(p)'
      PROVE  Scanned(p)' \/ Pending(p)'
  <2>1. Trail(p) /\ Len(p) \in Nat /\ Len(p) >= 1 /\ p[1] = in.leaf
    BY <1>6, SamePaths, LenProperties DEF OpenTrail, Trail
  <2>2. CASE Len(p) >= 2
    BY <1>4, <2>1, <2>2
  <2>3. CASE ~ (Len(p) >= 2)
    <3>0. \A k \in Nat : k >= 1 /\ ~ (k >= 2) => k = 1
      OBVIOUS
    <3>1. Len(p) = 1
      BY <2>1, <2>3, <3>0
    <3> QED BY <1>2, <2>1, <3>1 DEF Scanned
  <2> QED BY <2>2, <2>3
<1>7. ShorterTried'
  <2> SUFFICES ASSUME NEW p \in Seq(Node), Complete(p)', Len(p) <= d
               PROVE  Tried(p)'
    BY <1>2 DEF ShorterTried
  <2>1. Complete(p)
    BY SamePaths
  <2> QED BY <2>1
<1>8. InOrder'
  BY <1>3 DEF InOrder
<1>9. OnlyEntered'
  <2>1. in.leaf \in Ends(MaxDepth)
    <3> DEFINE p == <<in.leaf>>
    <3>1. p \in Seq(Node) /\ Len(p) = 1 /\ p[1] = in.leaf
      BY <1>1
    <3> HIDE DEF p
    <3>2. OpenTrail(p)
      BY <1>1, <3>1, LeafTrail DEF OpenTrail
    <3>3. Len(p) <= MaxDepth /\ p[Len(p)] = in.leaf
      BY <3>1, SearchType
    <3> QED BY <1>1, <3>1, <3>2, <3>3 DEF Ends
  <2>2. Ends(MaxDepth)' = Ends(MaxDepth)
    BY SameEnds
  <2>3. OnlyEntered
    BY DEF SearchInv
  <2> QED BY <1>2, <2>1, <2>2, <2>3 DEF OnlyEntered
<1> QED
  BY <1>5, <1>6, <1>7, <1>8, <1>9 DEF Searching, NoneSkipped

(* One certificate further.                                                *)
LEMMA Descending ==
    ASSUME SearchInv, Descend
    PROVE  Searching' /\ OnlyEntered'
<1>1. /\ Len(stack) \in Nat /\ Len(stack) >= 1 /\ Len(todo) = Len(stack)
      /\ todo \in Seq(SUBSET Node) /\ stack \in Seq(Node)
      /\ Parent \in Node /\ Parent \in Last(todo) /\ Last(todo) = todo[Len(stack)]
      /\ Last(todo) \in SUBSET Nat /\ in \in Input /\ Inv
  <2>1. Inv /\ Visiting
    BY DEF SearchInv, Descend, MayFollow
  <2>2. /\ Len(stack) >= 1 /\ Len(todo) = Len(stack) /\ Parent \in Node
    BY <2>1, AtParent
  <2>3. todo \in Seq(SUBSET Node) /\ stack \in Seq(Node) /\ in \in Input
    BY <2>1 DEF Inv, TypeOK
  <2>4. Last(todo) = todo[Len(stack)] /\ Last(todo) \in SUBSET Nat
    BY <2>2, <2>3, FrontOf, SearchType
  <2>5. Parent \in Last(todo)
    BY <2>1, <2>4, SmallestIn DEF Parent, Visiting
  <2> QED BY <2>1, <2>2, <2>3, <2>4, <2>5, LenProperties
<1>2. Visiting /\ status = "search" /\ MayFollow /\ Parent \notin in.anchors
  BY DEF Descend, MayFollow, Visiting
<1>3. /\ Path \in Seq(Node) /\ Trail(Path) /\ Len(Path) = Len(stack) + 1
      /\ Path[Len(stack) + 1] = Parent
      /\ \A i \in 1 .. Len(stack) : Path[i] = stack[i]
  <2>1. /\ Path \in Seq(Node) /\ Simple(Path) /\ Len(Path) = Len(stack) + 1
        /\ Path[1] = in.leaf /\ Path[Len(Path)] = Parent
        /\ \A i \in 1 .. Len(stack) : Path[i] = stack[i]
        /\ \A i \in 1 .. Len(Path) - 1 :
              Admitted(Path, i) /\ Path[i] \notin in.anchors
    BY <1>1, <1>2, PathToParent
  <2>2. Len(Path) >= 1
    BY <1>1, <2>1
  <2> QED BY <2>1, <2>2 DEF Trail
<1>4. /\ stack' = Path /\ todo' = Append(Rest(todo), Parents(Parent))
      /\ edges' = edges \cup ({Parent} \X in.cand[Parent])
      /\ UNCHANGED <<in, status, depth, winner, outcomes>>
  BY DEF Descend, Scan
<1>5. /\ Rest(todo) \in Seq(SUBSET Node) /\ Len(Rest(todo)) = Len(stack)
      /\ \A i \in 1 .. Len(stack) - 1 : Rest(todo)[i] = todo[i]
      /\ Rest(todo)[Len(stack)] = todo[Len(stack)] \ {Parent}
  BY <1>1, RestIs DEF Parent
<1>6. /\ \A i \in 1 .. Len(stack) : todo'[i] = Rest(todo)[i]
      /\ todo'[Len(stack) + 1] = Parents(Parent)
  <2>1. Parents(Parent) \in SUBSET Node
    BY <1>1, LeafIsNode
  <2> QED BY <1>4, <1>5, <2>1, AppendProperties
<1>7. NoneSkipped /\ ShorterTried /\ InOrder
  BY <1>2 DEF SearchInv, Searching
<1>8. \A p \in Seq(Node) : Pending(p) => Pending(p)' \/ Through(p)
  <2>1. /\ Len(stack') \in Nat /\ Len(stack') >= Len(stack)
        /\ \A i \in 1 .. Len(stack) :
              stack'[i] = stack[i] /\ todo'[i] = Rest(todo)[i]
    <3>1. \A n \in Nat : n + 1 \in Nat /\ n + 1 >= n
      OBVIOUS
    <3> QED BY <1>1, <1>3, <1>4, <1>6, <3>1
  <2> QED BY <1>1, <1>2, <2>1, TakeParent
<1>9. ASSUME NEW p \in Seq(Node), Trail(p), Through(p), Len(p) # Len(stack) + 1
      PROVE  Pending(p)'
  <2> DEFINE n == Len(stack) + 1
  <2>1. n \in Nat /\ n >= 1 /\ n < Len(p) /\ n \in 1 .. Len(p) - 1 /\ p[n] = Parent
    <3>1. Len(p) \in Nat /\ Len(p) >= Len(stack) + 1 /\ p[Len(stack) + 1] = Parent
      BY <1>1, <1>2, <1>9, ThroughParent
    <3>2. \A a, b \in Nat : b >= a + 1 /\ b # a + 1 =>
              a + 1 < b /\ a + 1 \in 1 .. b - 1 /\ a + 1 \in Nat /\ a + 1 >= 1
      OBVIOUS
    <3> QED BY <1>1, <1>9, <3>1, <3>2
  <2>2. \A j \in 1 .. n : p[j] = stack'[j]
    <3>1. \A j \in 1 .. n : j \in 1 .. Len(stack) \/ j = n
      BY <1>1
    <3> QED BY <1>3, <1>4, <1>9, <2>1, <3>1 DEF Through
  <2>3. p[n + 1] \in todo'[n]
    BY <1>6, <1>9, <2>1 DEF Trail, Admitted
  <2>4. n \in 1 .. Len(stack')
    BY <1>3, <1>4, <2>1
  <2> QED BY <2>1, <2>2, <2>3, <2>4 DEF Pending
<1>10. ASSUME NEW p \in Seq(Node), Complete(p)', Len(p) <= depth' + 1
       PROVE  Tried(p)' \/ Pending(p)'
  <2>1. Complete(p) /\ Trail(p) /\ Len(p) <= depth + 1
    BY <1>4, <1>10, SamePaths DEF Complete
  <2>2. CASE Tried(p)
    BY <1>4, <2>2 DEF Tried
  <2>3. CASE Through(p)
    <3>1. Len(p) # Len(stack) + 1
      BY <1>1, <1>2, <2>1, <2>3, ThroughParent DEF Complete
    <3> QED BY <1>9, <2>1, <2>3, <3>1
  <2> QED BY <1>7, <1>8, <2>1, <2>2, <2>3 DEF NoneSkipped
<1>11. ASSUME NEW p \in Seq(Node), OpenTrail(p)', Len(p) <= depth'
       PROVE  Scanned(p)' \/ Pending(p)'
  <2>1. OpenTrail(p) /\ Trail(p) /\ Len(p) <= depth
    BY <1>4, <1>11, SamePaths DEF OpenTrail
  <2>2. CASE Scanned(p)
    BY <1>4, <2>2 DEF Scanned
  <2>3. CASE Through(p)
    <3>1. CASE Len(p) = Len(stack) + 1
      <4>1. p[Len(p)] = Parent
        BY <3>1, <2>3 DEF Through
      <4> QED BY <1>4, <4>1 DEF Scanned
    <3> QED BY <1>9, <2>1, <2>3, <3>1
  <2> QED BY <1>7, <1>8, <2>1, <2>2, <2>3 DEF NoneSkipped
<1>12. ShorterTried'
  <2> SUFFICES ASSUME NEW p \in Seq(Node), Complete(p)', Len(p) <= depth'
               PROVE  Tried(p)'
    BY DEF ShorterTried
  <2>1. Complete(p) /\ Len(p) <= depth
    BY <1>4, SamePaths
  <2>2. Tried(p)
    BY <1>7, <2>1 DEF ShorterTried
  <2> QED BY <1>4, <2>2 DEF Tried
<1>13. InOrder'
  <2> SUFFICES ASSUME NEW i \in 1 .. Len(stack), NEW x \in todo'[i]
               PROVE  stack'[i + 1] < x
    <3>1. Len(stack') - 1 = Len(stack)
      BY <1>1, <1>3, <1>4
    <3> QED BY <3>1 DEF InOrder
  <2>1. CASE i = Len(stack)
    <3>1. x \in Last(todo) /\ x # Parent /\ stack'[i + 1] = Parent
      BY <1>1, <1>3, <1>4, <1>5, <1>6, <2>1
    <3>2. Last(todo) \in SUBSET Nat /\ Last(todo) # {}
      BY <1>1, <1>2 DEF Visiting
    <3>3. Parent <= x
      BY <3>1, <3>2, SmallestIn DEF Parent
    <3>4. Parent \in Nat /\ x \in Nat
      BY <1>1, <3>1, <3>2
    <3> QED BY <3>1, <3>3, <3>4
  <2>2. CASE i # Len(stack)
    <3>1. i \in 1 .. Len(stack) - 1 /\ i + 1 \in 1 .. Len(stack)
      BY <1>1, <2>2
    <3>2. x \in todo[i] /\ stack'[i + 1] = stack[i + 1]
      BY <1>3, <1>4, <1>5, <1>6, <3>1
    <3> QED BY <1>7, <3>1, <3>2 DEF InOrder
  <2> QED BY <2>1, <2>2
<1>14. OnlyEntered'
  <2>1. Parent \in Ends(MaxDepth)
    <3>1. OpenTrail(Path) /\ Path[Len(Path)] = Parent
      BY <1>2, <1>3 DEF OpenTrail
    <3>2. Len(Path) <= MaxDepth
      <4>1. depth - (Len(stack) - 1) > 1 /\ depth \in Nat /\ depth <= MaxDepth
        BY SearchType DEF Descend, Remaining, SearchInv, Inv, TypeOK
      <4> QED BY <1>1, <1>3, <4>1, SearchType
    <3> QED BY <1>1, <1>3, <3>1, <3>2 DEF Ends
  <2>2. Ends(MaxDepth)' = Ends(MaxDepth)
    BY <1>4, SameEnds
  <2>3. OnlyEntered
    BY DEF SearchInv
  <2> QED BY <1>4, <2>1, <2>2, <2>3 DEF OnlyEntered
<1> QED
  BY <1>10, <1>11, <1>12, <1>13, <1>14 DEF Searching, NoneSkipped

(* A call of _dfs returns, and only paths that leave the stack earlier are *)
(* still to come.                                                          *)
LEMMA NothingPendingHere ==
    ASSUME Inv, Exhausted, NEW p \in Seq(Node), Pending(p)
    PROVE  \E i \in 1 .. Len(stack) - 1 :
              /\ i < Len(p)
              /\ \A j \in 1 .. i : p[j] = stack[j]
              /\ p[i + 1] \in todo[i]
<1>1. /\ Len(stack) \in Nat /\ Len(stack) >= 1 /\ todo[Len(stack)] = {}
  BY LenProperties DEF Inv, TypeOK, Climbing, Exhausted, Last
<1>2. PICK i \in 1 .. Len(stack) :
         i < Len(p) /\ (\A j \in 1 .. i : p[j] = stack[j]) /\ p[i + 1] \in todo[i]
  BY DEF Pending
<1>3. i \in 1 .. Len(stack) - 1
  BY <1>1, <1>2
<1> QED
  BY <1>2, <1>3

LEMMA Returning ==
    ASSUME SearchInv, Return
    PROVE  Searching'
<1>1. /\ UNCHANGED <<in, status, depth, winner, outcomes, edges>>
      /\ stack' = Front(stack) /\ todo' = Front(todo) /\ Len(stack) > 1
      /\ status = "search" /\ Exhausted /\ Inv
  BY DEF Return, Exhausted, SearchInv
<1>2. /\ stack \in Seq(Node) /\ todo \in Seq(SUBSET Node) /\ Len(todo) = Len(stack)
      /\ Len(stack) \in Nat
  BY <1>1, LenProperties DEF Inv, TypeOK
<1>3. /\ Len(stack') = Len(stack) - 1
      /\ \A i \in 1 .. Len(stack) - 1 : stack'[i] = stack[i] /\ todo'[i] = todo[i]
  BY <1>1, <1>2, FrontOf
<1>4. NoneSkipped /\ ShorterTried /\ InOrder
  BY <1>1 DEF SearchInv, Searching
<1>5. ASSUME NEW p \in Seq(Node), Pending(p) PROVE Pending(p)'
  <2>1. PICK i \in 1 .. Len(stack) - 1 :
           i < Len(p) /\ (\A j \in 1 .. i : p[j] = stack[j]) /\ p[i + 1] \in todo[i]
    BY <1>1, <1>5, NothingPendingHere
  <2>2. \A j \in 1 .. i : j \in 1 .. Len(stack) - 1
    BY <1>2
  <2> QED BY <1>3, <2>1, <2>2 DEF Pending
<1>6. ASSUME NEW p \in Seq(Node)
      PROVE  /\ Complete(p)' /\ Len(p) <= depth' + 1 => Tried(p)' \/ Pending(p)'
             /\ OpenTrail(p)' /\ Len(p) <= depth' => Scanned(p)' \/ Pending(p)'
             /\ Complete(p)' /\ Len(p) <= depth' => Tried(p)'
  <2>1. Tried(p)' = Tried(p) /\ Scanned(p)' = Scanned(p) /\ depth' = depth
    BY <1>1 DEF Tried, Scanned
  <2>2. Complete(p)' = Complete(p) /\ OpenTrail(p)' = OpenTrail(p)
    BY <1>1, SamePaths DEF Complete, OpenTrail, Trail
  <2> QED BY <1>4, <1>5, <2>1, <2>2 DEF NoneSkipped, ShorterTried
<1>7. InOrder'
  <2> SUFFICES ASSUME NEW i \in 1 .. Len(stack) - 1 - 1, NEW x \in todo'[i]
               PROVE  stack'[i + 1] < x
    BY <1>3 DEF InOrder
  <2>1. i \in 1 .. Len(stack) - 1 /\ i + 1 \in 1 .. Len(stack) - 1
    BY <1>2
  <2> QED BY <1>3, <1>4, <2>1 DEF InOrder
<1> QED
  BY <1>6, <1>7 DEF Searching, NoneSkipped, ShorterTried

(* The last iteration has come to its end: nothing is still to come.       *)
LEMMA NothingPending ==
    ASSUME SearchInv, Exhausted, Len(stack) = 1
    PROVE  /\ in.leaf \notin in.anchors
           /\ \A p \in Seq(Node) : Complete(p) /\ Len(p) <= depth + 1 => Tried(p)
           /\ \A p \in Seq(Node) : OpenTrail(p) /\ Len(p) <= depth => Scanned(p)
<1>1. \A p \in Seq(Node) : ~ Pending(p)
  <2>1. 1 .. Len(stack) - 1 = {}
    OBVIOUS
  <2> QED BY <2>1, NothingPendingHere DEF SearchInv
<1>2. NoneSkipped
  BY DEF SearchInv, Searching, Exhausted
<1>3. in.leaf \notin in.anchors
  BY DEF SearchInv, Inv, Climbing, Exhausted
<1> QED
  BY <1>1, <1>2, <1>3 DEF NoneSkipped

------------------------------------------------------------------------------
(* What _annotate_dead_frontiers walks back from the anchors *)

(* A walk along some edges up to an anchor.                                *)
WalkUp(E, w) ==
    /\ w \in Seq(Node) /\ Len(w) >= 1 /\ w[Len(w)] \in in.anchors
    /\ \A i \in 1 .. Len(w) - 1 : <<w[i], w[i + 1]>> \in E

Below(E, n) ==
    {c \in Node : \E w \in Seq(Node) :
                     WalkUp(E, w) /\ Len(w) <= n + 1 /\ w[1] = c}

LEMMA BelowGrows ==
    ASSUME in \in Input, NEW E \in SUBSET Edge, NEW n \in Nat, n >= 1
    PROVE  Below(E, n) = Below(E, n - 1) \cup
              {c \in Node : Upward(E, c) \cap Below(E, n - 1) # {}}
<1> DEFINE New == {c \in Node : Upward(E, c) \cap Below(E, n - 1) # {}}
<1>1. ASSUME NEW c \in Below(E, n) PROVE c \in Below(E, n - 1) \cup New
  <2>1. PICK w \in Seq(Node) : WalkUp(E, w) /\ Len(w) <= n + 1 /\ w[1] = c
    BY DEF Below
  <2>2. Len(w) \in Nat /\ Len(w) >= 1 /\ c \in Node /\ \A i \in 1 .. Len(w) : w[i] \in Node
    BY <2>1, LenProperties, ElementOfSeq DEF WalkUp, Below
  <2>3. CASE Len(w) = 1
    <3>1. Len(w) <= n - 1 + 1
      BY <2>3
    <3> QED BY <2>1, <2>2, <3>1 DEF Below
  <2>4. CASE Len(w) # 1
    <3>0. \A k \in Nat : k >= 1 /\ k # 1 => k >= 2
      OBVIOUS
    <3>1. Len(w) >= 2 /\ w # << >>
      <4>1. Len(w) >= 2
        BY <2>2, <2>4, <3>0
      <4>2. Len(<< >>) = 0
        OBVIOUS
      <4> QED BY <4>1, <4>2
    <3> DEFINE v == Tail(w)
               m == Len(w)
    <3>2. /\ v \in Seq(Node) /\ Len(v) = m - 1
          /\ \A i \in 1 .. m - 1 : v[i] = w[i + 1]
      BY <3>1, HeadTailProperties
    <3>3. m \in Nat /\ m >= 2 /\ m <= n + 1 /\ w[m] \in in.anchors
          /\ \A i \in 1 .. m - 1 : <<w[i], w[i + 1]>> \in E
      BY <2>1, <2>2, <3>1 DEF WalkUp
    <3> HIDE DEF v, m
    <3>4. WalkUp(E, v)
      <4>1. v[m - 1] = w[m]
        <5>1. m - 1 \in 1 .. m - 1 /\ m - 1 + 1 = m
          BY <3>3
        <5> QED BY <3>2, <5>1
      <4>2. ASSUME NEW i \in 1 .. m - 1 - 1 PROVE <<v[i], v[i + 1]>> \in E
        <5>1. i \in 1 .. m - 1 /\ i + 1 \in 1 .. m - 1
          BY <3>3
        <5> QED BY <3>2, <3>3, <5>1
      <4>3. Len(v) >= 1
        BY <3>2, <3>3
      <4> QED BY <3>2, <3>3, <4>1, <4>2, <4>3 DEF WalkUp
    <3>5. v[1] = w[2] /\ <<c, w[2]>> \in E
      <4>1. 1 \in 1 .. m - 1 /\ 1 + 1 = 2
        BY <3>3
      <4> QED BY <2>1, <3>2, <3>3, <4>1
    <3>6. w[2] \in Node
      BY <3>5 DEF Edge
    <3>7. Len(v) <= n - 1 + 1
      BY <3>2, <3>3
    <3>8. w[2] \in Below(E, n - 1)
      BY <3>2, <3>4, <3>5, <3>6, <3>7 DEF Below
    <3>9. w[2] \in Upward(E, c)
      <4>1. <<c, w[2]>> \in {e \in E : e[1] = c} /\ w[2] = <<c, w[2]>>[2]
        BY <3>5
      <4> QED BY <4>1 DEF Upward
    <3> QED BY <2>2, <3>8, <3>9
  <2> QED BY <2>3, <2>4
<1>2. ASSUME NEW c \in Below(E, n - 1) PROVE c \in Below(E, n)
  <2>1. PICK w \in Seq(Node) : WalkUp(E, w) /\ Len(w) <= n - 1 + 1 /\ w[1] = c
    BY DEF Below
  <2>2. Len(w) <= n + 1
    BY <2>1, LenProperties
  <2> QED BY <2>1, <2>2 DEF Below
<1>3. ASSUME NEW c \in New PROVE c \in Below(E, n)
  <2>1. PICK d \in Upward(E, c) : d \in Below(E, n - 1)
    OBVIOUS
  <2>2. <<c, d>> \in E
    <3>1. PICK e \in E : e[1] = c /\ d = e[2]
      BY <2>1 DEF Upward
    <3>2. e = <<e[1], e[2]>>
      BY <3>1 DEF Edge
    <3> QED BY <3>1, <3>2
  <2>3. PICK w \in Seq(Node) : WalkUp(E, w) /\ Len(w) <= n - 1 + 1 /\ w[1] = d
    BY <2>1 DEF Below
  <2> DEFINE m == Len(w)
             v == <<c>> \o w
  <2>4. m \in Nat /\ m >= 1 /\ m <= n /\ w[m] \in in.anchors
        /\ \A i \in 1 .. m - 1 : <<w[i], w[i + 1]>> \in E
    BY <2>3, LenProperties DEF WalkUp
  <2>5. /\ v \in Seq(Node) /\ Len(v) = 1 + m
        /\ \A i \in 1 .. 1 + m : v[i] = IF i <= 1 THEN c ELSE w[i - 1]
    <3>1. <<c>> \in Seq(Node) /\ Len(<<c>>) = 1 /\ <<c>>[1] = c
      OBVIOUS
    <3>2. /\ v \in Seq(Node) /\ Len(v) = 1 + m
          /\ \A i \in 1 .. 1 + m : v[i] = IF i <= 1 THEN <<c>>[i] ELSE w[i - 1]
      BY <3>1, ConcatProperties
    <3> HIDE DEF v, m
    <3>3. \A i \in 1 .. 1 + m : i <= 1 => i = 1
      BY <2>4
    <3> QED BY <3>1, <3>2, <3>3
  <2> HIDE DEF v, m
  <2>6. v[1] = c /\ \A i \in 1 .. m : v[i + 1] = w[i]
    <3>1. 1 \in 1 .. 1 + m /\ \A i \in 1 .. m : i + 1 \in 1 .. 1 + m /\ ~ (i + 1 <= 1)
                                            /\ i + 1 - 1 = i
      BY <2>4
    <3> QED BY <2>5, <3>1
  <2>7. WalkUp(E, v)
    <3>1. v[1 + m] = w[m]
      BY <2>4, <2>6
    <3>2. ASSUME NEW i \in 1 .. 1 + m - 1 PROVE <<v[i], v[i + 1]>> \in E
      <4>1. CASE i = 1
        <5>1. 1 \in 1 .. m
          BY <2>4
        <5>2. v[i] = c /\ v[i + 1] = d
          BY <2>3, <2>6, <4>1, <5>1
        <5> QED BY <2>2, <5>2
      <4>2. CASE i # 1
        <5>1. i - 1 \in 1 .. m - 1 /\ i - 1 \in 1 .. m /\ i \in 1 .. m /\ i - 1 + 1 = i
          BY <2>4, <4>2
        <5> QED BY <2>4, <2>6, <5>1
      <4> QED BY <4>1, <4>2
    <3>3. Len(v) >= 1
      BY <2>4, <2>5
    <3> QED BY <2>4, <2>5, <3>1, <3>2, <3>3 DEF WalkUp
  <2>8. Len(v) <= n + 1
    BY <2>4, <2>5
  <2> QED BY <2>5, <2>6, <2>7, <2>8 DEF Below
<1> QED
  BY <1>1, <1>2, <1>3

LEMMA ReachingAre ==
    ASSUME in \in Input, NEW E \in SUBSET Edge
    PROVE  Reaching(E) = Below(E, Cardinality(Node)) /\ Cardinality(Node) \in Nat
<1> DEFINE N == Cardinality(Node)
           S == 0 .. N
           D(f, n) == IF n = 0 THEN in.anchors
                      ELSE f[n - 1] \cup
                             {c \in Node : Upward(E, c) \cap f[n - 1] # {}}
           Within[n \in S] == D(Within, n)
           G == [n \in S |-> Below(E, n)]
<1>0. N \in Nat
  BY NodesFinite, FS_CardinalityType
<1>1. Below(E, 0) = in.anchors
  <2>1. ASSUME NEW c \in in.anchors PROVE c \in Below(E, 0)
    <3> DEFINE w == <<c>>
    <3>1. w \in Seq(Node) /\ Len(w) = 1 /\ w[1] = c /\ c \in Node
      BY LeafIsNode
    <3> HIDE DEF w
    <3>2. WalkUp(E, w) /\ Len(w) <= 0 + 1
      BY <3>1 DEF WalkUp
    <3> QED BY <3>1, <3>2 DEF Below
  <2>2. ASSUME NEW c \in Below(E, 0) PROVE c \in in.anchors
    <3>1. PICK w \in Seq(Node) : WalkUp(E, w) /\ Len(w) <= 0 + 1 /\ w[1] = c
      BY DEF Below
    <3>2. Len(w) \in Nat /\ Len(w) >= 1 /\ Len(w) <= 1
      BY <3>1, LenProperties DEF WalkUp
    <3>3. \A k \in Nat : k >= 1 /\ k <= 1 => k = 1
      OBVIOUS
    <3>4. Len(w) = 1
      BY <3>2, <3>3
    <3> QED BY <3>1, <3>4 DEF WalkUp
  <2> QED BY <2>1, <2>2
<1>2. \A n \in S : Below(E, n) = D(G, n)
  <2> SUFFICES ASSUME NEW n \in S PROVE Below(E, n) = D(G, n)
    OBVIOUS
  <2>1. CASE n = 0
    BY <1>1, <2>1
  <2>2. CASE n # 0
    <3>1. n \in Nat /\ n >= 1 /\ n - 1 \in S
      BY <1>0, <2>2
    <3>2. G[n - 1] = Below(E, n - 1)
      BY <3>1
    <3>3. Below(E, n) = Below(E, n - 1) \cup
              {c \in Node : Upward(E, c) \cap Below(E, n - 1) # {}}
      BY <3>1, BelowGrows
    <3> HIDE DEF G
    <3> QED BY <2>2, <3>2, <3>3
  <2> QED BY <2>1, <2>2
<1>3. Within = CHOOSE f : f = [n \in S |-> D(f, n)]
  OBVIOUS
<1>4. Reaching(E) = Within[N]
  BY DEF Reaching
<1> HIDE DEF Within, N
<1>5. G = [n \in S |-> D(G, n)]
  <2> HIDE DEF D
  <2> QED BY <1>2
<1> HIDE DEF G
<1>6. Within = [n \in S |-> D(Within, n)]
  <2> HIDE DEF D
  <2> QED BY <1>3, <1>5
<1>7. \A n \in S : Within[n] = D(Within, n) /\ G[n] = D(G, n)
  <2> HIDE DEF D
  <2> QED BY <1>5, <1>6
<1>8. \A n \in S : Within[n] = G[n]
  <2> DEFINE Differ == {n \in S : Within[n] # G[n]}
             n == Smallest(Differ)
  <2> SUFFICES ASSUME Differ # {} PROVE FALSE
    OBVIOUS
  <2>1. Differ \subseteq Nat
    BY <1>0
  <2> HIDE DEF Differ
  <2>2. n \in Differ /\ \A m \in Differ : n <= m
    BY <2>1, SmallestIn
  <2> HIDE DEF n
  <2>3. n \in S /\ Within[n] # G[n]
    BY <2>2 DEF Differ
  <2>4. CASE n = 0
    BY <1>7, <2>3, <2>4
  <2>5. CASE n # 0
    <3>1. n - 1 \in S /\ ~ (n <= n - 1)
      BY <1>0, <2>3, <2>5
    <3>2. Within[n - 1] = G[n - 1]
      BY <2>2, <3>1 DEF Differ
    <3>3. D(Within, n) = D(G, n)
      BY <2>5, <3>2
    <3> HIDE DEF D
    <3> QED BY <1>7, <2>3, <3>3
  <2> QED BY <2>4, <2>5
<1>9. N \in S
  BY <1>0
<1> QED
  BY <1>0, <1>4, <1>8, <1>9 DEF G, N

(* A path visits no certificate twice, hence has no more than there are.   *)
LEMMA NoLongerThanNodes ==
    ASSUME NEW p \in Seq(Node), Simple(p)
    PROVE  Len(p) <= Cardinality(Node)
<1>1. Len(p) \in Nat /\ p \in [1 .. Len(p) -> Node] /\ DOMAIN p = 1 .. Len(p)
  BY LenProperties
<1>2. /\ IsFiniteSet(1 .. Len(p)) /\ Cardinality(1 .. Len(p)) = Len(p)
      /\ Cardinality(Node) \in Nat
  <2>1. /\ IsFiniteSet(1 .. Len(p))
        /\ Cardinality(1 .. Len(p)) = IF 1 > Len(p) THEN 0 ELSE Len(p) - 1 + 1
    BY <1>1, FS_Interval
  <2>2. \A k \in Nat : (IF 1 > k THEN 0 ELSE k - 1 + 1) = k
    OBVIOUS
  <2>3. Cardinality(Node) \in Nat
    BY FS_CardinalityType, NodesFinite
  <2> QED BY <1>1, <2>1, <2>2, <2>3
<1>3. SUFFICES ASSUME Cardinality(Node) < Len(p) PROVE FALSE
  BY <1>1, <1>2
<1>4. \E i, j \in 1 .. Len(p) : i # j /\ p[i] = p[j]
  BY <1>1, <1>2, <1>3, NodesFinite, FS_PigeonHole
<1> QED
  BY <1>1, <1>4 DEF Simple

(* Every certificate of a complete path whose edges are walked reaches.    *)
LEMMA CompletePathsReach ==
    ASSUME in \in Input, NEW E \in SUBSET Edge,
           NEW p \in Seq(Node), Complete(p),
           \A i \in 1 .. Len(p) - 1 : <<p[i], p[i + 1]>> \in E
    PROVE  \A i \in 1 .. Len(p) : p[i] \in Reaching(E)
<1> DEFINE n == Len(p)
<1>1. /\ n \in Nat /\ n <= Cardinality(Node) /\ p[n] \in in.anchors
      /\ \A j \in 1 .. n : p[j] \in Node
      /\ \A j \in 1 .. n - 1 : <<p[j], p[j + 1]>> \in E
  BY NoLongerThanNodes, LenProperties, ElementOfSeq DEF Complete, Trail
<1> SUFFICES ASSUME NEW i \in 1 .. n PROVE p[i] \in Reaching(E)
  OBVIOUS
<1> DEFINE w == SubSeq(p, i, n)
<1> HIDE DEF n
<1>2. /\ w \in Seq(Node) /\ Len(w) = n - i + 1
      /\ \A j \in 1 .. n - i + 1 : w[j] = p[i + j - 1]
  <2>1. i \in Int /\ n \in Int /\ i <= n /\ \A j \in i .. n : p[j] \in Node
    BY <1>1
  <2> QED BY <2>1, SubSeqProperties
<1> HIDE DEF w
<1>3. WalkUp(E, w) /\ w[1] = p[i]
  <2>1. Len(w) >= 1 /\ 1 \in 1 .. n - i + 1 /\ i + 1 - 1 = i
        /\ n - i + 1 \in 1 .. n - i + 1 /\ i + (n - i + 1) - 1 = n
    BY <1>1, <1>2
  <2>2. ASSUME NEW j \in 1 .. Len(w) - 1 PROVE <<w[j], w[j + 1]>> \in E
    <3>1. j \in 1 .. n - i + 1 /\ j + 1 \in 1 .. n - i + 1
          /\ i + j - 1 \in 1 .. n - 1 /\ i + (j + 1) - 1 = i + j - 1 + 1
      BY <1>1, <1>2
    <3> QED BY <1>1, <1>2, <3>1
  <2> QED BY <1>1, <1>2, <2>1, <2>2 DEF WalkUp
<1>4. Cardinality(Node) \in Nat /\ Reaching(E) = Below(E, Cardinality(Node))
  BY ReachingAre
<1>5. Len(w) <= Cardinality(Node) + 1
  BY <1>1, <1>2, <1>4
<1>6. p[i] \in Node
  BY <1>1
<1> QED
  BY <1>2, <1>3, <1>4, <1>5, <1>6 DEF Below

------------------------------------------------------------------------------
(* The ends of the search *)

LEMMA EdgeOfPath ==
    ASSUME NEW p \in Seq(Node), NEW i \in 1 .. Len(p) - 1
    PROVE  <<p[i], p[i + 1]>> \in Edge
<1>1. i \in 1 .. Len(p) /\ i + 1 \in 1 .. Len(p)
  BY LenProperties
<1> QED
  BY <1>1, ElementOfSeq DEF Edge

LEMMA GivingUp ==
    ASSUME SearchInv, GiveUp
    PROVE  NothingLeft' /\ MarksAreDead'
<1>1. /\ UNCHANGED <<in, depth, stack, todo, winner, outcomes, edges>>
      /\ status' = "rejected" /\ depth = MaxDepth /\ status = "search"
      /\ Exhausted /\ Len(stack) = 1
      /\ failure' = [e \in Edge |->
           IF /\ e \in edges
              /\ failure[e] = None
              /\ EdgeRule(e) = None
              /\ e[2] \notin Reaching(edges)
             THEN "NO_PATH_TO_ANCHOR" ELSE failure[e]]
  BY DEF GiveUp, Exhausted
<1>2. /\ in.leaf \notin in.anchors
      /\ \A p \in Seq(Node) : Complete(p) => Tried(p)
      /\ \A p \in Seq(Node) : OpenTrail(p) /\ Len(p) <= MaxDepth => Scanned(p)
  <2>1. \A p \in Seq(Node) : Complete(p) => Len(p) <= MaxDepth + 1
    BY DEF Complete
  <2> QED BY <1>1, <2>1, NothingPending
<1>3. NothingLeft'
  <2>1. ASSUME NEW p \in Seq(Node)
        PROVE  /\ Complete(p)' => Tried(p)'
               /\ OpenTrail(p)' /\ Len(p) <= MaxDepth => Scanned(p)'
    <3>1. (Complete(p)' => Complete(p)) /\ (OpenTrail(p)' => OpenTrail(p))
      BY <1>1, SamePaths
    <3> QED BY <1>1, <1>2, <3>1 DEF Tried, Scanned
  <2> QED BY <1>1, <1>2, <2>1 DEF NothingLeft
<1>4. failure \in [Edge -> Rule]
  BY <1>1 DEF SearchInv, Unmarked
<1>5. in \in Input /\ edges \in SUBSET Edge
  BY DEF SearchInv, Inv, TypeOK
<1>6. ASSUME NEW p \in Seq(Node), Complete(p), NEW i \in 1 .. Len(p) - 1
      PROVE  failure'[<<p[i], p[i + 1]>>] # "NO_PATH_TO_ANCHOR"
  <2>1. ASSUME NEW j \in 1 .. Len(p) - 1 PROVE <<p[j], p[j + 1]>> \in edges
    <3> DEFINE q == SubSeq(p, 1, j)
    <3>1. Trail(p) /\ Len(p) \in Nat /\ Len(p) <= MaxDepth + 1
          /\ j \in 1 .. Len(p) /\ j <= MaxDepth
      BY <1>6, LenProperties, SearchType DEF Complete
    <3>2. q \in Seq(Node) /\ Trail(q) /\ Len(q) = j /\ q[j] = p[j]
      BY <3>1, Beginnings
    <3> HIDE DEF q
    <3>3. p[j] \notin in.anchors /\ Admitted(p, j)
      BY <3>1 DEF Trail
    <3>4. Scanned(q)
      BY <1>2, <3>1, <3>2, <3>3 DEF OpenTrail
    <3>5. p[j + 1] \in in.cand[p[j]]
      BY <3>3 DEF Admitted, Parents
    <3> QED BY <3>2, <3>4, <3>5 DEF Scanned
  <2>2. p[i + 1] \in Reaching(edges)
    <3>1. i + 1 \in 1 .. Len(p)
      BY LenProperties
    <3> QED BY <1>5, <1>6, <2>1, <3>1, CompletePathsReach
  <2> DEFINE e == <<p[i], p[i + 1]>>
  <2>3. e \in Edge /\ e[2] \in Reaching(edges)
    BY <2>2, EdgeOfPath
  <2> HIDE DEF e
  <2>4. failure'[e] = failure[e]
    BY <1>1, <2>3
  <2>5. failure[e] \in Rule
    BY <1>4, <2>3
  <2> QED BY <2>4, <2>5, NoneIsNoRule DEF Rule, e
<1>7. MarksAreDead'
  <2> SUFFICES ASSUME NEW p \in Seq(Node), Complete(p)', NEW i \in 1 .. Len(p) - 1
               PROVE  failure'[<<p[i], p[i + 1]>>] # "NO_PATH_TO_ANCHOR"
    BY DEF MarksAreDead
  <2>1. Complete(p)
    BY <1>1, SamePaths
  <2> QED BY <1>6, <2>1
<1> QED
  BY <1>3, <1>7

(* The path selected is complete.                                          *)
LEMMA PathIsComplete ==
    ASSUME Inv, MayFollow, Parent \in in.anchors
    PROVE  Path \in Seq(Node) /\ Complete(Path) /\ Len(Path) <= depth + 1
<1>1. /\ Path \in Seq(Node) /\ Simple(Path) /\ Len(Path) = Len(stack) + 1
      /\ Path[1] = in.leaf /\ Path[Len(Path)] = Parent
      /\ \A i \in 1 .. Len(Path) - 1 :
            Admitted(Path, i) /\ Path[i] \notin in.anchors
  BY PathToParent
<1>2. /\ Len(stack) \in Nat /\ Len(stack) >= 1 /\ Len(stack) <= depth
      /\ depth \in Nat /\ depth <= MaxDepth
  BY AtParent, SearchType DEF MayFollow, Inv, TypeOK
<1>3. Len(Path) >= 1 /\ Len(Path) \in 2 .. MaxDepth + 1 /\ Len(Path) <= depth + 1
  BY <1>1, <1>2, SearchType
<1> QED
  BY <1>1, <1>3 DEF Complete, Trail

LEMMA Accepting ==
    ASSUME SearchInv, Accept
    PROVE  Least'
<1>1. /\ winner' = Path /\ in' = in /\ MayFollow /\ Visiting /\ Inv
      /\ Parent \in in.anchors /\ status = "search"
  BY DEF Accept, MayFollow, Visiting, SearchInv
<1>2. Path \in Seq(Node) /\ Complete(Path) /\ Len(Path) <= depth + 1
  BY <1>1, PathIsComplete
<1>3. NoneSkipped /\ ShorterTried /\ InOrder
  BY <1>1 DEF SearchInv, Searching
<1>4. /\ Len(stack) \in Nat /\ Len(stack) >= 1 /\ Len(todo) = Len(stack)
      /\ todo \in Seq(SUBSET Node) /\ depth \in Nat
      /\ \A i \in 1 .. Len(stack) : Path[i] = stack[i] /\ todo[i] \in SUBSET Nat
      /\ Path[Len(stack) + 1] = Parent /\ Len(Path) = Len(stack) + 1
  <2>1. /\ Len(stack) >= 1 /\ Len(todo) = Len(stack) /\ Len(stack) \in Nat
        /\ todo \in Seq(SUBSET Node) /\ depth \in Nat
    BY <1>1, AtParent, SearchType, LenProperties DEF Inv, TypeOK
  <2>2. \A i \in 1 .. Len(stack) : todo[i] \in SUBSET Nat
    BY <2>1, ElementOfSeq, SearchType
  <2> QED BY <1>1, <2>1, <2>2, PathToParent
<1>5. \A p \in Seq(Node) : Tried(p) => p \in in.refused
  BY <1>1 DEF Inv, OutcomesRefused, Tried
<1> SUFFICES ASSUME NEW p \in Seq(Node), Complete(p)', p \notin in.refused
             PROVE  ~ Before(p, Path)
  BY <1>1 DEF Least, Before
<1>6. Complete(p) /\ ~ Tried(p)
  BY <1>1, <1>5, SamePaths
<1>7. Len(p) \in Nat /\ ~ (Len(p) <= depth) /\ DOMAIN p = 1 .. Len(p)
      /\ \A i \in 1 .. Len(p) : p[i] \in Nat
  BY <1>3, <1>6, LenProperties, ElementOfSeq, SearchType DEF ShorterTried
<1>8. ~ (Len(p) < Len(Path))
  BY <1>2, <1>4, <1>7
<1> SUFFICES ASSUME Len(p) = Len(Path),
                    NEW k \in 1 .. Len(p), p[k] < Path[k],
                    \A j \in 1 .. k - 1 : p[j] = Path[j]
             PROVE  FALSE
  BY <1>7, <1>8 DEF Before
<1>9. Pending(p)
  BY <1>2, <1>3, <1>6 DEF NoneSkipped
<1>10. PICK i \in 1 .. Len(stack) :
          i < Len(p) /\ (\A j \in 1 .. i : p[j] = stack[j]) /\ p[i + 1] \in todo[i]
  BY <1>9 DEF Pending
<1>11. i \in Nat /\ k \in Nat /\ i + 1 \in 1 .. Len(p) /\ p[i + 1] \in Nat
  BY <1>4, <1>7, <1>10
<1>12. ~ (k <= i)
  <2> SUFFICES ASSUME k <= i PROVE FALSE
    OBVIOUS
  <2>1. k \in 1 .. i /\ k \in 1 .. Len(stack)
    BY <1>4
  <2>2. p[k] = stack[k] /\ Path[k] = stack[k]
    BY <1>4, <1>10, <2>1
  <2>3. p[k] \in Nat
    BY <1>7
  <2> QED BY <2>2, <2>3
<1>13. Path[i + 1] <= p[i + 1] /\ Path[i + 1] \in Nat
  <2>1. CASE i = Len(stack)
    <3>1. /\ Last(todo) = todo[i] /\ p[i + 1] \in Last(todo) /\ Last(todo) # {}
          /\ Last(todo) \in SUBSET Nat
      BY <1>4, <1>10, <2>1 DEF Last
    <3>2. Parent <= p[i + 1] /\ Parent \in Nat
      BY <3>1, SmallestIn DEF Parent
    <3> QED BY <1>4, <2>1, <3>2
  <2>2. CASE i # Len(stack)
    <3>1. i \in 1 .. Len(stack) - 1 /\ i + 1 \in 1 .. Len(stack)
      BY <1>4, <2>2
    <3>2. stack[i + 1] < p[i + 1]
      BY <1>3, <1>10, <3>1 DEF InOrder
    <3>3. Path[i + 1] = stack[i + 1] /\ stack[i + 1] \in Nat
      <4>1. stack[i + 1] \in Node
        BY <1>1, <3>1, ElementOfSeq DEF Inv, TypeOK
      <4> QED BY <1>4, <3>1, <4>1, SearchType
    <3> QED BY <1>11, <3>2, <3>3
  <2> QED BY <2>1, <2>2
<1>14. CASE k = i + 1
  BY <1>11, <1>13, <1>14
<1>15. CASE k # i + 1
  <2>1. i + 1 \in 1 .. k - 1
    BY <1>11, <1>12, <1>15
  <2>2. Path[i + 1] = p[i + 1]
    BY <2>1
  <2>3. CASE i = Len(stack)
    BY <1>4, <1>11, <1>12, <1>15, <2>3
  <2>4. CASE i # Len(stack)
    <3>1. i \in 1 .. Len(stack) - 1 /\ i + 1 \in 1 .. Len(stack)
      BY <1>4, <2>4
    <3>2. stack[i + 1] < p[i + 1] /\ Path[i + 1] = stack[i + 1]
      BY <1>3, <1>4, <1>10, <3>1 DEF InOrder
    <3> QED BY <1>11, <2>2, <3>2
  <2> QED BY <2>3, <2>4
<1> QED
  BY <1>14, <1>15

------------------------------------------------------------------------------
(* Failures of edges are among the rules until the search has given up.    *)
LEMMA Noting ==
    ASSUME failure \in [Edge -> Rule], NEW r \in Rule, NEW e \in Edge, Note(e, r)
    PROVE  failure' \in [Edge -> Rule]
BY DEF Note

LEMMA Scanning ==
    ASSUME failure \in [Edge -> Rule], NEW c \in Node, Scan(c)
    PROVE  failure' \in [Edge -> Rule]
BY DEF Scan, Rule, EdgeRule

(* What does not concern the search stays as it is while it runs.          *)
LEMMA StillSearching ==
    ASSUME SearchInv, in' = in, status = "search", status' = "search",
           failure' \in [Edge -> Rule]
    PROVE  Unmarked' /\ Least' /\ NothingLeft' /\ MarksAreDead'
BY DEF Unmarked, Edge, Rule, Least, NothingLeft, MarksAreDead

LEMMA SameOutcomes ==
    ASSUME SearchInv, in' = in, outcomes' = outcomes
    PROVE  OutcomesComplete' /\ \A p \in Seq(Node) : Tried(p) => Tried(p)'
<1>1. \A k \in 1 .. Len(outcomes) : Complete(outcomes[k]) /\ outcomes[k] \in Seq(Node)
  BY DEF SearchInv, OutcomesComplete, Complete, Trail
<1>2. \A p \in Seq(Node) : Complete(p)' <=> Complete(p)
  BY SamePaths
<1>3. OutcomesComplete'
  <2> SUFFICES ASSUME NEW k \in 1 .. Len(outcomes')
               PROVE  Complete(outcomes[k])'
    BY DEF OutcomesComplete
  <2>1. k \in 1 .. Len(outcomes) /\ outcomes'[k] = outcomes[k]
    OBVIOUS
  <2>2. PICK p \in Seq(Node) : p = outcomes[k]
    BY <1>1, <2>1
  <2>3. Complete(p)'
    BY <1>1, <1>2, <2>1, <2>2
  <2> QED BY <2>1, <2>2, <2>3
<1> QED
  BY <1>3 DEF Tried

LEMMA SameEdges ==
    ASSUME SearchInv, in' = in, edges' = edges
    PROVE  OnlyEntered'
BY SameEnds DEF SearchInv, OnlyEntered

LEMMA SearchInitially == Init => SearchInv
<1> SUFFICES ASSUME Init PROVE SearchInv
  OBVIOUS
<1>1. Inv
  BY Initially
<1>2. /\ status = "start" /\ Len(outcomes) = 0 /\ edges = {}
      /\ failure \in [Edge -> Rule]
  BY DEF Init, Rule
<1> QED
  BY <1>1, <1>2 DEF SearchInv, Searching, OutcomesComplete, OnlyEntered, Unmarked,
                    Least, NothingLeft, MarksAreDead

LEMMA SearchInductive == SearchInv /\ [Next]_vars => SearchInv'
<1> SUFFICES ASSUME SearchInv, [Next]_vars PROVE SearchInv'
  OBVIOUS
<1>0. Inv' /\ Inv /\ in' = in
  <2>1. Inv
    BY DEF SearchInv
  <2>2. in' = in
    BY DEF Next, vars, Start, Loop, Unfit, Refuse, Accept, Descend, CutOff, Return,
           Deepen, GiveUp, Skip
  <2> QED BY <2>1, <2>2, Inductive
<1>a. status # "rejected" => failure \in [Edge -> Rule]
  BY DEF SearchInv, Unmarked
<1>1. CASE Start
  <2>1. CASE in.expired /\ status' = "rejected"
             /\ UNCHANGED <<in, depth, stack, todo, winner, edges, failure, outcomes>>
    <3>1. status = "start" /\ failure' \in [Edge -> Rule]
      BY <1>1, <1>a, <2>1 DEF Start
    <3>2. MarksAreDead'
      <4> SUFFICES ASSUME NEW p \in Seq(Node), NEW i \in 1 .. Len(p) - 1
                   PROVE  failure'[<<p[i], p[i + 1]>>] # "NO_PATH_TO_ANCHOR"
        BY DEF MarksAreDead
      <4>1. failure'[<<p[i], p[i + 1]>>] \in Rule
        BY <3>1, EdgeOfPath
      <4> QED BY <4>1, NoneIsNoRule DEF Rule
    <3>3. OutcomesComplete' /\ OnlyEntered'
      BY <2>1, SameOutcomes, SameEdges
    <3> QED BY <1>0, <2>1, <3>2, <3>3
            DEF SearchInv, Searching, Unmarked, Least, NothingLeft
  <2>2. CASE /\ in.leaf \in in.anchors /\ status' = "accepted"
             /\ UNCHANGED <<in, depth, stack, todo, edges, failure, outcomes>>
    <3>1. status = "start" /\ failure' \in [Edge -> Rule]
      BY <1>1, <1>a, <2>2 DEF Start
    <3>2. OutcomesComplete' /\ OnlyEntered'
      BY <2>2, SameOutcomes, SameEdges
    <3> QED BY <1>0, <2>2, <3>1, <3>2
            DEF SearchInv, Searching, Unmarked, Least, NothingLeft, MarksAreDead, Edge, Rule
  <2>3. CASE /\ in.leaf \notin in.anchors /\ status' = "search" /\ Begin(1)
             /\ UNCHANGED <<in, winner, outcomes>>
    <3>1. 1 \in 1 .. MaxDepth /\ in.leaf \in Node
      BY <1>0, SearchType, LeafIsNode DEF Inv
    <3>2. \A p \in Seq(Node) : Complete(p) /\ Len(p) <= 1 => Tried(p)'
      BY SearchType DEF Complete
    <3>3. Searching' /\ OnlyEntered'
      BY <2>3, <3>1, <3>2, NewIteration
    <3>4. failure' \in [Edge -> Rule]
      BY <1>1, <1>a, <2>3, <3>1, Scanning DEF Begin, Start
    <3>5. OutcomesComplete'
      BY <2>3, SameOutcomes
    <3> QED BY <1>0, <2>3, <3>3, <3>4, <3>5
            DEF SearchInv, Unmarked, Least, NothingLeft, MarksAreDead, Edge, Rule
  <2> QED BY <1>1, <2>1, <2>2, <2>3 DEF Start
<1>2. CASE Loop \/ Unfit \/ CutOff
  <2>1. Visiting /\ Skip /\ outcomes' = outcomes /\ status = "search"
        /\ status' = "search" /\ edges' = edges
    BY <1>2 DEF Loop, Unfit, CutOff, MayFollow, Visiting, Skip
  <2>2. ASSUME NEW p \in Seq(Node), Trail(p), Through(p)
        PROVE  ~ (Complete(p) /\ Len(p) <= depth + 1)
               /\ ~ (OpenTrail(p) /\ Len(p) <= depth)
    <3>1. /\ Len(p) \in Nat /\ Len(p) >= Len(stack) + 1
          /\ p[Len(stack) + 1] = Parent
          /\ ~ OnPath(Parent) /\ Parent \notin in.unfit
      BY <1>0, <2>1, <2>2, ThroughParent
    <3>2. CutOff
      BY <1>2, <3>1 DEF Loop, Unfit
    <3>3. Parent \notin in.anchors /\ ~ (depth - (Len(stack) - 1) > 1)
      BY <3>2 DEF CutOff, Remaining
    <3>4. Len(stack) \in Nat /\ depth \in Nat
      BY <1>0, SearchType, LenProperties DEF Inv, TypeOK
    <3>5. Len(p) >= depth + 1
      BY <3>1, <3>3, <3>4
    <3>6. ASSUME Complete(p), Len(p) <= depth + 1 PROVE FALSE
      <4>0. \A n, d, m \in Nat : m >= n + 1 /\ ~ (d - (n - 1) > 1) /\ m <= d + 1
                                 => m = n + 1
        OBVIOUS
      <4>1. Len(p) = Len(stack) + 1
        BY <3>1, <3>3, <3>4, <3>6, <4>0
      <4> QED BY <3>1, <3>3, <3>6, <4>1 DEF Complete
    <3> QED BY <3>1, <3>4, <3>5, <3>6
  <2>3. OutcomesComplete' /\ \A p \in Seq(Node) : Tried(p) => Tried(p)'
    BY <1>0, <2>1, SameOutcomes
  <2>4. Searching'
    BY <2>1, <2>2, <2>3, GoingOn DEF Complete, OpenTrail
  <2>5. failure' \in [Edge -> Rule]
    <3>1. failure \in [Edge -> Rule] /\ Step \in Edge
      BY <1>0, <1>a, <2>1, AtParent
    <3> QED BY <1>2, <3>1, Noting DEF Loop, Unfit, CutOff, Rule
  <2> QED BY <1>0, <2>1, <2>3, <2>4, <2>5, StillSearching, SameEdges DEF SearchInv
<1>3. CASE Refuse
  <2>1. /\ Visiting /\ Skip /\ outcomes' = Append(outcomes, Path)
        /\ status = "search" /\ status' = "search" /\ edges' = edges
        /\ Parent \in in.anchors /\ MayFollow
    BY <1>3 DEF Refuse, MayFollow, Visiting, Skip
  <2>2. Path \in Seq(Node) /\ Complete(Path)
    BY <1>0, <2>1, PathIsComplete
  <2>3. /\ Len(outcomes) \in Nat /\ Len(outcomes') = Len(outcomes) + 1
        /\ \A k \in 1 .. Len(outcomes) : outcomes'[k] = outcomes[k]
        /\ outcomes'[Len(outcomes) + 1] = Path
    <3>1. outcomes \in Seq(Seq(Node))
      BY <1>0 DEF Inv, TypeOK
    <3> QED BY <2>1, <2>2, <3>1, AppendProperties, LenProperties
  <2>4. \A p \in Seq(Node) : Tried(p) => Tried(p)'
    BY <2>3 DEF Tried
  <2>5. ASSUME NEW p \in Seq(Node), Trail(p), Through(p)
        PROVE  Tried(p)' /\ ~ OpenTrail(p)
    <3>1. Len(p) = Len(stack) + 1 /\ p = Path /\ p[Len(stack) + 1] = Parent
      BY <1>0, <2>1, <2>5, ThroughParent
    <3>2. Len(outcomes) + 1 \in 1 .. Len(outcomes')
      BY <2>3
    <3> QED BY <2>1, <2>3, <3>1, <3>2 DEF Tried, OpenTrail
  <2>6. Searching'
    BY <2>1, <2>4, <2>5, GoingOn DEF Complete, OpenTrail
  <2>7. OutcomesComplete'
    <3> SUFFICES ASSUME NEW k \in 1 .. Len(outcomes')
                 PROVE  Complete(outcomes[k])'
      BY DEF OutcomesComplete
    <3>1. Complete(outcomes'[k])
      <4>1. k \in 1 .. Len(outcomes) \/ k = Len(outcomes) + 1
        BY <2>3
      <4> QED BY <2>2, <2>3, <4>1 DEF SearchInv, OutcomesComplete
    <3>2. PICK p \in Seq(Node) : p = outcomes'[k]
      BY <3>1 DEF Complete, Trail
    <3>3. Complete(p)'
      BY <1>0, <3>1, <3>2, SamePaths
    <3> QED BY <3>2, <3>3
  <2>8. failure' \in [Edge -> Rule]
    <3>1. failure \in [Edge -> Rule] /\ Step \in Edge
      BY <1>0, <1>a, <2>1, AtParent
    <3> QED BY <1>3, <3>1, Noting DEF Refuse, Rule
  <2> QED BY <1>0, <2>1, <2>6, <2>7, <2>8, StillSearching, SameEdges DEF SearchInv
<1>4. CASE Accept
  <2>1. status = "search" /\ status' = "accepted"
        /\ UNCHANGED <<outcomes, edges, failure>>
    BY <1>4 DEF Accept, MayFollow, Visiting
  <2>2. OutcomesComplete' /\ OnlyEntered' /\ Least'
    BY <1>0, <1>4, <2>1, SameOutcomes, SameEdges, Accepting
  <2>3. Unmarked'
    BY <1>a, <2>1 DEF Unmarked, Edge, Rule
  <2> QED BY <1>0, <2>1, <2>2, <2>3 DEF SearchInv, Searching, NothingLeft, MarksAreDead
<1>5. CASE Descend
  <2>1. status = "search" /\ status' = "search" /\ outcomes' = outcomes
        /\ Visiting /\ Scan(Parent)
    BY <1>5 DEF Descend, MayFollow, Visiting
  <2>2. Parent \in Node
    BY <1>0, <2>1, AtParent
  <2>3. failure' \in [Edge -> Rule]
    BY <1>a, <2>1, <2>2, Scanning
  <2>4. Searching' /\ OnlyEntered' /\ OutcomesComplete'
    BY <1>0, <1>5, <2>1, Descending, SameOutcomes
  <2> QED BY <1>0, <2>1, <2>3, <2>4, StillSearching DEF SearchInv
<1>6. CASE Return
  <2>1. status = "search" /\ status' = "search"
        /\ UNCHANGED <<outcomes, edges, failure>>
    BY <1>6 DEF Return, Exhausted
  <2>2. Searching' /\ OutcomesComplete' /\ OnlyEntered'
    BY <1>0, <1>6, <2>1, Returning, SameOutcomes, SameEdges
  <2>3. failure' \in [Edge -> Rule]
    BY <1>a, <2>1
  <2> QED BY <1>0, <2>1, <2>2, <2>3, StillSearching DEF SearchInv
<1>7. CASE Deepen
  <2>1. /\ status = "search" /\ status' = "search" /\ outcomes' = outcomes
        /\ Exhausted /\ Len(stack) = 1 /\ Begin(depth + 1) /\ depth < MaxDepth
    BY <1>7 DEF Deepen, Exhausted
  <2>2. depth + 1 \in 1 .. MaxDepth
    BY <1>0, <2>1, SearchType DEF Inv, TypeOK
  <2>3. /\ in.leaf \notin in.anchors /\ in.leaf \in Node
        /\ \A p \in Seq(Node) : Complete(p) /\ Len(p) <= depth + 1 => Tried(p)
    BY <1>0, <2>1, NothingPending, LeafIsNode DEF Inv
  <2>4. OutcomesComplete' /\ \A p \in Seq(Node) : Tried(p) => Tried(p)'
    BY <1>0, <2>1, SameOutcomes
  <2>5. Searching' /\ OnlyEntered'
    BY <1>0, <2>1, <2>2, <2>3, <2>4, NewIteration
  <2>6. failure' \in [Edge -> Rule]
    BY <1>a, <2>1, <2>3, Scanning DEF Begin
  <2> QED BY <1>0, <2>1, <2>4, <2>5, <2>6, StillSearching DEF SearchInv
<1>8. CASE GiveUp
  <2>1. status = "search" /\ status' = "rejected" /\ UNCHANGED <<outcomes, edges>>
    BY <1>8 DEF GiveUp, Exhausted
  <2>2. NothingLeft' /\ MarksAreDead' /\ OutcomesComplete' /\ OnlyEntered'
    BY <1>0, <1>8, <2>1, GivingUp, SameOutcomes, SameEdges
  <2> QED BY <1>0, <2>1, <2>2 DEF SearchInv, Searching, Unmarked, Least
<1>9. CASE UNCHANGED vars
  <2>1. UNCHANGED <<in, status, depth, stack, todo, winner, outcomes, edges, failure>>
    BY <1>9 DEF vars
  <2>2. \A p \in Seq(Node) : /\ Complete(p)' <=> Complete(p)
                             /\ OpenTrail(p)' <=> OpenTrail(p)
                             /\ Tried(p)' <=> Tried(p)
                             /\ Scanned(p)' <=> Scanned(p)
                             /\ Pending(p)' <=> Pending(p)
    BY <2>1, SamePaths DEF Tried, Scanned, Pending
  <2>3. Searching'
    BY <2>1, <2>2 DEF SearchInv, Searching, NoneSkipped, ShorterTried, InOrder
  <2>4. OutcomesComplete' /\ OnlyEntered'
    BY <2>1, SameOutcomes, SameEdges
  <2>5. Unmarked' /\ Least' /\ NothingLeft' /\ MarksAreDead'
    BY <2>1, <2>2 DEF SearchInv, Unmarked, Edge, Rule, Least, Before, NothingLeft,
                      MarksAreDead
  <2> QED BY <1>0, <2>3, <2>4, <2>5 DEF SearchInv
<1> QED
  BY <1>1, <1>2, <1>3, <1>4, <1>5, <1>6, <1>7, <1>8, <1>9 DEF Next

(* Every reachable state of the search satisfies the inductive invariant.  *)
THEOREM SearchInvariance == Spec => []SearchInv
BY SearchInitially, SearchInductive, PTL DEF Spec

(* WinnerIsLeast: of all complete paths the gates let pass, find selects   *)
(* the one of fewest certificates, and among those the least sequence of   *)
(* fingerprints, although it stops at the first one it meets.              *)
THEOREM SelectionIsLeast == Spec => []WinnerIsLeast
<1>1. ASSUME SearchInv PROVE WinnerIsLeast
  <2> SUFFICES ASSUME status = "accepted", in.leaf \notin in.anchors
               PROVE  /\ winner \in CompletePaths \ in.refused
                      /\ \A p \in CompletePaths \ in.refused : ~ Before(p, winner)
    BY DEF WinnerIsLeast
  <2>1. WinnerIsSound /\ Least /\ in \in Input
    BY <1>1 DEF SearchInv, Inv
  <2>2. /\ winner \in Seq(Node) /\ Simple(winner) /\ winner \notin in.refused
        /\ Len(winner) \in 2 .. MaxDepth + 1
        /\ winner[1] = in.leaf /\ winner[Len(winner)] \in in.anchors
        /\ \A i \in 1 .. Len(winner) - 1 :
              Admitted(winner, i) /\ winner[i] \notin in.anchors
    BY <2>1 DEF WinnerIsSound
  <2>3. Complete(winner)
    BY <2>2, SearchType DEF Complete, Trail
  <2>4. CompletePaths = {p \in Seq(Node) : Complete(p)}
    BY <2>1, CompletePathsAre
  <2> QED BY <2>1, <2>2, <2>3, <2>4 DEF Least
<1> QED
  BY SearchInvariance, <1>1, PTL

(* EveryPathRefused: a search that rejects has tried every complete path,  *)
(* and some gate has refused each of them.                                 *)
THEOREM RejectionIsComplete == Spec => []EveryPathRefused
<1>1. ASSUME SearchInv PROVE EveryPathRefused
  <2> SUFFICES ASSUME status = "rejected", ~ in.expired
               PROVE  Range(outcomes) = CompletePaths /\ CompletePaths \subseteq in.refused
    BY DEF EveryPathRefused
  <2>1. /\ NothingLeft /\ OutcomesComplete /\ OutcomesRefused /\ in \in Input
        /\ outcomes \in Seq(Seq(Node))
    BY <1>1 DEF SearchInv, Inv, TypeOK
  <2>2. CompletePaths = {p \in Seq(Node) : Complete(p)}
    BY <2>1, CompletePathsAre
  <2>3. \A p \in Seq(Node) : Complete(p) => Tried(p)
    BY <2>1 DEF NothingLeft
  <2>4. Range(outcomes) = {outcomes[k] : k \in 1 .. Len(outcomes)}
    BY <2>1, LenProperties DEF Range
  <2>5. \A k \in 1 .. Len(outcomes) :
           /\ outcomes[k] \in Seq(Node) /\ Complete(outcomes[k])
           /\ outcomes[k] \in in.refused
    BY <2>1, ElementOfSeq DEF OutcomesComplete, OutcomesRefused
  <2> QED BY <2>2, <2>3, <2>4, <2>5 DEF Tried
<1> QED
  BY SearchInvariance, <1>1, PTL

(* ProofCoversBranches: the edges of a rejection proof are exactly the     *)
(* candidate issuers of the certificates the leaf can be traced to.        *)
THEOREM RejectionProofCovers == Spec => []ProofCoversBranches
<1>1. ASSUME SearchInv PROVE ProofCoversBranches
  <2> SUFFICES ASSUME status = "rejected", ~ in.expired
               PROVE  edges = UNION {{c} \X in.cand[c] : c \in Entered}
    BY DEF ProofCoversBranches
  <2>1. NothingLeft /\ OnlyEntered /\ in \in Input /\ edges \subseteq Edge
    BY <1>1 DEF SearchInv, Inv, TypeOK
  <2>2. in.leaf \notin in.anchors
        /\ \A p \in Seq(Node) : OpenTrail(p) /\ Len(p) <= MaxDepth => Scanned(p)
    BY <2>1 DEF NothingLeft
  <2>3. Entered = Ends(MaxDepth)
    BY <2>1, <2>2, EnteredAre
  <2>4. ASSUME NEW e \in edges PROVE \E c \in Entered : e \in {c} \X in.cand[c]
    <3>1. e = <<e[1], e[2]>> /\ e[2] \in in.cand[e[1]] /\ e[1] \in Entered
      BY <2>1, <2>3 DEF OnlyEntered, Edge
    <3> QED BY <3>1
  <2>5. ASSUME NEW c \in Entered, NEW d \in in.cand[c] PROVE <<c, d>> \in edges
    <3>1. PICK p \in Seq(Node) : OpenTrail(p) /\ Len(p) <= MaxDepth /\ p[Len(p)] = c
      BY <2>3 DEF Ends
    <3> QED BY <2>2, <3>1 DEF Scanned
  <2> QED BY <2>4, <2>5
<1> QED
  BY SearchInvariance, <1>1, PTL

(* MarkedBranchesAreDead: an edge marked NO_PATH_TO_ANCHOR is on no        *)
(* complete path.                                                          *)
THEOREM MarksAreTrue == Spec => []MarkedBranchesAreDead
<1>1. ASSUME SearchInv PROVE MarkedBranchesAreDead
  <2> SUFFICES ASSUME status = "rejected", NEW p \in CompletePaths,
                      NEW i \in 1 .. MaxDepth, i < Len(p)
               PROVE  failure[<<p[i], p[i + 1]>>] # "NO_PATH_TO_ANCHOR"
    BY DEF MarkedBranchesAreDead
  <2>1. MarksAreDead /\ in \in Input
    BY <1>1 DEF SearchInv, Inv
  <2>2. p \in Seq(Node) /\ Complete(p)
    BY <2>1, CompletePathsAre
  <2>3. i \in 1 .. Len(p) - 1
    BY <2>2, LenProperties, SearchType
  <2> QED BY <2>1, <2>2, <2>3 DEF MarksAreDead
<1> QED
  BY SearchInvariance, <1>1, PTL
====
