--------------------------- MODULE PathFinderProofs ---------------------------
(***************************************************************************)
(* Proofs about PathFinder: for every graph, bound and outcome of the      *)
(* gates, what the search selects is a path the gates let pass.            *)
(***************************************************************************)
EXTENDS PathFinder, SequenceTheorems, WellFoundedInduction, TLAPS

(* A step of a path: an admitted edge to a certificate that may issue.     *)
Admitted(p, i) == p[i + 1] \in Parents(p[i]) \ in.unfit

(* What the selected path of a leaf that is no anchor has to be: from the  *)
(* leaf to an anchor, the first it meets, by admitted steps, without a     *)
(* loop, within the bound, and let pass by the gates.                      *)
WinnerIsSound ==
    (status = "accepted" /\ in.leaf \notin in.anchors) =>
        /\ winner \in Seq(Node) /\ Simple(winner)
        /\ Len(winner) \in 2 .. MaxDepth + 1
        /\ winner[1] = in.leaf /\ winner[Len(winner)] \in in.anchors
        /\ \A i \in 1 .. Len(winner) - 1 :
              Admitted(winner, i) /\ winner[i] \notin in.anchors
        /\ winner \notin in.refused

(* Only paths some gate refused are reported as such.                      *)
OutcomesRefused == \A k \in 1 .. Len(outcomes) : outcomes[k] \in in.refused

(* While the search runs its stack begins with the leaf and each of its    *)
(* steps is admitted and leads to no anchor.                               *)
Climbing ==
    status = "search" =>
        /\ Len(stack) >= 1
        /\ stack[1] = in.leaf
        /\ \A i \in 1 .. Len(stack) : stack[i] \notin in.anchors
        /\ \A i \in 1 .. Len(stack) - 1 : Admitted(stack, i)

Inv == /\ in \in Input
       /\ todo \in Seq(SUBSET Node)
       /\ TypeOK /\ Climbing /\ WinnerIsSound /\ OutcomesRefused

------------------------------------------------------------------------------
(* Sequences *)

LEMMA FrontOf ==
    ASSUME NEW S, NEW s \in Seq(S), Len(s) >= 1
    PROVE  /\ Front(s) \in Seq(S)
           /\ Len(Front(s)) = Len(s) - 1
           /\ \A i \in 1 .. Len(s) - 1 : Front(s)[i] = s[i]
           /\ Last(s) = s[Len(s)] /\ Last(s) \in S
<1>1. Len(s) \in Nat /\ Len(s) - 1 \in Int /\ \A i \in 1 .. Len(s) : s[i] \in S
  BY LenProperties, ElementOfSeq
<1>2. Front(s) = SubSeq(s, 1, Len(s) - 1) /\ Last(s) = s[Len(s)]
  BY DEF Front, Last
<1>3. \A i \in 1 .. Len(s) - 1 : s[i] \in S
  BY <1>1
<1>4. /\ SubSeq(s, 1, Len(s) - 1) \in Seq(S)
      /\ Len(SubSeq(s, 1, Len(s) - 1))
            = IF 1 <= Len(s) - 1 THEN Len(s) - 1 - 1 + 1 ELSE 0
      /\ \A i \in 1 .. Len(s) - 1 - 1 + 1 :
            SubSeq(s, 1, Len(s) - 1)[i] = s[1 + i - 1]
  BY <1>1, <1>3, SubSeqProperties
<1>5. Len(Front(s)) = Len(s) - 1
  <2> DEFINE n == Len(s)
  <2>1. n \in Nat /\ n >= 1
    BY <1>1
  <2>2. (IF 1 <= n - 1 THEN n - 1 - 1 + 1 ELSE 0) = n - 1
    <3> HIDE DEF n
    <3> QED BY <2>1
  <2> QED BY <1>2, <1>4, <2>2
<1>6. ASSUME NEW i \in 1 .. Len(s) - 1 PROVE Front(s)[i] = s[i]
  <2>1. i \in 1 .. Len(s) - 1 - 1 + 1 /\ 1 + i - 1 = i
    BY <1>1
  <2> QED BY <1>2, <1>4, <2>1
<1>7. Last(s) \in S
  BY <1>1, <1>2
<1> QED
  BY <1>2, <1>4, <1>5, <1>6, <1>7

(* The loop takes the smallest parent out of the last set, and leaves the  *)
(* others.                                                                 *)
LEMMA RestIs ==
    ASSUME NEW t \in Seq(SUBSET Node), Len(t) >= 1
    PROVE  /\ Rest(t) \in Seq(SUBSET Node)
           /\ Len(Rest(t)) = Len(t)
           /\ \A i \in 1 .. Len(t) - 1 : Rest(t)[i] = t[i]
           /\ Rest(t)[Len(t)] = t[Len(t)] \ {Smallest(t[Len(t)])}
<1> DEFINE last == Last(t) \ {Smallest(Last(t))}
<1>1. /\ Front(t) \in Seq(SUBSET Node) /\ Len(Front(t)) = Len(t) - 1
      /\ \A i \in 1 .. Len(t) - 1 : Front(t)[i] = t[i]
      /\ Last(t) = t[Len(t)] /\ Last(t) \in SUBSET Node
  BY FrontOf
<1>2. last \in SUBSET Node /\ last \subseteq t[Len(t)]
  BY <1>1
<1> HIDE DEF last
<1>3. Front(t) \o <<last>> \in Seq(SUBSET Node)
      /\ Len(Front(t) \o <<last>>) = Len(t)
      /\ \A i \in 1 .. Len(t) - 1 : (Front(t) \o <<last>>)[i] = t[i]
      /\ (Front(t) \o <<last>>)[Len(t)] = last
  <2>1. <<last>> \in Seq(SUBSET Node) /\ Len(<<last>>) = 1 /\ <<last>>[1] = last
    BY <1>2
  <2> DEFINE rest == Front(t) \o <<last>>
  <2>2. /\ rest \in Seq(SUBSET Node)
        /\ Len(rest) = Len(t) - 1 + 1
        /\ \A i \in 1 .. Len(t) - 1 + 1 :
              rest[i] = IF i <= Len(t) - 1 THEN Front(t)[i] ELSE <<last>>[i - (Len(t) - 1)]
    BY <1>1, <2>1, ConcatProperties
  <2> HIDE DEF rest
  <2>3. Len(t) \in Nat
    BY LenProperties
  <2>4. Len(rest) = Len(t) /\ \A i \in 1 .. Len(t) - 1 : rest[i] = t[i]
    <3>1. ASSUME NEW i \in 1 .. Len(t) - 1 PROVE rest[i] = t[i]
      <4>1. i \in 1 .. Len(t) - 1 + 1 /\ i <= Len(t) - 1
        BY <2>3
      <4> QED BY <1>1, <2>2, <4>1
    <3> QED BY <2>2, <2>3, <3>1
  <2>5. rest[Len(t)] = last
    <3>1. Len(t) \in 1 .. Len(t) - 1 + 1 /\ ~ (Len(t) <= Len(t) - 1)
          /\ Len(t) - (Len(t) - 1) = 1
      BY <2>3
    <3> QED BY <2>1, <2>2, <3>1
  <2> QED BY <2>2, <2>4, <2>5 DEF rest
<1>4. Rest(t) = Front(t) \o <<last>>
  BY DEF Rest, last
<1>5. last = t[Len(t)] \ {Smallest(t[Len(t)])}
  BY <1>1 DEF last
<1> QED
  BY <1>3, <1>4, <1>5

LEMMA RestOf ==
    ASSUME NEW t \in Seq(SUBSET Node), Len(t) >= 1
    PROVE  /\ Rest(t) \in Seq(SUBSET Node)
           /\ Len(Rest(t)) = Len(t)
           /\ \A i \in 1 .. Len(t) : Rest(t)[i] \subseteq t[i]
<1>1. \A i \in 1 .. Len(t) : i \in 1 .. Len(t) - 1 \/ i = Len(t)
  BY LenProperties
<1> QED
  BY <1>1, RestIs

(* The parents are visited in an order there is: fingerprints are ranks.   *)
LEMMA SmallestIn ==
    ASSUME NEW S \in SUBSET Nat, S # {}
    PROVE  Smallest(S) \in S /\ \A x \in S : Smallest(S) <= x
<1> DEFINE less == OpToRel(<, Nat)
<1>0. \A x, y \in Nat : y < x => <<y, x>> \in less
  BY DEF OpToRel
<1>1. IsWellFoundedOn(less, Nat)
  BY NatLessThanWellFounded
<1> HIDE DEF less
<1>2. PICK x \in S : \A y \in S : ~ (<<y, x>> \in less)
  BY <1>1, WFMin
<1>3. \A y \in S : x <= y
  <2> SUFFICES ASSUME NEW y \in S PROVE x <= y
    OBVIOUS
  <2>1. x \in Nat /\ y \in Nat
    OBVIOUS
  <2>2. ~ (y < x)
    BY <1>0, <1>2, <2>1
  <2> QED BY <2>1, <2>2
<1> QED
  BY <1>3 DEF Smallest

------------------------------------------------------------------------------
(* The state in which the loop of _dfs looks at its next parent.           *)
LEMMA AtParent ==
    ASSUME Inv, Visiting
    PROVE  /\ Len(stack) >= 1 /\ Len(todo) = Len(stack)
           /\ Parent \in Node
           /\ Parent \in Parents(stack[Len(stack)])
           /\ Step \in Edge
<1>1. Len(stack) >= 1 /\ Len(todo) = Len(stack) /\ todo \in Seq(SUBSET Node)
      /\ stack \in Seq(Node)
  BY DEF Inv, Visiting, Climbing, TypeOK
<1>2. Last(todo) = todo[Len(todo)] /\ Last(todo) \in SUBSET Node
      /\ Last(stack) = stack[Len(stack)] /\ Last(stack) \in Node
  BY <1>1, FrontOf
<1>3. Last(todo) \in SUBSET Nat /\ Last(todo) # {}
  BY <1>2, SearchType DEF Visiting
<1>4. Parent \in Last(todo)
  BY <1>3, SmallestIn DEF Parent
<1>5. todo[Len(todo)] \subseteq Parents(stack[Len(todo)])
  BY <1>1 DEF Inv, TypeOK
<1> QED
  BY <1>1, <1>2, <1>4, <1>5 DEF Step, Here, Edge

(* The path to the next parent, if that is not on the stack.               *)
LEMMA PathToParent ==
    ASSUME Inv, MayFollow
    PROVE  /\ Path \in Seq(Node) /\ Simple(Path)
           /\ Len(Path) = Len(stack) + 1
           /\ Path[1] = in.leaf /\ Path[Len(Path)] = Parent
           /\ \A i \in 1 .. Len(stack) : Path[i] = stack[i]
           /\ \A i \in 1 .. Len(Path) - 1 :
                 Admitted(Path, i) /\ Path[i] \notin in.anchors
<1>1. /\ Len(stack) >= 1 /\ Parent \in Node
      /\ Parent \in Parents(stack[Len(stack)]) \ in.unfit
      /\ stack \in Seq(Node) /\ Climbing /\ status = "search" /\ Simple(stack)
  BY AtParent DEF MayFollow, Inv, TypeOK, Visiting
<1>2. \A i \in 1 .. Len(stack) : stack[i] # Parent
  BY <1>1 DEF MayFollow, OnPath, Range
<1>3. /\ Path \in Seq(Node) /\ Len(Path) = Len(stack) + 1
      /\ \A i \in 1 .. Len(stack) : Path[i] = stack[i]
      /\ Path[Len(stack) + 1] = Parent
  BY <1>1 DEF Path
<1>4. Simple(Path)
  BY <1>1, <1>2, <1>3 DEF Simple
<1>5. \A i \in 1 .. Len(Path) - 1 : Admitted(Path, i) /\ Path[i] \notin in.anchors
  <2> SUFFICES ASSUME NEW i \in 1 .. Len(stack)
               PROVE  Admitted(Path, i) /\ Path[i] \notin in.anchors
    BY <1>1, <1>3
  <2>1. Path[i] = stack[i] /\ Path[i] \notin in.anchors
    BY <1>1, <1>3 DEF Climbing
  <2>2. CASE i = Len(stack)
    BY <1>1, <1>3, <2>1, <2>2 DEF Admitted
  <2>3. CASE i < Len(stack)
    <3>1. i + 1 \in 1 .. Len(stack) /\ i \in 1 .. Len(stack) - 1
      BY <1>1, <2>3
    <3>2. Path[i + 1] = stack[i + 1] /\ Admitted(stack, i)
      BY <1>1, <1>3, <3>1 DEF Climbing
    <3> QED BY <2>1, <3>2 DEF Admitted
  <2> QED BY <1>1, <2>2, <2>3
<1> QED
  BY <1>1, <1>3, <1>4, <1>5 DEF Climbing

LEMMA Initially == Init => Inv
<1> SUFFICES ASSUME Init PROVE Inv
  OBVIOUS
<1>1. TypeOK
  BY SearchType DEF Init, TypeOK, Simple
<1> QED
  BY <1>1 DEF Init, Inv, Climbing, WinnerIsSound, OutcomesRefused

(* A first call, for the leaf alone.                                       *)
LEMMA Beginning ==
    ASSUME Inv, NEW d \in 1 .. MaxDepth, Begin(d), in' = in, winner' = winner,
           outcomes' = outcomes, status' = "search", in.leaf \notin in.anchors
    PROVE  Inv'
<1>1. in.leaf \in Node /\ in.cand \in [Node -> SUBSET Node]
  BY InputType DEF Inv
<1>2. Parents(in.leaf) \in SUBSET Node
  BY <1>1 DEF Parents
<1>3. stack' = <<in.leaf>> /\ todo' = <<Parents(in.leaf)>> /\ depth' = d
      /\ edges' \subseteq Edge
  BY <1>1 DEF Begin, Scan, Edge, Inv, TypeOK
<1>4. Parents(in.leaf)' = Parents(in.leaf)
  BY DEF Parents, EdgeRule
<1>5. TypeOK'
  <2>1. depth' \in 0 .. MaxDepth /\ 1 <= depth'
    BY <1>3, SearchType
  <2>2. stack' \in Seq(Node) /\ Len(stack') = 1 /\ stack'[1] = in.leaf
        /\ Len(todo') = 1 /\ todo'[1] = Parents(in.leaf)
    BY <1>1, <1>3
  <2>3. Simple(stack)'
    BY <2>2 DEF Simple
  <2>4. \A i \in DOMAIN todo' : todo'[i] \subseteq Parents(stack[i])'
    BY <1>2, <1>3, <1>4, <2>2 DEF Parents, EdgeRule
  <2> QED BY <1>3, <2>1, <2>2, <2>3, <2>4 DEF TypeOK, Inv
<1>6. Climbing'
  BY <1>3, <1>1 DEF Climbing
<1> QED
  BY <1>2, <1>3, <1>5, <1>6 DEF Inv, WinnerIsSound, OutcomesRefused

(* The loop goes on: one parent fewer, and perhaps one refused path more.  *)
LEMMA Skipping ==
    ASSUME Inv, Visiting, Skip,
           \/ outcomes' = outcomes
           \/ /\ Path \in in.refused
              /\ Path \in Seq(Node)
              /\ outcomes' = Append(outcomes, Path)
    PROVE  Inv'
<1>1. Len(todo) >= 1 /\ todo \in Seq(SUBSET Node) /\ Len(todo) = Len(stack)
  BY AtParent DEF Inv
<1>2. /\ todo' \in Seq(SUBSET Node) /\ Len(todo') = Len(todo)
      /\ \A i \in 1 .. Len(todo) : todo'[i] \subseteq todo[i]
  BY <1>1, RestOf DEF Skip
<1>3. UNCHANGED <<in, status, depth, stack, winner, edges>>
  BY DEF Skip
<1>4. outcomes' \in Seq(Seq(Node))
      /\ \A k \in 1 .. Len(outcomes') : outcomes'[k] \in in.refused
  <2>1. outcomes \in Seq(Seq(Node))
        /\ \A k \in 1 .. Len(outcomes) : outcomes[k] \in in.refused
    BY DEF Inv, TypeOK, OutcomesRefused
  <2>2. CASE outcomes' = outcomes
    BY <2>1, <2>2
  <2>3. CASE Path \in in.refused /\ Path \in Seq(Node)
             /\ outcomes' = Append(outcomes, Path)
    <3>1. /\ outcomes' \in Seq(Seq(Node)) /\ Len(outcomes') = Len(outcomes) + 1
          /\ \A k \in 1 .. Len(outcomes) : outcomes'[k] = outcomes[k]
          /\ outcomes'[Len(outcomes) + 1] = Path
      BY <2>1, <2>3, AppendProperties
    <3>2. Len(outcomes) \in Nat
      BY <2>1, LenProperties
    <3>3. \A k \in 1 .. Len(outcomes') :
             k \in 1 .. Len(outcomes) \/ k = Len(outcomes) + 1
      BY <3>1, <3>2
    <3> QED BY <2>1, <2>3, <3>1, <3>3
  <2> QED BY <2>2, <2>3
<1>5. \A i \in DOMAIN todo' : todo'[i] \subseteq Parents(stack[i])'
  BY <1>1, <1>2, <1>3 DEF Inv, TypeOK, Parents, EdgeRule
<1>6. TypeOK'
  BY <1>1, <1>2, <1>3, <1>4, <1>5 DEF Inv, TypeOK, Simple
<1>7. Climbing' /\ WinnerIsSound'
  BY <1>3 DEF Inv, Climbing, WinnerIsSound, Admitted, Parents, EdgeRule, Simple
<1> QED
  BY <1>2, <1>3, <1>4, <1>6, <1>7 DEF Inv, OutcomesRefused

LEMMA Inductive == Inv /\ [Next]_vars => Inv'
<1> SUFFICES ASSUME Inv, [Next]_vars PROVE Inv'
  OBVIOUS
<1>1. CASE Start
  <2>1. CASE in.expired /\ status' = "rejected"
             /\ UNCHANGED <<in, depth, stack, todo, winner, edges, outcomes>>
    BY <2>1 DEF Inv, TypeOK, Climbing, WinnerIsSound, OutcomesRefused, Simple,
                Parents, EdgeRule
  <2>2. CASE /\ in.leaf \in in.anchors /\ status' = "accepted"
             /\ winner' = <<in.leaf>>
             /\ UNCHANGED <<in, depth, stack, todo, edges, outcomes>>
    <3>1. in.leaf \in Node
      BY InputType DEF Inv
    <3> QED
      BY <2>2, <3>1 DEF Inv, TypeOK, Climbing, WinnerIsSound, OutcomesRefused,
                        Simple, Parents, EdgeRule
  <2>3. CASE /\ in.leaf \notin in.anchors /\ status' = "search" /\ Begin(1)
             /\ UNCHANGED <<in, winner, outcomes>>
    <3>1. 1 \in 1 .. MaxDepth
      BY SearchType
    <3> QED BY <2>3, <3>1, Beginning
  <2> QED BY <1>1, <2>1, <2>2, <2>3 DEF Start
<1>2. CASE Loop \/ Unfit
  BY <1>2, Skipping DEF Loop, Unfit
<1>3. CASE Refuse
  <2>1. Path \in Seq(Node)
    BY <1>3, PathToParent DEF Refuse
  <2> QED BY <1>3, <2>1, Skipping DEF Refuse, MayFollow
<1>4. CASE Accept
  <2>1. UNCHANGED <<in, depth, stack, todo, outcomes, edges>>
        /\ winner' = Path /\ status' = "accepted"
    BY <1>4 DEF Accept
  <2>2. /\ Path \in Seq(Node) /\ Simple(Path) /\ Len(Path) = Len(stack) + 1
        /\ Path[1] = in.leaf /\ Path[Len(Path)] = Parent
        /\ \A i \in 1 .. Len(Path) - 1 :
              Admitted(Path, i) /\ Path[i] \notin in.anchors
    BY <1>4, PathToParent DEF Accept
  <2>3. Len(stack) \in 1 .. MaxDepth
    <3>1. Len(stack) >= 1
      BY <1>4, AtParent DEF Accept, MayFollow
    <3> QED BY <3>1, SearchType DEF Inv, TypeOK
  <2>4. TypeOK'
    BY <2>1, <2>2 DEF Inv, TypeOK, Simple, Parents, EdgeRule
  <2>5. WinnerIsSound'
    <3>1. Parent \in in.anchors /\ Path \notin in.refused
      BY <1>4 DEF Accept
    <3>2. Len(Path) \in 2 .. MaxDepth + 1
      BY <2>2, <2>3, SearchType
    <3>4. \A i \in 1 .. Len(winner') - 1 : Admitted(winner, i)'
      BY <2>1, <2>2 DEF Admitted, Parents, EdgeRule
    <3> QED BY <2>1, <2>2, <3>1, <3>2, <3>4 DEF WinnerIsSound, Simple
  <2> QED BY <2>1, <2>4, <2>5 DEF Inv, Climbing, OutcomesRefused
<1>5. CASE Descend
  <2>1. UNCHANGED <<in, status, depth, winner, outcomes>>
        /\ stack' = Path /\ todo' = Append(Rest(todo), Parents(Parent))
    BY <1>5 DEF Descend
  <2>2. /\ Path \in Seq(Node) /\ Simple(Path) /\ Len(Path) = Len(stack) + 1
        /\ Path[1] = in.leaf /\ Path[Len(Path)] = Parent
        /\ \A i \in 1 .. Len(stack) : Path[i] = stack[i]
        /\ \A i \in 1 .. Len(Path) - 1 :
              Admitted(Path, i) /\ Path[i] \notin in.anchors
    BY <1>5, PathToParent DEF Descend
  <2>3. /\ Len(stack) >= 1 /\ Parent \in Node /\ Parent \notin in.anchors
        /\ Len(todo) = Len(stack)
    BY <1>5, AtParent DEF Descend, MayFollow
  <2>4. in.cand \in [Node -> SUBSET Node] /\ Parents(Parent) \in SUBSET Node
    BY <2>3, InputType DEF Inv, Parents
  <2>5. /\ Rest(todo) \in Seq(SUBSET Node) /\ Len(Rest(todo)) = Len(stack)
        /\ \A i \in 1 .. Len(stack) : Rest(todo)[i] \subseteq todo[i]
    BY <2>3, RestOf DEF Inv
  <2>6. /\ todo' \in Seq(SUBSET Node) /\ Len(todo') = Len(stack) + 1
        /\ \A i \in 1 .. Len(stack) : todo'[i] = Rest(todo)[i]
        /\ todo'[Len(stack) + 1] = Parents(Parent)
    BY <2>1, <2>3, <2>4, <2>5
  <2>7. \A i \in 1 .. Len(stack) : todo[i] \subseteq Parents(stack[i])
    <3>1. DOMAIN todo = 1 .. Len(stack)
      BY <2>3, LenProperties DEF Inv
    <3> QED BY <3>1 DEF Inv, TypeOK
  <2>8. \A i \in DOMAIN todo' : todo'[i] \subseteq Parents(stack'[i])
    BY <2>1, <2>2, <2>5, <2>6, <2>7
  <2>9. \A i \in DOMAIN todo' : todo'[i] \subseteq Parents(stack[i])'
    BY <2>1, <2>8 DEF Parents, EdgeRule
  <2>10. edges' \subseteq Edge
    BY <1>5, <2>3, <2>4 DEF Descend, Scan, Inv, TypeOK, Edge
  <2>11. Len(Path) <= depth
    BY <1>5, <2>2 DEF Descend, Remaining, Inv, TypeOK
  <2>12. TypeOK'
    BY <2>1, <2>2, <2>6, <2>9, <2>10, <2>11 DEF Inv, TypeOK, Simple
  <2>13. Climbing'
    <3>1. \A i \in 1 .. Len(Path) - 1 : Admitted(stack, i)'
      BY <2>1, <2>2 DEF Admitted, Parents, EdgeRule
    <3>2. \A i \in 1 .. Len(Path) : Path[i] \notin in.anchors
      BY <2>2, <2>3
    <3> QED BY <2>1, <2>2, <2>3, <3>1, <3>2 DEF Climbing
  <2>14. WinnerIsSound' /\ OutcomesRefused'
    BY <2>1 DEF Inv, WinnerIsSound, OutcomesRefused, Admitted, Parents, EdgeRule,
                Simple
  <2> QED BY <2>1, <2>6, <2>12, <2>13, <2>14 DEF Inv
<1>6. CASE CutOff
  BY <1>6, Skipping DEF CutOff, MayFollow
<1>7. CASE Return
  <2>1. /\ UNCHANGED <<in, status, depth, winner, outcomes, edges>>
        /\ stack' = Front(stack) /\ todo' = Front(todo) /\ Len(stack) > 1
        /\ status = "search"
    BY <1>7 DEF Return, Exhausted
  <2>2. stack \in Seq(Node) /\ todo \in Seq(SUBSET Node) /\ Len(todo) = Len(stack)
    BY DEF Inv, TypeOK
  <2>a. /\ Len(stack) \in Nat /\ Len(stack) >= 1 /\ Len(todo) >= 1
        /\ DOMAIN todo = 1 .. Len(stack) /\ DOMAIN stack = 1 .. Len(stack)
    BY <2>1, <2>2, LenProperties
  <2>3. /\ stack' \in Seq(Node) /\ Len(stack') = Len(stack) - 1
        /\ \A i \in 1 .. Len(stack) - 1 : stack'[i] = stack[i]
    BY <2>1, <2>2, <2>a, FrontOf
  <2>4. /\ todo' \in Seq(SUBSET Node) /\ Len(todo') = Len(stack) - 1
        /\ \A i \in 1 .. Len(stack) - 1 : todo'[i] = todo[i]
    BY <2>1, <2>2, <2>a, FrontOf
  <2>5. \A i \in DOMAIN todo' : todo'[i] \subseteq Parents(stack'[i])
    <3>1. DOMAIN todo' = 1 .. Len(stack) - 1
      BY <2>4, LenProperties
    <3>2. \A i \in 1 .. Len(stack) - 1 : i \in DOMAIN todo
      BY <2>a
    <3> QED BY <2>3, <2>4, <3>1, <3>2 DEF Inv, TypeOK
  <2>6. \A i \in DOMAIN todo' : todo'[i] \subseteq Parents(stack[i])'
    BY <2>1, <2>5 DEF Parents, EdgeRule
  <2>7. Simple(stack)'
    <3>1. DOMAIN stack' = 1 .. Len(stack) - 1
      BY <2>3, LenProperties
    <3>2. \A i \in 1 .. Len(stack) - 1 : i \in DOMAIN stack
      BY <2>a
    <3> QED BY <2>3, <3>1, <3>2 DEF Inv, TypeOK, Simple
  <2>8. TypeOK'
    BY <2>1, <2>2, <2>3, <2>4, <2>6, <2>7 DEF Inv, TypeOK
  <2>9. \A i \in 1 .. Len(stack') - 1 : Admitted(stack, i)'
    <3> SUFFICES ASSUME NEW i \in 1 .. Len(stack') - 1
                 PROVE  Admitted(stack, i)'
      OBVIOUS
    <3>1. stack'[i] = stack[i] /\ stack'[i + 1] = stack[i + 1] /\ Admitted(stack, i)
      BY <2>1, <2>2, <2>3 DEF Inv, Climbing
    <3> QED BY <2>1, <3>1 DEF Admitted, Parents, EdgeRule
  <2>10. Climbing'
    BY <2>1, <2>2, <2>3, <2>9 DEF Inv, Climbing
  <2>11. WinnerIsSound' /\ OutcomesRefused'
    BY <2>1 DEF Inv, WinnerIsSound, OutcomesRefused, Admitted, Parents, EdgeRule,
                Simple
  <2> QED BY <2>1, <2>4, <2>8, <2>10, <2>11 DEF Inv
<1>8. CASE Deepen
  <2>1. depth + 1 \in 1 .. MaxDepth
    BY <1>8, SearchType DEF Deepen, Inv, TypeOK
  <2>2. status = "search" /\ in.leaf \notin in.anchors
    BY <1>8 DEF Deepen, Exhausted, Inv, Climbing
  <2> QED BY <1>8, <2>1, <2>2, Beginning DEF Deepen
<1>9. CASE GiveUp
  <2>1. UNCHANGED <<in, depth, stack, todo, winner, outcomes, edges>>
        /\ status' = "rejected"
    BY <1>9 DEF GiveUp
  <2> QED
    BY <2>1 DEF Inv, TypeOK, Climbing, WinnerIsSound, OutcomesRefused, Simple,
                Parents, EdgeRule
<1>10. CASE UNCHANGED vars
  BY <1>10 DEF vars, Inv, TypeOK, Climbing, WinnerIsSound, OutcomesRefused,
               Simple, Parents, EdgeRule, Admitted
<1> QED
  BY <1>1, <1>2, <1>3, <1>4, <1>5, <1>6, <1>7, <1>8, <1>9, <1>10 DEF Next

(* Every reachable state of the search satisfies the inductive invariant.  *)
THEOREM Invariance == Spec => []Inv
BY Initially, Inductive, PTL DEF Spec

(* TypeOK: the stack is a simple path of admitted edges within the bound,  *)
(* and every call on it has only admitted parents left.                    *)
THEOREM TypeCorrect == Spec => []TypeOK
<1>1. Inv => TypeOK
  BY DEF Inv
<1> QED
  BY Invariance, <1>1, PTL

(* WinnerIsSound: find accepts only a path from the leaf to an anchor that *)
(* the edges, the issuers and every whole-path gate allow, however the     *)
(* certificates refer to each other.                                       *)
THEOREM AcceptedPathIsSound == Spec => []WinnerIsSound
<1>1. Inv => WinnerIsSound
  BY DEF Inv
<1> QED
  BY Invariance, <1>1, PTL

(* OutcomesRefused: the path failures of a rejection proof are paths some  *)
(* gate refused.                                                           *)
THEOREM FailuresAreRefusals == Spec => []OutcomesRefused
<1>1. Inv => OutcomesRefused
  BY DEF Inv
<1> QED
  BY Invariance, <1>1, PTL
==============================================================================
