----------------------------- MODULE PackageProofs -----------------------------
(***************************************************************************)
(* Proofs about Package: the verifier finds the result of the service.     *)
(*                                                                         *)
(* The search is deterministic: what it does next is a function (Move) of  *)
(* the input and of what it has found so far.  The service's moves, from   *)
(* the first to the last, are kept as a sequence; each move of the         *)
(* verifier is the next one of that sequence, because a move looks at the  *)
(* candidates of one certificate only, and these are among the edges and   *)
(* the problems of the final result, hence in the package.                 *)
(***************************************************************************)
EXTENDS Package, PathFinderProofs

(* What the search has found so far. *)
Rec == [status |-> status, depth |-> depth, stack |-> stack, todo |-> todo,
        winner |-> winner, outcomes |-> outcomes, edges |-> edges,
        failure |-> failure, problems |-> problems, early |-> early]

First(i) ==
    [status |-> "start", depth |-> 0, stack |-> << >>, todo |-> << >>,
     winner |-> << >>, outcomes |-> << >>, edges |-> {},
     failure |-> [e \in Edge |-> None],
     problems |-> IF i.indexed THEN {}
                  ELSE Noting({}, "certificate", Unparsable, Number),
     early |-> FALSE]

Final(x) == x.early \/ x.status \in {"accepted", "rejected"}

------------------------------------------------------------------------------
(* The moves of the search as a function of the input i *)

RuleIn(i, e) ==
    IF e \in i.misnamed THEN "ISSUER_NAME_KEY"
    ELSE IF e \in i.missigned THEN "SIGNATURE"
    ELSE None

ParentsIn(i, n) == {ip \in i.cand[n] : RuleIn(i, <<n, ip>>) = None}

ReachingIn(i, E) ==
    LET Near[n \in 0 .. Cardinality(Node)] ==
          IF n = 0 THEN i.anchors
          ELSE LET nearer == Near[n - 1]
               IN nearer \cup {c \in Node : Upward(E, c) \cap nearer # {}}
    IN Near[Cardinality(Node)]

ScanEdges(i, x, n) == x.edges \cup ({n} \X i.cand[n])

ScanFailure(i, x, n) ==
    [e \in Edge |-> IF x.failure[e] = None /\ e \in {n} \X i.cand[n]
                      THEN RuleIn(i, e) ELSE x.failure[e]]

NoteFailure(x, e, rule) ==
    [x.failure EXCEPT ![e] = IF @ = None THEN rule ELSE @]

Begun(i, x, d) ==
    [status |-> "search", depth |-> d, stack |-> <<i.leaf>>,
     todo |-> <<ParentsIn(i, i.leaf)>>, winner |-> x.winner,
     outcomes |-> x.outcomes, edges |-> ScanEdges(i, x, i.leaf),
     failure |-> ScanFailure(i, x, i.leaf),
     problems |-> x.problems, early |-> x.early]

Started(i, x) ==
    IF i.forged THEN [x EXCEPT !.early = TRUE]
    ELSE IF i.expired THEN [x EXCEPT !.status = "rejected"]
    ELSE IF i.leaf \in i.anchors
      THEN [x EXCEPT !.status = "accepted", !.winner = <<i.leaf>>]
    ELSE Begun(i, x, 1)

Visited(i, x) ==
    LET ip == Smallest(Last(x.todo))
        e == <<Last(x.stack), ip>>
        path == Append(x.stack, ip)
        rest == Rest(x.todo)
    IN IF ip \in Range(x.stack)
         THEN [x EXCEPT !.failure = NoteFailure(x, e, "LOOP"), !.todo = rest]
       ELSE IF ip \in i.unfit
         THEN [x EXCEPT !.failure = NoteFailure(x, e, "INTRINSIC"), !.todo = rest]
       ELSE IF ip \in i.anchors /\ path \in i.refused
         THEN [x EXCEPT !.failure = NoteFailure(x, e, "PATH_LEVEL"), !.todo = rest,
                        !.outcomes = Append(x.outcomes, path)]
       ELSE IF ip \in i.anchors
         THEN [x EXCEPT !.winner = path, !.status = "accepted"]
       ELSE IF x.depth - (Len(x.stack) - 1) > 1
         THEN [x EXCEPT !.stack = path, !.todo = Append(rest, ParentsIn(i, ip)),
                        !.edges = ScanEdges(i, x, ip),
                        !.failure = ScanFailure(i, x, ip)]
       ELSE [x EXCEPT !.todo = rest]

GivenUp(i, x) ==
    [x EXCEPT !.status = "rejected",
              !.failure = [e \in Edge |->
                 IF /\ e \in x.edges
                    /\ x.failure[e] = None
                    /\ RuleIn(i, e) = None
                    /\ e[2] \notin ReachingIn(i, x.edges)
                   THEN "NO_PATH_TO_ANCHOR" ELSE x.failure[e]]]

Left(i, x) ==
    IF Len(x.stack) > 1
      THEN [x EXCEPT !.stack = Front(x.stack), !.todo = Front(x.todo)]
    ELSE IF x.depth < MaxDepth THEN Begun(i, x, x.depth + 1)
    ELSE GivenUp(i, x)

Moved(i, x) ==
    IF x.status = "start" THEN Started(i, x)
    ELSE IF Last(x.todo) # {} THEN Visited(i, x)
    ELSE Left(i, x)

(* The list before the lookups of a move, and after them.                  *)
Beforehand(i, x) ==
    IF x.status = "start" /\ ~ i.forged
      THEN Noting(Noting(x.problems, "crl", i.refusedCrls, Number),
                  "ocsp", i.refusedOcsps, Number)
      ELSE x.problems

More(i, x, path) ==
    IF path = << >> THEN Beforehand(i, x)
    ELSE Noting(Beforehand(i, x), "certificate", i.refusedCand[Last(path)], Number)

Move(i, x) == [Moved(i, x) EXCEPT !.problems = More(i, x, Moved(i, x).stack)]

------------------------------------------------------------------------------
(* What Noting does to a list *)

LEMMA NotingGrows ==
    ASSUME NEW list, NEW kind, NEW C, NEW rank
    PROVE  list \subseteq Noting(list, kind, C, rank)
  BY DEF Noting

(* The entries of a list in which C was noted.                             *)
With(list, kind, C) == Listed(list) \cup ({kind} \X C)

LEMMA NotingLists ==
    ASSUME NEW list, NEW kind, NEW C, C \in SUBSET Nat
    PROVE  Listed(Noting(list, kind, C, Number)) = With(list, kind, C)
  <1> DEFINE new == {entry \in {kind} \X C : entry \notin Listed(list)}
             noted == Noting(list, kind, C, Number)
  <1>1. noted = list \cup (Listed(list) \X new)
                     \cup {pair \in new \X new :
                             Number[pair[1][2]] =< Number[pair[2][2]]}
    BY DEF Noting
  <1>2. ASSUME NEW entry \in Listed(noted)
        PROVE  entry \in Listed(list) \cup ({kind} \X C)
    BY <1>1 DEF Listed
  <1>3. ASSUME NEW entry \in Listed(list)
        PROVE  entry \in Listed(noted)
    BY <1>1 DEF Listed
  <1>4. ASSUME NEW entry \in new
        PROVE  entry \in Listed(noted)
    <2>1. entry[2] \in Nat
      OBVIOUS
    <2>2. Number[entry[2]] =< Number[entry[2]]
      BY <2>1 DEF Number
    <2>3. <<entry, entry>> \in {pair \in new \X new :
                                  Number[pair[1][2]] =< Number[pair[2][2]]}
      BY <2>2
    <2>4. <<entry, entry>> \in noted
      BY <1>1, <2>3
    <2> HIDE DEF noted
    <2> QED
      BY <2>4 DEF Listed
  <1> HIDE DEF noted
  <1>5. Listed(noted) = Listed(list) \cup ({kind} \X C)
    BY <1>2, <1>3, <1>4
  <1> QED
    BY <1>5 DEF noted, With

(* What is listed already is not listed again.                             *)
LEMMA NotingAgain ==
    ASSUME NEW list, NEW kind, NEW C, {kind} \X C \subseteq Listed(list), NEW rank
    PROVE  Noting(list, kind, C, rank) = list
  <1>1. {entry \in {kind} \X C : entry \notin Listed(list)} = {}
    OBVIOUS
  <1> QED
    BY <1>1 DEF Noting

LEMMA NotingNone ==
    ASSUME NEW list, NEW kind, NEW rank
    PROVE  Noting(list, kind, {}, rank) = list
  <1>1. {kind} \X {} \subseteq Listed(list)
    OBVIOUS
  <1> QED
    BY <1>1, NotingAgain

LEMMA BeforeGrows ==
    ASSUME NEW i, NEW x
    PROVE  x.problems \subseteq Beforehand(i, x)
  <1> DEFINE crls == Noting(x.problems, "crl", i.refusedCrls, Number)
  <1>1. x.problems \subseteq crls
    BY NotingGrows
  <1>2. crls \subseteq Noting(crls, "ocsp", i.refusedOcsps, Number)
    BY NotingGrows
  <1> HIDE DEF crls
  <1>3. x.problems \subseteq Noting(crls, "ocsp", i.refusedOcsps, Number)
    BY <1>1, <1>2
  <1> QED
    BY <1>3 DEF Beforehand, crls

LEMMA MoreGrows ==
    ASSUME NEW i, NEW x, NEW path
    PROVE  x.problems \subseteq More(i, x, path)
  <1>1. x.problems \subseteq Beforehand(i, x)
    BY BeforeGrows
  <1>2. Beforehand(i, x) \subseteq
           Noting(Beforehand(i, x), "certificate", i.refusedCand[Last(path)], Number)
    BY NotingGrows
  <1> QED
    BY <1>1, <1>2 DEF More

LEMMA BeforeLists ==
    ASSUME NEW i \in Input, NEW x
    PROVE  Listed(Beforehand(i, x)) =
              Listed(x.problems) \cup
                 (IF x.status = "start" /\ ~ i.forged
                    THEN ({"crl"} \X i.refusedCrls) \cup ({"ocsp"} \X i.refusedOcsps)
                    ELSE {})
  <1> DEFINE crls == Noting(x.problems, "crl", i.refusedCrls, Number)
             ocsps == Noting(crls, "ocsp", i.refusedOcsps, Number)
  <1>1. i.refusedCrls \in SUBSET Nat /\ i.refusedOcsps \in SUBSET Nat
    BY PackageType
  <1>2. Listed(crls) = With(x.problems, "crl", i.refusedCrls)
    BY <1>1, NotingLists
  <1> HIDE DEF crls
  <1>3. Listed(ocsps) = With(crls, "ocsp", i.refusedOcsps)
    BY <1>1, NotingLists
  <1>4. Beforehand(i, x) = IF x.status = "start" /\ ~ i.forged THEN ocsps ELSE x.problems
    BY DEF Beforehand, crls
  <1> HIDE DEF ocsps
  <1> QED
    BY <1>2, <1>3, <1>4 DEF With

LEMMA MoreLists ==
    ASSUME NEW i \in Input, NEW x, NEW path,
           path # << >> => Last(path) \in Node
    PROVE  Listed(More(i, x, path)) =
              Listed(Beforehand(i, x)) \cup
                 (IF path = << >> THEN {}
                  ELSE {"certificate"} \X i.refusedCand[Last(path)])
  <1>1. CASE path = << >>
    BY <1>1 DEF More
  <1>2. CASE path # << >>
    <2> DEFINE C == i.refusedCand[Last(path)]
               list == Beforehand(i, x)
    <2>1. C \in SUBSET Nat
      BY <1>2, PackageType
    <2> HIDE DEF C, list
    <2>2. Listed(Noting(list, "certificate", C, Number)) = With(list, "certificate", C)
      BY <2>1, NotingLists
    <2>3. More(i, x, path) = Noting(list, "certificate", C, Number)
      BY <1>2 DEF More, C, list
    <2> QED
      BY <1>2, <2>2, <2>3 DEF C, list, With
  <1> QED
    BY <1>1, <1>2

------------------------------------------------------------------------------
(* Every step of Search or EarlyReject is that move. *)

LEMMA OperatorsIn ==
    /\ \A e : EdgeRule(e) = RuleIn(in, e)
    /\ \A n : Parents(n) = ParentsIn(in, n)
    /\ \A E : Reaching(E) = ReachingIn(in, E)
  <1>1. \A e : EdgeRule(e) = RuleIn(in, e)
    BY DEF EdgeRule, RuleIn
  <1>2. \A n : Parents(n) = ParentsIn(in, n)
    BY <1>1 DEF Parents, ParentsIn
  <1>3. \A E : Reaching(E) = ReachingIn(in, E)
    BY DEF Reaching, ReachingIn
  <1> QED
    BY <1>1, <1>2, <1>3

Pending ==
    /\ status = "start" => stack = << >>
    /\ early => status = "start" /\ in.forged

(* The record after a step, but for the problems it may add.               *)
Next0 == [status |-> status', depth |-> depth', stack |-> stack',
          todo |-> todo', winner |-> winner', outcomes |-> outcomes',
          edges |-> edges', failure |-> failure', problems |-> problems,
          early |-> early]

LEMMA NextIsMoved ==
    ASSUME Next, status = "start" => ~ in.forged
    PROVE  Moved(in, Rec) = Next0 /\ in' = in
  <1> DEFINE x == Rec
  <1>0. /\ x.status = status /\ x.depth = depth /\ x.stack = stack
        /\ x.todo = todo /\ x.winner = winner /\ x.outcomes = outcomes
        /\ x.edges = edges /\ x.failure = failure /\ x.problems = problems
        /\ x.early = early
    BY DEF Rec
  <1>a. ASSUME NEW n, Scan(n)
        PROVE  edges' = ScanEdges(in, x, n) /\ failure' = ScanFailure(in, x, n)
    BY <1>a, OperatorsIn DEF Scan, ScanEdges, ScanFailure, Rec
  <1>b. ASSUME NEW e, NEW rule, Note(e, rule)
        PROVE  failure' = NoteFailure(x, e, rule)
    BY <1>b DEF Note, NoteFailure, Rec
  <1>c. ASSUME NEW d, Begin(d), status' = "search", UNCHANGED <<winner, outcomes>>
        PROVE  Begun(in, x, d) = Next0
    <2>1. edges' = ScanEdges(in, x, in.leaf) /\ failure' = ScanFailure(in, x, in.leaf)
      BY <1>a, <1>c DEF Begin
    <2>2. todo' = <<ParentsIn(in, in.leaf)>>
      BY <1>c, OperatorsIn DEF Begin
    <2>3. depth' = d /\ stack' = <<in.leaf>>
      BY <1>c DEF Begin
    <2> HIDE DEF x
    <2> QED
      BY <1>0, <1>c, <2>1, <2>2, <2>3 DEF Begun, Next0
  <1>1. CASE Start
    <2>1. x.status = "start" /\ ~ in.forged /\ in' = in
      BY <1>1, <1>0 DEF Start
    <2>2. Moved(in, x) = IF in.expired THEN [x EXCEPT !.status = "rejected"]
                         ELSE IF in.leaf \in in.anchors
                           THEN [x EXCEPT !.status = "accepted", !.winner = <<in.leaf>>]
                         ELSE Begun(in, x, 1)
      BY <2>1 DEF Moved, Started
    <2>3. CASE in.expired
      BY <1>1, <2>1, <2>2, <2>3 DEF Start, Next0, Rec
    <2>4. CASE ~ in.expired /\ in.leaf \in in.anchors
      BY <1>1, <2>1, <2>2, <2>4 DEF Start, Next0, Rec
    <2>5. CASE ~ in.expired /\ in.leaf \notin in.anchors
      BY <1>1, <1>c, <2>1, <2>2, <2>5 DEF Start
    <2> QED
      BY <2>3, <2>4, <2>5
  <1> DEFINE ip == Smallest(Last(x.todo))
             e == <<Last(x.stack), ip>>
             path == Append(x.stack, ip)
             rest == Rest(x.todo)
  <1>2. /\ Parent = ip /\ Step = e /\ Path = path /\ Rest(todo) = rest
    BY <1>0 DEF Parent, Step, Here, Path
  <1>3. ASSUME Visiting
        PROVE  /\ x.status = "search"
               /\ Moved(in, x) = Visited(in, x)
    BY <1>3, <1>0 DEF Visiting, Moved
  <1>4. Visited(in, x) =
         IF ip \in Range(x.stack)
           THEN [x EXCEPT !.failure = NoteFailure(x, e, "LOOP"), !.todo = rest]
         ELSE IF ip \in in.unfit
           THEN [x EXCEPT !.failure = NoteFailure(x, e, "INTRINSIC"), !.todo = rest]
         ELSE IF ip \in in.anchors /\ path \in in.refused
           THEN [x EXCEPT !.failure = NoteFailure(x, e, "PATH_LEVEL"), !.todo = rest,
                          !.outcomes = Append(x.outcomes, path)]
         ELSE IF ip \in in.anchors
           THEN [x EXCEPT !.winner = path, !.status = "accepted"]
         ELSE IF x.depth - (Len(x.stack) - 1) > 1
           THEN [x EXCEPT !.stack = path, !.todo = Append(rest, ParentsIn(in, ip)),
                          !.edges = ScanEdges(in, x, ip),
                          !.failure = ScanFailure(in, x, ip)]
         ELSE [x EXCEPT !.todo = rest]
    BY DEF Visited
  <1> HIDE DEF ip, e, path, rest
  <1>5. CASE Loop
    <2>1. /\ failure' = NoteFailure(x, e, "LOOP") /\ todo' = rest
          /\ UNCHANGED <<in, status, depth, stack, winner, edges, outcomes>>
          /\ ip \in Range(x.stack)
      BY <1>5, <1>0, <1>2, <1>b DEF Loop, Skip, OnPath
    <2> QED
      BY <1>5, <1>3, <1>4, <2>1 DEF Loop, Next0, Rec
  <1>6. CASE Unfit
    <2>1. /\ failure' = NoteFailure(x, e, "INTRINSIC") /\ todo' = rest
          /\ UNCHANGED <<in, status, depth, stack, winner, edges, outcomes>>
          /\ ip \notin Range(x.stack) /\ ip \in in.unfit
      BY <1>6, <1>0, <1>2, <1>b DEF Unfit, Skip, OnPath
    <2> QED
      BY <1>6, <1>3, <1>4, <2>1 DEF Unfit, Next0, Rec
  <1>7. ASSUME MayFollow
        PROVE  /\ ip \notin Range(x.stack) /\ ip \notin in.unfit
               /\ Visiting
    BY <1>7, <1>0, <1>2 DEF MayFollow, OnPath
  <1>8. CASE Refuse
    <2>1. /\ failure' = NoteFailure(x, e, "PATH_LEVEL") /\ todo' = rest
          /\ outcomes' = Append(x.outcomes, path)
          /\ UNCHANGED <<in, status, depth, stack, winner, edges>>
          /\ ip \in in.anchors /\ path \in in.refused
      BY <1>8, <1>0, <1>2, <1>b DEF Refuse, Skip
    <2> QED
      BY <1>8, <1>3, <1>4, <1>7, <2>1 DEF Refuse, Next0, Rec
  <1>9. CASE Accept
    <2>1. /\ winner' = path /\ status' = "accepted"
          /\ UNCHANGED <<in, depth, stack, todo, outcomes, edges, failure>>
          /\ ip \in in.anchors /\ path \notin in.refused
      BY <1>9, <1>0, <1>2 DEF Accept
    <2> QED
      BY <1>9, <1>3, <1>4, <1>7, <2>1 DEF Accept, Next0, Rec
  <1>10. CASE Descend
    <2>1. /\ stack' = path /\ todo' = Append(rest, ParentsIn(in, ip))
          /\ edges' = ScanEdges(in, x, ip) /\ failure' = ScanFailure(in, x, ip)
          /\ UNCHANGED <<in, status, depth, winner, outcomes>>
          /\ ip \notin in.anchors /\ x.depth - (Len(x.stack) - 1) > 1
      BY <1>10, <1>0, <1>2, <1>a, OperatorsIn DEF Descend, Remaining
    <2> QED
      BY <1>10, <1>3, <1>4, <1>7, <2>1 DEF Descend, Next0, Rec
  <1>11. CASE CutOff
    <2>1. /\ todo' = rest
          /\ UNCHANGED <<in, status, depth, stack, winner, edges, outcomes, failure>>
          /\ ip \notin in.anchors /\ ~ (x.depth - (Len(x.stack) - 1) > 1)
      BY <1>11, <1>0, <1>2 DEF CutOff, Skip, Remaining
    <2> QED
      BY <1>11, <1>3, <1>4, <1>7, <2>1 DEF CutOff, Next0, Rec
  <1>12. ASSUME Exhausted
         PROVE  Moved(in, x) = Left(in, x)
    BY <1>12, <1>0 DEF Exhausted, Moved
  <1>13. CASE Return
    BY <1>13, <1>12, <1>0 DEF Return, Left, Next0, Rec
  <1>14. CASE Deepen
    <2>1. /\ Begin(depth + 1) /\ status' = "search" /\ in' = in
          /\ UNCHANGED <<winner, outcomes>>
      BY <1>14 DEF Deepen, Exhausted
    <2>2. Left(in, x) = Begun(in, x, depth + 1)
      <3>1. Len(x.stack) = 1 /\ x.depth = depth /\ depth < MaxDepth
        BY <1>14, <1>0 DEF Deepen
      <3>2. ~ (Len(x.stack) > 1)
        BY <3>1
      <3> HIDE DEF x
      <3> QED
        BY <3>1, <3>2 DEF Left
    <2> QED
      BY <1>14, <1>12, <1>c, <2>1, <2>2 DEF Deepen
  <1>15. CASE GiveUp
    <2>1. Left(in, x) = GivenUp(in, x)
      <3>1. Len(x.stack) = 1 /\ x.depth = MaxDepth
        BY <1>15, <1>0 DEF GiveUp
      <3>2. ~ (Len(x.stack) > 1) /\ ~ (x.depth < MaxDepth)
        BY <3>1, SearchType
      <3> HIDE DEF x
      <3> QED
        BY <3>2 DEF Left
    <2>2. /\ status' = "rejected"
          /\ failure' = [f \in Edge |->
                 IF /\ f \in x.edges
                    /\ x.failure[f] = None
                    /\ RuleIn(in, f) = None
                    /\ f[2] \notin ReachingIn(in, x.edges)
                   THEN "NO_PATH_TO_ANCHOR" ELSE x.failure[f]]
          /\ UNCHANGED <<in, depth, stack, todo, winner, outcomes, edges>>
      BY <1>15, <1>0, OperatorsIn DEF GiveUp
    <2> QED
      BY <1>15, <1>12, <2>1, <2>2 DEF GiveUp, GivenUp, Next0, Rec
  <1> QED
    BY <1>1, <1>5, <1>6, <1>8, <1>9, <1>10, <1>11, <1>13, <1>14, <1>15 DEF Next

LEMMA StepIsMove ==
    ASSUME Pending, Search \/ EarlyReject
    PROVE  /\ Rec' = Move(in, Rec) /\ in' = in
           /\ ~ Final(Rec)
           /\ Pending'
           /\ UNCHANGED <<mode, result, bundle>>
  <1>1. CASE Search
    <2>1. Moved(in, Rec) = Next0 /\ in' = in
      BY <1>1, NextIsMoved DEF Search
    <2>2. Next0.stack = stack' /\ Rec.problems = problems
      BY DEF Next0, Rec
    <2>3. problems' = More(in, Rec, stack')
      <3>1. Rec.status = status /\ (status = "start" => ~ in.forged)
        BY <1>1 DEF Search, Rec
      <3>2. Beforehand(in, Rec) = IF status = "start" THEN Loaded ELSE problems
        BY <2>2, <3>1 DEF Beforehand, Loaded
      <3>3. problems' =
              LET before == IF status = "start" THEN Loaded ELSE problems IN
              IF stack' = << >> THEN before
              ELSE Noting(before, "certificate", in.refusedCand[Last(stack')], Number)
        BY <1>1 DEF Search
      <3> QED
        BY <3>2, <3>3 DEF More
    <2>4. early' = early
      BY <1>1 DEF Search
    <2>5. Move(in, Rec) = [Next0 EXCEPT !.problems = More(in, Rec, stack')]
      BY <2>1, <2>2 DEF Move
    <2>6. Rec' = Move(in, Rec)
      <3> DEFINE more == More(in, Rec, stack')
      <3> HIDE DEF more
      <3>1. [Next0 EXCEPT !.problems = more] =
              [status |-> status', depth |-> depth', stack |-> stack',
               todo |-> todo', winner |-> winner', outcomes |-> outcomes',
               edges |-> edges', failure |-> failure', problems |-> more,
               early |-> early]
        BY DEF Next0
      <3> QED
        BY <2>3, <2>4, <2>5, <3>1 DEF Rec, more
    <2>7. status \in {"start", "search"} /\ ~ early /\ status' # "start"
      BY <1>1 DEF Search, Pending, Next, Start, Loop, Unfit, Refuse, Accept,
                  Descend, CutOff, Return, Deepen, GiveUp, MayFollow, Visiting,
                  Exhausted, Skip
    <2>8. ~ Final(Rec)
      BY <2>7 DEF Final, Rec
    <2>9. Pending'
      BY <2>4, <2>7 DEF Pending
    <2> QED
      BY <1>1, <2>1, <2>6, <2>8, <2>9 DEF Search
  <1>2. CASE EarlyReject
    <2>1. /\ status = "start" /\ in.forged /\ ~ early /\ stack = << >> /\ early'
          /\ UNCHANGED <<vars, mode, problems, result, bundle>>
      BY <1>2 DEF EarlyReject, Pending
    <2>2. Rec.status = "start" /\ Rec.stack = << >>
      BY <2>1 DEF Rec
    <2>3. Moved(in, Rec) = [Rec EXCEPT !.early = TRUE]
      BY <2>1, <2>2 DEF Moved, Started
    <2>4. Move(in, Rec) = [Rec EXCEPT !.early = TRUE]
      <3> DEFINE y == [Rec EXCEPT !.early = TRUE]
      <3>1. y.stack = << >> /\ Rec.problems = problems
        BY <2>1 DEF Rec
      <3>2. More(in, Rec, y.stack) = problems
        BY <2>1, <3>1 DEF More, Beforehand
      <3>3. [y EXCEPT !.problems = problems] = y
        <4>1. y.problems = problems
          BY DEF Rec
        <4> QED
          BY <4>1, Zenon DEF Rec
      <3> HIDE DEF y
      <3>4. Move(in, Rec) = y
        BY <2>3, <3>2, <3>3 DEF Move, y
      <3> QED
        BY <3>4 DEF y
    <2>5. early' = TRUE
      BY <1>2 DEF EarlyReject
    <2>6. Rec' = Move(in, Rec)
      BY <2>1, <2>4, <2>5 DEF Rec, vars
    <2> QED
      BY <2>1, <2>6 DEF Final, Rec, Pending, vars
  <1> QED
    BY <1>1, <1>2

------------------------------------------------------------------------------
(* The same move over the package *)

(* x is such a record, and what its next move may look up are nodes.       *)
IsRec(x) ==
    x = [status |-> x.status, depth |-> x.depth, stack |-> x.stack,
         todo |-> x.todo, winner |-> x.winner, outcomes |-> x.outcomes,
         edges |-> x.edges, failure |-> x.failure, problems |-> x.problems,
         early |-> x.early]

Fits(x) ==
    /\ IsRec(x)
    /\ x.stack # << >> => Last(x.stack) \in Node
    /\ (x.status = "search" /\ Last(x.todo) # {}) => Smallest(Last(x.todo)) \in Node

WithinOf(i, C) ==
    [i EXCEPT !.cand = [n \in Node |-> @[n] \cap C],
              !.refusedCand = [n \in Node |-> @[n] \cap C],
              !.indexed = TRUE]

LEMMA WithinFields ==
    ASSUME NEW i \in Input, NEW C
    PROVE  /\ \A n \in Node : /\ WithinOf(i, C).cand[n] = i.cand[n] \cap C
                              /\ WithinOf(i, C).refusedCand[n] = i.refusedCand[n] \cap C
           /\ WithinOf(i, C).misnamed = i.misnamed
           /\ WithinOf(i, C).missigned = i.missigned
           /\ WithinOf(i, C).unfit = i.unfit
           /\ WithinOf(i, C).anchors = i.anchors
           /\ WithinOf(i, C).leaf = i.leaf
           /\ WithinOf(i, C).expired = i.expired
           /\ WithinOf(i, C).refused = i.refused
           /\ WithinOf(i, C).forged = i.forged
           /\ WithinOf(i, C).refusedCrls = i.refusedCrls
           /\ WithinOf(i, C).refusedOcsps = i.refusedOcsps
           /\ i.leaf \in Node
  BY PackageType DEF WithinOf

LEMMA SameRules ==
    ASSUME NEW i \in Input, NEW C
    PROVE  /\ \A e : RuleIn(WithinOf(i, C), e) = RuleIn(i, e)
           /\ \A E : ReachingIn(WithinOf(i, C), E) = ReachingIn(i, E)
  <1> DEFINE j == WithinOf(i, C)
  <1>1. j.misnamed = i.misnamed /\ j.missigned = i.missigned /\ j.anchors = i.anchors
    BY WithinFields
  <1> HIDE DEF j
  <1>2. \A e : RuleIn(j, e) = RuleIn(i, e)
    BY <1>1 DEF RuleIn
  <1>3. \A E : ReachingIn(j, E) = ReachingIn(i, E)
    BY <1>1 DEF ReachingIn
  <1> QED
    BY <1>2, <1>3 DEF j

(* A scan whose edges are in the package is the same there.                *)
LEMMA SameScan ==
    ASSUME NEW i \in Input, NEW C, NEW n \in Node, NEW x, i.cand[n] \subseteq C
    PROVE  /\ ParentsIn(WithinOf(i, C), n) = ParentsIn(i, n)
           /\ ScanEdges(WithinOf(i, C), x, n) = ScanEdges(i, x, n)
           /\ ScanFailure(WithinOf(i, C), x, n) = ScanFailure(i, x, n)
  <1> DEFINE j == WithinOf(i, C)
  <1>1. j.cand[n] = i.cand[n]
    <2>1. j.cand[n] = i.cand[n] \cap C
      BY WithinFields
    <2>2. i.cand[n] \cap C = i.cand[n]
      OBVIOUS
    <2> QED
      BY <2>1, <2>2
  <1>2. \A e : RuleIn(j, e) = RuleIn(i, e)
    BY SameRules
  <1> HIDE DEF j
  <1>3. ParentsIn(j, n) = ParentsIn(i, n)
    BY <1>1, <1>2 DEF ParentsIn
  <1>4. ScanEdges(j, x, n) = ScanEdges(i, x, n)
    BY <1>1 DEF ScanEdges
  <1>5. ScanFailure(j, x, n) = ScanFailure(i, x, n)
    BY <1>1, <1>2 DEF ScanFailure
  <1> QED
    BY <1>3, <1>4, <1>5 DEF j

(* The certificates at the ends of edges.                                  *)
EndsOf(E) == UNION {{e[1], e[2]} : e \in E}

LEMMA ScannedAreEnds ==
    ASSUME NEW i, NEW x, NEW n, NEW C, EndsOf(ScanEdges(i, x, n)) \subseteq C
    PROVE  i.cand[n] \subseteq C
  <1>1. ASSUME NEW c \in i.cand[n] PROVE c \in EndsOf(ScanEdges(i, x, n))
    <2>1. <<n, c>> \in ScanEdges(i, x, n)
      BY DEF ScanEdges
    <2> QED
      BY <2>1 DEF EndsOf
  <1> QED
    BY <1>1

LEMMA SameBegun ==
    ASSUME NEW i \in Input, NEW C, NEW x, NEW d, EndsOf(Begun(i, x, d).edges) \subseteq C
    PROVE  Begun(WithinOf(i, C), x, d) = Begun(i, x, d)
  <1>1. i.cand[i.leaf] \subseteq C
    BY ScannedAreEnds DEF Begun
  <1> QED
    BY <1>1, WithinFields, SameScan DEF Begun

LEMMA SameVisited ==
    ASSUME NEW i \in Input, NEW C, NEW x, Fits(x),
           x.status = "search", Last(x.todo) # {},
           EndsOf(Visited(i, x).edges) \subseteq C
    PROVE  /\ Visited(WithinOf(i, C), x) = Visited(i, x)
           /\ IsRec(Visited(i, x))
  <1> DEFINE j == WithinOf(i, C)
             ip == Smallest(Last(x.todo))
             e == <<Last(x.stack), ip>>
             path == Append(x.stack, ip)
             rest == Rest(x.todo)
             Descended(k) == [x EXCEPT !.stack = path,
                                       !.todo = Append(rest, ParentsIn(k, ip)),
                                       !.edges = ScanEdges(k, x, ip),
                                       !.failure = ScanFailure(k, x, ip)]
             Out(k) ==
               IF ip \in Range(x.stack)
                 THEN [x EXCEPT !.failure = NoteFailure(x, e, "LOOP"), !.todo = rest]
               ELSE IF ip \in k.unfit
                 THEN [x EXCEPT !.failure = NoteFailure(x, e, "INTRINSIC"), !.todo = rest]
               ELSE IF ip \in k.anchors /\ path \in k.refused
                 THEN [x EXCEPT !.failure = NoteFailure(x, e, "PATH_LEVEL"), !.todo = rest,
                                !.outcomes = Append(x.outcomes, path)]
               ELSE IF ip \in k.anchors
                 THEN [x EXCEPT !.winner = path, !.status = "accepted"]
               ELSE IF x.depth - (Len(x.stack) - 1) > 1
                 THEN Descended(k)
               ELSE [x EXCEPT !.todo = rest]
  <1>1. \A k : Visited(k, x) = Out(k)
    BY DEF Visited
  <1>2. ip \in Node /\ IsRec(x)
    BY DEF Fits
  <1>3. /\ j.unfit = i.unfit /\ j.anchors = i.anchors /\ j.refused = i.refused
    BY WithinFields
  <1>4. Descended(i).edges = ScanEdges(i, x, ip)
    <2> HIDE DEF ip, path, rest
    <2> QED
      BY <1>2 DEF IsRec
  <1>5. Visited(i, x) = Descended(i) => Descended(j) = Descended(i)
    <2> SUFFICES ASSUME Visited(i, x) = Descended(i)
                 PROVE  Descended(j) = Descended(i)
      OBVIOUS
    <2>1. i.cand[ip] \subseteq C
      <3> HIDE DEF ip, Descended
      <3> QED
        BY <1>4, ScannedAreEnds
    <2>2. /\ ParentsIn(j, ip) = ParentsIn(i, ip)
          /\ ScanEdges(j, x, ip) = ScanEdges(i, x, ip)
          /\ ScanFailure(j, x, ip) = ScanFailure(i, x, ip)
      BY <1>2, <2>1, SameScan
    <2> HIDE DEF ip, path, rest, j
    <2> QED
      BY <2>2
  <1>6. IsRec(Out(i))
    <2> HIDE DEF ip, e, path, rest, j
    <2> QED
      BY <1>2 DEF IsRec
  <1>7. Out(j) = Out(i)
    <2> HIDE DEF ip, e, path, rest, j, Descended
    <2> QED
      BY <1>1, <1>3, <1>5
  <1> HIDE DEF Out, j
  <1> QED
    BY <1>1, <1>6, <1>7 DEF j

LEMMA SameStarted ==
    ASSUME NEW i \in Input, NEW C, NEW x, Fits(x),
           EndsOf(Started(i, x).edges) \subseteq C
    PROVE  /\ Started(WithinOf(i, C), x) = Started(i, x)
           /\ IsRec(Started(i, x))
  <1> DEFINE j == WithinOf(i, C)
  <1>1. /\ j.forged = i.forged /\ j.expired = i.expired
        /\ j.anchors = i.anchors /\ j.leaf = i.leaf
    BY WithinFields
  <1>2. Started(i, x) = Begun(i, x, 1) => Begun(j, x, 1) = Begun(i, x, 1)
    BY SameBegun
  <1>3. IsRec(x)
    BY DEF Fits
  <1>4. IsRec(Begun(i, x, 1))
    BY DEF IsRec, Begun
  <1> HIDE DEF j
  <1>5. Started(j, x) = Started(i, x)
    BY <1>1, <1>2 DEF Started
  <1>6. IsRec(Started(i, x))
    BY <1>3, <1>4 DEF Started, IsRec
  <1> QED
    BY <1>5, <1>6 DEF j

LEMMA SameLeft ==
    ASSUME NEW i \in Input, NEW C, NEW x, Fits(x),
           EndsOf(Left(i, x).edges) \subseteq C
    PROVE  /\ Left(WithinOf(i, C), x) = Left(i, x)
           /\ IsRec(Left(i, x))
  <1> DEFINE j == WithinOf(i, C)
  <1>1. /\ \A e : RuleIn(j, e) = RuleIn(i, e)
        /\ \A E : ReachingIn(j, E) = ReachingIn(i, E)
    BY SameRules
  <1>2. Left(i, x) = Begun(i, x, x.depth + 1)
           => Begun(j, x, x.depth + 1) = Begun(i, x, x.depth + 1)
    BY SameBegun
  <1>3. IsRec(x)
    BY DEF Fits
  <1>4. IsRec(Begun(i, x, x.depth + 1))
    BY DEF IsRec, Begun
  <1> HIDE DEF j
  <1> DEFINE Marks(k) == [e \in Edge |->
                 IF /\ e \in x.edges
                    /\ x.failure[e] = None
                    /\ RuleIn(k, e) = None
                    /\ e[2] \notin ReachingIn(k, x.edges)
                   THEN "NO_PATH_TO_ANCHOR" ELSE x.failure[e]]
             up == Front(x.stack)
             left == Front(x.todo)
  <1>a. Marks(j) = Marks(i)
    <2>1. ReachingIn(j, x.edges) = ReachingIn(i, x.edges)
      BY <1>1
    <2> QED
      BY <1>1, <2>1
  <1>b. \A k : GivenUp(k, x) = [x EXCEPT !.status = "rejected", !.failure = Marks(k)]
    BY DEF GivenUp
  <1> HIDE DEF Marks, up, left
  <1>5. GivenUp(j, x) = GivenUp(i, x)
    BY <1>a, <1>b
  <1>6. Left(j, x) = Left(i, x)
    BY <1>2, <1>5 DEF Left
  <1>7. IsRec(GivenUp(i, x))
    <2> DEFINE w == [x EXCEPT !.status = "rejected"]
               y == [w EXCEPT !.failure = Marks(i)]
    <2>0. w = [status |-> "rejected", depth |-> x.depth, stack |-> x.stack,
               todo |-> x.todo, winner |-> x.winner, outcomes |-> x.outcomes,
               edges |-> x.edges, failure |-> x.failure,
               problems |-> x.problems, early |-> x.early]
      BY <1>3 DEF IsRec
    <2> HIDE DEF w
    <2>1. y = [status |-> "rejected", depth |-> x.depth, stack |-> x.stack,
               todo |-> x.todo, winner |-> x.winner, outcomes |-> x.outcomes,
               edges |-> x.edges, failure |-> Marks(i),
               problems |-> x.problems, early |-> x.early]
      BY <2>0
    <2> HIDE DEF y
    <2>2. IsRec(y)
      BY <2>1 DEF IsRec
    <2> QED
      BY <1>b, <2>2 DEF y, w
  <1>8. IsRec([x EXCEPT !.stack = up, !.todo = left])
    <2> DEFINE w == [x EXCEPT !.stack = up]
               y == [w EXCEPT !.todo = left]
    <2>0. w = [status |-> x.status, depth |-> x.depth, stack |-> up,
               todo |-> x.todo, winner |-> x.winner, outcomes |-> x.outcomes,
               edges |-> x.edges, failure |-> x.failure,
               problems |-> x.problems, early |-> x.early]
      BY <1>3 DEF IsRec
    <2> HIDE DEF w
    <2>1. y = [status |-> x.status, depth |-> x.depth, stack |-> up,
               todo |-> left, winner |-> x.winner, outcomes |-> x.outcomes,
               edges |-> x.edges, failure |-> x.failure,
               problems |-> x.problems, early |-> x.early]
      BY <2>0
    <2> HIDE DEF y
    <2>2. IsRec(y)
      BY <2>1 DEF IsRec
    <2> QED
      BY <2>2 DEF y, w
  <1>9. IsRec(Left(i, x))
    BY <1>4, <1>7, <1>8 DEF Left, up, left
  <1> QED
    BY <1>6, <1>9 DEF j

LEMMA MovedIsRec ==
    ASSUME NEW i \in Input, NEW x, Fits(x), x.status \in {"start", "search"}
    PROVE  IsRec(Moved(i, x))
  <1>1. CASE x.status = "start"
    <2>1. IsRec(Started(i, x))
      BY SameStarted
    <2> QED
      BY <1>1, <2>1 DEF Moved
  <1>2. CASE x.status = "search" /\ Last(x.todo) # {}
    <2>1. IsRec(Visited(i, x))
      BY <1>2, SameVisited
    <2> QED
      BY <1>2, <2>1 DEF Moved
  <1>3. CASE x.status = "search" /\ Last(x.todo) = {}
    <2>1. IsRec(Left(i, x))
      BY SameLeft
    <2> QED
      BY <1>3, <2>1 DEF Moved
  <1> QED
    BY <1>1, <1>2, <1>3

LEMMA SameMoved ==
    ASSUME NEW i \in Input, NEW C, NEW x, Fits(x), x.status \in {"start", "search"},
           EndsOf(Moved(i, x).edges) \subseteq C
    PROVE  Moved(WithinOf(i, C), x) = Moved(i, x)
  <1> DEFINE j == WithinOf(i, C)
  <1>1. CASE x.status = "start"
    <2>1. \A k : Moved(k, x) = Started(k, x)
      BY <1>1 DEF Moved
    <2>2. Started(j, x) = Started(i, x)
      BY <2>1, SameStarted
    <2> QED
      BY <2>1, <2>2
  <1>2. CASE x.status = "search" /\ Last(x.todo) # {}
    <2>1. \A k : Moved(k, x) = Visited(k, x)
      BY <1>2 DEF Moved
    <2>2. Visited(j, x) = Visited(i, x)
      BY <1>2, <2>1, SameVisited
    <2> QED
      BY <2>1, <2>2
  <1>3. CASE x.status = "search" /\ Last(x.todo) = {}
    <2>1. \A k : Moved(k, x) = Left(k, x)
      BY <1>3 DEF Moved
    <2>2. Left(j, x) = Left(i, x)
      BY <2>1, SameLeft
    <2> QED
      BY <2>1, <2>2
  <1> QED
    BY <1>1, <1>2, <1>3

(* What a move adds to the moved record is its problems.                   *)
LEMMA MoveIs ==
    ASSUME NEW i, NEW x, IsRec(Moved(i, x))
    PROVE  /\ Move(i, x).edges = Moved(i, x).edges
           /\ Move(i, x).stack = Moved(i, x).stack
           /\ Move(i, x).problems = More(i, x, Moved(i, x).stack)
  <1> DEFINE y == Moved(i, x)
             more == More(i, x, y.stack)
             z == [y EXCEPT !.problems = more]
  <1>1. Move(i, x) = z
    BY DEF Move
  <1> HIDE DEF y, more
  <1>2. z.edges = y.edges /\ z.stack = y.stack /\ z.problems = more
    BY DEF IsRec, y
  <1> HIDE DEF z
  <1>3. /\ Move(i, x).edges = y.edges /\ Move(i, x).stack = y.stack
        /\ Move(i, x).problems = more
    BY <1>1, <1>2
  <1> QED
    BY <1>3 DEF y, more

LEMMA SameBefore ==
    ASSUME NEW i \in Input, NEW C, NEW x
    PROVE  Beforehand(WithinOf(i, C), x) = Beforehand(i, x)
  <1> DEFINE j == WithinOf(i, C)
  <1>1. /\ j.forged = i.forged
        /\ j.refusedCrls = i.refusedCrls /\ j.refusedOcsps = i.refusedOcsps
    BY WithinFields
  <1> HIDE DEF j
  <1>2. Beforehand(j, x) = Beforehand(i, x)
    BY <1>1 DEF Beforehand
  <1> QED
    BY <1>2 DEF j

(* The certificates a move looks up are among the refused ones it lists.   *)
LEMMA LookedUpIsListed ==
    ASSUME NEW i \in Input, NEW x, NEW path, path # << >>, Last(path) \in Node
    PROVE  i.refusedCand[Last(path)] \subseteq RefusedCerts(More(i, x, path))
  <1>1. i.refusedCand[Last(path)] \subseteq Unparsable
    BY PackageType
  <1>2. {"certificate"} \X i.refusedCand[Last(path)] \subseteq Listed(More(i, x, path))
    BY MoreLists
  <1> QED
    BY <1>1, <1>2 DEF RefusedCerts

(* A move of the service whose edges and problems the package covers is    *)
(* the move of the verifier.                                               *)
LEMMA SameMove ==
    ASSUME NEW i \in Input, NEW C, NEW x, Fits(x),
           x.status \in {"start", "search"},
           Fits(Move(i, x)),
           EndsOf(Move(i, x).edges) \subseteq C,
           RefusedCerts(Move(i, x).problems) \subseteq C
    PROVE  Move(WithinOf(i, C), x) = Move(i, x)
  <1> DEFINE j == WithinOf(i, C)
             y == Moved(i, x)
  <1>1. IsRec(y)
    BY MovedIsRec
  <1>2. /\ Move(i, x).edges = y.edges /\ Move(i, x).stack = y.stack
        /\ Move(i, x).problems = More(i, x, y.stack)
    BY <1>1, MoveIs
  <1>3. Moved(j, x) = y
    BY <1>2, SameMoved
  <1>4. y.stack # << >> =>
           j.refusedCand[Last(y.stack)] = i.refusedCand[Last(y.stack)]
    <2> SUFFICES ASSUME y.stack # << >>
                 PROVE  j.refusedCand[Last(y.stack)] = i.refusedCand[Last(y.stack)]
      OBVIOUS
    <2> DEFINE n == Last(y.stack)
    <2>1. n \in Node
      BY <1>2 DEF Fits
    <2>2. i.refusedCand[n] \subseteq C
      BY <1>2, <2>1, LookedUpIsListed
    <2>3. j.refusedCand[n] = i.refusedCand[n] \cap C
      BY <2>1, WithinFields
    <2> QED
      BY <2>2, <2>3
  <1>5. Beforehand(j, x) = Beforehand(i, x)
    BY SameBefore
  <1> HIDE DEF j, y
  <1>6. More(j, x, y.stack) = More(i, x, y.stack)
    BY <1>4, <1>5 DEF More
  <1>7. Move(j, x) = Move(i, x)
    BY <1>3, <1>6 DEF Move, y
  <1> QED
    BY <1>7 DEF j

------------------------------------------------------------------------------
(* The moves of the service, one after the other *)

LEMMA RecFields ==
    /\ Rec.status = status /\ Rec.depth = depth /\ Rec.stack = stack
    /\ Rec.todo = todo /\ Rec.winner = winner /\ Rec.outcomes = outcomes
    /\ Rec.edges = edges /\ Rec.failure = failure /\ Rec.problems = problems
    /\ Rec.early = early
  BY DEF Rec

LEMMA RecFits ==
    ASSUME Inv
    PROVE  Fits(Rec)
  <1>1. IsRec(Rec)
    BY DEF IsRec, Rec
  <1>2. stack # << >> => Last(stack) \in Node
    <2> SUFFICES ASSUME stack # << >> PROVE Last(stack) \in Node
      OBVIOUS
    <2>1. stack \in Seq(Node) /\ Len(stack) \in Nat
      BY DEF Inv, TypeOK
    <2>2. Len(stack) >= 1
      BY <2>1, EmptySeq
    <2> QED
      BY <2>1, <2>2, FrontOf
  <1>3. (status = "search" /\ Last(todo) # {}) => Smallest(Last(todo)) \in Node
    BY AtParent DEF Visiting, Parent
  <1> QED
    BY <1>1, <1>2, <1>3, RecFields DEF Fits

LEMMA RecFitsNext == Inv' => Fits(Rec')
  <1>1. Inv => Fits(Rec)
    BY RecFits
  <1>2. Inv' => Fits(Rec)'
    BY <1>1, PTL
  <1> QED
    BY <1>2

(* Neither the edges nor the problems are ever forgotten.                  *)
LEMMA Grows ==
    ASSUME Search \/ EarlyReject
    PROVE  edges \subseteq edges' /\ problems \subseteq problems'
  <1>1. CASE Search
    <2>1. edges \subseteq edges'
      BY <1>1 DEF Search, Next, Start, Loop, Unfit, Refuse, Accept, Descend,
                  CutOff, Return, Deepen, GiveUp, Begin, Scan, Skip
    <2>2. problems \subseteq problems'
      <3> DEFINE before == IF status = "start" THEN Loaded ELSE problems
      <3>1. problems \subseteq Loaded
        <4> DEFINE crls == Noting(problems, "crl", in.refusedCrls, Number)
        <4>1. problems \subseteq crls
          BY NotingGrows
        <4>2. crls \subseteq Noting(crls, "ocsp", in.refusedOcsps, Number)
          BY NotingGrows
        <4> HIDE DEF crls
        <4>3. problems \subseteq Noting(crls, "ocsp", in.refusedOcsps, Number)
          BY <4>1, <4>2
        <4> QED
          BY <4>3 DEF Loaded, crls
      <3>2. problems \subseteq before
        BY <3>1
      <3>3. before \subseteq
               Noting(before, "certificate", in.refusedCand[Last(stack')], Number)
        BY NotingGrows
      <3>4. problems' = IF stack' = << >> THEN before
                        ELSE Noting(before, "certificate",
                                    in.refusedCand[Last(stack')], Number)
        BY <1>1 DEF Search
      <3> HIDE DEF before
      <3> QED
        BY <3>2, <3>3, <3>4
    <2> QED
      BY <2>1, <2>2
  <1>2. CASE EarlyReject
    BY <1>2 DEF EarlyReject, vars
  <1> QED
    BY <1>1, <1>2

(* The records h[0] to h[n] the search over i goes through.                *)
Traced(i, h, n) ==
    /\ i \in Input /\ n \in Nat
    /\ h[0] = First(i)
    /\ \A k \in 0 .. n - 1 :
          /\ ~ Final(h[k])
          /\ h[k].status \in {"start", "search"}
          /\ h[k + 1] = Move(i, h[k])
    /\ \A k \in 0 .. n :
          /\ Fits(h[k])
          /\ h[k].edges \subseteq h[n].edges
          /\ h[k].problems \subseteq h[n].problems

Serving ==
    /\ Inv /\ Pending
    /\ \E n, h : Traced(in, h, n) /\ h[n] = Rec

LEMMA ServingStarts == PackageInit => Serving
  <1> SUFFICES ASSUME PackageInit PROVE Serving
    OBVIOUS
  <1>1. Inv /\ in \in Input
    BY Initially DEF PackageInit, Init
  <1>2. Pending
    BY DEF PackageInit, Init, Pending
  <1>3. Rec = First(in)
    BY DEF PackageInit, Init, Rec, First
  <1> DEFINE h == [k \in {0} |-> Rec]
  <1>4. h[0] = Rec
    OBVIOUS
  <1>5. Fits(Rec)
    BY <1>1, RecFits
  <1> HIDE DEF h
  <1>6. Traced(in, h, 0)
    <2>1. \A k \in 0 .. 0 : k = 0
      OBVIOUS
    <2>2. ~ \E k \in 0 .. 0 - 1 : TRUE
      OBVIOUS
    <2> QED
      BY <1>1, <1>3, <1>4, <1>5, <2>1, <2>2 DEF Traced
  <1> QED
    BY <1>1, <1>2, <1>4, <1>6 DEF Serving

LEMMA ServingGoesOn ==
    ASSUME Serving, Search \/ EarlyReject
    PROVE  Serving'
  <1>1. PICK n, h : Traced(in, h, n) /\ h[n] = Rec
    BY DEF Serving
  <1>2. /\ Rec' = Move(in, Rec) /\ in' = in /\ ~ Final(Rec) /\ Pending'
    BY StepIsMove DEF Serving
  <1>3. Inv'
    <2>1. Inv /\ [Next]_vars
      BY DEF Serving, Search, EarlyReject
    <2> QED
      BY <2>1, Inductive
  <1>4. Fits(Rec')
    BY <1>3, RecFitsNext
  <1>5. Rec.edges \subseteq Rec'.edges /\ Rec.problems \subseteq Rec'.problems
    BY Grows DEF Rec
  <1>6. Rec.status \in {"start", "search"}
    BY <1>2 DEF Serving, Inv, TypeOK, Final, Rec
  <1> DEFINE g == [k \in 0 .. n + 1 |-> IF k <= n THEN h[k] ELSE Rec']
  <1>7. n \in Nat
    BY <1>1 DEF Traced
  <1>8. (\A k \in 0 .. n : g[k] = h[k]) /\ g[n + 1] = Rec'
    BY <1>7
  <1> HIDE DEF g
  <1>9. Traced(in, g, n + 1)
    <2>1. in \in Input /\ n + 1 \in Nat /\ g[0] = First(in)
      BY <1>1, <1>7, <1>8 DEF Traced
    <2>2. ASSUME NEW k \in 0 .. (n + 1) - 1
          PROVE  /\ ~ Final(g[k])
                 /\ g[k].status \in {"start", "search"}
                 /\ g[k + 1] = Move(in, g[k])
      <3>1. CASE k = n
        <4>1. g[k] = Rec /\ g[k + 1] = Rec'
          BY <1>1, <1>7, <1>8, <3>1
        <4> QED
          BY <1>2, <1>6, <4>1
      <3>2. CASE k # n
        <4>1. k \in 0 .. n - 1 /\ k \in 0 .. n /\ k + 1 \in 0 .. n
          BY <1>7, <3>2
        <4>2. g[k] = h[k] /\ g[k + 1] = h[k + 1]
          BY <1>8, <4>1
        <4> QED
          BY <1>1, <4>1, <4>2 DEF Traced
      <3> QED
        BY <3>1, <3>2
    <2>3. ASSUME NEW k \in 0 .. n + 1
          PROVE  /\ Fits(g[k])
                 /\ g[k].edges \subseteq g[n + 1].edges
                 /\ g[k].problems \subseteq g[n + 1].problems
      <3>1. CASE k = n + 1
        BY <1>4, <1>8, <3>1
      <3>2. CASE k \in 0 .. n
        <4>1. /\ g[k] = h[k] /\ Fits(h[k]) /\ h[k].edges \subseteq Rec.edges
              /\ h[k].problems \subseteq Rec.problems
          BY <1>1, <1>8, <3>2 DEF Traced
        <4> QED
          BY <1>5, <1>8, <4>1
      <3> QED
        BY <1>7, <3>1, <3>2
    <2>4. \A k \in 0 .. (n + 1) - 1 :
             /\ ~ Final(g[k])
             /\ g[k].status \in {"start", "search"}
             /\ g[k + 1] = Move(in, g[k])
      BY <2>2
    <2>5. \A k \in 0 .. n + 1 :
             /\ Fits(g[k])
             /\ g[k].edges \subseteq g[n + 1].edges
             /\ g[k].problems \subseteq g[n + 1].problems
      BY <2>3
    <2> QED
      BY <2>1, <2>4, <2>5, Zenon DEF Traced
  <1>10. Traced(in', g, n + 1) /\ g[n + 1] = Rec'
    BY <1>2, <1>8, <1>9
  <1> QED
    BY <1>2, <1>3, <1>10 DEF Serving

------------------------------------------------------------------------------
(* The verifier follows *)

(* The certificates the result at the end of the record x refers to.       *)
ReferencesOf(i, x) ==
    i.anchors \cup Range(x.winner) \cup RefusedCerts(x.problems)
    \cup (IF x.status = "rejected" THEN {i.leaf} ELSE {})
    \cup EndsOf(x.edges)

OutcomeOf(x) ==
    [status |-> x.status, early |-> x.early, winner |-> x.winner,
     problems |-> x.problems, edges |-> x.edges,
     outcomes |-> IF x.status = "rejected" THEN x.outcomes ELSE << >>,
     failure |-> IF x.status = "rejected" THEN x.failure ELSE [e \in Edge |-> None]]

(* An anchor that is not signed by its own key makes run_core answer early *)
(* with a result that need not name the leaf: the leaf is in the package   *)
(* when it is an anchor itself.                                            *)
EarlyHasLeaf == \A i \in Input : i.forged => i.leaf \in i.anchors

(* A set without its name index lists every certificate that does not      *)
(* parse, before the CRLs and OCSP responses that do not.  With an index   *)
(* the same list comes about if the certificates are all named like the    *)
(* issuer of the leaf, the search looks at the leaf, and it is they alone  *)
(* that do not parse.                                                      *)
IndexOrFound ==
    \A i \in Input : ~ i.indexed =>
        \/ Unparsable = {}
        \/ /\ ~ i.forged /\ ~ i.expired /\ i.leaf \notin i.anchors
           /\ Unparsable \subseteq i.refusedCand[i.leaf]
           /\ i.refusedCrls = {} /\ i.refusedOcsps = {}

(* Where the verifier is: at its start, or at a record of the service.     *)
AtMove(i, h, n, k) ==
    /\ Traced(i, h, n) /\ Final(h[n])
    /\ result = OutcomeOf(h[n])
    /\ in = WithinOf(i, ReferencesOf(i, h[n]))
    /\ \/ k = 0 /\ Rec = First(in)
       \/ k \in 1 .. n /\ Rec = h[k]

Verifying == Pending /\ \E i, h, n, k : AtMove(i, h, n, k)

PackageInv ==
    /\ mode \in {"service", "offline", "same"}
    /\ mode = "service" => Serving
    /\ mode = "offline" => Verifying

LEMMA FirstIsNotFinal ==
    ASSUME NEW i
    PROVE  ~ Final(First(i)) /\ First(i).status = "start"
  BY DEF Final, First

(* The verifier's first move leads where the service's led.                *)
LEMMA SameFirstMove ==
    ASSUME IndexOrFound, NEW i \in Input, NEW C,
           Fits(First(i)), Fits(Move(i, First(i))),
           EndsOf(Move(i, First(i)).edges) \subseteq C,
           RefusedCerts(Move(i, First(i)).problems) \subseteq C
    PROVE  LET j == WithinOf(i, C) IN Move(j, First(j)) = Move(i, First(i))
  <1> DEFINE j == WithinOf(i, C)
             x == First(i)
             y == First(j)
  <1> SUFFICES Move(j, y) = Move(i, x)
    OBVIOUS
  <1>1. x.status = "start" /\ y.status = "start"
    BY FirstIsNotFinal
  <1>2. Move(j, x) = Move(i, x)
    BY <1>1, SameMove
  <1>3. j.indexed /\ i.indexed \in BOOLEAN
    BY PackageType DEF WithinOf
  <1>4. CASE i.indexed \/ Unparsable = {}
    <2>1. Noting({}, "certificate", {}, Number) = {}
      BY NotingNone
    <2>2. y = x
      BY <1>3, <1>4, <2>1 DEF First
    <2> QED
      BY <1>2, <2>2
  <1>5. CASE ~ i.indexed /\ Unparsable # {}
    <2>1. /\ ~ i.forged /\ ~ i.expired /\ i.leaf \notin i.anchors
          /\ Unparsable \subseteq i.refusedCand[i.leaf]
          /\ i.refusedCrls = {} /\ i.refusedOcsps = {}
      BY <1>5 DEF IndexOrFound
    <2>2. /\ j.forged = i.forged /\ j.expired = i.expired
          /\ j.anchors = i.anchors /\ j.leaf = i.leaf
          /\ j.refusedCand[i.leaf] = i.refusedCand[i.leaf] \cap C
          /\ j.refusedCrls = {} /\ j.refusedOcsps = {}
      BY <2>1, WithinFields
    <2>3. \A r \in {x, y} : Moved(j, r) = Begun(j, r, 1)
      <3>1. ~ j.forged /\ ~ j.expired /\ j.leaf \notin j.anchors
        BY <2>1, <2>2
      <3> HIDE DEF j, x, y
      <3> QED
        BY <1>1, <3>1 DEF Moved, Started
    <2>4. /\ \A k, r : Begun(k, r, 1).stack = <<k.leaf>>
          /\ Last(<<i.leaf>>) = i.leaf /\ <<i.leaf>> # << >>
      BY DEF Begun, Last
    <2>5. \A r \in {x, y} : Beforehand(j, r) = r.problems
      <3> HIDE DEF j, x, y
      <3> QED
        BY <2>2, NotingNone DEF Beforehand
    <2> DEFINE all == Noting({}, "certificate", Unparsable, Number)
               cands == j.refusedCand[i.leaf]
    <2>6. \A r \in {x, y} :
             Move(j, r) = [Begun(j, r, 1) EXCEPT
                             !.problems = Noting(r.problems, "certificate",
                                                 cands, Number)]
      <3>1. \A r \in {x, y} : Moved(j, r).stack = <<i.leaf>>
        BY <2>2, <2>3, <2>4
      <3>2. \A r \in {x, y} : More(j, r, <<i.leaf>>) =
                                Noting(r.problems, "certificate", cands, Number)
        BY <2>4, <2>5 DEF More
      <3> HIDE DEF j, x, y, cands
      <3> QED
        BY <2>3, <3>1, <3>2 DEF Move
    <2>7. x.problems = all /\ y.problems = {}
      BY <1>3, <1>5 DEF First
    <2>8. Listed(all) = {"certificate"} \X Unparsable
      <3> DEFINE none == {}
      <3>1. Unparsable \in SUBSET Nat /\ Listed(none) = {}
        BY PackageType DEF Listed
      <3> HIDE DEF none
      <3>2. Listed(Noting(none, "certificate", Unparsable, Number))
              = With(none, "certificate", Unparsable)
        BY <3>1, NotingLists
      <3> QED
        BY <3>1, <3>2 DEF none, With
    <2>9. cands = Unparsable
      <3>1. i.leaf \in Node /\ i.refusedCand[i.leaf] \subseteq Unparsable
        BY PackageType
      <3>2. More(i, x, <<i.leaf>>) = Move(i, x).problems
        <4>1. Move(j, x).problems = Noting(x.problems, "certificate", cands, Number)
          <5> HIDE DEF j, x, cands
          <5> QED
            BY <2>6 DEF Begun
        <4>2. /\ Moved(i, x) = Begun(i, x, 1)
              /\ Moved(i, x).stack = <<i.leaf>>
          <5> HIDE DEF x
          <5> QED
            BY <1>1, <2>1, <2>4 DEF Moved, Started
        <4>3. IsRec(Moved(i, x))
          <5> HIDE DEF x
          <5> QED
            BY <4>2 DEF IsRec, Begun
        <4> QED
          BY <4>2, <4>3, MoveIs
      <3>3. i.refusedCand[i.leaf] \subseteq C
        BY <2>4, <3>1, <3>2, LookedUpIsListed
      <3> QED
        BY <2>1, <2>2, <3>1, <3>3
    <2>10. /\ Noting(x.problems, "certificate", cands, Number) = all
           /\ Noting(y.problems, "certificate", cands, Number) = all
      BY <2>7, <2>8, <2>9, NotingAgain
    <2>11. /\ Move(j, x) = [Begun(j, x, 1) EXCEPT !.problems = all]
           /\ Move(j, y) = [Begun(j, y, 1) EXCEPT !.problems = all]
      BY <2>6, <2>10
    <2>12. /\ x.winner = y.winner /\ x.outcomes = y.outcomes
           /\ x.edges = y.edges /\ x.failure = y.failure /\ x.early = y.early
      BY DEF First
    <2>13. [Begun(j, x, 1) EXCEPT !.problems = all]
             = [Begun(j, y, 1) EXCEPT !.problems = all]
      <3> HIDE DEF x, j, y, all
      <3>1. /\ ScanEdges(j, x, j.leaf) = ScanEdges(j, y, j.leaf)
            /\ ScanFailure(j, x, j.leaf) = ScanFailure(j, y, j.leaf)
        BY <2>12 DEF ScanEdges, ScanFailure
      <3> QED
        BY <2>12, <3>1 DEF Begun
    <2> QED
      BY <1>2, <2>11, <2>13
  <1> QED
    BY <1>3, <1>4, <1>5

LEMMA Follows ==
    ASSUME IndexOrFound, Verifying, Search \/ EarlyReject
    PROVE  Verifying'
  <1>1. PICK i, h, n, k : AtMove(i, h, n, k)
    BY DEF Verifying
  <1>2. /\ Rec' = Move(in, Rec) /\ in' = in /\ result' = result
        /\ ~ Final(Rec) /\ Pending'
    BY StepIsMove DEF Verifying
  <1>3. Traced(i, h, n) /\ n \in Nat /\ i \in Input /\ h[0] = First(i)
    BY <1>1 DEF AtMove, Traced
  <1>4. k \in 0 .. n - 1
    <2>1. k = n => FALSE
      <3> SUFFICES ASSUME k = n PROVE FALSE
        OBVIOUS
      <3>1. CASE k = 0
        <4>1. Final(h[0]) /\ h[0] = First(i)
          BY <1>1, <1>3, <3>1 DEF AtMove
        <4> QED
          BY <4>1, FirstIsNotFinal
      <3>2. CASE k # 0
        <4>1. Rec = h[n] /\ Final(h[n])
          BY <1>1, <3>2 DEF AtMove
        <4> QED
          BY <1>2, <4>1
      <3> QED
        BY <3>1, <3>2
    <2>2. k \in 0 .. n
      BY <1>1, <1>3 DEF AtMove
    <2> QED
      BY <1>3, <2>1, <2>2
  <1>5. k \in 0 .. n /\ k + 1 \in 0 .. n /\ k + 1 \in 1 .. n
    BY <1>3, <1>4
  <1> DEFINE C == ReferencesOf(i, h[n])
             x == h[k]
  <1>6. /\ h[k + 1] = Move(i, x)
        /\ x.status \in {"start", "search"}
        /\ Fits(x) /\ Fits(Move(i, x))
        /\ Move(i, x).edges \subseteq h[n].edges
        /\ Move(i, x).problems \subseteq h[n].problems
    BY <1>3, <1>4, <1>5 DEF Traced
  <1>7. /\ EndsOf(Move(i, x).edges) \subseteq C
        /\ RefusedCerts(Move(i, x).problems) \subseteq C
    <2>1. EndsOf(h[n].edges) \subseteq C /\ RefusedCerts(h[n].problems) \subseteq C
      BY DEF ReferencesOf
    <2>2. EndsOf(Move(i, x).edges) \subseteq EndsOf(h[n].edges)
      BY <1>6 DEF EndsOf
    <2>3. RefusedCerts(Move(i, x).problems) \subseteq RefusedCerts(h[n].problems)
      BY <1>6 DEF RefusedCerts, Listed
    <2> QED
      BY <2>1, <2>2, <2>3
  <1>8. in = WithinOf(i, C)
    BY <1>1 DEF AtMove
  <1>9. Rec' = h[k + 1]
    <2>1. CASE k = 0
      <3>1. Rec = First(in) /\ x = First(i)
        BY <1>1, <1>3, <2>1 DEF AtMove
      <3> HIDE DEF C
      <3>2. Move(in, First(in)) = Move(i, First(i))
        BY <1>3, <1>6, <1>7, <1>8, <3>1, SameFirstMove
      <3> QED
        BY <1>2, <1>6, <3>1, <3>2
    <2>2. CASE k # 0
      <3>1. Rec = x
        BY <1>1, <2>2 DEF AtMove
      <3> HIDE DEF C, x
      <3>2. Move(in, x) = Move(i, x)
        BY <1>3, <1>6, <1>7, <1>8, SameMove
      <3> QED
        BY <1>2, <1>6, <3>1, <3>2
    <2> QED
      BY <2>1, <2>2
  <1>10. AtMove(i, h, n, k + 1)'
    BY <1>1, <1>2, <1>5, <1>9 DEF AtMove
  <1> QED
    BY <1>2, <1>10 DEF Verifying

LEMMA OutcomeIs == Outcome = OutcomeOf(Rec) /\ References = ReferencesOf(in, Rec)
  <1>1. Outcome = OutcomeOf(Rec)
    BY RecFields DEF Outcome, OutcomeOf
  <1>2. References = ReferencesOf(in, Rec)
    BY RecFields DEF References, ReferencesOf, EndsOf
  <1> QED
    BY <1>1, <1>2

(* The leaf of a result is in its package, unless the result is an early   *)
(* one.                                                                    *)
LEMMA LeafIsBundled ==
    ASSUME Serving, Decided
    PROVE  \/ in.leaf \in References
           \/ in.forged /\ in.leaf \notin in.anchors
  <1>1. in \in Input /\ Inv /\ Pending
    BY DEF Serving, Inv
  <1>2. in.anchors \subseteq References /\ Range(winner) \subseteq References
    BY DEF References
  <1>3. CASE early
    BY <1>1, <1>2, <1>3 DEF Pending
  <1>4. CASE status = "rejected"
    BY <1>4 DEF References
  <1>5. CASE status = "accepted" /\ in.leaf \notin in.anchors
    <2>1. winner \in Seq(Node) /\ Len(winner) \in 2 .. MaxDepth + 1 /\ winner[1] = in.leaf
      BY <1>1, <1>5 DEF Inv, WinnerIsSound
    <2>2. 1 \in DOMAIN winner
      BY <2>1, LenProperties
    <2>3. in.leaf \in Range(winner)
      BY <2>1, <2>2 DEF Range
    <2> QED
      BY <1>2, <2>3
  <1> QED
    BY <1>2, <1>3, <1>4, <1>5 DEF Decided

LEMMA ExportStarts ==
    ASSUME Serving, Export
    PROVE  Verifying'
  <1>1. PICK n, h : Traced(in, h, n) /\ h[n] = Rec
    BY DEF Serving
  <1>2. Final(h[n])
    BY <1>1, RecFields DEF Export, Decided, Final
  <1>3. result' = OutcomeOf(h[n]) /\ in' = WithinOf(in, ReferencesOf(in, h[n]))
    <2>1. result' = Outcome /\ in' = Within(References)
      BY DEF Export
    <2>2. \A C : Within(C) = WithinOf(in, C)
      BY DEF Within, WithinOf
    <2> QED
      BY <1>1, <2>1, <2>2, OutcomeIs
  <1>4. in'.indexed
    <2>1. in \in Input
      BY DEF Serving, Inv
    <2> DEFINE C == ReferencesOf(in, h[n])
    <2> HIDE DEF C
    <2>2. WithinOf(in, C).indexed
      BY <2>1, PackageType DEF WithinOf
    <2> QED
      BY <1>3, <2>2 DEF C
  <1>5. Rec' = First(in')
    <2>1. /\ status' = "start" /\ depth' = 0 /\ stack' = << >> /\ todo' = << >>
          /\ winner' = << >> /\ outcomes' = << >> /\ edges' = {}
          /\ early' = FALSE /\ problems' = {}
          /\ failure' = [e \in Edge |-> None]
      BY DEF Export
    <2> QED
      BY <1>4, <2>1 DEF Rec, First
  <1>6. Pending'
    BY DEF Export, Pending
  <1>7. \E i, g, m, k : /\ Traced(i, g, m) /\ Final(g[m])
                        /\ result' = OutcomeOf(g[m])
                        /\ in' = WithinOf(i, ReferencesOf(i, g[m]))
                        /\ \/ k = 0 /\ Rec' = First(in')
                           \/ k \in 1 .. m /\ Rec' = g[k]
    <2> DEFINE j == in
    <2>1. /\ Traced(j, h, n) /\ Final(h[n])
          /\ result' = OutcomeOf(h[n])
          /\ in' = WithinOf(j, ReferencesOf(j, h[n]))
          /\ 0 = 0 /\ Rec' = First(in')
      BY <1>1, <1>2, <1>3, <1>5
    <2> HIDE DEF j
    <2> QED
      BY <2>1, Zenon
  <1> QED
    BY <1>6, <1>7 DEF Verifying, AtMove

LEMMA CompareAgrees ==
    ASSUME Verifying, Compare
    PROVE  mode' = "same"
  <1>1. PICK i, h, n, k : AtMove(i, h, n, k)
    BY DEF Verifying
  <1>2. Final(Rec)
    BY RecFields DEF Compare, Decided, Final
  <1>3. k \in 1 .. n /\ Rec = h[k] /\ n \in Nat
    BY <1>1, <1>2, FirstIsNotFinal DEF AtMove, Traced
  <1>4. k = n
    <2>1. k \in 0 .. n - 1 => ~ Final(h[k])
      BY <1>1 DEF AtMove, Traced
    <2> QED
      BY <1>2, <1>3, <2>1
  <1>5. Outcome = result
    BY <1>1, <1>3, <1>4, OutcomeIs DEF AtMove
  <1> QED
    BY <1>5 DEF Compare

(* The verifier of a package finds the very result the package was made    *)
(* for, the order of the refused evidence included, and never misses a     *)
(* certificate (README section 7; verify_package against                   *)
(* package._collect_references): for every graph, bound and outcome of the *)
(* gates in which an early result has the leaf among its anchors, and the  *)
(* set is indexed or all of its refused evidence is certificates that the  *)
(* search finds by name at the leaf.  Without such conditions it does not  *)
(* hold.                                                                   *)
THEOREM VerifierAgrees ==
    ASSUME EarlyHasLeaf, IndexOrFound
    PROVE  PackageSpec => []PackageVerifies
  <1>1. PackageInit => PackageInv
    BY ServingStarts DEF PackageInit, PackageInv
  <1>2. ASSUME PackageInv, [PackageNext]_packageVars
        PROVE  PackageInv'
    <2>1. CASE Search \/ EarlyReject
      <3>1. mode' = mode /\ mode \in {"service", "offline"}
        BY <2>1 DEF Search, EarlyReject
      <3>2. CASE mode = "service"
        BY <1>2, <2>1, <3>1, <3>2, ServingGoesOn DEF PackageInv
      <3>3. CASE mode = "offline"
        BY <1>2, <2>1, <3>1, <3>3, Follows DEF PackageInv
      <3> QED
        BY <3>1, <3>2, <3>3
    <2>2. CASE Export
      <3>1. Serving
        BY <1>2, <2>2 DEF Export, PackageInv
      <3>2. Verifying'
        BY <2>2, <3>1, ExportStarts
      <3>3. in.leaf \in References
        <4>1. in \in Input /\ Decided
          BY <2>2, <3>1 DEF Serving, Inv, Export
        <4> QED
          BY <3>1, <4>1, LeafIsBundled DEF EarlyHasLeaf
      <3> QED
        BY <2>2, <3>2, <3>3 DEF Export, PackageInv
    <2>3. CASE Compare
      <3>1. mode = "offline"
        BY <2>3 DEF Compare
      <3> QED
        BY <1>2, <2>3, <3>1, CompareAgrees DEF PackageInv
    <2>4. CASE UNCHANGED packageVars
      <3>1. /\ in' = in /\ Rec' = Rec /\ result' = result /\ mode' = mode
            /\ status' = status /\ stack' = stack /\ early' = early
        BY <2>4 DEF packageVars, vars, Rec
      <3>2. Pending => Pending'
        BY <3>1 DEF Pending
      <3>3. Inv => Inv'
        <4>1. [Next]_vars
          BY <2>4 DEF packageVars
        <4> QED
          BY <4>1, Inductive
      <3>4. Serving => Serving'
        BY <3>1, <3>2, <3>3 DEF Serving
      <3>5. \A i, h, n, k : AtMove(i, h, n, k) => AtMove(i, h, n, k)'
        BY <3>1 DEF AtMove
      <3>6. Verifying => Verifying'
        BY <3>2, <3>5 DEF Verifying
      <3> QED
        BY <1>2, <3>1, <3>4, <3>6 DEF PackageInv
    <2> QED
      BY <1>2, <2>1, <2>2, <2>3, <2>4 DEF PackageNext
  <1>3. PackageInv => PackageVerifies
    BY DEF PackageInv, PackageVerifies
  <1> QED
    BY <1>1, <1>2, <1>3, PTL DEF PackageSpec

------------------------------------------------------------------------------
(* Without any condition: only the problems can differ *)

Plain(x, P) ==
    [status |-> x.status, depth |-> x.depth, stack |-> x.stack,
     todo |-> x.todo, winner |-> x.winner, outcomes |-> x.outcomes,
     edges |-> x.edges, failure |-> x.failure, problems |-> P,
     early |-> x.early]

LEMMA PlainFields ==
    ASSUME NEW x, NEW P
    PROVE  /\ IsRec(Plain(x, P)) /\ Plain(x, P).problems = P
           /\ Plain(x, P).status = x.status /\ Plain(x, P).depth = x.depth
           /\ Plain(x, P).stack = x.stack /\ Plain(x, P).todo = x.todo
           /\ Plain(x, P).winner = x.winner /\ Plain(x, P).outcomes = x.outcomes
           /\ Plain(x, P).edges = x.edges /\ Plain(x, P).failure = x.failure
           /\ Plain(x, P).early = x.early
  BY DEF Plain, IsRec

LEMMA PlainIs ==
    ASSUME NEW x, IsRec(x)
    PROVE  Plain(x, x.problems) = x
  BY DEF Plain, IsRec

LEMMA PlainTwice ==
    ASSUME NEW x, NEW P, NEW Q
    PROVE  Plain(Plain(x, P), Q) = Plain(x, Q)
  <1> DEFINE y == Plain(x, P)
  <1>1. /\ y.status = x.status /\ y.depth = x.depth
        /\ y.stack = x.stack /\ y.todo = x.todo
        /\ y.winner = x.winner /\ y.outcomes = x.outcomes
        /\ y.edges = x.edges /\ y.failure = x.failure
        /\ y.early = x.early
    BY PlainFields
  <1> HIDE DEF y
  <1>2. Plain(y, Q) = Plain(x, Q)
    BY <1>1 DEF Plain
  <1> QED
    BY <1>2 DEF y

(* Fields are set with or without other problems in the record, in the     *)
(* combinations of the moves.                                              *)
SetEarly(x, a) == [x EXCEPT !.early = a]
SetStatus(x, a) == [x EXCEPT !.status = a]
SetTodo(x, a) == [x EXCEPT !.todo = a]
SetFailureTodo(x, a, b) == [x EXCEPT !.failure = a, !.todo = b]
SetFailureTodoOutcomes(x, a, b, c) ==
    [x EXCEPT !.failure = a, !.todo = b, !.outcomes = c]
SetWinnerStatus(x, a, b) == [x EXCEPT !.winner = a, !.status = b]
SetStatusWinner(x, a, b) == [x EXCEPT !.status = a, !.winner = b]
SetStatusFailure(x, a, b) == [x EXCEPT !.status = a, !.failure = b]
SetStackTodo(x, a, b) == [x EXCEPT !.stack = a, !.todo = b]
SetScan(x, a, b, c, d) ==
    [x EXCEPT !.stack = a, !.todo = b, !.edges = c, !.failure = d]

LEMMA PlainSetEarly ==
    ASSUME NEW x, NEW P, IsRec(x)
    PROVE  \A a : Plain(SetEarly(x, a), P) = SetEarly(Plain(x, P), a)
  <1> SUFFICES ASSUME NEW a
               PROVE  Plain(SetEarly(x, a), P) = SetEarly(Plain(x, P), a)
    OBVIOUS
  <1> QED
    BY DEF Plain, IsRec, SetEarly

LEMMA PlainSetStatus ==
    ASSUME NEW x, NEW P, IsRec(x), NEW a
    PROVE  Plain(SetStatus(x, a), P) = SetStatus(Plain(x, P), a)
  BY DEF Plain, IsRec, SetStatus

LEMMA PlainSetTodo ==
    ASSUME NEW x, NEW P, IsRec(x), NEW a
    PROVE  Plain(SetTodo(x, a), P) = SetTodo(Plain(x, P), a)
  BY DEF Plain, IsRec, SetTodo

LEMMA PlainSetFailureTodo ==
    ASSUME NEW x, NEW P, IsRec(x), NEW a, NEW b
    PROVE  Plain(SetFailureTodo(x, a, b), P) = SetFailureTodo(Plain(x, P), a, b)
  <1> DEFINE z == Plain(x, P)
             y1 == [x EXCEPT !.failure = a]
  <1>1. IsRec(y1)
    BY DEF IsRec
  <1>2. Plain(y1, P) = [z EXCEPT !.failure = a]
    BY DEF Plain, IsRec
  <1> HIDE DEF z, y1
  <1>3. Plain([y1 EXCEPT !.todo = b], P) = [z EXCEPT !.failure = a, !.todo = b]
    <2>1. Plain([y1 EXCEPT !.todo = b], P) = [Plain(y1, P) EXCEPT !.todo = b]
      BY <1>1 DEF Plain, IsRec
    <2> QED
      BY <1>2, <2>1
  <1> QED
    BY <1>3 DEF z, y1, SetFailureTodo

LEMMA PlainSetFailureTodoOutcomes ==
    ASSUME NEW x, NEW P, IsRec(x), NEW a, NEW b, NEW c
    PROVE  Plain(SetFailureTodoOutcomes(x, a, b, c), P) = SetFailureTodoOutcomes(Plain(x, P), a, b, c)
  <1> DEFINE z == Plain(x, P)
             y1 == [x EXCEPT !.failure = a]
             y2 == [y1 EXCEPT !.todo = b]
  <1>1. IsRec(y1)
    BY DEF IsRec
  <1>2. Plain(y1, P) = [z EXCEPT !.failure = a]
    BY DEF Plain, IsRec
  <1> HIDE DEF z, y1
  <1>3. IsRec(y2)
    BY <1>1 DEF IsRec
  <1>4. Plain(y2, P) = [z EXCEPT !.failure = a, !.todo = b]
    <2>1. Plain(y2, P) = [Plain(y1, P) EXCEPT !.todo = b]
      BY <1>1 DEF Plain, IsRec
    <2> QED
      BY <1>2, <2>1
  <1> HIDE DEF y2
  <1>5. Plain([y2 EXCEPT !.outcomes = c], P) = [z EXCEPT !.failure = a, !.todo = b, !.outcomes = c]
    <2>1. Plain([y2 EXCEPT !.outcomes = c], P) = [Plain(y2, P) EXCEPT !.outcomes = c]
      BY <1>3 DEF Plain, IsRec
    <2> QED
      BY <1>4, <2>1
  <1> QED
    BY <1>5 DEF z, y1, y2, SetFailureTodoOutcomes

LEMMA PlainSetWinnerStatus ==
    ASSUME NEW x, NEW P, IsRec(x), NEW a, NEW b
    PROVE  Plain(SetWinnerStatus(x, a, b), P) = SetWinnerStatus(Plain(x, P), a, b)
  <1> DEFINE z == Plain(x, P)
             y1 == [x EXCEPT !.winner = a]
  <1>1. IsRec(y1)
    BY DEF IsRec
  <1>2. Plain(y1, P) = [z EXCEPT !.winner = a]
    BY DEF Plain, IsRec
  <1> HIDE DEF z, y1
  <1>3. Plain([y1 EXCEPT !.status = b], P) = [z EXCEPT !.winner = a, !.status = b]
    <2>1. Plain([y1 EXCEPT !.status = b], P) = [Plain(y1, P) EXCEPT !.status = b]
      BY <1>1 DEF Plain, IsRec
    <2> QED
      BY <1>2, <2>1
  <1> QED
    BY <1>3 DEF z, y1, SetWinnerStatus

LEMMA PlainSetStatusWinner ==
    ASSUME NEW x, NEW P, IsRec(x), NEW a, NEW b
    PROVE  Plain(SetStatusWinner(x, a, b), P) = SetStatusWinner(Plain(x, P), a, b)
  <1> DEFINE z == Plain(x, P)
             y1 == [x EXCEPT !.status = a]
  <1>1. IsRec(y1)
    BY DEF IsRec
  <1>2. Plain(y1, P) = [z EXCEPT !.status = a]
    BY DEF Plain, IsRec
  <1> HIDE DEF z, y1
  <1>3. Plain([y1 EXCEPT !.winner = b], P) = [z EXCEPT !.status = a, !.winner = b]
    <2>1. Plain([y1 EXCEPT !.winner = b], P) = [Plain(y1, P) EXCEPT !.winner = b]
      BY <1>1 DEF Plain, IsRec
    <2> QED
      BY <1>2, <2>1
  <1> QED
    BY <1>3 DEF z, y1, SetStatusWinner

LEMMA PlainSetStatusFailure ==
    ASSUME NEW x, NEW P, IsRec(x), NEW a, NEW b
    PROVE  Plain(SetStatusFailure(x, a, b), P) = SetStatusFailure(Plain(x, P), a, b)
  <1> DEFINE z == Plain(x, P)
             y1 == [x EXCEPT !.status = a]
  <1>1. IsRec(y1)
    BY DEF IsRec
  <1>2. Plain(y1, P) = [z EXCEPT !.status = a]
    BY DEF Plain, IsRec
  <1> HIDE DEF z, y1
  <1>3. Plain([y1 EXCEPT !.failure = b], P) = [z EXCEPT !.status = a, !.failure = b]
    <2>1. Plain([y1 EXCEPT !.failure = b], P) = [Plain(y1, P) EXCEPT !.failure = b]
      BY <1>1 DEF Plain, IsRec
    <2> QED
      BY <1>2, <2>1
  <1> QED
    BY <1>3 DEF z, y1, SetStatusFailure

LEMMA PlainSetStackTodo ==
    ASSUME NEW x, NEW P, IsRec(x), NEW a, NEW b
    PROVE  Plain(SetStackTodo(x, a, b), P) = SetStackTodo(Plain(x, P), a, b)
  <1> DEFINE z == Plain(x, P)
             y1 == [x EXCEPT !.stack = a]
  <1>1. IsRec(y1)
    BY DEF IsRec
  <1>2. Plain(y1, P) = [z EXCEPT !.stack = a]
    BY DEF Plain, IsRec
  <1> HIDE DEF z, y1
  <1>3. Plain([y1 EXCEPT !.todo = b], P) = [z EXCEPT !.stack = a, !.todo = b]
    <2>1. Plain([y1 EXCEPT !.todo = b], P) = [Plain(y1, P) EXCEPT !.todo = b]
      BY <1>1 DEF Plain, IsRec
    <2> QED
      BY <1>2, <2>1
  <1> QED
    BY <1>3 DEF z, y1, SetStackTodo

LEMMA PlainSetScan ==
    ASSUME NEW x, NEW P, IsRec(x), NEW a, NEW b, NEW c, NEW d
    PROVE  Plain(SetScan(x, a, b, c, d), P) = SetScan(Plain(x, P), a, b, c, d)
  <1> DEFINE z == Plain(x, P)
             y1 == [x EXCEPT !.stack = a]
             y2 == [y1 EXCEPT !.todo = b]
             y3 == [y2 EXCEPT !.edges = c]
  <1>1. IsRec(y1)
    BY DEF IsRec
  <1>2. Plain(y1, P) = [z EXCEPT !.stack = a]
    BY DEF Plain, IsRec
  <1> HIDE DEF z, y1
  <1>3. IsRec(y2)
    BY <1>1 DEF IsRec
  <1>4. Plain(y2, P) = [z EXCEPT !.stack = a, !.todo = b]
    <2>1. Plain(y2, P) = [Plain(y1, P) EXCEPT !.todo = b]
      BY <1>1 DEF Plain, IsRec
    <2> QED
      BY <1>2, <2>1
  <1> HIDE DEF y2
  <1>5. IsRec(y3)
    BY <1>3 DEF IsRec
  <1>6. Plain(y3, P) = [z EXCEPT !.stack = a, !.todo = b, !.edges = c]
    <2>1. Plain(y3, P) = [Plain(y2, P) EXCEPT !.edges = c]
      BY <1>3 DEF Plain, IsRec
    <2> QED
      BY <1>4, <2>1
  <1> HIDE DEF y3
  <1>7. Plain([y3 EXCEPT !.failure = d], P) = [z EXCEPT !.stack = a, !.todo = b, !.edges = c, !.failure = d]
    <2>1. Plain([y3 EXCEPT !.failure = d], P) = [Plain(y3, P) EXCEPT !.failure = d]
      BY <1>5 DEF Plain, IsRec
    <2> QED
      BY <1>6, <2>1
  <1> QED
    BY <1>7 DEF z, y1, y2, y3, SetScan

LEMMA ScanPlain ==
    ASSUME NEW k, NEW x, NEW P, NEW n
    PROVE  /\ ScanEdges(k, Plain(x, P), n) = ScanEdges(k, x, n)
           /\ ScanFailure(k, Plain(x, P), n) = ScanFailure(k, x, n)
  <1> DEFINE z == Plain(x, P)
  <1>1. z.edges = x.edges /\ z.failure = x.failure
    BY PlainFields
  <1> HIDE DEF z
  <1>2. /\ ScanEdges(k, z, n) = ScanEdges(k, x, n)
        /\ ScanFailure(k, z, n) = ScanFailure(k, x, n)
    BY <1>1 DEF ScanEdges, ScanFailure
  <1> QED
    BY <1>2 DEF z

LEMMA BegunPlain ==
    ASSUME NEW k, NEW x, NEW P, NEW d
    PROVE  Begun(k, Plain(x, P), d) = Plain(Begun(k, x, d), P)
  <1> DEFINE z == Plain(x, P)
             y == Begun(k, x, d)
  <1>1. /\ z.winner = x.winner /\ z.outcomes = x.outcomes
        /\ z.problems = P /\ z.early = x.early
        /\ ScanEdges(k, z, k.leaf) = ScanEdges(k, x, k.leaf)
        /\ ScanFailure(k, z, k.leaf) = ScanFailure(k, x, k.leaf)
    BY PlainFields, ScanPlain
  <1> HIDE DEF z
  <1>2. /\ y.status = "search" /\ y.depth = d /\ y.stack = <<k.leaf>>
        /\ y.todo = <<ParentsIn(k, k.leaf)>> /\ y.winner = x.winner
        /\ y.outcomes = x.outcomes /\ y.edges = ScanEdges(k, x, k.leaf)
        /\ y.failure = ScanFailure(k, x, k.leaf) /\ y.early = x.early
    BY DEF Begun
  <1> HIDE DEF y
  <1>3. Plain(y, P) = Begun(k, z, d)
    BY <1>1, <1>2 DEF Plain, Begun
  <1> QED
    BY <1>3 DEF y, z

(* A move does not look at the problems found before.                      *)
LEMMA MovedPlain ==
    ASSUME NEW k, NEW x, NEW P, IsRec(x)
    PROVE  Moved(k, Plain(x, P)) = Plain(Moved(k, x), P)
  <1> DEFINE z == Plain(x, P)
  <1>1. /\ z.status = x.status /\ z.depth = x.depth
        /\ z.stack = x.stack /\ z.todo = x.todo
        /\ z.winner = x.winner /\ z.outcomes = x.outcomes
        /\ z.edges = x.edges /\ z.failure = x.failure
    BY PlainFields
  <1>2. \A n : /\ ScanEdges(k, z, n) = ScanEdges(k, x, n)
               /\ ScanFailure(k, z, n) = ScanFailure(k, x, n)
    BY ScanPlain
  <1>3. \A d : Begun(k, z, d) = Plain(Begun(k, x, d), P)
    BY BegunPlain
  <1>4. Started(k, z) = Plain(Started(k, x), P)
    <2>1. \A y : Started(k, y) =
             IF k.forged THEN SetEarly(y, TRUE)
             ELSE IF k.expired THEN SetStatus(y, "rejected")
             ELSE IF k.leaf \in k.anchors THEN SetStatusWinner(y, "accepted", <<k.leaf>>)
             ELSE Begun(k, y, 1)
      BY DEF Started, SetEarly, SetStatus, SetStatusWinner
    <2> DEFINE w == <<k.leaf>>
    <2>2. Plain(SetEarly(x, TRUE), P) = SetEarly(z, TRUE)
      <3> DEFINE yes == TRUE
      <3> HIDE DEF yes
      <3>1. Plain(SetEarly(x, yes), P) = SetEarly(z, yes)
        BY PlainSetEarly
      <3> QED
        BY <3>1 DEF yes
    <2>3. Plain(SetStatus(x, "rejected"), P) = SetStatus(z, "rejected")
      BY PlainSetStatus
    <2>4. Plain(SetStatusWinner(x, "accepted", w), P) = SetStatusWinner(z, "accepted", w)
      <3> HIDE DEF w
      <3> QED
        BY PlainSetStatusWinner
    <2>5. Begun(k, z, 1) = Plain(Begun(k, x, 1), P)
      BY <1>3
    <2> HIDE DEF z
    <2>6. CASE k.forged
      BY <2>1, <2>2, <2>6
    <2>7. CASE ~ k.forged /\ k.expired
      BY <2>1, <2>3, <2>7
    <2>8. CASE ~ k.forged /\ ~ k.expired /\ k.leaf \in k.anchors
      BY <2>1, <2>4, <2>8
    <2>9. CASE ~ k.forged /\ ~ k.expired /\ k.leaf \notin k.anchors
      BY <2>1, <2>5, <2>9
    <2> QED
      BY <2>6, <2>7, <2>8, <2>9
  <1>5. Visited(k, z) = Plain(Visited(k, x), P)
    <2> DEFINE ip(y) == Smallest(Last(y.todo))
               e(y) == <<Last(y.stack), ip(y)>>
               path(y) == Append(y.stack, ip(y))
               rest(y) == Rest(y.todo)
               f1(y) == NoteFailure(y, e(y), "LOOP")
               f2(y) == NoteFailure(y, e(y), "INTRINSIC")
               f3(y) == NoteFailure(y, e(y), "PATH_LEVEL")
               o(y) == Append(y.outcomes, path(y))
               t(y) == Append(rest(y), ParentsIn(k, ip(y)))
               g(y) == ScanEdges(k, y, ip(y))
               f4(y) == ScanFailure(k, y, ip(y))
    <2>1. \A y : Visited(k, y) =
             IF ip(y) \in Range(y.stack) THEN SetFailureTodo(y, f1(y), rest(y))
             ELSE IF ip(y) \in k.unfit THEN SetFailureTodo(y, f2(y), rest(y))
             ELSE IF ip(y) \in k.anchors /\ path(y) \in k.refused
               THEN SetFailureTodoOutcomes(y, f3(y), rest(y), o(y))
             ELSE IF ip(y) \in k.anchors THEN SetWinnerStatus(y, path(y), "accepted")
             ELSE IF y.depth - (Len(y.stack) - 1) > 1
               THEN SetScan(y, path(y), t(y), g(y), f4(y))
             ELSE SetTodo(y, rest(y))
      BY DEF Visited, SetFailureTodo, SetFailureTodoOutcomes, SetWinnerStatus,
             SetScan, SetTodo
    <2>2. /\ ip(z) = ip(x) /\ path(z) = path(x) /\ rest(z) = rest(x)
          /\ o(z) = o(x) /\ t(z) = t(x) /\ e(z) = e(x)
      <3> HIDE DEF z
      <3> QED
        BY <1>1
    <2>3. g(z) = g(x) /\ f4(z) = f4(x)
      <3> HIDE DEF ip, z
      <3> QED
        BY <1>2, <2>2
    <2>4. f1(z) = f1(x) /\ f2(z) = f2(x) /\ f3(z) = f3(x)
      <3> HIDE DEF e, z
      <3> QED
        BY <1>1, <2>2 DEF NoteFailure
    <2> HIDE DEF ip, e, path, rest, f1, f2, f3, o, t, g, f4
    <2>5. /\ Plain(SetFailureTodo(x, f1(x), rest(x)), P) = SetFailureTodo(z, f1(x), rest(x))
          /\ Plain(SetFailureTodo(x, f2(x), rest(x)), P) = SetFailureTodo(z, f2(x), rest(x))
      BY PlainSetFailureTodo
    <2>6. Plain(SetFailureTodoOutcomes(x, f3(x), rest(x), o(x)), P)
            = SetFailureTodoOutcomes(z, f3(x), rest(x), o(x))
      BY PlainSetFailureTodoOutcomes
    <2>7. Plain(SetWinnerStatus(x, path(x), "accepted"), P)
            = SetWinnerStatus(z, path(x), "accepted")
      BY PlainSetWinnerStatus
    <2>8. Plain(SetScan(x, path(x), t(x), g(x), f4(x)), P)
            = SetScan(z, path(x), t(x), g(x), f4(x))
      BY PlainSetScan
    <2>9. Plain(SetTodo(x, rest(x)), P) = SetTodo(z, rest(x))
      BY PlainSetTodo
    <2> HIDE DEF z
    <2> QED
      BY <1>1, <2>1, <2>2, <2>3, <2>4, <2>5, <2>6, <2>7, <2>8, <2>9
  <1>6. Left(k, z) = Plain(Left(k, x), P)
    <2> DEFINE Marks(y) == [e \in Edge |->
                 IF /\ e \in y.edges
                    /\ y.failure[e] = None
                    /\ RuleIn(k, e) = None
                    /\ e[2] \notin ReachingIn(k, y.edges)
                   THEN "NO_PATH_TO_ANCHOR" ELSE y.failure[e]]
    <2>1. \A y : Left(k, y) =
             IF Len(y.stack) > 1 THEN SetStackTodo(y, Front(y.stack), Front(y.todo))
             ELSE IF y.depth < MaxDepth THEN Begun(k, y, y.depth + 1)
             ELSE SetStatusFailure(y, "rejected", Marks(y))
      BY DEF Left, GivenUp, SetStackTodo, SetStatusFailure
    <2>2. Marks(z) = Marks(x)
      <3> HIDE DEF z
      <3> QED
        BY <1>1
    <2> HIDE DEF Marks
    <2>3. /\ Plain(SetStackTodo(x, Front(x.stack), Front(x.todo)), P)
                = SetStackTodo(z, Front(x.stack), Front(x.todo))
          /\ Plain(SetStatusFailure(x, "rejected", Marks(x)), P)
                = SetStatusFailure(z, "rejected", Marks(x))
      BY PlainSetStackTodo, PlainSetStatusFailure
    <2> HIDE DEF z
    <2> QED
      BY <1>1, <1>3, <2>1, <2>2, <2>3
  <1> HIDE DEF z
  <1>7. Moved(k, z) = Plain(Moved(k, x), P)
    BY <1>1, <1>4, <1>5, <1>6 DEF Moved
  <1> QED
    BY <1>7 DEF z

LEMMA MovePlain ==
    ASSUME NEW i, NEW x, IsRec(x), IsRec(Moved(i, x))
    PROVE  \A Q : Plain(Move(i, x), Q) = Plain(Moved(i, x), Q)
  <1> DEFINE y == Moved(i, x)
             more == More(i, x, y.stack)
             z == [y EXCEPT !.problems = more]
  <1>1. Move(i, x) = z
    BY DEF Move
  <1>2. z = Plain(y, more)
    <2> HIDE DEF y, more
    <2> QED
      BY DEF Plain, IsRec, y
  <1>3. \A Q : Plain(z, Q) = Plain(y, Q)
    <2> HIDE DEF y, z, more
    <2> QED
      BY <1>2, PlainTwice
  <1> HIDE DEF y, z
  <1>4. \A Q : Plain(Move(i, x), Q) = Plain(y, Q)
    BY <1>1, <1>3
  <1> QED
    BY <1>4 DEF y

(* The verifier's move from the same record with another list, of fewer or *)
(* the same problems.                                                      *)
LEMMA AlikeMove ==
    ASSUME NEW i \in Input, NEW C, NEW x, Fits(x),
           x.status \in {"start", "search"},
           Fits(Move(i, x)),
           EndsOf(Move(i, x).edges) \subseteq C,
           NEW P, Listed(P) \subseteq Listed(x.problems)
    PROVE  \E Q : /\ Listed(Q) \subseteq Listed(Move(i, x).problems)
                  /\ Move(WithinOf(i, C), Plain(x, P)) = Plain(Move(i, x), Q)
  <1> DEFINE j == WithinOf(i, C)
             y == Moved(i, x)
             w == Plain(x, P)
             z == Plain(y, P)
             more == More(j, w, y.stack)
  <1>1. IsRec(x) /\ IsRec(y)
    BY MovedIsRec DEF Fits
  <1>2. /\ Move(i, x).edges = y.edges /\ Move(i, x).stack = y.stack
        /\ Move(i, x).problems = More(i, x, y.stack)
    BY <1>1, MoveIs
  <1>3. Moved(j, x) = y
    BY <1>2, SameMoved
  <1>4. \A Q : Plain(Move(i, x), Q) = Plain(y, Q)
    BY <1>1, MovePlain
  <1>5. Moved(j, w) = z
    BY <1>1, <1>3, MovedPlain
  <1>6. /\ w.problems = P /\ w.status = x.status
        /\ z.stack = y.stack /\ IsRec(z)
    BY PlainFields
  <1>7. Move(j, w) = [z EXCEPT !.problems = more]
    <2> HIDE DEF j, y, z, w
    <2> QED
      BY <1>5, <1>6 DEF Move
  <1>8. [z EXCEPT !.problems = more] = Plain(y, more)
    <2>1. [z EXCEPT !.problems = more] = Plain(z, more)
      <3> HIDE DEF z, more
      <3> QED
        BY <1>6 DEF Plain, IsRec
    <2>2. Plain(z, more) = Plain(y, more)
      BY PlainTwice
    <2> QED
      BY <2>1, <2>2
  <1>9. Move(j, w) = Plain(Move(i, x), more)
    <2> HIDE DEF j, y, z, w, more
    <2> QED
      BY <1>4, <1>7, <1>8
  <1>10. y.stack # << >> => Last(y.stack) \in Node
    BY <1>2 DEF Fits
  <1>11. Listed(Beforehand(j, w)) \subseteq Listed(Beforehand(i, x))
    <2>1. Beforehand(j, w) = Beforehand(i, w)
      BY SameBefore
    <2>2. Listed(Beforehand(i, w)) =
             Listed(P) \cup
                (IF x.status = "start" /\ ~ i.forged
                   THEN ({"crl"} \X i.refusedCrls) \cup ({"ocsp"} \X i.refusedOcsps)
                   ELSE {})
      <3> HIDE DEF w
      <3> QED
        BY <1>6, BeforeLists
    <2> QED
      BY <2>1, <2>2, BeforeLists
  <1>12. Listed(more) \subseteq Listed(Move(i, x).problems)
    <2>1. Listed(Move(i, x).problems) =
             Listed(Beforehand(i, x)) \cup
                (IF y.stack = << >> THEN {}
                 ELSE {"certificate"} \X i.refusedCand[Last(y.stack)])
      <3> HIDE DEF y
      <3> QED
        BY <1>2, <1>10, MoreLists
    <2>2. CASE y.stack = << >>
      <3>1. more = Beforehand(j, w)
        BY <2>2 DEF More
      <3> QED
        BY <1>11, <2>1, <2>2, <3>1
    <2>3. CASE y.stack # << >>
      <3> DEFINE n == Last(y.stack)
                 before == Beforehand(j, w)
      <3>0. n \in Node
        BY <1>10, <2>3
      <3>1. j.refusedCand[n] = i.refusedCand[n] \cap C /\ i.refusedCand[n] \subseteq Nat
        <4> HIDE DEF n
        <4>1. j.refusedCand[n] = i.refusedCand[n] \cap C
          BY <3>0, WithinFields
        <4>2. i.refusedCand[n] \subseteq Nat
          BY <3>0, PackageType
        <4> QED
          BY <4>1, <4>2
      <3>2. more = Noting(before, "certificate", j.refusedCand[n], Number)
        BY <2>3 DEF More
      <3>3. j.refusedCand[n] \in SUBSET Nat
        BY <3>1
      <3>4. Listed(more) = Listed(before) \cup ({"certificate"} \X j.refusedCand[n])
        <4> HIDE DEF n, before, j, more
        <4>1. Listed(more) = With(before, "certificate", j.refusedCand[n])
          BY <3>2, <3>3, NotingLists
        <4> QED
          BY <4>1 DEF With
      <3> QED
        BY <1>11, <2>1, <2>3, <3>1, <3>4
    <2> QED
      BY <2>2, <2>3
  <1> QED
    BY <1>9, <1>12

(* Where the verifier is, whatever the set and its anchors are like.       *)
NearMove(i, h, n, k) ==
    /\ Traced(i, h, n) /\ Final(h[n])
    /\ result = OutcomeOf(h[n])
    /\ in = WithinOf(i, ReferencesOf(i, h[n]))
    /\ k \in 0 .. n
    /\ Rec = Plain(h[k], problems)
    /\ Listed(problems) \subseteq Listed(h[k].problems)

Near == Pending /\ \E i, h, n, k : NearMove(i, h, n, k)

(* Where the verifier's verdict is not that the results are the same, only *)
(* early results lack their leaf, and other results differ in their lists  *)
(* of what does not parse: the verifier's is shorter or in another order.  *)
AgreesOtherwise ==
    /\ mode = "error" => in.forged /\ in.leaf \notin in.anchors
    /\ mode = "different" => /\ Outcome = [result EXCEPT !.problems = problems]
                             /\ Listed(problems) \subseteq Listed(result.problems)

NearInv ==
    /\ mode = "service" => Serving
    /\ mode = "offline" => Near
    /\ AgreesOtherwise

LEMMA NearGoesOn ==
    ASSUME Near, Search \/ EarlyReject
    PROVE  Near'
  <1>1. PICK i, h, n, k : NearMove(i, h, n, k)
    BY DEF Near
  <1>2. /\ Rec' = Move(in, Rec) /\ in' = in /\ result' = result
        /\ ~ Final(Rec) /\ Pending'
    BY StepIsMove DEF Near
  <1>3. Traced(i, h, n) /\ n \in Nat /\ i \in Input /\ k \in 0 .. n
    BY <1>1 DEF NearMove, Traced
  <1> DEFINE C == ReferencesOf(i, h[n])
             x == h[k]
  <1>4. /\ Rec = Plain(x, problems) /\ in = WithinOf(i, C)
        /\ Listed(problems) \subseteq Listed(x.problems)
    BY <1>1 DEF NearMove
  <1>5. Final(Rec) <=> Final(x)
    BY <1>4, PlainFields DEF Final
  <1>6. k # n
    BY <1>1, <1>2, <1>5 DEF NearMove
  <1>7. k \in 0 .. n - 1 /\ k + 1 \in 0 .. n
    BY <1>3, <1>6
  <1>8. /\ h[k + 1] = Move(i, x)
        /\ x.status \in {"start", "search"}
        /\ Fits(x) /\ Fits(Move(i, x))
        /\ Move(i, x).edges \subseteq h[n].edges
    BY <1>3, <1>7 DEF Traced
  <1>9. EndsOf(Move(i, x).edges) \subseteq C
    <2>1. EndsOf(h[n].edges) \subseteq C
      BY DEF ReferencesOf
    <2>2. EndsOf(Move(i, x).edges) \subseteq EndsOf(h[n].edges)
      BY <1>8 DEF EndsOf
    <2> QED
      BY <2>1, <2>2
  <1> HIDE DEF C, x
  <1>10. PICK Q : /\ Listed(Q) \subseteq Listed(Move(i, x).problems)
                  /\ Move(WithinOf(i, C), Plain(x, problems)) = Plain(Move(i, x), Q)
    BY <1>3, <1>4, <1>8, <1>9, AlikeMove
  <1>11. Rec' = Plain(h[k + 1], Q) /\ Listed(Q) \subseteq Listed(h[k + 1].problems)
    BY <1>2, <1>4, <1>8, <1>10
  <1>12. problems' = Q
    BY <1>11, PlainFields DEF Rec
  <1>13. NearMove(i, h, n, k + 1)'
    BY <1>1, <1>2, <1>7, <1>11, <1>12 DEF NearMove
  <1> QED
    BY <1>2, <1>13 DEF Near

LEMMA VerifyingIsNear == Verifying => Near
  <1> SUFFICES ASSUME Verifying PROVE Near
    OBVIOUS
  <1>1. PICK i, h, n, k : AtMove(i, h, n, k)
    BY DEF Verifying
  <1>2. i \in Input /\ n \in Nat /\ h[0] = First(i)
    BY <1>1 DEF AtMove, Traced
  <1>3. k \in 0 .. n
    BY <1>1, <1>2 DEF AtMove
  <1>4. /\ Rec = Plain(h[k], problems)
        /\ Listed(problems) \subseteq Listed(h[k].problems)
    <2>1. CASE k = 0
      <3>1. Rec = First(in)
        BY <1>1, <2>1 DEF AtMove
      <3>2. in.indexed
        <4> DEFINE C == ReferencesOf(i, h[n])
        <4> HIDE DEF C
        <4>1. WithinOf(i, C).indexed
          BY <1>2, PackageType DEF WithinOf
        <4> QED
          BY <1>1, <4>1 DEF AtMove, C
      <3>3. First(in) = Plain(First(i), {})
        BY <3>2 DEF First, Plain
      <3>4. problems = {} /\ Listed({}) = {}
        BY <3>1, <3>3, PlainFields, RecFields DEF Listed
      <3> QED
        BY <1>2, <2>1, <3>1, <3>3, <3>4
    <2>2. CASE k # 0
      <3>1. Rec = h[k] /\ IsRec(h[k])
        BY <1>1, <1>3, <2>2 DEF AtMove, Traced, Fits
      <3>2. problems = h[k].problems
        BY <3>1, RecFields
      <3> QED
        BY <3>1, <3>2, PlainIs
    <2> QED
      BY <2>1, <2>2
  <1>5. NearMove(i, h, n, k)
    BY <1>1, <1>3, <1>4 DEF AtMove, NearMove
  <1> QED
    BY <1>5 DEF Verifying, Near

LEMMA ExportIsNear ==
    ASSUME Serving, Export
    PROVE  Near'
  <1>1. Verifying'
    BY ExportStarts
  <1>2. Verifying' => Near'
    BY VerifyingIsNear, PTL
  <1> QED
    BY <1>1, <1>2

LEMMA CompareIsNear ==
    ASSUME Near, Compare
    PROVE  /\ Outcome = [result EXCEPT !.problems = problems]
           /\ Listed(problems) \subseteq Listed(result.problems)
  <1>1. PICK i, h, n, k : NearMove(i, h, n, k)
    BY DEF Near
  <1> DEFINE x == h[k]
  <1>2. Final(Rec)
    BY RecFields DEF Compare, Decided, Final
  <1>3. Rec = Plain(x, problems) /\ Listed(problems) \subseteq Listed(x.problems)
    BY <1>1 DEF NearMove
  <1>4. Final(x)
    BY <1>2, <1>3, PlainFields DEF Final
  <1>5. k = n
    <2>1. n \in Nat /\ k \in 0 .. n
      BY <1>1 DEF NearMove, Traced
    <2>2. k \in 0 .. n - 1 => ~ Final(x)
      BY <1>1 DEF NearMove, Traced
    <2> QED
      BY <1>4, <2>1, <2>2
  <1>6. result = OutcomeOf(x)
    BY <1>1, <1>5 DEF NearMove
  <1> DEFINE z == Plain(x, problems)
  <1>7. Outcome = OutcomeOf(z)
    BY <1>3, OutcomeIs
  <1>8. /\ z.status = x.status /\ z.early = x.early /\ z.winner = x.winner
        /\ z.problems = problems /\ z.edges = x.edges
        /\ z.outcomes = x.outcomes /\ z.failure = x.failure
    BY PlainFields
  <1> HIDE DEF x, z
  <1>9. OutcomeOf(z) = [OutcomeOf(x) EXCEPT !.problems = problems]
    BY <1>8 DEF OutcomeOf
  <1>10. OutcomeOf(x).problems = x.problems
    BY DEF OutcomeOf
  <1> QED
    BY <1>3, <1>6, <1>7, <1>9, <1>10

(* Whatever the set, its index and its anchors are like: a leaf is missing *)
(* in a package only for an early result about an anchor that is not       *)
(* self-signed, and if the verifier's result is another one, it is another *)
(* list of the evidence that does not parse, a shorter one or the same     *)
(* pieces in another order, and nothing else: status, path, edges, refused *)
(* paths and failures are the same.                                        *)
THEOREM VerifierAgreesOtherwise == PackageSpec => []AgreesOtherwise
  <1>1. PackageInit => NearInv
    BY ServingStarts DEF PackageInit, NearInv, AgreesOtherwise
  <1>2. ASSUME NearInv, [PackageNext]_packageVars
        PROVE  NearInv'
    <2>1. CASE Search \/ EarlyReject
      <3>1. mode' = mode /\ mode \in {"service", "offline"}
        BY <2>1 DEF Search, EarlyReject
      <3>2. CASE mode = "service"
        BY <1>2, <2>1, <3>1, <3>2, ServingGoesOn DEF NearInv, AgreesOtherwise
      <3>3. CASE mode = "offline"
        BY <1>2, <2>1, <3>1, <3>3, NearGoesOn DEF NearInv, AgreesOtherwise
      <3> QED
        BY <3>1, <3>2, <3>3
    <2>2. CASE Export
      <3>1. Serving /\ Decided
        BY <1>2, <2>2 DEF Export, NearInv
      <3>2. Near'
        BY <2>2, <3>1, ExportIsNear
      <3>3. mode' = IF in.leaf \in References THEN "offline" ELSE "error"
        BY <2>2 DEF Export
      <3>4. mode' = "error" => in'.forged /\ in'.leaf \notin in'.anchors
        <4>1. in \in Input /\ in' = WithinOf(in, References)
          BY <2>2, <3>1 DEF Serving, Inv, Export, Within, WithinOf
        <4>2. /\ in'.forged = in.forged /\ in'.leaf = in.leaf
              /\ in'.anchors = in.anchors
          BY <4>1, WithinFields
        <4>3. mode' = "error" => in.leaf \notin References
          BY <3>3
        <4> QED
          BY <3>1, <4>2, <4>3, LeafIsBundled
      <3> QED
        BY <3>2, <3>3, <3>4 DEF NearInv, AgreesOtherwise
    <2>3. CASE Compare
      <3>1. Near
        BY <1>2, <2>3 DEF Compare, NearInv
      <3>2. /\ Outcome = [result EXCEPT !.problems = problems]
            /\ Listed(problems) \subseteq Listed(result.problems)
        BY <2>3, <3>1, CompareIsNear
      <3>3. Outcome' = Outcome /\ result' = result /\ problems' = problems
        BY <2>3 DEF Compare, Outcome, vars
      <3>4. mode' \in {"same", "different"}
        BY <2>3 DEF Compare
      <3> QED
        BY <3>2, <3>3, <3>4 DEF NearInv, AgreesOtherwise
    <2>4. CASE UNCHANGED packageVars
      <3>1. /\ in' = in /\ Rec' = Rec /\ result' = result /\ mode' = mode
            /\ status' = status /\ stack' = stack /\ early' = early
            /\ problems' = problems /\ Outcome' = Outcome
        BY <2>4 DEF packageVars, vars, Rec, Outcome
      <3>2. Pending => Pending'
        BY <3>1 DEF Pending
      <3>3. Inv => Inv'
        <4>1. [Next]_vars
          BY <2>4 DEF packageVars
        <4> QED
          BY <4>1, Inductive
      <3>4. Serving => Serving'
        BY <3>1, <3>2, <3>3 DEF Serving
      <3>5. \A i, h, n, k : NearMove(i, h, n, k) => NearMove(i, h, n, k)'
        BY <3>1 DEF NearMove
      <3>6. Near => Near'
        BY <3>2, <3>5 DEF Near
      <3>7. AgreesOtherwise => AgreesOtherwise'
        BY <3>1 DEF AgreesOtherwise
      <3> QED
        BY <1>2, <3>1, <3>4, <3>6, <3>7 DEF NearInv
    <2> QED
      BY <1>2, <2>1, <2>2, <2>3, <2>4 DEF PackageNext
  <1>3. NearInv => AgreesOtherwise
    BY DEF NearInv
  <1> QED
    BY <1>1, <1>2, <1>3, PTL DEF PackageSpec

==============================================================================
