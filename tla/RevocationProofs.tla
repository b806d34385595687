--------------------------- MODULE RevocationProofs ---------------------------
(***************************************************************************)
(* Proofs about Revocation, for any evidence, certificate and times.       *)
(***************************************************************************)
EXTENDS Revocation, FiniteSetTheorems, WellFoundedInduction,
        NaturalsInduction, TLAPS

(* What the engine has found decisive is so by the evidence alone.         *)
Sound ==
    \A u \in usable : /\ u.from \in Nat /\ u.rank \in {0, 1}
                      /\ u.status = "GOOD" => Cleared
                      /\ u.status = "REVOKED" => Condemned

(* Only items of the family at hand are left.                              *)
Placed == /\ pc = "crl" => left \subseteq Bases
          /\ pc = "ocsp" => left \subseteq Responses

(* An item that had to be found decisive was, if it has been looked at.    *)
BasesSeen ==
    \A b \in Bases :
        (/\ pc = "crl" => b \notin left
         /\ Trusted(b) /\ InScope(b) /\ Current(b) /\ Deltas(b) = {})
            => \E u \in usable : u.from = b.from

ResponsesSeen ==
    \A r \in Responses :
        (/\ pc # "crl" /\ (pc = "ocsp" => r \notin left)
         /\ TrustedResponse(r) /\ Decides(r))
            => \E u \in usable : u.from = r.from /\ u.rank = 0

(* The decision is that of a first item.                                   *)
Decided ==
    \/ /\ selected = None
       /\ conclusion \notin {"GOOD", "REVOKED"}
    \/ /\ pc = "done"
       /\ selected \in usable /\ conclusion = selected.status
       /\ \A v \in usable : Precedes(selected, v)

Inv == /\ in \in Input
       /\ IsFiniteSet(usable)
       /\ TypeOK /\ Sound /\ Placed /\ BasesSeen /\ ResponsesSeen /\ Decided

------------------------------------------------------------------------------
(* The delta that goes with a complete CRL *)

Beats(d, e) == Rank(d) > Rank(e) \/ (Rank(d) = Rank(e) /\ d.fp < e.fp)

LEMMA LeastNumber ==
    ASSUME NEW T, T \subseteq Nat, T # {}
    PROVE  \E t \in T : \A u \in T : t <= u
<1> DEFINE less == OpToRel(<, Nat)
<1>1. \A t, u \in Nat : u < t => <<u, t>> \in less
  BY DEF OpToRel
<1>2. IsWellFoundedOn(less, Nat)
  BY NatLessThanWellFounded
<1> HIDE DEF less
<1>3. PICK t \in T : \A u \in T : ~ (<<u, t>> \in less)
  BY <1>2, WFMin
<1>4. ASSUME NEW u \in T PROVE t <= u
  <2>1. t \in Nat /\ u \in Nat
    OBVIOUS
  <2>2. ~ (u < t)
    BY <1>1, <1>3, <2>1
  <2> QED BY <2>1, <2>2
<1> QED
  BY <1>4

(* Of finitely many deltas one beats all others: a set without such a      *)
(* delta would have a smallest subset without one.                         *)
LEMMA BestExists ==
    ASSUME NEW S, S \subseteq Crl, IsFiniteSet(S), S # {},
           \A x, y \in S : x.fp = y.fp => x = y
    PROVE  \E d \in S : \A e \in S \ {d} : Beats(d, e)
<1> DEFINE Best(T) == \E d \in T : \A e \in T \ {d} : Beats(d, e)
           Bad == {T \in SUBSET S : T # {} /\ ~ Best(T)}
           Sizes == {Cardinality(T) : T \in Bad}
<1>1. \A T \in SUBSET S : IsFiniteSet(T) /\ Cardinality(T) \in Nat
  BY FS_Subset, FS_CardinalityType
<1>2. \A x, y \in S : x = y \/ Beats(x, y) \/ Beats(y, x)
  BY DEF Beats, Rank, Crl
<1>3. \A x, y, z \in S : Beats(x, y) /\ Beats(y, z) => Beats(x, z)
  BY DEF Beats, Rank, Crl
<1>4. ASSUME Bad # {} PROVE FALSE
  <2>1. Sizes \subseteq Nat /\ Sizes # {}
    BY <1>1, <1>4
  <2>2. PICK T \in Bad : \A U \in Bad : Cardinality(T) <= Cardinality(U)
    <3>1. PICK n \in Sizes : \A k \in Sizes : n <= k
      <4> HIDE DEF Sizes
      <4> QED BY <2>1, LeastNumber
    <3>2. PICK T \in Bad : n = Cardinality(T)
      BY <3>1
    <3>3. \A U \in Bad : Cardinality(U) \in Sizes
      OBVIOUS
    <3> HIDE DEF Bad, Sizes
    <3> QED BY <3>1, <3>2, <3>3
  <2>3. PICK x \in T : TRUE
    BY <2>2
  <2> DEFINE U == T \ {x}
  <2>4. /\ T \subseteq S /\ U \subseteq S /\ T = U \cup {x} /\ x \notin U
        /\ Cardinality(U) = Cardinality(T) - 1
    <3>1. IsFiniteSet(T)
      BY <1>1, <2>2
    <3>2. Cardinality(U) = Cardinality(T) - 1
      BY <2>3, <3>1, FS_RemoveElement
    <3> QED BY <2>2, <2>3, <3>2
  <2>5. U \notin Bad
    <3>1. Cardinality(T) \in Nat /\ Cardinality(U) \in Nat
      BY <1>1, <2>4
    <3>2. ~ (Cardinality(T) <= Cardinality(U))
      BY <2>4, <3>1
    <3> QED BY <2>2, <3>2
  <2>6. CASE U = {}
    BY <2>2, <2>3, <2>6
  <2>7. CASE U # {}
    <3>1. PICK m \in U : \A e \in U \ {m} : Beats(m, e)
      BY <2>4, <2>5, <2>7
    <3>2. CASE Beats(m, x)
      BY <2>2, <2>4, <3>1, <3>2
    <3>3. CASE Beats(x, m)
      <4>1. \A e \in T \ {x} : Beats(x, e)
        BY <1>3, <2>3, <2>4, <3>1, <3>3
      <4> QED BY <2>2, <2>3, <4>1
    <3> QED BY <1>2, <2>3, <2>4, <3>1, <3>2, <3>3
  <2> QED BY <2>6, <2>7
<1> QED
  BY <1>4

(* _crl_candidates pairs a base with one of its deltas, if it has any.     *)
LEMMA ChosenFits ==
    ASSUME in \in Input, NEW b
    PROVE  IF Deltas(b) = {} THEN ChosenDelta(b) = None
                             ELSE ChosenDelta(b) \in Deltas(b)
<1>1. CASE Deltas(b) = {}
  BY <1>1 DEF ChosenDelta, ChosenOf
<1>2. CASE Deltas(b) # {}
  <2> DEFINE S == Deltas(b)
  <2>1. S \subseteq in.crls
    BY DEF Deltas
  <2>2. S \subseteq Crl /\ IsFiniteSet(S) /\ \A x, y \in S : x.fp = y.fp => x = y
    BY <2>1, InputType, Fingerprints, FS_Subset
  <2>3. \E d \in S : \A e \in S \ {d} : Beats(d, e)
    <3> HIDE DEF S
    <3> QED BY <1>2, <2>2, BestExists DEF S
  <2> QED
    BY <1>2, <2>3 DEF ChosenDelta, ChosenOf, Beats
<1> QED
  BY <1>1, <1>2

(* What is merged with a trusted base makes a combination of trusted CRLs. *)
LEMMA UsedIsTrusted ==
    ASSUME in \in Input, NEW b \in Bases, ~ Late(b), InScope(b), b.signed
    PROVE  /\ <<b, UsableDelta(b)>> \in Combos
           /\ TrustedCombo(<<b, UsableDelta(b)>>)
           /\ Deltas(b) = {} => UsableDelta(b) = None
<1> DEFINE d == UsableDelta(b)
<1>1. b \in in.crls /\ Candidate(b) /\ Trusted(b)
  <2>1. b \in Crl /\ b.at \in Nat /\ in.cutoff \in Nat
    BY InputType DEF Bases, Crl, Time
  <2> QED BY <2>1 DEF Bases, Trusted, InTime, Late
<1>2. CASE d = None
  BY <1>1, <1>2 DEF Combos, TrustedCombo, Parts
<1>3. CASE d # None
  <2>1. d = ChosenDelta(b) /\ ~ Late(d) /\ d.signed
    BY <1>3 DEF UsableDelta
  <2>2. d \in Deltas(b)
    BY <1>3, <2>1, ChosenFits
  <2>3. d \in in.crls /\ d.at \in Nat /\ in.cutoff \in Nat /\ Candidate(d)
    BY <2>2, InputType DEF Deltas, Crl, Time
  <2>4. Trusted(d)
    BY <2>1, <2>3 DEF Trusted, InTime, Late
  <2> QED
    BY <1>1, <2>2, <2>3, <2>4 DEF Combos, TrustedCombo, Parts
<1>4. Deltas(b) = {} => d = None
  BY ChosenFits DEF UsableDelta
<1> QED
  BY <1>2, <1>3, <1>4

(* The evidence does not change, nor what it says.                         *)
LEMMA Frame ==
    ASSUME in' = in
    PROVE  /\ Cleared' <=> Cleared
           /\ Condemned' <=> Condemned
           /\ Bases' = Bases /\ Responses' = Responses
           /\ \A b : /\ Trusted(b)' <=> Trusted(b)
                     /\ InScope(b)' <=> InScope(b)
                     /\ Current(b)' <=> Current(b)
                     /\ Deltas(b)' = Deltas(b)
           /\ \A r : /\ TrustedResponse(r)' <=> TrustedResponse(r)
                     /\ Decides(r)' <=> Decides(r)
<1>1. /\ Bases' = Bases /\ Responses' = Responses
      /\ \A b : /\ Trusted(b)' <=> Trusted(b)
                /\ InScope(b)' <=> InScope(b)
                /\ Current(b)' <=> Current(b)
                /\ Deltas(b)' = Deltas(b)
                /\ Listed(b)' <=> Listed(b)
      /\ \A r : /\ TrustedResponse(r)' <=> TrustedResponse(r)
                /\ Decides(r)' <=> Decides(r)
                /\ RevokedBy(r)' <=> RevokedBy(r)
                /\ RevokedLater(r)' <=> RevokedLater(r)
  BY DEF Bases, Responses, Candidate, Trusted, InTime, InScope, Current, Deltas,
         Listed, TrustedResponse, Answers, Decides, RevokedBy, RevokedLater
<1>2. Combos' = Combos
  BY <1>1 DEF Combos
<1>3. \A c : /\ TrustedCombo(c)' <=> TrustedCombo(c)
             /\ CurrentCombo(c)' <=> CurrentCombo(c)
             /\ Listed(Merged(c[1], c[2]))' <=> Listed(Merged(c[1], c[2]))
  BY <1>1 DEF TrustedCombo, CurrentCombo, Parts, Merged, Listed
<1> QED
  BY <1>1, <1>2, <1>3 DEF Cleared, Condemned

------------------------------------------------------------------------------
(* The engine's steps *)

LEMMA Initially == Init => Inv
<1> SUFFICES ASSUME Init PROVE Inv
  OBVIOUS
<1>1. IsFiniteSet(usable) /\ \A n : {u \in usable : u.rank = n} = {}
  BY FS_EmptySet DEF Init
<1>2. TypeOK
  BY <1>1, FS_EmptySet DEF Init, TypeOK, Bases, Families
<1>3. Sound /\ Placed /\ BasesSeen /\ ResponsesSeen /\ Decided
  BY NoneIsNoConclusion
     DEF Init, Sound, Placed, BasesSeen, ResponsesSeen, Decided
<1> QED
  BY <1>1, <1>2, <1>3 DEF Init, Inv

(* A look at an item that is not decisive keeps what was found.            *)
LEMMA NothingFound ==
    ASSUME Inv, pc \in {"crl", "ocsp"}, NEW x \in left, Next1(x),
           usable' = usable,
           pc = "crl" => ~ (/\ Trusted(x) /\ InScope(x) /\ Current(x)
                            /\ Deltas(x) = {}),
           pc = "ocsp" => ~ (TrustedResponse(x) /\ Decides(x))
    PROVE  Sound' /\ Placed' /\ BasesSeen' /\ ResponsesSeen' /\ Decided'
<1>1. in' = in /\ pc' = pc /\ left' = left \ {x}
      /\ selected' = selected /\ conclusion' = conclusion
  BY DEF Next1
<1>2. Sound' /\ Decided'
  BY <1>1, Frame DEF Inv, Sound, Decided, Precedes
<1>3. Placed' /\ BasesSeen' /\ ResponsesSeen'
  BY <1>1, Frame DEF Inv, Placed, BasesSeen, ResponsesSeen
<1> QED
  BY <1>2, <1>3

(* A decisive item is added to those found.                                *)
LEMMA OneFound ==
    ASSUME Inv, pc \in {"crl", "ocsp"}, NEW x \in left, Next1(x), NEW u,
           usable' = usable \cup {u},
           u.from \in Nat, u.rank \in {0, 1},
           u.status = "GOOD" => Cleared,
           u.status = "REVOKED" => Condemned,
           pc = "crl" => (Deltas(x) = {} => u.from = x.from),
           pc = "ocsp" => u.from = x.from /\ u.rank = 0
    PROVE  Sound' /\ Placed' /\ BasesSeen' /\ ResponsesSeen' /\ Decided'
<1>1. in' = in /\ pc' = pc /\ left' = left \ {x}
      /\ selected' = selected /\ conclusion' = conclusion
  BY DEF Next1
<1>2. Sound'
  BY <1>1, Frame DEF Inv, Sound
<1>3. Decided'
  BY <1>1 DEF Inv, Decided
<1>4. Placed'
  BY <1>1, Frame DEF Inv, Placed
<1>5. u \in usable' /\ usable \subseteq usable'
  OBVIOUS
<1>6. BasesSeen'
  BY <1>1, <1>5, Frame DEF Inv, BasesSeen
<1>7. ResponsesSeen'
  BY <1>1, <1>5, Frame DEF Inv, ResponsesSeen
<1> QED
  BY <1>2, <1>3, <1>4, <1>6, <1>7

(* The tallies *)

Ranked(S, n) == {u \in S : u.rank = n}

LEMMA RankedGrows ==
    ASSUME NEW S, IsFiniteSet(S), NEW u, NEW n
    PROVE  /\ IsFiniteSet(S \cup {u})
           /\ Cardinality(Ranked(S, n)) \in Nat
           /\ Cardinality(Ranked(S \cup {u}, n)) \in Nat
           /\ Cardinality(Ranked(S \cup {u}, n)) <= Cardinality(Ranked(S, n)) + 1
           /\ u.rank # n => Ranked(S \cup {u}, n) = Ranked(S, n)
<1>1. IsFiniteSet(S \cup {u}) /\ IsFiniteSet(Ranked(S, n))
  BY FS_AddElement, FS_Subset DEF Ranked
<1>2. Cardinality(Ranked(S, n)) \in Nat
  BY <1>1, FS_CardinalityType
<1>3. CASE u.rank # n
  <2>1. Ranked(S \cup {u}, n) = Ranked(S, n)
    BY <1>3 DEF Ranked
  <2> QED BY <1>1, <1>2, <2>1
<1>4. CASE u.rank = n
  <2>1. Ranked(S \cup {u}, n) = Ranked(S, n) \cup {u}
    BY <1>4 DEF Ranked
  <2>2. Cardinality(Ranked(S, n) \cup {u})
           = IF u \in Ranked(S, n) THEN Cardinality(Ranked(S, n))
                                   ELSE Cardinality(Ranked(S, n)) + 1
    BY <1>1, FS_AddElement
  <2>3. Cardinality(Ranked(S \cup {u}, n)) \in
           {Cardinality(Ranked(S, n)), Cardinality(Ranked(S, n)) + 1}
    BY <2>1, <2>2
  <2> HIDE DEF Ranked
  <2> QED BY <1>1, <1>2, <1>4, <2>3
<1> QED
  BY <1>3, <1>4

RankOf(f) == IF f = "ocsp" THEN 0 ELSE 1

Tallied ==
    /\ tally \in [Families -> [scope : Nat, crypto : Nat, stale : BOOLEAN]]
    /\ \A f \in Families :
          tally[f].scope >= tally[f].crypto + Cardinality(Ranked(usable, RankOf(f)))

(* A look counts the item with its family; a decisive one is of its rank.  *)
LEMMA TallyStep ==
    ASSUME Tallied, IsFiniteSet(usable), pc \in Families,
           \/ usable' = usable /\ (tally' = tally \/ Failed \/ Stale)
           \/ /\ InTally
              /\ \E u : u.rank = RankOf(pc) /\ usable' = usable \cup {u}
    PROVE  Tallied' /\ IsFiniteSet(usable')
<1> DEFINE Count(f) == Cardinality(Ranked(usable, RankOf(f)))
<1>1. \A f \in Families : Count(f) \in Nat
  <2>1. \A f : IsFiniteSet(Ranked(usable, RankOf(f)))
    BY FS_Subset DEF Ranked
  <2> QED BY <2>1, FS_CardinalityType
<1>2. CASE usable' = usable /\ (tally' = tally \/ Failed \/ Stale)
  <2>1. \A f \in Families : Count(f)' = Count(f)
    BY <1>2 DEF Ranked, RankOf
  <2> HIDE DEF Count
  <2>2. \A f \in Families : tally'[f].scope >= tally'[f].crypto + Count(f)
    <3> SUFFICES ASSUME NEW f \in Families
                 PROVE  tally'[f].scope >= tally'[f].crypto + Count(f)
      OBVIOUS
    <3>1. tally[f].scope >= tally[f].crypto + Count(f)
      BY DEF Tallied, Count
    <3> QED
      BY <1>1, <1>2, <3>1 DEF Tallied, Failed, Stale
  <2>3. tally' \in [Families -> [scope : Nat, crypto : Nat, stale : BOOLEAN]]
    BY <1>2 DEF Tallied, Failed, Stale
  <2> QED
    BY <1>2, <2>1, <2>2, <2>3 DEF Tallied, Count
<1>3. ASSUME InTally, NEW u, u.rank = RankOf(pc), usable' = usable \cup {u}
      PROVE  Tallied' /\ IsFiniteSet(usable')
  <2>1. /\ IsFiniteSet(usable')
        /\ \A f \in Families :
              /\ Count(f)' \in Nat
              /\ Count(f)' <= Count(f) + 1
              /\ f # pc => Count(f)' = Count(f)
    <3>1. \A f : Count(f)' = Cardinality(Ranked(usable \cup {u}, RankOf(f)))
      BY <1>3 DEF Ranked, RankOf
    <3>2. \A f \in Families : f # pc => u.rank # RankOf(f)
      BY <1>3 DEF RankOf, Families
    <3> QED BY <1>3, <3>1, <3>2, RankedGrows
  <2> HIDE DEF Count
  <2>2. \A f \in Families : tally'[f].scope >= tally'[f].crypto + Count(f)'
    <3> SUFFICES ASSUME NEW f \in Families
                 PROVE  tally'[f].scope >= tally'[f].crypto + Count(f)'
      OBVIOUS
    <3>1. tally[f].scope >= tally[f].crypto + Count(f)
      BY DEF Tallied, Count
    <3> QED
      BY <1>1, <1>3, <2>1, <3>1 DEF Tallied, InTally
  <2>3. tally' \in [Families -> [scope : Nat, crypto : Nat, stale : BOOLEAN]]
    BY <1>3 DEF Tallied, InTally
  <2> QED
    BY <2>1, <2>2, <2>3 DEF Tallied, Count
<1> QED
  BY <1>2, <1>3

(* Without the tallies, the types of a look.                               *)
LEMMA LookTypes ==
    ASSUME Inv, pc \in {"crl", "ocsp"}, NEW x \in left, Next1(x),
           Tallied', usable \subseteq usable',
           \A u \in usable' \ usable : u.status \in {"GOOD", "REVOKED", "UNKNOWN"}
    PROVE  TypeOK'
BY DEF Inv, TypeOK, Tallied, Next1, Ranked, RankOf

(* Times and dates are numbers.                                            *)
LEMMA ItemTypes ==
    ASSUME in \in Input
    PROVE  /\ in.t \in Nat /\ in.cutoff \in Nat
           /\ \A c \in in.crls : /\ c.from \in Nat /\ c.at \in Nat
                                 /\ c.signed \in BOOLEAN
           /\ \A r \in in.ocsps : /\ r.from \in Nat /\ r.at \in Nat
                                  /\ r.status \in {"GOOD", "REVOKED", "UNKNOWN"}
                                  /\ r.status = "REVOKED" => r.revoked \in Nat
  BY InputType, RevokedHasTime DEF Crl, Ocsp, Time

(* A CRL that is passed over, refused or stale is none that had to be used.*)
LEMMA CrlNotUsed ==
    ASSUME Inv, NEW b \in left, PassOver(b) \/ RefuseCrl(b) \/ StaleCrl(b)
    PROVE  Inv'
<1>1. pc = "crl" /\ Next1(b) /\ in' = in /\ b \in Bases /\ usable' = usable
  BY DEF PassOver, RefuseCrl, StaleCrl, Next1, Inv, Placed
<1>2. b \in in.crls /\ b.at \in Nat /\ in.cutoff \in Nat
  BY <1>1, ItemTypes DEF Bases, Inv
<1>3. ~ (Trusted(b) /\ InScope(b) /\ Current(b) /\ Deltas(b) = {})
  <2>1. CASE PassOver(b)
    BY <1>2, <2>1 DEF PassOver, Late, Trusted, InTime
  <2>2. CASE RefuseCrl(b)
    BY <2>2 DEF RefuseCrl, Trusted
  <2>3. CASE StaleCrl(b)
    <3>1. Deltas(b) = {} => UsableDelta(b) = None
      BY ChosenFits DEF Inv, UsableDelta
    <3> QED
      BY <2>3, <3>1 DEF StaleCrl, Parts
  <2> QED BY <2>1, <2>2, <2>3
<1>4. Sound' /\ Placed' /\ BasesSeen' /\ ResponsesSeen' /\ Decided'
  BY <1>1, <1>3, NothingFound
<1>5. Tallied' /\ IsFiniteSet(usable')
  <2>1. Tallied /\ IsFiniteSet(usable) /\ pc \in Families
    BY <1>1 DEF Inv, TypeOK, Tallied, Ranked, RankOf, Families
  <2>2. usable' = usable /\ (tally' = tally \/ Failed \/ Stale)
    BY DEF PassOver, RefuseCrl, StaleCrl
  <2> QED BY <2>1, <2>2, TallyStep
<1>6. TypeOK'
  BY <1>1, <1>5, LookTypes
<1> QED
  BY <1>1, <1>4, <1>5, <1>6 DEF Inv

(* A CRL that is used says what trusted and current CRLs say.              *)
LEMMA CrlUsed ==
    ASSUME Inv, NEW b \in left, UseCrl(b)
    PROVE  Inv'
<1> DEFINE d == UsableDelta(b)
           newer == IF d = None THEN b ELSE d
           u == [from |-> newer.from, rank |-> 1, fp |-> newer.fp, base |-> b.fp,
                 items |-> {x.fp : x \in Parts(b, d)},
                 status |-> IF Listed(Merged(b, d)) THEN "REVOKED" ELSE "GOOD"]
<1>1. pc = "crl" /\ Next1(b) /\ in' = in /\ b \in Bases
  BY DEF UseCrl, Next1, Inv, Placed
<1>2. /\ ~ Late(b) /\ InScope(b) /\ b.signed
      /\ \A x \in Parts(b, d) : Current(x)
      /\ usable' = usable \cup {u} /\ InTally
  BY DEF UseCrl
<1>3. /\ <<b, d>> \in Combos /\ TrustedCombo(<<b, d>>)
      /\ Deltas(b) = {} => d = None
  BY <1>1, <1>2, UsedIsTrusted DEF Inv
<1>4. CurrentCombo(<<b, d>>)
  BY <1>2 DEF CurrentCombo
<1>5. newer.from \in Nat
  BY <1>1, <1>3, ItemTypes DEF Combos, Bases, Inv
<1>6. /\ u.from = newer.from /\ u.rank = 1
      /\ u.status = IF Listed(Merged(b, d)) THEN "REVOKED" ELSE "GOOD"
  OBVIOUS
<1>7. /\ u.status = "GOOD" => Cleared
      /\ u.status = "REVOKED" => Condemned
  BY <1>3, <1>4, <1>6 DEF Cleared, Condemned
<1>8. u.status \in {"GOOD", "REVOKED", "UNKNOWN"}
  BY <1>6
<1> HIDE DEF u
<1>9. Sound' /\ Placed' /\ BasesSeen' /\ ResponsesSeen' /\ Decided'
  BY <1>1, <1>2, <1>3, <1>5, <1>6, <1>7, OneFound
<1>10. Tallied' /\ IsFiniteSet(usable')
  <2>1. Tallied /\ IsFiniteSet(usable) /\ pc \in Families /\ u.rank = RankOf(pc)
    BY <1>1, <1>6 DEF Inv, TypeOK, Tallied, Ranked, RankOf, Families
  <2> QED BY <1>2, <2>1, TallyStep
<1>11. TypeOK'
  BY <1>1, <1>2, <1>8, <1>10, LookTypes
<1> QED
  BY <1>1, <1>9, <1>10, <1>11 DEF Inv

LEMMA OcspLook ==
    ASSUME Inv, NEW r \in left,
           PassOverOcsp(r) \/ RefuseOcsp(r) \/ StaleOcsp(r) \/ UseOcsp(r)
    PROVE  Inv'
<1>1. pc = "ocsp" /\ Next1(r) /\ in' = in /\ r \in Responses
  BY DEF PassOverOcsp, RefuseOcsp, StaleOcsp, UseOcsp, Next1, Inv, Placed
<1>2. /\ r.at \in Nat /\ in.cutoff \in Nat /\ r.from \in Nat
      /\ r.status \in {"GOOD", "REVOKED", "UNKNOWN"}
      /\ r.status = "REVOKED" => r.revoked \in Nat
      /\ in.t \in Nat
  BY <1>1, ItemTypes DEF Responses, Inv
<1>3. Tallied /\ IsFiniteSet(usable) /\ pc \in Families /\ RankOf(pc) = 0
  BY <1>1 DEF Inv, TypeOK, Tallied, Ranked, RankOf, Families
<1>4. CASE PassOverOcsp(r) \/ RefuseOcsp(r) \/ StaleOcsp(r)
  <2>1. usable' = usable /\ (tally' = tally \/ Failed \/ Stale)
    BY <1>4 DEF PassOverOcsp, RefuseOcsp, StaleOcsp
  <2>2. ~ (TrustedResponse(r) /\ Decides(r))
    BY <1>2, <1>4
       DEF PassOverOcsp, RefuseOcsp, StaleOcsp, TrustedResponse, InTime, Late
  <2>3. Sound' /\ Placed' /\ BasesSeen' /\ ResponsesSeen' /\ Decided'
    BY <1>1, <2>1, <2>2, NothingFound
  <2>4. Tallied' /\ IsFiniteSet(usable')
    BY <1>3, <2>1, TallyStep
  <2>5. TypeOK'
    BY <1>1, <2>1, <2>4, LookTypes
  <2> QED BY <1>1, <2>3, <2>4, <2>5 DEF Inv
<1>5. CASE UseOcsp(r)
  <2> DEFINE u == [from |-> r.from, rank |-> 0, fp |-> r.fp, base |-> r.fp,
                   items |-> {r.fp},
                   status |-> IF RevokedLater(r) THEN "GOOD" ELSE r.status]
  <2>1. ~ Late(r) /\ Answers(r) /\ Decides(r) /\ usable' = usable \cup {u} /\ InTally
    BY <1>5 DEF UseOcsp
  <2>2. TrustedResponse(r)
    BY <1>2, <2>1 DEF TrustedResponse, InTime, Late
  <2>3. /\ u.from = r.from /\ u.rank = 0
        /\ u.status = IF RevokedLater(r) THEN "GOOD" ELSE r.status
    OBVIOUS
  <2> HIDE DEF u
  <2>4. u.status = "GOOD" => Cleared
    <3>1. ASSUME u.status = "GOOD"
          PROVE  Current(r) /\ (r.status = "GOOD" \/ RevokedLater(r))
      <4>1. r.status = "GOOD" \/ RevokedLater(r)
        BY <2>3, <3>1
      <4>2. ~ RevokedBy(r)
        BY <1>2, <4>1 DEF RevokedBy, RevokedLater
      <4> QED BY <2>1, <4>1, <4>2 DEF Decides
    <3> QED BY <1>1, <2>2, <3>1 DEF Cleared
  <2>5. u.status = "REVOKED" => Condemned
    <3>1. ASSUME u.status = "REVOKED" PROVE RevokedBy(r)
      BY <1>1, <1>2, <2>3, <3>1, RevokedHasTime
         DEF RevokedBy, RevokedLater, Responses, Inv
    <3> QED BY <1>1, <2>2, <3>1 DEF Condemned
  <2>6. u.status \in {"GOOD", "REVOKED", "UNKNOWN"}
    BY <1>2, <2>3
  <2>7. Sound' /\ Placed' /\ BasesSeen' /\ ResponsesSeen' /\ Decided'
    BY <1>1, <1>2, <2>1, <2>3, <2>4, <2>5, OneFound
  <2>8. Tallied' /\ IsFiniteSet(usable')
    BY <1>3, <2>1, <2>3, TallyStep
  <2>9. TypeOK'
    BY <1>1, <2>1, <2>6, <2>8, LookTypes
  <2> QED BY <1>1, <2>7, <2>8, <2>9 DEF Inv
<1> QED
  BY <1>4, <1>5

(* Without a decisive item neither GOOD nor REVOKED is said.               *)
LEMMA FallbackValues ==
    Fallback \in {"UNKNOWN", "STALE", "MALFORMED_EVIDENCE"}
  BY DEF Fallback

LEMMA Inductive == Inv /\ [Next]_vars => Inv'
<1> SUFFICES ASSUME Inv, [Next]_vars PROVE Inv'
  OBVIOUS
<1>1. ASSUME NEW b \in left, PassOver(b) \/ RefuseCrl(b) \/ StaleCrl(b) \/ UseCrl(b)
      PROVE  Inv'
  BY <1>1, CrlNotUsed, CrlUsed
<1>2. ASSUME NEW r \in left,
             PassOverOcsp(r) \/ RefuseOcsp(r) \/ StaleOcsp(r) \/ UseOcsp(r)
      PROVE  Inv'
  BY <1>2, OcspLook
<1>3. CASE ToOcsp
  <2>1. /\ in' = in /\ usable' = usable /\ tally' = tally
        /\ selected' = selected /\ conclusion' = conclusion
        /\ pc = "crl" /\ left = {} /\ pc' = "ocsp" /\ left' = Responses
    BY <1>3 DEF ToOcsp, Responses
  <2>2. TypeOK'
    BY <2>1 DEF Inv, TypeOK, Responses
  <2>3. Sound' /\ Placed' /\ Decided'
    BY <2>1, Frame DEF Inv, Sound, Placed, Decided, Precedes
  <2>4. BasesSeen' /\ ResponsesSeen'
    BY <2>1, Frame DEF Inv, BasesSeen, ResponsesSeen
  <2> QED BY <2>1, <2>2, <2>3, <2>4 DEF Inv
<1>4. CASE Conclude
  <2>1. /\ in' = in /\ usable' = usable /\ tally' = tally /\ left' = left
        /\ pc = "ocsp" /\ left = {} /\ pc' = "done"
    BY <1>4 DEF Conclude
  <2>2. \/ selected' = None /\ conclusion' = Fallback
        \/ /\ selected' \in usable /\ conclusion' = selected'.status
           /\ \A v \in usable : Precedes(selected', v)
    BY <1>4 DEF Conclude
  <2>3. TypeOK'
    BY <2>1, <2>2, FallbackValues DEF Inv, TypeOK
  <2>4. Sound' /\ Placed'
    BY <2>1, Frame DEF Inv, Sound, Placed
  <2>5. Decided'
    BY <2>1, <2>2, FallbackValues DEF Decided, Precedes
  <2>6. BasesSeen' /\ ResponsesSeen'
    BY <2>1, Frame DEF Inv, BasesSeen, ResponsesSeen
  <2> QED BY <2>1, <2>3, <2>4, <2>5, <2>6 DEF Inv
<1>5. CASE UNCHANGED vars
  <2>1. /\ in' = in /\ usable' = usable /\ tally' = tally /\ left' = left
        /\ pc' = pc /\ selected' = selected /\ conclusion' = conclusion
    BY <1>5 DEF vars
  <2>2. TypeOK'
    BY <2>1 DEF Inv, TypeOK
  <2>3. Sound' /\ Placed' /\ BasesSeen' /\ ResponsesSeen' /\ Decided'
    BY <2>1, Frame
       DEF Inv, Sound, Placed, BasesSeen, ResponsesSeen, Decided, Precedes
  <2> QED BY <2>1, <2>2, <2>3 DEF Inv
<1> QED
  BY <1>1, <1>2, <1>3, <1>4, <1>5 DEF Next

(* Every reachable state satisfies the inductive invariant.                *)
THEOREM Invariance == Spec => []Inv
BY Initially, Inductive, PTL DEF Spec

(* TypeOK: the tallies of _eval_crl and _eval_ocsp count every failed and  *)
(* every decisive item as a candidate.                                     *)
THEOREM TypeCorrect == Spec => []TypeOK
<1>1. Inv => TypeOK
  BY DEF Inv
<1> QED
  BY Invariance, <1>1, PTL

(* Grounded: evaluate says GOOD or REVOKED only on trusted evidence that   *)
(* was possessed in time and says so.                                      *)
THEOREM ConclusionsAreGrounded == Spec => []Grounded
<1>1. Inv => Grounded
  BY DEF Inv, Grounded, Decided, Sound
<1> QED
  BY Invariance, <1>1, PTL

(* NewestDecides: no trusted response that decides, and no trusted current *)
(* CRL without deltas, is newer than the item evaluate selects.            *)
THEOREM NewerIsNotIgnored == Spec => []NewestDecides
<1>1. ASSUME Inv PROVE NewestDecides
  <2> SUFFICES ASSUME pc = "done", selected # None
               PROVE  /\ \A r \in Responses : (TrustedResponse(r) /\ Decides(r)) =>
                            \/ r.from < selected.from
                            \/ r.from = selected.from /\ selected.rank = 0
                      /\ \A b \in Bases : (/\ Trusted(b) /\ InScope(b) /\ Current(b)
                                           /\ Deltas(b) = {})
                            => b.from <= selected.from
    BY DEF NewestDecides
  <2>1. selected \in usable /\ \A v \in usable : Precedes(selected, v)
    BY <1>1 DEF Inv, Decided
  <2>2. \A v \in usable : v.from \in Nat /\ v.rank \in {0, 1}
    BY <1>1 DEF Inv, Sound
  <2>3. ASSUME NEW r \in Responses, TrustedResponse(r), Decides(r)
        PROVE  \/ r.from < selected.from
               \/ r.from = selected.from /\ selected.rank = 0
    <3>1. PICK u \in usable : u.from = r.from /\ u.rank = 0
      BY <1>1, <2>3 DEF Inv, ResponsesSeen
    <3>2. Precedes(selected, u)
      BY <2>1
    <3> QED BY <2>1, <2>2, <3>1, <3>2 DEF Precedes
  <2>4. ASSUME NEW b \in Bases, Trusted(b), InScope(b), Current(b), Deltas(b) = {}
        PROVE  b.from <= selected.from
    <3>1. PICK u \in usable : u.from = b.from
      BY <1>1, <2>4 DEF Inv, BasesSeen
    <3>2. Precedes(selected, u)
      BY <2>1
    <3> QED BY <2>1, <2>2, <3>1, <3>2 DEF Precedes
  <2> QED BY <2>3, <2>4
<1> QED
  BY Invariance, <1>1, PTL

------------------------------------------------------------------------------
(* What the tallies tell *)

Items(f) == IF f = "crl" THEN Bases ELSE Responses

(* An item in time and in scope, one that fails to verify, a stale one.    *)
Counts(f, x) == ~ Late(x) /\ (f = "crl" => InScope(x))
Fails(f, x) == IF f = "crl" THEN ~ x.signed ELSE ~ Answers(x)
IsStale(f, x) ==
    IF f = "crl" THEN x.signed /\ \E y \in {x} \cup Deltas(x) : ~ Current(y)
                 ELSE Answers(x) /\ ~ Current(x)

(* The items that have been looked at and count.                           *)
Past(f) == pc = "done" \/ (f = "crl" /\ pc = "ocsp")
SeenOf(f) ==
    {x \in Items(f) : Counts(f, x) /\ (Past(f) \/ (pc = f /\ x \notin left))}

(* The tally of a family is that of items it has.  As long as none was     *)
(* decisive, those that did not fail are stale.                            *)
TalliesTrue ==
    \A f \in Families :
       /\ tally[f].scope > 0 <=> SeenOf(f) # {}
       /\ tally[f].crypto > 0 => \E x \in SeenOf(f) : Fails(f, x)
       /\ tally[f].stale => \E x \in SeenOf(f) : IsStale(f, x)
       /\ usable = {} /\ ~ tally[f].stale => tally[f].crypto = tally[f].scope

Explained ==
    /\ usable \subseteq Item
    /\ pc = "done" /\ selected = None => usable = {} /\ conclusion = Fallback

LEMMA FrameOfItems ==
    ASSUME in' = in
    PROVE  \A f : /\ Items(f)' = Items(f)
                  /\ \A x : /\ Counts(f, x)' <=> Counts(f, x)
                            /\ Fails(f, x)' <=> Fails(f, x)
                            /\ IsStale(f, x)' <=> IsStale(f, x)
<1>1. /\ Bases' = Bases /\ Responses' = Responses
      /\ \A x : /\ InScope(x)' <=> InScope(x)
                /\ Current(x)' <=> Current(x)
                /\ Deltas(x)' = Deltas(x)
                /\ Late(x)' <=> Late(x)
                /\ Answers(x)' <=> Answers(x)
  BY Frame DEF Late, Answers
<1> QED
  BY <1>1 DEF Items, Counts, Fails, IsStale

LEMMA TalliesInit == Init => TalliesTrue /\ Explained
<1> SUFFICES ASSUME Init PROVE TalliesTrue /\ Explained
  OBVIOUS
<1>1. ASSUME NEW f \in Families PROVE SeenOf(f) = {}
  BY DEF Init, SeenOf, Past, Items, Families
<1>2. \A f \in Families : tally[f] = [scope |-> 0, crypto |-> 0, stale |-> FALSE]
  BY DEF Init
<1>3. TalliesTrue
  BY <1>1, <1>2 DEF TalliesTrue
<1> QED
  BY <1>3 DEF Init, Explained

(* A look at an item tells of it what is the case.                         *)
LEMMA LookTold ==
    ASSUME Inv, TalliesTrue, pc \in Families, NEW x \in left, Next1(x),
           \/ tally' = tally /\ usable' = usable /\ ~ Counts(pc, x)
           \/ Failed /\ usable' = usable /\ Counts(pc, x) /\ Fails(pc, x)
           \/ Stale /\ usable' = usable /\ Counts(pc, x) /\ IsStale(pc, x)
           \/ InTally /\ usable' # {} /\ Counts(pc, x)
    PROVE  TalliesTrue'
<1>1. /\ in' = in /\ pc' = pc /\ left' = left \ {x} /\ x \in Items(pc)
      /\ left \subseteq Items(pc)
  BY DEF Next1, Inv, Placed, Families, Items
<1>2. \A f \in Families : SeenOf(f)' = SeenOf(f) \cup {y \in {x} : f = pc /\ Counts(f, y)}
  BY <1>1, FrameOfItems DEF SeenOf, Past, Families
<1>3. tally \in [Families -> [scope : Nat, crypto : Nat, stale : BOOLEAN]]
  BY DEF Inv, TypeOK
<1> SUFFICES ASSUME NEW f \in Families
             PROVE  /\ tally'[f].scope > 0 <=> SeenOf(f)' # {}
                    /\ tally'[f].crypto > 0 => \E y \in SeenOf(f)' : Fails(f, y)
                    /\ tally'[f].stale => \E y \in SeenOf(f)' : IsStale(f, y)
                    /\ usable' = {} /\ ~ tally'[f].stale
                          => tally'[f].crypto = tally'[f].scope
  <2>1. \A f \in Families : \A y : /\ Fails(f, y)' <=> Fails(f, y)
                                   /\ IsStale(f, y)' <=> IsStale(f, y)
    BY <1>1, FrameOfItems
  <2> QED BY <2>1 DEF TalliesTrue
<1>4. /\ tally[f].scope > 0 <=> SeenOf(f) # {}
      /\ tally[f].crypto > 0 => \E y \in SeenOf(f) : Fails(f, y)
      /\ tally[f].stale => \E y \in SeenOf(f) : IsStale(f, y)
      /\ usable = {} /\ ~ tally[f].stale => tally[f].crypto = tally[f].scope
      /\ tally[f].scope \in Nat /\ tally[f].crypto \in Nat /\ tally[f].stale \in BOOLEAN
  BY <1>3 DEF TalliesTrue
<1> DEFINE S == SeenOf(f)
           T == SeenOf(f)'
<1>5. T = S \cup {y \in {x} : f = pc /\ Counts(f, y)}
  BY <1>2
<1> HIDE DEF S, T
<1>6. CASE f # pc
  <2>1. tally'[f] = tally[f] /\ (usable' = {} => usable = {})
    BY <1>3, <1>6 DEF Failed, Stale, InTally
  <2>2. T = S
    BY <1>5, <1>6
  <2> QED BY <1>4, <2>1, <2>2 DEF S, T
<1>7. CASE f = pc /\ ~ Counts(pc, x)
  <2>1. T = S /\ tally' = tally /\ usable' = usable
    BY <1>5, <1>7
  <2> QED BY <1>4, <2>1 DEF S, T
<1>8. CASE f = pc /\ Counts(pc, x)
  <2>1. T = S \cup {x}
    BY <1>5, <1>8
  <2>2. CASE Failed /\ usable' = usable /\ Fails(pc, x)
    <3>1. /\ tally'[f].scope = tally[f].scope + 1 /\ tally'[f].crypto = tally[f].crypto + 1
          /\ tally'[f].stale = tally[f].stale
      BY <1>3, <1>8, <2>2 DEF Failed
    <3> QED BY <1>4, <1>8, <2>1, <2>2, <3>1 DEF S, T
  <2>3. CASE Stale /\ usable' = usable /\ IsStale(pc, x)
    <3>1. /\ tally'[f].scope = tally[f].scope + 1 /\ tally'[f].crypto = tally[f].crypto
          /\ tally'[f].stale = TRUE
      BY <1>3, <1>8, <2>3 DEF Stale
    <3> QED BY <1>4, <1>8, <2>1, <2>3, <3>1 DEF S, T
  <2>4. CASE InTally /\ usable' # {}
    <3>1. /\ tally'[f].scope = tally[f].scope + 1 /\ tally'[f].crypto = tally[f].crypto
          /\ tally'[f].stale = tally[f].stale
      BY <1>3, <1>8, <2>4 DEF InTally
    <3> QED BY <1>4, <1>8, <2>1, <2>4, <3>1 DEF S, T
  <2> QED BY <1>8, <2>2, <2>3, <2>4
<1> QED
  BY <1>6, <1>7, <1>8

LEMMA StaleIsSo ==
    ASSUME in \in Input, NEW b \in Bases, StaleCrl(b)
    PROVE  IsStale("crl", b)
<1>1. PICK y \in Parts(b, UsableDelta(b)) : ~ Current(y)
  BY DEF StaleCrl
<1>2. y = b \/ (y = UsableDelta(b) /\ y # None)
  BY <1>1 DEF Parts
<1>3. y \in {b} \cup Deltas(b)
  BY <1>2, ChosenFits DEF UsableDelta
<1> QED
  BY <1>1, <1>3 DEF StaleCrl, IsStale

LEMMA ItemsFound ==
    ASSUME Inv, Explained,
           \/ \E b \in left : UseCrl(b)
           \/ \E r \in left : UseOcsp(r)
    PROVE  usable' \subseteq Item
<1>1. CASE \E b \in left : UseCrl(b)
  <2>1. PICK b \in left : UseCrl(b)
    BY <1>1
  <2> DEFINE d == UsableDelta(b)
             newer == IF d = None THEN b ELSE d
             u == [from |-> newer.from, rank |-> 1, fp |-> newer.fp, base |-> b.fp,
                   items |-> {x.fp : x \in Parts(b, d)},
                   status |-> IF Listed(Merged(b, d)) THEN "REVOKED" ELSE "GOOD"]
  <2>2. usable' = usable \cup {u} /\ b \in Bases /\ in \in Input
    BY <2>1 DEF UseCrl, Inv, Placed
  <2>3. d = None \/ d \in Deltas(b)
    BY <2>2, ChosenFits DEF UsableDelta
  <2>4. b \in Crl /\ (d # None => d \in Crl)
    BY <2>2, <2>3, InputType DEF Bases, Deltas
  <2> HIDE DEF d
  <2>5. \A x \in Parts(b, d) : x \in Crl
    BY <2>4 DEF Parts
  <2>6. newer \in Crl
    BY <2>4
  <2> HIDE DEF newer
  <2>7. newer.from \in Nat /\ newer.fp \in Nat /\ b.fp \in Nat
        /\ \A x \in Parts(b, d) : x.fp \in Nat
    BY <2>4, <2>5, <2>6 DEF Crl, Time
  <2>8. u \in Item
    BY <2>7 DEF Item, Time
  <2> QED BY <2>2, <2>8 DEF Explained
<1>2. CASE \E r \in left : UseOcsp(r)
  <2>1. PICK r \in left : UseOcsp(r)
    BY <1>2
  <2> DEFINE u == [from |-> r.from, rank |-> 0, fp |-> r.fp, base |-> r.fp,
                   items |-> {r.fp},
                   status |-> IF RevokedLater(r) THEN "GOOD" ELSE r.status]
  <2>2. usable' = usable \cup {u} /\ r \in Responses /\ in \in Input
    BY <2>1 DEF UseOcsp, Inv, Placed
  <2>3. r \in Ocsp
    BY <2>2, InputType DEF Responses
  <2>4. u \in Item
    BY <2>3 DEF Ocsp, Item, Time
  <2> QED BY <2>2, <2>4 DEF Explained
<1> QED
  BY <1>1, <1>2

LEMMA TalliesStep ==
    Inv /\ TalliesTrue /\ Explained /\ [Next]_vars => TalliesTrue' /\ Explained'
<1> SUFFICES ASSUME Inv, TalliesTrue, Explained, [Next]_vars
             PROVE  TalliesTrue' /\ Explained'
  OBVIOUS
<1>0. in \in Input
  BY DEF Inv
<1>1. ASSUME NEW b \in left, PassOver(b) \/ RefuseCrl(b) \/ StaleCrl(b) \/ UseCrl(b)
      PROVE  TalliesTrue' /\ Explained'
  <2>1. pc = "crl" /\ pc \in Families /\ Next1(b) /\ b \in Bases /\ pc' = pc
    BY <1>1 DEF PassOver, RefuseCrl, StaleCrl, UseCrl, Families, Inv, Placed, Next1
  <2>2. \/ tally' = tally /\ usable' = usable /\ ~ Counts(pc, b)
        \/ Failed /\ usable' = usable /\ Counts(pc, b) /\ Fails(pc, b)
        \/ Stale /\ usable' = usable /\ Counts(pc, b) /\ IsStale(pc, b)
        \/ InTally /\ usable' # {} /\ Counts(pc, b)
    <3>1. CASE PassOver(b)
      BY <2>1, <3>1 DEF PassOver, Counts
    <3>2. CASE RefuseCrl(b)
      BY <2>1, <3>2 DEF RefuseCrl, Counts, Fails
    <3>3. CASE StaleCrl(b)
      BY <1>0, <2>1, <3>3, StaleIsSo DEF StaleCrl, Counts
    <3>4. CASE UseCrl(b)
      <4>1. usable' # {} /\ InTally
        BY <3>4 DEF UseCrl
      <4>2. Counts(pc, b)
        BY <2>1, <3>4 DEF UseCrl, Counts
      <4> QED BY <4>1, <4>2
    <3> QED BY <1>1, <3>1, <3>2, <3>3, <3>4
  <2>3. TalliesTrue'
    BY <2>1, <2>2, LookTold
  <2>4. usable' \subseteq Item
    <3>1. CASE UseCrl(b)
      BY <3>1, ItemsFound
    <3>2. CASE PassOver(b) \/ RefuseCrl(b) \/ StaleCrl(b)
      BY <3>2 DEF PassOver, RefuseCrl, StaleCrl, Explained
    <3> QED BY <1>1, <3>1, <3>2
  <2> QED BY <2>1, <2>3, <2>4 DEF Explained
<1>2. ASSUME NEW r \in left,
             PassOverOcsp(r) \/ RefuseOcsp(r) \/ StaleOcsp(r) \/ UseOcsp(r)
      PROVE  TalliesTrue' /\ Explained'
  <2>1. pc = "ocsp" /\ pc \in Families /\ Next1(r) /\ pc' = pc
    BY <1>2 DEF PassOverOcsp, RefuseOcsp, StaleOcsp, UseOcsp, Families, Next1
  <2>2. \/ tally' = tally /\ usable' = usable /\ ~ Counts(pc, r)
        \/ Failed /\ usable' = usable /\ Counts(pc, r) /\ Fails(pc, r)
        \/ Stale /\ usable' = usable /\ Counts(pc, r) /\ IsStale(pc, r)
        \/ InTally /\ usable' # {} /\ Counts(pc, r)
    <3>1. CASE PassOverOcsp(r)
      BY <2>1, <3>1 DEF PassOverOcsp, Counts
    <3>2. CASE RefuseOcsp(r)
      BY <2>1, <3>2 DEF RefuseOcsp, Counts, Fails
    <3>3. CASE StaleOcsp(r)
      BY <2>1, <3>3 DEF StaleOcsp, Counts, IsStale, Decides
    <3>4. CASE UseOcsp(r)
      <4>1. usable' # {} /\ InTally
        BY <3>4 DEF UseOcsp
      <4>2. Counts(pc, r)
        BY <2>1, <3>4 DEF UseOcsp, Counts
      <4> QED BY <4>1, <4>2
    <3> QED BY <1>2, <3>1, <3>2, <3>3, <3>4
  <2>3. TalliesTrue'
    BY <2>1, <2>2, LookTold
  <2>4. usable' \subseteq Item
    <3>1. CASE UseOcsp(r)
      BY <3>1, ItemsFound
    <3>2. CASE PassOverOcsp(r) \/ RefuseOcsp(r) \/ StaleOcsp(r)
      BY <3>2 DEF PassOverOcsp, RefuseOcsp, StaleOcsp, Explained
    <3> QED BY <1>2, <3>1, <3>2
  <2> QED BY <2>1, <2>3, <2>4 DEF Explained
<1>3. ASSUME in' = in, tally' = tally, usable' = usable,
             \A f \in Families : SeenOf(f)' = SeenOf(f)
      PROVE  TalliesTrue'
  BY <1>3, FrameOfItems DEF TalliesTrue
<1>4. CASE ToOcsp
  <2>1. /\ in' = in /\ usable' = usable /\ tally' = tally /\ pc = "crl" /\ left = {}
        /\ pc' = "ocsp" /\ left' = Responses
    BY <1>4 DEF ToOcsp, Responses
  <2>2. \A f \in Families : SeenOf(f)' = SeenOf(f)
    BY <2>1, FrameOfItems DEF SeenOf, Past, Families, Items
  <2> QED BY <1>3, <2>1, <2>2 DEF Explained
<1>5. CASE Conclude
  <2>1. /\ in' = in /\ usable' = usable /\ tally' = tally /\ pc = "ocsp" /\ left = {}
        /\ pc' = "done" /\ left' = left
    BY <1>5 DEF Conclude
  <2>2. \A f \in Families : SeenOf(f)' = SeenOf(f)
    BY <2>1, FrameOfItems DEF SeenOf, Past, Families
  <2>3. Fallback' = Fallback
    BY <2>1 DEF Fallback
  <2>4. selected' = None => usable = {} /\ conclusion' = Fallback
    <3>1. \A u \in usable : u # None
      BY NoneIsNoItem DEF Explained
    <3> QED BY <1>5, <3>1 DEF Conclude
  <2> QED BY <1>3, <2>1, <2>2, <2>3, <2>4 DEF Explained
<1>6. CASE UNCHANGED vars
  <2>1. /\ in' = in /\ usable' = usable /\ tally' = tally /\ pc' = pc /\ left' = left
        /\ selected' = selected /\ conclusion' = conclusion
    BY <1>6 DEF vars
  <2>2. \A f \in Families : SeenOf(f)' = SeenOf(f)
    BY <2>1, FrameOfItems DEF SeenOf, Past
  <2>3. Fallback' = Fallback
    BY <2>1 DEF Fallback
  <2> QED BY <1>3, <2>1, <2>2, <2>3 DEF Explained
<1> QED
  BY <1>1, <1>2, <1>4, <1>5, <1>6 DEF Next

(* Where the tally of each family holds failed and stale items only, the   *)
(* fallback says which kind there are.                                     *)
LEMMA FallbackSays ==
    ASSUME tally \in [Families -> [scope : Nat, crypto : Nat, stale : BOOLEAN]],
           \A f \in Families : /\ tally[f].crypto <= tally[f].scope
                               /\ ~ tally[f].stale => tally[f].crypto = tally[f].scope
    PROVE  /\ Fallback = "UNKNOWN" => \A f \in Families : tally[f].scope = 0
           /\ (\A f \in Families : tally[f].scope = 0) => Fallback = "UNKNOWN"
           /\ Fallback = "MALFORMED_EVIDENCE" => \E f \in Families : tally[f].crypto > 0
           /\ Fallback = "STALE" => \E f \in Families : tally[f].stale
<1> DEFINE scope == tally["crl"].scope + tally["ocsp"].scope
           crypto == tally["crl"].crypto + tally["ocsp"].crypto
           Stales == {f \in Families : tally[f].stale}
           stale == Cardinality(Stales)
<1>1. /\ \A f \in Families : tally[f].scope \in Nat /\ tally[f].crypto \in Nat
      /\ "crl" \in Families /\ "ocsp" \in Families
      /\ scope \in Nat /\ crypto \in Nat
  BY DEF Families
<1>2. stale \in Nat /\ (stale > 0 <=> Stales # {})
  <2>1. IsFiniteSet(Families)
    <3>1. Families = {"crl"} \cup {"ocsp"}
      BY DEF Families
    <3>2. IsFiniteSet({"crl"}) /\ IsFiniteSet({"ocsp"})
      BY FS_Singleton
    <3> QED BY <3>1, <3>2, FS_Union
  <2>2. IsFiniteSet(Stales)
    BY <2>1, FS_Subset
  <2> HIDE DEF Stales
  <2>3. stale \in Nat /\ (stale = 0 <=> Stales = {})
    BY <2>2, FS_CardinalityType, FS_EmptySet
  <2> HIDE DEF stale
  <2> QED BY <2>3
<1>3. scope = 0 <=> \A f \in Families : tally[f].scope = 0
  BY <1>1 DEF Families
<1>4. crypto > 0 => \E f \in Families : tally[f].crypto > 0
  BY <1>1 DEF Families
<1>5. Stales = {} => crypto = scope
  BY <1>1 DEF Families
<1>6. Stales # {} => \E f \in Families : tally[f].stale
  OBVIOUS
<1>7. Fallback =
        CASE scope = 0 -> "UNKNOWN"
          [] scope > 0 /\ stale > 0 /\ crypto = 0 /\ scope <= stale -> "STALE"
          [] scope > 0 /\ crypto > 0 /\ crypto >= scope - stale -> "MALFORMED_EVIDENCE"
          [] scope > 0 /\ stale > 0 /\ ~ (crypto > 0 /\ crypto >= scope - stale) -> "STALE"
          [] OTHER -> "UNKNOWN"
  BY DEF Fallback
<1> HIDE DEF scope, crypto, stale
<1>8. stale = 0 => crypto = scope
  BY <1>2, <1>5
<1>9. /\ Fallback = "UNKNOWN" => scope = 0
      /\ scope = 0 => Fallback = "UNKNOWN"
      /\ Fallback = "MALFORMED_EVIDENCE" => crypto > 0
      /\ Fallback = "STALE" => stale > 0
  <2>1. CASE scope = 0
    BY <1>1, <1>2, <1>7, <2>1
  <2>2. CASE scope > 0 /\ stale = 0
    <3>1. crypto > 0 /\ crypto >= scope - stale
      BY <1>1, <1>2, <1>8, <2>2
    <3> QED BY <1>1, <1>2, <1>7, <2>2, <3>1
  <2>3. CASE scope > 0 /\ stale > 0
    BY <1>1, <1>2, <1>7, <2>3
  <2> QED BY <1>1, <1>2, <2>1, <2>2, <2>3
<1> QED
  BY <1>2, <1>3, <1>4, <1>6, <1>9

(* FallbackExplained: without a decisive item evaluate says UNKNOWN exactly*)
(* if no item is in time and in scope, MALFORMED_EVIDENCE only if one fails*)
(* to verify, STALE only if one verifies but is not current.               *)
THEOREM FallbackIsExplained == Spec => []FallbackExplained
<1>1. ASSUME Inv, TalliesTrue, Explained PROVE FallbackExplained
  <2> DEFINE bases == {b \in Bases : InTime(b) /\ InScope(b)}
             answers == {r \in Responses : InTime(r)}
  <2> SUFFICES ASSUME pc = "done", selected = None
               PROVE  /\ conclusion = "UNKNOWN" <=> bases \cup answers = {}
                      /\ conclusion = "MALFORMED_EVIDENCE" =>
                            \/ \E b \in bases : ~ b.signed
                            \/ \E r \in answers : ~ Answers(r)
                      /\ conclusion = "STALE" =>
                            \/ \E b \in bases :
                                  /\ b.signed
                                  /\ \E x \in {b} \cup Deltas(b) : ~ Current(x)
                            \/ \E r \in answers : Answers(r) /\ ~ Current(r)
    BY DEF FallbackExplained
  <2>1. SeenOf("crl") = bases /\ SeenOf("ocsp") = answers
    <3>1. in \in Input
      BY <1>1 DEF Inv
    <3>2. \A x \in Bases \cup Responses : InTime(x) <=> ~ Late(x)
      BY <3>1, ItemTypes DEF InTime, Late, Bases, Responses
    <3> QED BY <3>2 DEF SeenOf, Past, Items, Counts
  <2>2. tally \in [Families -> [scope : Nat, crypto : Nat, stale : BOOLEAN]]
    BY <1>1 DEF Inv, TypeOK
  <2>3. usable = {} /\ conclusion = Fallback
    BY <1>1 DEF Explained
  <2>4. \A f \in Families : tally[f].crypto <= tally[f].scope
    <3>1. \A f \in Families :
             tally[f].scope >= tally[f].crypto
               + Cardinality({u \in usable : u.rank = IF f = "ocsp" THEN 0 ELSE 1})
      BY <1>1 DEF Inv, TypeOK
    <3>2. \A f : {u \in usable : u.rank = IF f = "ocsp" THEN 0 ELSE 1} = {}
      BY <2>3
    <3>3. \A f \in Families : tally[f].scope >= tally[f].crypto + 0
      BY <3>1, <3>2, FS_EmptySet
    <3> QED BY <2>2, <3>3
  <2>5. /\ Fallback = "UNKNOWN" => \A f \in Families : tally[f].scope = 0
        /\ (\A f \in Families : tally[f].scope = 0) => Fallback = "UNKNOWN"
        /\ Fallback = "MALFORMED_EVIDENCE" => \E f \in Families : tally[f].crypto > 0
        /\ Fallback = "STALE" => \E f \in Families : tally[f].stale
    <3>1. \A f \in Families : ~ tally[f].stale => tally[f].crypto = tally[f].scope
      BY <1>1, <2>3 DEF TalliesTrue
    <3> QED BY <2>2, <2>4, <3>1, FallbackSays
  <2>6. \A f \in Families : tally[f].scope = 0 <=> SeenOf(f) = {}
    <3>1. \A f \in Families : tally[f].scope \in Nat /\ (tally[f].scope > 0 <=> SeenOf(f) # {})
      BY <1>1, <2>2 DEF TalliesTrue
    <3> QED BY <3>1
  <2>7. (\A f \in Families : tally[f].scope = 0) <=> bases \cup answers = {}
    BY <2>1, <2>6 DEF Families
  <2>8. (\E f \in Families : tally[f].crypto > 0) =>
           \/ \E b \in bases : ~ b.signed
           \/ \E r \in answers : ~ Answers(r)
    BY <1>1, <2>1 DEF TalliesTrue, Families, Fails
  <2>9. (\E f \in Families : tally[f].stale) =>
           \/ \E b \in bases : b.signed /\ \E x \in {b} \cup Deltas(b) : ~ Current(x)
           \/ \E r \in answers : Answers(r) /\ ~ Current(r)
    BY <1>1, <2>1 DEF TalliesTrue, Families, IsStale
  <2> HIDE DEF bases, answers
  <2> QED BY <2>3, <2>5, <2>7, <2>8, <2>9
<1> QED
  BY <1>1, TalliesInit, TalliesStep, Invariance, PTL DEF Spec

------------------------------------------------------------------------------
(* The record of the evidence, as the set of its entries *)

Why == {"pending", "late", "scope", "unverified", "stale", "current", "used"}
Rec == [fp : Nat, why : Why]

ItemsOf(S) == UNION {u.items : u \in S}

UsedIn(E) == {e.fp : e \in {x \in E : x.why = "used"}}

(* An entry says late exactly if the item came late.                       *)
LateIn(E) ==
    \A x \in in.crls \cup in.ocsps : \A e \in E :
       e.fp = x.fp => (e.why = "late" <=> Late(x))

(* An entry of the item can still get a reason.                            *)
Open(E, x) == \E e \in E : e.fp = x.fp /\ e.why \in {"pending", "current"}

(* Mark on an entry.                                                       *)
MarkOne(e, S, why) ==
    IF e.fp \in {x.fp : x \in S} /\ e.why \in {"pending", "current"}
      THEN [e EXCEPT !.why = why] ELSE e

(* A file that is used is possessed in time and verifies.                  *)
Vouched(f) == \/ \E x \in in.crls : x.fp = f /\ Trusted(x)
              \/ \E x \in in.ocsps : x.fp = f /\ TrustedResponse(x)

RecordKept ==
    /\ considered \in Seq(Rec)
    /\ UsedIn(Range(considered)) = ItemsOf(usable)
    /\ LateIn(Range(considered))
    /\ \A f \in UsedIn(Range(considered)) : Vouched(f)

LEMMA RangeOf ==
    ASSUME NEW s \in Seq(Rec)
    PROVE  /\ Range(s) \subseteq Rec
           /\ \A e : Range(Append(s, e)) = Range(s) \cup {e}
           /\ \A e : Range(s \o <<e>>) = Range(s) \cup {e}
<1>1. Range(s) \subseteq Rec
  BY DEF Range
<1>2. ASSUME NEW e PROVE Range(Append(s, e)) = Range(s) \cup {e}
  <2>1. DOMAIN s = 1 .. Len(s) /\ DOMAIN Append(s, e) = 1 .. Len(s) + 1 /\ Len(s) \in Nat
    OBVIOUS
  <2>2. \A i \in 1 .. Len(s) + 1 :
           Append(s, e)[i] = IF i = Len(s) + 1 THEN e ELSE s[i]
    OBVIOUS
  <2>3. \A i \in 1 .. Len(s) + 1 : i \in 1 .. Len(s) \/ i = Len(s) + 1
    OBVIOUS
  <2>4. /\ Len(s) + 1 \in 1 .. Len(s) + 1
        /\ \A i \in 1 .. Len(s) : i \in 1 .. Len(s) + 1 /\ i # Len(s) + 1
    OBVIOUS
  <2> QED BY <2>1, <2>2, <2>3, <2>4 DEF Range
<1>3. \A e : s \o <<e>> = Append(s, e)
  OBVIOUS
<1> QED
  BY <1>1, <1>2, <1>3

LEMMA MarkIs ==
    ASSUME NEW s \in Seq(Rec), NEW S, NEW w \in Why
    PROVE  /\ MarkItems(s, S, w) \in Seq(Rec)
           /\ Range(MarkItems(s, S, w)) = {MarkOne(e, S, w) : e \in Range(s)}
<1> DEFINE r == MarkItems(s, S, w)
           D == {x.fp : x \in S}
<1>1. DOMAIN s = 1 .. Len(s) /\ Len(s) \in Nat /\ \A i \in DOMAIN s : s[i] \in Rec
  OBVIOUS
<1>2. r = [i \in DOMAIN s |-> MarkOne(s[i], S, w)]
  BY DEF MarkItems, Mark, MarkOne
<1>3. \A i \in DOMAIN s : MarkOne(s[i], S, w) \in Rec
  BY <1>1 DEF MarkOne, Rec, Why
<1> HIDE DEF r
<1>4. r \in [1 .. Len(s) -> Rec]
  BY <1>1, <1>2, <1>3
<1>5. r \in Seq(Rec)
  BY <1>1, <1>4
<1>6. Range(r) = {MarkOne(e, S, w) : e \in Range(s)}
  BY <1>2 DEF Range
<1> QED
  BY <1>5, <1>6 DEF r

LEMMA MarkKeeps ==
    ASSUME NEW s \in Seq(Rec), NEW S, NEW w \in {"unverified", "stale", "current"}
    PROVE  LET F == Range(MarkItems(s, S, w)) IN
           /\ MarkItems(s, S, w) \in Seq(Rec)
           /\ UsedIn(F) = UsedIn(Range(s))
           /\ LateIn(Range(s)) => LateIn(F)
           /\ \A x : x.fp \notin {y.fp : y \in S} /\ Open(Range(s), x) => Open(F, x)
<1> DEFINE E == Range(s)
           F == Range(MarkItems(s, S, w))
<1>1. MarkItems(s, S, w) \in Seq(Rec) /\ F = {MarkOne(e, S, w) : e \in E} /\ E \subseteq Rec
  BY MarkIs, RangeOf DEF Why
<1> HIDE DEF E, F
<1>2. \A e \in E : /\ MarkOne(e, S, w).fp = e.fp
                   /\ MarkOne(e, S, w).why = "used" <=> e.why = "used"
                   /\ MarkOne(e, S, w).why = "late" <=> e.why = "late"
                   /\ e.fp \notin {y.fp : y \in S} => MarkOne(e, S, w) = e
  BY <1>1 DEF MarkOne, Rec
<1>3. UsedIn(F) = UsedIn(E)
  BY <1>1, <1>2 DEF UsedIn
<1>4. LateIn(E) => LateIn(F)
  BY <1>1, <1>2 DEF LateIn
<1>5. \A x : x.fp \notin {y.fp : y \in S} /\ Open(E, x) => Open(F, x)
  BY <1>1, <1>2 DEF Open
<1> QED
  BY <1>1, <1>3, <1>4, <1>5 DEF E, F

LEMMA MarkUses ==
    ASSUME NEW s \in Seq(Rec), NEW S, \A x \in S : Open(Range(s), x)
    PROVE  LET F == Range(MarkItems(s, S, "used")) IN
           /\ MarkItems(s, S, "used") \in Seq(Rec)
           /\ UsedIn(F) = UsedIn(Range(s)) \cup {x.fp : x \in S}
           /\ LateIn(Range(s)) => LateIn(F)
<1> DEFINE E == Range(s)
           F == Range(MarkItems(s, S, "used"))
           D == {x.fp : x \in S}
<1>1. /\ MarkItems(s, S, "used") \in Seq(Rec)
      /\ F = {MarkOne(e, S, "used") : e \in E} /\ E \subseteq Rec
  BY MarkIs, RangeOf DEF Why
<1>2. \A x \in S : \E e \in E : e.fp = x.fp /\ e.why \in {"pending", "current"}
  BY DEF Open, E
<1> HIDE DEF E, F
<1>3. \A e \in E : /\ MarkOne(e, S, "used").fp = e.fp
                   /\ MarkOne(e, S, "used").why = "late" <=> e.why = "late"
                   /\ MarkOne(e, S, "used").why = "used" <=>
                         \/ e.why = "used"
                         \/ e.fp \in D /\ e.why \in {"pending", "current"}
  BY <1>1 DEF MarkOne, Rec
<1>4. UsedIn(F) = UsedIn(E) \cup D
  <2>1. ASSUME NEW f \in UsedIn(F) PROVE f \in UsedIn(E) \cup D
    <3>1. PICK e \in E : f = e.fp /\ MarkOne(e, S, "used").why = "used"
      BY <1>1, <1>3, <2>1 DEF UsedIn
    <3> QED BY <1>3, <3>1 DEF UsedIn
  <2>2. ASSUME NEW f \in UsedIn(E) PROVE f \in UsedIn(F)
    BY <1>1, <1>3, <2>2 DEF UsedIn
  <2>3. ASSUME NEW f \in D PROVE f \in UsedIn(F)
    <3>1. PICK x \in S : f = x.fp
      OBVIOUS
    <3>2. PICK e \in E : e.fp = x.fp /\ e.why \in {"pending", "current"}
      BY <1>2
    <3>3. MarkOne(e, S, "used").fp = f /\ MarkOne(e, S, "used").why = "used"
      BY <1>3, <3>1, <3>2
    <3> QED BY <1>1, <3>3 DEF UsedIn
  <2> QED BY <2>1, <2>2, <2>3
<1>5. LateIn(E) => LateIn(F)
  BY <1>1, <1>3 DEF LateIn
<1> QED
  BY <1>1, <1>4, <1>5 DEF E, F

(* An entry for a new item.                                                *)
LEMMA NewEntry ==
    ASSUME in \in Input, NEW x \in in.crls \cup in.ocsps, NEW s \in Seq(Rec),
           NEW w \in Why, w # "late" \/ Late(x)
    PROVE  LET t == Append(s, Entry(x, w)) IN
           /\ t \in Seq(Rec)
           /\ LateIn(Range(s)) => LateIn(Range(t))
           /\ UsedIn(Range(t)) = UsedIn(Range(s))
                 \cup (IF w = "used" /\ ~ Late(x) THEN {x.fp} ELSE {})
           /\ ~ Late(x) /\ w = "pending" => Open(Range(t), x)
           /\ \A y : Open(Range(s), y) => Open(Range(t), y)
<1> DEFINE t == Append(s, Entry(x, w))
<1>1. x.fp \in Nat
  BY InputType DEF Crl, Ocsp
<1>2. /\ Entry(x, w).fp = x.fp /\ Entry(x, w).why = IF Late(x) THEN "late" ELSE w
      /\ Entry(x, w) \in Rec
  BY <1>1 DEF Entry, Rec, Why
<1>3. t \in Seq(Rec) /\ Range(t) = Range(s) \cup {Entry(x, w)}
  BY <1>2, RangeOf
<1> HIDE DEF t
<1>4. \A y \in in.crls \cup in.ocsps : y.fp = x.fp => y = x
  BY Fingerprints
<1>5. LateIn(Range(s)) => LateIn(Range(t))
  BY <1>2, <1>3, <1>4 DEF LateIn
<1>6. UsedIn(Range(t)) = UsedIn(Range(s))
         \cup (IF w = "used" /\ ~ Late(x) THEN {x.fp} ELSE {})
  BY <1>2, <1>3 DEF UsedIn
<1>7. /\ ~ Late(x) /\ w = "pending" => Open(Range(t), x)
      /\ \A y : Open(Range(s), y) => Open(Range(t), y)
  BY <1>2, <1>3 DEF Open
<1> QED
  BY <1>3, <1>5, <1>6, <1>7 DEF t

LEMMA EnteredIs ==
    ASSUME in \in Input, considered \in Seq(Rec), NEW b \in Bases
    PROVE  LET G == Range(Entered(b)) IN
           /\ Entered(b) \in Seq(Rec)
           /\ UsedIn(G) = UsedIn(Range(considered))
           /\ LateIn(Range(considered)) => LateIn(G)
           /\ ~ Late(b) /\ InScope(b) => Open(G, b)
           /\ ChosenDelta(b) # None /\ ~ Late(ChosenDelta(b)) => Open(G, ChosenDelta(b))
<1> DEFINE d == ChosenDelta(b)
           w == IF InScope(b) THEN "pending" ELSE "scope"
           s == Append(considered, Entry(b, w))
<1>1. b \in in.crls /\ w \in Why /\ w # "late" /\ w # "used"
  BY DEF Bases, Why
<1>2. d = None \/ d \in in.crls
  BY ChosenFits DEF Deltas
<1>3. /\ s \in Seq(Rec)
      /\ LateIn(Range(considered)) => LateIn(Range(s))
      /\ UsedIn(Range(s)) = UsedIn(Range(considered))
      /\ ~ Late(b) /\ InScope(b) => Open(Range(s), b)
  <2>1. InScope(b) => w = "pending"
    OBVIOUS
  <2> HIDE DEF w
  <2> QED BY <1>1, <2>1, NewEntry
<1>4. Entered(b) = IF d = None THEN s ELSE Append(s, Entry(d, "pending"))
  <2>1. considered \o <<Entry(b, w)>> = s
    OBVIOUS
  <2>2. s \o << >> = s /\ s \o <<Entry(d, "pending")>> = Append(s, Entry(d, "pending"))
    <3> HIDE DEF s, d
    <3> QED BY <1>3
  <2>3. Entered(b) = considered \o <<Entry(b, w)>>
                       \o IF d = None THEN << >> ELSE <<Entry(d, "pending")>>
    BY DEF Entered
  <2> HIDE DEF s, d, w
  <2> QED BY <2>1, <2>2, <2>3
<1> HIDE DEF s, w
<1>5. CASE d = None
  BY <1>3, <1>4, <1>5
<1>6. CASE d # None
  <2> DEFINE t == Append(s, Entry(d, "pending"))
  <2>2. d \in in.crls \cup in.ocsps /\ "pending" \in Why /\ "pending" # "late"
    BY <1>2, <1>6 DEF Why
  <2> HIDE DEF d
  <2>3. /\ t \in Seq(Rec)
        /\ LateIn(Range(s)) => LateIn(Range(t))
        /\ UsedIn(Range(t)) = UsedIn(Range(s))
        /\ ~ Late(d) => Open(Range(t), d)
        /\ \A y : Open(Range(s), y) => Open(Range(t), y)
    BY <1>3, <2>2, NewEntry
  <2>4. Entered(b) = t
    BY <1>4, <1>6
  <2> HIDE DEF t
  <2> QED BY <1>3, <2>3, <2>4 DEF d
<1> QED
  BY <1>5, <1>6

LEMMA EnteredVerifiedIs ==
    ASSUME in \in Input, considered \in Seq(Rec), NEW b \in Bases
    PROVE  LET G == Range(EnteredVerified(b)) IN
           /\ EnteredVerified(b) \in Seq(Rec)
           /\ UsedIn(G) = UsedIn(Range(considered))
           /\ LateIn(Range(considered)) => LateIn(G)
           /\ ~ Late(b) /\ InScope(b) => \A x \in Parts(b, UsableDelta(b)) : Open(G, x)
<1> DEFINE d == ChosenDelta(b)
           s == Entered(b)
           v == EnteredVerified(b)
<1>1. /\ s \in Seq(Rec) /\ UsedIn(Range(s)) = UsedIn(Range(considered))
      /\ LateIn(Range(considered)) => LateIn(Range(s))
      /\ ~ Late(b) /\ InScope(b) => Open(Range(s), b)
      /\ d # None /\ ~ Late(d) => Open(Range(s), d)
  BY EnteredIs
<1>2. v = IF d = None THEN s ELSE IF Late(d) \/ d.signed THEN s
          ELSE MarkItems(s, {d}, "unverified")
  BY DEF EnteredVerified
<1>3. UsableDelta(b) = IF d = None THEN None ELSE IF Late(d) \/ ~ d.signed THEN None ELSE d
  BY DEF UsableDelta
<1>4. d # None => d.fp # b.fp
  <2>1. d # None => d \in in.crls /\ d.delta /\ b \in in.crls /\ ~ b.delta
    BY ChosenFits DEF Deltas, Bases
  <2> QED BY <2>1, Fingerprints
<1> HIDE DEF d, s, v
<1>5. CASE v = s
  <2>1. UsableDelta(b) # None => UsableDelta(b) = d /\ d # None /\ ~ Late(d)
    BY <1>3
  <2>2. ~ Late(b) /\ InScope(b) => \A x \in Parts(b, UsableDelta(b)) : Open(Range(s), x)
    BY <1>1, <2>1 DEF Parts
  <2> QED BY <1>1, <1>5, <2>2 DEF v
<1>6. CASE d # None /\ ~ Late(d) /\ ~ d.signed
  <2>1. v = MarkItems(s, {d}, "unverified") /\ UsableDelta(b) = None
    BY <1>2, <1>3, <1>6
  <2>2. /\ v \in Seq(Rec) /\ UsedIn(Range(v)) = UsedIn(Range(s))
        /\ LateIn(Range(s)) => LateIn(Range(v))
        /\ \A x : x.fp \notin {y.fp : y \in {d}} /\ Open(Range(s), x) => Open(Range(v), x)
    BY <1>1, <2>1, MarkKeeps
  <2>3. ~ Late(b) /\ InScope(b) => Open(Range(v), b)
    BY <1>1, <1>4, <1>6, <2>2
  <2> QED BY <1>1, <2>1, <2>2, <2>3 DEF v, Parts
<1> QED
  BY <1>2, <1>5, <1>6

(* What is used in the next state, of the items of the decisive ones.      *)
LEMMA RecordFrame ==
    ASSUME in' = in
    PROVE  /\ \A f : Vouched(f)' <=> Vouched(f)
           /\ \A s : LateIn(Range(s))' <=> LateIn(Range(s))
           /\ UsedIn(Range(considered))' = UsedIn(Range(considered'))
           /\ LateIn(Range(considered))' <=> LateIn(Range(considered'))
<1>1. \A f : Vouched(f)' <=> Vouched(f)
  BY DEF Vouched, Trusted, Candidate, InTime, TrustedResponse, Answers
<1>2. \A s : LateIn(Range(s))' <=> LateIn(Range(s))
  BY DEF LateIn, Late, Range
<1>3. UsedIn(Range(considered))' = UsedIn(Range(considered'))
  BY DEF UsedIn, Range
<1>4. LateIn(Range(considered))' <=> LateIn(Range(considered'))
  BY DEF LateIn, Late, Range
<1> QED
  BY <1>1, <1>2, <1>3, <1>4

LEMMA RecordUnused ==
    ASSUME RecordKept, in' = in, usable' = usable, considered' \in Seq(Rec),
           UsedIn(Range(considered')) = UsedIn(Range(considered)),
           LateIn(Range(considered'))
    PROVE  RecordKept'
BY RecordFrame DEF RecordKept, ItemsOf

LEMMA RecordUsed ==
    ASSUME RecordKept, in' = in, NEW u, usable' = usable \cup {u},
           considered' \in Seq(Rec),
           UsedIn(Range(considered')) = UsedIn(Range(considered)) \cup u.items,
           LateIn(Range(considered')),
           \A f \in u.items : Vouched(f)
    PROVE  RecordKept'
<1>1. ItemsOf(usable') = ItemsOf(usable) \cup u.items
  <2>1. \A S : \A f : f \in ItemsOf(S) <=> \E v \in S : f \in v.items
    BY DEF ItemsOf
  <2>2. \A S : ItemsOf(S \cup {u}) = ItemsOf(S) \cup u.items
    BY <2>1
  <2> QED BY <2>2
<1>2. /\ (UsedIn(Range(considered)))' = UsedIn(Range(considered'))
      /\ (ItemsOf(usable))' = ItemsOf(usable')
      /\ LateIn(Range(considered))'
      /\ \A f : Vouched(f)' <=> Vouched(f)
  BY RecordFrame DEF ItemsOf
<1> QED
  BY <1>1, <1>2 DEF RecordKept

LEMMA RecordStep ==
    Inv /\ RecordKept /\ [Next]_vars => RecordKept'
<1> SUFFICES ASSUME Inv, RecordKept, [Next]_vars PROVE RecordKept'
  OBVIOUS
<1>0. in \in Input /\ considered \in Seq(Rec) /\ LateIn(Range(considered))
  BY DEF Inv, RecordKept
<1>1. ASSUME NEW b \in left, PassOver(b) \/ RefuseCrl(b) \/ StaleCrl(b)
      PROVE  RecordKept'
  <2>1. in' = in /\ usable' = usable /\ b \in Bases
    BY <1>1 DEF PassOver, RefuseCrl, StaleCrl, Next1, Inv, Placed
  <2> DEFINE c == considered'
  <2>2. CASE PassOver(b)
    <3>1. c = Entered(b)
      BY <2>2 DEF PassOver
    <3> QED BY <1>0, <2>1, <3>1, EnteredIs, RecordUnused
  <2>3. CASE RefuseCrl(b)
    <3>1. PICK S : c = MarkItems(Entered(b), S, "unverified")
      BY <2>3 DEF RefuseCrl
    <3>2. /\ Entered(b) \in Seq(Rec) /\ LateIn(Range(Entered(b)))
          /\ UsedIn(Range(Entered(b))) = UsedIn(Range(considered))
      BY <1>0, <2>1, EnteredIs
    <3>3. c \in Seq(Rec) /\ UsedIn(Range(c)) = UsedIn(Range(considered)) /\ LateIn(Range(c))
      BY <3>1, <3>2, MarkKeeps
    <3> QED BY <2>1, <3>3, RecordUnused
  <2>4. CASE StaleCrl(b)
    <3>1. \E S, T : c = MarkItems(MarkItems(EnteredVerified(b), S, "stale"), T, "current")
      BY <2>4 DEF StaleCrl
    <3>2. PICK S, T : c = MarkItems(MarkItems(EnteredVerified(b), S, "stale"), T, "current")
      BY <3>1
    <3> DEFINE s == EnteredVerified(b)
               t == MarkItems(s, S, "stale")
    <3>3. s \in Seq(Rec) /\ LateIn(Range(s)) /\ UsedIn(Range(s)) = UsedIn(Range(considered))
      BY <1>0, <2>1, EnteredVerifiedIs
    <3> HIDE DEF s
    <3>4. t \in Seq(Rec) /\ LateIn(Range(t)) /\ UsedIn(Range(t)) = UsedIn(Range(s))
      BY <3>3, MarkKeeps
    <3>5. c = MarkItems(t, T, "current")
      BY <3>2 DEF s
    <3> HIDE DEF t, c
    <3>6. c \in Seq(Rec) /\ LateIn(Range(c)) /\ UsedIn(Range(c)) = UsedIn(Range(t))
      BY <3>4, <3>5, MarkKeeps
    <3> QED BY <2>1, <3>3, <3>4, <3>6, RecordUnused DEF c
  <2> QED BY <1>1, <2>2, <2>3, <2>4
<1>2. ASSUME NEW b \in left, UseCrl(b)
      PROVE  RecordKept'
  <2> DEFINE d == UsableDelta(b)
             newer == IF d = None THEN b ELSE d
             P == Parts(b, d)
             u == [from |-> newer.from, rank |-> 1, fp |-> newer.fp, base |-> b.fp,
                   items |-> {x.fp : x \in P},
                   status |-> IF Listed(Merged(b, d)) THEN "REVOKED" ELSE "GOOD"]
             s == EnteredVerified(b)
  <2>1. /\ in' = in /\ b \in Bases /\ ~ Late(b) /\ InScope(b) /\ b.signed
        /\ usable' = usable \cup {u} /\ considered' = MarkItems(s, P, "used")
    BY <1>2 DEF UseCrl, Next1, Inv, Placed
  <2>2. u.items = {x.fp : x \in P}
    OBVIOUS
  <2>3. \A x \in P : x \in in.crls /\ Trusted(x)
    <3>1. <<b, d>> \in Combos /\ TrustedCombo(<<b, d>>)
      BY <1>0, <2>1, UsedIsTrusted
    <3> QED BY <3>1 DEF Combos, TrustedCombo, Bases, Parts
  <2>4. /\ s \in Seq(Rec) /\ LateIn(Range(s)) /\ UsedIn(Range(s)) = UsedIn(Range(considered))
        /\ \A x \in P : Open(Range(s), x)
    BY <1>0, <2>1, EnteredVerifiedIs
  <2> HIDE DEF u, P, s
  <2>5. /\ considered' \in Seq(Rec)
        /\ UsedIn(Range(considered')) = UsedIn(Range(s)) \cup {x.fp : x \in P}
        /\ LateIn(Range(considered'))
    BY <2>1, <2>4, MarkUses
  <2>6. \A f \in u.items : Vouched(f)
    BY <2>2, <2>3 DEF Vouched
  <2> QED BY <2>1, <2>2, <2>4, <2>5, <2>6, RecordUsed
<1>3. ASSUME NEW r \in left,
             PassOverOcsp(r) \/ RefuseOcsp(r) \/ StaleOcsp(r) \/ UseOcsp(r)
      PROVE  RecordKept'
  <2>1. in' = in /\ r \in Responses /\ r \in in.ocsps
    BY <1>3 DEF PassOverOcsp, RefuseOcsp, StaleOcsp, UseOcsp, Next1, Inv, Placed, Responses
  <2>2. CASE PassOverOcsp(r) \/ RefuseOcsp(r) \/ StaleOcsp(r)
    <3>1. /\ usable' = usable
          /\ \E w \in {"late", "unverified", "stale"} :
                /\ considered' = Append(considered, Entry(r, w))
                /\ w # "late" \/ Late(r)
      BY <2>2 DEF PassOverOcsp, RefuseOcsp, StaleOcsp, EnteredOcsp
    <3>2. PICK w \in {"late", "unverified", "stale"} :
             /\ considered' = Append(considered, Entry(r, w))
             /\ w # "late" \/ Late(r)
      BY <3>1
    <3>3. w \in Why /\ w # "used"
      BY DEF Why
    <3>4. /\ considered' \in Seq(Rec) /\ LateIn(Range(considered'))
          /\ UsedIn(Range(considered')) = UsedIn(Range(considered))
      BY <1>0, <2>1, <3>2, <3>3, NewEntry
    <3> QED BY <2>1, <3>1, <3>4, RecordUnused
  <2>3. CASE UseOcsp(r)
    <3> DEFINE u == [from |-> r.from, rank |-> 0, fp |-> r.fp, base |-> r.fp,
                     items |-> {r.fp},
                     status |-> IF RevokedLater(r) THEN "GOOD" ELSE r.status]
    <3>1. /\ ~ Late(r) /\ Answers(r) /\ usable' = usable \cup {u}
          /\ considered' = Append(considered, Entry(r, "used"))
      BY <2>3 DEF UseOcsp, EnteredOcsp
    <3>2. u.items = {r.fp}
      OBVIOUS
    <3> HIDE DEF u
    <3>3. "used" \in Why /\ "used" # "late"
      BY DEF Why
    <3>4. /\ considered' \in Seq(Rec) /\ LateIn(Range(considered'))
          /\ UsedIn(Range(considered')) = UsedIn(Range(considered)) \cup {r.fp}
      BY <1>0, <2>1, <3>1, <3>3, NewEntry
    <3>5. TrustedResponse(r)
      BY <1>0, <2>1, <3>1, ItemTypes DEF TrustedResponse, InTime, Late
    <3>6. \A f \in u.items : Vouched(f)
      BY <2>1, <3>2, <3>5 DEF Vouched
    <3> QED BY <2>1, <3>1, <3>2, <3>4, <3>6, RecordUsed
  <2> QED BY <1>3, <2>2, <2>3
<1>4. CASE ToOcsp \/ Conclude \/ UNCHANGED vars
  <2>1. in' = in /\ usable' = usable /\ considered' = considered
    BY <1>4 DEF ToOcsp, Conclude, vars
  <2> QED BY <1>0, <2>1, RecordUnused
<1> QED
  BY <1>1, <1>2, <1>3, <1>4 DEF Next

(* RecordIsTrue: what considered_evidence marks as used was possessed in   *)
(* time, verifies and is part of a decisive item; every part of one is     *)
(* marked; and the items that came late are exactly those that say so.     *)
THEOREM RecordTellsTruth == Spec => []RecordIsTrue
<1>1. Init => RecordKept
  <2> SUFFICES ASSUME Init PROVE RecordKept
    OBVIOUS
  <2>1. considered = << >> /\ usable = {} /\ Range(considered) = {}
    BY DEF Init, Range
  <2> QED BY <2>1 DEF RecordKept, UsedIn, LateIn, ItemsOf
<1>2. ASSUME Inv, RecordKept PROVE RecordIsTrue
  <2> DEFINE used == {considered[i].fp : i \in {j \in DOMAIN considered :
                                                considered[j].why = "used"}}
  <2>1. in \in Input
    BY <1>2 DEF Inv
  <2>2. used = UsedIn(Range(considered))
    BY DEF UsedIn, Range
  <2>3. /\ used = UNION {u.items : u \in usable}
        /\ LateIn(Range(considered))
        /\ \A f \in used : Vouched(f)
    BY <1>2, <2>2 DEF RecordKept, ItemsOf
  <2>4. \A x \in in.crls, y \in in.ocsps : x # y
    <3>1. \A x \in in.crls : "delta" \in DOMAIN x
      BY <2>1, InputType DEF Crl
    <3>2. \A y \in in.ocsps : "delta" \notin DOMAIN y
      BY <2>1, InputType DEF Ocsp
    <3> QED BY <3>1, <3>2
  <2> HIDE DEF used
  <2>5. \A x \in in.crls : x.fp \in used => Trusted(x)
    BY <2>1, <2>3, <2>4, Fingerprints DEF Vouched
  <2>6. \A x \in in.ocsps : x.fp \in used => TrustedResponse(x)
    BY <2>1, <2>3, <2>4, Fingerprints DEF Vouched
  <2>7. \A x \in in.crls \cup in.ocsps, i \in DOMAIN considered :
           considered[i].fp = x.fp => (considered[i].why = "late" <=> ~ InTime(x))
    <3>1. \A x \in in.crls \cup in.ocsps : Late(x) <=> ~ InTime(x)
      BY <2>1, ItemTypes DEF Late, InTime
    <3>2. \A i \in DOMAIN considered : considered[i] \in Range(considered)
      BY DEF Range
    <3> QED BY <2>3, <3>1, <3>2 DEF LateIn
  <2> QED BY <2>3, <2>5, <2>6, <2>7 DEF RecordIsTrue, used
<1> QED
  BY <1>1, <1>2, RecordStep, Invariance, PTL DEF Spec
==============================================================================
