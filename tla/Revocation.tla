------------------------------ MODULE Revocation ------------------------------
(***************************************************************************)
(* One evaluation of app/revocation.py: what a certificate's status was at *)
(* signed_at, from the CRLs, delta CRLs and OCSP responses that had been   *)
(* received by knowledge_cutoff.  The engine looks at the complete CRLs    *)
(* and then at the OCSP responses, in the order of their fingerprints;     *)
(* each look is one action.  Afterwards the newest decisive item decides.  *)
(*                                                                         *)
(* What the cryptography says of an item is a field of it, and of its      *)
(* revoked entries only the one with the certificate's serial number       *)
(* counts.                                                                 *)
(***************************************************************************)
EXTENDS Integers, Sequences, FiniteSets, SequencesExt

CONSTANTS
    Input,      \* the evidence, certificates and times to evaluate
    None        \* an absent field, entry or item

Time == Nat

(* names: issuer_der is the certificate's issuer; signed: a certificate    *)
(* that may sign CRLs verifies it; roles: the certificates it covers (user *)
(* and CA unless an onlyContains flag is set).                             *)
Crl == [fp : Nat, at : Time, delta : BOOLEAN, names : BOOLEAN,
        aki : Nat \cup {None}, number : Nat \cup {None},
        base : Nat \cup {None}, from : Time, until : Time \cup {None},
        roles : SUBSET {"user", "ca"}, idp : SUBSET Nat, signed : BOOLEAN,
        entry : [date : Time, removed : BOOLEAN] \cup {None}]

(* covers: it has a response for the serial number; certid: whose certID   *)
(* hashes to an issuer of the certificate; responder: the signing times at *)
(* which its responder (the CA, or one the CA delegated to) may answer.    *)
Ocsp == [fp : Nat, at : Time, covers : BOOLEAN, certid : BOOLEAN,
         responder : SUBSET Time, signed : BOOLEAN,
         status : {"GOOD", "REVOKED", "UNKNOWN"},
         revoked : Time \cup {None}, from : Time, until : Time \cup {None}]

(* A decisive item: of a delta on its base, from and fp are the delta's.   *)
Item == [from : Time, rank : {0, 1}, fp : Nat, base : Nat, items : SUBSET Nat,
         status : {"GOOD", "REVOKED", "UNKNOWN"}]

ASSUME InputType ==
    \A i \in Input :
       /\ i.crls \subseteq Crl /\ IsFiniteSet(i.crls)
       /\ i.ocsps \subseteq Ocsp /\ IsFiniteSet(i.ocsps)
       /\ i.role \in {"user", "ca"} /\ i.dps \subseteq Nat
       /\ i.aki \in Nat \cup {None}
       /\ i.t \in Time /\ i.cutoff \in Time

(* A fingerprint is the hash of the bytes.                                 *)
ASSUME Fingerprints ==
    \A i \in Input : \A x, y \in i.crls \cup i.ocsps : x.fp = y.fp => x = y

(* A revoked response always has a time (app/evidence.py, 364 and 365).    *)
ASSUME RevokedHasTime ==
    \A i \in Input : \A r \in i.ocsps : r.status = "REVOKED" => r.revoked # None

ASSUME NoneIsNoConclusion == None \notin {"GOOD", "REVOKED"}
ASSUME NoneIsNoItem == None \notin Item

VARIABLES
    in,         \* the input
    pc,         \* crl, ocsp or done
    left,       \* the items of this family still to be looked at
    tally,      \* family -> its scope_candidates, crypto_failures, stale_any
    usable,     \* the decisive items found so far
    considered, \* considered_evidence, with the reason of each entry
    selected,   \* the item that decided, or None
    conclusion  \* and what it says

vars == <<in, pc, left, tally, usable, considered, selected, conclusion>>

------------------------------------------------------------------------------
(* Complete CRLs and the deltas that go with them *)

Candidate(c) ==
    c.names /\ (c.aki = None \/ in.aki = None \/ c.aki = in.aki)

Bases == {c \in in.crls : Candidate(c) /\ ~ c.delta}

Deltas(b) ==
    {d \in in.crls :
        /\ Candidate(d) /\ d.delta
        /\ d.aki = b.aki /\ d.idp = b.idp /\ d.base = b.number
        /\ (d.number = None \/ b.number = None \/ d.number > b.number)}

(* crl_number or -1, and 0 is false in Python.                             *)
Rank(d) == IF d.number \in {None, 0} THEN -1 ELSE d.number

(* The delta with the greatest number goes with b, of equal ones the one   *)
(* with the smaller fingerprint; when it was received does not matter yet. *)
ChosenOf(S) ==
    IF S = {} THEN None
    ELSE CHOOSE d \in S : \A e \in S \ {d} :
            Rank(d) > Rank(e) \/ (Rank(d) = Rank(e) /\ d.fp < e.fp)

ChosenDelta(b) == ChosenOf(Deltas(b))

(* Mutant: the cutoff is not looked at.                                    *)
NeverLate(x) == FALSE
Late(x) == x.at > in.cutoff

InScope(b) ==
    /\ in.role \in b.roles
    /\ (b.idp = {} \/ b.idp \cap in.dps # {})

Current(x) == x.from <= in.t /\ (x.until = None \/ in.t <= x.until)

(* Mutant: a delta is taken without its signature.                         *)
UsableDeltaUnverified(b) ==
    LET d == ChosenDelta(b) IN
    IF d = None THEN None ELSE IF Late(d) THEN None ELSE d

(* The base stands alone if its delta came late or cannot be verified.     *)
UsableDelta(b) ==
    LET d == ChosenDelta(b) IN
    IF d = None THEN None ELSE IF Late(d) \/ ~ d.signed THEN None ELSE d

Parts(b, d) == IF d = None THEN {b} ELSE {b, d}

(* The entry for the certificate once the delta is merged into the base.   *)
Merged(b, d) ==
    IF d = None THEN b.entry
    ELSE IF d.entry = None THEN b.entry
    ELSE IF d.entry.removed THEN None
    ELSE d.entry

Listed(e) == e # None /\ ~ e.removed /\ e.date <= in.t

------------------------------------------------------------------------------
(* considered_evidence *)

Entry(x, reason) ==
    [fp |-> x.fp, why |-> IF Late(x) THEN "late" ELSE reason]

(* _mark: an entry gets a reason, "used" among them, as long as it is      *)
(* pending or merely current.                                              *)
Mark(entries, why) ==
    [i \in DOMAIN entries |->
        IF /\ entries[i].fp \in DOMAIN why
           /\ entries[i].why \in {"pending", "current"}
          THEN [entries[i] EXCEPT !.why = why[entries[i].fp]]
          ELSE entries[i]]

MarkItems(entries, S, why) == Mark(entries, [f \in {x.fp : x \in S} |-> why])

Entered(b) ==
    LET d == ChosenDelta(b) IN
    considered
        \o <<Entry(b, IF InScope(b) THEN "pending" ELSE "scope")>>
        \o IF d = None THEN << >> ELSE <<Entry(d, "pending")>>

(* The same, with a delta that is in time but not verified marked as such. *)
EnteredVerified(b) ==
    LET d == ChosenDelta(b) IN
    IF d = None THEN Entered(b)
    ELSE IF Late(d) \/ d.signed THEN Entered(b)
    ELSE MarkItems(Entered(b), {d}, "unverified")

------------------------------------------------------------------------------
Families == {"crl", "ocsp"}

Init ==
    /\ in \in Input
    /\ pc = "crl"
    /\ left = Bases
    /\ tally = [f \in Families |-> [scope |-> 0, crypto |-> 0, stale |-> FALSE]]
    /\ usable = {}
    /\ considered = << >>
    /\ selected = None
    /\ conclusion = None

(* Items are taken in the order of their fingerprints, as in the manifest. *)
Next1(x) == /\ x \in left
            /\ \A y \in left : x.fp <= y.fp
            /\ left' = left \ {x}
            /\ UNCHANGED <<in, pc, selected, conclusion>>

InTally == tally' = [tally EXCEPT ![pc].scope = @ + 1]

(* Mutants: an item that fails is counted as a candidate only, or as a     *)
(* failure only.                                                           *)
FailedUncounted == InTally
FailedNoCandidate == tally' = [tally EXCEPT ![pc].crypto = @ + 1]
Failed == tally' = [tally EXCEPT ![pc].scope = @ + 1, ![pc].crypto = @ + 1]

Stale == tally' = [tally EXCEPT ![pc].scope = @ + 1, ![pc].stale = TRUE]

(* A complete CRL that came late or does not cover the certificate.        *)
PassOver(b) ==
    /\ pc = "crl" /\ Next1(b)
    /\ (Late(b) \/ ~ InScope(b))
    /\ considered' = Entered(b)
    /\ UNCHANGED <<tally, usable>>

RefuseCrl(b) ==
    /\ pc = "crl" /\ Next1(b)
    /\ ~ Late(b) /\ InScope(b) /\ ~ b.signed
    /\ LET d == ChosenDelta(b)
           all == IF d = None THEN {b} ELSE IF Late(d) THEN {b} ELSE {b, d}
       IN considered' = MarkItems(Entered(b), all, "unverified")
    /\ Failed
    /\ UNCHANGED usable

StaleCrl(b) ==
    /\ pc = "crl" /\ Next1(b)
    /\ ~ Late(b) /\ InScope(b) /\ b.signed
    /\ LET all == Parts(b, UsableDelta(b))
           old == {x \in all : ~ Current(x)}
       IN /\ old # {}
          /\ considered' = MarkItems(MarkItems(EnteredVerified(b), old, "stale"),
                                     all \ old, "current")
    /\ Stale
    /\ UNCHANGED usable

UseCrl(b) ==
    /\ pc = "crl" /\ Next1(b)
    /\ ~ Late(b) /\ InScope(b) /\ b.signed
    /\ LET d == UsableDelta(b)
           newer == IF d = None THEN b ELSE d
       IN /\ \A x \in Parts(b, d) : Current(x)
          /\ usable' = usable \cup
               {[from |-> newer.from, rank |-> 1, fp |-> newer.fp, base |-> b.fp,
                 items |-> {x.fp : x \in Parts(b, d)},
                 status |-> IF Listed(Merged(b, d)) THEN "REVOKED" ELSE "GOOD"]}
          /\ considered' = MarkItems(EnteredVerified(b), Parts(b, d), "used")
    /\ InTally

ToOcsp ==
    /\ pc = "crl" /\ left = {}
    /\ pc' = "ocsp"
    /\ left' = {r \in in.ocsps : r.covers}
    /\ UNCHANGED <<in, tally, usable, considered, selected, conclusion>>

------------------------------------------------------------------------------
(* OCSP responses *)

EnteredOcsp(r, why) == Append(considered, Entry(r, why))

PassOverOcsp(r) ==
    /\ pc = "ocsp" /\ Next1(r)
    /\ Late(r)
    /\ considered' = EnteredOcsp(r, "late")
    /\ UNCHANGED <<tally, usable>>

(* certID, responder and signature, in this order, all count alike.        *)
Answers(r) == r.certid /\ in.t \in r.responder /\ r.signed

RefuseOcsp(r) ==
    /\ pc = "ocsp" /\ Next1(r)
    /\ ~ Late(r) /\ ~ Answers(r)
    /\ considered' = EnteredOcsp(r, "unverified")
    /\ Failed
    /\ UNCHANGED usable

RevokedBy(r) == r.status = "REVOKED" /\ r.revoked # None /\ r.revoked <= in.t
RevokedLater(r) == r.status = "REVOKED" /\ r.revoked # None /\ r.revoked > in.t

(* A revocation before signed_at decides whatever the window of the        *)
(* response, everything else must be current.                              *)
Decides(r) == RevokedBy(r) \/ Current(r)

StaleOcsp(r) ==
    /\ pc = "ocsp" /\ Next1(r)
    /\ ~ Late(r) /\ Answers(r) /\ ~ Decides(r)
    /\ considered' = EnteredOcsp(r, "stale")
    /\ Stale
    /\ UNCHANGED usable

UseOcsp(r) ==
    /\ pc = "ocsp" /\ Next1(r)
    /\ ~ Late(r) /\ Answers(r) /\ Decides(r)
    /\ usable' = usable \cup
         {[from |-> r.from, rank |-> 0, fp |-> r.fp, base |-> r.fp,
           items |-> {r.fp},
           status |-> IF RevokedLater(r) THEN "GOOD" ELSE r.status]}
    /\ considered' = EnteredOcsp(r, "used")
    /\ InTally

------------------------------------------------------------------------------
(* The decision *)

(* Mutant: the oldest item decides.                                        *)
OlderFirst(u, v) ==
    \/ u.from < v.from
    \/ u.from = v.from /\ u.rank < v.rank
    \/ u.from = v.from /\ u.rank = v.rank /\ u.fp < v.fp
    \/ u.from = v.from /\ u.rank = v.rank /\ u.fp = v.fp /\ u.base <= v.base

(* The newest generation first, then OCSP, then the smaller fingerprint;   *)
(* sort is stable, so one delta on two bases leaves the first base first.  *)
Precedes(u, v) ==
    \/ u.from > v.from
    \/ u.from = v.from /\ u.rank < v.rank
    \/ u.from = v.from /\ u.rank = v.rank /\ u.fp < v.fp
    \/ u.from = v.from /\ u.rank = v.rank /\ u.fp = v.fp /\ u.base <= v.base

(* The conclusion when nothing is decisive.  Candidates and failures are   *)
(* counted by item, staleness by family.                                   *)
Fallback ==
    LET scope == tally["crl"].scope + tally["ocsp"].scope
        crypto == tally["crl"].crypto + tally["ocsp"].crypto
        stale == Cardinality({f \in Families : tally[f].stale})
    IN CASE scope = 0 -> "UNKNOWN"
         [] scope > 0 /\ stale > 0 /\ crypto = 0 /\ scope <= stale -> "STALE"
         [] scope > 0 /\ crypto > 0 /\ crypto >= scope - stale
              -> "MALFORMED_EVIDENCE"
         [] scope > 0 /\ stale > 0
              /\ ~ (crypto > 0 /\ crypto >= scope - stale) -> "STALE"
         [] OTHER -> "UNKNOWN"

Conclude ==
    /\ pc = "ocsp" /\ left = {}
    /\ pc' = "done"
    /\ IF usable = {}
         THEN selected' = None /\ conclusion' = Fallback
         ELSE \E u \in usable :
                /\ \A v \in usable : Precedes(u, v)
                /\ selected' = u
                /\ conclusion' = u.status
    /\ UNCHANGED <<in, left, tally, usable, considered>>

Next ==
    \/ \E b \in left : PassOver(b) \/ RefuseCrl(b) \/ StaleCrl(b) \/ UseCrl(b)
    \/ ToOcsp
    \/ \E r \in left : PassOverOcsp(r) \/ RefuseOcsp(r) \/ StaleOcsp(r) \/ UseOcsp(r)
    \/ Conclude

Spec == Init /\ [][Next]_vars

------------------------------------------------------------------------------
(* What the evidence says, without the engine *)

InTime(x) == x.at <= in.cutoff
Trusted(c) == Candidate(c) /\ InTime(c) /\ c.signed

(* The complete CRLs in scope, alone or with a delta that fits.            *)
Combos == {c \in Bases \X (in.crls \cup {None}) :
              InScope(c[1]) /\ (c[2] = None \/ c[2] \in Deltas(c[1]))}

TrustedCombo(c) == \A x \in Parts(c[1], c[2]) : Trusted(x)
CurrentCombo(c) == \A x \in Parts(c[1], c[2]) : Current(x)

Responses == {r \in in.ocsps : r.covers}
TrustedResponse(r) == InTime(r) /\ Answers(r)

(* Some trusted evidence that was current at signed_at shows no revocation *)
(* by then.                                                                *)
Cleared ==
    \/ \E c \in Combos : /\ TrustedCombo(c) /\ CurrentCombo(c)
                         /\ ~ Listed(Merged(c[1], c[2]))
    \/ \E r \in Responses : /\ TrustedResponse(r) /\ Current(r)
                            /\ (r.status = "GOOD" \/ RevokedLater(r))

(* Some trusted evidence, of whatever date, records a revocation by then.  *)
Condemned ==
    \/ \E c \in Combos : TrustedCombo(c) /\ Listed(Merged(c[1], c[2]))
    \/ \E r \in Responses : TrustedResponse(r) /\ RevokedBy(r)

------------------------------------------------------------------------------
(* Properties *)

(* The variables have their types, and the tally of a family counts each   *)
(* item once: the failed ones and the decisive ones are candidates.        *)
TypeOK ==
    /\ pc \in {"crl", "ocsp", "done"}
    /\ left \subseteq in.crls \cup in.ocsps
    /\ tally \in [Families -> [scope : Nat, crypto : Nat, stale : BOOLEAN]]
    /\ \A f \in Families :
          tally[f].scope >= tally[f].crypto
              + Cardinality({u \in usable : u.rank = IF f = "ocsp" THEN 0 ELSE 1})
    /\ \A u \in usable : u.status \in {"GOOD", "REVOKED", "UNKNOWN"}
    /\ selected \in usable \cup {None}
    /\ conclusion \in {"GOOD", "REVOKED", "UNKNOWN", "STALE",
                       "MALFORMED_EVIDENCE", None}

(* A conclusion rests on evidence that was possessed by the cutoff, that   *)
(* verifies, and that says so: GOOD on something current at signed_at,     *)
(* REVOKED on a recorded revocation no later than signed_at.               *)
Grounded ==
    /\ conclusion = "GOOD" => Cleared
    /\ conclusion = "REVOKED" => Condemned

(* The record of the evidence is true: what is marked used was possessed   *)
(* in time, verifies and is part of a decisive item; every part of one is  *)
(* marked; and the items that came late are exactly those that say so.     *)
RecordIsTrue ==
    LET used == {considered[i].fp : i \in {j \in DOMAIN considered :
                                             considered[j].why = "used"}}
    IN pc = "done" =>
        /\ used = UNION {u.items : u \in usable}
        /\ \A x \in in.crls : x.fp \in used => Trusted(x)
        /\ \A x \in in.ocsps : x.fp \in used => TrustedResponse(x)
        /\ \A x \in in.crls \cup in.ocsps, i \in DOMAIN considered :
              considered[i].fp = x.fp =>
                  (considered[i].why = "late" <=> ~ InTime(x))

(* No decisive response and no complete CRL without deltas is newer than   *)
(* the item selected, and of equally new ones a response is preferred.     *)
NewestDecides ==
    (pc = "done" /\ selected # None) =>
        /\ \A r \in Responses : (TrustedResponse(r) /\ Decides(r)) =>
              \/ r.from < selected.from
              \/ r.from = selected.from /\ selected.rank = 0
        /\ \A b \in Bases : (/\ Trusted(b) /\ InScope(b) /\ Current(b)
                             /\ Deltas(b) = {})
                                => b.from <= selected.from

(* Without a decisive item, UNKNOWN is said exactly if no item in time and *)
(* in scope exists, MALFORMED_EVIDENCE only if one fails to verify, STALE  *)
(* only if one verifies but is not current.                                *)
FallbackExplained ==
    LET bases == {b \in Bases : InTime(b) /\ InScope(b)}
        answers == {r \in Responses : InTime(r)}
    IN (pc = "done" /\ selected = None) =>
        /\ conclusion = "UNKNOWN" <=> bases \cup answers = {}
        /\ conclusion = "MALFORMED_EVIDENCE" =>
              \/ \E b \in bases : ~ b.signed
              \/ \E r \in answers : ~ Answers(r)
        /\ conclusion = "STALE" =>
              \/ \E b \in bases :
                    /\ b.signed
                    /\ \E x \in {b} \cup Deltas(b) : ~ Current(x)
              \/ \E r \in answers : Answers(r) /\ ~ Current(r)

(* Some trusted evidence made after signed_at records a revocation by      *)
(* signed_at.                                                              *)
CondemnedLater ==
    \/ \E c \in Combos : /\ TrustedCombo(c) /\ Listed(Merged(c[1], c[2]))
                         /\ \A x \in Parts(c[1], c[2]) : x.from > in.t
    \/ \E r \in Responses : TrustedResponse(r) /\ RevokedBy(r) /\ r.from > in.t

(* A revocation by signed_at that a trusted CRL or response records later, *)
(* after signed_at, condemns the certificate unless other evidence clears  *)
(* it (README section 4, rule 4).                                          *)
ArchiveCounts ==
    (pc = "done" /\ CondemnedLater /\ ~ Cleared) => conclusion = "REVOKED"
===============================================================================
