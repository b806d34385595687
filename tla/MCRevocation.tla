----------------------------- MODULE MCRevocation -----------------------------
(***************************************************************************)
(* Evidence for Revocation around one certificate, signed_at 2 and         *)
(* knowledge_cutoff 3: two complete CRLs, two deltas and two OCSP          *)
(* responses, each absent, sound, or with one thing wrong with it.         *)
(***************************************************************************)
EXTENDS Revocation

Dated(d) == [date |-> d, removed |-> FALSE]
Removal == [date |-> 1, removed |-> TRUE]

(* A complete CRL numbered 1, current at 2, that lists nothing.            *)
BaseCrl == [fp |-> 1, at |-> 2, delta |-> FALSE, names |-> TRUE, aki |-> 7,
            number |-> 1, base |-> None, from |-> 1, until |-> 3,
            roles |-> {"user", "ca"}, idp |-> {}, signed |-> TRUE,
            entry |-> None]

DeltaCrl == [BaseCrl EXCEPT !.fp = 3, !.delta = TRUE, !.number = 2, !.base = 1,
                            !.from = 2]

(* A GOOD response, produced at 1 and current until 3.                     *)
Response == [fp |-> 5, at |-> 2, covers |-> TRUE, certid |-> TRUE,
             responder |-> {1, 2, 3}, signed |-> TRUE, status |-> "GOOD",
             revoked |-> None, from |-> 1, until |-> 3]

(* What may be wrong with a CRL: late, forged, expired, made after         *)
(* signed_at, for CA certificates only, for another distribution point.    *)
Flawed(c) ==
    {[c EXCEPT !.at = 4], [c EXCEPT !.signed = FALSE], [c EXCEPT !.until = 1],
     [c EXCEPT !.from = 3, !.until = None], [c EXCEPT !.roles = {"ca"}],
     [c EXCEPT !.idp = {8}]}

With(c, entries) == {[c EXCEPT !.entry = e] : e \in entries}

MCBases ==
    With(BaseCrl, {None, Dated(1), Dated(3), Removal})
    \cup Flawed([BaseCrl EXCEPT !.entry = Dated(1)])

(* A second base, of the same number or the next one.                      *)
MoreBases ==
    LET b == [BaseCrl EXCEPT !.fp = 2] IN
    {b, [b EXCEPT !.from = 2, !.number = 2], [b EXCEPT !.signed = FALSE],
     [b EXCEPT !.entry = Dated(2), !.from = 2], [b EXCEPT !.until = 1]}

MCDeltas ==
    With(DeltaCrl, {None, Dated(2), Dated(3), Removal})
    \cup Flawed([DeltaCrl EXCEPT !.entry = Dated(2)])
    \cup {[DeltaCrl EXCEPT !.aki = None, !.entry = Removal]}

(* A second delta with a greater number or none, or received too late.     *)
MoreDeltas ==
    LET d == [DeltaCrl EXCEPT !.fp = 4, !.number = 3] IN
    {d, [d EXCEPT !.number = None], [d EXCEPT !.number = 2, !.entry = Dated(2)],
     [d EXCEPT !.signed = FALSE], [d EXCEPT !.entry = Removal], [d EXCEPT !.at = 4]}

Revoked(r, date) == [r EXCEPT !.status = "REVOKED", !.revoked = date]

Responses5 ==
    {Response, [Response EXCEPT !.from = 2], [Response EXCEPT !.status = "UNKNOWN"],
     Revoked(Response, 1), Revoked(Response, 3),
     [Revoked(Response, 1) EXCEPT !.from = 4, !.until = None],
     [Revoked(Response, 1) EXCEPT !.at = 4],
     [Revoked(Response, 1) EXCEPT !.signed = FALSE],
     [Response EXCEPT !.certid = FALSE], [Response EXCEPT !.responder = {3}],
     [Response EXCEPT !.until = 1], [Response EXCEPT !.covers = FALSE]}

Responses6 ==
    {[r EXCEPT !.fp = 6] : r \in {Response, [Response EXCEPT !.from = 2],
                                  Revoked(Response, 2),
                                  [Response EXCEPT !.until = 1]}}

Optional(S) == {{}} \cup {{x} : x \in S}

Case(crls, ocsps) ==
    [crls |-> crls, ocsps |-> ocsps, role |-> "user", dps |-> {9}, aki |-> 7,
     t |-> 2, cutoff |-> 3]

(* CRLs with their deltas, and CRLs against responses.                     *)
EvidenceInput ==
    {Case(a \cup b \cup d \cup e, {}) :
        a \in Optional(MCBases), b \in Optional(MoreBases),
        d \in Optional(MCDeltas), e \in Optional(MoreDeltas)}
    \cup
    {Case(a \cup b \cup d, r \cup q) :
        a \in Optional(MCBases), b \in Optional(MoreBases), d \in {{}, {DeltaCrl}},
        r \in Optional(Responses5), q \in Optional(Responses6)}

(* A sound CRL made at 3, after signed_at and in time for the cutoff, that *)
(* records a revocation at 1, with or without a next update.               *)
ArchiveInput ==
    {Case({[BaseCrl EXCEPT !.at = 3, !.from = 3, !.until = u, !.entry = Dated(1)]},
          {}) : u \in {None, 5}}
===============================================================================
