--------------------------- MODULE MCEvidenceStore ---------------------------
(***************************************************************************)
(* Small instances of EvidenceStore for TLC: contents, queries and the     *)
(* requests clients may send.  Each configuration picks one scenario.      *)
(***************************************************************************)
EXTENDS EvidenceStore, TLC

CONSTANTS
    s1, s2,             \* set ids
    refA, refB, refC, refD, \* client refs
    leaf, root,         \* certificates
    odd, odder,         \* certificates the parser refuses
    crl,                \* a CRL
    i1, i2, i3          \* request ids

MCSetId == {s1, s2}
MCRef == {refA, refB, refC, refD}
MCContent == {leaf, root, odd, odder, crl}
MCRequestId == {i1, i2, i3}

Blank == [op |-> "create", rid |-> i1, set |-> s1, batch |-> {}, query |-> None]

CreateOf(s, i) == [Blank EXCEPT !.set = s, !.rid = i]
ItemsOf(s, i, batch) == [CreateOf(s, i) EXCEPT !.op = "items", !.batch = batch]
SealOf(s, i) == [CreateOf(s, i) EXCEPT !.op = "seal"]
AskOf(s, i, q) == [CreateOf(s, i) EXCEPT !.op = "adjudicate", !.query = q]

Cert(r, c) == [ref |-> r, kind |-> "certificate", content |-> c, at |-> 0]
Crl(r, c, t) == [ref |-> r, kind |-> "crl", content |-> c, at |-> t]

(* The digests, in this order.                                            *)
MCDigest == [c \in MCContent |->
               CASE c = crl -> 1 [] c = leaf -> 2 [] c = odd -> 3
                 [] c = root -> 4 [] c = odder -> 5]

(* The query names leaf and root and finds nothing by name.                *)
Ask == [leaf |-> leaf, anchors |-> {root}, id |-> i1]

(* The leaf is its own anchor, and the search finds odd, and then odder.   *)
AskOdd == [Ask EXCEPT !.anchors = {leaf}]
MCQuery == {Ask, AskOdd}

MCFound ==
    [q \in MCQuery |-> [E \in SUBSET MCContent |-> [c \in MCContent |->
        CASE q = AskOdd /\ c = odd -> 1
          [] q = AskOdd /\ c = odder -> 2
          [] OTHER -> 0]]]

(* Each CRL lists two entries. *)
MCEntries == [c \in MCContent |-> IF c = crl THEN 2 ELSE 0]

------------------------------------------------------------------------------
(* Uploads race with each other and with the seal: the same CRL bytes at   *)
(* two times and the same certificate under two refs, and a ref (and a     *)
(* request id) used again for other content, which makes one certificate   *)
(* too many if the first upload has not arrived yet.                       *)
UploadRequests ==
    {CreateOf(s1, i1),
     ItemsOf(s1, i1, {Cert(refA, leaf), Crl(refB, crl, 2)}),
     ItemsOf(s1, i2, {Crl(refC, crl, 1), Cert(refD, leaf)}),
     ItemsOf(s1, i2, {Cert(refA, root)}),
     SealOf(s1, i1)}

(* The set also holds a certificate no lookup of the query finds.          *)
SpareRequests ==
    {CreateOf(s1, i1),
     ItemsOf(s1, i1, {Cert(refA, leaf), Cert(refB, root), Cert(refC, odd)}),
     SealOf(s1, i1),
     AskOf(s1, i1, Ask), AskOf(s1, i2, Ask)}

(* The same query about two sets that hold the same certificates.          *)
TwoSetRequests ==
    UNION {{CreateOf(s, IF s = s1 THEN i1 ELSE i2),
            ItemsOf(s, i1, {Cert(refA, leaf), Cert(refB, root)}),
            SealOf(s, i1), AskOf(s, i1, Ask)} : s \in {s1, s2}}

(* One create request id, used for two notes: two ids of sets.             *)
CreateRequests == {CreateOf(s1, i1), CreateOf(s2, i1)}

(* One upload, a seal and a question that an upload which comes too late   *)
(* leaves without its certificates; the parser refuses what it finds.      *)
AnswerRequests ==
    {CreateOf(s1, i1),
     ItemsOf(s1, i1, {Cert(refA, leaf), Cert(refB, odder), Cert(refC, odd)}),
     SealOf(s1, i1), AskOf(s1, i1, AskOdd)}

NoContent == {}
OddOnes == {odd, odder}
==============================================================================
