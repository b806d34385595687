------------------------------ MODULE Evidence ------------------------------
(***************************************************************************)
(* The data the forensic store works on: items, requests, manifests and    *)
(* replies, and the pure computations on them (what a batch conflicts      *)
(* with, what a seal collects, what an adjudication reports as rejected).  *)
(* There are no variables here: EvidenceSets gives these data an abstract  *)
(* life cycle and EvidenceStore the one the two API instances implement.   *)
(*                                                                         *)
(* A Content stands for a byte string together with its SHA-256, a set id  *)
(* for the digest of the create request, a query for a normalized          *)
(* adjudication request together with its digest.                          *)
(***************************************************************************)
EXTENDS Integers, FiniteSets, FiniteSetsExt, Problems

CONSTANTS
    SetId,          \* identifiers of evidence sets
    Ref,            \* client_ref values
    Content,        \* distinct byte strings clients upload
    RequestId,      \* client_request_id values
    Query,          \* normalized adjudication requests
    Found,          \* at which of the lookups by name, made while paths and CRL
                    \* or OCSP signers are searched, a query comes to each
                    \* certificate (0: never)
    Request,        \* the HTTP requests clients may send, and send again
    None,           \* SQL NULL, an absent row, an absent field

    Rejected,       \* bytes the parsers refuse with MALFORMED or UNSUPPORTED
    Unsealable,     \* bytes on which the scan made by seal raises
    Unparsable,     \* bytes on which a parser raises another exception
    Forged,         \* certificates that are not signed by their own key
    Digest,         \* rank of a SHA-256 among those of all contents
    Entries,        \* number of revoked entries a CRL holds

    MaxCerts,       \* 100_000 in the code
    MaxRevocation,  \* 2_000 CRLs and OCSP responses together
    MaxEntries      \* 1_000_000 entries over all CRLs of a set

Kind == {"certificate", "crl", "ocsp"}
Op == {"create", "items", "seal", "adjudicate"}
Time == Nat

(* A row of the table items, without its set_id. *)
Row == [ref : Ref, kind : Kind, content : Content, at : Time]

(* What an HTTP request carries once it is normalized.  A create request   *)
(* has in "set" the id its content hashes to; batch is empty unless op is  *)
(* "items", query is None unless op is "adjudicate".                       *)
RequestRecord == [op : Op, rid : RequestId, set : SetId,
                  batch : SUBSET Row, query : Query \cup {None}]

ASSUME RequestType ==
    /\ Request \subseteq RequestRecord
    /\ \A r \in Request :
          /\ (r.op = "items") <=> (r.batch # {})
          /\ (r.op = "adjudicate") => (r.query \in Query)

(* An upload is a JSON list, bounded by MAX_BATCH_ITEMS.                   *)
ASSUME BatchesFinite == \A r \in Request : IsFiniteSet(r.batch)

(* The set id is a hash of the create request, so one id has one request.  *)
ASSUME CreateIsHashed ==
    \A r, q \in Request :
       (r.op = "create" /\ q.op = "create" /\ r.set = q.set) => r = q

(* What a query names.                                                     *)
ASSUME QueryType ==
    Query \subseteq [leaf : Content, anchors : SUBSET Content, id : RequestId]

(* Given the contents of the evidence; times of receipt, one per set, are  *)
(* left out.                                                               *)
ASSUME FoundType ==
    Found \in [Query -> [SUBSET Content -> [Content -> Nat]]]

ASSUME ContentType ==
    /\ Rejected \subseteq Content
    /\ Unsealable \subseteq Content
    /\ Unparsable \subseteq Content
    /\ Forged \subseteq Content \ Rejected
    /\ Entries \in [Content -> Nat]

(* Different bytes have different digests.                                 *)
ASSUME DigestType ==
    /\ Digest \in [Content -> Nat]
    /\ \A c, d \in Content : Digest[c] = Digest[d] => c = d

ASSUME LimitType ==
    MaxCerts \in Nat /\ MaxRevocation \in Nat /\ MaxEntries \in Nat

ASSUME NoneIsNoRecord == None \notin Request

------------------------------------------------------------------------------
(* Uploads *)

Contents(batch) == {row.content : row \in batch}

(* Mutant: only the batch itself is checked for a ref used twice.          *)
CompatibleWithin(stored, batch) ==
    \A row \in batch, other \in batch : row.ref = other.ref => row = other

(* Every ref of the batch is new, or is stored already with the same kind, *)
(* content and received_at; within a batch the later item meets the        *)
(* earlier one in the table.                                               *)
Compatible(stored, batch) ==
    \A row \in batch, other \in stored \cup batch :
        row.ref = other.ref => row = other

------------------------------------------------------------------------------
(* Seal *)

Evidenced == [content : Content, at : Time]

Manifest == [certs : SUBSET Content,
             crls : SUBSET Evidenced, ocsps : SUBSET Evidenced]

(* Mutant: the last row of a content wins instead of the earliest.         *)
Latest(rows, kind) ==
    LET mine == {row \in rows : row.kind = kind} IN
    {[content |-> row.content, at |-> row.at] :
        row \in {r \in mine :
                    \A q \in mine : q.content = r.content => r.at >= q.at}}

(* One entry per distinct content, with the earliest time of possession.   *)
Earliest(rows, kind) ==
    LET mine == {row \in rows : row.kind = kind} IN
    {[content |-> row.content, at |-> row.at] :
        row \in {r \in mine :
                    \A q \in mine : q.content = r.content => r.at <= q.at}}

ManifestOf(rows) ==
    [certs |-> {row.content : row \in {r \in rows : r.kind = "certificate"}},
     crls  |-> Earliest(rows, "crl"),
     ocsps |-> Earliest(rows, "ocsp")]

RevocationEntries(m) ==
    MapThenSumSet(LAMBDA c : Entries[c], {e.content : e \in m.crls})

TooManyObjects(m) ==
    \/ Cardinality(m.certs) > MaxCerts
    \/ Cardinality(m.crls) + Cardinality(m.ocsps) > MaxRevocation

(* The bytes seal reads back: every certificate for the name index, every  *)
(* CRL for the number of its entries.                                      *)
Scanned(m) == m.certs \cup {e.content : e \in m.crls}

(* Mutant: the limit on certificates counts rows, not distinct contents.   *)
SealStatusByRows(rows, blobs) ==
    LET m == ManifestOf(rows) IN
    IF Cardinality({r \in rows : r.kind = "certificate"}) > MaxCerts
       \/ TooManyObjects(m) THEN 409
    ELSE IF ~ (Scanned(m) \subseteq blobs) THEN 404
    ELSE IF Scanned(m) \cap Unsealable # {} THEN 500
    ELSE IF RevocationEntries(m) > MaxEntries THEN 409
    ELSE 200

(* The status a first seal of a set with these rows ends with.             *)
SealStatus(rows, blobs) ==
    LET m == ManifestOf(rows) IN
    IF TooManyObjects(m) THEN 409
    ELSE IF ~ (Scanned(m) \subseteq blobs) THEN 404
    ELSE IF Scanned(m) \cap Unsealable # {} THEN 500
    ELSE IF RevocationEntries(m) > MaxEntries THEN 409
    ELSE 200

------------------------------------------------------------------------------
(* Adjudication *)

Revocation(m) == {e.content : e \in m.crls \cup m.ocsps}

(* The anchors are checked in the order of their digests, before any CRL   *)
(* or OCSP response is loaded: one that does not parse is an error, one    *)
(* that is not self-signed ends the adjudication with a result.            *)
Early(q) ==
    \E a \in q.anchors \cap Forged :
        \A b \in q.anchors : Digest[b] < Digest[a] => b \notin Rejected

(* The certificates parsed before the leaf is looked at: the anchors, and  *)
(* without a name index the whole set.                                     *)
ParsedFirst(m, q, indexed) ==
    IF indexed THEN q.anchors ELSE q.anchors \cup m.certs

(* The position at which the search looks up each certificate by name.     *)
Position(m, q) == Found[q][m.certs \cup Revocation(m)]

(* Mutant: the search finds the certificates already parsed only.          *)
LookedUpNone(m, q) == {}

LookedUp(m, q) ==
    IF Early(q) THEN {} ELSE {c \in m.certs : Position(m, q)[c] > 0}

ParsedCerts(m, q, indexed) ==
    m.certs \cap (ParsedFirst(m, q, indexed) \cup {q.leaf} \cup LookedUp(m, q))

Parsed(m, q, indexed) ==
    ParsedCerts(m, q, indexed) \cup (IF Early(q) THEN {} ELSE Revocation(m))

(* The outcome of run_core: 201 with a result, or the error it raises.     *)
CoreStatus(m, q, indexed, blobs) ==
    IF ~ (q.anchors \cup {q.leaf} \subseteq m.certs) THEN 422
    ELSE IF ~ (Parsed(m, q, indexed) \subseteq blobs) THEN 404
    ELSE IF ParsedFirst(m, q, indexed) \cap Unparsable # {} THEN 500
    ELSE IF q.leaf \in Unparsable THEN 500
    ELSE IF q.leaf \in Rejected THEN 422
    ELSE IF ~ Early(q) /\ q.anchors \cap Rejected # {} THEN 422
    ELSE IF Parsed(m, q, indexed) \cap Unparsable # {} THEN 500
    ELSE 201

(* parse_problems at the end of a run_core that has a result.  "first" are *)
(* the refused anchors, in the order in which Python iterates over their   *)
(* set; without a name index the other certificates come next, in the      *)
(* order of the manifest; then the CRLs, the OCSP responses, and what the  *)
(* search looks up.                                                        *)
ParseProblems(m, q, indexed, first) ==
    LET certs  == IF indexed THEN first
                  ELSE Noting(first, "certificate", m.certs \cap Rejected, Digest)
        crls   == Noting(certs, "crl",
                         {e.content : e \in m.crls} \cap Rejected, Digest)
        loaded == Noting(crls, "ocsp",
                         {e.content : e \in m.ocsps} \cap Rejected, Digest)
    IN IF Early(q) THEN certs
       ELSE Noting(loaded, "certificate", LookedUp(m, q) \cap Rejected,
                   Position(m, q))

RefusedAnchors(q) == {"certificate"} \X (q.anchors \cap Rejected)

(* A list of refused evidence, see Problems.tla.                           *)
ProblemList == SUBSET ((Kind \X Content) \X (Kind \X Content))

(* The rest of a result is a function of the manifest and the query.       *)
Result == [set : SetId, manifest : Manifest, query : Query,
           problems : ProblemList]

(* A row of the table adjudications is not an absent one.                  *)
ASSUME NoneIsNoRow == None \notin [set : SetId, result : Result]

ResultOf(s, m, q, indexed, first) ==
    [set |-> s, manifest |-> m, query |-> q,
     problems |-> ParseProblems(m, q, indexed, first)]

------------------------------------------------------------------------------
(* Replies *)

Success == {200, 201}
Status == Success \cup {404, 409, 422, 500}

Reply == [status : Status, manifest : Manifest \cup {None},
          result : Result \cup {None}]

(* A reply whose body says nothing beyond the request: an acknowledgement  *)
(* of a create or an upload, or an error.                                  *)
Plain(status) == [status |-> status, manifest |-> None, result |-> None]

SealReply(m) == [status |-> 200, manifest |-> m, result |-> None]

ResultReply(res) == [status |-> 201, manifest |-> None, result |-> res]

Answer == [req : Request, reply : Reply]

Succeeded(a) == a.reply.status \in Success
==============================================================================
