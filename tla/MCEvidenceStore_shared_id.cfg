SPECIFICATION Spec
INVARIANTS Fetchable
CONSTANTS
    s1 = s1
    s2 = s2
    refA = refA
    refB = refB
    refC = refC
    refD = refD
    leaf = leaf
    root = root
    odd = odd
    odder = odder
    crl = crl
    i1 = i1
    i2 = i2
    i3 = i3
    None = None
    SetId <- MCSetId
    Ref <- MCRef
    Content <- MCContent
    RequestId <- MCRequestId
    Query <- MCQuery
    Found <- MCFound
    Entries <- MCEntries
    Digest <- MCDigest
    Forged <- NoContent
    Worker = {w1}
    Request <- TwoSetRequests
    Rejected <- NoContent
    Unsealable <- NoContent
    Unparsable <- NoContent
    MaxCerts = 3
    MaxRevocation = 2
    MaxEntries = 4
    MaxCrashes = 0
