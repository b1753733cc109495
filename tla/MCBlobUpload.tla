---------------------------- MODULE MCBlobUpload ----------------------------
(***************************************************************************)
(* Instances of BlobUpload for TLC: each run takes one of these sets of    *)
(* requests.                                                               *)
(***************************************************************************)
EXTENDS BlobUpload, TLC

Blob(n) == [i \in 1..n |-> i]

NoRequest == [op |-> "start", from |-> 0, len |-> 0, ranged |-> FALSE,
              declared |-> TRUE, digest |-> None]

Start == NoRequest
Monolithic(n, declared) ==
    [NoRequest EXCEPT !.op = "monolithic", !.len = n, !.digest = Blob(n), !.declared = declared]
Chunk(from, len, ranged) ==
    [NoRequest EXCEPT !.op = "patch", !.from = from, !.len = len, !.ranged = ranged,
                      !.declared = FALSE]
Close(from, len, ranged, digest) ==
    [NoRequest EXCEPT !.op = "put", !.from = from, !.len = len, !.ranged = ranged,
                      !.digest = digest]
Cancel == [NoRequest EXCEPT !.op = "cancel"]
Unlink(n) == [NoRequest EXCEPT !.op = "unlink", !.digest = Blob(n)]

\* Chunks with and without Content-Range, monolithic uploads, and bodies beyond the
\* limit, declared or not.
AllRequests ==
    {Start, Cancel, Monolithic(2, TRUE), Monolithic(3, FALSE), Unlink(2),
     Chunk(0, 1, FALSE), Chunk(1, 2, FALSE), Chunk(1, 1, TRUE), Close(1, 1, FALSE, Blob(2)),
     Close(0, 0, FALSE, Blob(2)), Close(0, 0, FALSE, Blob(3))}

\* Chunks with Content-Range only, sent in any order and repeated.
RangedRequests ==
    {Start, Cancel, Chunk(0, 1, TRUE), Chunk(1, 1, TRUE), Close(1, 1, TRUE, Blob(2))}

Symmetry == Permutations(Clients) \cup Permutations(Sessions)
=============================================================================
