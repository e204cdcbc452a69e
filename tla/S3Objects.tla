------------------------------ MODULE S3Objects ------------------------------
(***************************************************************************)
(* The S3 object store (internal/objectstore/s3.go): the bucket that is    *)
(* created once, single and multipart uploads, the abort of an upload that *)
(* did not complete, and the bounded read GetBytes.                        *)
(*                                                                         *)
(* Every request may be refused, or carried out and its reply lost: the    *)
(* client sees an error in both cases.  Sizes are counted in units of      *)
(* which a part holds PartUnits; the threshold of a multipart upload is    *)
(* PartUnits as well.  The service itself is external.                     *)
(***************************************************************************)
EXTENDS Integers, FiniteSets

CONSTANTS S3Sizes,       \* sizes of the object of each key
          PartUnits, S3Writers, MaxUploads \* bound

ASSUME S3Assumption ==
    /\ PartUnits \in Nat \ {0} /\ S3Sizes \subseteq Nat \ {0}

VARIABLES
    bucket,     \* ensureBucket: "unknown", "busy" (in sync.Once), "ok" or "failed"
    objects,    \* objects[n]: units stored under the key of the object of size n, 0 if none
    uploads,    \* uploads the service holds: id, size of the object, units received
    s3put,      \* s3put[p]: step of a call of Put
    answered,   \* objects whose ref was returned
    abortLost,  \* uploads whose abort failed, or whose id never reached the client
    nextId,     \* calls and uploads begun so far; ids of uploads are taken from it
    got         \* the last result of GetBytes: the limit, what came, the object

s3Vars == <<bucket, objects, uploads, s3put, answered, abortLost, nextId, got>>

NoPut == [pc |-> "rest", n |-> 0, id |-> 0, offset |-> 0]
Smaller(a, b) == IF a < b THEN a ELSE b

Step(p, pc) == s3put' = [s3put EXCEPT ![p].pc = pc]
Fail(p) == s3put' = [s3put EXCEPT ![p] = NoPut]
Upload(id) == CHOOSE u \in uploads : u.id = id

-----------------------------------------------------------------------------
\* The first call creates the bucket; its result, an error too, is the result of all.
ensureBucket(p) ==
    /\ s3put[p].pc = "rest" /\ nextId < MaxUploads /\ bucket # "busy"
    /\ \E n \in S3Sizes :
         s3put' = [s3put EXCEPT ![p] =
            IF bucket = "failed" THEN NoPut
            ELSE [NoPut EXCEPT !.n = n, !.pc = IF bucket = "unknown" THEN "bucket"
                                               ELSE IF n >= PartUnits THEN "create" ELSE "single"]]
    /\ bucket' = IF bucket = "unknown" THEN "busy" ELSE bucket
    /\ nextId' = nextId + 1
    /\ UNCHANGED <<objects, uploads, answered, abortLost, got>>

CreateBucket(p) ==
    /\ s3put[p].pc = "bucket"
    /\ \/ bucket' = "ok" /\ Step(p, IF s3put[p].n >= PartUnits THEN "create" ELSE "single")
       \/ bucket' = "failed" /\ Fail(p)
    /\ UNCHANGED <<objects, uploads, answered, abortLost, nextId, got>>

\* One request with the whole object and its checksum.
putSingle(p) ==
    /\ s3put[p].pc = "single"
    /\ \/ objects' = [objects EXCEPT ![s3put[p].n] = s3put[p].n] /\ answered' = answered \cup {s3put[p].n} /\ Fail(p)
       \/ objects' = [objects EXCEPT ![s3put[p].n] = s3put[p].n] /\ UNCHANGED answered /\ Fail(p)
       \/ UNCHANGED <<objects, answered>> /\ Fail(p)
    /\ UNCHANGED <<bucket, uploads, abortLost, nextId, got>>

\* The id of the upload comes in the reply.
createMultipartUpload(p) ==
    /\ s3put[p].pc = "create" /\ nextId < MaxUploads
    /\ nextId' = nextId + 1
    /\ \/ /\ uploads' = uploads \cup {[id |-> nextId + 1, n |-> s3put[p].n, units |-> 0]}
          /\ \/ s3put' = [s3put EXCEPT ![p].pc = "parts", ![p].id = nextId + 1] /\ UNCHANGED abortLost
             \/ Fail(p) /\ abortLost' = abortLost \cup {nextId + 1}
       \/ Fail(p) /\ UNCHANGED <<uploads, abortLost>>
    /\ UNCHANGED <<bucket, objects, answered, got>>

PartSize(p) == Smaller(PartUnits, s3put[p].n - s3put[p].offset)

\* uploadParts: sections of the file one after the other; an error aborts the upload.
uploadParts(p) ==
    /\ s3put[p].pc = "parts" /\ s3put[p].offset < s3put[p].n
    /\ \/ /\ uploads' = {IF u.id = s3put[p].id THEN [u EXCEPT !.units = @ + PartSize(p)] ELSE u : u \in uploads}
          /\ s3put' = [s3put EXCEPT ![p].offset = @ + Smaller(PartUnits, s3put[p].n - s3put[p].offset)]
       \/ Step(p, "abort") /\ UNCHANGED uploads
    /\ UNCHANGED <<bucket, objects, answered, abortLost, nextId, got>>

\* Mutant: the upload counts as completed before the reply is seen.
CompleteOptimistic(p) ==
    /\ s3put[p].pc = "parts" /\ s3put[p].offset = s3put[p].n
    /\ \/ /\ objects' = [objects EXCEPT ![s3put[p].n] = Upload(s3put[p].id).units]
          /\ uploads' = uploads \ {Upload(s3put[p].id)}
          /\ answered' = answered \cup {s3put[p].n}
       \/ UNCHANGED <<objects, uploads, answered>>
    /\ Fail(p)
    /\ UNCHANGED <<bucket, abortLost, nextId, got>>

\* A refusal may come in the body of a reply 200; a lost reply counts as a failure.
completeMultipartUpload(p) ==
    /\ s3put[p].pc = "parts" /\ s3put[p].offset = s3put[p].n
    /\ \/ /\ objects' = [objects EXCEPT ![s3put[p].n] = Upload(s3put[p].id).units]
          /\ uploads' = uploads \ {Upload(s3put[p].id)}
          /\ \/ answered' = answered \cup {s3put[p].n} /\ Fail(p)
             \/ UNCHANGED answered /\ Step(p, "abort")
       \/ Step(p, "abort") /\ UNCHANGED <<objects, uploads, answered>>
    /\ UNCHANGED <<bucket, abortLost, nextId, got>>

\* The abort is tried once, with a context of its own.
abortMultipartUpload(p) ==
    /\ s3put[p].pc = "abort"
    /\ \/ uploads' = {u \in uploads : u.id # s3put[p].id} /\ UNCHANGED abortLost
       \/ abortLost' = abortLost \cup {s3put[p].id} /\ UNCHANGED uploads
    /\ Fail(p)
    /\ UNCHANGED <<bucket, objects, answered, nextId, got>>

-----------------------------------------------------------------------------

\* One more than allowed, so that a longer stream shows.
Limit(max) == max + 1

\* GetBytes of an object: the size the service declares may be unknown.
GetBytes(n, max) ==
    /\ objects[n] > 0
    /\ \E declared \in {objects[n], -1} :
         got' = IF declared > max \/ Smaller(objects[n], Limit(max)) > max
                THEN [ok |-> FALSE, n |-> 0, whole |-> 0]
                ELSE [ok |-> TRUE, n |-> Smaller(objects[n], Limit(max)), whole |-> objects[n]]
    /\ UNCHANGED <<bucket, objects, uploads, s3put, answered, abortLost, nextId>>

S3Init ==
    /\ bucket = "unknown" /\ objects = [n \in S3Sizes |-> 0] /\ uploads = {}
    /\ s3put = [p \in S3Writers |-> NoPut]
    /\ answered = {} /\ abortLost = {} /\ nextId = 0 /\ got = [ok |-> FALSE, n |-> 0, whole |-> 0]

S3Next ==
    \/ \E p \in S3Writers :
         \/ ensureBucket(p) \/ CreateBucket(p) \/ putSingle(p) \/ createMultipartUpload(p)
         \/ uploadParts(p) \/ completeMultipartUpload(p) \/ abortMultipartUpload(p)
    \/ \E n \in S3Sizes, max \in S3Sizes : GetBytes(n, max)

S3Spec == S3Init /\ [][S3Next]_s3Vars

-----------------------------------------------------------------------------
\* Whatever is stored under a key is the whole object of that hash, and it is stored
\* when its ref was returned, through lost replies, short last parts and writers of the
\* same object (uploadParts, completeMultipartUpload).
ObjectWhole ==
    /\ \A n \in S3Sizes : objects[n] \in {0, n}
    /\ \A n \in answered : objects[n] = n

\* "aborts unfinished uploads on any error path" (s3.go:213-214): the service holds no
\* upload that no call works on, unless its abort failed or its id was never received.
NoOrphanUpload ==
    \A u \in uploads : u.id \in abortLost \/ \E p \in S3Writers : s3put[p].pc # "rest" /\ s3put[p].id = u.id

\* GetBytes never returns a part of an object, also when the size is unknown.
ReadWhole == got.ok => got.n = got.whole

\* Put and GetBytes deal in whole objects, through refused requests and lost replies,
\* and uploads that did not complete are aborted (Put, GetBytes).
ObjectsStored == ObjectWhole /\ NoOrphanUpload /\ ReadWhole
=============================================================================
